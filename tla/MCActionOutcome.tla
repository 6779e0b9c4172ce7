--------------------------- MODULE MCActionOutcome ---------------------------
(* Two actions: the older one has no row for a day and never completes its *)
(* second horizon, the other does badly, or too little to tell.            *)
EXTENDS ActionOutcome

CONSTANTS a0, a1, v1, v2, o1

Good == [cost |-> 5, sales |-> 50, clicks |-> 6, orders |-> 2, seen |-> 1]
Bad  == [cost |-> 5, sales |-> 10, clicks |-> 6, orders |-> 1, seen |-> 1]
Quiet == [Good EXCEPT !.clicks = 1]

MCAppliedOn == [a \in Actions |-> IF a = a0 THEN 2 ELSE 3]
MCHistories ==
    {[a \in Actions |-> [d \in Days |->
        IF d # 3 THEN Good ELSE IF a = a0 THEN NoRow ELSE x]] : x \in {Bad, Quiet}}
=============================================================================
