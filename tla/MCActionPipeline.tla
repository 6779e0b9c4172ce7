------------------------- MODULE MCActionPipeline -------------------------
(***************************************************************************)
(* Instances of ActionPipeline for TLC.  All rows are about one entity     *)
(* (the hardest case: they compete for it) or each about its own.          *)
(***************************************************************************)
EXTENDS ActionPipeline, TLC

CONSTANTS e1, e2

OneEntity    == {e1}
TwoEntities  == {e1, e2}

\* every row about e1
Shared == [a \in Actions |-> e1]

\* a bijection between rows and entities
Separate == CHOOSE f \in [Actions -> Entities] :
                \A a, b \in Actions : f[a] = f[b] => a = b

RowSymmetry == Permutations(Values) \cup Permutations(Actions)
=============================================================================
