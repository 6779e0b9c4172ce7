----------------------------- MODULE SyncLedger -----------------------------
(***************************************************************************)
(* What sync_watermark.last_complete_date promises for one dataset: the    *)
(* mark only rises, it stays behind today, and it passes a day only when   *)
(* that day has been loaded or Amazon no longer serves it.  Loaded days    *)
(* stay loaded.                                                            *)
(***************************************************************************)
EXTENDS Naturals

CONSTANT Horizon        \* how many days back Amazon serves reports

VARIABLES today, mark, loaded

Init == mark = 0 /\ loaded = {}

Next ==
    /\ mark' >= mark
    /\ loaded \subseteq loaded'
    /\ mark' # mark =>
          /\ mark' < today'
          /\ \A d \in (mark + 1) .. mark' : d + Horizon >= today' => d \in loaded'

Spec == Init /\ [][Next]_<<today, mark, loaded>>
=============================================================================
