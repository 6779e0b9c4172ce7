------------------------ MODULE ActionStateMachine ------------------------
(***************************************************************************)
(* What services/actions/state_machine.py promises about an action row,    *)
(* whoever drives it: a status only ever moves along the ALLOWED edges, so *)
(* no state is skipped and terminal states stay terminal.  One step may    *)
(* move several rows (a worker commits a whole batch), each along one      *)
(* edge.  "none" is a row that has not been inserted yet.                  *)
(***************************************************************************)
CONSTANT Actions

VARIABLE status

\* class Status
Status == {"pending", "approved", "applied", "verified",
           "rejected", "expired", "failed", "rolled_back"}

\* ALLOWED, plus the insert of a fresh proposal
Allowed ==
    {<<"none", "pending">>,
     <<"pending", "approved">>, <<"pending", "rejected">>, <<"pending", "expired">>,
     <<"approved", "applied">>, <<"approved", "failed">>,
     <<"approved", "rejected">>, <<"approved", "expired">>,
     <<"applied", "verified">>, <<"applied", "rolled_back">>,
     <<"failed", "pending">>}

\* _assert(action, target)
Move(a) == status'[a] = status[a] \/ <<status[a], status'[a]>> \in Allowed

Init == status = [a \in Actions |-> "none"]

Next == /\ status' \in [Actions -> Status \cup {"none"}]
        /\ \A a \in Actions : Move(a)

Spec == Init /\ [][Next]_status
=============================================================================
