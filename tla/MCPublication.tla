--------------------------- MODULE MCPublication ---------------------------
(***************************************************************************)
(* Publication from the point where a listing is prepared and its          *)
(* publication approved.                                                   *)
(***************************************************************************)
EXTENDS Publication, TLC

Symmetry == Permutations(Calls)

\* A preparation has run, and the founder has approved its attempt.
PreparedInit ==
    /\ keys = [op \in Ops |->
         IF op = Publish THEN NoKey
         ELSE [status |-> "SUCCEEDED", payload |-> IF op = Draft THEN 0 ELSE 1, result |-> 1]]
    /\ attempts = <<[status |-> "READY_FOR_PUBLISH", listing |-> 1, keyed |-> FALSE]>>
    /\ approvals = <<[state |-> "APPROVED", attempt |-> 1, decided |-> TRUE, result |-> "NONE"]>>
    /\ calls = [c \in Calls |-> NewCall]
    /\ writes = [op \in Ops |-> IF op = Publish THEN 0 ELSE 1]
    /\ publisher = 0

PreparedSpec == PreparedInit /\ [][Next]_vars

=============================================================================
