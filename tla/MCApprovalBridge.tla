-------------------------- MODULE MCApprovalBridge --------------------------
(***************************************************************************)
(* An instance of ApprovalBridge for TLC.                                  *)
(***************************************************************************)
EXTENDS ApprovalBridge, TLC

Symmetry == Permutations(Requests) \cup Permutations(Users) \cup Permutations(Executors)
              \cup Permutations(RequestKeys) \cup Permutations(DecisionKeys)
              \cup Permutations(IssueKeys) \cup Permutations(ClaimKeys)
              \cup Permutations(Bindings)
=============================================================================
