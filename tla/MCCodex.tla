------------------------------ MODULE MCCodex ------------------------------
(***************************************************************************)
(* The Codex validation of one connection, side by side: the initial state *)
(* chooses a part, and only that part takes steps: the other one stays     *)
(* initial.  "egress" is CodexAdmission with two runs and two              *)
(* authorizations, "chain" the same with two sessions; "owners" is         *)
(* ProcessSession with two coordinators, "recovery" with two recovery      *)
(* workers around the end of a handoff.                                    *)
(***************************************************************************)
EXTENDS CodexAdmission, ProcessSession, TLC

\* x1 and x2, and y1 and y2, are interchangeable in every part.
CONSTANTS one, x1, x2, y1, y2

VARIABLE part

Chain == INSTANCE CodexAdmission
    WITH Sessions <- {x1, x2}, Runs <- {one}, Authorizations <- {one}, Controllers <- {one},
         AuthorizationTTL <- 2, HandoffTTL <- 1, MaxCalls <- 2

Recovery == INSTANCE ProcessSession
    WITH Coordinators <- {one}, Workers <- {x1, x2}, MaxProcesses <- 1, MaxCrashes <- 0, Horizon <- 5

ASSUME DurationAssumption /\ Chain!DurationAssumption
ASSUME WindowAssumption /\ Recovery!WindowAssumption

Init ==
    \/ part = "chain" /\ Chain!AdmissionInit /\ SessionInit
    \/ part \in {"egress", "owners"} /\ AdmissionInit /\ SessionInit
    \/ part = "recovery" /\ AdmissionInit /\ Recovery!SessionInit

\* The variables of CodexAdmission and of ProcessSession without the clock.
admissionRest == <<tables, runs, calls, bundles, used, writes>>
sessionRest == <<durable, processes, exec, ran, crashes, messages, recovery>>

Next ==
    \/ part = "chain" /\ Chain!AdmissionNext /\ UNCHANGED <<part, sessionRest>>
    \/ part = "egress" /\ AdmissionNext /\ UNCHANGED <<part, sessionRest>>
    \/ part = "owners" /\ SessionNext /\ UNCHANGED <<part, admissionRest>>
    \/ part = "recovery" /\ Recovery!SessionNext /\ UNCHANGED <<part, admissionRest>>

Spec == Init /\ [][Next]_<<part, now, admissionRest, sessionRest>>

Symmetry == Permutations({x1, x2}) \cup Permutations({y1, y2})
=============================================================================
