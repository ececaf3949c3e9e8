-------------------------- MODULE SingleUsePermit --------------------------
(***************************************************************************)
(* What the approval bridge promises its callers, without its tables: for  *)
(* each approval, an authorization that a founder gives once, for one      *)
(* binding and until a fixed time, that is used at most once before that   *)
(* time, and that can be withdrawn as long as it has not been used.        *)
(***************************************************************************)
EXTENDS Naturals

CONSTANTS
    Approvals, Bindings,
    Times,      \* the deadlines an authorization may have
    None

VARIABLES
    clock,
    authorization    \* approval -> None, or the binding, the deadline and the phase

Phases == {"GIVEN", "USED", "WITHDRAWN"}
Authorization == [binding : Bindings, until : Times, phase : Phases]

vars == <<clock, authorization>>

Init ==
    /\ clock \in Nat
    /\ authorization = [a \in Approvals |-> None]

Give(a) ==
    /\ authorization[a] = None
    /\ \E b \in Bindings, until \in Times :
        /\ clock < until
        /\ authorization' =
             [authorization EXCEPT ![a] = [binding |-> b, until |-> until, phase |-> "GIVEN"]]
    /\ UNCHANGED clock

IsGiven(a) == authorization[a] # None /\ authorization[a].phase = "GIVEN"

Use(a) ==
    /\ IsGiven(a)
    /\ clock < authorization[a].until
    /\ authorization' = [authorization EXCEPT ![a].phase = "USED"]
    /\ UNCHANGED clock

Withdraw(a) ==
    /\ IsGiven(a)
    /\ authorization' = [authorization EXCEPT ![a].phase = "WITHDRAWN"]
    /\ UNCHANGED clock

Tick ==
    /\ clock' \in Nat
    /\ clock < clock'
    /\ UNCHANGED authorization

Next == Tick \/ \E a \in Approvals : Give(a) \/ Use(a) \/ Withdraw(a)

Spec == Init /\ [][Next]_vars
=============================================================================
