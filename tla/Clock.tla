------------------------------- MODULE Clock -------------------------------
(***************************************************************************)
(* What components that run beside each other share: the time that the     *)
(* database and the processes read, and the value of what is not there.    *)
(***************************************************************************)
CONSTANTS
    None,    \* NULL and undefined
    Horizon  \* bound: the clock

VARIABLE now
=============================================================================
