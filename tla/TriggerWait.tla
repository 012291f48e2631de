---------------------------- MODULE TriggerWait ----------------------------
(***************************************************************************)
(* What a caller of trigger_wait (trigger.c) may rely on, whatever the     *)
(* timer, the DMA channel and the poll loop do underneath: a wait answers  *)
(* "caught" only if a rising edge of the trigger pin fell inside it.  An   *)
(* edge that comes too late for the poll loop may still be answered        *)
(* "timed out".  Module Trigger implements this specification, and module  *)
(* HorrorScope uses it for the commands that wait.                         *)
(***************************************************************************)

VARIABLES
    phase,      \* "idle", "waiting" (no edge yet) or "seen" (an edge fell inside)
    timedOut    \* the value the last wait returned: TRUE for a timeout

twVars == <<phase, timedOut>>

Init ==
    /\ phase = "idle"
    /\ timedOut = FALSE

\* trigger_wait is called.
Call ==
    /\ phase = "idle"
    /\ phase' = "waiting"
    /\ UNCHANGED timedOut

\* A rising edge that the running wait can still see.
Seen ==
    /\ phase = "waiting"
    /\ phase' = "seen"
    /\ UNCHANGED timedOut

ReturnCaught ==
    /\ phase = "seen"
    /\ phase' = "idle"
    /\ timedOut' = FALSE

ReturnTimedOut ==
    /\ phase \in {"waiting", "seen"}
    /\ phase' = "idle"
    /\ timedOut' = TRUE

Next == Call \/ Seen \/ ReturnCaught \/ ReturnTimedOut

Spec == Init /\ [][Next]_twVars
=============================================================================
