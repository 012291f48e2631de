----------------------------- MODULE HiresGlitch -----------------------------
(***************************************************************************)
(* hires_glitch.c and the part of command 'h' in HorrorScope.c that gives  *)
(* the pulses.  Timer TCC2 runs in split mode: its low half counts down,   *)
(* from 0 on to the period, and raises LCMPAIF when it meets the compare   *)
(* value.  A pulse lasts from the start of the timer to that match; the    *)
(* CPU polls the flag and stops the timer some clocks later.               *)
(***************************************************************************)
EXTENDS Naturals

CONSTANTS
    CountMod,   \* the counter has CountMod values (256)
    MaxPulses   \* the largest value of pulses (255)

ASSUME CountModAssumption == CountMod \in Nat \ {0}
ASSUME MaxPulsesAssumption == MaxPulses \in Nat \ {0}

VARIABLES
    gpc,            \* where the CPU is
    pulses, i,      \* the setting, and the loop variable
    glitch_length,
    clk,            \* TCC2.CTRLA selects a clock
    cnt, per, cmp,  \* LCNT, LPER, LCMPA
    lcmpaif,        \* INTFLAGS.LCMPAIF
    \* history: clocks of the current pulse so far, whether it has ended, and
    \* the number of pulses that have ended
    width, ended, made

cpuVars == <<gpc, pulses, i, glitch_length>>
tcVars  == <<clk, cnt, per, cmp, lcmpaif>>
vars    == <<gpc, pulses, i, glitch_length, clk, cnt, per, cmp, lcmpaif, width, ended, made>>

Top == CountMod - 1
Counts == 0 .. Top

\* After hires_init and hires_set_period(0xff).
Init ==
    /\ gpc = "idle" /\ pulses = 1 /\ i = 0 /\ glitch_length = 0
    /\ clk = FALSE /\ cnt = 0 /\ per = Top /\ cmp = 0 /\ lcmpaif = FALSE
    /\ width = 0 /\ ended = FALSE /\ made = 0

\* Commands 'l' and 'p' between two glitches.
Configure(l, p) ==
    /\ gpc = "idle"
    /\ glitch_length' = l
    /\ pulses' = p
    /\ UNCHANGED <<gpc, i, tcVars, width, ended, made>>

\* Variant: the compare value is one too large.
CompareOfPlusOne(l) == CountMod - l

\* 0xff - glitch_length
CompareOf(l) == Top - l

\* Command 'h': counter and compare are set; the reply 'r' and the trigger
\* wait follow, whose outcome does not matter here.
Prepare ==
    /\ gpc = "idle"
    /\ gpc' = "loop"
    /\ cnt' = 0
    /\ cmp' = CompareOf(glitch_length)
    /\ i' = 0
    /\ width' = 0 /\ ended' = FALSE /\ made' = 0
    /\ UNCHANGED <<pulses, glitch_length, clk, per, lcmpaif>>

\* Variant: the counter goes on from where the last pulse left it.
RewindCounterForgotten ==
    /\ gpc = "loop"
    /\ i < pulses
    /\ gpc' = "start"
    /\ lcmpaif' = FALSE
    /\ UNCHANGED <<pulses, i, glitch_length, clk, cnt, per, cmp, width, ended, made>>

\* Variant: the flag of the last pulse is not cleared.
RewindFlagForgotten ==
    /\ gpc = "loop"
    /\ i < pulses
    /\ gpc' = "start"
    /\ cnt' = 0
    /\ UNCHANGED <<pulses, i, glitch_length, clk, per, cmp, lcmpaif, width, ended, made>>

\* hires_set_counter(0) in the loop; then hires_glitch clears the flag.
Rewind ==
    /\ gpc = "loop"
    /\ i < pulses
    /\ gpc' = "start"
    /\ cnt' = 0
    /\ lcmpaif' = FALSE
    /\ UNCHANGED <<pulses, i, glitch_length, clk, per, cmp, width, ended, made>>

\* Variant: the clock selection stays OFF, as hires_init leaves it.
StartTimerOff ==
    /\ gpc = "start"
    /\ gpc' = "spin"
    /\ width' = 0
    /\ ended' = FALSE
    /\ UNCHANGED <<pulses, i, glitch_length, tcVars, made>>

\* TCC2.CTRLA = DIV1
StartTimer ==
    /\ gpc = "start"
    /\ gpc' = "spin"
    /\ clk' = TRUE
    /\ width' = 0
    /\ ended' = FALSE
    /\ UNCHANGED <<pulses, i, glitch_length, cnt, per, cmp, lcmpaif, made>>

\* The poll loop is left.
Matched ==
    /\ gpc = "spin"
    /\ lcmpaif
    /\ gpc' = "stop"
    /\ UNCHANGED <<pulses, i, glitch_length, tcVars, width, ended, made>>

\* hires_stop_timer(); i++
hires_stop_timer ==
    /\ gpc = "stop"
    /\ gpc' = "loop"
    /\ clk' = FALSE
    /\ i' = i + 1
    /\ UNCHANGED <<pulses, glitch_length, cnt, per, cmp, lcmpaif, width, ended, made>>

LoopDone ==
    /\ gpc = "loop"
    /\ i >= pulses
    /\ gpc' = "idle"
    /\ UNCHANGED <<pulses, i, glitch_length, tcVars, width, ended, made>>

GlitchStep == Rewind \/ StartTimer \/ Matched \/ hires_stop_timer \/ LoopDone

\* One clock of the timer.
Tick ==
    /\ clk
    /\ LET next == IF cnt = 0 THEN per ELSE cnt - 1 IN
       /\ cnt' = next
       /\ lcmpaif' = (lcmpaif \/ next = cmp)
       /\ ended' = (ended \/ next = cmp)
       /\ width' = IF ended THEN width ELSE width + 1
       /\ made' = IF ~ended /\ next = cmp THEN made + 1 ELSE made
    /\ UNCHANGED <<cpuVars, clk, per, cmp>>

Next ==
    \/ \E l \in Counts, p \in 0 .. MaxPulses : Configure(l, p)
    \/ Prepare
    \/ GlitchStep
    \/ Tick

Spec == Init /\ [][Next]_vars

\* The CPU runs and so does the clock of a started timer.
FairSpec == Spec /\ WF_vars(GlitchStep) /\ WF_vars(Tick)

-----------------------------------------------------------------------------
TypeOK ==
    /\ gpc \in {"idle", "loop", "start", "spin", "stop"}
    /\ pulses \in 0 .. MaxPulses /\ i \in 0 .. MaxPulses /\ glitch_length \in Counts
    /\ clk \in BOOLEAN /\ lcmpaif \in BOOLEAN /\ ended \in BOOLEAN
    /\ cnt \in Counts /\ per \in Counts /\ cmp \in Counts
    /\ width \in 0 .. CountMod /\ made \in 0 .. MaxPulses

(***************************************************************************)
(* Every pulse of a train has the same width, one clock more than          *)
(* glitch_length, however late the CPU noticed the end of the one before:  *)
(* the counter restarts from 0 and a stale flag cannot end a pulse early   *)
(* (HorrorScope.c lines 161-164, hires_glitch.c lines 31-36).              *)
(***************************************************************************)
PulseWidth == gpc # "idle" /\ ended => width = glitch_length + 1

(***************************************************************************)
(* The loop counts the pulses that really were given: after i rounds       *)
(* exactly i pulses have ended and the output is off, so the train has the *)
(* configured number of pulses (HorrorScope.c lines 161-164).              *)
(***************************************************************************)
PulseCount == gpc = "loop" => made = i /\ i <= pulses /\ ~clk

(***************************************************************************)
(* Every train of pulses ends: the poll on LCMPAIF cannot miss the match.  *)
(***************************************************************************)
GlitchEnds == gpc = "loop" ~> gpc = "idle"
=============================================================================
