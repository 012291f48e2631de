------------------------- MODULE HiresGlitchProofs -------------------------
(***************************************************************************)
(* Proofs about the pulses for every width of the counter and every number *)
(* of pulses.  IInv follows a pulse clock by clock: until it ends, the     *)
(* counter is as far below the wrap as the pulse is wide, so the match     *)
(* with the compare value comes at one width only.                         *)
(***************************************************************************)
EXTENDS HiresGlitch, TLAPS

Running == {"spin", "stop"}

\* What the registers are in each place of the loop.
Registers ==
    /\ per = Top
    /\ clk <=> gpc \in Running
    /\ gpc # "idle" => cmp = Top - glitch_length
    /\ gpc = "start" => cnt = 0 /\ ~lcmpaif
    /\ gpc = "spin" => (lcmpaif <=> ended)
    /\ gpc = "stop" => ended

\* A pulse that has not ended: one clock after the start the counter is at
\* the top.
Counting ==
    gpc \in Running /\ ~ended =>
        width <= glitch_length /\ cnt = IF width = 0 THEN 0 ELSE CountMod - width

\* The loop variable and the pulses.
Counted ==
    /\ gpc # "idle" => i <= pulses
    /\ gpc \in {"start", "spin", "stop"} => i < pulses
    /\ gpc \in {"loop", "start"} => made = i
    /\ gpc \in Running => made = IF ended THEN i + 1 ELSE i

IInv == TypeOK /\ Registers /\ Counting /\ PulseWidth /\ Counted

-----------------------------------------------------------------------------
LEMMA InvInit == Init => IInv
<1> SUFFICES ASSUME Init PROVE IInv
  OBVIOUS
<1>1. ~clk /\ ~ended /\ clk \in BOOLEAN /\ lcmpaif \in BOOLEAN /\ ended \in BOOLEAN
  BY ZenonT(30) DEF Init
<1> QED
  BY <1>1, CountModAssumption, MaxPulsesAssumption
  DEF Init, IInv, TypeOK, Registers, Counting, PulseWidth, Counted, Running, Counts, Top

\* A clock of a running timer.
LEMMA TickStep == IInv /\ Tick => IInv'
<1> USE CountModAssumption, MaxPulsesAssumption
<1> SUFFICES ASSUME IInv, Tick PROVE IInv'
  OBVIOUS
<1> USE DEF IInv, TypeOK, Registers, Counting, PulseWidth, Counted, Running, Counts, Top, cpuVars
<1>1. gpc \in Running /\ gpc' = gpc /\ pulses' = pulses /\ i' = i /\ glitch_length' = glitch_length
      /\ per' = per /\ cmp' = cmp /\ (clk' <=> clk)
  BY DEF Tick
<1>2. CASE ended
  <2>1. ended' /\ width' = width /\ made' = made
    BY <1>2, ZenonT(30) DEF Tick
  <2>2. cnt' \in Counts /\ lcmpaif' \in BOOLEAN
    BY DEF Tick
  <2>3. gpc = "spin" => lcmpaif'
    BY <1>2, ZenonT(30) DEF Tick
  <2> QED
    BY <1>1, <1>2, <2>1, <2>2, <2>3 DEF Tick
<1>3. CASE ~ended
  <2>1. cnt' = CountMod - width' /\ width' = width + 1
    BY <1>1, <1>3 DEF Tick
  <2>2. ended' <=> width' = glitch_length + 1
    <3>1. ended' <=> cnt' = cmp
      BY <1>3, ZenonT(30) DEF Tick
    <3>2. cnt' = cmp <=> width' = glitch_length + 1
      BY <1>1, <1>3, <2>1
    <3> QED
      BY <3>1, <3>2
  <2>3. made' = IF ended' THEN i + 1 ELSE i
    BY <1>1, <1>3, ZenonT(30) DEF Tick
  <2>4. gpc = "spin" => (lcmpaif' <=> ended')
    BY <1>3 DEF Tick
  <2> QED
    BY <1>1, <1>3, <2>1, <2>2, <2>3, <2>4 DEF Tick
<1> QED
  BY <1>2, <1>3

LEMMA InvStep == IInv /\ [Next]_vars => IInv'
<1> USE CountModAssumption, MaxPulsesAssumption
<1> SUFFICES ASSUME IInv, [Next]_vars PROVE IInv'
  OBVIOUS
<1>1. CASE Tick
  BY <1>1, TickStep
<1> USE DEF IInv, TypeOK, Registers, Counting, PulseWidth, Counted, Running, Counts, Top, tcVars
<1>2. ASSUME NEW l \in Counts, NEW p \in 0 .. MaxPulses, Configure(l, p) PROVE IInv'
  BY <1>2 DEF Configure
<1>3. CASE Prepare
  <2>1. ended' \in BOOLEAN /\ ~ended'
    BY <1>3, ZenonT(30) DEF Prepare
  <2> QED
    BY <1>3, <2>1 DEF Prepare, CompareOf
<1>4. CASE Rewind
  <2>1. lcmpaif' \in BOOLEAN /\ ~lcmpaif'
    BY <1>4, ZenonT(30) DEF Rewind
  <2> QED
    BY <1>4, <2>1 DEF Rewind
<1>5. CASE StartTimer
  <2>1. clk' \in BOOLEAN /\ clk' /\ ended' \in BOOLEAN /\ ~ended'
    BY <1>5, ZenonT(30) DEF StartTimer
  <2> QED
    BY <1>5, <2>1 DEF StartTimer
<1>6. CASE Matched
  BY <1>6 DEF Matched
<1>7. CASE hires_stop_timer
  <2>1. clk' \in BOOLEAN /\ ~clk'
    BY <1>7, ZenonT(30) DEF hires_stop_timer
  <2> QED
    BY <1>7, <2>1 DEF hires_stop_timer
<1>8. CASE LoopDone
  BY <1>8 DEF LoopDone
<1>9. CASE UNCHANGED vars
  BY <1>9 DEF vars
<1> QED
  BY <1>1, <1>2, <1>3, <1>4, <1>5, <1>6, <1>7, <1>8, <1>9 DEF Next, GlitchStep

\* The registers, the loop and the history of the pulses agree in every state
\* of the loop over the pulses (HorrorScope.c lines 153-164, hires_glitch.c).
THEOREM InvAlways == Spec => []IInv
<1>1. Init => IInv
  BY InvInit
<1>2. IInv /\ [Next]_vars => IInv'
  BY InvStep
<1> QED
  BY <1>1, <1>2, PTL DEF Spec

\* The counter, the loop variable and the pulse count stay in their ranges for
\* every width of the counter (hires_glitch.c lines 34-64).
THEOREM TypeCorrect == Spec => []TypeOK
<1>1. IInv => TypeOK
  BY DEF IInv
<1> QED
  BY <1>1, InvAlways, PTL

\* Every pulse is glitch_length + 1 clocks wide, for every width of the
\* counter (HorrorScope.c lines 161-164, hires_glitch.c lines 31-36).
THEOREM PulseWidthAlways == Spec => []PulseWidth
<1>1. IInv => PulseWidth
  BY DEF IInv
<1> QED
  BY <1>1, InvAlways, PTL

\* After i rounds of the loop exactly i pulses have ended, for every number of
\* pulses (HorrorScope.c lines 161-164).
THEOREM PulseCountAlways == Spec => []PulseCount
<1>1. IInv => PulseCount
  BY DEF IInv, Registers, Counted, PulseCount, Running
<1> QED
  BY <1>1, InvAlways, PTL
=============================================================================
