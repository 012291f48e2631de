--------------------------- MODULE TriggerProofs ---------------------------
(***************************************************************************)
(* Proofs about trigger_wait for every set of timeouts and delays and      *)
(* every counter width.  The three safety properties share one inductive   *)
(* invariant, IInv, which says for each stretch of the program counter     *)
(* what the timer and DMA channel 1 can be.                                *)
(***************************************************************************)
EXTENDS Trigger, TLAPS

Setup == {"stop", "cnt", "per", "ovf", "mask", "flag", "src"}
Waiting == {"arm", "poll", "stop1", "spin", "stop0"}

\* A request is only served for a channel that is armed, and a reset channel
\* has no source.
PendingIsArmed ==
    /\ pend => Armed
    /\ pc = "init" => ~trigsrc

\* TCD0.PER holds the delay from its assignment on.
PerIsDelay == pc \in {"ovf", "mask", "flag", "src"} \cup Waiting => per = delay

\* A wait entered with the channel disarmed sets the timer up undisturbed.
SetupUndisturbed ==
    pc \in Setup /\ entry # "armed" =>
        /\ ~Armed /\ ~pend
        /\ pc # "stop" => ~clk
        /\ pc \notin {"stop", "cnt"} => cnt = 0
        /\ pc \in {"mask", "flag", "src"} => ~ovfif

\* Then the counter never runs ahead of the time since the edge.
CountsFromEdge ==
    pc \in Waiting /\ entry # "armed" =>
        /\ clk \/ pend => seen
        /\ ~clk => cnt = 0 /\ ~ovfif
        /\ ~ovfif => cnt <= per /\ cnt <= sinceEdge
        /\ ovfif => sinceEdge > delay

\* What the pin flag says from its clearing on.
FlagMeansEdge ==
    /\ pc \in {"spin", "stop0"} => intflag
    /\ pc \in Listening /\ intflag => seen
    /\ pc \notin Listening /\ pc \notin {"idle", "init"} => ~seen
    /\ pc \in {"src", "arm", "poll", "spin"} /\ intflag /\ ~lost => clk \/ pend

\* Until its transfer is made, the channel stays armed from line 48 on.
ArmedOrRunning ==
    /\ pc \in Waiting => trigsrc
    /\ pc \in {"poll", "spin"} => enable \/ clk
    /\ pc = "stop0" => ovfif

\* A wait that found the channel disabled makes exactly one transfer.
OneTransfer ==
    entry = "off" =>
        /\ pc \in Setup \cup {"arm"} => ~enable /\ ~pend
        /\ pc \in (Setup \ {"stop"}) \cup {"arm"} => ~clk
        /\ pc \in {"poll", "spin", "stop0"} => clk = ~enable
        /\ pc \in {"idle", "init"} /\ ~timedOut => ~Armed /\ ~clk

IInv ==
    /\ TypeOK /\ PendingIsArmed /\ PerIsDelay /\ SetupUndisturbed
    /\ CountsFromEdge /\ FlagMeansEdge /\ ArmedOrRunning /\ OneTransfer
-----------------------------------------------------------------------------
\* The inductive step, one lemma for the types and one for the rest.
LEMMA TypeStep == TypeOK /\ [Next]_vars => TypeOK'
<1> USE CntModAssumption, TimeoutsAssumption, DelaysAssumption
<1> SUFFICES ASSUME TypeOK, [Next]_vars PROVE TypeOK'
  OBVIOUS
<1> USE DEF TypeOK, Labels, Listening, Goto, cpuVars, portVars, tcVars, ch1Vars, histVars
<1>1. ASSUME NEW t \in Timeouts, NEW d \in Delays, Call(t, d) PROVE TypeOK'
  <2>1. ChannelState \in {"armed", "enabled", "off"}
    BY DEF ChannelState
  <2>2. t \in Nat /\ d \in 0 .. CntMod - 1
    OBVIOUS
  <2>3. entry' \in {"armed", "enabled", "off"}
    BY <1>1, <2>1 DEF Call
  <2>4. timeout' \in Nat /\ delay' \in 0 .. CntMod - 1 /\ sinceEdge' \in 0 .. CntMod
    BY <1>1, <2>2 DEF Call
  <2> QED
    BY <1>1, <2>3, <2>4, ZenonT(30) DEF Call
<1>2. CASE DmaReset
  BY <1>2, ZenonT(30) DEF DmaReset
<1>3. CASE StopTimer
  BY <1>3, ZenonT(30) DEF StopTimer
<1>4. CASE SetCnt
  BY <1>4 DEF SetCnt
<1>5. CASE SetPer
  BY <1>5 DEF SetPer
<1>6. CASE ClearOverflow
  BY <1>6, ZenonT(30) DEF ClearOverflow
<1>7. CASE SetMask
  BY <1>7 DEF SetMask
<1>8. CASE ClearFlag
  BY <1>8, ZenonT(30) DEF ClearFlag
<1>9. CASE SetTrigsrc
  BY <1>9 DEF SetTrigsrc
<1>10. CASE EnableCh1
  BY <1>10 DEF EnableCh1
<1>11. CASE PollAgain
  BY <1>11 DEF PollAgain
<1>12. CASE PollDone
  BY <1>12 DEF PollDone
<1>13. CASE ReturnTimedOut
  BY <1>13, ZenonT(30) DEF ReturnTimedOut
<1>14. CASE Overflowed
  BY <1>14 DEF Overflowed
<1>15. CASE ReturnCaught
  BY <1>15, ZenonT(30) DEF ReturnCaught
<1>16. CASE TriggerInit
  BY <1>16 DEF TriggerInit
<1>17. CASE Edge
  BY <1>17 DEF Edge, Armed
<1>18. CASE DmaTransfer
  <2>1. clk' \in BOOLEAN /\ enable' \in BOOLEAN /\ pend' \in BOOLEAN
    BY <1>18, Zenon DEF DmaTransfer
  <2>2. UNCHANGED <<cpuVars, portVars, cnt, per, ovfif, trigsrc, histVars>>
    BY <1>18 DEF DmaTransfer
  <2> QED
    BY <2>1, <2>2
<1>19. CASE Tick
  <2>1. sinceEdge' \in 0 .. CntMod /\ cnt' \in 0 .. CntMod - 1
    BY <1>19 DEF Tick
  <2>2. ovfif' \in BOOLEAN
    BY <1>19 DEF Tick
  <2> QED
    BY <1>19, <2>1, <2>2 DEF Tick
<1>20. CASE UNCHANGED vars
  BY <1>20 DEF vars
<1> QED
  BY <1>1, <1>2, <1>3, <1>4, <1>5, <1>6, <1>7, <1>8, <1>9, <1>10, <1>11, <1>12, <1>13, <1>14, <1>15, <1>16, <1>17, <1>18, <1>19, <1>20 DEF Next, WaitStep

LEMMA InvStep == IInv /\ TypeOK' /\ [Next]_vars => IInv'
<1> USE CntModAssumption, TimeoutsAssumption, DelaysAssumption
<1> SUFFICES ASSUME IInv, TypeOK', [Next]_vars PROVE IInv'
  OBVIOUS
<1> USE DEF IInv, TypeOK, PendingIsArmed, PerIsDelay, SetupUndisturbed, CountsFromEdge,
        FlagMeansEdge, ArmedOrRunning, OneTransfer, Setup, Waiting, Labels, Listening,
        Armed, Goto, cpuVars, portVars, tcVars, ch1Vars, histVars
<1>1. ASSUME NEW t \in Timeouts, NEW d \in Delays, Call(t, d) PROVE IInv'
  BY <1>1 DEF Call, ChannelState
<1>2. CASE DmaReset
  BY <1>2 DEF DmaReset
<1>3. CASE StopTimer
  BY <1>3 DEF StopTimer
<1>4. CASE SetCnt
  BY <1>4 DEF SetCnt
<1>5. CASE SetPer
  BY <1>5 DEF SetPer
<1>6. CASE ClearOverflow
  BY <1>6 DEF ClearOverflow
<1>7. CASE SetMask
  BY <1>7 DEF SetMask
<1>8. CASE ClearFlag
  BY <1>8 DEF ClearFlag
<1>9. CASE SetTrigsrc
  BY <1>9 DEF SetTrigsrc
<1>10. CASE EnableCh1
  BY <1>10 DEF EnableCh1
<1>11. CASE PollAgain
  BY <1>11 DEF PollAgain
<1>12. CASE PollDone
  BY <1>12 DEF PollDone
<1>13. CASE ReturnTimedOut
  BY <1>13 DEF ReturnTimedOut
<1>14. CASE Overflowed
  BY <1>14 DEF Overflowed
<1>15. CASE ReturnCaught
  BY <1>15 DEF ReturnCaught
<1>16. CASE TriggerInit
  BY <1>16 DEF TriggerInit
<1>17. CASE Edge
  BY <1>17 DEF Edge
<1>18. CASE DmaTransfer
  BY <1>18, ZenonT(30) DEF DmaTransfer
<1>19. CASE Tick
  <2>1. CountsFromEdge'
    <3> SUFFICES ASSUME pc \in Waiting, entry # "armed" PROVE CountsFromEdge'
      BY <1>19 DEF Tick
    <3>1. CASE ~clk
      BY <1>19, <3>1 DEF Tick
    <3>2. CASE clk /\ cnt = per
      BY <1>19, <3>2 DEF Tick
    <3>3. CASE clk /\ cnt # per /\ ovfif
      <4>1. ovfif' /\ sinceEdge' >= sinceEdge /\ clk' /\ seen' /\ delay' = delay
        BY <1>19, <3>3 DEF Tick
      <4>2. sinceEdge' > delay'
        BY <3>3, <4>1
      <4> QED
        BY <4>1, <4>2
    <3>4. CASE clk /\ cnt # per /\ ~ovfif
      <4>1. cnt < per /\ cnt < CntMod - 1 /\ seen
        BY <3>4
      <4>2. cnt' = cnt + 1 /\ sinceEdge' >= cnt + 1
        BY <1>19, <3>4, <4>1 DEF Tick
      <4>3. ~ovfif' /\ clk' /\ seen' /\ per' = per
        BY <1>19, <3>4, <4>1 DEF Tick
      <4>4. cnt' <= per' /\ cnt' <= sinceEdge'
        BY <4>1, <4>2, <4>3
      <4> QED
        BY <4>3, <4>4
    <3> QED
      BY <3>1, <3>2, <3>3, <3>4
  <2>2. SetupUndisturbed'
    BY <1>19 DEF Tick
  <2>3. ArmedOrRunning'
    BY <1>19 DEF Tick
  <2>4. PendingIsArmed' /\ PerIsDelay' /\ FlagMeansEdge' /\ OneTransfer'
    BY <1>19 DEF Tick
  <2> QED
    BY <2>1, <2>2, <2>3, <2>4
<1>20. CASE UNCHANGED vars
  BY <1>20 DEF vars
<1> QED
  BY <1>1, <1>2, <1>3, <1>4, <1>5, <1>6, <1>7, <1>8, <1>9, <1>10, <1>11, <1>12, <1>13, <1>14, <1>15, <1>16, <1>17, <1>18, <1>19, <1>20, ZenonT(30) DEF Next, WaitStep

LEMMA Inductive == Spec => []IInv
<1>1. Init => IInv
  <2> SUFFICES ASSUME Init PROVE IInv
    OBVIOUS
  <2>1. TypeOK
    <3>1. 0 \in 0 .. CntMod - 1 /\ CntMod - 1 \in 0 .. CntMod - 1 /\ 0 \in 0 .. CntMod
      BY CntModAssumption
    <3> QED
      BY <3>1, ZenonT(30) DEF Init, TypeOK, Labels
  <2>2. PendingIsArmed /\ PerIsDelay /\ SetupUndisturbed /\ CountsFromEdge
    BY DEF Init, PendingIsArmed, PerIsDelay, SetupUndisturbed, CountsFromEdge, Setup, Waiting
  <2>3. FlagMeansEdge /\ ArmedOrRunning /\ OneTransfer
    BY DEF Init, FlagMeansEdge, ArmedOrRunning, OneTransfer, Waiting, Listening
  <2> QED
    BY <2>1, <2>2, <2>3 DEF IInv
<1>2. IInv /\ [Next]_vars => IInv'
  BY TypeStep, InvStep DEF IInv
<1> QED
  BY <1>1, <1>2, PTL DEF Spec

-----------------------------------------------------------------------------
(***************************************************************************)
(* trigger.c keeps every register and local it models in its range; the    *)
(* poll budget never goes below zero.                                      *)
(***************************************************************************)
THEOREM TypeCorrect == Spec => []TypeOK
  BY Inductive, PTL DEF IInv

(***************************************************************************)
(* For every timer width, delay and budget, a wait entered with channel 1  *)
(* disarmed answers "caught" only after the full delay since an edge.      *)
(***************************************************************************)
THEOREM DelayIsHonoured == Spec => []DelayHonoured
<1>1. IInv => DelayHonoured
  BY DEF IInv, TypeOK, CountsFromEdge, FlagMeansEdge, ArmedOrRunning, Waiting, Listening,
         DelayHonoured
<1> QED
  BY <1>1, Inductive, PTL

(***************************************************************************)
(* Whenever the CPU spins on the overflow flag for an edge that found the  *)
(* channel armed, the overflow has come or is on its way.                  *)
(***************************************************************************)
THEOREM SpinningIsServed == Spec => []SpinIsServed
<1>1. IInv => SpinIsServed
  BY DEF IInv, TypeOK, FlagMeansEdge, SpinIsServed
<1> QED
  BY <1>1, Inductive, PTL

(***************************************************************************)
(* A wait that found channel 1 disabled and caught its trigger leaves the  *)
(* channel disarmed and the timer off until the next wait.                 *)
(***************************************************************************)
THEOREM CaughtIsQuiet == Spec => []CaughtLeavesQuiet
<1>1. IInv => CaughtLeavesQuiet
  BY DEF IInv, TypeOK, PendingIsArmed, OneTransfer, CaughtLeavesQuiet
<1> QED
  BY <1>1, Inductive, PTL

(***************************************************************************)
(* trigger_wait implements what TriggerWait promises to its callers: an    *)
(* answer "caught" is given only for an edge that fell inside the wait.    *)
(***************************************************************************)
THEOREM TriggerImplements == Spec => ImplementsTriggerWait
<1>1. Init => TW!Init
  BY DEF Init, TW!Init
<1>2. IInv /\ [Next]_vars => [TW!Next]_(TW!twVars)
  <2> SUFFICES ASSUME IInv, [Next]_vars PROVE [TW!Next]_(TW!twVars)
    OBVIOUS
  <2> USE DEF IInv, TypeOK, FlagMeansEdge, Labels, Listening, Goto, TW!twVars,
          cpuVars, portVars, tcVars, ch1Vars, histVars
  <2>1. ASSUME NEW t \in Timeouts, NEW d \in Delays, Call(t, d) PROVE TW!Call
    BY <2>1 DEF Call, TW!Call
  <2>2. CASE ReturnTimedOut
    BY <2>2 DEF ReturnTimedOut, TW!Next, TW!ReturnTimedOut
  <2>3. CASE ReturnCaught
    BY <2>3 DEF ReturnCaught, TW!Next, TW!ReturnCaught
  <2>4. CASE Edge
    BY <2>4 DEF Edge, TW!Next, TW!Seen
  <2>5. CASE StopTimer \/ SetCnt \/ SetPer \/ ClearOverflow \/ SetMask \/ ClearFlag
    BY <2>5 DEF StopTimer, SetCnt, SetPer, ClearOverflow, SetMask, ClearFlag
  <2>6. CASE SetTrigsrc \/ EnableCh1 \/ PollAgain \/ PollDone \/ Overflowed
    BY <2>6 DEF SetTrigsrc, EnableCh1, PollAgain, PollDone, Overflowed
  <2>7. CASE DmaReset \/ TriggerInit \/ DmaTransfer \/ Tick \/ UNCHANGED vars
    BY <2>7 DEF DmaReset, TriggerInit, DmaTransfer, Tick, vars
  <2> QED
    BY <2>1, <2>2, <2>3, <2>4, <2>5, <2>6, <2>7 DEF Next, WaitStep, TW!Next
<1> QED
  BY <1>1, <1>2, Inductive, PTL DEF Spec, ImplementsTriggerWait, TW!Spec
=============================================================================
