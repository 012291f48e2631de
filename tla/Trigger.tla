------------------------------ MODULE Trigger ------------------------------
(***************************************************************************)
(* trigger.c: the firmware's wait for a rising edge on PA2, delayed by     *)
(* timer TCD0.  The edge does two things in hardware: it sets the pin      *)
(* interrupt flag the CPU polls, and through event channel 0 it makes DMA  *)
(* channel 1 write clkSel into TCD0.CTRLA, which starts the timer without  *)
(* the CPU.  The CPU, the edge, the DMA transfer and the timer clock       *)
(* interleave between any two register writes.                             *)
(*                                                                         *)
(* The labels of pc are the register accesses of trigger_wait that the     *)
(* hardware can observe.  Accesses that change nothing the hardware looks  *)
(* at (REPCNT and TRFCNT, which the transfer reloads to the same 1,        *)
(* DMA.INTFLAGS and DMA.CH2, which is never enabled) are part of the step  *)
(* before them.                                                            *)
(***************************************************************************)
EXTENDS Naturals

CONSTANTS
    Timeouts,   \* the poll budgets trigger_wait is called with
    Delays,     \* the values of its delay argument
    CntMod      \* the timer counts modulo CntMod (2^16 on the chip)

ASSUME CntModAssumption == CntMod \in Nat \ {0}
ASSUME TimeoutsAssumption == Timeouts \subseteq Nat
ASSUME DelaysAssumption == Delays \subseteq 0 .. CntMod - 1

VARIABLES
    \* the CPU inside trigger_wait
    pc, timeout, delay, timedOut,
    \* PORTA: INT0MASK has the trigger pin, INTFLAGS is non-zero
    int0mask, intflag,
    \* TCD0: CTRLA selects a clock, CNT, PER, INTFLAGS.OVFIF
    clk, cnt, per, ovfif,
    \* DMA.CH1: CTRLA.ENABLE, TRIGSRC is EVSYS_CH0, a request is being served
    enable, trigsrc, pend,
    \* history: what channel 1 was when the wait was called, an edge has come
    \* since PORTA.INTFLAGS was cleared, timer clocks since that edge, an edge
    \* set the flag before the channel was armed
    entry, seen, sinceEdge, lost

cpuVars  == <<pc, timeout, delay, timedOut>>
portVars == <<int0mask, intflag>>
tcVars   == <<clk, cnt, per, ovfif>>
ch1Vars  == <<enable, trigsrc, pend>>
histVars == <<entry, seen, sinceEdge, lost>>
vars     == <<pc, timeout, delay, timedOut, int0mask, intflag, clk, cnt, per,
              ovfif, enable, trigsrc, pend, entry, seen, sinceEdge, lost>>

\* The places where the next edge can still be noticed by the running wait.
Listening == {"src", "arm", "poll", "stop1", "spin", "stop0"}
Labels == {"idle", "init", "stop", "cnt", "per", "ovf", "mask", "flag"} \cup Listening

\* An event on channel 0 makes DMA channel 1 request a transfer.
Armed == enable /\ trigsrc

\* Channel 1 as a wait finds it: armed by a wait that timed out, enabled by
\* trigger_init but without a source, or disabled by its last transfer.
ChannelState == IF Armed THEN "armed" ELSE IF enable THEN "enabled" ELSE "off"

-----------------------------------------------------------------------------
\* After main has called dmaadc_init and trigger_init once.
Init ==
    /\ pc = "idle" /\ timeout = 0 /\ delay = 0 /\ timedOut = FALSE
    /\ int0mask = FALSE /\ intflag = FALSE
    /\ clk = FALSE /\ cnt = 0 /\ per = CntMod - 1 /\ ovfif = FALSE
    /\ enable = TRUE /\ trigsrc = FALSE /\ pend = FALSE
    /\ entry = "enabled" /\ seen = FALSE /\ sinceEdge = 0 /\ lost = FALSE

Goto(from, to) == pc = from /\ pc' = to

\* trigger_wait(t, d) is entered.
Call(t, d) ==
    /\ Goto("idle", "stop")
    /\ timeout' = t
    /\ delay' = d
    /\ entry' = ChannelState
    /\ seen' = FALSE
    /\ sinceEdge' = 0
    /\ lost' = FALSE
    /\ UNCHANGED <<timedOut, portVars, tcVars, ch1Vars>>

\* TCD0.CTRLA = 0
StopTimer ==
    /\ Goto("stop", "cnt")
    /\ clk' = FALSE
    /\ UNCHANGED <<timeout, delay, timedOut, portVars, cnt, per, ovfif, ch1Vars, histVars>>

\* TCD0.CNT = 0
SetCnt ==
    /\ Goto("cnt", "per")
    /\ cnt' = 0
    /\ UNCHANGED <<timeout, delay, timedOut, portVars, clk, per, ovfif, ch1Vars, histVars>>

\* TCD0.PER = delay
SetPer ==
    /\ Goto("per", "ovf")
    /\ per' = delay
    /\ UNCHANGED <<timeout, delay, timedOut, portVars, clk, cnt, ovfif, ch1Vars, histVars>>

\* Variant: the overflow flag of the previous wait is not cleared.
ClearOverflowForgotten ==
    /\ Goto("ovf", "mask")
    /\ UNCHANGED <<timeout, delay, timedOut, portVars, tcVars, ch1Vars, histVars>>

\* TCD0.INTFLAGS = 0xff clears the flags; then REPCNT, TRFCNT, DMA.INTFLAGS
ClearOverflow ==
    /\ Goto("ovf", "mask")
    /\ ovfif' = FALSE
    /\ UNCHANGED <<timeout, delay, timedOut, portVars, clk, cnt, per, ch1Vars, histVars>>

\* PORTA.INT0MASK = TRIGGER_PIN
SetMask ==
    /\ Goto("mask", "flag")
    /\ int0mask' = TRUE
    /\ UNCHANGED <<timeout, delay, timedOut, intflag, tcVars, ch1Vars, histVars>>

\* Variant: the pin flag of an earlier edge is not cleared.
ClearFlagForgotten ==
    /\ Goto("flag", "src")
    /\ UNCHANGED <<timeout, delay, timedOut, portVars, tcVars, ch1Vars, histVars>>

\* PORTA.INTFLAGS = 0x3 clears the pin flag
ClearFlag ==
    /\ Goto("flag", "src")
    /\ intflag' = FALSE
    /\ UNCHANGED <<timeout, delay, timedOut, int0mask, tcVars, ch1Vars, histVars>>

\* DMA.CH1.TRIGSRC = EVSYS_CH0
SetTrigsrc ==
    /\ Goto("src", "arm")
    /\ trigsrc' = TRUE
    /\ UNCHANGED <<timeout, delay, timedOut, portVars, tcVars, enable, pend, histVars>>

\* Variant: the channel is not enabled again after its last transfer.
EnableCh1Forgotten ==
    /\ Goto("arm", "poll")
    /\ UNCHANGED <<timeout, delay, timedOut, portVars, tcVars, ch1Vars, histVars>>

\* DMA.CH1.CTRLA |= SINGLE | ENABLE
EnableCh1 ==
    /\ Goto("arm", "poll")
    /\ enable' = TRUE
    /\ UNCHANGED <<timeout, delay, timedOut, portVars, tcVars, trigsrc, pend, histVars>>

\* Variant: the loop condition does not look at timeout.
PollAgainUnbounded ==
    /\ Goto("poll", "poll")
    /\ ~intflag
    /\ timeout' = timeout - 1
    /\ UNCHANGED <<delay, timedOut, portVars, tcVars, ch1Vars, histVars>>

\* Variant: the loop body does not count down.
PollAgainForever ==
    /\ Goto("poll", "poll")
    /\ timeout > 0
    /\ ~intflag
    /\ UNCHANGED <<timeout, delay, timedOut, portVars, tcVars, ch1Vars, histVars>>

\* The body of the poll loop.
PollAgain ==
    /\ Goto("poll", "poll")
    /\ timeout > 0
    /\ ~intflag
    /\ timeout' = timeout - 1
    /\ UNCHANGED <<delay, timedOut, portVars, tcVars, ch1Vars, histVars>>

\* The loop ends; DMA.CH2.TRIGSRC = 0; the branch on timeout == 0.
PollDone ==
    /\ Goto("poll", IF timeout = 0 THEN "stop1" ELSE "spin")
    /\ timeout = 0 \/ intflag
    /\ UNCHANGED <<timeout, delay, timedOut, portVars, tcVars, ch1Vars, histVars>>

\* TCD0.CTRLA = 0; return 1
ReturnTimedOut ==
    /\ Goto("stop1", "idle")
    /\ clk' = FALSE
    /\ timedOut' = TRUE
    /\ UNCHANGED <<timeout, delay, portVars, cnt, per, ovfif, ch1Vars, histVars>>

\* while( !(TCD0.INTFLAGS & OVFIF) ) leaves the loop
Overflowed ==
    /\ Goto("spin", "stop0")
    /\ ovfif
    /\ UNCHANGED <<timeout, delay, timedOut, portVars, tcVars, ch1Vars, histVars>>

\* Variant: the timer is left running after the delay.
ReturnCaughtRunning ==
    /\ Goto("stop0", "idle")
    /\ timedOut' = FALSE
    /\ UNCHANGED <<timeout, delay, portVars, tcVars, ch1Vars, histVars>>

\* TCD0.CTRLA = 0; return 0
ReturnCaught ==
    /\ Goto("stop0", "idle")
    /\ clk' = FALSE
    /\ timedOut' = FALSE
    /\ UNCHANGED <<timeout, delay, portVars, cnt, per, ovfif, ch1Vars, histVars>>

\* dmaadc_init resets the DMA controller, a request being served included.
DmaReset ==
    /\ Goto("idle", "init")
    /\ enable' = FALSE /\ trigsrc' = FALSE /\ pend' = FALSE
    /\ UNCHANGED <<timeout, delay, timedOut, portVars, tcVars, histVars>>

\* trigger_init, called next: the channel is enabled, still without a source.
TriggerInit ==
    /\ Goto("init", "idle")
    /\ enable' = TRUE
    /\ UNCHANGED <<timeout, delay, timedOut, portVars, tcVars, trigsrc, pend, histVars>>

WaitStep ==
    \/ StopTimer \/ SetCnt \/ SetPer \/ ClearOverflow \/ SetMask \/ ClearFlag
    \/ SetTrigsrc \/ EnableCh1 \/ PollAgain \/ PollDone \/ ReturnTimedOut
    \/ Overflowed \/ ReturnCaught \/ TriggerInit

-----------------------------------------------------------------------------
\* A rising edge on the trigger pin.
Edge ==
    /\ intflag' = (intflag \/ int0mask)
    /\ pend' = (pend \/ Armed)
    /\ seen' = (seen \/ pc \in Listening)
    /\ lost' = (lost \/ (pc \in {"src", "arm"} /\ ~Armed))
    /\ UNCHANGED <<cpuVars, int0mask, tcVars, enable, trigsrc, entry, sinceEdge>>

\* Channel 1 writes clkSel to TCD0.CTRLA.  The block of one byte is the whole
\* transaction (no REPEAT), so the channel disables itself.
DmaTransfer ==
    /\ pend
    /\ clk' = TRUE
    /\ enable' = FALSE
    /\ pend' = FALSE
    /\ UNCHANGED <<cpuVars, portVars, cnt, per, ovfif, trigsrc, histVars>>

\* One prescaled timer clock.  At PER the counter restarts and raises OVFIF.
\* A counter that PER was moved below runs on to its maximum; whether that
\* wrap raises OVFIF is left open.
Tick ==
    /\ sinceEdge' = IF seen /\ sinceEdge < CntMod THEN sinceEdge + 1 ELSE sinceEdge
    /\ cnt' = IF ~clk THEN cnt ELSE IF cnt \in {per, CntMod - 1} THEN 0 ELSE cnt + 1
    /\ \E raised \in BOOLEAN :
           ovfif' = (ovfif \/ (clk /\ (cnt = per \/ (raised /\ cnt = CntMod - 1))))
    /\ UNCHANGED <<cpuVars, portVars, clk, per, ch1Vars, entry, seen, lost>>

Next ==
    \/ \E t \in Timeouts, d \in Delays : Call(t, d)
    \/ DmaReset
    \/ WaitStep
    \/ Edge
    \/ DmaTransfer
    \/ Tick

Spec == Init /\ [][Next]_vars

\* The CPU runs, a granted DMA request is served and the peripheral clock
\* never stops.  Nothing makes an edge come or the main loop call again.
Fairness == WF_vars(WaitStep) /\ WF_vars(DmaTransfer) /\ WF_vars(Tick)
FairSpec == Spec /\ Fairness

-----------------------------------------------------------------------------
TypeOK ==
    /\ pc \in Labels /\ timeout \in Nat /\ delay \in 0 .. CntMod - 1
    /\ timedOut \in BOOLEAN /\ int0mask \in BOOLEAN /\ intflag \in BOOLEAN
    /\ clk \in BOOLEAN /\ ovfif \in BOOLEAN
    /\ cnt \in 0 .. CntMod - 1 /\ per \in 0 .. CntMod - 1
    /\ enable \in BOOLEAN /\ trigsrc \in BOOLEAN /\ pend \in BOOLEAN
    /\ entry \in {"armed", "enabled", "off"} /\ seen \in BOOLEAN /\ lost \in BOOLEAN
    /\ sinceEdge \in 0 .. CntMod

(***************************************************************************)
(* A wait that was entered with channel 1 disarmed reports the trigger as  *)
(* caught only after the timer has counted the whole delay from an edge of *)
(* this wait: an old overflow, an old pin flag or a timer left running by  *)
(* an earlier wait cannot cut the delay short (trigger.c lines 35-46).     *)
(***************************************************************************)
DelayHonoured == pc = "stop0" /\ entry # "armed" => seen /\ sinceEdge > delay

(***************************************************************************)
(* The pin flag alone never ends a wait as caught with nothing behind it:  *)
(* when the CPU spins on OVFIF for an edge that did reach the channel,     *)
(* the overflow has happened, the timer runs, or the transfer that starts  *)
(* it is being served (the comment at trigger.c line 60, restricted to     *)
(* edges that find the channel armed).                                     *)
(***************************************************************************)
SpinIsServed == pc = "spin" /\ ~lost => ovfif \/ clk \/ pend

(***************************************************************************)
(* A wait that found channel 1 disabled and caught its trigger leaves the  *)
(* hardware quiet: the one transfer it armed has been used up, so no later *)
(* edge can start the timer behind the caller's back (lines 48 and 62).    *)
(***************************************************************************)
CaughtLeavesQuiet ==
    pc = "idle" /\ entry = "off" /\ ~timedOut => ~Armed /\ ~pend /\ ~clk

(***************************************************************************)
(* Every wait returns, unless an edge fell between the clearing of the pin *)
(* flag and the arming of the channel: then the CPU sees a flag for which  *)
(* no transfer was made and spins until another edge (lines 46-61).        *)
(***************************************************************************)
WaitReturns == pc = "stop" ~> (pc = "idle" \/ lost)

(***************************************************************************)
(* The wait keeps the promise of module TriggerWait: it answers "caught"   *)
(* only for an edge that fell inside it.                                   *)
(***************************************************************************)
TW == INSTANCE TriggerWait WITH
    phase <- IF pc \in {"idle", "init"} THEN "idle" ELSE IF seen THEN "seen" ELSE "waiting"

ImplementsTriggerWait == TW!Spec

-----------------------------------------------------------------------------
(***************************************************************************)
(* trigger.c line 60: "Well, we had an INTFLAG, the DMA engine should have *)
(* turned on the timer".  Once the poll loop has ended on the flag, the    *)
(* timer has overflowed, is running, or is about to be started.  Does not  *)
(* hold: see SpinIsServed.                                                 *)
(***************************************************************************)
DmaStartedTimer == pc = "spin" => ovfif \/ clk \/ pend

(***************************************************************************)
(* trigger.c line 56: "Turn off the timer, maybe it raced on."  After a    *)
(* wait that timed out the timer is off.  Does not hold: line 53 takes the *)
(* trigger source from channel 2, so channel 1 stays armed and the next    *)
(* edge starts the timer with no wait to stop it.                          *)
(***************************************************************************)
TimerOffAfterTimeout == pc = "idle" /\ timedOut => ~clk
=============================================================================
