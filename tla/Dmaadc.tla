------------------------------- MODULE Dmaadc -------------------------------
(***************************************************************************)
(* dmaadc.c: the sample memory and the DMA channel that fills it.  The ADC *)
(* converts without pause; every conversion makes channel 0, while it is   *)
(* enabled, copy one burst (two bytes in 12 bit mode, one otherwise) to    *)
(* the next place in scopeBuf.  The channel disables itself when the block *)
(* is complete.  The CPU programs the channel register by register and     *)
(* conversions fall between any two of its writes.                         *)
(*                                                                         *)
(* A byte of scopeBuf is what the properties tell apart: the pattern main  *)
(* fills it with ("U"), the zero of memset, a sample of the running        *)
(* acquisition ("new") or one written for an earlier one ("old").  REPCNT  *)
(* is 1 in every use, so a transaction is one block.                       *)
(***************************************************************************)
EXTENDS Naturals

CONSTANTS
    BufSize,    \* sizeof(scopeBuf), 1024*3 + 512
    CountMod    \* TRFCNT counts modulo CountMod (2^16): 0 stands for a full block

ASSUME BufSizeAssumption == BufSize \in Nat \ {0}
ASSUME CountModAssumption == CountMod \in Nat /\ CountMod > BufSize

VARIABLES
    apc,        \* where the CPU is in dmaadc_read_buf_ch0
    length,     \* its argument, the number of bytes
    burst,      \* DMA.CH0.CTRLA.BURSTLEN
    enable,     \* DMA.CH0.CTRLA.ENABLE
    trfcnt,     \* bytes the block still has to move
    dest,       \* offset of DESTADDR in scopeBuf; Nowhere after a reset
    scopeBuf,
    \* history: how the last block was programmed, and whether its samples
    \* are the ones the buffer is meant to hold
    arming, fresh

regVars  == <<burst, enable, trfcnt, dest>>
acqVars  == <<apc, length, burst, enable, trfcnt, dest, scopeBuf, arming, fresh>>

Lengths == 0 .. BufSize
Offsets == 0 .. BufSize - 1
Nowhere == BufSize

Minimum(a, b) == IF a < b THEN a ELSE b

\* Variant: BURSTLEN_4BYTE in 12 bit mode.
BurstOfFour(bits12) == IF bits12 THEN 4 ELSE 1

\* dmaadc_init(bits12): DMA reset, burst length and source of channel 0.
BurstOf(bits12) == IF bits12 THEN 2 ELSE 1

Init ==
    /\ apc = "idle" /\ length = 0
    /\ burst = BurstOf(TRUE) /\ enable = FALSE /\ trfcnt = 0 /\ dest = Nowhere
    /\ scopeBuf = [i \in Offsets |-> "U"]
    /\ arming = "none" /\ fresh = FALSE

\* dmaadc_init as command '8' calls it, in the middle of a block or not.
dmaadc_init(bits12) ==
    /\ apc = "idle"
    /\ burst' = BurstOf(bits12)
    /\ enable' = FALSE /\ trfcnt' = 0 /\ dest' = Nowhere
    /\ arming' = "none" /\ fresh' = FALSE
    /\ UNCHANGED <<apc, length, scopeBuf>>

\* memset(scopeBuf, 0, sizeof(scopeBuf)) at the start of command 'd'.
\* The trigger wait follows.
ClearBuf ==
    /\ apc = "idle"
    /\ apc' = "cleared"
    /\ scopeBuf' = [i \in Offsets |-> "zero"]
    /\ fresh' = FALSE
    /\ UNCHANGED <<length, regVars, arming>>

\* dmaadc_read_buf_ch0(scopeBuf, n, bits12) is entered, whatever the trigger
\* wait returned.
ReadBuf(n) ==
    /\ apc = "cleared"
    /\ apc' = "count"
    /\ length' = n
    /\ UNCHANGED <<regVars, scopeBuf, arming, fresh>>

\* Variant: TRFCNT takes the number of transfers, not of bytes.
BlockLengthInTransfers(n) == IF n = 0 THEN CountMod ELSE (n + burst - 1) \div burst

BlockLength(n) == IF n = 0 THEN CountMod ELSE n

\* REPCNT = 1; TRFCNT = length; CTRLA |= REPEAT
SetCount ==
    /\ apc = "count"
    /\ apc' = "dest"
    /\ trfcnt' = BlockLength(length)
    /\ arming' = IF enable THEN "overlap" ELSE IF length = 0 THEN "zero" ELSE "clean"
    /\ UNCHANGED <<length, burst, enable, dest, scopeBuf, fresh>>

\* Variant: the destination is not set.
SetDestForgotten ==
    /\ apc = "dest"
    /\ apc' = "enable"
    /\ UNCHANGED <<length, regVars, scopeBuf, arming, fresh>>

\* DESTADDR = buf; INTFLAGS = 0
SetDest ==
    /\ apc = "dest"
    /\ apc' = "enable"
    /\ dest' = 0
    /\ UNCHANGED <<length, burst, enable, trfcnt, scopeBuf, arming, fresh>>

\* Variant: the channel is programmed but not started.
EnableForgotten ==
    /\ apc = "enable"
    /\ apc' = "spin"
    /\ fresh' = TRUE
    /\ UNCHANGED <<length, regVars, scopeBuf, arming>>

\* CTRLA |= ENABLE; interrupts off
Enable ==
    /\ apc = "enable"
    /\ apc' = "spin"
    /\ enable' = TRUE
    /\ fresh' = TRUE
    /\ UNCHANGED <<length, burst, trfcnt, dest, scopeBuf, arming>>

\* while(!(CTRLA & ENABLE)) is left when ENABLE reads as set; interrupts on.
ReadDone ==
    /\ apc = "spin"
    /\ enable
    /\ apc' = "idle"
    /\ UNCHANGED <<length, regVars, scopeBuf, arming, fresh>>

ReadStep == SetCount \/ SetDest \/ Enable \/ ReadDone

\* A conversion ends: channel 0 moves one burst, the last one cut to what is
\* left.  With the last byte it disables itself and reloads DESTADDR
\* (DESTRELOAD_TRANSACTION), which every block has from SetDest.  What it
\* writes past the buffer is not followed further.
Convert ==
    /\ enable
    /\ LET n == Minimum(burst, trfcnt) IN
       /\ scopeBuf' = [i \in Offsets |->
              IF i \in dest .. dest + n - 1 THEN (IF fresh THEN "new" ELSE "old")
              ELSE scopeBuf[i]]
       /\ dest' = IF trfcnt > n THEN dest + n ELSE 0
       /\ trfcnt' = trfcnt - n
       /\ enable' = (trfcnt > n)
    /\ UNCHANGED <<apc, length, burst, arming, fresh>>

Next ==
    \/ \E b \in BOOLEAN : dmaadc_init(b)
    \/ ClearBuf
    \/ \E n \in Lengths : ReadBuf(n)
    \/ ReadStep
    \/ Convert

Spec == Init /\ [][Next]_acqVars

\* The CPU runs, and the ADC never stops converting.
FairSpec == Spec /\ WF_acqVars(ReadStep) /\ WF_acqVars(Convert)

-----------------------------------------------------------------------------
TypeOK ==
    /\ apc \in {"idle", "cleared", "count", "dest", "enable", "spin"}
    /\ length \in Lengths
    /\ burst \in {1, 2} /\ enable \in BOOLEAN
    /\ trfcnt \in 0 .. CountMod /\ dest \in Nat
    /\ scopeBuf \in [Offsets -> {"U", "zero", "old", "new"}]
    /\ arming \in {"none", "clean", "overlap", "zero"} /\ fresh \in BOOLEAN

(***************************************************************************)
(* Channel 0 stays inside scopeBuf: what is left of a running block fits   *)
(* behind the destination pointer, provided the block was programmed while *)
(* the channel was idle and its length was not 0 (dmaadc.c lines 39-50,    *)
(* the length check of HorrorScope.c line 114).                            *)
(***************************************************************************)
TransferFits == enable /\ arming = "clean" => dest + trfcnt <= BufSize

(***************************************************************************)
(* When a block that was programmed with the channel idle has ended, every *)
(* byte the host may fetch is a sample of this acquisition, in 8 and in 12 *)
(* bit mode and for odd lengths, and no sample lies beyond the length.     *)
(***************************************************************************)
FilledWhenDone ==
    fresh /\ ~enable /\ arming = "clean" =>
        \A i \in Offsets : scopeBuf[i] = "new" <=> i < length

(***************************************************************************)
(* dmaadc_read_buf_ch0 returns, unless the block was complete before the   *)
(* CPU looked at ENABLE for the first time: then it never returns, with    *)
(* interrupts disabled (dmaadc.c lines 58-60).                             *)
(***************************************************************************)
ReadReturns == apc = "count" ~> (apc = "idle" \/ (apc = "spin" /\ trfcnt = 0))

(***************************************************************************)
(* dmaadc.c lines 53-57: the loop "should be equivalent to ... Wait for    *)
(* finish".  When the read returns, the block is complete.  Does not hold: *)
(* the loop waits for ENABLE to be set, which it is from line 50 on.       *)
(***************************************************************************)
ReturnsWhenFinished == [][apc = "spin" /\ apc' = "idle" => ~enable]_acqVars
=============================================================================
