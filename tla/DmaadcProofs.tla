---------------------------- MODULE DmaadcProofs ----------------------------
(***************************************************************************)
(* Proofs about the sample memory for every buffer size.  IInv follows one *)
(* block from the programming of the channel to its last byte: while it    *)
(* runs the destination and the bytes left add up to the length, and the   *)
(* bytes that are no longer left are exactly the new samples.              *)
(***************************************************************************)
EXTENDS Dmaadc, TLAPS

Before == {"cleared", "count", "dest", "enable"}

\* From memset to the start of the block no byte is a new sample.
NothingNew == apc \in Before => ~fresh /\ \A i \in Offsets : scopeBuf[i] # "new"

\* A block programmed with the channel idle, before it starts.
Programmed ==
    apc \in {"dest", "enable"} /\ arming = "clean" =>
        /\ ~enable /\ trfcnt = length /\ length > 0
        /\ apc = "enable" => dest = 0

\* The same block once it runs.
Progress ==
    fresh /\ arming = "clean" =>
        /\ apc \in {"spin", "idle"}
        /\ enable => dest + trfcnt = length
        /\ enable <=> trfcnt > 0
        /\ trfcnt <= length
        /\ \A i \in Offsets : scopeBuf[i] = "new" <=> i < length - trfcnt

IInv == TypeOK /\ TransferFits /\ NothingNew /\ Programmed /\ Progress

-----------------------------------------------------------------------------
LEMMA TypeStep == TypeOK /\ [Next]_acqVars => TypeOK'
<1> USE BufSizeAssumption, CountModAssumption
<1> SUFFICES ASSUME TypeOK, [Next]_acqVars PROVE TypeOK'
  OBVIOUS
<1> USE DEF TypeOK, Lengths, Offsets, Nowhere, regVars
<1>1. ASSUME NEW b \in BOOLEAN, dmaadc_init(b) PROVE TypeOK'
  <2>1. burst' \in {1, 2} /\ trfcnt' \in 0 .. CountMod /\ dest' \in Nat
    BY <1>1 DEF dmaadc_init, BurstOf
  <2> QED
    BY <1>1, <2>1, ZenonT(30) DEF dmaadc_init
<1>2. CASE ClearBuf
  BY <1>2, ZenonT(30) DEF ClearBuf
<1>3. ASSUME NEW n \in Lengths, ReadBuf(n) PROVE TypeOK'
  BY <1>3 DEF ReadBuf
<1>4. CASE SetCount
  BY <1>4 DEF SetCount, BlockLength
<1>5. CASE SetDest
  BY <1>5 DEF SetDest
<1>6. CASE Enable
  BY <1>6 DEF Enable
<1>7. CASE ReadDone
  BY <1>7 DEF ReadDone
<1>8. CASE Convert
  <2>1. trfcnt' \in 0 .. CountMod /\ dest' \in Nat
    BY <1>8 DEF Convert, Minimum
  <2>2. scopeBuf' \in [Offsets -> {"U", "zero", "old", "new"}]
    BY <1>8 DEF Convert
  <2>3. enable' \in BOOLEAN
    BY <1>8 DEF Convert
  <2> QED
    BY <1>8, <2>1, <2>2, <2>3 DEF Convert
<1>9. CASE UNCHANGED acqVars
  BY <1>9 DEF acqVars
<1> QED
  BY <1>1, <1>2, <1>3, <1>4, <1>5, <1>6, <1>7, <1>8, <1>9 DEF Next, ReadStep

LEMMA InvStep == IInv /\ TypeOK' /\ [Next]_acqVars => IInv'
<1> USE BufSizeAssumption, CountModAssumption
<1> SUFFICES ASSUME IInv, TypeOK', [Next]_acqVars PROVE IInv'
  OBVIOUS
<1> USE DEF IInv, TypeOK, TransferFits, NothingNew, Programmed, Progress, Before,
        Lengths, Offsets, regVars
<1>1. ASSUME NEW b \in BOOLEAN, dmaadc_init(b) PROVE IInv'
  BY <1>1 DEF dmaadc_init
<1>2. CASE ClearBuf
  BY <1>2 DEF ClearBuf
<1>3. ASSUME NEW n \in Lengths, ReadBuf(n) PROVE IInv'
  BY <1>3 DEF ReadBuf
<1>4. CASE SetCount
  BY <1>4 DEF SetCount, BlockLength
<1>5. CASE SetDest
  BY <1>5 DEF SetDest
<1>6. CASE Enable
  BY <1>6 DEF Enable
<1>7. CASE ReadDone
  BY <1>7 DEF ReadDone
<1>8. CASE Convert
  <2> DEFINE n == Minimum(burst, trfcnt)
  <2>1. n \in Nat /\ n <= trfcnt /\ (trfcnt > 0 => n > 0)
    BY DEF Minimum
  <2>2. dest' = (IF trfcnt > n THEN dest + n ELSE 0) /\ trfcnt' = trfcnt - n
        /\ enable' = (trfcnt > n) /\ enable
    BY <1>8 DEF Convert
  <2>3. \A i \in Offsets : scopeBuf'[i] =
           IF i \in dest .. dest + n - 1 THEN (IF fresh THEN "new" ELSE "old") ELSE scopeBuf[i]
    BY <1>8 DEF Convert
  <2>4. UNCHANGED <<apc, length, burst, arming, fresh>>
    BY <1>8 DEF Convert
  <2> HIDE DEF n
  <2>5. TransferFits'
    BY <2>1, <2>2, <2>4
  <2>6. NothingNew'
    BY <2>3, <2>4
  <2>7. Programmed'
    BY <2>1, <2>2, <2>4
  <2>8. Progress'
    <3> SUFFICES ASSUME fresh, arming = "clean" PROVE Progress'
      BY <2>4, ZenonT(30)
    <3>1. (trfcnt' > 0 => (dest + trfcnt = length)') /\ (trfcnt <= length)' /\ (trfcnt' > 0 <=> trfcnt > n)
      BY <2>1, <2>2, <2>4
    <3>2. enable' <=> trfcnt' > 0
      BY <2>2, <3>1, ZenonT(30)
    <3>3. ASSUME NEW i \in Offsets PROVE scopeBuf'[i] = "new" <=> i < (length - trfcnt)'
      BY <2>1, <2>2, <2>3, <2>4
    <3> QED
      BY <2>4, <3>1, <3>2, <3>3, ZenonT(30)
  <2> QED
    BY <2>5, <2>6, <2>7, <2>8, ZenonT(30)
<1>9. CASE UNCHANGED acqVars
  BY <1>9 DEF acqVars
<1> QED
  BY <1>1, <1>2, <1>3, <1>4, <1>5, <1>6, <1>7, <1>8, <1>9, ZenonT(30) DEF Next, ReadStep

LEMMA Inductive == Spec => []IInv
<1>1. Init => IInv
  <2> SUFFICES ASSUME Init PROVE IInv
    OBVIOUS
  <2>1. TypeOK
    <3>1. 0 \in Lengths /\ 0 \in 0 .. CountMod /\ Nowhere \in Nat
      BY BufSizeAssumption, CountModAssumption DEF Lengths, Nowhere
    <3> QED
      BY <3>1, ZenonT(30) DEF Init, TypeOK, BurstOf
  <2>2. TransferFits /\ NothingNew /\ Programmed /\ Progress
    BY DEF Init, TransferFits, NothingNew, Programmed, Progress, Before
  <2> QED
    BY <2>1, <2>2 DEF IInv
<1>2. IInv /\ [Next]_acqVars => IInv'
  BY TypeStep, InvStep DEF IInv
<1> QED
  BY <1>1, <1>2, PTL DEF Spec

-----------------------------------------------------------------------------
(***************************************************************************)
(* The registers of channel 0 and the buffer keep their types; a block     *)
(* never has a negative number of bytes left.                              *)
(***************************************************************************)
THEOREM TypeCorrect == Spec => []TypeOK
  BY Inductive, PTL DEF IInv

(***************************************************************************)
(* For every buffer size, a block of non-zero length that is programmed    *)
(* while the channel is idle never reaches beyond scopeBuf.                *)
(***************************************************************************)
THEOREM TransfersFit == Spec => []TransferFits
  BY Inductive, PTL DEF IInv

(***************************************************************************)
(* For every buffer size, length and burst length, such a block ends with  *)
(* exactly the first length bytes of scopeBuf holding new samples.         *)
(***************************************************************************)
THEOREM BufferIsFilled == Spec => []FilledWhenDone
<1>1. IInv => FilledWhenDone
  BY DEF IInv, TypeOK, Progress, FilledWhenDone, Lengths, Offsets
<1> QED
  BY <1>1, Inductive, PTL
=============================================================================
