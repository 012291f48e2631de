----------------------------- MODULE RingBuffer -----------------------------
(***************************************************************************)
(* LUFA/Drivers/Misc/RingBuffer.h.  Insert and Remove are steps of two     *)
(* threads, one of which may be an interrupt: "insertion and removal       *)
(* operations may occur at the same time", but not two of a kind.  Only    *)
(* the change of Count is atomic in the code; what comes before it, the    *)
(* byte and the pointer, is not.  The callers look at IsFull and IsEmpty   *)
(* first, as the header asks.                                              *)
(***************************************************************************)
EXTENDS Naturals, Sequences

CONSTANTS Size, Byte

ASSUME SizeAssumption == Size \in Nat \ {0}
ASSUME ByteAssumption == Byte # {}

VARIABLES
    In, Out,    \* indices of the pointers, from Start = 0; End is Size
    Count,
    Mem,        \* the storage
    ipc, byte,  \* the thread that inserts, and its argument
    rpc, Datum, \* the thread that removes, and its local Data
    got         \* what Remove returned last

ringVars == <<In, Out, Count, Mem, ipc, byte, rpc, Datum, got>>

GetCount == Count
IsEmpty == GetCount = 0
IsFull == GetCount = Size

\* RingBuffer_InitBuffer
Init ==
    /\ In = 0 /\ Out = 0 /\ Count = 0
    /\ \E any \in Byte :
           /\ Mem = [i \in 0 .. Size - 1 |-> any]
           /\ byte = any /\ Datum = any /\ got = any
    /\ ipc = "idle" /\ rpc = "idle"

-----------------------------------------------------------------------------
\* ++p, and back to Start at End.
Advanced(p) == IF p + 1 = Size THEN 0 ELSE p + 1

\* RingBuffer_Insert, after IsFull
Insert(b) ==
    /\ ipc = "idle" /\ ~IsFull
    /\ ipc' = "store" /\ byte' = b
    /\ UNCHANGED <<In, Out, Count, Mem, rpc, Datum, got>>

Store ==
    /\ ipc = "store"
    /\ ipc' = "in"
    /\ Mem' = [Mem EXCEPT ![In] = byte]
    /\ UNCHANGED <<In, Out, Count, byte, rpc, Datum, got>>

AdvanceIn ==
    /\ ipc = "in"
    /\ ipc' = "count"
    /\ In' = Advanced(In)
    /\ UNCHANGED <<Out, Count, Mem, byte, rpc, Datum, got>>

CountUp ==
    /\ ipc = "count"
    /\ ipc' = "idle"
    /\ Count' = Count + 1
    /\ UNCHANGED <<In, Out, Mem, byte, rpc, Datum, got>>

InsertStep == Store \/ AdvanceIn \/ CountUp

-----------------------------------------------------------------------------
\* RingBuffer_Remove, after IsEmpty
Remove ==
    /\ rpc = "idle" /\ ~IsEmpty
    /\ rpc' = "load"
    /\ UNCHANGED <<In, Out, Count, Mem, ipc, byte, Datum, got>>

Load ==
    /\ rpc = "load"
    /\ rpc' = "out"
    /\ Datum' = Mem[Out]
    /\ UNCHANGED <<In, Out, Count, Mem, ipc, byte, got>>

AdvanceOut ==
    /\ rpc = "out"
    /\ rpc' = "count"
    /\ Out' = Advanced(Out)
    /\ got' = Datum
    /\ UNCHANGED <<In, Count, Mem, ipc, byte, Datum>>

CountDown ==
    /\ rpc = "count"
    /\ rpc' = "idle"
    /\ Count' = Count - 1
    /\ UNCHANGED <<In, Out, Mem, ipc, byte, Datum, got>>

RemoveStep == Load \/ AdvanceOut \/ CountDown

Next == (\E b \in Byte : Insert(b)) \/ InsertStep \/ Remove \/ RemoveStep

Spec == Init /\ [][Next]_ringVars

-----------------------------------------------------------------------------
\* What is in the buffer: a byte that is being inserted is there when it is
\* counted, one that is being removed is gone when Out has passed it.
Held == IF rpc = "count" THEN Count - 1 ELSE Count
Wrapped(p) == IF p >= Size THEN p - Size ELSE p
queue == [i \in 1 .. Held |-> Mem[Wrapped(Out + i - 1)]]

Q == INSTANCE ByteQueue

TypeOK ==
    /\ In \in 0 .. Size - 1 /\ Out \in 0 .. Size - 1 /\ Count \in 0 .. Size
    /\ Mem \in [0 .. Size - 1 -> Byte]
    /\ byte \in Byte /\ Datum \in Byte /\ got \in Byte
    /\ ipc \in {"idle", "store", "in", "count"} /\ rpc \in {"idle", "load", "out", "count"}

(***************************************************************************)
(* The buffer is a queue, also when an insertion and a removal overlap in  *)
(* any way: every byte comes out once, in the order of the insertions, and *)
(* with the value it went in with (RingBuffer.h lines 55-58, 240-286).     *)
(***************************************************************************)
IsQueue == Q!Spec
=============================================================================
