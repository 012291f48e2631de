-------------------------- MODULE RingBufferProofs --------------------------
(***************************************************************************)
(* RingBuffer is a queue, for every size of the storage.                   *)
(***************************************************************************)
EXTENDS RingBuffer, TLAPS

\* Where the pointers are, and what the two threads know of the storage, in
\* the middle of their operations.
Inv ==
    /\ TypeOK
    /\ ipc # "idle" => Count < Size
    /\ rpc # "idle" => Count > 0
    /\ ipc # "count" => In = Wrapped(Out + Held)
    /\ ipc = "count" => In = Wrapped(Out + Held + 1) /\ Mem[Wrapped(Out + Held)] = byte
    /\ ipc = "in" => Mem[In] = byte
    /\ rpc = "out" => Datum = Mem[Out]

USE SizeAssumption, ByteAssumption

\* Wrapped and Held by cases.
LEMMA WrappedFact ==
    /\ \A p \in Nat : p < Size => Wrapped(p) = p
    /\ \A p \in Nat : p >= Size => Wrapped(p) = p - Size
  BY DEF Wrapped

LEMMA HeldFact ==
    /\ rpc = "count" => Held = Count - 1
    /\ rpc # "count" => Held = Count
  BY DEF Held

LEMMA HeldFactNext ==
    /\ rpc' = "count" => Held' = Count' - 1
    /\ rpc' # "count" => Held' = Count'
  BY DEF Held

(***************************************************************************)
(* The invariant holds after InitBuffer, and every step of either thread   *)
(* keeps it.                                                               *)
(***************************************************************************)
LEMMA InvInit == Init => Inv
  BY HeldFact, WrappedFact DEF Init, Inv, TypeOK

LEMMA TypeStep == Inv /\ [Next]_ringVars => TypeOK'
<1> SUFFICES ASSUME Inv, [Next]_ringVars PROVE TypeOK'
  OBVIOUS
<1> USE DEF Inv, TypeOK, IsFull, IsEmpty, GetCount
<1>1. ASSUME NEW b \in Byte, Insert(b) PROVE TypeOK'
  BY <1>1 DEF Insert
<1>2. CASE Store
  BY <1>2 DEF Store
<1>3. CASE AdvanceIn
  BY <1>3 DEF AdvanceIn, Advanced
<1>4. CASE CountUp
  BY <1>4 DEF CountUp
<1>5. CASE Remove
  BY <1>5 DEF Remove
<1>6. CASE Load
  BY <1>6 DEF Load
<1>7. CASE AdvanceOut
  BY <1>7 DEF AdvanceOut, Advanced
<1>8. CASE CountDown
  BY <1>8 DEF CountDown
<1>9. CASE UNCHANGED ringVars
  BY <1>9 DEF ringVars
<1> QED
  BY <1>1, <1>2, <1>3, <1>4, <1>5, <1>6, <1>7, <1>8, <1>9 DEF Next, InsertStep, RemoveStep

LEMMA InvStep == Inv /\ [Next]_ringVars => Inv'
<1> SUFFICES ASSUME Inv, [Next]_ringVars PROVE Inv'
  OBVIOUS
<1>0. TypeOK'
  BY TypeStep
<1> USE HeldFact, HeldFactNext, WrappedFact
<1> USE DEF Inv, IsFull, IsEmpty, GetCount
<1>1. ASSUME NEW b \in Byte, Insert(b) PROVE Inv'
  BY <1>1 DEF Insert, TypeOK
<1>2. CASE Store
  BY <1>2 DEF Store, TypeOK
<1>3. CASE AdvanceIn
  BY <1>3, SMTT(20) DEF AdvanceIn, TypeOK, Advanced
<1>4. CASE CountUp
  BY <1>4 DEF CountUp, TypeOK
<1>5. CASE Remove
  BY <1>5 DEF Remove, TypeOK
<1>6. CASE Load
  BY <1>6 DEF Load, TypeOK
<1>7. CASE AdvanceOut
  BY <1>7 DEF AdvanceOut, TypeOK, Advanced
<1>8. CASE CountDown
  BY <1>8 DEF CountDown, TypeOK
<1>9. CASE UNCHANGED ringVars
  BY <1>9 DEF ringVars, TypeOK, Held, Wrapped
<1> QED
  BY <1>1, <1>2, <1>3, <1>4, <1>5, <1>6, <1>7, <1>8, <1>9 DEF Next, InsertStep, RemoveStep

(***************************************************************************)
(* The sequence that the storage stands for: its length, its elements, and *)
(* the places they are in.                                                 *)
(***************************************************************************)
LEMMA QueueFact ==
    Inv => /\ Held \in 0 .. Size
           /\ queue \in Seq(Byte)
           /\ Len(queue) = Held
           /\ \A i \in 1 .. Held : queue[i] = Mem[Wrapped(Out + i - 1)]
<1> SUFFICES ASSUME Inv
             PROVE  /\ Held \in 0 .. Size
                    /\ queue \in Seq(Byte)
                    /\ Len(queue) = Held
                    /\ \A i \in 1 .. Held : queue[i] = Mem[Wrapped(Out + i - 1)]
  OBVIOUS
<1>1. Held \in 0 .. Size
  BY HeldFact DEF Inv, TypeOK
<1>2. ASSUME NEW i \in 1 .. Held PROVE Mem[Wrapped(Out + i - 1)] \in Byte
  <2>1. Wrapped(Out + i - 1) \in 0 .. Size - 1
    BY <1>1, WrappedFact DEF Inv, TypeOK
  <2> QED
    BY <2>1 DEF Inv, TypeOK
<1> QED
  BY <1>1, <1>2 DEF queue

(***************************************************************************)
(* Every step of either thread is a step of the queue or leaves it alone:  *)
(* CountUp appends the byte, AdvanceOut takes the head, and Store writes   *)
(* to a place that holds no byte of the queue.                             *)
(***************************************************************************)
LEMMA QueueStep == Inv /\ [Next]_ringVars => [Q!Next]_<<queue, got>>
<1> SUFFICES ASSUME Inv, [Next]_ringVars PROVE [Q!Next]_<<queue, got>>
  OBVIOUS
<1>a. Inv'
  BY InvStep
<1>b. /\ Held \in 0 .. Size
      /\ queue \in Seq(Byte)
      /\ Len(queue) = Held
      /\ \A i \in 1 .. Held : queue[i] = Mem[Wrapped(Out + i - 1)]
  BY QueueFact
<1>c. (/\ Held \in 0 .. Size
       /\ queue \in Seq(Byte)
       /\ Len(queue) = Held
       /\ \A i \in 1 .. Held : queue[i] = Mem[Wrapped(Out + i - 1)])'
  BY <1>a, QueueFact, PTL
<1>s. ASSUME UNCHANGED <<Out, Mem, got>>, Held' = Held PROVE UNCHANGED <<queue, got>>
  BY <1>s, <1>b, <1>c
<1>1. ASSUME NEW b \in Byte, Insert(b) PROVE UNCHANGED <<queue, got>>
  BY <1>1, <1>s, HeldFact, HeldFactNext DEF Insert
<1>2. CASE Store
  <2>1. Held' = Held /\ UNCHANGED <<Out, got, In>>
    BY <1>2, HeldFact, HeldFactNext DEF Store
  <2>2. ASSUME NEW i \in 1 .. Held PROVE Wrapped(Out + i - 1) # In
    <3>1. Held < Size /\ In = Wrapped(Out + Held)
      BY <1>2, HeldFact DEF Store, Inv, TypeOK
    <3> QED
      BY <3>1, <1>b, WrappedFact DEF Inv, TypeOK
  <2>3. ASSUME NEW i \in 1 .. Held PROVE queue'[i] = queue[i]
    <3>1. Wrapped(Out + i - 1) \in 0 .. Size - 1
      BY <1>b, WrappedFact DEF Inv, TypeOK
    <3> QED
      BY <3>1, <2>1, <2>2, <1>2, <1>b, <1>c DEF Store, Inv, TypeOK
  <2> QED
    BY <2>1, <2>3, <1>b, <1>c
<1>3. CASE AdvanceIn
  BY <1>3, <1>s, HeldFact, HeldFactNext DEF AdvanceIn
<1>4. CASE CountUp
  <2>1. Held' = Held + 1 /\ UNCHANGED <<Out, Mem, got>> /\ Held < Size
    BY <1>4, HeldFact, HeldFactNext DEF CountUp, Inv, TypeOK
  <2>2. byte \in Byte /\ Mem[Wrapped(Out + Held)] = byte
    BY <1>4 DEF CountUp, Inv, TypeOK
  <2>3. Wrapped(Out + (Held + 1) - 1) = Wrapped(Out + Held)
    BY <1>b, WrappedFact DEF Inv, TypeOK
  <2>4. queue' = Append(queue, byte)
    <3>1. queue'[Held + 1] = byte
      BY <2>1, <2>2, <2>3, <1>b, <1>c
    <3>2. \A i \in 1 .. Held : queue'[i] = queue[i]
      BY <2>1, <1>b, <1>c
    <3> QED
      BY <3>1, <3>2, <2>1, <2>2, <1>b, <1>c
  <2>5. Q!Insert(byte)
    BY <2>1, <2>4, <1>b DEF Q!Insert
  <2> QED
    BY <2>2, <2>5 DEF Q!Next
<1>5. CASE Remove
  BY <1>5, <1>s, HeldFact, HeldFactNext DEF Remove
<1>6. CASE Load
  BY <1>6, <1>s, HeldFact, HeldFactNext DEF Load
<1>7. CASE AdvanceOut
  <2>1. Held > 0 /\ Held' = Held - 1 /\ UNCHANGED Mem
    BY <1>7, HeldFact, HeldFactNext DEF AdvanceOut, Inv, TypeOK
  <2>2. got' = queue[1]
    BY <1>7, <2>1, <1>b, WrappedFact DEF AdvanceOut, Inv, TypeOK
  <2>3. ASSUME NEW i \in 1 .. Held - 1 PROVE Wrapped(Out' + i - 1) = Wrapped(Out + (i + 1) - 1)
    BY <1>7, <1>b, WrappedFact DEF AdvanceOut, Advanced, Inv, TypeOK
  <2>4. queue' = Tail(queue)
    <3>1. ASSUME NEW i \in 1 .. Held - 1 PROVE queue'[i] = queue[i + 1]
      <4>1. queue'[i] = Mem[Wrapped(Out' + i - 1)]
        BY <2>1, <1>c
      <4>2. i + 1 \in 1 .. Held
        BY <1>b
      <4>3. queue[i + 1] = Mem[Wrapped(Out + (i + 1) - 1)]
        BY <4>2, <1>b
      <4> QED
        BY <4>1, <4>3, <2>3
    <3>2. /\ Tail(queue) \in Seq(Byte)
          /\ Len(Tail(queue)) = Held - 1
          /\ \A i \in 1 .. Held - 1 : Tail(queue)[i] = queue[i + 1]
      BY <2>1, <1>b
    <3> QED
      BY <3>1, <3>2, <2>1, <1>b, <1>c
  <2>5. Q!Remove
    BY <2>1, <2>2, <2>4, <1>b DEF Q!Remove
  <2> QED
    BY <2>5 DEF Q!Next
<1>8. CASE CountDown
  BY <1>8, <1>s, HeldFact, HeldFactNext DEF CountDown
<1>9. CASE UNCHANGED ringVars
  BY <1>9, <1>s DEF ringVars, Held
<1> QED
  BY <1>1, <1>2, <1>3, <1>4, <1>5, <1>6, <1>7, <1>8, <1>9 DEF Next, InsertStep, RemoveStep

(***************************************************************************)
(* The pointers and the count stay in range while an insertion and a       *)
(* removal overlap, and the inserter never writes where a byte still is.   *)
(***************************************************************************)
THEOREM InvAlways == Spec => []Inv
  BY InvInit, InvStep, PTL DEF Spec

(***************************************************************************)
(* RingBuffer.h implements the queue for every Size: no interleaving of    *)
(* one inserter and one remover loses, repeats, reorders or tears a byte.  *)
(***************************************************************************)
THEOREM ImplementsQueue == Spec => IsQueue
<1>1. Init => Q!Init
  <2> SUFFICES ASSUME Init PROVE Q!Init
    OBVIOUS
  <2>1. queue \in Seq(Byte) /\ Len(queue) = 0 /\ got \in Byte
    BY InvInit, QueueFact, HeldFact DEF Init
  <2> QED
    BY <2>1 DEF Q!Init
<1> QED
  BY <1>1, InvAlways, QueueStep, PTL DEF Spec, IsQueue, Q!Spec
=============================================================================
