----------------------------- MODULE ByteQueue -----------------------------
(***************************************************************************)
(* What RingBuffer.h promises: a first-in first-out queue of at most Size  *)
(* bytes, into which one thread inserts while another removes.             *)
(***************************************************************************)
EXTENDS Naturals, Sequences

CONSTANTS Size, Byte

VARIABLES
    queue,
    got     \* what Remove returned last

Init == queue = <<>> /\ got \in Byte

Insert(byte) ==
    /\ Len(queue) < Size
    /\ queue' = Append(queue, byte)
    /\ UNCHANGED got

Remove ==
    /\ queue # <<>>
    /\ got' = Head(queue)
    /\ queue' = Tail(queue)

Next == Remove \/ \E byte \in Byte : Insert(byte)

Spec == Init /\ [][Next]_<<queue, got>>
=============================================================================
