----------------------------- MODULE MCUsbLine -----------------------------
(***************************************************************************)
(* UsbLine with three byte values, so that a lost, repeated or overwritten *)
(* byte or chunk shows; endpoints of three bytes, which a call of three    *)
(* bytes fills in two rounds; and one fault per behaviour.  get_char takes *)
(* a byte out of the ring before it looks for another, so that one place   *)
(* is enough; RingBufferProofs has the ring of every size.                 *)
(***************************************************************************)
EXTENDS UsbLine

MCByte == 0 .. 2
=============================================================================
