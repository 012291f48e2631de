----------------------------- MODULE UsbSerial -----------------------------
(***************************************************************************)
(* usb_serial.c and the data path of the LUFA CDC driver below it.         *)
(* get_char and put_char are loops that look at the device state, move a   *)
(* byte, flush and serve the control endpoint, until there is a byte or    *)
(* until it is sent.  A put gives up when the device is not configured or  *)
(* the host has lowered DTR; SendByte and SendData give up on their own,   *)
(* and nobody asks them.  The bytes that arrive go through the ring buffer *)
(* of RingBuffer, which is used by this one thread only.                   *)
(*                                                                         *)
(* Bytes are numbers modulo Mod.                                           *)
(* After the interrupt for a bus reset the data path works on endpoint 0:  *)
(* what it reads there may be any byte, what it writes moves Position.     *)
(***************************************************************************)
EXTENDS UsbControl, RingBuffer

CONSTANTS
    EpSize,     \* CDC_TX_EPSIZE and CDC_RX_EPSIZE
    Mod

ASSUME EpSizeAssumption == EpSize \in Nat /\ EpSize > 1
ASSUME ModAssumption == Mod \in Nat \ {0} /\ Byte = 0 .. Mod - 1

VARIABLES
    received,       \* ReceivedByte: at most one
    call,           \* "char" or "buf", or none
    rest, chunk     \* of the put: what is not yet given to SendData; what SendData has left

putVars == <<call, rest, chunk>>
getVars == <<ringVars, received>>
serialVars == <<controlVars, putVars, getVars>>

SerialInit ==
    /\ ControlInit /\ Init
    /\ received = <<>>
    /\ call = "none" /\ rest = <<>> /\ chunk = <<>>

Linked == DeviceState = "Configured" /\ BaudRateBPS
Up(from, n) == [i \in 1 .. n |-> (from + i - 1) % Mod]

\* A step of the main program from one place to another.
Move(from, to) == Goto(from, to) /\ UNCHANGED <<req, left, prev, coreVars, lineVars>>

-----------------------------------------------------------------------------
\* USB_serial_get_char: the test of its loop, and that of ReceiveByte.
Get ==
    /\ Move("get", IF ~IsFull /\ Linked THEN "selectOut" ELSE "cdc") /\ IsEmpty
    /\ ret' = "get"
    /\ UNCHANGED <<sel, ep0, ein, eout, putVars, getVars>>

\* The Peek before Remove returns the same byte.
Take ==
    /\ Move("get", "remove") /\ Remove
    /\ UNCHANGED <<ret, sel, ep0, ein, eout, putVars, received>>

Taken ==
    /\ RemoveStep /\ Move("remove", IF rpc' = "idle" THEN "app" ELSE "remove")
    /\ UNCHANGED <<ret, sel, ep0, ein, eout, putVars, received>>

\* CDC_Device_ReceiveByte
SelectOut ==
    /\ Move("selectOut", "received")
    /\ sel' = "out"
    /\ UNCHANGED <<ret, ep0, ein, eout, putVars, getVars>>

OUTReceived ==
    /\ Move("received", IF (IF sel = "out" THEN eout.full ELSE ep0.out) THEN "read" ELSE "cdc")
    /\ UNCHANGED <<ret, sel, ep0, ein, eout, putVars, getVars>>

ReadByte ==
    /\ Move("read", "clearOut")
    /\ IF sel = "out"
       THEN received' = <<Head(eout.data)>> /\ eout' = [eout EXCEPT !.data = Tail(@)] /\ UNCHANGED ep0
       ELSE /\ \E any \in Byte : received' = <<any>>
            /\ ep0' = [ep0 EXCEPT !.moved = TRUE] /\ UNCHANGED eout
    /\ UNCHANGED <<ret, sel, ein, putVars, ringVars>>

\* Variant: the packet is given back with its first byte.
ClearOutAlways ==
    /\ Move("clearOut", "insert")
    /\ eout' = [eout EXCEPT !.full = FALSE, !.data = <<>>]
    /\ UNCHANGED <<ret, sel, ep0, ein, putVars, getVars>>

\* The packet goes back when its last byte is read.
ClearOut ==
    /\ Move("clearOut", "insert")
    /\ IF sel = "out"
       THEN eout' = [eout EXCEPT !.full = eout.data # <<>>] /\ UNCHANGED ep0
       ELSE ep0' \in {ep0, ClearOUT0} /\ UNCHANGED eout
    /\ UNCHANGED <<ret, sel, ein, putVars, getVars>>

Give ==
    /\ Move("insert", "inserting") /\ Insert(Head(received))
    /\ received' = <<>>
    /\ UNCHANGED <<ret, sel, ep0, ein, eout, putVars>>

Given ==
    /\ InsertStep /\ Move("inserting", IF ipc' = "idle" THEN "cdc" ELSE "inserting")
    /\ UNCHANGED <<ret, sel, ep0, ein, eout, putVars, received>>

-----------------------------------------------------------------------------
\* USB_serial_put_char and USB_serial_put_buf: the test of the loop.
Put ==
    /\ LET goOn == DeviceState = "Configured" /\ ok_to_send /\ rest # <<>>
       IN  /\ Move("put", IF goOn THEN "inReady" ELSE "app")
           /\ rest' = IF goOn THEN rest ELSE <<>>
           /\ call' = IF goOn THEN call ELSE "none"
    /\ ret' = "put"
    /\ UNCHANGED <<sel, ep0, ein, eout, chunk, getVars>>

\* What SendByte or SendData is given.
ToSend == IF Len(rest) < EpSize - 1 THEN Len(rest) ELSE EpSize - 1

\* Variant: a put does not look whether the bank is free.
PutReadyAlways ==
    /\ Move("inReady", "send")
    /\ chunk' = SubSeq(rest, 1, ToSend) /\ rest' = SubSeq(rest, ToSend + 1, Len(rest))
    /\ sel' = "in"
    /\ UNCHANGED <<ret, ep0, ein, eout, call, getVars>>

\* Variant: a put that waits for the bank does nothing else.
PutReadySpin ==
    /\ Move("inReady", IF ein.busy THEN "put" ELSE "send")
    /\ IF ein.busy THEN UNCHANGED <<rest, chunk>>
       ELSE chunk' = SubSeq(rest, 1, ToSend) /\ rest' = SubSeq(rest, ToSend + 1, Len(rest))
    /\ sel' = "in"
    /\ UNCHANGED <<ret, ep0, ein, eout, call, getVars>>

PutReady ==
    /\ Move("inReady", IF ein.busy THEN "cdc" ELSE "send")
    /\ IF ein.busy THEN UNCHANGED <<rest, chunk>>
       ELSE chunk' = SubSeq(rest, 1, ToSend) /\ rest' = SubSeq(rest, ToSend + 1, Len(rest))
    /\ sel' = "in"
    /\ UNCHANGED <<ret, ep0, ein, eout, call, getVars>>

\* CDC_Device_SendByte, CDC_Device_SendData: the tests.
SendTest ==
    /\ Move("send", IF Linked THEN "selectIn" ELSE "cdc")
    /\ chunk' = IF Linked THEN chunk ELSE <<>>
    /\ UNCHANGED <<ret, sel, ep0, ein, eout, call, rest, getVars>>

SelectIn ==
    /\ Move("selectIn", IF call = "buf" THEN "wait" ELSE "allowed")
    /\ sel' = "in"
    /\ UNCHANGED <<ret, ep0, ein, eout, putVars, getVars>>

\* Endpoint_WaitUntilReady, for 100 ms at most.
Ready == IF sel = "in" THEN ~ein.busy ELSE ep0.out

WaitUntilReady ==
    /\ Move("wait", IF Ready THEN IF call = "buf" THEN "allowed" ELSE "write" ELSE "cdc")
    /\ chunk' = IF Ready THEN chunk ELSE <<>>
    /\ UNCHANGED <<ret, sel, ep0, ein, eout, call, rest, getVars>>

\* Endpoint_IsReadWriteAllowed.  When there is no room the bank goes to the
\* host.  With INTERRUPT_CONTROL_ENDPOINT the stream does not serve the
\* control endpoint before it waits; on the XMEGA nothing else does.
SendBank == [ein EXCEPT !.busy = TRUE, !.pkt = ein.fifo, !.fifo = <<>>]

Allowed ==
    /\ LET allowed == IF sel = "in" THEN Len(ein.fifo) < EpSize ELSE call = "buf" /\ ep0.out
       IN  /\ Move("allowed", IF allowed THEN "write" ELSE "wait")
           /\ ein' = IF ~allowed /\ sel = "in" THEN SendBank ELSE ein
           /\ ep0' = IF ~allowed /\ sel # "in" THEN ClearIN0("zero") ELSE ep0
    /\ UNCHANGED <<ret, sel, eout, putVars, getVars>>

\* Endpoint_Write_8.  The bank is also the memory of a packet the host has
\* not read.
WriteByte ==
    /\ Move("write", IF Len(chunk) > 1 THEN "allowed" ELSE "cdc")
    /\ chunk' = Tail(chunk)
    /\ LET at == Len(ein.fifo) + 1
       IN  /\ ein' = IF sel # "in" THEN ein
                     ELSE [ein EXCEPT !.fifo = Append(@, Head(chunk)),
                                      !.pkt = IF at \in DOMAIN @ THEN [@ EXCEPT ![at] = Head(chunk)] ELSE @]
           /\ ep0' = IF sel = "in" THEN ep0 ELSE [ep0 EXCEPT !.moved = TRUE, !.header = "misread"]
    /\ UNCHANGED <<ret, sel, eout, call, rest, getVars>>

-----------------------------------------------------------------------------
\* CDC_Device_USBTask
CdcTask ==
    /\ Move("cdc", IF Linked /\ ~ein.busy THEN "flush" ELSE "task")
    /\ sel' = IF Linked THEN "in" ELSE sel
    /\ UNCHANGED <<ret, ep0, ein, eout, putVars, getVars>>

\* CDC_Device_Flush
Flush ==
    /\ Move("flush", IF Linked THEN "clearIn" ELSE "task")
    /\ sel' = IF Linked THEN "in" ELSE sel
    /\ UNCHANGED <<ret, ep0, ein, eout, putVars, getVars>>

\* Variant: only a full bank is sent.
FlushFull ==
    /\ Move("clearIn", "task")
    /\ ein' = IF sel = "in" /\ Len(ein.fifo) = EpSize THEN SendBank ELSE ein
    /\ UNCHANGED <<ret, sel, ep0, eout, putVars, getVars>>

FlushBank ==
    /\ Move("clearIn", IF sel = "in" /\ Len(ein.fifo) = EpSize THEN "flushWait" ELSE "task")
    /\ ein' = IF sel = "in" /\ ein.fifo # <<>> THEN SendBank ELSE ein
    /\ IF sel = "in" THEN UNCHANGED ep0 ELSE ep0' \in {ep0, ClearIN0("zero")}
    /\ UNCHANGED <<ret, sel, eout, putVars, getVars>>

\* A full bank is followed by an empty packet, if the host reads the bank in
\* time.
FlushWait ==
    /\ Move("flushWait", "task")
    /\ ein' = IF Ready /\ sel = "in" THEN SendBank ELSE ein
    /\ ep0' = IF Ready /\ sel # "in" THEN ClearIN0("zero") ELSE ep0
    /\ UNCHANGED <<ret, sel, eout, putVars, getVars>>

SerialStep ==
    \/ Get \/ Take \/ Taken \/ SelectOut \/ OUTReceived \/ ReadByte \/ ClearOut \/ Give \/ Given
    \/ Put \/ PutReady \/ SendTest \/ SelectIn \/ WaitUntilReady \/ Allowed \/ WriteByte
    \/ CdcTask \/ Flush \/ FlushBank \/ FlushWait
    \/ ControlStep /\ UNCHANGED <<putVars, getVars>>
=============================================================================
