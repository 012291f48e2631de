----------------------------- MODULE UsbControl -----------------------------
(***************************************************************************)
(* The control endpoint of the firmware: USB_DeviceTask, the standard and  *)
(* CDC requests it processes, and the bus event interrupt, which may come  *)
(* between any two operations of the endpoint driver.  The main program    *)
(* polls; a request is processed inside USB_USBTask, one per call, and     *)
(* waits there for the stages of its transfer.  All code works on the      *)
(* selected endpoint, and the interrupt for a bus reset leaves endpoint 0  *)
(* selected.                                                               *)
(*                                                                         *)
(* A request is its name, a packet the part it has in its transfer.  An    *)
(* operation of Endpoint_XMEGA.c is one step.                              *)
(***************************************************************************)
EXTENDS Naturals, Sequences

VARIABLES
    pc,         \* where the main program is
    ret,        \* where it goes on after USB_USBTask
    req,        \* USB_ControlRequest
    left,       \* packets of the descriptor still to be sent
    DeviceState, ConfigurationNumber, ADDR,
    BaudRateBPS, \* whether it is other than 0
    ok_to_send,
    sel, prev,  \* the selected endpoint, and PrevEndpoint of USB_DeviceTask
    ep0,        \* the control endpoint
    ein, eout   \* the data endpoints

coreVars == <<DeviceState, ConfigurationNumber, ADDR>>
lineVars == <<BaudRateBPS, ok_to_send>>
controlVars == <<pc, ret, req, left, coreVars, lineVars, sel, prev, ep0, ein, eout>>

Reads == {"GetDescriptor", "GetStatus", "GetConfiguration", "GetLineEncoding"}

\* Endpoint_ConfigureEndpoint.  header is the memory of the OUT FIFO, moved
\* says that its Position is not 0.  An IN endpoint is ready, BUSNACK0, while
\* it has no packet for the host.
Fresh0(header) ==
    [setup |-> FALSE, header |-> header, moved |-> FALSE, out |-> FALSE, in |-> "none",
     stall |-> FALSE]
FreshIn == [on |-> TRUE, busy |-> FALSE, pkt |-> <<>>, fifo |-> <<>>]
FreshOut == [on |-> TRUE, full |-> FALSE, data |-> <<>>]

\* USB_Init, and the first call of get_char.
ControlInit ==
    /\ pc = "get" /\ ret = "get" /\ req = "misread" /\ left = 0
    /\ DeviceState = "Unattached" /\ ConfigurationNumber = 0 /\ ADDR = 0
    /\ BaudRateBPS = FALSE /\ ok_to_send = FALSE
    /\ sel = "ctlOut" /\ prev = "none" /\ ep0 = Fresh0("misread")
    /\ ein = [FreshIn EXCEPT !.on = FALSE] /\ eout = [FreshOut EXCEPT !.on = FALSE]

-----------------------------------------------------------------------------
\* The operations of the endpoint driver on the control endpoint; ClearIN and
\* ClearOUT take what is selected.
ClearSETUP == [ep0 EXCEPT !.setup = FALSE, !.out = FALSE, !.moved = FALSE]
ClearIN0(packet) ==
    IF sel = "ctlIn" THEN [ep0 EXCEPT !.in = packet] ELSE [ep0 EXCEPT !.out = FALSE, !.moved = FALSE]
ClearOUT0 ==
    IF sel = "ctlIn" THEN [ep0 EXCEPT !.in = IF @ = "none" THEN "old" ELSE @]
    ELSE [ep0 EXCEPT !.out = FALSE, !.moved = FALSE]
INReady0 == ep0.in = "none"

Goto(from, to) == pc = from /\ pc' = to

\* USB_DeviceTask: the test for a request.
Task ==
    /\ pc = "task"
    /\ IF DeviceState # "Unattached" /\ ep0.setup
       THEN pc' = "header" /\ sel' = "ctlOut" /\ prev' = sel
       ELSE pc' = ret /\ UNCHANGED <<sel, prev>>
    /\ UNCHANGED <<ret, req, left, coreVars, lineVars, ep0, ein, eout>>

\* ProcessControlRequest reads eight bytes from Position on; from anywhere but
\* the start they are no request.
ReadHeader ==
    /\ Goto("header", "dispatch")
    /\ req' = IF ep0.moved THEN "misread" ELSE ep0.header
    /\ ep0' = [ep0 EXCEPT !.moved = TRUE]
    /\ UNCHANGED <<ret, left, coreVars, lineVars, sel, ein, eout, prev>>

\* A request that is misread, and one its function would not have (a
\* descriptor or configuration there is not), goes straight to the end.  The
\* host asks for none of the second kind.
Dispatch ==
    /\ pc = "dispatch"
    /\ pc' = IF ep0.setup /\ req # "misread" THEN "clearSetup" ELSE "end"
    /\ UNCHANGED <<ret, req, left, coreVars, lineVars, sel, prev, ep0, ein, eout>>

\* The first statement of every request.
ClearSetup ==
    /\ pc = "clearSetup"
    /\ ep0' = ClearSETUP /\ sel' = "ctlIn"
    /\ pc' = CASE req = "GetDescriptor" -> "descriptor"
               [] req \in {"GetStatus", "GetConfiguration"} -> "writeShort"
               [] req = "GetLineEncoding" -> "encodingIn"
               [] req = "SetLineEncoding" -> "encodingOut"
               [] req = "SetConfiguration" -> "number"
               [] OTHER -> "statusIn"
    /\ left' = IF req = "GetDescriptor" THEN 2 ELSE 0
    /\ UNCHANGED <<ret, req, coreVars, lineVars, ein, eout, prev>>

\* The end of ProcessControlRequest: a request that is still there, or there
\* again, is refused.  SetConfiguration leaves another endpoint selected.
End ==
    /\ Goto("end", ret)
    /\ ep0' = IF ep0.setup /\ sel \in {"ctlIn", "ctlOut"} THEN [ClearSETUP EXCEPT !.stall = TRUE] ELSE ep0
    /\ sel' = prev /\ prev' = "none"
    /\ UNCHANGED <<ret, req, left, coreVars, lineVars, ein, eout>>

-----------------------------------------------------------------------------
\* Where a request goes on after Endpoint_ClearStatusStage, which its callers
\* do not ask how it ended.
AfterStatus ==
    CASE req = "SetAddress" -> "addressWait"
      [] req = "SetConfiguration" -> "configured"
      [] req \in {"RaiseDtr", "LowerDtr"} -> "dtr"
      [] OTHER -> "end"

StatusIn ==
    /\ INReady0 \/ DeviceState = "Unattached"
    /\ Goto("statusIn", IF INReady0 THEN "sendStatus" ELSE AfterStatus)
    /\ sel' = "ctlIn"
    /\ UNCHANGED <<ret, req, left, coreVars, lineVars, ep0, ein, eout, prev>>

SendStatus ==
    /\ Goto("sendStatus", AfterStatus)
    /\ ep0' = ClearIN0("zero")
    /\ UNCHANGED <<ret, req, left, coreVars, lineVars, sel, ein, eout, prev>>

StatusOut ==
    /\ ep0.out \/ DeviceState = "Unattached"
    /\ Goto("statusOut", IF ep0.out THEN "takeStatus" ELSE "end")
    /\ sel' = "ctlOut"
    /\ UNCHANGED <<ret, req, left, coreVars, lineVars, ep0, ein, eout, prev>>

TakeStatus ==
    /\ Goto("takeStatus", "end")
    /\ ep0' = ClearOUT0
    /\ UNCHANGED <<ret, req, left, coreVars, lineVars, sel, ein, eout, prev>>

\* SetAddress, after its status stage: the loop has no way out but the host's.
AddressWait ==
    /\ Goto("addressWait", "address") /\ INReady0
    /\ sel' = "ctlIn"
    /\ UNCHANGED <<ret, req, left, coreVars, lineVars, ep0, ein, eout, prev>>

EnableAddress ==
    /\ Goto("address", "addressed")
    /\ ADDR' = 1
    /\ UNCHANGED <<ret, req, left, DeviceState, ConfigurationNumber, lineVars, sel, prev, ep0, ein, eout>>

Addressed ==
    /\ Goto("addressed", "end")
    /\ DeviceState' = "Addressed"
    /\ UNCHANGED <<ret, req, left, ConfigurationNumber, ADDR, lineVars, sel, prev, ep0, ein, eout>>

\* SetConfiguration
SetNumber ==
    /\ Goto("number", "statusIn")
    /\ ConfigurationNumber' = 1
    /\ UNCHANGED <<ret, req, left, DeviceState, ADDR, lineVars, sel, prev, ep0, ein, eout>>

TestNumber ==
    /\ pc = "configured"
    /\ pc' = IF ConfigurationNumber # 0 THEN "isConfigured" ELSE "isNot"
    /\ UNCHANGED <<ret, req, left, coreVars, lineVars, sel, prev, ep0, ein, eout>>

Configured ==
    /\ pc \in {"isConfigured", "isNot"}
    /\ pc' = "endpoints"
    /\ DeviceState' = IF pc = "isConfigured" \/ ADDR # 0 THEN "Configured" ELSE "Powered"
    /\ UNCHANGED <<ret, req, left, ConfigurationNumber, ADDR, lineVars, sel, prev, ep0, ein, eout>>

\* EVENT_USB_Device_ConfigurationChanged: CDC_Device_ConfigureEndpoints clears
\* the state of the line and configures three endpoints, each of which it
\* selects.  ok_to_send stays.
ClearLine ==
    /\ Goto("endpoints", "configureIn")
    /\ BaudRateBPS' = FALSE
    /\ UNCHANGED <<ret, req, left, coreVars, ok_to_send, sel, prev, ep0, ein, eout>>

ConfigureIn ==
    /\ Goto("configureIn", "configureOut")
    /\ ein' = FreshIn /\ sel' = "in"
    /\ UNCHANGED <<ret, req, left, coreVars, lineVars, prev, ep0, eout>>

ConfigureOut ==
    /\ Goto("configureOut", "configureNotification")
    /\ eout' = FreshOut /\ sel' = "out"
    /\ UNCHANGED <<ret, req, left, coreVars, lineVars, prev, ep0, ein>>

ConfigureNotification ==
    /\ Goto("configureNotification", "end")
    /\ sel' = "notification"
    /\ UNCHANGED <<ret, req, left, coreVars, lineVars, prev, ep0, ein, eout>>

-----------------------------------------------------------------------------
\* GetDescriptor: Endpoint_Write_Control_PStream_LE, one iteration of its
\* first loop.  The descriptor is a full and a short packet.
Descriptor ==
    /\ pc = "descriptor"
    /\ \/ DeviceState = "Unattached" /\ pc' = "descriptorDone" /\ UNCHANGED sel
       \/ /\ DeviceState # "Unattached" /\ ep0.setup
          /\ pc' = "descriptorDone" /\ sel' = "ctlOut"
       \/ /\ DeviceState # "Unattached" /\ ~ep0.setup /\ ep0.out
          /\ pc' = "descriptorOut" /\ sel' = "ctlOut"
       \/ /\ DeviceState # "Unattached" /\ ~ep0.setup /\ ~ep0.out /\ INReady0
          /\ pc' = "descriptorIn" /\ sel' = "ctlIn"
    /\ UNCHANGED <<ret, req, left, coreVars, lineVars, ep0, ein, eout, prev>>

DescriptorIn ==
    /\ Goto("descriptorIn", IF left = 1 THEN "descriptorOut" ELSE "descriptor")
    /\ ep0' = ClearIN0(IF left = 2 THEN "first" ELSE "last")
    /\ left' = left - 1
    /\ UNCHANGED <<ret, req, coreVars, lineVars, sel, ein, eout, prev>>

\* Its second loop.
DescriptorOut ==
    /\ Goto("descriptorOut", "descriptorDone")
    /\ ep0.out \/ ep0.setup \/ DeviceState = "Unattached"
    /\ sel' = "ctlOut"
    /\ UNCHANGED <<ret, req, left, coreVars, lineVars, ep0, ein, eout, prev>>

\* Endpoint_ClearOUT, however it ended.
DescriptorDone ==
    /\ Goto("descriptorDone", "end")
    /\ ep0' = ClearOUT0
    /\ left' = 0
    /\ UNCHANGED <<ret, req, coreVars, lineVars, sel, ein, eout, prev>>

\* GetStatus and GetConfiguration: one short packet, whatever is there.
WriteShort ==
    /\ Goto("writeShort", "statusOut")
    /\ ep0' = ClearIN0("short")
    /\ UNCHANGED <<ret, req, left, coreVars, lineVars, sel, ein, eout, prev>>

\* GetLineEncoding waits for room, with no way out but the host's.
EncodingIn ==
    /\ Goto("encodingIn", "writeShort") /\ INReady0
    /\ sel' = "ctlIn"
    /\ UNCHANGED <<ret, req, left, coreVars, lineVars, ep0, ein, eout, prev>>

\* SetLineEncoding.  The host asks for some speed.
EncodingOut ==
    /\ ep0.out \/ DeviceState = "Unattached"
    /\ Goto("encodingOut", IF ep0.out THEN "encoding" ELSE "end")
    /\ sel' = "ctlOut"
    /\ UNCHANGED <<ret, req, left, coreVars, lineVars, ep0, ein, eout, prev>>

SetEncoding ==
    /\ Goto("encoding", "statusIn")
    /\ BaudRateBPS' = TRUE
    /\ ep0' = ClearOUT0
    /\ UNCHANGED <<ret, req, left, coreVars, ok_to_send, sel, ein, eout, prev>>

\* SetControlLineState: EVENT_CDC_Device_ControLineStateChanged
LineState ==
    /\ Goto("dtr", "end")
    /\ ok_to_send' = (req = "RaiseDtr")
    /\ UNCHANGED <<ret, req, left, coreVars, BaudRateBPS, sel, ep0, ein, eout, prev>>

ControlStep ==
    \/ Task \/ ReadHeader \/ Dispatch \/ ClearSetup \/ End
    \/ StatusIn \/ SendStatus \/ StatusOut \/ TakeStatus
    \/ AddressWait \/ EnableAddress \/ Addressed
    \/ SetNumber \/ TestNumber \/ Configured
    \/ ClearLine \/ ConfigureIn \/ ConfigureOut \/ ConfigureNotification
    \/ Descriptor \/ DescriptorIn \/ DescriptorOut \/ DescriptorDone
    \/ WriteShort \/ EncodingIn \/ EncodingOut \/ SetEncoding \/ LineState

\* A request is being processed, and waits for the host.
Processing ==
    pc \in {"header", "dispatch", "clearSetup", "end", "statusIn", "sendStatus", "statusOut", "takeStatus",
            "addressWait", "address", "addressed", "number", "configured", "isConfigured", "isNot",
            "endpoints", "configureIn", "configureOut", "configureNotification",
            "descriptor", "descriptorIn", "descriptorOut", "descriptorDone", "writeShort", "encodingIn",
            "encodingOut", "encoding", "dtr"}

Waiting ==
    \/ pc \in {"addressWait", "encodingIn"} /\ ~INReady0
    \/ /\ DeviceState # "Unattached"
       /\ \/ pc = "statusIn" /\ ~INReady0
          \/ pc \in {"statusOut", "encodingOut"} /\ ~ep0.out
          \/ pc = "descriptorOut" /\ ~ep0.out /\ ~ep0.setup
          \/ pc = "descriptor" /\ ~ep0.out /\ ~ep0.setup /\ ~INReady0

-----------------------------------------------------------------------------
\* USB_BUSEVENT_vect

\* Variant: a state that no loop knows.
SuspendOnly ==
    /\ DeviceState' = "Suspended"
    /\ UNCHANGED <<pc, ret, req, left, ConfigurationNumber, ADDR, lineVars, sel, prev, ep0, ein, eout>>

Suspend ==
    /\ DeviceState' = "Unattached"
    /\ UNCHANGED <<pc, ret, req, left, ConfigurationNumber, ADDR, lineVars, sel, prev, ep0, ein, eout>>

\* Variant: the configuration is forgotten in a suspend.
ResumeAddressed ==
    /\ DeviceState' = IF ADDR # 0 THEN "Addressed" ELSE "Powered"
    /\ UNCHANGED <<pc, ret, req, left, ConfigurationNumber, ADDR, lineVars, sel, prev, ep0, ein, eout>>

Resume ==
    /\ DeviceState' = IF ConfigurationNumber # 0 THEN "Configured"
                      ELSE IF ADDR # 0 THEN "Addressed" ELSE "Powered"
    /\ UNCHANGED <<pc, ret, req, left, ConfigurationNumber, ADDR, lineVars, sel, prev, ep0, ein, eout>>

\* The data endpoints lose their CTRL; what they hold is of no use before
\* ConfigureEndpoints, and is forgotten here.
Reset ==
    /\ DeviceState' = "Default" /\ ConfigurationNumber' = 0 /\ ADDR' = 0
    /\ ep0' = Fresh0(ep0.header)
    /\ ein' = [FreshIn EXCEPT !.on = FALSE] /\ eout' = [FreshOut EXCEPT !.on = FALSE]
    /\ sel' = "ctlOut"
    /\ UNCHANGED <<pc, ret, req, left, lineVars, prev>>
=============================================================================
