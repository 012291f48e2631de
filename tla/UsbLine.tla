------------------------------ MODULE UsbLine ------------------------------
(***************************************************************************)
(* The firmware of UsbSerial on a bus with a host.  The host and the USB   *)
(* hardware are external.  The host enumerates the device, sets its line   *)
(* encoding, and opens and closes the port, which raises and lowers DTR;   *)
(* while the port is open it takes and sends packets.  A transfer that     *)
(* goes wrong makes it leave the bus idle, which is a suspend to the       *)
(* device, and begin again with a reset.  Faults are in small number: a    *)
(* transfer the host begins anew, a bus reset, a host that goes away, and  *)
(* a suspend and resume.                                                   *)
(***************************************************************************)
EXTENDS UsbSerial

CONSTANTS
    Puts,       \* calls with which the application answers a byte
    MaxLength,  \* bytes of a call
    MaxPacket,  \* bytes the host sends at a time
    Faults

ASSUME PutsAssumption == Puts \in Nat \ {0} /\ MaxLength \in Nat \ {0} /\ MaxPacket \in 1 .. EpSize
ASSUME FaultsAssumption == Faults \in Nat

VARIABLES
    at,             \* the host's step of Script, 0 when the bus is idle
    todo,           \* the packets of its transfer that are still to come
    address,        \* where it sends them
    asleep, faults,
    puts,           \* the calls the application may still make before it reads
    number, sending, \* the next byte of the application and of the host
    calm,           \* the port is open, and was not reset or suspended since
    stale, wants,   \* bytes from before the port was opened; the one expected after them
    old, hears      \* the same for the application

busVars == <<at, todo, address, asleep, faults>>
bookVars == <<number, sending, calm, stale, wants, old, hears>>
lineSpecVars == <<serialVars, busVars, bookVars, puts>>

Script == <<"GetDescriptor", "SetAddress", "GetConfiguration", "SetConfiguration",
            "GetLineEncoding", "SetLineEncoding", "RaiseDtr", "open", "LowerDtr">>
Closed == 7
Open == 8

\* What may follow the SETUP packet of a request: the host need not read all
\* of a descriptor.
Transfers(request) ==
    CASE request = "GetDescriptor" -> {<<"first", "last", "OUT">>, <<"first", "OUT">>}
      [] request \in Reads \ {"GetDescriptor"} -> {<<"short", "OUT">>}
      [] request = "SetLineEncoding" -> {<<"OUT", "zero">>}
      [] OTHER -> {<<"zero">>}

\* The bytes on their way to the host, and to the application.
ToHost == (IF ein.busy THEN ein.pkt ELSE <<>>) \o ein.fifo \o chunk \o rest
ToApp == queue \o (IF ipc = "idle" THEN <<>> ELSE <<byte>>) \o received \o eout.data

LineInit ==
    /\ SerialInit
    /\ at = 0 /\ todo = <<>> /\ address = 0 /\ asleep = FALSE /\ faults = Faults
    /\ puts = 0 /\ number = 0 /\ sending = 0 /\ calm = FALSE /\ stale = 0 /\ wants = 0 /\ old = 0 /\ hears = 0

\* The end of a session: the numbers begin anew.
Disturb ==
    /\ calm' = FALSE /\ number' = 0 /\ sending' = 0
    /\ stale' = 0 /\ wants' = 0 /\ old' = 0 /\ hears' = 0
Monus(a, b) == IF a > b THEN a - b ELSE 0

-----------------------------------------------------------------------------
\* The main program.  Its books: the application has another byte.
Device ==
    /\ SerialStep
    /\ LET taken == Len(queue') < Len(queue) /\ calm
       IN  /\ old' = IF taken THEN Monus(old, 1) ELSE old
           /\ hears' = IF taken /\ old = 0 THEN (hears + 1) % Mod ELSE hears
    /\ puts' = IF pc = "remove" THEN Puts ELSE puts
    /\ UNCHANGED <<busVars, number, sending, calm, stale, wants>>

\* The application between two calls: it answers, or reads its next byte.
App ==
    /\ pc = "app"
    /\ \/ /\ pc' = "get"
          /\ puts' = 0 /\ UNCHANGED <<putVars, number>>
       \/ /\ pc' = "put"
          /\ puts > 0 /\ puts' = puts - 1
          /\ \E n \in 1 .. MaxLength :
                /\ call' \in IF n = 1 THEN {"char", "buf"} ELSE {"buf"}
                /\ rest' = Up(number, n)
                /\ number' = IF calm THEN (number + n) % Mod ELSE 0
          /\ UNCHANGED chunk
    /\ UNCHANGED <<ret, req, left, prev, coreVars, lineVars, sel, ep0, ein, eout, getVars, busVars,
                   sending, calm, stale, wants, old, hears>>

Fault == faults > 0 /\ faults' = faults - 1

\* A bus that was idle for long is reset: the main program is out of every
\* loop that ends when the device is unattached.
PortReset ==
    /\ at = 0
    /\ Processing => Waiting
    /\ Reset
    /\ at' = 1 /\ address' = 0
    /\ Disturb /\ UNCHANGED <<putVars, getVars, puts, todo, asleep, faults>>

\* A SETUP packet is always taken, and undoes an IN packet that waits.
\* Whether it also counts as an OUT packet is left open.  One that overtakes
\* the main program, which is still at the end of the last request, is a
\* fault.
SendSetup ==
    /\ IF Processing /\ ~Waiting THEN Fault ELSE UNCHANGED faults
    /\ at > 0 /\ at # Open /\ todo = <<>> /\ address = ADDR
    /\ \E out \in {ep0.out, TRUE} :
          ep0' = [ep0 EXCEPT !.setup = TRUE, !.header = Script[at], !.out = out, !.in = "none", !.stall = FALSE]
    /\ todo' \in Transfers(Script[at])
    /\ UNCHANGED <<pc, ret, req, left, prev, coreVars, lineVars, sel, ein, eout, putVars, getVars, puts, at,
                   address, asleep, bookVars>>

\* The next packet of the transfer; after the last one the host goes on.
Advance ==
    LET done == Len(todo) = 1
        next == CASE Script[at] = "LowerDtr" -> Closed [] OTHER -> at + 1
    IN  /\ todo' = Tail(todo)
        /\ at' = IF done THEN next ELSE at
        /\ address' = IF done /\ Script[at] = "SetAddress" THEN 1 ELSE address
        /\ IF done /\ next = Open
           THEN /\ calm' = TRUE
                /\ stale' = Len(ToHost) /\ wants' = number
                /\ old' = Len(ToApp) /\ hears' = sending /\ UNCHANGED <<number, sending>>
           ELSE UNCHANGED bookVars
        /\ UNCHANGED <<pc, ret, req, left, prev, coreVars, lineVars, sel, ein, eout, putVars, getVars, puts,
                       asleep, faults>>

CanTake == todo # <<>> /\ address = ADDR /\ ~ep0.stall /\ ep0.in = Head(todo)
CanSend == todo # <<>> /\ address = ADDR /\ ~ep0.stall /\ Head(todo) = "OUT" /\ ~ep0.out /\ ~ep0.setup

TakeIn ==
    /\ CanTake
    /\ ep0' = [ep0 EXCEPT !.in = "none"]
    /\ Advance

SendOut ==
    /\ CanSend
    /\ ep0' = [ep0 EXCEPT !.out = TRUE, !.header = "misread"]
    /\ Advance

\* The device refuses, sends something else, does not know of the transfer,
\* or waits for something else.
GiveUp ==
    /\ ~CanTake /\ ~CanSend
    /\ \/ /\ todo # <<>> /\ address = ADDR
          /\ ep0.stall \/ (Head(todo) # "OUT" /\ ep0.in # "none")
       \/ todo # <<>> /\ ~Processing /\ ~ep0.setup
       \/ todo # <<>> /\ Waiting
       \/ at \notin {0, Open} /\ address # ADDR /\ (~Processing \/ Waiting)
    /\ Suspend
    /\ at' = 0 /\ todo' = <<>> /\ asleep' = FALSE
    /\ Disturb /\ UNCHANGED <<putVars, getVars, puts, address, faults>>

-----------------------------------------------------------------------------
\* The port is open.
BulkIn ==
    /\ at = Open /\ ~asleep /\ ein.on /\ ein.busy
    /\ ein' = [ein EXCEPT !.busy = FALSE, !.pkt = <<>>]
    /\ stale' = Monus(stale, Len(ein.pkt))
    /\ wants' = IF calm THEN (wants + Monus(Len(ein.pkt), stale)) % Mod ELSE wants
    /\ UNCHANGED <<pc, ret, req, left, prev, coreVars, lineVars, sel, ep0, eout, putVars, getVars, puts, busVars,
                   number, sending, calm, old, hears>>

BulkOut ==
    /\ at = Open /\ ~asleep /\ eout.on /\ ~eout.full
    /\ \E n \in 1 .. MaxPacket :
          /\ eout' = [eout EXCEPT !.full = TRUE, !.data = Up(sending, n)]
          /\ sending' = IF calm THEN (sending + n) % Mod ELSE 0
    /\ UNCHANGED <<pc, ret, req, left, prev, coreVars, lineVars, sel, ep0, ein, putVars, getVars, puts, busVars,
                   number, calm, stale, wants, old, hears>>

Close ==
    /\ at = Open /\ ~asleep
    /\ at' = Open + 1
    /\ Disturb /\ UNCHANGED <<serialVars, puts, todo, address, asleep, faults>>

-----------------------------------------------------------------------------
Abort ==
    /\ Fault /\ todo # <<>>
    /\ todo' = <<>>
    /\ UNCHANGED <<serialVars, puts, at, address, asleep, bookVars>>

BusReset ==
    /\ Fault /\ at > 0 /\ Reset
    /\ at' = 1 /\ todo' = <<>> /\ address' = 0 /\ asleep' = FALSE
    /\ Disturb /\ UNCHANGED <<putVars, getVars, puts>>

GoIdle ==
    /\ Fault /\ at > 0 /\ Suspend
    /\ at' = 0 /\ todo' = <<>> /\ asleep' = FALSE
    /\ Disturb /\ UNCHANGED <<putVars, getVars, puts, address>>

Sleep ==
    /\ Fault /\ at = Open /\ ~asleep /\ Suspend
    /\ asleep' = TRUE
    /\ Disturb /\ UNCHANGED <<putVars, getVars, puts, at, todo, address>>

Wake ==
    /\ asleep /\ Resume
    /\ asleep' = FALSE
    /\ UNCHANGED <<putVars, getVars, puts, at, todo, address, faults, bookVars>>

\* What the host does not put off; at any time one of these at most.
Host == PortReset \/ SendSetup \/ TakeIn \/ SendOut \/ GiveUp \/ BulkIn \/ Wake

LineNext == Device \/ App \/ Host \/ BulkOut \/ Close \/ Abort \/ BusReset \/ GoIdle \/ Sleep

\* The main program, each step of which moves pc, ipc or rpc, goes on but
\* while it waits for the host.
LineSpec ==
    /\ LineInit /\ [][LineNext]_lineSpecVars
    /\ []<>Waiting \/ []<><<TRUE>>_<<pc, ipc, rpc>>
    /\ WF_lineSpecVars(Host)

-----------------------------------------------------------------------------
After(s, n) == SubSeq(s, n + 1, Len(s))

(***************************************************************************)
(* While the port is open and the bus undisturbed, what the application    *)
(* has put and the host has not yet received is exactly what is under way, *)
(* in its order: put_buf drops nothing, repeats nothing, and does not      *)
(* write into a packet the host has not read (usb_serial.c lines 114-142,  *)
(* CDCClassDevice.c lines 168-237).                                        *)
(***************************************************************************)
NothingDropped ==
    calm => LET under == After(ToHost, stale)
            IN  under = Up(wants, Len(under)) /\ (wants + Len(under)) % Mod = number

(***************************************************************************)
(* And what the host has sent reaches the application once and in order:   *)
(* get_char's ring buffer loses none and ReceiveByte gives no packet back  *)
(* before its last byte (usb_serial.c lines 157-174, CDCClassDevice.c      *)
(* lines 264-283).                                                         *)
(***************************************************************************)
ReachesApp ==
    calm => LET under == After(ToApp, old)
            IN  under = Up(hears, Len(under)) /\ (hears + Len(under)) % Mod = sending

(***************************************************************************)
(* When the host has the port open and is not asleep, the device takes     *)
(* itself for configured and may send, but for the end of the request that *)
(* opens the port: no reset or suspend between two steps of a request      *)
(* leaves a state the host does not expect (DeviceStandardReq.c lines      *)
(* 125-206, USBInterrupt_XMEGA.c lines 60-103).                            *)
(***************************************************************************)
SessionAgrees ==
    at = Open /\ ~asleep =>
        Linked /\ ein.on /\ eout.on /\ (ok_to_send \/ (pc = "dtr" /\ req = "RaiseDtr"))

(***************************************************************************)
(* Every byte put while the port is open is received by the host, unless   *)
(* the session ends before: none stays behind in a bank that nobody        *)
(* flushes (CDCClassDevice.c lines 135-146, 212-237).  Stated for the byte *)
(* numbered 0.                                                             *)
(***************************************************************************)
Delivered == (calm /\ wants = 0 /\ number # 0) ~> (~calm \/ wants # 0)

(***************************************************************************)
(* A put ends, also when the host goes away or closes the port while the   *)
(* put waits for it: the loop of put_buf serves the control endpoint and   *)
(* looks at ok_to_send (usb_serial.c lines 114-142).                       *)
(***************************************************************************)
PutEnds == pc = "put" ~> pc = "app"

(***************************************************************************)
(* A host that finds the bus idle gets to open the port, whatever request  *)
(* the device was in the middle of when the transfer was lost: every loop  *)
(* that waits for the host ends with a suspend or its next SETUP           *)
(* (DeviceStandardReq.c lines 125-286, Endpoint_XMEGA.c lines 195-217).    *)
(***************************************************************************)
Opens == at = 0 ~> at = Open
=============================================================================
