----------------------------- MODULE HorrorScope -----------------------------
(***************************************************************************)
(* HorrorScope.c: the command loop of the firmware.  One character selects *)
(* a command, its argument bytes follow, and every command answers with at *)
(* least one byte.  The trigger wait is the abstract one of TriggerWait,   *)
(* the sample memory is module Dmaadc, and the serial line is a queue of   *)
(* bytes in each direction.  put_char and put_buf block while the queue to *)
(* the host is full and drop what they have while the host has the port    *)
(* closed (usb_serial.c: ok_to_send).                                      *)
(*                                                                         *)
(* Bytes from the host are numbers, so a byte read in the wrong place is   *)
(* taken for what it is.  Bytes to the host are named: the reply           *)
(* characters, a sample byte by what it holds, and "text" for one of the   *)
(* two error messages.                                                     *)
(***************************************************************************)
EXTENDS Naturals, Sequences

CONSTANTS
    BufSize, CountMod,  \* as in Dmaadc
    OutCap,             \* bytes the line to the host holds
    Commands, Arguments \* what the host sends where a command, an argument is read

ASSUME SizesAssumption == BufSize \in Nat \ {0} /\ CountMod \in Nat /\ CountMod > BufSize
ASSUME OutCapAssumption == OutCap \in Nat \ {0}
ASSUME BytesAssumption == Commands \subseteq 0 .. 255 /\ Arguments \subseteq 0 .. 255

VARIABLES
    pc,         \* where the main loop is
    cmd, args,  \* the command and the arguments read so far
    conf,       \* the locals of main that commands set
    adc,        \* ADCA: CH0.CTRL.GAIN as the set of its bits, PRESCALER, CAL
    power,      \* PORTC.OUT and TCC2.CTRLC, the target's supply
    sent,       \* bytes put_buf has sent
    in, out,    \* bytes from and to the host
    dtr,        \* ok_to_send
    intact      \* history: the number of samples and the mode are those of the
                \* last acquisition

\* The trigger wait.
VARIABLES phase, timedOut
\* The sample memory.
VARIABLES apc, length, burst, enable, trfcnt, dest, scopeBuf, arming, fresh

TW == INSTANCE TriggerWait
Acq == INSTANCE Dmaadc

mainVars == <<pc, cmd, args>>
setVars  == <<conf, adc, power>>
lineVars == <<in, out>>
twVars   == <<phase, timedOut>>
acqVars  == <<apc, length, burst, enable, trfcnt, dest, scopeBuf, arming, fresh>>
vars     == <<pc, cmd, args, conf, adc, power, sent, in, out, dtr, intact,
              phase, timedOut, apc, length, burst, enable, trfcnt, dest, scopeBuf, arming,
              fresh>>

\* The characters of the protocol.
Ch == [T |-> 84, t |-> 116, d |-> 100, s |-> 115, n |-> 110, g |-> 103, c |-> 99, b |-> 98,
       f |-> 102, h |-> 104, w |-> 119, l |-> 108, e |-> 101, p |-> 112, x |-> 120,
       y |-> 121, eight |-> 56]

Shorts == {Ch.n, Ch.b, Ch.w, Ch.l, Ch.e}
Chars  == {Ch.g, Ch.c, Ch.eight, Ch.p}
Known  == {Ch[k] : k \in DOMAIN Ch}

NArgs(command) == IF command \in Shorts THEN 2 ELSE IF command \in Chars THEN 1 ELSE 0

Words == 0 .. 65535

\* USB_serial_get_short: big endian.
Short == args[1] * 256 + args[2]

Init ==
    /\ pc = "cmd" /\ cmd = 0 /\ args = <<>>
    /\ conf = [timeout |-> 40000, delay |-> 0, numberOfSamples |-> BufSize,
               glitch_length |-> 0, bits12 |-> TRUE, pulses |-> 1]
    /\ adc = [gain |-> {}, prescaler |-> 0, cal |-> 0]
    /\ power = TRUE /\ sent = 0
    /\ in = <<>> /\ out = <<>> /\ dtr = TRUE /\ intact = FALSE
    /\ TW!Init /\ Acq!Init

-----------------------------------------------------------------------------
\* Variant: a closed port does not end the loop.
PutBlocking(byte) ==
    /\ dtr /\ Len(out) < OutCap
    /\ out' = Append(out, byte)

\* USB_serial_put_char
Put(byte) ==
    /\ dtr => Len(out) < OutCap
    /\ out' = IF dtr THEN Append(out, byte) ELSE out

\* The next byte of the command: USB_serial_get_char in the switch and in the
\* argument expressions of the cases.
GetCommand ==
    /\ pc = "cmd" /\ in # <<>>
    /\ cmd' = Head(in) /\ in' = Tail(in)
    /\ pc' = IF NArgs(Head(in)) = 0 THEN "exec" ELSE "args"
    /\ UNCHANGED <<args, setVars, sent, out, dtr, intact, twVars, acqVars>>

GetArgument ==
    /\ pc = "args" /\ in # <<>>
    /\ args' = Append(args, Head(in)) /\ in' = Tail(in)
    /\ pc' = IF Len(args) + 1 = NArgs(cmd) THEN "exec" ELSE "args"
    /\ UNCHANGED <<cmd, setVars, sent, out, dtr, intact, twVars, acqVars>>

\* The end of an iteration; what it read is out of scope.
Loop == pc' = "cmd" /\ cmd' = 0 /\ args' = <<>> /\ sent' = 0

\* A command that changes a setting, or nothing, and answers at once.
Exec(chars) == pc = "exec" /\ cmd \in chars
Answer(byte) ==
    /\ Put(byte)
    /\ Loop
    /\ UNCHANGED <<in, dtr, twVars>>

Test == Exec({Ch.T, Ch.t}) /\ Answer("T") /\ UNCHANGED <<setVars, intact, acqVars>>

\* Variant: the length is stored before it is compared with the buffer.
SetSamplesStoredFirst ==
    /\ Exec({Ch.n})
    /\ conf' = [conf EXCEPT !.numberOfSamples = Short]
    /\ intact' = (intact /\ Short > BufSize)
    /\ Answer(IF Short > BufSize THEN "text" ELSE "d")
    /\ UNCHANGED <<adc, power, acqVars>>

SetSamples ==
    /\ Exec({Ch.n})
    /\ conf' = IF Short > BufSize THEN conf ELSE [conf EXCEPT !.numberOfSamples = Short]
    /\ intact' = (intact /\ Short > BufSize)
    /\ Answer(IF Short > BufSize THEN "text" ELSE "d")
    /\ UNCHANGED <<adc, power, acqVars>>

\* The low three bits of a byte.
Bits(byte) == {k \in 0 .. 2 : (byte \div 2^k) % 2 = 1}

\* adc_ch_gain(get_char() << 2): CTRL |= gain
SetGain ==
    /\ Exec({Ch.g})
    /\ adc' = [adc EXCEPT !.gain = @ \cup Bits(args[1])]
    /\ Answer("d")
    /\ UNCHANGED <<conf, power, intact, acqVars>>

\* adc_prescaler(get_char() & 7) clears the field and sets it.
SetPrescaler ==
    /\ Exec({Ch.c})
    /\ adc' = [adc EXCEPT !.prescaler = args[1] % 8]
    /\ Answer("d")
    /\ UNCHANGED <<conf, power, intact, acqVars>>

Calibrate ==
    /\ Exec({Ch.b})
    /\ adc' = [adc EXCEPT !.cal = Short]
    /\ Answer("d")
    /\ UNCHANGED <<conf, power, intact, acqVars>>

\* Command '8': dmaadc_init and trigger_init; Trigger has what they do to
\* channel 1.
SetBits12 ==
    /\ Exec({Ch.eight})
    /\ conf' = [conf EXCEPT !.bits12 = (args[1] % 2 = 1)]
    /\ Acq!dmaadc_init(conf'.bits12)
    /\ intact' = FALSE
    /\ Answer("d")
    /\ UNCHANGED <<adc, power>>

\* Variant: glitch_length keeps all that get_short returns.
GlitchLengthWide(v) == v

\* glitch_length is a uint8_t.
GlitchLength(v) == v % 256

\* Commands 'w', 'l', 'e' and 'p'.
SetConf ==
    /\ Exec({Ch.w, Ch.l, Ch.e, Ch.p})
    /\ conf' = CASE cmd = Ch.w -> [conf EXCEPT !.delay = Short]
                 [] cmd = Ch.l -> [conf EXCEPT !.glitch_length = GlitchLength(Short)]
                 [] cmd = Ch.e -> [conf EXCEPT !.timeout = Short]
                 [] cmd = Ch.p -> [conf EXCEPT !.pulses = args[1]]
    /\ Answer("d")
    /\ UNCHANGED <<adc, power, intact, acqVars>>

Power ==
    /\ Exec({Ch.x, Ch.y})
    /\ power' = (cmd = Ch.y)
    /\ Answer("d")
    /\ UNCHANGED <<conf, adc, intact, acqVars>>

Invalid == pc = "exec" /\ cmd \notin Known /\ Answer("text") /\ UNCHANGED <<setVars, intact, acqVars>>

-----------------------------------------------------------------------------
\* Commands 'd', 'f' and 'h' up to the 'r' that says they are ready.
Prepare ==
    /\ Exec({Ch.d, Ch.f, Ch.h})
    /\ pc' = "ready"
    /\ IF cmd = Ch.d THEN Acq!ClearBuf ELSE UNCHANGED acqVars
    /\ intact' = (intact /\ cmd # Ch.d)
    /\ UNCHANGED <<cmd, args, setVars, sent, lineVars, dtr, twVars>>

\* put_char('r') and the call of trigger_wait(timeout, delay).
Ready ==
    /\ pc = "ready"
    /\ Put("r")
    /\ TW!Call
    /\ pc' = "wait"
    /\ UNCHANGED <<cmd, args, setVars, sent, in, dtr, intact, acqVars>>

\* Variant: the acquisition is told a number of samples, two bytes each.
AcquireHalf == Acq!ReadBuf(conf.numberOfSamples \div 2)

\* dmaadc_read_buf_ch0(scopeBuf, numberOfSamples, bits12)
Acquire == Acq!ReadBuf(conf.numberOfSamples)

\* trigger_wait returns.  'd' goes on to sample and 'h' to glitch, after a
\* timeout too.
WaitReturn ==
    /\ pc = "wait"
    /\ TW!ReturnCaught \/ TW!ReturnTimedOut
    /\ IF cmd = Ch.d THEN Acquire ELSE UNCHANGED acqVars
    /\ intact' = (intact \/ cmd = Ch.d)
    /\ pc' = IF cmd = Ch.d THEN "acquire" ELSE IF cmd = Ch.h THEN "glitch" ELSE "reply"
    /\ UNCHANGED <<cmd, args, setVars, sent, lineVars, dtr>>

\* The steps of dmaadc_read_buf_ch0.
Read ==
    /\ pc = "acquire"
    /\ Acq!ReadStep
    /\ pc' = IF apc' = "idle" THEN "reply" ELSE "acquire"
    /\ UNCHANGED <<cmd, args, setVars, sent, lineVars, dtr, intact,
                   twVars>>

\* The loop over the pulses; HiresGlitch has its steps.
Glitch ==
    /\ pc = "glitch"
    /\ pc' = "reply"
    /\ UNCHANGED <<cmd, args, setVars, sent, lineVars, dtr, intact, twVars, acqVars>>

\* put_char(timedOut ? 'e' : 'd'); the other way round in 'f'
Result == IF timedOut <=> cmd # Ch.f THEN "e" ELSE "d"

Reply ==
    /\ pc = "reply"
    /\ Answer(Result)
    /\ UNCHANGED <<setVars, intact, acqVars>>

\* Command 's': put_buf(scopeBuf, numberOfSamples), which stops at the first
\* look at a closed port.
StartFetch ==
    /\ Exec({Ch.s})
    /\ pc' = "fetch"
    /\ UNCHANGED <<cmd, args, setVars, sent, lineVars, dtr, intact, twVars,
                   acqVars>>

FetchByte ==
    /\ pc = "fetch"
    /\ dtr /\ sent < conf.numberOfSamples
    /\ Put(IF sent < BufSize THEN scopeBuf[sent] ELSE "beyond")
    /\ sent' = sent + 1
    /\ UNCHANGED <<mainVars, setVars, in, dtr, intact, twVars, acqVars>>

EndFetch ==
    /\ pc = "fetch"
    /\ ~dtr \/ sent = conf.numberOfSamples
    /\ Loop
    /\ UNCHANGED <<setVars, lineVars, dtr, intact, twVars, acqVars>>

MainStep ==
    \/ GetCommand \/ GetArgument
    \/ Test \/ SetSamples \/ SetGain \/ SetPrescaler \/ Calibrate \/ SetBits12 \/ SetConf
    \/ Power \/ Invalid
    \/ Prepare \/ Ready \/ WaitReturn \/ Read \/ Glitch \/ Reply
    \/ StartFetch \/ FetchByte \/ EndFetch

-----------------------------------------------------------------------------
\* A rising edge that the running wait notices.
Edge ==
    /\ TW!Seen
    /\ UNCHANGED <<mainVars, setVars, sent, lineVars, dtr, intact, acqVars>>

\* The ADC and channel 0 work beside everything else.
Convert ==
    /\ Acq!Convert
    /\ UNCHANGED <<mainVars, setVars, sent, lineVars, dtr, intact, twVars>>

\* A byte that reaches a busy device waits to be read, so it may as well come
\* when the device reads again.
HostSend(byte) ==
    /\ in = <<>> /\ pc \in {"cmd", "args"}
    /\ byte \in IF pc = "args" THEN Arguments ELSE Commands
    /\ in' = <<byte>>
    /\ UNCHANGED <<mainVars, setVars, sent, out, dtr, intact, twVars,
                   acqVars>>

HostRead ==
    /\ out # <<>>
    /\ out' = Tail(out)
    /\ UNCHANGED <<mainVars, setVars, sent, in, dtr, intact, twVars,
                   acqVars>>

\* EVENT_CDC_Device_ControLineStateChanged: the host opens or closes the port.
\* What the endpoint holds stays there.
HostDtr ==
    /\ dtr' = ~dtr
    /\ UNCHANGED <<mainVars, setVars, sent, lineVars, intact, twVars,
                   acqVars>>

Next ==
    \/ MainStep
    \/ Edge
    \/ Convert
    \/ \E byte \in Commands \cup Arguments : HostSend(byte)
    \/ HostRead
    \/ HostDtr

Spec == Init /\ [][Next]_vars

\* The CPU runs, the ADC never stops, and an open host reads what it is sent.
\* Nothing makes the host send, an edge come or a port open; and a trigger wait
\* may last for ever, since the edge that trigger.c loses between lines 46 and
\* 48 may have been the last.
FairSpec ==
    Spec /\ WF_vars(MainStep /\ pc # "wait") /\ WF_vars(Convert) /\ WF_vars(HostRead)

-----------------------------------------------------------------------------
TypeOK ==
    /\ pc \in {"cmd", "args", "exec", "ready", "wait", "acquire", "glitch", "reply", "fetch"}
    /\ cmd \in 0 .. 255 /\ args \in Seq(0 .. 255) /\ Len(args) <= NArgs(cmd)
    /\ conf \in [timeout : Words, delay : Words, numberOfSamples : 0 .. BufSize,
                 glitch_length : 0 .. 255, bits12 : BOOLEAN, pulses : 0 .. 255]
    /\ adc \in [gain : SUBSET (0 .. 2), prescaler : 0 .. 7, cal : Words]
    /\ power \in BOOLEAN /\ sent \in 0 .. BufSize
    /\ in \in Seq(0 .. 255) /\ Len(in) <= 1
    /\ out \in Seq({"T", "r", "d", "e", "text", "U", "zero", "old", "new"}) /\ Len(out) <= OutCap
    /\ dtr \in BOOLEAN /\ intact \in BOOLEAN
    /\ phase \in {"idle", "waiting", "seen"} /\ timedOut \in BOOLEAN
    /\ Acq!TypeOK

(***************************************************************************)
(* What 's' sends is the last acquisition: once its block is complete, and *)
(* while neither '8' nor an accepted 'n' has changed what it was made      *)
(* with, no byte of the zeroed buffer, of an earlier block or from behind  *)
(* the buffer goes out.  A refused 'n', a closed port in between or a      *)
(* trigger that timed out changes nothing about it (HorrorScope.c lines    *)
(* 98-122).  Blocks that overlapped an earlier one, and empty ones, are    *)
(* excluded, as in Dmaadc!FilledWhenDone.                                  *)
(***************************************************************************)
FetchedIsSampled ==
    [][FetchByte /\ intact /\ ~enable /\ arming = "clean" /\ out' # out => out'[Len(out')] = "new"]_vars

(***************************************************************************)
(* The command loop uses the sample memory as module Dmaadc says: blocks   *)
(* of at most BufSize bytes, only after the buffer was cleared, and no     *)
(* re-initialisation inside a read.  What is proved of Dmaadc then holds   *)
(* in the whole firmware.                                                  *)
(***************************************************************************)
UsesDmaadc == Acq!Spec

(***************************************************************************)
(* A command comes back to the main loop, with the port open, closed or    *)
(* flapping: one that waits for a trigger comes to its wait, and once the  *)
(* wait has returned, with a trigger or without, to the main loop.  Two    *)
(* things are not claimed: that the wait returns (Trigger!WaitReturns says *)
(* when it does), and that the acquisition gets out of its spin loop when  *)
(* the block was complete before the CPU looked (Dmaadc!ReadReturns).      *)
(***************************************************************************)
CommandEnds ==
    pc \notin {"cmd", "args", "wait"} ~> (pc \in {"cmd", "wait"} \/ (apc = "spin" /\ trfcnt = 0))

=============================================================================
