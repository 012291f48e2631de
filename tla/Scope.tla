-------------------------------- MODULE Scope --------------------------------
(***************************************************************************)
(* acq/scope.py and the loop of acq/runSetup.py, driving the firmware of   *)
(* HorrorScope over the serial line.  The driver writes a command and      *)
(* reads its reply with a timeout; nothing in a reply says which command   *)
(* it answers.  A wrong or missing reply raises, and the acquisition       *)
(* script then reconnects: it reopens the port, sends 't' until a single   *)
(* 'T' comes back, and sends all settings again.  A wrong reply in there   *)
(* ends the script.  (fi/scope.py is the same file.)  The two other users  *)
(* of the driver are GuiScript and GlitchScript; Scripts puts them         *)
(* together.                                                               *)
(*                                                                         *)
(* A sample byte can have the value of any reply character, so the driver  *)
(* may take it for one.  The device may start in the middle of a command   *)
(* that an earlier script left unfinished.                                 *)
(***************************************************************************)
EXTENDS HorrorScope

CONSTANTS
    Self,   \* what the constructor of the Scope object is given
    InCap   \* bytes the line to the device holds

ASSUME SelfAssumption ==
    Self \in [numSamples : Words \ {0}, clockDivider : 0 .. 7, bits12 : BOOLEAN,
              bias : Words, gain : 0 .. 7, delay : Words]
ASSUME InCapAssumption == InCap \in Nat /\ InCap >= 3

VARIABLES
    script, \* who uses the driver: "acq", "gui" or "fi"; "any" in the constructor
    hpc,    \* where the script is
    self,   \* the attributes of the Scope object
    k,      \* the setting reconnect is at
    val,    \* what _testScope has read: "nothing", "T" or "other"
    fetched, \* bytes getSamples has read
    prompt  \* the device answers within every timeout, unless it waits; never changes

hostVars == <<script, hpc, self, k, val, fetched, prompt>>
devVars  == <<mainVars, setVars, sent, intact, twVars, acqVars>>
linkVars == <<vars, hostVars>>

Word(v) == <<v \div 256, v % 256>>

\* The commands of reconnect, in its order.
Settings ==
    << <<Ch.n>> \o Word(self.numSamples),
       <<Ch.c, self.clockDivider>>,
       <<Ch.eight, IF self.bits12 THEN 1 ELSE 0>>,
       <<Ch.b>> \o Word(self.bias),
       <<Ch.g, self.gain>>,
       <<Ch.w>> \o Word(self.delay) >>

\* What an earlier script left: a device that waits for a command, or for the
\* rest of one, with a number of samples of its own.
LinkInit ==
    /\ \/ pc = "cmd" /\ cmd = 0 /\ args = <<>>
       \/ /\ pc = "args" /\ cmd \in Shorts \cup Chars /\ args \in {<<>>, <<0>>}
          /\ Len(args) < NArgs(cmd)
    /\ conf = [timeout |-> 40000, delay |-> 0, numberOfSamples |-> 1,
               glitch_length |-> 0, bits12 |-> TRUE, pulses |-> 1]
    /\ adc = [gain |-> {}, prescaler |-> 0, cal |-> 0]
    /\ power = TRUE /\ sent = 0
    /\ in = <<>> /\ out = <<>> /\ dtr = FALSE /\ intact = FALSE
    /\ TW!Init /\ Acq!Init
    /\ hpc = "open" /\ self = Self /\ k = 1 /\ val = "nothing" /\ fetched = 0
    /\ prompt \in BOOLEAN
    /\ script = "any"

-----------------------------------------------------------------------------
Replies == {"T", "r", "d", "e", "text", "U", "zero", "old", "new"}

Write(bytes) ==
    /\ Len(in) + Len(bytes) <= InCap
    /\ in' = in \o bytes

\* What the driver may take a byte for.
TakenFor(byte) == IF byte \in {"old", "new"} THEN {byte, "T", "r", "d", "e"} ELSE {byte}

\* serial.read(1) returns a byte.
Read1(as) ==
    /\ out # <<>>
    /\ as \in TakenFor(Head(out))
    /\ out' = Tail(out)

\* Nothing more comes from the device for now: it waits for the trigger or for
\* the host, or it hangs.
Waiting ==
    \/ pc = "wait"
    \/ pc \in {"cmd", "args"} /\ in = <<>>
    \/ apc = "spin" /\ ~enable

\* A read ends because its time is up.
Expire == out = <<>> /\ (prompt => Waiting)

-----------------------------------------------------------------------------
\* reconnect: serial.close().  What the host had received is lost; what it
\* had not is still in the endpoint.
Close ==
    /\ hpc = "close"
    /\ hpc' = "open"
    /\ dtr' = FALSE
    /\ \E lost \in 0 .. Len(out) : out' = SubSeq(out, lost + 1, Len(out))
    /\ UNCHANGED <<devVars, in, k, val, fetched, self>>

\* serial.Serial(...) and the 't' of _testScope.  put_buf looks at ok_to_send
\* between the request that lowers DTR and the one that raises it.
Open ==
    /\ hpc = "open"
    /\ pc # "fetch"
    /\ hpc' = "test"
    /\ dtr' = TRUE
    /\ val' = "nothing"
    /\ Write(<<Ch.t>>)
    /\ UNCHANGED <<devVars, out, k, fetched, self>>

\* read(10)
TestRead ==
    /\ hpc = "test"
    /\ \E as \in Replies :
           /\ Read1(as)
           /\ val' = IF val = "nothing" /\ as = "T" THEN "T" ELSE "other"
    /\ UNCHANGED <<devVars, in, dtr, hpc, k, fetched, self>>

\* Variant: any reply will do.
TestEndLenient ==
    /\ hpc = "test"
    /\ val = "other" \/ Expire
    /\ hpc' = IF val = "nothing" THEN "close" ELSE "setup"
    /\ k' = 1 /\ val' = "nothing"
    /\ UNCHANGED <<devVars, lineVars, dtr, fetched, self>>

\* Variant: the reply is compared with a str, which bytes never equal.
TestEndText ==
    /\ hpc = "test"
    /\ val = "other" \/ Expire
    /\ hpc' = "close"
    /\ k' = 1 /\ val' = "nothing"
    /\ UNCHANGED <<devVars, lineVars, dtr, fetched, self>>

\* val == b'T', or once more around the loop.  Ten bytes end the read early.
TestEnd ==
    /\ hpc = "test"
    /\ val = "other" \/ Expire
    /\ hpc' = IF val = "T" THEN "setup" ELSE "close"
    /\ k' = 1 /\ val' = "nothing"
    /\ UNCHANGED <<devVars, lineVars, dtr, fetched, self>>

\* The write of one of the six setters.
Set ==
    /\ hpc = "setup"
    /\ hpc' = "ack"
    /\ Write(Settings[k])
    /\ UNCHANGED <<devVars, out, dtr, k, val, fetched, self>>

\* Variant: only a missing response is an error.
CheckResponseAny ==
    /\ hpc = "ack"
    /\ \/ /\ \E as \in Replies : Read1(as)
          /\ hpc' = IF k = Len(Settings) THEN "idle" ELSE "setup"
       \/ Expire /\ hpc' = "dead" /\ UNCHANGED out
    /\ k' = IF k = Len(Settings) THEN 1 ELSE k + 1
    /\ UNCHANGED <<devVars, in, dtr, val, fetched, self>>

\* _checkResponse: anything but 'd', no reply included, ends the script.
CheckResponse ==
    /\ hpc = "ack"
    /\ \/ \E as \in Replies :
             /\ Read1(as)
             /\ hpc' = IF as # "d" THEN "dead" ELSE IF k = Len(Settings) THEN "idle" ELSE "setup"
       \/ Expire /\ hpc' = "dead" /\ UNCHANGED out
    /\ k' = IF k = Len(Settings) THEN 1 ELSE k + 1
    /\ UNCHANGED <<devVars, in, dtr, val, fetched, self>>

Reconnect == Close \/ Open \/ TestRead \/ TestEnd \/ Set \/ CheckResponse

-----------------------------------------------------------------------------
\* An exception: the acquisition script reconnects, the window is gone.
Raised == IF script = "gui" THEN "gone" ELSE "close"

\* scope.arm(): the command, and the 'r' that must come back.
Arm ==
    /\ hpc = IF script = "gui" THEN "set" ELSE "idle"
    /\ hpc' = "arm"
    /\ Write(<<Ch.d>>)
    /\ UNCHANGED <<devVars, out, dtr, k, val, fetched, self>>

\* Otherwise what else there is is read, up to 100 bytes, and arm raises.
Armed ==
    /\ hpc = "arm"
    /\ \/ \E as \in Replies :
             /\ Read1(as)
             /\ hpc' = IF as # "r" THEN "drain" ELSE IF script = "gui" THEN "complete" ELSE "target"
       \/ Expire /\ hpc' = "drain" /\ UNCHANGED out
    /\ UNCHANGED <<devVars, in, dtr, k, val, fetched, self>>

Drain ==
    /\ hpc = "drain"
    /\ \/ \E as \in Replies : Read1(as) /\ UNCHANGED hpc
       \/ Expire /\ hpc' = Raised /\ UNCHANGED out
    /\ UNCHANGED <<devVars, in, dtr, k, val, fetched, self>>

\* The target is told to start; too short an answer of its own raises.
Target ==
    /\ hpc = "target"
    /\ hpc' \in {"complete", "close"}
    /\ UNCHANGED <<devVars, lineVars, dtr, k, val, fetched, self>>

\* scope.waitForCompletion(): after 'e' the loop goes on with the next attempt,
\* the window with the samples.
WaitForCompletion ==
    /\ hpc = "complete"
    /\ \/ \E as \in Replies :
             /\ Read1(as)
             /\ hpc' = CASE as = "d" -> "get"
                         [] as = "e" -> IF script = "gui" THEN "get" ELSE "idle"
                         [] OTHER -> Raised
       \/ Expire /\ hpc' = Raised /\ UNCHANGED out
    /\ UNCHANGED <<devVars, in, dtr, k, val, fetched, self>>

\* scope.getSamples(): the command, the bytes one by one, and the end of the
\* read.  Too few, or an odd number of bytes in 12 bit mode, raises.
GetSamples ==
    /\ hpc = "get"
    /\ hpc' = "samples" /\ fetched' = 0
    /\ Write(<<Ch.s>>)
    /\ UNCHANGED <<devVars, out, dtr, k, val, self>>

ReadSample ==
    /\ hpc = "samples"
    /\ fetched < self.numSamples
    /\ \E as \in Replies : Read1(as)
    /\ fetched' = fetched + 1
    /\ UNCHANGED <<devVars, in, dtr, hpc, k, val, self>>

SamplesRead ==
    /\ hpc = "samples"
    /\ fetched = self.numSamples \/ Expire
    /\ fetched' = 0
    /\ hpc' = IF fetched = self.numSamples /\ (self.bits12 => fetched % 2 = 0)
              THEN "idle" ELSE Raised
    /\ UNCHANGED <<devVars, lineVars, dtr, k, val, self>>

Attempt == Arm \/ Armed \/ Drain \/ Target \/ WaitForCompletion \/ GetSamples
           \/ ReadSample \/ SamplesRead

Device == (MainStep \/ Edge \/ Convert) /\ UNCHANGED hostVars

-----------------------------------------------------------------------------
\* The samples of a fetch that comes after its timeout may all look like
\* replies.  A reconnect needs a 'T' and a 'd' for each of its settings: so many
\* samples can answer all of it.
Trusted == prompt \/ self.numSamples <= Len(Settings)

(***************************************************************************)
(* Between two attempts the line is in step: no byte of an earlier command *)
(* or reply is on the way in either direction, and the device reads a      *)
(* command next.  Whatever the device was doing when the script found it,  *)
(* no reply is taken for that to a later command; however late it came,    *)
(* unless the samples of a late fetch stand for a whole reconnect          *)
(* (scope.py lines 39-79, 120-147).                                        *)
(***************************************************************************)
InStep == Trusted /\ hpc = "idle" => in = <<>> /\ out = <<>> /\ pc \in {"cmd", "fetch"}

(***************************************************************************)
(* Between two attempts the device has the settings the Scope object says  *)
(* it has: no setting is acknowledged by a reply to something else.  The   *)
(* gain is not among them: adc_ch_gain ORs it to the one before.  A number *)
(* of samples the device refuses is stored first (line 82), but no user of *)
(* the driver goes on with it.                                             *)
(***************************************************************************)
SettingsAgree ==
    Trusted /\ hpc = "idle" =>
        /\ conf.numberOfSamples = self.numSamples
        /\ conf.bits12 = self.bits12
        /\ conf.delay = self.delay
        /\ adc.prescaler = self.clockDivider
        /\ adc.cal = self.bias

(***************************************************************************)
(* With a device that answers in time unless it waits, the script never    *)
(* dies of a reconnect, also when the device was stuck in a trigger wait   *)
(* or in the middle of a command (scope.py lines 39-79).                   *)
(***************************************************************************)
Survives == prompt => hpc # "dead"

(***************************************************************************)
(* And every reconnect ends with the script back in its loop, unless the   *)
(* acquisition hangs (Dmaadc!ReadReturns) or the trigger wait does         *)
(* (Trigger!WaitReturns): _testScope gets a device out of every other      *)
(* state.                                                                  *)
(***************************************************************************)
Resyncs ==
    prompt /\ hpc = "close" ~> (hpc = "idle" \/ (apc = "spin" /\ trfcnt = 0) \/ [](pc = "wait"))
=============================================================================
