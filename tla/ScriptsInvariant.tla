-------------------------- MODULE ScriptsInvariant --------------------------
(***************************************************************************)
(* What holds of the whole system in every reachable state: the three      *)
(* programs over the driver, the serial line and the firmware, for every   *)
(* setting, buffer and capacity of the line.  Inv says, for each place a   *)
(* program can be at, which commands and replies are under way and what the*)
(* device is left with once it has worked through them.                    *)
(***************************************************************************)
EXTENDS Scripts, HorrorScopeInvariant

Selfs == [numSamples : Words \ {0}, clockDivider : 0 .. 7, bits12 : BOOLEAN,
          bias : Words, gain : 0 .. 7, delay : Words]

ShotTypes == [delay : Words, glitch_length : 0 .. 255, pulses : 0 .. 254]

\* What a sample byte may hold.
Samples == {"U", "zero", "old", "new"}

-----------------------------------------------------------------------------
\* The places of the programs.
Reconnecting == {"close", "open", "test", "setup", "ack"}
Attempting   == {"arm", "drain", "target", "complete", "get", "samples"}
Filling      == {"form", "formAck", "set"}
Shooting     == {"off", "offAck", "on", "onAck", "ping", "attempt", "shot", "shotAck", "glitchArm",
                 "glitchArmed", "glitcher", "classify", "extra", "flush"}

HostTypes ==
    /\ script \in {"any", "acq", "gui", "fi"}
    /\ hpc \in Reconnecting => script \in {"any", "acq"}
    /\ hpc \in Attempting => script \in {"acq", "gui"}
    /\ hpc = "target" => script = "acq"
    /\ hpc \in Filling => script = "gui"
    /\ hpc \in Shooting => script = "fi"
    /\ hpc \in Reconnecting \cup Attempting \cup Filling \cup Shooting \cup {"idle", "dead", "gone"}
    /\ self \in Selfs
    /\ script \in {"any", "acq"} => self = Self
    /\ k \in CASE hpc \in {"setup", "ack"} -> 1 .. 6
               [] hpc \in {"form", "formAck"} -> 1 .. 4
               [] hpc \in {"shot", "shotAck"} -> 1 .. 3
               [] hpc \in {"dead", "gone"} -> Nat
               [] OTHER -> {1}
    /\ hpc \in {"form", "formAck"} => form \in Forms
    /\ want \in ShotTypes
    /\ fetched \in Nat /\ (hpc \notin {"samples", "flush"} => fetched = 0)
    /\ val \in {"nothing", "T", "other"} /\ (val # "nothing" => hpc = "test")
    /\ guarded \in BOOLEAN /\ prompt \in BOOLEAN /\ dtr \in BOOLEAN
    /\ hpc = "open" => ~dtr
    /\ hpc \notin {"open", "dead", "gone"} => dtr

AdcTypes == [gain : SUBSET Nat, prescaler : Nat, cal : Nat]

\* put_buf has not sent more than it was told to, only 'd' acquires and only 'h'
\* glitches.
Sending ==
    /\ pc # "fetch" => sent = 0
    /\ pc = "fetch" => sent <= conf.numberOfSamples
    /\ pc = "acquire" => cmd = Ch.d
    /\ pc = "glitch" => cmd = Ch.h

DeviceTypes == IInv /\ FInv /\ Acq!TypeOK /\ Sending /\ cmd \in Bytes /\ adc \in AdcTypes

Base == DeviceTypes /\ HostTypes

-----------------------------------------------------------------------------
(***************************************************************************)
(* What is still to be done, and what is still to be read.                 *)
(***************************************************************************)
\* The device has the bytes w to work through: all of them on the line, or the
\* first ones read.  After a fetch it may still be in put_buf.
Work(w) ==
    \/ pc = "cmd" /\ in = w
    \/ pc = "fetch" /\ sent = conf.numberOfSamples /\ in = w
    \/ pc \in {"args", "exec"} /\ <<cmd>> \o args \o in = w

\* o is on its way to the host, and w to be worked through.
After(o, w) == out = o /\ Work(w)

Idle == After(<<>>, <<>>)

\* Commands that are owed their replies, the first of them in front.
Owe1(o, c, r) == After(o, c) \/ After(Append(o, r), <<>>)

Owe2(o, c, r, c2, r2) == After(o, c \o c2) \/ Owe1(Append(o, r), c2, r2)

Owe3(o, c, r, c2, r2, c3, r3) == After(o, c \o (c2 \o c3)) \/ Owe2(Append(o, r), c2, r2, c3, r3)

Owe4(o, c, r, c2, r2, c3, r3, c4, r4) ==
    After(o, c \o (c2 \o (c3 \o c4))) \/ Owe3(Append(o, r), c2, r2, c3, r3, c4, r4)

\* In command c between the 'r' and its answer; w comes behind it.
InCommand(c, o, w) ==
    pc \in {"wait", "acquire", "glitch", "reply"} /\ cmd = c /\ out = o /\ in = w

\* The conversation of a command that waits, from its first byte on.
Waits(c, o) ==
    \/ After(o, <<c>>)
    \/ pc = "ready" /\ cmd = c /\ out = o /\ in = <<>>
    \/ InCommand(c, Append(o, "r"), <<>>)
    \/ \E a \in {"d", "e"} : After(Append(Append(o, "r"), a), <<>>)

\* And from its 'r' on.
Answers(c) == InCommand(c, <<>>, <<>>) \/ \E a \in {"d", "e"} : After(<<a>>, <<>>)

-----------------------------------------------------------------------------
(***************************************************************************)
(* A reconnect.                                                            *)
(***************************************************************************)
\* What the device has after the j-th setter of reconnect.
Holds(j) ==
    /\ j = 1 => conf.numberOfSamples = self.numSamples
    /\ j = 2 => adc.prescaler = self.clockDivider
    /\ j = 3 => conf.bits12 = self.bits12
    /\ j = 4 => adc.cal = self.bias
    /\ j = 6 => conf.delay = self.delay

HoldBelow(n) == \A j \in 1 .. 6 : j < n => Holds(j)

Agreed == HoldBelow(7)

AllOf(c) == \A j \in 1 .. Len(in) : in[j] = c

\* The device does what it did before, and has only 't's after that.  Then it
\* answers them.  Samples come before everything else.
Asked(c) == in # <<>> /\ in[1] = c /\ \A j \in 2 .. Len(in) : in[j] = Ch.t

Between == pc = "cmd" \/ (pc = "fetch" /\ sent = conf.numberOfSamples)

Room(n) == IF script = "any" \/ self.numSamples < n THEN 0 ELSE self.numSamples - n

Answering ==
    /\ Between \/ (pc = "exec" /\ cmd = Ch.t)
    /\ AllOf(Ch.t)
    /\ \E a \in 0 .. Len(out) :
           /\ a <= Room(0)
           /\ \A i \in 1 .. a : out[i] \in Samples
           /\ \A i \in a + 1 .. Len(out) : out[i] \notin Samples /\ (a > 0 => out[i] = "T")
           /\ a > 0 /\ hpc = "test" /\ val = "nothing" =>
                  in # <<>> \/ pc = "exec" \/ a < Len(out)
    /\ \A i, j \in 1 .. Len(out) : i < j /\ out[i] = "T" => out[j] = "T"

Swallowing == pc \in {"args", "exec"} /\ cmd \in Shorts \cup Chars /\ AllOf(Ch.t) /\ out = <<>>

Acquiring ==
    \/ Between /\ Asked(Ch.d) /\ out = <<>>
    \/ pc \in {"exec", "ready"} /\ cmd = Ch.d /\ AllOf(Ch.t) /\ out = <<>>
    \/ /\ pc \in {"wait", "acquire", "reply"} /\ cmd = Ch.d /\ AllOf(Ch.t)
       /\ out \in {<<>>, <<"r">>}

Sampling ==
    /\ conf.numberOfSamples = self.numSamples
    /\ \/ Between /\ Asked(Ch.s) /\ out = <<>> /\ (hpc = "test" => Len(in) > 1)
       \/ pc = "exec" /\ cmd = Ch.s /\ AllOf(Ch.t) /\ out = <<>> /\ (hpc = "test" => in # <<>>)
       \/ /\ pc = "fetch" /\ AllOf(Ch.t) /\ (hpc = "test" => in # <<>>)
          /\ \A i \in 1 .. Len(out) : out[i] \in Samples
          /\ Len(out) <= sent

Lost == Answering \/ Swallowing \/ (script = "acq" /\ (Acquiring \/ Sampling))

\* A 'T' is owed for a 't' that was not the last, and at most b samples before it.
Behind(b) ==
    \/ \E a \in 0 .. b :
          a < Len(out) /\ out[a + 1] = "T" /\ \A i \in 1 .. a : out[i] \in Samples
    \/ /\ \A i \in 1 .. Len(out) : out[i] \in Samples
       /\ \/ Len(out) <= b /\ pc = "exec" /\ cmd = Ch.t
          \/ Len(out) <= b /\ pc = "cmd" /\ in # <<>> /\ in[1] = Ch.t
          \/ /\ Len(out) + (conf.numberOfSamples - sent) <= b
             /\ pc = "fetch" /\ in # <<>> /\ in[1] = Ch.t

Reconnection ==
    /\ hpc \in {"close", "open", "test"} => Lost
    /\ hpc = "test" /\ val = "T" => Idle \/ Behind(Room(1))
    /\ hpc = "setup" =>
           \/ Idle /\ HoldBelow(k)
           \/ ~prompt /\ Behind(Room(k))
    /\ hpc = "ack" =>
           \/ After(<<>>, Settings[k]) /\ HoldBelow(k)
           \/ After(<<"d">>, <<>>) /\ HoldBelow(k + 1)
           \/ After(<<"text">>, <<>>) /\ self.numSamples > BufSize
           \/ ~prompt /\ Behind(Room(k))

-----------------------------------------------------------------------------
(***************************************************************************)
(* Attempts of the acquisition script and of the window.                   *)
(***************************************************************************)
\* The setting of reconnect that the j-th setter of the form sets.
FormField == <<2, 3, 6, 1>>

\* What getSamples has not read of a fetch.
SamplesComing ==
    \/ After(<<>>, <<Ch.s>>) /\ fetched = 0
    \/ /\ pc = "fetch" \/ (pc = "cmd" /\ fetched + Len(out) = self.numSamples)
       /\ in = <<>>
       /\ \A i \in 1 .. Len(out) : out[i] \in Samples
       /\ pc = "fetch" => fetched + Len(out) = sent

Acquisition ==
    /\ hpc \in {"idle", "form", "set"} => Idle /\ Agreed
    /\ hpc = "formAck" =>
           \/ After(<<>>, Settings[FormField[k]]) /\ \A j \in 1 .. 6 : j # FormField[k] => Holds(j)
           \/ After(<<"d">>, <<>>) /\ Agreed
           \/ After(<<"text">>, <<>>)
    /\ hpc \in Attempting => Agreed
    /\ hpc = "arm" => Waits(Ch.d, <<>>)
    /\ hpc \in {"target", "complete"} => Answers(Ch.d)
    /\ hpc = "drain" => Waits(Ch.d, <<>>) \/ Answers(Ch.d) \/ Idle
    /\ hpc = "get" => Idle
    /\ hpc = "samples" => SamplesComing

-----------------------------------------------------------------------------
(***************************************************************************)
(* The glitch script, with a device that answers in time.                  *)
(***************************************************************************)
\* What the device has after the j-th setter of an attempt.
ShotHolds(j) ==
    /\ j = 1 => conf.delay = want.delay
    /\ j = 2 => conf.glitch_length = want.glitch_length
    /\ j = 3 => conf.pulses = want.pulses

ShotBelow(n) == \A j \in 1 .. 3 : j < n => ShotHolds(j)

\* The history, from the glitch to the answer.
Recorded ==
    /\ pc = "reply" => shot = [of |-> want, caught |-> ~timedOut]
    /\ out # <<>> /\ out[Len(out)] = "d" => shot = [of |-> want, caught |-> TRUE]

X == <<Ch.x>>

Y == <<Ch.y>>

T == <<Ch.t>>

H == <<Ch.h>>

S(j) == ShotCommands[j]

\* In 'h', or past it, with the commands behind it.
Late0 == Answers(Ch.h)

Late1(c, r) == InCommand(Ch.h, <<>>, c) \/ \E a \in {"d", "e"} : Owe1(<<a>>, c, r)

Late2(c, r, c2, r2) ==
    InCommand(Ch.h, <<>>, c \o c2) \/ \E a \in {"d", "e"} : Owe2(<<a>>, c, r, c2, r2)

Late3(c, r, c2, r2, c3, r3) ==
    InCommand(Ch.h, <<>>, c \o (c2 \o c3)) \/ \E a \in {"d", "e"} : Owe3(<<a>>, c, r, c2, r2, c3, r3)

\* The places of the script, one by one.
AtOff == Idle \/ Late0 \/ (~guarded /\ Late2(X, "d", T, "T"))

AtOffAck == Owe1(<<>>, X, "d") \/ Late1(X, "d") \/ (~guarded /\ Late3(X, "d", T, "T", X, "d"))

AtOn == Idle \/ Owe1(<<>>, X, "d") \/ (~guarded /\ Owe3(<<>>, X, "d", T, "T", X, "d"))

AtOnAck ==
    \/ After(<<>>, Y)
    \/ After(<<"d">>, <<>>) /\ power
    \/ After(<<>>, X \o Y) \/ After(<<"d">>, Y)
    \/ After(Append(<<"d">>, "d"), <<>>) /\ power
    \/ ~guarded /\ Owe4(<<>>, X, "d", T, "T", X, "d", Y, "d")

AtStart ==
    \/ Idle /\ power
    \/ After(<<>>, Y)
    \/ After(<<"d">>, <<>>) /\ power
    \/ Owe3(<<>>, T, "T", X, "d", Y, "d")

AtFirstAck ==
    \/ After(<<>>, S(1)) /\ power
    \/ After(<<"d">>, <<>>) /\ power /\ ShotBelow(2)
    \/ After(<<>>, Y \o S(1))
    \/ Owe1(<<"d">>, S(1), "d") /\ power
    \/ Owe4(<<>>, T, "T", X, "d", Y, "d", S(1), "d")

\* At the j-th setter, with at most one reply still to come.
AtShot(j) == power /\ ((Idle /\ ShotBelow(j)) \/ Owe1(<<>>, S(j - 1), "d"))

AtShotAck(j) ==
    /\ power
    /\ \/ After(<<>>, S(j)) /\ ShotBelow(j)
       \/ After(<<"d">>, <<>>) /\ ShotBelow(j + 1)
       \/ Owe2(<<>>, S(j - 1), "d", S(j), "d")

AtGlitchArmed ==
    /\ power
    /\ \/ Waits(Ch.h, <<>>) /\ ShotBelow(4) /\ Recorded
       \/ After(<<>>, S(3) \o H)
       \/ Waits(Ch.h, <<"d">>)

AtGlitcher == power /\ ((Answers(Ch.h) /\ ShotBelow(4) /\ Recorded) \/ Waits(Ch.h, <<>>))

AtClassify == power /\ Idle /\ shot = [of |-> want, caught |-> TRUE]

AtExtra ==
    \/ Late1(X, "d") \/ Owe1(<<>>, X, "d") \/ Idle
    \/ Owe3(<<>>, X, "d", Y, "d", S(1), "d") \/ Owe2(<<>>, Y, "d", S(1), "d")
    \/ Owe1(<<>>, S(1), "d")

AtFlush ==
    /\ ~guarded
    /\ \/ Late2(X, "d", T, "T") /\ fetched = 0
       \/ Owe2(<<>>, X, "d", T, "T") /\ fetched = 1
       \/ Owe1(<<>>, T, "T") /\ fetched <= 2
       \/ Idle /\ fetched <= 3

Glitches ==
    /\ hpc = "off" => AtOff
    /\ hpc = "offAck" => AtOffAck
    /\ hpc = "on" => AtOn
    /\ hpc = "onAck" => AtOnAck
    /\ hpc \in {"ping", "attempt"} \/ (hpc = "shot" /\ k = 1) => AtStart
    /\ hpc = "shotAck" /\ k = 1 => AtFirstAck
    /\ hpc = "shot" /\ k > 1 => AtShot(k)
    /\ hpc = "shotAck" /\ k > 1 => AtShotAck(k)
    /\ hpc = "glitchArm" => AtShot(4)
    /\ hpc = "glitchArmed" => AtGlitchArmed
    /\ hpc = "glitcher" => AtGlitcher
    /\ hpc = "classify" => AtClassify
    /\ hpc = "extra" /\ guarded => AtExtra
    /\ hpc = "flush" => AtFlush

-----------------------------------------------------------------------------
Sound == script = "acq" => prompt \/ Self.numSamples <= 6

Inv ==
    /\ Base
    /\ Sound => Reconnection /\ Acquisition
    /\ prompt => Glitches
    /\ prompt /\ hpc = "dead" => Self.numSamples > BufSize

-----------------------------------------------------------------------------
(***************************************************************************)
(* Abbreviations of the proofs.                                            *)
(***************************************************************************)
Dev == MainStep \/ Edge \/ Convert

\* A whole command.
Command(c) == c \in Seq(Bytes) /\ c # <<>> /\ Len(c) = 1 + NArgs(c[1])

\* The device has read it.
Has(c) == <<cmd>> \o args = c

\* What a step of the device leaves alone while it reads a command.
Settled == UNCHANGED <<out, conf, adc, power>>

\* The commands the programs send ahead of a reply, and their replies.
Simple(c) == Command(c) /\ c[1] \in {Ch.t, Ch.x, Ch.y, Ch.w, Ch.l, Ch.p}

ReplyTo(c) == IF c[1] = Ch.t THEN "T" ELSE "d"

\* A command with a 16 bit argument, and one with a byte.
WordArg(c, b, v) == Command(c) /\ c[1] = b /\ Len(c) = 3 /\ c[2] = v \div 256 /\ c[3] = v % 256

ByteArg(c, b, v) == Command(c) /\ c[1] = b /\ Len(c) = 2 /\ c[2] = v

Gets(c, r) == Simple(c) /\ ReplyTo(c) = r

\* A step of the device while the glitch script has the port.
Works == Base /\ Dev /\ dtr /\ Shoot /\ UNCHANGED hostVars /\ UNCHANGED <<guarded, want>>

Writes(b) == UNCHANGED devVars /\ UNCHANGED out /\ Write(b)

Reads(as) == UNCHANGED devVars /\ UNCHANGED in /\ Read1(as)

Named == {"T", "r", "d", "e", "text"}

\* o is a in front of p.
Front(a, o, p) == o \in Seq(Named) /\ o # <<>> /\ Head(o) = a /\ Tail(o) = p

Silent == out = <<>> /\ Waiting

Rests3 == UNCHANGED devVars /\ UNCHANGED <<in, out>>

PlaceTypes ==
    /\ hpc \in Reconnecting => script \in {"any", "acq"}
    /\ hpc \in Attempting => script \in {"acq", "gui"}
    /\ hpc = "target" => script = "acq"
    /\ hpc \in Filling => script = "gui"
    /\ hpc \in Shooting => script = "fi"
    /\ hpc \in Reconnecting \cup Attempting \cup Filling \cup Shooting \cup {"idle", "dead", "gone"}

CountTypes ==
    k \in CASE hpc \in {"setup", "ack"} -> 1 .. 6
            [] hpc \in {"form", "formAck"} -> 1 .. 4
            [] hpc \in {"shot", "shotAck"} -> 1 .. 3
            [] hpc \in {"dead", "gone"} -> Nat
            [] OTHER -> {1}

AttributeTypes ==
    /\ self \in Selfs
    /\ script \in {"any", "acq"} => self = Self
    /\ hpc \in {"form", "formAck"} => form \in Forms
    /\ want \in ShotTypes

ReadingTypes ==
    /\ fetched \in Nat /\ (hpc \notin {"samples", "flush"} => fetched = 0)
    /\ val \in {"nothing", "T", "other"} /\ (val # "nothing" => hpc = "test")

PortTypes ==
    /\ guarded \in BOOLEAN /\ prompt \in BOOLEAN /\ dtr \in BOOLEAN
    /\ hpc = "open" => ~dtr
    /\ hpc \notin {"open", "dead", "gone"} => dtr

ScriptTypes == script \in {"any", "acq", "gui", "fi"}

\* What the reconnect and the attempts need, place by place.
Both == Reconnection /\ Acquisition

\* The first n replies are lost, or read.
Drops(n) == out' = SubSeq(out, n + 1, Len(out))
=============================================================================
