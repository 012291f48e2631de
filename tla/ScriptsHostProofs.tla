------------------------- MODULE ScriptsHostProofs --------------------------
(***************************************************************************)
(* Every step of a program, and of the driver under it, preserves Inv.  The*)
(* first part is about sequences of bytes, the commands the driver writes  *)
(* and the line; ProgramKeeps then takes the programs step by step.        *)
(***************************************************************************)
EXTENDS ScriptsInvariant, TLAPS

-----------------------------------------------------------------------------
(***************************************************************************)
(* Sequences, the types of the state, and the bytes of a command.         *)
(***************************************************************************)
\* Sequences.
LEMMA SeqLen ==
  ASSUME NEW A, NEW s \in Seq(A)
  PROVE  Len(s) \in Nat /\ s \in [1 .. Len(s) -> A] /\ DOMAIN s = 1 .. Len(s)
  OBVIOUS

LEMMA SeqElement == ASSUME NEW A, NEW s \in Seq(A), NEW i \in 1 .. Len(s) PROVE s[i] \in A
  OBVIOUS

LEMMA SeqEmpty ==
  ASSUME NEW A
  PROVE  <<>> \in Seq(A) /\ Len(<<>>) = 0 /\ \A s \in Seq(A) : s # <<>> => Len(s) \in Nat \ {0}
  OBVIOUS

LEMMA SeqSame ==
  ASSUME NEW A, NEW s \in Seq(A), NEW u \in Seq(A), Len(s) = Len(u), \A i \in 1 .. Len(s) : s[i] = u[i]
  PROVE  s = u
  OBVIOUS

LEMMA SeqAppend ==
  ASSUME NEW A, NEW s \in Seq(A), NEW e \in A
  PROVE  /\ Append(s, e) \in Seq(A) /\ Append(s, e) # <<>> /\ Len(Append(s, e)) = Len(s) + 1
         /\ \A i \in 1 .. Len(s) : Append(s, e)[i] = s[i]
         /\ Append(s, e)[Len(s) + 1] = e
  OBVIOUS

LEMMA SeqHeadTail ==
  ASSUME NEW A, NEW s \in Seq(A), s # <<>>
  PROVE  /\ Head(s) \in A /\ Tail(s) \in Seq(A) /\ Len(Tail(s)) = Len(s) - 1
         /\ \A i \in 1 .. Len(Tail(s)) : Tail(s)[i] = s[i + 1]
  OBVIOUS

LEMMA SeqConcat ==
  ASSUME NEW A, NEW s \in Seq(A), NEW u \in Seq(A)
  PROVE  /\ s \o u \in Seq(A) /\ Len(s \o u) = Len(s) + Len(u)
         /\ \A i \in 1 .. Len(s) + Len(u) : (s \o u)[i] = IF i <= Len(s) THEN s[i] ELSE u[i - Len(s)]
  OBVIOUS

LEMMA ConcatNone == ASSUME NEW A, NEW s \in Seq(A) PROVE s \o <<>> = s /\ <<>> \o s = s
  OBVIOUS

LEMMA ConcatAssoc ==
  ASSUME NEW A, NEW s \in Seq(A), NEW u \in Seq(A), NEW v \in Seq(A)
  PROVE  (s \o u) \o v = s \o (u \o v)
  OBVIOUS

LEMMA ConcatIsNone ==
  ASSUME NEW A, NEW s \in Seq(A), NEW u \in Seq(A)
  PROVE  /\ s \o u = s <=> u = <<>>
         /\ s \o u = u <=> s = <<>>
         /\ s \o u = <<>> <=> s = <<>> /\ u = <<>>
  BY SMTT(30)

LEMMA AppendIs == ASSUME NEW A, NEW s \in Seq(A), NEW e \in A PROVE Append(s, e) = s \o <<e>>
  OBVIOUS

\* The programs touch nothing of the device but the line.
LEMMA LineTypes ==
  ASSUME DeviceTypes, UNCHANGED devVars, in' \in Seq(Bytes), out' \in Seq(Sent)
  PROVE  DeviceTypes'
<1> USE ZenonT(30)
<1> USE DEF devVars, mainVars, setVars, acqVars, twVars
<1>1. IInv'
  BY DEF DeviceTypes, IInv, Parsing, NArgs
<1>2. FInv'
  BY DEF DeviceTypes, FInv, Line, Places, Intact
<1>3. Acq!TypeOK'
  BY DEF DeviceTypes, Acq!TypeOK
<1>4. Sending' /\ cmd' \in Bytes /\ adc' \in AdcTypes
  BY DEF DeviceTypes, Sending
<1> QED
  BY <1>1, <1>2, <1>3, <1>4 DEF DeviceTypes

LEMMA Prepend2 ==
  ASSUME NEW U, NEW a \in U, NEW b \in U, NEW c \in U
  PROVE  <<a>> \o <<b, c>> = <<a, b, c>>
<1> USE ZenonT(30)
<1> DEFINE s == <<a>>
           t == <<b, c>>
           u == <<a, b, c>>
<1>1. s \in Seq(U) /\ t \in Seq(U) /\ u \in Seq(U) /\ Len(s) = 1 /\ Len(t) = 2 /\ Len(u) = 3
  BY SMTT(30)
<1>2. s[1] = a /\ t[1] = b /\ t[2] = c /\ u[1] = a /\ u[2] = b /\ u[3] = c
  OBVIOUS
<1> HIDE DEF s, t, u
<1>3. s \o t \in Seq(U) /\ Len(s \o t) = 3
  BY SMTT(30), <1>1, SeqConcat
<1>4. (s \o t)[1] = a /\ (s \o t)[2] = b /\ (s \o t)[3] = c
  <2>1. \A i \in 1 .. Len(s) + Len(t) : (s \o t)[i] = IF i <= Len(s) THEN s[i] ELSE t[i - Len(s)]
    BY <1>1, SeqConcat
  <2>2. (s \o t)[1] = s[1]
    <3>1. 1 \in 1 .. Len(s) + Len(t) /\ 1 <= Len(s)
      BY SMTT(30), <1>1
    <3> QED
      BY <2>1, <3>1
  <2>3. (s \o t)[2] = t[1]
    <3>1. 2 \in 1 .. Len(s) + Len(t) /\ ~(2 <= Len(s)) /\ 2 - Len(s) = 1
      BY SMTT(30), <1>1
    <3> QED
      BY <2>1, <3>1
  <2>4. (s \o t)[3] = t[2]
    <3>1. 3 \in 1 .. Len(s) + Len(t) /\ ~(3 <= Len(s)) /\ 3 - Len(s) = 2
      BY SMTT(30), <1>1
    <3> QED
      BY <2>1, <3>1
  <2> QED
    BY <1>2, <2>2, <2>3, <2>4
<1>5. \A i \in 1 .. 3 : (s \o t)[i] = u[i]
  <2>1. \A i \in 1 .. 3 : i = 1 \/ i = 2 \/ i = 3
    BY SMTT(30)
  <2> QED
    BY <1>2, <1>4, <2>1
<1>6. s \o t = u
  BY <1>1, <1>3, <1>5, SeqSame
<1> QED
  BY <1>6 DEF s, t, u

LEMMA Distinct ==
  /\ {Ch.T, Ch.t, Ch.d, Ch.s, Ch.n, Ch.g, Ch.c, Ch.b, Ch.f, Ch.h, Ch.w, Ch.l, Ch.e, Ch.p, Ch.x, Ch.y,
      Ch.eight} \subseteq Known
  /\ \A c \in {Ch.T, Ch.t, Ch.d, Ch.s, Ch.f, Ch.h, Ch.x, Ch.y} : c \notin Shorts \cup Chars
  /\ \A c \in Shorts : c \notin Chars
<1>1. {Ch.T, Ch.t, Ch.d, Ch.s, Ch.n, Ch.g, Ch.c, Ch.b, Ch.f, Ch.h, Ch.w, Ch.l, Ch.e, Ch.p, Ch.x, Ch.y,
       Ch.eight} \subseteq Known
  BY DEF Known, Ch
<1> QED
  BY <1>1 DEF Shorts, Chars, Ch

\* The bytes of a 16 bit argument.
LEMMA WordBound == \A v \in Words : v \in Nat /\ v <= 65535
<1>1. \E n \in Nat : n = 65535
  BY SMT
<1>2. PICK n \in Nat : n = 65535
  BY <1>1, SMT
<1>3. Words = 0 .. n
  BY <1>2, SMT DEF Words
<1>4. \A v \in Words : v \in Nat /\ v <= n
  BY <1>3, SMT
<1> QED
  BY <1>2, <1>4, SMT

LEMMA WordBytes ==
  ASSUME NEW v \in Words
  PROVE  /\ v \div 256 \in Bytes /\ v % 256 \in Bytes
         /\ (v \div 256) * 256 + (v % 256) = v
<1>1. v \in Nat /\ v <= 65535
  BY WordBound
<1>2. v \div 256 \in Nat /\ v \div 256 <= 255 /\ v = 256 * (v \div 256) + (v % 256)
  BY <1>1, SMT
<1>3. v % 256 \in Bytes
  BY <1>1, SMT DEF Bytes
<1> QED
  BY <1>2, <1>3, SMT DEF Bytes

LEMMA WordCommand ==
  ASSUME NEW b \in Bytes, NEW v \in Words
  PROVE  /\ <<b>> \o Word(v) = <<b, v \div 256, v % 256>>
         /\ <<b>> \o Word(v) \in Seq(Bytes)
<1>1. v \div 256 \in Bytes /\ v % 256 \in Bytes
  BY WordBytes
<1>2. <<b>> \o Word(v) = <<b, v \div 256, v % 256>>
  BY <1>1, Prepend2 DEF Word
<1> HIDE DEF Bytes
<1>3. \A d, e \in Bytes : <<b, d, e>> \in Seq(Bytes)
  OBVIOUS
<1>4. <<b, v \div 256, v % 256>> \in Seq(Bytes)
  BY <1>1, <1>3, ZenonT(30)
<1> QED
  BY <1>2, <1>4, ZenonT(30)

LEMMA ArgsOf ==
  ASSUME DeviceTypes, NEW c, Has(c)
  PROVE  Len(c) = 1 + Len(args) /\ \A i \in 1 .. Len(args) : args[i] = c[i + 1]
<1> USE ZenonT(30)
<1> DEFINE first == <<cmd>>
<1>1. first \in Seq(Bytes) /\ args \in Seq(Bytes) /\ Len(first) = 1
  BY SMTT(30) DEF DeviceTypes, IInv, Parsing
<1>2. first \o args = c
  BY DEF Has
<1> HIDE DEF first
<1>3. /\ Len(first \o args) = Len(first) + Len(args) /\ Len(args) \in Nat
      /\ \A i \in 1 .. Len(first) + Len(args) :
             (first \o args)[i] = IF i <= Len(first) THEN first[i] ELSE args[i - Len(first)]
  BY <1>1, SeqConcat, SeqLen
<1>4. ASSUME NEW i \in 1 .. Len(args) PROVE args[i] = (first \o args)[i + 1]
  <2> DEFINE j == i + 1
  <2>1. j \in 1 .. Len(first) + Len(args) /\ ~(j <= Len(first)) /\ j - Len(first) = i
    BY SMTT(30), <1>1, <1>3
  <2> HIDE DEF j
  <2>2. (first \o args)[j] = args[i]
    BY <1>3, <2>1
  <2> QED
    BY <2>2 DEF j
<1> QED
  BY <1>1, <1>2, <1>3, <1>4

-----------------------------------------------------------------------------
(***************************************************************************)
(* The commands that wait for the trigger.                                 *)
(***************************************************************************)
LEMMA Singles == \A r : Append(<<>>, r) = <<r>> /\ Tail(<<r>>) = <<>> /\ Head(<<r>>) = r /\ <<r>> # <<>>
  OBVIOUS

LEMMA WaitCommand == \A c \in {Ch.d, Ch.h, Ch.s, Ch.t, Ch.x, Ch.y} : Command(<<c>>) /\ c \in Bytes
<1>1. ASSUME NEW c \in {Ch.d, Ch.h, Ch.s, Ch.t, Ch.x, Ch.y} PROVE c \in Bytes /\ NArgs(c) = 0
  <2>1. NArgs(c) = 0
    BY Distinct, ZenonT(30) DEF NArgs
  <2> QED
    BY <2>1 DEF Ch, Bytes
<1>2. ASSUME NEW c \in Bytes, NArgs(c) = 0 PROVE Command(<<c>>)
  BY <1>2 DEF Command
<1> QED
  BY <1>1, <1>2, ZenonT(30)

-----------------------------------------------------------------------------
(***************************************************************************)
(* The setters of reconnect.                                               *)
(***************************************************************************)
LEMMA Six ==
  ASSUME NEW a, NEW b, NEW c, NEW d, NEW e, NEW f
  PROVE  LET s == <<a, b, c, d, e, f>>
         IN  s[1] = a /\ s[2] = b /\ s[3] = c /\ s[4] = d /\ s[5] = e /\ s[6] = f
  BY ZenonT(30)

LEMMA SettingsAre ==
  /\ Settings[1] = <<Ch.n>> \o Word(self.numSamples)
  /\ Settings[2] = <<Ch.c, self.clockDivider>>
  /\ Settings[3] = <<Ch.eight, IF self.bits12 THEN 1 ELSE 0>>
  /\ Settings[4] = <<Ch.b>> \o Word(self.bias)
  /\ Settings[5] = <<Ch.g, self.gain>>
  /\ Settings[6] = <<Ch.w>> \o Word(self.delay)
  BY Six, ZenonT(30) DEF Settings

LEMMA IsWordArg ==
  ASSUME NEW b \in Shorts, NEW v \in Words
  PROVE  WordArg(<<b>> \o Word(v), b, v)
<1>1. b \in Bytes /\ NArgs(b) = 2
  BY DEF Shorts, Ch, Bytes, NArgs
<1> DEFINE c == <<b, v \div 256, v % 256>>
<1>2. <<b>> \o Word(v) = c
  BY <1>1, WordCommand
<1>3. c \in Seq(Bytes)
  BY <1>1, <1>2, WordCommand, ZenonT(30)
<1>4. Len(c) = 3 /\ c[1] = b /\ c[2] = v \div 256 /\ c[3] = v % 256 /\ c # <<>>
  BY ZenonT(30)
<1> HIDE DEF c
<1>5. WordArg(c, b, v)
  BY <1>1, <1>3, <1>4 DEF WordArg, Command
<1> QED
  BY <1>2, <1>5, ZenonT(30)

LEMMA IsByteArg ==
  ASSUME NEW b \in Chars, NEW v \in Bytes
  PROVE  ByteArg(<<b, v>>, b, v)
<1>1. b \in Bytes /\ NArgs(b) = 1
  BY DEF Shorts, Chars, Ch, Bytes, NArgs
<1> QED
  BY <1>1 DEF ByteArg, Command

LEMMA SettingIs ==
  ASSUME self \in Selfs
  PROVE  /\ WordArg(Settings[1], Ch.n, self.numSamples)
         /\ ByteArg(Settings[2], Ch.c, self.clockDivider)
         /\ ByteArg(Settings[3], Ch.eight, IF self.bits12 THEN 1 ELSE 0)
         /\ WordArg(Settings[4], Ch.b, self.bias)
         /\ ByteArg(Settings[5], Ch.g, self.gain)
         /\ WordArg(Settings[6], Ch.w, self.delay)
<1> USE ZenonT(30)
<1>1. self.numSamples \in Words /\ self.bias \in Words /\ self.delay \in Words
  BY DEF Selfs
<1>2. self.clockDivider \in Bytes /\ self.gain \in Bytes /\ (IF self.bits12 THEN 1 ELSE 0) \in Bytes
  BY SMTT(30) DEF Selfs, Bytes
<1>3. Ch.n \in Shorts /\ Ch.b \in Shorts /\ Ch.w \in Shorts
  BY DEF Shorts
<1>4. Ch.c \in Chars /\ Ch.eight \in Chars /\ Ch.g \in Chars
  BY DEF Chars
<1>5. WordArg(Settings[1], Ch.n, self.numSamples)
  BY <1>1, <1>3, IsWordArg, SettingsAre
<1>6. WordArg(Settings[4], Ch.b, self.bias)
  BY <1>1, <1>3, IsWordArg, SettingsAre
<1>7. WordArg(Settings[6], Ch.w, self.delay)
  BY <1>1, <1>3, IsWordArg, SettingsAre
<1>8. ByteArg(Settings[2], Ch.c, self.clockDivider) /\ ByteArg(Settings[5], Ch.g, self.gain)
  BY <1>2, <1>4, IsByteArg, SettingsAre
<1>9. ByteArg(Settings[3], Ch.eight, IF self.bits12 THEN 1 ELSE 0)
  BY <1>2, <1>4, IsByteArg, SettingsAre
<1> QED
  BY <1>5, <1>6, <1>7, <1>8, <1>9

LEMMA SettingCommand ==
  ASSUME self \in Selfs, NEW j \in 1 .. 6
  PROVE  Command(Settings[j])
<1>1. \A i \in 1 .. 6 : i = 1 \/ i = 2 \/ i = 3 \/ i = 4 \/ i = 5 \/ i = 6
  OBVIOUS
<1> QED
  BY <1>1, SettingIs, ZenonT(30) DEF WordArg, ByteArg

LEMMA HoldsKept ==
  ASSUME UNCHANGED <<conf, adc, self>>, NEW i
  PROVE  Holds(i)' <=> Holds(i)
  BY ZenonT(30) DEF Holds

-----------------------------------------------------------------------------
(***************************************************************************)
(* A device that was doing something else gets to the 't's.                *)
(***************************************************************************)
LEMMA LineIs ==
  ASSUME DeviceTypes
  PROVE  /\ out \in Seq(Sent) /\ Len(out) \in Nat /\ in \in Seq(Bytes) /\ Len(in) \in Nat /\ sent \in Nat
         /\ conf.numberOfSamples \in Nat
  BY SeqLen, SizesAssumption DEF DeviceTypes, FInv, Line, IInv, Parsing, Confs

LEMMA RoomIsNat == \A n \in Nat : self \in Selfs => Room(n) \in Nat /\ (script = "acq" => Room(0) = self.numSamples)
<1>1. self \in Selfs => self.numSamples \in Nat
  BY WordBound DEF Selfs
<1> QED
  BY <1>1 DEF Room

-----------------------------------------------------------------------------
(***************************************************************************)
(* A step of the device in a reconnect, and in an attempt.                 *)
(***************************************************************************)
LEMMA HoldBelowKept ==
  ASSUME UNCHANGED <<conf, adc, self>>, NEW n
  PROVE  HoldBelow(n)' <=> HoldBelow(n)
  BY HoldsKept, ZenonT(30) DEF HoldBelow

LEMMA FormFieldIs ==
  /\ FormField[1] = 2 /\ FormField[2] = 3 /\ FormField[3] = 6 /\ FormField[4] = 1
  /\ \A i \in 1 .. 4 : FormField[i] \in 1 .. 6
<1>1. FormField[1] = 2 /\ FormField[2] = 3 /\ FormField[3] = 6 /\ FormField[4] = 1
  BY ZenonT(30) DEF FormField
<1>2. \A i \in 1 .. 4 : i = 1 \/ i = 2 \/ i = 3 \/ i = 4
  OBVIOUS
<1> QED
  BY <1>1, <1>2

LEMMA GetsSeq == \A c, r : Gets(c, r) => c \in Seq(Bytes)
  BY ZenonT(30) DEF Gets, Simple, Command

LEMMA Three ==
  ASSUME NEW a, NEW b, NEW c
  PROVE  <<a, b, c>>[1] = a /\ <<a, b, c>>[2] = b /\ <<a, b, c>>[3] = c
  BY ZenonT(30)

LEMMA ByteIsWord == \A v \in 0 .. 255 : v \in Words
<1>1. \E n \in Nat : n = 65535
  BY SMT
<1>2. PICK n \in Nat : n = 65535
  BY <1>1, SMT
<1>3. Words = 0 .. n /\ 255 <= n
  BY <1>2, SMT DEF Words
<1> QED
  BY <1>3, SMT

LEMMA ShotIs ==
  ASSUME want \in ShotTypes
  PROVE  /\ WordArg(S(1), Ch.w, want.delay)
         /\ WordArg(S(2), Ch.l, want.glitch_length)
         /\ ByteArg(S(3), Ch.p, want.pulses)
<1> USE ZenonT(30)
<1>1. want.delay \in Words /\ want.glitch_length \in 0 .. 255 /\ want.pulses \in 0 .. 254
  BY DEF ShotTypes
<1>2. want.glitch_length \in Words
  BY <1>1, ByteIsWord
<1>3. want.pulses \in Bytes
  BY SMTT(30), <1>1 DEF Bytes
<1>4. Ch.w \in Shorts /\ Ch.l \in Shorts /\ Ch.p \in Chars
  BY DEF Shorts, Chars
<1>5. /\ S(1) = <<Ch.w>> \o Word(want.delay)
      /\ S(2) = <<Ch.l>> \o Word(want.glitch_length)
      /\ S(3) = <<Ch.p, want.pulses>>
  BY Three DEF S, ShotCommands
<1>6. WordArg(S(1), Ch.w, want.delay)
  BY <1>1, <1>4, <1>5, IsWordArg
<1>7. WordArg(S(2), Ch.l, want.glitch_length)
  BY <1>2, <1>4, <1>5, IsWordArg
<1>8. ByteArg(S(3), Ch.p, want.pulses)
  BY <1>3, <1>4, <1>5, IsByteArg
<1> QED
  BY <1>6, <1>7, <1>8

LEMMA ThreeOf == \A i \in 1 .. 3 : i = 1 \/ i = 2 \/ i = 3
  OBVIOUS

LEMMA GetsShot ==
  ASSUME want \in ShotTypes, NEW j \in 1 .. 3
  PROVE  Gets(S(j), "d") /\ S(j)[1] \notin {Ch.x, Ch.y}
<1>1. /\ Ch.w # Ch.t /\ Ch.l # Ch.t /\ Ch.p # Ch.t /\ {Ch.w, Ch.l, Ch.p} \cap {Ch.x, Ch.y} = {}
  BY DEF Ch
<1>2. Command(S(j)) /\ S(j)[1] \in {Ch.w, Ch.l, Ch.p}
  BY ShotIs, ThreeOf, ZenonT(30) DEF WordArg, ByteArg
<1> QED
  BY <1>1, <1>2, ZenonT(30) DEF Gets, Simple, ReplyTo

LEMMA ShotSame == ASSUME UNCHANGED want, NEW j PROVE S(j)' = S(j)
  BY ZenonT(30) DEF S, ShotCommands

LEMMA SameTypes ==
  ASSUME DeviceTypes, UNCHANGED devVars, UNCHANGED <<in, out>>
  PROVE  DeviceTypes'
  BY LineIs, LineTypes, ZenonT(30)

-----------------------------------------------------------------------------
(***************************************************************************)
(* The types of the programs.                                              *)
(***************************************************************************)
LEMMA SettingsCount == Len(Settings) = 6
<1> USE ZenonT(30)
<1>1. \A a, b, c, d, e, f : Len(<<a, b, c, d, e, f>>) = 6
  OBVIOUS
<1> QED
  BY <1>1 DEF Settings

-----------------------------------------------------------------------------
(***************************************************************************)
(* The steps of an attempt.                                                *)
(***************************************************************************)
LEMMA WorkNone == ASSUME DeviceTypes, Work(<<>>) PROVE Between /\ in = <<>>
<1>1. <<cmd>> \in Seq(Bytes) /\ args \in Seq(Bytes) /\ in \in Seq(Bytes)
  BY DEF DeviceTypes, IInv, Parsing
<1>2. <<cmd>> \o args \in Seq(Bytes) /\ <<cmd>> \o args # <<>>
  BY <1>1, SeqConcat, ConcatIsNone
<1>3. <<cmd>> \o args \o in # <<>>
  BY <1>1, <1>2, ConcatIsNone
<1> QED
  BY <1>3, ZenonT(30) DEF Work, Between

LEMMA ProgramKeeps == Inv /\ ProgramStep => Inv'
<1> USE ZenonT(30)
<1>HeadOfAppend.
  ASSUME NEW A, NEW s \in Seq(A), NEW e
  PROVE  /\ Head(Append(s, e)) = IF s = <<>> THEN e ELSE Head(s)
         /\ Tail(Append(s, e)) = IF s = <<>> THEN <<>> ELSE Append(Tail(s), e)
    BY SMTT(30), <1>HeadOfAppend
\* -------- What the programs do to the line: a command goes behind what is still
\*          to be worked through, and a read takes the first reply.
<1>DevKept.
  ASSUME UNCHANGED devVars
  PROVE  UNCHANGED <<pc, cmd, args, conf, adc, power, sent, timedOut>>
    BY <1>DevKept DEF devVars, mainVars, setVars, twVars
<1>WriteAfter.
  ASSUME DeviceTypes, NEW b \in Seq(Bytes), Writes(b), NEW o, NEW w \in Seq(Bytes), After(o, w)
  PROVE  After(o, w \o b)'
  <2> USE <1>WriteAfter
  <2>1. UNCHANGED <<pc, cmd, args, conf, sent, out>> /\ in' = in \o b
    BY <1>DevKept DEF Writes, Write
  <2>2. CASE pc = "cmd" /\ in = w
    BY <2>1, <2>2 DEF After, Work
  <2>3. CASE pc = "fetch" /\ sent = conf.numberOfSamples /\ in = w
    BY <2>1, <2>3 DEF After, Work
  <2>4. CASE pc \in {"args", "exec"} /\ <<cmd>> \o args \o in = w
    <3> DEFINE u == <<cmd>> \o args
    <3>1. u \in Seq(Bytes) /\ in \in Seq(Bytes)
      <4>1. <<cmd>> \in Seq(Bytes) /\ args \in Seq(Bytes) /\ in \in Seq(Bytes)
        BY SMTT(30) DEF DeviceTypes, IInv, Parsing
      <4> QED
        BY <4>1, SeqConcat
    <3>2. u = <<cmd'>> \o args'
      BY <2>1
    <3>3. u \o in = w
      BY <2>4
    <3> HIDE DEF u
    <3>4. (u \o in) \o b = u \o (in \o b)
      BY SMTT(30), <3>1, ConcatAssoc
    <3>5. u \o in' = w \o b
      BY <2>1, <3>3, <3>4
    <3>6. pc' \in {"args", "exec"} /\ out' = o
      BY <2>1, <2>4 DEF After
    <3> QED
      BY <3>2, <3>5, <3>6 DEF After, Work
  <2> QED
    BY <2>2, <2>3, <2>4 DEF After, Work
<1>WriteIdle.
  ASSUME DeviceTypes, NEW b \in Seq(Bytes), Writes(b), NEW o, After(o, <<>>)
  PROVE  After(o, b)'
  <2> USE <1>WriteIdle
  <2> DEFINE none == <<>>
  <2>1. none \in Seq(Bytes) /\ none \o b = b
    BY SMTT(30), ConcatNone
  <2> HIDE DEF none
  <2>2. After(o, none \o b)'
    BY <2>1, <1>WriteAfter DEF none
  <2> QED
    BY <2>1, <2>2
<1>FrontOne. \A a \in Named : Front(a, <<a>>, <<>>)
    BY SMTT(30) DEF Front
<1>FrontAppend.
  ASSUME NEW a, NEW o, NEW p, Front(a, o, p), NEW r \in Named
  PROVE  Front(a, Append(o, r), Append(p, r))
  <2> USE <1>FrontAppend
  <2>1. /\ Append(o, r) \in Seq(Named) /\ Append(o, r) # <<>>
        /\ Head(Append(o, r)) = a /\ Tail(Append(o, r)) = Append(p, r)
    BY SMTT(30), SeqAppend, <1>HeadOfAppend DEF Front
  <2> QED
    BY <2>1 DEF Front
<1>ReadFront.
  ASSUME NEW a, NEW o, NEW p, Front(a, o, p), out = o, NEW as, Reads(as)
  PROVE  as = a /\ out' = p
  <2> USE <1>ReadFront
  <2>1. Head(out) = a /\ a \in Named /\ out' = Tail(out)
    BY SeqHeadTail DEF Front, Reads, Read1
  <2> QED
    BY <2>1 DEF Reads, Read1, TakenFor, Named, Front
<1>ReadAfter.
  ASSUME NEW a, NEW o, NEW p, Front(a, o, p), NEW as, Reads(as), NEW w, After(o, w)
  PROVE  as = a /\ After(p, w)'
  <2> USE <1>ReadAfter
  <2>1. as = a /\ out' = p
    BY <1>ReadFront DEF After
  <2>2. UNCHANGED <<pc, cmd, args, conf, sent, in>>
    BY <1>DevKept DEF Reads
  <2> QED
    BY <2>1, <2>2 DEF After, Work
\* With no reply on the way yet, the first reply is to the first command.
<1>ReadFirst.
  ASSUME NEW as, Reads(as), NEW w, After(<<>>, w)
  PROVE  FALSE
    BY <1>ReadFirst DEF Reads, Read1, After
\* The 'r' of a command that waits, and its answer.
<1>ReadIn.
  ASSUME NEW a, NEW o, NEW p, Front(a, o, p), NEW as, Reads(as), NEW c, NEW w, InCommand(c, o, w)
  PROVE  as = a /\ InCommand(c, p, w)'
  <2> USE <1>ReadIn
  <2>1. as = a /\ out' = p
    BY <1>ReadFront DEF InCommand
  <2>2. UNCHANGED <<pc, cmd, in>>
    BY <1>DevKept DEF Reads
  <2> QED
    BY <2>1, <2>2 DEF InCommand
<1>ReadReady.
  ASSUME NEW as, Reads(as), NEW c, Waits(c, <<>>)
  PROVE  as = "r" /\ Answers(c)'
  <2> USE <1>ReadReady
  <2>0. \A w : ~After(<<>>, w)
    BY <1>ReadFirst
  <2>1. out # <<>> /\ "r" \in Named /\ "d" \in Named /\ "e" \in Named /\ Append(<<>>, "r") = <<"r">>
        /\ Front("r", <<"r">>, <<>>)
    BY <1>FrontOne, Singles DEF Reads, Read1, Named
  <2>2. CASE InCommand(c, Append(<<>>, "r"), <<>>)
    <3>1. PICK w, o : w = <<>> /\ o = <<"r">>
      OBVIOUS
    <3>2. Front("r", o, w) /\ InCommand(c, o, w)
      BY <2>1, <2>2, <3>1
    <3>3. as = "r" /\ InCommand(c, w, w)'
      BY <3>2, <1>ReadIn
    <3> QED
      BY <3>1, <3>3 DEF Answers
  <2>3. ASSUME NEW a \in {"d", "e"}, After(Append(Append(<<>>, "r"), a), <<>>)
        PROVE  as = "r" /\ Answers(c)'
    <3>1. Front("r", Append(Append(<<>>, "r"), a), Append(<<>>, a))
      BY <2>1, <1>FrontAppend
    <3>2. as = "r" /\ After(Append(<<>>, a), <<>>)'
      BY <2>3, <3>1, <1>ReadAfter
    <3> QED
      BY <3>2, Singles DEF Answers
  <2> QED
    BY <2>0, <2>1, <2>2, <2>3 DEF Waits
<1>ReadAnswer.
  ASSUME NEW as, Reads(as), NEW c, Answers(c)
  PROVE  as \in {"d", "e"} /\ Idle' /\ out = <<as>>
  <2> USE <1>ReadAnswer
  <2>0. "d" \in Named /\ "e" \in Named
    BY DEF Named
  <2>1. ~InCommand(c, <<>>, <<>>)
    BY DEF Reads, Read1, InCommand
  <2>2. PICK a \in {"d", "e"} : After(<<a>>, <<>>)
    BY <2>1 DEF Answers
  <2>3. as = a /\ Idle'
    BY <2>0, <2>2, <1>FrontOne, <1>ReadAfter DEF Idle
  <2> QED
    BY <2>2, <2>3 DEF After
\* -------- A read of the host ends without a byte: then the device has nothing to
\*          work through.
<1>SilentIs. Expire /\ prompt => Silent
    BY DEF Expire, Silent
<1>WaitingIs.
  ASSUME DeviceTypes, Waiting
  PROVE  pc \in {"wait", "acquire"} \/ (pc \in {"cmd", "args"} /\ in = <<>>)
    BY <1>WaitingIs DEF Waiting, DeviceTypes, FInv, Places
<1>Quiet.
  ASSUME DeviceTypes, Waiting, NEW c, Command(c), NEW v \in Seq(Bytes), Work(c \o v)
  PROVE  FALSE
  <2> USE <1>Quiet
  <2>0. /\ <<cmd>> \in Seq(Bytes) /\ args \in Seq(Bytes) /\ c \in Seq(Bytes) /\ c # <<>>
        /\ Len(c) = 1 + NArgs(c[1]) /\ NArgs(cmd) \in Nat
    BY SMTT(30) DEF DeviceTypes, IInv, Parsing, Command, NArgs
  <2>1. c \o v # <<>>
    BY SMTT(30), <2>0, ConcatIsNone
  <2>2. pc = "args" /\ in = <<>> /\ <<cmd>> \o args \o in = c \o v
    BY SMTT(30), <2>1, <1>WaitingIs DEF Work
  <2>3. <<cmd>> \o args \o in = <<cmd>> \o args
    BY <2>0, <2>2, ConcatNone, SeqConcat
  <2>4. PICK w : w = c \o v
    OBVIOUS
  <2>5. Len(args) < NArgs(cmd) /\ Has(w)
    BY <2>2, <2>3, <2>4 DEF DeviceTypes, IInv, Parsing, Has
  <2>6. Len(w) = 1 + Len(args) /\ Len(args) \in Nat
    BY <2>0, <2>5, ArgsOf, SeqLen
  <2>7. Len(w) = Len(c) + Len(v) /\ Len(c) \in Nat /\ Len(v) \in Nat /\ Len(c) >= 1 /\ w[1] = c[1]
    <3>1. Len(c) \in Nat \ {0} /\ Len(v) \in Nat
      BY <2>0, SeqLen, SeqEmpty
    <3>2. 1 \in 1 .. Len(c) + Len(v) /\ 1 <= Len(c)
      BY SMTT(30), <3>1
    <3> QED
      BY <2>0, <2>4, <3>1, <3>2, SeqConcat
  <2>8. w[1] = cmd
    <3>1. 1 \in 1 .. Len(<<cmd>>) + Len(args) /\ 1 <= Len(<<cmd>>) /\ <<cmd>>[1] = cmd
      BY SMTT(30), <2>6
    <3> QED
      BY <2>0, <2>5, <3>1, SeqConcat DEF Has
  <2>9. \A a, b, n, m \in Nat : ~(a = 1 + b /\ a = n + m /\ n = 1 + NArgs(cmd) /\ b < NArgs(cmd))
    BY SMTT(30), <2>0
  <2>10. Len(c) = 1 + NArgs(cmd)
    BY <2>0, <2>7, <2>8
  <2>11. Len(w) \in Nat
    BY SMTT(30), <2>6
  <2> QED
    BY <2>5, <2>6, <2>7, <2>9, <2>10, <2>11
<1>NoBytes. (\E none \in Seq(Bytes) : none = <<>>) /\ (\E none \in Seq(Named) : none = <<>>)
  <2>1. <<>> \in Seq(Bytes) /\ <<>> \in Seq(Named)
    BY SMTT(30)
  <2> QED
    BY <2>1
<1>QuietOne.
  ASSUME DeviceTypes, Waiting, NEW c, Command(c), Work(c)
  PROVE  FALSE
  <2> USE <1>QuietOne
  <2>1. PICK none \in Seq(Bytes) : none = <<>>
    BY <1>NoBytes
  <2>2. c \o none = c
    BY <2>1, ConcatNone DEF Command
  <2>3. Work(c \o none)
    BY <2>2
  <2> QED
    BY <2>3, <1>Quiet
\* -------- The steps of the glitch script.
<1>RestsIs. ASSUME Rests3 PROVE UNCHANGED <<pc, cmd, args, conf, adc, power, sent, in, out>>
    BY <1>RestsIs, <1>DevKept DEF Rests3
<1>RestAfter. ASSUME Rests3, NEW o, NEW w, After(o, w) PROVE After(o, w)'
    BY <1>RestAfter, <1>RestsIs DEF After, Work
<1>RestIn. ASSUME Rests3, NEW c, NEW o, NEW w, InCommand(c, o, w) PROVE InCommand(c, o, w)'
    BY <1>RestIn, <1>RestsIs DEF InCommand
<1>RestIdle. ASSUME Rests3, Idle PROVE Idle'
    BY <1>RestIdle, <1>RestAfter DEF Idle
<1>RestAnswers. ASSUME Rests3, NEW c, Answers(c) PROVE Answers(c)'
  <2> USE <1>RestAnswers
  <2>1. CASE InCommand(c, <<>>, <<>>)
    BY <2>1, <1>RestIn DEF Answers
  <2>2. ASSUME NEW a \in {"d", "e"}, After(<<a>>, <<>>) PROVE After(<<a>>, <<>>)'
    BY <2>2, <1>RestAfter
  <2> QED
    BY <2>1, <2>2 DEF Answers
<1>Fixed.
  /\ X \in Seq(Bytes) /\ Y \in Seq(Bytes) /\ T \in Seq(Bytes) /\ H \in Seq(Bytes)
  /\ Command(X) /\ Command(Y) /\ Command(T) /\ Command(H)
  /\ "T" \in Named /\ "r" \in Named /\ "d" \in Named /\ "e" \in Named
  <2>1. Command(X) /\ Command(Y) /\ Command(T) /\ Command(H)
    BY WaitCommand DEF X, Y, T, H
  <2> QED
    BY <2>1 DEF Command, Named
<1>ShotFixed.
  ASSUME Base, NEW j \in 1 .. 3
  PROVE  S(j) \in Seq(Bytes) /\ Command(S(j))
    BY <1>ShotFixed, GetsShot, GetsSeq DEF Base, HostTypes, Gets, Simple
<1>WritesIs.
  ASSUME NEW b, UNCHANGED <<devVars, out>>, Write(b)
  PROVE  Writes(b)
    BY <1>WritesIs DEF Writes
<1>ReadsIs.
  ASSUME NEW as, UNCHANGED <<devVars, in>>, Read1(as)
  PROVE  Reads(as)
    BY <1>ReadsIs DEF Reads
<1>ShotCount. Len(ShotCommands) = 3
  <2>1. \A a, b, c : Len(<<a, b, c>>) = 3
    OBVIOUS
  <2> QED
    BY <2>1 DEF ShotCommands
<1>GlitchesPlays.
  Base /\ prompt /\ Glitches /\ (hpc = "idle" => Idle) /\ Glitching /\ UNCHANGED shot =>
    Glitches'
  <2>WriteIn.
    ASSUME NEW b, Writes(b), NEW c, NEW o, NEW w, InCommand(c, o, w)
    PROVE  InCommand(c, o, w \o b)'
    <3> USE <2>WriteIn
    <3>1. UNCHANGED <<pc, cmd, out>> /\ in' = in \o b
      BY <1>DevKept DEF Writes, Write
    <3>2. in' = w \o b
      BY <3>1 DEF InCommand
    <3> QED
      BY <3>1, <3>2 DEF InCommand
  <2>WriteOwe1.
    ASSUME DeviceTypes, NEW o, NEW c \in Seq(Bytes), NEW r, NEW c2 \in Seq(Bytes), NEW r2, Owe1(o, c, r), Writes(c2)
    PROVE  Owe2(o, c, r, c2, r2)'
    <3> USE <2>WriteOwe1
    <3>1. CASE After(o, c)
      BY <3>1, <1>WriteAfter DEF Owe2
    <3>2. CASE After(Append(o, r), <<>>)
      <4>1. After(Append(o, r), c2)'
        BY <3>2, <1>WriteIdle
      <4> QED
        BY <4>1 DEF Owe2, Owe1
    <3> QED
      BY <3>1, <3>2 DEF Owe1
  <2>WriteOwe2.
    ASSUME DeviceTypes, NEW o, NEW c \in Seq(Bytes), NEW r, NEW c2 \in Seq(Bytes), NEW r2,
           NEW c3 \in Seq(Bytes), NEW r3, Owe2(o, c, r, c2, r2), Writes(c3)
    PROVE  Owe3(o, c, r, c2, r2, c3, r3)'
    <3> USE <2>WriteOwe2
    <3>1. CASE After(o, c \o c2)
      <4>1. PICK w \in Seq(Bytes) : w = c \o c2
        BY SeqConcat
      <4>2. After(o, w \o c3)'
        BY <3>1, <4>1, <1>WriteAfter
      <4>3. w \o c3 = c \o (c2 \o c3)
        BY SMTT(30), <4>1, ConcatAssoc
      <4> QED
        BY <4>2, <4>3 DEF Owe3
    <3>2. CASE Owe1(Append(o, r), c2, r2)
      BY <3>2, <2>WriteOwe1 DEF Owe3
    <3> QED
      BY <3>1, <3>2 DEF Owe2
  <2>WriteOwe3.
    ASSUME DeviceTypes, NEW o, NEW c \in Seq(Bytes), NEW r, NEW c2 \in Seq(Bytes), NEW r2,
           NEW c3 \in Seq(Bytes), NEW r3, NEW c4 \in Seq(Bytes), NEW r4, Owe3(o, c, r, c2, r2, c3, r3), Writes(c4)
    PROVE  Owe4(o, c, r, c2, r2, c3, r3, c4, r4)'
    <3> USE <2>WriteOwe3
    <3>1. CASE After(o, c \o (c2 \o c3))
      <4>1. PICK w \in Seq(Bytes) : w = c2 \o c3
        BY SeqConcat
      <4>2. PICK u \in Seq(Bytes) : u = c \o w
        BY SeqConcat
      <4>3. After(o, u \o c4)'
        BY <3>1, <4>1, <4>2, <1>WriteAfter
      <4>4. u \o c4 = c \o (w \o c4)
        BY SMTT(30), <4>2, ConcatAssoc
      <4>5. w \o c4 = c2 \o (c3 \o c4)
        BY SMTT(30), <4>1, ConcatAssoc
      <4> QED
        BY <4>3, <4>4, <4>5 DEF Owe4
    <3>2. CASE Owe2(Append(o, r), c2, r2, c3, r3)
      BY <3>2, <2>WriteOwe2 DEF Owe4
    <3> QED
      BY <3>1, <3>2 DEF Owe3
  <2>ReadOwe1.
    ASSUME NEW a, NEW o, NEW p, Front(a, o, p), NEW as, Reads(as), NEW c, NEW r \in Named, Owe1(o, c, r)
    PROVE  as = a /\ Owe1(p, c, r)'
    <3> USE <2>ReadOwe1
    <3>1. CASE After(o, c)
      BY <3>1, <1>ReadAfter DEF Owe1
    <3>2. CASE After(Append(o, r), <<>>)
      <4>1. PICK q, s, w : q = Append(o, r) /\ s = Append(p, r) /\ w = <<>>
        OBVIOUS
      <4>2. Front(a, q, s)
        BY <4>1, <1>FrontAppend
      <4>3. as = a /\ After(s, w)'
        BY <3>2, <4>1, <4>2, <1>ReadAfter
      <4> QED
        BY <4>1, <4>3 DEF Owe1
    <3> QED
      BY <3>1, <3>2 DEF Owe1
  <2>ReadOwe2.
    ASSUME NEW a, NEW o, NEW p, Front(a, o, p), NEW as, Reads(as), NEW c, NEW r \in Named,
           NEW c2, NEW r2 \in Named, Owe2(o, c, r, c2, r2)
    PROVE  as = a /\ Owe2(p, c, r, c2, r2)'
    <3> USE <2>ReadOwe2
    <3>1. CASE After(o, c \o c2)
      <4>1. PICK w : w = c \o c2
        OBVIOUS
      <4>2. as = a /\ After(p, w)'
        BY <3>1, <4>1, <1>ReadAfter
      <4> QED
        BY <4>1, <4>2 DEF Owe2
    <3>2. CASE Owe1(Append(o, r), c2, r2)
      <4>1. PICK q, s : q = Append(o, r) /\ s = Append(p, r)
        OBVIOUS
      <4>2. Front(a, q, s)
        BY <4>1, <1>FrontAppend
      <4>3. as = a /\ Owe1(s, c2, r2)'
        BY <3>2, <4>1, <4>2, <2>ReadOwe1
      <4> QED
        BY <4>1, <4>3 DEF Owe2
    <3> QED
      BY <3>1, <3>2 DEF Owe2
  <2>ReadOwe3.
    ASSUME NEW a, NEW o, NEW p, Front(a, o, p), NEW as, Reads(as), NEW c, NEW r \in Named,
           NEW c2, NEW r2 \in Named, NEW c3, NEW r3 \in Named, Owe3(o, c, r, c2, r2, c3, r3)
    PROVE  as = a /\ Owe3(p, c, r, c2, r2, c3, r3)'
    <3> USE <2>ReadOwe3
    <3>1. CASE After(o, c \o (c2 \o c3))
      <4>1. PICK w : w = c \o (c2 \o c3)
        OBVIOUS
      <4>2. as = a /\ After(p, w)'
        BY <3>1, <4>1, <1>ReadAfter
      <4> QED
        BY <4>1, <4>2 DEF Owe3
    <3>2. CASE Owe2(Append(o, r), c2, r2, c3, r3)
      <4>1. PICK q, s : q = Append(o, r) /\ s = Append(p, r)
        OBVIOUS
      <4>2. Front(a, q, s)
        BY <4>1, <1>FrontAppend
      <4>3. as = a /\ Owe2(s, c2, r2, c3, r3)'
        BY <3>2, <4>1, <4>2, <2>ReadOwe2
      <4> QED
        BY <4>1, <4>3 DEF Owe3
    <3> QED
      BY <3>1, <3>2 DEF Owe3
  <2>FirstOwe1.
    ASSUME NEW as, Reads(as), NEW c, NEW r \in Named, Owe1(<<>>, c, r)
    PROVE  as = r /\ Idle'
    <3> USE <2>FirstOwe1
    <3>1. After(<<r>>, <<>>)
      BY <1>ReadFirst, Singles DEF Owe1
    <3> QED
      BY <3>1, <1>FrontOne, <1>ReadAfter DEF Idle
  <2>FirstOwe2.
    ASSUME NEW as, Reads(as), NEW c, NEW r \in Named, NEW c2, NEW r2 \in Named, Owe2(<<>>, c, r, c2, r2)
    PROVE  as = r /\ Owe1(<<>>, c2, r2)'
    <3> USE <2>FirstOwe2
    <3>1. ~After(<<>>, c \o c2)
      BY DEF Reads, Read1, After
    <3>2. Owe1(<<r>>, c2, r2)
      BY <3>1, Singles DEF Owe2
    <3> QED
      BY <3>2, <1>FrontOne, <2>ReadOwe1
  <2>FirstOwe4.
    ASSUME NEW as, Reads(as), NEW c, NEW r \in Named, NEW c2, NEW r2 \in Named, NEW c3, NEW r3 \in Named,
           NEW c4, NEW r4 \in Named, Owe4(<<>>, c, r, c2, r2, c3, r3, c4, r4)
    PROVE  as = r /\ Owe3(<<>>, c2, r2, c3, r3, c4, r4)'
    <3> USE <2>FirstOwe4
    <3>1. ~After(<<>>, c \o (c2 \o (c3 \o c4)))
      BY DEF Reads, Read1, After
    <3>2. Owe3(<<r>>, c2, r2, c3, r3, c4, r4)
      BY <3>1, Singles DEF Owe4
    <3> QED
      BY <3>2, <1>FrontOne, <2>ReadOwe3
  \* What comes after an 'h' that was late.
  <2>ReadLate1.
    ASSUME NEW as, Reads(as), NEW c, NEW r \in Named, Late1(c, r)
    PROVE  as \in {"d", "e"} /\ Owe1(<<>>, c, r)'
    <3> USE <2>ReadLate1
    <3>1. ~InCommand(Ch.h, <<>>, c)
      BY DEF Reads, Read1, InCommand
    <3>2. PICK a \in {"d", "e"} : Owe1(<<a>>, c, r)
      BY <3>1 DEF Late1
    <3>3. Front(a, <<a>>, <<>>)
      BY <1>FrontOne DEF Named
    <3> QED
      BY <3>2, <3>3, <2>ReadOwe1
  <2>OutOwe1.
    ASSUME NEW o \in Seq(Named), NEW r \in Named, NEW c1, NEW r1 \in Named, Owe1(Append(o, r), c1, r1)
    PROVE  out # <<>>
    <3> USE <2>OutOwe1
    <3>1. Append(o, r) \in Seq(Named) /\ Append(o, r) # <<>>
      BY SeqAppend
    <3>2. Append(Append(o, r), r1) # <<>>
      BY SMTT(30), <3>1, SeqAppend
    <3> QED
      BY <3>1, <3>2 DEF Owe1, After
  <2>OutOwe2.
    ASSUME NEW o \in Seq(Named), NEW r \in Named, NEW c1, NEW r1 \in Named, NEW c2, NEW r2 \in Named,
           Owe2(Append(o, r), c1, r1, c2, r2)
    PROVE  out # <<>>
    <3> USE <2>OutOwe2
    <3>1. Append(o, r) \in Seq(Named) /\ Append(o, r) # <<>>
      BY SeqAppend
    <3>2. PICK q \in Seq(Named) : q = Append(o, r) /\ q # <<>>
      BY <3>1
    <3>3. CASE After(q, c1 \o c2)
      BY <3>2, <3>3 DEF After
    <3>4. CASE Owe1(Append(q, r1), c2, r2)
      BY <3>4, <2>OutOwe1
    <3> QED
      BY <3>2, <3>3, <3>4 DEF Owe2
  <2>OutOwe3.
    ASSUME NEW o \in Seq(Named), NEW r \in Named, NEW c1, NEW r1 \in Named, NEW c2, NEW r2 \in Named,
           NEW c3, NEW r3 \in Named, Owe3(Append(o, r), c1, r1, c2, r2, c3, r3)
    PROVE  out # <<>>
    <3> USE <2>OutOwe3
    <3>1. Append(o, r) \in Seq(Named) /\ Append(o, r) # <<>>
      BY SeqAppend
    <3>2. PICK q \in Seq(Named) : q = Append(o, r) /\ q # <<>>
      BY <3>1
    <3>3. CASE After(q, c1 \o (c2 \o c3))
      BY <3>2, <3>3 DEF After
    <3>4. CASE Owe2(Append(q, r1), c2, r2, c3, r3)
      BY <3>4, <2>OutOwe2
    <3> QED
      BY <3>2, <3>3, <3>4 DEF Owe3
  <2>SilentOwe1.
    ASSUME DeviceTypes, Silent, NEW c, NEW r \in Named, Command(c), Owe1(<<>>, c, r)
    PROVE  FALSE
      BY <2>SilentOwe1, <1>QuietOne, Singles DEF Owe1, After, Silent
  <2>SilentOwe2.
    ASSUME DeviceTypes, Silent, NEW c, NEW r \in Named, Command(c), NEW c2 \in Seq(Bytes), NEW r2 \in Named,
           Owe2(<<>>, c, r, c2, r2)
    PROVE  FALSE
    <3> USE <2>SilentOwe2
    <3>1. PICK o \in Seq(Named) : o = <<>>
      BY <1>NoBytes
    <3>2. CASE After(o, c \o c2)
      BY <3>2, <1>Quiet DEF After, Silent
    <3>3. CASE Owe1(Append(o, r), c2, r2)
      BY <3>3, <2>OutOwe1 DEF Silent
    <3> QED
      BY <3>1, <3>2, <3>3 DEF Owe2
  <2>SilentOwe4.
    ASSUME DeviceTypes, Silent, NEW c, NEW r \in Named, Command(c), NEW c2 \in Seq(Bytes), NEW r2 \in Named,
           NEW c3 \in Seq(Bytes), NEW r3 \in Named, NEW c4 \in Seq(Bytes), NEW r4 \in Named,
           Owe4(<<>>, c, r, c2, r2, c3, r3, c4, r4)
    PROVE  FALSE
    <3> USE <2>SilentOwe4
    <3>1. PICK o \in Seq(Named) : o = <<>>
      BY <1>NoBytes
    <3>2. CASE After(o, c \o (c2 \o (c3 \o c4)))
      <4>1. PICK u \in Seq(Bytes) : u = c3 \o c4
        BY SeqConcat
      <4>2. PICK v \in Seq(Bytes) : v = c2 \o u
        BY SeqConcat
      <4> QED
        BY <3>2, <4>1, <4>2, <1>Quiet DEF After, Silent
    <3>3. CASE Owe3(Append(o, r), c2, r2, c3, r3, c4, r4)
      BY <3>3, <2>OutOwe3 DEF Silent
    <3> QED
      BY <3>1, <3>2, <3>3 DEF Owe4
  <2>RestOwe1. ASSUME Rests3, NEW o, NEW c, NEW r, Owe1(o, c, r) PROVE Owe1(o, c, r)'
    <3> USE <2>RestOwe1
    <3>1. PICK q, n : q = Append(o, r) /\ n = <<>>
      OBVIOUS
    <3>2. After(o, c) \/ After(q, n)
      BY <3>1 DEF Owe1
    <3>3. After(o, c)' \/ After(q, n)'
      BY <3>2, <1>RestAfter
    <3> QED
      BY <3>1, <3>3 DEF Owe1
  <2>RestOwe2.
    ASSUME Rests3, NEW o, NEW c, NEW r, NEW c2, NEW r2, Owe2(o, c, r, c2, r2)
    PROVE  Owe2(o, c, r, c2, r2)'
    <3> USE <2>RestOwe2
    <3>1. PICK q, w : q = Append(o, r) /\ w = c \o c2
      OBVIOUS
    <3>2. After(o, w) \/ Owe1(q, c2, r2)
      BY <3>1 DEF Owe2
    <3>3. After(o, w)' \/ Owe1(q, c2, r2)'
      BY <3>2, <1>RestAfter, <2>RestOwe1
    <3> QED
      BY <3>1, <3>3 DEF Owe2
  <2>IdleOwes. ASSUME DeviceTypes, NEW c \in Seq(Bytes), NEW r, Idle, Writes(c) PROVE Owe1(<<>>, c, r)'
      BY <2>IdleOwes, <1>WriteIdle DEF Idle, Owe1
  <2>ShotBelowSame. ASSUME UNCHANGED <<conf, want>>, NEW n, ShotBelow(n) PROVE ShotBelow(n)'
      BY <2>ShotBelowSame DEF ShotBelow, ShotHolds
  <2>CheckIs.
    ASSUME NEW at, NEW then, Check(at, then), prompt
    PROVE  /\ hpc = at /\ UNCHANGED <<guarded, want, fetched>>
           /\ \/ \E as \in Replies : Reads(as) /\ hpc' = IF as = "d" THEN then ELSE "extra"
              \/ Silent /\ Rests3 /\ hpc' = "extra"
    <3> USE <2>CheckIs
    <3>1. CASE Expire /\ hpc' = "extra" /\ UNCHANGED out
      BY <3>1, <1>SilentIs DEF Check, Rests3
    <3>2. ASSUME NEW as \in Replies, Read1(as), hpc' = IF as = "d" THEN then ELSE "extra"
          PROVE  Reads(as) /\ hpc' = IF as = "d" THEN then ELSE "extra"
      BY <3>2, <1>ReadsIs DEF Check
    <3> QED
      BY <3>1, <3>2 DEF Check
  <2>PowerPlays. Base /\ prompt /\ Glitches /\ (PowerOff \/ PoweredOff \/ PowerOn \/ PoweredOn) => Glitches'
    <3>WriteInLast.
      ASSUME NEW b \in Seq(Bytes), Writes(b), NEW c, NEW o, InCommand(c, o, <<>>)
      PROVE  InCommand(c, o, b)'
      <4> USE <3>WriteInLast
      <4> DEFINE none == <<>>
      <4>1. none \o b = b
        BY ConcatNone
      <4> HIDE DEF none
      <4>2. InCommand(c, o, none \o b)'
        BY <2>WriteIn DEF none
      <4> QED
        BY <4>1, <4>2
    <3>WriteLate0.
      ASSUME DeviceTypes, NEW c \in Seq(Bytes), NEW r, Late0, Writes(c)
      PROVE  Late1(c, r)'
      <4> USE <3>WriteLate0
      <4>1. CASE InCommand(Ch.h, <<>>, <<>>)
        BY <4>1, <3>WriteInLast DEF Late1
      <4>2. ASSUME NEW a \in {"d", "e"}, After(<<a>>, <<>>) PROVE Owe1(<<a>>, c, r)'
        BY <4>2, <1>WriteIdle DEF Owe1
      <4> QED
        BY <4>1, <4>2 DEF Late0, Answers, Late1
    <3>WriteLate2.
      ASSUME DeviceTypes, NEW c \in Seq(Bytes), NEW r, NEW c2 \in Seq(Bytes), NEW r2,
             NEW c3 \in Seq(Bytes), NEW r3, Late2(c, r, c2, r2), Writes(c3)
      PROVE  Late3(c, r, c2, r2, c3, r3)'
      <4> USE <3>WriteLate2
      <4>1. CASE InCommand(Ch.h, <<>>, c \o c2)
        <5>1. PICK w : w = c \o c2
          OBVIOUS
        <5>2. InCommand(Ch.h, <<>>, w \o c3)'
          BY <4>1, <5>1, <2>WriteIn
        <5>3. w \o c3 = c \o (c2 \o c3)
          BY SMTT(30), <5>1, ConcatAssoc
        <5> QED
          BY <5>2, <5>3 DEF Late3
      <4>2. ASSUME NEW a \in {"d", "e"}, Owe2(<<a>>, c, r, c2, r2) PROVE Owe3(<<a>>, c, r, c2, r2, c3, r3)'
        BY <4>2, <2>WriteOwe2
      <4> QED
        BY <4>1, <4>2 DEF Late2, Late3
    <3>ReadLate3.
      ASSUME NEW as, Reads(as), NEW c, NEW r \in Named, NEW c2, NEW r2 \in Named, NEW c3, NEW r3 \in Named,
             Late3(c, r, c2, r2, c3, r3)
      PROVE  as \in {"d", "e"} /\ Owe3(<<>>, c, r, c2, r2, c3, r3)'
      <4> USE <3>ReadLate3
      <4>1. ~InCommand(Ch.h, <<>>, c \o (c2 \o c3))
        BY DEF Reads, Read1, InCommand
      <4>2. PICK a \in {"d", "e"} : Owe3(<<a>>, c, r, c2, r2, c3, r3)
        BY <4>1 DEF Late3
      <4>3. Front(a, <<a>>, <<>>)
        BY <1>FrontOne DEF Named
      <4> QED
        BY <4>2, <4>3, <2>ReadOwe3
    <3>RestLate1. ASSUME Rests3, NEW c, NEW r, Late1(c, r) PROVE Late1(c, r)'
      <4> USE <3>RestLate1
      <4>1. CASE InCommand(Ch.h, <<>>, c)
        BY <4>1, <1>RestIn DEF Late1
      <4>2. ASSUME NEW a \in {"d", "e"}, Owe1(<<a>>, c, r) PROVE Owe1(<<a>>, c, r)'
        BY <4>2, <2>RestOwe1
      <4> QED
        BY <4>1, <4>2 DEF Late1
    \* powerOff
    <3>OffPlays. ASSUME Base, AtOff, Writes(X), UNCHANGED guarded PROVE AtOffAck'
      <4> USE <3>OffPlays
      <4>1. DeviceTypes
        BY DEF Base
      <4>2. CASE Idle
        BY <4>1, <4>2, <1>Fixed, <2>IdleOwes DEF AtOffAck
      <4>3. CASE Late0
        BY <4>1, <4>3, <1>Fixed, <3>WriteLate0 DEF AtOffAck
      <4>4. CASE ~guarded /\ Late2(X, "d", T, "T")
        BY <4>1, <4>4, <1>Fixed, <3>WriteLate2 DEF AtOffAck
      <4> QED
        BY <4>2, <4>3, <4>4 DEF AtOff
    <3>OffAckReads.
      ASSUME Base, AtOffAck, NEW as, Reads(as), UNCHANGED guarded
      PROVE  (as = "d" => AtOn') /\ (guarded => AtExtra')
      <4> USE <3>OffAckReads
      <4>1. CASE Owe1(<<>>, X, "d")
        BY <4>1, <1>Fixed, <2>FirstOwe1 DEF AtOn, AtExtra
      <4>2. CASE Late1(X, "d")
        BY <4>2, <1>Fixed, <2>ReadLate1 DEF AtOn, AtExtra
      <4>3. CASE ~guarded /\ Late3(X, "d", T, "T", X, "d")
        BY <4>3, <1>Fixed, <3>ReadLate3 DEF AtOn
      <4> QED
        BY <4>1, <4>2, <4>3 DEF AtOffAck
    <3>OffAckExpires. ASSUME Base, AtOffAck, Silent, Rests3, guarded PROVE AtExtra'
      <4> USE <3>OffAckExpires
      <4>1. ~Owe1(<<>>, X, "d")
        BY <1>Fixed, <2>SilentOwe1 DEF Base
      <4> QED
        BY <4>1, <3>RestLate1 DEF AtOffAck, AtExtra
    \* powerOn
    <3>OnPlays. ASSUME Base, AtOn, Writes(Y), UNCHANGED guarded PROVE AtOnAck'
      <4> USE <3>OnPlays
      <4>1. DeviceTypes
        BY DEF Base
      <4>2. CASE Idle
        BY <4>1, <4>2, <1>Fixed, <1>WriteIdle DEF Idle, AtOnAck
      <4>3. CASE Owe1(<<>>, X, "d")
        <5>1. CASE After(<<>>, X)
          BY <4>1, <5>1, <1>Fixed, <1>WriteAfter DEF AtOnAck
        <5>2. CASE After(<<"d">>, <<>>)
          BY <4>1, <5>2, <1>Fixed, <1>WriteIdle DEF AtOnAck
        <5> QED
          BY <4>3, <5>1, <5>2, Singles DEF Owe1
      <4>4. CASE ~guarded /\ Owe3(<<>>, X, "d", T, "T", X, "d")
        BY <4>1, <4>4, <1>Fixed, <2>WriteOwe3 DEF AtOnAck
      <4> QED
        BY <4>2, <4>3, <4>4 DEF AtOn
    <3>OnAckReads.
      ASSUME Base, AtOnAck, NEW as, Reads(as)
      PROVE  as = "d" /\ AtStart'
      <4> USE <3>OnAckReads
      <4>0. power' = power
        BY <1>DevKept DEF Reads
      <4>1. CASE After(<<>>, Y)
        BY <4>1, <1>ReadFirst
      <4>2. CASE After(<<"d">>, <<>>) /\ power
        <5>1. as = "d" /\ Idle'
          BY <4>2, <1>Fixed, <1>FrontOne, <1>ReadAfter DEF Idle
        <5> QED
          BY <4>0, <4>2, <5>1 DEF AtStart
      <4>3. CASE After(<<>>, X \o Y)
        <5>1. PICK w : w = X \o Y
          OBVIOUS
        <5> QED
          BY <4>3, <5>1, <1>ReadFirst
      <4>4. CASE After(<<"d">>, Y)
        BY <4>4, <1>Fixed, <1>FrontOne, <1>ReadAfter DEF AtStart
      <4>5. CASE After(Append(<<"d">>, "d"), <<>>) /\ power
        <5>1. Front("d", Append(<<"d">>, "d"), <<"d">>)
          BY <1>Fixed, <1>FrontOne, <1>FrontAppend, Singles
        <5>2. PICK q, o, n : q = Append(<<"d">>, "d") /\ o = <<"d">> /\ n = <<>>
          OBVIOUS
        <5>3. Front("d", q, o) /\ After(q, n)
          BY <4>5, <5>1, <5>2
        <5>4. as = "d" /\ After(o, n)'
          BY <5>3, <1>ReadAfter
        <5>5. After(<<"d">>, <<>>)'
          BY <5>2, <5>4
        <5> QED
          BY <4>0, <4>5, <5>4, <5>5 DEF AtStart
      <4>6. CASE Owe4(<<>>, X, "d", T, "T", X, "d", Y, "d")
        BY <4>6, <1>Fixed, <2>FirstOwe4 DEF AtStart
      <4> QED
        BY <4>1, <4>2, <4>3, <4>4, <4>5, <4>6 DEF AtOnAck
    <3>OnAckExpires. ASSUME Base, AtOnAck, Silent PROVE FALSE
      <4> USE <3>OnAckExpires
      <4>0. DeviceTypes /\ out = <<>> /\ Waiting
        BY DEF Base, Silent
      <4>1. ~After(<<>>, Y)
        BY <4>0, <1>Fixed, <1>QuietOne DEF After
      <4>2. ~After(<<>>, X \o Y)
        BY <4>0, <1>Fixed, <1>Quiet DEF After
      <4>3. ~Owe4(<<>>, X, "d", T, "T", X, "d", Y, "d")
        BY <4>0, <1>Fixed, <2>SilentOwe4
      <4>4. <<"d">> # <<>> /\ Append(<<"d">>, "d") # <<>>
        BY SMTT(30)
      <4> QED
        BY <4>0, <4>1, <4>2, <4>3, <4>4 DEF AtOnAck, After
    <3>SwitchIs.
      ASSUME NEW at, NEW ch, NEW then, Switch(at, ch, then)
      PROVE  hpc = at /\ hpc' = then /\ Writes(<<ch>>) /\ UNCHANGED <<guarded, want, k, fetched>>
        BY <3>SwitchIs, <1>WritesIs DEF Switch
    <3> SUFFICES ASSUME Base, prompt, Glitches, PowerOff \/ PoweredOff \/ PowerOn \/ PoweredOn
                 PROVE  Glitches'
      BY SMTT(30)
    <3>1. CASE PowerOff
      <4>1. hpc = "off" /\ hpc' = "offAck" /\ Writes(X) /\ UNCHANGED guarded
        BY <3>1, <3>SwitchIs DEF PowerOff, X
      <4>2. AtOffAck'
        BY <4>1, <3>OffPlays DEF Glitches
      <4> QED
        BY <4>1, <4>2 DEF Glitches
    <3>2. CASE PoweredOff
      <4>1. hpc = "offAck" /\ UNCHANGED guarded
        BY <3>2, <2>CheckIs DEF PoweredOff
      <4>2. AtOffAck
        BY <4>1 DEF Glitches
      <4>3. ASSUME NEW as \in Replies, Reads(as), hpc' = IF as = "d" THEN "on" ELSE "extra" PROVE Glitches'
        <5>1. (as = "d" => AtOn') /\ (guarded => AtExtra')
          BY <4>1, <4>2, <4>3, <3>OffAckReads
        <5> QED
          BY <4>1, <4>3, <5>1 DEF Glitches
      <4>4. CASE Silent /\ Rests3 /\ hpc' = "extra"
        <5>1. guarded => AtExtra'
          BY <4>2, <4>4, <3>OffAckExpires
        <5> QED
          BY <4>1, <4>4, <5>1 DEF Glitches
      <4> QED
        BY SMTT(30), <3>2, <4>3, <4>4, <2>CheckIs DEF PoweredOff
    <3>3. CASE PowerOn
      <4>1. hpc = "on" /\ hpc' = "onAck" /\ Writes(Y) /\ UNCHANGED guarded
        BY <3>3, <3>SwitchIs DEF PowerOn, Y
      <4>2. AtOnAck'
        BY <4>1, <3>OnPlays DEF Glitches
      <4> QED
        BY <4>1, <4>2 DEF Glitches
    <3>4. CASE PoweredOn
      <4>0. PICK then \in {"attempt", "ping"} : Check("onAck", then)
        BY <3>4 DEF PoweredOn
      <4>1. hpc = "onAck"
        BY <4>0, <2>CheckIs
      <4>2. AtOnAck
        BY <4>1 DEF Glitches
      <4>3. ASSUME NEW as \in Replies, Reads(as), hpc' = IF as = "d" THEN then ELSE "extra" PROVE Glitches'
        <5>1. as = "d" /\ AtStart'
          BY <4>2, <4>3, <3>OnAckReads
        <5> QED
          BY <4>3, <5>1 DEF Glitches
      <4>4. ~Silent
        BY <4>2, <3>OnAckExpires
      <4> QED
        BY <4>0, <4>3, <4>4, <2>CheckIs
    <3> QED
      BY <3>1, <3>2, <3>3, <3>4
  <2>LoopPlays. Base /\ prompt /\ Glitches /\ (TestTarget \/ Choose \/ Classify) => Glitches'
    <3>RestOwe3.
      ASSUME Rests3, NEW o, NEW c, NEW r, NEW c2, NEW r2, NEW c3, NEW r3, Owe3(o, c, r, c2, r2, c3, r3)
      PROVE  Owe3(o, c, r, c2, r2, c3, r3)'
      <4> USE <3>RestOwe3
      <4>1. PICK q, w : q = Append(o, r) /\ w = c \o (c2 \o c3)
        OBVIOUS
      <4>2. After(o, w) \/ Owe2(q, c2, r2, c3, r3)
        BY <4>1 DEF Owe3
      <4>3. After(o, w)' \/ Owe2(q, c2, r2, c3, r3)'
        BY <4>2, <1>RestAfter, <2>RestOwe2
      <4> QED
        BY <4>1, <4>3 DEF Owe3
    <3>StartRests. ASSUME AtStart, Rests3 PROVE AtStart'
      <4> USE <3>StartRests
      <4>1. power' = power
        BY <1>RestsIs
      <4>2. CASE Idle /\ power
        BY <4>1, <4>2, <1>RestIdle DEF AtStart
      <4>3. CASE After(<<>>, Y)
        BY <4>3, <1>RestAfter DEF AtStart
      <4>4. CASE After(<<"d">>, <<>>) /\ power
        BY <4>1, <4>4, <1>RestAfter DEF AtStart
      <4>5. CASE Owe3(<<>>, T, "T", X, "d", Y, "d")
        BY <4>5, <3>RestOwe3 DEF AtStart
      <4> QED
        BY <4>2, <4>3, <4>4, <4>5 DEF AtStart
    <3>ClassifyRests. ASSUME AtClassify, Rests3 PROVE AtOff' /\ AtStart'
      <4> USE <3>ClassifyRests
      <4>1. Idle' /\ power'
        BY <1>RestIdle, <1>RestsIs DEF AtClassify
      <4> QED
        BY <4>1 DEF AtOff, AtStart
    <3> SUFFICES ASSUME Base, prompt, Glitches, TestTarget \/ Choose \/ Classify
                 PROVE  Glitches'
      BY SMTT(30)
    <3>1. Rests3 /\ k' = k
      BY DEF TestTarget, Choose, Classify, lineVars, Rests3
    <3>2. CASE TestTarget
      <4>1. hpc' = "attempt" /\ AtStart'
        BY <3>1, <3>2, <3>StartRests DEF TestTarget, Glitches
      <4> QED
        BY <4>1 DEF Glitches
    <3>3. CASE Choose
      <4>1. hpc' = "shot" /\ AtStart' /\ k' = 1
        BY <3>1, <3>3, <3>StartRests DEF Choose, Glitches, Base, HostTypes
      <4> QED
        BY SMTT(30), <4>1 DEF Glitches
    <3>4. CASE Classify
      <4>1. hpc' \in {"off", "attempt"} /\ hpc = "classify"
        BY <3>4 DEF Classify
      <4>2. AtOff' /\ AtStart'
        BY <3>1, <4>1, <3>ClassifyRests DEF Glitches
      <4> QED
        BY <4>1, <4>2 DEF Glitches
    <3> QED
      BY <3>2, <3>3, <3>4
  <2>RaisePlays. Base /\ prompt /\ Glitches /\ Raise => Glitches'
    <3>WriteLate1.
      ASSUME DeviceTypes, NEW c \in Seq(Bytes), NEW r, NEW c2 \in Seq(Bytes), NEW r2, Late1(c, r), Writes(c2)
      PROVE  Late2(c, r, c2, r2)'
      <4> USE <3>WriteLate1
      <4>1. CASE InCommand(Ch.h, <<>>, c)
        BY <4>1, <2>WriteIn DEF Late2
      <4>2. ASSUME NEW a \in {"d", "e"}, Owe1(<<a>>, c, r) PROVE Owe2(<<a>>, c, r, c2, r2)'
        BY <4>2, <2>WriteOwe1
      <4> QED
        BY <4>1, <4>2 DEF Late1, Late2
    <3>FirstOwe3.
      ASSUME NEW as, Reads(as), NEW c, NEW r \in Named, NEW c2, NEW r2 \in Named, NEW c3, NEW r3 \in Named,
             Owe3(<<>>, c, r, c2, r2, c3, r3)
      PROVE  as = r /\ Owe2(<<>>, c2, r2, c3, r3)'
      <4> USE <3>FirstOwe3
      <4>1. ~After(<<>>, c \o (c2 \o c3))
        BY DEF Reads, Read1, After
      <4>2. Owe2(<<r>>, c2, r2, c3, r3)
        BY <4>1, Singles DEF Owe3
      <4> QED
        BY <4>2, <1>FrontOne, <2>ReadOwe2
    <3>SilentOwe3.
      ASSUME DeviceTypes, Silent, NEW c, NEW r \in Named, Command(c), NEW c2 \in Seq(Bytes), NEW r2 \in Named,
             NEW c3 \in Seq(Bytes), NEW r3 \in Named, Owe3(<<>>, c, r, c2, r2, c3, r3)
      PROVE  FALSE
      <4> USE <3>SilentOwe3
      <4>1. PICK o \in Seq(Named) : o = <<>>
        BY <1>NoBytes
      <4>2. CASE After(o, c \o (c2 \o c3))
        <5>1. PICK v \in Seq(Bytes) : v = c2 \o c3
          BY SeqConcat
        <5> QED
          BY <4>2, <5>1, <1>Quiet DEF After, Silent
      <4>3. CASE Owe2(Append(o, r), c2, r2, c3, r3)
        BY <4>3, <2>OutOwe2 DEF Silent
      <4> QED
        BY <4>1, <4>2, <4>3 DEF Owe3
    \* The rest of _checkResponse.
    <3>ExtraReads. ASSUME Base, AtExtra, NEW as, Reads(as), UNCHANGED want PROVE AtExtra'
      <4> USE <3>ExtraReads
      <4>1. PICK s : s = S(1)
        OBVIOUS
      <4>2. s = S(1)'
        BY <4>1, ShotSame
      <4>3. CASE Late1(X, "d")
        BY <4>3, <1>Fixed, <2>ReadLate1 DEF AtExtra
      <4>4. CASE Owe1(<<>>, X, "d")
        BY <4>4, <1>Fixed, <2>FirstOwe1 DEF AtExtra
      <4>5. CASE Idle
        BY <4>5, <1>ReadFirst DEF Idle
      <4>6. CASE Owe3(<<>>, X, "d", Y, "d", s, "d")
        <5>1. Owe2(<<>>, Y, "d", s, "d")'
          BY <4>6, <1>Fixed, <3>FirstOwe3
        <5> QED
          BY <4>2, <5>1 DEF AtExtra
      <4>7. CASE Owe2(<<>>, Y, "d", s, "d")
        <5>1. Owe1(<<>>, s, "d")'
          BY <4>7, <1>Fixed, <2>FirstOwe2
        <5> QED
          BY <4>2, <5>1 DEF AtExtra
      <4>8. CASE Owe1(<<>>, s, "d")
        BY <4>8, <1>Fixed, <2>FirstOwe1 DEF AtExtra
      <4> QED
        BY <4>1, <4>3, <4>4, <4>5, <4>6, <4>7, <4>8 DEF AtExtra
    <3>ExtraExpires.
      ASSUME Base, AtExtra, Silent, Writes(T), ~guarded', fetched' = 0
      PROVE  AtFlush'
      <4> USE <3>ExtraExpires
      <4>0. DeviceTypes
        BY DEF Base
      <4>1. PICK s : s = S(1)
        OBVIOUS
      <4>2. s \in Seq(Bytes) /\ Command(s)
        BY SMTT(30), <4>1, <1>ShotFixed
      <4>3. /\ ~Owe1(<<>>, X, "d") /\ ~Owe1(<<>>, s, "d") /\ ~Owe2(<<>>, Y, "d", s, "d")
            /\ ~Owe3(<<>>, X, "d", Y, "d", s, "d")
        BY <4>0, <4>2, <1>Fixed, <2>SilentOwe1, <2>SilentOwe2, <3>SilentOwe3
      <4>4. CASE Late1(X, "d")
        <5>1. Late2(X, "d", T, "T")'
          BY <4>0, <4>4, <1>Fixed, <3>WriteLate1
        <5> QED
          BY <5>1 DEF AtFlush
      <4>5. CASE Idle
        <5>1. Owe1(<<>>, T, "T")'
          BY <4>0, <4>5, <1>Fixed, <2>IdleOwes
        <5> QED
          BY SMTT(30), <5>1 DEF AtFlush
      <4> QED
        BY <4>1, <4>3, <4>4, <4>5 DEF AtExtra
    <3> SUFFICES ASSUME Base, prompt, Glitches, Raise
                 PROVE  Glitches'
      BY SMTT(30)
    <3>0. hpc = "extra" /\ UNCHANGED <<want, fetched>> /\ UNCHANGED devVars /\ fetched = 0
      BY DEF Raise, Base, HostTypes
    <3>1. ASSUME NEW as \in Replies, Read1(as), UNCHANGED <<in, hpc, guarded>> PROVE Glitches'
      <4>1. Reads(as)
        BY <3>0, <3>1, <1>ReadsIs
      <4>2. guarded => AtExtra'
        BY <3>0, <4>1, <3>ExtraReads DEF Glitches
      <4> QED
        BY <3>0, <3>1, <4>2 DEF Glitches
    <3>2. CASE Expire /\ UNCHANGED out /\ guarded /\ Write(<<Ch.t>>) /\ hpc' = "flush" /\ guarded' = FALSE
      <4>1. Silent /\ Writes(T) /\ ~guarded' /\ fetched' = 0
        BY <3>0, <3>2, <1>SilentIs, <1>WritesIs DEF T
      <4>2. AtFlush'
        BY <3>0, <3>2, <4>1, <3>ExtraExpires DEF Glitches
      <4> QED
        BY <3>2, <4>2 DEF Glitches
    <3>3. CASE hpc' = "gone"
      BY <3>3 DEF Glitches
    <3> QED
      BY <3>1, <3>2, <3>3 DEF Raise
  <2>FlushPlays. Base /\ prompt /\ Glitches /\ Flush => Glitches'
    <3>ReadLate2.
      ASSUME NEW as, Reads(as), NEW c, NEW r \in Named, NEW c2, NEW r2 \in Named, Late2(c, r, c2, r2)
      PROVE  as \in {"d", "e"} /\ Owe2(<<>>, c, r, c2, r2)'
      <4> USE <3>ReadLate2
      <4>1. ~InCommand(Ch.h, <<>>, c \o c2)
        BY DEF Reads, Read1, InCommand
      <4>2. PICK a \in {"d", "e"} : Owe2(<<a>>, c, r, c2, r2)
        BY <4>1 DEF Late2
      <4>3. Front(a, <<a>>, <<>>)
        BY <1>FrontOne DEF Named
      <4> QED
        BY <4>2, <4>3, <2>ReadOwe2
    <3>RestLate2.
      ASSUME Rests3, NEW c, NEW r, NEW c2, NEW r2, Late2(c, r, c2, r2)
      PROVE  Late2(c, r, c2, r2)'
      <4> USE <3>RestLate2
      <4>1. CASE InCommand(Ch.h, <<>>, c \o c2)
        <5>1. PICK w : w = c \o c2
          OBVIOUS
        <5>2. InCommand(Ch.h, <<>>, w)'
          BY <4>1, <5>1, <1>RestIn
        <5> QED
          BY <5>1, <5>2 DEF Late2
      <4>2. ASSUME NEW a \in {"d", "e"}, Owe2(<<a>>, c, r, c2, r2) PROVE Owe2(<<a>>, c, r, c2, r2)'
        BY <4>2, <2>RestOwe2
      <4> QED
        BY <4>1, <4>2 DEF Late2
    \* _testScope, and what it reads.
    <3>FlushReads.
      ASSUME Base, AtFlush, NEW as, Reads(as), UNCHANGED guarded, fetched' = fetched + 1
      PROVE  AtFlush'
      <4> USE <3>FlushReads
      <4>0. ~guarded' /\ (fetched = 0 => fetched' = 1) /\ (fetched = 1 => fetched' <= 2) /\ (fetched <= 2 => fetched' <= 3)
        BY SMTT(30) DEF Base, HostTypes, AtFlush
      <4>1. CASE Late2(X, "d", T, "T") /\ fetched = 0
        <5>1. Owe2(<<>>, X, "d", T, "T")'
          BY <4>1, <1>Fixed, <3>ReadLate2
        <5> QED
          BY <4>0, <4>1, <5>1 DEF AtFlush
      <4>2. CASE Owe2(<<>>, X, "d", T, "T") /\ fetched = 1
        <5>1. Owe1(<<>>, T, "T")'
          BY <4>2, <1>Fixed, <2>FirstOwe2
        <5> QED
          BY <4>0, <4>2, <5>1 DEF AtFlush
      <4>3. CASE Owe1(<<>>, T, "T") /\ fetched <= 2
        <5>1. Idle'
          BY <4>3, <1>Fixed, <2>FirstOwe1
        <5> QED
          BY <4>0, <4>3, <5>1 DEF AtFlush
      <4>4. CASE Idle
        BY <4>4, <1>ReadFirst DEF Idle
      <4> QED
        BY <4>1, <4>2, <4>3, <4>4 DEF AtFlush
    <3>FlushEnds.
      ASSUME Base, AtFlush, fetched = 10 \/ Silent, Rests3, UNCHANGED guarded
      PROVE  AtOff'
      <4> USE <3>FlushEnds
      <4>1. Silent
        BY SMTT(30) DEF AtFlush
      <4>2. ~Owe2(<<>>, X, "d", T, "T") /\ ~Owe1(<<>>, T, "T")
        BY <4>1, <1>Fixed, <2>SilentOwe1, <2>SilentOwe2 DEF Base
      <4> QED
        BY <4>2, <1>RestIdle, <3>RestLate2 DEF AtFlush, AtOff
    <3> SUFFICES ASSUME Base, prompt, Glitches, Flush
                 PROVE  Glitches'
      BY SMTT(30)
    <3>0. AtFlush /\ hpc = "flush" /\ UNCHANGED guarded /\ UNCHANGED <<devVars, in>>
      BY DEF Flush, Glitches
    <3>1. ASSUME NEW as \in Replies, Read1(as), fetched' = fetched + 1, UNCHANGED hpc PROVE Glitches'
      <4>1. Reads(as)
        BY <3>0, <3>1, <1>ReadsIs
      <4>2. AtFlush'
        BY <3>0, <3>1, <4>1, <3>FlushReads
      <4> QED
        BY <3>0, <3>1, <4>2 DEF Glitches
    <3>2. CASE (fetched = 10 \/ Expire) /\ hpc' = "off" /\ UNCHANGED out
      <4>1. (fetched = 10 \/ Silent) /\ Rests3
        BY <3>0, <3>2, <1>SilentIs DEF Rests3
      <4>2. AtOff'
        BY <3>0, <4>1, <3>FlushEnds
      <4> QED
        BY <3>2, <4>2 DEF Glitches
    <3> QED
      BY <3>1, <3>2 DEF Flush
  <2>SetShotPlays. Base /\ prompt /\ Glitches /\ SetShot => Glitches'
    \* The first setter of an attempt.
    <3>StartPlays. ASSUME Base, AtStart, Writes(S(1)), UNCHANGED want PROVE AtFirstAck'
      <4> USE <3>StartPlays
      <4>0. DeviceTypes /\ power' = power
        BY <1>DevKept DEF Base, Writes
      <4>1. PICK s : s = S(1)
        OBVIOUS
      <4>2. s = S(1)' /\ s \in Seq(Bytes) /\ Writes(s)
        BY SMTT(30), <4>1, ShotSame, <1>ShotFixed
      <4>3. CASE Idle /\ power
        <5>1. After(<<>>, s)'
          BY <4>0, <4>2, <4>3, <1>WriteIdle DEF Idle
        <5> QED
          BY <4>0, <4>2, <4>3, <5>1 DEF AtFirstAck
      <4>4. CASE After(<<>>, Y)
        <5>1. After(<<>>, Y \o s)'
          BY <4>0, <4>2, <4>4, <1>Fixed, <1>WriteAfter
        <5> QED
          BY <4>2, <5>1 DEF AtFirstAck
      <4>5. CASE After(<<"d">>, <<>>) /\ power
        <5>1. Owe1(<<"d">>, s, "d")'
          BY <4>0, <4>2, <4>5, <1>WriteIdle DEF Owe1
        <5> QED
          BY <4>0, <4>2, <4>5, <5>1 DEF AtFirstAck
      <4>6. CASE Owe3(<<>>, T, "T", X, "d", Y, "d")
        <5>1. Owe4(<<>>, T, "T", X, "d", Y, "d", s, "d")'
          BY <4>0, <4>2, <4>6, <1>Fixed, <2>WriteOwe3
        <5> QED
          BY <4>2, <5>1 DEF AtFirstAck
      <4> QED
        BY <4>3, <4>4, <4>5, <4>6 DEF AtStart
    \* And the others.
    <3>ShotPlays.
      ASSUME Base, NEW j \in 2 .. 3, AtShot(j), Writes(S(j)), UNCHANGED want
      PROVE  AtShotAck(j)'
      <4> USE <3>ShotPlays
      <4>0. DeviceTypes /\ UNCHANGED <<power, conf>> /\ j \in 1 .. 3 /\ j - 1 \in 1 .. 3
        BY SMTT(30), <1>DevKept DEF Base, Writes
      <4>1. PICK s, t : s = S(j) /\ t = S(j - 1)
        OBVIOUS
      <4>2. s = S(j)' /\ s \in Seq(Bytes) /\ Writes(s)
        BY <4>0, <4>1, ShotSame, <1>ShotFixed
      <4>3. t = S(j - 1)' /\ t \in Seq(Bytes)
        BY <4>0, <4>1, ShotSame, <1>ShotFixed
      <4>4. CASE Idle /\ ShotBelow(j)
        <5>1. After(<<>>, s)'
          BY <4>0, <4>2, <4>4, <1>WriteIdle DEF Idle
        <5>2. ShotBelow(j)'
          BY <4>0, <4>4, <2>ShotBelowSame
        <5> QED
          BY <4>0, <4>2, <5>1, <5>2 DEF AtShotAck, AtShot
      <4>5. CASE Owe1(<<>>, t, "d")
        <5>1. Owe2(<<>>, t, "d", s, "d")'
          BY <4>0, <4>2, <4>3, <4>5, <2>WriteOwe1
        <5> QED
          BY <4>0, <4>2, <4>3, <5>1 DEF AtShotAck, AtShot
      <4> QED
        BY <4>1, <4>4, <4>5 DEF AtShot
    <3> SUFFICES ASSUME Base, prompt, Glitches, SetShot
                 PROVE  Glitches'
      BY SMTT(30)
    <3>0. hpc = "shot" /\ hpc' = "shotAck" /\ k' = k /\ want' = want /\ k \in 1 .. 3 /\ Writes(S(k))
      BY <1>WritesIs DEF SetShot, Base, HostTypes, S
    <3>1. CASE k = 1
      <4>1. AtFirstAck'
        BY <3>0, <3>1, <3>StartPlays DEF Glitches
      <4> QED
        BY SMTT(30), <3>0, <3>1, <4>1 DEF Glitches
    <3>2. CASE k > 1
      <4>1. PICK j \in 2 .. 3 : j = k
        BY SMTT(30), <3>0, <3>2
      <4>2. AtShot(j) /\ Writes(S(j))
        BY <3>0, <3>2, <4>1 DEF Glitches
      <4>3. AtShotAck(j)' /\ j = k'
        BY <3>0, <4>1, <4>2, <3>ShotPlays
      <4>4. AtShotAck(k)'
        BY <4>3
      <4> QED
        BY SMTT(30), <3>0, <3>2, <4>4 DEF Glitches
    <3> QED
      BY SMTT(30), <3>0, <3>1, <3>2
  <2>ShotSetPlays. Base /\ prompt /\ Glitches /\ ShotSet => Glitches'
    <3>FirstAckReads.
      ASSUME Base, AtFirstAck, NEW as, Reads(as), UNCHANGED want
      PROVE  (as = "d" /\ AtShot(2)') \/ (as # "d" /\ AtExtra')
      <4> USE <3>FirstAckReads
      <4>0. power' = power /\ conf' = conf
        BY <1>DevKept DEF Reads
      <4>1. PICK s : s = S(1)
        OBVIOUS
      <4>2. s = S(1)' /\ s = S(2 - 1)'
        BY SMTT(30), <4>1, ShotSame
      <4>3. CASE After(<<>>, s)
        BY <4>3, <1>ReadFirst
      <4>4. CASE After(<<"d">>, <<>>) /\ power /\ ShotBelow(2)
        <5>1. as = "d" /\ Idle'
          BY <4>4, <1>Fixed, <1>FrontOne, <1>ReadAfter DEF Idle
        <5>2. ShotBelow(2)'
          BY <4>0, <4>4, <2>ShotBelowSame
        <5> QED
          BY <4>0, <4>4, <5>1, <5>2 DEF AtShot
      <4>5. CASE After(<<>>, Y \o s)
        <5>1. PICK w : w = Y \o s
          OBVIOUS
        <5> QED
          BY <4>5, <5>1, <1>ReadFirst
      <4>6. CASE Owe1(<<"d">>, s, "d") /\ power
        <5>1. as = "d" /\ Owe1(<<>>, s, "d")'
          BY <4>6, <1>Fixed, <1>FrontOne, <2>ReadOwe1
        <5> QED
          BY <4>0, <4>2, <4>6, <5>1 DEF AtShot
      <4>7. CASE Owe4(<<>>, T, "T", X, "d", Y, "d", s, "d")
        <5>1. as = "T" /\ Owe3(<<>>, X, "d", Y, "d", s, "d")'
          BY <4>7, <1>Fixed, <2>FirstOwe4
        <5> QED
          BY <4>2, <5>1 DEF AtExtra
      <4> QED
        BY <4>1, <4>3, <4>4, <4>5, <4>6, <4>7 DEF AtFirstAck
    <3>FirstAckExpires. ASSUME Base, AtFirstAck, Silent PROVE FALSE
      <4> USE <3>FirstAckExpires
      <4>0. DeviceTypes /\ out = <<>> /\ Waiting
        BY DEF Base, Silent
      <4>1. PICK s : s = S(1)
        OBVIOUS
      <4>2. s \in Seq(Bytes) /\ Command(s)
        BY SMTT(30), <4>1, <1>ShotFixed
      <4>3. ~After(<<>>, s)
        BY <4>0, <4>2, <1>QuietOne DEF After
      <4>4. ~After(<<>>, Y \o s)
        BY <4>0, <4>2, <1>Fixed, <1>Quiet DEF After
      <4>5. ~Owe4(<<>>, T, "T", X, "d", Y, "d", s, "d")
        BY <4>0, <4>2, <1>Fixed, <2>SilentOwe4
      <4>6. <<"d">> # <<>> /\ Append(<<"d">>, "d") # <<>>
        BY SMTT(30)
      <4>7. ~After(<<"d">>, <<>>) /\ ~Owe1(<<"d">>, s, "d")
        BY <4>0, <4>6 DEF After, Owe1
      <4> QED
        BY <4>1, <4>3, <4>4, <4>5, <4>7 DEF AtFirstAck
    <3>ShotAckReads.
      ASSUME Base, NEW j \in 2 .. 3, AtShotAck(j), NEW as, Reads(as), UNCHANGED want
      PROVE  as = "d" /\ AtShot(j + 1)'
      <4> USE <3>ShotAckReads
      <4>0. UNCHANGED <<power, conf>> /\ j + 1 - 1 = j
        BY SMTT(30), <1>DevKept DEF Reads
      <4>1. PICK s, t : s = S(j) /\ t = S(j - 1)
        OBVIOUS
      <4>2. s = S(j + 1 - 1)'
        BY <4>0, <4>1, ShotSame
      <4>3. CASE After(<<>>, s)
        BY <4>3, <1>ReadFirst
      <4>4. CASE After(<<"d">>, <<>>) /\ ShotBelow(j + 1)
        <5>1. as = "d" /\ Idle'
          BY <4>4, <1>Fixed, <1>FrontOne, <1>ReadAfter DEF Idle
        <5>2. ShotBelow(j + 1)'
          BY <4>0, <4>4, <2>ShotBelowSame
        <5> QED
          BY <4>0, <5>1, <5>2 DEF AtShot, AtShotAck
      <4>5. CASE Owe2(<<>>, t, "d", s, "d")
        <5>1. as = "d" /\ Owe1(<<>>, s, "d")'
          BY <4>5, <1>Fixed, <2>FirstOwe2
        <5> QED
          BY SMTT(30), <4>0, <4>2, <5>1 DEF AtShot, AtShotAck
      <4> QED
        BY <4>1, <4>3, <4>4, <4>5 DEF AtShotAck
    <3>ShotAckExpires. ASSUME Base, NEW j \in 2 .. 3, AtShotAck(j), Silent PROVE FALSE
      <4> USE <3>ShotAckExpires
      <4>0. DeviceTypes /\ out = <<>> /\ Waiting /\ j \in 1 .. 3 /\ j - 1 \in 1 .. 3
        BY SMTT(30) DEF Base, Silent
      <4>1. PICK s, t : s = S(j) /\ t = S(j - 1)
        OBVIOUS
      <4>2. s \in Seq(Bytes) /\ Command(s) /\ Command(t)
        BY <4>0, <4>1, <1>ShotFixed
      <4>3. ~After(<<>>, s)
        BY <4>0, <4>2, <1>QuietOne DEF After
      <4>4. ~Owe2(<<>>, t, "d", s, "d")
        BY <4>0, <4>2, <1>Fixed, <2>SilentOwe2
      <4>5. ~After(<<"d">>, <<>>)
        BY <4>0 DEF After
      <4> QED
        BY <4>1, <4>3, <4>4, <4>5 DEF AtShotAck
    <3> SUFFICES ASSUME Base, prompt, Glitches, ShotSet
                 PROVE  Glitches'
      BY SMTT(30)
    <3>0. PICK then : then = IF k = 3 THEN "glitchArm" ELSE "shot"
      OBVIOUS
    <3>1. Check("shotAck", then) /\ k' = IF hpc' = "shot" THEN k + 1 ELSE 1
      BY <3>0, <1>ShotCount DEF ShotSet
    <3>2. hpc = "shotAck" /\ UNCHANGED want /\ k \in 1 .. 3
      BY SMTT(30), <3>1, <2>CheckIs DEF Base, HostTypes
    <3>3. CASE k = 1
      <4>1. AtFirstAck
        BY <3>2, <3>3 DEF Glitches
      <4>2. ~Silent
        BY <4>1, <3>FirstAckExpires
      <4>3. PICK as \in Replies : Reads(as) /\ hpc' = IF as = "d" THEN then ELSE "extra"
        BY SMTT(30), <3>1, <4>2, <2>CheckIs
      <4>4. (as = "d" /\ AtShot(2)') \/ (as # "d" /\ AtExtra')
        BY <3>2, <4>1, <4>3, <3>FirstAckReads
      <4>5. CASE as = "d"
        <5>1. hpc' = "shot" /\ k' = 2
          BY SMTT(30), <3>0, <3>1, <3>3, <4>3, <4>5
        <5>2. AtShot(k)'
          BY <4>4, <4>5, <5>1
        <5> QED
          BY SMTT(30), <5>1, <5>2 DEF Glitches
      <4>6. CASE as # "d"
        BY <4>3, <4>4, <4>6 DEF Glitches
      <4> QED
        BY <4>5, <4>6
    <3>4. CASE k > 1
      <4>1. PICK j \in 2 .. 3 : j = k
        BY SMTT(30), <3>2, <3>4
      <4>2. AtShotAck(j)
        BY <3>2, <3>4, <4>1 DEF Glitches
      <4>3. ~Silent
        BY <4>2, <3>ShotAckExpires
      <4>4. PICK as \in Replies : Reads(as) /\ hpc' = IF as = "d" THEN then ELSE "extra"
        BY SMTT(30), <3>1, <4>3, <2>CheckIs
      <4>5. as = "d" /\ AtShot(j + 1)'
        BY <3>2, <4>2, <4>4, <3>ShotAckReads
      <4>6. CASE j = 2
        <5>1. hpc' = "shot" /\ k' = 3 /\ j + 1 = 3
          BY SMTT(30), <3>0, <3>1, <4>1, <4>4, <4>5, <4>6
        <5>2. AtShot(k)'
          BY <4>5, <5>1
        <5> QED
          BY SMTT(30), <5>1, <5>2 DEF Glitches
      <4>7. CASE j = 3
        <5>1. hpc' = "glitchArm" /\ j + 1 = 4
          BY SMTT(30), <3>0, <4>1, <4>4, <4>5, <4>7
        <5>2. AtShot(4)'
          BY <4>5, <5>1
        <5> QED
          BY <5>1, <5>2 DEF Glitches
      <4> QED
        BY SMTT(30), <4>6, <4>7
    <3> QED
      BY SMTT(30), <3>2, <3>3, <3>4
  <2>WaitPlays.
    Base /\ prompt /\ Glitches /\ (GlitchArm \/ GlitchArmed \/ WaitForGlitcher) /\ UNCHANGED shot =>
      Glitches'
    \* The reply before the 'r'.
    <3>ReadBeforeReady.
      ASSUME NEW as, Reads(as), NEW c, NEW r \in Named, Waits(c, <<r>>)
      PROVE  as = r /\ Waits(c, <<>>)'
      <4> USE <3>ReadBeforeReady
      <4>0. "r" \in Named /\ "d" \in Named /\ "e" \in Named
        BY DEF Named
      <4>1. Front(r, <<r>>, <<>>) /\ Front(r, Append(<<r>>, "r"), Append(<<>>, "r"))
        BY <4>0, <1>FrontOne, <1>FrontAppend
      <4>2. CASE After(<<r>>, <<c>>)
        BY <4>1, <4>2, <1>ReadAfter DEF Waits
      <4>3. CASE pc = "ready" /\ cmd = c /\ out = <<r>> /\ in = <<>>
        <5>1. as = r /\ out' = <<>>
          BY <4>1, <4>3, <1>ReadFront
        <5>2. UNCHANGED <<pc, cmd, in>>
          BY <1>DevKept DEF Reads
        <5> QED
          BY <4>3, <5>1, <5>2 DEF Waits
      <4>4. CASE InCommand(c, Append(<<r>>, "r"), <<>>)
        <5>1. PICK w, o, p : w = <<>> /\ o = Append(<<r>>, "r") /\ p = Append(<<>>, "r")
          OBVIOUS
        <5>2. Front(r, o, p) /\ InCommand(c, o, w)
          BY <4>1, <4>4, <5>1
        <5>3. as = r /\ InCommand(c, p, w)'
          BY <5>2, <1>ReadIn
        <5> QED
          BY <5>1, <5>3 DEF Waits
      <4>5. ASSUME NEW a \in {"d", "e"}, After(Append(Append(<<r>>, "r"), a), <<>>)
            PROVE  as = r /\ After(Append(Append(<<>>, "r"), a), <<>>)'
        <5>1. PICK q, s, w : q = Append(Append(<<r>>, "r"), a) /\ s = Append(Append(<<>>, "r"), a) /\ w = <<>>
          OBVIOUS
        <5>2. Front(r, q, s)
          <6>1. PICK q1, s1 : q1 = Append(<<r>>, "r") /\ s1 = Append(<<>>, "r")
            OBVIOUS
          <6>2. Front(r, q1, s1) /\ a \in Named /\ q = Append(q1, a) /\ s = Append(s1, a)
            BY <4>0, <4>1, <5>1, <6>1
          <6> QED
            BY <6>2, <1>FrontAppend
        <5>3. After(q, w)
          BY <4>5, <5>1
        <5>4. as = r /\ After(s, w)'
          BY <5>2, <5>3, <1>ReadAfter
        <5> QED
          BY <5>1, <5>4
      <4> QED
        BY <4>2, <4>3, <4>4, <4>5 DEF Waits
    <3>SilentWaits.
      ASSUME DeviceTypes, Silent, NEW c \in {Ch.d, Ch.h}, Waits(c, <<>>)
      PROVE  FALSE
      <4> USE <3>SilentWaits
      <4>1. Command(<<c>>)
        BY WaitCommand
      <4>2. ~After(<<>>, <<c>>)
        <5>1. PICK w : w = <<c>>
          OBVIOUS
        <5> QED
          BY <4>1, <5>1, <1>QuietOne DEF After, Silent
      <4>3. pc # "ready"
        BY <1>WaitingIs DEF Silent
      <4>4. \A a : Append(Append(<<>>, "r"), a) # <<>> /\ Append(<<>>, "r") # <<>>
        BY SMTT(30)
      <4> QED
        BY <4>2, <4>3, <4>4 DEF Waits, Silent, InCommand, After
    \* glitchArm and waitForGlitcher
    <3>GlitchArmPlays.
      ASSUME Base, AtShot(4), Writes(H), UNCHANGED <<want, shot>>
      PROVE  AtGlitchArmed'
      <4> USE <3>GlitchArmPlays
      <4>0. DeviceTypes /\ UNCHANGED <<power, conf>> /\ 4 - 1 = 3 /\ 3 \in 1 .. 3
        BY SMTT(30), <1>DevKept DEF Base, Writes
      <4>1. PICK s : s = S(3)
        OBVIOUS
      <4>2. s = S(3)' /\ s \in Seq(Bytes)
        BY <4>0, <4>1, ShotSame, <1>ShotFixed
      <4>3. CASE Idle /\ ShotBelow(4)
        <5>1. After(<<>>, H)'
          BY <4>0, <4>3, <1>Fixed, <1>WriteIdle DEF Idle
        <5>2. ShotBelow(4)'
          BY <4>0, <4>3, <2>ShotBelowSame
        <5>3. Waits(Ch.h, <<>>)'
          BY <5>1 DEF Waits, H
        <5>4. Recorded'
          BY <5>1 DEF Recorded, After, Work
        <5> QED
          BY <4>0, <5>2, <5>3, <5>4 DEF AtShot, AtGlitchArmed
      <4>4. CASE After(<<>>, s)
        <5>1. After(<<>>, s \o H)'
          BY <4>0, <4>2, <4>4, <1>Fixed, <1>WriteAfter
        <5> QED
          BY <4>0, <4>2, <5>1 DEF AtShot, AtGlitchArmed
      <4>5. CASE After(<<"d">>, <<>>)
        <5>1. After(<<"d">>, H)'
          BY <4>0, <4>5, <1>Fixed, <1>WriteIdle
        <5>2. Waits(Ch.h, <<"d">>)'
          BY <5>1 DEF Waits, H
        <5> QED
          BY <4>0, <5>2 DEF AtShot, AtGlitchArmed
      <4> QED
        BY <4>0, <4>1, <4>3, <4>4, <4>5, Singles DEF AtShot, Owe1
    <3>RecordedReads.
      ASSUME Base, NEW as, Reads(as), UNCHANGED <<want, shot>>, Recorded
      PROVE  Recorded'
      <4> USE <3>RecordedReads
      <4>1. out \in Seq(Sent) /\ out # <<>> /\ out' = Tail(out) /\ UNCHANGED <<pc, timedOut>>
        BY LineIs, <1>DevKept DEF Base, Reads, Read1, devVars, twVars
      <4>2. ASSUME out' # <<>> PROVE out'[Len(out')] = out[Len(out)]
        <5>1. out' \in Seq(Sent) /\ Len(out) \in Nat /\ Len(out') = Len(out) - 1 /\ Len(out') # 0
          BY <4>1, <4>2, SeqHeadTail, SeqEmpty, SeqLen
        <5> QED
          BY SMTT(30), <4>1, <5>1
      <4> QED
        BY <4>1, <4>2 DEF Recorded
    <3>GlitchArmedReads.
      ASSUME Base, AtGlitchArmed, NEW as, Reads(as), UNCHANGED <<want, shot>>
      PROVE  AtGlitcher'
      <4> USE <3>GlitchArmedReads
      <4>0. UNCHANGED <<power, conf>>
        BY <1>DevKept DEF Reads
      <4>1. CASE Waits(Ch.h, <<>>) /\ ShotBelow(4) /\ Recorded
        <5>1. Answers(Ch.h)'
          BY <4>1, <1>ReadReady
        <5>2. ShotBelow(4)' /\ Recorded'
          BY <4>0, <4>1, <2>ShotBelowSame, <3>RecordedReads
        <5> QED
          BY <4>0, <5>1, <5>2 DEF AtGlitchArmed, AtGlitcher
      <4>2. CASE After(<<>>, S(3) \o H)
        <5>1. PICK w : w = S(3) \o H
          OBVIOUS
        <5> QED
          BY <4>2, <5>1, <1>ReadFirst
      <4>3. CASE Waits(Ch.h, <<"d">>)
        <5>1. Waits(Ch.h, <<>>)'
          BY <4>3, <1>Fixed, <3>ReadBeforeReady
        <5> QED
          BY <4>0, <5>1 DEF AtGlitchArmed, AtGlitcher
      <4> QED
        BY <4>1, <4>2, <4>3 DEF AtGlitchArmed
    <3>GlitchArmedExpires. ASSUME Base, AtGlitchArmed, Silent PROVE FALSE
      <4> USE <3>GlitchArmedExpires
      <4>0. DeviceTypes /\ out = <<>> /\ Waiting /\ 3 \in 1 .. 3
        BY SMTT(30) DEF Base, Silent
      <4>1. ~Waits(Ch.h, <<>>)
        BY <4>0, <3>SilentWaits
      <4>2. PICK s : s = S(3)
        OBVIOUS
      <4>3. Command(s)
        BY <4>0, <4>2, <1>ShotFixed
      <4>4. ~After(<<>>, s \o H)
        BY <4>0, <4>3, <1>Fixed, <1>Quiet DEF After
      <4>5. \A a : <<"d">> # <<>> /\ Append(<<"d">>, "r") # <<>> /\ Append(Append(<<"d">>, "r"), a) # <<>>
        BY SMTT(30)
      <4>6. ~Waits(Ch.h, <<"d">>)
        BY <4>0, <4>5 DEF Waits, After, InCommand
      <4> QED
        BY <4>1, <4>2, <4>4, <4>6 DEF AtGlitchArmed
    <3>GlitcherReads.
      ASSUME Base, AtGlitcher, NEW as, Reads(as), UNCHANGED <<want, shot>>
      PROVE  IF as = "d" THEN AtClassify' ELSE AtOff'
      <4> USE <3>GlitcherReads
      <4>0. power' = power
        BY <1>DevKept DEF Reads
      <4>1. CASE Answers(Ch.h) /\ Recorded
        <5>1. as \in {"d", "e"} /\ Idle' /\ out = <<as>>
          BY <4>1, <1>ReadAnswer
        <5>2. as = "d" => shot = [of |-> want, caught |-> TRUE]
          <6>1. Len(<<as>>) = 1 /\ <<as>>[1] = as /\ <<as>> # <<>>
            OBVIOUS
          <6> QED
            BY <4>1, <5>1, <6>1 DEF Recorded
        <5>3. as = "d" => (shot = [of |-> want, caught |-> TRUE])'
          BY <5>2
        <5> QED
          BY <4>0, <5>1, <5>3 DEF AtGlitcher, AtClassify, AtOff
      <4>2. CASE Waits(Ch.h, <<>>)
        <5>1. as = "r" /\ Answers(Ch.h)'
          BY <4>2, <1>ReadReady
        <5> QED
          BY <5>1 DEF AtOff, Late0
      <4> QED
        BY <4>1, <4>2 DEF AtGlitcher
    <3>GlitcherExpires. ASSUME Base, AtGlitcher, Silent, Rests3 PROVE AtOff'
      <4> USE <3>GlitcherExpires
      <4>1. ~Waits(Ch.h, <<>>)
        BY <3>SilentWaits DEF Base
      <4> QED
        BY <4>1, <1>RestAnswers DEF AtGlitcher, AtOff, Late0
    <3> SUFFICES ASSUME Base, prompt, Glitches, GlitchArm \/ GlitchArmed \/ WaitForGlitcher, UNCHANGED shot
                 PROVE  Glitches'
      BY SMTT(30)
    <3>1. CASE GlitchArm
      <4>1. hpc = "glitchArm" /\ hpc' = "glitchArmed" /\ Writes(H) /\ UNCHANGED want
        BY <3>1, <1>WritesIs DEF GlitchArm, H
      <4>2. AtGlitchArmed'
        BY <4>1, <3>GlitchArmPlays DEF Glitches
      <4> QED
        BY <4>1, <4>2 DEF Glitches
    <3>2. CASE GlitchArmed
      <4>1. hpc = "glitchArmed" /\ hpc' = "glitcher" /\ UNCHANGED want /\ AtGlitchArmed
        BY <3>2 DEF GlitchArmed, Glitches
      <4>2. ~Expire
        BY <4>1, <1>SilentIs, <3>GlitchArmedExpires
      <4>3. PICK as \in Replies : Read1(as)
        BY <3>2, <4>2 DEF GlitchArmed
      <4>4. Reads(as)
        BY <3>2, <4>3, <1>ReadsIs DEF GlitchArmed
      <4>5. AtGlitcher'
        BY <4>1, <4>4, <3>GlitchArmedReads
      <4> QED
        BY <4>1, <4>5 DEF Glitches
    <3>3. CASE WaitForGlitcher
      <4>1. hpc = "glitcher" /\ UNCHANGED want /\ UNCHANGED <<devVars, in>> /\ AtGlitcher
        BY <3>3 DEF WaitForGlitcher, Glitches
      <4>2. ASSUME NEW as \in Replies, Read1(as), hpc' = IF as = "d" THEN "classify" ELSE "off" PROVE Glitches'
        <5>1. Reads(as)
          BY <4>1, <4>2, <1>ReadsIs
        <5>2. IF as = "d" THEN AtClassify' ELSE AtOff'
          BY <4>1, <5>1, <3>GlitcherReads
        <5> QED
          BY <4>2, <5>2 DEF Glitches
      <4>3. CASE Expire /\ hpc' = "off" /\ UNCHANGED out
        <5>1. Silent /\ Rests3
          BY <4>1, <4>3, <1>SilentIs DEF Rests3
        <5>2. AtOff'
          BY <4>1, <5>1, <3>GlitcherExpires
        <5> QED
          BY <4>3, <5>2 DEF Glitches
      <4> QED
        BY <3>3, <4>2, <4>3 DEF WaitForGlitcher
    <3> QED
      BY <3>1, <3>2, <3>3
  <2> SUFFICES ASSUME Base, prompt, Glitches, hpc = "idle" => Idle, Glitching, UNCHANGED shot
               PROVE  Glitches'
    BY SMTT(30)
  <2>1. CASE Start
    <3>1. Rests3 /\ hpc' = "off" /\ Idle
      BY <2>1 DEF Start, lineVars, Rests3
    <3>2. AtOff'
      BY <3>1, <1>RestIdle DEF AtOff
    <3> QED
      BY <3>1, <3>2 DEF Glitches
  <2> QED
    BY <2>1, <2>PowerPlays, <2>LoopPlays, <2>RaisePlays, <2>FlushPlays, <2>SetShotPlays, <2>ShotSetPlays,
       <2>WaitPlays DEF Glitching
<1>Four.
  ASSUME NEW a, NEW b, NEW c, NEW d
  PROVE  LET s == <<a, b, c, d>>
         IN  s[1] = a /\ s[2] = b /\ s[3] = c /\ s[4] = d /\ Len(s) = 4
    BY <1>Four
<1>FourOf. \A i \in 1 .. 4 : i = 1 \/ i = 2 \/ i = 3 \/ i = 4
    BY SMTT(30)
<1>FormsAre.
  /\ FormCommands[1] = <<Ch.c, form.clockDivider>>
  /\ FormCommands[2] = <<Ch.eight, IF form.bits12 THEN 1 ELSE 0>>
  /\ FormCommands[3] = <<Ch.w>> \o Word(form.delay)
  /\ FormCommands[4] = <<Ch.n>> \o Word(FormSamples)
  /\ Len(FormCommands) = 4
    BY <1>Four DEF FormCommands
<1>StoredAre.
  /\ FormStored[1] = [self EXCEPT !.clockDivider = form.clockDivider]
  /\ FormStored[2] = [self EXCEPT !.bits12 = form.bits12]
  /\ FormStored[3] = [self EXCEPT !.delay = form.delay]
  /\ FormStored[4] = [self EXCEPT !.numSamples = FormSamples]
    BY <1>Four DEF FormStored
<1>FormTypes.
  ASSUME form \in Forms
  PROVE  /\ form.clockDivider \in 0 .. 7 /\ form.bits12 \in BOOLEAN /\ form.delay \in Words
         /\ FormSamples \in Words \ {0}
  <2> USE <1>FormTypes
  <2>1. form \in [numSamples : Words \ {0}, clockDivider : 0 .. 7, bits12 : BOOLEAN, delay : Words]
    BY FormsAssumption
  <2> QED
    BY <2>1, GuiSamplesAssumption DEF FormSamples
<1>StoredTypes.
  ASSUME form \in Forms, self \in Selfs, NEW j \in 1 .. 4
  PROVE  FormStored[j] \in Selfs
  <2> USE <1>StoredTypes
  <2>1. PICK d, b, w, n : d = form.clockDivider /\ b = form.bits12 /\ w = form.delay /\ n = FormSamples
    OBVIOUS
  <2>2. d \in 0 .. 7 /\ b \in BOOLEAN /\ w \in Words /\ n \in Words \ {0}
    BY <2>1, <1>FormTypes
  <2>3. /\ [self EXCEPT !.clockDivider = d] \in Selfs /\ [self EXCEPT !.bits12 = b] \in Selfs
        /\ [self EXCEPT !.delay = w] \in Selfs /\ [self EXCEPT !.numSamples = n] \in Selfs
    BY <2>2 DEF Selfs
  <2> QED
    BY SMTT(30), <2>1, <2>3, <1>StoredAre, <1>FourOf
<1>CommandBytes.
  /\ \A c \in {Ch.d, Ch.h, Ch.s, Ch.t, Ch.x, Ch.y} : <<c>> \in Seq(Bytes)
  /\ Base /\ hpc = "setup" => Settings[k] \in Seq(Bytes)
  /\ Base /\ hpc = "shot" => ShotCommands[k] \in Seq(Bytes)
  <2>1. \A c \in {Ch.d, Ch.h, Ch.s, Ch.t, Ch.x, Ch.y} : <<c>> \in Seq(Bytes)
    BY SMTT(30), WaitCommand
  <2>2. ASSUME Base, hpc = "setup" PROVE Settings[k] \in Seq(Bytes)
    BY <2>2, SettingCommand DEF Base, HostTypes, Command
  <2>3. ASSUME Base, hpc = "shot" PROVE ShotCommands[k] \in Seq(Bytes)
    BY <2>3, <1>ShotFixed DEF Base, HostTypes, S
  <2> QED
    BY <2>1, <2>2, <2>3
<1>FormBytes.
  ASSUME Base, FormSet
  PROVE  FormCommands[k] \in Seq(Bytes)
  <2> USE <1>FormBytes
  <2>1. k \in 1 .. 4 /\ form \in Forms /\ self \in Selfs /\ self' = FormStored[k] /\ k' = k
    BY DEF FormSet, Base, HostTypes
  <2>2. PICK j, f : j \in 1 .. 4 /\ j = k /\ f = FormCommands[k]
    BY <2>1
  <2>3. form.clockDivider \in Bytes /\ (IF form.bits12 THEN 1 ELSE 0) \in Bytes /\ form.delay \in Words /\ FormSamples \in Words
    BY SMTT(30), <2>1, <1>FormTypes DEF Bytes
  <2>4. Ch.c \in Chars /\ Ch.eight \in Chars /\ Ch.w \in Shorts /\ Ch.n \in Shorts
    BY DEF Chars, Shorts
  <2>5. ByteArg(FormCommands[1], Ch.c, form.clockDivider)
    BY <2>3, <2>4, IsByteArg, <1>FormsAre
  <2>6. ByteArg(FormCommands[2], Ch.eight, IF form.bits12 THEN 1 ELSE 0)
    BY <2>3, <2>4, IsByteArg, <1>FormsAre
  <2>7. WordArg(FormCommands[3], Ch.w, form.delay)
    BY <2>3, <2>4, IsWordArg, <1>FormsAre
  <2>8. WordArg(FormCommands[4], Ch.n, FormSamples)
    BY <2>3, <2>4, IsWordArg, <1>FormsAre
  <2> QED
    BY <2>1, <2>5, <2>6, <2>7, <2>8, <1>FourOf DEF ByteArg, WordArg, Command
<1>BaseProgram. Base /\ ProgramStep => Base'
  <2>HostPartsNext. ScriptTypes' /\ PlaceTypes' /\ CountTypes' /\ AttributeTypes' /\ ReadingTypes' /\ PortTypes' => HostTypes'
      BY DEF HostTypes, ScriptTypes, PlaceTypes, CountTypes, AttributeTypes, ReadingTypes, PortTypes
  <2>ReconnectHost.
    ASSUME HostTypes, Reconnect, UNCHANGED <<form, glitchVars, script, prompt>>
    PROVE  HostTypes'
    <3> USE <2>ReconnectHost
    <3> USE DEF HostTypes, Reconnect, Close, Open, TestRead, TestEnd, Set, CheckResponse, glitchVars
    <3>0. Len(Settings) = 6
      BY SettingsCount
    <3>1. ScriptTypes'
      BY DEF ScriptTypes
    <3>2. PlaceTypes'
      BY DEF PlaceTypes, Reconnecting, Attempting, Filling, Shooting
    <3>3. CountTypes'
      <4>1. CASE CheckResponse
        <5> HIDE DEF CheckResponse
        <5>1. hpc = "ack" /\ hpc' \in {"dead", "setup", "idle"} /\ k \in 1 .. 6 /\ (hpc' = "setup" => k # 6)
              /\ (hpc' = "idle" => k = 6) /\ k' = IF k = 6 THEN 1 ELSE k + 1
          BY <3>0, <4>1 DEF CheckResponse
        <5> QED
          BY SMTT(30), <5>1 DEF CountTypes
      <4>2. CASE ~CheckResponse
        <5> HIDE DEF CheckResponse
        <5> QED
          BY SMTT(30), <4>2 DEF CountTypes
      <4> QED
        BY <4>1, <4>2
    <3>4. AttributeTypes'
      BY DEF AttributeTypes
    <3>5. ReadingTypes'
      BY DEF ReadingTypes
    <3>6. PortTypes'
      BY DEF PortTypes
    <3> QED
      BY <3>1, <3>2, <3>3, <3>4, <3>5, <3>6, <2>HostPartsNext
  <2>AttemptHost.
    ASSUME HostTypes, script \in {"acq", "gui"}, Attempt, UNCHANGED <<form, glitchVars, script, prompt>>
    PROVE  HostTypes'
    <3> USE <2>AttemptHost
    <3> USE DEF Attempt, Arm, Armed, Drain, Target, WaitForCompletion, GetSamples, ReadSample, SamplesRead, Raised,
                glitchVars
    <3>0. hpc \in {"set", "idle", "arm", "drain", "target", "complete", "get", "samples"} /\ (hpc = "idle" => script = "acq")
      OBVIOUS
    <3>1. ScriptTypes'
      BY DEF HostTypes, ScriptTypes
    <3>2. PlaceTypes'
      BY DEF HostTypes, PlaceTypes, Reconnecting, Attempting, Filling, Shooting
    <3>3. CountTypes'
      <4>1. hpc' \notin {"setup", "ack", "form", "formAck", "shot", "shotAck"} /\ k' = k
        OBVIOUS
      <4>2. k = 1
        BY <3>0 DEF HostTypes
      <4> QED
        BY <4>1, <4>2 DEF CountTypes
    <3>4. AttributeTypes'
      BY DEF HostTypes, AttributeTypes
    <3>5. ReadingTypes'
      BY SMTT(30) DEF HostTypes, ReadingTypes
    <3>6. PortTypes'
      BY <3>0 DEF HostTypes, PortTypes
    <3> QED
      BY <3>1, <3>2, <3>3, <3>4, <3>5, <3>6, <2>HostPartsNext
  <2>WindowHost.
    ASSUME HostTypes, script = "gui", Window, UNCHANGED <<glitchVars, script, prompt>>
    PROVE  HostTypes'
    <3> USE <2>WindowHost
    <3>1. CASE Attempt /\ UNCHANGED form
      BY <3>1, <2>AttemptHost
    <3>2. CASE OnGet \/ FormSet \/ FormAck
      <4>0. Len(FormCommands) = 4
        BY <1>FormsAre
      <4> USE DEF OnGet, FormSet, FormAck, glitchVars
      <4>1. ScriptTypes'
        BY <3>2 DEF HostTypes, ScriptTypes
      <4>2. PlaceTypes'
        BY <3>2 DEF HostTypes, PlaceTypes, Reconnecting, Attempting, Filling, Shooting
      <4>3. CountTypes'
        BY SMTT(30), <3>2, <4>0 DEF HostTypes, CountTypes
      <4>4. AttributeTypes'
        <5>1. self' \in Selfs
          BY <3>2, <1>StoredTypes DEF HostTypes
        <5> QED
          BY <3>2, <5>1 DEF HostTypes, AttributeTypes
      <4>5. ReadingTypes'
        BY <3>2 DEF HostTypes, ReadingTypes
      <4>6. PortTypes'
        BY <3>2 DEF HostTypes, PortTypes
      <4> QED
        BY <4>1, <4>2, <4>3, <4>4, <4>5, <4>6, <2>HostPartsNext
    <3> QED
      BY <3>1, <3>2 DEF Window
  <2>GlitchHost.
    ASSUME HostTypes, script = "fi", Glitching, UNCHANGED <<form, script, prompt>>
    PROVE  HostTypes'
    <3> USE <2>GlitchHost
    <3>0. Len(ShotCommands) = 3
      BY <1>ShotCount
    <3> USE DEF Start, PowerOff, PoweredOff, PowerOn, PoweredOn, Switch, Check, TestTarget, Raise, Flush, Choose,
                SetShot, ShotSet, GlitchArm, GlitchArmed, WaitForGlitcher, Classify
    <3>1. ScriptTypes'
      BY DEF HostTypes, ScriptTypes
    <3>2. PlaceTypes'
      <4>1. hpc' \in Shooting \cup {"gone"}
        BY DEF Glitching, Shooting
      <4> QED
        BY <4>1 DEF PlaceTypes, Shooting, Reconnecting, Attempting, Filling
    <3>3. CountTypes'
      <4>1. CASE SetShot \/ ShotSet
        BY SMTT(30), <3>0, <4>1 DEF HostTypes, CountTypes
      <4>2. CASE ~(SetShot \/ ShotSet)
        <5> HIDE DEF SetShot, ShotSet
        <5>1. k' = k /\ hpc \notin {"shot", "shotAck"} /\ hpc' \notin {"setup", "ack", "form", "formAck", "shotAck"}
          BY <4>2 DEF Glitching
        <5>2. hpc \in Shooting \cup {"idle"}
          BY <4>2 DEF Glitching, Shooting
        <5>3. k = 1
          BY <5>1, <5>2 DEF HostTypes, Shooting
        <5> QED
          BY SMTT(30), <5>1, <5>3 DEF CountTypes
      <4> QED
        BY <4>1, <4>2
    <3>4. AttributeTypes'
      <4>1. self' \in Selfs
        <5>1. \A w \in Words : [self EXCEPT !.delay = w] \in Selfs
          BY DEF HostTypes, Selfs
        <5>2. want.delay \in Words
          BY DEF HostTypes, ShotTypes
        <5> QED
          BY <5>1, <5>2 DEF Glitching, HostTypes
      <4>2. want' \in ShotTypes
        BY SMTT(30), ShotsAssumption DEF Glitching, HostTypes, ShotTypes
      <4>3. hpc' \notin {"form", "formAck"}
        BY DEF Glitching
      <4> QED
        BY <4>1, <4>2, <4>3 DEF AttributeTypes
    <3>5. ReadingTypes'
      <4>1. hpc # "test" /\ val' = val
        BY DEF Glitching
      <4>2. fetched' \in Nat /\ (hpc' \notin {"samples", "flush"} => fetched' = 0)
        <5>1. CASE Flush
          BY SMTT(30), <5>1 DEF HostTypes
        <5>2. CASE ~Flush
          <6> HIDE DEF Flush
          <6>1. fetched' = fetched /\ hpc \notin {"samples", "flush"}
            BY <5>2 DEF Glitching
          <6> QED
            BY <6>1 DEF HostTypes
        <5> QED
          BY <5>1, <5>2
      <4> QED
        BY <4>1, <4>2 DEF HostTypes, ReadingTypes
    <3>6. PortTypes'
      <4>1. dtr' = dtr /\ hpc \notin {"open", "dead", "gone"} /\ hpc' # "open"
        BY DEF Glitching
      <4>2. guarded' \in BOOLEAN
        BY DEF Glitching, HostTypes
      <4> QED
        BY SMTT(30), <4>1, <4>2 DEF HostTypes, PortTypes
    <3> QED
      BY <3>1, <3>2, <3>3, <3>4, <3>5, <3>6, <2>HostPartsNext
  <2>WriteBytes. ASSUME DeviceTypes, NEW b \in Seq(Bytes), Write(b) PROVE in' \in Seq(Bytes)
      BY <2>WriteBytes, LineIs, SeqConcat DEF Write
  <2>ReadBytes. ASSUME DeviceTypes, NEW as, Read1(as) PROVE out' \in Seq(Sent)
      BY <2>ReadBytes, LineIs, SeqHeadTail DEF Read1
  <2>ReconnectLine. ASSUME Base, Reconnect PROVE DeviceTypes'
    <3> USE <2>ReconnectLine
    <3>0. DeviceTypes /\ in \in Seq(Bytes) /\ out \in Seq(Sent)
      BY LineIs DEF Base
    <3>1. UNCHANGED devVars
      BY DEF Reconnect, Close, Open, TestRead, TestEnd, Set, CheckResponse
    <3>2. in' \in Seq(Bytes)
      <4>1. CASE Open
        BY <3>0, <4>1, <1>CommandBytes, <2>WriteBytes DEF Open
      <4>2. CASE Set
        <5>1. PICK b \in Seq(Bytes) : b = Settings[k] /\ Write(b)
          BY <4>2, <1>CommandBytes DEF Set
        <5> QED
          BY <3>0, <5>1, <2>WriteBytes
      <4> QED
        BY <3>0, <4>1, <4>2 DEF Reconnect, Close, TestRead, TestEnd, CheckResponse, lineVars
    <3>3. out' \in Seq(Sent)
      <4>1. CASE Close
        <5>1. PICK lost \in 0 .. Len(out) : out' = SubSeq(out, lost + 1, Len(out))
          BY <4>1 DEF Close
        <5>2. Len(out) \in Nat
          BY <3>0, SeqLen
        <5> QED
          BY SMTT(30), <3>0, <5>1, <5>2
      <4>2. ASSUME NEW as, Read1(as) PROVE out' \in Seq(Sent)
        BY <3>0, <4>2, <2>ReadBytes
      <4> QED
        BY <3>0, <4>1, <4>2 DEF Reconnect, Open, TestRead, TestEnd, Set, CheckResponse, lineVars
    <3> QED
      BY <3>0, <3>1, <3>2, <3>3, LineTypes
  <2>AttemptLine. ASSUME Base, Attempt PROVE DeviceTypes'
    <3> USE <2>AttemptLine
    <3>0. DeviceTypes /\ in \in Seq(Bytes) /\ out \in Seq(Sent)
      BY LineIs DEF Base
    <3> USE DEF Attempt, Arm, Armed, Drain, Target, WaitForCompletion, GetSamples, ReadSample, SamplesRead, lineVars
    <3>1. UNCHANGED devVars
      OBVIOUS
    <3>2. in' \in Seq(Bytes)
      <4>1. CASE Write(<<Ch.d>>) \/ Write(<<Ch.s>>)
        BY <3>0, <4>1, <1>CommandBytes, <2>WriteBytes
      <4> QED
        BY <3>0, <4>1
    <3>3. out' \in Seq(Sent)
      <4>1. ASSUME NEW as, Read1(as) PROVE out' \in Seq(Sent)
        BY <3>0, <4>1, <2>ReadBytes
      <4> QED
        BY <3>0, <4>1
    <3> QED
      BY <3>0, <3>1, <3>2, <3>3, LineTypes
  <2>WindowLine. ASSUME Base, Window PROVE DeviceTypes'
    <3> USE <2>WindowLine
    <3>0. DeviceTypes /\ in \in Seq(Bytes) /\ out \in Seq(Sent)
      BY LineIs DEF Base
    <3>1. CASE OnGet \/ FormAck
      <4>1. UNCHANGED <<devVars, in>>
        BY <3>1 DEF OnGet, FormAck, lineVars
      <4>2. out' \in Seq(Sent)
        BY <3>0, <3>1, <2>ReadBytes DEF OnGet, FormAck, lineVars
      <4> QED
        BY <3>0, <4>1, <4>2, LineTypes
    <3>2. CASE FormSet
      <4>1. PICK b \in Seq(Bytes) : b = FormCommands[k] /\ Write(b)
        BY <3>2, <1>FormBytes DEF FormSet
      <4>2. UNCHANGED <<devVars, out>> /\ in' \in Seq(Bytes)
        BY <3>0, <3>2, <4>1, <2>WriteBytes DEF FormSet
      <4> QED
        BY <3>0, <4>2, LineTypes
    <3> QED
      BY <3>1, <3>2, <2>AttemptLine DEF Window
  <2>GlitchLine. ASSUME Base, Glitching PROVE DeviceTypes'
    <3> USE <2>GlitchLine
    <3>0. DeviceTypes /\ in \in Seq(Bytes) /\ out \in Seq(Sent)
      BY LineIs DEF Base
    <3> USE DEF Glitching, Start, PowerOff, PoweredOff, PowerOn, PoweredOn, Switch, Check, TestTarget, Raise, Flush,
                Choose, SetShot, ShotSet, GlitchArm, GlitchArmed, WaitForGlitcher, Classify, lineVars
    <3>1. UNCHANGED devVars
      OBVIOUS
    <3>2. in' \in Seq(Bytes)
      <4>1. CASE SetShot
        <5>1. PICK b \in Seq(Bytes) : b = ShotCommands[k] /\ Write(b)
          BY <4>1, <1>CommandBytes
        <5> QED
          BY <3>0, <5>1, <2>WriteBytes
      <4>2. CASE Write(<<Ch.x>>) \/ Write(<<Ch.y>>) \/ Write(<<Ch.t>>) \/ Write(<<Ch.h>>)
        BY <3>0, <4>2, <1>CommandBytes, <2>WriteBytes
      <4> QED
        BY <3>0, <4>1, <4>2
    <3>3. out' \in Seq(Sent)
      <4>1. ASSUME NEW as, Read1(as) PROVE out' \in Seq(Sent)
        BY <3>0, <4>1, <2>ReadBytes
      <4> QED
        BY <3>0, <4>1
    <3> QED
      BY <3>0, <3>1, <3>2, <3>3, LineTypes
  <2> SUFFICES ASSUME Base, ProgramStep
               PROVE  Base'
    BY SMTT(30)
  <2>1. CASE Constructed
    <3>1. DeviceTypes'
      <4>1. UNCHANGED devVars /\ UNCHANGED <<in, out>>
        BY <2>1 DEF Constructed, vars, devVars, lineVars, twVars, acqVars, mainVars, setVars
      <4> QED
        BY <4>1, SameTypes DEF Base
    <3>2. HostTypes'
      BY <2>1 DEF Base, HostTypes, Constructed, vars, glitchVars, Reconnecting, Attempting, Filling,
         Shooting
    <3> QED
      BY <3>1, <3>2 DEF Base
  <2>2. CASE Program /\ UNCHANGED <<script, prompt>>
    BY <2>2, <2>ReconnectHost, <2>AttemptHost, <2>WindowHost, <2>GlitchHost, <2>ReconnectLine,
       <2>AttemptLine, <2>WindowLine, <2>GlitchLine
    DEF Base, Program
  <2> QED
    BY <2>1, <2>2 DEF ProgramStep
<1>LostRests.
  ASSUME Lost, Rests3, UNCHANGED <<script, self>>, hpc' # "test"
  PROVE  Lost'
  <2> USE <1>LostRests
  <2>0. UNCHANGED <<pc, cmd, args, conf, sent, in, out>>
    BY <1>RestsIs
  <2>1. (Room(0))' = Room(0) /\ (Between)' = Between
    BY <2>0 DEF Room, Between
  <2>2. \A c : AllOf(c)' = AllOf(c) /\ Asked(c)' = Asked(c)
    BY <2>0 DEF AllOf, Asked
  <2>3. CASE Answering
    BY <2>0, <2>1, <2>2, <2>3 DEF Answering, Lost
  <2>4. CASE Swallowing
    BY <2>0, <2>2, <2>4 DEF Swallowing, Lost
  <2>5. CASE script = "acq" /\ Acquiring
    BY <2>0, <2>1, <2>2, <2>5 DEF Acquiring, Lost
  <2>6. CASE script = "acq" /\ Sampling
    BY <2>0, <2>1, <2>2, <2>6 DEF Sampling, Lost
  <2> QED
    BY <2>3, <2>4, <2>5, <2>6 DEF Lost
<1>AgreedSame. ASSUME Agreed, UNCHANGED <<conf, adc, self>> PROVE Agreed'
    BY <1>AgreedSame DEF Agreed, HoldBelow, Holds
<1>Closes. ASSUME hpc' = "close", Lost' PROVE Both'
    BY <1>Closes DEF Both, Reconnection, Acquisition, Attempting
<1>Leaves. ASSUME hpc' \in {"gone", "dead"} PROVE Both'
    BY <1>Leaves DEF Both, Reconnection, Acquisition, Attempting
<1>AttemptPlays. Base /\ Both /\ Attempt /\ UNCHANGED script => Both'
  <2>WorkOne.
    ASSUME DeviceTypes, NEW c \in {Ch.d, Ch.h, Ch.s}, Work(<<c>>)
    PROVE  (Between /\ in = <<c>>) \/ (pc = "exec" /\ cmd = c /\ in = <<>>)
    <3> USE <2>WorkOne
    <3>0. c \in Bytes /\ NArgs(c) = 0
      <4>1. NArgs(c) = 0
        BY Distinct DEF NArgs
      <4> QED
        BY <4>1, WaitCommand
    <3>1. CASE pc \in {"args", "exec"} /\ <<cmd>> \o args \o in = <<c>>
      <4>1. PICK one, b : one = <<cmd>> /\ b = <<c>>
        OBVIOUS
      <4>2. one \in Seq(Bytes) /\ args \in Seq(Bytes) /\ in \in Seq(Bytes) /\ b \in Seq(Bytes) /\ Len(one) = 1 /\ Len(b) = 1
        BY SMTT(30), <3>0, <4>1 DEF DeviceTypes, IInv, Parsing
      <4>3. one \o args \o in = b /\ one[1] = cmd /\ b[1] = c
        BY <3>1, <4>1
      <4>4. PICK u \in Seq(Bytes) : u = one \o args
        BY <4>2, SeqConcat
      <4>5. Len(u) = 1 + Len(args) /\ u[1] = cmd
        <5>1. 1 \in 1 .. Len(one) + Len(args) /\ 1 <= Len(one)
          BY SMTT(30), <4>2, SeqLen
        <5> QED
          BY <4>2, <4>3, <4>4, <5>1, SeqConcat
      <4>6. Len(b) = Len(u) + Len(in) /\ b[1] = u[1]
        <5>1. 1 \in 1 .. Len(u) + Len(in) /\ 1 <= Len(u)
          BY SMTT(30), <4>2, <4>5, SeqLen
        <5> QED
          BY <4>2, <4>3, <4>4, <5>1, SeqConcat
      <4>7. Len(args) = 0 /\ Len(in) = 0 /\ cmd = c
        <5>1. \A x, y, z \in Nat : x = 1 + y /\ 1 = x + z => y = 0 /\ z = 0
          BY SMTT(30)
        <5>2. Len(u) \in Nat /\ Len(args) \in Nat /\ Len(in) \in Nat
          BY <4>2, <4>4, SeqLen
        <5> QED
          BY <4>2, <4>3, <4>5, <4>6, <5>1, <5>2
      <4>8. in = <<>>
        BY <4>2, <4>7, SeqEmpty
      <4>9. pc # "args"
        BY SMTT(30), <3>0, <4>7 DEF DeviceTypes, IInv, Parsing
      <4> QED
        BY <3>1, <4>7, <4>8, <4>9
    <3> QED
      BY <3>1 DEF Work, Between
  \* Whatever an attempt leaves behind, the device may be lost with it.
  <2>LostIdle.
    ASSUME DeviceTypes, self \in Selfs, hpc # "test", Work(<<>>), out \in Seq({"r", "d", "e"})
    PROVE  Answering
    <3> USE <2>LostIdle
    <3>1. Between /\ in = <<>> /\ Len(out) \in Nat
      BY WorkNone, SeqLen
    <3>2. AllOf(Ch.t)
      BY SMTT(30), <3>1 DEF AllOf
    <3>3. \A i \in 1 .. Len(out) : out[i] \in {"r", "d", "e"}
      BY SeqElement
    <3>4. 0 \in 0 .. Len(out) /\ 0 <= Room(0)
      BY SMTT(30), <3>1, RoomIsNat
    <3>5. \A i \in 0 + 1 .. Len(out) : out[i] \notin Samples
      BY SMTT(30), <3>3 DEF Samples
    <3>6. \A i, j \in 1 .. Len(out) : i < j /\ out[i] = "T" => out[j] = "T"
      BY <3>3
    <3>7. \E a \in 0 .. Len(out) :
               /\ a <= Room(0)
               /\ \A i \in 1 .. a : out[i] \in Samples
               /\ \A i \in a + 1 .. Len(out) : out[i] \notin Samples /\ (a > 0 => out[i] = "T")
               /\ a > 0 /\ hpc = "test" /\ val = "nothing" =>
                      in # <<>> \/ pc = "exec" \/ a < Len(out)
      <4> USE <3>4
      <4> WITNESS 0 \in 0 .. Len(out)
      <4> QED
        BY SMTT(30), <3>4, <3>5
    <3> QED
      BY <3>1, <3>2, <3>6, <3>7 DEF Answering
  <2>LostWaits.
    ASSUME Base, script = "acq", hpc # "test", Waits(Ch.d, <<>>) \/ Answers(Ch.d) \/ Idle
    PROVE  Lost
    <3> USE <2>LostWaits
    <3>0. DeviceTypes /\ self \in Selfs
      BY DEF Base, HostTypes
    <3>1. in = <<>> => AllOf(Ch.t)
      BY SMTT(30) DEF AllOf
    <3>2. ASSUME NEW o \in Seq({"r", "d", "e"}), After(o, <<>>) PROVE Lost
      BY <3>0, <3>2, <2>LostIdle DEF Lost, After
    <3>3. CASE After(<<>>, <<Ch.d>>)
      <4>1. (Between /\ in = <<Ch.d>>) \/ (pc = "exec" /\ cmd = Ch.d /\ in = <<>>)
        BY <3>0, <3>3, <2>WorkOne DEF After
      <4>2. in = <<Ch.d>> => Asked(Ch.d)
        BY SMTT(30) DEF Asked
      <4> QED
        BY <3>1, <3>3, <4>1, <4>2 DEF Lost, Acquiring, After
    <3>4. CASE pc = "ready" /\ cmd = Ch.d /\ out = <<>> /\ in = <<>>
      BY <3>1, <3>4 DEF Lost, Acquiring
    <3>5. ASSUME NEW o, o \in {<<>>, <<"r">>}, InCommand(Ch.d, o, <<>>) PROVE Lost
      <4>1. pc # "glitch"
        BY SMTT(30), <3>0, <3>5 DEF InCommand, DeviceTypes, Sending, Ch
      <4> QED
        BY <3>1, <3>5, <4>1 DEF Lost, Acquiring, InCommand
    <3>6. Append(<<>>, "r") = <<"r">>
      BY Singles
    <3>7. \A a \in {"d", "e"} : Append(Append(<<>>, "r"), a) \in Seq({"r", "d", "e"}) /\ <<a>> \in Seq({"r", "d", "e"})
      <4>1. <<>> \in Seq({"r", "d", "e"})
        BY SMTT(30)
      <4> QED
        BY SMTT(30), <4>1, SeqAppend
    <3>8. <<>> \in Seq({"r", "d", "e"})
      BY SMTT(30)
    <3>9. CASE Waits(Ch.d, <<>>)
      BY <3>2, <3>3, <3>4, <3>5, <3>6, <3>7, <3>9 DEF Waits
    <3>10. CASE Answers(Ch.d)
      BY <3>2, <3>5, <3>7, <3>10 DEF Answers
    <3>11. CASE Idle
      BY <3>2, <3>8, <3>11 DEF Idle
    <3> QED
      BY <3>9, <3>10, <3>11
  <2>LostSamples.
    ASSUME Base, script = "acq", hpc # "test", SamplesComing, conf.numberOfSamples = self.numSamples
    PROVE  Lost
    <3> USE <2>LostSamples
    <3>0. /\ DeviceTypes /\ self \in Selfs /\ Len(out) \in Nat /\ fetched \in Nat /\ sent \in Nat
          /\ Room(0) = self.numSamples /\ Room(0) \in Nat
      BY LineIs, RoomIsNat DEF Base, HostTypes
    <3>1. in = <<>> => AllOf(Ch.t)
      BY SMTT(30) DEF AllOf
    <3>2. CASE After(<<>>, <<Ch.s>>)
      <4>1. (Between /\ in = <<Ch.s>>) \/ (pc = "exec" /\ cmd = Ch.s /\ in = <<>>)
        BY <3>0, <3>2, <2>WorkOne DEF After
      <4>2. in = <<Ch.s>> => Asked(Ch.s)
        BY SMTT(30) DEF Asked
      <4> QED
        BY <3>1, <3>2, <4>1, <4>2 DEF Lost, Sampling, After
    <3>3. CASE pc = "fetch" /\ in = <<>> /\ (\A i \in 1 .. Len(out) : out[i] \in Samples) /\ fetched + Len(out) = sent
      <4>1. Len(out) <= sent
        BY SMTT(30), <3>0, <3>3
      <4> QED
        BY <3>1, <3>3, <4>1 DEF Lost, Sampling
    <3>4. CASE /\ pc = "cmd" /\ in = <<>> /\ fetched + Len(out) = self.numSamples
               /\ \A i \in 1 .. Len(out) : out[i] \in Samples
      <4>1. Len(out) <= Room(0) /\ Len(out) \in 0 .. Len(out) /\ Len(out) + 1 .. Len(out) = {}
        BY SMTT(30), <3>0, <3>4
      <4>2. \A i, j \in 1 .. Len(out) : i < j /\ out[i] = "T" => out[j] = "T"
        BY <3>4 DEF Samples
      <4>3. \E a \in 0 .. Len(out) :
               /\ a <= Room(0)
               /\ \A i \in 1 .. a : out[i] \in Samples
               /\ \A i \in a + 1 .. Len(out) : out[i] \notin Samples /\ (a > 0 => out[i] = "T")
               /\ a > 0 /\ hpc = "test" /\ val = "nothing" =>
                      in # <<>> \/ pc = "exec" \/ a < Len(out)
        <5> USE <4>1
        <5> WITNESS Len(out) \in 0 .. Len(out)
        <5> QED
          BY <3>4, <4>1
      <4>4. Answering
        BY <3>1, <3>4, <4>2, <4>3 DEF Answering, Between
      <4> QED
        BY <4>4 DEF Lost
    <3> QED
      BY <3>2, <3>3, <3>4 DEF SamplesComing
  <2>Raises.
    ASSUME Base, Rests3, UNCHANGED <<script, self>>, hpc' = Raised, hpc # "test", script \in {"acq", "gui"},
           \/ Waits(Ch.d, <<>>) \/ Answers(Ch.d) \/ Idle
           \/ SamplesComing /\ conf.numberOfSamples = self.numSamples
    PROVE  Both'
    <3> USE <2>Raises
    <3>1. CASE script = "gui"
      BY <3>1, <1>Leaves DEF Raised
    <3>2. CASE script = "acq"
      <4>1. Lost
        BY <3>2, <2>LostWaits, <2>LostSamples
      <4>2. hpc' = "close"
        BY <3>2 DEF Raised
      <4> QED
        BY <4>1, <4>2, <1>LostRests, <1>Closes
    <3> QED
      BY <3>1, <3>2
  <2>Held. ASSUME Agreed PROVE conf.numberOfSamples = self.numSamples
    <3> USE <2>Held
    <3>1. 1 \in 1 .. 6 /\ 1 < 7
      BY SMTT(30)
    <3>2. Holds(1)
      BY <3>1 DEF Agreed, HoldBelow
    <3> QED
      BY <3>2 DEF Holds
  <2>ArmPlays. ASSUME Base, Both, Arm PROVE Both'
    <3> USE <2>ArmPlays
    <3>1. Idle /\ Agreed /\ hpc' = "arm" /\ UNCHANGED self /\ UNCHANGED devVars
      BY DEF Arm, Both, Acquisition
    <3>2. Agreed'
      BY <3>1, <1>DevKept, <1>AgreedSame
    <3>3. After(<<>>, <<Ch.d>>)'
      <4>1. Writes(<<Ch.d>>) /\ <<Ch.d>> \in Seq(Bytes)
        BY <1>WritesIs, <1>CommandBytes DEF Arm
      <4> QED
        BY <3>1, <4>1, <1>WriteIdle DEF Idle, Base
    <3>4. Waits(Ch.d, <<>>)'
      BY <3>3 DEF Waits
    <3> QED
      BY <3>1, <3>2, <3>4 DEF Both, Reconnection, Acquisition
  <2>ArmedPlays. ASSUME Base, Both, Armed PROVE Both'
    <3> USE <2>ArmedPlays
    <3>1. Waits(Ch.d, <<>>) /\ Agreed /\ UNCHANGED self /\ UNCHANGED <<devVars, in>>
      BY DEF Armed, Both, Acquisition, Attempting
    <3>2. Agreed'
      BY <3>1, <1>DevKept, <1>AgreedSame
    <3>3. ASSUME NEW as \in Replies, Read1(as),
                 hpc' = IF as # "r" THEN "drain" ELSE IF script = "gui" THEN "complete" ELSE "target"
          PROVE  Both'
      <4>1. as = "r" /\ Answers(Ch.d)'
        BY <3>1, <3>3, <1>ReadsIs, <1>ReadReady
      <4>2. hpc' \in {"complete", "target"}
        BY <3>3, <4>1
      <4> QED
        BY <3>2, <4>1, <4>2 DEF Both, Reconnection, Acquisition
    <3>4. CASE hpc' = "drain" /\ UNCHANGED out
      <4>1. Rests3
        BY <3>1, <3>4 DEF Rests3
      <4>2. Waits(Ch.d, <<>>)'
        BY <3>1, <4>1, <1>RestsIs DEF Waits, After, Work, InCommand
      <4> QED
        BY <3>2, <3>4, <4>2 DEF Both, Reconnection, Acquisition
    <3> QED
      BY <3>3, <3>4 DEF Armed
  <2>DrainPlays.
    ASSUME Base, Both, Drain, UNCHANGED script
    PROVE  Both'
    <3> USE <2>DrainPlays
    <3>1. /\ Waits(Ch.d, <<>>) \/ Answers(Ch.d) \/ Idle
          /\ Agreed /\ UNCHANGED self /\ UNCHANGED <<devVars, in>> /\ hpc = "drain"
      BY DEF Drain, Both, Acquisition, Attempting
    <3>2. Agreed'
      BY <3>1, <1>DevKept, <1>AgreedSame
    <3>3. ASSUME NEW as \in Replies, Read1(as), UNCHANGED hpc PROVE Both'
      <4>1. Reads(as)
        BY <3>1, <3>3, <1>ReadsIs
      <4>2. Answers(Ch.d)' \/ Idle'
        BY <3>1, <4>1, <1>ReadReady, <1>ReadAnswer, <1>ReadFirst DEF Idle
      <4> QED
        BY <3>1, <3>2, <3>3, <4>2 DEF Both, Reconnection, Acquisition
    <3>4. CASE hpc' = Raised /\ UNCHANGED out
      <4>1. Rests3 /\ script \in {"acq", "gui"}
        BY <3>1, <3>4 DEF Rests3, Base, HostTypes, Attempting
      <4> QED
        BY <3>1, <3>4, <4>1, <2>Raises
    <3> QED
      BY <3>3, <3>4 DEF Drain
  <2>TargetPlays.
    ASSUME Base, Both, Target, UNCHANGED script
    PROVE  Both'
    <3> USE <2>TargetPlays
    <3>1. Answers(Ch.d) /\ Agreed /\ UNCHANGED self /\ Rests3 /\ hpc = "target" /\ script = "acq"
      BY DEF Target, Both, Acquisition, Attempting, Rests3, lineVars, Base, HostTypes
    <3>2. CASE hpc' = "complete"
      <4>1. Agreed' /\ Answers(Ch.d)'
        BY <3>1, <1>RestsIs, <1>AgreedSame, <1>RestAnswers
      <4> QED
        BY <3>2, <4>1 DEF Both, Reconnection, Acquisition
    <3>3. CASE hpc' = "close"
      BY <3>1, <3>3, <2>Raises DEF Raised
    <3> QED
      BY <3>2, <3>3 DEF Target
  <2>CompletionPlays.
    ASSUME Base, Both, WaitForCompletion, UNCHANGED script
    PROVE  Both'
    <3> USE <2>CompletionPlays
    <3>1. Answers(Ch.d) /\ Agreed /\ UNCHANGED self /\ UNCHANGED <<devVars, in>> /\ hpc = "complete"
      BY DEF WaitForCompletion, Both, Acquisition, Attempting
    <3>2. Agreed'
      BY <3>1, <1>DevKept, <1>AgreedSame
    <3>3. ASSUME NEW as \in Replies, Read1(as),
                 hpc' = CASE as = "d" -> "get"
                          [] as = "e" -> IF script = "gui" THEN "get" ELSE "idle"
                          [] OTHER -> Raised
          PROVE  Both'
      <4>1. Reads(as)
        BY <3>1, <3>3, <1>ReadsIs
      <4>2. as \in {"d", "e"} /\ Idle'
        BY <3>1, <4>1, <1>ReadAnswer
      <4>3. hpc' \in {"get", "idle"}
        BY <3>3, <4>2
      <4> QED
        BY <3>2, <4>2, <4>3 DEF Both, Reconnection, Acquisition
    <3>4. CASE hpc' = Raised /\ UNCHANGED out
      <4>1. Rests3 /\ script \in {"acq", "gui"}
        BY <3>1, <3>4 DEF Rests3, Base, HostTypes, Attempting
      <4> QED
        BY <3>1, <3>4, <4>1, <2>Raises
    <3> QED
      BY <3>3, <3>4 DEF WaitForCompletion
  <2>GetPlays. ASSUME Base, Both, GetSamples PROVE Both'
    <3> USE <2>GetPlays
    <3>1. Idle /\ Agreed /\ hpc' = "samples" /\ fetched' = 0 /\ UNCHANGED self /\ UNCHANGED devVars
      BY DEF GetSamples, Both, Acquisition, Attempting
    <3>2. Agreed'
      BY <3>1, <1>DevKept, <1>AgreedSame
    <3>3. After(<<>>, <<Ch.s>>)'
      <4>1. Writes(<<Ch.s>>) /\ <<Ch.s>> \in Seq(Bytes)
        BY <1>WritesIs, <1>CommandBytes DEF GetSamples
      <4> QED
        BY <3>1, <4>1, <1>WriteIdle DEF Idle, Base
    <3>4. SamplesComing'
      BY <3>1, <3>3 DEF SamplesComing
    <3> QED
      BY <3>1, <3>2, <3>4 DEF Both, Reconnection, Acquisition
  <2>ReadSamplePlays. ASSUME Base, Both, ReadSample PROVE Both'
    <3> USE <2>ReadSamplePlays
    <3>1. /\ SamplesComing /\ Agreed /\ UNCHANGED <<self, hpc>> /\ UNCHANGED <<devVars, in>> /\ hpc = "samples"
          /\ out # <<>> /\ out' = Tail(out) /\ fetched' = fetched + 1
      BY DEF ReadSample, Read1, Both, Acquisition, Attempting
    <3>2. Agreed' /\ UNCHANGED <<pc, sent>>
      BY <3>1, <1>DevKept, <1>AgreedSame
    <3>3. out \in Seq(Sent) /\ Len(out) \in Nat /\ fetched \in Nat
      BY LineIs DEF Base, HostTypes
    <3>4. Len(out') = Len(out) - 1 /\ \A i \in 1 .. Len(out') : i + 1 \in 1 .. Len(out) /\ out'[i] = out[i + 1]
      BY SMTT(30), <3>1, <3>3
    <3>5. fetched' + Len(out') = fetched + Len(out)
      BY SMTT(30), <3>1, <3>3, <3>4
    <3>6. /\ pc = "fetch" \/ (pc = "cmd" /\ fetched + Len(out) = self.numSamples)
          /\ in = <<>> /\ (\A i \in 1 .. Len(out) : out[i] \in Samples)
          /\ pc = "fetch" => fetched + Len(out) = sent
      BY <3>1 DEF SamplesComing, After
    <3>7. \A i \in 1 .. Len(out') : out'[i] \in Samples
      BY <3>4, <3>6
    <3>8. SamplesComing'
      BY <3>1, <3>2, <3>5, <3>6, <3>7 DEF SamplesComing
    <3> QED
      BY <3>1, <3>2, <3>8 DEF Both, Reconnection, Acquisition
  <2>SamplesReadPlays.
    ASSUME Base, Both, SamplesRead, UNCHANGED script
    PROVE  Both'
    <3> USE <2>SamplesReadPlays
    <3>1. SamplesComing /\ Agreed /\ UNCHANGED self /\ Rests3 /\ hpc = "samples" /\ script \in {"acq", "gui"}
      BY DEF SamplesRead, Both, Acquisition, Attempting, Rests3, lineVars, Base, HostTypes
    <3>2. conf.numberOfSamples = self.numSamples
      BY <3>1, <2>Held
    <3>3. CASE hpc' = Raised
      BY <3>1, <3>2, <3>3, <2>Raises
    <3>4. CASE hpc' = "idle" /\ fetched = self.numSamples
      <4>1. /\ Len(out) \in Nat /\ out \in Seq(Sent) /\ fetched \in Nat /\ fetched # 0 /\ sent \in Nat
            /\ pc = "fetch" => sent <= fetched
        BY <3>2, <3>4, LineIs DEF Base, DeviceTypes, Sending, HostTypes, Selfs
      <4>2. /\ pc = "fetch" \/ (pc = "cmd" /\ fetched + Len(out) = self.numSamples)
            /\ in = <<>> /\ (pc = "fetch" => fetched + Len(out) = sent)
        BY <3>1, <4>1 DEF SamplesComing
      <4>3. Len(out) = 0 /\ (pc = "fetch" => sent = conf.numberOfSamples)
        BY SMTT(30), <3>2, <3>4, <4>1, <4>2
      <4>4. Idle
        BY <4>1, <4>2, <4>3, SeqEmpty DEF Idle, After, Work
      <4>5. Idle' /\ Agreed'
        BY <3>1, <4>4, <1>RestIdle, <1>RestsIs, <1>AgreedSame
      <4> QED
        BY <3>4, <4>5 DEF Both, Reconnection, Acquisition, Attempting
    <3> QED
      BY <3>3, <3>4 DEF SamplesRead
  <2> SUFFICES ASSUME Base, Both, Attempt, UNCHANGED script
               PROVE  Both'
    BY SMTT(30)
  <2> QED
    BY <2>ArmPlays, <2>ArmedPlays, <2>DrainPlays, <2>TargetPlays, <2>CompletionPlays, <2>GetPlays,
       <2>ReadSamplePlays, <2>SamplesReadPlays
    DEF Attempt
<1>WindowPlays. Base /\ Both /\ Window /\ UNCHANGED script => Both'
  <2>FormSetPlays. Base /\ Both /\ FormSet => Both'
    \* What a setter of the form sends is what the setter of reconnect sends for
    \* what was stored.
    <3>FormSends.
      ASSUME self' = FormStored[k], form \in Forms, self \in Selfs, k \in 1 .. 4, k' = k
      PROVE  FormCommands[k] = Settings[FormField[k]]'
      <4> USE <3>FormSends
      <4>0. self' \in Selfs /\ (FormField[k])' = FormField[k]
        BY <1>StoredTypes DEF FormField
      <4>1. /\ Settings[2]' = <<Ch.c, self'.clockDivider>>
            /\ Settings[3]' = <<Ch.eight, IF self'.bits12 THEN 1 ELSE 0>>
            /\ Settings[6]' = <<Ch.w>> \o Word(self'.delay)
            /\ Settings[1]' = <<Ch.n>> \o Word(self'.numSamples)
        BY Six DEF Settings, Word
      <4>2. CASE k = 1
        <5>1. self'.clockDivider = form.clockDivider
          BY <4>2, <1>StoredAre DEF Selfs
        <5>2. Settings[2]' = FormCommands[1]
          BY <4>1, <5>1, <1>FormsAre
        <5> QED
          BY <4>2, <5>2, <4>0, FormFieldIs
      <4>3. CASE k = 2
        <5>1. self'.bits12 = form.bits12
          BY <4>3, <1>StoredAre DEF Selfs
        <5>2. Settings[3]' = FormCommands[2]
          BY <4>1, <5>1, <1>FormsAre
        <5> QED
          BY <4>3, <5>2, <4>0, FormFieldIs
      <4>4. CASE k = 3
        <5>1. self'.delay = form.delay
          BY <4>4, <1>StoredAre DEF Selfs
        <5>2. Settings[6]' = FormCommands[3]
          BY <4>1, <5>1, <1>FormsAre
        <5> QED
          BY <4>4, <5>2, <4>0, FormFieldIs
      <4>5. CASE k = 4
        <5>1. self'.numSamples = FormSamples
          BY <4>5, <1>StoredAre DEF Selfs
        <5>2. Settings[1]' = FormCommands[4]
          BY <4>1, <5>1, <1>FormsAre
        <5> QED
          BY <4>5, <5>2, <4>0, FormFieldIs
      <4> QED
        BY <4>2, <4>3, <4>4, <4>5, <1>FourOf
    \* A setter of the form changes one attribute.
    <3>FormKeeps.
      ASSUME Agreed, UNCHANGED <<conf, adc>>, self \in Selfs, form \in Forms, k \in 1 .. 4, self' = FormStored[k],
             NEW j \in 1 .. 6, j # FormField[k]
      PROVE  Holds(j)'
      <4> USE <3>FormKeeps
      <4>0. Holds(j)
        <5>1. j < 7
          BY SMTT(30)
        <5> QED
          BY <5>1 DEF Agreed, HoldBelow
      <4>1. PICK d, b, w, n : d = form.clockDivider /\ b = form.bits12 /\ w = form.delay /\ n = FormSamples
        OBVIOUS
      <4>2. CASE k = 1
        <5>1. self' = [self EXCEPT !.clockDivider = d] /\ j # 2
          BY <4>1, <4>2, <1>StoredAre, FormFieldIs
        <5> QED
          BY <4>0, <5>1 DEF Holds, Selfs
      <4>3. CASE k = 2
        <5>1. self' = [self EXCEPT !.bits12 = b] /\ j # 3
          BY <4>1, <4>3, <1>StoredAre, FormFieldIs
        <5> QED
          BY <4>0, <5>1 DEF Holds, Selfs
      <4>4. CASE k = 3
        <5>1. self' = [self EXCEPT !.delay = w] /\ j # 6
          BY <4>1, <4>4, <1>StoredAre, FormFieldIs
        <5> QED
          BY <4>0, <5>1 DEF Holds, Selfs
      <4>5. CASE k = 4
        <5>1. self' = [self EXCEPT !.numSamples = n] /\ j # 1
          BY <4>1, <4>5, <1>StoredAre, FormFieldIs
        <5> QED
          BY <4>0, <5>1 DEF Holds, Selfs
      <4> QED
        BY <4>2, <4>3, <4>4, <4>5, <1>FourOf
    <3> SUFFICES ASSUME Base, Both, FormSet
                 PROVE  Both'
      BY SMTT(30)
    <3>1. /\ Idle /\ Agreed /\ hpc' = "formAck" /\ UNCHANGED <<conf, adc>> /\ k' = k /\ k \in 1 .. 4
          /\ form \in Forms /\ self \in Selfs /\ self' = FormStored[k] /\ DeviceTypes
      BY <1>DevKept DEF FormSet, Both, Acquisition, Base, HostTypes
    <3>2. PICK b \in Seq(Bytes) : b = FormCommands[k]
      BY <1>FormBytes
    <3>3. Writes(b)
      BY <3>2, <1>WritesIs DEF FormSet
    <3>4. After(<<>>, b)'
      BY <3>1, <3>3, <1>WriteIdle DEF Idle
    <3>5. b = Settings[FormField[k]]'
      BY <3>1, <3>2, <3>FormSends
    <3>6. After(<<>>, Settings[FormField[k]])'
      BY <3>4, <3>5
    <3>7. PICK f : f = FormField[k] /\ f = FormField[k]'
      BY <3>1 DEF FormField
    <3>8. \A j \in 1 .. 6 : j # f => Holds(j)'
      BY <3>1, <3>7, <3>FormKeeps
    <3>9. (\A j \in 1 .. 6 : j # FormField[k] => Holds(j))'
      BY <3>7, <3>8
    <3> QED
      BY <3>1, <3>6, <3>9 DEF Both, Reconnection, Acquisition, Attempting
  <2>FormAckPlays. ASSUME Base, Both, FormAck PROVE Both'
    <3> USE <2>FormAckPlays
    <3>1. hpc = "formAck" /\ UNCHANGED self /\ UNCHANGED <<devVars, in>>
      BY DEF FormAck
    <3>2. PICK w : w = Settings[FormField[k]]
      OBVIOUS
    <3>3. After(<<>>, w) \/ (After(<<"d">>, <<>>) /\ Agreed) \/ After(<<"text">>, <<>>)
      BY <3>1, <3>2 DEF Both, Acquisition
    <3>4. CASE hpc' = "gone"
      BY <3>4, <1>Leaves
    <3>5. ASSUME NEW as \in Replies, Read1(as), as = "d", hpc' \in {"set", "form"} PROVE Both'
      <4>1. Reads(as)
        BY <3>1, <3>5, <1>ReadsIs
      <4>2. ~After(<<>>, w)
        BY <4>1, <1>ReadFirst
      <4>3. ~After(<<"text">>, <<>>)
        <5>1. Front("text", <<"text">>, <<>>)
          BY <1>FrontOne DEF Named
        <5> QED
          BY <3>5, <4>1, <5>1, <1>ReadAfter
      <4>4. After(<<"d">>, <<>>) /\ Agreed
        BY <3>3, <4>2, <4>3
      <4>5. Idle'
        BY <4>1, <4>4, <1>Fixed, <1>FrontOne, <1>ReadAfter DEF Idle
      <4>6. Agreed'
        BY <3>1, <4>4, <1>DevKept, <1>AgreedSame
      <4> QED
        BY <3>5, <4>5, <4>6 DEF Both, Reconnection, Acquisition, Attempting
    <3> QED
      BY <3>4, <3>5 DEF FormAck
  <2> SUFFICES ASSUME Base, Both, Window, UNCHANGED script
               PROVE  Both'
    BY SMTT(30)
  <2>1. CASE OnGet
    <3>1. Idle /\ Agreed /\ hpc' = "form" /\ Rests3 /\ UNCHANGED self
      BY <2>1 DEF OnGet, Both, Acquisition, Rests3, lineVars
    <3>2. Idle' /\ Agreed'
      BY <3>1, <1>RestIdle, <1>RestsIs, <1>AgreedSame
    <3> QED
      BY <3>1, <3>2 DEF Both, Reconnection, Acquisition, Attempting
  <2> QED
    BY <2>1, <2>FormSetPlays, <2>FormAckPlays, <1>AttemptPlays DEF Window
\* The glitch script is never in one of the places of the others.
<1>ShootingApart.
  ASSUME HostTypes', script' = "fi", hpc' # "idle"
  PROVE  Both'
    BY <1>ShootingApart DEF HostTypes, Both, Reconnection, Acquisition, Reconnecting, Attempting, Filling
<1>GlitchingLeaves. ASSUME Glitching PROVE hpc' # "idle"
    BY <1>GlitchingLeaves DEF Glitching, Start, PowerOff, PoweredOff, PowerOn, PoweredOn, Switch,
       Check, TestTarget, Raise, Flush,
           Choose, SetShot, ShotSet, GlitchArm, GlitchArmed, WaitForGlitcher, Classify
<1>ReconnectPlays. Base /\ Sound /\ Both /\ Reconnect /\ UNCHANGED <<script, prompt>> => Both'
  \* -------- The steps of a reconnect.
  \* The replies that are lost, or read, are the first ones.
  <2>Suffix.
    ASSUME DeviceTypes, NEW n \in 0 .. Len(out), Drops(n)
    PROVE  /\ Len(out') = Len(out) - n /\ Len(out) \in Nat /\ n \in Nat /\ out' \in Seq(Sent) /\ out \in Seq(Sent)
           /\ \A i \in 1 .. Len(out') : i + n \in 1 .. Len(out) /\ out'[i] = out[i + n]
    <3> USE <2>Suffix
    <3>1. out \in Seq(Sent) /\ Len(out) \in Nat
      BY LineIs
    <3> QED
      BY SMTT(30), <3>1 DEF Drops
  <2>AnsweringSuffix.
    ASSUME DeviceTypes, self \in Selfs, UNCHANGED devVars, UNCHANGED <<in, script, self>>, Answering,
           NEW n \in 0 .. Len(out), Drops(n), hpc' # "test" \/ val' # "nothing"
    PROVE  Answering'
    <3> USE <2>AnsweringSuffix
    <3>0. UNCHANGED <<pc, cmd, conf, sent>>
      BY <1>DevKept
    <3>1. /\ Len(out') = Len(out) - n /\ Len(out) \in Nat /\ n \in Nat
          /\ \A i \in 1 .. Len(out') : i + n \in 1 .. Len(out) /\ out'[i] = out[i + n]
      BY <2>Suffix
    <3>2. PICK a \in 0 .. Len(out) :
             /\ a <= Room(0)
             /\ \A i \in 1 .. a : out[i] \in Samples
             /\ \A i \in a + 1 .. Len(out) : out[i] \notin Samples /\ (a > 0 => out[i] = "T")
      BY DEF Answering
    <3>3. (Room(0))' = Room(0) /\ Room(0) \in Nat
      BY <3>0, RoomIsNat DEF Room
    <3>4. PICK b \in 0 .. Len(out') : b = IF n < a THEN a - n ELSE 0
      <4>1. (IF n < a THEN a - n ELSE 0) \in 0 .. Len(out')
        BY SMTT(30), <3>1
      <4> QED
        BY <4>1
    <3>5. b <= Room(0)
      BY SMTT(30), <3>1, <3>2, <3>3, <3>4
    <3>6. \A i \in 1 .. b : out'[i] \in Samples
      <4> TAKE i \in 1 .. b
      <4>1. i \in 1 .. Len(out') /\ i + n \in 1 .. a
        BY SMTT(30), <3>1, <3>4
      <4> QED
        BY <3>1, <3>2, <4>1
    <3>7. \A i \in b + 1 .. Len(out') : out'[i] \notin Samples /\ (b > 0 => out'[i] = "T")
      <4> TAKE i \in b + 1 .. Len(out')
      <4>1. i \in 1 .. Len(out') /\ i + n \in a + 1 .. Len(out) /\ (b > 0 => a > 0)
        <5>1. b \in Nat /\ a \in Nat /\ a <= b + n /\ (b > 0 => a > 0)
          BY SMTT(30), <3>1, <3>4
        <5>2. i \in Nat /\ b < i /\ i <= Len(out') /\ Len(out') = Len(out) - n /\ n \in Nat /\ Len(out) \in Nat
          BY SMTT(30), <3>1, <5>1
        <5> QED
          BY SMTT(30), <5>1, <5>2
      <4> QED
        BY <3>1, <3>2, <4>1
    <3>8. \A i, j \in 1 .. Len(out') : i < j /\ out'[i] = "T" => out'[j] = "T"
      <4> TAKE i, j \in 1 .. Len(out')
      <4>1. i + n \in 1 .. Len(out) /\ j + n \in 1 .. Len(out) /\ (i < j => i + n < j + n)
        BY SMTT(30), <3>1
      <4> QED
        BY <3>1, <4>1 DEF Answering
    <3>9. (Between \/ (pc = "exec" /\ cmd = Ch.t))' /\ AllOf(Ch.t)'
      BY <3>0 DEF Answering, Between, AllOf
    <3>10. (\E c \in 0 .. Len(out) :
               /\ c <= Room(0)
               /\ \A i \in 1 .. c : out[i] \in Samples
               /\ \A i \in c + 1 .. Len(out) : out[i] \notin Samples /\ (c > 0 => out[i] = "T")
               /\ c > 0 /\ hpc = "test" /\ val = "nothing" =>
                      in # <<>> \/ pc = "exec" \/ c < Len(out))'
      BY <3>3, <3>4, <3>5, <3>6, <3>7
    <3> QED
      BY <3>8, <3>9, <3>10 DEF Answering
  <2>LostSuffix.
    ASSUME Base, UNCHANGED devVars, UNCHANGED <<in, script, self>>, Lost,
           NEW n \in 0 .. Len(out), Drops(n),
           hpc' # "test" \/ (hpc = "test" /\ val' # "nothing")
    PROVE  Lost'
    <3> USE <2>LostSuffix
    <3>0. UNCHANGED <<pc, cmd, args, conf, sent>> /\ DeviceTypes /\ self \in Selfs
      BY <1>DevKept DEF Base, HostTypes
    <3>1. /\ Len(out') = Len(out) - n /\ Len(out) \in Nat /\ n \in Nat
          /\ \A i \in 1 .. Len(out') : i + n \in 1 .. Len(out) /\ out'[i] = out[i + n]
      BY <3>0, <2>Suffix
    <3>2. out' \in Seq(Sent) /\ out \in Seq(Sent)
      BY <3>0, <2>Suffix
    <3>3. out = <<>> => out' = <<>>
      BY SMTT(30), <3>1, <3>2, SeqEmpty
    <3>4. out = <<"r">> => out' \in {<<>>, <<"r">>}
      <4> HAVE out = <<"r">>
      <4>1. Len(out) = 1 /\ out[1] = "r"
        OBVIOUS
      <4>2. CASE n = 0
        <5>1. Len(out') = Len(out) /\ \A i \in 1 .. Len(out) : out'[i] = out[i]
          BY SMTT(30), <3>1, <4>2
        <5>2. out' = out
          BY <3>2, <5>1, SeqSame
        <5> QED
          BY <5>2
      <4>3. CASE n = 1
        BY SMTT(30), <3>1, <3>2, <4>1, <4>3, SeqEmpty
      <4> QED
        BY SMTT(30), <3>1, <4>1, <4>2, <4>3
    <3>5. Between' = Between /\ \A c : AllOf(c)' = AllOf(c) /\ Asked(c)' = Asked(c)
      BY <3>0 DEF Between, AllOf, Asked
    <3>6. CASE Answering
      BY <3>0, <3>6, <2>AnsweringSuffix DEF Lost
    <3>7. CASE Swallowing
      BY <3>0, <3>3, <3>5, <3>7 DEF Swallowing, Lost
    <3>8. CASE script = "acq" /\ Acquiring
      BY <3>0, <3>3, <3>4, <3>5, <3>8 DEF Acquiring, Lost
    <3>9. CASE script = "acq" /\ Sampling
      <4>1. CASE out = <<>>
        BY <3>0, <3>3, <3>5, <3>9, <4>1 DEF Sampling, Lost
      <4>2. CASE out # <<>>
        <5>1. /\ pc = "fetch" /\ AllOf(Ch.t) /\ (hpc = "test" => in # <<>>)
              /\ (\A i \in 1 .. Len(out) : out[i] \in Samples) /\ Len(out) <= sent
          BY <3>9, <4>2 DEF Sampling
        <5>2. (\A i \in 1 .. Len(out') : out'[i] \in Samples) /\ Len(out') <= sent
          <6>1. sent \in Nat
            BY <3>0, LineIs
          <6>2. Len(out') <= sent
            BY SMTT(30), <3>1, <5>1, <6>1
          <6> QED
            BY <3>1, <5>1, <6>2
        <5>3. Sampling'
          BY <3>0, <3>5, <3>9, <5>1, <5>2 DEF Sampling
        <5> QED
          BY <3>9, <5>3 DEF Lost
      <4> QED
        BY <4>1, <4>2
    <3> QED
      BY <3>6, <3>7, <3>8, <3>9 DEF Lost
  <2>ClosePlays. ASSUME Base, Both, Close, UNCHANGED script PROVE Both'
    <3> USE <2>ClosePlays
    <3>1. PICK n \in 0 .. Len(out) : Drops(n)
      BY DEF Close, Drops
    <3>2. Lost /\ hpc' = "open" /\ UNCHANGED devVars /\ UNCHANGED <<in, script, self>>
      BY DEF Close, Both, Reconnection
    <3>3. Lost'
      BY <3>1, <3>2, <2>LostSuffix
    <3> QED
      BY <3>2, <3>3 DEF Both, Reconnection, Acquisition, Attempting
  <2>OneMore.
    ASSUME NEW s \in Seq(Bytes), NEW t \in Bytes
    PROVE  /\ s \o <<t>> # <<>> /\ Len(s \o <<t>>) = Len(s) + 1 /\ Len(s) \in Nat
           /\ \A i \in 1 .. Len(s) : (s \o <<t>>)[i] = s[i]
           /\ (s \o <<t>>)[Len(s) + 1] = t
    <3> USE <2>OneMore
    <3>1. Append(s, t) = s \o <<t>>
      BY AppendIs
    <3>2. /\ Append(s, t) # <<>> /\ Len(Append(s, t)) = Len(s) + 1 /\ Len(s) \in Nat
          /\ \A i \in 1 .. Len(s) : Append(s, t)[i] = s[i]
          /\ Append(s, t)[Len(s) + 1] = t
      BY SMTT(30), SeqAppend, SeqLen
    <3> QED
      BY <3>1, <3>2
  <2>OpenPlays. ASSUME Base, Both, Open, UNCHANGED script PROVE Both'
    <3> USE <2>OpenPlays
    <3>1. /\ Lost /\ hpc' = "test" /\ val' = "nothing" /\ UNCHANGED devVars /\ UNCHANGED <<out, script, self>>
          /\ pc # "fetch"
      BY DEF Open, Both, Reconnection
    <3>2. UNCHANGED <<pc, cmd, args, conf, sent>> /\ DeviceTypes /\ self \in Selfs
      BY <3>1, <1>DevKept DEF Base, HostTypes
    <3>3. in \in Seq(Bytes) /\ Ch.t \in Bytes /\ in' = in \o <<Ch.t>>
      BY <3>2, LineIs, WaitCommand DEF Open, Write
    <3>4. /\ in' # <<>> /\ Len(in') = Len(in) + 1 /\ Len(in) \in Nat
          /\ (\A i \in 1 .. Len(in) : in'[i] = in[i]) /\ in'[Len(in) + 1] = Ch.t
      BY <3>3, <2>OneMore
    <3>5. AllOf(Ch.t) => AllOf(Ch.t)'
      BY SMTT(30), <3>4 DEF AllOf
    <3>6. \A c : Asked(c) => Asked(c)' /\ Len(in') > 1
      <4> TAKE c
      <4> HAVE Asked(c)
      <4>1. Len(in) > 0 /\ in[1] = c /\ \A j \in 2 .. Len(in) : in[j] = Ch.t
        BY SMTT(30), <3>3, <3>4, SeqEmpty DEF Asked
      <4>2. in'[1] = c /\ \A j \in 2 .. Len(in') : in'[j] = Ch.t
        BY SMTT(30), <3>4, <4>1
      <4> QED
        BY SMTT(30), <3>4, <4>1, <4>2 DEF Asked
    <3>7. Between' = Between /\ (Room(0))' = Room(0)
      BY <3>1, <3>2 DEF Between, Room
    <3>8. Lost'
      <4>1. CASE Answering
        <5>1. PICK a \in 0 .. Len(out) :
                 /\ a <= Room(0)
                 /\ \A i \in 1 .. a : out[i] \in Samples
                 /\ \A i \in a + 1 .. Len(out) : out[i] \notin Samples /\ (a > 0 => out[i] = "T")
          BY <4>1 DEF Answering
        <5>2. (\E c \in 0 .. Len(out) :
                 /\ c <= Room(0)
                 /\ \A i \in 1 .. c : out[i] \in Samples
                 /\ \A i \in c + 1 .. Len(out) : out[i] \notin Samples /\ (c > 0 => out[i] = "T")
                 /\ c > 0 /\ hpc = "test" /\ val = "nothing" =>
                        in # <<>> \/ pc = "exec" \/ c < Len(out))'
          BY <3>1, <3>4, <3>7, <5>1
        <5>3. (\A i, j \in 1 .. Len(out) : i < j /\ out[i] = "T" => out[j] = "T")'
          BY <3>1, <4>1 DEF Answering
        <5>4. Answering'
          BY <3>2, <3>5, <3>7, <4>1, <5>2, <5>3 DEF Answering
        <5> QED
          BY <5>4 DEF Lost
      <4>2. CASE Swallowing
        BY <3>1, <3>2, <3>5, <4>2 DEF Swallowing, Lost
      <4>3. CASE script = "acq" /\ Acquiring
        BY <3>1, <3>2, <3>5, <3>6, <3>7, <4>3 DEF Acquiring, Lost
      <4>4. CASE script = "acq" /\ Sampling
        BY <3>1, <3>2, <3>4, <3>5, <3>6, <3>7, <4>4 DEF Sampling, Lost
      <4> QED
        BY <3>1, <4>1, <4>2, <4>3, <4>4 DEF Lost
    <3> QED
      BY <3>1, <3>8 DEF Both, Reconnection, Acquisition, Attempting
  <2>RoomIs.
    ASSUME self \in Selfs
    PROVE  /\ Room(0) \in Nat /\ (Room(0) > 0 => Room(1) = Room(0) - 1)
           /\ script # "any" => Room(1) = self.numSamples - 1
           /\ Room(1) \in Nat
    <3> USE <2>RoomIs
    <3>1. self.numSamples \in Nat \ {0}
      BY SMTT(30), WordBound DEF Selfs
    <3> QED
      BY SMTT(30), <3>1 DEF Room
  <2>TestReadPlays. Base /\ Both /\ TestRead /\ UNCHANGED script => Both'
    \* The first reply of a late device is taken for the 'T' of the last 't': then
    \* that 'T' is owed.
    <3>TestReads.
      ASSUME Base, script \in {"any", "acq"}, hpc = "test", val = "nothing", Lost, UNCHANGED devVars, UNCHANGED <<in, script, self>>,
             Read1("T")
      PROVE  Idle' \/ Behind(Room(1))'
      <4> USE <3>TestReads
      <4>0. /\ UNCHANGED <<pc, cmd, args, conf, sent>> /\ DeviceTypes /\ self \in Selfs
            /\ in \in Seq(Bytes) /\ sent \in Nat /\ conf.numberOfSamples \in Nat /\ out # <<>> /\ Len(in) \in Nat
        BY <1>DevKept, LineIs DEF Base, HostTypes, Read1
      <4>1. /\ out \in Seq(Sent) /\ Len(out) \in Nat /\ Len(out) > 0 /\ out' = Tail(out) /\ out' \in Seq(Sent)
            /\ Head(out) = out[1] /\ "T" \in TakenFor(Head(out))
        BY SMTT(30), <4>0, LineIs, SeqHeadTail, SeqEmpty DEF Read1
      <4>2. Len(out') = Len(out) - 1 /\ \A i \in 1 .. Len(out') : i + 1 \in 1 .. Len(out) /\ out'[i] = out[i + 1]
        BY SMTT(30), <4>1
      <4>3. out[1] = "T" \/ out[1] \in {"old", "new"}
        BY <4>1 DEF TakenFor
      <4>4. (Room(1))' = Room(1) /\ Room(1) \in Nat
        BY <4>0, <2>RoomIs DEF Room
      <4>5. AllOf(Ch.t) /\ in # <<>> => in[1] = Ch.t
        <5> HAVE AllOf(Ch.t) /\ in # <<>>
        <5>1. 1 \in 1 .. Len(in)
          BY SMTT(30), <4>0, SeqEmpty
        <5> QED
          BY <5>1 DEF AllOf
      <4>6. CASE Answering
        <5>0. PICK a \in 0 .. Len(out) :
                 /\ a <= Room(0)
                 /\ \A i \in 1 .. a : out[i] \in Samples
                 /\ \A i \in a + 1 .. Len(out) : out[i] \notin Samples /\ (a > 0 => out[i] = "T")
                 /\ a > 0 => in # <<>> \/ pc = "exec" \/ a < Len(out)
          BY <4>6 DEF Answering
        <5>1. \/ pc = "cmd" \/ (pc = "fetch" /\ sent = conf.numberOfSamples) \/ (pc = "exec" /\ cmd = Ch.t)
          BY <4>6 DEF Answering, Between
        <5>2. in # <<>> => in[1] = Ch.t
          BY <4>5, <4>6 DEF Answering
        \* With samples only on the way, and a 't' still to be answered.
        <5>3. ASSUME NEW n \in Nat, n <= Room(1), Len(out') = n, \A i \in 1 .. Len(out') : out'[i] \in Samples,
                     in # <<>> \/ pc = "exec"
              PROVE  Behind(Room(1))'
          <6>1. pc = "fetch" /\ sent = conf.numberOfSamples => Len(out') + (conf.numberOfSamples - sent) <= Room(1)
            BY SMTT(30), <4>0, <5>3
          <6>2. \/ pc = "exec" /\ cmd = Ch.t
                \/ pc = "cmd" /\ in # <<>> /\ in[1] = Ch.t
                \/ pc = "fetch" /\ sent = conf.numberOfSamples /\ in # <<>> /\ in[1] = Ch.t
            BY <5>1, <5>2, <5>3
          <6> QED
            BY <4>0, <4>4, <5>3, <6>1, <6>2 DEF Behind
        \* With a 'T' behind n samples.
        <5>4. ASSUME NEW n \in Nat, n <= Room(1), n < Len(out'), out'[n + 1] = "T", \A i \in 1 .. n : out'[i] \in Samples
              PROVE  Behind(Room(1))'
          <6>1. n \in 0 .. Room(1)
            BY SMTT(30), <4>4, <5>4
          <6> QED
            BY <4>4, <5>4, <6>1 DEF Behind
        <5>5. CASE out[1] = "T"
          <6>1. \A j \in 2 .. Len(out) : out[j] = "T"
            BY SMTT(30), <4>1, <4>6, <5>5 DEF Answering
          <6>2. CASE Len(out) > 1
            <7>1. 0 < Len(out') /\ out'[0 + 1] = "T" /\ 0 <= Room(1)
              BY SMTT(30), <4>2, <4>4, <6>1, <6>2, <4>1
            <7> QED
              BY SMTT(30), <5>4, <7>1
          <6>3. CASE Len(out) = 1
            <7>1. Len(out') = 0 /\ 0 <= Room(1) /\ out' = <<>>
              BY SMTT(30), <4>1, <4>2, <4>4, <6>3, SeqEmpty
            <7>2. CASE in # <<>> \/ pc = "exec"
              BY SMTT(30), <5>3, <7>1, <7>2
            <7>3. CASE in = <<>> /\ pc # "exec"
              BY <4>0, <5>1, <7>1, <7>3 DEF Idle, After, Work
            <7> QED
              BY <7>2, <7>3
          <6>4. Len(out) > 1 \/ Len(out) = 1
            <7>1. \A n \in Nat : n > 0 => n > 1 \/ n = 1
              BY SMTT(30)
            <7> QED
              BY <4>1, <7>1
          <6> QED
            BY <6>2, <6>3, <6>4
        <5>6. CASE out[1] \in {"old", "new"}
          <6>1. a > 0
            <7>1. a = 0 => 1 \in a + 1 .. Len(out)
              BY SMTT(30), <4>1
            <7> QED
              BY SMTT(30), <5>0, <5>6, <7>1 DEF Samples
          <6>2. Room(1) = Room(0) - 1 /\ Room(0) \in Nat
            <7>1. Room(0) \in Nat /\ (Room(0) > 0 => Room(1) = Room(0) - 1)
              BY <4>0, <2>RoomIs
            <7> QED
              BY SMTT(30), <5>0, <6>1, <7>1
          <6>3. PICK n \in Nat : n = a - 1
            BY SMTT(30), <6>1
          <6>4. n <= Room(1)
            BY SMTT(30), <4>4, <5>0, <6>2, <6>3
          <6>5. \A i \in 1 .. n : out'[i] \in Samples
            <7> TAKE i \in 1 .. n
            <7>1. i + 1 \in 1 .. a /\ i \in 1 .. Len(out')
              BY SMTT(30), <4>1, <4>2, <6>3
            <7> QED
              BY <4>2, <5>0, <7>1
          <6>6. CASE a < Len(out)
            <7>1. n < Len(out') /\ n + 1 \in 1 .. Len(out') /\ n + 1 + 1 \in a + 1 .. Len(out)
              BY SMTT(30), <4>1, <4>2, <6>3, <6>6
            <7>2. out'[n + 1] = "T"
              BY <4>2, <5>0, <6>1, <7>1
            <7> QED
              BY <5>4, <6>4, <6>5, <7>1, <7>2
          <6>7. CASE a = Len(out)
            <7>1. Len(out') = n /\ (in # <<>> \/ pc = "exec")
              BY SMTT(30), <4>1, <4>2, <5>0, <6>1, <6>3, <6>7
            <7> QED
              BY <5>3, <6>4, <6>5, <7>1
          <6> QED
            BY SMTT(30), <4>1, <6>6, <6>7
        <5> QED
          BY <4>3, <5>5, <5>6
      <4>7. CASE Swallowing
        BY <4>0, <4>7 DEF Swallowing
      <4>8. CASE script = "acq" /\ Acquiring
        <5>1. out = <<"r">>
          BY <4>0, <4>8 DEF Acquiring
        <5> QED
          BY <4>3, <5>1
      <4>9. CASE script = "acq" /\ Sampling
        <5>1. /\ pc = "fetch" /\ AllOf(Ch.t) /\ in # <<>> /\ (\A i \in 1 .. Len(out) : out[i] \in Samples)
              /\ Len(out) <= sent /\ conf.numberOfSamples = self.numSamples
          BY <4>0, <4>9 DEF Sampling
        <5>2. \A i \in 1 .. Len(out') : out'[i] \in Samples
          BY <4>2, <5>1
        <5>3. Room(1) = conf.numberOfSamples - 1
          BY <4>0, <4>9, <5>1, <2>RoomIs
        <5>4. Len(out') + (conf.numberOfSamples - sent) <= Room(1)
          BY SMTT(30), <4>0, <4>1, <4>2, <5>1, <5>3
        <5>5. in[1] = Ch.t
          BY <4>5, <5>1
        <5> QED
          BY <4>0, <4>4, <5>1, <5>2, <5>4, <5>5 DEF Behind
      <4> QED
        BY <4>6, <4>7, <4>8, <4>9 DEF Lost
    <3> SUFFICES ASSUME Base, Both, TestRead, UNCHANGED script
                 PROVE  Both'
      BY SMTT(30)
    <3>1. PICK as \in Replies : Read1(as) /\ val' = IF val = "nothing" /\ as = "T" THEN "T" ELSE "other"
      BY DEF TestRead
    <3>2. /\ hpc = "test" /\ hpc' = "test" /\ UNCHANGED devVars /\ UNCHANGED <<in, script, self>> /\ Lost
          /\ script \in {"any", "acq"} /\ DeviceTypes
      BY DEF TestRead, Both, Reconnection, Base, HostTypes, Reconnecting
    <3>3. Lost'
      <4>1. out \in Seq(Sent) /\ out # <<>> /\ Len(out) \in Nat /\ out' = Tail(out)
        BY <3>1, <3>2, LineIs DEF Read1
      <4>2. 1 \in 0 .. Len(out)
        BY SMTT(30), <4>1, SeqEmpty
      <4>3. Drops(1)
        BY SMTT(30), <4>1 DEF Drops
      <4>4. val' # "nothing"
        BY <3>1
      <4> QED
        BY <3>2, <4>2, <4>3, <4>4, <2>LostSuffix
    <3>4. val' = "T" => Idle' \/ Behind(Room(1))'
      <4> HAVE val' = "T"
      <4>1. val = "nothing" /\ as = "T"
        BY <3>1
      <4> QED
        BY <3>1, <3>2, <4>1, <3>TestReads
    <3> QED
      BY <3>2, <3>3, <3>4 DEF Both, Reconnection, Acquisition, Attempting
  <2>RestBehind. ASSUME Rests3, NEW b, Behind(b) PROVE Behind(b)'
    <3> USE <2>RestBehind
    <3>1. UNCHANGED <<pc, cmd, conf, sent, in, out>>
      BY <1>RestsIs
    <3> QED
      BY <3>1 DEF Behind
  <2>TestEndPlays. ASSUME Base, Both, TestEnd, UNCHANGED <<script, prompt>> PROVE Both'
    <3> USE <2>TestEndPlays
    <3>1. /\ hpc = "test" /\ Rests3 /\ UNCHANGED <<script, self, prompt>> /\ Lost /\ k' = 1
          /\ hpc' = IF val = "T" THEN "setup" ELSE "close"
          /\ val = "T" => Expire /\ (Idle \/ Behind(Room(1)))
          /\ DeviceTypes /\ self \in Selfs
      BY DEF TestEnd, Both, Reconnection, Base, HostTypes, Rests3, lineVars
    <3>2. CASE val # "T"
      BY <3>1, <3>2, <1>LostRests, <1>Closes
    <3>3. CASE val = "T" /\ Idle
      <4>1. Idle'
        BY <3>1, <3>3, <1>RestIdle
      <4>2. \A j \in 1 .. 6 : ~(j < 1)
        BY SMTT(30)
      <4>3. HoldBelow(1)'
        BY <4>2 DEF HoldBelow
      <4> QED
        BY <3>1, <3>3, <4>1, <4>3 DEF Both, Reconnection, Acquisition, Attempting
    <3>4. CASE val = "T" /\ Behind(Room(1))
      <4>1. PICK b \in Nat : b = Room(1) /\ b = Room(1)'
        BY <3>1, <2>RoomIs DEF Room
      <4>2. ~prompt
        <5> SUFFICES ASSUME prompt PROVE FALSE
          OBVIOUS
        <5>1. out = <<>> /\ Waiting
          BY <3>1, <3>4, <1>SilentIs DEF Silent
        <5>2. Len(out) = 0
          BY <5>1
        <5>3. pc = "exec" \/ (pc \in {"cmd", "fetch"} /\ in # <<>>)
          <6>1. Behind(b)
            BY <3>4, <4>1
          <6>2. \A a \in 0 .. b : ~(a < Len(out))
            BY SMTT(30), <4>1, <5>2
          <6> QED
            BY <6>1, <6>2 DEF Behind
        <5> QED
          BY <3>1, <5>1, <5>3, <1>WaitingIs
      <4>3. Behind(b)'
        BY <3>1, <3>4, <4>1, <2>RestBehind
      <4>4. Behind(Room(k))'
        BY <3>1, <4>1, <4>3
      <4>5. ~prompt' /\ hpc' = "setup"
        BY SMTT(30), <3>1, <3>4, <4>2
      <4> QED
        BY <4>4, <4>5 DEF Both, Reconnection, Acquisition, Attempting
    <3> QED
      BY <3>1, <3>2, <3>3, <3>4
  <2>WriteBehind.
    ASSUME DeviceTypes, NEW w \in Seq(Bytes), Writes(w), NEW b, Behind(b)
    PROVE  Behind(b)'
    <3> USE <2>WriteBehind
    <3>1. UNCHANGED <<pc, cmd, conf, sent, out>> /\ in \in Seq(Bytes) /\ in' = in \o w
      BY <1>DevKept, LineIs DEF Writes, Write
    <3>2. in # <<>> /\ in[1] = Ch.t => in' # <<>> /\ in'[1] = Ch.t
      <4> HAVE in # <<>> /\ in[1] = Ch.t
      <4>1. Len(in) \in Nat \ {0} /\ Len(w) \in Nat
        BY <3>1, SeqLen, SeqEmpty
      <4>2. 1 \in 1 .. Len(in) + Len(w) /\ 1 <= Len(in)
        BY SMTT(30), <4>1
      <4>3. in \o w # <<>>
        BY SMTT(30), <3>1, ConcatIsNone
      <4>4. (in \o w)[1] = in[1]
        BY <3>1, <4>2, SeqConcat
      <4> QED
        BY <3>1, <4>3, <4>4
    <3> HIDE DEF Writes
    <3>3. CASE \E a \in 0 .. b : a < Len(out) /\ out[a + 1] = "T" /\ \A i \in 1 .. a : out[i] \in Samples
      BY <3>1, <3>3 DEF Behind
    <3>4. CASE /\ \A i \in 1 .. Len(out) : out[i] \in Samples
               /\ \/ Len(out) <= b /\ pc = "exec" /\ cmd = Ch.t
                  \/ Len(out) <= b /\ pc = "cmd" /\ in # <<>> /\ in[1] = Ch.t
                  \/ /\ Len(out) + (conf.numberOfSamples - sent) <= b
                     /\ pc = "fetch" /\ in # <<>> /\ in[1] = Ch.t
      BY <3>1, <3>2, <3>4 DEF Behind
    <3> QED
      BY <3>3, <3>4 DEF Behind
  <2>SetPlays. ASSUME Base, Both, Set, UNCHANGED <<script, prompt>> PROVE Both'
    <3> USE <2>SetPlays
    <3>1. /\ hpc' = "ack" /\ UNCHANGED devVars /\ UNCHANGED <<k, self, script, prompt>> /\ k \in 1 .. 6
          /\ DeviceTypes /\ self \in Selfs
          /\ (Idle /\ HoldBelow(k)) \/ (~prompt /\ Behind(Room(k)))
      BY DEF Set, Both, Reconnection, Base, HostTypes
    <3>2. PICK w \in Seq(Bytes) : w = Settings[k]
      BY <1>CommandBytes DEF Set
    <3>3. Writes(w)
      BY <3>2, <1>WritesIs DEF Set
    <3>4. w = Settings[k]'
      BY <3>1, <3>2 DEF Settings
    <3>5. CASE Idle /\ HoldBelow(k)
      <4>1. After(<<>>, w)'
        BY <3>1, <3>3, <3>5, <1>WriteIdle DEF Idle
      <4>2. After(<<>>, Settings[k])'
        BY <3>4, <4>1
      <4>3. HoldBelow(k)'
        BY <3>1, <3>5, <1>DevKept, HoldBelowKept
      <4> QED
        BY <3>1, <4>2, <4>3 DEF Both, Reconnection, Acquisition, Attempting
    <3>6. CASE ~prompt /\ Behind(Room(k))
      <4>1. PICK b \in Nat : b = Room(k) /\ b = Room(k)'
        BY SMTT(30), <3>1, RoomIsNat DEF Room
      <4>2. Behind(b)'
        BY <3>1, <3>3, <3>6, <4>1, <2>WriteBehind
      <4>3. ~prompt' /\ Behind(Room(k))'
        BY SMTT(30), <3>1, <3>6, <4>1, <4>2
      <4> QED
        BY <3>1, <4>3 DEF Both, Reconnection, Acquisition, Attempting
    <3> QED
      BY <3>1, <3>5, <3>6
  \* The driver takes the first of the samples for a 'd'.
  <2>ReadBehind.
    ASSUME DeviceTypes, Reads("d"), NEW b \in Nat, Behind(b)
    PROVE  b > 0 /\ \A n \in Nat : n = b - 1 => Behind(n)'
    <3> USE <2>ReadBehind
    <3>0. /\ UNCHANGED <<pc, cmd, conf, sent, in>> /\ sent \in Nat /\ conf.numberOfSamples \in Nat
          /\ pc = "fetch" => sent <= conf.numberOfSamples
      BY <1>DevKept, LineIs DEF Reads, DeviceTypes, Sending
    <3>1. /\ out \in Seq(Sent) /\ Len(out) \in Nat /\ Len(out) > 0 /\ out' = Tail(out)
          /\ Head(out) = out[1] /\ "d" \in TakenFor(Head(out))
      BY SMTT(30), LineIs, SeqHeadTail, SeqEmpty DEF Reads, Read1
    <3>2. Len(out') = Len(out) - 1 /\ \A i \in 1 .. Len(out') : i + 1 \in 1 .. Len(out) /\ out'[i] = out[i + 1]
      BY SMTT(30), <3>1
    <3>3. Len(out) \in Nat /\ Len(out) > 0
      BY <3>1
    <3>4. out[1] # "T"
      BY <3>1 DEF TakenFor
    <3>5. CASE \E a \in 0 .. b : a < Len(out) /\ out[a + 1] = "T" /\ \A i \in 1 .. a : out[i] \in Samples
      <4>1. PICK a \in 0 .. b : a < Len(out) /\ out[a + 1] = "T" /\ \A i \in 1 .. a : out[i] \in Samples
        BY <3>5
      <4>2. a # 0
        BY SMTT(30), <3>4, <4>1
      <4>3. PICK c \in Nat : c = a - 1
        BY SMTT(30), <4>2
      <4>4. c < Len(out') /\ c + 1 \in 1 .. Len(out') /\ c + 1 + 1 = a + 1 /\ b > 0 /\ c \in 0 .. b - 1
        BY SMTT(30), <3>2, <3>3, <4>1, <4>3
      <4>5. out'[c + 1] = "T"
        BY <3>2, <4>1, <4>4
      <4>6. \A i \in 1 .. c : out'[i] \in Samples
        <5> TAKE i \in 1 .. c
        <5>1. i \in 1 .. Len(out') /\ i + 1 \in 1 .. a
          BY SMTT(30), <4>3, <4>4, <3>2, <3>3
        <5> QED
          BY <3>2, <4>1, <5>1
      <4> QED
        BY <4>4, <4>5, <4>6 DEF Behind
    <3>6. CASE /\ \A i \in 1 .. Len(out) : out[i] \in Samples
               /\ \/ Len(out) <= b /\ pc = "exec" /\ cmd = Ch.t
                  \/ Len(out) <= b /\ pc = "cmd" /\ in # <<>> /\ in[1] = Ch.t
                  \/ /\ Len(out) + (conf.numberOfSamples - sent) <= b
                     /\ pc = "fetch" /\ in # <<>> /\ in[1] = Ch.t
      <4>1. \A i \in 1 .. Len(out') : out'[i] \in Samples
        BY <3>2, <3>6
      <4>2. /\ Len(out) <= b => Len(out') <= b - 1 /\ b > 0
            /\ pc = "fetch" /\ Len(out) + (conf.numberOfSamples - sent) <= b =>
                  Len(out') + (conf.numberOfSamples - sent) <= b - 1 /\ b > 0
        BY SMTT(30), <3>0, <3>2, <3>3
      <4> QED
        BY <3>0, <3>6, <4>1, <4>2 DEF Behind
    <3> QED
      BY <3>5, <3>6 DEF Behind
  <2>RoomNext.
    ASSUME self \in Selfs, NEW n \in Nat, NEW m, m = n + 1, Room(n) > 0
    PROVE  Room(m) = Room(n) - 1
    <3> USE <2>RoomNext
    <3>1. self.numSamples \in Nat
      BY SMTT(30), WordBound DEF Selfs
    <3> QED
      BY SMTT(30), <3>1 DEF Room
  \* The samples of a late fetch do not last for all of it.
  <2>NoRoom.
    ASSUME Base, Sound, ~prompt, script \in {"any", "acq"}
    PROVE  Room(6) = 0
    <3> USE <2>NoRoom
    <3>1. self.numSamples \in Nat /\ (script = "acq" => self.numSamples <= 6)
      BY SMTT(30), WordBound DEF Base, HostTypes, Sound, Selfs
    <3> QED
      BY SMTT(30), <3>1 DEF Room
  <2>CheckResponsePlays.
    ASSUME Base, Sound, Both, CheckResponse, UNCHANGED <<script, prompt>>
    PROVE  Both'
    <3> USE <2>CheckResponsePlays
    <3>1. /\ hpc = "ack" /\ UNCHANGED <<devVars, in>> /\ UNCHANGED <<self, script, prompt>> /\ k \in 1 .. 6
          /\ script \in {"any", "acq"} /\ DeviceTypes /\ self \in Selfs
          /\ k' = IF k = 6 THEN 1 ELSE k + 1
      BY SettingsCount DEF CheckResponse, Base, HostTypes, Reconnecting
    <3>2. PICK w : w = Settings[k]
      OBVIOUS
    <3>3. \/ After(<<>>, w)
          \/ After(<<"d">>, <<>>) /\ HoldBelow(k + 1)
          \/ After(<<"text">>, <<>>)
          \/ ~prompt /\ Behind(Room(k))
      BY <3>1, <3>2 DEF Both, Reconnection
    <3>4. CASE hpc' = "dead"
      BY <3>4, <1>Leaves
    <3>5. ASSUME Reads("d"), hpc' = IF k = 6 THEN "idle" ELSE "setup"
          PROVE  Both'
      <4>1. ~After(<<>>, w)
        BY <3>5, <1>ReadFirst
      <4>2. ~After(<<"text">>, <<>>)
        <5>1. Front("text", <<"text">>, <<>>)
          BY <1>FrontOne DEF Named
        <5> QED
          BY <3>5, <5>1, <1>ReadAfter
      <4>3. CASE After(<<"d">>, <<>>) /\ HoldBelow(k + 1)
        <5>1. Idle'
          BY <3>5, <4>3, <1>Fixed, <1>FrontOne, <1>ReadAfter DEF Idle
        <5>2. PICK n : n = k + 1
          OBVIOUS
        <5>3. HoldBelow(n)'
          BY <3>1, <4>3, <5>2, <1>DevKept, HoldBelowKept
        <5>4. CASE k = 6
          <6>1. n = 7
            BY SMTT(30), <5>2, <5>4
          <6> QED
            BY <3>5, <5>1, <5>3, <5>4, <6>1 DEF Agreed, Both, Reconnection, Acquisition, Attempting
        <5>5. CASE k # 6
          BY <3>1, <3>5, <5>1, <5>2, <5>3, <5>5 DEF Both, Reconnection, Acquisition, Attempting
        <5> QED
          BY <5>4, <5>5
      <4>4. CASE ~prompt /\ Behind(Room(k))
        <5>1. PICK b \in Nat : b = Room(k)
          BY SMTT(30), <3>1, RoomIsNat
        <5>2. b > 0 /\ \A n \in Nat : n = b - 1 => Behind(n)'
          BY <3>1, <3>5, <4>4, <5>1, <2>ReadBehind
        <5>3. k # 6
          BY SMTT(30), <3>1, <4>4, <5>1, <5>2, <2>NoRoom
        <5>4. PICK m \in Nat : m = k + 1
          BY SMTT(30), <3>1
        <5>5. Room(m) = b - 1 /\ k \in Nat /\ k' = m
          BY SMTT(30), <3>1, <5>1, <5>2, <5>3, <5>4, <2>RoomNext
        <5>6. Room(k)' = b - 1
          BY <3>1, <5>5 DEF Room
        <5>7. b - 1 \in Nat
          BY SMTT(30), <5>2
        <5>8. Behind(Room(k))'
          BY <5>2, <5>6, <5>7
        <5>9. ~prompt' /\ hpc' = "setup"
          BY SMTT(30), <3>1, <3>5, <4>4, <5>3
        <5> QED
          BY <5>8, <5>9 DEF Both, Reconnection, Acquisition, Attempting
      <4> QED
        BY <3>3, <4>1, <4>2, <4>3, <4>4
    <3>6. ASSUME NEW as \in Replies, Read1(as), as = "d", hpc' = IF k = 6 THEN "idle" ELSE "setup"
          PROVE  Both'
      BY <3>1, <3>5, <3>6, <1>ReadsIs
    <3> QED
      BY <3>4, <3>6, SettingsCount DEF CheckResponse
  <2> SUFFICES ASSUME Base, Sound, Both, Reconnect, UNCHANGED <<script, prompt>>
               PROVE  Both'
    BY SMTT(30)
  <2>1. UNCHANGED script
    OBVIOUS
  <2> QED
    BY <2>1, <2>ClosePlays, <2>OpenPlays, <2>TestReadPlays, <2>TestEndPlays, <2>SetPlays,
       <2>CheckResponsePlays DEF Reconnect
\* With a prompt device only a refused number of samples ends the script.
<1>Dies.
  ASSUME Base, Both, Reconnect, prompt, hpc' = "dead"
  PROVE  Self.numSamples > BufSize
  <2> USE <1>Dies
  <2>1. CheckResponse
    BY DEF Reconnect, Close, Open, TestRead, TestEnd, Set
  <2>2. /\ hpc = "ack" /\ UNCHANGED <<devVars, in>> /\ k \in 1 .. 6 /\ self = Self /\ DeviceTypes /\ self \in Selfs
    BY <2>1 DEF CheckResponse, Base, HostTypes, Reconnecting
  <2>3. PICK w : w = Settings[k] /\ Command(w)
    BY <2>2, SettingCommand
  <2>4. \/ After(<<>>, w)
        \/ After(<<"d">>, <<>>)
        \/ After(<<"text">>, <<>>) /\ self.numSamples > BufSize
    BY <2>2, <2>3 DEF Both, Reconnection
  <2>5. ASSUME NEW as \in Replies, Read1(as), as # "d" PROVE Self.numSamples > BufSize
    <3>1. Reads(as)
      BY <2>2, <2>5, <1>ReadsIs
    <3>2. ~After(<<>>, w)
      BY <3>1, <1>ReadFirst
    <3>3. ~After(<<"d">>, <<>>)
      BY <2>5, <3>1, <1>Fixed, <1>FrontOne, <1>ReadAfter
    <3> QED
      BY <2>2, <2>4, <3>2, <3>3
  <2>6. ASSUME Expire PROVE Self.numSamples > BufSize
    <3>1. out = <<>> /\ Waiting
      BY <2>6, <1>SilentIs DEF Silent
    <3>2. <<>> # <<"d">> /\ <<>> # <<"text">>
      OBVIOUS
    <3>3. Work(w)
      BY <2>4, <3>1, <3>2 DEF After
    <3> QED
      BY <2>2, <2>3, <3>1, <3>3, <1>QuietOne
  <2> QED
    BY <2>1, <2>5, <2>6 DEF CheckResponse
\* -------- The whole.
\* The places of the glitch script are its own.
<1>NotShooting. ASSUME HostTypes', script' # "fi" PROVE Glitches'
    BY <1>NotShooting DEF HostTypes, Glitches, Shooting
<1>AttemptLives. ASSUME Attempt PROVE hpc' # "dead"
    BY <1>AttemptLives DEF Attempt, Arm, Armed, Drain, Target, WaitForCompletion, GetSamples,
       ReadSample, SamplesRead, Raised
<1>WindowLives. ASSUME Window PROVE hpc' # "dead"
    BY <1>WindowLives, <1>AttemptLives DEF Window, OnGet, FormSet, FormAck
<1>GlitchingLives. ASSUME Glitching PROVE hpc' # "dead"
    BY <1>GlitchingLives DEF Glitching, Start, PowerOff, PoweredOff, PowerOn, PoweredOn, Switch,
       Check, TestTarget, Raise, Flush,
           Choose, SetShot, ShotSet, GlitchArm, GlitchArmed, WaitForGlitcher, Classify
<1>ConstructedKeeps. ASSUME Inv, Constructed PROVE Inv'
  <2> USE <1>ConstructedKeeps
  <2>0. Base' /\ HostTypes'
    BY <1>BaseProgram DEF Inv, Base, ProgramStep
  <2>1. /\ Rests3 /\ UNCHANGED <<hpc, self>> /\ hpc = "idle" /\ Sound
    BY DEF Constructed, vars, devVars, lineVars, twVars, acqVars, mainVars, setVars, Rests3, Sound
  <2>2. Idle /\ Agreed
    BY <2>1 DEF Inv, Acquisition
  <2>3. Idle' /\ Agreed'
    BY <2>1, <2>2, <1>RestIdle, <1>RestsIs, <1>AgreedSame
  <2>4. (Reconnection /\ Acquisition)'
    BY <2>1, <2>3 DEF Reconnection, Acquisition, Attempting
  <2>5. Glitches'
    BY <2>1 DEF Glitches
  <2> QED
    BY <2>0, <2>1, <2>4, <2>5 DEF Inv
<1> SUFFICES ASSUME Inv, ProgramStep
             PROVE  Inv'
  BY SMTT(30)
<1>0. Base' /\ HostTypes' /\ Base
  BY <1>BaseProgram DEF Inv, Base
<1>1. CASE Constructed
  BY <1>1, <1>ConstructedKeeps
<1>2. CASE Program /\ UNCHANGED <<script, prompt>>
  <2>0. UNCHANGED script /\ UNCHANGED prompt /\ UNCHANGED <<script, prompt>> /\ Sound' = Sound /\ (prompt => Sound)
    BY <1>2 DEF Sound
  <2>1. Sound => Both
    BY DEF Inv, Both
  <2>2. CASE Reconnect
    <3>1. script \in {"any", "acq"}
      BY <1>0, <2>2 DEF Base, HostTypes, Reconnect, Close, Open, TestRead, TestEnd, Set,
         CheckResponse, Reconnecting
    <3>2. Glitches'
      BY <1>0, <2>0, <3>1, <1>NotShooting
    <3>3. Sound => Both'
      BY <1>0, <2>0, <2>1, <2>2, <1>ReconnectPlays
    <3>4. prompt /\ hpc' = "dead" => Self.numSamples > BufSize
      BY <1>0, <2>0, <2>1, <2>2, <1>Dies
    <3> QED
      BY SMTT(30), <1>0, <2>0, <3>2, <3>3, <3>4 DEF Inv, Both
  <2>3. CASE script = "acq" /\ Attempt
    <3>1. Glitches'
      BY <1>0, <2>0, <2>3, <1>NotShooting
    <3>2. Sound => Both'
      BY <1>0, <2>0, <2>1, <2>3, <1>AttemptPlays
    <3>3. hpc' # "dead"
      BY <2>3, <1>AttemptLives
    <3> QED
      BY <1>0, <2>0, <3>1, <3>2, <3>3 DEF Inv, Both
  <2>4. CASE script = "gui" /\ Window
    <3>1. Glitches'
      BY <1>0, <2>0, <2>4, <1>NotShooting
    <3>2. Sound => Both'
      BY <1>0, <2>0, <2>1, <2>4, <1>WindowPlays
    <3>3. hpc' # "dead"
      BY <2>4, <1>WindowLives
    <3> QED
      BY <1>0, <2>0, <3>1, <3>2, <3>3 DEF Inv, Both
  <2>5. CASE script = "fi" /\ Glitching /\ UNCHANGED shot
    <3>1. Sound
      BY <2>5 DEF Sound
    <3>2. hpc = "idle" => Idle
      BY <2>1, <3>1 DEF Both, Acquisition
    <3>3. prompt => Glitches'
      BY <1>0, <2>5, <3>2, <1>GlitchesPlays DEF Inv
    <3>4. Both'
      BY <1>0, <2>0, <2>5, <1>ShootingApart, <1>GlitchingLeaves
    <3>5. hpc' # "dead"
      BY <2>5, <1>GlitchingLives
    <3> QED
      BY SMTT(30), <1>0, <2>0, <3>3, <3>4, <3>5 DEF Inv, Both
  <2> QED
    BY <1>2, <2>2, <2>3, <2>4, <2>5 DEF Program
<1> QED
  BY <1>1, <1>2 DEF ProgramStep
=============================================================================
