--------------------------- MODULE ScriptsProofs ----------------------------
(***************************************************************************)
(* Every step of the device, and every step that changes nothing, preserves*)
(* Inv as well, so Inv holds of every behaviour; the properties of the     *)
(* driver and of the programs follow from it.                              *)
(***************************************************************************)
EXTENDS ScriptsHostProofs, HorrorScopeProofs

LEMMA DeviceTypesStep == DeviceTypes /\ Dev => DeviceTypes'
<1> USE ZenonT(30)
<1>DevIsStep. Dev => [Next]_vars
    BY DEF Dev, Next
<1>AcqTypeStep. IInv /\ Acq!TypeOK /\ Dev => Acq!TypeOK'
  <2>1. DP!TypeOK /\ [DP!Next]_DP!acqVars => DP!TypeOK'
    BY DP!TypeStep, SizesAssumption DEF DP!BufSizeAssumption, DP!CountModAssumption
  <2>2. [Acq!Next]_acqVars => [DP!Next]_DP!acqVars
    BY DEF acqVars, Acq!Next, DP!Next, DP!acqVars, Acq!dmaadc_init, DP!dmaadc_init,
           Acq!BurstOf, DP!BurstOf, Acq!ClearBuf, DP!ClearBuf, Acq!ReadBuf, DP!ReadBuf,
           Acq!ReadStep, DP!ReadStep, Acq!SetCount, DP!SetCount, Acq!BlockLength,
           DP!BlockLength, Acq!SetDest, DP!SetDest, Acq!Enable, DP!Enable, Acq!ReadDone,
           DP!ReadDone, Acq!Convert, DP!Convert, Acq!Minimum, DP!Minimum, Acq!Lengths,
           DP!Lengths, Acq!Offsets, DP!Offsets, Acq!Nowhere, DP!Nowhere, Acq!regVars, DP!regVars
  <2>3. Acq!TypeOK <=> DP!TypeOK
    BY DEF DP!TypeOK, Acq!TypeOK, DP!Lengths, Acq!Lengths, DP!Offsets, Acq!Offsets
  <2>4. (DP!TypeOK)' => (Acq!TypeOK)'
    BY DEF DP!TypeOK, Acq!TypeOK, DP!Lengths, Acq!Lengths, DP!Offsets, Acq!Offsets
  <2> QED
    BY <2>1, <2>2, <2>3, <2>4, DmaadcStep, <1>DevIsStep
<1>AdcStep. IInv /\ adc \in AdcTypes /\ Dev => adc' \in AdcTypes
  <2> SUFFICES ASSUME IInv, adc \in AdcTypes, Dev PROVE adc' \in AdcTypes
    OBVIOUS
  <2> USE DEF AdcTypes
  <2>1. CASE SetGain
    <3>1. Bits(args[1]) \subseteq Nat
      BY SMTT(30) DEF Bits
    <3> QED
      BY <2>1, <3>1 DEF SetGain
  <2>2. CASE SetPrescaler
    <3>1. args[1] \in Bytes
      BY <2>2, CharIsByte DEF SetPrescaler, Exec, Chars, IInv
    <3>2. args[1] % 8 \in Nat
      BY SMTT(30), <3>1 DEF Bytes
    <3> QED
      BY <2>2, <3>2 DEF SetPrescaler
  <2>3. CASE Calibrate
    <3>1. Short \in Nat
      BY <2>3, ShortIsNat DEF Calibrate, Exec, Shorts, IInv
    <3> QED
      BY <2>3, <3>1 DEF Calibrate
  <2>4. CASE UNCHANGED adc
    BY <2>4
  <2> QED
    BY <2>1, <2>2, <2>3, <2>4
    DEF Dev, MainStep, GetCommand, GetArgument, Test, SetSamples, SetBits12, SetConf, Power, Invalid, Prepare,
        Ready, WaitReturn, Read, Glitch, Reply, StartFetch, FetchByte, EndFetch, Edge, Convert, setVars
<1>SendingStep. DeviceTypes /\ Dev => Sending' /\ cmd' \in Bytes
  <2> SUFFICES ASSUME DeviceTypes, Dev PROVE Sending' /\ cmd' \in Bytes
    OBVIOUS
  <2> USE DEF DeviceTypes, Sending
  <2>0. 0 \in Bytes
    BY SMTT(30) DEF Bytes
  <2>1. CASE GetCommand
    <3>1. Head(in) \in Bytes
      BY <2>1, SeqHeadTail DEF GetCommand, IInv, Parsing
    <3> QED
      BY <2>1, <3>1 DEF GetCommand
  <2>2. CASE Loop
    BY <2>0, <2>2 DEF Loop
  <2>3. CASE FetchByte
    <3>1. conf' = conf /\ cmd' = cmd /\ pc' = pc /\ sent' = sent + 1 /\ sent < conf.numberOfSamples /\ pc = "fetch"
      BY <2>3 DEF FetchByte, mainVars, setVars
    <3>2. conf.numberOfSamples \in Nat /\ sent \in Nat
      BY SMTT(30) DEF IInv, Confs, FInv, Line
    <3> QED
      BY SMTT(30), <3>1, <3>2
  <2>4. CASE StartFetch
    BY SMTT(30), <2>4 DEF StartFetch, Exec, setVars, IInv, Confs
  <2>5. CASE GetArgument \/ Prepare \/ Ready \/ WaitReturn \/ Read \/ Glitch
    BY <2>5 DEF GetArgument, Prepare, Ready, WaitReturn, Read, Glitch, Exec
  <2>6. CASE Edge \/ Convert
    BY <2>6 DEF Edge, Convert, mainVars, setVars
  <2> QED
    BY <2>1, <2>2, <2>3, <2>4, <2>5, <2>6
    DEF Dev, MainStep, Test, SetSamples, SetGain, SetPrescaler, Calibrate, SetBits12, SetConf, Power, Invalid,
        Reply, EndFetch, Answer
<1> SUFFICES ASSUME DeviceTypes, Dev PROVE DeviceTypes'
  OBVIOUS
<1>1. [Next]_vars
  BY <1>DevIsStep
<1> QED
  BY <1>1, ParsingStep, ConfStep, LineStep, PlacesStep, <1>AcqTypeStep, <1>AdcStep, <1>SendingStep
  DEF DeviceTypes, IInv, FInv

-----------------------------------------------------------------------------
(***************************************************************************)
(* The device works through its bytes in order, a command at a time.       *)
(***************************************************************************)
LEMMA SameSplit ==
  ASSUME NEW U, NEW a \in Seq(U), NEW b \in Seq(U), NEW c \in Seq(U), NEW d \in Seq(U),
         Len(a) = Len(c), a \o b = c \o d
  PROVE  a = c /\ b = d
<1>1. /\ Len(a \o b) = Len(a) + Len(b) /\ Len(c \o d) = Len(c) + Len(d)
      /\ \A i \in 1 .. Len(a) + Len(b) : (a \o b)[i] = IF i <= Len(a) THEN a[i] ELSE b[i - Len(a)]
      /\ \A i \in 1 .. Len(c) + Len(d) : (c \o d)[i] = IF i <= Len(c) THEN c[i] ELSE d[i - Len(c)]
  BY SeqConcat, ZenonT(30)
<1>2. Len(a) \in Nat /\ Len(b) \in Nat /\ Len(d) \in Nat /\ Len(b) = Len(d)
  BY <1>1, SeqLen
<1>3. \A i \in 1 .. Len(a) : a[i] = c[i]
  BY <1>1, <1>2
<1>4. ASSUME NEW i \in 1 .. Len(b) PROVE b[i] = d[i]
  <2> USE ZenonT(30)
  <2> DEFINE j == i + Len(a)
  <2>1. j \in 1 .. Len(a) + Len(b) /\ ~(j <= Len(a)) /\ j - Len(a) = i
    BY SMTT(30), <1>2
  <2> HIDE DEF j
  <2>2. (a \o b)[j] = b[i]
    BY <1>1, <2>1
  <2>3. (c \o d)[j] = d[i]
    BY <1>1, <1>2, <2>1
  <2> QED
    BY <2>2, <2>3
<1> QED
  BY <1>2, <1>3, <1>4, SeqSame, ZenonT(30)

LEMMA MoveByte ==
  ASSUME NEW U, NEW a \in Seq(U), NEW b \in Seq(U), b # <<>>
  PROVE  Append(a, Head(b)) \o Tail(b) = a \o b
<1>1. Head(b) \in U /\ Tail(b) \in Seq(U) /\ b = <<Head(b)>> \o Tail(b)
  BY SeqHeadTail
<1>2. Append(a, Head(b)) = a \o <<Head(b)>> /\ <<Head(b)>> \in Seq(U)
  BY <1>1, AppendIs
<1>3. (a \o <<Head(b)>>) \o Tail(b) = a \o (<<Head(b)>> \o Tail(b))
  BY SMTT(30), <1>1, <1>2, ConcatAssoc
<1> QED
  BY <1>1, <1>2, <1>3, ZenonT(30)

LEMMA AppendConcat ==
  ASSUME NEW U, NEW a \in Seq(U), NEW b \in Seq(U), NEW e \in U
  PROVE  a \o Append(b, e) = Append(a \o b, e)
<1> DEFINE last == <<e>>
<1>1. last \in Seq(U) /\ Append(b, e) = b \o last /\ a \o b \in Seq(U)
  BY AppendIs, SeqConcat
<1>2. Append(a \o b, e) = (a \o b) \o last
  BY <1>1, AppendIs, ZenonT(30)
<1> HIDE DEF last
<1>3. (a \o b) \o last = a \o (b \o last)
  BY SMTT(30), <1>1, ConcatAssoc
<1> QED
  BY <1>1, <1>2, <1>3, ZenonT(30)

\* With nothing to work through the device rests.
LEMMA Rests ==
  ASSUME DeviceTypes, Dev, Work(<<>>)
  PROVE  Work(<<>>)' /\ Settled
<1>1. in = <<>> /\ (pc = "cmd" \/ (pc = "fetch" /\ sent = conf.numberOfSamples))
  <2>1. <<cmd>> \o args \o in # <<>>
    <3>1. <<cmd>> \in Seq(Bytes) /\ args \in Seq(Bytes) /\ in \in Seq(Bytes)
      BY DEF DeviceTypes, IInv, Parsing
    <3>2. <<cmd>> \o args \in Seq(Bytes) /\ <<cmd>> \o args # <<>>
      BY <3>1, SeqConcat, ConcatIsNone
    <3> QED
      BY <3>1, <3>2, ConcatIsNone
  <2> QED
    BY <2>1, ZenonT(30) DEF Work
<1>2. conf.numberOfSamples \in Nat /\ sent \in Nat
  BY DEF DeviceTypes, IInv, Confs, FInv, Line
<1>3. CASE EndFetch
  BY <1>1, <1>3, ZenonT(30) DEF EndFetch, Loop, Work, Settled, lineVars, setVars
<1>4. CASE Edge \/ Convert
  BY <1>1, <1>4, ZenonT(30) DEF Edge, Convert, Work, Settled, mainVars, lineVars, setVars
<1> QED
  BY <1>1, <1>2, <1>3, <1>4
  DEF Dev, MainStep, GetCommand, GetArgument, Test, SetSamples, SetGain, SetPrescaler, Calibrate, SetBits12,
      SetConf, Power, Invalid, Exec, Prepare, Ready, WaitReturn, Read, Glitch, Reply, StartFetch, FetchByte

\* Otherwise it reads on in the first command, or it has all of it and carries
\* it out.
LEMMA Advances ==
  ASSUME DeviceTypes, Dev, NEW c, Command(c), NEW v \in Seq(Bytes), Work(c \o v)
  PROVE  \/ Work(c \o v)' /\ Settled
         \/ pc = "exec" /\ Has(c) /\ cmd = c[1] /\ in = v /\ MainStep
<1> USE ZenonT(30)
<1> DEFINE w == c \o v
<1>0. /\ <<cmd>> \in Seq(Bytes) /\ args \in Seq(Bytes) /\ in \in Seq(Bytes) /\ cmd \in Bytes
      /\ c \in Seq(Bytes) /\ w \in Seq(Bytes) /\ w # <<>>
  BY SMTT(30), SeqConcat, ConcatIsNone DEF DeviceTypes, IInv, Parsing, Command
<1>1. CASE Edge \/ Convert
  BY <1>1 DEF Edge, Convert, Work, Settled, mainVars, lineVars, setVars
<1>2. CASE pc = "cmd" /\ MainStep
  <2>1. GetCommand /\ in = w
    BY <1>2 DEF Work, MainStep, GetArgument, Test, SetSamples, SetGain, SetPrescaler, Calibrate,
       SetBits12,
         SetConf, Power, Invalid, Exec, Prepare, Ready, WaitReturn, Read, Glitch, Reply, StartFetch, FetchByte,
         EndFetch
  <2>2. args' = <<>> /\ cmd' = Head(w) /\ in' = Tail(w) /\ pc' \in {"args", "exec"} /\ Settled
    BY <1>2, <2>1 DEF GetCommand, Settled, setVars, DeviceTypes, IInv, Parsing
  <2>3. Head(w) \in Bytes /\ Tail(w) \in Seq(Bytes) /\ w = <<Head(w)>> \o Tail(w)
    BY SMTT(30), <1>0, SeqHeadTail
  <2>4. <<cmd'>> \o args' = <<Head(w)>>
    BY SMTT(30), <2>2, <2>3, ConcatNone
  <2> HIDE DEF w
  <2>5. <<cmd'>> \o args' \o in' = w
    BY <2>2, <2>3, <2>4
  <2> QED
    BY <2>2, <2>5 DEF Work, w
<1>3. CASE pc = "fetch" /\ MainStep
  <2>1. sent = conf.numberOfSamples /\ in = w
    BY <1>3 DEF Work
  <2>2. EndFetch
    BY SMTT(30), <1>3, <2>1 DEF MainStep, GetCommand, GetArgument, Test, SetSamples, SetGain, SetPrescaler, Calibrate,
         SetBits12, SetConf, Power, Invalid, Exec, Prepare, Ready, WaitReturn, Read, Glitch, Reply, StartFetch,
         FetchByte, DeviceTypes, IInv, Confs
  <2> QED
    BY <2>1, <2>2 DEF EndFetch, Loop, Work, Settled, lineVars, setVars
<1>4. CASE pc = "args" /\ MainStep
  <2>1. GetArgument /\ <<cmd>> \o args \o in = w
    BY <1>4 DEF Work, MainStep, GetCommand, Test, SetSamples, SetGain, SetPrescaler, Calibrate,
       SetBits12,
         SetConf, Power, Invalid, Exec, Prepare, Ready, WaitReturn, Read, Glitch, Reply, StartFetch, FetchByte,
         EndFetch
  <2>2. /\ args' = Append(args, Head(in)) /\ cmd' = cmd /\ in' = Tail(in) /\ in # <<>>
        /\ pc' \in {"args", "exec"} /\ Settled
    BY <2>1 DEF GetArgument, Settled, setVars
  <2>3. Head(in) \in Bytes /\ Tail(in) \in Seq(Bytes) /\ <<cmd>> \o args \in Seq(Bytes)
    BY <1>0, <2>2, SeqHeadTail, SeqConcat
  <2>4. <<cmd>> \o Append(args, Head(in)) = Append(<<cmd>> \o args, Head(in))
    BY SMTT(30), <1>0, <2>3, AppendConcat
  <2>5. Append(<<cmd>> \o args, Head(in)) \o Tail(in) = <<cmd>> \o args \o in
    BY <1>0, <2>2, <2>3, MoveByte
  <2> QED
    BY <2>1, <2>2, <2>4, <2>5 DEF Work
<1>5. CASE pc = "exec" /\ MainStep
  <2>1. <<cmd>> \o args \o in = c \o v /\ Len(args) = NArgs(cmd)
    BY <1>5 DEF Work, DeviceTypes, IInv, Parsing
  <2>2. <<cmd>> \o args \in Seq(Bytes) /\ Len(<<cmd>> \o args) = 1 + Len(args) /\ (<<cmd>> \o args)[1] = cmd
    BY SMTT(30), <1>0, SeqConcat
  <2>3. (<<cmd>> \o args \o in)[1] = cmd
    <3>1. 1 \in 1 .. Len(<<cmd>> \o args) + Len(in) /\ 1 <= Len(<<cmd>> \o args)
      BY SMTT(30), <1>0, <2>2, SeqLen
    <3> QED
      BY <1>0, <2>2, <3>1, SeqConcat
  <2>4. (c \o v)[1] = c[1]
    <3>1. Len(c) \in Nat \ {0} /\ Len(v) \in Nat
      BY <1>0, SeqLen, SeqEmpty DEF Command
    <3>2. 1 \in 1 .. Len(c) + Len(v) /\ 1 <= Len(c)
      BY SMTT(30), <3>1
    <3> QED
      BY SMTT(30), <1>0, <3>2, SeqConcat
  <2>5. Len(<<cmd>> \o args) = Len(c)
    BY <2>1, <2>2, <2>3, <2>4 DEF Command, NArgs
  <2>6. <<cmd>> \o args = c /\ in = v
    BY <1>0, <2>1, <2>2, <2>5, SameSplit
  <2> QED
    BY <1>5, <2>1, <2>3, <2>4, <2>6 DEF Has
<1> QED
  BY <1>1, <1>2, <1>3, <1>4, <1>5 DEF Dev, Work

-----------------------------------------------------------------------------
(***************************************************************************)
(* What each command does, and what it answers.                            *)
(***************************************************************************)
LEMMA Picks ==
  ASSUME pc = "exec", MainStep
  PROVE  \/ cmd \in {Ch.T, Ch.t} /\ Test
         \/ cmd = Ch.n /\ SetSamples
         \/ cmd = Ch.g /\ SetGain
         \/ cmd = Ch.c /\ SetPrescaler
         \/ cmd = Ch.b /\ Calibrate
         \/ cmd = Ch.eight /\ SetBits12
         \/ cmd \in {Ch.w, Ch.l, Ch.e, Ch.p} /\ SetConf
         \/ cmd \in {Ch.x, Ch.y} /\ Power
         \/ cmd \notin Known /\ Invalid
         \/ cmd \in {Ch.d, Ch.f, Ch.h} /\ Prepare
         \/ cmd = Ch.s /\ StartFetch
  BY DEF MainStep, GetCommand, GetArgument, Test, SetSamples, SetGain, SetPrescaler, Calibrate, SetBits12,
         SetConf, Power, Invalid, Exec, Prepare, Ready, WaitReturn, Read, Glitch, Reply, StartFetch, FetchByte,
         EndFetch

LEMMA DoesTest ==
  ASSUME pc = "exec", MainStep, cmd = Ch.t
  PROVE  Test
<1>1. cmd \in Known
  BY Distinct, ZenonT(30)
<1> QED
  BY <1>1, Picks DEF Ch

LEMMA DoesConf ==
  ASSUME pc = "exec", MainStep, cmd \in {Ch.w, Ch.l, Ch.p}
  PROVE  SetConf
<1>1. cmd \in Known
  BY Distinct, ZenonT(30)
<1> QED
  BY <1>1, Picks DEF Ch

LEMMA DoesSetting ==
  ASSUME pc = "exec", MainStep
  PROVE  /\ cmd = Ch.n => SetSamples
         /\ cmd = Ch.c => SetPrescaler
         /\ cmd = Ch.eight => SetBits12
         /\ cmd = Ch.b => Calibrate
         /\ cmd = Ch.g => SetGain
<1>1. {Ch.n, Ch.c, Ch.eight, Ch.b, Ch.g} \subseteq Known
  BY Distinct, ZenonT(30)
<1> QED
  BY <1>1, Picks DEF Ch

LEMMA DoesPrepare ==
  ASSUME pc = "exec", MainStep, cmd \in {Ch.d, Ch.h}
  PROVE  Prepare
<1>1. cmd \in Known
  BY Distinct, ZenonT(30)
<1> QED
  BY <1>1, Picks DEF Ch

LEMMA DoesFetch ==
  ASSUME pc = "exec", MainStep, cmd = Ch.s
  PROVE  StartFetch
<1>1. cmd \in Known
  BY Distinct, ZenonT(30)
<1> QED
  BY <1>1, Picks DEF Ch

LEMMA ShortOf ==
  ASSUME DeviceTypes, NEW c \in Seq(Bytes), Has(c), NEW v \in Words, Len(c) = 3, c[2] = v \div 256, c[3] = v % 256
  PROVE  Short = v
<1> USE ZenonT(30)
<1>1. args \in Seq(Bytes)
  BY DEF DeviceTypes, IInv, Parsing
<1>2. Len(args) = 2
  <2>1. 3 = 1 + Len(args)
    BY ArgsOf
  <2>2. \A n \in Nat : 3 = 1 + n => n = 2
    BY SMTT(30)
  <2>3. Len(args) \in Nat
    BY <1>1, SeqLen
  <2> QED
    BY <2>1, <2>2, <2>3
<1>3. args[1] = c[1 + 1] /\ args[2] = c[2 + 1]
  BY SMTT(30), <1>1, <1>2, ArgsOf
<1>4. (v \div 256) * 256 + (v % 256) = v
  BY WordBytes
<1> QED
  BY <1>3, <1>4, SMT DEF Short

LEMMA CharOf ==
  ASSUME DeviceTypes, NEW c \in Seq(Bytes), Has(c), Len(c) = 2
  PROVE  args[1] = c[2]
<1>1. args \in Seq(Bytes)
  BY ZenonT(30) DEF DeviceTypes, IInv, Parsing
<1>2. Len(args) = 1
  <2> USE ZenonT(30)
  <2>1. 2 = 1 + Len(args)
    BY ArgsOf
  <2>2. \A n \in Nat : 2 = 1 + n => n = 1
    BY SMTT(30)
  <2>3. Len(args) \in Nat
    BY <1>1, SeqLen
  <2> QED
    BY <2>1, <2>2, <2>3
<1> QED
  BY <1>1, <1>2, ArgsOf

LEMMA AfterStep ==
  ASSUME DeviceTypes, Dev, NEW o, After(o, <<>>)
  PROVE  After(o, <<>>)' /\ Settled
  BY Rests, ZenonT(30) DEF After, Settled

LEMMA InCommandStep ==
  ASSUME DeviceTypes, Dev, dtr, NEW c \in {Ch.d, Ch.h}, NEW o, NEW w, InCommand(c, o, w)
  PROVE  /\ UNCHANGED <<conf, adc, power>>
         /\ \/ InCommand(c, o, w)' /\ Settled
            \/ \E a \in {"d", "e"} :
                  /\ pc = "reply" /\ (a = "d" => ~timedOut)
                  /\ After(Append(o, a), w)' /\ pc' = "cmd" /\ out' = Append(o, a)
<1> USE ZenonT(30)
<1> USE DEF InCommand, Settled
<1>0. c # Ch.f /\ cmd = c /\ out = o /\ in = w
  BY SMTT(30) DEF Ch
<1>1. CASE WaitReturn
  BY <1>1 DEF WaitReturn, setVars, lineVars
<1>2. CASE Read
  BY <1>2 DEF Read, setVars, lineVars
<1>3. CASE Glitch
  BY <1>3 DEF Glitch, setVars, lineVars
<1>4. CASE Reply
  <2>1. PICK a \in {"d", "e"} : a = Result /\ (a = "d" => ~timedOut)
    BY <1>0 DEF Result
  <2>2. out' = Append(o, a) /\ pc' = "cmd" /\ in' = w /\ UNCHANGED <<conf, adc, power>> /\ pc = "reply"
    BY <1>0, <1>4, <2>1 DEF Reply, Answer, Put, Loop, setVars
  <2>3. After(Append(o, a), w)'
    BY <2>2 DEF After, Work
  <2> QED
    BY <2>1, <2>2, <2>3
<1>5. CASE Edge \/ Convert
  BY <1>5 DEF Edge, Convert, mainVars, lineVars, setVars
<1> QED
  BY <1>1, <1>2, <1>3, <1>4, <1>5
  DEF Dev, MainStep, GetCommand, GetArgument, Test, SetSamples, SetGain, SetPrescaler, Calibrate, SetBits12,
      SetConf, Power, Invalid, Exec, Prepare, Ready, StartFetch, FetchByte, EndFetch

LEMMA AnswersStep ==
  ASSUME DeviceTypes, Dev, dtr, NEW c \in {Ch.d, Ch.h}, Answers(c)
  PROVE  Answers(c)' /\ UNCHANGED <<conf, adc, power>>
<1> USE ZenonT(30)
<1>1. CASE InCommand(c, <<>>, <<>>)
  <2>1. /\ UNCHANGED <<conf, adc, power>>
        /\ InCommand(c, <<>>, <<>>)' \/ \E a \in {"d", "e"} : After(Append(<<>>, a), <<>>)'
    BY <1>1, InCommandStep
  <2>2. \A a : Append(<<>>, a) = <<a>>
    BY Singles
  <2> QED
    BY <2>1, <2>2 DEF Answers
<1>2. ASSUME NEW a \in {"d", "e"}, After(<<a>>, <<>>)
      PROVE  After(<<a>>, <<>>)' /\ UNCHANGED <<conf, adc, power>>
  BY <1>2, AfterStep DEF Settled
<1> QED
  BY <1>1, <1>2 DEF Answers

\* The first byte of such a command is read, and it is got ready.
LEMMA FirstByte ==
  ASSUME DeviceTypes, Dev, NEW c \in {Ch.d, Ch.h, Ch.s}, NEW o, After(o, <<c>>)
  PROVE  /\ UNCHANGED <<conf, adc, power>>
         /\ \/ After(o, <<c>>)'
            \/ pc = "exec" /\ cmd = c /\ in = <<>> /\ MainStep /\ out' = o
               /\ (IF c = Ch.s THEN StartFetch ELSE Prepare)
<1> USE ZenonT(30)
<1> DEFINE b == <<c>>
           none == <<>>
<1>1. Command(b) /\ b \in Seq(Bytes) /\ b[1] = c
  BY WaitCommand DEF Command
<1>2. b \o none = b /\ none \in Seq(Bytes)
  BY SMTT(30), <1>1, ConcatNone
<1> HIDE DEF b, none
<1>3. out = o /\ Work(b \o none)
  BY <1>2 DEF After, b
<1>4. \/ Work(b \o none)' /\ Settled
      \/ pc = "exec" /\ Has(b) /\ cmd = b[1] /\ in = none /\ MainStep
  BY <1>1, <1>2, <1>3, Advances
<1>5. CASE Work(b \o none)' /\ Settled
  <2>1. Work(b)'
    BY <1>2, <1>5
  <2> QED
    BY <1>3, <1>5, <2>1 DEF After, Settled, b
<1>6. CASE pc = "exec" /\ Has(b) /\ cmd = b[1] /\ in = none /\ MainStep
  <2>1. CASE c = Ch.s
    <3>1. StartFetch
      BY <1>1, <1>6, <2>1, DoesFetch
    <3> QED
      BY <1>1, <1>3, <1>6, <2>1, <3>1 DEF StartFetch, lineVars, setVars, none
  <2>2. CASE c # Ch.s
    <3>1. Prepare
      BY <1>1, <1>6, <2>2, DoesPrepare
    <3> QED
      BY <1>1, <1>3, <1>6, <2>2, <3>1 DEF Prepare, lineVars, setVars, none
  <2> QED
    BY <2>1, <2>2
<1> QED
  BY <1>4, <1>5, <1>6

LEMMA WaitsStep ==
  ASSUME DeviceTypes, Dev, dtr, NEW c \in {Ch.d, Ch.h}, NEW o, Waits(c, o)
  PROVE  Waits(c, o)' /\ UNCHANGED <<conf, adc, power>>
<1> USE ZenonT(30)
<1>1. CASE After(o, <<c>>)
  <2>1. /\ UNCHANGED <<conf, adc, power>>
        /\ \/ After(o, <<c>>)'
           \/ pc = "exec" /\ cmd = c /\ in = <<>> /\ Prepare /\ out' = o
    BY SMTT(30), <1>1, FirstByte DEF Ch
  <2>2. CASE pc = "exec" /\ cmd = c /\ in = <<>> /\ Prepare /\ out' = o
    BY <2>1, <2>2 DEF Prepare, lineVars, Waits
  <2> QED
    BY <2>1, <2>2 DEF Waits
<1>2. CASE pc = "ready" /\ cmd = c /\ out = o /\ in = <<>>
  <2>1. CASE Ready
    <3>1. pc' = "wait" /\ cmd' = c /\ in' = <<>> /\ out' = Append(o, "r") /\ UNCHANGED <<conf, adc, power>>
      BY <1>2, <2>1 DEF Ready, Put, setVars
    <3> QED
      BY <3>1 DEF Waits, InCommand
  <2>2. CASE Edge \/ Convert
    BY <1>2, <2>2 DEF Edge, Convert, mainVars, lineVars, setVars, Waits
  <2> QED
    BY <1>2, <2>1, <2>2
    DEF Dev, MainStep, GetCommand, GetArgument, Test, SetSamples, SetGain, SetPrescaler, Calibrate, SetBits12,
        SetConf, Power, Invalid, Exec, Prepare, WaitReturn, Read, Glitch, Reply, StartFetch, FetchByte, EndFetch
<1>3. CASE InCommand(c, Append(o, "r"), <<>>)
  BY <1>3, InCommandStep DEF Waits
<1>4. ASSUME NEW a \in {"d", "e"}, After(Append(Append(o, "r"), a), <<>>)
      PROVE  After(Append(Append(o, "r"), a), <<>>)' /\ UNCHANGED <<conf, adc, power>>
  BY <1>4, AfterStep DEF Settled
<1> QED
  BY <1>1, <1>2, <1>3, <1>4 DEF Waits

\* Each setting is carried out and answered; the others stay.
LEMMA SettingDone ==
  ASSUME DeviceTypes, self \in Selfs, dtr, pc = "exec", MainStep, UNCHANGED self, out = <<>>, in = <<>>,
         NEW j \in 1 .. 6, Has(Settings[j]), cmd = Settings[j][1]
  PROVE  /\ pc' = "cmd" /\ in' = <<>>
         /\ \/ /\ out' = <<"d">> /\ Holds(j)'
               /\ \A i \in 1 .. 6 : i # j /\ Holds(i) => Holds(i)'
            \/ out' = <<"text">> /\ j = 1 /\ self.numSamples > BufSize
<1> USE ZenonT(30)
<1>0. conf \in Confs /\ adc \in AdcTypes /\ \A r : Append(<<>>, r) = <<r>>
  BY Singles DEF DeviceTypes, IInv
<1> USE DEF Answer, Put, Loop
<1>1. CASE j = 1
  <2>1. WordArg(Settings[1], Ch.n, self.numSamples) /\ self.numSamples \in Words
    BY SettingIs DEF Selfs
  <2>2. SetSamples
    BY <1>1, <2>1, DoesSetting DEF WordArg
  <2>3. Short = self.numSamples
    BY <1>1, <2>1, ShortOf DEF WordArg, Command
  <2>4. self.numSamples \in Nat /\ BufSize \in Nat
    BY SMTT(30), <2>1, WordBound, SizesAssumption
  <2>5. CASE self.numSamples > BufSize
    <3>1. out' = <<"text">> /\ pc' = "cmd" /\ in' = <<>>
      BY <1>0, <2>2, <2>3, <2>5 DEF SetSamples
    <3> QED
      BY <1>1, <2>5, <3>1
  <2>6. CASE ~(self.numSamples > BufSize)
    <3>1. out' = <<"d">> /\ pc' = "cmd" /\ in' = <<>>
      BY <1>0, <2>2, <2>3, <2>6 DEF SetSamples
    <3>2. conf' = [conf EXCEPT !.numberOfSamples = self.numSamples] /\ adc' = adc
      BY <2>2, <2>3, <2>6 DEF SetSamples
    <3>3. Holds(1)' /\ \A i \in 1 .. 6 : i # 1 /\ Holds(i) => Holds(i)'
      BY SMTT(30), <1>0, <3>2 DEF Holds, Confs
    <3> QED
      BY <1>1, <3>1, <3>3
  <2> QED
    BY <2>5, <2>6
<1>2. CASE j = 2
  <2>1. ByteArg(Settings[2], Ch.c, self.clockDivider) /\ self.clockDivider \in 0 .. 7
    BY SettingIs DEF Selfs
  <2>2. SetPrescaler
    BY <1>2, <2>1, DoesSetting DEF ByteArg
  <2>3. args[1] = self.clockDivider
    BY <1>2, <2>1, CharOf DEF ByteArg, Command
  <2>4. args[1] % 8 = self.clockDivider
    BY SMTT(30), <2>1, <2>3
  <2>5. out' = <<"d">> /\ pc' = "cmd" /\ in' = <<>>
    BY <1>0, <2>2 DEF SetPrescaler
  <2>6. adc' = [adc EXCEPT !.prescaler = self.clockDivider] /\ conf' = conf
    BY <2>2, <2>4 DEF SetPrescaler
  <2>7. Holds(2)' /\ \A i \in 1 .. 6 : i # 2 /\ Holds(i) => Holds(i)'
    BY SMTT(30), <1>0, <2>6 DEF Holds, AdcTypes
  <2> QED
    BY <1>2, <2>5, <2>7
<1>3. CASE j = 3
  <2>1. ByteArg(Settings[3], Ch.eight, IF self.bits12 THEN 1 ELSE 0) /\ self.bits12 \in BOOLEAN
    BY SettingIs DEF Selfs
  <2>2. SetBits12
    BY <1>3, <2>1, DoesSetting DEF ByteArg
  <2>3. args[1] = IF self.bits12 THEN 1 ELSE 0
    BY <1>3, <2>1, CharOf DEF ByteArg, Command
  <2>4. (args[1] % 2 = 1) = self.bits12
    <3>1. 1 % 2 = 1 /\ 0 % 2 = 0
      BY SMTT(30)
    <3> QED
      BY SMTT(30), <2>1, <2>3, <3>1
  <2>5. out' = <<"d">> /\ pc' = "cmd" /\ in' = <<>>
    BY <1>0, <2>2 DEF SetBits12
  <2>6. conf' = [conf EXCEPT !.bits12 = self.bits12] /\ adc' = adc
    BY <2>2, <2>4 DEF SetBits12
  <2>7. Holds(3)' /\ \A i \in 1 .. 6 : i # 3 /\ Holds(i) => Holds(i)'
    BY SMTT(30), <1>0, <2>6 DEF Holds, Confs
  <2> QED
    BY <1>3, <2>5, <2>7
<1>4. CASE j = 4
  <2>1. WordArg(Settings[4], Ch.b, self.bias) /\ self.bias \in Words
    BY SettingIs DEF Selfs
  <2>2. Calibrate
    BY <1>4, <2>1, DoesSetting DEF WordArg
  <2>3. Short = self.bias
    BY <1>4, <2>1, ShortOf DEF WordArg, Command
  <2>4. out' = <<"d">> /\ pc' = "cmd" /\ in' = <<>>
    BY <1>0, <2>2 DEF Calibrate
  <2>5. adc' = [adc EXCEPT !.cal = self.bias] /\ conf' = conf
    BY <2>2, <2>3 DEF Calibrate
  <2>6. Holds(4)' /\ \A i \in 1 .. 6 : i # 4 /\ Holds(i) => Holds(i)'
    BY SMTT(30), <1>0, <2>5 DEF Holds, AdcTypes
  <2> QED
    BY <1>4, <2>4, <2>6
<1>5. CASE j = 5
  <2>1. ByteArg(Settings[5], Ch.g, self.gain)
    BY SettingIs
  <2>2. SetGain
    BY <1>5, <2>1, DoesSetting DEF ByteArg
  <2>3. out' = <<"d">> /\ pc' = "cmd" /\ in' = <<>>
    BY <1>0, <2>2 DEF SetGain
  <2>4. conf' = conf /\ adc'.prescaler = adc.prescaler /\ adc'.cal = adc.cal
    BY <1>0, <2>2 DEF SetGain, AdcTypes
  <2>5. Holds(5)' /\ \A i \in 1 .. 6 : i # 5 /\ Holds(i) => Holds(i)'
    BY SMTT(30), <2>4 DEF Holds
  <2> QED
    BY <1>5, <2>3, <2>5
<1>6. CASE j = 6
  <2>1. WordArg(Settings[6], Ch.w, self.delay) /\ self.delay \in Words
    BY SettingIs DEF Selfs
  <2>2. SetConf /\ cmd = Ch.w
    BY <1>6, <2>1, DoesConf DEF WordArg
  <2>3. Short = self.delay
    BY <1>6, <2>1, ShortOf DEF WordArg, Command
  <2>4. out' = <<"d">> /\ pc' = "cmd" /\ in' = <<>>
    BY <1>0, <2>2 DEF SetConf
  <2>5. conf' = [conf EXCEPT !.delay = self.delay] /\ adc' = adc
    BY SMTT(30), <2>2, <2>3 DEF SetConf, Ch
  <2>6. Holds(6)' /\ \A i \in 1 .. 6 : i # 6 /\ Holds(i) => Holds(i)'
    BY SMTT(30), <1>0, <2>5 DEF Holds, Confs
  <2> QED
    BY <1>6, <2>4, <2>6
<1>7. j = 1 \/ j = 2 \/ j = 3 \/ j = 4 \/ j = 5 \/ j = 6
  BY SMTT(30)
<1> QED
  BY <1>1, <1>2, <1>3, <1>4, <1>5, <1>6, <1>7

LEMMA SettingStep ==
  ASSUME DeviceTypes, self \in Selfs, dtr, Dev, UNCHANGED self, NEW j \in 1 .. 6, After(<<>>, Settings[j])
  PROVE  \/ After(<<>>, Settings[j])' /\ UNCHANGED <<conf, adc>>
         \/ /\ After(<<"d">>, <<>>)' /\ Holds(j)'
            /\ \A i \in 1 .. 6 : i # j /\ Holds(i) => Holds(i)'
         \/ After(<<"text">>, <<>>)' /\ j = 1 /\ self.numSamples > BufSize
<1> USE ZenonT(30)
<1>1. PICK c : c = Settings[j]
  OBVIOUS
<1>2. c = Settings'[j]
  BY <1>1 DEF Settings
<1> DEFINE none == <<>>
<1>3. Command(c) /\ c \in Seq(Bytes) /\ c \o none = c /\ none \in Seq(Bytes)
  <2>1. Command(c)
    BY <1>1, SettingCommand
  <2>2. c \in Seq(Bytes)
    BY <2>1 DEF Command
  <2> QED
    BY SMTT(30), <2>1, <2>2, ConcatNone
<1> HIDE DEF none
<1>4. out = <<>> /\ Work(c \o none)
  BY <1>1, <1>3 DEF After
<1>5. \/ Work(c \o none)' /\ Settled
      \/ pc = "exec" /\ Has(c) /\ cmd = c[1] /\ in = none /\ MainStep
  BY <1>3, <1>4, Advances
<1>6. CASE Work(c \o none)' /\ Settled
  <2>1. Work(c)' /\ out' = <<>>
    BY <1>3, <1>4, <1>6 DEF Settled
  <2>2. After(<<>>, Settings[j])'
    BY <1>2, <2>1 DEF After
  <2> QED
    BY <1>6, <2>2 DEF Settled
<1>7. CASE pc = "exec" /\ Has(c) /\ cmd = c[1] /\ in = none /\ MainStep
  <2>1. /\ pc' = "cmd" /\ in' = <<>>
        /\ \/ /\ out' = <<"d">> /\ Holds(j)'
              /\ \A i \in 1 .. 6 : i # j /\ Holds(i) => Holds(i)'
           \/ out' = <<"text">> /\ j = 1 /\ self.numSamples > BufSize
    BY <1>1, <1>4, <1>7, SettingDone DEF none
  <2> QED
    BY <2>1 DEF After, Work
<1> QED
  BY <1>5, <1>6, <1>7

LEMMA FetchSample ==
  ASSUME DeviceTypes, FetchByte
  PROVE  /\ \E byte \in Samples : out' = Append(out, byte)
         /\ sent' = sent + 1 /\ sent < conf.numberOfSamples
         /\ UNCHANGED <<pc, cmd, args, in, conf, adc, power>>
<1> USE ZenonT(30)
<1>1. sent \in Nat /\ conf.numberOfSamples \in 0 .. BufSize /\ BufSize \in Nat
  BY SizesAssumption DEF DeviceTypes, FInv, Line, IInv, Confs
<1>2. sent < conf.numberOfSamples /\ dtr
  BY DEF FetchByte
<1>3. sent \in 0 .. BufSize - 1 /\ sent < BufSize
  BY SMTT(30), <1>1, <1>2
<1>4. scopeBuf[sent] \in Samples
  BY <1>3 DEF DeviceTypes, Acq!TypeOK, Acq!Offsets, Samples
<1> QED
  BY <1>2, <1>3, <1>4 DEF FetchByte, Put, mainVars, setVars

\* A step of the device in put_buf.
LEMMA InFetch ==
  ASSUME DeviceTypes, Dev, pc = "fetch"
  PROVE  \/ FetchByte
         \/ EndFetch
         \/ UNCHANGED <<pc, cmd, args, in, out, sent, conf, adc, power>>
  BY ZenonT(30) DEF Dev, MainStep, GetCommand, GetArgument, Test, SetSamples, SetGain, SetPrescaler, Calibrate,
     SetBits12,
         SetConf, Power, Invalid, Exec, Prepare, Ready, WaitReturn, Read, Glitch, Reply, StartFetch, Edge,
         Convert, mainVars, setVars, lineVars

LEMMA AtTop ==
  ASSUME DeviceTypes, Dev, pc = "cmd"
  PROVE  \/ GetCommand
         \/ UNCHANGED <<pc, cmd, args, in, out, sent, conf, adc, power>>
  BY ZenonT(30) DEF Dev, MainStep, GetArgument, Test, SetSamples, SetGain, SetPrescaler, Calibrate, SetBits12,
         SetConf, Power, Invalid, Exec, Prepare, Ready, WaitReturn, Read, Glitch, Reply, StartFetch, FetchByte,
         EndFetch, Edge, Convert, mainVars, setVars, lineVars

LEMMA ReconnectionDev == Base /\ Dev /\ UNCHANGED hostVars /\ Reconnection => Reconnection'
\* -------- Late samples.
<1> USE ZenonT(30)
<1>OutGrows.
  ASSUME DeviceTypes, Dev
  PROVE  out' = out \/ \E byte \in Sent : out' = Append(out, byte)
  <2> USE <1>OutGrows
  <2>1. CASE Test \/ SetSamples \/ SetGain \/ SetPrescaler \/ Calibrate \/ SetBits12 \/ SetConf
             \/ Power \/ Invalid \/ Reply
    <3>1. PICK byte \in Sent : Put(byte)
      BY <2>1 DEF Test, SetSamples, SetGain, SetPrescaler, Calibrate, SetBits12, SetConf, Power,
         Invalid, Reply,
                  Result, Answer, Sent
    <3> QED
      BY <3>1 DEF Put
  <2>2. CASE Ready
    BY <2>2 DEF Ready, Put, Sent
  <2>3. CASE FetchByte
    <3>1. PICK byte \in Sent : Put(byte)
      <4>1. sent < BufSize => scopeBuf[sent] \in Sent
        BY SMTT(30), SizesAssumption DEF DeviceTypes, FInv, Line, Acq!TypeOK, Acq!Offsets, Sent
      <4> QED
        BY <2>3, <4>1 DEF FetchByte, Sent
    <3> QED
      BY <3>1 DEF Put
  <2>4. CASE UNCHANGED out
    BY <2>4
  <2> QED
    BY <2>1, <2>2, <2>3, <2>4
    DEF Dev, MainStep, GetCommand, GetArgument, Prepare, WaitReturn, Read, Glitch, StartFetch, EndFetch, Edge,
        Convert, lineVars
<1>OutKeeps.
  ASSUME DeviceTypes, Dev
  PROVE  Len(out) <= Len(out') /\ \A i \in 1 .. Len(out) : out'[i] = out[i]
  <2> USE <1>OutKeeps
  <2>1. out \in Seq(Sent) /\ Len(out) \in Nat
    BY SeqLen DEF DeviceTypes, FInv, Line
  <2>2. CASE out' = out
    BY SMTT(30), <2>1, <2>2
  <2>3. ASSUME NEW byte \in Sent, out' = Append(out, byte)
        PROVE  Len(out) <= Len(out') /\ \A i \in 1 .. Len(out) : out'[i] = out[i]
    BY SMTT(30), <2>1, <2>3, SeqAppend
  <2> QED
    BY <2>2, <2>3, <1>OutGrows
<1>Executing.
  ASSUME DeviceTypes, Dev, pc = "exec"
  PROVE  \/ MainStep
         \/ UNCHANGED <<pc, cmd, args, in, out, sent, conf, adc, power>>
    BY <1>Executing DEF Dev, Edge, Convert, mainVars, setVars, lineVars
<1>BehindStep.
  ASSUME DeviceTypes, Dev, dtr, NEW b \in Nat, Behind(b)
  PROVE  Behind(b)'
  <2> USE <1>BehindStep
  <2>0. /\ out \in Seq(Sent) /\ Len(out) \in Nat /\ sent \in Nat /\ conf.numberOfSamples \in Nat
        /\ in \in Seq(Bytes)
    BY SMTT(30), SeqLen, SizesAssumption DEF DeviceTypes, FInv, Line, IInv, Parsing, Confs
  <2>1. ASSUME NEW a \in 0 .. b, a < Len(out), out[a + 1] = "T", \A i \in 1 .. a : out[i] \in Samples
        PROVE  Behind(b)'
    <3>1. Len(out) <= Len(out') /\ \A i \in 1 .. Len(out) : out'[i] = out[i]
      BY <1>OutKeeps
    <3>2. Len(out') \in Nat
      <4>1. out' \in Seq(Sent)
        BY DeviceTypesStep DEF DeviceTypes, FInv, Line
      <4> QED
        BY <4>1, SeqLen
    <3>3. a < Len(out') /\ a + 1 \in 1 .. Len(out) /\ 1 .. a \subseteq 1 .. Len(out)
      BY SMTT(30), <2>0, <2>1, <3>1, <3>2
    <3>4. out'[a + 1] = "T" /\ \A i \in 1 .. a : out'[i] \in Samples
      BY <2>1, <3>1, <3>3
    <3> QED
      BY <3>3, <3>4 DEF Behind
  <2> DEFINE Late == \A i \in 1 .. Len(out) : out[i] \in Samples
  <2>2. CASE Late /\ Len(out) <= b /\ pc = "exec" /\ cmd = Ch.t
    <3>1. CASE MainStep
      <4>1. Test
        BY <2>2, <3>1, DoesTest
      <4>2. out' = Append(out, "T") /\ "T" \in Sent
        BY <4>1 DEF Test, Answer, Put, Sent
      <4>3. Len(out) \in 0 .. b /\ Len(out) < Len(out') /\ out'[Len(out) + 1] = "T"
            /\ \A i \in 1 .. Len(out) : out'[i] \in Samples
        BY SMTT(30), <2>0, <2>2, <4>2, SeqAppend
      <4> QED
        BY <4>3 DEF Behind
    <3>2. CASE UNCHANGED <<pc, cmd, args, in, out, sent, conf, adc, power>>
      BY <3>2, <2>2 DEF Behind
    <3> QED
      BY <2>2, <3>1, <3>2, <1>Executing
  <2>3. CASE Late /\ Len(out) <= b /\ pc = "cmd" /\ in # <<>> /\ in[1] = Ch.t
    <3>1. CASE GetCommand
      <4>1. Head(in) = Ch.t
        BY SMTT(30), <2>0, <2>3
      <4>2. cmd' = Ch.t /\ pc' = "exec" /\ out' = out
        BY <3>1, <4>1, Distinct DEF GetCommand, NArgs
      <4> QED
        BY <2>3, <4>2 DEF Behind
    <3>2. CASE UNCHANGED <<pc, cmd, args, in, out, sent, conf, adc, power>>
      BY <3>2, <2>3 DEF Behind
    <3> QED
      BY <2>3, <3>1, <3>2, AtTop
  <2>4. CASE /\ Late /\ Len(out) + (conf.numberOfSamples - sent) <= b
             /\ pc = "fetch" /\ in # <<>> /\ in[1] = Ch.t
    <3>1. CASE FetchByte
      <4>1. PICK byte \in Samples : out' = Append(out, byte)
        BY <3>1, FetchSample
      <4>2. byte \in Sent
        BY DEF Samples, Sent
      <4>3. Len(out') = Len(out) + 1 /\ \A i \in 1 .. Len(out') : out'[i] \in Samples
        BY SMTT(30), <2>0, <2>4, <4>1, <4>2, SeqAppend
      <4>4. sent' = sent + 1 /\ UNCHANGED <<pc, in, conf>>
        BY <3>1, FetchSample
      <4>5. Len(out') + (conf'.numberOfSamples - sent') <= b
        BY SMTT(30), <2>0, <2>4, <4>3, <4>4
      <4> QED
        BY <2>4, <4>3, <4>4, <4>5 DEF Behind
    <3>2. CASE EndFetch
      <4>1. sent = conf.numberOfSamples /\ pc' = "cmd" /\ UNCHANGED <<in, out>>
        BY <3>2 DEF EndFetch, Loop, lineVars
      <4>2. Len(out) <= b
        BY SMTT(30), <2>0, <2>4, <4>1
      <4> QED
        BY <2>4, <4>1, <4>2 DEF Behind
    <3>3. CASE UNCHANGED <<pc, cmd, args, in, out, sent, conf, adc, power>>
      BY <2>4, <3>3 DEF Behind
    <3> QED
      BY <2>4, <3>1, <3>2, <3>3, InFetch
  <2> QED
    BY <2>1, <2>2, <2>3, <2>4 DEF Behind
<1>RestOfIn.
  ASSUME DeviceTypes, in # <<>>, in' = Tail(in), \A j \in 2 .. Len(in) : in[j] = Ch.t
  PROVE  AllOf(Ch.t)' /\ Head(in) = in[1] /\ (Len(in) > 1 => in' # <<>>)
  <2> USE <1>RestOfIn
  <2>1. /\ Len(in') = Len(in) - 1 /\ \A i \in 1 .. Len(in') : in'[i] = in[i + 1]
        /\ Len(in) \in Nat /\ Len(in) # 0
    BY SeqHeadTail, LineIs, SeqEmpty
  <2>2. ASSUME NEW i \in 1 .. Len(in') PROVE in'[i] = Ch.t
    <3>1. i + 1 \in 2 .. Len(in)
      BY SMTT(30), <2>1
    <3> QED
      BY <2>1, <3>1
  <2>3. Head(in) = in[1]
    BY SMTT(30), LineIs
  <2>4. Len(in) > 1 => Len(in') # 0
    BY SMTT(30), <2>1
  <2>5. in' = <<>> => Len(in') = 0
    BY SeqEmpty
  <2> QED
    BY <2>2, <2>3, <2>4, <2>5 DEF AllOf
<1>Fresh.
  ASSUME pc' = "cmd", AllOf(Ch.t)', self' \in Selfs, Len(out') \in Nat,
         \A i \in 1 .. Len(out') : out'[i] \in {"r", "d", "e", "text"}
  PROVE  Answering'
  <2> USE <1>Fresh
  <2>1. 0 \in 0 .. Len(out') /\ Room(0)' \in Nat /\ 0 <= Room(0)' /\ ~(0 > 0)
    <3>1. Room(0)' \in Nat
      BY SMTT(30), WordBound DEF Room, Selfs
    <3> QED
      BY SMTT(30), <3>1
  <2>2. \A i \in 1 .. 0 : out'[i] \in Samples
    BY SMTT(30)
  <2>3. \A i \in 0 + 1 .. Len(out') : out'[i] \notin Samples
    BY SMTT(30) DEF Samples
  <2>4. \A i, j \in 1 .. Len(out') : i < j /\ out'[i] = "T" => out'[j] = "T"
    OBVIOUS
  <2> QED
    BY <2>1, <2>2, <2>3, <2>4 DEF Answering, Between
<1>AnsweringStep.
  ASSUME Base, Dev, UNCHANGED hostVars, Answering
  PROVE  Answering'
  <2> USE <1>AnsweringStep
  <2> USE DEF Base
  <2>0. /\ out \in Seq(Sent) /\ Len(out) \in Nat /\ in \in Seq(Bytes) /\ Len(in) \in Nat
        /\ UNCHANGED <<script, self, hpc, val>> /\ self \in Selfs
        /\ hpc = "test" => dtr
    BY LineIs DEF hostVars, HostTypes
  <2>1. Room(0)' = Room(0) /\ Room(0) \in Nat
    BY <2>0, RoomIsNat DEF Room
  <2>2. CASE GetCommand /\ pc = "cmd"
    <3>1. /\ in # <<>> /\ cmd' = Head(in) /\ in' = Tail(in) /\ out' = out
          /\ pc' = IF NArgs(Head(in)) = 0 THEN "exec" ELSE "args"
      BY <2>2 DEF GetCommand
    <3>2. Len(in) # 0 /\ 1 \in 1 .. Len(in) /\ \A j \in 2 .. Len(in) : in[j] = Ch.t
      <4>1. Len(in) # 0
        BY <2>0, <3>1, SeqEmpty
      <4> QED
        BY SMTT(30), <2>0, <4>1 DEF Answering, AllOf
    <3>3. Head(in) = Ch.t /\ AllOf(Ch.t)'
      BY <3>1, <3>2, <1>RestOfIn DEF Answering, AllOf
    <3>4. pc' = "exec" /\ cmd' = Ch.t
      BY <3>1, <3>3, Distinct DEF NArgs
    <3> QED
      BY <2>0, <2>1, <3>1, <3>3, <3>4 DEF Answering
  <2>3. CASE MainStep /\ pc = "exec" /\ cmd = Ch.t
    <3>1. Test
      BY <2>3, DoesTest
    <3>2. pc' = "cmd" /\ in' = in /\ out' = IF dtr THEN Append(out, "T") ELSE out
      BY <3>1 DEF Test, Answer, Put, Loop
    <3>3. AllOf(Ch.t)'
      BY <3>2 DEF Answering, AllOf
    <3>4. CASE ~dtr
      BY <2>0, <2>1, <3>2, <3>3, <3>4 DEF Answering, Between
    <3>5. CASE dtr
      <4>0. "T" \in Sent /\ "T" \notin Samples
        BY DEF Sent, Samples
      <4>1. /\ Len(out') = Len(out) + 1 /\ \A i \in 1 .. Len(out) : out'[i] = out[i]
            /\ out'[Len(out) + 1] = "T"
        BY SMTT(30), <2>0, <3>2, <3>5, <4>0, SeqAppend
      <4>2. PICK a \in 0 .. Len(out) :
                /\ a <= Room(0)
                /\ \A i \in 1 .. a : out[i] \in Samples
                /\ \A i \in a + 1 .. Len(out) : out[i] \notin Samples /\ (a > 0 => out[i] = "T")
        BY DEF Answering
      <4>3. a \in 0 .. Len(out') /\ a < Len(out')
        BY SMTT(30), <2>0, <4>1
      <4>4. \A i \in 1 .. a : out'[i] \in Samples
        BY SMTT(30), <2>0, <4>1, <4>2
      <4>5. ASSUME NEW i \in a + 1 .. Len(out')
            PROVE  out'[i] \notin Samples /\ (a > 0 => out'[i] = "T")
        <5>1. i = Len(out) + 1 \/ i \in a + 1 .. Len(out)
          BY SMTT(30), <2>0, <4>1
        <5>2. i \in a + 1 .. Len(out) => i \in 1 .. Len(out)
          BY SMTT(30), <2>0
        <5> QED
          BY <4>0, <4>1, <4>2, <5>1, <5>2
      <4>6. ASSUME NEW i \in 1 .. Len(out'), NEW j \in 1 .. Len(out'), i < j, out'[i] = "T"
            PROVE  out'[j] = "T"
        <5>1. j = Len(out) + 1 \/ (i \in 1 .. Len(out) /\ j \in 1 .. Len(out))
          BY SMTT(30), <2>0, <4>1, <4>6
        <5> QED
          BY <4>1, <4>6, <5>1 DEF Answering
      <4> QED
        BY <2>1, <3>2, <3>3, <4>2, <4>3, <4>4, <4>5, <4>6 DEF Answering, Between
    <3> QED
      BY <3>4, <3>5
  <2>4. CASE UNCHANGED <<pc, cmd, args, in, out, sent, conf, adc, power>>
    BY <2>0, <2>1, <2>4 DEF Answering, AllOf, Between
  <2>5. CASE pc = "fetch" /\ sent = conf.numberOfSamples
    <3>1. ~FetchByte
      BY SMTT(30), <2>5, LineIs DEF FetchByte
    <3>2. CASE EndFetch
      <4>1. pc' = "cmd" /\ UNCHANGED <<in, out>>
        BY <3>2 DEF EndFetch, Loop, lineVars
      <4> QED
        BY <2>0, <2>1, <2>5, <4>1 DEF Answering, AllOf, Between
    <3> QED
      BY <2>4, <2>5, <3>1, <3>2, InFetch
  <2> QED
    BY <2>2, <2>3, <2>4, <2>5, AtTop, <1>Executing DEF Answering, Between
\* A setting changes in whatever way.
<1>Sets.
  ASSUME pc = "exec", MainStep, cmd \in Shorts \cup Chars
  PROVE  \E r \in {"d", "text"} : Answer(r)
  <2> USE <1>Sets
  <2>1. cmd \in Known /\ cmd \notin {Ch.T, Ch.t, Ch.d, Ch.s, Ch.f, Ch.h, Ch.x, Ch.y}
    BY Distinct DEF Shorts, Chars
  <2> QED
    BY <2>1, Picks DEF SetSamples, SetGain, SetPrescaler, Calibrate, SetBits12, SetConf
<1>SwallowingStep.
  ASSUME Base, Dev, UNCHANGED hostVars, Swallowing
  PROVE  Swallowing' \/ Answering'
  <2> USE <1>SwallowingStep
  <2> USE DEF Base
  <2>0. /\ out = <<>> /\ in \in Seq(Bytes) /\ Len(in) \in Nat /\ self' \in Selfs
    BY LineIs DEF hostVars, HostTypes, Swallowing
  <2>1. CASE GetArgument
    <3>1. in # <<>> /\ in' = Tail(in) /\ cmd' = cmd /\ out' = out /\ pc' \in {"args", "exec"}
      BY <2>1 DEF GetArgument
    <3>2. \A j \in 2 .. Len(in) : in[j] = Ch.t
      BY SMTT(30), <2>0 DEF Swallowing, AllOf
    <3> QED
      BY <3>1, <3>2, <1>RestOfIn DEF Swallowing
  <2>2. CASE MainStep /\ pc = "exec"
    <3>1. PICK r \in {"d", "text"} : Answer(r)
      BY <2>2, <1>Sets DEF Swallowing
    <3>2. pc' = "cmd" /\ in' = in /\ (out' = <<r>> \/ out' = <<>>)
      BY SMTT(30), <2>0, <3>1 DEF Answer, Put, Loop
    <3>3. Len(out') \in Nat /\ \A i \in 1 .. Len(out') : out'[i] \in {"r", "d", "e", "text"}
      BY SMTT(30), <3>2
    <3>4. AllOf(Ch.t)'
      BY <3>2 DEF Swallowing, AllOf
    <3> QED
      BY <2>0, <3>2, <3>3, <3>4, <1>Fresh
  <2>3. CASE UNCHANGED <<pc, cmd, args, in, out, sent, conf, adc, power>>
    BY <2>3 DEF Swallowing, AllOf
  <2>4. CASE pc = "args"
    BY <2>1, <2>3, <2>4
    DEF Dev, MainStep, GetCommand, Test, SetSamples, SetGain, SetPrescaler, Calibrate, SetBits12,
        SetConf, Power, Invalid, Exec, Prepare, Ready, WaitReturn, Read, Glitch, Reply, StartFetch, FetchByte,
        EndFetch, Edge, Convert, mainVars, setVars, lineVars
  <2> QED
    BY <2>2, <2>3, <2>4, <1>Executing DEF Swallowing
\* The first of what the device has been asked for is read.
<1>ReadsAsked.
  ASSUME DeviceTypes, Dev, Between, NEW c \in {Ch.d, Ch.s}, Asked(c)
  PROVE  /\ UNCHANGED <<out, conf>>
         /\ \/ Between' /\ in' = in
            \/ pc' = "exec" /\ cmd' = c /\ AllOf(Ch.t)' /\ (Len(in) > 1 => in' # <<>>)
  <2> USE <1>ReadsAsked
  <2>0. sent \in Nat /\ conf.numberOfSamples \in Nat
    BY LineIs
  <2>1. CASE pc = "cmd"
    <3>1. CASE GetCommand
      <4>1. /\ in # <<>> /\ cmd' = Head(in) /\ in' = Tail(in) /\ UNCHANGED <<out, conf>>
            /\ pc' = IF NArgs(Head(in)) = 0 THEN "exec" ELSE "args"
        BY <3>1 DEF GetCommand, setVars
      <4>2. AllOf(Ch.t)' /\ Head(in) = c /\ (Len(in) > 1 => in' # <<>>)
        BY <4>1, <1>RestOfIn DEF Asked
      <4>3. NArgs(c) = 0
        BY Distinct DEF NArgs
      <4> QED
        BY <4>1, <4>2, <4>3
    <3>2. CASE UNCHANGED <<pc, cmd, args, in, out, sent, conf, adc, power>>
      BY <3>2 DEF Between
    <3> QED
      BY <2>1, <3>1, <3>2, AtTop
  <2>2. CASE pc = "fetch" /\ sent = conf.numberOfSamples
    <3>1. ~FetchByte
      BY SMTT(30), <2>0, <2>2 DEF FetchByte
    <3>2. CASE EndFetch
      BY <3>2 DEF EndFetch, Loop, lineVars, setVars, Between
    <3>3. CASE UNCHANGED <<pc, cmd, args, in, out, sent, conf, adc, power>>
      BY <3>3 DEF Between
    <3> QED
      BY <2>2, <3>1, <3>2, <3>3, InFetch
  <2> QED
    BY <2>1, <2>2 DEF Between
<1>AcquiringStep.
  ASSUME Base, Dev, UNCHANGED hostVars, Acquiring
  PROVE  Acquiring' \/ Answering'
  <2> USE <1>AcquiringStep
  <2> USE DEF Base
  <2>0. self' \in Selfs
    BY DEF hostVars, HostTypes
  <2>1. CASE Between /\ Asked(Ch.d) /\ out = <<>>
    BY <2>1, <1>ReadsAsked DEF Acquiring, Asked
  <2>2. CASE pc = "exec" /\ cmd = Ch.d /\ AllOf(Ch.t) /\ out = <<>>
    <3>1. CASE MainStep
      BY <2>2, <3>1, DoesPrepare DEF Prepare, lineVars, Acquiring, AllOf
    <3>2. CASE UNCHANGED <<pc, cmd, args, in, out, sent, conf, adc, power>>
      BY <2>2, <3>2 DEF Acquiring, AllOf
    <3> QED
      BY <2>2, <3>1, <3>2, <1>Executing
  <2>3. CASE pc = "ready" /\ cmd = Ch.d /\ AllOf(Ch.t) /\ out = <<>>
    <3>1. CASE Ready
      <4>1. pc' = "wait" /\ cmd' = Ch.d /\ in' = in /\ out' \in {<<>>, <<"r">>}
        BY SMTT(30), <2>3, <3>1 DEF Ready, Put
      <4> QED
        BY <2>3, <4>1 DEF Acquiring, AllOf
    <3>2. CASE Edge \/ Convert
      BY <2>3, <3>2 DEF Edge, Convert, mainVars, lineVars, setVars, Acquiring, AllOf
    <3> QED
      BY <2>3, <3>1, <3>2
      DEF Dev, MainStep, GetCommand, GetArgument, Test, SetSamples, SetGain, SetPrescaler, Calibrate, SetBits12,
          SetConf, Power, Invalid, Exec, Prepare, WaitReturn, Read, Glitch, Reply, StartFetch, FetchByte, EndFetch
  <2>4. CASE pc \in {"wait", "acquire", "reply"} /\ cmd = Ch.d /\ AllOf(Ch.t) /\ out \in {<<>>, <<"r">>}
    <3>1. CASE Reply
      <4>1. PICK a \in {"d", "e"} : a = Result
        BY DEF Result
      <4>2. pc' = "cmd" /\ in' = in /\ (out' = out \/ out' = Append(out, a))
        BY <3>1, <4>1 DEF Reply, Answer, Put, Loop
      <4>3. Len(out') \in Nat /\ \A i \in 1 .. Len(out') : out'[i] \in {"r", "d", "e", "text"}
        <5>1. CASE out' = out
          BY SMTT(30), <2>4, <5>1
        <5>2. CASE out = <<>> /\ out' = Append(out, a)
          BY SMTT(30), <5>2
        <5>3. CASE out = <<"r">> /\ out' = Append(out, a)
          <6> DEFINE Texts == {"r", "d", "e", "text"}
          <6>1. out \in Seq(Texts) /\ a \in Texts
            BY SMTT(30), <5>3
          <6>2. out' \in Seq(Texts)
            BY <5>3, <6>1, SeqAppend
          <6>3. Len(out') \in Nat
            BY <6>2, SeqLen
          <6>4. \A i \in 1 .. Len(out') : out'[i] \in Texts
            BY <6>2, SeqElement
          <6> QED
            BY <6>3, <6>4
        <5> QED
          BY <2>4, <4>2, <5>1, <5>2, <5>3
      <4>4. AllOf(Ch.t)'
        BY <2>4, <4>2 DEF AllOf
      <4> QED
        BY <2>0, <4>2, <4>3, <4>4, <1>Fresh
    <3>2. CASE WaitReturn
      <4>1. pc' = "acquire" /\ cmd' = Ch.d /\ UNCHANGED <<in, out>>
        BY <2>4, <3>2 DEF WaitReturn, lineVars
      <4> QED
        BY <2>4, <4>1 DEF Acquiring, AllOf
    <3>3. CASE Read
      <4>1. pc' \in {"acquire", "reply"} /\ cmd' = Ch.d /\ UNCHANGED <<in, out>>
        BY <2>4, <3>3 DEF Read, lineVars
      <4> QED
        BY <2>4, <4>1 DEF Acquiring, AllOf
    <3>4. CASE Edge \/ Convert
      BY <2>4, <3>4 DEF Edge, Convert, mainVars, lineVars, setVars, Acquiring, AllOf
    <3> QED
      BY <2>4, <3>1, <3>2, <3>3, <3>4
      DEF Dev, MainStep, GetCommand, GetArgument, Test, SetSamples, SetGain, SetPrescaler, Calibrate, SetBits12,
          SetConf, Power, Invalid, Exec, Prepare, Ready, Glitch, StartFetch, FetchByte, EndFetch
  <2> QED
    BY <2>1, <2>2, <2>3, <2>4 DEF Acquiring
<1>SamplingStep.
  ASSUME Base, Dev, UNCHANGED hostVars, script = "acq", Sampling
  PROVE  Sampling' \/ Answering'
  <2> USE <1>SamplingStep
  <2> USE DEF Base
  <2>0. /\ UNCHANGED <<script, self, hpc, val>> /\ self \in Selfs
        /\ conf.numberOfSamples = self.numSamples
        /\ out \in Seq(Sent) /\ Len(out) \in Nat /\ in \in Seq(Bytes) /\ Len(in) \in Nat /\ sent \in Nat
        /\ conf.numberOfSamples \in Nat
    BY LineIs DEF hostVars, HostTypes, Sampling
  <2>1. CASE Between /\ Asked(Ch.s) /\ out = <<>> /\ (hpc = "test" => Len(in) > 1)
    BY SMTT(30), <2>0, <2>1, <1>ReadsAsked DEF Sampling, Asked
  <2>2. CASE pc = "exec" /\ cmd = Ch.s /\ AllOf(Ch.t) /\ out = <<>> /\ (hpc = "test" => in # <<>>)
    <3>1. CASE MainStep
      <4>1. pc' = "fetch" /\ UNCHANGED <<in, out, conf, sent>>
        BY <2>2, <3>1, DoesFetch DEF StartFetch, lineVars, setVars
      <4>2. sent = 0
        BY <2>2 DEF DeviceTypes, Sending
      <4>3. Len(out') <= sent' /\ \A i \in 1 .. Len(out') : out'[i] \in Samples
        BY SMTT(30), <2>2, <4>1, <4>2
      <4> QED
        BY <2>0, <2>2, <4>1, <4>3 DEF Sampling, AllOf
    <3>2. CASE UNCHANGED <<pc, cmd, args, in, out, sent, conf, adc, power>>
      BY <2>0, <2>2, <3>2 DEF Sampling, AllOf
    <3> QED
      BY <2>2, <3>1, <3>2, <1>Executing
  <2>3. CASE /\ pc = "fetch" /\ AllOf(Ch.t) /\ (hpc = "test" => in # <<>>)
             /\ \A i \in 1 .. Len(out) : out[i] \in Samples
             /\ Len(out) <= sent
    <3>1. CASE FetchByte
      <4>1. PICK byte \in Samples : out' = Append(out, byte)
        BY <3>1, FetchSample
      <4>2. byte \in Sent
        BY DEF Samples, Sent
      <4>3. Len(out') = Len(out) + 1 /\ \A i \in 1 .. Len(out') : out'[i] \in Samples
        BY SMTT(30), <2>0, <2>3, <4>1, <4>2, SeqAppend
      <4>4. sent' = sent + 1 /\ UNCHANGED <<pc, in, conf>>
        BY <3>1, FetchSample
      <4>5. Len(out') <= sent'
        BY SMTT(30), <2>0, <2>3, <4>3, <4>4
      <4> QED
        BY <2>0, <2>3, <4>3, <4>4, <4>5 DEF Sampling, AllOf
    <3>2. CASE EndFetch
      <4>1. pc' = "cmd" /\ UNCHANGED <<in, out>>
        BY <3>2 DEF EndFetch, Loop, lineVars
      <4>2. Len(out) <= self.numSamples
        BY SMTT(30), <2>0, <2>3 DEF DeviceTypes, Sending
      <4>3. Room(0)' = self.numSamples
        BY <2>0, RoomIsNat DEF Room
      <4>4. /\ Len(out') \in 0 .. Len(out') /\ Len(out') <= Room(0)'
            /\ \A i \in Len(out') + 1 .. Len(out') : FALSE
        BY SMTT(30), <2>0, <4>1, <4>2, <4>3
      <4>5. ~\E i \in 1 .. Len(out') : out'[i] = "T"
        BY <2>3, <4>1 DEF Samples
      <4> QED
        BY <2>0, <2>3, <4>1, <4>4, <4>5 DEF Answering, AllOf, Between
    <3>3. CASE UNCHANGED <<pc, cmd, args, in, out, sent, conf, adc, power>>
      BY <2>0, <2>3, <3>3 DEF Sampling, AllOf
    <3> QED
      BY <2>3, <3>1, <3>2, <3>3, InFetch
  <2> QED
    BY <2>1, <2>2, <2>3 DEF Sampling
<1>LostStep.
  ASSUME Base, Dev, UNCHANGED hostVars, Lost
  PROVE  Lost'
  <2> USE <1>LostStep
  <2>1. UNCHANGED script
    BY DEF hostVars
  <2> QED
    BY <2>1, <1>AnsweringStep, <1>SwallowingStep, <1>AcquiringStep, <1>SamplingStep DEF Lost
<1> SUFFICES ASSUME Base, Dev, UNCHANGED hostVars, Reconnection
             PROVE  Reconnection'
  BY SMTT(30)
<1>0. /\ UNCHANGED <<script, hpc, self, k, val, prompt>> /\ self \in Selfs /\ DeviceTypes
      /\ hpc \in {"test", "setup", "ack"} => dtr
      /\ hpc \in {"setup", "ack"} => k \in 1 .. 6
  BY DEF hostVars, Base, HostTypes
<1>1. ASSUME NEW n \in Nat, Behind(Room(n)), dtr PROVE Behind(Room(n))'
  <2>1. PICK b \in Nat : b = Room(n)
    BY <1>0, RoomIsNat
  <2>2. Behind(b)'
    BY <1>0, <1>1, <2>1, <1>BehindStep
  <2>3. b = Room(n)'
    BY <1>0, <2>1 DEF Room
  <2> QED
    BY <2>2, <2>3
<1>2. Idle => Idle' /\ UNCHANGED <<conf, adc>>
  BY <1>0, AfterStep DEF Idle, Settled
<1>3. hpc \in {"close", "open", "test"} => Lost'
  BY <1>LostStep DEF Reconnection
<1>4. hpc = "test" /\ val = "T" => (Idle \/ Behind(Room(1)))'
  BY <1>0, <1>1, <1>2 DEF Reconnection
<1>5. ASSUME hpc \in {"setup", "ack"}, Behind(Room(k)) PROVE Behind(Room(k))'
  <2>1. PICK n \in Nat : n = k
    BY SMTT(30), <1>0, <1>5
  <2> QED
    BY <1>0, <1>1, <1>5, <2>1
<1>6. ASSUME UNCHANGED <<conf, adc>> PROVE HoldBelow(k)' <=> HoldBelow(k)
  BY <1>0, <1>6, HoldBelowKept
<1>7. ASSUME UNCHANGED <<conf, adc>> PROVE HoldBelow(k + 1)' <=> HoldBelow(k + 1)
  BY <1>0, <1>7, HoldBelowKept
<1>8. hpc = "setup" => (Idle /\ HoldBelow(k))' \/ (~prompt /\ Behind(Room(k)))'
  BY <1>0, <1>2, <1>5, <1>6 DEF Reconnection
<1>9. ASSUME hpc = "ack"
      PROVE  \/ (After(<<>>, Settings[k]) /\ HoldBelow(k))'
             \/ (After(<<"d">>, <<>>) /\ HoldBelow(k + 1))'
             \/ (After(<<"text">>, <<>>) /\ self.numSamples > BufSize)'
             \/ (~prompt /\ Behind(Room(k)))'
  <2>1. CASE After(<<>>, Settings[k]) /\ HoldBelow(k)
    <3>1. PICK j \in 1 .. 6 : j = k
      BY <1>0, <1>9
    <3>2. \/ After(<<>>, Settings[j])' /\ UNCHANGED <<conf, adc>>
          \/ /\ After(<<"d">>, <<>>)' /\ Holds(j)'
             /\ \A i \in 1 .. 6 : i # j /\ Holds(i) => Holds(i)'
          \/ After(<<"text">>, <<>>)' /\ j = 1 /\ self.numSamples > BufSize
      BY <1>0, <1>9, <2>1, <3>1, SettingStep
    <3>3. CASE After(<<>>, Settings[j])' /\ UNCHANGED <<conf, adc>>
      BY <1>0, <1>6, <2>1, <3>1, <3>3
    <3>4. CASE /\ After(<<"d">>, <<>>)' /\ Holds(j)'
               /\ \A i \in 1 .. 6 : i # j /\ Holds(i) => Holds(i)'
      <4>1. \A i \in 1 .. 6 : i < j + 1 => i = j \/ i < j
        BY SMTT(30)
      <4>2. \A i \in 1 .. 6 : i < j => Holds(i) /\ i # j
        BY SMTT(30), <2>1, <3>1 DEF HoldBelow
      <4>3. HoldBelow(j + 1)'
        BY <3>4, <4>1, <4>2 DEF HoldBelow
      <4> QED
        BY <1>0, <3>1, <3>4, <4>3
    <3> QED
      BY <1>0, <3>2, <3>3, <3>4
  <2>2. CASE After(<<"d">>, <<>>) /\ HoldBelow(k + 1)
    BY <1>0, <1>7, <2>2, AfterStep DEF Settled
  <2>3. CASE After(<<"text">>, <<>>) /\ self.numSamples > BufSize
    BY <1>0, <2>3, AfterStep
  <2> QED
    BY <1>0, <1>5, <1>9, <2>1, <2>2, <2>3 DEF Reconnection
<1> QED
  BY <1>0, <1>3, <1>4, <1>8, <1>9 DEF Reconnection

LEMMA AcquisitionDev == Base /\ Dev /\ UNCHANGED hostVars /\ Acquisition => Acquisition'
<1> USE ZenonT(30)
<1>SamplesDev.
  ASSUME Base, Dev, UNCHANGED hostVars, dtr, Holds(1), SamplesComing
  PROVE  SamplesComing' /\ UNCHANGED <<conf, adc>>
  <2> USE <1>SamplesDev
  <2>0. /\ UNCHANGED <<self, fetched>> /\ DeviceTypes /\ fetched \in Nat
        /\ conf.numberOfSamples = self.numSamples
        /\ out \in Seq(Sent) /\ Len(out) \in Nat /\ sent \in Nat /\ conf.numberOfSamples \in Nat
    BY LineIs DEF hostVars, Base, HostTypes, Holds
  <2>1. CASE After(<<>>, <<Ch.s>>) /\ fetched = 0
    <3>1. /\ UNCHANGED <<conf, adc>>
          /\ \/ After(<<>>, <<Ch.s>>)'
             \/ pc = "exec" /\ in = <<>> /\ out' = <<>> /\ StartFetch
      BY <2>0, <2>1, FirstByte
    <3>2. CASE pc = "exec" /\ in = <<>> /\ out' = <<>> /\ StartFetch
      <4>1. pc' = "fetch" /\ in' = <<>> /\ sent' = 0
        BY <2>0, <3>2 DEF StartFetch, lineVars, DeviceTypes, Sending
      <4>2. fetched' + Len(out') = sent' /\ \A i \in 1 .. Len(out') : out'[i] \in Samples
        BY SMTT(30), <2>0, <2>1, <3>2, <4>1
      <4> QED
        BY <3>1, <4>1, <4>2 DEF SamplesComing
    <3> QED
      BY <2>0, <2>1, <3>1, <3>2 DEF SamplesComing
  <2>2. CASE /\ pc = "cmd" /\ fetched + Len(out) = self.numSamples
             /\ in = <<>> /\ \A i \in 1 .. Len(out) : out[i] \in Samples
    <3>1. ~GetCommand
      BY <2>2 DEF GetCommand
    <3>2. UNCHANGED <<pc, cmd, args, in, out, sent, conf, adc, power>>
      BY <2>0, <2>2, <3>1, AtTop
    <3> QED
      BY <2>0, <2>2, <3>2 DEF SamplesComing
  <2>3. CASE /\ pc = "fetch" /\ fetched + Len(out) = sent
             /\ in = <<>> /\ \A i \in 1 .. Len(out) : out[i] \in Samples
    <3>1. CASE FetchByte
      <4>1. PICK byte \in Samples : out' = Append(out, byte)
        BY <2>0, <3>1, FetchSample
      <4>2. byte \in Sent
        BY DEF Samples, Sent
      <4>3. Len(out') = Len(out) + 1 /\ \A i \in 1 .. Len(out') : out'[i] \in Samples
        BY SMTT(30), <2>0, <2>3, <4>1, <4>2, SeqAppend
      <4>4. sent' = sent + 1 /\ UNCHANGED <<pc, in, conf, adc>>
        BY <2>0, <3>1, FetchSample
      <4>5. fetched' + Len(out') = sent'
        BY SMTT(30), <2>0, <2>3, <4>3, <4>4
      <4> QED
        BY <2>0, <2>3, <4>3, <4>4, <4>5 DEF SamplesComing
    <3>2. CASE EndFetch
      <4>1. sent = conf.numberOfSamples /\ pc' = "cmd" /\ UNCHANGED <<in, out, conf, adc>>
        BY <3>2 DEF EndFetch, Loop, lineVars, setVars
      <4> QED
        BY <2>0, <2>3, <4>1 DEF SamplesComing
    <3>3. CASE UNCHANGED <<pc, cmd, args, in, out, sent, conf, adc, power>>
      BY <2>0, <2>3, <3>3 DEF SamplesComing
    <3> QED
      BY <2>0, <2>3, <3>1, <3>2, <3>3, InFetch
  <2> QED
    BY <2>1, <2>2, <2>3 DEF SamplesComing
<1> SUFFICES ASSUME Base, Dev, UNCHANGED hostVars, Acquisition
             PROVE  Acquisition'
  BY SMTT(30)
<1>0. /\ UNCHANGED <<script, hpc, self, k, val, prompt, fetched>> /\ self \in Selfs /\ DeviceTypes
      /\ hpc \in {"idle", "form", "set", "formAck"} \cup Attempting => dtr
      /\ hpc = "formAck" => k \in 1 .. 4
  BY DEF hostVars, Base, HostTypes, Attempting
<1>1. Idle => Idle' /\ UNCHANGED <<conf, adc>>
  BY <1>0, AfterStep DEF Idle, Settled
<1>2. UNCHANGED <<conf, adc>> => (Agreed' <=> Agreed)
  BY <1>0, HoldBelowKept DEF Agreed
<1>3. hpc \in {"idle", "form", "set"} => (Idle /\ Agreed)'
  BY <1>1, <1>2 DEF Acquisition
<1>4. ASSUME hpc = "formAck"
      PROVE  \/ (After(<<>>, Settings[FormField[k]]) /\ \A j \in 1 .. 6 : j # FormField[k] => Holds(j))'
             \/ (After(<<"d">>, <<>>) /\ Agreed)'
             \/ After(<<"text">>, <<>>)'
  <2>1. CASE After(<<>>, Settings[FormField[k]]) /\ \A j \in 1 .. 6 : j # FormField[k] => Holds(j)
    <3>1. PICK f \in 1 .. 6 : f = FormField[k]
      BY <1>0, <1>4, FormFieldIs
    <3>2. f = FormField'[k']
      BY <1>0, <3>1 DEF FormField
    <3>3. \/ After(<<>>, Settings[f])' /\ UNCHANGED <<conf, adc>>
          \/ /\ After(<<"d">>, <<>>)' /\ Holds(f)'
             /\ \A i \in 1 .. 6 : i # f /\ Holds(i) => Holds(i)'
          \/ After(<<"text">>, <<>>)' /\ f = 1 /\ self.numSamples > BufSize
      BY <1>0, <1>4, <2>1, <3>1, SettingStep
    <3>4. CASE After(<<>>, Settings[f])' /\ UNCHANGED <<conf, adc>>
      BY <1>0, <2>1, <3>1, <3>2, <3>4, HoldsKept
    <3>5. CASE /\ After(<<"d">>, <<>>)' /\ Holds(f)'
               /\ \A i \in 1 .. 6 : i # f /\ Holds(i) => Holds(i)'
      <4>1. \A i \in 1 .. 6 : Holds(i)'
        BY <2>1, <3>1, <3>5
      <4>2. Agreed'
        BY <4>1 DEF Agreed, HoldBelow
      <4> QED
        BY <3>5, <4>2
    <3> QED
      BY <3>3, <3>4, <3>5
  <2>2. CASE After(<<"d">>, <<>>) /\ Agreed
    BY <1>0, <1>2, <2>2, AfterStep DEF Settled
  <2>3. CASE After(<<"text">>, <<>>)
    BY <1>0, <2>3, AfterStep
  <2> QED
    BY <1>4, <2>1, <2>2, <2>3 DEF Acquisition
<1>5. ASSUME dtr, Waits(Ch.d, <<>>) PROVE Waits(Ch.d, <<>>)' /\ UNCHANGED <<conf, adc>>
  BY <1>0, <1>5, WaitsStep
<1>6. ASSUME dtr, Answers(Ch.d) PROVE Answers(Ch.d)' /\ UNCHANGED <<conf, adc>>
  BY <1>0, <1>6, AnswersStep
<1>7. ASSUME hpc = "samples" PROVE SamplesComing' /\ UNCHANGED <<conf, adc>>
  <2>1. Holds(1) /\ SamplesComing
    BY SMTT(30), <1>7 DEF Acquisition, Agreed, HoldBelow, Attempting
  <2> QED
    BY <1>0, <1>7, <2>1, <1>SamplesDev DEF Attempting
<1>8. hpc \in Attempting => UNCHANGED <<conf, adc>>
  BY <1>0, <1>1, <1>5, <1>6, <1>7 DEF Acquisition, Attempting
<1>9. hpc \in Attempting => Agreed'
  BY <1>2, <1>8 DEF Acquisition
<1>10. /\ hpc = "arm" => Waits(Ch.d, <<>>)'
       /\ hpc \in {"target", "complete"} => Answers(Ch.d)'
       /\ hpc = "drain" => (Waits(Ch.d, <<>>) \/ Answers(Ch.d) \/ Idle)'
       /\ hpc = "get" => Idle'
  BY <1>0, <1>1, <1>5, <1>6 DEF Acquisition, Attempting
<1>11. hpc = "samples" => SamplesComing'
  BY <1>7
<1> QED
  BY <1>0, <1>3, <1>4, <1>9, <1>10, <1>11 DEF Acquisition

LEMMA GlitchesDev ==
  Base /\ Dev /\ Shoot /\ UNCHANGED hostVars /\ UNCHANGED <<guarded, want>> /\ Glitches =>
    Glitches'
<1> USE ZenonT(30)
<1>DoesPower.
  ASSUME pc = "exec", MainStep, cmd \in {Ch.x, Ch.y}
  PROVE  Power
  <2> USE <1>DoesPower
  <2>1. cmd \in Known
    BY Distinct
  <2> QED
    BY SMTT(30), <2>1, Picks DEF Ch
\* -------- Commands that are owed their replies get them, one after the other.
<1>Carries.
  ASSUME DeviceTypes, Dev, dtr, NEW o, NEW c, Simple(c), NEW v \in Seq(Bytes), After(o, c \o v)
  PROVE  \/ After(o, c \o v)' /\ Settled
         \/ /\ After(Append(o, ReplyTo(c)), v)'
            /\ pc = "exec" /\ Has(c) /\ cmd = c[1] /\ (Test \/ Power \/ SetConf)
            /\ c[1] \notin {Ch.x, Ch.y} => UNCHANGED power
            /\ c[1] = Ch.y => power'
  <2> USE <1>Carries
  <2>1. CASE Work(c \o v)' /\ Settled
    BY <2>1 DEF After, Settled
  <2>2. CASE pc = "exec" /\ Has(c) /\ cmd = c[1] /\ in = v /\ MainStep
    <3>1. CASE cmd = Ch.t
      <4>1. Test
        BY <2>2, <3>1, DoesTest
      <4>2. out' = Append(o, "T") /\ pc' = "cmd" /\ in' = v /\ UNCHANGED power
        BY <2>2, <4>1 DEF Test, Answer, Put, Loop, setVars, After
      <4> QED
        BY SMTT(30), <2>2, <3>1, <4>1, <4>2 DEF After, Work, ReplyTo, Ch
    <3>2. CASE cmd \in {Ch.x, Ch.y}
      <4>1. Power
        BY <2>2, <3>2, <1>DoesPower
      <4>2. out' = Append(o, "d") /\ pc' = "cmd" /\ in' = v
        BY <2>2, <4>1 DEF Power, Answer, Put, Loop, After
      <4>3. cmd = Ch.y => power'
        BY <4>1 DEF Power
      <4>4. ReplyTo(c) = "d"
        BY SMTT(30), <2>2, <3>2 DEF ReplyTo, Ch
      <4>5. After(Append(o, ReplyTo(c)), v)'
        BY <4>2, <4>4 DEF After, Work
      <4> QED
        BY <2>2, <3>2, <4>1, <4>3, <4>5
    <3>3. CASE cmd \in {Ch.w, Ch.l, Ch.p}
      <4>1. SetConf
        BY <2>2, <3>3, DoesConf
      <4>2. out' = Append(o, "d") /\ pc' = "cmd" /\ in' = v /\ UNCHANGED power
        BY <2>2, <4>1 DEF SetConf, Answer, Put, Loop, After
      <4>3. ReplyTo(c) = "d" /\ cmd # Ch.y
        BY SMTT(30), <2>2, <3>3 DEF ReplyTo, Ch
      <4>4. After(Append(o, ReplyTo(c)), v)'
        BY <4>2, <4>3 DEF After, Work
      <4> QED
        BY <2>2, <4>1, <4>2, <4>3, <4>4
    <3> QED
      BY <2>2, <3>1, <3>2, <3>3 DEF Simple
  <2> QED
    BY <2>1, <2>2, Advances DEF After, Simple
<1>CommandSeq. \A c : Simple(c) => c \in Seq(Bytes) /\ c \o <<>> = c
    BY ConcatNone DEF Simple, Command
<1>Owe1Step.
  ASSUME DeviceTypes, Dev, dtr, NEW o, NEW c, Simple(c), Owe1(o, c, ReplyTo(c))
  PROVE  Owe1(o, c, ReplyTo(c))'
  <2> USE <1>Owe1Step
  <2> DEFINE none == <<>>
  <2>0. c \o none = c /\ none \in Seq(Bytes)
    BY SMTT(30), <1>CommandSeq
  <2>1. CASE After(o, c)
    <3> HIDE DEF none
    <3>1. After(o, c \o none)
      BY <2>0, <2>1
    <3>2. After(o, c \o none)' \/ After(Append(o, ReplyTo(c)), none)'
      BY <2>0, <3>1, <1>Carries
    <3>3. After(o, c)' \/ After(Append(o, ReplyTo(c)), none)'
      BY <2>0, <3>2
    <3> QED
      BY <3>3 DEF Owe1, none
  <2>2. CASE After(Append(o, ReplyTo(c)), <<>>)
    BY <2>2, AfterStep DEF Owe1
  <2> QED
    BY <2>1, <2>2 DEF Owe1
<1>Owe2Step.
  ASSUME DeviceTypes, Dev, dtr, NEW o, NEW c, Simple(c), NEW c2, Simple(c2),
         Owe2(o, c, ReplyTo(c), c2, ReplyTo(c2))
  PROVE  Owe2(o, c, ReplyTo(c), c2, ReplyTo(c2))'
  <2> USE <1>Owe2Step
  <2>1. CASE After(o, c \o c2)
    <3>1. After(o, c \o c2)' \/ After(Append(o, ReplyTo(c)), c2)'
      BY <2>1, <1>Carries, <1>CommandSeq
    <3> QED
      BY <3>1 DEF Owe2, Owe1
  <2>2. CASE Owe1(Append(o, ReplyTo(c)), c2, ReplyTo(c2))
    BY <2>2, <1>Owe1Step DEF Owe2
  <2> QED
    BY <2>1, <2>2 DEF Owe2
<1>Owe3Step.
  ASSUME DeviceTypes, Dev, dtr, NEW o, NEW c, Simple(c), NEW c2, Simple(c2), NEW c3, Simple(c3),
         Owe3(o, c, ReplyTo(c), c2, ReplyTo(c2), c3, ReplyTo(c3))
  PROVE  Owe3(o, c, ReplyTo(c), c2, ReplyTo(c2), c3, ReplyTo(c3))'
  <2> USE <1>Owe3Step
  <2>1. CASE After(o, c \o (c2 \o c3))
    <3>1. c2 \o c3 \in Seq(Bytes)
      BY <1>CommandSeq, SeqConcat
    <3>2. After(o, c \o (c2 \o c3))' \/ After(Append(o, ReplyTo(c)), c2 \o c3)'
      BY <2>1, <3>1, <1>Carries
    <3> QED
      BY <3>2 DEF Owe3, Owe2
  <2>2. CASE Owe2(Append(o, ReplyTo(c)), c2, ReplyTo(c2), c3, ReplyTo(c3))
    BY <2>2, <1>Owe2Step DEF Owe3
  <2> QED
    BY <2>1, <2>2 DEF Owe3
<1>Owe4Step.
  ASSUME DeviceTypes, Dev, dtr, NEW o, NEW c, Simple(c), NEW c2, Simple(c2), NEW c3, Simple(c3),
         NEW c4, Simple(c4), Owe4(o, c, ReplyTo(c), c2, ReplyTo(c2), c3, ReplyTo(c3), c4, ReplyTo(c4))
  PROVE  Owe4(o, c, ReplyTo(c), c2, ReplyTo(c2), c3, ReplyTo(c3), c4, ReplyTo(c4))'
  <2> USE <1>Owe4Step
  <2>1. CASE After(o, c \o (c2 \o (c3 \o c4)))
    <3>1. c3 \o c4 \in Seq(Bytes)
      BY <1>CommandSeq, SeqConcat
    <3>2. c2 \o (c3 \o c4) \in Seq(Bytes)
      BY <3>1, <1>CommandSeq, SeqConcat
    <3>3. After(o, c \o (c2 \o (c3 \o c4)))' \/ After(Append(o, ReplyTo(c)), c2 \o (c3 \o c4))'
      BY <2>1, <3>2, <1>Carries
    <3> QED
      BY <3>3 DEF Owe4, Owe3
  <2>2. CASE Owe3(Append(o, ReplyTo(c)), c2, ReplyTo(c2), c3, ReplyTo(c3), c4, ReplyTo(c4))
    BY <2>2, <1>Owe3Step DEF Owe4
  <2> QED
    BY <2>1, <2>2 DEF Owe4
\* -------- A step of the device under the glitch script.
<1>GetsFixed.
  /\ Gets(X, "d") /\ Gets(Y, "d") /\ Gets(T, "T")
  /\ X[1] = Ch.x /\ Y[1] = Ch.y /\ T[1] = Ch.t
  <2>1. Command(X) /\ Command(Y) /\ Command(T)
    BY WaitCommand DEF X, Y, T
  <2>2. X[1] = Ch.x /\ Y[1] = Ch.y /\ T[1] = Ch.t
    BY DEF X, Y, T
  <2>3. Ch.x # Ch.t /\ Ch.y # Ch.t
    BY SMTT(30) DEF Ch
  <2> QED
    BY <2>1, <2>2, <2>3 DEF Gets, Simple, ReplyTo
\* Each setter of an attempt is carried out; what the others set stays.
<1>ShotDone.
  ASSUME DeviceTypes, want \in ShotTypes, UNCHANGED want, NEW j \in 1 .. 3, Has(S(j)), cmd = S(j)[1],
         Test \/ Power \/ SetConf
  PROVE  ShotHolds(j)' /\ \A i \in 1 .. 3 : i # j /\ ShotHolds(i) => ShotHolds(i)'
  <2> USE <1>ShotDone
  <2>0. conf \in Confs /\ want.delay \in Words /\ want.glitch_length \in 0 .. 255
    BY DEF DeviceTypes, IInv, ShotTypes
  <2>1. cmd \in {Ch.w, Ch.l, Ch.p} /\ SetConf
    <3>1. cmd \in {Ch.w, Ch.l, Ch.p}
      BY ShotIs, ThreeOf DEF WordArg, ByteArg
    <3>2. cmd \notin {Ch.T, Ch.t, Ch.x, Ch.y}
      BY SMTT(30), <3>1 DEF Ch
    <3> QED
      BY <3>1, <3>2 DEF Test, Power, Exec
  <2>2. conf' = CASE cmd = Ch.w -> [conf EXCEPT !.delay = Short]
                  [] cmd = Ch.l -> [conf EXCEPT !.glitch_length = GlitchLength(Short)]
                  [] cmd = Ch.e -> [conf EXCEPT !.timeout = Short]
                  [] cmd = Ch.p -> [conf EXCEPT !.pulses = args[1]]
    BY <2>1 DEF SetConf
  <2>3. CASE j = 1
    <3>1. WordArg(S(1), Ch.w, want.delay)
      BY ShotIs
    <3>2. Short = want.delay /\ cmd = Ch.w
      BY <2>0, <2>3, <3>1, ShortOf DEF WordArg, Command
    <3>3. conf' = [conf EXCEPT !.delay = Short]
      BY SMTT(30), <2>2, <3>2 DEF Ch
    <3>4. conf'.delay = want.delay /\ conf'.glitch_length = conf.glitch_length /\ conf'.pulses = conf.pulses
      BY <2>0, <3>2, <3>3 DEF Confs
    <3> QED
      BY SMTT(30), <2>3, <3>4 DEF ShotHolds
  <2>4. CASE j = 2
    <3>1. WordArg(S(2), Ch.l, want.glitch_length)
      BY ShotIs
    <3>2. want.glitch_length \in Words
      BY <2>0, ByteIsWord
    <3>3. Short = want.glitch_length /\ cmd = Ch.l
      BY SMTT(30), <2>4, <3>1, <3>2, ShortOf DEF WordArg, Command
    <3>4. conf' = [conf EXCEPT !.glitch_length = GlitchLength(Short)]
      BY SMTT(30), <2>2, <3>3 DEF Ch
    <3>5. GlitchLength(Short) = want.glitch_length
      BY SMTT(30), <2>0, <3>3 DEF GlitchLength
    <3>6. conf'.glitch_length = want.glitch_length /\ conf'.delay = conf.delay /\ conf'.pulses = conf.pulses
      BY <2>0, <3>4, <3>5 DEF Confs
    <3> QED
      BY SMTT(30), <2>4, <3>6 DEF ShotHolds
  <2>5. CASE j = 3
    <3>1. ByteArg(S(3), Ch.p, want.pulses)
      BY ShotIs
    <3>2. args[1] = want.pulses /\ cmd = Ch.p
      BY <2>5, <3>1, CharOf DEF ByteArg, Command
    <3>3. conf' = [conf EXCEPT !.pulses = args[1]]
      BY SMTT(30), <2>2, <3>2 DEF Ch
    <3>4. conf'.pulses = want.pulses /\ conf'.delay = conf.delay /\ conf'.glitch_length = conf.glitch_length
      BY <2>0, <3>2, <3>3 DEF Confs
    <3> QED
      BY SMTT(30), <2>5, <3>4 DEF ShotHolds
  <2> QED
    BY <2>3, <2>4, <2>5, ThreeOf
<1>Gives.
  ASSUME DeviceTypes, Dev, dtr, NEW o, NEW c, NEW r, Gets(c, r), NEW v \in Seq(Bytes), After(o, c \o v)
  PROVE  \/ After(o, c \o v)' /\ Settled
         \/ /\ After(Append(o, r), v)'
            /\ pc = "exec" /\ Has(c) /\ cmd = c[1] /\ (Test \/ Power \/ SetConf)
            /\ c[1] \notin {Ch.x, Ch.y} => UNCHANGED power
            /\ c[1] = Ch.y => power'
    BY <1>Gives, <1>Carries DEF Gets
<1>GivesLast.
  ASSUME DeviceTypes, Dev, dtr, NEW o, NEW c, NEW r, Gets(c, r), After(o, c)
  PROVE  \/ After(o, c)' /\ Settled
         \/ /\ After(Append(o, r), <<>>)'
            /\ pc = "exec" /\ Has(c) /\ cmd = c[1] /\ (Test \/ Power \/ SetConf)
            /\ c[1] \notin {Ch.x, Ch.y} => UNCHANGED power
            /\ c[1] = Ch.y => power'
  <2> USE <1>GivesLast
  <2> DEFINE none == <<>>
  <2>1. c \o none = c /\ none \in Seq(Bytes)
    BY SMTT(30), GetsSeq, ConcatNone
  <2> HIDE DEF none
  <2>2. After(o, c \o none)
    BY <2>1
  <2>3. \/ After(o, c \o none)' /\ Settled
        \/ /\ After(Append(o, r), none)'
           /\ pc = "exec" /\ Has(c) /\ cmd = c[1] /\ (Test \/ Power \/ SetConf)
           /\ c[1] \notin {Ch.x, Ch.y} => UNCHANGED power
           /\ c[1] = Ch.y => power'
    BY <2>1, <2>2, <1>Gives
  <2> QED
    BY <2>1, <2>3 DEF none
<1>Gets1.
  ASSUME DeviceTypes, Dev, dtr, NEW o, NEW c, NEW r, Gets(c, r), Owe1(o, c, r)
  PROVE  Owe1(o, c, r)' /\ (c[1] \notin {Ch.x, Ch.y} => UNCHANGED power)
  <2> USE <1>Gets1
  <2>1. Owe1(o, c, r)'
    BY <1>Owe1Step DEF Gets
  <2>2. c[1] \notin {Ch.x, Ch.y} => UNCHANGED power
    BY <1>GivesLast, AfterStep DEF Owe1, Settled
  <2> QED
    BY <2>1, <2>2
<1>Gets2.
  ASSUME DeviceTypes, Dev, dtr, NEW o, NEW c, NEW r, Gets(c, r), NEW c2, NEW r2, Gets(c2, r2),
         Owe2(o, c, r, c2, r2)
  PROVE  /\ Owe2(o, c, r, c2, r2)'
         /\ c[1] \notin {Ch.x, Ch.y} /\ c2[1] \notin {Ch.x, Ch.y} => UNCHANGED power
  <2> USE <1>Gets2
  <2>1. Owe2(o, c, r, c2, r2)'
    BY <1>Owe2Step DEF Gets
  <2>2. c[1] \notin {Ch.x, Ch.y} /\ c2[1] \notin {Ch.x, Ch.y} => UNCHANGED power
    <3>1. CASE After(o, c \o c2)
      BY <3>1, <1>Gives, GetsSeq DEF Settled
    <3>2. CASE Owe1(Append(o, r), c2, r2)
      BY <3>2, <1>Gets1
    <3> QED
      BY <3>1, <3>2 DEF Owe2
  <2> QED
    BY <2>1, <2>2
<1>Gets3.
  ASSUME DeviceTypes, Dev, dtr, NEW o, NEW c, NEW r, Gets(c, r), NEW c2, NEW r2, Gets(c2, r2),
         NEW c3, NEW r3, Gets(c3, r3), Owe3(o, c, r, c2, r2, c3, r3)
  PROVE  Owe3(o, c, r, c2, r2, c3, r3)'
    BY <1>Gets3, <1>Owe3Step DEF Gets
<1>Gets4.
  ASSUME DeviceTypes, Dev, dtr, NEW o, NEW c, NEW r, Gets(c, r), NEW c2, NEW r2, Gets(c2, r2),
         NEW c3, NEW r3, Gets(c3, r3), NEW c4, NEW r4, Gets(c4, r4),
         Owe4(o, c, r, c2, r2, c3, r3, c4, r4)
  PROVE  Owe4(o, c, r, c2, r2, c3, r3, c4, r4)'
    BY <1>Gets4, <1>Owe4Step DEF Gets
\* In 'h' with commands behind it.
<1>EndsCommand.
  ASSUME DeviceTypes, Dev, dtr, NEW w, InCommand(Ch.h, <<>>, w)
  PROVE  InCommand(Ch.h, <<>>, w)' \/ \E a \in {"d", "e"} : After(<<a>>, w)'
  <2> USE <1>EndsCommand
  <2>1. InCommand(Ch.h, <<>>, w)' \/ \E a \in {"d", "e"} : After(Append(<<>>, a), w)'
    BY InCommandStep
  <2>2. \A a : Append(<<>>, a) = <<a>>
    BY Singles
  <2> QED
    BY <2>1, <2>2
<1>Late1Step.
  ASSUME DeviceTypes, Dev, dtr, NEW c, NEW r, Gets(c, r), Late1(c, r)
  PROVE  Late1(c, r)'
  <2> USE <1>Late1Step
  <2>1. CASE InCommand(Ch.h, <<>>, c)
    BY <2>1, <1>EndsCommand DEF Late1, Owe1
  <2>2. ASSUME NEW a \in {"d", "e"}, Owe1(<<a>>, c, r) PROVE Owe1(<<a>>, c, r)'
    BY <2>2, <1>Gets1
  <2> QED
    BY <2>1, <2>2 DEF Late1
<1>Late2Step.
  ASSUME DeviceTypes, Dev, dtr, NEW c, NEW r, Gets(c, r), NEW c2, NEW r2, Gets(c2, r2), Late2(c, r, c2, r2)
  PROVE  Late2(c, r, c2, r2)'
  <2> USE <1>Late2Step
  <2>1. CASE InCommand(Ch.h, <<>>, c \o c2)
    <3>1. PICK w : w = c \o c2
      OBVIOUS
    <3>2. InCommand(Ch.h, <<>>, w)' \/ \E a \in {"d", "e"} : After(<<a>>, w)'
      BY <2>1, <3>1, <1>EndsCommand
    <3> QED
      BY <3>1, <3>2 DEF Late2, Owe2
  <2>2. ASSUME NEW a \in {"d", "e"}, Owe2(<<a>>, c, r, c2, r2) PROVE Owe2(<<a>>, c, r, c2, r2)'
    BY <2>2, <1>Gets2
  <2> QED
    BY <2>1, <2>2 DEF Late2
<1>Late3Step.
  ASSUME DeviceTypes, Dev, dtr, NEW c, NEW r, Gets(c, r), NEW c2, NEW r2, Gets(c2, r2),
         NEW c3, NEW r3, Gets(c3, r3), Late3(c, r, c2, r2, c3, r3)
  PROVE  Late3(c, r, c2, r2, c3, r3)'
  <2> USE <1>Late3Step
  <2>1. CASE InCommand(Ch.h, <<>>, c \o (c2 \o c3))
    <3>1. PICK w : w = c \o (c2 \o c3)
      OBVIOUS
    <3>2. InCommand(Ch.h, <<>>, w)' \/ \E a \in {"d", "e"} : After(<<a>>, w)'
      BY <2>1, <3>1, <1>EndsCommand
    <3> QED
      BY <3>1, <3>2 DEF Late3, Owe3
  <2>2. ASSUME NEW a \in {"d", "e"}, Owe3(<<a>>, c, r, c2, r2, c3, r3) PROVE Owe3(<<a>>, c, r, c2, r2, c3, r3)'
    BY <2>2, <1>Gets3
  <2> QED
    BY <2>1, <2>2 DEF Late3
<1>WorksIs.
  ASSUME Works
  PROVE  /\ DeviceTypes /\ Dev /\ dtr /\ want \in ShotTypes
         /\ UNCHANGED <<script, hpc, self, k, fetched, prompt, guarded, want>>
    BY <1>WorksIs DEF Works, Base, HostTypes, hostVars
<1>IdleWorks. ASSUME Works, Idle PROVE Idle' /\ UNCHANGED <<conf, adc, power>>
    BY <1>IdleWorks, <1>WorksIs, AfterStep DEF Idle, Settled
<1>OffWorks.
  ASSUME Works
  PROVE  (AtOff => AtOff') /\ (AtOffAck => AtOffAck') /\ (AtOn => AtOn')
  <2> USE <1>OffWorks
  <2> USE <1>WorksIs, <1>GetsFixed
  <2>1. AtOff => AtOff'
    BY <1>IdleWorks, AnswersStep, <1>Late2Step DEF AtOff, Late0
  <2>2. AtOffAck => AtOffAck'
    BY <1>Gets1, <1>Late1Step, <1>Late3Step DEF AtOffAck
  <2>3. AtOn => AtOn'
    BY <1>IdleWorks, <1>Gets1, <1>Gets3 DEF AtOn
  <2> QED
    BY <2>1, <2>2, <2>3
<1>OnAckWorks. ASSUME Works, AtOnAck PROVE AtOnAck'
  <2> USE <1>OnAckWorks
  <2> USE <1>WorksIs, <1>GetsFixed
  <2>1. CASE After(<<>>, Y)
    <3>1. After(<<>>, Y)' \/ (After(Append(<<>>, "d"), <<>>)' /\ power')
      BY <2>1, <1>GivesLast
    <3> QED
      BY <3>1, Singles DEF AtOnAck
  <2>2. CASE After(<<"d">>, <<>>) /\ power
    BY <2>2, AfterStep DEF Settled, AtOnAck
  <2>3. CASE After(<<>>, X \o Y)
    <3>1. After(<<>>, X \o Y)' \/ After(Append(<<>>, "d"), Y)'
      BY <2>3, <1>Gives, GetsSeq
    <3> QED
      BY <3>1, Singles DEF AtOnAck
  <2>4. CASE After(<<"d">>, Y)
    <3>1. After(<<"d">>, Y)' \/ (After(Append(<<"d">>, "d"), <<>>)' /\ power')
      BY <2>4, <1>GivesLast
    <3> QED
      BY <3>1 DEF AtOnAck
  <2>5. CASE After(Append(<<"d">>, "d"), <<>>) /\ power
    BY <2>5, AfterStep DEF Settled, AtOnAck
  <2>6. CASE ~guarded /\ Owe4(<<>>, X, "d", T, "T", X, "d", Y, "d")
    BY <2>6, <1>Gets4 DEF AtOnAck
  <2> QED
    BY <2>1, <2>2, <2>3, <2>4, <2>5, <2>6 DEF AtOnAck
<1>StartWorks. ASSUME Works, AtStart PROVE AtStart'
  <2> USE <1>StartWorks
  <2> USE <1>WorksIs, <1>GetsFixed
  <2>1. CASE Idle /\ power
    BY <2>1, <1>IdleWorks DEF AtStart
  <2>2. CASE After(<<>>, Y)
    <3>1. After(<<>>, Y)' \/ (After(Append(<<>>, "d"), <<>>)' /\ power')
      BY <2>2, <1>GivesLast
    <3> QED
      BY <3>1, Singles DEF AtStart
  <2>3. CASE After(<<"d">>, <<>>) /\ power
    BY <2>3, AfterStep DEF Settled, AtStart
  <2>4. CASE Owe3(<<>>, T, "T", X, "d", Y, "d")
    BY <2>4, <1>Gets3 DEF AtStart
  <2> QED
    BY <2>1, <2>2, <2>3, <2>4 DEF AtStart
<1>ShotBelowKept.
  ASSUME UNCHANGED <<conf, want>>, NEW n
  PROVE  ShotBelow(n)' <=> ShotBelow(n)
    BY <1>ShotBelowKept DEF ShotBelow, ShotHolds
\* A setter of an attempt that nothing comes before.
<1>SetterStep.
  ASSUME Works, NEW j \in 1 .. 3, After(<<>>, S(j)), ShotBelow(j)
  PROVE  /\ UNCHANGED power
         /\ \/ After(<<>>, S(j))' /\ ShotBelow(j)'
            \/ After(<<"d">>, <<>>)' /\ ShotBelow(j + 1)'
  <2> USE <1>SetterStep
  <2>1. PICK s : s = S(j)
    OBVIOUS
  <2>2. s = S(j)' /\ Gets(s, "d") /\ s[1] \notin {Ch.x, Ch.y}
    BY <2>1, <1>WorksIs, ShotSame, GetsShot
  <2>3. \/ After(<<>>, s)' /\ Settled
        \/ /\ After(Append(<<>>, "d"), <<>>)' /\ UNCHANGED power
           /\ pc = "exec" /\ Has(s) /\ cmd = s[1] /\ (Test \/ Power \/ SetConf)
    BY <2>1, <2>2, <1>WorksIs, <1>GivesLast
  <2>4. CASE After(<<>>, s)' /\ Settled
    BY <2>2, <2>4, <1>WorksIs, <1>ShotBelowKept DEF Settled
  <2>5. CASE /\ After(Append(<<>>, "d"), <<>>)' /\ UNCHANGED power
             /\ pc = "exec" /\ Has(s) /\ cmd = s[1] /\ (Test \/ Power \/ SetConf)
    <3>1. ShotHolds(j)' /\ \A i \in 1 .. 3 : i # j /\ ShotHolds(i) => ShotHolds(i)'
      BY <2>1, <2>5, <1>WorksIs, <1>ShotDone
    <3>2. \A i \in 1 .. 3 : i < j + 1 => i = j \/ (i < j /\ i # j)
      BY SMTT(30)
    <3>3. ShotBelow(j + 1)'
      BY <3>1, <3>2 DEF ShotBelow
    <3> QED
      BY <2>5, <3>3, Singles
  <2> QED
    BY <2>3, <2>4, <2>5
<1>FirstAckWorks. ASSUME Works, AtFirstAck PROVE AtFirstAck'
  <2> USE <1>FirstAckWorks
  <2> USE <1>WorksIs, <1>GetsFixed
  <2>0. PICK s : s = S(1)
    OBVIOUS
  <2>1. s = S(1)' /\ Gets(s, "d") /\ s[1] \notin {Ch.x, Ch.y}
    BY SMTT(30), <2>0, ShotSame, GetsShot
  <2>2. CASE After(<<>>, S(1)) /\ power
    <3>1. ShotBelow(1)
      BY SMTT(30) DEF ShotBelow
    <3>2. UNCHANGED power /\ (After(<<>>, S(1))' \/ (After(<<"d">>, <<>>)' /\ ShotBelow(1 + 1)'))
      BY SMTT(30), <2>2, <3>1, <1>SetterStep
    <3>3. 1 + 1 = 2
      BY SMTT(30)
    <3> QED
      BY <2>2, <3>2, <3>3 DEF AtFirstAck
  <2>3. CASE After(<<"d">>, <<>>) /\ power /\ ShotBelow(2)
    BY <2>3, AfterStep, <1>ShotBelowKept DEF Settled, AtFirstAck
  <2>4. CASE After(<<>>, Y \o S(1))
    <3>1. After(<<>>, Y \o s)' \/ (After(Append(<<>>, "d"), s)' /\ power')
      BY <2>0, <2>1, <2>4, <1>Gives, GetsSeq
    <3>2. After(<<>>, Y \o s)' \/ (Owe1(<<"d">>, s, "d")' /\ power')
      BY <3>1, Singles DEF Owe1
    <3> QED
      BY <2>1, <3>2 DEF AtFirstAck
  <2>5. CASE Owe1(<<"d">>, S(1), "d") /\ power
    <3>1. Owe1(<<"d">>, s, "d")' /\ UNCHANGED power
      BY <2>0, <2>1, <2>5, <1>Gets1
    <3> QED
      BY <2>1, <2>5, <3>1 DEF AtFirstAck
  <2>6. CASE Owe4(<<>>, T, "T", X, "d", Y, "d", S(1), "d")
    <3>1. Owe4(<<>>, T, "T", X, "d", Y, "d", s, "d")'
      BY <2>0, <2>1, <2>6, <1>Gets4
    <3> QED
      BY <2>1, <3>1 DEF AtFirstAck
  <2> QED
    BY <2>2, <2>3, <2>4, <2>5, <2>6 DEF AtFirstAck
<1>ShotWorks. ASSUME Works, NEW j \in 2 .. 4, AtShot(j) PROVE AtShot(j)'
  <2> USE <1>ShotWorks
  <2>1. CASE Idle /\ ShotBelow(j)
    BY <2>1, <1>WorksIs, <1>IdleWorks, <1>ShotBelowKept DEF AtShot
  <2>2. CASE Owe1(<<>>, S(j - 1), "d")
    <3>1. j - 1 \in 1 .. 3
      BY SMTT(30)
    <3>2. PICK s : s = S(j - 1)
      OBVIOUS
    <3>3. s = S(j - 1)' /\ Gets(s, "d") /\ s[1] \notin {Ch.x, Ch.y}
      BY <3>1, <3>2, <1>WorksIs, ShotSame, GetsShot
    <3>4. Owe1(<<>>, s, "d")' /\ UNCHANGED power
      BY <2>2, <3>2, <3>3, <1>WorksIs, <1>Gets1
    <3> QED
      BY <3>3, <3>4 DEF AtShot
  <2> QED
    BY <2>1, <2>2 DEF AtShot
<1>ShotAckWorks. ASSUME Works, NEW j \in 2 .. 3, AtShotAck(j) PROVE AtShotAck(j)'
  <2> USE <1>ShotAckWorks
  <2>0. j \in 1 .. 3 /\ j - 1 \in 1 .. 3
    BY SMTT(30)
  <2>1. CASE After(<<>>, S(j)) /\ ShotBelow(j)
    BY <2>0, <2>1, <1>SetterStep DEF AtShotAck
  <2>2. CASE After(<<"d">>, <<>>) /\ ShotBelow(j + 1)
    BY <2>2, <1>WorksIs, AfterStep, <1>ShotBelowKept DEF AtShotAck, Settled
  <2>3. CASE Owe2(<<>>, S(j - 1), "d", S(j), "d")
    <3>1. PICK s : s = S(j - 1)
      OBVIOUS
    <3>2. PICK u : u = S(j)
      OBVIOUS
    <3>3. s = S(j - 1)' /\ Gets(s, "d") /\ s[1] \notin {Ch.x, Ch.y}
      BY <2>0, <3>1, <1>WorksIs, ShotSame, GetsShot
    <3>4. u = S(j)' /\ Gets(u, "d") /\ u[1] \notin {Ch.x, Ch.y}
      BY <2>0, <3>2, <1>WorksIs, ShotSame, GetsShot
    <3>5. Owe2(<<>>, s, "d", u, "d")' /\ UNCHANGED power
      BY <2>3, <3>1, <3>2, <3>3, <3>4, <1>WorksIs, <1>Gets2
    <3> QED
      BY <3>3, <3>4, <3>5 DEF AtShotAck
  <2> QED
    BY <2>1, <2>2, <2>3 DEF AtShotAck
\* The history from the glitch on.
<1>NoShoot. ASSUME Works, pc # "glitch" PROVE shot' = shot
    BY <1>NoShoot DEF Works, Shoot, Glitch
<1>RecordedAfter.
  ASSUME Works, Recorded, NEW o, NEW w, After(o, w), pc' # "reply", out' = o
  PROVE  Recorded'
  <2> USE <1>RecordedAfter
  <2>1. pc # "glitch" /\ out = o
    BY DEF After, Work
  <2> QED
    BY <2>1, <1>WorksIs, <1>NoShoot DEF Recorded
<1>RecordedIn.
  ASSUME Works, Recorded, ShotBelow(4), NEW o \in {<<>>, <<"r">>}, InCommand(Ch.h, o, <<>>)
  PROVE  Recorded'
  <2> USE <1>RecordedIn
  <2> USE <1>WorksIs
  <2>0. cmd = Ch.h /\ out = o /\ Ch.h # Ch.d /\ Ch.h # Ch.f
    BY SMTT(30) DEF InCommand, Ch
  <2>1. CASE Glitch
    <3>1. /\ pc' = "reply" /\ UNCHANGED <<out, timedOut>>
          /\ shot' = [of |-> [delay |-> conf.delay, glitch_length |-> conf.glitch_length,
                              pulses |-> conf.pulses],
                      caught |-> ~timedOut]
      BY <2>1 DEF Works, Shoot, Glitch, lineVars, twVars
    <3>2. conf.delay = want.delay /\ conf.glitch_length = want.glitch_length /\ conf.pulses = want.pulses
      BY SMTT(30) DEF ShotBelow, ShotHolds
    <3>3. want = [delay |-> want.delay, glitch_length |-> want.glitch_length, pulses |-> want.pulses]
      BY DEF ShotTypes
    <3>4. shot' = [of |-> want, caught |-> ~timedOut]
      BY <3>1, <3>2, <3>3
    <3>5. ~(out' # <<>> /\ out'[Len(out')] = "d")
      BY SMTT(30), <2>0, <3>1
    <3> QED
      BY <3>1, <3>4, <3>5 DEF Recorded
  <2>2. CASE Reply
    <3>1. pc = "reply" /\ shot' = shot
      BY <2>2, <1>NoShoot DEF Reply
    <3>2. shot = [of |-> want, caught |-> ~timedOut]
      BY <3>1 DEF Recorded
    <3>3. pc' = "cmd" /\ out' = Append(o, Result)
      BY <2>0, <2>2 DEF Reply, Answer, Put, Loop
    <3>4. PICK a \in {"d", "e"} : a = Result /\ (a = "d" => ~timedOut)
      BY <2>0 DEF Result
    <3>5. out'[Len(out')] = a
      <4>1. o \in Seq(Sent) /\ a \in Sent
        <5>1. <<>> \in Seq(Sent) /\ <<"r">> \in Seq(Sent) /\ "d" \in Sent /\ "e" \in Sent
          BY SMTT(30) DEF Sent
        <5> QED
          BY <5>1
      <4>2. Len(out') = Len(o) + 1 /\ out'[Len(o) + 1] = a
        BY SMTT(30), <3>3, <3>4, <4>1, SeqAppend
      <4> QED
        BY <4>2
    <3>6. a = "d" => shot = [of |-> want, caught |-> TRUE]
      BY <3>2, <3>4
    <3> QED
      BY <3>1, <3>3, <3>5, <3>6 DEF Recorded
  <2>3. CASE WaitReturn
    <3>1. pc' = "glitch" /\ UNCHANGED out /\ pc = "wait"
      BY <2>0, <2>3 DEF WaitReturn, lineVars
    <3> QED
      BY SMTT(30), <2>0, <3>1 DEF Recorded
  <2>4. CASE Edge \/ Convert
    <3>1. UNCHANGED <<pc, out, timedOut>>
      BY <2>4 DEF Edge, Convert, mainVars, lineVars, twVars, TW!Seen
    <3>2. ~Glitch
      BY <3>1 DEF Glitch
    <3>3. shot' = shot
      BY <3>2 DEF Works, Shoot
    <3> QED
      BY <3>1, <3>3 DEF Recorded
  <2>5. ~Read
    BY <2>0 DEF Read, DeviceTypes, Sending
  <2> QED
    BY <2>1, <2>2, <2>3, <2>4, <2>5
    DEF InCommand, Dev, MainStep, GetCommand, GetArgument, Test, SetSamples, SetGain, SetPrescaler, Calibrate,
        SetBits12, SetConf, Power, Invalid, Exec, Prepare, Ready, StartFetch, FetchByte, EndFetch
<1>RecordedStep.
  ASSUME Works, Recorded, ShotBelow(4), Waits(Ch.h, <<>>) \/ Answers(Ch.h)
  PROVE  Recorded' /\ ShotBelow(4)'
  <2> USE <1>RecordedStep
  <2> USE <1>WorksIs
  <2>0. ShotBelow(4)'
    BY WaitsStep, AnswersStep, <1>ShotBelowKept
  <2>1. ASSUME NEW o, After(o, <<>>) PROVE Recorded'
    <3>1. After(o, <<>>)'
      BY <2>1, AfterStep
    <3>2. pc' # "reply" /\ out' = o
      BY <3>1 DEF After, Work
    <3> QED
      BY <2>1, <3>2, <1>RecordedAfter
  <2>2. CASE After(<<>>, <<Ch.h>>)
    <3>1. \/ After(<<>>, <<Ch.h>>)'
          \/ out' = <<>> /\ Prepare
      BY SMTT(30), <2>2, FirstByte DEF Ch
    <3>2. pc' # "reply" /\ out' = <<>>
      BY <3>1 DEF After, Work, Prepare
    <3>3. PICK o : o = <<>>
      OBVIOUS
    <3>4. PICK w : w = <<Ch.h>>
      OBVIOUS
    <3>5. After(o, w) /\ out' = o
      BY <2>2, <3>2, <3>3, <3>4
    <3> QED
      BY <2>0, <3>2, <3>5, <1>RecordedAfter
  <2>3. CASE pc = "ready" /\ cmd = Ch.h /\ out = <<>> /\ in = <<>>
    <3>1. shot' = shot
      BY <2>3, <1>NoShoot
    <3>2. CASE Ready
      <4>1. pc' = "wait" /\ out' = Append(<<>>, "r")
        BY <2>3, <3>2 DEF Ready, Put
      <4>2. ~(out'[Len(out')] = "d")
        BY SMTT(30), <4>1
      <4>3. pc' # "reply"
        BY <4>1
      <4> QED
        BY <2>0, <4>2, <4>3 DEF Recorded
    <3>3. CASE Edge \/ Convert
      <4>1. pc' # "reply" /\ ~(out' # <<>>)
        BY <2>3, <3>3 DEF Edge, Convert, mainVars, lineVars
      <4> QED
        BY <2>0, <4>1 DEF Recorded
    <3> QED
      BY <2>3, <3>2, <3>3
      DEF Dev, MainStep, GetCommand, GetArgument, Test, SetSamples, SetGain, SetPrescaler, Calibrate, SetBits12,
          SetConf, Power, Invalid, Exec, Prepare, WaitReturn, Read, Glitch, Reply, StartFetch, FetchByte, EndFetch
  <2>4. CASE InCommand(Ch.h, Append(<<>>, "r"), <<>>)
    <3>1. PICK o : o = Append(<<>>, "r")
      OBVIOUS
    <3>2. o = <<"r">>
      BY <3>1, Singles
    <3>3. o \in {<<>>, <<"r">>} /\ InCommand(Ch.h, o, <<>>)
      BY <2>4, <3>1, <3>2
    <3> QED
      BY <2>0, <3>3, <1>RecordedIn
  <2>5. CASE InCommand(Ch.h, <<>>, <<>>)
    <3>1. PICK o : o = <<>>
      OBVIOUS
    <3>2. o \in {<<>>, <<"r">>} /\ InCommand(Ch.h, o, <<>>)
      BY <2>5, <3>1
    <3> QED
      BY <2>0, <3>2, <1>RecordedIn
  <2> QED
    BY <2>0, <2>1, <2>2, <2>3, <2>4, <2>5 DEF Waits, Answers
<1>GlitchArmedWorks. ASSUME Works, AtGlitchArmed PROVE AtGlitchArmed'
  <2> USE <1>GlitchArmedWorks
  <2> USE <1>WorksIs
  <2>1. CASE Waits(Ch.h, <<>>) /\ ShotBelow(4) /\ Recorded
    BY <2>1, WaitsStep, <1>RecordedStep DEF AtGlitchArmed
  <2>2. CASE After(<<>>, S(3) \o H)
    <3>1. PICK s : s = S(3)
      OBVIOUS
    <3>2. s = S(3)' /\ Gets(s, "d") /\ s[1] \notin {Ch.x, Ch.y}
      BY SMTT(30), <3>1, ShotSame, GetsShot
    <3>3. H \in Seq(Bytes)
      BY WaitCommand DEF Command, H
    <3>4. \/ After(<<>>, s \o H)' /\ Settled
          \/ After(Append(<<>>, "d"), H)' /\ UNCHANGED power
      BY <2>2, <3>1, <3>2, <3>3, <1>Gives
    <3>5. UNCHANGED power /\ (After(<<>>, s \o H)' \/ After(<<"d">>, <<Ch.h>>)')
      BY <3>4, Singles DEF Settled, H
    <3> QED
      BY <3>2, <3>5 DEF AtGlitchArmed, Waits
  <2>3. CASE Waits(Ch.h, <<"d">>)
    BY <2>3, WaitsStep DEF AtGlitchArmed
  <2> QED
    BY <2>1, <2>2, <2>3 DEF AtGlitchArmed
<1>GlitcherWorks. ASSUME Works, AtGlitcher PROVE AtGlitcher'
  <2> USE <1>GlitcherWorks
  <2> USE <1>WorksIs
  <2>1. CASE Answers(Ch.h) /\ ShotBelow(4) /\ Recorded
    BY <2>1, AnswersStep, <1>RecordedStep DEF AtGlitcher
  <2>2. CASE Waits(Ch.h, <<>>)
    BY <2>2, WaitsStep DEF AtGlitcher
  <2> QED
    BY <2>1, <2>2 DEF AtGlitcher
<1>ClassifyWorks. ASSUME Works, AtClassify PROVE AtClassify'
  <2> USE <1>ClassifyWorks
  <2>1. pc # "glitch"
    BY DEF AtClassify, Idle, After, Work
  <2> QED
    BY <2>1, <1>WorksIs, <1>IdleWorks, <1>NoShoot DEF AtClassify
<1>ExtraWorks. ASSUME Works, AtExtra PROVE AtExtra'
  <2> USE <1>ExtraWorks
  <2> USE <1>WorksIs, <1>GetsFixed
  <2>1. PICK s : s = S(1)
    OBVIOUS
  <2>2. s = S(1)' /\ Gets(s, "d")
    BY SMTT(30), <2>1, ShotSame, GetsShot
  <2>3. CASE Late1(X, "d") \/ Owe1(<<>>, X, "d") \/ Idle
    BY <2>3, <1>Late1Step, <1>Gets1, <1>IdleWorks DEF AtExtra
  <2>4. CASE Owe3(<<>>, X, "d", Y, "d", S(1), "d")
    <3>1. Owe3(<<>>, X, "d", Y, "d", s, "d")'
      BY <2>1, <2>2, <2>4, <1>Gets3
    <3> QED
      BY <2>2, <3>1 DEF AtExtra
  <2>5. CASE Owe2(<<>>, Y, "d", S(1), "d")
    <3>1. Owe2(<<>>, Y, "d", s, "d")'
      BY <2>1, <2>2, <2>5, <1>Gets2
    <3> QED
      BY <2>2, <3>1 DEF AtExtra
  <2>6. CASE Owe1(<<>>, S(1), "d")
    <3>1. Owe1(<<>>, s, "d")'
      BY <2>1, <2>2, <2>6, <1>Gets1
    <3> QED
      BY <2>2, <3>1 DEF AtExtra
  <2> QED
    BY <2>3, <2>4, <2>5, <2>6 DEF AtExtra
<1>FlushWorks. ASSUME Works, AtFlush PROVE AtFlush'
    BY SMTT(30), <1>FlushWorks, <1>WorksIs, <1>GetsFixed, <1>Late2Step, <1>Gets2, <1>Gets1, <1>IdleWorks DEF AtFlush
<1> SUFFICES ASSUME Base, Dev, Shoot, UNCHANGED hostVars, UNCHANGED <<guarded, want>>, Glitches
             PROVE  Glitches'
  BY SMTT(30)
<1>1. CASE hpc \in Shooting
  <2>1. Works
    BY <1>1 DEF Works, Base, HostTypes, Shooting
  <2>2. UNCHANGED <<hpc, k, guarded>>
    BY <2>1, <1>WorksIs
  <2>3. hpc \in {"shot", "shotAck"} => k \in 1 .. 3
    BY <2>1 DEF Works, Base, HostTypes
  <2>4. ASSUME hpc = "shot" /\ k > 1 PROVE AtShot(k)'
    <3>1. PICK j \in 2 .. 4 : j = k
      BY SMTT(30), <2>3, <2>4
    <3>2. AtShot(j)'
      BY <2>1, <2>4, <3>1, <1>ShotWorks DEF Glitches
    <3> QED
      BY <2>2, <3>1, <3>2
  <2>5. ASSUME hpc = "shotAck" /\ k > 1 PROVE AtShotAck(k)'
    <3>1. PICK j \in 2 .. 3 : j = k
      BY SMTT(30), <2>3, <2>5
    <3>2. AtShotAck(j)'
      BY <2>1, <2>5, <3>1, <1>ShotAckWorks DEF Glitches
    <3> QED
      BY <2>2, <3>1, <3>2
  <2>6. hpc = "glitchArm" => AtShot(4)'
    BY SMTT(30), <2>1, <1>ShotWorks DEF Glitches
  <2> QED
    BY SMTT(30), <2>1, <2>2, <2>4, <2>5, <2>6, <1>OffWorks, <1>OnAckWorks, <1>StartWorks, <1>FirstAckWorks,
       <1>GlitchArmedWorks,
       <1>GlitcherWorks, <1>ClassifyWorks, <1>ExtraWorks, <1>FlushWorks
    DEF Glitches
<1>2. CASE hpc \notin Shooting
  <2>1. hpc' = hpc
    BY DEF hostVars
  <2> QED
    BY <1>2, <2>1 DEF Glitches, Shooting
<1> QED
  BY <1>1, <1>2

\* A step of the device keeps the invariant.
LEMMA DeviceKeeps == ASSUME Inv, DeviceStep PROVE Inv'
<1> USE ZenonT(30)
<1>1. Dev /\ Shoot /\ UNCHANGED hostVars /\ UNCHANGED <<form, guarded, want>>
  BY DEF DeviceStep, Device, Dev
<1>2. UNCHANGED dtr
  BY <1>1 DEF Dev, MainStep, GetCommand, GetArgument, Test, SetSamples, SetGain, SetPrescaler, Calibrate,
     SetBits12, SetConf, Power, Invalid, Answer, Prepare, Ready, WaitReturn, Read, Glitch, Reply, StartFetch,
     FetchByte, EndFetch, Edge, Convert
<1>3. UNCHANGED <<script, hpc, self, k, val, fetched, prompt>>
  BY <1>1 DEF hostVars
<1>4. Base
  BY DEF Inv
<1>5. Base'
  <2>1. DeviceTypes'
    BY <1>1, <1>4, DeviceTypesStep DEF Base
  <2>2. HostTypes'
    BY SMTT(30), <1>1, <1>2, <1>3, <1>4 DEF Base, HostTypes
  <2> QED
    BY <2>1, <2>2 DEF Base
<1>6. Sound' <=> Sound
  BY <1>3 DEF Sound
<1>7. Sound => Reconnection' /\ Acquisition'
  BY <1>1, <1>4, ReconnectionDev, AcquisitionDev DEF Inv
<1>8. prompt => Glitches'
  BY <1>1, <1>4, GlitchesDev DEF Inv
<1> QED
  BY <1>3, <1>5, <1>6, <1>7, <1>8 DEF Inv

LEMMA SameKeeps == ASSUME Inv, UNCHANGED allVars PROVE Inv'
<1> USE ZenonT(30)
<1>1. /\ UNCHANGED devVars /\ UNCHANGED <<in, out>>
      /\ UNCHANGED <<pc, cmd, args, conf, adc, power, sent, in, out, dtr, timedOut>>
      /\ UNCHANGED <<script, hpc, self, k, val, fetched, prompt, form, guarded, want, shot>>
  BY DEF allVars, linkVars, vars, hostVars, glitchVars, devVars, twVars, acqVars, mainVars, setVars
<1>2. Base'
  <2>1. DeviceTypes'
    BY <1>1, SameTypes DEF Inv, Base
  <2>2. HostTypes'
    BY SMTT(30), <1>1 DEF Inv, Base, HostTypes
  <2> QED
    BY <2>1, <2>2 DEF Base
<1>3. Sound => Reconnection'
  <2>1. Lost' <=> Lost
    <3>1. Answering' <=> Answering
      BY <1>1 DEF Answering, Between, AllOf, Room
    <3>2. Swallowing' <=> Swallowing
      BY SMTT(30), <1>1 DEF Swallowing, AllOf
    <3>3. Acquiring' <=> Acquiring
      BY <1>1 DEF Acquiring, Between, AllOf, Asked
    <3>4. Sampling' <=> Sampling
      BY <1>1 DEF Sampling, Between, AllOf, Asked
    <3> QED
      BY <1>1, <3>1, <3>2, <3>3, <3>4 DEF Lost
  <2>2. Behind(Room(1))' <=> Behind(Room(1))
    BY <1>1 DEF Behind, Room
  <2>3. Behind(Room(k))' <=> Behind(Room(k))
    BY <1>1 DEF Behind, Room
  <2>4. HoldBelow(k)' <=> HoldBelow(k)
    BY <1>1 DEF HoldBelow, Holds
  <2>5. HoldBelow(k + 1)' <=> HoldBelow(k + 1)
    BY <1>1 DEF HoldBelow, Holds
  <2>7. Settings' = Settings
    BY <1>1 DEF Settings
  <2>8. Idle' <=> Idle
    BY <1>1 DEF Idle, After, Work
  <2>9. After(<<>>, Settings[k])' <=> After(<<>>, Settings[k])
    BY <1>1, <2>7 DEF After, Work
  <2>10. /\ After(<<"d">>, <<>>)' <=> After(<<"d">>, <<>>)
         /\ After(<<"text">>, <<>>)' <=> After(<<"text">>, <<>>)
    BY <1>1 DEF After, Work
  <2> QED
    BY <1>1, <2>1, <2>2, <2>3, <2>4, <2>5, <2>8, <2>9, <2>10 DEF Inv, Reconnection
<1>4. Sound => Acquisition'
  BY <1>1 DEF Inv, Acquisition, Idle, Agreed, HoldBelow, Holds, After, Work, Settings, Waits,
     InCommand, Answers,
              SamplesComing
<1>5. prompt => Glitches'
  <2>1. S(1)' = S(1) /\ S(2)' = S(2) /\ S(3)' = S(3) /\ S(k - 1)' = S(k - 1) /\ S(k)' = S(k) /\ S(4 - 1)' = S(4 - 1)
    BY <1>1 DEF S, ShotCommands
  <2> USE <1>1, <2>1 DEF Late0, Late1, Late2, Late3, Owe1, Owe2, Owe3, Owe4, After, Work, Idle, InCommand, Waits, Answers,
              ShotBelow, ShotHolds, Recorded
  <2>2. (AtOff' <=> AtOff) /\ (AtOn' <=> AtOn) /\ (AtClassify' <=> AtClassify) /\ (AtGlitcher' <=> AtGlitcher)
    BY DEF AtOff, AtOn, AtClassify, AtGlitcher
  <2>3. (AtOffAck' <=> AtOffAck) /\ (AtFlush' <=> AtFlush)
    BY DEF AtOffAck, AtFlush
  <2>4. AtOnAck' <=> AtOnAck
    BY DEF AtOnAck
  <2>5. AtStart' <=> AtStart
    BY DEF AtStart
  <2>6. AtFirstAck' <=> AtFirstAck
    BY DEF AtFirstAck
  <2>7. AtShot(k)' <=> AtShot(k)
    BY DEF AtShot
  <2>8. AtShot(4)' <=> AtShot(4)
    BY DEF AtShot
  <2>9. AtShotAck(k)' <=> AtShotAck(k)
    BY DEF AtShotAck
  <2>10. AtGlitchArmed' <=> AtGlitchArmed
    BY DEF AtGlitchArmed
  <2>11. AtExtra' <=> AtExtra
    BY DEF AtExtra
  <2> QED
    BY <2>2, <2>3, <2>4, <2>5, <2>6, <2>7, <2>8, <2>9, <2>10, <2>11 DEF Inv, Glitches
<1> QED
  BY <1>1, <1>2, <1>3, <1>4, <1>5 DEF Inv, Sound

LEMMA DeviceStarts == ASSUME LinkInit PROVE DeviceTypes
<1> USE ZenonT(30)
<1>0. /\ in = <<>> /\ out = <<>> /\ sent = 0 /\ intact = FALSE /\ Acq!Init /\ pc \in {"cmd", "args"}
      /\ adc = [gain |-> {}, prescaler |-> 0, cal |-> 0]
  BY SMT DEF LinkInit
<1>1. conf \in Confs
  <2>1. PICK t \in Nat : t = 40000
    BY SMT
  <2>2. conf = [timeout |-> t, delay |-> 0, numberOfSamples |-> 1, glitch_length |-> 0, bits12 |-> TRUE, pulses |-> 1]
    BY <2>1, SMT DEF LinkInit
  <2>3. 1 \in 0 .. BufSize
    BY SMTT(30), SizesAssumption
  <2> QED
    BY <2>2, <2>3 DEF Confs
<1>2. Acq!TypeOK
  <2>1. DP!TypeOK
    BY SMTT(30), <1>0, SizesAssumption DEF Acq!Init, DP!TypeOK, Acq!BurstOf, Acq!Nowhere, Acq!Offsets, DP!Offsets, DP!Lengths
  <2> QED
    BY <2>1 DEF DP!TypeOK, Acq!TypeOK, DP!Lengths, Acq!Lengths, DP!Offsets, Acq!Offsets
<1>3. FInv
  BY SMTT(30), <1>0 DEF Acq!Init, FInv, Line, Places, Intact
<1>4. \/ pc = "cmd" /\ cmd = 0 /\ args = <<>>
      \/ /\ pc = "args" /\ cmd \in Shorts \cup Chars /\ args \in {<<>>, <<0>>}
         /\ Len(args) < NArgs(cmd)
  BY SMT DEF LinkInit
<1>5. cmd \in Bytes
  BY SMTT(30), <1>4 DEF Bytes, Shorts, Chars, Ch
<1>6. args \in Seq(Bytes) /\ in \in Seq(Bytes)
  <2>1. 0 \in Bytes
    BY SMTT(30) DEF Bytes
  <2>2. <<>> \in Seq(Bytes) /\ <<0>> \in Seq(Bytes)
    BY SMTT(30), <2>1
  <2>3. args \in {<<>>, <<0>>}
    BY <1>4
  <2> QED
    BY <1>0, <2>2, <2>3
<1>7. Parsing
  BY <1>4, <1>6 DEF Parsing
<1>8. Sending
  BY <1>0 DEF Sending
<1>9. adc \in AdcTypes
  BY <1>0 DEF AdcTypes
<1> QED
  BY <1>1, <1>2, <1>3, <1>5, <1>7, <1>8, <1>9 DEF DeviceTypes, IInv

LEMMA HostStarts == ASSUME Init3 PROVE HostTypes
<1>1. /\ hpc = "open" /\ self = Self /\ k = 1 /\ val = "nothing" /\ fetched = 0 /\ script = "any"
      /\ want = NoShot /\ prompt \in BOOLEAN
  BY SMT DEF Init3, LinkInit, GlitchInit
<1>2. guarded \in BOOLEAN /\ dtr \in BOOLEAN /\ ~dtr
  <2>1. guarded = FALSE /\ dtr = FALSE
    BY SMT DEF Init3, LinkInit, GlitchInit
  <2> QED
    BY <2>1, ZenonT(30)
<1>3. self \in Selfs
  BY <1>1, SelfAssumption, ZenonT(30) DEF Selfs
<1>4. want \in ShotTypes
  <2>1. 0 \in Words
    BY ByteIsWord
  <2> QED
    BY <1>1, <2>1 DEF NoShot, ShotTypes
<1> QED
  BY <1>1, <1>2, <1>3, <1>4, ZenonT(30) DEF HostTypes, Reconnecting, Attempting, Filling, Shooting

LEMMA Starts == ASSUME Init3 PROVE Inv
<1> USE ZenonT(30)
<1>0. Base
  BY DeviceStarts, HostStarts DEF Init3, Base
<1>1. hpc = "open" /\ in = <<>> /\ out = <<>> /\ (pc = "cmd" \/ (pc = "args" /\ cmd \in Shorts \cup Chars))
  BY SMT DEF Init3, LinkInit
<1>2. AllOf(Ch.t)
  BY SMTT(30), <1>1 DEF AllOf
<1>3. Lost
  <2>1. CASE pc = "cmd"
    <3>1. Room(0) \in Nat
      BY <1>0, RoomIsNat DEF Base, HostTypes
    <3>2. Len(out) = 0
      BY <1>1
    <3>3. 0 \in 0 .. Len(out) /\ 1 .. 0 = {} /\ 0 + 1 .. Len(out) = {} /\ 0 <= Room(0) /\ ~(0 > 0)
      BY SMTT(30), <3>1, <3>2
    <3>4. \E a \in 0 .. Len(out) :
             /\ a <= Room(0)
             /\ \A i \in 1 .. a : out[i] \in Samples
             /\ \A i \in a + 1 .. Len(out) : out[i] \notin Samples /\ (a > 0 => out[i] = "T")
             /\ a > 0 /\ hpc = "test" /\ val = "nothing" =>
                    in # <<>> \/ pc = "exec" \/ a < Len(out)
      <4> USE <3>3
      <4> WITNESS 0 \in 0 .. Len(out)
      <4> QED
        BY <3>3
    <3>5. \A i, j \in 1 .. Len(out) : i < j /\ out[i] = "T" => out[j] = "T"
      BY SMTT(30), <3>2
    <3> QED
      BY <1>2, <2>1, <3>4, <3>5 DEF Lost, Answering, Between
  <2>2. CASE pc = "args"
    BY <1>1, <1>2, <2>2 DEF Lost, Swallowing
  <2> QED
    BY <1>1, <2>1, <2>2
<1>4. Reconnection /\ Acquisition
  BY <1>1, <1>3 DEF Reconnection, Acquisition, Attempting
<1>5. Glitches
  BY <1>1 DEF Glitches
<1> QED
  BY <1>0, <1>1, <1>4, <1>5 DEF Inv

LEMMA Invariant == Spec3 => []Inv
<1>1. Inv /\ [Next3]_allVars => Inv'
  BY DeviceKeeps, ProgramKeeps, SameKeeps, ZenonT(30) DEF Next3
<1> QED
  BY <1>1, Starts, PTL DEF Spec3

\* Outside a reconnect and an attempt nothing of an earlier command or reply is
\* on the line, for every setting, buffer and line, with all three programs,
\* whatever the device was doing when the constructor found it and however late
\* it answers, unless the samples of a late fetch stand for a whole reconnect
\* (scope.py lines 39-79, 120-147).
THEOREM LineIsInStep == Spec3 => []InStep
<1>1. Inv => InStep
  <2> USE ZenonT(30)
  <2> SUFFICES ASSUME Inv, Trusted, hpc = "idle" PROVE in = <<>> /\ out = <<>> /\ pc \in {"cmd", "fetch"}
    BY DEF InStep
  <2>1. Sound
    BY SettingsCount DEF Trusted, Sound, Inv, Base, HostTypes
  <2>2. Idle /\ DeviceTypes
    BY <2>1 DEF Inv, Base, Acquisition
  <2>3. Between /\ in = <<>>
    BY <2>2, WorkNone DEF Idle, After
  <2> QED
    BY <2>2, <2>3 DEF Idle, After, Between
<1> QED
  BY <1>1, Invariant, PTL

\* And then the device has the settings of the Scope object: no 'd' that
\* _checkResponse took was the answer to something else (scope.py lines 49-54,
\* 76-79, gui.py lines 113-123).
THEOREM SettingsAlwaysAgree == Spec3 => []SettingsAgree
<1>1. Inv => SettingsAgree
  <2> USE ZenonT(30)
  <2> SUFFICES ASSUME Inv, Trusted, hpc = "idle"
               PROVE  /\ conf.numberOfSamples = self.numSamples
                      /\ conf.bits12 = self.bits12
                      /\ conf.delay = self.delay
                      /\ adc.prescaler = self.clockDivider
                      /\ adc.cal = self.bias
    BY DEF SettingsAgree
  <2>1. Sound
    BY SettingsCount DEF Trusted, Sound, Inv, Base, HostTypes
  <2>2. Agreed
    BY <2>1 DEF Inv, Acquisition
  <2>3. Holds(1) /\ Holds(2) /\ Holds(3) /\ Holds(4) /\ Holds(6)
    BY SMTT(30), <2>2 DEF Agreed, HoldBelow
  <2> QED
    BY <2>3 DEF Holds
<1> QED
  BY <1>1, Invariant, PTL

\* With a device that answers in time, reconnect never raises, if the number of
\* samples the object was made with fits the buffer: 2500, 1500 and 3500 of 3584
\* in the scripts (scope.py lines 39-79, HorrorScope.c lines 111-121).
THEOREM ReconnectSurvives ==
  ASSUME Self.numSamples <= BufSize
  PROVE  Spec3 => []Survives
<1>1. Self.numSamples \in Nat /\ BufSize \in Nat
  BY SMTT(30), SelfAssumption, SizesAssumption, WordBound
<1>2. ~(Self.numSamples > BufSize)
  BY <1>1
<1>3. Inv => Survives
  BY <1>2, ZenonT(30) DEF Inv, Survives
<1> QED
  BY <1>3, Invariant, PTL

\* With such a device every attempt that the glitch script counts was glitched,
\* with its own parameters and after a trigger, for all parameters (runSetup.py
\* lines 69-123, scope.py lines 76-79, 180-187).
THEOREM CountedAreGlitched == Spec3 => []CountedIsGlitched
<1>1. Inv => CountedIsGlitched
  BY ZenonT(30) DEF Inv, Glitches, AtClassify, CountedIsGlitched
<1> QED
  BY <1>1, Invariant, PTL

\* And the target it starts has power, although the 'd' of powerOn may have been
\* that of an earlier command (runSetup.py lines 40-50, 86-91).
THEOREM StartedArePowered == Spec3 => []PoweredWhenStarted
<1>1. Inv => PoweredWhenStarted
  BY ZenonT(30) DEF Inv, Glitches, AtGlitcher, PoweredWhenStarted
<1> QED
  BY <1>1, Invariant, PTL
=============================================================================
