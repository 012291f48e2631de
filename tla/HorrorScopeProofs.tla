------------------------- MODULE HorrorScopeProofs -------------------------
(***************************************************************************)
(* The command loop uses the sample memory as Dmaadc says, for every size  *)
(* of the buffer, every content of the commands and every order of edges,  *)
(* conversions and acts of the host.  It needs the bytes read so far to be *)
(* a whole argument, and the number of samples to be at most the buffer:   *)
(* that is IInv.  What DmaadcProofs has then holds in the whole firmware.  *)
(***************************************************************************)
EXTENDS HorrorScopeInvariant, TLAPS


-----------------------------------------------------------------------------
LEMMA LengthIs == ASSUME NEW A, NEW s \in Seq(A) PROVE Len(s) \in Nat /\ DOMAIN s = 1 .. Len(s)
  OBVIOUS

LEMMA ByteAt == ASSUME NEW A, NEW s \in Seq(A), NEW i \in 1 .. Len(s) PROVE s[i] \in A
  OBVIOUS

LEMMA TakeFirst ==
  ASSUME NEW A, NEW s \in Seq(A), s # <<>>
  PROVE  Head(s) \in A /\ Tail(s) \in Seq(A) /\ Len(Tail(s)) = Len(s) - 1
  OBVIOUS

LEMMA AddLast ==
  ASSUME NEW A, NEW s \in Seq(A), NEW e \in A
  PROVE  Append(s, e) \in Seq(A) /\ Len(Append(s, e)) = Len(s) + 1
  OBVIOUS

LEMMA ArgIsByte == ASSUME Parsing, NEW n \in 1 .. Len(args) PROVE args[n] \in Bytes
  BY ByteAt, ZenonT(30) DEF Parsing

LEMMA ShortIsNat == ASSUME Parsing, pc = "exec", cmd \in Shorts PROVE Short \in Nat
<1>1. 1 \in 1 .. Len(args) /\ 2 \in 1 .. Len(args)
  BY DEF Parsing, NArgs
<1>2. args[1] \in Bytes /\ args[2] \in Bytes
  BY <1>1, ArgIsByte, ZenonT(30)
<1>3. \A a, b \in Bytes : a * 256 + b \in Nat
  BY DEF Bytes
<1> QED
  BY <1>2, <1>3, ZenonT(30) DEF Short

LEMMA InvInit == Init => IInv
  BY SizesAssumption DEF Init, IInv, Parsing, Confs

\* The bytes read, and the place in the loop.
LEMMA ParsingStep == IInv /\ [Next]_vars => Parsing'
<1> USE ZenonT(30)
<1> SUFFICES ASSUME IInv, [Next]_vars PROVE Parsing'
  OBVIOUS
<1> USE DEF IInv, Parsing, Bytes
<1>1. CASE GetCommand
  <2>1. in' \in Seq(Bytes) /\ args' = <<>>
    BY SMTT(30), <1>1 DEF GetCommand
  <2> QED
    BY SMTT(30), <1>1, <2>1 DEF GetCommand, NArgs
<1>2. CASE GetArgument
  <2>1. in' \in Seq(Bytes) /\ args' \in Seq(Bytes) /\ Len(args') = Len(args) + 1
    <3>1. Head(in) \in Bytes /\ Tail(in) \in Seq(Bytes)
      BY <1>2, TakeFirst DEF GetArgument
    <3> QED
      BY SMTT(30), <1>2, <3>1, AddLast DEF GetArgument
  <2>2. NArgs(cmd) \in Nat
    BY DEF NArgs
  <2>3. (pc' = "args" => Len(args') < NArgs(cmd)) /\ (pc' = "exec" => Len(args') = NArgs(cmd))
    BY SMTT(30), <1>2, <2>1, <2>2 DEF GetArgument
  <2> QED
    BY <1>2, <2>1, <2>3 DEF GetArgument, NArgs
<1>3. CASE Loop /\ UNCHANGED in
  BY SMTT(30), <1>3 DEF Loop
<1>4. CASE Test \/ SetSamples \/ SetGain \/ SetPrescaler \/ Calibrate \/ SetBits12 \/ SetConf
           \/ Power \/ Invalid \/ Reply \/ EndFetch
  BY <1>3, <1>4 DEF Test, SetSamples, SetGain, SetPrescaler, Calibrate, SetBits12, SetConf, Power,
                    Invalid, Reply, EndFetch, Answer, lineVars
<1>5. CASE Prepare \/ Ready \/ WaitReturn \/ Read \/ Glitch \/ StartFetch
  BY <1>5 DEF Prepare, Ready, WaitReturn, Read, Glitch, StartFetch, lineVars
<1>6. CASE FetchByte \/ Edge \/ Convert \/ HostRead \/ HostDtr
  BY <1>6 DEF FetchByte, Edge, Convert, HostRead, HostDtr, mainVars, lineVars, NArgs
<1>7. ASSUME NEW byte \in Commands \cup Arguments, HostSend(byte) PROVE Parsing'
  BY SMTT(30), <1>7, BytesAssumption DEF HostSend, mainVars, NArgs
<1>8. CASE UNCHANGED vars
  BY <1>8 DEF vars, NArgs
<1> QED
  BY <1>1, <1>2, <1>4, <1>5, <1>6, <1>7, <1>8 DEF Next, MainStep

\* The settings.
LEMMA ConfStep == IInv /\ [Next]_vars => conf' \in Confs
<1> SUFFICES ASSUME IInv, [Next]_vars PROVE conf' \in Confs
  BY ZenonT(30)
<1> USE DEF IInv, Confs
<1>1. CASE SetSamples
  <2>1. Short \in Nat
    BY <1>1, ShortIsNat, ZenonT(30) DEF SetSamples, Exec, Shorts
  <2> QED
    BY <1>1, <2>1, SizesAssumption DEF SetSamples
<1>2. CASE SetBits12
  BY <1>2, ZenonT(30) DEF SetBits12
<1>3. CASE SetConf
  <2>1. cmd \in Shorts => Short \in Nat
    BY <1>3, ShortIsNat, ZenonT(30) DEF SetConf, Exec
  <2>2. ASSUME cmd = Ch.p PROVE args[1] \in Nat
    <3>1. cmd \in Chars /\ cmd \notin Shorts
      BY <2>2 DEF Ch, Chars, Shorts
    <3>2. Len(args) = 1
      BY <1>3, <3>1, ZenonT(30) DEF SetConf, Exec, Parsing, NArgs
    <3>3. 1 \in 1 .. Len(args)
      BY <3>2
    <3>4. args[1] \in Bytes
      BY <3>3, ArgIsByte, ZenonT(30)
    <3> QED
      BY <3>4 DEF Bytes
  <2>3. cmd \in {Ch.w, Ch.l, Ch.e} => cmd \in Shorts
    BY ZenonT(30) DEF Shorts
  <2>4. Short \in Nat => GlitchLength(Short) \in Nat
    BY DEF GlitchLength
  <2>5. CASE cmd = Ch.w
    BY <1>3, <2>1, <2>3, <2>5 DEF SetConf, Ch
  <2>6. CASE cmd = Ch.l
    BY <1>3, <2>1, <2>3, <2>4, <2>6 DEF SetConf, Ch
  <2>7. CASE cmd = Ch.e
    BY <1>3, <2>1, <2>3, <2>7 DEF SetConf, Ch
  <2>8. CASE cmd = Ch.p
    BY <1>3, <2>2, <2>8 DEF SetConf, Ch
  <2> QED
    BY <1>3, <2>5, <2>6, <2>7, <2>8, ZenonT(30) DEF SetConf, Exec
<1>4. CASE UNCHANGED conf
  BY <1>4, ZenonT(30)
<1> QED
  BY <1>1, <1>2, <1>3, <1>4, ZenonT(30)
  DEF Next, MainStep, GetCommand, GetArgument, Test, SetGain, SetPrescaler, Calibrate, Power, Invalid, Prepare,
      Ready, WaitReturn, Read, Glitch, Reply, StartFetch, FetchByte, EndFetch, Edge, Convert, HostSend,
      HostRead, HostDtr, setVars, vars

LEMMA Inductive == Spec => []IInv
<1>1. IInv /\ [Next]_vars => IInv'
  BY ParsingStep, ConfStep, ZenonT(30) DEF IInv
<1> QED
  BY InvInit, <1>1, PTL DEF Spec

-----------------------------------------------------------------------------
LEMMA DmaadcStep == IInv /\ [Next]_vars => [Acq!Next]_acqVars
<1> USE ZenonT(30)
<1> SUFFICES ASSUME IInv, [Next]_vars PROVE [Acq!Next]_acqVars
  OBVIOUS
<1>1. CASE UNCHANGED acqVars
  BY <1>1
<1>2. CASE SetBits12
  <2>1. conf'.bits12 \in BOOLEAN
    BY <1>2 DEF SetBits12, IInv, Confs
  <2>2. Acq!dmaadc_init(conf'.bits12)
    BY <1>2 DEF SetBits12
  <2> QED
    BY <2>1, <2>2 DEF Acq!Next
<1>3. CASE Prepare
  BY <1>1, <1>3 DEF Prepare, Acq!Next
<1>4. CASE WaitReturn
  <2>1. conf.numberOfSamples \in Acq!Lengths
    BY DEF IInv, Confs, Acq!Lengths
  <2>2. Acq!ReadBuf(conf.numberOfSamples) \/ UNCHANGED acqVars
    BY <1>4 DEF WaitReturn, Acquire
  <2> QED
    BY <1>1, <2>1, <2>2 DEF Acq!Next
<1>5. CASE Read
  BY <1>5 DEF Read, Acq!Next
<1>6. CASE Convert
  BY <1>6 DEF Convert, Acq!Next
<1> QED
  BY <1>1, <1>2, <1>3, <1>4, <1>5, <1>6
  DEF Next, MainStep, GetCommand, GetArgument, Test, SetSamples, SetGain, SetPrescaler, Calibrate, SetConf,
      Power, Invalid, Ready, Glitch, Reply, StartFetch, FetchByte, EndFetch, Edge, HostSend, HostRead,
      HostDtr, vars, acqVars

\* The firmware implements Dmaadc, for every size of the buffer: a block never
\* has more bytes than scopeBuf, is programmed only after the buffer was
\* cleared, and command '8' does not fall into a read (HorrorScope.c lines
\* 91-201).
THEOREM FirmwareUsesDmaadc == Spec => UsesDmaadc
<1>1. Init => Acq!Init
  BY DEF Init
<1>2. IInv /\ [Next]_vars => [Acq!Next]_Acq!acqVars
  BY DmaadcStep, ZenonT(30) DEF acqVars, Acq!acqVars
<1> QED
  BY <1>1, <1>2, Inductive, PTL DEF Spec, UsesDmaadc, Acq!Spec

-----------------------------------------------------------------------------
\* What DmaadcProofs has, carried over to the firmware.
DP == INSTANCE DmaadcProofs

LEMMA FirmwareDoesDmaadc == Spec => DP!Spec
<1> USE ZenonT(30)
<1>1. Acq!Init => DP!Init
  BY DEF Acq!Init, DP!Init, Acq!BurstOf, DP!BurstOf, Acq!Offsets, DP!Offsets, Acq!Nowhere, DP!Nowhere
<1>2. [Acq!Next]_Acq!acqVars => [DP!Next]_DP!acqVars
  BY DEF Acq!Next, DP!Next, Acq!acqVars, DP!acqVars, Acq!dmaadc_init, DP!dmaadc_init,
         Acq!BurstOf, DP!BurstOf, Acq!ClearBuf, DP!ClearBuf, Acq!ReadBuf, DP!ReadBuf,
         Acq!ReadStep, DP!ReadStep, Acq!SetCount, DP!SetCount, Acq!BlockLength,
         DP!BlockLength, Acq!SetDest, DP!SetDest, Acq!Enable, DP!Enable, Acq!ReadDone,
         DP!ReadDone, Acq!Convert, DP!Convert, Acq!Minimum, DP!Minimum, Acq!Lengths,
         DP!Lengths, Acq!Offsets, DP!Offsets, Acq!Nowhere, DP!Nowhere, Acq!regVars, DP!regVars
<1>3. Acq!Spec => DP!Spec
  BY <1>1, <1>2, PTL DEF Acq!Spec, DP!Spec
<1> QED
  BY <1>3, FirmwareUsesDmaadc, PTL DEF UsesDmaadc

LEMMA AcqTypes == Spec => []Acq!TypeOK
<1> USE ZenonT(30)
<1>1. DP!Spec => []DP!TypeOK
  BY DP!TypeCorrect, SizesAssumption DEF DP!BufSizeAssumption, DP!CountModAssumption
<1>2. DP!TypeOK => Acq!TypeOK
  BY DEF DP!TypeOK, Acq!TypeOK, DP!Lengths, Acq!Lengths, DP!Offsets, Acq!Offsets
<1> QED
  BY <1>1, <1>2, FirmwareDoesDmaadc, PTL

\* The bytes of scopeBuf that the next conversion writes, as offsets.
Written == dest .. dest + Acq!Minimum(burst, trfcnt) - 1

\* A block of at least one byte that was programmed while the channel was idle
\* is written into scopeBuf and nowhere else, conversion by conversion, whatever
\* the host sends before, while and after it runs (HorrorScope.c lines 98-122,
\* dmaadc.c lines 39-60).  arming = "clean" leaves out the two other blocks that
\* the firmware can start: one of length 0, which line 114 of HorrorScope.c
\* accepts and TRFCNT takes for a full count, and one programmed over a block
\* that is still running.
THEOREM FirmwareStaysInBuffer ==
  Spec => [][Convert /\ arming = "clean" => Written \subseteq Acq!Offsets]_vars
<1>1. Spec => []Acq!TransferFits
  <2> USE ZenonT(30)
  <2>1. DP!Spec => []DP!TransferFits
    BY DP!TransfersFit, SizesAssumption DEF DP!BufSizeAssumption, DP!CountModAssumption
  <2>2. DP!TransferFits => Acq!TransferFits
    BY DEF DP!TransferFits, Acq!TransferFits
  <2> QED
    BY <2>1, <2>2, FirmwareDoesDmaadc, PTL
<1>2. Acq!TypeOK /\ Acq!TransferFits
      => [Convert /\ arming = "clean" => Written \subseteq Acq!Offsets]_vars
  <2> SUFFICES ASSUME Acq!TypeOK, Acq!TransferFits, Convert, arming = "clean"
               PROVE  Written \subseteq Acq!Offsets
    OBVIOUS
  <2>1. enable
    BY DEF Convert, Acq!Convert
  <2>2. dest \in Nat /\ trfcnt \in Nat /\ burst \in Nat /\ dest + trfcnt <= BufSize
    BY <2>1, SizesAssumption DEF Acq!TypeOK, Acq!TransferFits
  <2>3. Acq!Minimum(burst, trfcnt) \in Nat /\ Acq!Minimum(burst, trfcnt) <= trfcnt
    BY <2>2 DEF Acq!Minimum
  <2> QED
    BY <2>2, <2>3, SizesAssumption DEF Written, Acq!Offsets
<1> QED
  BY <1>1, <1>2, AcqTypes, PTL

\* Once such a block is complete, exactly the first length bytes of the buffer
\* are its samples, until command 'd' or '8' comes (HorrorScope.c lines
\* 98-122, dmaadc.c lines 39-60).
THEOREM FirmwareFillsBuffer == Spec => []Acq!FilledWhenDone
<1> USE ZenonT(30)
<1>1. DP!Spec => []DP!FilledWhenDone
  BY DP!BufferIsFilled, SizesAssumption DEF DP!BufSizeAssumption, DP!CountModAssumption
<1>2. DP!FilledWhenDone => Acq!FilledWhenDone
  BY DEF DP!FilledWhenDone, Acq!FilledWhenDone, DP!Offsets, Acq!Offsets
<1> QED
  BY <1>1, <1>2, FirmwareDoesDmaadc, PTL

-----------------------------------------------------------------------------

LEMMA PutStep == ASSUME Line, NEW byte \in Sent, Put(byte) PROVE out' \in Seq(Sent)
  BY AddLast, ZenonT(30) DEF Line, Put

LEMMA LineStep == Acq!TypeOK /\ IInv /\ FInv /\ [Next]_vars => Line'
<1> USE ZenonT(30)
<1> SUFFICES ASSUME Acq!TypeOK, IInv, FInv, [Next]_vars PROVE Line'
  OBVIOUS
<1> USE DEF FInv
<1>1. CASE Test \/ SetSamples \/ SetGain \/ SetPrescaler \/ Calibrate \/ SetBits12 \/ SetConf
           \/ Power \/ Invalid \/ Reply
  <2>1. PICK byte \in Sent : Put(byte) /\ sent' = 0
    BY <1>1 DEF Test, SetSamples, SetGain, SetPrescaler, Calibrate, SetBits12, SetConf, Power, Invalid, Reply,
                Result, Answer, Loop, Sent
  <2> QED
    BY <2>1, PutStep DEF Line
<1>2. CASE Ready
  <2>1. "r" \in Sent /\ Put("r") /\ sent' = sent
    BY <1>2 DEF Ready, Sent
  <2> QED
    BY <2>1, PutStep DEF Line
<1>3. CASE FetchByte
  <2>1. PICK byte \in Sent : Put(byte)
    <3>1. sent < BufSize => scopeBuf[sent] \in Sent
      BY SMTT(30), SizesAssumption DEF Line, Acq!TypeOK, Acq!Offsets, Sent
    <3> QED
      BY <1>3, <3>1 DEF FetchByte, Sent
  <2>2. sent' \in Nat
    BY SMTT(30), <1>3 DEF FetchByte, Line
  <2> QED
    BY <2>1, <2>2, PutStep DEF Line
<1>4. CASE HostRead
  BY <1>4, TakeFirst DEF HostRead, Line
<1>5. CASE EndFetch
  BY <1>5 DEF EndFetch, Loop, lineVars, Line
<1>6. CASE UNCHANGED <<out, sent>>
  BY <1>6 DEF Line
<1> QED
  BY <1>1, <1>2, <1>3, <1>4, <1>5, <1>6
  DEF Next, MainStep, GetCommand, GetArgument, Prepare, WaitReturn, Read, Glitch, StartFetch, Edge, Convert,
      HostSend, HostDtr, lineVars, vars

LEMMA PlacesStep == IInv /\ FInv /\ [Next]_vars => Places' /\ Intact'
<1> USE ZenonT(30)
<1> SUFFICES ASSUME IInv, FInv, [Next]_vars PROVE Places' /\ Intact'
  OBVIOUS
<1> USE DEF FInv, Places, Intact, acqVars
<1>1. CASE SetSamples
  <2>1. intact' => intact /\ conf' = conf
    BY <1>1 DEF SetSamples
  <2> QED
    BY <1>1, <2>1 DEF SetSamples, Exec
<1>2. CASE SetBits12
  <2>1. ~intact' /\ apc' = apc
    BY <1>2 DEF SetBits12, Acq!dmaadc_init
  <2> QED
    BY <1>2, <2>1 DEF SetBits12, Exec
<1>3. CASE SetConf
  <2>1. conf'.numberOfSamples = conf.numberOfSamples
    <3>1. CASE cmd = Ch.w
      BY <1>3, <3>1 DEF SetConf, Ch, IInv, Confs
    <3>2. CASE cmd = Ch.l
      BY <1>3, <3>2 DEF SetConf, Ch, IInv, Confs
    <3>3. CASE cmd = Ch.e
      BY <1>3, <3>3 DEF SetConf, Ch, IInv, Confs
    <3>4. CASE cmd = Ch.p
      BY <1>3, <3>4 DEF SetConf, Ch, IInv, Confs
    <3> QED
      BY <1>3, <3>1, <3>2, <3>3, <3>4 DEF SetConf, Exec
  <2> QED
    BY <1>3, <2>1 DEF SetConf, Exec
<1>4. CASE Prepare
  <2>1. intact' => intact /\ cmd # Ch.d
    BY <1>4 DEF Prepare
  <2>2. conf' = conf /\ cmd' = cmd /\ pc = "exec" /\ pc' = "ready"
    BY <1>4 DEF Prepare, Exec, setVars
  <2>3. CASE cmd = Ch.d
    BY <1>4, <2>1, <2>2, <2>3 DEF Prepare, Acq!ClearBuf
  <2>4. CASE cmd # Ch.d
    BY <1>4, <2>1, <2>2, <2>4 DEF Prepare
  <2> QED
    BY <2>3, <2>4
<1>5. CASE WaitReturn
  BY <1>5 DEF WaitReturn, Acquire, Acq!ReadBuf, setVars
<1>6. CASE Read
  BY <1>6 DEF Read, Acq!ReadStep, Acq!SetCount, Acq!SetDest, Acq!Enable, Acq!ReadDone, setVars
<1>7. CASE Convert
  BY <1>7 DEF Convert, Acq!Convert, mainVars, setVars
<1>8. CASE GetCommand \/ GetArgument \/ Test \/ SetGain \/ SetPrescaler \/ Calibrate \/ Power \/ Invalid
  BY SMTT(30), <1>8 DEF GetCommand, GetArgument, Test, SetGain, SetPrescaler, Calibrate, Power, Invalid, Exec, setVars
<1>9. CASE Ready \/ Glitch \/ Reply \/ StartFetch \/ FetchByte \/ EndFetch
  BY SMTT(30), <1>9 DEF Ready, Glitch, Reply, StartFetch, FetchByte, EndFetch, Exec, mainVars, setVars
<1>10. CASE Edge \/ HostRead \/ HostDtr \/ \E byte \in Commands \cup Arguments : HostSend(byte)
  BY SMTT(30), <1>10 DEF Edge, HostRead, HostDtr, HostSend, mainVars, setVars
<1>11. CASE UNCHANGED vars
  BY <1>11 DEF vars
<1> QED
  BY <1>1, <1>2, <1>3, <1>4, <1>5, <1>6, <1>7, <1>8, <1>9, <1>10, <1>11 DEF Next, MainStep

LEMMA FInductive == Spec => []FInv
<1>1. Init => FInv
  BY DEF Init, Acq!Init, FInv, Line, Places, Intact
<1>2. Acq!TypeOK /\ IInv /\ FInv /\ [Next]_vars => FInv'
  BY LineStep, PlacesStep, ZenonT(30) DEF FInv
<1> QED
  BY <1>1, <1>2, Inductive, AcqTypes, PTL DEF Spec

\* What 's' sends is the last acquisition, for every size of the buffer and
\* every sequence of commands between (HorrorScope.c lines 98-122).
THEOREM FetchedAreSampled == Spec => FetchedIsSampled
<1> USE ZenonT(30)
<1>1. ASSUME Acq!TypeOK, IInv, FInv, Acq!FilledWhenDone,
             FetchByte, intact, ~enable, arming = "clean", out' # out
      PROVE  out'[Len(out')] = "new"
  <2>1. apc = "idle" /\ fresh /\ length = conf.numberOfSamples
    BY <1>1 DEF Acq!TypeOK, FInv, Places, Intact, FetchByte
  <2>2. sent \in Acq!Offsets /\ sent < length
    <3>1. conf.numberOfSamples \in 0 .. BufSize
      BY <1>1 DEF IInv, Confs
    <3>2. sent \in Nat /\ sent < conf.numberOfSamples
      BY <1>1 DEF FInv, Line, FetchByte
    <3> QED
      BY SMTT(30), <2>1, <3>1, <3>2, SizesAssumption DEF Acq!Offsets
  <2>3. scopeBuf[sent] = "new"
    BY <1>1, <2>1, <2>2 DEF Acq!FilledWhenDone
  <2>4. out' = Append(out, "new")
    <3>1. sent < BufSize
      BY SMTT(30), <2>2, SizesAssumption DEF Acq!Offsets
    <3>2. Put("new")
      BY <1>1, <2>3, <3>1 DEF FetchByte
    <3> QED
      BY <1>1, <3>2 DEF Put
  <2> QED
    <3>1. out \in Seq(Sent) /\ "new" \in Sent
      BY <1>1 DEF FInv, Line, Sent
    <3>2. Len(Append(out, "new")) = Len(out) + 1 /\ Append(out, "new")[Len(out) + 1] = "new"
      BY SMTT(30), <3>1, AddLast
    <3> QED
      BY <2>4, <3>2
<1>2. Acq!TypeOK /\ IInv /\ FInv /\ Acq!FilledWhenDone
      => [FetchByte /\ intact /\ ~enable /\ arming = "clean" /\ out' # out => out'[Len(out')] = "new"]_vars
  BY <1>1
<1> QED
  BY <1>2, AcqTypes, Inductive, FInductive, FirmwareFillsBuffer, PTL DEF FetchedIsSampled

-----------------------------------------------------------------------------
\* The settings as the firmware's types see them.
ConfRanges == [timeout : Words, delay : Words, numberOfSamples : 0 .. BufSize,
               glitch_length : Bytes, bits12 : BOOLEAN, pulses : Bytes]
AdcRanges == [gain : SUBSET (0 .. 2), prescaler : 0 .. 7, cal : Words]

LEMMA WordIs == \A v \in Nat : v <= 65535 => v \in Words
<1>1. \E n \in Nat : n = 65535
  BY SMT
<1>2. PICK n \in Nat : n = 65535
  BY <1>1, SMT
<1>3. Words = 0 .. n
  BY <1>2, SMT DEF Words
<1>4. \A v \in Nat : v <= n => v \in Words
  BY <1>3, SMT
<1> QED
  BY <1>2, <1>4, SMT

LEMMA ShortIsWord == ASSUME Parsing, pc = "exec", cmd \in Shorts PROVE Short \in Words
<1>1. 1 \in 1 .. Len(args) /\ 2 \in 1 .. Len(args)
  BY DEF Parsing, NArgs
<1>2. args[1] \in Bytes /\ args[2] \in Bytes
  BY <1>1, ArgIsByte, ZenonT(30)
<1>3. ASSUME NEW a \in Bytes, NEW b \in Bytes
      PROVE  a * 256 + b \in Nat /\ a * 256 + b <= 65535
  BY SMT DEF Bytes
<1>4. args[1] * 256 + args[2] \in Nat /\ args[1] * 256 + args[2] <= 65535
  BY <1>2, <1>3, SMT
<1> QED
  BY <1>4, WordIs, SMT DEF Short

LEMMA CharIsByte == ASSUME Parsing, pc = "exec", cmd \in Chars PROVE args[1] \in Bytes
<1>1. cmd \notin Shorts
  BY DEF Chars, Shorts, Ch
<1>2. Len(args) = 1
  BY <1>1, ZenonT(30) DEF Parsing, NArgs
<1>3. 1 \in 1 .. Len(args)
  BY <1>2
<1> QED
  BY <1>3, ArgIsByte, ZenonT(30)

LEMMA ConfRange == ASSUME IInv, TypeOK, [Next]_vars PROVE conf' \in ConfRanges
<1> USE ZenonT(30)
<1>1. conf \in ConfRanges
  BY DEF TypeOK, ConfRanges, Bytes
<1>2. CASE SetSamples
  <2>2. Short \in Nat
    BY <1>2, ShortIsNat DEF SetSamples, Exec, Shorts, IInv
  <2>3. ~ (Short > BufSize) => Short \in 0 .. BufSize
    BY SMTT(30), <2>2, SizesAssumption
  <2> QED
    BY <1>1, <1>2, <2>3 DEF SetSamples, ConfRanges
<1>3. CASE SetBits12
  BY <1>1, <1>3 DEF SetBits12, ConfRanges
<1>4. CASE SetConf
  <2>1. cmd \in {Ch.w, Ch.e} => Short \in Words
    BY <1>4, ShortIsWord DEF SetConf, Exec, Shorts, IInv
  <2>2. cmd = Ch.p => args[1] \in Bytes
    BY <1>4, CharIsByte DEF SetConf, Exec, Chars, IInv
  <2>3. cmd = Ch.l => GlitchLength(Short) \in Bytes
    <3>1. cmd = Ch.l => Short \in Nat
      BY <1>4, ShortIsNat DEF SetConf, Exec, Shorts, IInv
    <3> QED
      BY SMTT(30), <3>1 DEF GlitchLength, Bytes
  <2>4. CASE cmd = Ch.w
    <3>1. conf' = [conf EXCEPT !.delay = Short]
      BY SMTT(30), <1>4, <2>4 DEF SetConf, Ch
    <3> QED
      BY <1>1, <2>1, <2>4, <3>1 DEF ConfRanges
  <2>5. CASE cmd = Ch.l
    <3>1. conf' = [conf EXCEPT !.glitch_length = GlitchLength(Short)]
      BY SMTT(30), <1>4, <2>5 DEF SetConf, Ch
    <3> QED
      BY <1>1, <2>3, <2>5, <3>1 DEF ConfRanges
  <2>6. CASE cmd = Ch.e
    <3>1. conf' = [conf EXCEPT !.timeout = Short]
      BY SMTT(30), <1>4, <2>6 DEF SetConf, Ch
    <3> QED
      BY <1>1, <2>1, <2>6, <3>1 DEF ConfRanges
  <2>7. CASE cmd = Ch.p
    <3>1. conf' = [conf EXCEPT !.pulses = args[1]]
      BY SMTT(30), <1>4, <2>7 DEF SetConf, Ch
    <3> QED
      BY <1>1, <2>2, <2>7, <3>1 DEF ConfRanges
  <2> QED
    BY <1>4, <2>4, <2>5, <2>6, <2>7 DEF SetConf, Exec
<1>5. CASE UNCHANGED conf
  BY <1>1, <1>5
<1> QED
  BY <1>2, <1>3, <1>4, <1>5
  DEF Next, MainStep, GetCommand, GetArgument, Test, SetGain, SetPrescaler, Calibrate, Power, Invalid, Prepare,
      Ready, WaitReturn, Read, Glitch, Reply, StartFetch, FetchByte, EndFetch, Edge, Convert, HostSend,
      HostRead, HostDtr, setVars, vars

LEMMA AdcRange == ASSUME IInv, TypeOK, [Next]_vars PROVE adc' \in AdcRanges /\ power' \in BOOLEAN
<1> USE ZenonT(30)
<1>1. adc \in AdcRanges /\ power \in BOOLEAN
  BY DEF TypeOK, AdcRanges
<1>2. CASE SetGain
  <2>1. Bits(args[1]) \in SUBSET (0 .. 2)
    BY DEF Bits
  <2>2. adc.gain \cup Bits(args[1]) \in SUBSET (0 .. 2)
    BY <1>1, <2>1 DEF AdcRanges
  <2>3. adc' = [adc EXCEPT !.gain = adc.gain \cup Bits(args[1])] /\ power' = power
    BY <1>2 DEF SetGain
  <2> HIDE DEF Bits
  <2> QED
    BY <1>1, <2>2, <2>3 DEF AdcRanges
<1>3. CASE SetPrescaler
  <2>1. args[1] \in Bytes
    BY <1>3, CharIsByte DEF SetPrescaler, Exec, Chars, IInv
  <2>2. args[1] % 8 \in 0 .. 7
    BY SMTT(30), <2>1 DEF Bytes
  <2> QED
    BY <1>1, <1>3, <2>2 DEF SetPrescaler, AdcRanges
<1>4. CASE Calibrate
  <2>1. Short \in Words
    BY <1>4, ShortIsWord DEF Calibrate, Exec, Shorts, IInv
  <2> QED
    BY <1>1, <1>4, <2>1 DEF Calibrate, AdcRanges
<1>5. CASE Power
  <2>1. adc' = adc /\ power' \in BOOLEAN
    BY <1>5 DEF Power
  <2> QED
    BY <1>1, <2>1
<1>6. CASE UNCHANGED <<adc, power>>
  BY <1>1, <1>6
<1> QED
  BY <1>2, <1>3, <1>4, <1>5, <1>6
  DEF Next, MainStep, GetCommand, GetArgument, Test, SetSamples, SetBits12, SetConf, Invalid, Prepare,
      Ready, WaitReturn, Read, Glitch, Reply, StartFetch, FetchByte, EndFetch, Edge, Convert, HostSend,
      HostRead, HostDtr, setVars, vars

LEMMA RangesStep == ASSUME IInv, FInv, Acq!TypeOK', TypeOK, [Next]_vars PROVE TypeOK'
<1> USE ZenonT(30)
<1>1. conf' \in ConfRanges /\ adc' \in AdcRanges /\ power' \in BOOLEAN
  BY ConfRange, AdcRange
<1>2. phase' \in {"idle", "waiting", "seen"} /\ timedOut' \in BOOLEAN
  BY DEF TypeOK, Next, MainStep, GetCommand, GetArgument, Test, SetSamples, SetGain, SetPrescaler,
         Calibrate, SetBits12, SetConf, Power, Invalid, Prepare, Ready, WaitReturn, Read, Glitch, Reply,
         StartFetch, FetchByte, EndFetch, Edge, Convert, HostSend, HostRead, HostDtr, Answer, twVars, vars,
         TW!Call, TW!Seen, TW!ReturnCaught, TW!ReturnTimedOut
<1>3. dtr' \in BOOLEAN /\ intact' \in BOOLEAN
  <2>1. CASE HostDtr
    BY <2>1 DEF HostDtr, TypeOK
  <2>2. CASE SetSamples \/ SetBits12 \/ Prepare \/ WaitReturn
    <3>1. dtr' = dtr /\ intact' \in BOOLEAN
      BY <2>2 DEF SetSamples, SetBits12, Prepare, WaitReturn, Answer
    <3> QED
      BY <3>1 DEF TypeOK
  <2>3. CASE UNCHANGED <<dtr, intact>>
    BY <2>3 DEF TypeOK
  <2> QED
    BY <2>1, <2>2, <2>3
    DEF Next, MainStep, GetCommand, GetArgument, Test, SetGain, SetPrescaler,
        Calibrate, SetConf, Power, Invalid, Ready, Read, Glitch, Reply, Answer,
        StartFetch, FetchByte, EndFetch, Edge, Convert, HostSend, HostRead, vars
<1>4. /\ pc' \in {"cmd", "args", "exec", "ready", "wait", "acquire", "glitch", "reply", "fetch"}
      /\ cmd' \in Bytes
  <2>1. CASE GetCommand
    <3>1. Head(in) \in Bytes
      BY <2>1, TakeFirst DEF GetCommand, IInv, Parsing
    <3> QED
      BY <2>1, <3>1 DEF GetCommand
  <2>2. CASE Loop
    BY SMTT(30), <2>2 DEF Loop, Bytes
  <2>3. CASE GetArgument \/ Prepare \/ Ready \/ WaitReturn \/ Read \/ Glitch \/ StartFetch
    BY <2>3 DEF GetArgument, Prepare, Ready, WaitReturn, Read, Glitch, StartFetch, TypeOK, Bytes
  <2>4. CASE UNCHANGED <<pc, cmd>>
    BY <2>4 DEF TypeOK, Bytes
  <2> QED
    BY <2>1, <2>2, <2>3, <2>4
    DEF Next, MainStep, Test, SetSamples, SetGain, SetPrescaler, Calibrate, SetBits12, SetConf, Power,
        Invalid, Reply, Answer, FetchByte, EndFetch, Edge, Convert, HostSend, HostRead, HostDtr, mainVars, vars
<1>5. args' \in Seq(Bytes) /\ in' \in Seq(Bytes)
  BY ParsingStep DEF Parsing
<1>6. Len(args') <= NArgs(cmd')
  <2>1. NArgs(cmd') \in Nat /\ Len(<<>>) = 0
    BY DEF NArgs
  <2>2. CASE args' = <<>>
    BY SMTT(30), <2>1, <2>2
  <2>3. CASE GetArgument
    <3>1. Parsing' /\ pc' \in {"args", "exec"}
      BY <2>3, ParsingStep DEF GetArgument
    <3>2. Len(args') \in Nat /\ (Len(args') < NArgs(cmd') \/ Len(args') = NArgs(cmd'))
      BY <1>5, <3>1, LengthIs DEF Parsing, NArgs
    <3> QED
      BY SMTT(30), <2>1, <3>2
  <2>4. CASE UNCHANGED <<args, cmd>>
    BY <2>4 DEF TypeOK, NArgs
  <2> QED
    BY <2>2, <2>3, <2>4
    DEF Next, MainStep, GetCommand, Test, SetSamples, SetGain, SetPrescaler, Calibrate, SetBits12, SetConf,
        Power, Invalid, Prepare, Ready, WaitReturn, Read, Glitch, Reply, Answer, Loop, StartFetch, FetchByte,
        EndFetch, Edge, Convert, HostSend, HostRead, HostDtr, mainVars, vars, IInv, Parsing
<1>7. sent' \in 0 .. BufSize
  <2>1. CASE FetchByte
    <3>1. sent \in Nat /\ conf.numberOfSamples \in 0 .. BufSize /\ sent < conf.numberOfSamples
      BY <2>1 DEF FetchByte, FInv, Line, IInv, Confs
    <3> QED
      BY SMTT(30), <2>1, <3>1, SizesAssumption DEF FetchByte
  <2>2. CASE sent' = 0
    BY SMTT(30), <2>2, SizesAssumption
  <2>3. CASE sent' = sent
    BY <2>3 DEF TypeOK
  <2> QED
    BY <2>1, <2>2, <2>3
    DEF Next, MainStep, GetCommand, GetArgument, Test, SetSamples, SetGain, SetPrescaler, Calibrate, SetBits12,
        SetConf, Power, Invalid, Prepare, Ready, WaitReturn, Read, Glitch, Reply, Answer, Loop, StartFetch,
        EndFetch, Edge, Convert, HostSend, HostRead, HostDtr, vars
<1>8. Len(in') <= 1
  <2>1. CASE GetCommand \/ GetArgument
    <3>1. in' = Tail(in) /\ in # <<>> /\ in \in Seq(Bytes) /\ Len(in) <= 1
      BY <2>1 DEF GetCommand, GetArgument, TypeOK, Bytes
    <3> QED
      BY SMTT(30), <3>1, TakeFirst, LengthIs
  <2>2. CASE \E byte \in Commands \cup Arguments : HostSend(byte)
    BY SMTT(30), <2>2 DEF HostSend
  <2>3. CASE in' = in
    BY <2>3 DEF TypeOK
  <2> QED
    BY <2>1, <2>2, <2>3
    DEF Next, MainStep, Test, SetSamples, SetGain, SetPrescaler, Calibrate, SetBits12, SetConf, Power, Invalid,
        Prepare, Ready, WaitReturn, Read, Glitch, Reply, Answer, StartFetch, FetchByte, EndFetch, Edge, Convert,
        HostRead, HostDtr, lineVars, vars
<1>9. out' \in Seq(Sent \ {"beyond"}) /\ Len(out') <= OutCap
  <2> DEFINE Kinds == Sent \ {"beyond"}
  <2>1. out \in Seq(Kinds) /\ Len(out) <= OutCap /\ Len(out) \in Nat
    BY LengthIs DEF TypeOK, Sent
  <2>2. ASSUME NEW byte \in Kinds, Put(byte) PROVE out' \in Seq(Kinds) /\ Len(out') <= OutCap
    <3>1. CASE dtr
      <4>1. out' = Append(out, byte) /\ Len(out) < OutCap
        BY <2>2, <3>1 DEF Put
      <4> HIDE DEF Kinds
      <4> QED
        BY SMTT(30), <2>1, <2>2, <4>1, AddLast, OutCapAssumption
    <3>2. CASE ~dtr
      BY <2>1, <2>2, <3>2 DEF Put
    <3> QED
      BY <3>1, <3>2
  <2>3. CASE \E byte \in {"T", "d", "e", "r", "text"} : Put(byte)
    BY <2>2, <2>3 DEF Sent
  <2>4. CASE FetchByte
    <3>1. conf.numberOfSamples \in 0 .. BufSize /\ sent \in Nat /\ sent < conf.numberOfSamples
      BY <2>4 DEF FetchByte, FInv, Line, IInv, Confs
    <3>2. sent \in Acq!Offsets /\ sent < BufSize
      BY SMTT(30), <3>1, SizesAssumption DEF Acq!Offsets
    <3>3. scopeBuf[sent] \in Kinds
      BY <3>2 DEF TypeOK, Acq!TypeOK, Sent
    <3>4. Put(scopeBuf[sent])
      BY <2>4, <3>2 DEF FetchByte
    <3> QED
      BY <2>2, <3>3, <3>4
  <2>5. CASE HostRead
    <3>1. out # <<>> /\ out' = Tail(out)
      BY <2>5 DEF HostRead
    <3> HIDE DEF Kinds
    <3>2. Tail(out) \in Seq(Kinds) /\ Len(Tail(out)) = Len(out) - 1
      BY <2>1, <3>1, TakeFirst
    <3>3. Len(out) - 1 <= OutCap
      BY SMTT(30), <2>1, OutCapAssumption
    <3> QED
      BY <3>1, <3>2, <3>3 DEF Kinds
  <2>6. CASE out' = out
    BY <2>1, <2>6
  <2> HIDE DEF Kinds
  <2> QED
    BY <2>3, <2>4, <2>5, <2>6
    DEF Next, MainStep, GetCommand, GetArgument, Test, SetSamples, SetGain, SetPrescaler, Calibrate, SetBits12,
        SetConf, Power, Invalid, Prepare, Ready, WaitReturn, Read, Glitch, Reply, Result, Answer, StartFetch,
        EndFetch, Edge, Convert, HostSend, HostDtr, lineVars, vars
<1>10. Sent \ {"beyond"} = {"T", "r", "d", "e", "text", "U", "zero", "old", "new"}
  BY DEF Sent
<1>11. Len(args') <= NArgs(cmd)'
  BY <1>6 DEF NArgs
<1> HIDE DEF Sent
<1> QED
  BY <1>1, <1>2, <1>3, <1>4, <1>5, <1>7, <1>8, <1>9, <1>10, <1>11 DEF TypeOK, Bytes, ConfRanges, AdcRanges

\* Every command byte, argument, setting, count and reply stays in the range of
\* its C type, and no byte from behind scopeBuf goes out, for every size of the
\* buffer and of the line and whatever the host sends (HorrorScope.c).
THEOREM FirmwareTypes == Spec => []TypeOK
<1>1. Init /\ Acq!TypeOK => TypeOK
  <2> SUFFICES ASSUME Init, Acq!TypeOK PROVE TypeOK
    BY ZenonT(30)
  <2>1. 40000 \in Words /\ 0 \in Words
    BY WordIs, SMT
  <2>2. conf \in ConfRanges
    BY <2>1, SizesAssumption, SMT DEF Init, ConfRanges, Bytes
  <2>3. adc \in AdcRanges
    BY <2>1, SMT DEF Init, AdcRanges
  <2>4. Len(args) <= NArgs(cmd)
    <3>1. NArgs(cmd) \in Nat /\ Len(<<>>) = 0 /\ args = <<>>
      BY DEF Init, NArgs
    <3> QED
      BY <3>1
  <2>5. power \in BOOLEAN /\ dtr \in BOOLEAN /\ intact \in BOOLEAN /\ timedOut \in BOOLEAN
    <3>1. power = TRUE /\ dtr = TRUE /\ intact = FALSE /\ timedOut = FALSE
      BY SMT DEF Init, TW!Init
    <3> QED
      BY <3>1, ZenonT(30)
  <2>6. sent \in 0 .. BufSize /\ Len(in) <= 1 /\ Len(out) <= OutCap
    BY SizesAssumption, OutCapAssumption DEF Init
  <2>7. /\ pc = "cmd" /\ cmd \in Bytes /\ args \in Seq(Bytes) /\ in \in Seq(Bytes) /\ phase = "idle"
        /\ out \in Seq({"T", "r", "d", "e", "text", "U", "zero", "old", "new"})
    BY DEF Init, TW!Init, Bytes
  <2> QED
    BY <2>2, <2>3, <2>4, <2>5, <2>6, <2>7, SMT DEF TypeOK, ConfRanges, AdcRanges, Bytes
<1>2. IInv /\ FInv /\ Acq!TypeOK' /\ TypeOK /\ [Next]_vars => TypeOK'
  BY RangesStep, ZenonT(30)
<1> QED
  BY <1>1, <1>2, Inductive, FInductive, AcqTypes, PTL DEF Spec
=============================================================================
