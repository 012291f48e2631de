--------------------------- MODULE TraceSetProofs ---------------------------
(***************************************************************************)
(* The trace file keeps what its header counts, for every size of the      *)
(* fields, every number of traces and every sequence of refused traces,    *)
(* kills and interrupts, provided the samples of every trace have the      *)
(* declared length.  It keeps it where getTrace looks as long as no trace  *)
(* was refused for its data with the title already written.                *)
(*                                                                         *)
(* The argument is about offsets: while the writer lives, disk and buffer  *)
(* together are as long as the traces taken, one title for every refused   *)
(* call, and what the running call has written.  So the next trace starts  *)
(* where its number and the refused calls before it say, and since disk    *)
(* only grows and later calls have larger numbers, it stays there.         *)
(***************************************************************************)
EXTENDS TraceSet, SequenceTheorems, FiniteSetTheorems, TLAPS

\* What acq/runSetup.py does (Trace.py does not look at it: ExactSizesOnly).
ExactSamples == \A sizes \in Inputs : sizes.samples = SampleSpace

Cells == Nat \X {"title", "data", "samples"} \X Nat
Traces == [id : Nat, title : Nat, data : Nat, samples : Nat]

Writing == {"title", "data", "samples"}

TypeInv ==
    /\ wpc \in Writing \cup {"ready", "count", "closed", "killed"}
    /\ cur \in Traces /\ added \in Seq(Traces)
    /\ disk \in Seq(Cells) /\ buf \in Seq(Cells)
    /\ calls \in Nat /\ count \in Nat /\ partial \in SUBSET (1 .. calls)
    /\ numberOfTraces = Len(added)

\* The calls that left a title before that of number id.
Before(id) == {p \in partial : p < id}

\* Where trace i of the block starts.
Start(i) == (i - 1) * TraceSpace + TitleSpace * Cardinality(Before(added[i].id))

\* Traces are numbered in the order of the calls, and are of the exact sizes.
Numbered ==
    /\ \A i \in 1 .. Len(added) :
           /\ added[i].id <= calls
           /\ wpc \in Writing => added[i].id < cur.id
           /\ added[i].title = TitleSpace /\ added[i].data = DataSpace
           /\ added[i].samples = SampleSpace
    /\ wpc \in Writing => /\ cur.id = calls /\ calls # 0 /\ \A p \in partial : p < cur.id
                          /\ cur.samples = SampleSpace
    /\ wpc \in {"data", "samples"} => cur.title = TitleSpace
    /\ wpc = "samples" => cur.data = DataSpace

\* What waits in the buffer.
Buffered ==
    /\ wpc \in {"title", "count", "closed"} => buf = <<>>
    /\ wpc = "data" => buf = Field(cur.id, "title", TitleSpace)
    /\ wpc = "samples" => buf = Field(cur.id, "title", TitleSpace) \o Field(cur.id, "data", DataSpace)

Running == CASE wpc = "data" -> TitleSpace
             [] wpc = "samples" -> TitleSpace + DataSpace
             [] OTHER -> 0

Total == Len(added) * TraceSpace + TitleSpace * Cardinality(partial)

Lengths == wpc # "killed" => Len(disk) + Len(buf) = Total + Running

\* Every trace taken is at its place.
Placed ==
    \A i \in 1 .. Len(added) :
        /\ Start(i) + TraceSpace <= Len(disk)
        /\ \A j \in 1 .. TraceSpace : disk[Start(i) + j] = Image(added[i])[j]

\* The count of the header, and the header itself.
Counted ==
    /\ count <= Len(added)
    /\ wpc \in Writing \cup {"ready", "closed"} => count = Len(added)
    /\ wpc = "closed" => header
    /\ reader # "none" => wpc \in {"closed", "killed"}

IInv == TypeInv /\ Numbered /\ Buffered /\ Lengths /\ Placed /\ Counted /\ ClosedFileOpens

-----------------------------------------------------------------------------
LEMMA Product == ASSUME NEW a \in Nat, NEW b \in Nat PROVE a * b \in Nat /\ (a + 1) * b = a * b + b
  OBVIOUS

LEMMA SubSeqIs ==
  ASSUME NEW A, NEW s \in Seq(A), NEW a \in Nat, NEW n \in Nat, a + n <= Len(s)
  PROVE  /\ SubSeq(s, a + 1, a + n) \in Seq(A) /\ Len(SubSeq(s, a + 1, a + n)) = n
         /\ \A j \in 1 .. n : SubSeq(s, a + 1, a + n)[j] = s[a + j]
  OBVIOUS

LEMMA FieldIs ==
  ASSUME NEW id \in Nat, NEW field \in {"title", "data", "samples"}, NEW n \in Nat
  PROVE  Field(id, field, n) \in Seq(Cells) /\ Len(Field(id, field, n)) = n
  BY DEF Field, Cells

LEMMA ImageIs ==
  ASSUME NEW trace \in Traces, trace.title = TitleSpace, trace.data = DataSpace,
         trace.samples = SampleSpace
  PROVE  Image(trace) \in Seq(Cells) /\ Len(Image(trace)) = TraceSpace
<1>1. trace.id \in Nat /\ TitleSpace \in Nat /\ DataSpace \in Nat /\ SampleSpace \in Nat
  BY SpacesAssumption DEF Traces
<1> DEFINE t == Field(trace.id, "title", TitleSpace)
           d == Field(trace.id, "data", DataSpace)
           s == Field(trace.id, "samples", SampleSpace)
<1>2. t \in Seq(Cells) /\ d \in Seq(Cells) /\ s \in Seq(Cells)
      /\ Len(t) = TitleSpace /\ Len(d) = DataSpace /\ Len(s) = SampleSpace
  BY <1>1, FieldIs, ZenonT(30)
<1>3. Image(trace) = (t \o d) \o s
  BY DEF Image
<1> HIDE DEF t, d, s, Cells
<1>4. (t \o d) \in Seq(Cells) /\ Len(t \o d) = TitleSpace + DataSpace
  BY <1>2
<1>5. ((t \o d) \o s) \in Seq(Cells) /\ Len((t \o d) \o s) = TitleSpace + DataSpace + SampleSpace
  BY <1>1, <1>2, <1>4, SMTT(30)
<1> QED
  BY <1>1, <1>3, <1>5 DEF TraceSpace

LEMMA BeforeIsFinite ==
  ASSUME TypeInv
  PROVE  /\ IsFiniteSet(partial) /\ Cardinality(partial) \in Nat
         /\ \A id : IsFiniteSet(Before(id)) /\ Cardinality(Before(id)) \in Nat
<1>1. IsFiniteSet(1 .. calls)
  BY FS_Interval DEF TypeInv
<1>2. IsFiniteSet(partial)
  BY <1>1, FS_Subset, ZenonT(30) DEF TypeInv
<1>3. ASSUME NEW id PROVE IsFiniteSet(Before(id))
  BY <1>2, FS_Subset DEF Before
<1> QED
  BY <1>2, <1>3, FS_CardinalityType

LEMMA SpacesAreNat ==
  TitleSpace \in Nat /\ DataSpace \in Nat /\ SampleSpace \in Nat /\ TraceSpace \in Nat
  BY SpacesAssumption DEF TraceSpace

LEMMA StartIsNat ==
  ASSUME TypeInv, NEW i \in 1 .. Len(added)
  PROVE  Start(i) \in Nat
<1>1. Len(added) \in Nat
  BY LenProperties DEF TypeInv
<1>2. i - 1 \in Nat
  BY <1>1
<1>3. (i - 1) * TraceSpace \in Nat
  BY <1>2, SpacesAreNat, Product
<1>4. TitleSpace * Cardinality(Before(added[i].id)) \in Nat
  BY BeforeIsFinite, SpacesAreNat, Product
<1> QED
  BY <1>3, <1>4 DEF Start

LEMMA TotalIsNat == ASSUME TypeInv PROVE Total \in Nat
<1>1. Len(added) * TraceSpace \in Nat
  BY SpacesAreNat, LenProperties, Product DEF TypeInv
<1>2. TitleSpace * Cardinality(partial) \in Nat
  BY SpacesAreNat, BeforeIsFinite, Product
<1> QED
  BY <1>1, <1>2 DEF Total

\* The traces stay where they are while disk only grows, and the calls refused
\* since have larger numbers.
LEMMA PlacedStays ==
  ASSUME TypeInv, Placed, added' = added,
         NEW more \in Seq(Cells), disk' = disk \o more,
         \A i \in 1 .. Len(added) : Before(added[i].id)' = Before(added[i].id)
  PROVE  Placed'
<1> SUFFICES ASSUME NEW i \in 1 .. Len(added)
             PROVE  /\ Start(i)' + TraceSpace <= Len(disk')
                    /\ \A j \in 1 .. TraceSpace : disk'[Start(i)' + j] = Image(added[i])[j]
  BY Zenon DEF Placed
<1>1. Start(i)' = Start(i)
  BY DEF Start
<1>2. /\ Len(disk) \in Nat /\ Len(more) \in Nat /\ Len(disk') = Len(disk) + Len(more)
      /\ \A n \in 1 .. Len(disk) : disk'[n] = disk[n]
  BY ConcatProperties, LenProperties DEF TypeInv
<1>3. Start(i) \in Nat /\ Start(i) + TraceSpace <= Len(disk)
      /\ \A j \in 1 .. TraceSpace : disk[Start(i) + j] = Image(added[i])[j]
  BY StartIsNat DEF Placed
<1> HIDE DEF Start
<1>4. \A j \in 1 .. TraceSpace : Start(i) + j \in 1 .. Len(disk)
  BY <1>2, <1>3, SpacesAreNat
<1> QED
  BY <1>1, <1>2, <1>3, <1>4, SpacesAreNat

-----------------------------------------------------------------------------
LEMMA InvInit == Init => IInv
<1> SUFFICES ASSUME Init PROVE IInv
  OBVIOUS
<1>1. TypeInv
  BY DEF Init, TypeInv, NoTrace, Traces, Writing
<1>2. Cardinality(partial) = 0 /\ Len(added) = 0
  BY FS_EmptySet DEF Init
<1>3. Lengths
  BY <1>2, SpacesAreNat DEF Init, Lengths, Total, Running
<1> QED
  BY <1>1, <1>2, <1>3
  DEF Init, IInv, Numbered, Buffered, Placed, Counted, ClosedFileOpens, Writing

\* The steps that leave the block on disk and the traces taken alone.
LEMMA PlacedUnchanged ==
  ASSUME TypeInv, Placed, UNCHANGED <<added, disk>>,
         \A i \in 1 .. Len(added) : Before(added[i].id)' = Before(added[i].id)
  PROVE  Placed'
<1>1. disk' = disk \o <<>> /\ <<>> \in Seq(Cells)
  BY ConcatEmptySeq DEF TypeInv
<1> QED
  BY <1>1, PlacedStays, ZenonT(30)

LEMMA SeekEndStep ==
  ASSUME ExactSamples, IInv, NEW sizes \in Inputs, SeekEnd(sizes) PROVE IInv'
<1> USE DEF IInv
<1>1. disk \in Seq(Cells) /\ buf \in Seq(Cells) /\ disk' = disk \o buf /\ buf' = <<>>
  BY DEF SeekEnd, TypeInv
<1>2. disk' \in Seq(Cells) /\ Len(disk') = Len(disk) + Len(buf)
  BY <1>1
<1>3. TypeInv'
  <2>1. cur' \in Traces
    BY InputsAssumption, SMTT(30) DEF SeekEnd, TypeInv, Traces
  <2>2. calls' = calls + 1 /\ calls \in Nat /\ partial \in SUBSET (1 .. calls)
    BY DEF SeekEnd, TypeInv
  <2>3. partial \in SUBSET (1 .. calls')
    BY <2>2
  <2> QED
    BY <1>1, <1>2, <2>1, <2>2, <2>3 DEF SeekEnd, TypeInv, Writing
<1>4. Numbered'
  <2>1. \A p \in partial : p < calls + 1
    <3>1. calls \in Nat /\ partial \in SUBSET (1 .. calls)
      BY DEF TypeInv
    <3> QED
      BY <3>1
  <2>2. \A i \in 1 .. Len(added) : added[i].id < calls + 1 /\ added[i].id <= calls + 1
    <3> SUFFICES ASSUME NEW i \in 1 .. Len(added)
                 PROVE  added[i].id < calls + 1 /\ added[i].id <= calls + 1
      OBVIOUS
    <3>1. added[i] \in Traces
      BY ElementOfSeq DEF TypeInv
    <3>2. added[i].id \in Nat /\ calls \in Nat /\ added[i].id <= calls
      BY <3>1 DEF TypeInv, Numbered, Traces
    <3> QED
      BY <3>2
  <2>3. sizes.samples = SampleSpace
    BY DEF ExactSamples
  <2>4. cur'.id = calls + 1 /\ cur'.samples = SampleSpace /\ calls' = calls + 1 /\ calls' # 0 /\ added' = added
        /\ partial' = partial /\ wpc' = "title"
    BY <2>3 DEF SeekEnd, TypeInv
  <2> QED
    BY <2>1, <2>2, <2>4 DEF Numbered
<1>5. Lengths'
  <2>1. Total' = Total
    BY DEF SeekEnd, Total
  <2>2. Running = 0 /\ Running' = 0 /\ Len(buf') = 0
    BY <1>1 DEF SeekEnd, Running
  <2>3. Len(disk) + Len(buf) = Total
    BY <2>2, TotalIsNat DEF SeekEnd, Lengths
  <2>4. Len(disk') \in Nat
    BY <1>2
  <2> QED
    BY <1>2, <2>1, <2>2, <2>3, <2>4 DEF Lengths
<1>6. Placed'
  BY <1>1, PlacedStays DEF SeekEnd, Before
<1> QED
  BY <1>3, <1>4, <1>5, <1>6 DEF SeekEnd, Buffered, Counted, ClosedFileOpens, Writing

LEMMA WriteTitleStep == ASSUME IInv, WriteTitle PROVE IInv'
<1> USE DEF IInv
<1>1. cur.id \in Nat /\ cur.title \in Nat
  BY DEF TypeInv, Traces
<1>2. Placed'
  BY PlacedUnchanged DEF WriteTitle, Before
<1>3. CASE cur.title = TitleSpace
  <2>1. buf' = Field(cur.id, "title", TitleSpace)
    <3>1. buf' = <<>> \o Field(cur.id, "title", TitleSpace)
      BY <1>3, ZenonT(30) DEF WriteTitle, Buffered
    <3> QED
      BY <1>1, <1>3, <3>1, FieldIs, ConcatEmptySeq
  <2>2. buf' \in Seq(Cells) /\ Len(buf') = TitleSpace
    BY <1>1, <2>1, SpacesAreNat, FieldIs
  <2>3. Lengths'
    <3>1. Total' = Total /\ Len(disk') = Len(disk) /\ Len(buf) = 0
      BY DEF WriteTitle, Total, Buffered
    <3>2. Running = 0 /\ Running' = TitleSpace
      BY <1>3 DEF WriteTitle, Running
    <3>3. Len(disk) + Len(buf) = Total + Running /\ Len(disk) \in Nat
      BY DEF Lengths, WriteTitle, TypeInv
    <3> QED
      BY <2>2, <3>1, <3>2, <3>3, TotalIsNat, SpacesAreNat DEF Lengths
  <2> QED
    BY <1>2, <1>3, <2>1, <2>2, <2>3
    DEF WriteTitle, TypeInv, Numbered, Buffered, Counted, ClosedFileOpens, Writing
<1>4. CASE cur.title # TitleSpace
  <2>1. Lengths'
    BY <1>4 DEF WriteTitle, Lengths, Running, Total
  <2> QED
    BY <1>2, <1>4, <2>1
    DEF WriteTitle, TypeInv, Numbered, Buffered, Counted, ClosedFileOpens, Writing
<1> QED
  BY <1>3, <1>4

LEMMA WriteDataStep == ASSUME IInv, WriteData PROVE IInv'
<1> USE DEF IInv
<1>1. cur.id \in Nat /\ cur.id = calls /\ cur.title = TitleSpace /\ wpc = "data"
  <2>1. cur \in Traces /\ wpc = "data"
    BY DEF TypeInv, WriteData
  <2>2. cur.id = calls /\ cur.title = TitleSpace
    BY <2>1 DEF Numbered, Writing
  <2> QED
    BY <2>1, <2>2 DEF Traces
<1>2. /\ buf = Field(cur.id, "title", TitleSpace) /\ Len(buf) = TitleSpace
      /\ Len(disk) + Len(buf) = Total + TitleSpace /\ Len(disk) \in Nat /\ Total \in Nat
  <2>1. buf = Field(cur.id, "title", TitleSpace)
    BY <1>1 DEF Buffered
  <2>2. Len(buf) = TitleSpace
    BY <1>1, <2>1, FieldIs, SpacesAreNat
  <2>3. Len(disk) + Len(buf) = Total + TitleSpace
    BY <1>1 DEF Lengths, Running
  <2> QED
    BY <2>1, <2>2, <2>3, TotalIsNat, LenProperties DEF TypeInv
<1>3. CASE cur.data = DataSpace
  <2>1. buf' = Field(cur.id, "title", TitleSpace) \o Field(cur.id, "data", DataSpace)
    BY <1>2, <1>3 DEF WriteData
  <2>2. buf' \in Seq(Cells) /\ Len(buf') = TitleSpace + DataSpace
    <3> USE SpacesAreNat
    <3>1. /\ Field(cur.id, "title", TitleSpace) \in Seq(Cells)
          /\ Field(cur.id, "data", DataSpace) \in Seq(Cells)
          /\ Len(Field(cur.id, "title", TitleSpace)) = TitleSpace
          /\ Len(Field(cur.id, "data", DataSpace)) = DataSpace
      BY <1>1, FieldIs, SpacesAreNat, ZenonT(30)
    <3> HIDE DEF Field, Cells
    <3> QED
      BY <2>1, <3>1, ConcatProperties, ZenonT(30)
  <2>3. Lengths'
    <3>1. Total' = Total /\ Len(disk') = Len(disk) /\ Running' = TitleSpace + DataSpace
      BY <1>3 DEF WriteData, Total, Running
    <3> QED
      BY <1>2, <2>2, <3>1, SpacesAreNat DEF Lengths
  <2>4. Placed'
    BY <1>3, PlacedUnchanged DEF WriteData, Before
  <2> QED
    BY <1>3, <2>1, <2>2, <2>3, <2>4, ZenonT(30)
    DEF WriteData, TypeInv, Numbered, Buffered, Counted, ClosedFileOpens, Writing
<1>4. CASE cur.data # DataSpace
  <2>1. partial' = partial \cup {cur.id} /\ cur.id \notin partial
    BY <1>4 DEF WriteData, Numbered, Writing, TypeInv
  <2>2. Cardinality(partial') = Cardinality(partial) + 1
    BY <2>1, FS_AddElement, BeforeIsFinite
  <2>3. \A i \in 1 .. Len(added) : Before(added[i].id)' = Before(added[i].id)
    <3> SUFFICES ASSUME NEW i \in 1 .. Len(added) PROVE Before(added[i].id)' = Before(added[i].id)
      OBVIOUS
    <3>1. added[i] \in Traces
      BY ElementOfSeq DEF TypeInv
    <3>2. added[i].id \in Nat /\ added[i].id < cur.id
      BY <3>1 DEF WriteData, Numbered, Writing, Traces
    <3>3. ~ (cur.id < added[i].id)
      BY <1>1, <3>2
    <3> QED
      BY <2>1, <3>3 DEF WriteData, Before
  <2>4. Placed'
    BY <1>4, <2>3, PlacedUnchanged DEF WriteData
  <2>5. Lengths'
    <3>1. Total' = Total + TitleSpace
      <4>1. TitleSpace * (Cardinality(partial) + 1) = TitleSpace * Cardinality(partial) + TitleSpace
        BY SpacesAreNat, BeforeIsFinite
      <4>2. TitleSpace * Cardinality(partial) \in Nat /\ Len(added) * TraceSpace \in Nat
        BY SpacesAreNat, BeforeIsFinite, Product, LenProperties DEF TypeInv
      <4> QED
        BY <2>2, <4>1, <4>2, SpacesAreNat DEF Total, WriteData
    <3>2. Len(disk') = Len(disk) /\ Len(buf') = Len(buf) /\ Running' = 0
      BY <1>4 DEF WriteData, Running
    <3> QED
      BY <1>2, <3>1, <3>2, SpacesAreNat DEF Lengths
  <2>6. TypeInv'
    <3>1. partial' \in SUBSET (1 .. calls)
      <4>1. \A p \in partial : p \in 1 .. calls /\ p < cur.id
        BY DEF TypeInv, Numbered, WriteData, Writing
      <4>2. calls \in Nat /\ cur.id = calls /\ cur.id # 0
        BY <1>1 DEF TypeInv, Numbered
      <4> QED
        BY <2>1, <4>1, <4>2
    <3> QED
      BY <1>4, <3>1 DEF WriteData, TypeInv, Writing
  <2> QED
    BY <1>4, <2>4, <2>5, <2>6
    DEF WriteData, Numbered, Buffered, Counted, ClosedFileOpens, Writing
<1> QED
  BY <1>3, <1>4

LEMMA WriteSamplesStep == ASSUME IInv, WriteSamples PROVE IInv'
<1> USE DEF IInv
<1> DEFINE n == Len(added)
           title == Field(cur.id, "title", TitleSpace)
           data == Field(cur.id, "data", DataSpace)
           samples == Field(cur.id, "samples", SampleSpace)
<1>1. /\ cur \in Traces /\ cur.id \in Nat /\ cur.id = calls /\ wpc = "samples"
      /\ cur.title = TitleSpace /\ cur.data = DataSpace /\ cur.samples = SampleSpace
      /\ \A p \in partial : p < cur.id
  <2>1. cur \in Traces /\ wpc = "samples"
    BY DEF TypeInv, WriteSamples
  <2> QED
    BY <2>1 DEF Numbered, Writing, Traces
<1>2. /\ title \in Seq(Cells) /\ data \in Seq(Cells) /\ samples \in Seq(Cells)
      /\ Len(title) = TitleSpace /\ Len(data) = DataSpace /\ Len(samples) = SampleSpace
  BY <1>1, FieldIs, SpacesAreNat, ZenonT(30)
<1>3. disk \in Seq(Cells) /\ disk' = (disk \o (title \o data)) \o samples /\ buf' = <<>>
  BY <1>1, ZenonT(30) DEF WriteSamples, Buffered, TypeInv
<1>4. Image(cur) = (title \o data) \o samples /\ Image(cur) \in Seq(Cells) /\ Len(Image(cur)) = TraceSpace
  BY <1>1, ImageIs, ZenonT(30) DEF Image
<1>5. n \in Nat /\ added \in Seq(Traces) /\ added' = Append(added, cur) /\ Len(added') = n + 1
  BY <1>1 DEF WriteSamples, TypeInv
<1>6. \A i \in 1 .. n : added'[i] = added[i]
  BY <1>5
<1>7. added'[n + 1] = cur
  BY <1>5
<1>8. Len(disk) = Total
  <2>1. buf = title \o data
    BY <1>1 DEF Buffered
  <2> HIDE DEF title, data
  <2>2. Len(buf) = TitleSpace + DataSpace
    BY <1>2, <2>1, ConcatProperties, ZenonT(30)
  <2>3. Len(disk) + Len(buf) = Total + (TitleSpace + DataSpace)
    BY <1>1 DEF Lengths, Running
  <2>4. Len(disk) \in Nat
    BY <1>3
  <2> QED
    BY <2>2, <2>3, <2>4, TotalIsNat, SpacesAreNat
<1> HIDE DEF title, data, samples
<1>9. disk' = disk \o Image(cur)
  <2>1. (title \o data) \in Seq(Cells)
    BY <1>2, ConcatProperties
  <2> DEFINE front == title \o data
  <2> HIDE DEF front
  <2>2. front \in Seq(Cells) /\ samples \in Seq(Cells) /\ disk \in Seq(Cells)
    BY <1>2, <1>3, <2>1 DEF front
  <2>3. (disk \o front) \o samples = disk \o (front \o samples)
    BY <2>2, ConcatAssociative, SMTT(30)
  <2> QED
    BY <1>3, <1>4, <2>3 DEF front
<1>10. disk' \in Seq(Cells) /\ Len(disk') = Len(disk) + TraceSpace
  BY <1>3, <1>4, <1>9, ConcatProperties
<1>11. partial' = partial /\ calls' = calls /\ cur' = cur /\ count' = count /\ wpc' = "count"
       /\ numberOfTraces' = n + 1 /\ reader' = reader /\ reader = "none"
  BY DEF WriteSamples, TypeInv, Counted
<1>12. TypeInv'
  BY <1>3, <1>5, <1>10, <1>11, <1>1, AppendProperties DEF TypeInv
<1>13. Numbered'
  <2>1. ASSUME NEW i \in 1 .. n + 1
        PROVE  /\ added'[i].id <= calls /\ added'[i].title = TitleSpace
               /\ added'[i].data = DataSpace /\ added'[i].samples = SampleSpace
    <3>1. CASE i = n + 1
      BY <1>1, <1>7, <3>1
    <3>2. CASE i # n + 1
      BY <1>5, <1>6, <3>2 DEF Numbered
    <3> QED
      BY <3>1, <3>2
  <2> QED
    BY <1>5, <1>11, <2>1 DEF Numbered, Writing
<1>14. Lengths'
  <2>1. Total' = Total + TraceSpace
    <3>1. (n + 1) * TraceSpace = n * TraceSpace + TraceSpace /\ n * TraceSpace \in Nat
      BY <1>5, SpacesAreNat, Product
    <3>2. TitleSpace * Cardinality(partial) \in Nat
      BY BeforeIsFinite, SpacesAreNat, Product
    <3> QED
      BY <1>5, <1>11, <3>1, <3>2, SpacesAreNat, SMTT(30) DEF Total
  <2>2. Running' = 0 /\ Len(buf') = 0
    BY <1>3, <1>11 DEF Running
  <2> QED
    BY <1>8, <1>10, <2>1, <2>2, TotalIsNat, SpacesAreNat DEF Lengths
<1>15. Placed'
  <2> SUFFICES ASSUME NEW i \in 1 .. n + 1
               PROVE  /\ Start(i)' + TraceSpace <= Len(disk')
                      /\ \A j \in 1 .. TraceSpace : disk'[Start(i)' + j] = Image(added'[i])[j]
    BY <1>5 DEF Placed
  <2>1. /\ \A m \in 1 .. Len(disk) : disk'[m] = disk[m]
        /\ \A j \in 1 .. TraceSpace : disk'[Len(disk) + j] = Image(cur)[j]
        /\ Len(disk) \in Nat
    BY <1>3, <1>4, <1>9, ConcatProperties, LenProperties, SpacesAreNat, SMTT(30)
  <2>2. CASE i = n + 1
    <3>1. added'[i] = cur /\ i - 1 = n
      BY <1>5, <1>7, <2>2
    <3>2. Before(added[i].id)' = partial
      BY <1>1, <1>11, <3>1 DEF Before
    <3>3. Start(i)' = Len(disk)
      BY <1>8, <3>1, <3>2 DEF Start, Total
    <3>4. \A j \in 1 .. TraceSpace : disk'[Start(i)' + j] = Image(added'[i])[j]
      BY <2>1, <3>1, <3>3
    <3>5. Start(i)' + TraceSpace <= Len(disk')
      BY <1>10, <2>1, <3>3, SpacesAreNat
    <3> QED
      BY <3>4, <3>5
  <2>3. CASE i # n + 1
    <3>1. i \in 1 .. n /\ added'[i] = added[i]
      BY <1>5, <1>6, <2>3
    <3>2. Start(i)' = Start(i)
      BY <1>11, <3>1 DEF Start, Before
    <3>3. Start(i) \in Nat /\ Start(i) + TraceSpace <= Len(disk)
          /\ \A j \in 1 .. TraceSpace : disk[Start(i) + j] = Image(added[i])[j]
      BY <3>1, StartIsNat DEF Placed
    <3>4. \A j \in 1 .. TraceSpace : Start(i) + j \in 1 .. Len(disk)
      BY <2>1, <3>3, SpacesAreNat
    <3>5. \A j \in 1 .. TraceSpace : disk'[Start(i)' + j] = Image(added'[i])[j]
      BY <2>1, <3>1, <3>2, <3>3, <3>4
    <3>6. Start(i)' + TraceSpace <= Len(disk')
      BY <1>10, <2>1, <3>2, <3>3, SpacesAreNat, SMTT(30)
    <3> QED
      BY <3>5, <3>6
  <2> QED
    BY <2>2, <2>3
<1>16. Counted' /\ Buffered' /\ ClosedFileOpens'
  BY <1>1, <1>3, <1>5, <1>11, SMTT(30) DEF Counted, Buffered, ClosedFileOpens, Writing, TypeInv
<1> QED
  BY <1>12, <1>13, <1>14, <1>15, <1>16

LEMMA UpdateCountStep == ASSUME IInv, UpdateCount PROVE IInv'
<1> USE DEF IInv
<1>1. Placed'
  BY PlacedUnchanged DEF UpdateCount, Before
<1>2. TypeInv'
  BY LenProperties DEF UpdateCount, TypeInv
<1>3. Lengths'
  BY DEF UpdateCount, Lengths, Running, Total
<1> QED
  BY <1>1, <1>2, <1>3
  DEF UpdateCount, Numbered, Buffered, Counted, ClosedFileOpens, Writing, TypeInv

LEMMA LeaveStep ==
  ASSUME IInv, NEW state \in {"closed", "killed"}, Leave(state),
         wpc \notin {"closed", "killed"}, state = "closed" => wpc = "ready"
  PROVE  IInv'
<1> USE DEF IInv
<1>1. disk \in Seq(Cells) /\ buf \in Seq(Cells) /\ disk' = disk \o buf /\ buf' = <<>>
  BY DEF Leave, TypeInv
<1>2. disk' \in Seq(Cells) /\ Len(disk') = Len(disk) + Len(buf) /\ Len(disk') \in Nat
  BY <1>1
<1>3. TypeInv'
  BY <1>1, <1>2 DEF Leave, TypeInv
<1>4. Placed'
  BY <1>1, PlacedStays, SMTT(30) DEF Leave, Before
<1>5. Lengths'
  <2> SUFFICES ASSUME state = "closed" PROVE Len(disk') + Len(buf') = Total' + Running'
    BY DEF Leave, Lengths
  <2>1. Running = 0 /\ Running' = 0 /\ Total' = Total /\ Len(buf') = 0
    BY <1>1 DEF Leave, Running, Total
  <2>2. Len(disk) + Len(buf) = Total
    BY <2>1, TotalIsNat DEF Lengths
  <2> QED
    BY <1>2, <2>1, <2>2
<1>6. Numbered' /\ Buffered' /\ Counted' /\ ClosedFileOpens'
  BY <1>1, SMTT(30) DEF Leave, Numbered, Buffered, Counted, ClosedFileOpens, Writing
<1> QED
  BY <1>3, <1>4, <1>5, <1>6

LEMMA KillStep == ASSUME IInv, Kill PROVE IInv'
<1> USE DEF IInv
<1> DEFINE writing == IF wpc = "samples" THEN buf \o Field(cur.id, "samples", cur.samples) ELSE <<>>
<1>1. PICK n \in 0 .. Len(writing) : disk' = disk \o SubSeq(writing, 1, n)
  BY Zenon DEF Kill
<1>2. writing \in Seq(Cells)
  <2>1. cur.id \in Nat /\ cur.samples \in Nat
    BY DEF TypeInv, Traces
  <2>2. Field(cur.id, "samples", cur.samples) \in Seq(Cells) /\ buf \in Seq(Cells)
    BY <2>1, FieldIs, ZenonT(30) DEF TypeInv
  <2> QED
    BY <2>2, ConcatProperties
<1> HIDE DEF writing
<1>3. SubSeq(writing, 1, n) \in Seq(Cells)
  BY <1>1, <1>2
<1>4. Placed'
  BY <1>1, <1>3, PlacedStays, ZenonT(30) DEF Kill, Before
<1>5. disk' \in Seq(Cells)
  BY <1>1, <1>3, ConcatProperties, SMTT(30) DEF TypeInv
<1> QED
  BY <1>4, <1>5, SMTT(30)
  DEF Kill, TypeInv, Numbered, Buffered, Lengths, Counted, ClosedFileOpens, Writing

LEMMA OpenStep == ASSUME IInv, Open PROVE IInv'
<1> USE DEF IInv
<1>1. Placed'
  BY PlacedUnchanged DEF Open, Before
<1>2. Lengths'
  BY DEF Open, Lengths, Running, Total
<1>3. ClosedFileOpens'
  <2> SUFFICES ASSUME wpc = "closed", partial = {} \/ TitleSpace = 0
               PROVE  reader' = "open" /\ readCount' = Len(added)
    BY DEF Open, ClosedFileOpens
  <2>1. header /\ count = Len(added) /\ buf = <<>>
    BY DEF Counted, Buffered
  <2>2. TitleSpace * Cardinality(partial) = 0
    BY FS_EmptySet, BeforeIsFinite, SpacesAreNat
  <2>3. Len(disk) = count * TraceSpace
    <3>1. Len(disk) + Len(buf) = Total + 0
      BY DEF Lengths, Running
    <3>2. Total = count * TraceSpace
      <4>1. count * TraceSpace \in Nat
        BY SpacesAreNat, Product DEF TypeInv
      <4> QED
        BY <2>1, <2>2, <4>1 DEF Total
    <3>3. Len(disk) \in Nat /\ Len(buf) = 0
      BY <2>1, LenProperties DEF TypeInv
    <3> QED
      BY <3>1, <3>2, <3>3, TotalIsNat
  <2>4. ~ (Len(disk) > count * TraceSpace)
    BY <2>3, LenProperties DEF TypeInv
  <2> QED
    BY <2>1, <2>4 DEF Open
<1> QED
  BY <1>1, <1>2, <1>3 DEF Open, TypeInv, Numbered, Buffered, Counted, Writing

LEMMA Inductive == ASSUME ExactSamples PROVE Spec => []IInv
<1>1. IInv /\ [Next]_vars => IInv'
  <2> SUFFICES ASSUME IInv, [Next]_vars PROVE IInv'
    OBVIOUS
  <2>1. CASE UNCHANGED vars
    <3>1. Placed'
      BY <2>1, PlacedUnchanged DEF vars, Before, IInv
    <3>2. Lengths'
      BY <2>1 DEF vars, IInv, Lengths, Running, Total
    <3> QED
      BY <2>1, <3>1, <3>2, SMTT(30)
      DEF vars, IInv, TypeInv, Numbered, Buffered, Counted, ClosedFileOpens
  <2>2. CASE Close \/ Interrupt
    BY <2>2, LeaveStep DEF Close, Interrupt
  <2> QED
    BY <2>1, <2>2, SeekEndStep, WriteTitleStep, WriteDataStep, WriteSamplesStep, UpdateCountStep,
       KillStep, OpenStep, SMTT(30) DEF Next
<1> QED
  BY <1>1, InvInit, PTL DEF Spec

-----------------------------------------------------------------------------
\* getTrace returns every trace the header counts, whole, at every moment, for
\* every size of the fields and every number of traces, kills, interrupts and
\* traces refused for their title (Trace.py lines 281-301, 326-362), when the
\* samples have the declared length.  After a trace that was refused for its
\* data this is claimed of the traces before it only, unless titles are empty:
\* it has left its title in the file (line 336).
THEOREM CountedTracesAreReadable == ASSUME ExactSamples PROVE Spec => []CountedIsReadable
<1>1. IInv => CountedIsReadable
  <2> SUFFICES ASSUME IInv, NEW i \in 1 .. count,
                      TitleSpace = 0 \/ \A p \in partial : p > added[i].id
               PROVE  getTrace(i - 1) = Image(added[i])
    BY DEF CountedIsReadable
  <2> USE DEF IInv
  <2>1. i \in 1 .. Len(added) /\ added[i] \in Traces
    <3>1. i \in 1 .. Len(added)
      BY LenProperties DEF TypeInv, Counted
    <3> QED
      BY <3>1, ElementOfSeq DEF TypeInv
  <2>2. Image(added[i]) \in Seq(Cells) /\ Len(Image(added[i])) = TraceSpace
    BY <2>1, ImageIs DEF Numbered
  <2>3. Start(i) \in Nat /\ Start(i) + TraceSpace <= Len(disk)
        /\ \A j \in 1 .. TraceSpace : disk[Start(i) + j] = Image(added[i])[j]
    BY <2>1, StartIsNat DEF Placed
  <2>4. disk \in Seq(Cells) /\ Len(disk) \in Nat
    BY LenProperties DEF TypeInv
  <2> DEFINE found == SubSeq(disk, Start(i) + 1, Start(i) + TraceSpace)
  <2>5. getTrace(i - 1) = found
    <3>1. getTrace(i - 1) = Bytes(Start(i), TraceSpace)
      <4>1. Before(added[i].id) = {} \/ TitleSpace = 0
        <5> SUFFICES ASSUME TitleSpace # 0, NEW p \in partial PROVE ~ (p < added[i].id)
          BY DEF Before
        <5>1. added[i].id \in Nat
          BY <2>1 DEF Traces
        <5>2. p \in Nat
          BY DEF TypeInv
        <5>3. p > added[i].id
          OBVIOUS
        <5> QED
          BY <5>1, <5>2, <5>3
      <4>2. TitleSpace * Cardinality(Before(added[i].id)) = 0
        BY <4>1, FS_EmptySet, BeforeIsFinite, SpacesAreNat
      <4>3. (i - 1) * TraceSpace \in Nat
        <5>1. i - 1 \in Nat
          BY <2>1, LenProperties DEF TypeInv
        <5> QED
          BY <5>1, SpacesAreNat, Product
      <4> QED
        BY <4>2, <4>3 DEF getTrace, Start
    <3>2. Start(i) + TraceSpace \in Nat
      BY <2>3, SpacesAreNat
    <3>3. ~ (Start(i) + TraceSpace < Len(disk)) => Len(disk) = Start(i) + TraceSpace
      BY <2>3, <2>4, <3>2
    <3> QED
      BY <3>1, <3>3 DEF Bytes
  <2>6. found \in Seq(Cells) /\ Len(found) = TraceSpace
        /\ \A j \in 1 .. TraceSpace : found[j] = disk[Start(i) + j]
    <3>1. PICK a \in Nat : a = Start(i)
      BY <2>3
    <3>2. PICK n \in Nat : n = TraceSpace
      BY SpacesAreNat
    <3>3. a + n <= Len(disk)
      BY <2>3, <3>1, <3>2
    <3>4. /\ SubSeq(disk, a + 1, a + n) \in Seq(Cells) /\ Len(SubSeq(disk, a + 1, a + n)) = n
          /\ \A j \in 1 .. n : SubSeq(disk, a + 1, a + n)[j] = disk[a + j]
      BY <2>4, <3>3, SubSeqIs, ZenonT(30)
    <3> QED
      BY <3>1, <3>2, <3>4, ZenonT(30)
  <2> HIDE DEF found
  <2>7. found = Image(added[i])
    <3>1. Len(found) = Len(Image(added[i]))
      BY <2>2, <2>6, ZenonT(30)
    <3>2. \A j \in 1 .. Len(found) : found[j] = Image(added[i])[j]
      BY <2>3, <2>6, ZenonT(30)
    <3> QED
      BY <2>2, <2>6, <3>1, <3>2, SeqEqual, ZenonT(30)
  <2> QED
    BY <2>5, <2>7
<1> QED
  BY <1>1, Inductive, PTL

\* A file that was closed opens, with every trace in it, unless a refused trace
\* has left a title there (Trace.py lines 172-224); for every size of the
\* fields, when the samples have the declared length.
THEOREM ClosedFilesOpen == ASSUME ExactSamples PROVE Spec => []ClosedFileOpens
<1>1. IInv => ClosedFileOpens
  BY DEF IInv
<1> QED
  BY <1>1, Inductive, PTL
=============================================================================
