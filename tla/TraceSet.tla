------------------------------ MODULE TraceSet ------------------------------
(***************************************************************************)
(* acq/Trace.py: the trace file.  A header holds the number of traces; the *)
(* trace block after it is flat, so trace i is found by multiplication.    *)
(* addTrace appends a title, data and samples to the end of the file and   *)
(* then rewrites the count in the header.  Title and data wait in the      *)
(* buffer of the file object; tofile writes the buffer out and then the    *)
(* samples; the new count goes out with the last seek.  The script may be  *)
(* killed or interrupted at any point, and the file is opened again for    *)
(* reading.                                                                *)
(*                                                                         *)
(* A byte of the block is named by its trace, its field and its place in   *)
(* the field.  The header is its count: the other tags are written once,   *)
(* by new, with the values of the constants.                               *)
(***************************************************************************)
EXTENDS Naturals, Sequences, FiniteSets

CONSTANTS
    TitleSpace, DataSpace, SampleSpace, \* bytes of each field
    Inputs,                             \* sizes of the traces the script adds
    MaxTraces                           \* bound on the calls of addTrace

ASSUME SpacesAssumption ==
    TitleSpace \in Nat /\ DataSpace \in Nat /\ SampleSpace \in Nat \ {0}
ASSUME InputsAssumption == Inputs \subseteq [title : Nat, data : Nat, samples : Nat]
ASSUME MaxTracesAssumption == MaxTraces \in Nat \ {0}

VARIABLES
    wpc,            \* where the writer is: in addTrace, between calls, gone
    cur,            \* the trace of the running addTrace
    numberOfTraces, \* self._numberOfTraces of the writer
    buf,            \* bytes in the file object
    disk, count,    \* the trace block and the header's count on disk
    header,         \* whether the header has left the buffer
    reader,         \* "none", or what open made of the file
    readCount,      \* self._numberOfTraces of the reader
    calls, added,   \* history: calls of addTrace; the traces it took;
    partial         \* the calls it refused after it wrote their title

vars == <<wpc, cur, numberOfTraces, buf, disk, count, header, reader, readCount, calls,
          added, partial>>

Field(id, field, n) == [j \in 1 .. n |-> <<id, field, j>>]

\* The bytes of a whole trace.
Image(trace) ==
    Field(trace.id, "title", trace.title) \o Field(trace.id, "data", trace.data)
        \o Field(trace.id, "samples", trace.samples)

TraceSpace == SampleSpace + DataSpace + TitleSpace

NoTrace == [id |-> 0, title |-> 0, data |-> 0, samples |-> 0]

\* new: an empty block and a count of 0, still in the buffer.
Init ==
    /\ wpc = "ready" /\ cur = NoTrace /\ numberOfTraces = 0
    /\ buf = <<>> /\ disk = <<>> /\ count = 0 /\ header = FALSE
    /\ reader = "none" /\ readCount = 0
    /\ calls = 0 /\ added = <<>> /\ partial = {}

-----------------------------------------------------------------------------
\* addTrace: f.seek(0, 2) writes out what an earlier call left in the buffer.
SeekEnd(sizes) ==
    /\ wpc = "ready" /\ calls < MaxTraces
    /\ wpc' = "title"
    /\ calls' = calls + 1
    /\ cur' = [id |-> calls + 1, title |-> sizes.title, data |-> sizes.data,
               samples |-> sizes.samples]
    /\ disk' = disk \o buf /\ buf' = <<>> /\ header' = TRUE
    /\ UNCHANGED <<numberOfTraces, count, reader, readCount, added, partial>>

WriteTitle ==
    /\ wpc = "title"
    /\ IF cur.title = TitleSpace
       THEN wpc' = "data" /\ buf' = buf \o Field(cur.id, "title", cur.title)
       ELSE wpc' = "ready" /\ UNCHANGED buf
    /\ UNCHANGED <<cur, numberOfTraces, disk, count, header, reader, readCount, calls,
                   added, partial>>

\* Variant: the size of the data is not compared.
WriteDataUnchecked ==
    /\ wpc = "data"
    /\ wpc' = "samples" /\ buf' = buf \o Field(cur.id, "data", cur.data)
    /\ UNCHANGED <<cur, numberOfTraces, disk, count, header, reader, readCount, calls,
                   added, partial>>

\* A refusal leaves the title in the buffer.
WriteData ==
    /\ wpc = "data"
    /\ IF cur.data = DataSpace
       THEN wpc' = "samples" /\ buf' = buf \o Field(cur.id, "data", cur.data)
            /\ UNCHANGED partial
       ELSE wpc' = "ready" /\ partial' = partial \union {cur.id} /\ UNCHANGED buf
    /\ UNCHANGED <<cur, numberOfTraces, disk, count, header, reader, readCount, calls, added>>

\* samples.astype(...).tofile(handle); _numberOfTraces += 1
WriteSamples ==
    /\ wpc = "samples"
    /\ wpc' = "count"
    /\ disk' = disk \o buf \o Field(cur.id, "samples", cur.samples)
    /\ buf' = <<>>
    /\ numberOfTraces' = numberOfTraces + 1
    /\ added' = Append(added, cur)
    /\ UNCHANGED <<cur, count, header, reader, readCount, calls, partial>>

\* Variant: the new count is never written.
UpdateCountForgotten ==
    /\ wpc = "count"
    /\ wpc' = "ready"
    /\ UNCHANGED <<cur, numberOfTraces, buf, disk, count, header, reader, readCount, calls,
                   added, partial>>

\* _updateNumberOfTraces: findtag, the tag again, the count; f.seek(0, 2)
UpdateCount ==
    /\ wpc = "count"
    /\ wpc' = "ready"
    /\ count' = numberOfTraces
    /\ UNCHANGED <<cur, numberOfTraces, buf, disk, header, reader, readCount, calls, added,
                   partial>>

\* The file object writes its buffer out and goes.
Leave(state) ==
    /\ wpc' = state
    /\ disk' = disk \o buf /\ buf' = <<>> /\ header' = TRUE
    /\ UNCHANGED <<cur, numberOfTraces, count, reader, readCount, calls, added, partial>>

Close == wpc = "ready" /\ Leave("closed")

\* An exception ends the script, at any point: its file object still goes.
Interrupt == wpc \notin {"closed", "killed"} /\ Leave("killed")

\* The script is killed.  The buffer is lost; a write under way leaves a
\* prefix.
Kill ==
    /\ wpc \notin {"closed", "killed"}
    /\ wpc' = "killed"
    /\ LET writing == IF wpc = "samples"
                      THEN buf \o Field(cur.id, "samples", cur.samples) ELSE <<>>
       IN  \E n \in 0 .. Len(writing) : disk' = disk \o SubSeq(writing, 1, n)
    /\ buf' = <<>>
    /\ UNCHANGED <<cur, numberOfTraces, count, header, reader, readCount, calls, added,
                   partial>>

-----------------------------------------------------------------------------
\* open.  Without a header the loop of line 181 has nothing to read.  With
\* one it comes to the tag of the trace block, and goes on while the file is
\* longer than header and counted traces: it takes the bytes that are left
\* for tags, which can end the loop, raise at the end of the file, or set one
\* of the fields anew.
Open ==
    /\ wpc \in {"closed", "killed"} /\ reader = "none"
    /\ readCount' = IF header THEN count ELSE 0
    /\ reader' \in IF ~header THEN {"empty"}
                   ELSE IF Len(disk) > count * TraceSpace THEN {"open", "raised", "misread"}
                   ELSE {"open"}
    /\ UNCHANGED <<wpc, cur, numberOfTraces, buf, disk, count, header, calls, added, partial>>

\* A read of the trace block: what there is from the offset on, at most n bytes.
Bytes(offset, n) ==
    LET end == offset + n IN SubSeq(disk, offset + 1, IF end < Len(disk) THEN end ELSE Len(disk))

\* getTrace(i), from 0: title, data and samples, read one after the other.  The
\* bytes of the data become numbers in line 288, and a byte has one name here.
getTrace(i) == Bytes(i * TraceSpace, TraceSpace)

Next ==
    \/ \E sizes \in Inputs : SeekEnd(sizes)
    \/ WriteTitle \/ WriteData \/ WriteSamples \/ UpdateCount
    \/ Close \/ Interrupt \/ Kill
    \/ Open

Spec == Init /\ [][Next]_vars

-----------------------------------------------------------------------------
(***************************************************************************)
(* getTrace returns every trace the header counts, whole, at every moment: *)
(* before, between and after the writes of the next trace, after traces    *)
(* refused for their title, and when the script is killed or interrupted.  *)
(* It does not for a trace taken after one that was refused for its data,  *)
(* unless titles are empty as in acq/runSetup.py: addTrace writes the      *)
(* title before it looks at the data (lines 336-339), so that trace and    *)
(* all later ones lie behind the place where getTrace reads.               *)
(***************************************************************************)
CountedIsReadable ==
    \A i \in 1 .. count :
        TitleSpace = 0 \/ (\A p \in partial : p > added[i].id) => getTrace(i - 1) = Image(added[i])

(***************************************************************************)
(* A file that was closed opens, and its reader sees every trace that was  *)
(* taken, unless a refused trace has left its title in it: only then, or   *)
(* when the script ended in the middle of a call, can there be bytes after *)
(* the counted traces for open to stumble over (lines 172-224).            *)
(***************************************************************************)
ClosedFileOpens ==
    wpc = "closed" /\ reader # "none" /\ (partial = {} \/ TitleSpace = 0) =>
        reader = "open" /\ readCount = Len(added)

-----------------------------------------------------------------------------
(***************************************************************************)
(* Trace.py line 332: "we only accept exact same size inputs".  Does not   *)
(* hold: the number of samples is not compared with the header's.          *)
(***************************************************************************)
ExactSizesOnly ==
    \A i \in 1 .. Len(added) :
        /\ added[i].title = TitleSpace /\ added[i].data = DataSpace
        /\ added[i].samples = SampleSpace
=============================================================================
