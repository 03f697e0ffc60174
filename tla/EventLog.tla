------------------------------- MODULE EventLog -------------------------------
(***************************************************************************)
(* One JSONL log file: writer.append_event over FilesystemBackend.append,  *)
(* and the two streaming readers, FilesystemBackend.read and               *)
(* reader.read_events, running beside the writers.                         *)
(*                                                                         *)
(* The file is modelled byte by byte because every hazard of the log is    *)
(* about where a line begins and ends.  A byte is a pair <<e, i>>: the     *)
(* i-th byte of the line json.dumps writes for event e.  The last one,     *)
(* i = Size[e], is the newline; JSON escapes every other newline.          *)
(*                                                                         *)
(* A write(2) of the whole line to a descriptor opened with O_APPEND is    *)
(* one step.  With ShortWrites the kernel may accept only a part of it (a  *)
(* full disk, a signal), the buffered writer then tries again, and the     *)
(* call may also fail in between.  With PowerCuts the machine may stop and *)
(* lose any bytes that were not fsynced.                                   *)
(***************************************************************************)
EXTENDS Integers, Sequences

CONSTANTS
  Writers,      \* threads or processes that call append_event
  Readers,      \* generators that read() and read_events() return
  Events,       \* the events the writers may append
  Size,         \* Size[e]: bytes of e's line, its newline included
  Split,        \* Split[e]: lengths of prefixes that end inside a UTF-8 character
  Ceiling,      \* writer._EVENT_BYTE_CEILING
  Filters,      \* the filters readers pass: each the set of events it accepts
  Spliced,      \* what json.loads makes of pieces of several lines, when it can
  Limits,       \* the limits readers pass
  MaxCalls,     \* bound: calls of append_event
  ShortWrites,  \* may write(2) be partial and may a write fail half way?
  PowerCuts,    \* may the machine lose what was not fsynced?
  None          \* Python's None, for until and limit

ASSUME SizeAssumption == Size \in [Events -> Nat] /\ \A e \in Events : Size[e] >= 2
ASSUME SplitAssumption == \A e \in Events : Split[e] \subseteq 1 .. Size[e] - 2
ASSUME BoundAssumption == MaxCalls \in Nat /\ Ceiling \in Nat
ASSUME ReaderAssumption ==
  /\ Limits \subseteq Nat \union {None}
  /\ None \notin Nat \union {"limit", "until", "eof", "ReaderError", "UnicodeDecodeError",
                           "AttributeError"}
  /\ \A f \in Filters : f \subseteq Events
  /\ Spliced \notin Events
ASSUME FaultAssumption == ShortWrites \in BOOLEAN /\ PowerCuts \in BOOLEAN

VARIABLES
  exists,   \* the log file exists
  file,     \* its bytes
  durable,  \* how many of them an fsync has forced to disk
  calls,    \* calls of append_event so far
  writer,   \* the progress of each writer's call
  reader,   \* each reader's position and what it has yielded
  written,  \* history: <<ev, end>> of every line whose last byte was written
  acked     \* history: the appends that returned normally

vars == <<exists, file, durable, calls, writer, reader, written, acked>>

-----------------------------------------------------------------------------
(* Lines and their bytes. *)

Line(e) == [i \in 1 .. Size[e] |-> <<e, i>>]

Content(e) == [i \in 1 .. Size[e] - 1 |-> <<e, i>>]

IsNewline(c) == c[2] = Size[c[1]]

\* Offsets at which a line starts.
LineStart(p) == p = 0 \/ (p \in 1 .. Len(file) /\ IsNewline(file[p]))

\* f.readline(): where the line that starts at offset p ends.
LineEnd(p) ==
  CHOOSE q \in p + 1 .. Len(file) :
    /\ q = Len(file) \/ IsNewline(file[q])
    /\ \A s \in p + 1 .. q - 1 : ~ IsNewline(file[s])

Raw(p) == SubSeq(file, p + 1, LineEnd(p))

Blank(raw) == Len(raw) = 1 /\ IsNewline(raw[1])

\* raw.strip(): JSON text has no blanks around it, only the newline goes.
Stripped(raw) == IF IsNewline(raw[Len(raw)]) THEN SubSeq(raw, 1, Len(raw) - 1) ELSE raw

\* Mutant: only a line without its newline decodes.
DecodesUnended(raw, e) == raw = Content(e)

\* json.loads accepts the object of e, whoever's newline ends the line.
Decodes(raw, e) == Stripped(raw) = Content(e)

\* The bytes at i and i + 1 of a line were not written as neighbours and the
\* cut is inside a UTF-8 character (i = 0 and i = Len(raw): the line's ends).
BrokenCharacter(raw, i) ==
  /\ ~ (i \in 1 .. Len(raw) - 1 /\ raw[i + 1] = <<raw[i][1], raw[i][2] + 1>>)
  /\ \/ i >= 1 /\ raw[i][2] \in Split[raw[i][1]]
     \/ i < Len(raw) /\ raw[i + 1][2] - 1 \in Split[raw[i + 1][1]]

\* json.loads on bytes decodes UTF-8 first, and read() catches only
\* JSONDecodeError: a broken character leaves it as a UnicodeDecodeError.
DecodeError(raw) ==
  IF \E i \in 0 .. Len(raw) : BrokenCharacter(raw, i)
  THEN "UnicodeDecodeError" ELSE "ReaderError"

\* Bytes of several events, or from the middle of one: json.loads may accept
\* them, as when an object was cut inside a string and the rest of another
\* ends the string.  Never when they begin like an event, up to its end or
\* theirs (the braces stay open, or something follows the object), nor when
\* they are the end of one (a brace or a quote too many).
Splices(raw) ==
  LET text == Stripped(raw)
      n == Len(text)
  IN  /\ DecodeError(raw) = "ReaderError"
      /\ n > 0
      /\ \A e \in Events :
           /\ ~ \A i \in 1 .. n : i < Size[e] => text[i] = <<e, i>>
           /\ ~ \A i \in 1 .. n : text[i] = <<e, Size[e] - 1 - n + i>>

-----------------------------------------------------------------------------
(* Writers. *)

IdleWriter == [pc |-> "idle", ev |-> None, fsync |-> FALSE, cursor |-> 0,
               left |-> 0, end |-> 0]

IdleReader == [pc |-> "idle", api |-> "read", after |-> 0, pos |-> 0,
               until |-> None, limit |-> None, accepts |-> {}, out |-> << >>,
               status |-> None, goal |-> 0]

Init ==
  /\ exists = FALSE
  /\ file = << >>
  /\ durable = 0
  /\ calls = 0
  /\ writer = [w \in Writers |-> IdleWriter]
  /\ reader = [r \in Readers |-> IdleReader]
  /\ written = << >>
  /\ acked = {}

\* append_event on an event that is too long: EventTooLargeError.
Refuse(w, e) ==
  /\ writer[w].pc = "idle" /\ calls < MaxCalls
  /\ Size[e] > Ceiling
  /\ calls' = calls + 1
  /\ UNCHANGED <<exists, file, durable, writer, reader, written, acked>>

\* Mutant: open("wb").
OpenTruncates(w, e, fsync) ==
  /\ writer[w].pc = "idle" /\ calls < MaxCalls
  /\ Size[e] <= Ceiling
  /\ calls' = calls + 1
  /\ exists' = TRUE
  /\ file' = << >>
  /\ writer' = [writer EXCEPT ![w] =
       [pc |-> "flushing", ev |-> e, fsync |-> fsync,
        cursor |-> Size[e], left |-> Size[e], end |-> 0]]
  /\ UNCHANGED <<durable, reader, written, acked>>

\* Mutant: tell() before write().
OpenTellsFirst(w, e, fsync) ==
  /\ writer[w].pc = "idle" /\ calls < MaxCalls
  /\ Size[e] <= Ceiling
  /\ calls' = calls + 1
  /\ exists' = TRUE
  /\ writer' = [writer EXCEPT ![w] =
       [pc |-> "flushing", ev |-> e, fsync |-> fsync,
        cursor |-> Len(file), left |-> Size[e], end |-> 0]]
  /\ UNCHANGED <<file, durable, reader, written, acked>>

\* mkdir and open("ab"): the descriptor's offset is the size at this moment.
\* write() only fills the buffer, and tell() adds its length to that offset:
\* this is the cursor append() returns, computed before anything is written.
Open(w, e, fsync) ==
  /\ writer[w].pc = "idle" /\ calls < MaxCalls
  /\ Size[e] <= Ceiling
  /\ calls' = calls + 1
  /\ exists' = TRUE
  /\ writer' = [writer EXCEPT ![w] =
       [pc |-> "flushing", ev |-> e, fsync |-> fsync,
        cursor |-> Len(file) + Size[e], left |-> Size[e], end |-> 0]]
  /\ UNCHANGED <<file, durable, reader, written, acked>>

\* The next n bytes of w's line reach the end of the file.
Chunk(w, n) ==
  LET from == Size[writer[w].ev] - writer[w].left
  IN  SubSeq(Line(writer[w].ev), from + 1, from + n)

\* write(2) accepted only the first n of the bytes that are left.
WritePart(w, n) ==
  /\ ShortWrites
  /\ writer[w].pc = "flushing"
  /\ n < writer[w].left
  /\ file' = file \o Chunk(w, n)
  /\ writer' = [writer EXCEPT ![w].left = @ - n]
  /\ UNCHANGED <<exists, durable, calls, reader, written, acked>>

Ack(w, end, synced) ==
  acked' = acked \union {[ev |-> writer[w].ev, end |-> end,
                          cursor |-> writer[w].cursor, durable |-> synced]}

\* Mutant: open("r+b") and seek to the end, in place of O_APPEND.
WriteRestAtOffset(w) ==
  LET e == writer[w].ev
      from == writer[w].cursor - writer[w].left
      end == writer[w].cursor
  IN  /\ writer[w].pc = "flushing"
      /\ file' = SubSeq(file, 1, from) \o Chunk(w, writer[w].left)
                   \o SubSeq(file, end + 1, Len(file))
      /\ written' = Append(written, [ev |-> e, end |-> end])
      /\ writer' = [writer EXCEPT ![w] = IdleWriter]
      /\ Ack(w, end, FALSE)
      /\ UNCHANGED <<exists, durable, calls, reader>>

\* Closing the file flushes the buffer.  Without fsync the call returns here.
WriteRest(w) ==
  LET e == writer[w].ev
      end == Len(file) + writer[w].left
  IN  /\ writer[w].pc = "flushing"
      /\ file' = file \o Chunk(w, writer[w].left)
      /\ written' = Append(written, [ev |-> e, end |-> end])
      /\ IF writer[w].fsync
         THEN /\ writer' = [writer EXCEPT ![w].pc = "syncing", ![w].left = 0,
                                          ![w].end = end]
              /\ UNCHANGED acked
         ELSE /\ writer' = [writer EXCEPT ![w] = IdleWriter]
              /\ Ack(w, end, FALSE)
      /\ UNCHANGED <<exists, durable, calls, reader>>

\* Mutant: the call returns without os.fsync.
FsyncSkipped(w) ==
  /\ writer[w].pc = "syncing"
  /\ Ack(w, writer[w].end, TRUE)
  /\ writer' = [writer EXCEPT ![w] = IdleWriter]
  /\ UNCHANGED <<exists, file, durable, calls, reader, written>>

\* fsync on a descriptor of its own forces the whole file to disk.
Fsync(w) ==
  /\ writer[w].pc = "syncing"
  /\ durable' = Len(file)
  /\ Ack(w, writer[w].end, TRUE)
  /\ writer' = [writer EXCEPT ![w] = IdleWriter]
  /\ UNCHANGED <<exists, file, calls, reader, written>>

\* The writer is killed, or the call under way raises OSError.  Bytes still
\* in its buffer never reach the file; bytes already written stay.
Abort(w) ==
  /\ writer[w].pc # "idle"
  /\ writer' = [writer EXCEPT ![w] = IdleWriter]
  /\ UNCHANGED <<exists, file, durable, calls, reader, written, acked>>

\* The machine stops: everybody dies and only a prefix of the file that
\* holds all fsynced bytes is found again.  append_event fsyncs the file and
\* not its directory: that the entry of a new log is durable with its bytes is
\* taken from the filesystem.
PowerCut(n) ==
  /\ PowerCuts
  /\ n \in durable .. Len(file)
  /\ file' = SubSeq(file, 1, n)
  /\ durable' = n
  /\ writer' = [w \in Writers |-> IdleWriter]
  /\ reader' = [r \in Readers |-> IdleReader]
  /\ \E m \in 0 .. Len(written) :
       /\ \A i \in 1 .. Len(written) : i <= m <=> written[i].end <= n
       /\ written' = SubSeq(written, 1, m)
  /\ acked' = {a \in acked : a.end <= n}
  /\ UNCHANGED <<exists, calls>>

-----------------------------------------------------------------------------
(* Readers. *)

\* The cursors a caller can hold: the start, or what an append returned.
Cursors == {0} \union {a.cursor : a \in acked}

Apis == {"read", "read_events"}

\* First next() on the generator: the existence check, open and seek.  A
\* generator runs once.  goal is history: the size of the file at this moment.
StartRead(r, api, after, until, limit, accepts) ==
  /\ reader[r].pc = "idle" /\ reader[r].status = None
  /\ api = "read" => accepts = Events
  /\ reader' = [reader EXCEPT ![r] =
       [pc |-> IF exists THEN "reading" ELSE "idle",
        api |-> api, after |-> after, pos |-> after, until |-> until,
        limit |-> limit, accepts |-> accepts, out |-> << >>,
        status |-> IF exists THEN None ELSE "eof", goal |-> Len(file)]]
  /\ UNCHANGED <<exists, file, durable, calls, writer, written, acked>>

Finish(r, status) ==
  reader' = [reader EXCEPT ![r].pc = "idle", ![r].status = status]

LimitReached(r) == reader[r].limit # None /\ Len(reader[r].out) >= reader[r].limit

\* read() looks at limit and then at until before it reads a line.
\* read_events() passes no limit down.
StopBefore(r) ==
  /\ reader[r].pc = "reading"
  /\ \/ reader[r].api = "read" /\ LimitReached(r) /\ Finish(r, "limit")
     \/ /\ ~ (reader[r].api = "read" /\ LimitReached(r))
        /\ reader[r].until # None /\ reader[r].pos >= reader[r].until
        /\ Finish(r, "until")
  /\ UNCHANGED <<exists, file, durable, calls, writer, written, acked>>

\* Mutant: f.tell() > end.
ProceedsPast(r) ==
  /\ reader[r].pc = "reading"
  /\ ~ (reader[r].api = "read" /\ LimitReached(r))
  /\ reader[r].until # None => reader[r].pos <= reader[r].until

Proceeds(r) ==
  /\ reader[r].pc = "reading"
  /\ ~ (reader[r].api = "read" /\ LimitReached(r))
  /\ reader[r].until # None => reader[r].pos < reader[r].until

Eof(r) ==
  /\ Proceeds(r)
  /\ reader[r].pos >= Len(file)
  /\ Finish(r, "eof")
  /\ UNCHANGED <<exists, file, durable, calls, writer, written, acked>>

ReadsLine(r) == Proceeds(r) /\ reader[r].pos < Len(file)

ReadBlank(r) ==
  /\ ReadsLine(r)
  /\ Blank(Raw(reader[r].pos))
  /\ reader' = [reader EXCEPT ![r].pos = LineEnd(reader[r].pos)]
  /\ UNCHANGED <<exists, file, durable, calls, writer, written, acked>>

\* Mutant: pos keeps the offset of the line just read.
ReadEventInPlace(r, e) ==
  LET pos == reader[r].pos
  IN  /\ ReadsLine(r)
      /\ Decodes(Raw(pos), e)
      /\ reader' = [reader EXCEPT ![r].out = Append(@, [ev |-> e, at |-> pos])]
      /\ UNCHANGED <<exists, file, durable, calls, writer, written, acked>>

\* Mutant: the first event that the filter rejects ends the iteration.
ReadEventStops(r, e) ==
  LET pos == reader[r].pos
      rejected == e \notin reader[r].accepts
  IN  /\ ReadsLine(r)
      /\ Decodes(Raw(pos), e)
      /\ reader' = [reader EXCEPT
           ![r].pos = LineEnd(pos),
           ![r].out = IF rejected THEN @ ELSE Append(@, [ev |-> e, at |-> pos]),
           ![r].pc = IF rejected THEN "idle" ELSE @,
           ![r].status = IF rejected THEN "eof" ELSE @]
      /\ UNCHANGED <<exists, file, durable, calls, writer, written, acked>>

\* The object on the line at pos.  read_events() filters first and only then
\* looks at limit, so it has consumed one line more than it yields.  out keeps,
\* with each object, the offset of its line.
Take(r, e, rejected) ==
  LET pos == reader[r].pos
  IN  reader' = [reader EXCEPT
        ![r].pos = LineEnd(pos),
        ![r].out = IF rejected \/ LimitReached(r) THEN @
                   ELSE Append(@, [ev |-> e, at |-> pos]),
        ![r].pc = IF ~ rejected /\ LimitReached(r) THEN "idle" ELSE @,
        ![r].status = IF ~ rejected /\ LimitReached(r) THEN "limit" ELSE @]

ReadEvent(r, e) ==
  /\ ReadsLine(r)
  /\ Decodes(Raw(reader[r].pos), e)
  /\ Take(r, e, e \notin reader[r].accepts)
  /\ UNCHANGED <<exists, file, durable, calls, writer, written, acked>>

\* Pieces of lines that parse are yielded like an event, whatever they say;
\* only a filter may stop them.  From the middle of a line they need not be an
\* object, and then upcast() in read_events() fails on current.get("type").
ReadSpliced(r) ==
  LET raw == Raw(reader[r].pos)
  IN  /\ ReadsLine(r)
      /\ Splices(raw)
      /\ \/ \E rejected \in BOOLEAN :
              (rejected => reader[r].api = "read_events") /\ Take(r, Spliced, rejected)
         \/ /\ reader[r].api = "read_events" /\ raw[1][2] # 1
            /\ Finish(r, "AttributeError")
      /\ UNCHANGED <<exists, file, durable, calls, writer, written, acked>>

\* Mutant: a line that is not valid JSON is skipped.
ReadBrokenSkips(r) ==
  LET raw == Raw(reader[r].pos)
  IN  /\ ReadsLine(r)
      /\ ~ Blank(raw) /\ ~ \E e \in Events : Decodes(raw, e)
      /\ reader' = [reader EXCEPT ![r].pos = LineEnd(reader[r].pos)]
      /\ UNCHANGED <<exists, file, durable, calls, writer, written, acked>>

ReadBroken(r) ==
  LET raw == Raw(reader[r].pos)
  IN  /\ ReadsLine(r)
      /\ ~ Blank(raw) /\ ~ \E e \in Events : Decodes(raw, e)
      /\ Finish(r, DecodeError(raw))
      /\ UNCHANGED <<exists, file, durable, calls, writer, written, acked>>

-----------------------------------------------------------------------------
WriterStep(w) ==
  \/ \E e \in Events : Refuse(w, e)
  \/ \E e \in Events, fsync \in BOOLEAN : Open(w, e, fsync)
  \/ \E n \in 1 .. writer[w].left - 1 : WritePart(w, n)
  \/ WriteRest(w)
  \/ Fsync(w)
  \/ Abort(w)

ReaderStep(r) ==
  \/ \E api \in Apis, after \in Cursors, until \in Cursors \union {None},
        limit \in Limits, accepts \in Filters :
       StartRead(r, api, after, until, limit, accepts)
  \/ StopBefore(r)
  \/ Eof(r)
  \/ ReadBlank(r)
  \/ \E e \in Events : ReadEvent(r, e)
  \/ ReadSpliced(r)
  \/ ReadBroken(r)

Next ==
  \/ \E w \in Writers : WriterStep(w)
  \/ \E r \in Readers : ReaderStep(r)
  \/ \E n \in durable .. Len(file) : PowerCut(n)

Spec == Init /\ [][Next]_vars
-----------------------------------------------------------------------------
(* Properties. *)

Offsets == 0 .. Len(file)

WriterRecord ==
  [pc : {"idle", "flushing", "syncing"}, ev : Events \union {None},
   fsync : BOOLEAN, cursor : Nat, left : Nat, end : Nat]

Yielded == [ev : Events \union {Spliced}, at : Nat]

Failures == {"ReaderError", "UnicodeDecodeError", "AttributeError"}

Outcomes == {None, "limit", "until", "eof"} \union Failures

ReaderRecord ==
  [pc : {"idle", "reading"}, api : Apis, after : Nat, pos : Nat,
   until : Nat \union {None}, limit : Limits \union {None},
   accepts : SUBSET Events, out : Seq(Yielded), status : Outcomes, goal : Nat]

Bytes == Events \X Nat

\* Every variable has its type, and no more is durable than was written.
TypeOK ==
  /\ exists \in BOOLEAN
  /\ file \in Seq(Bytes)
  /\ durable \in Offsets
  /\ calls \in 0 .. MaxCalls
  /\ writer \in [Writers -> WriterRecord]
  /\ reader \in [Readers -> ReaderRecord]
  /\ written \in Seq([ev : Events, end : Nat])
  /\ acked \subseteq [ev : Events, end : Nat, cursor : Nat, durable : BOOLEAN]

\* The line of event a.ev that ends at offset a.end can be read back.
Intact(a) ==
  /\ a.end \in Size[a.ev] .. Len(file)
  /\ LineStart(a.end - Size[a.ev])
  /\ SubSeq(file, a.end - Size[a.ev] + 1, a.end) = Line(a.ev)

\* "Atomically append one event as a single JSONL line" (writer.py:24): once
\* append_event has returned, the event is a whole line of its own in the log.
\* Holds for any number of writers as long as every write(2) is whole.
AckedReadable == \A a \in acked : Intact(a)

\* "return the post-write byte offset" (filesystem.py:43): when no other line
\* came in while append() ran, the cursor it returns is where the event's line
\* ends, so that a reader resumed after it sees the next event first.  When one
\* did, the cursor is too small, and may be inside a line: append() computes it
\* from the size of the file at open().
CursorWhenAlone ==
  \A a \in acked :
    (\A i \in 1 .. Len(written) :
       written[i].end \notin a.cursor - Size[a.ev] + 1 .. a.end - Size[a.ev])
    => a.cursor = a.end

\* Offsets at which an event's line ends, and the start.
Aligned(p) == p = 0 \/ \E i \in 1 .. Len(written) : written[i].end = p

StartOf(i) == written[i].end - Size[written[i].ev]

\* A reader started at a line's end yields events that were logged, from their
\* own lines, in the order of the log, and none of them twice, whatever is
\* appended while it runs.
ReadsInOrder ==
  \A r \in Readers : Aligned(reader[r].after) =>
    LET out == reader[r].out
    IN  /\ \A j \in 1 .. Len(out) :
             \E i \in 1 .. Len(written) :
               written[i].ev = out[j].ev /\ StartOf(i) = out[j].at
        /\ \A j, k \in 1 .. Len(out) : j < k => out[j].at < out[k].at

\* A reader that came to the end of the file has yielded every accepted event
\* that was in the log past its start when it was opened.
CompleteAtEof ==
  \A r \in Readers : Aligned(reader[r].after) /\ reader[r].status = "eof" =>
    \A i \in 1 .. Len(written) :
      /\ StartOf(i) >= reader[r].after
      /\ written[i].end <= reader[r].goal
      /\ written[i].ev \in reader[r].accepts
      => \E j \in 1 .. Len(reader[r].out) :
           reader[r].out[j] = [ev |-> written[i].ev, at |-> StartOf(i)]

\* The log never fails a reader that starts at a line's end (ReaderError is
\* for files damaged from outside).  Needs whole writes.
NeverBroken ==
  \A r \in Readers : Aligned(reader[r].after) =>
    reader[r].status \notin Failures

\* "Stream decoded events" (reader.py:24): partial writes, failed calls, torn
\* and spliced lines, power cuts and cursors inside a line never make a reader
\* miss a sound line.  Whatever it was opened on, an accepted event that is a
\* whole line of its own and that the reader has passed was yielded, from that
\* line, even if the reader first saw it unfinished.
DamageIsContained ==
  \A r \in Readers : reader[r].status # "limit" =>
    \A i \in 1 .. Len(written) :
      /\ Intact(written[i])
      /\ StartOf(i) >= reader[r].after
      /\ written[i].end <= reader[r].pos
      /\ written[i].ev \in reader[r].accepts
      => \E j \in 1 .. Len(reader[r].out) :
           reader[r].out[j] = [ev |-> written[i].ev, at |-> StartOf(i)]

\* An event acknowledged by append_event(fsync=True) that can be read back
\* stays readable whatever fails later (writer.py:31-33).
DurableStaysReadable ==
  [][\A a \in acked : a.durable /\ Intact(a) => a \in acked' /\ Intact(a)']_vars
=============================================================================
