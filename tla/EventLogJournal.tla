--------------------------- MODULE EventLogJournal ---------------------------
(***************************************************************************)
(* EventLog implements Journal: the refinement mapping.  The events of the *)
(* journal are those whose last byte was written, in that order; what the  *)
(* readers make of the bytes must agree with it.                           *)
(***************************************************************************)
EXTENDS EventLog, FiniteSets

\* None is not a call: Python's None is no record.
ASSUME CallAssumption == None \notin [ev : Events, at : Nat]

\* How many lines end at or before offset p.
LinesUpTo(p) == Cardinality({i \in 1 .. Len(written) : written[i].end <= p})

\* Lines that start before offset p: what a reader with this until reads.
LinesFrom(p) == Cardinality({i \in 1 .. Len(written) : StartOf(i) < p})

MappedCall(w) ==
  IF writer[w].pc = "idle" THEN None
  ELSE [ev |-> writer[w].ev,
        at |-> IF writer[w].pc = "syncing" THEN LinesUpTo(writer[w].end) ELSE 0]

MappedScan(rd) ==
  [pc |-> rd.pc, accepts |-> rd.accepts, limit |-> rd.limit,
   until |-> IF rd.until = None THEN None ELSE LinesFrom(rd.until),
   next |-> IF rd.pc = "idle" THEN 0 ELSE LinesUpTo(rd.pos),
   out |-> [j \in 1 .. Len(rd.out) |-> LinesUpTo(rd.out[j].at) + 1],
   status |-> rd.status]

\* Journal!NoScan: a reader whose cursor is inside a line is promised nothing.
NoScan == [pc |-> "idle", accepts |-> {}, limit |-> None, until |-> None,
           next |-> 0, out |-> << >>, status |-> None]

\* The variables of the journal.
JLines == [i \in 1 .. Len(written) |-> written[i].ev]

JCall == [w \in Writers |-> MappedCall(w)]

JAcked == {[ev |-> a.ev, at |-> LinesUpTo(a.end)] : a \in acked}

JScan ==
  [r \in Readers |-> IF Aligned(reader[r].after) THEN MappedScan(reader[r]) ELSE NoScan]

J == INSTANCE Journal WITH lines <- JLines, call <- JCall, acked <- JAcked, scan <- JScan

\* "Atomically append one event as a single JSONL line" (writer.py:24) and
\* "Stream decoded events from a JSONL log" (reader.py:23): with whole writes,
\* every step of the writers and readers on the bytes of the file is a step of
\* the journal, or none.
IsJournal == J!Spec
=============================================================================
