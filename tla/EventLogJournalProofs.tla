------------------------ MODULE EventLogJournalProofs ------------------------
(***************************************************************************)
(* EventLog implements Journal when every write(2) is whole and the        *)
(* machine does not stop: each step on the bytes of the file is a step of  *)
(* the journal of events, or none.                                         *)
(***************************************************************************)
EXTENDS EventLogJournal, EventLogProofs, FiniteSetTheorems

-----------------------------------------------------------------------------
(* Counting lines. *)

\* Of the lines ws: those that end at or before p, those that start before p.
UpTo(ws, p) == Cardinality({i \in 1 .. Len(ws) : ws[i].end <= p})

From(ws, p) == Cardinality({i \in 1 .. Len(ws) : Start(ws[i]) < p})

\* Where the k-th line ends.
EndOf(ws, k) == IF k = 0 THEN 0 ELSE ws[k].end

\* The lines as they lie in the file.
LEMMA LinesOrdered ==
  ASSUME TypeInv, Layout
  PROVE  /\ Len(written) \in Nat /\ Len(file) \in Nat
         /\ \A i \in 1 .. Len(written) :
              /\ written[i].ev \in Events /\ written[i].end \in Nat
              /\ Start(written[i]) \in Nat /\ Start(written[i]) < written[i].end
              /\ written[i].end <= Len(file)
              /\ Start(written[i]) = EndOf(written, i - 1)
         /\ \A i, j \in 1 .. Len(written) : i < j => written[i].end <= Start(written[j])
         /\ EndOf(written, Len(written)) = Len(file)
<1>1. Len(written) \in Nat /\ Len(file) \in Nat
  BY WrittenTyped
<1>2. \A i \in 1 .. Len(written) : Start(written[i]) = StartOf(i)
  BY DEF Start, StartOf
<1>3. \A i \in 1 .. Len(written) : i - 1 = 0 <=> i = 1
  BY <1>1
<1>4. EndOf(written, Len(written)) = Len(file)
  BY <1>1 DEF Layout, EndOf
<1>5. \A i \in 1 .. Len(written) : Start(written[i]) = EndOf(written, i - 1)
  BY <1>2, <1>3 DEF Layout, EndOf
<1>6. \A i, j \in 1 .. Len(written) : i < j => written[i].end <= Start(written[j])
  BY <1>2 DEF Layout
<1>7. \A i \in 1 .. Len(written) :
        /\ written[i].ev \in Events /\ written[i].end \in Nat
        /\ Start(written[i]) \in Nat /\ Start(written[i]) < written[i].end
        /\ written[i].end <= Len(file)
  BY <1>2, WrittenTyped, LineFacts
<1> QED
  BY <1>1, <1>4, <1>5, <1>6, <1>7

\* The first k lines are those that end by the end of the k-th.
LEMMA UpToEnd ==
  ASSUME TypeInv, Layout, NEW k \in 0 .. Len(written)
  PROVE  EndOf(written, k) \in Nat /\ UpTo(written, EndOf(written, k)) = k
<1> DEFINE S == {i \in 1 .. Len(written) : written[i].end <= EndOf(written, k)}
<1>1. /\ Len(written) \in Nat
      /\ \A i \in 1 .. Len(written) :
           /\ written[i].end \in Nat /\ Start(written[i]) \in Nat
           /\ Start(written[i]) < written[i].end
      /\ \A i, j \in 1 .. Len(written) : i < j => written[i].end <= Start(written[j])
  BY LinesOrdered
<1>2. S = 1 .. k
  <2>1. CASE k = 0
    BY <1>1, <2>1 DEF EndOf
  <2>2. CASE k # 0
    <3>1. k \in 1 .. Len(written) /\ EndOf(written, k) = written[k].end
      BY <1>1, <2>2 DEF EndOf
    <3>2. ASSUME NEW i \in 1 .. Len(written) PROVE written[i].end <= written[k].end <=> i <= k
      <4>1. CASE i < k
        BY <1>1, <3>1, <4>1
      <4>2. CASE i = k
        BY <1>1, <4>2
      <4>3. CASE k < i
        BY <1>1, <3>1, <4>3
      <4> QED
        BY <3>1, <4>1, <4>2, <4>3
    <3> QED
      BY <1>1, <3>1, <3>2
  <2> QED
    BY <2>1, <2>2
<1>3. Cardinality(1 .. k) = k
  BY <1>1, FS_Interval
<1>4. EndOf(written, k) \in Nat
  BY <1>1 DEF EndOf
<1> QED
  BY <1>2, <1>3, <1>4 DEF UpTo

LEMMA BetweenIndex ==
  ASSUME TypeInv, Layout, NEW p, Between(written, p)
  PROVE  \E k \in 0 .. Len(written) : p = EndOf(written, k) /\ UpTo(written, p) = k
<1>1. \E k \in 0 .. Len(written) : p = EndOf(written, k)
  BY LinesOrdered DEF Between, EndOf
<1> QED
  BY <1>1, UpToEnd

\* Of a position between two lines, and an until anywhere in the file: more
\* than k lines start before until when the k-th ends before it.
LEMMA FromEnd ==
  ASSUME TypeInv, Layout, NEW k \in 0 .. Len(written), NEW p \in Nat, p <= Len(file)
  PROVE  /\ From(written, p) \in 0 .. Len(written)
         /\ k < From(written, p) <=> EndOf(written, k) < p
<1> DEFINE S == {i \in 1 .. Len(written) : Start(written[i]) < p}
<1>1. /\ Len(written) \in Nat /\ Len(file) \in Nat
      /\ EndOf(written, Len(written)) = Len(file)
      /\ \A i \in 1 .. Len(written) :
           /\ written[i].end \in Nat /\ Start(written[i]) \in Nat
           /\ Start(written[i]) < written[i].end /\ Start(written[i]) = EndOf(written, i - 1)
      /\ \A i, j \in 1 .. Len(written) : i < j => written[i].end <= Start(written[j])
  BY LinesOrdered
<1>2. EndOf(written, k) \in Nat
  BY UpToEnd
<1>3. /\ IsFiniteSet(1 .. Len(written)) /\ Cardinality(1 .. Len(written)) = Len(written)
      /\ IsFiniteSet(1 .. k) /\ Cardinality(1 .. k) = k
      /\ Cardinality(1 .. k + 1) = k + 1
  <2>1. \A n \in Nat : IsFiniteSet(1 .. n) /\ Cardinality(1 .. n) = n
    BY FS_Interval
  <2>2. k \in Nat /\ k + 1 \in Nat
    BY <1>1
  <2> QED
    BY <1>1, <2>1, <2>2
<1>4. IsFiniteSet(S) /\ Cardinality(S) \in Nat /\ Cardinality(S) <= Len(written)
  BY <1>3, FS_Subset, FS_CardinalityType
<1>5. ASSUME EndOf(written, k) < p PROVE k < Cardinality(S)
  <2>1. k + 1 \in 1 .. Len(written) /\ Start(written[k + 1]) = EndOf(written, k)
    BY <1>1, <1>2, <1>5
  <2>2. ASSUME NEW i \in 1 .. k + 1 PROVE i \in S
    <3>1. CASE i = k + 1
      BY <1>5, <2>1, <3>1
    <3>2. CASE i < k + 1
      <4>1. i \in 1 .. Len(written) /\ written[i].end <= Start(written[k + 1])
        BY <1>1, <2>1, <3>2
      <4> QED
        BY <1>1, <1>2, <1>5, <2>1, <4>1
    <3> QED
      BY <3>1, <3>2
  <2>3. k + 1 <= Cardinality(S)
    BY <1>3, <1>4, <2>2, FS_Subset
  <2> QED
    BY <1>4, <2>3
<1>6. ASSUME ~ (EndOf(written, k) < p) PROVE ~ (k < Cardinality(S))
  <2>1. ASSUME NEW i \in S PROVE i \in 1 .. k
    <3> SUFFICES ASSUME k < i PROVE FALSE
      BY <1>1
    <3>1. EndOf(written, k) <= Start(written[i])
      BY <1>1, <2>1 DEF EndOf
    <3> QED
      BY <1>1, <1>2, <1>6, <3>1
  <2>2. Cardinality(S) <= k
    BY <1>3, <2>1, FS_Subset
  <2> QED
    BY <1>4, <2>2
<1> QED
  BY <1>4, <1>5, <1>6 DEF From

\* Lines behind an offset do not count.
LEMMA CountsKept ==
  ASSUME NEW ws, NEW vs, NEW m, Extends(ws, vs, m), NEW p \in Nat, p <= m
  PROVE  /\ UpTo(vs, p) = UpTo(ws, p) /\ From(vs, p) = From(ws, p)
         /\ Between(vs, p) <=> Between(ws, p)
<1>1. /\ Len(ws) \in Nat /\ Len(vs) \in Nat /\ Len(ws) <= Len(vs) /\ m \in Nat
      /\ \A i \in 1 .. Len(ws) : i \in 1 .. Len(vs) /\ vs[i] = ws[i]
      /\ \A i \in 1 .. Len(vs) :
           \/ i \in 1 .. Len(ws)
           \/ /\ vs[i].end \in Nat /\ vs[i].end > m
              /\ Start(vs[i]) \in Nat /\ Start(vs[i]) >= m
  BY DEF Extends
<1>2. {i \in 1 .. Len(vs) : vs[i].end <= p} = {i \in 1 .. Len(ws) : ws[i].end <= p}
  BY <1>1
<1>3. {i \in 1 .. Len(vs) : Start(vs[i]) < p} = {i \in 1 .. Len(ws) : Start(ws[i]) < p}
  BY <1>1
<1>4. Between(vs, p) <=> Between(ws, p)
  BY <1>1 DEF Between
<1> QED
  BY <1>2, <1>3, <1>4 DEF UpTo, From
-----------------------------------------------------------------------------
(* The journal's variables as functions of the state. *)

CallOf(ws, wr) ==
  IF wr.pc = "idle" THEN None
  ELSE [ev |-> wr.ev, at |-> IF wr.pc = "syncing" THEN UpTo(ws, wr.end) ELSE 0]

AckedOf(ws, as) == {[ev |-> a.ev, at |-> UpTo(ws, a.end)] : a \in as}

ScanOf(ws, rd) ==
  IF Between(ws, rd.after)
  THEN [pc |-> rd.pc, accepts |-> rd.accepts, limit |-> rd.limit,
        until |-> IF rd.until = None THEN None ELSE From(ws, rd.until),
        next |-> IF rd.pc = "idle" THEN 0 ELSE UpTo(ws, rd.pos),
        out |-> [j \in 1 .. Len(rd.out) |-> UpTo(ws, rd.out[j].at) + 1],
        status |-> rd.status]
  ELSE NoScan

LEMMA JournalState ==
  /\ JCall = [w \in Writers |-> CallOf(written, writer[w])]
  /\ JAcked = AckedOf(written, acked)
  /\ JScan = [r \in Readers |-> ScanOf(written, reader[r])]
<1>1. \A p : LinesUpTo(p) = UpTo(written, p)
  BY DEF LinesUpTo, UpTo
<1>2. \A p : LinesFrom(p) = From(written, p)
  BY DEF LinesFrom, From, Start, StartOf
<1>3. \A p : Aligned(p) <=> Between(written, p)
  BY DEF Aligned, Between
<1>4. JCall = [w \in Writers |-> CallOf(written, writer[w])]
  BY <1>1 DEF JCall, MappedCall, CallOf
<1>5. JAcked = AckedOf(written, acked)
  BY <1>1 DEF JAcked, AckedOf
<1>6. JScan = [r \in Readers |-> ScanOf(written, reader[r])]
  BY <1>1, <1>2, <1>3, Zenon DEF JScan, MappedScan, ScanOf
<1> QED
  BY <1>4, <1>5, <1>6

LEMMA NextJournalState ==
  /\ JCall' = [w \in Writers |-> CallOf(written', writer'[w])]
  /\ JAcked' = AckedOf(written', acked')
  /\ JScan' = [r \in Readers |-> ScanOf(written', reader'[r])]
<1>1. ( /\ JCall = [w \in Writers |-> CallOf(written, writer[w])]
        /\ JAcked = AckedOf(written, acked)
        /\ JScan = [r \in Readers |-> ScanOf(written, reader[r])] )'
  BY JournalState, PTL
<1> QED
  BY <1>1

LEMMA CallKept ==
  ASSUME NEW ws, NEW vs, NEW m, Extends(ws, vs, m),
         NEW wr, wr.pc = "syncing" => wr.end \in Nat /\ wr.end <= m
  PROVE  CallOf(vs, wr) = CallOf(ws, wr)
BY CountsKept DEF CallOf

LEMMA AckedKept ==
  ASSUME NEW ws, NEW vs, NEW m, Extends(ws, vs, m),
         NEW as, \A a \in as : a.end \in Nat /\ a.end <= m
  PROVE  AckedOf(vs, as) = AckedOf(ws, as)
<1>1. \A a \in as : UpTo(vs, a.end) = UpTo(ws, a.end)
  BY CountsKept
<1> QED
  BY <1>1 DEF AckedOf

\* What a reader has read and will read keeps its place in the journal.
LEMMA ScanKept ==
  ASSUME NEW ws, NEW vs, NEW m, Extends(ws, vs, m),
         NEW rd, rd.after \in Nat, rd.after <= m,
         rd.until # None => rd.until \in Nat /\ rd.until <= m,
         Between(ws, rd.after) =>
           /\ rd.pos \in Nat /\ rd.pos <= m
           /\ \A j \in 1 .. Len(rd.out) : rd.out[j].at \in Nat /\ rd.out[j].at <= m
  PROVE  ScanOf(vs, rd) = ScanOf(ws, rd)
<1>1. Between(vs, rd.after) <=> Between(ws, rd.after)
  BY CountsKept
<1>2. CASE ~ Between(ws, rd.after)
  BY <1>1, <1>2 DEF ScanOf
<1>3. CASE Between(ws, rd.after)
  <2>1. UpTo(vs, rd.pos) = UpTo(ws, rd.pos)
    BY <1>3, CountsKept
  <2>2. rd.until # None => From(vs, rd.until) = From(ws, rd.until)
    BY CountsKept
  <2>3. \A j \in 1 .. Len(rd.out) : UpTo(vs, rd.out[j].at) = UpTo(ws, rd.out[j].at)
    BY <1>3, CountsKept
  <2> QED
    BY <1>1, <1>3, <2>1, <2>2, <2>3 DEF ScanOf
<1> QED
  BY <1>2, <1>3
-----------------------------------------------------------------------------
(* What the journal needs to know of a reader besides LogInv. *)

\* until lies in the file, and no more was yielded than the limit allows.
Limited ==
  \A r \in Readers :
    /\ reader[r].until # None => reader[r].until <= Len(file)
    /\ reader[r].limit # None => Len(reader[r].out) <= reader[r].limit

JournalInv == LogInv /\ Limited

LEMMA CursorsInFile ==
  ASSUME TypeInv, WriteInv, NEW c \in Cursors
  PROVE  c \in Nat /\ c <= Len(file)
<1>1. Len(file) \in Nat
  BY WrittenTyped
<1>2. CASE c = 0
  BY <1>1, <1>2
<1>3. ASSUME NEW a \in acked, c = a.cursor PROVE c \in Nat /\ c <= Len(file)
  <2>1. a.cursor \in Nat /\ a.end \in Nat /\ a.cursor <= a.end
    BY <1>3 DEF TypeInv, TypeOK, WriteInv, AckedLogged
  <2>2. \E i \in 1 .. Len(written) : written[i].end = a.end
    BY <1>3 DEF WriteInv, AckedLogged, Logged
  <2>3. a.end <= Len(file)
    BY <2>2, LinesOrdered DEF WriteInv
  <2> QED
    BY <1>1, <1>3, <2>1, <2>3
<1> QED
  BY <1>2, <1>3 DEF Cursors

LEMMA InitLimited ==
  ASSUME Init PROVE Limited
BY ReaderAssumption DEF Init, Limited, IdleReader

LEMMA NextLimited ==
  ASSUME ~ ShortWrites, ~ PowerCuts, JournalInv, TypeInv', [Next]_vars
  PROVE  Limited'
<1>t. /\ TypeInv /\ WriteInv /\ ReadInv /\ Limited
      /\ reader \in [Readers -> ReaderRecord] /\ reader' \in [Readers -> ReaderRecord]
  BY DEF JournalInv, LogInv, TypeInv, TypeOK
<1>g. Len(file) \in Nat /\ Len(file') \in Nat /\ Len(file) <= Len(file')
  BY <1>t, NextWriteInv DEF Grows, WriteInv, JournalInv, LogInv
<1>1. CASE UNCHANGED reader
  BY <1>t, <1>g, <1>1 DEF Limited, ReaderRecord
<1>2. ASSUME NEW r \in Readers, NEW new, reader' = [reader EXCEPT ![r] = new],
             new.until # None => new.until <= Len(file'),
             new.limit # None => Len(new.out) <= new.limit
      PROVE  Limited'
  BY <1>t, <1>g, <1>2 DEF Limited, ReaderRecord
<1>o. ASSUME NEW r \in Readers, NEW new, reader' = [reader EXCEPT ![r] = new],
             new.until = reader[r].until, new.limit = reader[r].limit, new.out = reader[r].out
      PROVE  Limited'
  <2>1. new.until # None => new.until <= Len(file')
    BY <1>t, <1>g, <1>o DEF Limited, ReaderRecord
  <2>2. new.limit # None => Len(new.out) <= new.limit
    BY <1>t, <1>o DEF Limited
  <2> QED
    BY <1>2, <1>o, <2>1, <2>2
<1>3. ASSUME NEW r \in Readers, NEW status, Finish(r, status) PROVE Limited'
  <2> DEFINE new == [reader[r] EXCEPT !.pc = "idle", !.status = status]
  <2>1. reader' = [reader EXCEPT ![r] = new]
    BY <1>3 DEF Finish
  <2>2. new.until = reader[r].until /\ new.limit = reader[r].limit /\ new.out = reader[r].out
    BY <1>t DEF ReaderRecord
  <2> HIDE DEF new
  <2> QED
    BY <1>o, <2>1, <2>2
<1>4. ASSUME NEW r \in Readers, ReaderStep(r) PROVE Limited'
  <2>1. ASSUME NEW api \in Apis, NEW after \in Cursors, NEW until \in Cursors \union {None},
               NEW limit \in Limits, NEW accepts \in Filters,
               StartRead(r, api, after, until, limit, accepts)
        PROVE  Limited'
    <3> DEFINE new == [pc |-> IF exists THEN "reading" ELSE "idle",
                       api |-> api, after |-> after, pos |-> after, until |-> until,
                       limit |-> limit, accepts |-> accepts, out |-> << >>,
                       status |-> IF exists THEN None ELSE "eof", goal |-> Len(file)]
    <3>1. until # None => until <= Len(file')
      BY <1>t, <1>g, CursorsInFile
    <3>2. limit # None => 0 <= limit
      BY ReaderAssumption
    <3>3. reader' = [reader EXCEPT ![r] = new]
      BY <2>1 DEF StartRead
    <3>4. new.until = until /\ new.limit = limit /\ Len(new.out) = 0
      OBVIOUS
    <3> HIDE DEF new
    <3> QED
      BY <1>2, <3>1, <3>2, <3>3, <3>4
  <2>2. ASSUME NEW e \in Events \union {Spliced}, NEW rejected, Take(r, e, rejected)
        PROVE  Limited'
    <3> DEFINE old == reader[r]
               out == IF rejected \/ LimitReached(r) THEN old.out
                      ELSE Append(old.out, [ev |-> e, at |-> old.pos])
               new == [old EXCEPT !.pos = LineEnd(old.pos), !.out = out,
                         !.pc = IF ~ rejected /\ LimitReached(r) THEN "idle" ELSE @,
                         !.status = IF ~ rejected /\ LimitReached(r) THEN "limit" ELSE @]
    <3>1. reader' = [reader EXCEPT ![r] = new]
      BY <2>2 DEF Take
    <3>2r. old \in ReaderRecord
      BY <1>t
    <3>2o. old.out \in Seq(Yielded) /\ old.limit \in Limits \union {None}
      BY <3>2r DEF ReaderRecord
    <3>2. /\ old \in ReaderRecord
          /\ old.out \in Seq(Yielded) /\ Len(old.out) \in Nat /\ old.limit \in Nat \union {None}
      BY <3>2r, <3>2o, ReaderAssumption, LenProperties
    <3>3. /\ old.until # None => old.until <= Len(file)
          /\ old.limit # None => Len(old.out) <= old.limit
      BY <1>t DEF Limited
    <3>3a. old.until # None => old.until \in Nat
      BY <3>2 DEF ReaderRecord
    <3>4. new.until = old.until /\ new.limit = old.limit /\ new.out = out
      BY <3>2 DEF ReaderRecord
    <3>5. old.limit # None => Len(out) <= old.limit
      <4>1. CASE rejected \/ LimitReached(r)
        BY <3>3, <4>1
      <4>2. CASE ~ (rejected \/ LimitReached(r))
        <5>1. [ev |-> e, at |-> old.pos] \in Yielded
          BY <3>2 DEF ReaderRecord, Yielded
        <5>2. Len(out) = Len(old.out) + 1
          BY <3>2, <4>2, <5>1, AppendProperties
        <5>3. old.limit # None => ~ (Len(old.out) >= old.limit)
          BY <4>2 DEF LimitReached
        <5> QED
          BY <3>2, <5>2, <5>3
      <4> QED
        BY <4>1, <4>2
    <3>6. old.until # None => old.until <= Len(file')
      BY <1>g, <3>3, <3>3a
    <3> HIDE DEF new, out
    <3> QED
      BY <1>2, <3>1, <3>4, <3>5, <3>6
  <2>3. ASSUME ReadBlank(r) PROVE Limited'
    <3> DEFINE new == [reader[r] EXCEPT !.pos = LineEnd(reader[r].pos)]
    <3>1. reader' = [reader EXCEPT ![r] = new]
      BY <2>3 DEF ReadBlank
    <3>2. new.until = reader[r].until /\ new.limit = reader[r].limit /\ new.out = reader[r].out
      BY <1>t DEF ReaderRecord
    <3> HIDE DEF new
    <3> QED
      BY <1>o, <3>1, <3>2
  <2> QED
    BY <1>3, <1>4, <2>1, <2>2, <2>3
    DEF ReaderStep, StopBefore, Eof, ReadEvent, ReadSpliced, ReadBroken
<1>5. CASE \E w \in Writers : WriterStep(w)
  BY <1>1, <1>5 DEF WriterStep, Refuse, Open, WritePart, WriteRest, Fsync, Abort
<1> QED
  BY <1>1, <1>4, <1>5 DEF Next, vars, PowerCut
-----------------------------------------------------------------------------
(* A step that keeps the log keeps the journal of whoever does not move. *)

LEMMA ReaderFacts ==
  ASSUME JournalInv, NEW r \in Readers
  PROVE  /\ reader[r] \in ReaderRecord
         /\ reader[r].after \in Nat /\ reader[r].after <= Len(file)
         /\ reader[r].until # None => reader[r].until \in Nat /\ reader[r].until <= Len(file)
         /\ Between(written, reader[r].after) =>
              /\ Faithful(written, reader[r])
              /\ reader[r].pos \in Nat /\ reader[r].pos <= Len(file)
              /\ \A j \in 1 .. Len(reader[r].out) :
                   reader[r].out[j].at \in Nat /\ reader[r].out[j].at < reader[r].pos
<1> DEFINE rd == reader[r]
<1>t. /\ TypeInv /\ Layout /\ ReadInv /\ Limited /\ rd \in ReaderRecord
      /\ rd.pos \in Nat /\ rd.after \in Nat /\ rd.until \in Nat \union {None}
  BY DEF JournalInv, LogInv, WriteInv, TypeInv, TypeOK, ReaderRecord
<1>1. rd.after <= Len(file) /\ (rd.until # None => rd.until <= Len(file))
  BY <1>t DEF ReadInv, Bounded, Limited
<1>2. ASSUME Between(written, rd.after)
      PROVE  /\ Faithful(written, rd) /\ rd.pos <= Len(file)
             /\ \A j \in 1 .. Len(rd.out) : rd.out[j].at \in Nat /\ rd.out[j].at < rd.pos
  <2>1. Faithful(written, rd)
    BY <1>t, <1>2 DEF ReadInv
  <2>2. Between(written, rd.pos)
    BY <2>1 DEF Faithful
  <2>3. /\ Len(file) \in Nat
        /\ \A i \in 1 .. Len(written) :
             /\ written[i].end \in Nat /\ written[i].end <= Len(file)
             /\ Start(written[i]) \in Nat /\ Start(written[i]) < written[i].end
    BY <1>t, LinesOrdered
  <2>4. rd.pos <= Len(file)
    BY <2>2, <2>3 DEF Between
  <2>5. \A j \in 1 .. Len(rd.out) :
          \E i \in 1 .. Len(written) :
            Start(written[i]) = rd.out[j].at /\ written[i].end <= rd.pos
    BY <2>1 DEF Faithful, Yields
  <2>6. ASSUME NEW j \in 1 .. Len(rd.out) PROVE rd.out[j].at \in Nat /\ rd.out[j].at < rd.pos
    <3>1. PICK i \in 1 .. Len(written) :
            Start(written[i]) = rd.out[j].at /\ written[i].end <= rd.pos
      BY <2>5
    <3>2. /\ written[i].end \in Nat /\ Start(written[i]) \in Nat
          /\ Start(written[i]) < written[i].end
      BY <2>3
    <3>3. rd.pos \in Nat
      BY <1>t
    <3> HIDE DEF rd
    <3> QED
      BY <3>1, <3>2, <3>3
  <2> QED
    BY <2>1, <2>4, <2>6
<1> QED
  BY <1>t, <1>1, <1>2

LEMMA JournalKept ==
  ASSUME JournalInv, TypeInv', Grows
  PROVE  /\ \A w \in Writers : CallOf(written', writer[w]) = CallOf(written, writer[w])
         /\ AckedOf(written', acked) = AckedOf(written, acked)
         /\ \A r \in Readers : ScanOf(written', reader[r]) = ScanOf(written, reader[r])
<1>t. TypeInv /\ Layout /\ WholeCalls /\ AckedLogged
  BY DEF JournalInv, LogInv, WriteInv
<1>1. Extends(written, written', Len(file))
  BY <1>t, GrowsExtends
<1>2. Len(file) \in Nat /\ \A i \in 1 .. Len(written) : written[i].end \in Nat /\ written[i].end <= Len(file)
  BY <1>t, LinesOrdered
<1>3. \A ev, end : Logged(ev, end) => end \in Nat /\ end <= Len(file)
  BY <1>2 DEF Logged
<1>4. ASSUME NEW w \in Writers PROVE CallOf(written', writer[w]) = CallOf(written, writer[w])
  <2>1. writer[w].pc = "syncing" => writer[w].end \in Nat /\ writer[w].end <= Len(file)
    BY <1>t, <1>3 DEF WholeCalls
  <2> QED
    BY <1>1, <2>1, CallKept
<1>5. AckedOf(written', acked) = AckedOf(written, acked)
  <2>1. \A a \in acked : a.end \in Nat /\ a.end <= Len(file)
    BY <1>t, <1>3 DEF AckedLogged
  <2> QED
    BY <1>1, <2>1, AckedKept
<1>6. ASSUME NEW r \in Readers PROVE ScanOf(written', reader[r]) = ScanOf(written, reader[r])
  <2>1. /\ reader[r].after \in Nat /\ reader[r].after <= Len(file)
        /\ reader[r].until # None => reader[r].until \in Nat /\ reader[r].until <= Len(file)
        /\ Between(written, reader[r].after) =>
             /\ reader[r].pos \in Nat /\ reader[r].pos <= Len(file)
             /\ \A j \in 1 .. Len(reader[r].out) :
                  reader[r].out[j].at \in Nat /\ reader[r].out[j].at <= Len(file)
    BY <1>2, ReaderFacts
  <2> QED
    BY <1>1, <2>1, ScanKept
<1> QED
  BY <1>4, <1>5, <1>6
-----------------------------------------------------------------------------
(* The steps of the writers. *)

\* A step that does not write leaves the events, and the calls and iterations
\* that it does not touch, as they are.
LEMMA JournalQuiet ==
  ASSUME JournalInv, TypeInv', UNCHANGED <<file, written>>
  PROVE  /\ JLines' = JLines
         /\ UNCHANGED acked => JAcked' = JAcked
         /\ UNCHANGED reader => JScan' = JScan
         /\ \A w \in Writers : \A new :
              writer' = [writer EXCEPT ![w] = new] =>
                JCall' = [JCall EXCEPT ![w] = CallOf(written, new)]
         /\ UNCHANGED writer => JCall' = JCall
<1>t. TypeInv /\ Layout /\ writer \in [Writers -> WriterRecord]
  BY DEF JournalInv, LogInv, WriteInv, TypeInv, TypeOK
<1>1. JLines' = JLines
  BY DEF JLines
<1>2. UNCHANGED acked => JAcked' = JAcked
  BY JournalState, NextJournalState
<1>3. UNCHANGED reader => JScan' = JScan
  BY JournalState, NextJournalState
<1>4. ASSUME NEW w \in Writers, NEW new, writer' = [writer EXCEPT ![w] = new]
      PROVE  JCall' = [JCall EXCEPT ![w] = CallOf(written, new)]
  BY <1>t, <1>4, JournalState, NextJournalState
<1>5. UNCHANGED writer => JCall' = JCall
  BY JournalState, NextJournalState
<1> QED
  BY <1>1, <1>2, <1>3, <1>4, <1>5

LEMMA OpenAsks ==
  ASSUME JournalInv, TypeInv', NEW w \in Writers, NEW e \in Events, NEW fsync, Open(w, e, fsync)
  PROVE  J!Ask(w, e)
<1> DEFINE new == [pc |-> "flushing", ev |-> e, fsync |-> fsync,
                   cursor |-> Len(file) + Size[e], left |-> Size[e], end |-> 0]
<1>1. /\ writer' = [writer EXCEPT ![w] = new] /\ writer[w].pc = "idle"
      /\ UNCHANGED <<file, written>> /\ UNCHANGED acked /\ UNCHANGED reader
  BY DEF Open
<1>2. CallOf(written, new) = [ev |-> e, at |-> 0]
  BY DEF CallOf
<1>3. JCall[w] = None
  BY <1>1, JournalState DEF CallOf
<1> HIDE DEF new
<1>4. JCall' = [JCall EXCEPT ![w] = [ev |-> e, at |-> 0]]
  BY <1>1, <1>2, JournalQuiet
<1> QED
  BY <1>1, <1>3, <1>4, JournalQuiet DEF J!Ask

\* A call under way is one for the journal too.
LEMMA UnderWay ==
  ASSUME JournalInv, NEW w \in Writers, writer[w].pc # "idle"
  PROVE  /\ writer[w].ev \in Events /\ JCall[w] # None
         /\ JCall[w].ev = writer[w].ev
         /\ JCall[w].at = IF writer[w].pc = "syncing" THEN UpTo(written, writer[w].end) ELSE 0
<1>t. /\ TypeInv /\ Layout /\ WholeCalls /\ CallsTyped
  BY DEF JournalInv, LogInv, WriteInv, TypeInv
<1>1. writer[w].ev \in Events
  BY <1>t DEF CallsTyped
<1>2. JCall[w] = [ev |-> writer[w].ev,
                  at |-> IF writer[w].pc = "syncing" THEN UpTo(written, writer[w].end) ELSE 0]
  BY JournalState DEF CallOf
<1>3. writer[w].pc = "syncing" => UpTo(written, writer[w].end) \in Nat
  <2>1. ASSUME writer[w].pc = "syncing" PROVE \E k \in 0 .. Len(written) : UpTo(written, writer[w].end) = k
    <3>1. Between(written, writer[w].end)
      BY <1>t, <2>1 DEF WholeCalls, Logged, Between
    <3> QED
      BY <1>t, <3>1, BetweenIndex
  <2> QED
    BY <2>1
<1>4. JCall[w] \in [ev : Events, at : Nat]
  BY <1>1, <1>2, <1>3
<1> QED
  BY <1>1, <1>2, <1>4, CallAssumption

LEMMA AbortGivesUp ==
  ASSUME JournalInv, TypeInv', NEW w \in Writers, Abort(w)
  PROVE  J!GiveUp(w)
<1>1. /\ writer' = [writer EXCEPT ![w] = IdleWriter] /\ writer[w].pc # "idle"
      /\ UNCHANGED <<file, written>> /\ UNCHANGED acked /\ UNCHANGED reader
  BY DEF Abort
<1>2. CallOf(written, IdleWriter) = None
  BY DEF CallOf, IdleWriter
<1> QED
  BY <1>1, <1>2, UnderWay, JournalQuiet DEF J!GiveUp

LEMMA AckedAdd ==
  ASSUME NEW ws, NEW as, NEW a
  PROVE  AckedOf(ws, as \union {a}) =
           AckedOf(ws, as) \union {[ev |-> a.ev, at |-> UpTo(ws, a.end)]}
BY DEF AckedOf

LEMMA FsyncReturns ==
  ASSUME JournalInv, TypeInv', NEW w \in Writers, Fsync(w)
  PROVE  J!Return(w)
<1>t. TypeInv /\ Layout /\ WholeCalls
  BY DEF JournalInv, LogInv, WriteInv
<1> DEFINE new == [ev |-> writer[w].ev, end |-> writer[w].end,
                   cursor |-> writer[w].cursor, durable |-> TRUE]
<1>1. /\ writer' = [writer EXCEPT ![w] = IdleWriter] /\ writer[w].pc = "syncing"
      /\ acked' = acked \union {new}
      /\ UNCHANGED <<file, written>> /\ UNCHANGED reader
  BY DEF Fsync, Ack
<1>2. CallOf(written, IdleWriter) = None
  BY DEF CallOf, IdleWriter
<1>3. /\ JCall[w] # None
      /\ JCall[w] = [ev |-> writer[w].ev, at |-> UpTo(written, writer[w].end)]
  BY <1>1, UnderWay, JournalState DEF CallOf
<1>4. UpTo(written, writer[w].end) # 0
  <2>1. PICK i \in 1 .. Len(written) : written[i].end = writer[w].end
    BY <1>t, <1>1 DEF WholeCalls, Logged
  <2>2. i \in 0 .. Len(written) /\ EndOf(written, i) = written[i].end /\ i # 0
    BY <1>t, WrittenTyped DEF EndOf
  <2> QED
    BY <1>t, <2>1, <2>2, UpToEnd
<1>5. JAcked' = JAcked \union {JCall[w]}
  <2>1. AckedOf(written, acked') = AckedOf(written, acked)
                                     \union {[ev |-> writer[w].ev, at |-> UpTo(written, writer[w].end)]}
    <3>1. acked' = acked \union {new} /\ new.ev = writer[w].ev /\ new.end = writer[w].end
      BY <1>1
    <3> HIDE DEF new
    <3> QED
      BY <3>1, AckedAdd
  <2> QED
    BY <1>1, <1>3, <2>1, JournalState, NextJournalState
<1>6. JCall' = [JCall EXCEPT ![w] = None]
  BY <1>1, <1>2, JournalQuiet
<1>7. JCall[w].at # 0
  BY <1>3, <1>4
<1>8. JLines' = JLines /\ JScan' = JScan
  BY <1>1, JournalQuiet
<1> QED
  BY <1>3, <1>5, <1>6, <1>7, <1>8 DEF J!Return

\* The write appends the event behind all others.
LEMMA WriteAppends ==
  ASSUME JournalInv, TypeInv', NEW w \in Writers, WriteRest(w)
  PROVE  /\ JLines' = Append(JLines, writer[w].ev)
         /\ Len(JLines') = Len(written) + 1
         /\ UpTo(written', Len(file) + writer[w].left) = Len(written) + 1
         /\ Grows
<1>t. TypeInv /\ WriteInv /\ Layout /\ Len(written) \in Nat /\ Len(file) \in Nat
  BY WrittenTyped DEF JournalInv, LogInv, WriteInv
<1> DEFINE e == writer[w].ev
           n == Len(written)
<1>1. /\ e \in Events /\ writer[w].left = Size[e]
      /\ Len(file') = Len(file) + Size[e] /\ Len(written') = n + 1
      /\ \A i \in 1 .. n : written'[i] = written[i]
      /\ written'[n + 1].ev = e /\ written'[n + 1].end = Len(file) + Size[e]
  BY <1>t, WholeWrite
<1>2. Layout' /\ Grows
  BY <1>t, NextLayout
<1>3. JLines \in Seq(Events) /\ Len(JLines) = n
  BY <1>t, WrittenTyped DEF JLines
<1>4. JLines' = [i \in 1 .. n + 1 |-> IF i = n + 1 THEN e ELSE written[i].ev]
  BY <1>t, <1>1 DEF JLines
<1>5. Append(JLines, e) = [i \in 1 .. n + 1 |-> IF i = n + 1 THEN e ELSE written[i].ev]
  <2>1. Append(JLines, e) \in Seq(Events)
    BY <1>1, <1>3, AppendProperties
  <2>2. Len(Append(JLines, e)) = n + 1
    BY <1>1, <1>3, AppendProperties
  <2>3. Append(JLines, e) = [i \in 1 .. n + 1 |-> Append(JLines, e)[i]]
    BY <2>1, <2>2
  <2>4. \A i \in 1 .. n + 1 : Append(JLines, e)[i] = IF i = n + 1 THEN e ELSE written[i].ev
    <3>1. Append(JLines, e)[n + 1] = e
      BY <1>1, <1>3, AppendProperties
    <3>2. \A i \in 1 .. n : Append(JLines, e)[i] = written[i].ev
      BY <1>1, <1>3, AppendProperties DEF JLines
    <3>3. \A i \in 1 .. n + 1 : i = n + 1 \/ i \in 1 .. n
      BY <1>t
    <3>4. \A i \in 1 .. n : i # n + 1
      BY <1>t
    <3> QED
      BY <3>1, <3>2, <3>3, <3>4, Zenon
  <2> QED
    BY <2>3, <2>4
<1>6. UpTo(written', Len(file) + Size[e]) = n + 1
  <2>1. \A i \in 1 .. n + 1 : written'[i].end <= Len(file) + Size[e]
    <3>1. \A i \in 1 .. n : written[i].end \in Nat /\ written[i].end <= Len(file)
      BY <1>t, LinesOrdered
    <3>2. Size[e] \in Nat
      BY <1>1, SizeAssumption
    <3> QED
      BY <1>t, <1>1, <3>1, <3>2
  <2>2. {i \in 1 .. Len(written') : written'[i].end <= Len(file) + Size[e]} = 1 .. n + 1
    BY <1>1, <2>1
  <2>3. Cardinality(1 .. n + 1) = n + 1
    <3>1. \A k \in Nat : Cardinality(1 .. k) = k
      BY FS_Interval
    <3> QED
      BY <1>t, <3>1
  <2> QED
    BY <2>2, <2>3 DEF UpTo
<1> QED
  BY <1>1, <1>2, <1>4, <1>5, <1>6, <1>3

LEMMA WriteCommits ==
  ASSUME JournalInv, TypeInv', NEW w \in Writers, WriteRest(w)
  PROVE  J!Commit(w)
<1> DEFINE e == writer[w].ev
           end == Len(file) + writer[w].left
           n == Len(written)
<1>t. writer \in [Writers -> WriterRecord] /\ writer[w] \in WriterRecord
  BY DEF JournalInv, LogInv, TypeInv, TypeOK
<1>1. writer[w].pc = "flushing" /\ UNCHANGED reader
  BY DEF WriteRest
<1>2. /\ JLines' = Append(JLines, e) /\ Len(JLines') = n + 1
      /\ UpTo(written', end) = n + 1 /\ Grows
  BY WriteAppends
<1>3. JCall[w] # None /\ JCall[w] = [ev |-> e, at |-> 0]
  BY <1>1, UnderWay, JournalState DEF CallOf
<1>3d. [JCall[w] EXCEPT !.at = Len(JLines')] = [ev |-> e, at |-> n + 1]
  BY <1>2, <1>3
<1>3e. JCall[w].at = 0 /\ JCall[w].ev = e
  BY <1>3
<1>4. JScan' = JScan
  BY <1>1, <1>2, JournalKept, JournalState, NextJournalState
<1>5. ASSUME NEW new, writer' = [writer EXCEPT ![w] = new]
      PROVE  JCall' = [JCall EXCEPT ![w] = CallOf(written', new)]
  <2>1. \A v \in Writers \ {w} : CallOf(written', writer'[v]) = CallOf(written, writer[v])
    BY <1>t, <1>2, <1>5, JournalKept
  <2>2. writer'[w] = new
    BY <1>t, <1>5
  <2> QED
    BY <2>1, <2>2, JournalState, NextJournalState
<1>6. CASE writer[w].fsync
  <2> DEFINE new == [writer[w] EXCEPT !.pc = "syncing", !.left = 0, !.end = end]
  <2>1. writer' = [writer EXCEPT ![w] = new] /\ UNCHANGED acked
    BY <1>6 DEF WriteRest
  <2>2. CallOf(written', new) = [ev |-> e, at |-> n + 1]
    BY <1>t, <1>2 DEF CallOf, WriterRecord
  <2> HIDE DEF new
  <2>3. JCall' = [JCall EXCEPT ![w] = [ev |-> e, at |-> n + 1]]
    BY <1>5, <2>1, <2>2
  <2>4. JAcked' = JAcked
    BY <1>2, <2>1, JournalKept, JournalState, NextJournalState
  <2> QED
    BY <1>2, <1>3, <1>3d, <1>3e, <1>4, <2>3, <2>4 DEF J!Commit
<1>7. CASE ~ writer[w].fsync
  <2> DEFINE new == [ev |-> e, end |-> end, cursor |-> writer[w].cursor, durable |-> FALSE]
  <2>1. writer' = [writer EXCEPT ![w] = IdleWriter] /\ acked' = acked \union {new}
    BY <1>7 DEF WriteRest, Ack
  <2>2. JCall' = [JCall EXCEPT ![w] = None]
    <3>1. CallOf(written', IdleWriter) = None
      BY DEF CallOf, IdleWriter
    <3> QED
      BY <1>5, <2>1, <3>1
  <2>3. JAcked' = JAcked \union {[ev |-> e, at |-> n + 1]}
    <3>1. new.ev = e /\ new.end = end
      OBVIOUS
    <3> HIDE DEF new
    <3>2. AckedOf(written', acked') = AckedOf(written, acked) \union {[ev |-> e, at |-> n + 1]}
      BY <1>2, <2>1, <3>1, AckedAdd, JournalKept
    <3> QED
      BY <3>2, JournalState, NextJournalState
  <2> QED
    BY <1>2, <1>3, <1>3d, <1>3e, <1>4, <2>2, <2>3 DEF J!Commit
<1> QED
  BY <1>6, <1>7
-----------------------------------------------------------------------------
(* The steps of the readers. *)

\* A reader's step changes nothing of the journal but its own iteration.
LEMMA JournalOfReader ==
  ASSUME JournalInv, UNCHANGED <<file, written, writer, acked>>,
         NEW r \in Readers, NEW new, reader' = [reader EXCEPT ![r] = new]
  PROVE  /\ UNCHANGED <<JLines, JCall, JAcked>>
         /\ JScan[r] = ScanOf(written, reader[r])
         /\ JScan' = [JScan EXCEPT ![r] = ScanOf(written, new)]
         /\ ScanOf(written, new) = JScan[r] => JScan' = JScan
<1>1. reader \in [Readers -> ReaderRecord]
  BY DEF JournalInv, LogInv, TypeInv, TypeOK
<1>2. JLines' = JLines
  BY DEF JLines
<1>3. JCall' = JCall /\ JAcked' = JAcked
  BY JournalState, NextJournalState
<1>4. JScan' = [JScan EXCEPT ![r] = ScanOf(written, new)]
  BY <1>1, JournalState, NextJournalState
<1> QED
  BY <1>2, <1>3, <1>4, JournalState

\* Of a reader without a line's end to start from the journal knows nothing.
LEMMA Unaligned ==
  ASSUME JournalInv, UNCHANGED <<file, written, writer, acked>>,
         NEW r \in Readers, NEW new, reader' = [reader EXCEPT ![r] = new],
         new.after = reader[r].after, ~ Between(written, reader[r].after)
  PROVE  UNCHANGED <<JLines, JCall, JAcked, JScan>>
<1>1. ScanOf(written, new) = ScanOf(written, reader[r])
  BY DEF ScanOf
<1> QED
  BY <1>1, JournalOfReader

\* Where an iteration under way is in the journal.
LEMMA ScanReading ==
  ASSUME JournalInv, NEW r \in Readers, reader[r].pc = "reading",
         Between(written, reader[r].after)
  PROVE  LET rd == reader[r]
             s == JScan[r]
         IN  \E k \in 0 .. Len(written) :
               /\ rd.pos = EndOf(written, k) /\ UpTo(written, rd.pos) = k /\ s.next = k
               /\ s.pc = "reading" /\ s.accepts = rd.accepts /\ s.limit = rd.limit
               /\ Len(s.out) = Len(rd.out)
               /\ J!BeforeUntil(r) <=> (rd.until # None => rd.pos < rd.until)
<1> DEFINE rd == reader[r]
           s == JScan[r]
<1>t. TypeInv /\ Layout /\ rd \in ReaderRecord /\ Len(rd.out) \in Nat
  BY DEF JournalInv, LogInv, WriteInv, TypeInv, TypeOK, ReaderRecord
<1>1. Between(written, rd.pos)
  BY ReaderFacts DEF Faithful
<1>2. PICK k \in 0 .. Len(written) : rd.pos = EndOf(written, k) /\ UpTo(written, rd.pos) = k
  BY <1>t, <1>1, BetweenIndex
<1>3. s = ScanOf(written, rd)
  BY JournalState
<1>4. /\ s.next = k /\ s.pc = "reading" /\ s.accepts = rd.accepts /\ s.limit = rd.limit
      /\ s.until = IF rd.until = None THEN None ELSE From(written, rd.until)
      /\ Len(s.out) = Len(rd.out)
  BY <1>t, <1>2, <1>3 DEF ScanOf
<1>5. J!BeforeUntil(r) <=> (rd.until # None => rd.pos < rd.until)
  <2>1. CASE rd.until = None
    BY <1>4, <2>1 DEF J!BeforeUntil
  <2>2. CASE rd.until # None
    <3>1. rd.until \in Nat /\ rd.until <= Len(file)
      BY <2>2, ReaderFacts
    <3>2. From(written, rd.until) \in Nat /\ (k < From(written, rd.until) <=> rd.pos < rd.until)
      BY <1>t, <1>2, <3>1, FromEnd, WrittenTyped
    <3>3. From(written, rd.until) # None
      BY <3>2, ReaderAssumption
    <3> QED
      BY <1>4, <2>2, <3>2, <3>3 DEF J!BeforeUntil
  <2> QED
    BY <2>1, <2>2
<1> QED
  BY <1>2, <1>4, <1>5

\* An iteration field by field, and what a step makes of it.
Scan(pc, accepts, limit, until, next, out, status) ==
  [pc |-> pc, accepts |-> accepts, limit |-> limit, until |-> until,
   next |-> next, out |-> out, status |-> status]

\* J!End and J!Advance on the variable scan.
ScanWith(r, new) == [JScan EXCEPT ![r] = new]

ScanEnded(r, status) == [JScan EXCEPT ![r].pc = "idle", ![r].next = 0, ![r].status = status]

ScanAdvanced(r, n, out) == [JScan EXCEPT ![r].next = n, ![r].out = out]

LEMMA EndedScan ==
  ASSUME NEW pc, NEW accepts, NEW limit, NEW until, NEW next, NEW out, NEW old, NEW status,
         NEW r \in Readers,
         JScan[r] = Scan(pc, accepts, limit, until, next, out, old)
  PROVE  ScanEnded(r, status) = ScanWith(r, Scan("idle", accepts, limit, until, 0, out, status))
<1> DEFINE s0 == Scan(pc, accepts, limit, until, next, out, old)
           s1 == Scan("idle", accepts, limit, until, next, out, old)
           s2 == Scan("idle", accepts, limit, until, 0, out, old)
           s3 == Scan("idle", accepts, limit, until, 0, out, status)
           scan1 == [JScan EXCEPT ![r] = s1]
           scan2 == [JScan EXCEPT ![r] = s2]
<1>0. JScan = [q \in Readers |-> JScan[q]]
  BY JournalState
<1>1. [s0 EXCEPT !.pc = "idle"] = s1
  BY DEF Scan
<1>2. [s1 EXCEPT !.next = 0] = s2
  BY DEF Scan
<1>3. [s2 EXCEPT !.status = status] = s3
  BY DEF Scan
<1> HIDE DEF s1, s2, s3
<1>4. [JScan EXCEPT ![r].pc = "idle"] = scan1
  BY <1>0, <1>1
<1>5. scan1[r] = s1 /\ scan2[r] = s2
  BY <1>0
<1>6. [scan1 EXCEPT ![r].next = 0] = [scan1 EXCEPT ![r] = s2]
  BY <1>2, <1>5
<1>7. [scan1 EXCEPT ![r] = s2] = scan2
  OBVIOUS
<1>8. [scan2 EXCEPT ![r].status = status] = [scan2 EXCEPT ![r] = s3]
  BY <1>3, <1>5
<1>9. [scan2 EXCEPT ![r] = s3] = [JScan EXCEPT ![r] = s3]
  OBVIOUS
<1>10. [[[JScan EXCEPT ![r].pc = "idle"] EXCEPT ![r].next = 0] EXCEPT ![r].status = status] =
       [JScan EXCEPT ![r] = s3]
  BY <1>4, <1>6, <1>7, <1>8, <1>9
<1>11. [JScan EXCEPT ![r].pc = "idle", ![r].next = 0, ![r].status = status] =
       [[[JScan EXCEPT ![r].pc = "idle"] EXCEPT ![r].next = 0] EXCEPT ![r].status = status]
  OBVIOUS
<1> QED
  BY <1>10, <1>11 DEF s3, ScanEnded, ScanWith

LEMMA AdvancedScan ==
  ASSUME NEW pc, NEW accepts, NEW limit, NEW until, NEW next, NEW out, NEW status,
         NEW n, NEW all, NEW r \in Readers,
         JScan[r] = Scan(pc, accepts, limit, until, next, out, status)
  PROVE  ScanAdvanced(r, n, all) = ScanWith(r, Scan(pc, accepts, limit, until, n, all, status))
<1> DEFINE s0 == Scan(pc, accepts, limit, until, next, out, status)
           s1 == Scan(pc, accepts, limit, until, n, out, status)
           s2 == Scan(pc, accepts, limit, until, n, all, status)
           scan1 == [JScan EXCEPT ![r] = s1]
<1>0. JScan = [q \in Readers |-> JScan[q]]
  BY JournalState
<1>1. [s0 EXCEPT !.next = n] = s1
  BY DEF Scan
<1>2. [s1 EXCEPT !.out = all] = s2
  BY DEF Scan
<1> HIDE DEF s1, s2
<1>3. [JScan EXCEPT ![r].next = n] = scan1
  BY <1>0, <1>1
<1>4. scan1[r] = s1
  BY <1>0
<1>5. [scan1 EXCEPT ![r].out = all] = [scan1 EXCEPT ![r] = s2]
  BY <1>2, <1>4
<1>6. [scan1 EXCEPT ![r] = s2] = [JScan EXCEPT ![r] = s2]
  OBVIOUS
<1>7. [[JScan EXCEPT ![r].next = n] EXCEPT ![r].out = all] = [JScan EXCEPT ![r] = s2]
  BY <1>3, <1>5, <1>6
<1>8. [JScan EXCEPT ![r].next = n, ![r].out = all] =
      [[JScan EXCEPT ![r].next = n] EXCEPT ![r].out = all]
  OBVIOUS
<1> QED
  BY <1>7, <1>8 DEF s2, ScanAdvanced, ScanWith

\* rd's iteration is over; where it stopped is of no interest to the journal.
Over(rd, new, status) ==
  /\ new.pc = "idle" /\ new.status = status /\ new.after = rd.after /\ new.out = rd.out
  /\ new.accepts = rd.accepts /\ new.limit = rd.limit /\ new.until = rd.until

LEMMA FinishOver ==
  ASSUME JournalInv, NEW r \in Readers, NEW status, Finish(r, status)
  PROVE  \E new : reader' = [reader EXCEPT ![r] = new] /\ Over(reader[r], new, status)
<1> DEFINE new == [reader[r] EXCEPT !.pc = "idle", !.status = status]
<1>1. reader[r] \in ReaderRecord
  BY DEF JournalInv, LogInv, TypeInv, TypeOK
<1>2. Over(reader[r], new, status)
  BY <1>1 DEF Over, ReaderRecord
<1>3. reader' = [reader EXCEPT ![r] = new]
  BY DEF Finish
<1> HIDE DEF new
<1> QED
  BY <1>2, <1>3

\* The end of an iteration that started at a line's end.
LEMMA OverEnds ==
  ASSUME JournalInv, UNCHANGED <<file, written, writer, acked>>,
         NEW r \in Readers, NEW status, NEW new,
         reader' = [reader EXCEPT ![r] = new], Over(reader[r], new, status),
         Between(written, reader[r].after)
  PROVE  UNCHANGED <<JLines, JCall, JAcked>> /\ JScan' = ScanEnded(r, status)
<1> DEFINE rd == reader[r]
           until == IF rd.until = None THEN None ELSE From(written, rd.until)
           out == [j \in 1 .. Len(rd.out) |-> UpTo(written, rd.out[j].at) + 1]
           next == IF rd.pc = "idle" THEN 0 ELSE UpTo(written, rd.pos)
           ended == Scan("idle", rd.accepts, rd.limit, until, 0, out, status)
<1>1. /\ JScan = [q \in Readers |-> JScan[q]]
      /\ JScan[r] = Scan(rd.pc, rd.accepts, rd.limit, until, next, out, rd.status)
  BY JournalState DEF ScanOf, Scan
<1>2. ScanOf(written, new) = ended
  BY DEF Over, ScanOf, Scan
<1> HIDE DEF until, out, next, ended
<1>3. UNCHANGED <<JLines, JCall, JAcked>> /\ JScan' = [JScan EXCEPT ![r] = ended]
  BY <1>2, JournalOfReader
<1>4. ScanEnded(r, status) = ScanWith(r, ended)
  BY <1>1, EndedScan DEF ended
<1> QED
  BY <1>3, <1>4 DEF ScanWith

\* An iteration ends where the journal lets it end.
LEMMA EndsLikeJournal ==
  ASSUME JournalInv, UNCHANGED <<file, written, writer, acked>>,
         NEW r \in Readers, NEW status, NEW new, reader[r].pc = "reading",
         reader' = [reader EXCEPT ![r] = new], Over(reader[r], new, status),
         Between(written, reader[r].after),
         \/ status = "limit" /\ LimitReached(r)
         \/ status = "until" /\ reader[r].until # None /\ reader[r].pos >= reader[r].until
         \/ /\ status = "eof" /\ reader[r].pos >= Len(file)
            /\ reader[r].until # None => reader[r].pos < reader[r].until
  PROVE  J!End(r, status)
<1> DEFINE rd == reader[r]
           s == JScan[r]
<1>t. TypeInv /\ Layout /\ Limited /\ rd \in ReaderRecord
  BY DEF JournalInv, LogInv, WriteInv, TypeInv, TypeOK
<1>1. PICK k \in 0 .. Len(written) :
        /\ rd.pos = EndOf(written, k) /\ s.next = k
        /\ s.pc = "reading" /\ s.limit = rd.limit /\ Len(s.out) = Len(rd.out)
        /\ J!BeforeUntil(r) <=> (rd.until # None => rd.pos < rd.until)
  BY ScanReading
<1>2. UNCHANGED <<JLines, JCall, JAcked>> /\ JScan' = ScanEnded(r, status)
  BY OverEnds
<1>3. CASE status = "limit"
  <2>1. rd.limit # None /\ Len(rd.out) >= rd.limit
    BY <1>3 DEF LimitReached
  <2>2. rd.limit \in Nat /\ Len(rd.out) \in Nat
    BY <1>t, <2>1, ReaderAssumption, LenProperties DEF ReaderRecord
  <2>3. Len(rd.out) <= rd.limit
    BY <1>t, <2>1 DEF Limited
  <2>4. s.limit # None /\ Len(s.out) = s.limit
    BY <1>1, <2>1, <2>2, <2>3
  <2> QED
    BY <1>1, <1>2, <1>3, <2>4 DEF J!End, ScanEnded
<1>4. CASE status = "until"
  <2>1. rd.until # None /\ rd.pos >= rd.until
    BY <1>4
  <2>2. rd.until \in Nat /\ rd.pos \in Nat
    BY <2>1, ReaderFacts
  <2>3. ~ J!BeforeUntil(r)
    BY <1>1, <2>1, <2>2
  <2> QED
    BY <1>1, <1>2, <1>4, <2>3 DEF J!End, ScanEnded
<1>5. CASE status = "eof"
  <2>1. rd.pos >= Len(file) /\ J!BeforeUntil(r)
    BY <1>1, <1>5
  <2>2. k = Len(written)
    <3> SUFFICES ASSUME k # Len(written) PROVE FALSE
      OBVIOUS
    <3>1. /\ Len(written) \in Nat /\ Len(file) \in Nat
          /\ \A i \in 1 .. Len(written) :
               /\ written[i].end \in Nat /\ Start(written[i]) \in Nat
               /\ Start(written[i]) = EndOf(written, i - 1)
               /\ Start(written[i]) < written[i].end /\ written[i].end <= Len(file)
      BY <1>t, LinesOrdered
    <3>2. k + 1 \in 1 .. Len(written) /\ (k + 1) - 1 = k
      BY <3>1
    <3>3. Start(written[k + 1]) = rd.pos
      BY <1>1, <3>1, <3>2
    <3> QED
      BY <2>1, <3>1, <3>2, <3>3
  <2>3. Len(JLines) = Len(written)
    BY <1>t, WrittenTyped DEF JLines
  <2>4. s.next = Len(JLines)
    BY <1>1, <2>2, <2>3
  <2> QED
    BY <1>1, <1>2, <1>5, <2>1, <2>4 DEF J!End, ScanEnded
<1> QED
  BY <1>3, <1>4, <1>5

\* Which events of the journal a reader has yielded.
Places(ws, out) == [j \in 1 .. Len(out) |-> UpTo(ws, out[j].at) + 1]

LEMMA PlacesAppend ==
  ASSUME NEW ws, NEW out \in Seq(Yielded), NEW y \in Yielded
  PROVE  Places(ws, Append(out, y)) = Append(Places(ws, out), UpTo(ws, y.at) + 1)
<1> DEFINE T == {UpTo(ws, z.at) + 1 : z \in Yielded}
           n == Len(out)
           old == Places(ws, out)
           all == Append(old, UpTo(ws, y.at) + 1)
<1>1. /\ n \in Nat /\ Len(Append(out, y)) = n + 1 /\ Append(out, y)[n + 1] = y
      /\ \A j \in 1 .. n : Append(out, y)[j] = out[j] /\ out[j] \in Yielded
  BY AppendProperties, LenProperties
<1>2. old \in Seq(T) /\ Len(old) = n /\ UpTo(ws, y.at) + 1 \in T
  BY <1>1 DEF Places
<1> HIDE DEF T, old
<1>3. all \in Seq(T) /\ Len(all) = n + 1
  BY <1>2, AppendProperties
<1>4. all = [j \in 1 .. n + 1 |-> all[j]]
  BY <1>3
<1>5. all[n + 1] = UpTo(ws, y.at) + 1 /\ \A j \in 1 .. n : all[j] = old[j]
  BY <1>2, AppendProperties
<1>6. \A j \in 1 .. n : old[j] = UpTo(ws, out[j].at) + 1
  BY DEF old, Places
<1> HIDE DEF all
<1>7. \A j \in 1 .. n + 1 : all[j] = UpTo(ws, Append(out, y)[j].at) + 1
  <2>1. \A j \in 1 .. n + 1 : j = n + 1 \/ j \in 1 .. n
    BY <1>1
  <2> QED
    BY <1>1, <1>5, <1>6, <2>1
<1> QED
  BY <1>1, <1>4, <1>7 DEF Places, all, old

\* The reader is behind the line it read, and the journal behind its event.
LEMMA ReadAdvances ==
  ASSUME JournalInv, NEW r \in Readers, NEW e \in Events, ReadEvent(r, e),
         Between(written, reader[r].after),
         e \in reader[r].accepts => ~ LimitReached(r)
  PROVE  J!Advance(r)
<1> DEFINE rd == reader[r]
           s == JScan[r]
           accepted == e \in rd.accepts
<1>t. TypeInv /\ Layout /\ Limited /\ rd \in ReaderRecord /\ rd.out \in Seq(Yielded)
  BY DEF JournalInv, LogInv, WriteInv, TypeInv, TypeOK, ReaderRecord
<1>r. /\ rd.pc = "reading" /\ rd.pos < Len(file) /\ Decodes(Raw(rd.pos), e)
      /\ rd.until # None => rd.pos < rd.until
  BY DEF ReadEvent, ReadsLine, Proceeds
<1>1. PICK k \in 0 .. Len(written) :
        /\ rd.pos = EndOf(written, k) /\ UpTo(written, rd.pos) = k /\ s.next = k
        /\ s.pc = "reading" /\ s.accepts = rd.accepts /\ s.limit = rd.limit
        /\ Len(s.out) = Len(rd.out)
        /\ J!BeforeUntil(r) <=> (rd.until # None => rd.pos < rd.until)
  BY <1>r, ScanReading
<1>2. /\ k + 1 \in 1 .. Len(written) /\ StartOf(k + 1) = rd.pos
      /\ written[k + 1].end = EndOf(written, k + 1)
  <2>1. /\ Len(written) \in Nat /\ EndOf(written, Len(written)) = Len(file) /\ Len(file) \in Nat
        /\ \A i \in 1 .. Len(written) : Start(written[i]) = EndOf(written, i - 1)
    BY <1>t, LinesOrdered
  <2>2. k # Len(written)
    BY <1>1, <1>r, <2>1, ReaderFacts
  <2>3. k + 1 \in 1 .. Len(written) /\ (k + 1) - 1 = k /\ k + 1 # 0
    BY <2>1, <2>2
  <2> QED
    BY <1>1, <2>1, <2>3 DEF EndOf, StartOf, Start
<1>3. LineEnd(rd.pos) = EndOf(written, k + 1) /\ e = written[k + 1].ev
  <2>1. LineEnd(rd.pos) = written[k + 1].end /\ Raw(rd.pos) = Line(written[k + 1].ev)
    BY <1>t, <1>2, LineAt
  <2>2. written[k + 1].ev \in Events
    BY <1>t, <1>2, WrittenTyped
  <2> QED
    BY <1>2, <1>r, <2>1, <2>2, LineDecodes
<1>4. UpTo(written, LineEnd(rd.pos)) = k + 1
  <2>1. k + 1 \in 0 .. Len(written)
    BY <1>2, WrittenTyped, <1>t
  <2> QED
    BY <1>t, <1>3, <2>1, UpToEnd
<1>5. Len(JLines) = Len(written) /\ JLines[k + 1] = e
  BY <1>t, <1>2, <1>3, WrittenTyped DEF JLines
<1> DEFINE
      yield == [ev |-> e, at |-> rd.pos]
      out2 == IF accepted THEN Append(rd.out, yield) ELSE rd.out
      new == [rd EXCEPT !.pos = LineEnd(rd.pos), !.out = out2]
      until == IF rd.until = None THEN None ELSE From(written, rd.until)
      out == Places(written, rd.out)
      all == IF accepted THEN Append(out, k + 1) ELSE out
<1>6. reader' = [reader EXCEPT ![r] = new]
  <2> DEFINE rejected == e \notin rd.accepts
             code == [rd EXCEPT !.pos = LineEnd(rd.pos),
                        !.out = IF rejected \/ LimitReached(r) THEN @ ELSE Append(@, yield),
                        !.pc = IF ~ rejected /\ LimitReached(r) THEN "idle" ELSE @,
                        !.status = IF ~ rejected /\ LimitReached(r) THEN "limit" ELSE @]
  <2>1. reader' = [reader EXCEPT ![r] = code]
    BY DEF ReadEvent, Take
  <2>2. code = new
    BY <1>t DEF ReaderRecord
  <2> HIDE DEF code, new
  <2> QED
    BY <2>1, <2>2
<1>7. Places(written, out2) = all
  <2>1. CASE ~ accepted
    BY <2>1
  <2>2. CASE accepted
    <3>1. yield \in Yielded
      BY <1>t DEF Yielded, ReaderRecord
    <3>2. UpTo(written, yield.at) + 1 = k + 1
      BY <1>1
    <3> HIDE DEF yield
    <3> QED
      BY <1>t, <2>2, <3>1, <3>2, PlacesAppend
  <2> QED
    BY <2>1, <2>2
<1>8. ScanOf(written, new) = Scan("reading", rd.accepts, rd.limit, until, k + 1, all, rd.status)
  <2>1. /\ new.pc = "reading" /\ new.status = rd.status /\ new.after = rd.after /\ new.out = out2
        /\ new.accepts = rd.accepts /\ new.limit = rd.limit /\ new.until = rd.until
        /\ new.pos = LineEnd(rd.pos)
    BY <1>t, <1>r DEF ReaderRecord
  <2> HIDE DEF new, out2, all
  <2>2. [j \in 1 .. Len(new.out) |-> UpTo(written, new.out[j].at) + 1] = all
    BY <1>7, <2>1 DEF Places
  <2> QED
    BY <1>4, <2>1, <2>2 DEF ScanOf, Scan
<1>9. s = Scan("reading", rd.accepts, rd.limit, until, k, out, rd.status)
  BY <1>1, <1>r, JournalState DEF ScanOf, Scan, Places
<1>10. ScanAdvanced(r, k + 1, all) = ScanWith(r, ScanOf(written, new))
  <2> HIDE DEF all, new, until, out
  <2> QED
    BY <1>8, <1>9, AdvancedScan
<1> HIDE DEF new, until, out
<1>11. UNCHANGED <<JLines, JCall, JAcked>> /\ JScan' = ScanAdvanced(r, k + 1, all)
  <2>1. UNCHANGED <<file, written, writer, acked>>
    BY DEF ReadEvent
  <2> QED
    BY <1>6, <1>10, <2>1, JournalOfReader DEF ScanWith
<1>12. k + 1 <= Len(JLines) /\ J!BeforeUntil(r) /\ s.next + 1 = k + 1
  BY <1>1, <1>2, <1>5, <1>r, <1>t, WrittenTyped
<1>13. accepted /\ s.limit # None => Len(s.out) < s.limit
  <2> SUFFICES ASSUME accepted, rd.limit # None PROVE Len(rd.out) < rd.limit
    BY <1>1
  <2>1. rd.limit \in Nat /\ Len(rd.out) \in Nat
    BY <1>t, ReaderAssumption, LenProperties DEF ReaderRecord
  <2>2. ~ (Len(rd.out) >= rd.limit)
    BY DEF LimitReached
  <2> QED
    BY <2>1, <2>2
<1>14. s.pc = "reading" /\ (JLines[s.next + 1] \in s.accepts <=> accepted)
  BY <1>1, <1>5, <1>12
<1>15. ScanAdvanced(r, k + 1, all) =
       [JScan EXCEPT ![r].next = k + 1, ![r].out = IF accepted THEN Append(@, k + 1) ELSE @]
  BY <1>9 DEF ScanAdvanced, Scan
<1> QED
  BY <1>11, <1>12, <1>13, <1>14, <1>15 DEF J!Advance

LEMMA EndedRecord ==
  ASSUME NEW accepts, NEW limit, NEW until
  PROVE  J!Ended(Scan("reading", accepts, limit, until, 0, << >>, None)) =
           Scan("idle", accepts, limit, until, 0, << >>, "eof")
<1> DEFINE s0 == Scan("reading", accepts, limit, until, 0, << >>, None)
           s1 == Scan("idle", accepts, limit, until, 0, << >>, None)
           s2 == Scan("idle", accepts, limit, until, 0, << >>, "eof")
<1>1. [s0 EXCEPT !.pc = "idle"] = s1
  BY DEF Scan
<1>2. [s1 EXCEPT !.next = 0] = s1
  BY DEF Scan
<1>3. [s1 EXCEPT !.status = "eof"] = s2
  BY DEF Scan
<1> HIDE DEF s0, s1, s2
<1>4. [[[s0 EXCEPT !.pc = "idle"] EXCEPT !.next = 0] EXCEPT !.status = "eof"] = s2
  BY <1>1, <1>2, <1>3
<1>5. [s0 EXCEPT !.pc = "idle", !.next = 0, !.status = "eof"] =
      [[[s0 EXCEPT !.pc = "idle"] EXCEPT !.next = 0] EXCEPT !.status = "eof"]
  OBVIOUS
<1> QED
  BY <1>4, <1>5 DEF s0, s2, J!Ended

\* The first next() of a generator begins an iteration, or one of which
\* nothing is promised.
LEMMA StartBegins ==
  ASSUME JournalInv, NEW r \in Readers, NEW api \in Apis,
         NEW after \in Cursors, NEW until \in Cursors \union {None},
         NEW limit \in Limits, NEW accepts \in Filters,
         StartRead(r, api, after, until, limit, accepts)
  PROVE  J!Begin(r) \/ J!Drop(r)
<1> DEFINE
      new == [pc |-> IF exists THEN "reading" ELSE "idle",
              api |-> api, after |-> after, pos |-> after, until |-> until,
              limit |-> limit, accepts |-> accepts, out |-> << >>,
              status |-> IF exists THEN None ELSE "eof", goal |-> Len(file)]
      end == IF until = None THEN None ELSE From(written, until)
<1>t. TypeInv /\ WriteInv /\ Layout /\ Len(written) \in Nat /\ Len(file) \in Nat
  BY WrittenTyped DEF JournalInv, LogInv, WriteInv
<1>1. /\ reader' = [reader EXCEPT ![r] = new] /\ reader[r].pc = "idle"
      /\ UNCHANGED <<file, written, writer, acked>>
  BY DEF StartRead
<1>2. JScan[r].pc = "idle"
  BY <1>1, JournalState DEF ScanOf, NoScan
<1>3. /\ UNCHANGED <<JLines, JCall, JAcked>>
      /\ JScan' = [JScan EXCEPT ![r] = ScanOf(written, new)]
  <2> HIDE DEF new
  <2> QED
    BY <1>1, JournalOfReader
<1>4. JScan'[r] = ScanOf(written, new)
  <2> HIDE DEF new
  <2>1. JScan = [q \in Readers |-> JScan[q]]
    BY JournalState
  <2> QED
    BY <1>3, <2>1
<1>5. CASE ~ Between(written, after)
  <2>1. ScanOf(written, new) = NoScan
    BY <1>5 DEF ScanOf
  <2>2. J!NoScan = NoScan
    BY DEF J!NoScan, NoScan
  <2> HIDE DEF new
  <2> QED
    BY <1>2, <1>3, <2>1, <2>2 DEF J!Drop
<1>6. CASE Between(written, after)
  <2>1. Len(JLines) = Len(written)
    BY <1>t, WrittenTyped DEF JLines
  <2>2. end \in 0 .. Len(JLines) \union {None}
    <3>1. ASSUME until # None PROVE From(written, until) \in 0 .. Len(written)
      <4>1. until \in Nat /\ until <= Len(file)
        BY <1>t, <3>1, CursorsInFile
      <4>2. 0 \in 0 .. Len(written)
        BY <1>t
      <4> QED
        BY <1>t, <4>1, <4>2, FromEnd
    <3> QED
      BY <2>1, <3>1
  <2>3. UpTo(written, after) \in 0 .. Len(JLines)
    BY <1>t, <1>6, <2>1, BetweenIndex
  <2>4. [j \in 1 .. Len(<< >>) |-> UpTo(written, << >>[j].at) + 1] = << >>
    OBVIOUS
  <2>5. CASE exists
    <3>1. ScanOf(written, new) = Scan("reading", accepts, limit, end, UpTo(written, after), << >>, None)
      BY <1>6, <2>4, <2>5 DEF ScanOf, Scan
    <3>2. ScanOf(written, new) \in J!Iterations
      BY <2>2, <2>3, <3>1 DEF Scan, J!Iterations
    <3> HIDE DEF new
    <3> QED
      BY <1>2, <1>3, <1>4, <3>2 DEF J!Begin
  <2>6. CASE ~ exists
    <3>1. Len(written) = 0 /\ JLines = << >>
      <4>1. Len(file) = 0
        BY <1>t, <2>6 DEF WriteInv
      <4>2. Len(written) = 0
        <5>1. \A i \in 1 .. Len(written) :
                /\ written[i].end \in Nat /\ Start(written[i]) \in Nat
                /\ Start(written[i]) < written[i].end /\ written[i].end <= Len(file)
          BY <1>t, LinesOrdered
        <5>2. \A i \in 1 .. Len(written) : FALSE
          BY <4>1, <5>1
        <5> QED
          BY <1>t, <5>2
      <4> QED
        BY <4>2 DEF JLines
    <3> DEFINE s == Scan("reading", accepts, limit, end, 0, << >>, None)
    <3>2. ScanOf(written, new) = Scan("idle", accepts, limit, end, 0, << >>, "eof")
      BY <1>6, <2>4, <2>6 DEF ScanOf, Scan
    <3>3. s \in J!Iterations
      BY <2>2, <3>1 DEF Scan, J!Iterations
    <3> HIDE DEF new, end
    <3>4. ScanOf(written, new) = J!Ended(s)
      BY <3>2, EndedRecord
    <3> HIDE DEF s
    <3> QED
      BY <1>2, <1>3, <1>4, <3>1, <3>3, <3>4 DEF J!Begin
  <2> QED
    BY <2>5, <2>6
<1> QED
  BY <1>5, <1>6
-----------------------------------------------------------------------------
(* The refinement. *)

LEMMA InitRefines == Init => J!Init
<1> SUFFICES ASSUME Init PROVE J!Init
  OBVIOUS
<1>1. written = << >> /\ acked = {}
  BY DEF Init
<1>2. JLines = << >> /\ JAcked = {}
  BY <1>1 DEF JLines, JAcked
<1>3. JCall = [w \in Writers |-> None]
  BY JournalState DEF Init, CallOf, IdleWriter
<1>4. JScan = [r \in Readers |-> J!NoScan]
  <2>1. ScanOf(written, IdleReader) = J!NoScan
    BY DEF ScanOf, IdleReader, J!NoScan, Between
  <2> QED
    BY <2>1, JournalState DEF Init
<1> QED
  BY <1>2, <1>3, <1>4 DEF J!Init

LEMMA ReaderRefines ==
  ASSUME JournalInv, NEW r \in Readers, ReaderStep(r)
  PROVE  [J!Next]_(J!vars)
<1>t. TypeInv /\ Layout
  BY DEF JournalInv, LogInv, WriteInv
<1>e. ASSUME NEW status \in {"limit", "until", "eof"}, J!End(r, status) PROVE J!Next
  BY <1>e DEF J!Next
<1>f. ASSUME NEW status \in {"limit", "until", "eof"}, NEW new,
             UNCHANGED <<file, written, writer, acked>>, reader[r].pc = "reading",
             reader' = [reader EXCEPT ![r] = new], Over(reader[r], new, status),
             \/ status = "limit" /\ LimitReached(r)
             \/ status = "until" /\ reader[r].until # None /\ reader[r].pos >= reader[r].until
             \/ /\ status = "eof" /\ reader[r].pos >= Len(file)
                /\ reader[r].until # None => reader[r].pos < reader[r].until
      PROVE  [J!Next]_(J!vars)
  <2>1. CASE Between(written, reader[r].after)
    BY <1>e, <1>f, <2>1, EndsLikeJournal
  <2>2. CASE ~ Between(written, reader[r].after)
    <3>1. new.after = reader[r].after
      BY <1>f DEF Over
    <3> QED
      BY <1>f, <2>2, <3>1, Unaligned DEF J!vars
  <2> QED
    BY <2>1, <2>2
<1>1. ASSUME NEW api \in Apis, NEW after \in Cursors, NEW until \in Cursors \union {None},
             NEW limit \in Limits, NEW accepts \in Filters,
             StartRead(r, api, after, until, limit, accepts)
      PROVE  J!Next
  BY <1>1, StartBegins DEF J!Next
<1>2. CASE StopBefore(r)
  <2>1. /\ reader[r].pc = "reading" /\ UNCHANGED <<file, written, writer, acked>>
        /\ \/ LimitReached(r) /\ Finish(r, "limit")
           \/ /\ reader[r].until # None /\ reader[r].pos >= reader[r].until
              /\ Finish(r, "until")
    BY <1>2 DEF StopBefore
  <2>2. CASE LimitReached(r) /\ Finish(r, "limit")
    BY <1>f, <2>1, <2>2, FinishOver
  <2>3. CASE reader[r].until # None /\ reader[r].pos >= reader[r].until /\ Finish(r, "until")
    BY <1>f, <2>1, <2>3, FinishOver
  <2> QED
    BY <2>1, <2>2, <2>3
<1>3. CASE Eof(r)
  <2>1. /\ reader[r].pc = "reading" /\ UNCHANGED <<file, written, writer, acked>>
        /\ Finish(r, "eof") /\ reader[r].pos >= Len(file)
        /\ reader[r].until # None => reader[r].pos < reader[r].until
    BY <1>3 DEF Eof, Proceeds
  <2> QED
    BY <1>f, <2>1, FinishOver
<1>4. CASE ReadBlank(r) \/ ReadSpliced(r) \/ ReadBroken(r)
  <2>1. /\ UNCHANGED <<file, written, writer, acked>> /\ reader[r].pos < Len(file)
        /\ \/ Blank(Raw(reader[r].pos))
           \/ Splices(Raw(reader[r].pos))
           \/ ~ \E e \in Events : Decodes(Raw(reader[r].pos), e)
    BY <1>4 DEF ReadBlank, ReadSpliced, ReadBroken, ReadsLine
  <2>2. ~ Between(written, reader[r].after)
    <3> SUFFICES ASSUME Between(written, reader[r].after) PROVE FALSE
      OBVIOUS
    <3>1. reader[r].pos \in Nat /\ Between(written, reader[r].pos)
      BY ReaderFacts DEF Faithful
    <3> QED
      BY <1>t, <2>1, <3>1, LineReadable
  <2>3. \E new : reader' = [reader EXCEPT ![r] = new] /\ new.after = reader[r].after
    <3>1. CASE ReadBlank(r)
      <4> DEFINE new == [reader[r] EXCEPT !.pos = LineEnd(reader[r].pos)]
      <4>1. reader' = [reader EXCEPT ![r] = new]
        BY <3>1 DEF ReadBlank
      <4>2. new.after = reader[r].after
        BY ReaderFacts DEF ReaderRecord
      <4> HIDE DEF new
      <4> QED
        BY <4>1, <4>2
    <3>2. CASE ReadBroken(r)
      BY <3>2, FinishOver DEF ReadBroken, Over
    <3>3. CASE ReadSpliced(r)
      <4>1. ASSUME NEW rejected, Take(r, Spliced, rejected)
            PROVE  \E new : /\ reader' = [reader EXCEPT ![r] = new]
                             /\ new.after = reader[r].after
        <5> DEFINE rd == reader[r]
                   new == [rd EXCEPT !.pos = LineEnd(rd.pos),
                             !.out = IF rejected \/ LimitReached(r) THEN @
                                     ELSE Append(@, [ev |-> Spliced, at |-> rd.pos]),
                             !.pc = IF ~ rejected /\ LimitReached(r) THEN "idle" ELSE @,
                             !.status = IF ~ rejected /\ LimitReached(r) THEN "limit" ELSE @]
        <5>1. reader' = [reader EXCEPT ![r] = new]
          BY <4>1 DEF Take
        <5>2. new.after = rd.after
          BY ReaderFacts DEF ReaderRecord
        <5> HIDE DEF new
        <5> QED
          BY <5>1, <5>2
      <4>2. ASSUME Finish(r, "AttributeError")
            PROVE  \E new : /\ reader' = [reader EXCEPT ![r] = new]
                             /\ new.after = reader[r].after
        BY <4>2, FinishOver DEF Over
      <4> QED
        BY <3>3, <4>1, <4>2 DEF ReadSpliced
    <3> QED
      BY <1>4, <3>1, <3>2, <3>3
  <2> QED
    BY <2>1, <2>2, <2>3, Unaligned DEF J!vars
<1>5. ASSUME NEW e \in Events, ReadEvent(r, e) PROVE [J!Next]_(J!vars)
  <2> DEFINE rd == reader[r]
             rejected == e \notin rd.accepts
             full == ~ rejected /\ LimitReached(r)
             new == [rd EXCEPT !.pos = LineEnd(rd.pos),
                       !.out = IF rejected \/ LimitReached(r) THEN @
                               ELSE Append(@, [ev |-> e, at |-> rd.pos]),
                       !.pc = IF ~ rejected /\ LimitReached(r) THEN "idle" ELSE @,
                       !.status = IF ~ rejected /\ LimitReached(r) THEN "limit" ELSE @]
  <2>1. /\ reader' = [reader EXCEPT ![r] = new] /\ rd.pc = "reading"
        /\ UNCHANGED <<file, written, writer, acked>>
    BY <1>5 DEF ReadEvent, Take, ReadsLine, Proceeds
  <2>2. CASE full
    <3>1. Over(rd, new, "limit")
      BY <2>2, ReaderFacts DEF Over, ReaderRecord
    <3>2. LimitReached(r)
      BY <2>2
    <3> HIDE DEF new
    <3> QED
      BY <1>f, <2>1, <3>1, <3>2
  <2>3. CASE ~ full
    <3>1. CASE Between(written, rd.after)
      <4>1. J!Advance(r)
        BY <1>5, <2>3, <3>1, ReadAdvances
      <4> QED
        BY <4>1 DEF J!Next
    <3>2. CASE ~ Between(written, rd.after)
      <4>1. new.after = rd.after
        BY ReaderFacts DEF ReaderRecord
      <4> HIDE DEF new
      <4> QED
        BY <2>1, <3>2, <4>1, Unaligned DEF J!vars
    <3> QED
      BY <3>1, <3>2
  <2> QED
    BY <2>2, <2>3
<1> QED
  BY <1>1, <1>2, <1>3, <1>4, <1>5 DEF ReaderStep

LEMMA WriterRefines ==
  ASSUME ~ ShortWrites, JournalInv, TypeInv', NEW w \in Writers, WriterStep(w)
  PROVE  [J!Next]_(J!vars)
<1>1. ASSUME NEW e \in Events, Refuse(w, e) PROVE UNCHANGED J!vars
  BY <1>1, JournalQuiet DEF Refuse, J!vars
<1>2. ASSUME NEW e \in Events, NEW fsync \in BOOLEAN, Open(w, e, fsync) PROVE J!Next
  BY <1>2, OpenAsks DEF J!Next
<1>3. CASE WriteRest(w)
  BY <1>3, WriteCommits DEF J!Next
<1>4. CASE Fsync(w)
  BY <1>4, FsyncReturns DEF J!Next
<1>5. CASE Abort(w)
  BY <1>5, AbortGivesUp DEF J!Next
<1> QED
  BY <1>1, <1>2, <1>3, <1>4, <1>5 DEF WriterStep, WritePart

LEMMA StepRefines ==
  ASSUME ~ ShortWrites, ~ PowerCuts, JournalInv, TypeInv', [Next]_vars
  PROVE  [J!Next]_(J!vars)
<1>1. CASE UNCHANGED vars
  BY <1>1, JournalQuiet DEF vars, J!vars
<1> QED
  BY <1>1, ReaderRefines, WriterRefines DEF Next, PowerCut

LEMMA JournalInvariant ==
  ASSUME ~ ShortWrites, ~ PowerCuts
  PROVE  Spec => []JournalInv
<1>1. Spec => []LogInv
  BY LogInvariant
<1>2. Spec => []TypeInv
  BY <1>1, PTL DEF LogInv
<1>3. Init => Limited
  BY InitLimited
<1>4. LogInv /\ Limited /\ TypeInv' /\ [Next]_vars => Limited'
  BY NextLimited DEF JournalInv
<1> QED
  BY <1>1, <1>2, <1>3, <1>4, PTL DEF Spec, JournalInv

\* EventLog implements Journal: with whole writes, every step of any number of
\* writers and readers on the bytes of the file appends one event, returns one
\* call or moves one reader over one event of the journal, or does nothing
\* there.
THEOREM LogIsJournal ==
  ASSUME ~ ShortWrites, ~ PowerCuts
  PROVE  Spec => IsJournal
<1>1. Init => J!Init
  BY InitRefines
<1>2. JournalInv /\ TypeInv' /\ [Next]_vars => [J!Next]_(J!vars)
  BY StepRefines
<1>3. Spec => []JournalInv
  BY JournalInvariant
<1>4. JournalInv => TypeInv
  BY DEF JournalInv, LogInv
<1> QED
  BY <1>1, <1>2, <1>3, <1>4, PTL DEF Spec, IsJournal, J!Spec
=============================================================================
