---------------------------- MODULE EventLogProofs ----------------------------
(***************************************************************************)
(* Proofs about EventLog, for any events, sizes, writers and readers.      *)
(***************************************************************************)
EXTENDS EventLog, SequenceTheorems, WellFoundedInduction, TLAPS

-----------------------------------------------------------------------------
(* Lines and bytes. *)

\* A nonempty set of naturals has a least element.
LEMMA LeastNatural ==
  ASSUME NEW T, T \subseteq Nat, T # {}
  PROVE  \E x \in T : \A y \in T : x <= y
<1>1. PICK x \in T : \A y \in T : ~ (<<y, x>> \in OpToRel(<, Nat))
  BY WFMin, NatLessThanWellFounded
<1>2. ASSUME NEW y \in T PROVE ~ (y < x)
  <2>1. <<y, x>> \notin {ss \in Nat \X Nat : ss[1] < ss[2]}
    BY <1>1 DEF OpToRel
  <2>2. <<y, x>> \in Nat \X Nat
    OBVIOUS
  <2>3. <<y, x>>[1] = y /\ <<y, x>>[2] = x
    OBVIOUS
  <2> QED
    BY <2>1, <2>2, <2>3
<1> QED
  BY <1>2

\* readline() at an offset inside the file stops at the first newline, or at
\* the end of the file.
LEMMA LineEndProperties ==
  ASSUME file \in Seq(Bytes), NEW p \in Nat, p < Len(file)
  PROVE  /\ LineEnd(p) \in p + 1 .. Len(file)
         /\ LineEnd(p) = Len(file) \/ IsNewline(file[LineEnd(p)])
         /\ \A s \in p + 1 .. LineEnd(p) - 1 : ~ IsNewline(file[s])
<1> DEFINE stops == {q \in p + 1 .. Len(file) : q = Len(file) \/ IsNewline(file[q])}
<1>1. Len(file) \in Nat /\ Len(file) \in stops /\ stops \subseteq Nat
  BY LenProperties
<1>2. PICK q \in stops : \A s \in stops : q <= s
  BY <1>1, LeastNatural
<1>3. \A s \in p + 1 .. q - 1 : ~ IsNewline(file[s])
  BY <1>1, <1>2
<1>4. \E r \in p + 1 .. Len(file) :
        /\ r = Len(file) \/ IsNewline(file[r])
        /\ \A s \in p + 1 .. r - 1 : ~ IsNewline(file[s])
  BY <1>2, <1>3
<1> QED
  BY <1>4 DEF LineEnd

LEMMA SizeIsNat == ASSUME NEW e \in Events PROVE Size[e] \in Nat /\ Size[e] >= 2
BY SizeAssumption

\* A function on 1 .. n is a sequence of length n.
LEMMA FunctionIsSeq ==
  ASSUME NEW S, NEW n \in Nat, NEW f \in [1 .. n -> S]
  PROVE  f \in Seq(S) /\ Len(f) = n
<1>1. f \in Seq(S)
  BY SeqDef
<1> QED
  BY <1>1, LenProperties

LEMMA LineProperties ==
  ASSUME NEW e \in Events
  PROVE  /\ Line(e) \in Seq(Bytes) /\ Len(Line(e)) = Size[e]
         /\ Content(e) \in Seq(Bytes) /\ Len(Content(e)) = Size[e] - 1
         /\ \A i \in 1 .. Size[e] : Line(e)[i] = <<e, i>>
         /\ \A i \in 1 .. Size[e] - 1 : Content(e)[i] = <<e, i>>
<1>1. \A i \in Nat : <<e, i>> \in Bytes
  BY DEF Bytes
<1>2. Size[e] \in Nat /\ Size[e] - 1 \in Nat
  BY SizeIsNat
<1>3. Line(e) \in [1 .. Size[e] -> Bytes]
  BY <1>1, <1>2 DEF Line
<1>4. Content(e) \in [1 .. Size[e] - 1 -> Bytes]
  BY <1>1, <1>2 DEF Content
<1>5. /\ \A i \in 1 .. Size[e] : Line(e)[i] = <<e, i>>
      /\ \A i \in 1 .. Size[e] - 1 : Content(e)[i] = <<e, i>>
  BY DEF Line, Content
<1>6. Line(e) \in Seq(Bytes) /\ Len(Line(e)) = Size[e]
  BY <1>2, <1>3, FunctionIsSeq
<1>7. Content(e) \in Seq(Bytes) /\ Len(Content(e)) = Size[e] - 1
  BY <1>2, <1>4, FunctionIsSeq
<1> QED
  BY <1>5, <1>6, <1>7

\* The bytes a write(2) of n bytes puts at the end of the file.
LEMMA ChunkProperties ==
  ASSUME NEW w \in Writers, NEW e \in Events, writer[w].ev = e,
         writer[w].left \in 1 .. Size[e], NEW n \in 1 .. writer[w].left
  PROVE  /\ Chunk(w, n) \in Seq(Bytes) /\ Len(Chunk(w, n)) = n
         /\ \A i \in 1 .. n : Chunk(w, n)[i] = <<e, Size[e] - writer[w].left + i>>
<1> DEFINE from == Size[e] - writer[w].left
<1>1. Size[e] \in Nat /\ from \in Int /\ from + n \in Int /\ from >= 0 /\ from + n <= Size[e]
  BY SizeIsNat
<1>2. ASSUME NEW i \in from + 1 .. from + n
      PROVE  Line(e)[i] = <<e, i>> /\ Line(e)[i] \in Bytes
  <2>1. i \in 1 .. Size[e]
    BY <1>1
  <2>2. Line(e)[i] = <<e, i>>
    BY <2>1, LineProperties
  <2> QED
    BY <2>1, <2>2, LineProperties, ElementOfSeq
<1> DEFINE chunk == SubSeq(Line(e), from + 1, from + n)
<1> HIDE DEF from
<1>3. /\ chunk \in Seq(Bytes)
      /\ Len(chunk) = IF from + 1 <= from + n THEN from + n - (from + 1) + 1 ELSE 0
      /\ \A i \in 1 .. from + n - (from + 1) + 1 : chunk[i] = Line(e)[from + 1 + i - 1]
  BY <1>1, <1>2, SubSeqProperties
<1>4. chunk = Chunk(w, n)
  BY DEF Chunk, from
<1>5. Len(chunk) = n /\ \A i \in 1 .. n : chunk[i] = Line(e)[from + i]
  BY <1>1, <1>3
<1>6. \A i \in 1 .. n : chunk[i] = <<e, from + i>>
  BY <1>1, <1>2, <1>5
<1> QED
  BY <1>3, <1>4, <1>5, <1>6 DEF from
-----------------------------------------------------------------------------
(* Types. *)

\* A call under way knows its event, and has at most its bytes left to write.
CallsTyped ==
  \A w \in Writers :
    /\ writer[w].pc # "idle" => writer[w].ev \in Events
    /\ writer[w].pc = "flushing" => writer[w].left \in 1 .. Size[writer[w].ev]

TypeInv == TypeOK /\ CallsTyped

LEMMA InitTypeInv == Init => TypeInv
<1> SUFFICES ASSUME Init PROVE TypeInv
  OBVIOUS
<1>1. IdleWriter \in WriterRecord
  BY DEF IdleWriter, WriterRecord
<1>2. IdleReader \in ReaderRecord
  BY EmptySeq DEF IdleReader, ReaderRecord, Apis, Outcomes
<1>3. writer \in [Writers -> WriterRecord] /\ reader \in [Readers -> ReaderRecord]
  BY <1>1, <1>2 DEF Init
<1>4. file \in Seq(Bytes) /\ durable \in Offsets /\ written \in Seq([ev : Events, end : Nat])
  BY EmptySeq DEF Init, Offsets
<1>5. calls \in 0 .. MaxCalls
  BY BoundAssumption DEF Init
<1>8. exists \in BOOLEAN
  BY Zenon DEF Init
<1>6. acked \subseteq [ev : Events, end : Nat, cursor : Nat, durable : BOOLEAN]
  BY DEF Init
<1>7. \A w \in Writers : writer[w].pc = "idle"
  BY DEF Init, IdleWriter
<1> QED
  BY <1>3, <1>4, <1>5, <1>6, <1>7, <1>8 DEF TypeInv, TypeOK, CallsTyped

\* What WriteRest and WritePart do to the file.
LEMMA ExtendFile ==
  ASSUME TypeInv, NEW w \in Writers, writer[w].pc = "flushing",
         NEW n \in 1 .. writer[w].left, file' = file \o Chunk(w, n)
  PROVE  /\ file' \in Seq(Bytes) /\ Len(file') = Len(file) + n
         /\ \A i \in 1 .. Len(file) : file'[i] = file[i]
         /\ \A i \in 1 .. n : file'[Len(file) + i] =
              <<writer[w].ev, Size[writer[w].ev] - writer[w].left + i>>
<1> DEFINE e == writer[w].ev
<1>1. e \in Events /\ writer[w].left \in 1 .. Size[e] /\ file \in Seq(Bytes)
  BY DEF TypeInv, TypeOK, CallsTyped
<1>2. /\ Chunk(w, n) \in Seq(Bytes) /\ Len(Chunk(w, n)) = n
      /\ \A i \in 1 .. n : Chunk(w, n)[i] = <<e, Size[e] - writer[w].left + i>>
  BY <1>1, ChunkProperties
<1>3. Len(file) \in Nat /\ n \in Nat
  BY <1>1, LenProperties, SizeIsNat
<1>4. /\ file' \in Seq(Bytes)
      /\ Len(file') = Len(file) + n
      /\ \A i \in 1 .. Len(file) + n :
           file'[i] = IF i <= Len(file) THEN file[i] ELSE Chunk(w, n)[i - Len(file)]
  <2>1. \A s, t \in Seq(Bytes) :
          /\ s \o t \in Seq(Bytes) /\ Len(s \o t) = Len(s) + Len(t)
          /\ \A i \in 1 .. Len(s) + Len(t) :
               (s \o t)[i] = IF i <= Len(s) THEN s[i] ELSE t[i - Len(s)]
    BY ConcatProperties
  <2>2. PICK t : t = Chunk(w, n)
    OBVIOUS
  <2>3. file \in Seq(Bytes) /\ t \in Seq(Bytes) /\ Len(t) = n /\ file' = file \o t
    BY <1>1, <1>2, <2>2
  <2>4. /\ file \o t \in Seq(Bytes) /\ Len(file \o t) = Len(file) + n
        /\ \A i \in 1 .. Len(file) + n :
             (file \o t)[i] = IF i <= Len(file) THEN file[i] ELSE t[i - Len(file)]
    BY <2>1, <2>3
  <2> QED
    BY <2>2, <2>3, <2>4
<1> QED
  BY <1>2, <1>3, <1>4

LEMMA NextTypeInv == TypeInv /\ [Next]_vars => TypeInv'
<1> SUFFICES ASSUME TypeInv, [Next]_vars PROVE TypeInv'
  OBVIOUS
<1>t. /\ TypeOK /\ CallsTyped /\ Len(file) \in Nat /\ MaxCalls \in Nat
      /\ file \in Seq(Bytes) /\ durable \in 0 .. Len(file)
  BY LenProperties, BoundAssumption DEF TypeInv, TypeOK, Offsets
<1>1. ASSUME NEW w \in Writers, NEW e \in Events, Refuse(w, e) PROVE TypeInv'
  BY <1>t, <1>1 DEF Refuse, TypeInv, TypeOK, CallsTyped, Offsets
<1>2. ASSUME NEW w \in Writers, NEW e \in Events, NEW f \in BOOLEAN, Open(w, e, f)
      PROVE  TypeInv'
  <2> DEFINE new == [pc |-> "flushing", ev |-> e, fsync |-> f,
                     cursor |-> Len(file) + Size[e], left |-> Size[e], end |-> 0]
  <2>1. new \in WriterRecord /\ new.left \in 1 .. Size[new.ev]
    BY <1>t, SizeIsNat DEF WriterRecord
  <2>2. writer' = [writer EXCEPT ![w] = new]
    BY <1>2 DEF Open
  <2>3. writer' \in [Writers -> WriterRecord]
    BY <1>t, <2>1, <2>2 DEF TypeOK
  <2>4. CallsTyped'
    BY <1>t, <2>1, <2>2 DEF TypeOK, CallsTyped
  <2> QED
    BY <1>t, <1>2, <2>3, <2>4 DEF Open, TypeInv, TypeOK, Offsets
<1>3. ASSUME NEW w \in Writers, NEW n \in 1 .. writer[w].left - 1, WritePart(w, n)
      PROVE  TypeInv'
  <2>1. writer[w] \in WriterRecord /\ writer[w].left \in 1 .. Size[writer[w].ev]
        /\ writer[w].ev \in Events /\ n \in 1 .. writer[w].left
    BY <1>t, <1>3, SizeIsNat DEF WritePart, TypeOK, CallsTyped
  <2>2. file' \in Seq(Bytes) /\ Len(file') = Len(file) + n
    BY <1>3, <2>1, ExtendFile DEF WritePart
  <2> DEFINE new == [writer[w] EXCEPT !.left = @ - n]
  <2>3. new \in WriterRecord /\ new.left \in 1 .. Size[new.ev] /\ new.ev \in Events
    BY <2>1, SizeIsNat DEF WriterRecord
  <2>4. writer' = [writer EXCEPT ![w] = new]
    BY <1>3 DEF WritePart
  <2>5. writer' \in [Writers -> WriterRecord] /\ CallsTyped'
    BY <1>t, <2>3, <2>4 DEF TypeOK, CallsTyped
  <2>6. durable' \in 0 .. Len(file')
    BY <1>t, <1>3, <2>1, <2>2, SizeIsNat DEF WritePart
  <2> QED
    BY <1>t, <1>3, <2>2, <2>5, <2>6 DEF WritePart, TypeInv, TypeOK, Offsets
<1>4. ASSUME NEW w \in Writers, WriteRest(w) PROVE TypeInv'
  <2> DEFINE e == writer[w].ev
             end == Len(file) + writer[w].left
  <2>1. /\ writer[w] \in WriterRecord /\ writer[w].left \in 1 .. Size[e]
        /\ e \in Events /\ writer[w].pc = "flushing"
    BY <1>t, <1>4 DEF WriteRest, TypeOK, CallsTyped
  <2>2. writer[w].left \in Nat /\ writer[w].left \in 1 .. writer[w].left /\ end \in Nat
    BY <1>t, <2>1, SizeIsNat
  <2>3. file' \in Seq(Bytes) /\ Len(file') = end
    BY <1>4, <2>1, <2>2, ExtendFile DEF WriteRest
  <2>4. durable' \in 0 .. Len(file')
    BY <1>t, <1>4, <2>2, <2>3 DEF WriteRest
  <2>5. written' \in Seq([ev : Events, end : Nat])
    BY <1>t, <1>4, <2>1, <2>2, AppendProperties DEF WriteRest, TypeOK
  <2>6. IdleWriter \in WriterRecord /\ IdleWriter.pc = "idle"
    BY DEF IdleWriter, WriterRecord
  <2> DEFINE syncing == [writer[w] EXCEPT !.pc = "syncing", !.left = 0, !.end = end]
  <2>7. syncing \in WriterRecord /\ syncing.pc = "syncing" /\ syncing.ev = e
    BY <2>1, <2>2 DEF WriterRecord
  <2>8. \/ writer' = [writer EXCEPT ![w] = IdleWriter]
        \/ writer' = [writer EXCEPT ![w] = syncing]
    BY <1>4 DEF WriteRest
  <2>9. writer' \in [Writers -> WriterRecord] /\ CallsTyped'
    BY <1>t, <2>1, <2>6, <2>7, <2>8 DEF TypeOK, CallsTyped
  <2>10. acked' \subseteq [ev : Events, end : Nat, cursor : Nat, durable : BOOLEAN]
    <3>1. [ev |-> e, end |-> end, cursor |-> writer[w].cursor, durable |-> FALSE]
             \in [ev : Events, end : Nat, cursor : Nat, durable : BOOLEAN]
      BY <2>1, <2>2 DEF WriterRecord
    <3> QED
      BY <1>t, <1>4, <3>1 DEF WriteRest, Ack, TypeOK
  <2> QED
    BY <1>t, <1>4, <2>3, <2>4, <2>5, <2>9, <2>10 DEF WriteRest, TypeInv, TypeOK, Offsets
<1>5. ASSUME NEW w \in Writers, Fsync(w) PROVE TypeInv'
  <2>1. writer[w] \in WriterRecord /\ writer[w].ev \in Events
    BY <1>t, <1>5 DEF Fsync, TypeOK, CallsTyped
  <2>2. IdleWriter \in WriterRecord /\ IdleWriter.pc = "idle"
    BY DEF IdleWriter, WriterRecord
  <2>3. writer' \in [Writers -> WriterRecord] /\ CallsTyped'
    BY <1>t, <1>5, <2>2 DEF Fsync, TypeOK, CallsTyped
  <2>4. acked' \subseteq [ev : Events, end : Nat, cursor : Nat, durable : BOOLEAN]
    <3>1. [ev |-> writer[w].ev, end |-> writer[w].end, cursor |-> writer[w].cursor,
           durable |-> TRUE] \in [ev : Events, end : Nat, cursor : Nat, durable : BOOLEAN]
      BY <2>1 DEF WriterRecord
    <3> QED
      BY <1>t, <1>5, <3>1 DEF Fsync, Ack, TypeOK
  <2> QED
    BY <1>t, <1>5, <2>3, <2>4 DEF Fsync, TypeInv, TypeOK, Offsets
<1>6. ASSUME NEW w \in Writers, Abort(w) PROVE TypeInv'
  <2>1. IdleWriter \in WriterRecord /\ IdleWriter.pc = "idle"
    BY DEF IdleWriter, WriterRecord
  <2>2. writer' \in [Writers -> WriterRecord] /\ CallsTyped'
    BY <1>t, <1>6, <2>1 DEF Abort, TypeOK, CallsTyped
  <2> QED
    BY <1>t, <1>6, <2>2 DEF Abort, TypeInv, TypeOK, Offsets
<1>7. ASSUME NEW n \in durable .. Len(file), PowerCut(n) PROVE TypeInv'
  <2>1. /\ IdleWriter \in WriterRecord /\ IdleWriter.pc = "idle"
        /\ IdleReader \in ReaderRecord
    BY EmptySeq DEF IdleWriter, WriterRecord, IdleReader, ReaderRecord, Apis, Outcomes
  <2>2. /\ writer' \in [Writers -> WriterRecord] /\ CallsTyped'
        /\ reader' \in [Readers -> ReaderRecord]
    BY <1>t, <1>7, <2>1 DEF PowerCut, TypeOK, CallsTyped
  <2>3. n \in Nat /\ n <= Len(file)
    BY <1>t
  <2>4. file' \in Seq(Bytes) /\ Len(file') = n
    <3>1. \A i \in 1 .. n : file[i] \in Bytes
      BY <1>t, <2>3, ElementOfSeq
    <3> QED
      BY <1>7, <2>3, <3>1, SubSeqProperties DEF PowerCut
  <2>5. written' \in Seq([ev : Events, end : Nat])
    <3>1. PICK m \in 0 .. Len(written) : written' = SubSeq(written, 1, m)
      BY <1>7 DEF PowerCut
    <3>2. ASSUME NEW i \in 1 .. m PROVE written[i] \in [ev : Events, end : Nat]
      <4>1. written \in Seq([ev : Events, end : Nat]) /\ Len(written) \in Nat
        BY <1>t, LenProperties DEF TypeOK
      <4>2. i \in 1 .. Len(written)
        BY <4>1
      <4> QED
        BY <4>1, <4>2, ElementOfSeq
    <3> QED
      BY <3>1, <3>2, SubSeqProperties
  <2> QED
    BY <1>t, <1>7, <2>2, <2>3, <2>4, <2>5 DEF PowerCut, TypeInv, TypeOK, Offsets
<1>8. ASSUME NEW r \in Readers, NEW new \in ReaderRecord,
             reader' = [reader EXCEPT ![r] = new],
             UNCHANGED <<exists, file, durable, calls, writer, written, acked>>
      PROVE  TypeInv'
  BY <1>t, <1>8 DEF TypeInv, TypeOK, CallsTyped, Offsets
<1>9. ASSUME NEW r \in Readers, NEW api \in Apis, NEW after \in Cursors,
             NEW until \in Cursors \union {None}, NEW limit \in Limits,
             NEW accepts \in Filters, StartRead(r, api, after, until, limit, accepts)
      PROVE  TypeInv'
  <2>1. Cursors \subseteq Nat /\ accepts \in SUBSET Events
    BY <1>t, ReaderAssumption DEF Cursors, TypeOK
  <2> DEFINE new ==
       [pc |-> IF exists THEN "reading" ELSE "idle",
        api |-> api, after |-> after, pos |-> after, until |-> until,
        limit |-> limit, accepts |-> accepts, out |-> << >>,
        status |-> IF exists THEN None ELSE "eof", goal |-> Len(file)]
  <2>2. new \in ReaderRecord
    BY <1>t, <2>1, EmptySeq DEF ReaderRecord, Outcomes
  <2> HIDE DEF new
  <2>3. reader' = [reader EXCEPT ![r] = new]
    BY <1>9 DEF StartRead, new
  <2> QED
    BY <1>8, <1>9, <2>2, <2>3 DEF StartRead
<1>10. ASSUME NEW r \in Readers, NEW status \in Outcomes, Finish(r, status),
              UNCHANGED <<exists, file, durable, calls, writer, written, acked>>
       PROVE  TypeInv'
  <2> DEFINE new == [reader[r] EXCEPT !.pc = "idle", !.status = status]
  <2>1. new \in ReaderRecord
    BY <1>t DEF TypeOK, ReaderRecord
  <2> QED
    BY <1>8, <1>10, <2>1 DEF Finish
<1>11. ASSUME NEW r \in Readers, StopBefore(r) PROVE TypeInv'
  BY <1>10, <1>11 DEF StopBefore, Outcomes
<1>12. ASSUME NEW r \in Readers, Eof(r) PROVE TypeInv'
  BY <1>10, <1>12 DEF Eof, Outcomes
<1>13. ASSUME NEW r \in Readers, ReadBroken(r) PROVE TypeInv'
  BY <1>10, <1>13 DEF ReadBroken, DecodeError, Outcomes, Failures
<1>14. ASSUME NEW r \in Readers, ReadBlank(r) PROVE TypeInv'
  <2>1. reader[r] \in ReaderRecord /\ reader[r].pos \in Nat /\ reader[r].pos < Len(file)
    BY <1>t, <1>14 DEF ReadBlank, ReadsLine, TypeOK, ReaderRecord
  <2>2. LineEnd(reader[r].pos) \in Nat
    BY <1>t, <2>1, LineEndProperties
  <2> DEFINE new == [reader[r] EXCEPT !.pos = LineEnd(reader[r].pos)]
  <2>3. new \in ReaderRecord
    BY <2>1, <2>2 DEF ReaderRecord
  <2> QED
    BY <1>8, <1>14, <2>3 DEF ReadBlank
<1>15. ASSUME NEW r \in Readers, NEW e \in Events \union {Spliced}, NEW rejected \in BOOLEAN,
              ReadsLine(r), Take(r, e, rejected),
              UNCHANGED <<exists, file, durable, calls, writer, written, acked>>
       PROVE  TypeInv'
  <2>1. reader[r] \in ReaderRecord /\ reader[r].pos \in Nat /\ reader[r].pos < Len(file)
    BY <1>t, <1>15 DEF ReadsLine, TypeOK, ReaderRecord
  <2>2. LineEnd(reader[r].pos) \in Nat
    BY <1>t, <2>1, LineEndProperties
  <2> DEFINE pos == reader[r].pos
             out == IF rejected \/ LimitReached(r) THEN reader[r].out
                    ELSE Append(reader[r].out, [ev |-> e, at |-> pos])
             pc == IF ~ rejected /\ LimitReached(r) THEN "idle" ELSE reader[r].pc
             status == IF ~ rejected /\ LimitReached(r) THEN "limit" ELSE reader[r].status
             new == [reader[r] EXCEPT !.pos = LineEnd(pos), !.out = out, !.pc = pc,
                                      !.status = status]
  <2>3. out \in Seq(Yielded)
    <3>1. reader[r].out \in Seq(Yielded) /\ [ev |-> e, at |-> pos] \in Yielded
      BY <2>1 DEF ReaderRecord, Yielded
    <3> QED
      BY <3>1, AppendProperties
  <2>4. pc \in {"idle", "reading"} /\ status \in Outcomes
    BY <2>1 DEF ReaderRecord, Outcomes
  <2>5. reader' = [reader EXCEPT ![r] = new]
    BY <1>15 DEF Take
  <2> HIDE DEF out, pc, status
  <2>6. new \in ReaderRecord
    BY <2>1, <2>2, <2>3, <2>4 DEF ReaderRecord
  <2> QED
    BY <1>8, <1>15, <2>5, <2>6
<1>16. ASSUME NEW r \in Readers, NEW e \in Events, ReadEvent(r, e) PROVE TypeInv'
  BY <1>15, <1>16 DEF ReadEvent
<1>17. ASSUME NEW r \in Readers, ReadSpliced(r) PROVE TypeInv'
  BY <1>10, <1>15, <1>17 DEF ReadSpliced, Outcomes, Failures
<1>18. CASE UNCHANGED vars
  BY <1>18 DEF vars, TypeInv, TypeOK, CallsTyped, Offsets
<1> QED
  BY <1>1, <1>2, <1>3, <1>4, <1>5, <1>6, <1>7, <1>9, <1>11, <1>12, <1>13, <1>14, <1>16,
     <1>17, <1>18 DEF Next, WriterStep, ReaderStep

\* Types hold under every fault: no position, cursor or amount of durable
\* bytes ever leaves its range.
THEOREM EventLogTypeCorrect == Spec => []TypeOK
<1>1. TypeInv => TypeOK
  BY DEF TypeInv
<1> QED
  BY <1>1, InitTypeInv, NextTypeInv, PTL DEF Spec
-----------------------------------------------------------------------------
(* The file under faults. *)

\* A stretch of the file equals a sequence when its bytes do.
LEMMA StretchByBytes ==
  ASSUME NEW f \in Seq(Bytes), NEW s \in Seq(Bytes), NEW p \in Nat,
         NEW q \in Nat, q = p + Len(s), q <= Len(f)
  PROVE  SubSeq(f, p + 1, q) = s <=> \A i \in 1 .. Len(s) : f[p + i] = s[i]
<1> DEFINE sub == SubSeq(f, p + 1, q)
<1>1. Len(s) \in Nat /\ Len(f) \in Nat
  BY LenProperties
<1>2. ASSUME NEW i \in p + 1 .. q PROVE f[i] \in Bytes
  <2>1. i \in 1 .. Len(f)
    BY <1>1
  <2> QED
    BY <2>1, ElementOfSeq
<1>3. /\ sub \in Seq(Bytes)
      /\ Len(sub) = IF p + 1 <= q THEN q - (p + 1) + 1 ELSE 0
      /\ \A i \in 1 .. q - (p + 1) + 1 : sub[i] = f[p + 1 + i - 1]
  BY <1>1, <1>2, SubSeqProperties
<1> HIDE DEF sub
<1>4. Len(sub) = Len(s) /\ \A i \in 1 .. Len(s) : sub[i] = f[p + i]
  BY <1>1, <1>3
<1>5. ASSUME \A i \in 1 .. Len(s) : f[p + i] = s[i] PROVE sub = s
  BY <1>3, <1>4, <1>5, SeqEqual
<1>6. ASSUME sub = s PROVE \A i \in 1 .. Len(s) : f[p + i] = s[i]
  BY <1>4, <1>6
<1> QED
  BY <1>5, <1>6 DEF sub

\* A step keeps the first m bytes of the file.
Keeps(m) ==
  /\ m \in durable .. Len(file)
  /\ file' \in Seq(Bytes)
  /\ m <= Len(file')
  /\ \A i \in 1 .. m : file'[i] = file[i]

\* Writers only append: a step keeps the whole file, or at least what is
\* durable when it is a power cut, in which readers die.
LEMMA StepKeeps ==
  ASSUME TypeInv, [Next]_vars
  PROVE  \/ Keeps(Len(file)) /\ acked \subseteq acked'
         \/ \E n \in durable .. Len(file) : PowerCut(n) /\ Keeps(n)
<1>t. /\ file \in Seq(Bytes) /\ Len(file) \in Nat /\ durable \in 0 .. Len(file)
  BY LenProperties DEF TypeInv, TypeOK, Offsets
<1>1. ASSUME NEW w \in Writers, NEW n \in 1 .. writer[w].left - 1, WritePart(w, n)
      PROVE  Keeps(Len(file)) /\ acked \subseteq acked'
  <2>1. n \in 1 .. writer[w].left /\ writer[w].pc = "flushing" /\ n \in Nat
    BY <1>1, SizeIsNat DEF WritePart, TypeInv, CallsTyped
  <2>2. file' = file \o Chunk(w, n) /\ UNCHANGED acked
    BY <1>1 DEF WritePart
  <2>3. /\ file' \in Seq(Bytes) /\ Len(file') = Len(file) + n
        /\ \A i \in 1 .. Len(file) : file'[i] = file[i]
    BY <2>1, <2>2, ExtendFile
  <2> QED
    BY <1>t, <2>1, <2>2, <2>3 DEF Keeps
<1>2. ASSUME NEW w \in Writers, WriteRest(w)
      PROVE  Keeps(Len(file)) /\ acked \subseteq acked'
  <2>1. /\ writer[w].left \in 1 .. writer[w].left /\ writer[w].pc = "flushing"
        /\ writer[w].left \in Nat
    BY <1>2, SizeIsNat DEF WriteRest, TypeInv, CallsTyped
  <2>2. acked \subseteq acked'
    BY <1>2 DEF WriteRest, Ack
  <2>3. file' = file \o Chunk(w, writer[w].left)
    BY <1>2 DEF WriteRest
  <2>4. /\ file' \in Seq(Bytes) /\ Len(file') = Len(file) + writer[w].left
        /\ \A i \in 1 .. Len(file) : file'[i] = file[i]
    BY <2>1, <2>3, ExtendFile
  <2> QED
    BY <1>t, <2>1, <2>2, <2>4 DEF Keeps
<1>3. ASSUME UNCHANGED file, acked \subseteq acked'
      PROVE  Keeps(Len(file)) /\ acked \subseteq acked'
  BY <1>t, <1>3 DEF Keeps
<1>4. ASSUME NEW n \in durable .. Len(file), PowerCut(n) PROVE PowerCut(n) /\ Keeps(n)
  <2>1. n \in Nat /\ n <= Len(file)
    BY <1>t
  <2>2. \A i \in 1 .. n : file[i] \in Bytes
    BY <1>t, <2>1, ElementOfSeq
  <2>3. /\ file' \in Seq(Bytes) /\ Len(file') = n
        /\ \A i \in 1 .. n : file'[i] = file[i]
    BY <1>4, <2>1, <2>2, SubSeqProperties DEF PowerCut
  <2> QED
    BY <1>t, <1>4, <2>1, <2>3 DEF Keeps
<1>5. ASSUME NEW w \in Writers, Fsync(w) PROVE UNCHANGED file /\ acked \subseteq acked'
  BY <1>5 DEF Fsync, Ack
<1>6. ASSUME NEW w \in Writers, WriterStep(w) PROVE Keeps(Len(file)) /\ acked \subseteq acked'
  <2>1. ASSUME (\E e \in Events : Refuse(w, e)) \/ Abort(w)
                 \/ \E e \in Events, fsync \in BOOLEAN : Open(w, e, fsync)
        PROVE  Keeps(Len(file)) /\ acked \subseteq acked'
    BY <1>3, <2>1 DEF Refuse, Open, Abort
  <2> QED
    BY <1>1, <1>2, <1>3, <1>5, <1>6, <2>1 DEF WriterStep
<1>7. ASSUME NEW r \in Readers, ReaderStep(r) PROVE Keeps(Len(file)) /\ acked \subseteq acked'
  <2>1. UNCHANGED file /\ acked \subseteq acked'
    BY <1>7 DEF ReaderStep, StartRead, StopBefore, Eof, ReadBlank, ReadEvent,
                     ReadSpliced, ReadBroken
  <2> QED
    BY <1>3, <2>1
<1>8. CASE UNCHANGED vars
  BY <1>3, <1>8 DEF vars
<1> QED
  BY <1>4, <1>6, <1>7, <1>8 DEF Next

\* A line within the bytes a step keeps stays readable.
LEMMA IntactKept ==
  ASSUME TypeInv, NEW m, Keeps(m), NEW a, a.ev \in Events, a.end \in Nat, a.end <= m,
         Intact(a)
  PROVE  Intact(a)'
<1> DEFINE n == Size[a.ev]
           p == a.end - n
<1>1. /\ file \in Seq(Bytes) /\ Len(file) \in Nat /\ m \in Nat /\ m <= Len(file)
      /\ file' \in Seq(Bytes) /\ Len(file') \in Nat /\ m <= Len(file')
  BY LenProperties DEF TypeInv, TypeOK, Offsets, Keeps
<1>2. /\ a.end \in n .. Len(file) /\ LineStart(p)
      /\ SubSeq(file, p + 1, a.end) = Line(a.ev)
  BY DEF Intact
<1>3. n \in Nat
  BY SizeIsNat
<1>4. p \in Nat /\ a.end = p + n /\ a.end <= Len(file')
  BY <1>1, <1>2, <1>3
<1>5. Line(a.ev) \in Seq(Bytes) /\ Len(Line(a.ev)) = n
  BY LineProperties
<1> HIDE DEF n, p
<1>6. \A i \in 1 .. n : file[p + i] = Line(a.ev)[i]
  BY <1>1, <1>2, <1>4, <1>5, StretchByBytes
<1>7. \A i \in 1 .. n : file'[p + i] = file[p + i]
  BY <1>1, <1>3, <1>4 DEF Keeps
<1>8. SubSeq(file', p + 1, a.end) = Line(a.ev)
  BY <1>1, <1>4, <1>5, <1>6, <1>7, StretchByBytes
<1>9. LineStart(p)'
  <2>1. p <= m
    BY <1>1, <1>3, <1>4
  <2>2. p' = p
    BY DEF p, n
  <2> QED
    BY <1>1, <1>2, <1>4, <2>1, <2>2 DEF LineStart, Keeps
<1>10. a.end \in n .. Len(file')
  BY <1>1, <1>3, <1>4
<1> QED
  BY <1>8, <1>9, <1>10 DEF Intact, n, p

\* What append_event(fsync=True) acknowledged lies within the durable bytes.
DurableAcked ==
  /\ \A a \in acked : a.durable => a.end <= durable
  /\ \A w \in Writers : writer[w].pc = "syncing" => writer[w].end <= Len(file)

LEMMA NextDurableAcked == TypeInv /\ DurableAcked /\ [Next]_vars => DurableAcked'
<1> SUFFICES ASSUME TypeInv, DurableAcked, [Next]_vars PROVE DurableAcked'
  OBVIOUS
<1>t. /\ file \in Seq(Bytes) /\ Len(file) \in Nat /\ durable \in 0 .. Len(file)
      /\ writer \in [Writers -> WriterRecord]
      /\ acked \subseteq [ev : Events, end : Nat, cursor : Nat, durable : BOOLEAN]
  BY LenProperties DEF TypeInv, TypeOK, Offsets
<1>1. ASSUME NEW w \in Writers, NEW n \in 1 .. writer[w].left - 1, WritePart(w, n)
      PROVE  DurableAcked'
  <2>1. n \in 1 .. writer[w].left /\ writer[w].pc = "flushing" /\ n \in Nat
    BY <1>1, SizeIsNat DEF WritePart, TypeInv, CallsTyped
  <2>2. Len(file') = Len(file) + n
    BY <1>1, <2>1, ExtendFile DEF WritePart
  <2>3. ASSUME NEW v \in Writers, writer'[v].pc = "syncing"
        PROVE  writer[v].pc = "syncing" /\ writer'[v].end = writer[v].end
               /\ writer[v].end \in Nat
    BY <1>t, <1>1, <2>1, <2>3 DEF WritePart, WriterRecord
  <2> QED
    BY <1>t, <1>1, <2>1, <2>2, <2>3 DEF WritePart, DurableAcked
<1>2. ASSUME NEW w \in Writers, WriteRest(w) PROVE DurableAcked'
  <2>1. /\ writer[w].left \in 1 .. writer[w].left /\ writer[w].pc = "flushing"
        /\ writer[w].left \in Nat
    BY <1>2, SizeIsNat DEF WriteRest, TypeInv, CallsTyped
  <2>2. Len(file') = Len(file) + writer[w].left
    BY <1>2, <2>1, ExtendFile DEF WriteRest
  <2>3. ASSUME NEW v \in Writers, writer'[v].pc = "syncing"
        PROVE  writer'[v].end <= Len(file')
    <3>1. CASE v = w
      <4>1. \/ writer' = [writer EXCEPT ![w] = IdleWriter]
            \/ writer' = [writer EXCEPT ![w].pc = "syncing", ![w].left = 0,
                                        ![w].end = Len(file) + writer[w].left]
        BY <1>2 DEF WriteRest
      <4>2. writer'[w].end = Len(file) + writer[w].left
        BY <1>t, <2>3, <3>1, <4>1 DEF WriterRecord, IdleWriter
      <4> QED
        BY <1>t, <2>1, <2>2, <3>1, <4>2
    <3>2. CASE v # w
      <4>1. writer'[v] = writer[v] /\ writer[v].end \in Nat
        BY <1>t, <1>2, <3>2 DEF WriteRest, WriterRecord
      <4> QED
        BY <1>t, <2>1, <2>2, <2>3, <4>1 DEF DurableAcked
    <3> QED
      BY <3>1, <3>2
  <2>4. \A a \in acked' : a.durable => a \in acked
    BY <1>2 DEF WriteRest, Ack
  <2> QED
    BY <1>2, <2>3, <2>4 DEF WriteRest, DurableAcked
<1>3. ASSUME NEW w \in Writers, Fsync(w) PROVE DurableAcked'
  <2>1. writer[w].end <= Len(file) /\ durable' = Len(file) /\ UNCHANGED file
    BY <1>3 DEF Fsync, DurableAcked
  <2>2. \A a \in acked' : a \in acked \/ a.end = writer[w].end
    BY <1>3 DEF Fsync, Ack
  <2>3. \A v \in Writers : writer'[v].pc = "syncing" => writer'[v] = writer[v]
    BY <1>t, <1>3 DEF Fsync, IdleWriter
  <2> QED
    BY <1>t, <2>1, <2>2, <2>3 DEF DurableAcked
<1>4. ASSUME NEW n \in durable .. Len(file), PowerCut(n) PROVE DurableAcked'
  BY <1>t, <1>4 DEF PowerCut, DurableAcked, IdleWriter
<1>5. ASSUME UNCHANGED <<file, durable, acked>>,
             \A v \in Writers : writer'[v].pc = "syncing" => writer'[v] = writer[v]
      PROVE  DurableAcked'
  BY <1>5 DEF DurableAcked
<1>6. ASSUME NEW w \in Writers, NEW e \in Events, NEW f \in BOOLEAN, Open(w, e, f)
      PROVE  DurableAcked'
  BY <1>t, <1>5, <1>6 DEF Open
<1>7. ASSUME NEW w \in Writers, Abort(w) PROVE DurableAcked'
  BY <1>t, <1>5, <1>7 DEF Abort, IdleWriter
<1>8. ASSUME UNCHANGED <<file, durable, acked, writer>> PROVE DurableAcked'
  BY <1>5, <1>8
<1> QED
  BY <1>1, <1>2, <1>3, <1>4, <1>6, <1>7, <1>8
  DEF Next, WriterStep, ReaderStep, Refuse, StartRead, StopBefore, Eof, ReadBlank,
      ReadEvent, ReadSpliced, ReadBroken, vars

\* An acknowledged append_event(fsync=True) whose line can be read stays
\* readable through every later append, partial write, failure and power cut.
THEOREM DurableStays == Spec => DurableStaysReadable
<1>1. Init => TypeInv /\ DurableAcked
  BY InitTypeInv DEF Init, DurableAcked, IdleWriter
<1>2. TypeInv /\ DurableAcked /\ [Next]_vars => (TypeInv /\ DurableAcked)'
  BY NextTypeInv, NextDurableAcked
<1>3. TypeInv /\ DurableAcked /\ [Next]_vars =>
        [\A a \in acked : a.durable /\ Intact(a) => a \in acked' /\ Intact(a)']_vars
  <2> SUFFICES ASSUME TypeInv, DurableAcked, [Next]_vars,
                      NEW a \in acked, a.durable, Intact(a)
               PROVE  a \in acked' /\ Intact(a)'
    OBVIOUS
  <2>1. a.ev \in Events /\ a.end \in Nat /\ a.end <= durable
    BY DEF TypeInv, TypeOK, DurableAcked
  <2>2. durable \in Nat /\ Len(file) \in Nat /\ durable <= Len(file)
    BY LenProperties DEF TypeInv, TypeOK, Offsets
  <2>3. CASE Keeps(Len(file)) /\ acked \subseteq acked'
    BY <2>1, <2>2, <2>3, IntactKept
  <2>4. CASE \E n \in durable .. Len(file) : PowerCut(n) /\ Keeps(n)
    BY <2>1, <2>2, <2>4, IntactKept DEF PowerCut
  <2> QED
    BY <2>3, <2>4, StepKeeps
<1> QED
  BY <1>1, <1>2, <1>3, PTL DEF Spec, DurableStaysReadable
-----------------------------------------------------------------------------
(* Readers under faults. *)

\* The bytes of the line at p, with its newline and without.
LEMMA RawBytes ==
  ASSUME TypeInv, NEW p \in Nat, p < Len(file)
  PROVE  /\ LineEnd(p) \in p + 1 .. Len(file)
         /\ Len(Raw(p)) = LineEnd(p) - p
         /\ \A i \in 1 .. Len(Raw(p)) : Raw(p)[i] = file[p + i]
         /\ Len(Stripped(Raw(p))) \in {Len(Raw(p)) - 1, Len(Raw(p))}
         /\ \A i \in 1 .. Len(Stripped(Raw(p))) : Stripped(Raw(p))[i] = file[p + i]
<1> DEFINE q == LineEnd(p)
           raw == SubSeq(file, p + 1, q)
<1>1. file \in Seq(Bytes) /\ q \in p + 1 .. Len(file) /\ Len(file) \in Nat
  BY LineEndProperties, LenProperties DEF TypeInv, TypeOK
<1>r. raw = Raw(p)
  BY DEF Raw
<1> HIDE DEF q
<1>2. \A i \in p + 1 .. q : file[i] \in Bytes
  BY <1>1, ElementOfSeq
<1>3. /\ raw \in Seq(Bytes)
      /\ Len(raw) = IF p + 1 <= q THEN q - (p + 1) + 1 ELSE 0
      /\ \A i \in 1 .. q - (p + 1) + 1 : raw[i] = file[p + 1 + i - 1]
  BY <1>1, <1>2, SubSeqProperties
<1> HIDE DEF raw
<1>4. /\ raw \in Seq(Bytes) /\ Len(raw) = q - p /\ Len(raw) \in Nat
      /\ \A i \in 1 .. Len(raw) : raw[i] = file[p + i]
  BY <1>1, <1>3
<1> DEFINE front == SubSeq(raw, 1, Len(raw) - 1)
<1>5. ASSUME NEW m \in Nat, m = Len(raw) - 1
      PROVE  Len(SubSeq(raw, 1, m)) = m /\ \A i \in 1 .. m : SubSeq(raw, 1, m)[i] = raw[i]
  <2>1. \A i \in 1 .. m : raw[i] \in Bytes
    BY <1>4, <1>5, ElementOfSeq
  <2>2. /\ Len(SubSeq(raw, 1, m)) = IF 1 <= m THEN m - 1 + 1 ELSE 0
        /\ \A i \in 1 .. m - 1 + 1 : SubSeq(raw, 1, m)[i] = raw[1 + i - 1]
    BY <1>5, <2>1, SubSeqProperties
  <2> QED
    BY <2>2
<1>m. Len(raw) - 1 \in Nat
  BY <1>1, <1>4
<1>f. Len(front) = Len(raw) - 1 /\ \A i \in 1 .. Len(raw) - 1 : front[i] = raw[i]
  BY <1>5, <1>m
<1>6. Stripped(raw) = front \/ Stripped(raw) = raw
  BY DEF Stripped
<1> HIDE DEF front
<1>7. CASE Stripped(raw) = front
  BY <1>1, <1>4, <1>f, <1>7, <1>r DEF q
<1>8. CASE Stripped(raw) = raw
  BY <1>1, <1>4, <1>8, <1>r DEF q
<1> QED
  BY <1>6, <1>7, <1>8

\* The cursors append() computes lie within what has been written when it
\* returns, whatever failed in between.
CursorBounds ==
  /\ \A w \in Writers :
       /\ writer[w].pc = "flushing" => writer[w].cursor <= Len(file) + writer[w].left
       /\ writer[w].pc = "syncing" =>
            writer[w].cursor <= writer[w].end /\ writer[w].end <= Len(file)
  /\ \A a \in acked : a.cursor <= a.end /\ a.end <= Len(file)

LEMMA NextCursorBounds == TypeInv /\ CursorBounds /\ [Next]_vars => CursorBounds'
<1> SUFFICES ASSUME TypeInv, CursorBounds, [Next]_vars PROVE CursorBounds'
  OBVIOUS
<1>t. /\ file \in Seq(Bytes) /\ Len(file) \in Nat /\ durable \in 0 .. Len(file)
      /\ writer \in [Writers -> WriterRecord]
      /\ \A w \in Writers : writer[w].cursor \in Nat /\ writer[w].left \in Nat
                            /\ writer[w].end \in Nat
      /\ \A a \in acked : a.cursor \in Nat /\ a.end \in Nat
  BY LenProperties DEF TypeInv, TypeOK, Offsets, WriterRecord
<1>1. ASSUME NEW w \in Writers, NEW n \in 1 .. writer[w].left - 1, WritePart(w, n)
      PROVE  CursorBounds'
  <2>1. n \in 1 .. writer[w].left /\ writer[w].pc = "flushing" /\ n \in Nat
    BY <1>t, <1>1 DEF WritePart
  <2>2. Len(file') = Len(file) + n
    BY <1>1, <2>1, ExtendFile DEF WritePart
  <2>3. \A v \in Writers \ {w} : writer'[v] = writer[v]
    BY <1>t, <1>1 DEF WritePart
  <2>4. /\ writer'[w].pc = "flushing" /\ writer'[w].left = writer[w].left - n
        /\ writer'[w].cursor = writer[w].cursor
    BY <1>t, <1>1, <2>1 DEF WritePart, WriterRecord
  <2>5. \A v \in Writers :
          /\ writer'[v].pc = "flushing" => writer'[v].cursor <= Len(file') + writer'[v].left
          /\ writer'[v].pc = "syncing" =>
               writer'[v].cursor <= writer'[v].end /\ writer'[v].end <= Len(file')
    <3>1. \A v \in Writers \ {w} :
            /\ writer[v].pc = "flushing" => writer[v].cursor <= Len(file) + writer[v].left
            /\ writer[v].pc = "syncing" =>
                 writer[v].cursor <= writer[v].end /\ writer[v].end <= Len(file)
      BY DEF CursorBounds
    <3>2. \A v \in Writers \ {w} :
            /\ writer[v].pc = "flushing" => writer[v].cursor <= Len(file') + writer[v].left
            /\ writer[v].pc = "syncing" =>
                 writer[v].cursor <= writer[v].end /\ writer[v].end <= Len(file')
      <4>1. Len(file) + 0 <= Len(file') /\ Len(file') \in Nat
        BY <1>t, <2>1, <2>2
      <4>2. \A a, b, c, d \in Nat : a <= b => (c <= a + d => c <= b + d) /\ (c <= a => c <= b)
        OBVIOUS
      <4> QED
        BY <1>t, <3>1, <4>1, <4>2
    <3>3. writer'[w].cursor <= Len(file') + writer'[w].left /\ writer'[w].pc # "syncing"
      BY <1>t, <2>1, <2>2, <2>4 DEF CursorBounds
    <3> QED
      BY <2>3, <3>2, <3>3
  <2>6. acked' = acked
    BY <1>1 DEF WritePart
  <2> QED
    BY <1>t, <2>1, <2>2, <2>5, <2>6 DEF CursorBounds
<1>2. ASSUME NEW w \in Writers, WriteRest(w) PROVE CursorBounds'
  <2> DEFINE end == Len(file) + writer[w].left
  <2>1. /\ writer[w].left \in 1 .. writer[w].left /\ writer[w].pc = "flushing"
        /\ writer[w].left \in Nat
    BY <1>2, SizeIsNat DEF WriteRest, TypeInv, CallsTyped
  <2>2. Len(file') = end
    BY <1>2, <2>1, ExtendFile DEF WriteRest
  <2>3. writer[w].cursor <= end /\ end \in Nat
    BY <1>t, <2>1 DEF CursorBounds
  <2>4. \A v \in Writers \ {w} : writer'[v] = writer[v]
    BY <1>t, <1>2 DEF WriteRest
  <2>5. \/ writer'[w].pc = "idle"
        \/ /\ writer'[w].pc = "syncing" /\ writer'[w].end = end
           /\ writer'[w].cursor = writer[w].cursor
    <3>1. \/ writer' = [writer EXCEPT ![w] = IdleWriter]
          \/ writer' = [writer EXCEPT ![w].pc = "syncing", ![w].left = 0, ![w].end = end]
      BY <1>2 DEF WriteRest
    <3> HIDE DEF end
    <3> QED
      BY <1>t, <3>1 DEF WriterRecord, IdleWriter
  <2>6. \A a \in acked' : a \in acked \/ (a.end = end /\ a.cursor = writer[w].cursor)
    BY <1>2 DEF WriteRest, Ack
  <2> HIDE DEF end
  <2>7. Len(file) <= end
    BY <1>t DEF end
  <2>8. \A v \in Writers :
          /\ writer'[v].pc = "flushing" => writer'[v].cursor <= Len(file') + writer'[v].left
          /\ writer'[v].pc = "syncing" =>
               writer'[v].cursor <= writer'[v].end /\ writer'[v].end <= Len(file')
    <3>1. \A v \in Writers \ {w} :
            /\ writer[v].pc = "flushing" => writer[v].cursor <= Len(file) + writer[v].left
            /\ writer[v].pc = "syncing" =>
                 writer[v].cursor <= writer[v].end /\ writer[v].end <= Len(file)
      BY DEF CursorBounds
    <3>2. \A v \in Writers \ {w} :
            /\ writer[v].pc = "flushing" => writer[v].cursor <= Len(file') + writer[v].left
            /\ writer[v].pc = "syncing" =>
                 writer[v].cursor <= writer[v].end /\ writer[v].end <= Len(file')
      BY <1>t, <2>2, <2>3, <2>7, <3>1
    <3>3. /\ writer'[w].pc # "flushing"
          /\ writer'[w].pc = "syncing" =>
               writer'[w].cursor <= writer'[w].end /\ writer'[w].end <= Len(file')
      BY <2>2, <2>3, <2>5
    <3> QED
      BY <2>4, <3>2, <3>3
  <2> QED
    BY <1>t, <2>2, <2>3, <2>6, <2>7, <2>8 DEF CursorBounds
<1>3. ASSUME NEW w \in Writers, Fsync(w) PROVE CursorBounds'
  <2>1. UNCHANGED file /\ \A v \in Writers : writer'[v] = writer[v] \/ writer'[v].pc = "idle"
    BY <1>t, <1>3 DEF Fsync, IdleWriter
  <2>2. \A a \in acked' : a \in acked \/ (a.end = writer[w].end /\ a.cursor = writer[w].cursor)
    BY <1>3 DEF Fsync, Ack
  <2>3. writer[w].cursor <= writer[w].end /\ writer[w].end <= Len(file)
    BY <1>3 DEF Fsync, CursorBounds
  <2> QED
    BY <2>1, <2>2, <2>3 DEF CursorBounds
<1>4. ASSUME NEW n \in durable .. Len(file), PowerCut(n) PROVE CursorBounds'
  <2>1. n \in Nat /\ n <= Len(file) /\ Len(file') = n
    <3>1. n \in Nat /\ n <= Len(file)
      BY <1>t
    <3>2. \A i \in 1 .. n : file[i] \in Bytes
      BY <1>t, <3>1, ElementOfSeq
    <3> QED
      BY <1>4, <3>1, <3>2, SubSeqProperties DEF PowerCut
  <2> QED
    BY <1>4, <2>1 DEF PowerCut, CursorBounds, IdleWriter
<1>5. ASSUME UNCHANGED <<file, acked>>,
             \A v \in Writers : writer'[v] = writer[v] \/ writer'[v].pc = "idle"
      PROVE  CursorBounds'
  BY <1>5 DEF CursorBounds
<1>6. ASSUME NEW w \in Writers, NEW e \in Events, NEW f \in BOOLEAN, Open(w, e, f)
      PROVE  CursorBounds'
  <2>1. \A v \in Writers \ {w} : writer'[v] = writer[v]
    BY <1>t, <1>6 DEF Open
  <2>2. /\ writer'[w].pc = "flushing" /\ writer'[w].cursor = Len(file) + Size[e]
        /\ writer'[w].left = Size[e]
    BY <1>t, <1>6 DEF Open
  <2>3. Len(file) + Size[e] <= Len(file) + Size[e]
    BY <1>t, SizeIsNat
  <2> QED
    BY <1>6, <2>1, <2>2, <2>3 DEF Open, CursorBounds
<1>7. ASSUME NEW w \in Writers, Abort(w) PROVE CursorBounds'
  BY <1>t, <1>5, <1>7 DEF Abort, IdleWriter
<1>8. ASSUME UNCHANGED <<file, acked, writer>> PROVE CursorBounds'
  BY <1>5, <1>8
<1> QED
  BY <1>1, <1>2, <1>3, <1>4, <1>6, <1>7, <1>8
  DEF Next, WriterStep, ReaderStep, Refuse, StartRead, StopBefore, Eof, ReadBlank,
      ReadEvent, ReadSpliced, ReadBroken, vars

\* In the bytes f: s is the start of the file or follows a newline.
StartsLine(f, s) == s = 0 \/ (s \in 1 .. Len(f) /\ IsNewline(f[s]))

\* The bytes from s to p are those the line of e begins with.
Begins(f, e, s, p) == \A i \in 1 .. p - s : i < Size[e] => f[s + i] = <<e, i>>

\* A reader never stands inside what begins like an event at the start of a
\* line, and when it is past the object it has yielded it.
Covered(f, rd) ==
  /\ rd.after <= rd.pos /\ rd.pos <= Len(f)
  /\ rd.pc = "reading" => rd.status = None
  /\ rd.status # "limit" =>
       \A s \in rd.after .. rd.pos - 1, e \in Events :
         StartsLine(f, s) /\ Begins(f, e, s, rd.pos) =>
           /\ rd.pos - s >= Size[e] - 1
           /\ e \in rd.accepts =>
                \E j \in 1 .. Len(rd.out) : rd.out[j] = [ev |-> e, at |-> s]

ReadersCovered == \A r \in Readers : Covered(file, reader[r])

LEMMA CoveredMeaning == TypeInv /\ ReadersCovered => DamageIsContained
<1> SUFFICES ASSUME TypeInv, ReadersCovered, NEW r \in Readers,
                    reader[r].status # "limit", NEW i \in 1 .. Len(written),
                    Intact(written[i]), StartOf(i) >= reader[r].after,
                    written[i].end <= reader[r].pos, written[i].ev \in reader[r].accepts
             PROVE  \E j \in 1 .. Len(reader[r].out) :
                      reader[r].out[j] = [ev |-> written[i].ev, at |-> StartOf(i)]
  BY DEF DamageIsContained
<1> DEFINE rd == reader[r]
           e == written[i].ev
           s == StartOf(i)
<1>1. /\ written[i] \in [ev : Events, end : Nat] /\ file \in Seq(Bytes)
      /\ Len(file) \in Nat /\ rd \in ReaderRecord
  BY ElementOfSeq, LenProperties DEF TypeInv, TypeOK
<1>2. /\ e \in Events /\ Size[e] \in Nat /\ Size[e] >= 2 /\ written[i].end \in Nat
      /\ rd.after \in Nat /\ rd.pos \in Nat
  BY <1>1, SizeIsNat DEF ReaderRecord
<1>3. /\ s \in Nat /\ written[i].end = s + Size[e] /\ s + Size[e] <= Len(file)
      /\ StartsLine(file, s) /\ SubSeq(file, s + 1, s + Size[e]) = Line(e)
  <2>1. Intact(written[i]) /\ s = written[i].end - Size[e]
    BY DEF StartOf
  <2>2. /\ written[i].end \in Size[e] .. Len(file) /\ LineStart(s)
        /\ SubSeq(file, s + 1, written[i].end) = Line(e)
    BY <2>1 DEF Intact
  <2> HIDE DEF e, s
  <2>3. s \in Nat /\ written[i].end = s + Size[e] /\ s + Size[e] <= Len(file)
    <3>1. \A n, z, m \in Nat : z \in n .. m => z - n \in Nat /\ z = (z - n) + n /\ (z - n) + n <= m
      OBVIOUS
    <3>2. /\ written[i].end \in Nat /\ Size[e] \in Nat /\ Len(file) \in Nat
          /\ s = written[i].end - Size[e] /\ written[i].end \in Size[e] .. Len(file)
      BY <1>1, <1>2, <2>1, <2>2
    <3> QED
      BY <3>1, <3>2
  <2>4. StartsLine(file, s)
    BY <2>2 DEF LineStart, StartsLine
  <2> QED
    BY <2>2, <2>3, <2>4
<1> HIDE DEF e, s
<1>4. \A k \in 1 .. Size[e] : file[s + k] = <<e, k>>
  <2>1. Line(e) \in Seq(Bytes) /\ Len(Line(e)) = Size[e]
        /\ \A k \in 1 .. Size[e] : Line(e)[k] = <<e, k>>
    BY <1>2, LineProperties
  <2>2. \A k \in 1 .. Size[e] : file[s + k] = Line(e)[k]
    <3> DEFINE q == s + Size[e]
               t == Line(e)
    <3>1. q \in Nat /\ q = s + Len(t) /\ q <= Len(file) /\ SubSeq(file, s + 1, q) = t
      BY <1>2, <1>3, <2>1
    <3>2. t \in Seq(Bytes) /\ s \in Nat /\ Len(t) = Size[e]
      BY <1>3, <2>1
    <3> HIDE DEF q, t
    <3>3. \A k \in 1 .. Len(t) : file[s + k] = t[k]
      BY <1>1, <3>1, <3>2, StretchByBytes
    <3> QED
      BY <3>2, <3>3 DEF t
  <2> QED
    BY <2>1, <2>2
<1>5. Begins(file, e, s, rd.pos)
  BY <1>2, <1>4 DEF Begins
<1>6. s \in rd.after .. rd.pos - 1
  <2>1. s >= rd.after /\ s + Size[e] <= rd.pos
    BY <1>3 DEF s
  <2>2. \A a, b, c, d \in Nat : b >= a /\ b + c <= d /\ c >= 2 => b \in a .. d - 1
    OBVIOUS
  <2> QED
    BY <1>2, <1>3, <2>1, <2>2
<1>7. Covered(file, rd)
  BY DEF ReadersCovered
<1> QED
  BY <1>2, <1>3, <1>5, <1>6, <1>7 DEF Covered, e, s

\* Bytes that come in behind a reader's position do not matter to it.
LEMMA CoveredKept ==
  ASSUME TypeInv, Keeps(Len(file)), NEW rd \in ReaderRecord, Covered(file, rd)
  PROVE  Covered(file', rd)
<1>1. /\ file \in Seq(Bytes) /\ Len(file) \in Nat /\ Len(file') \in Nat
      /\ Len(file) <= Len(file') /\ \A i \in 1 .. Len(file) : file'[i] = file[i]
      /\ rd.after \in Nat /\ rd.pos \in Nat /\ rd.after <= rd.pos /\ rd.pos <= Len(file)
  BY LenProperties DEF TypeInv, TypeOK, Keeps, ReaderRecord, Covered
<1>2. ASSUME NEW s \in rd.after .. rd.pos - 1, NEW e \in Events,
             StartsLine(file', s), Begins(file', e, s, rd.pos)
      PROVE  StartsLine(file, s) /\ Begins(file, e, s, rd.pos)
  <2>1. s \in Nat /\ s < Len(file)
    BY <1>1
  <2>2. StartsLine(file, s)
    BY <1>1, <1>2, <2>1 DEF StartsLine
  <2>3. \A i \in 1 .. rd.pos - s : s + i \in 1 .. Len(file)
    BY <1>1, <2>1, Z3T(20)
  <2>4. Begins(file, e, s, rd.pos)
    BY <1>1, <1>2, <2>3 DEF Begins
  <2> QED
    BY <2>2, <2>4
<1>3. rd.pos <= Len(file')
  BY <1>1
<1> QED
  BY <1>2, <1>3 DEF Covered

\* A reader passes the line at its position: no other line starts on it, and
\* if it begins like an event it is that event's, and was taken.
LEMMA LinePassed ==
  ASSUME TypeInv, NEW rd \in ReaderRecord, rd.pc = "reading", Covered(file, rd),
         rd.pos < Len(file), NEW new, new.after = rd.after, new.pos = LineEnd(rd.pos),
         new.accepts = rd.accepts, new.pc = "reading" => new.status = None,
         \A j \in 1 .. Len(rd.out) : j \in 1 .. Len(new.out) /\ new.out[j] = rd.out[j],
         \A e \in Events :
           Begins(file, e, rd.pos, LineEnd(rd.pos)) /\ new.status # "limit" =>
             /\ LineEnd(rd.pos) - rd.pos >= Size[e] - 1
             /\ e \in rd.accepts =>
                  \E j \in 1 .. Len(new.out) : new.out[j] = [ev |-> e, at |-> rd.pos]
  PROVE  Covered(file, new)
<1> DEFINE p == rd.pos
           q == LineEnd(rd.pos)
<1>1. /\ file \in Seq(Bytes) /\ Len(file) \in Nat /\ p \in Nat /\ rd.after \in Nat
      /\ rd.after <= p /\ rd.status = None
  BY LenProperties DEF TypeInv, TypeOK, ReaderRecord, Covered
<1>2. /\ q \in p + 1 .. Len(file) /\ \A s \in p + 1 .. q - 1 : ~ IsNewline(file[s])
  BY <1>1, LineEndProperties
<1> HIDE DEF p, q
<1>3. new.after <= new.pos /\ new.pos <= Len(file) /\ new.pos = q
  BY <1>1, <1>2 DEF p, q
<1>4. ASSUME new.status # "limit", NEW s \in new.after .. new.pos - 1, NEW e \in Events,
             StartsLine(file, s), Begins(file, e, s, new.pos)
      PROVE  /\ new.pos - s >= Size[e] - 1
             /\ e \in new.accepts =>
                  \E j \in 1 .. Len(new.out) : new.out[j] = [ev |-> e, at |-> s]
  <2>0. Size[e] \in Nat /\ s \in Nat /\ s \in rd.after .. q - 1
    BY <1>1, <1>2, <1>3, SizeIsNat
  <2>1. CASE s < p
    <3>1. s \in rd.after .. p - 1 /\ q > p
      BY <1>1, <1>2, <2>0, <2>1
    <3>2. Begins(file, e, s, p)
      BY <1>1, <1>2, <1>3, <1>4, <2>0, <3>1 DEF Begins
    <3>3. rd.status # "limit"
      BY <1>1, ReaderAssumption
    <3>4. /\ p - s >= Size[e] - 1
          /\ e \in rd.accepts =>
               \E j \in 1 .. Len(rd.out) : rd.out[j] = [ev |-> e, at |-> s]
      BY <1>4, <3>1, <3>2, <3>3 DEF Covered, p
    <3>5. new.pos - s >= Size[e] - 1
      BY <1>1, <1>2, <1>3, <2>0, <3>1, <3>4
    <3> QED
      BY <3>4, <3>5
  <2>2. CASE s = p
    BY <1>3, <1>4, <2>2 DEF p, q
  <2>3. CASE s > p
    <3>1. s \in p + 1 .. q - 1 /\ s # 0
      BY <1>1, <1>2, <2>0, <2>3
    <3> QED
      BY <1>2, <1>4, <3>1 DEF StartsLine
  <2> QED
    BY <1>1, <2>0, <2>1, <2>2, <2>3
<1> QED
  BY <1>3, <1>4 DEF Covered
\* Taking an object from the line at a reader's position.
LEMMA LineTaken ==
  ASSUME TypeInv, ReadersCovered, NEW r \in Readers, ReadsLine(r),
         NEW item \in Events \union {Spliced}, NEW rejected \in BOOLEAN,
         Take(r, item, rejected), UNCHANGED file,
         \A e \in Events : Begins(file, e, reader[r].pos, LineEnd(reader[r].pos)) =>
           /\ item = e /\ (rejected <=> e \notin reader[r].accepts)
           /\ LineEnd(reader[r].pos) - reader[r].pos >= Size[e] - 1
  PROVE  ReadersCovered'
<1> DEFINE rd == reader[r]
           p == rd.pos
           q == LineEnd(p)
           full == LimitReached(r)
           o == [ev |-> item, at |-> p]
           out == IF rejected \/ full THEN rd.out ELSE Append(rd.out, o)
           pc == IF ~ rejected /\ full THEN "idle" ELSE rd.pc
           status == IF ~ rejected /\ full THEN "limit" ELSE rd.status
           new == [rd EXCEPT !.pos = q, !.out = out, !.pc = pc, !.status = status]
<1>1. /\ rd \in ReaderRecord /\ rd.out \in Seq(Yielded) /\ p \in Nat /\ o \in Yielded
      /\ reader \in [Readers -> ReaderRecord]
  BY DEF TypeInv, TypeOK, ReaderRecord, Yielded
<1>2. reader' = [reader EXCEPT ![r] = new]
  BY DEF Take
<1>3. rd.pc = "reading" /\ p < Len(file) /\ Covered(file, rd)
  BY DEF ReadsLine, Proceeds, ReadersCovered
<1>4. /\ Len(rd.out) \in Nat /\ Len(Append(rd.out, o)) = Len(rd.out) + 1
      /\ \A j \in 1 .. Len(rd.out) : Append(rd.out, o)[j] = rd.out[j]
      /\ Append(rd.out, o)[Len(rd.out) + 1] = o
  BY <1>1, AppendProperties, LenProperties
<1> HIDE DEF full, o
<1>5. \A j \in 1 .. Len(rd.out) : j \in 1 .. Len(out) /\ out[j] = rd.out[j]
  BY <1>4
<1>6. ~ rejected /\ ~ full => Len(rd.out) + 1 \in 1 .. Len(out) /\ out[Len(rd.out) + 1] = o
  BY <1>4
<1>7. rd.status = None
  BY <1>3 DEF Covered
<1> HIDE DEF out
<1>8. /\ new.after = rd.after /\ new.pos = q /\ new.accepts = rd.accepts /\ new.out = out
      /\ new.pc = pc /\ new.status = status
  BY <1>1 DEF ReaderRecord
<1> HIDE DEF new
<1>9. new.pc = "reading" => new.status = None
  BY <1>7, <1>8
<1>10. ASSUME NEW e \in Events, Begins(file, e, p, q), new.status # "limit"
       PROVE  /\ q - p >= Size[e] - 1
              /\ e \in rd.accepts =>
                   \E j \in 1 .. Len(new.out) : new.out[j] = [ev |-> e, at |-> p]
  <2>1. item = e /\ (rejected <=> e \notin rd.accepts) /\ q - p >= Size[e] - 1
    BY <1>10
  <2>2. e \in rd.accepts => ~ rejected /\ ~ full
    BY <1>8, <1>10, <2>1
  <2> QED
    BY <1>6, <1>8, <2>1, <2>2 DEF o
<1> HIDE DEF q
<1>11. Covered(file, new)
  BY <1>1, <1>3, <1>5, <1>8, <1>9, <1>10, LinePassed DEF q
<1> QED
  BY <1>1, <1>2, <1>11 DEF ReadersCovered

\* A line that is blank, or that is pieces, does not begin like an event.
LEMMA NotAnEvent ==
  ASSUME TypeInv, NEW p \in Nat, p < Len(file), NEW e \in Events,
         Begins(file, e, p, LineEnd(p))
  PROVE  ~ Blank(Raw(p)) /\ ~ Splices(Raw(p))
<1> DEFINE q == LineEnd(p)
           raw == Raw(p)
           text == Stripped(raw)
<1>1. /\ q \in p + 1 .. Len(file) /\ Len(raw) = q - p
      /\ \A i \in 1 .. Len(raw) : raw[i] = file[p + i]
      /\ Len(text) \in {Len(raw) - 1, Len(raw)}
      /\ \A i \in 1 .. Len(text) : text[i] = file[p + i]
  BY RawBytes
<1>2. Size[e] \in Nat /\ Size[e] >= 2 /\ Len(file) \in Nat
  BY SizeIsNat, LenProperties DEF TypeInv, TypeOK
<1>3. \A i \in 1 .. q - p : i < Size[e] => file[p + i] = <<e, i>>
  BY DEF Begins
<1> HIDE DEF q, raw, text
<1>4. raw[1] = <<e, 1>>
  BY <1>1, <1>2, <1>3
<1>5. \A i \in 1 .. Len(text) : i < Size[e] => text[i] = <<e, i>>
  <2>1. \A i \in 1 .. Len(text) : i \in 1 .. q - p
    BY <1>1, <1>2
  <2> QED
    BY <1>1, <1>3, <2>1
<1>6. ~ Blank(raw)
  BY <1>2, <1>4 DEF Blank, IsNewline
<1>7. ~ Splices(raw)
  BY <1>5 DEF Splices, text
<1> QED
  BY <1>6, <1>7 DEF raw

LEMMA NextReadersCovered ==
  TypeInv /\ CursorBounds /\ ReadersCovered /\ [Next]_vars => ReadersCovered'
<1> SUFFICES ASSUME TypeInv, CursorBounds, ReadersCovered, [Next]_vars PROVE ReadersCovered'
  OBVIOUS
<1>t. /\ reader \in [Readers -> ReaderRecord] /\ Len(file) \in Nat
      /\ \A r \in Readers : reader[r] \in ReaderRecord /\ reader[r].pos \in Nat
                            /\ reader[r].after \in Nat
      /\ \A a \in acked : a.cursor \in Nat /\ a.end \in Nat
  BY LenProperties DEF TypeInv, TypeOK, ReaderRecord
<1>1. ASSUME NEW n \in durable .. Len(file), PowerCut(n) PROVE ReadersCovered'
  <2>1. \A r \in Readers : reader'[r] = IdleReader
    BY <1>1 DEF PowerCut
  <2>2. Len(file') \in Nat
    BY NextTypeInv, LenProperties DEF TypeInv, TypeOK
  <2> QED
    BY <2>1, <2>2 DEF ReadersCovered, Covered, IdleReader
<1>2. ASSUME UNCHANGED reader, Keeps(Len(file)) PROVE ReadersCovered'
  BY <1>t, <1>2, CoveredKept DEF ReadersCovered
<1>3. ASSUME NEW r \in Readers, NEW new, reader' = [reader EXCEPT ![r] = new],
             Covered(file, new), UNCHANGED file
      PROVE  ReadersCovered'
  BY <1>t, <1>3 DEF ReadersCovered
<1>4. ASSUME NEW r \in Readers, NEW status, reader[r].pc = "reading", Finish(r, status),
             UNCHANGED file
      PROVE  ReadersCovered'
  <2> DEFINE new == [reader[r] EXCEPT !.pc = "idle", !.status = status]
  <2>1. /\ new.pc = "idle" /\ new.after = reader[r].after /\ new.pos = reader[r].pos
        /\ new.out = reader[r].out /\ new.accepts = reader[r].accepts
    BY <1>t DEF ReaderRecord
  <2>2. Covered(file, reader[r]) /\ reader[r].status # "limit"
    BY <1>4, ReaderAssumption DEF ReadersCovered, Covered
  <2>3. reader' = [reader EXCEPT ![r] = new]
    BY <1>4 DEF Finish
  <2> HIDE DEF new
  <2>4. Covered(file, new)
    BY <2>1, <2>2 DEF Covered
  <2> QED
    BY <1>3, <1>4, <2>3, <2>4
<1>5. ASSUME NEW r \in Readers, NEW api \in Apis, NEW after \in Cursors,
             NEW until \in Cursors \union {None}, NEW limit \in Limits,
             NEW accepts \in Filters, StartRead(r, api, after, until, limit, accepts)
      PROVE  ReadersCovered'
  <2> DEFINE new ==
       [pc |-> IF exists THEN "reading" ELSE "idle",
        api |-> api, after |-> after, pos |-> after, until |-> until,
        limit |-> limit, accepts |-> accepts, out |-> << >>,
        status |-> IF exists THEN None ELSE "eof", goal |-> Len(file)]
  <2>1. after \in Nat /\ after <= Len(file)
    BY <1>t DEF Cursors, CursorBounds
  <2>2. Covered(file, new)
    BY <2>1 DEF Covered
  <2> HIDE DEF new
  <2>3. reader' = [reader EXCEPT ![r] = new] /\ UNCHANGED file
    BY <1>5 DEF StartRead, new
  <2> QED
    BY <1>3, <2>2, <2>3
<1>6. ASSUME NEW r \in Readers, StopBefore(r) PROVE ReadersCovered'
  BY <1>4, <1>6 DEF StopBefore
<1>7. ASSUME NEW r \in Readers, Eof(r) PROVE ReadersCovered'
  BY <1>4, <1>7 DEF Eof, Proceeds
<1>8. ASSUME NEW r \in Readers, ReadBroken(r) PROVE ReadersCovered'
  BY <1>4, <1>8 DEF ReadBroken, ReadsLine, Proceeds
<1>9. ASSUME NEW r \in Readers, ReadBlank(r) PROVE ReadersCovered'
  <2> DEFINE rd == reader[r]
             new == [rd EXCEPT !.pos = LineEnd(rd.pos)]
  <2>1. /\ rd.pc = "reading" /\ rd.pos < Len(file) /\ Blank(Raw(rd.pos))
        /\ Covered(file, rd) /\ UNCHANGED file
    BY <1>9 DEF ReadBlank, ReadsLine, Proceeds, ReadersCovered
  <2>2. /\ new.after = rd.after /\ new.pos = LineEnd(rd.pos) /\ new.accepts = rd.accepts
        /\ new.pc = rd.pc /\ new.status = rd.status /\ new.out = rd.out
    BY <1>t DEF ReaderRecord
  <2>3. reader' = [reader EXCEPT ![r] = new]
    BY <1>9 DEF ReadBlank
  <2> HIDE DEF new
  <2>4. \A e \in Events : ~ Begins(file, e, rd.pos, LineEnd(rd.pos))
    BY <1>t, <2>1, NotAnEvent
  <2>5. new.status = None
    BY <2>1, <2>2 DEF Covered
  <2>6. Covered(file, new)
    BY <1>t, <2>1, <2>2, <2>4, <2>5, LinePassed
  <2> QED
    BY <1>3, <2>1, <2>3, <2>6
<1>10. ASSUME NEW r \in Readers, NEW e \in Events, ReadEvent(r, e) PROVE ReadersCovered'
  <2> DEFINE p == reader[r].pos
             q == LineEnd(p)
  <2>1. p \in Nat /\ p < Len(file) /\ ReadsLine(r) /\ Stripped(Raw(p)) = Content(e)
    BY <1>t, <1>10 DEF ReadEvent, ReadsLine, Decodes
  <2>2. /\ q \in p + 1 .. Len(file) /\ Len(Raw(p)) = q - p
        /\ Len(Content(e)) \in {Len(Raw(p)) - 1, Len(Raw(p))}
        /\ \A i \in 1 .. Len(Content(e)) : Content(e)[i] = file[p + i]
    BY <2>1, RawBytes
  <2>3. /\ Len(Content(e)) = Size[e] - 1 /\ Size[e] \in Nat /\ Size[e] >= 2
        /\ Content(e)[1] = <<e, 1>>
    BY LineProperties, SizeIsNat
  <2> HIDE DEF p, q
  <2>4. q - p >= Size[e] - 1 /\ file[p + 1] = <<e, 1>> /\ q - p >= 1
    <3>1. q - p >= Size[e] - 1 /\ q - p >= 1
      <4>1. p \in Nat /\ Size[e] \in Nat /\ Len(file) \in Nat
        BY <1>t, <2>1, <2>3
      <4>2. q \in p + 1 .. Len(file) /\ Size[e] - 1 \in {q - p - 1, q - p}
        BY <2>2, <2>3
      <4> QED
        BY <4>1, <4>2
    <3>2. 1 \in 1 .. Len(Content(e))
      BY <2>3
    <3>3. Content(e)[1] = file[p + 1]
      BY <2>2, <3>2
    <3> QED
      BY <2>3, <3>1, <3>3
  <2>5. ASSUME NEW f \in Events, Begins(file, f, p, q) PROVE f = e
    <3>1. Size[f] \in Nat /\ Size[f] >= 2
      BY SizeIsNat
    <3>2. 1 \in 1 .. q - p
      BY <1>t, <2>1, <2>2, <2>4
    <3>3. file[p + 1] = <<f, 1>>
      BY <2>5, <3>1, <3>2 DEF Begins
    <3> QED
      BY <2>4, <3>3
  <2>6. Take(r, e, e \notin reader[r].accepts) /\ UNCHANGED file
    BY <1>10 DEF ReadEvent
  <2>7. PICK rejected \in BOOLEAN : rejected <=> e \notin reader[r].accepts
    BY Zenon
  <2>8. Take(r, e, rejected)
    BY <2>6, <2>7 DEF Take
  <2> QED
    BY <2>1, <2>4, <2>5, <2>6, <2>7, <2>8, LineTaken DEF p, q
<1>11. ASSUME NEW r \in Readers, ReadSpliced(r) PROVE ReadersCovered'
  <2>1. /\ ReadsLine(r) /\ Splices(Raw(reader[r].pos)) /\ UNCHANGED file
        /\ reader[r].pos < Len(file) /\ reader[r].pc = "reading"
    BY <1>11 DEF ReadSpliced, ReadsLine, Proceeds
  <2>2. \A e \in Events : ~ Begins(file, e, reader[r].pos, LineEnd(reader[r].pos))
    BY <1>t, <2>1, NotAnEvent
  <2>3. ASSUME NEW rejected \in BOOLEAN, Take(r, Spliced, rejected) PROVE ReadersCovered'
    BY <2>1, <2>2, <2>3, LineTaken
  <2> QED
    BY <1>4, <1>11, <2>1, <2>3 DEF ReadSpliced
<1>12. CASE \E n \in durable .. Len(file) : PowerCut(n) /\ Keeps(n)
  BY <1>1, <1>12
<1>13. CASE Keeps(Len(file))
  <2>1. ASSUME NEW w \in Writers, WriterStep(w) PROVE UNCHANGED reader
    BY <2>1 DEF WriterStep, Refuse, Open, WritePart, WriteRest, Fsync, Abort
  <2>2. ASSUME NEW r \in Readers, ReaderStep(r) PROVE ReadersCovered'
    BY <1>5, <1>6, <1>7, <1>8, <1>9, <1>10, <1>11, <2>2 DEF ReaderStep
  <2> QED
    BY <1>1, <1>2, <1>13, <2>1, <2>2 DEF Next, vars
<1> QED
  BY <1>12, <1>13, StepKeeps

\* A reader misses no sound line it passes, whatever else is in the file and
\* wherever it was opened: it never takes an unfinished line for damage to be
\* skipped, and neither torn nor spliced lines, nor a cursor inside a line,
\* make it step over the start of the next line.
THEOREM ReadersContainDamage == Spec => []DamageIsContained
<1> DEFINE Inv == TypeInv /\ CursorBounds /\ ReadersCovered
<1>1. Init => Inv
  <2> SUFFICES ASSUME Init PROVE Inv
    OBVIOUS
  <2>1. CursorBounds
    BY DEF Init, CursorBounds, IdleWriter
  <2>2. Len(file) = 0
    BY DEF Init
  <2>3. ReadersCovered
    BY <2>2 DEF Init, ReadersCovered, Covered, IdleReader
  <2> QED
    BY <2>1, <2>3, InitTypeInv
<1>2. Inv /\ [Next]_vars => Inv'
  BY NextTypeInv, NextCursorBounds, NextReadersCovered
<1>3. Inv => DamageIsContained
  BY CoveredMeaning
<1> QED
  BY <1>1, <1>2, <1>3, PTL DEF Spec

-----------------------------------------------------------------------------
(* When every write(2) is whole and the machine does not stop, the file is *)
(* the lines that were written, one after the other, and a reader that     *)
(* starts between two of them stays between two of them.                   *)

-----------------------------------------------------------------------------
(* The inductive invariant. *)

\* The file is the lines of `written`, in that order and without gaps.
Layout ==
  /\ Len(written) = 0 => Len(file) = 0
  /\ Len(written) > 0 => written[Len(written)].end = Len(file)
  /\ \A i \in 1 .. Len(written) :
       /\ StartOf(i) = IF i = 1 THEN 0 ELSE written[i - 1].end
       /\ \A k \in 1 .. Size[written[i].ev] : file[StartOf(i) + k] = <<written[i].ev, k>>
  /\ \A i, j \in 1 .. Len(written) : i < j => written[i].end <= StartOf(j)

Logged(ev, end) ==
  \E i \in 1 .. Len(written) : written[i].ev = ev /\ written[i].end = end

\* A call has written all of its line or nothing; its cursor is computed from
\* the size of the file at open(), which has not shrunk since.
WholeCalls ==
  \A w \in Writers :
    /\ writer[w].pc # "idle" =>
         exists /\ writer[w].cursor >= Size[writer[w].ev]
    /\ writer[w].pc = "flushing" =>
         /\ writer[w].left = Size[writer[w].ev]
         /\ writer[w].cursor <= Len(file) + Size[writer[w].ev]
    /\ writer[w].pc = "syncing" =>
         /\ Logged(writer[w].ev, writer[w].end)
         /\ writer[w].cursor <= writer[w].end

AckedLogged ==
  \A a \in acked :
    Logged(a.ev, a.end) /\ a.cursor >= Size[a.ev] /\ a.cursor <= a.end

WriteInv ==
  /\ Layout /\ WholeCalls /\ AckedLogged
  /\ ~ exists => Len(file) = 0

\* The file never gets shorter than it was when a reader looked.
Bounded ==
  \A r \in Readers : reader[r].after <= Len(file) /\ reader[r].goal <= Len(file)

\* Of the lines ws: p is the end of one, or the start of the log.
Between(ws, p) == p = 0 \/ \E i \in 1 .. Len(ws) : ws[i].end = p

Start(line) == line.end - Size[line.ev]

\* What a reader has yielded are lines before its position, in order.
Yields(ws, rd) ==
  /\ \A j \in 1 .. Len(rd.out) :
       \E i \in 1 .. Len(ws) :
         /\ ws[i].ev = rd.out[j].ev /\ Start(ws[i]) = rd.out[j].at
         /\ ws[i].end <= rd.pos
  /\ \A j, k \in 1 .. Len(rd.out) : j < k => rd.out[j].at < rd.out[k].at

\* It has yielded every accepted line between its start and its position.
Complete(ws, rd) ==
  \A i \in 1 .. Len(ws) :
    Start(ws[i]) >= rd.after /\ ws[i].end <= rd.pos /\ ws[i].ev \in rd.accepts
    => \E j \in 1 .. Len(rd.out) : rd.out[j] = [ev |-> ws[i].ev, at |-> Start(ws[i])]

\* What is true of a reader that started between two lines.
Faithful(ws, rd) ==
  /\ Between(ws, rd.pos)
  /\ Yields(ws, rd)
  /\ rd.pc = "reading" \/ rd.status = "eof" => Complete(ws, rd)
  /\ rd.status = "eof" => rd.goal <= rd.pos
  /\ rd.status \notin Failures

ReadInv ==
  /\ Bounded
  /\ \A r \in Readers : Between(written, reader[r].after) => Faithful(written, reader[r])
-----------------------------------------------------------------------------
(* Lines of the log. *)

LEMMA WrittenTyped ==
  ASSUME TypeInv
  PROVE  /\ Len(written) \in Nat /\ Len(file) \in Nat /\ file \in Seq(Bytes)
         /\ \A i \in 1 .. Len(written) :
              /\ written[i].ev \in Events /\ written[i].end \in Nat
              /\ Size[written[i].ev] \in Nat /\ Size[written[i].ev] >= 2
<1>1. /\ written \in Seq([ev : Events, end : Nat]) /\ file \in Seq(Bytes)
      /\ Len(written) \in Nat /\ Len(file) \in Nat
  BY LenProperties DEF TypeInv, TypeOK
<1>2. ASSUME NEW i \in 1 .. Len(written) PROVE written[i] \in [ev : Events, end : Nat]
  BY <1>1, ElementOfSeq
<1> QED
  BY <1>1, <1>2, SizeIsNat

\* Where the i-th line is.
LEMMA LineFacts ==
  ASSUME TypeInv, Layout, NEW i \in 1 .. Len(written)
  PROVE  /\ StartOf(i) \in Nat /\ written[i].end = StartOf(i) + Size[written[i].ev]
         /\ written[i].end <= Len(file) /\ StartOf(i) < written[i].end
         /\ i < Len(written) => StartOf(i + 1) = written[i].end
         /\ Aligned(StartOf(i)) /\ Aligned(written[i].end)
<1> DEFINE n == Len(written)
<1>1. /\ n \in Nat /\ Len(file) \in Nat /\ n \in 1 .. n
      /\ \A j \in 1 .. n :
           /\ written[j].end \in Nat /\ Size[written[j].ev] \in Nat
           /\ Size[written[j].ev] >= 2
  BY WrittenTyped
<1>2. /\ written[n].end = Len(file)
      /\ \A j \in 1 .. n : StartOf(j) = IF j = 1 THEN 0 ELSE written[j - 1].end
      /\ \A j, k \in 1 .. n : j < k => written[j].end <= StartOf(k)
  BY <1>1 DEF Layout
<1>3. \A j \in 1 .. n : written[j].end = StartOf(j) + Size[written[j].ev]
  BY <1>1 DEF StartOf
<1>4. \A j \in 1 .. n : j = 1 \/ j - 1 \in 1 .. n
  BY <1>1
<1>5. StartOf(i) \in Nat /\ StartOf(n) \in Nat
  <2>1. \A j \in 1 .. n : j # 1 => written[j - 1].end \in Nat
    BY <1>1, <1>4
  <2>2. \A j \in 1 .. n : StartOf(j) = IF j = 1 THEN 0 ELSE written[j - 1].end
    BY <1>2
  <2>3. i \in 1 .. n /\ n \in 1 .. n
    BY <1>1
  <2> HIDE DEF n
  <2> QED
    BY <2>1, <2>2, <2>3
<1>6. written[i].end <= Len(file)
  <2>1. CASE i = n
    BY <1>1, <1>2, <2>1
  <2>2. CASE i < n
    <3>1. written[i].end <= StartOf(n)
      BY <1>1, <1>2, <2>2
    <3>2. written[n].end = StartOf(n) + Size[written[n].ev]
      BY <1>1, <1>3
    <3>3. written[i].end \in Nat /\ Size[written[n].ev] \in Nat
      BY <1>1
    <3> QED
      BY <1>2, <1>5, <3>1, <3>2, <3>3
  <2> QED
    BY <1>1, <2>1, <2>2
<1>7. i < n => StartOf(i + 1) = written[i].end
  <2> SUFFICES ASSUME i < n PROVE StartOf(i + 1) = written[i].end
    OBVIOUS
  <2>1. i + 1 \in 1 .. n /\ i + 1 # 1 /\ (i + 1) - 1 = i
    BY <1>1
  <2> QED
    BY <1>2, <2>1
<1>8. Aligned(StartOf(i))
  BY <1>2, <1>4 DEF Aligned
<1> QED
  BY <1>1, <1>3, <1>5, <1>6, <1>7, <1>8 DEF Aligned

\* A position between two lines is the start of the next one.
LEMMA AlignedLine ==
  ASSUME TypeInv, Layout, NEW p \in Nat, Aligned(p), p < Len(file)
  PROVE  \E i \in 1 .. Len(written) : StartOf(i) = p
<1>1. Len(written) \in Nat /\ Len(file) \in Nat
  BY WrittenTyped
<1>2. Len(written) > 0 /\ written[Len(written)].end = Len(file)
  BY <1>1 DEF Layout
<1>3. CASE p = 0
  <2>1. 1 \in 1 .. Len(written) /\ StartOf(1) = 0
    BY <1>1, <1>2 DEF Layout
  <2> QED
    BY <1>3, <2>1
<1>4. CASE p # 0
  <2>1. PICK i \in 1 .. Len(written) : written[i].end = p
    BY <1>4 DEF Aligned
  <2>2. i < Len(written)
    BY <1>1, <1>2, <2>1
  <2>3. StartOf(i + 1) = p /\ i + 1 \in 1 .. Len(written)
    BY <1>1, <2>1, <2>2, LineFacts
  <2> QED
    BY <2>3
<1> QED
  BY <1>3, <1>4

\* readline() from there returns the bytes of that line and stops at its end.
LEMMA LineAt ==
  ASSUME TypeInv, Layout, NEW i \in 1 .. Len(written)
  PROVE  LineEnd(StartOf(i)) = written[i].end /\ Raw(StartOf(i)) = Line(written[i].ev)
<1> DEFINE e == written[i].ev
           p == StartOf(i)
           q == LineEnd(p)
<1>1. /\ e \in Events /\ Size[e] \in Nat /\ Size[e] >= 2 /\ file \in Seq(Bytes)
      /\ Len(file) \in Nat
  BY WrittenTyped
<1>2. p \in Nat /\ written[i].end = p + Size[e] /\ p + Size[e] <= Len(file)
  BY LineFacts
<1>3. \A k \in 1 .. Size[e] : file[p + k] = <<e, k>>
  BY DEF Layout
<1> HIDE DEF e, p
<1>4. /\ q \in p + 1 .. Len(file)
      /\ q = Len(file) \/ IsNewline(file[q])
      /\ \A s \in p + 1 .. q - 1 : ~ IsNewline(file[s])
  BY <1>1, <1>2, LineEndProperties
<1> HIDE DEF q
<1>5. \A k \in 1 .. Size[e] : IsNewline(file[p + k]) <=> k = Size[e]
  BY <1>3 DEF IsNewline
<1>6. q <= p + Size[e]
  <2> SUFFICES ASSUME q > p + Size[e] PROVE FALSE
    BY <1>1, <1>2, <1>4
  <2>1. p + Size[e] \in p + 1 .. q - 1
    BY <1>1, <1>2, <1>4
  <2> QED
    BY <1>1, <1>4, <1>5, <2>1
<1>7. q = p + Size[e]
  <2> SUFFICES ASSUME q < p + Size[e] PROVE FALSE
    BY <1>1, <1>2, <1>4, <1>6
  <2>1. q - p \in 1 .. Size[e] /\ q - p # Size[e] /\ q = p + (q - p) /\ q # Len(file)
    BY <1>1, <1>2, <1>4
  <2> QED
    BY <1>4, <1>5, <2>1
<1>8. Line(e) \in Seq(Bytes) /\ Len(Line(e)) = Size[e]
      /\ \A k \in 1 .. Size[e] : Line(e)[k] = <<e, k>>
  BY <1>1, LineProperties
<1>9. /\ q \in Nat /\ q = p + Len(Line(e)) /\ q <= Len(file)
      /\ \A k \in 1 .. Len(Line(e)) : file[p + k] = Line(e)[k]
  <2>1. q \in Nat /\ q = p + Len(Line(e)) /\ q <= Len(file)
    BY <1>1, <1>2, <1>4, <1>7, <1>8
  <2>2. \A k \in 1 .. Len(Line(e)) : file[p + k] = Line(e)[k]
    BY <1>3, <1>8
  <2> QED
    BY <2>1, <2>2
<1>10. SubSeq(file, p + 1, q) = Line(e)
  BY <1>1, <1>2, <1>8, <1>9, StretchByBytes
<1> QED
  BY <1>2, <1>7, <1>10 DEF Raw, e, p, q

\* A whole line decodes as its event, as no other, and is not blank.
LEMMA LineDecodes ==
  ASSUME NEW e \in Events
  PROVE  /\ ~ Blank(Line(e)) /\ Decodes(Line(e), e) /\ ~ Splices(Line(e))
         /\ \A f \in Events : Decodes(Line(e), f) => f = e
<1>1. /\ Len(Line(e)) = Size[e] /\ Size[e] \in Nat /\ Size[e] >= 2
      /\ Line(e)[1] = <<e, 1>>
  BY LineProperties, SizeIsNat
<1>2. Stripped(Line(e)) = Content(e)
  <2> DEFINE n == Size[e] - 1
  <2>1. /\ Line(e) \in Seq(Bytes) /\ Content(e) \in Seq(Bytes) /\ Len(Content(e)) = n
        /\ \A i \in 1 .. Size[e] : Line(e)[i] = <<e, i>>
        /\ \A i \in 1 .. n : Content(e)[i] = <<e, i>>
    BY LineProperties
  <2>2. IsNewline(Line(e)[Len(Line(e))])
    BY <1>1, <2>1 DEF IsNewline
  <2>3. Stripped(Line(e)) = SubSeq(Line(e), 1, n)
    BY <1>1, <2>2 DEF Stripped
  <2>4. n \in Nat /\ n <= Len(Line(e)) /\ \A i \in 1 .. n : i \in 1 .. Size[e]
    BY <1>1
  <2>5. \A i \in 1 .. n : Line(e)[i] = Content(e)[i]
    BY <2>1, <2>4
  <2> DEFINE line == Line(e)
             text == Content(e)
  <2>6. line \in Seq(Bytes) /\ text \in Seq(Bytes) /\ n = 0 + Len(text) /\ n <= Len(line)
        /\ \A i \in 1 .. Len(text) : line[0 + i] = text[i]
    BY <2>1, <2>4, <2>5
  <2> HIDE DEF line, text, n
  <2>7. SubSeq(line, 0 + 1, n) = text
    BY <2>4, <2>6, StretchByBytes
  <2> QED
    BY <2>3, <2>7 DEF line, text
<1>3. ASSUME NEW f \in Events, Decodes(Line(e), f) PROVE f = e
  <2>1. Size[f] \in Nat /\ Size[f] >= 2
    BY SizeIsNat
  <2>2. Content(e)[1] = <<e, 1>> /\ Content(f)[1] = <<f, 1>>
    BY <1>1, <2>1, LineProperties
  <2> QED
    BY <1>2, <1>3, <2>2 DEF Decodes
<1>4. ~ Splices(Line(e))
  <2>1. Len(Content(e)) = Size[e] - 1 /\ \A i \in 1 .. Size[e] - 1 : Content(e)[i] = <<e, i>>
    BY LineProperties
  <2> QED
    BY <1>2, <2>1 DEF Splices
<1>5. ~ Blank(Line(e))
  BY <1>1 DEF Blank
<1> QED
  BY <1>2, <1>3, <1>4, <1>5 DEF Decodes
-----------------------------------------------------------------------------
(* What the invariant says of the calls of append_event that returned. *)

LEMMA IntactLine ==
  ASSUME TypeInv, Layout, NEW i \in 1 .. Len(written),
         NEW a, a.ev = written[i].ev, a.end = written[i].end
  PROVE  Intact(a)
<1> DEFINE e == written[i].ev
           p == StartOf(i)
<1>1. /\ e \in Events /\ Size[e] \in Nat /\ Size[e] >= 2 /\ file \in Seq(Bytes)
      /\ Len(file) \in Nat /\ Len(written) \in Nat
  BY WrittenTyped
<1>2. p \in Nat /\ written[i].end = p + Size[e] /\ p + Size[e] <= Len(file)
  BY LineFacts
<1>3. LineEnd(p) = written[i].end /\ Raw(p) = Line(e)
  BY LineAt
<1>4. SubSeq(file, p + 1, p + Size[e]) = Line(e)
  BY <1>2, <1>3 DEF Raw
<1>5. LineStart(p)
  <2>1. CASE i = 1
    BY <2>1 DEF Layout, LineStart
  <2>2. CASE i # 1
    <3>1. i - 1 \in 1 .. Len(written) /\ p = written[i - 1].end
      BY <1>1, <2>2 DEF Layout
    <3> DEFINE d == written[i - 1].ev
    <3>2. /\ Size[d] \in Nat /\ Size[d] >= 2
          /\ StartOf(i - 1) \in Nat /\ p = StartOf(i - 1) + Size[d] /\ p <= Len(file)
      BY <3>1, WrittenTyped, LineFacts
    <3>3. \A k \in 1 .. Size[d] : file[StartOf(i - 1) + k] = <<d, k>>
      BY <3>1 DEF Layout
    <3> HIDE DEF d, p
    <3>4. file[p] = <<d, Size[d]>>
      BY <3>2, <3>3
    <3>5. p \in 1 .. Len(file)
      BY <1>1, <3>2
    <3> QED
      BY <3>4, <3>5 DEF LineStart, IsNewline
  <2> QED
    BY <2>1, <2>2
<1> HIDE DEF e, p
<1>6. a.ev = e /\ a.end = p + Size[e]
  BY <1>2 DEF e
<1>7. a.end - Size[e] = p /\ a.end \in Size[e] .. Len(file)
  BY <1>1, <1>2, <1>6
<1> QED
  BY <1>4, <1>5, <1>6, <1>7 DEF Intact

LEMMA WriteInvMeaning ==
  ASSUME TypeInv, WriteInv
  PROVE  AckedReadable /\ CursorWhenAlone
<1>1. AckedReadable
  <2> SUFFICES ASSUME NEW a \in acked PROVE Intact(a)
    BY DEF AckedReadable
  <2>1. PICK i \in 1 .. Len(written) : written[i].ev = a.ev /\ written[i].end = a.end
    BY DEF WriteInv, AckedLogged, Logged
  <2> QED
    BY <2>1, IntactLine DEF WriteInv
<1>2. CursorWhenAlone
  <2> SUFFICES ASSUME NEW a \in acked,
                      \A i \in 1 .. Len(written) :
                        written[i].end \notin a.cursor - Size[a.ev] + 1 .. a.end - Size[a.ev]
               PROVE  a.cursor = a.end
    BY DEF CursorWhenAlone
  <2>1. PICK i \in 1 .. Len(written) : written[i].ev = a.ev /\ written[i].end = a.end
    BY DEF WriteInv, AckedLogged, Logged
  <2>2. /\ a.cursor \in Nat /\ a.end \in Nat /\ Size[a.ev] \in Nat
        /\ a.cursor >= Size[a.ev] /\ a.cursor <= a.end
    BY SizeIsNat DEF TypeInv, TypeOK, WriteInv, AckedLogged
  <2>3. StartOf(i) = a.end - Size[a.ev] /\ Aligned(StartOf(i)) /\ StartOf(i) \in Nat
    BY <2>1, LineFacts DEF StartOf, WriteInv
  <2>4. CASE StartOf(i) = 0
    BY <2>2, <2>3, <2>4
  <2>5. CASE \E j \in 1 .. Len(written) : written[j].end = StartOf(i)
    <3>1. StartOf(i) \notin a.cursor - Size[a.ev] + 1 .. a.end - Size[a.ev]
      BY <2>5
    <3> QED
      BY <2>2, <2>3, <3>1
  <2> QED
    BY <2>3, <2>4, <2>5 DEF Aligned
<1> QED
  BY <1>1, <1>2

-----------------------------------------------------------------------------
(* Writers keep it. *)

\* A step keeps the log and may add lines behind it.
Grows ==
  /\ Len(written') \in Nat /\ Len(written) <= Len(written')
  /\ \A i \in 1 .. Len(written) : written'[i] = written[i]
  /\ Len(file') \in Nat /\ Len(file) <= Len(file')
  /\ \A i \in 1 .. Len(written') : i > Len(written) => StartOf(i)' >= Len(file)

\* What closing the file adds to the log.
LEMMA WholeWrite ==
  ASSUME TypeInv, WriteInv, NEW w \in Writers, WriteRest(w)
  PROVE  LET e == writer[w].ev
             n == Len(written)
         IN  /\ e \in Events /\ Size[e] \in Nat /\ Size[e] >= 2
             /\ writer[w].cursor >= Size[e] /\ writer[w].cursor <= Len(file) + Size[e]
             /\ exists /\ writer[w].left = Size[e] /\ writer[w].pc = "flushing"
             /\ Len(file') = Len(file) + Size[e]
             /\ \A k \in 1 .. Len(file) : file'[k] = file[k]
             /\ \A k \in 1 .. Size[e] : file'[Len(file) + k] = <<e, k>>
             /\ Len(written') = n + 1
             /\ \A i \in 1 .. n : written'[i] = written[i]
             /\ written'[n + 1].ev = e /\ written'[n + 1].end = Len(file) + Size[e]
<1> DEFINE e == writer[w].ev
           n == Len(written)
<1>1. /\ writer[w].pc = "flushing" /\ e \in Events /\ writer[w].left \in 1 .. Size[e]
      /\ writer[w].left = Size[e] /\ exists
      /\ writer[w].cursor >= Size[e] /\ writer[w].cursor <= Len(file) + Size[e]
  BY DEF WriteRest, TypeInv, CallsTyped, WriteInv, WholeCalls
<1>2. Size[e] \in Nat /\ Size[e] >= 2
  BY <1>1, SizeIsNat
<1>3. Size[e] \in 1 .. writer[w].left /\ file' = file \o Chunk(w, Size[e])
  BY <1>1, <1>2 DEF WriteRest
<1>4. /\ Len(file') = Len(file) + Size[e]
      /\ \A k \in 1 .. Len(file) : file'[k] = file[k]
      /\ \A k \in 1 .. Size[e] : file'[Len(file) + k] = <<e, Size[e] - writer[w].left + k>>
  BY <1>1, <1>3, ExtendFile
<1>5. \A k \in 1 .. Size[e] : Size[e] - writer[w].left + k = k
  BY <1>1, <1>2
<1> DEFINE new == [ev |-> e, end |-> Len(file) + Size[e]]
<1>6. written \in Seq([ev : Events, end : Nat]) /\ new \in [ev : Events, end : Nat]
  BY <1>1, <1>2, WrittenTyped DEF TypeInv, TypeOK
<1>7. written' = Append(written, new)
  BY <1>1 DEF WriteRest
<1>8. new.ev = e /\ new.end = Len(file) + Size[e]
  OBVIOUS
<1> HIDE DEF new
<1>9. Len(written') = n + 1 /\ written'[n + 1] = new
      /\ \A i \in 1 .. n : written'[i] = written[i]
  BY <1>6, <1>7, AppendProperties
<1> QED
  BY <1>1, <1>2, <1>4, <1>5, <1>8, <1>9

LEMMA NextLayout ==
  ASSUME TypeInv, WriteInv, NEW w \in Writers, WriteRest(w)
  PROVE  Layout' /\ Grows
<1> DEFINE e == writer[w].ev
<1>n. PICK n : n = Len(written)
  OBVIOUS
<1>1. /\ n \in Nat /\ Len(file) \in Nat
      /\ \A i \in 1 .. n : written[i].end \in Nat /\ Size[written[i].ev] \in Nat
  BY <1>n, WrittenTyped
<1>2. /\ e \in Events /\ Size[e] \in Nat /\ Size[e] >= 2
      /\ Len(file') = Len(file) + Size[e]
      /\ \A k \in 1 .. Len(file) : file'[k] = file[k]
      /\ \A k \in 1 .. Size[e] : file'[Len(file) + k] = <<e, k>>
      /\ Len(written') = n + 1
      /\ \A i \in 1 .. n : written'[i] = written[i]
      /\ written'[n + 1].ev = e /\ written'[n + 1].end = Len(file) + Size[e]
  BY <1>n, WholeWrite
<1> HIDE DEF e
<1>3. \A i \in 1 .. n :
        /\ StartOf(i)' = StartOf(i) /\ StartOf(i) \in Nat
        /\ written[i].end = StartOf(i) + Size[written[i].ev] /\ written[i].end <= Len(file)
  BY <1>2, <1>n, LineFacts DEF StartOf, WriteInv
<1>4. StartOf(n + 1)' = Len(file)
  BY <1>1, <1>2 DEF StartOf
<1>5. \A i \in 1 .. n + 1 : i \in 1 .. n \/ i = n + 1
  BY <1>1
<1>6. ASSUME NEW i \in 1 .. n + 1
      PROVE  /\ StartOf(i)' = IF i = 1 THEN 0 ELSE written'[i - 1].end
             /\ \A k \in 1 .. Size[written'[i].ev] :
                  file'[StartOf(i)' + k] = <<written'[i].ev, k>>
  <2>1. CASE i \in 1 .. n
    <3>1. /\ StartOf(i) = IF i = 1 THEN 0 ELSE written[i - 1].end
          /\ \A k \in 1 .. Size[written[i].ev] :
               file[StartOf(i) + k] = <<written[i].ev, k>>
      BY <1>n, <2>1 DEF WriteInv, Layout
    <3>2. i # 1 => written'[i - 1] = written[i - 1]
      BY <1>1, <1>2, <2>1
    <3>3. \A k \in 1 .. Size[written[i].ev] : StartOf(i) + k \in 1 .. Len(file)
      <4>1. /\ StartOf(i) \in Nat /\ StartOf(i) + Size[written[i].ev] <= Len(file)
            /\ Len(file) \in Nat /\ Size[written[i].ev] \in Nat
        <5>1. i \in 1 .. n
          BY <2>1
        <5> QED
          BY <1>1, <1>3, <5>1
      <4>2. \A s, z, l \in Nat : s + z <= l => \A k \in 1 .. z : s + k \in 1 .. l
        OBVIOUS
      <4> QED
        BY <4>1, <4>2
    <3> QED
      BY <1>2, <1>3, <2>1, <3>1, <3>2, <3>3
  <2>2. CASE i = n + 1
    <3>1. /\ n = 0 => Len(file) = 0
          /\ n > 0 => written[n].end = Len(file)
      BY <1>n DEF WriteInv, Layout
    <3>2. i # 1 => written'[i - 1] = written[n] /\ n > 0
      BY <1>1, <1>2, <2>2
    <3>3. StartOf(i)' = Len(file) /\ written'[i].ev = e
      BY <1>2, <1>4, <2>2
    <3>4. Len(file) = IF i = 1 THEN 0 ELSE written'[i - 1].end
      BY <1>1, <2>2, <3>1, <3>2
    <3> QED
      BY <1>2, <3>3, <3>4
  <2> QED
    BY <1>5, <2>1, <2>2
<1>7. ASSUME NEW i \in 1 .. n + 1, NEW j \in 1 .. n + 1, i < j
      PROVE  written'[i].end <= StartOf(j)'
  <2>1. i \in 1 .. n /\ written'[i] = written[i]
    BY <1>1, <1>2, <1>7
  <2>2. CASE j \in 1 .. n
    BY <1>n, <1>2, <1>3, <1>7, <2>1, <2>2 DEF WriteInv, Layout
  <2>3. CASE j = n + 1
    BY <1>3, <1>4, <2>1, <2>3
  <2> QED
    BY <1>5, <2>2, <2>3
<1>8. /\ n + 1 \in Nat /\ n + 1 > 0
      /\ written'[n + 1].end = Len(file') /\ Len(written') # 0
  BY <1>1, <1>2
<1>9. Layout'
  BY <1>2, <1>6, <1>7, <1>8 DEF Layout
<1>10. Grows
  BY <1>n, <1>1, <1>2, <1>4, <1>5 DEF Grows
<1> QED
  BY <1>9, <1>10

\* The line is in the log after the step.
LoggedNext(ev, end) ==
  \E i \in 1 .. Len(written') : written'[i].ev = ev /\ written'[i].end = end

LEMMA LoggedKept ==
  ASSUME TypeInv, Grows, NEW ev, NEW end, Logged(ev, end)
  PROVE  LoggedNext(ev, end)
<1>1. PICK i \in 1 .. Len(written) : written[i].ev = ev /\ written[i].end = end
  BY DEF Logged
<1>2. i \in 1 .. Len(written') /\ written'[i] = written[i]
  BY WrittenTyped DEF Grows
<1> QED
  BY <1>1, <1>2 DEF LoggedNext

\* Readers, and writers that do not write, leave the log as it is.
LEMMA LogUnchanged ==
  ASSUME TypeInv, Layout, UNCHANGED <<file, written>>
  PROVE  Layout' /\ Grows
<1>1. Len(written) \in Nat /\ Len(file) \in Nat
  BY WrittenTyped
<1>2. Grows
  BY <1>1 DEF Grows
<1>3. Layout'
  BY <1>1 DEF Layout, StartOf
<1> QED
  BY <1>2, <1>3

LEMMA NextWriteInv ==
  ASSUME ~ ShortWrites, ~ PowerCuts, TypeInv, WriteInv, [Next]_vars
  PROVE  WriteInv' /\ Grows
<1>t. /\ Len(file) \in Nat /\ writer \in [Writers -> WriterRecord]
      /\ Layout /\ WholeCalls /\ AckedLogged /\ (~ exists => Len(file) = 0)
  BY WrittenTyped DEF TypeInv, TypeOK, WriteInv
<1>1. ASSUME UNCHANGED <<exists, file, writer, written, acked>>
      PROVE  WriteInv' /\ Grows
  BY <1>t, <1>1, LogUnchanged DEF WriteInv, WholeCalls, AckedLogged, Logged
<1>2. ASSUME NEW w \in Writers, NEW e \in Events, NEW f \in BOOLEAN, Open(w, e, f)
      PROVE  WriteInv' /\ Grows
  <2>1. Layout' /\ Grows /\ AckedLogged' /\ exists'
    BY <1>t, <1>2, LogUnchanged DEF Open, AckedLogged, Logged
  <2>2. ASSUME NEW v \in Writers \ {w} PROVE writer'[v] = writer[v]
    BY <1>t, <1>2 DEF Open
  <2>3. /\ writer'[w].pc = "flushing" /\ writer'[w].ev = e /\ writer'[w].left = Size[e]
        /\ writer'[w].cursor = Len(file) + Size[e]
    BY <1>t, <1>2 DEF Open
  <2>4. WholeCalls'
    BY <1>t, <1>2, <2>1, <2>2, <2>3, SizeIsNat DEF Open, WholeCalls, Logged
  <2> QED
    BY <2>1, <2>4 DEF WriteInv
<1>3. ASSUME NEW w \in Writers, WriteRest(w) PROVE WriteInv' /\ Grows
  <2> DEFINE e == writer[w].ev
             end == Len(file) + Size[e]
  <2>1. /\ e \in Events /\ Size[e] \in Nat /\ writer[w].left = Size[e]
        /\ writer[w].cursor >= Size[e] /\ writer[w].cursor <= end /\ exists
        /\ Len(file') = end
        /\ Len(written') = Len(written) + 1
        /\ written'[Len(written) + 1].ev = e /\ written'[Len(written) + 1].end = end
    BY <1>t, <1>3, WholeWrite
  <2>2. Layout' /\ Grows /\ exists'
    BY <1>3, <1>t, <2>1, NextLayout DEF WriteRest
  <2>l. Len(written) + 1 \in 1 .. Len(written')
    BY <2>1, WrittenTyped
  <2>3. ASSUME NEW f, NEW m, f = e, m = end PROVE LoggedNext(f, m)
    BY <2>1, <2>3, <2>l DEF LoggedNext
  <2>4. AckedLogged'
    <3>1. ASSUME NEW a \in acked'
          PROVE  \/ a \in acked
                 \/ a.ev = e /\ a.end = end /\ a.cursor = writer[w].cursor
      BY <1>3, <2>1 DEF WriteRest, Ack
    <3>2. ASSUME NEW a \in acked PROVE LoggedNext(a.ev, a.end)
      BY <1>t, <2>2, <3>2, LoggedKept DEF AckedLogged
    <3> QED
      BY <1>t, <2>1, <2>3, <3>1, <3>2 DEF AckedLogged, Logged, LoggedNext
  <2>5. WholeCalls'
    <3> SUFFICES ASSUME NEW v \in Writers
                 PROVE  /\ writer'[v].pc # "idle" =>
                             exists' /\ writer'[v].cursor >= Size[writer'[v].ev]
                        /\ writer'[v].pc = "flushing" =>
                             /\ writer'[v].left = Size[writer'[v].ev]
                             /\ writer'[v].cursor <= Len(file') + Size[writer'[v].ev]
                        /\ writer'[v].pc = "syncing" =>
                             /\ LoggedNext(writer'[v].ev, writer'[v].end)
                             /\ writer'[v].cursor <= writer'[v].end
      BY DEF WholeCalls, Logged, LoggedNext
    <3>1. CASE v = w
      <4>1. \/ writer'[w] = IdleWriter
            \/ /\ writer'[w].pc = "syncing" /\ writer'[w].ev = e /\ writer'[w].end = end
               /\ writer'[w].cursor = writer[w].cursor
        <5>1. \/ writer' = [writer EXCEPT ![w] = IdleWriter]
              \/ writer' = [writer EXCEPT ![w].pc = "syncing", ![w].left = 0,
                                          ![w].end = Len(file) + writer[w].left]
          BY <1>3 DEF WriteRest
        <5> QED
          BY <1>t, <2>1, <5>1 DEF WriterRecord
      <4> QED
        BY <2>1, <2>2, <2>3, <3>1, <4>1 DEF IdleWriter
    <3>2. CASE v # w
      <4>1. writer'[v] = writer[v]
        BY <1>3, <1>t, <3>2 DEF WriteRest
      <4>2. /\ writer[v].pc # "idle" =>
                 /\ writer[v].cursor >= Size[writer[v].ev]
                 /\ writer[v].ev \in Events /\ Size[writer[v].ev] \in Nat
            /\ writer[v].cursor \in Nat
            /\ writer[v].pc = "flushing" =>
                 /\ writer[v].left = Size[writer[v].ev]
                 /\ writer[v].cursor <= Len(file) + Size[writer[v].ev]
            /\ writer[v].pc = "syncing" =>
                 Logged(writer[v].ev, writer[v].end) /\ writer[v].cursor <= writer[v].end
        BY <1>t, SizeIsNat DEF WholeCalls, WriterRecord, TypeInv, CallsTyped
      <4>3. Len(file) <= Len(file') /\ Len(file') \in Nat
        BY <2>2 DEF Grows
      <4>4. writer[v].pc = "syncing" => LoggedNext(writer[v].ev, writer[v].end)
        BY <4>2, <2>2, LoggedKept
      <4> QED
        BY <1>t, <2>2, <4>1, <4>2, <4>3, <4>4
    <3> QED
      BY <3>1, <3>2
  <2> QED
    BY <2>2, <2>4, <2>5 DEF WriteInv
<1>4. ASSUME NEW w \in Writers, Fsync(w) PROVE WriteInv' /\ Grows
  <2>1. Layout' /\ Grows
    BY <1>t, <1>4, LogUnchanged DEF Fsync
  <2>2. AckedLogged'
    <3>1. ASSUME NEW a \in acked'
          PROVE  \/ a \in acked
                 \/ /\ a.ev = writer[w].ev /\ a.end = writer[w].end
                    /\ a.cursor = writer[w].cursor
      BY <1>4 DEF Fsync, Ack
    <3>2. /\ Logged(writer[w].ev, writer[w].end)
          /\ writer[w].cursor <= writer[w].end /\ writer[w].cursor >= Size[writer[w].ev]
      BY <1>t, <1>4 DEF Fsync, WholeCalls
    <3> QED
      BY <1>t, <1>4, <3>1, <3>2 DEF Fsync, AckedLogged, Logged
  <2>3. WholeCalls'
    <3>1. \A v \in Writers : writer'[v] = writer[v] \/ writer'[v].pc = "idle"
      BY <1>t, <1>4 DEF Fsync, IdleWriter
    <3> QED
      BY <1>t, <1>4, <3>1 DEF Fsync, WholeCalls, Logged
  <2> QED
    BY <1>t, <1>4, <2>1, <2>2, <2>3 DEF Fsync, WriteInv
<1>5. ASSUME NEW w \in Writers, Abort(w) PROVE WriteInv' /\ Grows
  <2>1. Layout' /\ Grows /\ AckedLogged'
    BY <1>t, <1>5, LogUnchanged DEF Abort, AckedLogged, Logged
  <2>2. \A v \in Writers : writer'[v] = writer[v] \/ writer'[v].pc = "idle"
    BY <1>t, <1>5 DEF Abort, IdleWriter
  <2>3. WholeCalls'
    BY <1>t, <1>5, <2>2 DEF Abort, WholeCalls, Logged
  <2> QED
    BY <1>t, <1>5, <2>1, <2>3 DEF Abort, WriteInv
<1> QED
  BY <1>1, <1>2, <1>3, <1>4, <1>5
  DEF Next, WriterStep, ReaderStep, Refuse, WritePart, PowerCut, StartRead, StopBefore,
      Eof, ReadBlank, ReadEvent, ReadSpliced, ReadBroken, vars

LEMMA InitWriteInv == Init => WriteInv
<1>1. Len(<< >>) = 0
  OBVIOUS
<1> QED
  BY <1>1 DEF Init, WriteInv, Layout, WholeCalls, AckedLogged, IdleWriter

\* "Atomically append one event as a single JSONL line": with whole writes, an
\* event whose append_event returned is a line of its own, however many
\* writers there are, and stays one.
THEOREM AcknowledgedIsLogged ==
  ASSUME ~ ShortWrites, ~ PowerCuts
  PROVE  Spec => []AckedReadable
<1>1. Init => TypeInv /\ WriteInv
  BY InitTypeInv, InitWriteInv
<1>2. TypeInv /\ WriteInv /\ [Next]_vars => (TypeInv /\ WriteInv)'
  BY NextTypeInv, NextWriteInv
<1>3. TypeInv /\ WriteInv => AckedReadable
  BY WriteInvMeaning
<1> QED
  BY <1>1, <1>2, <1>3, PTL DEF Spec

\* The cursor append() returns is the end of the event's line unless another
\* line came in while it ran.
THEOREM CursorIsLineEnd ==
  ASSUME ~ ShortWrites, ~ PowerCuts
  PROVE  Spec => []CursorWhenAlone
<1>1. Init => TypeInv /\ WriteInv
  BY InitTypeInv, InitWriteInv
<1>2. TypeInv /\ WriteInv /\ [Next]_vars => (TypeInv /\ WriteInv)'
  BY NextTypeInv, NextWriteInv
<1>3. TypeInv /\ WriteInv => CursorWhenAlone
  BY WriteInvMeaning
<1> QED
  BY <1>1, <1>2, <1>3, PTL DEF Spec
-----------------------------------------------------------------------------
(* Readers. *)

LEMMA ReadInvMeaning ==
  ASSUME TypeInv, ReadInv
  PROVE  ReadsInOrder /\ CompleteAtEof /\ NeverBroken
<1>1. \A r \in Readers : Aligned(reader[r].after) => Faithful(written, reader[r])
  BY DEF ReadInv, Aligned, Between
<1>2. \A i \in 1 .. Len(written) : Start(written[i]) = StartOf(i)
  BY DEF Start, StartOf
<1>3. ReadsInOrder
  BY <1>1, <1>2 DEF ReadsInOrder, Faithful, Yields
<1>4. CompleteAtEof
  <2> SUFFICES ASSUME NEW r \in Readers, Aligned(reader[r].after), reader[r].status = "eof",
                      NEW i \in 1 .. Len(written), StartOf(i) >= reader[r].after,
                      written[i].end <= reader[r].goal, written[i].ev \in reader[r].accepts
               PROVE  \E j \in 1 .. Len(reader[r].out) :
                        reader[r].out[j] = [ev |-> written[i].ev, at |-> StartOf(i)]
    BY DEF CompleteAtEof
  <2>1. Complete(written, reader[r]) /\ reader[r].goal <= reader[r].pos
    BY <1>1 DEF Faithful
  <2>2. written[i].end \in Nat /\ reader[r].goal \in Nat /\ reader[r].pos \in Nat
    BY WrittenTyped DEF TypeInv, TypeOK, ReaderRecord
  <2>3. written[i].end <= reader[r].pos
    BY <2>1, <2>2
  <2> QED
    BY <1>2, <2>1, <2>3 DEF Complete
<1>5. NeverBroken
  BY <1>1 DEF NeverBroken, Faithful
<1> QED
  BY <1>3, <1>4, <1>5

\* vs is ws with more lines behind it; m lies between the two.
Extends(ws, vs, m) ==
  /\ Len(ws) \in Nat /\ Len(vs) \in Nat /\ Len(ws) <= Len(vs) /\ m \in Nat
  /\ \A i \in 1 .. Len(ws) : vs[i] = ws[i] /\ ws[i].end <= m
  /\ \A i \in 1 .. Len(vs) : i > Len(ws) =>
       vs[i].end \in Nat /\ vs[i].end > m /\ Start(vs[i]) \in Nat /\ Start(vs[i]) >= m

\* Appends do not change what is true of a reader.
LEMMA FaithfulKept ==
  ASSUME NEW ws, NEW vs, NEW m, Extends(ws, vs, m),
         NEW rd \in ReaderRecord, rd.after <= m, Between(vs, rd.after),
         Between(ws, rd.after) => Faithful(ws, rd)
  PROVE  Faithful(vs, rd)
<1>1. /\ Len(ws) \in Nat /\ Len(vs) \in Nat /\ Len(ws) <= Len(vs)
      /\ m \in Nat /\ rd.pos \in Nat /\ rd.after \in Nat
      /\ \A i \in 1 .. Len(ws) : i \in 1 .. Len(vs) /\ vs[i] = ws[i]
      /\ \A i \in 1 .. Len(vs) : i \in 1 .. Len(ws) \/ (vs[i].end \in Nat /\ vs[i].end > m)
  BY DEF Extends, ReaderRecord
<1>2. Between(ws, rd.after)
  BY <1>1 DEF Between
<1>3. Faithful(ws, rd)
  BY <1>2
<1>p. Between(ws, rd.pos) /\ rd.pos <= m
  BY <1>1, <1>3 DEF Faithful, Between, Extends
<1>4. Between(vs, rd.pos)
  BY <1>1, <1>p DEF Between
<1>5. Yields(vs, rd)
  <2>1. Yields(ws, rd)
    BY <1>3 DEF Faithful
  <2>2. ASSUME NEW j \in 1 .. Len(rd.out)
        PROVE  \E i \in 1 .. Len(vs) :
                 /\ vs[i].ev = rd.out[j].ev /\ Start(vs[i]) = rd.out[j].at
                 /\ vs[i].end <= rd.pos
    <3>1. PICK i \in 1 .. Len(ws) :
            /\ ws[i].ev = rd.out[j].ev /\ Start(ws[i]) = rd.out[j].at
            /\ ws[i].end <= rd.pos
      BY <2>1 DEF Yields
    <3>2. i \in 1 .. Len(vs) /\ vs[i] = ws[i]
      BY <1>1
    <3> QED
      BY <3>1, <3>2
  <2> QED
    BY <2>1, <2>2 DEF Yields
<1>6. ASSUME Complete(ws, rd) PROVE Complete(vs, rd)
  <2> SUFFICES ASSUME NEW i \in 1 .. Len(vs), Start(vs[i]) >= rd.after,
                      vs[i].end <= rd.pos, vs[i].ev \in rd.accepts
               PROVE  \E j \in 1 .. Len(rd.out) :
                        rd.out[j] = [ev |-> vs[i].ev, at |-> Start(vs[i])]
    BY DEF Complete
  <2>1. i \in 1 .. Len(ws) /\ vs[i] = ws[i]
    BY <1>1, <1>p
  <2> QED
    BY <1>6, <2>1 DEF Complete
<1> QED
  BY <1>3, <1>4, <1>5, <1>6 DEF Faithful

LEMMA GrowsExtends ==
  ASSUME TypeInv, TypeInv', Layout, Grows
  PROVE  Extends(written, written', Len(file))
<1>1. /\ Len(written) \in Nat /\ Len(file) \in Nat
      /\ Len(written') \in Nat /\ Len(written) <= Len(written')
      /\ \A i \in 1 .. Len(written) : written'[i] = written[i]
  BY WrittenTyped DEF Grows
<1>2. \A i \in 1 .. Len(written') :
        /\ written'[i].ev \in Events /\ written'[i].end \in Nat
        /\ Size[written'[i].ev] \in Nat /\ Size[written'[i].ev] >= 2
  <2>1. written' \in Seq([ev : Events, end : Nat])
    BY DEF TypeInv, TypeOK
  <2>2. \A i \in 1 .. Len(written') : written'[i] \in [ev : Events, end : Nat]
    BY <2>1, ElementOfSeq
  <2> QED
    BY <2>2, SizeIsNat
<1>3. ASSUME NEW i \in 1 .. Len(written'), i > Len(written)
      PROVE  /\ written'[i].end > Len(file)
             /\ Start(written'[i]) \in Nat /\ Start(written'[i]) >= Len(file)
  <2>1. written'[i].end - Size[written'[i].ev] >= Len(file)
    BY <1>3 DEF Grows, StartOf
  <2> QED
    BY <1>1, <1>2, <2>1 DEF Start
<1> QED
  BY <1>1, <1>2, <1>3, LineFacts DEF Extends

\* Nothing but the step of a reader changes it.
LEMMA ReadersKept ==
  ASSUME TypeInv, TypeInv', Layout, ReadInv, Grows, UNCHANGED reader
  PROVE  ReadInv'
<1>1. Extends(written, written', Len(file)) /\ Len(file) \in Nat /\ Len(file') \in Nat
      /\ Len(file) <= Len(file')
  BY GrowsExtends, WrittenTyped DEF Grows
<1>2. \A r \in Readers :
        /\ reader[r] \in ReaderRecord
        /\ reader[r].after \in Nat /\ reader[r].after <= Len(file)
        /\ reader[r].goal \in Nat /\ reader[r].goal <= Len(file)
        /\ Between(written, reader[r].after) => Faithful(written, reader[r])
  BY DEF TypeInv, TypeOK, ReadInv, Bounded, ReaderRecord
<1>3. Bounded'
  BY <1>1, <1>2 DEF Bounded
<1>4. \A r \in Readers :
        Between(written', reader[r].after) => Faithful(written', reader[r])
  BY <1>1, <1>2, FaithfulKept
<1> QED
  BY <1>3, <1>4 DEF ReadInv

\* A reader's own step reads the log as it stands.
LEMMA ReaderMoves ==
  ASSUME TypeInv, ReadInv, UNCHANGED <<file, written>>,
         NEW r \in Readers, NEW new, reader' = [reader EXCEPT ![r] = new],
         new.after <= Len(file), new.goal <= Len(file),
         Between(written, new.after) => Faithful(written, new)
  PROVE  ReadInv'
<1>1. reader \in [Readers -> ReaderRecord]
  BY DEF TypeInv, TypeOK
<1>2. \A q \in Readers : reader'[q] = IF q = r THEN new ELSE reader[q]
  BY <1>1
<1>3. Bounded'
  BY <1>2 DEF ReadInv, Bounded
<1>4. \A q \in Readers : Between(written, reader'[q].after) => Faithful(written, reader'[q])
  BY <1>2 DEF ReadInv
<1> QED
  BY <1>3, <1>4 DEF ReadInv

LEMMA ReaderFinishes ==
  ASSUME TypeInv, ReadInv, UNCHANGED <<file, written>>,
         NEW r \in Readers, NEW status, Finish(r, status),
         Between(written, reader[r].after) =>
           status \in {"limit", "until"}
           \/ (status = "eof" /\ reader[r].pc = "reading" /\ reader[r].pos >= Len(file))
  PROVE  ReadInv'
<1> DEFINE rd == reader[r]
           new == [rd EXCEPT !.pc = "idle", !.status = status]
<1>1. /\ rd \in ReaderRecord /\ rd.after <= Len(file) /\ rd.goal <= Len(file)
      /\ rd.pos \in Nat /\ rd.goal \in Nat /\ Len(file) \in Nat
  BY WrittenTyped DEF TypeInv, TypeOK, ReadInv, Bounded, ReaderRecord
<1>2. reader' = [reader EXCEPT ![r] = new]
  BY DEF Finish
<1>3. /\ new.after = rd.after /\ new.goal = rd.goal /\ new.pos = rd.pos /\ new.out = rd.out
      /\ new.accepts = rd.accepts /\ new.status = status /\ new.pc = "idle"
  BY <1>1 DEF ReaderRecord
<1>4. Between(written, rd.after) => Faithful(written, rd)
  BY DEF ReadInv
<1> HIDE DEF new
<1>5. ASSUME Between(written, rd.after) PROVE Faithful(written, new)
  <2>1. /\ Faithful(written, rd)
        /\ \/ status \in {"limit", "until"}
           \/ status = "eof" /\ rd.pc = "reading" /\ rd.pos >= Len(file)
    BY <1>4, <1>5
  <2>2. Between(written, new.pos)
    BY <1>3, <2>1 DEF Faithful
  <2>3. Yields(written, new)
    BY <1>3, <2>1 DEF Faithful, Yields
  <2>4. new.status = "eof" => Complete(written, new) /\ new.goal <= new.pos
    BY <1>1, <1>3, <2>1 DEF Faithful, Complete
  <2> QED
    BY <1>3, <2>1, <2>2, <2>3, <2>4 DEF Faithful, Failures
<1> QED
  BY <1>1, <1>2, <1>3, <1>5, ReaderMoves

LEMMA ReaderStarts ==
  ASSUME TypeInv, WriteInv, ReadInv, NEW r \in Readers, NEW api \in Apis,
         NEW after \in Cursors, NEW until, NEW limit, NEW accepts,
         StartRead(r, api, after, until, limit, accepts)
  PROVE  ReadInv'
<1> DEFINE new ==
     [pc |-> IF exists THEN "reading" ELSE "idle",
      api |-> api, after |-> after, pos |-> after, until |-> until,
      limit |-> limit, accepts |-> accepts, out |-> << >>,
      status |-> IF exists THEN None ELSE "eof", goal |-> Len(file)]
<1>1. reader' = [reader EXCEPT ![r] = new] /\ UNCHANGED <<file, written>>
  BY DEF StartRead
<1>2. /\ new.pc = (IF exists THEN "reading" ELSE "idle")
      /\ new.after = after /\ new.pos = after /\ new.out = << >>
      /\ new.status = (IF exists THEN None ELSE "eof") /\ new.goal = Len(file)
  OBVIOUS
<1> HIDE DEF new
<1>3. Len(file) \in Nat /\ after \in Nat /\ after <= Len(file)
  <2>1. CASE after = 0
    BY <2>1, WrittenTyped
  <2>2. CASE \E a \in acked : after = a.cursor
    <3>1. PICK a \in acked : after = a.cursor
      BY <2>2
    <3>2. PICK i \in 1 .. Len(written) : written[i].end = a.end
      BY DEF WriteInv, AckedLogged, Logged
    <3>3. a.cursor \in Nat /\ a.end \in Nat /\ a.cursor <= a.end
      BY DEF TypeInv, TypeOK, WriteInv, AckedLogged
    <3>4. a.end <= Len(file) /\ Len(file) \in Nat
      BY <3>2, LineFacts, WrittenTyped DEF WriteInv
    <3> QED
      BY <3>1, <3>3, <3>4
  <2> QED
    BY <2>1, <2>2 DEF Cursors
<1>4. Yields(written, new)
  BY <1>2 DEF Yields
<1>5. Complete(written, new)
  <2> SUFFICES ASSUME NEW i \in 1 .. Len(written), Start(written[i]) >= after,
                      written[i].end <= after
               PROVE  FALSE
    BY <1>2 DEF Complete
  <2>1. StartOf(i) \in Nat /\ written[i].end \in Nat /\ StartOf(i) < written[i].end
    BY LineFacts, WrittenTyped DEF WriteInv
  <2> QED
    BY <1>3, <2>1 DEF Start, StartOf
<1>6. new.status = "eof" => new.goal <= new.pos
  <2>1. ~ exists => Len(file) = 0
    BY DEF WriteInv
  <2>2. None # "eof"
    BY ReaderAssumption
  <2> QED
    BY <1>2, <1>3, <2>1, <2>2
<1>7. ASSUME Between(written, new.after) PROVE Faithful(written, new)
  BY <1>2, <1>4, <1>5, <1>6, <1>7, ReaderAssumption DEF Faithful, Failures
<1>8. new.after <= Len(file) /\ new.goal <= Len(file)
  BY <1>2, <1>3
<1> QED
  BY <1>1, <1>7, <1>8, ReaderMoves

\* A line that decodes was a line of the log, and the reader is now behind it.
LEMMA ReaderReads ==
  ASSUME TypeInv, WriteInv, ReadInv, NEW r \in Readers, NEW e \in Events, ReadEvent(r, e)
  PROVE  ReadInv'
<1> DEFINE rd == reader[r]
           pos == rd.pos
           rejected == e \notin rd.accepts
           full == LimitReached(r)
           item == [ev |-> e, at |-> pos]
           new == [rd EXCEPT !.pos = LineEnd(pos),
                             !.out = IF rejected \/ full THEN @ ELSE Append(@, item),
                             !.pc = IF ~ rejected /\ full THEN "idle" ELSE @,
                             !.status = IF ~ rejected /\ full THEN "limit" ELSE @]
<1>1. reader' = [reader EXCEPT ![r] = new] /\ UNCHANGED <<file, written>>
  BY DEF ReadEvent, Take
<1>2. /\ rd \in ReaderRecord /\ pos \in Nat /\ rd.out \in Seq(Yielded) /\ item \in Yielded
      /\ rd.after \in Nat /\ rd.goal \in Nat
      /\ rd.after <= Len(file) /\ rd.goal <= Len(file)
  BY DEF TypeInv, TypeOK, ReadInv, Bounded, ReaderRecord, Yielded
<1>3. /\ new.pos = LineEnd(pos) /\ new.after = rd.after /\ new.goal = rd.goal
      /\ new.accepts = rd.accepts
      /\ new.out = (IF rejected \/ full THEN rd.out ELSE Append(rd.out, item))
      /\ new.pc = (IF ~ rejected /\ full THEN "idle" ELSE rd.pc)
      /\ new.status = (IF ~ rejected /\ full THEN "limit" ELSE rd.status)
  BY <1>2 DEF ReaderRecord
<1>4. /\ Len(rd.out) \in Nat /\ Len(Append(rd.out, item)) = Len(rd.out) + 1
      /\ \A j \in 1 .. Len(rd.out) : Append(rd.out, item)[j] = rd.out[j]
      /\ Append(rd.out, item)[Len(rd.out) + 1] = item
  BY <1>2, AppendProperties, LenProperties
<1>5. item.ev = e /\ item.at = pos
  OBVIOUS
<1>6. /\ ReadsLine(r) /\ Decodes(Raw(pos), e) /\ pos < Len(file) /\ rd.pc = "reading"
  BY DEF ReadEvent, ReadsLine, Proceeds
<1> HIDE DEF new, item, full
<1>7. ASSUME Between(written, rd.after) PROVE Faithful(written, new)
  <2>1. Faithful(written, rd)
    BY <1>7 DEF ReadInv
  <2>2. PICK i \in 1 .. Len(written) : StartOf(i) = pos
    BY <1>2, <1>6, <2>1, AlignedLine DEF Faithful, Between, Aligned, WriteInv
  <2>3. written[i].ev = e /\ LineEnd(pos) = written[i].end
    <3>1. LineEnd(pos) = written[i].end /\ Raw(pos) = Line(written[i].ev)
      BY <2>2, LineAt DEF WriteInv
    <3>2. written[i].ev \in Events
      BY <2>2, WrittenTyped
    <3> QED
      BY <1>6, <3>1, <3>2, LineDecodes
  <2>4. /\ pos < written[i].end /\ written[i].end \in Nat /\ new.pos = written[i].end
        /\ Start(written[i]) = pos
    BY <1>3, <2>2, <2>3, LineFacts, WrittenTyped DEF WriteInv, Start, StartOf
  <2>5. Between(written, new.pos)
    BY <2>4 DEF Between
  <2>6. \A k \in 1 .. Len(written) :
          /\ written[k].end \in Nat /\ Start(written[k]) \in Nat
          /\ Start(written[k]) < written[k].end
    BY LineFacts, WrittenTyped DEF WriteInv, Start, StartOf
  <2>7. /\ \A j \in 1 .. Len(rd.out) : \E k \in 1 .. Len(written) :
             /\ written[k].ev = rd.out[j].ev /\ Start(written[k]) = rd.out[j].at
             /\ written[k].end <= pos
        /\ \A j, k \in 1 .. Len(rd.out) : j < k => rd.out[j].at < rd.out[k].at
    BY <2>1 DEF Faithful, Yields
  <2>8. ASSUME NEW j \in 1 .. Len(rd.out)
        PROVE  rd.out[j].at \in Nat /\ rd.out[j].at < pos
    <3>1. PICK k \in 1 .. Len(written) :
            Start(written[k]) = rd.out[j].at /\ written[k].end <= pos
      BY <2>7
    <3>2. written[k].end \in Nat /\ Start(written[k]) \in Nat /\ Start(written[k]) < written[k].end
      BY <2>6
    <3>3. pos \in Nat
      BY <1>2
    <3> QED
      BY <3>1, <3>2, <3>3
  <2>9. ASSUME rejected \/ full PROVE Yields(written, new)
    <3>1. new.out = rd.out
      BY <1>3, <2>9
    <3>2. \A k \in 1 .. Len(written) : written[k].end <= pos => written[k].end <= new.pos
      BY <1>2, <2>4, <2>6
    <3> QED
      BY <2>7, <3>1, <3>2 DEF Yields
  <2>10. ASSUME ~ (rejected \/ full) PROVE Yields(written, new)
    <3>1. new.out = Append(rd.out, item)
      BY <1>3, <2>10
    <3>2. \A j \in 1 .. Len(new.out) :
            \/ j \in 1 .. Len(rd.out) /\ new.out[j] = rd.out[j]
            \/ j = Len(rd.out) + 1 /\ new.out[j] = item
      BY <1>4, <3>1
    <3>3. ASSUME NEW j \in 1 .. Len(new.out)
          PROVE  \E k \in 1 .. Len(written) :
                   /\ written[k].ev = new.out[j].ev /\ Start(written[k]) = new.out[j].at
                   /\ written[k].end <= new.pos
      <4>1. CASE j \in 1 .. Len(rd.out) /\ new.out[j] = rd.out[j]
        <5>1. PICK k \in 1 .. Len(written) :
                /\ written[k].ev = rd.out[j].ev /\ Start(written[k]) = rd.out[j].at
                /\ written[k].end <= pos
          BY <2>7, <4>1
        <5>2. written[k].end <= new.pos
          BY <1>2, <2>4, <2>6, <5>1
        <5> QED
          BY <4>1, <5>1, <5>2
      <4>2. CASE new.out[j] = item
        BY <1>5, <2>3, <2>4, <4>2
      <4> QED
        BY <3>2, <4>1, <4>2
    <3>4. ASSUME NEW j \in 1 .. Len(new.out), NEW k \in 1 .. Len(new.out), j < k
          PROVE  new.out[j].at < new.out[k].at
      <4>1. j \in 1 .. Len(rd.out) /\ new.out[j] = rd.out[j]
        BY <1>4, <3>1, <3>2, <3>4
      <4>2. CASE k \in 1 .. Len(rd.out) /\ new.out[k] = rd.out[k]
        BY <2>7, <3>4, <4>1, <4>2
      <4>3. CASE new.out[k] = item
        BY <1>5, <2>8, <4>1, <4>3
      <4> QED
        BY <3>2, <4>2, <4>3
    <3> QED
      BY <3>3, <3>4 DEF Yields
  <2>11. ASSUME ~ (~ rejected /\ full) PROVE Complete(written, new)
    <3> SUFFICES ASSUME NEW k \in 1 .. Len(written), Start(written[k]) >= rd.after,
                        written[k].end <= new.pos, written[k].ev \in rd.accepts
                 PROVE  \E j \in 1 .. Len(new.out) :
                          new.out[j] = [ev |-> written[k].ev, at |-> Start(written[k])]
      BY <1>3 DEF Complete
    <3>1. CASE k < i
      <4>1. written[k].end <= pos
        BY <2>2, <3>1 DEF WriteInv, Layout
      <4>2. PICK j \in 1 .. Len(rd.out) :
              rd.out[j] = [ev |-> written[k].ev, at |-> Start(written[k])]
        BY <1>6, <2>1, <4>1 DEF Faithful, Complete
      <4>3. j \in 1 .. Len(new.out) /\ new.out[j] = rd.out[j]
        BY <1>3, <1>4
      <4> QED
        BY <4>2, <4>3
    <3>2. CASE k = i
      <4>1. ~ rejected /\ ~ full /\ new.out = Append(rd.out, item)
        BY <1>3, <2>3, <2>11, <3>2
      <4>2. Len(rd.out) + 1 \in 1 .. Len(new.out) /\ new.out[Len(rd.out) + 1] = item
        BY <1>4, <4>1
      <4> QED
        BY <2>3, <2>4, <3>2, <4>2 DEF item
    <3>3. CASE i < k
      <4>1. written[i].end <= Start(written[k])
        BY <3>3 DEF WriteInv, Layout, Start, StartOf
      <4> QED
        BY <2>4, <2>6, <4>1
    <3> QED
      BY <3>1, <3>2, <3>3, WrittenTyped
  <2>12. /\ new.status = "eof" => new.goal <= new.pos
         /\ new.status \notin Failures
    BY <1>2, <1>3, <2>1, <2>4 DEF Faithful, Failures
  <2>13. new.pc = "reading" \/ new.status = "eof" => ~ (~ rejected /\ full)
    BY <1>3
  <2> QED
    BY <2>5, <2>9, <2>10, <2>11, <2>12, <2>13 DEF Faithful
<1> QED
  BY <1>1, <1>2, <1>3, <1>7, ReaderMoves

\* Between two lines there is always a line to read: none is blank, spliced or
\* broken.
LEMMA LineReadable ==
  ASSUME TypeInv, Layout, NEW p \in Nat, p < Len(file), Between(written, p)
  PROVE  /\ ~ Blank(Raw(p)) /\ ~ Splices(Raw(p))
         /\ \E e \in Events : Decodes(Raw(p), e)
<1>1. PICK i \in 1 .. Len(written) : StartOf(i) = p
  BY AlignedLine DEF Between, Aligned
<1>2. written[i].ev \in Events /\ Raw(p) = Line(written[i].ev)
  BY <1>1, LineAt, WrittenTyped
<1> QED
  BY <1>2, LineDecodes

LEMMA NextReadInv ==
  ASSUME ~ ShortWrites, ~ PowerCuts, TypeInv, WriteInv, ReadInv, [Next]_vars
  PROVE  ReadInv'
<1>1. TypeInv' /\ Grows /\ Layout
  BY NextTypeInv, NextWriteInv DEF WriteInv
<1>2. ASSUME NEW r \in Readers
      PROVE  reader[r].pos \in Nat /\ (Between(written, reader[r].after) =>
                                         Between(written, reader[r].pos))
  BY DEF TypeInv, TypeOK, ReaderRecord, ReadInv, Faithful
<1>3. CASE UNCHANGED reader
  BY <1>1, <1>3, ReadersKept
<1>4. ASSUME NEW r \in Readers, StopBefore(r) PROVE ReadInv'
  BY <1>4, ReaderFinishes DEF StopBefore
<1>5. ASSUME NEW r \in Readers, Eof(r) PROVE ReadInv'
  BY <1>5, ReaderFinishes DEF Eof, Proceeds
<1>6. ASSUME NEW r \in Readers, ReadBlank(r) PROVE ReadInv'
  <2> DEFINE new == [reader[r] EXCEPT !.pos = LineEnd(reader[r].pos)]
  <2>1. reader' = [reader EXCEPT ![r] = new] /\ UNCHANGED <<file, written>>
    BY <1>6 DEF ReadBlank
  <2>2. reader[r].pos < Len(file) /\ Blank(Raw(reader[r].pos))
    BY <1>6 DEF ReadBlank, ReadsLine
  <2>3. ~ Between(written, reader[r].after)
    BY <1>1, <1>2, <2>2, LineReadable
  <2>4. new.after = reader[r].after /\ new.goal = reader[r].goal
    BY DEF TypeInv, TypeOK, ReaderRecord
  <2>5. reader[r].after <= Len(file) /\ reader[r].goal <= Len(file)
    BY DEF ReadInv, Bounded
  <2> HIDE DEF new
  <2> QED
    BY <2>1, <2>3, <2>4, <2>5, ReaderMoves
<1>7. ASSUME NEW r \in Readers, ReadBroken(r) PROVE ReadInv'
  <2>1. /\ reader[r].pos < Len(file)
        /\ ~ \E e \in Events : Decodes(Raw(reader[r].pos), e)
        /\ Finish(r, DecodeError(Raw(reader[r].pos))) /\ UNCHANGED <<file, written>>
    BY <1>7 DEF ReadBroken, ReadsLine
  <2>2. ~ Between(written, reader[r].after)
    BY <1>1, <1>2, <2>1, LineReadable
  <2> QED
    BY <2>1, <2>2, ReaderFinishes
<1>8. ASSUME NEW r \in Readers, ReadSpliced(r) PROVE ReadInv'
  <2>1. /\ reader[r].pos < Len(file) /\ Splices(Raw(reader[r].pos))
        /\ UNCHANGED <<file, written>>
    BY <1>8 DEF ReadSpliced, ReadsLine
  <2>2. ~ Between(written, reader[r].after)
    BY <1>1, <1>2, <2>1, LineReadable
  <2>3. ASSUME NEW rejected \in BOOLEAN, Take(r, Spliced, rejected) PROVE ReadInv'
    <3> DEFINE rd == reader[r]
               out == IF rejected \/ LimitReached(r) THEN rd.out
                      ELSE Append(rd.out, [ev |-> Spliced, at |-> rd.pos])
               pc == IF ~ rejected /\ LimitReached(r) THEN "idle" ELSE rd.pc
               status == IF ~ rejected /\ LimitReached(r) THEN "limit" ELSE rd.status
               new == [rd EXCEPT !.pos = LineEnd(rd.pos), !.out = out, !.pc = pc,
                                 !.status = status]
    <3>r. reader' = [reader EXCEPT ![r] = new]
      BY <2>3 DEF Take
    <3>n. new.after = rd.after /\ new.goal = rd.goal
      BY DEF TypeInv, TypeOK, ReaderRecord
    <3> HIDE DEF new
    <3>1. reader' = [reader EXCEPT ![r] = new] /\ new.after = rd.after /\ new.goal = rd.goal
      BY <3>r, <3>n
    <3>2. reader[r].after <= Len(file) /\ reader[r].goal <= Len(file)
      BY DEF ReadInv, Bounded
    <3> QED
      BY <2>1, <2>2, <3>1, <3>2, ReaderMoves
  <2>4. CASE Finish(r, "AttributeError")
    BY <2>1, <2>2, <2>4, ReaderFinishes
  <2> QED
    BY <1>8, <2>3, <2>4 DEF ReadSpliced
<1>9. ASSUME NEW w \in Writers, WriterStep(w) PROVE UNCHANGED reader
  BY <1>9 DEF WriterStep, Refuse, Open, WritePart, WriteRest, Fsync, Abort
<1> QED
  BY <1>3, <1>4, <1>5, <1>6, <1>7, <1>8, <1>9, ReaderStarts, ReaderReads
  DEF Next, ReaderStep, PowerCut, vars

LEMMA InitReadInv == ASSUME Init PROVE ReadInv
<1>1. Len(file) = 0 /\ Len(written) = 0
  BY EmptySeq DEF Init
<1>2. \A r \in Readers : reader[r] = IdleReader
  BY DEF Init
<1>3. /\ Len(IdleReader.out) = 0 /\ IdleReader.after = 0 /\ IdleReader.goal = 0
      /\ IdleReader.pos = 0 /\ IdleReader.pc = "idle" /\ IdleReader.status = None
  BY EmptySeq DEF IdleReader
<1>4. Faithful(written, IdleReader)
  BY <1>3, ReaderAssumption DEF Faithful, Between, Yields, Failures
<1> QED
  BY <1>1, <1>2, <1>3, <1>4 DEF ReadInv, Bounded

\* The invariant of the log and its readers.
LogInv == TypeInv /\ WriteInv /\ ReadInv

LEMMA LogInvariant ==
  ASSUME ~ ShortWrites, ~ PowerCuts
  PROVE  Spec => []LogInv
<1>1. Init => LogInv
  BY InitTypeInv, InitWriteInv, InitReadInv DEF LogInv
<1>2. LogInv /\ [Next]_vars => LogInv'
  BY NextTypeInv, NextWriteInv, NextReadInv DEF LogInv
<1> QED
  BY <1>1, <1>2, PTL DEF Spec

\* A reader that starts at a line's end yields logged events, each from its own
\* line, in the order of the log and none twice, whatever is appended meanwhile.
THEOREM ReadersInOrder ==
  ASSUME ~ ShortWrites, ~ PowerCuts
  PROVE  Spec => []ReadsInOrder
<1>1. LogInv => ReadsInOrder
  BY ReadInvMeaning DEF LogInv
<1> QED
  BY <1>1, LogInvariant, PTL

\* A reader that reaches the end of the file has missed no accepted event that
\* was in the log, past its start, when it was opened.
THEOREM ReadersComplete ==
  ASSUME ~ ShortWrites, ~ PowerCuts
  PROVE  Spec => []CompleteAtEof
<1>1. LogInv => CompleteAtEof
  BY ReadInvMeaning DEF LogInv
<1> QED
  BY <1>1, LogInvariant, PTL

\* Concurrent appends never make a reader that starts at a line's end raise.
THEOREM ReadersNeverBroken ==
  ASSUME ~ ShortWrites, ~ PowerCuts
  PROVE  Spec => []NeverBroken
<1>1. LogInv => NeverBroken
  BY ReadInvMeaning DEF LogInv
<1> QED
  BY <1>1, LogInvariant, PTL
=============================================================================
