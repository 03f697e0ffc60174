----------------------------- MODULE IntakeProofs -----------------------------
(***************************************************************************)
(* What is in the logs, for any specs, trees, callers and requests: every  *)
(* event has the form its writer's spec gives it, callers are told what    *)
(* became of theirs, and no id is in a log twice while seeds run one at a  *)
(* time.                                                                   *)
(***************************************************************************)
EXTENDS Intake, SequenceTheorems, TLAPS

-----------------------------------------------------------------------------
(* The inductive invariant. *)

ProcRecord ==
  [verb : {None, "append", "run", "seed"},
   pc : {"idle", "spec", "tree", "ready", "open", "write", "answer", "check", "wipe", "seed", "seeded"},
   spec : Specs \union {None}, tree : Trees \union {None}, log : Logs \union {None},
   linked : BOOLEAN, ev : LogEvents \union {None}, id : Nat, force : BOOLEAN,
   n : Int, i : Nat, wipe : Seq(Logs)]

IntakeTyped ==
  /\ spec \in Specs \union {None} /\ tree \in Trees \union {None}
  /\ logs \in [Logs -> Seq(Appends) \union {None}]
  /\ proc \in [Procs -> ProcRecord]
  /\ answers \subseteq [id : 1 .. calls, status : Statuses, log : Logs \union {None}]
  /\ wiped \subseteq 1 .. calls
  /\ calls \in 0 .. MaxCalls /\ seeds \in 0 .. MaxSeeds /\ edits \in 0 .. MaxEdits

Conforms(ev) == ev.type \in DOMAIN Schema[ev.spec] /\ ev.data = Schema[ev.spec][ev.type]

LeafSet(t) == {Leaves[t][k] : k \in 1 .. Len(Leaves[t])}

\* What a process needs is loaded.
Loaded(rd) ==
  /\ rd.pc \notin {"idle", "spec", "tree"} => rd.spec \in Specs /\ rd.tree \in Trees
  /\ rd.verb = "run" /\ rd.pc = "spec" => rd.tree \in Trees
  /\ rd.verb # "run" /\ rd.pc = "tree" => rd.spec \in Specs

\* A caller at work on request id, the n-th at most.
CallerGood(rd, n) ==
  /\ rd.verb \in {None, "append", "run"} /\ (rd.pc # "idle" => rd.verb \in {"append", "run"})
  /\ rd.pc \in {"idle", "spec", "tree", "ready", "open", "write", "answer"}
  /\ rd.pc \in {"open", "write", "answer"} => rd.id \in 1 .. n
  /\ rd.pc \in {"open", "write"} => rd.ev.id = <<"ulid", rd.id>>

\* A seeder about to write its event i.
SeederGood(rd) ==
  /\ rd.verb \in {None, "seed"} /\ (rd.pc # "idle" => rd.verb = "seed")
  /\ rd.pc \in {"idle", "spec", "tree", "open", "write", "check", "wipe", "seed", "seeded"}
  /\ rd.pc \in {"wipe", "seed", "open", "write"} => LeafSet(rd.tree) # {} /\ DOMAIN Schema[rd.spec] # {}
  /\ rd.pc \in {"seed", "open", "write", "seeded"} => rd.wipe = << >>
  /\ rd.pc \in {"spec", "tree", "check", "wipe"} => rd.i = 0
  /\ rd.pc \in {"spec", "tree", "check"} => rd.linked
  /\ rd.pc \in {"seed", "seeded"} => rd.i = 0 \/ rd.i <= rd.n
  /\ rd.pc = "seeded" => rd.i >= rd.n
  /\ rd.pc \in {"open", "write"} =>
       rd.i < rd.n /\ rd.log = LeafFor(rd.tree, rd.i) /\ rd.ev = SeedEvent(rd.spec, rd.tree, rd.i)

ProcGood(p, rd, n) ==
  /\ Loaded(rd)
  /\ p \in Callers => CallerGood(rd, n)
  /\ p \in Seeders => SeederGood(rd)
  /\ rd.pc \in {"open", "write", "answer"} => rd.log \in Logs
  /\ rd.pc \in {"open", "write"} => rd.ev \in LogEvents /\ Conforms(rd.ev)

ProcsGood == \A p \in Procs : ProcGood(p, proc[p], calls)

\* A file is removed under a process only when its log is.
Linked ==
  \A p \in Procs : proc[p].pc = "write" =>
    IF proc[p].linked THEN logs[proc[p].log] # None ELSE p \in Callers => proc[p].id \in wiped

Lines(log) == IF log = None THEN << >> ELSE log

Holds(log, id) == \E i \in 1 .. Len(Lines(log)) : log[i].ev.id = id

\* As a whole line, or as what is left of an append that broke off.
Kept(log, id) == \E i \in 1 .. Len(Lines(log)) : log[i].ev.id = id /\ log[i].left = "line"

Broken(log, id) == \E i \in 1 .. Len(Lines(log)) : log[i].ev.id = id /\ log[i].left # "line"

\* A ulid is a request's.
IdsIssued == \A l \in Logs : \A k \in Nat : Holds(logs[l], <<"ulid", k>>) => k \in 1 .. calls

AtWork(rd) == rd.pc \in {"open", "write", "answer"}

\* No request is another's, answered before, or written before.
CallsApart ==
  \A p \in Callers : AtWork(proc[p]) =>
    /\ \A q \in Callers : AtWork(proc[q]) /\ proc[q].id = proc[p].id => q = p
    /\ \A a \in answers : a.id # proc[p].id
    /\ proc[p].pc # "answer" => \A l \in Logs : ~ Holds(logs[l], <<"ulid", proc[p].id>>)
    /\ proc[p].pc = "answer" /\ proc[p].id \notin wiped =>
         Kept(logs[proc[p].log], <<"ulid", proc[p].id>>)

\* Who was told ok, or is about to be, has not broken off.
BreaksApart ==
  \A l \in Logs : \A k \in Nat : Broken(logs[l], <<"ulid", k>>) =>
    /\ \A a \in answers : a.status = "ok" => a.id # k
    /\ \A p \in Callers : AtWork(proc[p]) => proc[p].id # k

\* What AnswersTellTheTruth says, but for what is before the line.
AnswerGood(a) ==
  /\ a.status = "ok" /\ a.id \notin wiped => a.log \in Logs /\ Kept(logs[a.log], <<"ulid", a.id>>)
  /\ a.status \in {"issues", "raised"} => \A l \in Logs : ~ Holds(logs[l], <<"ulid", a.id>>)

Truth == \A a \in answers : AnswerGood(a)

Distinct(log) ==
  \A i, j \in 1 .. Len(Lines(log)) : log[i].ev.id = log[j].ev.id => i = j

\* What SeedIsReproducible says of a seeder that is done is so for what it has
\* done, as soon as it has wiped the log.
SeedsGood(rd, files) ==
  rd.pc \in {"wipe", "seed", "open", "write", "seeded"} =>
    /\ rd.linked
    /\ \A l \in LeafSet(rd.tree) : rd.force \/ l \in Inside =>
         \/ \E j \in 1 .. Len(rd.wipe) : rd.wipe[j] = l
         \/ Generated(Lines(files[l]), rd.spec, rd.tree, l, rd.i)

OneSeeder == \A p, q \in Seeders : p = q

SeedsApart ==
  OneSeeder =>
    /\ \A p \in Seeders : SeedsGood(proc[p], logs)
    /\ \A l \in Inside : Distinct(logs[l])

AllConform ==
  \A l \in Logs : \A i \in 1 .. Len(Lines(logs[l])) : Conforms(logs[l][i].ev)

IntakeInv ==
  /\ IntakeTyped /\ ProcsGood /\ Linked /\ AllConform
  /\ IdsIssued /\ CallsApart /\ BreaksApart /\ Truth /\ SeedsApart

-----------------------------------------------------------------------------
(* Events and logs. *)

\* coerce_field turns what it accepts into a value of the field's type.
LEMMA NewEventConforms ==
  ASSUME NEW s \in Specs, NEW t, NEW q, NEW k \in Nat, Verdict(s, t, q) = "ready"
  PROVE  /\ NewEvent(k, s, q) \in LogEvents /\ Conforms(NewEvent(k, s, q))
         /\ NewEvent(k, s, q).id = <<"ulid", k>>
         /\ IsLogLeaf(t, q.path)
<1>1. Fits(s, q.type, q.data) /\ IsLogLeaf(t, q.path)
  BY DEF Verdict
<1> DEFINE fields == Schema[s][q.type]
           data == [f \in DOMAIN fields \intersect DOMAIN q.data |-> Coerced(q.data[f], fields[f])]
<1>2. /\ q.type \in DOMAIN Schema[s] /\ DOMAIN q.data = DOMAIN fields
      /\ \A f \in DOMAIN fields : Coercible(q.data[f], fields[f])
  BY <1>1 DEF Fits
<1>3. fields = [f \in DOMAIN fields |-> fields[f]]
  BY <1>2, ProjectAssumption
<1>4. \A f \in DOMAIN fields : Coerced(q.data[f], fields[f]) = fields[f]
  BY <1>2 DEF Coercible, Coerced
<1>5. data = fields
  <2>1. DOMAIN fields \intersect DOMAIN q.data = DOMAIN fields
    BY <1>2
  <2>2. data = [f \in DOMAIN fields |-> Coerced(q.data[f], fields[f])]
    BY <2>1
  <2>3. data = [f \in DOMAIN fields |-> fields[f]]
    BY <1>4, <2>2
  <2> QED
    BY <1>3, <2>3
<1>6. NewEvent(k, s, q) = [id |-> <<"ulid", k>>, type |-> q.type, data |-> data, spec |-> s]
  BY DEF NewEvent, Event
<1> HIDE DEF data
<1>7. q.type \in Types
  BY <1>2 DEF Types
<1>8. fields \in UNION {{Schema[v][e] : e \in DOMAIN Schema[v]} : v \in Specs}
  BY <1>2
<1>9. NewEvent(k, s, q) \in LogEvents
  BY <1>5, <1>6, <1>7, <1>8 DEF LogEvents
<1> QED
  BY <1>1, <1>2, <1>5, <1>6, <1>9 DEF Conforms

\* A type is there to pick as soon as the spec declares one.
LEMMA SeedEventConforms ==
  ASSUME NEW s \in Specs, NEW t \in Trees, NEW i \in Nat, LeafSet(t) # {}, DOMAIN Schema[s] # {}
  PROVE  /\ SeedEvent(s, t, i) \in LogEvents /\ Conforms(SeedEvent(s, t, i))
         /\ SeedEvent(s, t, i).id = <<"seed", i>>
         /\ LeafFor(t, i) \in LeafSet(t) /\ LeafFor(t, i) \in Logs
<1>1. Leaves[t] \in Seq(Logs)
  BY ProjectAssumption
<1>2. Len(Leaves[t]) \in Nat /\ Len(Leaves[t]) # 0
  BY <1>1 DEF LeafSet
<1>3. (i % Len(Leaves[t])) + 1 \in 1 .. Len(Leaves[t])
  <2>1. \A n \in Nat : n # 0 => (i % n) + 1 \in 1 .. n
    OBVIOUS
  <2> QED
    BY <1>2, <2>1
<1>4. LeafFor(t, i) \in LeafSet(t) /\ LeafFor(t, i) \in Logs
  BY <1>1, <1>3 DEF LeafFor, LeafSet
<1> DEFINE type == Pick(s, t, i)
<1>5. type \in DOMAIN Schema[s]
  <2>1. Pool(s, LeafFor(t, i)) # {} /\ Pool(s, LeafFor(t, i)) \subseteq DOMAIN Schema[s]
    BY DEF Pool
  <2> QED
    BY <2>1 DEF Pick
<1>6. SeedEvent(s, t, i) = [id |-> <<"seed", i>>, type |-> type, data |-> Schema[s][type], spec |-> s]
  BY DEF SeedEvent, Event
<1> HIDE DEF type
<1>7. type \in Types
  BY <1>5 DEF Types
<1>8. Schema[s][type] \in UNION {{Schema[v][e] : e \in DOMAIN Schema[v]} : v \in Specs}
  BY <1>5
<1>9. SeedEvent(s, t, i) \in LogEvents
  BY <1>6, <1>7, <1>8 DEF LogEvents
<1> QED
  BY <1>4, <1>5, <1>6, <1>9 DEF Conforms

\* One more append to a log.
LEMMA AppendHolds ==
  ASSUME NEW log \in Seq(Appends), NEW x \in Appends
  PROVE  /\ log # None /\ Append(log, x) # None /\ Append(log, x) \in Seq(Appends)
         /\ Lines(log) = log /\ Lines(Append(log, x)) = Append(log, x)
         /\ \A id : Holds(Append(log, x), id) <=> Holds(log, id) \/ id = x.ev.id
         /\ \A id : Kept(Append(log, x), id) <=> Kept(log, id) \/ (id = x.ev.id /\ x.left = "line")
         /\ \A id : Broken(Append(log, x), id) <=> Broken(log, id) \/ (id = x.ev.id /\ x.left # "line")
         /\ Distinct(log) /\ ~ Holds(log, x.ev.id) => Distinct(Append(log, x))
         /\ \A i \in 1 .. Len(Lines(Append(log, x))) :
              Append(log, x)[i] = x \/ \E j \in 1 .. Len(Lines(log)) : Append(log, x)[i] = log[j]
<1> DEFINE m == Len(log)
           more == Append(log, x)
<1>1. more \in Seq(Appends)
  OBVIOUS
<1>2. log # None /\ more # None
  BY <1>1, ProjectAssumption
<1>3. Lines(log) = log /\ Lines(more) = more
  BY <1>2 DEF Lines
<1>4. /\ m \in Nat /\ Len(more) = m + 1 /\ more[m + 1] = x
      /\ \A i \in 1 .. m : more[i] = log[i]
  OBVIOUS
<1>5. \A i \in 1 .. m + 1 : i = m + 1 \/ i \in 1 .. m
  BY <1>4
<1>6. \A i \in 1 .. m : i \in 1 .. m + 1
  BY <1>4
<1>7. m + 1 \in 1 .. m + 1
  BY <1>4
<1> HIDE DEF more, m
<1>8. \A id : Holds(more, id) <=> Holds(log, id) \/ id = x.ev.id
  <2>1. \A id : Holds(more, id) <=> \E i \in 1 .. m + 1 : more[i].ev.id = id
    BY <1>3, <1>4 DEF Holds
  <2>2. \A id : Holds(log, id) <=> \E i \in 1 .. m : log[i].ev.id = id
    BY <1>3 DEF Holds, m
  <2> QED
    BY <1>4, <1>5, <1>6, <1>7, <2>1, <2>2
<1>9. \A id : Kept(more, id) <=> Kept(log, id) \/ (id = x.ev.id /\ x.left = "line")
  <2>1. \A id : Kept(more, id) <=> \E i \in 1 .. m + 1 : more[i].ev.id = id /\ more[i].left = "line"
    BY <1>3, <1>4 DEF Kept
  <2>2. \A id : Kept(log, id) <=> \E i \in 1 .. m : log[i].ev.id = id /\ log[i].left = "line"
    BY <1>3 DEF Kept, m
  <2> QED
    BY <1>4, <1>5, <1>6, <1>7, <2>1, <2>2
<1>10. \A id : Broken(more, id) <=> Broken(log, id) \/ (id = x.ev.id /\ x.left # "line")
  <2>1. \A id : Broken(more, id) <=> \E i \in 1 .. m + 1 : more[i].ev.id = id /\ more[i].left # "line"
    BY <1>3, <1>4 DEF Broken
  <2>2. \A id : Broken(log, id) <=> \E i \in 1 .. m : log[i].ev.id = id /\ log[i].left # "line"
    BY <1>3 DEF Broken, m
  <2> QED
    BY <1>4, <1>5, <1>6, <1>7, <2>1, <2>2
<1>11. ASSUME Distinct(log), ~ Holds(log, x.ev.id) PROVE Distinct(more)
  <2>1. \A i, j \in 1 .. m : log[i].ev.id = log[j].ev.id => i = j
    BY <1>3, <1>11 DEF Distinct, m
  <2>2. \A i \in 1 .. m : log[i].ev.id # x.ev.id
    BY <1>3, <1>11 DEF Holds, m
  <2>3. \A i, j \in 1 .. m + 1 : more[i].ev.id = more[j].ev.id => i = j
    BY <1>4, <1>5, <2>1, <2>2
  <2> QED
    BY <1>3, <1>4, <2>3 DEF Distinct
<1> QED
  BY <1>1, <1>2, <1>3, <1>4, <1>5, <1>8, <1>9, <1>10, <1>11 DEF more, m

\* No file, or an empty one.
LEMMA EmptyHolds ==
  /\ \A id : ~ Holds(None, id) /\ ~ Holds(<< >>, id)
  /\ \A id : ~ Kept(None, id) /\ ~ Kept(<< >>, id)
  /\ \A id : ~ Broken(None, id) /\ ~ Broken(<< >>, id)
  /\ Distinct(None) /\ Distinct(<< >>)
  /\ Len(Lines(None)) = 0 /\ Len(Lines(<< >>)) = 0
  /\ << >> \in Seq(Appends) /\ << >> # None
<1>1. << >> \in Seq(Appends) /\ << >> # None
  <2>1. << >> \in Seq(Appends)
    OBVIOUS
  <2>2. None \notin Seq(Appends)
    BY ProjectAssumption
  <2> QED
    BY <2>1, <2>2
<1>2. Lines(None) = << >> /\ Lines(<< >>) = << >>
  BY DEF Lines
<1> QED
  BY <1>1, <1>2 DEF Holds, Kept, Broken, Distinct

\* Nothing seeded yet.
LEMMA GeneratedNothing ==
  ASSUME NEW s, NEW t, NEW l PROVE Generated(<< >>, s, t, l, 0)
BY DEF Generated

\* An event that is not seeded.
LEMMA GeneratedBeside ==
  ASSUME NEW s, NEW t, NEW l, NEW n \in Nat, NEW log \in Seq(Appends), NEW ev \in Appends,
         ~ IsSeed(ev.ev), Generated(log, s, t, l, n)
  PROVE  Generated(Append(log, ev), s, t, l, n)
<1> DEFINE m == Len(log)
           more == Append(log, ev)
           due == {i \in 0 .. n - 1 : LeafFor(t, i) = l}
<1>1. /\ m \in Nat /\ Len(more) = m + 1 /\ more[m + 1] = ev
      /\ \A a \in 1 .. m : more[a] = log[a]
  OBVIOUS
<1> HIDE DEF m, more
<1>2. \A a \in 1 .. m + 1 : IsSeed(more[a].ev) => a \in 1 .. m /\ more[a] = log[a]
  BY <1>1
<1>3. \A a \in 1 .. m : a \in 1 .. m + 1
  BY <1>1
<1>4. /\ \A a \in 1 .. m : IsSeed(log[a].ev) => \E i \in due : log[a] = SeedLine(s, t, i)
      /\ \A i \in due : \E a \in 1 .. m : log[a] = SeedLine(s, t, i)
      /\ \A a, b \in 1 .. m : a < b /\ IsSeed(log[a].ev) /\ IsSeed(log[b].ev) => log[a].ev.id[2] < log[b].ev.id[2]
  BY DEF Generated, m
<1> HIDE DEF due
<1>5. \A a \in 1 .. m + 1 : IsSeed(more[a].ev) => \E i \in due : more[a] = SeedLine(s, t, i)
  BY <1>2, <1>4
<1>6. \A i \in due : \E a \in 1 .. m + 1 : more[a] = SeedLine(s, t, i)
  BY <1>1, <1>3, <1>4
<1>7. \A a, b \in 1 .. m + 1 :
        a < b /\ IsSeed(more[a].ev) /\ IsSeed(more[b].ev) => more[a].ev.id[2] < more[b].ev.id[2]
  BY <1>2, <1>4
<1> QED
  BY <1>1, <1>5, <1>6, <1>7 DEF Generated, due, more

\* The next seeded event, in its leaf's log and for the others.
LEMMA GeneratedNext ==
  ASSUME NEW s, NEW t, NEW l, NEW n \in Nat, NEW log, Generated(log, s, t, l, n)
  PROVE  /\ LeafFor(t, n) # l => Generated(log, s, t, l, n + 1)
         /\ LeafFor(t, n) = l /\ log \in Seq(Appends) /\ SeedLine(s, t, n) \in Appends =>
              Generated(Append(log, SeedLine(s, t, n)), s, t, l, n + 1)
<1> DEFINE due == {i \in 0 .. n - 1 : LeafFor(t, i) = l}
           then == {i \in 0 .. n + 1 - 1 : LeafFor(t, i) = l}
<1>1. /\ \A a \in 1 .. Len(log) : IsSeed(log[a].ev) => \E i \in due : log[a] = SeedLine(s, t, i)
      /\ \A i \in due : \E a \in 1 .. Len(log) : log[a] = SeedLine(s, t, i)
      /\ \A a, b \in 1 .. Len(log) :
           a < b /\ IsSeed(log[a].ev) /\ IsSeed(log[b].ev) => log[a].ev.id[2] < log[b].ev.id[2]
  BY DEF Generated
<1>2. \A i : i \in then <=> i \in due \/ (i = n /\ LeafFor(t, n) = l)
  OBVIOUS
<1>3. \A i \in due : i \in Nat /\ i < n
  OBVIOUS
<1>4. \A i : SeedLine(s, t, i).ev.id = <<"seed", i>>
  BY DEF SeedLine, SeedEvent, Event
<1> DEFINE Formed(any) ==
             /\ \A a \in 1 .. Len(any) : IsSeed(any[a].ev) => \E i \in then : any[a] = SeedLine(s, t, i)
             /\ \A i \in then : \E a \in 1 .. Len(any) : any[a] = SeedLine(s, t, i)
             /\ \A a, b \in 1 .. Len(any) :
                  a < b /\ IsSeed(any[a].ev) /\ IsSeed(any[b].ev) => any[a].ev.id[2] < any[b].ev.id[2]
<1>7. ASSUME NEW any, Formed(any) PROVE Generated(any, s, t, l, n + 1)
  <2>1. /\ \A a \in 1 .. Len(any) : IsSeed(any[a].ev) => \E i \in then : any[a] = SeedLine(s, t, i)
        /\ \A i \in then : \E a \in 1 .. Len(any) : any[a] = SeedLine(s, t, i)
        /\ \A a, b \in 1 .. Len(any) :
             a < b /\ IsSeed(any[a].ev) /\ IsSeed(any[b].ev) => any[a].ev.id[2] < any[b].ev.id[2]
    BY <1>7
  <2> HIDE DEF Formed, due
  <2> QED
    BY <2>1, SMTT(30) DEF Generated
<1> HIDE DEF due
<1>5. ASSUME LeafFor(t, n) # l PROVE Generated(log, s, t, l, n + 1)
  <2>1. then = due
    BY <1>2, <1>5
  <2> HIDE DEF then
  <2>2. Formed(log)
    BY <1>1, <2>1
  <2> HIDE DEF Formed
  <2> QED
    BY <1>7, <2>2
<1>6. ASSUME LeafFor(t, n) = l, log \in Seq(Appends), SeedLine(s, t, n) \in Appends
      PROVE  Generated(Append(log, SeedLine(s, t, n)), s, t, l, n + 1)
  <2> DEFINE m == Len(log)
             ev == SeedLine(s, t, n)
             more == Append(log, ev)
  <2>1. /\ m \in Nat /\ Len(more) = m + 1 /\ more[m + 1] = ev
        /\ \A a \in 1 .. m : more[a] = log[a] /\ a \in 1 .. m + 1
    BY <1>6
  <2>2. ev.ev.id = <<"seed", n>> /\ \A a \in 1 .. m + 1 : a = m + 1 \/ (a \in 1 .. m /\ a < m + 1)
    BY <1>4, <2>1
  <2>3. \A a \in 1 .. m : IsSeed(log[a].ev) => log[a].ev.id[2] \in Nat /\ log[a].ev.id[2] < n
    BY <1>1, <1>3, <1>4
  <2>4. m + 1 \in 1 .. m + 1 /\ n \in then
    BY <1>2, <1>6, <2>1
  <2>5. ev = SeedLine(s, t, n)
    OBVIOUS
  <2>6. \A a \in 1 .. m : IsSeed(log[a].ev) => \E i \in due : log[a] = SeedLine(s, t, i)
    BY <1>1
  <2>7. \A i \in due : \E a \in 1 .. m : log[a] = SeedLine(s, t, i)
    BY <1>1
  <2>8. \A a, b \in 1 .. m : a < b /\ IsSeed(log[a].ev) /\ IsSeed(log[b].ev) => log[a].ev.id[2] < log[b].ev.id[2]
    BY <1>1
  <2> HIDE DEF m, ev, more, then
  <2>9. \A a \in 1 .. m + 1 : IsSeed(more[a].ev) => \E i \in then : more[a] = SeedLine(s, t, i)
    BY <1>2, <2>1, <2>2, <2>4, <2>5, <2>6
  <2>10. \A i \in then : \E a \in 1 .. m + 1 : more[a] = SeedLine(s, t, i)
    BY <1>2, <2>1, <2>4, <2>5, <2>7
  <2>11. ASSUME NEW a \in 1 .. m + 1, NEW b \in 1 .. m + 1, a < b, IsSeed(more[a].ev), IsSeed(more[b].ev)
         PROVE  more[a].ev.id[2] < more[b].ev.id[2]
    <3>1. a \in 1 .. m
      BY <2>1, <2>2, <2>11
    <3>2. CASE b = m + 1
      BY <2>1, <2>2, <2>3, <2>11, <3>1, <3>2
    <3>3. CASE b # m + 1
      BY <2>1, <2>2, <2>8, <2>11, <3>1, <3>3
    <3> QED
      BY <3>2, <3>3
  <2>12. Formed(more)
    BY <2>1, <2>9, <2>10, <2>11
  <2>13. more = Append(log, SeedLine(s, t, n))
    BY DEF more, ev
  <2> HIDE DEF Formed
  <2> QED
    BY <1>7, <2>12, <2>13
<1> QED
  BY <1>5, <1>6

\* What is generated up to the n-th holds no id of a later one.
LEMMA GeneratedHolds ==
  ASSUME NEW s, NEW t, NEW l, NEW n \in Nat, NEW log, Generated(Lines(log), s, t, l, n)
  PROVE  \A k \in Nat : Holds(log, <<"seed", k>>) => k < n
<1> SUFFICES ASSUME NEW k \in Nat, NEW a \in 1 .. Len(Lines(log)), log[a].ev.id = <<"seed", k>>
             PROVE  k < n
  BY DEF Holds
<1>1. Lines(log) = log
  <2>1. Lines(log) # << >>
    OBVIOUS
  <2> QED
    BY <2>1 DEF Lines
<1>2. PICK i \in 0 .. n - 1 : log[a] = SeedLine(s, t, i)
  BY <1>1 DEF Generated, IsSeed
<1>3. SeedLine(s, t, i).ev.id = <<"seed", i>>
  BY DEF SeedLine, SeedEvent, Event
<1>4. <<"seed", k>>[2] = <<"seed", i>>[2]
  BY <1>2, <1>3
<1> QED
  BY <1>4

\* One field of a process's record.
LEMMA FieldStays ==
  ASSUME NEW rd \in ProcRecord
  PROVE  /\ \A v \in {None, "append", "run", "seed"} : [rd EXCEPT !.verb = v] \in ProcRecord
         /\ \A v \in {"idle", "spec", "tree", "ready", "open", "write", "answer", "check", "wipe",
                      "seed", "seeded"} : [rd EXCEPT !.pc = v] \in ProcRecord
         /\ \A v \in Specs \union {None} : [rd EXCEPT !.spec = v] \in ProcRecord
         /\ \A v \in Trees \union {None} : [rd EXCEPT !.tree = v] \in ProcRecord
         /\ \A v \in Logs \union {None} : [rd EXCEPT !.log = v] \in ProcRecord
         /\ \A v \in BOOLEAN : [rd EXCEPT !.linked = v] \in ProcRecord
         /\ \A v \in LogEvents \union {None} : [rd EXCEPT !.ev = v] \in ProcRecord
         /\ \A v \in Nat : [rd EXCEPT !.id = v] \in ProcRecord
         /\ \A v \in BOOLEAN : [rd EXCEPT !.force = v] \in ProcRecord
         /\ \A v \in Int : [rd EXCEPT !.n = v] \in ProcRecord
         /\ \A v \in Nat : [rd EXCEPT !.i = v] \in ProcRecord
         /\ \A v \in Seq(Logs) : [rd EXCEPT !.wipe = v] \in ProcRecord
<1> USE DEF ProcRecord
<1>1. \A v \in {None, "append", "run", "seed"} : [rd EXCEPT !.verb = v] \in ProcRecord
  OBVIOUS
<1>2. \A v \in {"idle", "spec", "tree", "ready", "open", "write", "answer", "check", "wipe",
                "seed", "seeded"} : [rd EXCEPT !.pc = v] \in ProcRecord
  OBVIOUS
<1>3. \A v \in Specs \union {None} : [rd EXCEPT !.spec = v] \in ProcRecord
  OBVIOUS
<1>4. \A v \in Trees \union {None} : [rd EXCEPT !.tree = v] \in ProcRecord
  OBVIOUS
<1>5. \A v \in Logs \union {None} : [rd EXCEPT !.log = v] \in ProcRecord
  OBVIOUS
<1>6. \A v \in BOOLEAN : [rd EXCEPT !.linked = v] \in ProcRecord
  OBVIOUS
<1>7. \A v \in LogEvents \union {None} : [rd EXCEPT !.ev = v] \in ProcRecord
  OBVIOUS
<1>8. \A v \in Nat : [rd EXCEPT !.id = v] \in ProcRecord
  OBVIOUS
<1>9. \A v \in BOOLEAN : [rd EXCEPT !.force = v] \in ProcRecord
  OBVIOUS
<1>10. \A v \in Int : [rd EXCEPT !.n = v] \in ProcRecord
  OBVIOUS
<1>11. \A v \in Nat : [rd EXCEPT !.i = v] \in ProcRecord
  OBVIOUS
<1>12. \A v \in Seq(Logs) : [rd EXCEPT !.wipe = v] \in ProcRecord
  OBVIOUS
<1> HIDE DEF ProcRecord
<1> QED
  BY <1>1, <1>2, <1>3, <1>4, <1>5, <1>6, <1>7, <1>8, <1>9, <1>10, <1>11, <1>12

LEMMA IdleIsRecord ==
  /\ Idle \in ProcRecord
  /\ \A p, n : ProcGood(p, Idle, n)
<1>1. Idle \in ProcRecord
  BY DEF Idle, ProcRecord
<1>2. Idle.pc = "idle" /\ Idle.verb = None
  BY DEF Idle
<1> QED
  BY <1>1, <1>2 DEF ProcGood, Loaded, CallerGood, SeederGood

-----------------------------------------------------------------------------
(* Steps of one process that leave logs and answers alone. *)

LEMMA InitIntakeInv == Init => IntakeInv
<1> SUFFICES ASSUME Init PROVE IntakeInv
  OBVIOUS
<1>1. IntakeTyped
  BY CountAssumption, IdleIsRecord DEF Init, IntakeTyped
<1>2. \A p \in Procs : proc[p] = Idle /\ proc[p].pc = "idle"
  BY DEF Init, Idle
<1>3. \A l \in Logs : logs[l] = None
  BY DEF Init
<1>4. answers = {}
  BY DEF Init
<1>5. ProcsGood
  BY <1>2, IdleIsRecord DEF ProcsGood
<1>6. Linked
  BY <1>2 DEF Linked
<1>7. AllConform
  BY <1>3, EmptyHolds DEF AllConform
<1>8. IdsIssued
  BY <1>3, EmptyHolds DEF IdsIssued
<1>9. CallsApart
  BY <1>2 DEF CallsApart, AtWork, Procs
<1>10. Truth /\ BreaksApart
  BY <1>3, <1>4, EmptyHolds DEF Truth, BreaksApart
<1>11. SeedsApart
  BY <1>2, <1>3, EmptyHolds, ProjectAssumption DEF SeedsApart, SeedsGood, Procs
<1> QED
  BY <1>1, <1>5, <1>6, <1>7, <1>8, <1>9, <1>10, <1>11 DEF IntakeInv

LEMMA ProcMoves ==
  ASSUME IntakeInv, NEW p \in Procs, NEW new \in ProcRecord,
         calls' \in Nat, calls <= calls', ProcGood(p, new, calls'), proc' = [proc EXCEPT ![p] = new]
  PROVE  ProcsGood' /\ proc' \in [Procs -> ProcRecord]
<1>1. proc \in [Procs -> ProcRecord] /\ calls \in Nat
  BY CountAssumption DEF IntakeInv, IntakeTyped
<1>2. proc' \in [Procs -> ProcRecord]
  BY <1>1
<1>3. ASSUME NEW q \in Procs PROVE ProcGood(q, proc'[q], calls')
  <2>1. CASE q = p
    BY <1>1, <2>1
  <2>2. CASE q # p
    <3>1. proc'[q] = proc[q] /\ ProcGood(q, proc[q], calls)
      BY <1>1, <2>2 DEF IntakeInv, ProcsGood
    <3>2. \A k \in 1 .. calls : k \in 1 .. calls'
      BY <1>1
    <3> QED
      BY <3>1, <3>2 DEF ProcGood, CallerGood
  <2> QED
    BY <2>1, <2>2
<1> QED
  BY <1>2, <1>3 DEF ProcsGood

LEMMA QuietStep ==
  ASSUME IntakeInv, NEW p \in Procs, NEW new \in ProcRecord, ProcGood(p, new, calls),
         new.pc # "write", p \in Callers => ~ AtWork(new),
         p \in Seeders /\ OneSeeder => SeedsGood(new, logs),
         proc' = [proc EXCEPT ![p] = new],
         UNCHANGED <<spec, tree, logs, answers, calls, wiped, edits>>, seeds' \in 0 .. MaxSeeds
  PROVE  IntakeInv'
<1>1. IntakeTyped /\ proc \in [Procs -> ProcRecord] /\ calls \in Nat
  BY CountAssumption DEF IntakeInv, IntakeTyped
<1>2. ProcsGood' /\ proc' \in [Procs -> ProcRecord]
  <2>1. calls' \in Nat /\ calls <= calls' /\ ProcGood(p, new, calls')
    BY <1>1
  <2> QED
    BY <2>1, ProcMoves
<1>3. IntakeTyped'
  BY <1>1, <1>2 DEF IntakeTyped
<1>4. \A q \in Procs : proc'[q] = IF q = p THEN new ELSE proc[q]
  BY <1>1
<1>5. Linked'
  <2>1. Linked
    BY DEF IntakeInv
  <2> QED
    BY <1>4, <2>1 DEF Linked
<1>6. AllConform' /\ IdsIssued' /\ Truth'
  BY DEF IntakeInv, AllConform, IdsIssued, Truth, AnswerGood
<1>7. \A q \in Callers : AtWork(proc'[q]) => proc'[q] = proc[q]
  BY <1>4 DEF Procs
<1>8. CallsApart' /\ BreaksApart'
  <2>1. CallsApart /\ BreaksApart
    BY DEF IntakeInv
  <2> QED
    BY <1>7, <2>1 DEF CallsApart, BreaksApart
<1>9. SeedsApart'
  <2>1. SeedsApart
    BY DEF IntakeInv
  <2>2. ASSUME OneSeeder, NEW q \in Seeders, SeedsGood(proc[q], logs)
        PROVE  SeedsGood(proc'[q], logs')
    <3>1. proc'[q] = IF q = p THEN new ELSE proc[q]
      BY <1>4 DEF Procs
    <3> QED
      BY <2>2, <3>1 DEF SeedsGood
  <2> QED
    BY <2>1, <2>2 DEF SeedsApart, OneSeeder
<1> QED
  BY <1>2, <1>3, <1>5, <1>6, <1>8, <1>9 DEF IntakeInv

\* What the record of a process says of it.
LEMMA RecordFacts ==
  ASSUME IntakeInv, NEW p \in Procs
  PROVE  /\ proc[p] \in ProcRecord /\ ProcGood(p, proc[p], calls)
         /\ p \in Seeders /\ OneSeeder => SeedsGood(proc[p], logs)
         /\ proc \in [Procs -> ProcRecord]
         /\ spec \in Specs \union {None} /\ tree \in Trees \union {None}
         /\ calls \in 0 .. MaxCalls /\ seeds \in 0 .. MaxSeeds /\ calls \in Nat
         /\ logs \in [Logs -> Seq(Appends) \union {None}]
         /\ (p \in Callers) # (p \in Seeders)
<1>1. p \in Callers \union Seeders /\ Callers \intersect Seeders = {}
  BY ProjectAssumption DEF Procs
<1>2. (p \in Callers) # (p \in Seeders)
  BY <1>1
<1>3. calls \in Nat
  BY CountAssumption DEF IntakeInv, IntakeTyped
<1> QED
  BY <1>2, <1>3 DEF IntakeInv, IntakeTyped, ProcsGood, SeedsApart

LEMMA GoesIdle ==
  ASSUME IntakeInv, NEW p \in Procs, proc' = [proc EXCEPT ![p] = Idle],
         UNCHANGED <<spec, tree, logs, answers, calls, wiped, edits, seeds>>
  PROVE  IntakeInv'
<1>1. Idle.pc = "idle"
  BY DEF Idle
<1>2. seeds \in 0 .. MaxSeeds
  BY RecordFacts
<1> QED
  BY <1>1, <1>2, IdleIsRecord, QuietStep DEF AtWork, SeedsGood

LEMMA StartKeeps ==
  ASSUME IntakeInv, NEW p \in Callers, NEW verb \in {"append", "run"}, Start(p, verb)
  PROVE  IntakeInv'
<1> DEFINE pc == IF verb = "run" THEN "tree" ELSE "spec"
           new == [Idle EXCEPT !.verb = verb, !.pc = pc]
<1>1. proc' = [proc EXCEPT ![p] = new]
  BY DEF Start
<1>2. p \in Procs /\ p \notin Seeders /\ seeds \in 0 .. MaxSeeds
  BY ProjectAssumption, RecordFacts DEF Procs
<1>3. pc \in {"tree", "spec"} /\ (pc = "tree" <=> verb = "run")
  OBVIOUS
<1> HIDE DEF pc
<1>4. new \in ProcRecord
  <2>1. [Idle EXCEPT !.verb = verb] \in ProcRecord
    BY IdleIsRecord, FieldStays
  <2>2. [[Idle EXCEPT !.verb = verb] EXCEPT !.pc = pc] \in ProcRecord
    BY <1>3, <2>1, FieldStays
  <2> QED
    BY <2>2
<1>5. new.verb = verb /\ new.pc = pc
  BY DEF Idle
<1> HIDE DEF new
<1>6. ProcGood(p, new, calls)
  BY <1>2, <1>3, <1>5 DEF ProcGood, Loaded, CallerGood
<1> QED
  BY <1>1, <1>2, <1>3, <1>4, <1>5, <1>6, QuietStep DEF AtWork, Start

LEMMA StartSeedKeeps ==
  ASSUME IntakeInv, NEW p \in Seeders, NEW n \in Counts, NEW force \in BOOLEAN, StartSeed(p, n, force)
  PROVE  IntakeInv'
<1> DEFINE one == [Idle EXCEPT !.verb = "seed"]
           two == [one EXCEPT !.pc = "spec"]
           three == [two EXCEPT !.n = n]
           new == [three EXCEPT !.force = force]
<1>1. proc' = [proc EXCEPT ![p] = new]
  BY DEF StartSeed
<1>2. p \in Procs /\ p \notin Callers /\ seeds' \in 0 .. MaxSeeds
  BY ProjectAssumption, CountAssumption, RecordFacts DEF Procs, StartSeed
<1>3. new.verb = "seed" /\ new.pc = "spec" /\ new.i = 0 /\ new.linked
  BY DEF Idle
<1>4. new \in ProcRecord
  <2>1. one \in ProcRecord
    BY IdleIsRecord, FieldStays
  <2> HIDE DEF one
  <2>2. two \in ProcRecord
    BY <2>1, FieldStays
  <2> HIDE DEF two
  <2>3. three \in ProcRecord
    BY <2>2, CountAssumption, FieldStays
  <2> HIDE DEF three
  <2> QED
    BY <2>3, FieldStays
<1> HIDE DEF new
<1>5. ProcGood(p, new, calls)
  BY <1>2, <1>3 DEF ProcGood, Loaded, SeederGood
<1> QED
  BY <1>1, <1>2, <1>3, <1>4, <1>5, QuietStep DEF SeedsGood, StartSeed

LEMMA LoadSpecKeeps ==
  ASSUME IntakeInv, NEW p \in Procs, LoadSpec(p)
  PROVE  IntakeInv'
<1> DEFINE rd == proc[p]
           pc == IF rd.verb = "run" THEN "ready" ELSE "tree"
           new == [rd EXCEPT !.spec = spec, !.pc = pc]
<1>1. CASE spec = None
  BY <1>1, GoesIdle DEF LoadSpec
<1>2. CASE spec # None
  <2>1. proc' = [proc EXCEPT ![p] = new]
    BY <1>2 DEF LoadSpec
  <2>2. rd \in ProcRecord /\ ProcGood(p, rd, calls) /\ rd.pc = "spec" /\ spec \in Specs
        /\ seeds \in 0 .. MaxSeeds
    BY <1>2, RecordFacts DEF LoadSpec
  <2>3. pc \in {"ready", "tree"} /\ (pc = "ready" <=> rd.verb = "run")
    OBVIOUS
  <2> HIDE DEF pc
  <2>4. new \in ProcRecord
    <3>1. [rd EXCEPT !.spec = spec] \in ProcRecord
      BY <2>2, FieldStays
    <3>2. [[rd EXCEPT !.spec = spec] EXCEPT !.pc = pc] \in ProcRecord
      BY <2>3, <3>1, FieldStays
    <3> QED
      BY <3>2
  <2>5. /\ new.pc = pc /\ new.spec = spec /\ new.tree = rd.tree /\ new.verb = rd.verb
        /\ new.i = rd.i /\ new.linked = rd.linked
    BY <2>2 DEF ProcRecord
  <2> HIDE DEF new, rd
  <2>6. Loaded(new)
    BY <2>2, <2>3, <2>5 DEF ProcGood, Loaded
  <2>7. p \in Callers => CallerGood(new, calls)
    BY <2>2, <2>3, <2>5 DEF ProcGood, CallerGood
  <2>8. p \in Seeders => SeederGood(new)
    BY <2>2, <2>3, <2>5 DEF ProcGood, SeederGood
  <2>9. ProcGood(p, new, calls)
    BY <2>3, <2>5, <2>6, <2>7, <2>8 DEF ProcGood
  <2> QED
    BY <2>1, <2>2, <2>3, <2>4, <2>5, <2>9, QuietStep DEF AtWork, SeedsGood, LoadSpec
<1> QED
  BY <1>1, <1>2

LEMMA LoadTreeKeeps ==
  ASSUME IntakeInv, NEW p \in Procs, LoadTree(p)
  PROVE  IntakeInv'
<1> DEFINE rd == proc[p]
           pc == CASE rd.verb = "run" -> "spec"
                   [] rd.verb = "append" -> "ready"
                   [] rd.verb = "seed" -> "check"
           new == [rd EXCEPT !.tree = tree, !.pc = pc]
<1>1. CASE tree = None
  BY <1>1, GoesIdle DEF LoadTree
<1>2. CASE tree # None
  <2>1. proc' = [proc EXCEPT ![p] = new]
    BY <1>2 DEF LoadTree
  <2>2. rd \in ProcRecord /\ ProcGood(p, rd, calls) /\ rd.pc = "tree" /\ tree \in Trees
        /\ seeds \in 0 .. MaxSeeds /\ (p \in Callers) # (p \in Seeders)
    BY <1>2, RecordFacts DEF LoadTree
  <2>3. /\ p \in Callers => rd.verb \in {"append", "run"}
        /\ p \in Seeders => rd.verb = "seed"
    BY <2>2 DEF ProcGood, CallerGood, SeederGood
  <2>4. \/ rd.verb = "run" /\ pc = "spec" /\ p \in Callers
        \/ rd.verb = "append" /\ pc = "ready" /\ p \in Callers
        \/ rd.verb = "seed" /\ pc = "check" /\ p \in Seeders
    BY <2>2, <2>3
  <2> HIDE DEF pc
  <2>5. new \in ProcRecord
    <3>1. [rd EXCEPT !.tree = tree] \in ProcRecord
      BY <2>2, FieldStays
    <3>2. [[rd EXCEPT !.tree = tree] EXCEPT !.pc = pc] \in ProcRecord
      BY <2>4, <3>1, FieldStays
    <3> QED
      BY <3>2
  <2>6. /\ new.pc = pc /\ new.spec = rd.spec /\ new.tree = tree /\ new.verb = rd.verb
        /\ new.i = rd.i /\ new.linked = rd.linked
    BY <2>2 DEF ProcRecord
  <2> HIDE DEF new, rd
  <2>7. Loaded(new)
    BY <2>2, <2>4, <2>6 DEF ProcGood, Loaded
  <2>8. p \in Callers => CallerGood(new, calls)
    BY <2>2, <2>4, <2>6 DEF CallerGood
  <2>9. p \in Seeders => SeederGood(new)
    BY <2>2, <2>4, <2>6 DEF ProcGood, SeederGood
  <2>10. ProcGood(p, new, calls)
    BY <2>4, <2>6, <2>7, <2>8, <2>9 DEF ProcGood
  <2> QED
    BY <2>1, <2>2, <2>4, <2>5, <2>6, <2>10, QuietStep DEF AtWork, SeedsGood, LoadTree
<1> QED
  BY <1>1, <1>2

\* Without --force there is no log under state/, with it each one that seed
\* will write to is to be wiped.
LEMMA CheckKeeps ==
  ASSUME IntakeInv, NEW p \in Seeders, Check(p)
  PROVE  IntakeInv'
<1> DEFINE rd == proc[p]
           refused == \/ Leaves[rd.tree] = << >>
                      \/ ~ rd.force /\ ~ StateIsWritable
                      \/ DOMAIN Schema[rd.spec] = {}
           wipe == IF rd.force THEN Leaves[rd.tree] ELSE << >>
           new == [rd EXCEPT !.pc = "wipe", !.wipe = wipe]
<1>1. p \in Procs
  BY DEF Procs
<1>2. CASE refused
  BY <1>1, <1>2, GoesIdle DEF Check
<1>3. CASE ~ refused
  <2>1. proc' = [proc EXCEPT ![p] = new]
    BY <1>3 DEF Check
  <2>2. rd \in ProcRecord /\ ProcGood(p, rd, calls) /\ rd.pc = "check"
        /\ seeds \in 0 .. MaxSeeds /\ p \notin Callers
    BY <1>1, RecordFacts DEF Check
  <2>3. rd.spec \in Specs /\ rd.tree \in Trees /\ rd.verb = "seed" /\ Leaves[rd.tree] \in Seq(Logs)
        /\ rd.i = 0 /\ rd.linked
    BY <2>2, ProjectAssumption DEF ProcGood, Loaded, SeederGood
  <2>4. LeafSet(rd.tree) # {} /\ DOMAIN Schema[rd.spec] # {}
    <3>1. Len(Leaves[rd.tree]) \in Nat /\ Len(Leaves[rd.tree]) # 0
      BY <1>3, <2>3
    <3>2. 1 \in 1 .. Len(Leaves[rd.tree])
      BY <3>1
    <3> QED
      BY <1>3, <3>2 DEF LeafSet
  <2>5. wipe \in Seq(Logs)
    BY <2>3
  <2>6. \A l \in LeafSet(rd.tree) : rd.force \/ l \in Inside =>
          \/ \E j \in 1 .. Len(wipe) : wipe[j] = l
          \/ Generated(Lines(logs[l]), rd.spec, rd.tree, l, 0)
    <3>1. CASE rd.force
      BY <3>1 DEF LeafSet
    <3>2. CASE ~ rd.force
      <4>1. \A l \in Inside : Lines(logs[l]) = << >>
        BY <1>3, <3>2 DEF StateIsWritable, Lines
      <4> QED
        BY <3>2, <4>1, GeneratedNothing
    <3> QED
      BY <3>1, <3>2
  <2> HIDE DEF wipe
  <2>7. new \in ProcRecord
    <3>1. [rd EXCEPT !.pc = "wipe"] \in ProcRecord
      BY <2>2, FieldStays
    <3>2. [[rd EXCEPT !.pc = "wipe"] EXCEPT !.wipe = wipe] \in ProcRecord
      BY <2>5, <3>1, FieldStays
    <3> QED
      BY <3>2
  <2>8. /\ new.pc = "wipe" /\ new.spec = rd.spec /\ new.tree = rd.tree /\ new.verb = rd.verb
        /\ new.wipe = wipe /\ new.i = rd.i /\ new.linked = rd.linked /\ new.force = rd.force
    BY <2>2 DEF ProcRecord
  <2> HIDE DEF new, rd
  <2>9. ProcGood(p, new, calls)
    BY <2>2, <2>3, <2>4, <2>8 DEF ProcGood, Loaded, SeederGood
  <2>10. SeedsGood(new, logs)
    BY <2>3, <2>6, <2>8 DEF SeedsGood
  <2> QED
    BY <1>1, <2>1, <2>2, <2>7, <2>8, <2>9, <2>10, QuietStep DEF Check
<1> QED
  BY <1>2, <1>3

LEMMA WipedKeeps ==
  ASSUME IntakeInv, NEW p \in Seeders, Wiped(p)
  PROVE  IntakeInv'
<1> DEFINE rd == proc[p]
           new == [rd EXCEPT !.pc = "seed"]
<1>1. proc' = [proc EXCEPT ![p] = new] /\ p \in Procs
  BY DEF Wiped, Procs
<1>2. rd \in ProcRecord /\ ProcGood(p, rd, calls) /\ rd.pc = "wipe" /\ rd.wipe = << >>
      /\ seeds \in 0 .. MaxSeeds /\ p \notin Callers
      /\ (OneSeeder => SeedsGood(rd, logs))
  BY <1>1, RecordFacts DEF Wiped
<1>3. new \in ProcRecord
  BY <1>2, FieldStays
<1>4. new.pc = "seed" /\ new.spec = rd.spec /\ new.tree = rd.tree /\ new.verb = rd.verb
      /\ new.wipe = rd.wipe /\ new.i = rd.i /\ new.linked = rd.linked /\ new.force = rd.force
  BY <1>2 DEF ProcRecord
<1> HIDE DEF new, rd
<1>5. ProcGood(p, new, calls)
  BY <1>2, <1>4 DEF ProcGood, Loaded, SeederGood
<1>6. OneSeeder => SeedsGood(new, logs)
  BY <1>2, <1>4 DEF SeedsGood
<1> QED
  BY <1>1, <1>2, <1>3, <1>4, <1>5, <1>6, QuietStep DEF Wiped

LEMMA GenerateKeeps ==
  ASSUME IntakeInv, NEW p \in Seeders, Generate(p)
  PROVE  IntakeInv'
<1> DEFINE rd == proc[p]
           log == LeafFor(rd.tree, rd.i)
           ev == SeedEvent(rd.spec, rd.tree, rd.i)
           new == [rd EXCEPT !.pc = "open", !.log = log, !.ev = ev]
<1>1. p \in Procs
  BY DEF Procs
<1>2. CASE Pick(rd.spec, rd.tree, rd.i) \notin Named
  BY <1>1, <1>2, GoesIdle DEF Generate
<1>3. CASE Pick(rd.spec, rd.tree, rd.i) \in Named
  <2>1. proc' = [proc EXCEPT ![p] = new]
    BY <1>3 DEF Generate
  <2>2. rd \in ProcRecord /\ ProcGood(p, rd, calls) /\ rd.pc = "seed"
        /\ seeds \in 0 .. MaxSeeds /\ p \notin Callers
        /\ (OneSeeder => SeedsGood(rd, logs))
    BY <1>1, RecordFacts DEF Generate
  <2>3. rd.spec \in Specs /\ rd.tree \in Trees /\ rd.verb = "seed" /\ rd.i \in Nat
        /\ LeafSet(rd.tree) # {} /\ DOMAIN Schema[rd.spec] # {} /\ rd.wipe = << >>
    BY <2>2 DEF ProcGood, Loaded, SeederGood, ProcRecord
  <2>4. ev \in LogEvents /\ Conforms(ev) /\ ev.id = <<"seed", rd.i>>
        /\ log \in LeafSet(rd.tree) /\ log \in Logs
    BY <2>3, SeedEventConforms
  <2> HIDE DEF ev, log
  <2>5. new \in ProcRecord
    <3> DEFINE one == [rd EXCEPT !.pc = "open"]
               two == [one EXCEPT !.log = log]
    <3>1. one \in ProcRecord
      BY <2>2, FieldStays
    <3>2. new = [two EXCEPT !.ev = ev]
      OBVIOUS
    <3> HIDE DEF one
    <3>3. two \in ProcRecord
      BY <2>4, <3>1, FieldStays
    <3> HIDE DEF two
    <3>4. [two EXCEPT !.ev = ev] \in ProcRecord
      BY <2>4, <3>3, FieldStays
    <3> QED
      BY <3>2, <3>4
  <2>6. new.pc = "open" /\ new.spec = rd.spec /\ new.tree = rd.tree /\ new.verb = rd.verb
        /\ new.wipe = rd.wipe /\ new.i = rd.i /\ new.log = log /\ new.ev = ev
        /\ new.linked = rd.linked /\ new.force = rd.force /\ new.n = rd.n
    BY <2>2 DEF ProcRecord
  <2> HIDE DEF new
  <2>9. rd.i < rd.n /\ log = LeafFor(rd.tree, rd.i) /\ ev = SeedEvent(rd.spec, rd.tree, rd.i)
    BY DEF Generate, log, ev
  <2> HIDE DEF rd
  <2>7. ProcGood(p, new, calls)
    BY <2>2, <2>3, <2>4, <2>6, <2>9 DEF ProcGood, Loaded, SeederGood
  <2>8. OneSeeder => SeedsGood(new, logs)
    BY <2>2, <2>6 DEF SeedsGood
  <2> QED
    BY <1>1, <2>1, <2>2, <2>5, <2>6, <2>7, <2>8, QuietStep DEF Generate
<1> QED
  BY <1>2, <1>3

LEMMA SeededKeeps ==
  ASSUME IntakeInv, NEW p \in Seeders, Seeded(p)
  PROVE  IntakeInv'
<1> DEFINE rd == proc[p]
           new == [rd EXCEPT !.pc = "seeded"]
<1>1. proc' = [proc EXCEPT ![p] = new] /\ p \in Procs
  BY DEF Seeded, Procs
<1>2. rd \in ProcRecord /\ ProcGood(p, rd, calls) /\ rd.pc = "seed"
      /\ seeds \in 0 .. MaxSeeds /\ p \notin Callers /\ rd.i >= rd.n
      /\ (OneSeeder => SeedsGood(rd, logs))
  BY <1>1, RecordFacts DEF Seeded
<1>3. new \in ProcRecord
  BY <1>2, FieldStays
<1>4. /\ new.pc = "seeded" /\ new.spec = rd.spec /\ new.tree = rd.tree /\ new.verb = rd.verb
      /\ new.wipe = rd.wipe /\ new.i = rd.i /\ new.linked = rd.linked /\ new.force = rd.force
      /\ new.n = rd.n
  BY <1>2 DEF ProcRecord
<1> HIDE DEF new, rd
<1>5. ProcGood(p, new, calls)
  BY <1>2, <1>4 DEF ProcGood, Loaded, SeederGood
<1>6. OneSeeder => SeedsGood(new, logs)
  BY <1>2, <1>4 DEF SeedsGood
<1> QED
  BY <1>1, <1>2, <1>3, <1>4, <1>5, <1>6, QuietStep DEF Seeded

\* The user's edits reach no process that has read the files.
LEMMA EditKeeps ==
  ASSUME IntakeInv,
         \/ \E s \in Specs \union {None} : EditSpec(s)
         \/ \E t \in Trees \union {None} : EditTree(t)
  PROVE  IntakeInv'
<1>1. /\ UNCHANGED <<logs, proc, calls, answers, wiped, seeds>>
      /\ edits < MaxEdits /\ edits' = edits + 1
      /\ spec' \in Specs \union {None} /\ tree' \in Trees \union {None}
  BY DEF EditSpec, EditTree, IntakeInv, IntakeTyped
<1>2. IntakeTyped'
  BY <1>1, CountAssumption DEF IntakeInv, IntakeTyped
<1>3. /\ ProcsGood' /\ Linked' /\ AllConform' /\ IdsIssued' /\ CallsApart' /\ BreaksApart'
      /\ Truth'
  BY <1>1 DEF IntakeInv, ProcsGood, Linked, AllConform, IdsIssued, CallsApart, BreaksApart, Truth,
              AnswerGood
<1>4. SeedsApart'
  BY <1>1 DEF IntakeInv, SeedsApart, OneSeeder
<1> QED
  BY <1>2, <1>3, <1>4 DEF IntakeInv

-----------------------------------------------------------------------------
(* Answers. *)

\* What becomes of a caller once it is answered.
LEMMA AnsweredIs ==
  ASSUME IntakeInv, NEW p \in Callers, proc[p].pc \in {"ready", "open", "write", "answer"}
  PROVE  \E new \in ProcRecord :
           /\ Answered(p) = [proc EXCEPT ![p] = new]
           /\ ~ AtWork(new)
           /\ \A n : ProcGood(p, new, n)
<1> DEFINE rd == proc[p]
<1>1. rd \in ProcRecord /\ ProcGood(p, rd, calls) /\ p \notin Seeders
  BY RecordFacts DEF Procs
<1>2. CASE rd.verb = "append"
  <2>1. Answered(p) = [proc EXCEPT ![p] = Idle] /\ Idle.pc = "idle"
    BY <1>2 DEF Answered, Idle
  <2> QED
    BY <2>1, IdleIsRecord DEF AtWork
<1>3. CASE rd.verb # "append"
  <2> DEFINE one == [Idle EXCEPT !.verb = "run"]
             two == [one EXCEPT !.pc = "ready"]
             three == [two EXCEPT !.spec = rd.spec]
             new == [three EXCEPT !.tree = rd.tree]
  <2>1. Answered(p) = [proc EXCEPT ![p] = new]
    BY <1>3 DEF Answered
  <2>2. rd.spec \in Specs /\ rd.tree \in Trees
    BY <1>1 DEF ProcGood, Loaded
  <2>3. new.verb = "run" /\ new.pc = "ready" /\ new.spec = rd.spec /\ new.tree = rd.tree
    BY DEF Idle
  <2>4. new \in ProcRecord
    <3>1. one \in ProcRecord
      BY IdleIsRecord, FieldStays
    <3> HIDE DEF one
    <3>2. two \in ProcRecord
      BY <3>1, FieldStays
    <3> HIDE DEF two
    <3>3. three \in ProcRecord
      BY <2>2, <3>2, FieldStays
    <3> HIDE DEF three
    <3> QED
      BY <2>2, <3>3, FieldStays
  <2> HIDE DEF new, rd
  <2>5. \A n : ProcGood(p, new, n)
    BY <1>1, <2>2, <2>3 DEF ProcGood, Loaded, CallerGood
  <2> QED
    BY <2>1, <2>3, <2>4, <2>5 DEF AtWork
<1> QED
  BY <1>2, <1>3

\* p is answered request id, and id is not at work or answered anywhere else.
LEMMA AnswerStep ==
  ASSUME IntakeInv, NEW p \in Callers, proc[p].pc \in {"ready", "open", "write", "answer"},
         proc' = Answered(p), calls' \in 0 .. MaxCalls, calls <= calls',
         NEW a \in [id : 1 .. calls', status : Statuses, log : Logs \union {None}],
         \A q \in Callers : AtWork(proc[q]) /\ proc[q].id = a.id => q = p,
         AnswerGood(a),
         a.status = "ok" => \A l \in Logs : ~ Broken(logs[l], <<"ulid", a.id>>),
         answers' = answers \union {a},
         UNCHANGED <<spec, tree, logs, wiped, edits, seeds>>
  PROVE  IntakeInv'
<1>1. PICK new \in ProcRecord :
        /\ Answered(p) = [proc EXCEPT ![p] = new]
        /\ ~ AtWork(new)
        /\ \A n : ProcGood(p, new, n)
  BY AnsweredIs
<1>2. p \in Procs /\ p \notin Seeders /\ proc \in [Procs -> ProcRecord] /\ calls \in Nat /\ calls' \in Nat
  <2>1. p \in Procs /\ p \notin Seeders
    BY ProjectAssumption DEF Procs
  <2>2. calls' \in Nat
    BY CountAssumption
  <2> QED
    BY <2>1, <2>2, RecordFacts
<1>3. ProcsGood' /\ proc' \in [Procs -> ProcRecord]
  BY <1>1, <1>2, ProcMoves
<1>4. \A q \in Procs : proc'[q] = IF q = p THEN new ELSE proc[q]
  BY <1>1, <1>2
<1>5. \A k \in 1 .. calls : k \in 1 .. calls'
  BY <1>2
<1>6. IntakeTyped'
  <2>1. /\ answers' \subseteq [id : 1 .. calls', status : Statuses, log : Logs \union {None}]
        /\ wiped' \subseteq 1 .. calls'
    BY <1>5 DEF IntakeInv, IntakeTyped
  <2> QED
    BY <1>3, <2>1 DEF IntakeInv, IntakeTyped
<1>7. Linked'
  BY <1>1, <1>4 DEF IntakeInv, Linked, AtWork
<1>8. AllConform'
  BY DEF IntakeInv, AllConform
<1>9. IdsIssued'
  BY <1>5 DEF IntakeInv, IdsIssued
<1>10. \A q \in Callers : AtWork(proc'[q]) => proc'[q] = proc[q] /\ q # p
  BY <1>1, <1>4 DEF Procs
<1>11. CallsApart'
  <2>1. CallsApart
    BY DEF IntakeInv
  <2>2. ASSUME NEW q \in Callers, AtWork(proc'[q]), NEW b \in answers' PROVE b.id # proc'[q].id
    <3>1. CASE b \in answers
      BY <1>10, <2>1, <2>2, <3>1 DEF CallsApart
    <3>2. CASE b = a
      BY <1>10, <2>2, <3>2
    <3> QED
      BY <3>1, <3>2
  <2> QED
    BY <1>10, <2>1, <2>2 DEF CallsApart
<1>12. BreaksApart'
  BY <1>10 DEF IntakeInv, BreaksApart
<1>13. Truth'
  BY DEF IntakeInv, Truth, AnswerGood
<1>14. SeedsApart'
  <2>1. \A q \in Seeders : proc'[q] = proc[q]
    BY <1>2, <1>4 DEF Procs
  <2> QED
    BY <2>1 DEF IntakeInv, SeedsApart, OneSeeder
<1> QED
  BY <1>3, <1>6, <1>7, <1>8, <1>9, <1>11, <1>12, <1>13, <1>14 DEF IntakeInv

LEMMA AnswerKeeps ==
  ASSUME IntakeInv, NEW p \in Callers, Answer(p)
  PROVE  IntakeInv'
<1> DEFINE a == [id |-> proc[p].id, status |-> "ok", log |-> proc[p].log]
<1>1. p \in Procs
  BY DEF Procs
<1>2. /\ proc[p].pc = "answer" /\ proc[p].id \in 1 .. calls /\ AtWork(proc[p]) /\ calls \in 0 .. MaxCalls
      /\ calls \in Nat /\ proc[p].log \in Logs
  BY <1>1, RecordFacts DEF Answer, ProcGood, CallerGood, AtWork
<1>3. CallsApart /\ BreaksApart
  BY DEF IntakeInv
<1>4. \A q \in Callers : AtWork(proc[q]) /\ proc[q].id = a.id => q = p
  BY <1>2, <1>3 DEF CallsApart
<1>5. AnswerGood(a)
  BY <1>2, <1>3 DEF CallsApart, AnswerGood
<1>6. \A l \in Logs : ~ Broken(logs[l], <<"ulid", a.id>>)
  BY <1>2, <1>3 DEF BreaksApart
<1>7. calls' = calls /\ a \in [id : 1 .. calls, status : Statuses, log : Logs \union {None}]
  BY <1>2 DEF Answer, Statuses
<1>8. answers' = answers \union {a} /\ proc' = Answered(p)
  BY DEF Answer
<1> HIDE DEF a
<1> QED
  BY <1>2, <1>4, <1>5, <1>6, <1>7, <1>8, AnswerStep DEF Answer

LEMMA CallKeeps ==
  ASSUME IntakeInv, NEW p \in Callers, NEW q \in Requests, Call(p, q)
  PROVE  IntakeInv'
<1> DEFINE rd == proc[p]
           log == Nodes[rd.tree][q.path]
           ev == NewEvent(calls', rd.spec, q)
           new == [rd EXCEPT !.pc = "open", !.id = calls', !.log = log, !.ev = ev]
<1>1. p \in Procs /\ p \notin Seeders
  BY ProjectAssumption DEF Procs
<1>2. /\ rd \in ProcRecord /\ ProcGood(p, rd, calls) /\ rd.pc = "ready"
      /\ proc \in [Procs -> ProcRecord] /\ calls \in Nat
  BY <1>1, RecordFacts DEF Call
<1>3. /\ calls' = calls + 1 /\ calls' \in 0 .. MaxCalls /\ calls' \in Nat /\ calls <= calls'
      /\ calls' \in 1 .. calls' /\ calls' \notin 1 .. calls
  BY <1>2, CountAssumption DEF Call
<1>4. rd.spec \in Specs /\ rd.tree \in Trees /\ rd.verb \in {"append", "run"}
  BY <1>2 DEF ProcGood, Loaded, CallerGood
<1>5. \A c \in Callers : AtWork(proc[c]) => proc[c].id \in 1 .. calls
  BY DEF IntakeInv, ProcsGood, ProcGood, CallerGood, AtWork, Procs
<1>6. \A l \in Logs : ~ Holds(logs[l], <<"ulid", calls'>>)
  BY <1>2, <1>3 DEF IntakeInv, IdsIssued
<1>7. CASE Verdict(rd.spec, rd.tree, q) # "ready"
  <2> DEFINE verdict == Verdict(rd.spec, rd.tree, q)
             a == [id |-> calls', status |-> verdict, log |-> None]
  <2>1. verdict \in {"issues", "raised"}
    BY <1>7 DEF Verdict
  <2> HIDE DEF verdict
  <2>2. proc' = Answered(p) /\ answers' = answers \union {a}
    BY <1>7 DEF Call, verdict
  <2>3. AnswerGood(a) /\ a.status # "ok"
    BY <1>6, <2>1 DEF AnswerGood
  <2>4. \A c \in Callers : AtWork(proc[c]) /\ proc[c].id = a.id => c = p
    BY <1>3, <1>5
  <2>5. a \in [id : 1 .. calls', status : Statuses, log : Logs \union {None}]
    BY <1>3, <2>1 DEF Statuses
  <2> HIDE DEF a
  <2> QED
    BY <1>2, <1>3, <2>2, <2>3, <2>4, <2>5, AnswerStep DEF Call
<1>8. CASE Verdict(rd.spec, rd.tree, q) = "ready"
  <2>1. proc' = [proc EXCEPT ![p] = new] /\ answers' = answers
    BY <1>8 DEF Call
  <2>2. ev \in LogEvents /\ Conforms(ev) /\ ev.id = <<"ulid", calls'>> /\ IsLogLeaf(rd.tree, q.path)
    <3>1. calls' \in Nat
      BY <1>2, <1>3
    <3> QED
      BY <1>4, <1>8, <3>1, NewEventConforms
  <2>3. log \in Logs
    <3>1. log \in LeafSet(rd.tree)
      <4>1. q.path \in DOMAIN Nodes[rd.tree] /\ log # None
        BY <2>2 DEF IsLogLeaf, log
      <4>2. log \in {Nodes[rd.tree][x] : x \in DOMAIN Nodes[rd.tree]} \ {None}
        BY <4>1 DEF log
      <4>3. LeafSet(rd.tree) = {Nodes[rd.tree][x] : x \in DOMAIN Nodes[rd.tree]} \ {None}
        BY <1>4, ProjectAssumption DEF LeafSet
      <4> QED
        BY <4>2, <4>3
    <3>2. Leaves[rd.tree] \in Seq(Logs)
      BY <1>4, ProjectAssumption
    <3> QED
      BY <3>1, <3>2 DEF LeafSet
  <2> HIDE DEF ev, log
  <2>4. new \in ProcRecord
    <3> DEFINE one == [rd EXCEPT !.pc = "open"]
               two == [one EXCEPT !.id = calls']
               three == [two EXCEPT !.log = log]
    <3>1. one \in ProcRecord
      BY <1>2, FieldStays
    <3>2. new = [three EXCEPT !.ev = ev]
      OBVIOUS
    <3> HIDE DEF one
    <3>3. two \in ProcRecord
      BY <1>2, <1>3, <3>1, FieldStays
    <3> HIDE DEF two
    <3>4. three \in ProcRecord
      BY <2>3, <3>3, FieldStays
    <3> HIDE DEF three
    <3>5. [three EXCEPT !.ev = ev] \in ProcRecord
      BY <2>2, <3>4, FieldStays
    <3> QED
      BY <3>2, <3>5
  <2>5. /\ new.pc = "open" /\ new.spec = rd.spec /\ new.tree = rd.tree /\ new.verb = rd.verb
        /\ new.id = calls' /\ new.log = log /\ new.ev = ev
    BY <1>2 DEF ProcRecord
  <2>6. \A c \in Procs : proc'[c] = IF c = p THEN new ELSE proc[c]
    BY <1>2, <2>1
  <2> HIDE DEF new, rd
  <2>7. ProcGood(p, new, calls')
    BY <1>1, <1>3, <1>4, <2>2, <2>3, <2>5 DEF ProcGood, Loaded, CallerGood
  <2>8. ProcsGood' /\ proc' \in [Procs -> ProcRecord]
    BY <1>1, <1>2, <1>3, <2>1, <2>4, <2>7, ProcMoves
  <2>9. \A k \in 1 .. calls : k \in 1 .. calls'
    BY <1>2, <1>3
  <2>10. UNCHANGED <<spec, tree, logs, answers, wiped, seeds, edits>>
    BY <2>1 DEF Call
  <2>11. IntakeTyped'
    <3>1. /\ answers' \subseteq [id : 1 .. calls', status : Statuses, log : Logs \union {None}]
          /\ wiped' \subseteq 1 .. calls'
      BY <2>9, <2>10 DEF IntakeInv, IntakeTyped
    <3> QED
      BY <1>3, <2>8, <2>10, <3>1 DEF IntakeInv, IntakeTyped
  <2>12. Linked'
    BY <2>5, <2>6, <2>10 DEF IntakeInv, Linked
  <2>13. AllConform' /\ IdsIssued' /\ Truth'
    BY <2>9, <2>10 DEF IntakeInv, AllConform, IdsIssued, Truth, AnswerGood
  <2>14. CallsApart'
    <3>1. CallsApart
      BY DEF IntakeInv
    <3>2. \A c \in Callers : proc'[c] = IF c = p THEN new ELSE proc[c]
      BY <2>6 DEF Procs
    <3>3. \A a \in answers : a.id \in 1 .. calls
      BY DEF IntakeInv, IntakeTyped
    <3>4. ASSUME NEW c \in Callers, AtWork(proc'[c])
          PROVE  /\ \A d \in Callers : AtWork(proc'[d]) /\ proc'[d].id = proc'[c].id => d = c
                 /\ \A a \in answers' : a.id # proc'[c].id
                 /\ proc'[c].pc # "answer" => \A l \in Logs : ~ Holds(logs'[l], <<"ulid", proc'[c].id>>)
                 /\ proc'[c].pc = "answer" /\ proc'[c].id \notin wiped' =>
                      Kept(logs'[proc'[c].log], <<"ulid", proc'[c].id>>)
      <4>1. CASE c = p
        BY <1>3, <1>5, <1>6, <2>5, <2>10, <3>2, <3>3, <4>1
      <4>2. CASE c # p
        <5>1. proc'[c] = proc[c] /\ proc[c].id \in 1 .. calls /\ AtWork(proc[c])
          BY <1>5, <3>2, <3>4, <4>2
        <5>2. \A d \in Callers : AtWork(proc'[d]) /\ proc'[d].id = proc'[c].id => d = c
          <6> SUFFICES ASSUME NEW d \in Callers, AtWork(proc'[d]), proc'[d].id = proc'[c].id PROVE d = c
            OBVIOUS
          <6>1. d # p
            BY <1>3, <2>5, <3>2, <5>1
          <6>2. proc'[d] = proc[d]
            BY <3>2, <6>1
          <6> QED
            BY <3>1, <5>1, <6>2 DEF CallsApart
        <5> QED
          BY <2>10, <3>1, <5>1, <5>2 DEF CallsApart
      <4> QED
        BY <4>1, <4>2
    <3> QED
      BY <3>4 DEF CallsApart
  <2>15. SeedsApart'
    <3>1. \A c \in Seeders : proc'[c] = proc[c]
      BY <1>1, <2>6 DEF Procs
    <3> QED
      BY <2>10, <3>1 DEF IntakeInv, SeedsApart, OneSeeder
  <2>16. BreaksApart'
    <3>1. BreaksApart
      BY DEF IntakeInv
    <3>2. \A l \in Logs : ~ Broken(logs[l], <<"ulid", calls'>>)
      BY <1>6 DEF Broken, Holds
    <3>3. \A c \in Callers : AtWork(proc'[c]) => proc'[c].id = calls' \/ (AtWork(proc[c]) /\ proc'[c].id = proc[c].id)
      BY <2>5, <2>6 DEF Procs
    <3> QED
      BY <2>10, <3>1, <3>2, <3>3 DEF BreaksApart
  <2> QED
    BY <2>8, <2>11, <2>12, <2>13, <2>14, <2>15, <2>16 DEF IntakeInv
<1> QED
  BY <1>7, <1>8

-----------------------------------------------------------------------------
(* Steps that change the logs. *)

LEMMA OpenKeeps ==
  ASSUME IntakeInv, NEW p \in Procs, Open(p)
  PROVE  IntakeInv'
<1> DEFINE rd == proc[p]
           new == [rd EXCEPT !.pc = "write", !.linked = TRUE]
           file == IF logs[rd.log] = None THEN << >> ELSE logs[rd.log]
<1>1. /\ rd \in ProcRecord /\ ProcGood(p, rd, calls) /\ rd.pc = "open"
      /\ proc \in [Procs -> ProcRecord] /\ calls \in Nat
      /\ logs \in [Logs -> Seq(Appends) \union {None}]
  BY RecordFacts DEF Open
<1>2. proc' = [proc EXCEPT ![p] = new] /\ logs' = [logs EXCEPT ![rd.log] = file]
  BY DEF Open
<1>3. UNCHANGED <<spec, tree, calls, answers, wiped, seeds, edits>>
  BY DEF Open
<1>4. rd.log \in Logs
  BY <1>1 DEF ProcGood
<1>5. /\ file \in Seq(Appends) /\ file # None
      /\ \A id : Holds(file, id) <=> Holds(logs[rd.log], id)
      /\ \A id : Kept(file, id) <=> Kept(logs[rd.log], id)
      /\ \A id : Broken(file, id) <=> Broken(logs[rd.log], id)
      /\ Distinct(logs[rd.log]) => Distinct(file)
      /\ \A i \in 1 .. Len(Lines(file)) : i \in 1 .. Len(Lines(logs[rd.log])) /\ file[i] = logs[rd.log][i]
  <2>1. CASE logs[rd.log] = None
    BY <2>1, EmptyHolds
  <2>2. CASE logs[rd.log] # None
    BY <1>1, <1>4, <2>2
  <2> QED
    BY <2>1, <2>2
<1>6. new \in ProcRecord
  <2>1. [rd EXCEPT !.pc = "write"] \in ProcRecord
    BY <1>1, FieldStays
  <2>2. [[rd EXCEPT !.pc = "write"] EXCEPT !.linked = TRUE] \in ProcRecord
    BY <2>1, FieldStays
  <2> QED
    BY <2>2
<1>7. /\ new.pc = "write" /\ new.linked = TRUE /\ new.spec = rd.spec /\ new.tree = rd.tree
      /\ new.verb = rd.verb /\ new.id = rd.id /\ new.ev = rd.ev /\ new.log = rd.log
      /\ new.i = rd.i /\ new.wipe = rd.wipe /\ new.force = rd.force /\ new.n = rd.n
  BY <1>1 DEF ProcRecord
<1>8. \A q \in Procs : proc'[q] = IF q = p THEN new ELSE proc[q]
  BY <1>1, <1>2
<1>9. \A l \in Logs : logs'[l] = IF l = rd.log THEN file ELSE logs[l]
  BY <1>1, <1>2
<1>10. logs' \in [Logs -> Seq(Appends) \union {None}]
  BY <1>1, <1>2, <1>5
<1> HIDE DEF new, file, rd
<1>11. \A l \in Logs : \A id : /\ Holds(logs'[l], id) <=> Holds(logs[l], id)
                               /\ Kept(logs'[l], id) <=> Kept(logs[l], id)
                               /\ Broken(logs'[l], id) <=> Broken(logs[l], id)
  BY <1>5, <1>9
<1>12. ProcsGood' /\ proc' \in [Procs -> ProcRecord]
  <2>1. ProcGood(p, new, calls)
    BY <1>1, <1>7 DEF ProcGood, Loaded, CallerGood, SeederGood
  <2>2. calls' = calls /\ calls' \in Nat /\ calls <= calls' /\ ProcGood(p, new, calls')
    BY <1>1, <1>3, <2>1
  <2> QED
    BY <1>2, <1>6, <2>2, ProcMoves
<1>13. IntakeTyped'
  BY <1>3, <1>10, <1>12 DEF IntakeInv, IntakeTyped
<1>14. Linked'
  <2>1. Linked
    BY DEF IntakeInv
  <2>2. ASSUME NEW q \in Procs, proc'[q].pc = "write"
        PROVE  IF proc'[q].linked THEN logs'[proc'[q].log] # None
               ELSE q \in Callers => proc'[q].id \in wiped'
    <3>1. CASE q = p
      BY <1>4, <1>5, <1>7, <1>8, <1>9, <3>1
    <3>2. CASE q # p
      <4>1. proc'[q] = proc[q] /\ proc[q].log \in Logs
        BY <1>8, <2>2, <3>2 DEF IntakeInv, ProcsGood, ProcGood
      <4> QED
        BY <1>3, <1>5, <1>9, <2>1, <2>2, <4>1 DEF Linked
    <3> QED
      BY <3>1, <3>2
  <2> QED
    BY <2>2 DEF Linked
<1>15. AllConform'
  <2>1. AllConform
    BY DEF IntakeInv
  <2>2. ASSUME NEW l \in Logs, NEW i \in 1 .. Len(Lines(logs'[l])) PROVE Conforms(logs'[l][i].ev)
    <3>1. i \in 1 .. Len(Lines(logs[l])) /\ logs'[l][i] = logs[l][i]
      BY <1>5, <1>9
    <3> QED
      BY <2>1, <3>1 DEF AllConform
  <2> QED
    BY <2>2 DEF AllConform
<1>16. IdsIssued' /\ Truth'
  BY <1>3, <1>11 DEF IntakeInv, IdsIssued, Truth, AnswerGood
<1>17. \A q \in Callers : AtWork(proc'[q]) =>
         /\ AtWork(proc[q]) /\ proc'[q].id = proc[q].id /\ proc'[q].log = proc[q].log
         /\ proc[q].log \in Logs
         /\ proc'[q].pc # "answer" => proc[q].pc # "answer"
         /\ proc'[q].pc = "answer" => proc[q].pc = "answer"
  BY <1>1, <1>4, <1>7, <1>8 DEF AtWork, Procs, rd, IntakeInv, ProcsGood, ProcGood
<1>18. CallsApart' /\ BreaksApart'
  <2>1. CallsApart /\ BreaksApart
    BY DEF IntakeInv
  <2>2. CallsApart'
    BY <1>3, <1>11, <1>17, <2>1 DEF CallsApart
  <2> QED
    BY <1>3, <1>11, <1>17, <2>1, <2>2 DEF BreaksApart
<1>19. SeedsApart'
  <2>1. SeedsApart
    BY DEF IntakeInv
  <2>2. ASSUME NEW q \in Seeders, SeedsGood(proc[q], logs) PROVE SeedsGood(proc'[q], logs')
    <3> SUFFICES ASSUME proc'[q].pc \in {"wipe", "seed", "open", "write", "seeded"}
                 PROVE  SeedsGood(proc'[q], logs')
      BY DEF SeedsGood
    <3>1. /\ proc[q].pc \in {"wipe", "seed", "open", "write", "seeded"}
          /\ proc'[q].tree = proc[q].tree /\ proc'[q].i = proc[q].i /\ proc'[q].wipe = proc[q].wipe
          /\ proc'[q].spec = proc[q].spec /\ proc'[q].force = proc[q].force
          /\ proc[q].linked => proc'[q].linked
      BY <1>1, <1>7, <1>8 DEF Procs, rd
    <3>2. \A l \in Logs : Lines(logs'[l]) = Lines(logs[l])
      BY <1>9 DEF Lines, file
    <3>3. \A l \in LeafSet(proc[q].tree) : l \in Logs
      <4>1. proc[q].tree \in Trees
        BY <3>1 DEF IntakeInv, ProcsGood, ProcGood, Loaded, Procs
      <4> QED
        BY <4>1, ProjectAssumption DEF LeafSet
    <3> QED
      BY <2>2, <3>1, <3>2, <3>3 DEF SeedsGood
  <2>3. ASSUME NEW l \in Inside, Distinct(logs[l]) PROVE Distinct(logs'[l])
    <3>1. l \in Logs
      BY ProjectAssumption
    <3> QED
      BY <1>5, <1>9, <2>3, <3>1
  <2> QED
    BY <2>1, <2>2, <2>3 DEF SeedsApart, OneSeeder
<1> QED
  BY <1>12, <1>13, <1>14, <1>15, <1>16, <1>18, <1>19 DEF IntakeInv

\* p's append reaches log l.
Adds(p, l) == proc[p].linked /\ l = proc[p].log

\* What Written(p, left) does to the logs.
LEMMA WrittenIs ==
  ASSUME IntakeInv, NEW p \in Procs, proc[p].pc = "write", NEW left \in Lefts, logs' = Written(p, left)
  PROVE  /\ logs' \in [Logs -> Seq(Appends) \union {None}]
         /\ AllConform'
         /\ \A l \in Logs :
              /\ logs[l] # None => logs'[l] # None
              /\ \A id : Holds(logs'[l], id) <=> Holds(logs[l], id) \/ (Adds(p, l) /\ id = proc[p].ev.id)
              /\ \A id : Kept(logs'[l], id) <=>
                           Kept(logs[l], id) \/ (Adds(p, l) /\ id = proc[p].ev.id /\ left = "line")
              /\ \A id : Broken(logs'[l], id) <=>
                           Broken(logs[l], id) \/ (Adds(p, l) /\ id = proc[p].ev.id /\ left # "line")
              /\ Distinct(logs[l]) /\ (Adds(p, l) => ~ Holds(logs[l], proc[p].ev.id)) => Distinct(logs'[l])
              /\ ~ Adds(p, l) => logs'[l] = logs[l]
              /\ Adds(p, l) => /\ Lines(logs[l]) \in Seq(Appends)
                               /\ Lines(logs'[l]) = Append(Lines(logs[l]), Left(p, left))
<1> DEFINE rd == proc[p]
           x == Left(p, left)
           before == logs[rd.log]
           file == IF rd.linked THEN Append(before, x) ELSE before
<1>1. /\ rd \in ProcRecord /\ ProcGood(p, rd, calls) /\ logs \in [Logs -> Seq(Appends) \union {None}]
      /\ AllConform
  BY RecordFacts DEF IntakeInv
<1>2. rd.log \in Logs /\ rd.ev \in LogEvents /\ Conforms(rd.ev)
  BY <1>1 DEF ProcGood
<1>3. x \in Appends /\ x.ev = rd.ev /\ x.left = left
  BY <1>2 DEF Left, Appends
<1>4. rd.linked => before # None
  BY DEF IntakeInv, Linked
<1>5. logs' = [logs EXCEPT ![rd.log] = file]
  BY DEF Written
<1>6. \A l \in Logs : logs'[l] = IF Adds(p, l) THEN Append(logs[l], x) ELSE logs[l]
  BY <1>1, <1>2, <1>5 DEF Adds
<1>7. \A l \in Logs : Adds(p, l) => logs[l] \in Seq(Appends)
  BY <1>1, <1>2, <1>4 DEF Adds
<1> HIDE DEF x, file, before
<1>8. ASSUME NEW l \in Logs
      PROVE  /\ logs'[l] \in Seq(Appends) \union {None}
             /\ logs[l] # None => logs'[l] # None
             /\ \A id : Holds(logs'[l], id) <=> Holds(logs[l], id) \/ (Adds(p, l) /\ id = rd.ev.id)
             /\ \A id : Kept(logs'[l], id) <=>
                          Kept(logs[l], id) \/ (Adds(p, l) /\ id = rd.ev.id /\ left = "line")
             /\ \A id : Broken(logs'[l], id) <=>
                          Broken(logs[l], id) \/ (Adds(p, l) /\ id = rd.ev.id /\ left # "line")
             /\ Distinct(logs[l]) /\ (Adds(p, l) => ~ Holds(logs[l], rd.ev.id)) => Distinct(logs'[l])
             /\ ~ Adds(p, l) => logs'[l] = logs[l]
             /\ Adds(p, l) => /\ Lines(logs[l]) \in Seq(Appends)
                              /\ Lines(logs'[l]) = Append(Lines(logs[l]), x)
             /\ \A i \in 1 .. Len(Lines(logs'[l])) : Conforms(logs'[l][i].ev)
  <2>1. \A j \in 1 .. Len(Lines(logs[l])) : Conforms(logs[l][j].ev)
    BY <1>1 DEF AllConform
  <2>2. CASE Adds(p, l)
    <3> DEFINE log == logs[l]
               more == Append(log, x)
    <3>1. logs'[l] = more /\ log \in Seq(Appends)
      BY <1>6, <1>7, <2>2
    <3> HIDE DEF log
    <3>2. /\ log # None /\ more # None /\ more \in Seq(Appends)
          /\ Lines(log) = log /\ Lines(more) = more
          /\ \A id : Holds(more, id) <=> Holds(log, id) \/ id = x.ev.id
          /\ \A id : Kept(more, id) <=> Kept(log, id) \/ (id = x.ev.id /\ x.left = "line")
          /\ \A id : Broken(more, id) <=> Broken(log, id) \/ (id = x.ev.id /\ x.left # "line")
          /\ Distinct(log) /\ ~ Holds(log, x.ev.id) => Distinct(more)
          /\ \A i \in 1 .. Len(Lines(more)) :
               more[i] = x \/ \E j \in 1 .. Len(Lines(log)) : more[i] = log[j]
      BY <1>3, <3>1, AppendHolds
    <3>3. more = Append(log, x)
      OBVIOUS
    <3> HIDE DEF more
    <3>4. \A i \in 1 .. Len(Lines(more)) : Conforms(more[i].ev)
      BY <1>2, <1>3, <2>1, <3>2 DEF log
    <3> QED
      BY <1>3, <2>2, <3>1, <3>2, <3>3, <3>4 DEF log
  <2>3. CASE ~ Adds(p, l)
    BY <1>1, <1>6, <2>1, <2>3
  <2> QED
    BY <2>2, <2>3
<1>9. logs' \in [Logs -> Seq(Appends) \union {None}]
  <2>1. DOMAIN logs' = Logs /\ logs' = [l \in DOMAIN logs' |-> logs'[l]]
    BY <1>1, <1>5
  <2> QED
    BY <1>8, <2>1
<1>10. AllConform'
  BY <1>8 DEF AllConform
<1> QED
  BY <1>8, <1>9, <1>10 DEF x

\* What a caller writes is no seed, and changes nothing for a seeder.
LEMMA SeedsBeside ==
  ASSUME IntakeInv, NEW p \in Callers, proc[p].pc = "write", NEW left \in Lefts,
         logs' = Written(p, left), NEW q \in Seeders, SeedsGood(proc[q], logs)
  PROVE  SeedsGood(proc[q], logs')
<1>1. p \in Procs /\ q \in Procs
  BY DEF Procs
<1>2. /\ proc[p].ev.id = <<"ulid", proc[p].id>> /\ proc[p].ev \in LogEvents
  BY <1>1, RecordFacts DEF ProcGood, CallerGood
<1>3. ~ IsSeed(Left(p, left).ev) /\ Left(p, left) \in Appends
  BY <1>2 DEF IsSeed, Left, Appends
<1> SUFFICES ASSUME proc[q].pc \in {"wipe", "seed", "open", "write", "seeded"},
                    NEW l \in LeafSet(proc[q].tree),
                    Generated(Lines(logs[l]), proc[q].spec, proc[q].tree, l, proc[q].i)
             PROVE  Generated(Lines(logs'[l]), proc[q].spec, proc[q].tree, l, proc[q].i)
  BY DEF SeedsGood
<1>4. proc[q].i \in Nat
  BY <1>1, RecordFacts DEF ProcRecord
<1>5. l \in Logs
  <2>1. proc[q].tree \in Trees
    BY <1>1 DEF IntakeInv, ProcsGood, ProcGood, Loaded
  <2> QED
    BY <2>1, ProjectAssumption DEF LeafSet
<1>6. CASE Adds(p, l)
  <2> DEFINE x == Left(p, left)
             log == Lines(logs[l])
  <2>1. log \in Seq(Appends) /\ Lines(logs'[l]) = Append(log, x)
    BY <1>1, <1>5, <1>6, WrittenIs
  <2>2. x \in Appends /\ ~ IsSeed(x.ev) /\ Generated(log, proc[q].spec, proc[q].tree, l, proc[q].i)
    BY <1>3
  <2> HIDE DEF x, log
  <2>3. Generated(Append(log, x), proc[q].spec, proc[q].tree, l, proc[q].i)
    BY <1>4, <2>1, <2>2, GeneratedBeside
  <2> QED
    BY <2>1, <2>3
<1>7. CASE ~ Adds(p, l)
  <2>1. logs'[l] = logs[l]
    BY <1>1, <1>5, <1>7, WrittenIs
  <2> QED
    BY <2>1
<1> QED
  BY <1>6, <1>7

\* The event is its writer's only one, and new in the log.
LEMMA NewInLog ==
  ASSUME IntakeInv, NEW p \in Procs, proc[p].pc = "write"
  PROVE  /\ p \in Callers =>
              /\ proc[p].ev.id = <<"ulid", proc[p].id>>
              /\ \A l \in Logs : ~ Holds(logs[l], proc[p].ev.id)
              /\ \A q \in Callers : AtWork(proc[q]) /\ proc[q].id = proc[p].id => q = p
              /\ \A a \in answers : a.id # proc[p].id
         /\ p \in Seeders =>
              /\ proc[p].ev.id = <<"seed", proc[p].i>>
              /\ OneSeeder /\ proc[p].log \in Inside => ~ Holds(logs[proc[p].log], proc[p].ev.id)
<1> DEFINE rd == proc[p]
<1>1. rd \in ProcRecord /\ ProcGood(p, rd, calls) /\ (p \in Seeders /\ OneSeeder => SeedsGood(rd, logs))
  BY RecordFacts
<1>2. ASSUME p \in Callers
      PROVE  /\ rd.ev.id = <<"ulid", rd.id>>
             /\ \A l \in Logs : ~ Holds(logs[l], rd.ev.id)
             /\ \A q \in Callers : AtWork(proc[q]) /\ proc[q].id = rd.id => q = p
             /\ \A a \in answers : a.id # rd.id
  <2>1. rd.ev.id = <<"ulid", rd.id>> /\ AtWork(rd)
    BY <1>1, <1>2 DEF ProcGood, CallerGood, AtWork
  <2>2. CallsApart
    BY DEF IntakeInv
  <2> QED
    BY <1>2, <2>1, <2>2 DEF CallsApart
<1>3. ASSUME p \in Seeders
      PROVE  /\ rd.ev.id = <<"seed", rd.i>>
             /\ OneSeeder /\ rd.log \in Inside => ~ Holds(logs[rd.log], rd.ev.id)
  <2>1. /\ rd.spec \in Specs /\ rd.tree \in Trees /\ rd.i \in Nat /\ SeederGood(rd)
    BY <1>1, <1>3 DEF ProcGood, Loaded, ProcRecord
  <2>2. /\ LeafSet(rd.tree) # {} /\ DOMAIN Schema[rd.spec] # {} /\ rd.wipe = << >>
        /\ rd.log = LeafFor(rd.tree, rd.i) /\ rd.ev = SeedEvent(rd.spec, rd.tree, rd.i)
    BY <2>1 DEF SeederGood
  <2>3. rd.ev.id = <<"seed", rd.i>> /\ rd.log \in LeafSet(rd.tree)
    BY <2>1, <2>2, SeedEventConforms
  <2>4. ASSUME OneSeeder, rd.log \in Inside PROVE ~ Holds(logs[rd.log], rd.ev.id)
    <3>1. Generated(Lines(logs[rd.log]), rd.spec, rd.tree, rd.log, rd.i)
      BY <1>1, <1>3, <2>2, <2>3, <2>4 DEF SeedsGood
    <3>2. \A k \in Nat : Holds(logs[rd.log], <<"seed", k>>) => k < rd.i
      BY <2>1, <3>1, GeneratedHolds
    <3> QED
      BY <2>1, <2>3, <3>2
  <2> QED
    BY <2>3, <2>4
<1> QED
  BY <1>2, <1>3

\* An append that is cut short, its caller told of a failure or not at all.
LEMMA CutShortKeeps ==
  ASSUME IntakeInv, NEW p \in Procs, proc[p].pc = "write", NEW left \in Lefts, logs' = Written(p, left),
         NEW new \in ProcRecord, ~ AtWork(new), p \in Seeders => new = Idle, \A n : ProcGood(p, new, n),
         proc' = [proc EXCEPT ![p] = new], UNCHANGED <<spec, tree, calls, wiped, seeds, edits>>,
         \/ answers' = answers
         \/ /\ p \in Callers
            /\ answers' = answers \union
                 {[id |-> proc[p].id, status |-> "failed", log |-> proc[p].log]}
  PROVE  IntakeInv'
<1> DEFINE rd == proc[p]
<1>1. /\ rd \in ProcRecord /\ ProcGood(p, rd, calls) /\ proc \in [Procs -> ProcRecord] /\ calls \in Nat
      /\ (p \in Callers) # (p \in Seeders) /\ rd.log \in Logs
      /\ p \in Callers => rd.id \in 1 .. calls
  BY RecordFacts DEF ProcGood, CallerGood
<1>2. \A q \in Procs : proc'[q] = IF q = p THEN new ELSE proc[q]
  BY <1>1
<1>3. ProcsGood' /\ proc' \in [Procs -> ProcRecord]
  <2>1. calls' = calls /\ calls' \in Nat /\ calls <= calls' /\ ProcGood(p, new, calls')
    BY <1>1
  <2> QED
    BY <2>1, ProcMoves
<1>4. logs' \in [Logs -> Seq(Appends) \union {None}] /\ AllConform'
  BY WrittenIs
<1>5. \A l \in Logs :
        /\ logs[l] # None => logs'[l] # None
        /\ \A id : Holds(logs'[l], id) => Holds(logs[l], id) \/ id = rd.ev.id
        /\ \A id : Kept(logs[l], id) => Kept(logs'[l], id)
        /\ \A id : Broken(logs'[l], id) => Broken(logs[l], id) \/ id = rd.ev.id
        /\ Distinct(logs[l]) /\ (l = rd.log => ~ Holds(logs[l], rd.ev.id)) => Distinct(logs'[l])
  BY WrittenIs DEF Adds
<1>6. /\ p \in Callers =>
           /\ rd.ev.id = <<"ulid", rd.id>>
           /\ \A l \in Logs : ~ Holds(logs[l], rd.ev.id)
           /\ \A q \in Callers : AtWork(proc[q]) /\ proc[q].id = rd.id => q = p
           /\ \A a \in answers : a.id # rd.id
      /\ p \in Seeders =>
           /\ rd.ev.id = <<"seed", rd.i>>
           /\ OneSeeder /\ rd.log \in Inside => ~ Holds(logs[rd.log], rd.ev.id)
  BY NewInLog
<1>7. \A a \in answers' : a \in answers \/ (p \in Callers /\ a.id = rd.id /\ a.status = "failed")
  OBVIOUS
<1>8. answers' \subseteq [id : 1 .. calls, status : Statuses, log : Logs \union {None}]
  BY <1>1 DEF IntakeInv, IntakeTyped, Statuses
<1>9. IntakeTyped'
  BY <1>3, <1>4, <1>8 DEF IntakeInv, IntakeTyped
<1> HIDE DEF rd
<1>10. \A k : rd.ev.id = <<"ulid", k>> => p \in Callers /\ k = rd.id
  BY <1>1, <1>6
<1>11. \A c \in Callers : AtWork(proc'[c]) => proc'[c] = proc[c] /\ c # p
  BY <1>2 DEF Procs
<1>12. Linked'
  <2>1. Linked
    BY DEF IntakeInv
  <2>2. ASSUME NEW q \in Procs, proc'[q].pc = "write"
        PROVE  proc'[q] = proc[q] /\ proc[q].log \in Logs
    BY <1>2, <2>2 DEF AtWork, IntakeInv, ProcsGood, ProcGood
  <2> QED
    BY <1>5, <2>1, <2>2 DEF Linked
<1>13. IdsIssued'
  BY <1>1, <1>5, <1>10 DEF IntakeInv, IdsIssued
<1>14. \A c \in Callers : AtWork(proc'[c]) => proc[c].id # rd.id \/ p \notin Callers
  BY <1>6, <1>11
<1>15. CallsApart'
  <2>1. CallsApart
    BY DEF IntakeInv
  <2>2. ASSUME NEW c \in Callers, AtWork(proc'[c])
        PROVE  /\ \A d \in Callers : AtWork(proc'[d]) /\ proc'[d].id = proc'[c].id => d = c
               /\ \A a \in answers' : a.id # proc'[c].id
               /\ proc'[c].pc # "answer" => \A l \in Logs : ~ Holds(logs'[l], <<"ulid", proc'[c].id>>)
               /\ proc'[c].pc = "answer" /\ proc'[c].id \notin wiped' =>
                    Kept(logs'[proc'[c].log], <<"ulid", proc'[c].id>>)
    <3>1. proc'[c] = proc[c] /\ AtWork(proc[c]) /\ (p \in Callers => proc[c].id # rd.id)
      BY <1>11, <1>14, <2>2
    <3>2. proc[c].log \in Logs
      BY <3>1 DEF IntakeInv, ProcsGood, ProcGood, AtWork, Procs
    <3>3. \A d \in Callers : AtWork(proc'[d]) /\ proc'[d].id = proc'[c].id => d = c
      BY <1>11, <2>1, <3>1 DEF CallsApart
    <3>4. \A a \in answers' : a.id # proc'[c].id
      BY <1>7, <2>1, <3>1 DEF CallsApart
    <3>5. proc'[c].pc # "answer" => \A l \in Logs : ~ Holds(logs'[l], <<"ulid", proc'[c].id>>)
      BY <1>5, <1>10, <2>1, <3>1 DEF CallsApart
    <3>6. proc'[c].pc = "answer" /\ proc'[c].id \notin wiped' =>
            Kept(logs'[proc'[c].log], <<"ulid", proc'[c].id>>)
      BY <1>5, <2>1, <3>1, <3>2 DEF CallsApart
    <3> QED
      BY <3>3, <3>4, <3>5, <3>6
  <2> QED
    BY <2>2 DEF CallsApart
<1>16. BreaksApart'
  <2>1. BreaksApart
    BY DEF IntakeInv
  <2>2. ASSUME NEW l \in Logs, NEW k \in Nat, Broken(logs'[l], <<"ulid", k>>)
        PROVE  /\ \A a \in answers' : a.status = "ok" => a.id # k
               /\ \A c \in Callers : AtWork(proc'[c]) => proc'[c].id # k
    <3>1. CASE Broken(logs[l], <<"ulid", k>>)
      BY <1>7, <1>11, <2>1, <3>1 DEF BreaksApart
    <3>2. CASE rd.ev.id = <<"ulid", k>>
      BY <1>6, <1>7, <1>10, <1>11, <1>14, <3>2
    <3> QED
      BY <1>5, <2>2, <3>1, <3>2
  <2> QED
    BY <2>2 DEF BreaksApart
<1>17. Truth'
  <2>1. ASSUME NEW a \in answers PROVE AnswerGood(a)'
    <3>1. AnswerGood(a) /\ (p \in Callers => a.id # rd.id)
      BY <1>6 DEF IntakeInv, Truth
    <3> QED
      BY <1>5, <1>10, <3>1 DEF AnswerGood
  <2>2. \A a \in answers' : a \in answers \/ a.status = "failed"
    BY <1>7
  <2>3. \A a : a.status = "failed" => AnswerGood(a)'
    BY DEF AnswerGood
  <2> QED
    BY <2>1, <2>2, <2>3 DEF Truth
<1>18. SeedsApart'
  <2> SUFFICES ASSUME OneSeeder
               PROVE  /\ \A q \in Seeders : SeedsGood(proc'[q], logs')
                      /\ \A l \in Inside : Distinct(logs'[l])
    BY DEF SeedsApart, OneSeeder
  <2>1. SeedsApart /\ \A l \in Inside : l \in Logs
    BY ProjectAssumption DEF IntakeInv
  <2>2. ASSUME NEW q \in Seeders PROVE SeedsGood(proc'[q], logs')
    <3>1. CASE p \in Seeders
      <4>1. proc'[q] = Idle /\ Idle.pc = "idle"
        BY <1>2, <2>2, <3>1 DEF OneSeeder, Procs, Idle
      <4> QED
        BY <4>1 DEF SeedsGood
    <3>2. CASE p \in Callers
      <4>1. proc'[q] = proc[q]
        BY <1>1, <1>2, <2>2, <3>2 DEF Procs
      <4> QED
        BY <2>1, <3>2, <4>1, SeedsBeside DEF SeedsApart
    <3> QED
      BY <1>1, <3>1, <3>2
  <2>3. ASSUME NEW l \in Inside PROVE Distinct(logs'[l])
    BY <1>1, <1>5, <1>6, <2>1 DEF SeedsApart
  <2> QED
    BY <2>2, <2>3
<1> QED
  BY <1>3, <1>4, <1>9, <1>12, <1>13, <1>15, <1>16, <1>17, <1>18 DEF IntakeInv

\* The process is killed, in the middle of an append or elsewhere.
LEMMA ExitKeeps ==
  ASSUME IntakeInv, NEW p \in Procs, Exit(p)
  PROVE  IntakeInv'
<1>1. proc' = [proc EXCEPT ![p] = Idle] /\ UNCHANGED <<spec, tree, answers, calls, wiped, edits, seeds>>
  BY DEF Exit
<1>2. CASE UNCHANGED logs
  BY <1>1, <1>2, GoesIdle
<1>3. CASE proc[p].pc = "write" /\ \E left \in Lefts : logs' = Written(p, left)
  <2>1. ~ AtWork(Idle)
    BY DEF Idle, AtWork
  <2> QED
    BY <1>1, <1>3, <2>1, IdleIsRecord, CutShortKeeps
<1> QED
  BY <1>2, <1>3 DEF Exit, CutShort

\* A caller that is told of a failure may have left anything.
LEMMA AppendFailsKeeps ==
  ASSUME IntakeInv, NEW p \in Procs, AppendFails(p)
  PROVE  IntakeInv'
<1>1. /\ ProcGood(p, proc[p], calls) /\ (p \in Callers) # (p \in Seeders) /\ calls \in Nat
      /\ calls \in 0 .. MaxCalls
  BY RecordFacts
<1>2. proc[p].pc \in {"open", "write"} /\ UNCHANGED <<spec, tree, calls, wiped, edits, seeds>>
  BY DEF AppendFails
<1>3. CASE p \in Seeders
  <2>1. proc[p].verb = "seed"
    BY <1>1, <1>2, <1>3 DEF ProcGood, SeederGood
  <2>2. proc' = [proc EXCEPT ![p] = Idle] /\ answers' = answers
    BY <2>1 DEF AppendFails
  <2>3. CASE UNCHANGED logs
    BY <1>2, <2>2, <2>3, GoesIdle
  <2>4. CASE proc[p].pc = "write" /\ \E left \in Lefts : logs' = Written(p, left)
    <3>1. ~ AtWork(Idle)
      BY DEF Idle, AtWork
    <3> QED
      BY <1>2, <2>2, <2>4, <3>1, IdleIsRecord, CutShortKeeps
  <2> QED
    BY <2>3, <2>4 DEF AppendFails, CutShort
<1>4. CASE p \in Callers
  <2> DEFINE a == [id |-> proc[p].id, status |-> "failed", log |-> proc[p].log]
  <2>1. /\ proc[p].verb # "seed" /\ proc[p].id \in 1 .. calls /\ AtWork(proc[p]) /\ proc[p].log \in Logs
    BY <1>1, <1>2, <1>4 DEF ProcGood, CallerGood, AtWork
  <2>2. proc' = Answered(p) /\ answers' = answers \union {a}
    BY <2>1 DEF AppendFails
  <2>3. CASE UNCHANGED logs
    <3>1. CallsApart
      BY DEF IntakeInv
    <3>2. \A q \in Callers : AtWork(proc[q]) /\ proc[q].id = a.id => q = p
      BY <1>4, <2>1, <3>1 DEF CallsApart
    <3>3. AnswerGood(a) /\ a.status # "ok"
      BY DEF AnswerGood
    <3>4. /\ calls' = calls /\ calls' \in 0 .. MaxCalls /\ calls <= calls'
          /\ a \in [id : 1 .. calls', status : Statuses, log : Logs \union {None}]
      BY <1>1, <1>2, <2>1 DEF Statuses
    <3>5. proc[p].pc \in {"ready", "open", "write", "answer"} /\ UNCHANGED <<spec, tree, logs, wiped, edits, seeds>>
      BY <1>2, <2>3
    <3> HIDE DEF a
    <3> QED
      BY <1>4, <2>2, <3>2, <3>3, <3>4, <3>5, AnswerStep
  <2>4. CASE proc[p].pc = "write" /\ \E left \in Lefts : logs' = Written(p, left)
    <3>1. PICK new \in ProcRecord :
            /\ Answered(p) = [proc EXCEPT ![p] = new]
            /\ ~ AtWork(new)
            /\ \A n : ProcGood(p, new, n)
      BY <1>2, <1>4, AnsweredIs
    <3> QED
      BY <1>1, <1>2, <1>4, <2>2, <2>4, <3>1, CutShortKeeps
  <2> QED
    BY <2>3, <2>4 DEF AppendFails, CutShort
<1> QED
  BY <1>1, <1>3, <1>4

\* A whole line.
LEMMA WriteKeeps ==
  ASSUME IntakeInv, NEW p \in Procs, Write(p)
  PROVE  IntakeInv'
<1> DEFINE rd == proc[p]
           new == IF rd.verb = "seed" THEN [rd EXCEPT !.pc = "seed", !.i = rd.i + 1]
                  ELSE [rd EXCEPT !.pc = "answer"]
<1>1. /\ rd \in ProcRecord /\ ProcGood(p, rd, calls) /\ rd.pc = "write"
      /\ proc \in [Procs -> ProcRecord] /\ calls \in Nat
      /\ (p \in Callers) # (p \in Seeders)
      /\ p \in Seeders /\ OneSeeder => SeedsGood(rd, logs)
  BY RecordFacts DEF Write
<1>2. proc' = [proc EXCEPT ![p] = new] /\ logs' = Written(p, "line") /\ "line" \in Lefts
  BY DEF Write, Lefts
<1>3. UNCHANGED <<spec, tree, calls, answers, wiped, seeds, edits>>
  BY DEF Write
<1>4. rd.log \in Logs /\ rd.ev \in LogEvents /\ Conforms(rd.ev) /\ rd.i \in Nat
  BY <1>1 DEF ProcGood, ProcRecord
<1>5. IF rd.linked THEN logs[rd.log] # None ELSE p \in Callers => rd.id \in wiped
  BY <1>1 DEF IntakeInv, Linked
<1>6. /\ logs' \in [Logs -> Seq(Appends) \union {None}] /\ AllConform'
      /\ \A l \in Logs :
           /\ logs[l] # None => logs'[l] # None
           /\ \A id : Holds(logs'[l], id) <=> Holds(logs[l], id) \/ (Adds(p, l) /\ id = rd.ev.id)
           /\ \A id : Kept(logs'[l], id) <=> Kept(logs[l], id) \/ (Adds(p, l) /\ id = rd.ev.id)
           /\ \A id : Broken(logs'[l], id) <=> Broken(logs[l], id)
           /\ Distinct(logs[l]) /\ (Adds(p, l) => ~ Holds(logs[l], rd.ev.id)) => Distinct(logs'[l])
           /\ ~ Adds(p, l) => logs'[l] = logs[l]
           /\ Adds(p, l) => /\ Lines(logs[l]) \in Seq(Appends)
                            /\ Lines(logs'[l]) = Append(Lines(logs[l]), Left(p, "line"))
  BY <1>1, <1>2, WrittenIs
<1>7. /\ p \in Seeders => rd.verb = "seed"
      /\ p \in Callers => rd.verb \in {"append", "run"}
  BY <1>1 DEF ProcGood, CallerGood, SeederGood
<1>8. /\ new \in ProcRecord /\ new.pc = IF p \in Seeders THEN "seed" ELSE "answer"
      /\ new.spec = rd.spec /\ new.tree = rd.tree /\ new.verb = rd.verb /\ new.id = rd.id
      /\ new.ev = rd.ev /\ new.log = rd.log /\ new.wipe = rd.wipe
      /\ new.i = IF p \in Seeders THEN rd.i + 1 ELSE rd.i
      /\ new.n = rd.n /\ new.force = rd.force /\ new.linked = rd.linked
  <2>1. CASE p \in Seeders
    <3> DEFINE half == [rd EXCEPT !.pc = "seed"]
    <3>1. new = [half EXCEPT !.i = rd.i + 1]
      BY <1>7, <2>1
    <3>2. half \in ProcRecord /\ rd.i + 1 \in Nat
      <4>1. half \in ProcRecord
        BY <1>1, FieldStays
      <4> QED
        BY <1>4, <4>1
    <3>3. /\ half.pc = "seed" /\ half.spec = rd.spec /\ half.tree = rd.tree /\ half.verb = rd.verb
          /\ half.id = rd.id /\ half.ev = rd.ev /\ half.log = rd.log /\ half.wipe = rd.wipe
          /\ half.n = rd.n /\ half.force = rd.force /\ half.linked = rd.linked
      BY <1>1 DEF ProcRecord
    <3> HIDE DEF half, new
    <3>4. new \in ProcRecord
      BY <3>1, <3>2, FieldStays
    <3>5. /\ new.i = rd.i + 1 /\ new.pc = half.pc /\ new.spec = half.spec /\ new.tree = half.tree
          /\ new.verb = half.verb /\ new.id = half.id /\ new.ev = half.ev /\ new.log = half.log
          /\ new.wipe = half.wipe /\ new.n = half.n /\ new.force = half.force /\ new.linked = half.linked
      BY <3>1, <3>2 DEF ProcRecord
    <3> QED
      BY <2>1, <3>3, <3>4, <3>5
  <2>2. CASE p \notin Seeders
    <3>1. new = [rd EXCEPT !.pc = "answer"]
      BY <1>1, <1>7, <2>2
    <3> HIDE DEF new
    <3>2. new \in ProcRecord
      BY <1>1, <3>1, FieldStays
    <3>3. /\ new.pc = "answer" /\ new.spec = rd.spec /\ new.tree = rd.tree /\ new.verb = rd.verb
          /\ new.id = rd.id /\ new.ev = rd.ev /\ new.log = rd.log /\ new.wipe = rd.wipe
          /\ new.i = rd.i /\ new.n = rd.n /\ new.force = rd.force /\ new.linked = rd.linked
      BY <1>1, <3>1 DEF ProcRecord
    <3> QED
      BY <2>2, <3>2, <3>3
  <2> QED
    BY <2>1, <2>2
<1>9. \A q \in Procs : proc'[q] = IF q = p THEN new ELSE proc[q]
  BY <1>1, <1>2
<1>10. rd = proc[p]
  OBVIOUS
<1> HIDE DEF new, rd
<1>11. ProcsGood' /\ proc' \in [Procs -> ProcRecord]
  <2>1. CASE p \in Seeders
    <3>1. ProcGood(p, new, calls)
      <4>1. Loaded(rd) /\ SeederGood(rd) /\ p \notin Callers
        BY <1>1, <2>1 DEF ProcGood
      <4>2. rd.n \in Int /\ rd.i < rd.n
        BY <1>1, <4>1 DEF ProcRecord, SeederGood
      <4>3. new.pc = "seed" /\ new.i = rd.i + 1 /\ new.i <= new.n
        BY <1>4, <1>8, <2>1, <4>2
      <4>4. Loaded(new)
        BY <1>1, <1>8, <4>1, <4>3 DEF Loaded
      <4>5. SeederGood(new)
        BY <1>1, <1>8, <4>1, <4>3 DEF SeederGood
      <4> QED
        BY <4>1, <4>3, <4>4, <4>5 DEF ProcGood
    <3>2. calls' = calls /\ calls' \in Nat /\ calls <= calls' /\ ProcGood(p, new, calls')
      BY <1>1, <1>3, <3>1
    <3> QED
      BY <1>2, <1>8, <3>2, ProcMoves
  <2>2. CASE p \notin Seeders
    <3>1. ProcGood(p, new, calls)
      BY <1>1, <1>8, <2>2 DEF ProcGood, Loaded, CallerGood
    <3>2. calls' = calls /\ calls' \in Nat /\ calls <= calls' /\ ProcGood(p, new, calls')
      BY <1>1, <1>3, <3>1
    <3> QED
      BY <1>2, <1>8, <3>2, ProcMoves
  <2> QED
    BY <2>1, <2>2
<1>12. IntakeTyped'
  BY <1>3, <1>6, <1>11 DEF IntakeInv, IntakeTyped
<1>13. Linked'
  <2>1. Linked
    BY DEF IntakeInv
  <2>2. ASSUME NEW q \in Procs, proc'[q].pc = "write"
        PROVE  proc'[q] = proc[q] /\ proc[q].log \in Logs
    <3>1. q # p
      BY <1>8, <1>9, <2>2
    <3> QED
      BY <1>9, <2>2, <3>1 DEF IntakeInv, ProcsGood, ProcGood
  <2> QED
    BY <1>3, <1>6, <2>1, <2>2 DEF Linked
<1>14. AllConform'
  BY <1>6
<1>15. CASE p \in Callers
  <2>1. /\ rd.ev.id = <<"ulid", rd.id>> /\ rd.id \in 1 .. calls /\ p \notin Seeders
        /\ new.pc = "answer" /\ AtWork(rd)
        /\ \A l \in Logs : ~ Holds(logs[l], rd.ev.id)
        /\ \A q \in Callers : AtWork(proc[q]) /\ proc[q].id = rd.id => q = p
        /\ \A a \in answers : a.id # rd.id
    BY <1>1, <1>8, <1>10, <1>15, NewInLog DEF ProcGood, CallerGood, AtWork
  <2>2. CallsApart /\ BreaksApart /\ IdsIssued /\ Truth /\ SeedsApart
    BY DEF IntakeInv
  <2>3. \A k : <<"ulid", k>> = rd.ev.id <=> k = rd.id
    BY <2>1
  <2>4. IdsIssued'
    BY <1>3, <1>6, <2>1, <2>2, <2>3 DEF IdsIssued
  <2>5. Truth'
    <3>1. ASSUME NEW a \in answers PROVE AnswerGood(a)'
      <4>1. AnswerGood(a) /\ a.id # rd.id
        BY <2>1, <2>2 DEF Truth
      <4>2. \A l \in Logs : Holds(logs'[l], <<"ulid", a.id>>) <=> Holds(logs[l], <<"ulid", a.id>>)
        BY <1>6, <2>3, <4>1
      <4>3. \A l \in Logs : Kept(logs[l], <<"ulid", a.id>>) => Kept(logs'[l], <<"ulid", a.id>>)
        BY <1>6
      <4> QED
        BY <1>3, <4>1, <4>2, <4>3 DEF AnswerGood
    <3> QED
      BY <1>3, <3>1 DEF Truth
  <2>6. \A d \in Callers : AtWork(proc'[d]) => AtWork(proc[d]) /\ proc'[d].id = proc[d].id
    BY <1>8, <1>9, <1>10, <2>1 DEF Procs
  <2>7. BreaksApart'
    BY <1>3, <1>6, <2>2, <2>6 DEF BreaksApart
  <2>8. CallsApart'
    <3>1. ASSUME NEW c \in Callers, AtWork(proc'[c])
          PROVE  /\ \A d \in Callers : AtWork(proc'[d]) /\ proc'[d].id = proc'[c].id => d = c
                 /\ \A a \in answers' : a.id # proc'[c].id
                 /\ proc'[c].pc # "answer" => \A l \in Logs : ~ Holds(logs'[l], <<"ulid", proc'[c].id>>)
                 /\ proc'[c].pc = "answer" /\ proc'[c].id \notin wiped' =>
                      Kept(logs'[proc'[c].log], <<"ulid", proc'[c].id>>)
      <4>1. /\ \A d \in Callers : AtWork(proc'[d]) /\ proc'[d].id = proc'[c].id => d = c
            /\ \A a \in answers' : a.id # proc'[c].id
        BY <1>3, <2>2, <2>6, <3>1 DEF CallsApart
      <4>2. CASE c = p
        <5>1. proc'[c] = new /\ new.id = rd.id /\ new.log = rd.log
          BY <1>8, <1>9, <4>2 DEF Procs
        <5>2. rd.id \notin wiped => Adds(p, rd.log)
          BY <1>5, <1>10, <1>15 DEF Adds
        <5>3. rd.id \notin wiped => Kept(logs'[rd.log], <<"ulid", rd.id>>)
          BY <1>4, <1>6, <2>1, <5>2
        <5> QED
          BY <1>3, <2>1, <4>1, <5>1, <5>3
      <4>3. CASE c # p
        <5>1. proc'[c] = proc[c] /\ proc[c].id # rd.id /\ AtWork(proc[c])
          BY <1>9, <2>1, <2>6, <3>1, <4>3 DEF Procs
        <5>2. proc[c].log \in Logs
          BY <5>1 DEF IntakeInv, ProcsGood, ProcGood, AtWork, Procs
        <5>3. \A l \in Logs : Holds(logs'[l], <<"ulid", proc[c].id>>) <=> Holds(logs[l], <<"ulid", proc[c].id>>)
          BY <1>6, <2>3, <5>1
        <5>4. Kept(logs[proc[c].log], <<"ulid", proc[c].id>>) => Kept(logs'[proc[c].log], <<"ulid", proc[c].id>>)
          BY <1>6, <5>2
        <5> QED
          BY <1>3, <2>2, <4>1, <5>1, <5>3, <5>4 DEF CallsApart
      <4> QED
        BY <4>2, <4>3
    <3> QED
      BY <3>1 DEF CallsApart
  <2>9. SeedsApart'
    <3>1. \A q \in Seeders : proc'[q] = proc[q]
      BY <1>9, <2>1 DEF Procs
    <3>2. \A q \in Seeders : SeedsGood(proc[q], logs) => SeedsGood(proc[q], logs')
      BY <1>1, <1>2, <1>10, <1>15, SeedsBeside
    <3>3. \A l \in Inside : Distinct(logs[l]) => Distinct(logs'[l])
      BY <1>6, <2>1, ProjectAssumption
    <3> QED
      BY <2>2, <3>1, <3>2, <3>3 DEF SeedsApart, OneSeeder
  <2> QED
    BY <1>11, <1>12, <1>13, <1>14, <2>4, <2>5, <2>7, <2>8, <2>9 DEF IntakeInv
<1>16. CASE p \in Seeders
  <2>1. /\ rd.ev.id = <<"seed", rd.i>> /\ rd.log \in LeafSet(rd.tree) /\ rd.wipe = << >>
        /\ rd.log = LeafFor(rd.tree, rd.i) /\ rd.ev = SeedEvent(rd.spec, rd.tree, rd.i)
        /\ p \notin Callers /\ new.pc = "seed" /\ new.i = rd.i + 1
    <3>1. /\ rd.spec \in Specs /\ rd.tree \in Trees /\ SeederGood(rd)
      BY <1>1, <1>16 DEF ProcGood, Loaded
    <3>2. /\ LeafSet(rd.tree) # {} /\ DOMAIN Schema[rd.spec] # {} /\ rd.wipe = << >>
          /\ rd.log = LeafFor(rd.tree, rd.i) /\ rd.ev = SeedEvent(rd.spec, rd.tree, rd.i)
      BY <1>1, <3>1 DEF SeederGood
    <3>3. rd.ev.id = <<"seed", rd.i>> /\ rd.log \in LeafSet(rd.tree)
      BY <1>4, <3>1, <3>2, SeedEventConforms
    <3> QED
      BY <1>1, <1>8, <1>16, <3>2, <3>3
  <2>2. CallsApart /\ BreaksApart /\ IdsIssued /\ Truth /\ SeedsApart
    BY DEF IntakeInv
  <2>3. \A l \in Logs : \A k : /\ Holds(logs'[l], <<"ulid", k>>) <=> Holds(logs[l], <<"ulid", k>>)
                               /\ Kept(logs'[l], <<"ulid", k>>) <=> Kept(logs[l], <<"ulid", k>>)
                               /\ Broken(logs'[l], <<"ulid", k>>) <=> Broken(logs[l], <<"ulid", k>>)
    BY <1>6, <2>1
  <2>4. IdsIssued' /\ Truth'
    BY <1>3, <2>2, <2>3 DEF IdsIssued, Truth, AnswerGood
  <2>5. CallsApart' /\ BreaksApart'
    <3>1. \A q \in Callers : proc'[q] = proc[q]
      BY <1>9, <2>1 DEF Procs
    <3>2. \A q \in Callers : AtWork(proc[q]) => proc[q].log \in Logs
      BY DEF IntakeInv, ProcsGood, ProcGood, AtWork, Procs
    <3>3. CallsApart'
      BY <1>3, <2>2, <2>3, <3>1, <3>2 DEF CallsApart
    <3> QED
      BY <1>3, <2>2, <2>3, <3>1, <3>3 DEF BreaksApart
  <2>6. SeedsApart'
    <3> SUFFICES ASSUME OneSeeder
                 PROVE  /\ \A q \in Seeders : SeedsGood(proc'[q], logs')
                        /\ \A l \in Inside : Distinct(logs'[l])
      BY DEF SeedsApart, OneSeeder
    <3>1. \A l \in Inside : l \in Logs
      BY ProjectAssumption
    <3>2. SeedsGood(rd, logs)
      BY <1>1, <1>16
    <3>3. /\ rd.linked
          /\ \A l \in LeafSet(rd.tree) : rd.force \/ l \in Inside =>
               Generated(Lines(logs[l]), rd.spec, rd.tree, l, rd.i)
      BY <1>1, <2>1, <3>2 DEF SeedsGood
    <3>4. Left(p, "line") = SeedLine(rd.spec, rd.tree, rd.i) /\ SeedLine(rd.spec, rd.tree, rd.i) \in Appends
      BY <1>2, <1>4, <1>10, <2>1 DEF Left, SeedLine, Appends
    <3>5. \A l : Adds(p, l) <=> l = rd.log
      BY <1>10, <3>3 DEF Adds
    <3>6. SeedsGood(new, logs')
      <4>1. ASSUME NEW l \in LeafSet(rd.tree), rd.force \/ l \in Inside
            PROVE  Generated(Lines(logs'[l]), rd.spec, rd.tree, l, rd.i + 1)
        <5> DEFINE log == Lines(logs[l])
                   line == SeedLine(rd.spec, rd.tree, rd.i)
        <5>1. Generated(log, rd.spec, rd.tree, l, rd.i)
          BY <3>3, <4>1
        <5>2. l \in Logs
          <6>1. rd.tree \in Trees
            BY <1>1 DEF ProcGood, Loaded
          <6> QED
            BY <6>1, ProjectAssumption DEF LeafSet
        <5>3. /\ l = rd.log => log \in Seq(Appends) /\ Lines(logs'[l]) = Append(log, line)
              /\ l # rd.log => Lines(logs'[l]) = log
          BY <1>6, <3>4, <3>5, <5>2
        <5>4. line \in Appends
          BY <3>4
        <5> HIDE DEF log
        <5>5. /\ LeafFor(rd.tree, rd.i) # l => Generated(log, rd.spec, rd.tree, l, rd.i + 1)
              /\ LeafFor(rd.tree, rd.i) = l /\ log \in Seq(Appends) /\ line \in Appends =>
                   Generated(Append(log, line), rd.spec, rd.tree, l, rd.i + 1)
          BY <1>4, <5>1, GeneratedNext
        <5> HIDE DEF line
        <5> QED
          BY <2>1, <5>3, <5>4, <5>5
      <4> QED
        BY <1>8, <2>1, <3>3, <4>1 DEF SeedsGood
    <3>7. \A q \in Seeders : q = p /\ proc'[q] = new
      BY <1>9, <1>16 DEF OneSeeder, Procs
    <3>8. ASSUME NEW l \in Inside PROVE Distinct(logs'[l])
      <4>1. Distinct(logs[l])
        BY <2>2 DEF SeedsApart
      <4>2. l = rd.log => ~ Holds(logs[l], rd.ev.id)
        BY <1>1, <1>10, <1>16, NewInLog
      <4> QED
        BY <1>6, <3>1, <3>5, <4>1, <4>2
    <3> QED
      BY <3>6, <3>7, <3>8
  <2> QED
    BY <1>11, <1>12, <1>13, <1>14, <2>4, <2>5, <2>6 DEF IntakeInv
<1> QED
  BY <1>1, <1>15, <1>16

\* A log is gone with all its events, and whoever has it open is told so.
LEMMA WipeKeeps ==
  ASSUME IntakeInv, NEW p \in Seeders, Wipe(p)
  PROVE  IntakeInv'
<1> DEFINE rd == proc[p]
           gone == Head(rd.wipe)
           new == [rd EXCEPT !.wipe = Tail(rd.wipe)]
           become(q) == IF q = p THEN new
                        ELSE IF proc[q].pc = "write" /\ proc[q].log = gone
                             THEN [proc[q] EXCEPT !.linked = FALSE]
                        ELSE proc[q]
<1>1. p \in Procs /\ p \notin Callers
  BY ProjectAssumption DEF Procs
<1>2. /\ rd \in ProcRecord /\ ProcGood(p, rd, calls) /\ rd.pc = "wipe" /\ rd.wipe # << >>
      /\ proc \in [Procs -> ProcRecord] /\ calls \in Nat
      /\ logs \in [Logs -> Seq(Appends) \union {None}]
      /\ (OneSeeder => SeedsGood(rd, logs))
  BY <1>1, RecordFacts DEF Wipe
<1>3. /\ proc' = [q \in Procs |-> become(q)]
      /\ logs' = [logs EXCEPT ![gone] = None]
      /\ wiped' = wiped \union InOrOpen(gone)
      /\ UNCHANGED <<spec, tree, calls, answers, seeds, edits>>
  BY DEF Wipe
<1>4. rd.wipe \in Seq(Logs) /\ rd = proc[p]
  BY <1>2 DEF ProcRecord
<1>5. gone \in Logs /\ Tail(rd.wipe) \in Seq(Logs) /\ gone = rd.wipe[1]
      /\ Len(Tail(rd.wipe)) = Len(rd.wipe) - 1 /\ Len(rd.wipe) \in Nat
      /\ \A j \in 1 .. Len(rd.wipe) - 1 : Tail(rd.wipe)[j] = rd.wipe[j + 1]
  BY <1>2, <1>4
<1>6. new \in ProcRecord
  BY <1>2, <1>5, FieldStays
<1>7. /\ new.pc = "wipe" /\ new.spec = rd.spec /\ new.tree = rd.tree /\ new.verb = rd.verb
      /\ new.id = rd.id /\ new.i = rd.i /\ new.wipe = Tail(rd.wipe)
      /\ new.n = rd.n /\ new.force = rd.force /\ new.linked = rd.linked
  BY <1>2 DEF ProcRecord
<1>8. ASSUME NEW q \in Procs, q # p
      PROVE  /\ become(q) \in ProcRecord
             /\ become(q).pc = proc[q].pc /\ become(q).spec = proc[q].spec /\ become(q).tree = proc[q].tree
             /\ become(q).verb = proc[q].verb /\ become(q).id = proc[q].id /\ become(q).ev = proc[q].ev
             /\ become(q).log = proc[q].log /\ become(q).wipe = proc[q].wipe /\ become(q).i = proc[q].i
             /\ become(q).n = proc[q].n
             /\ become(q).linked =
                  IF proc[q].pc = "write" /\ proc[q].log = gone THEN FALSE ELSE proc[q].linked
  <2>1. proc[q] \in ProcRecord
    BY <1>2
  <2>2. CASE proc[q].pc = "write" /\ proc[q].log = gone
    <3>1. become(q) = [proc[q] EXCEPT !.linked = FALSE]
      BY <1>8, <2>2
    <3> HIDE DEF become
    <3>2. become(q) \in ProcRecord
      BY <2>1, <3>1, FieldStays
    <3> QED
      BY <2>1, <2>2, <3>1, <3>2 DEF ProcRecord
  <2>3. CASE ~ (proc[q].pc = "write" /\ proc[q].log = gone)
    <3>1. become(q) = proc[q]
      BY <1>8, <2>3
    <3> HIDE DEF become
    <3> QED
      BY <2>1, <2>3, <3>1
  <2> QED
    BY <2>2, <2>3
<1>9. become(p) = new
  OBVIOUS
<1> HIDE DEF become, new, gone, rd
<1>10. \A q \in Procs : proc'[q] = become(q)
  BY <1>3
<1>11. \A l \in Logs : logs'[l] = IF l = gone THEN None ELSE logs[l]
  BY <1>2, <1>3
<1>12. \A l \in Logs : \A id : /\ Holds(logs'[l], id) <=> l # gone /\ Holds(logs[l], id)
                               /\ Kept(logs'[l], id) <=> l # gone /\ Kept(logs[l], id)
                               /\ Broken(logs'[l], id) <=> l # gone /\ Broken(logs[l], id)
  BY <1>11, EmptyHolds
<1>13. /\ wiped \subseteq wiped' /\ wiped' \subseteq 1 .. calls
       /\ \A k \in 1 .. calls : Kept(logs[gone], <<"ulid", k>>) => k \in wiped'
       /\ \A c \in Callers : proc[c].pc = "write" /\ proc[c].log = gone => proc[c].id \in wiped'
  <2>1. wiped \subseteq 1 .. calls /\ InOrOpen(gone) \subseteq 1 .. calls
    BY DEF IntakeInv, IntakeTyped, InOrOpen
  <2>2. \A k \in 1 .. calls : Kept(logs[gone], <<"ulid", k>>) => k \in InOrOpen(gone)
    BY DEF Kept, Lines, InOrOpen, Appended
  <2>3. ASSUME NEW c \in Callers, proc[c].pc = "write", proc[c].log = gone
        PROVE  proc[c].id \in InOrOpen(gone)
    <3>1. proc[c].id \in 1 .. calls
      BY <2>3 DEF IntakeInv, ProcsGood, ProcGood, CallerGood, Procs
    <3> QED
      BY <2>3, <3>1 DEF InOrOpen
  <2> QED
    BY <1>3, <2>1, <2>2, <2>3
<1>14. proc' \in [Procs -> ProcRecord]
  BY <1>3, <1>6, <1>8, <1>9
<1>15. logs' \in [Logs -> Seq(Appends) \union {None}]
  BY <1>2, <1>3
<1>16. IntakeTyped'
  BY <1>3, <1>13, <1>14, <1>15 DEF IntakeInv, IntakeTyped
<1>17. ProcsGood'
  <2>1. ASSUME NEW q \in Procs PROVE ProcGood(q, proc'[q], calls)
    <3>1. CASE q = p
      <4>1. ProcGood(p, new, calls)
        BY <1>1, <1>2, <1>7 DEF ProcGood, Loaded, SeederGood
      <4> QED
        BY <1>9, <1>10, <3>1, <4>1
    <3>2. CASE q # p
      <4>1. ProcGood(q, proc[q], calls)
        BY DEF IntakeInv, ProcsGood
      <4>2. Loaded(become(q))
        BY <1>8, <3>2, <4>1 DEF ProcGood, Loaded
      <4>3. q \in Callers => CallerGood(become(q), calls)
        BY <1>8, <3>2, <4>1 DEF ProcGood, CallerGood
      <4>4. q \in Seeders => SeederGood(become(q))
        BY <1>8, <3>2, <4>1 DEF ProcGood, SeederGood
      <4> QED
        BY <1>8, <1>10, <3>2, <4>1, <4>2, <4>3, <4>4 DEF ProcGood
    <3> QED
      BY <3>1, <3>2
  <2> QED
    BY <1>3, <2>1 DEF ProcsGood
<1>18. Linked'
  <2>1. Linked
    BY DEF IntakeInv
  <2>2. ASSUME NEW q \in Procs, proc'[q].pc = "write"
        PROVE  IF proc'[q].linked THEN logs'[proc'[q].log] # None
               ELSE q \in Callers => proc'[q].id \in wiped'
    <3>1. q # p
      BY <1>7, <1>9, <1>10, <2>2
    <3>2. proc[q].pc = "write" /\ proc'[q].log = proc[q].log /\ proc'[q].id = proc[q].id
      BY <1>8, <1>10, <2>2, <3>1
    <3>3. proc[q].log \in Logs
      BY <3>2 DEF IntakeInv, ProcsGood, ProcGood
    <3>4. IF proc[q].linked THEN logs[proc[q].log] # None ELSE q \in Callers => proc[q].id \in wiped
      BY <2>1, <3>2 DEF Linked
    <3>5. CASE proc[q].log = gone
      <4>1. ~ proc'[q].linked
        BY <1>8, <1>10, <3>1, <3>2, <3>5
      <4> QED
        BY <1>13, <3>2, <3>5, <4>1
    <3>6. CASE proc[q].log # gone
      <4>1. proc'[q].linked = proc[q].linked
        BY <1>8, <1>10, <3>1, <3>6
      <4>2. logs'[proc[q].log] = logs[proc[q].log]
        BY <1>11, <3>3, <3>6
      <4> QED
        BY <1>13, <3>2, <3>4, <4>1, <4>2
    <3> QED
      BY <3>5, <3>6
  <2> QED
    BY <2>2 DEF Linked
<1>19. AllConform'
  <2>1. AllConform
    BY DEF IntakeInv
  <2>2. ASSUME NEW l \in Logs, NEW i \in 1 .. Len(Lines(logs'[l])) PROVE Conforms(logs'[l][i].ev)
    <3>1. l # gone
      BY <1>11, <2>2, EmptyHolds
    <3> QED
      BY <1>11, <2>1, <2>2, <3>1 DEF AllConform
  <2> QED
    BY <2>2 DEF AllConform
<1>20. IdsIssued'
  BY <1>3, <1>12 DEF IntakeInv, IdsIssued
<1>21. Truth'
  <2>1. ASSUME NEW a \in answers PROVE AnswerGood(a)'
    <3>1. AnswerGood(a) /\ a.id \in 1 .. calls
      BY DEF IntakeInv, Truth, IntakeTyped
    <3>2. a.status = "ok" /\ a.id \notin wiped' => a.log \in Logs /\ Kept(logs'[a.log], <<"ulid", a.id>>)
      BY <1>12, <1>13, <3>1 DEF AnswerGood
    <3>3. a.status \in {"issues", "raised"} => \A l \in Logs : ~ Holds(logs'[l], <<"ulid", a.id>>)
      BY <1>12, <3>1 DEF AnswerGood
    <3> QED
      BY <3>2, <3>3 DEF AnswerGood
  <2> QED
    BY <1>3, <2>1 DEF Truth
<1>22. CallsApart' /\ BreaksApart'
  <2>1. CallsApart /\ BreaksApart
    BY DEF IntakeInv
  <2>2. ASSUME NEW c \in Callers
        PROVE  proc'[c].pc = proc[c].pc /\ proc'[c].id = proc[c].id /\ proc'[c].log = proc[c].log
    <3>1. c \in Procs /\ c # p
      BY <1>1 DEF Procs
    <3> QED
      BY <1>8, <1>10, <3>1
  <2>3. \A c \in Callers : AtWork(proc'[c]) <=> AtWork(proc[c])
    BY <2>2 DEF AtWork
  <2>4. BreaksApart'
    <3>1. ASSUME NEW l \in Logs, NEW k \in Nat, Broken(logs'[l], <<"ulid", k>>)
          PROVE  /\ \A a \in answers' : a.status = "ok" => a.id # k
                 /\ \A c \in Callers : AtWork(proc'[c]) => proc'[c].id # k
      <4>1. Broken(logs[l], <<"ulid", k>>)
        BY <1>12, <3>1
      <4>2. /\ \A a \in answers : a.status = "ok" => a.id # k
            /\ \A c \in Callers : AtWork(proc[c]) => proc[c].id # k
        BY <2>1, <4>1 DEF BreaksApart
      <4> QED
        BY <1>3, <2>2, <2>3, <4>2
    <3> QED
      BY <3>1 DEF BreaksApart
  <2>5. ASSUME NEW c \in Callers, AtWork(proc'[c])
        PROVE  /\ \A d \in Callers : AtWork(proc'[d]) /\ proc'[d].id = proc'[c].id => d = c
               /\ \A a \in answers' : a.id # proc'[c].id
               /\ proc'[c].pc # "answer" => \A l \in Logs : ~ Holds(logs'[l], <<"ulid", proc'[c].id>>)
               /\ proc'[c].pc = "answer" /\ proc'[c].id \notin wiped' =>
                    Kept(logs'[proc'[c].log], <<"ulid", proc'[c].id>>)
    <3>1. /\ \A d \in Callers : AtWork(proc[d]) /\ proc[d].id = proc[c].id => d = c
          /\ \A a \in answers : a.id # proc[c].id
          /\ proc[c].pc # "answer" => \A l \in Logs : ~ Holds(logs[l], <<"ulid", proc[c].id>>)
          /\ proc[c].pc = "answer" /\ proc[c].id \notin wiped =>
               Kept(logs[proc[c].log], <<"ulid", proc[c].id>>)
      BY <2>1, <2>3, <2>5 DEF CallsApart
    <3>2. proc[c].log \in Logs /\ proc[c].id \in 1 .. calls
      BY <2>3, <2>5 DEF IntakeInv, ProcsGood, ProcGood, CallerGood, AtWork, Procs
    <3>3. proc[c].pc = "answer" /\ proc[c].id \notin wiped' =>
            Kept(logs'[proc[c].log], <<"ulid", proc[c].id>>)
      BY <1>12, <1>13, <3>1, <3>2
    <3> QED
      BY <1>3, <1>12, <2>2, <2>3, <3>1, <3>3
  <2> QED
    BY <2>4, <2>5 DEF CallsApart
<1>23. SeedsApart'
  <2> SUFFICES ASSUME OneSeeder
               PROVE  /\ \A q \in Seeders : SeedsGood(proc'[q], logs')
                      /\ \A l \in Inside : Distinct(logs'[l])
    BY DEF SeedsApart, OneSeeder
  <2>1. \A l \in Inside : l \in Logs
    BY ProjectAssumption
  <2>2. SeedsGood(rd, logs)
    BY <1>2
  <2>3. ASSUME NEW l \in LeafSet(rd.tree), rd.force \/ l \in Inside
        PROVE  \/ \E j \in 1 .. Len(Tail(rd.wipe)) : Tail(rd.wipe)[j] = l
               \/ Generated(Lines(logs'[l]), rd.spec, rd.tree, l, rd.i)
    <3>1. l \in Logs
      <4>1. rd.tree \in Trees
        BY <1>2 DEF ProcGood, Loaded
      <4> QED
        BY <4>1, ProjectAssumption DEF LeafSet
    <3>2. CASE l = gone
      <4>1. rd.i = 0
        BY <1>2 DEF ProcGood, SeederGood
      <4>2. Lines(logs'[l]) = << >>
        BY <1>11, <3>1, <3>2 DEF Lines
      <4> QED
        BY <4>1, <4>2, GeneratedNothing
    <3>3. CASE l # gone /\ \E j \in 1 .. Len(rd.wipe) : rd.wipe[j] = l
      <4>1. PICK j \in 1 .. Len(rd.wipe) : rd.wipe[j] = l
        BY <3>3
      <4>2. j # 1
        BY <1>5, <3>3, <4>1
      <4>3. j - 1 \in 1 .. Len(rd.wipe) - 1 /\ (j - 1) + 1 = j
        BY <1>5, <4>2
      <4>4. Tail(rd.wipe)[j - 1] = l
        BY <1>5, <4>1, <4>3
      <4> QED
        BY <1>5, <4>3, <4>4
    <3>4. CASE l # gone /\ ~ \E j \in 1 .. Len(rd.wipe) : rd.wipe[j] = l
      BY <1>2, <1>11, <2>2, <2>3, <3>1, <3>4 DEF SeedsGood
    <3> QED
      BY <3>2, <3>3, <3>4
  <2>4. SeedsGood(new, logs')
    BY <1>2, <1>7, <2>2, <2>3 DEF SeedsGood
  <2>5. \A q \in Seeders : q = p /\ proc'[q] = new
    BY <1>1, <1>9, <1>10 DEF OneSeeder
  <2>6. \A l \in Inside : Distinct(logs'[l])
    BY <1>11, <2>1, EmptyHolds DEF IntakeInv, SeedsApart
  <2> QED
    BY <2>4, <2>5, <2>6
<1> QED
  BY <1>16, <1>17, <1>18, <1>19, <1>20, <1>21, <1>22, <1>23 DEF IntakeInv

-----------------------------------------------------------------------------
(* The theorems. *)

LEMMA IntakeInvKept == IntakeInv /\ [Next]_vars => IntakeInv'
<1> SUFFICES ASSUME IntakeInv, [Next]_vars PROVE IntakeInv'
  OBVIOUS
<1>1. CASE UNCHANGED vars
  <2> USE <1>1 DEF vars
  <2>1. IntakeTyped' /\ ProcsGood' /\ Linked' /\ AllConform'
    BY DEF IntakeInv, IntakeTyped, ProcsGood, Linked, AllConform
  <2>2. IdsIssued' /\ CallsApart' /\ BreaksApart' /\ Truth' /\ SeedsApart'
    BY DEF IntakeInv, IdsIssued, CallsApart, BreaksApart, Truth, AnswerGood, SeedsApart, OneSeeder
  <2> QED
    BY <2>1, <2>2 DEF IntakeInv
<1>2. CASE Next
  <2>1. ASSUME NEW c \in Callers, Caller(c) PROVE IntakeInv'
    BY <2>1, StartKeeps, CallKeeps, AnswerKeeps DEF Caller
  <2>2. ASSUME NEW p \in Seeders, Seeder(p) PROVE IntakeInv'
    BY <2>2, StartSeedKeeps, CheckKeeps, WipeKeeps, WipedKeeps, GenerateKeeps, SeededKeeps
       DEF Seeder
  <2>3. ASSUME NEW p \in Procs, AnyStep(p) PROVE IntakeInv'
    BY <2>3, LoadSpecKeeps, LoadTreeKeeps, OpenKeeps, WriteKeeps, AppendFailsKeeps, ExitKeeps
       DEF AnyStep
  <2> QED
    BY <1>2, <2>1, <2>2, <2>3, EditKeeps DEF Next
<1> QED
  BY <1>1, <1>2

LEMMA IntakeInvHolds == Spec => []IntakeInv
  BY InitIntakeInv, IntakeInvKept, PTL DEF Spec

\* Types, what a process has loaded, and that a process goes on with a removed
\* file only if it was removed while it had it open (cli/append.py, cli/seed.py).
THEOREM IntakeTypes == Spec => []TypeOK
<1>1. IntakeInv => TypeOK
  <2> SUFFICES ASSUME IntakeInv PROVE TypeOK
    OBVIOUS
  <2>1. ASSUME NEW p \in Procs
        PROVE  /\ proc[p].verb \in IF p \in Seeders THEN {None, "seed"} ELSE {None, "append", "run"}
               /\ proc[p].pc \in {"idle", "spec", "tree", "ready", "open", "write", "answer",
                                  "check", "wipe", "seed", "seeded"}
               /\ proc[p].pc \notin {"idle", "spec", "tree"} =>
                    proc[p].spec \in Specs /\ proc[p].tree \in Trees
               /\ proc[p].pc \in {"open", "write", "answer"} => proc[p].log \in Logs
               /\ proc[p].pc = "write" /\ proc[p].linked => logs[proc[p].log] # None
    <3>1. proc[p] \in ProcRecord /\ ProcGood(p, proc[p], calls) /\ (p \in Callers) # (p \in Seeders)
      BY RecordFacts
    <3>2. proc[p].verb \in IF p \in Seeders THEN {None, "seed"} ELSE {None, "append", "run"}
      BY <3>1 DEF ProcGood, CallerGood, SeederGood
    <3>3. proc[p].pc = "write" /\ proc[p].linked => logs[proc[p].log] # None
      BY DEF IntakeInv, Linked
    <3> QED
      BY <3>1, <3>2, <3>3 DEF ProcGood, Loaded, ProcRecord
  <2> QED
    BY <2>1 DEF IntakeInv, IntakeTyped, TypeOK
<1> QED
  BY <1>1, IntakeInvHolds, PTL

\* Every event in a log has exactly the fields of its type, with values of their
\* types, in the spec its writer had loaded (cli/_append.py prepare_append,
\* cli/seed.py _generate), whatever is edited in between.
THEOREM EventsConform == Spec => []EveryEventConforms
<1>1. IntakeInv => EveryEventConforms
  BY DEF IntakeInv, AllConform, EveryEventConforms, Conforms, Appended, Lines
<1> QED
  BY <1>1, IntakeInvHolds, PTL

\* A caller that is told ok has its whole line in the log, unless seed --force
\* removed the file since its append opened it; only a broken-off append right
\* before it, of someone who was not told ok, can keep it from being read.  One
\* that is told of issues has written nothing.  However appends fail or are
\* killed (backends/filesystem.py:42-50, cli/append.py, harness append_event
\* tool).
THEOREM AnswersAreTrue == Spec => []AnswersTellTheTruth
<1>1. IntakeInv => AnswersTellTheTruth
  <2> SUFFICES ASSUME IntakeInv, NEW a \in answers
               PROVE  /\ a.status = "ok" /\ a.id \notin wiped =>
                           \E i \in 1 .. Len(Appended(a.log)) :
                             /\ logs[a.log][i].ev.id = <<"ulid", a.id>>
                             /\ \/ Readable(logs[a.log], i)
                                \/ /\ i > 1 /\ logs[a.log][i - 1].left # "line"
                                   /\ ~ ToldOk(logs[a.log][i - 1].ev.id)
                      /\ a.status \in {"issues", "raised"} =>
                           \A l \in Logs : \A i \in 1 .. Len(Appended(l)) :
                             logs[l][i].ev.id # <<"ulid", a.id>>
    BY DEF AnswersTellTheTruth
  <2>1. AnswerGood(a) /\ BreaksApart
    BY DEF IntakeInv, Truth
  <2>2. \A l : Lines(logs[l]) = Appended(l)
    BY DEF Lines, Appended
  <2>3. ASSUME a.status = "ok", a.id \notin wiped
        PROVE  \E i \in 1 .. Len(Appended(a.log)) :
                 /\ logs[a.log][i].ev.id = <<"ulid", a.id>>
                 /\ \/ Readable(logs[a.log], i)
                    \/ /\ i > 1 /\ logs[a.log][i - 1].left # "line"
                       /\ ~ ToldOk(logs[a.log][i - 1].ev.id)
    <3> DEFINE log == logs[a.log]
    <3>1. a.log \in Logs /\ Kept(log, <<"ulid", a.id>>)
      BY <2>1, <2>3 DEF AnswerGood
    <3>2. PICK i \in 1 .. Len(Appended(a.log)) : log[i].ev.id = <<"ulid", a.id>> /\ log[i].left = "line"
      BY <2>2, <3>1 DEF Kept
    <3>3. Len(Appended(a.log)) \in Nat
      <4>1. Appended(a.log) \in Seq(Appends)
        BY <3>1, EmptyHolds DEF IntakeInv, IntakeTyped, Appended
      <4> QED
        BY <4>1
    <3>4. ASSUME i > 1, log[i - 1].left # "line" PROVE ~ ToldOk(log[i - 1].ev.id)
      <4>1. i - 1 \in 1 .. Len(Lines(log))
        BY <2>2, <3>2, <3>3, <3>4
      <4> SUFFICES ASSUME NEW b \in answers, b.status = "ok", log[i - 1].ev.id = <<"ulid", b.id>>
                   PROVE  FALSE
        BY DEF ToldOk
      <4>2. b.id \in Nat
        <5>1. b.id \in 1 .. calls
          BY DEF IntakeInv, IntakeTyped
        <5> QED
          BY <5>1
      <4> HIDE DEF log
      <4>3. Broken(log, <<"ulid", b.id>>)
        BY <3>4, <4>1 DEF Broken
      <4> QED
        BY <2>1, <3>1, <4>2, <4>3 DEF BreaksApart, log
    <3>5. (i > 1 /\ log[i - 1].left # "line") \/ Readable(log, i)
      BY <3>2 DEF Readable
    <3> QED
      BY <3>2, <3>4, <3>5
  <2>4. ASSUME a.status \in {"issues", "raised"}
        PROVE  \A l \in Logs : \A i \in 1 .. Len(Appended(l)) : logs[l][i].ev.id # <<"ulid", a.id>>
    BY <2>1, <2>2, <2>4 DEF AnswerGood, Holds
  <2> QED
    BY <2>3, <2>4
<1> QED
  BY <1>1, IntakeInvHolds, PTL

\* With one seeder at a time, what it generated in each log it wiped, or found
\* missing, is the same whenever it reports success, whatever a run before left
\* behind when it died and whatever callers append or break off (cli/seed.py seed, _generate;
\* docs/cli.md:102-103).
THEOREM SeedsAreReproducible ==
  ASSUME OneSeeder PROVE Spec => []SeedIsReproducible
<1>1. IntakeInv => SeedIsReproducible
  <2> SUFFICES ASSUME IntakeInv, NEW p \in Seeders, proc[p].pc = "seeded",
                      NEW k \in 1 .. Len(Leaves[proc[p].tree]),
                      proc[p].force \/ Leaves[proc[p].tree][k] \in Inside
               PROVE  Generated(Appended(Leaves[proc[p].tree][k]), proc[p].spec, proc[p].tree,
                                Leaves[proc[p].tree][k], proc[p].n)
    BY DEF SeedIsReproducible
  <2> DEFINE rd == proc[p]
             l == Leaves[rd.tree][k]
  <2>1. p \in Procs
    BY DEF Procs
  <2>2. SeedsGood(rd, logs) /\ ProcGood(p, rd, calls) /\ rd \in ProcRecord
    BY <2>1, RecordFacts
  <2>3. rd.wipe = << >> /\ (rd.i = 0 \/ rd.i <= rd.n) /\ rd.i >= rd.n /\ rd.i \in Nat /\ rd.n \in Int
    BY <2>2 DEF ProcGood, SeederGood, ProcRecord
  <2>4. l \in LeafSet(rd.tree)
    BY DEF LeafSet
  <2>5. Generated(Lines(logs[l]), rd.spec, rd.tree, l, rd.i)
    BY <2>2, <2>3, <2>4 DEF SeedsGood
  <2>6. Lines(logs[l]) = Appended(l)
    BY DEF Lines, Appended
  <2>7. 0 .. rd.i - 1 = 0 .. rd.n - 1
    BY <2>3
  <2> HIDE DEF l, rd
  <2>8. Generated(Appended(l), rd.spec, rd.tree, l, rd.n)
    BY <2>5, <2>6, <2>7 DEF Generated
  <2> QED
    BY <2>8 DEF l, rd
<1> QED
  BY <1>1, IntakeInvHolds, PTL

\* With one seeder, which may die or fail and be run again at any point, no log under
\* state/ has an id twice: those left by an earlier run are wiped before the
\* first is written again, or seed is refused (cli/seed.py).
THEOREM IdsAreDistinct ==
  ASSUME OneSeeder PROVE Spec => []DistinctIds
<1>1. IntakeInv => DistinctIds
  BY DEF IntakeInv, SeedsApart, DistinctIds, Distinct, Appended, Lines
<1> QED
  BY <1>1, IntakeInvHolds, PTL
===============================================================================
