---------------------------- MODULE ScaffoldProofs ----------------------------
(* Proofs about Scaffold.  For any number of commands, whatever dies or      *)
(* fails: the variables keep their types, and no project lacks files.  For   *)
(* one command at a time: files are written atomically, nothing is           *)
(* overwritten or lost without --force, a refusal has changed nothing, and a *)
(* command that returns 0 leaves a whole project.                            *)
EXTENDS Scaffold, SequenceTheorems, WellFoundedInduction, TLAPS

-----------------------------------------------------------------------------
(* Types. *)

DefRecord == [name : Names, own : BOOLEAN, form : {"def", "other"}]

CodeContent == [kind : {"code"}, defs : Seq(DefRecord), parses : BOOLEAN]

MadeContent == [kind : {"made"}, spec : Specs \union {None}, edited : BOOLEAN]

Content == [kind : {"absent", "torn"}] \union CodeContent \union MadeContent

\* A code file is never mistaken for another.
Contents(f) == [kind : {"absent", "torn"}]
               \union (IF f \in CodeFiles THEN CodeContent ELSE MadeContent)

Disks == {d \in [Files -> Content] : \A f \in Files : d[f] \in Contents(f)}

Tasks == [file : Files, how : {"new", "force", "missing", "stubs"}]

RunRecord ==
  [pc : {"idle", "task", "open", "write", "replace", "read", "truncate", "append", "done"},
   verb : {None, "example", "init", "upgrade"}, spec : Specs \union {None}, force : BOOLEAN,
   plan : Seq(Tasks), fd : {"closed", "tmp", "destination", "unlinked"}, names : Seq(Names),
   text : Content, exit : {"running", "ok", "refused", "failed"}]

Writing == {"open", "write", "replace"}
Stubbing == {"read", "truncate", "append"}

Busy(rd) == rd.pc \in {"task"} \union Writing \union Stubbing

RunGood(rd) ==
  /\ ~ Busy(rd) => rd.plan = << >>
  /\ rd.pc \in Writing \union Stubbing => rd.plan # << >>
  /\ rd.pc = "write" <=> rd.fd # "closed"
  /\ rd.pc \in Writing => rd.plan[1].how # "stubs"
  /\ rd.pc \in Stubbing => rd.plan[1].how = "stubs"
  /\ \A i \in 1 .. Len(rd.plan) :
       /\ rd.plan[i].how = "stubs" => rd.plan[i].file \in CodeFiles
       /\ rd.plan[i].file \in CodeFiles => rd.spec \in Specs
  /\ rd.pc \in {"truncate", "append"} => rd.text \in Contents(rd.plan[1].file)

ScaffoldTyped ==
  /\ disk \in Disks /\ tmp \in Disks /\ before \in [Procs -> Disks]
  /\ run \in [Procs -> RunRecord]
  /\ \A p \in Procs : RunGood(run[p])
  /\ commands \in 0 .. MaxCommands /\ edits \in 0 .. MaxEdits

\* pmstate.yaml is not due before every generated file that is missing.
MarkerLast(rd, files) ==
  \A i \in 1 .. Len(rd.plan) : rd.plan[i].file = "pmstate.yaml" =>
    \A f \in GeneratedFiles :
      \/ files[f] # Absent
      \/ \E j \in 1 .. i - 1 : rd.plan[j].file = f /\ rd.plan[j].how \in {"new", "force"}

Marked ==
  /\ MarkerMeansComplete
  /\ \A p \in Procs : MarkerLast(run[p], disk)

-----------------------------------------------------------------------------
(* One command at a time. *)

OneProc == \A p, q \in Procs : p = q

Due(rd, f, hows) == \E i \in 1 .. Len(rd.plan) : rd.plan[i].file = f /\ rd.plan[i].how \in hows

\* Its files are its own.
OwnFiles(rd, files, tmps) ==
  /\ rd.fd \in {"closed", "tmp"}
  /\ rd.pc = "write" => tmps[rd.plan[1].file] = Torn
  /\ rd.pc = "replace" => tmps[rd.plan[1].file] = Render(rd.plan[1].file, rd.spec)
  /\ rd.pc \in Writing /\ rd.plan[1].how # "force" => files[rd.plan[1].file] = Absent

\* What may refuse has changed nothing.
Unchanged(rd, files, old) ==
  /\ rd.pc = "done" /\ rd.exit = "refused" => files = old
  /\ rd.verb = "init" /\ Busy(rd) =>
       \A i \in 1 .. Len(rd.plan) :
         /\ rd.plan[i].how = "new" => files[rd.plan[i].file] = Absent
         /\ \A j \in 1 .. Len(rd.plan) : rd.plan[i].file = rd.plan[j].file => i = j
  /\ rd.verb = "example" /\ Busy(rd) =>
       /\ Len(rd.plan) <= 1 /\ (rd.plan # << >> => files = old)
       /\ \A i \in 1 .. Len(rd.plan) : rd.plan[i].how = "new"
  /\ rd.verb = "upgrade" => \A i \in 1 .. Len(rd.plan) : rd.plan[i].how # "new"
  /\ Busy(rd) => rd.verb \in {"example", "init", "upgrade"}

\* The names that spec s wants of f are there, and found if the file parses.
Settled(c, s, f) ==
  Declared(s, f) \subseteq Bound(c) /\ (Parses(c) => Declared(s, f) \subseteq ExistingNames(c))

\* Each file is in place or yet to come.
Underway(rd) == rd.verb \in {"init", "upgrade"} /\ (Busy(rd) \/ (rd.pc = "done" /\ rd.exit = "ok"))

Progress(rd, files) ==
  Underway(rd) =>
    /\ rd.spec \in Specs
    /\ \A f \in Files \ {"pmstate.example.yaml"} :
         files[f] # Absent \/ Due(rd, f, {"new", "force", "missing"})
    /\ files["tree.py"] = Made(rd.spec, FALSE) \/ Due(rd, "tree.py", {"new", "force"})
    /\ \A f \in CodeFiles : Settled(files[f], rd.spec, f) \/ Due(rd, f, {"new", "force", "stubs"})

\* What is to be appended is what the file lacks.
Appending(rd, files) ==
  LET lacking(c) == Missing(Stubs[rd.spec][rd.plan[1].file], ExistingNames(c))
  IN  /\ rd.pc = "read" => rd.names = lacking(files[rd.plan[1].file])
      /\ rd.pc = "truncate" => rd.names = lacking(rd.text) /\ rd.text = files[rd.plan[1].file]
      /\ rd.pc = "append" => rd.names = lacking(rd.text)

\* The user's functions in a are the ones in force in c, which parses.
Keeps(a, c) ==
  \A i \in 1 .. Len(Defs(a)) :
    LET d == Defs(a)[i]
    IN  d = InForce(a, d.name) /\ d.own /\ d.form = "def" /\ Parses(a)
        => Parses(c) /\ d.name \in Bound(c) /\ InForce(c, d.name) = d

KeepsEdits(rd, files, old) ==
  ~ rd.force /\ (Busy(rd) \/ (rd.pc = "done" /\ rd.exit \in {"ok", "refused"})) =>
    /\ \A i \in 1 .. Len(rd.plan) : rd.plan[i].file \in CodeFiles => rd.plan[i].how # "force"
    /\ \A f \in CodeFiles :
         IF rd.pc = "append" /\ rd.plan[1].file = f THEN Keeps(old[f], rd.text)
         ELSE Keeps(old[f], files[f])

AloneAt(rd, files, tmps, old) ==
  /\ OwnFiles(rd, files, tmps) /\ Unchanged(rd, files, old)
  /\ Progress(rd, files) /\ Appending(rd, files) /\ KeepsEdits(rd, files, old)

Alone == AtomicFiles /\ \A p \in Procs : AloneAt(run[p], disk, tmp, before[p])

-----------------------------------------------------------------------------
(* Files and their contents. *)

\* The nine files of a project.
LEMMA FilesAre ==
  /\ GeneratedFiles = {"tree.py", "views.py", "reducers.py", "chat.py", "add.py", "AGENTS.md"}
  /\ Files = {"tree.py", "views.py", "reducers.py", "chat.py", "add.py", "AGENTS.md",
              "pmstate.yaml", ".gitignore", "pmstate.example.yaml"}
<1>1. Len(Generated) = 6
  BY DEF Generated
<1>2. GeneratedFiles = {Generated[1], Generated[2], Generated[3], Generated[4], Generated[5], Generated[6]}
  <2>1. 1 .. 6 = {1, 2, 3, 4, 5, 6}
    OBVIOUS
  <2> QED
    BY <1>1, <2>1 DEF GeneratedFiles
<1>3. GeneratedFiles = {"tree.py", "views.py", "reducers.py", "chat.py", "add.py", "AGENTS.md"}
  BY <1>2 DEF Generated
<1> QED
  BY <1>3 DEF Files

\* Absent and Torn may stand in any file; the other contents keep to theirs.
LEMMA ContentsAre ==
  ASSUME NEW f \in Files
  PROVE  /\ Absent \in Contents(f) /\ Torn \in Contents(f) /\ Contents(f) \subseteq Content
         /\ Absent # Torn /\ Absent \in Content /\ Torn \in Content
         /\ \A c \in Content : /\ c.kind \in Kinds /\ (c = Absent <=> c.kind = "absent")
                               /\ (c = Torn <=> c.kind = "torn")
         /\ \A c \in Contents(f) : /\ c.kind = "code" => f \in CodeFiles /\ c \in CodeContent
                                   /\ c.kind = "made" => f \notin CodeFiles /\ c \in MadeContent
<1>1. /\ Absent \in Contents(f) /\ Torn \in Contents(f) /\ Contents(f) \subseteq Content
      /\ Absent # Torn /\ Absent \in Content /\ Torn \in Content
  BY DEF Absent, Torn, Contents, Content
<1>2. ASSUME NEW c \in Content
      PROVE  /\ c.kind \in Kinds /\ (c = Absent <=> c.kind = "absent")
             /\ (c = Torn <=> c.kind = "torn")
  BY DEF Content, CodeContent, MadeContent, Absent, Torn, Kinds
<1>3. ASSUME NEW c \in Contents(f)
      PROVE  /\ c.kind = "code" => f \in CodeFiles /\ c \in CodeContent
             /\ c.kind = "made" => f \notin CodeFiles /\ c \in MadeContent
  BY DEF Contents, CodeContent, MadeContent
<1> QED
  BY <1>1, <1>2, <1>3

\* A rendered file or a spec is a content of any file but a code file.
LEMMA MadeIsContent ==
  ASSUME NEW f \in Files \ CodeFiles, NEW s \in Specs \union {None}, NEW e \in BOOLEAN
  PROVE  /\ Made(s, e) \in Contents(f) /\ Made(s, e).kind = "made"
         /\ Made(s, e).spec = s /\ Made(s, e).edited = e
BY DEF Made, Contents, MadeContent

\* Code is a content of a code file, and says what it binds.
LEMMA CodeIsContent ==
  ASSUME NEW f \in CodeFiles, NEW defs \in Seq(DefRecord), NEW parses \in BOOLEAN
  PROVE  /\ Code(defs, parses) \in Contents(f) /\ Code(defs, parses).kind = "code"
         /\ Defs(Code(defs, parses)) = defs /\ Parses(Code(defs, parses)) = parses
BY DEF Code, Contents, CodeContent, Defs, Parses

\* What a file binds is a sequence of definitions.
LEMMA DefsAre ==
  ASSUME NEW f \in Files, NEW c \in Contents(f)
  PROVE  /\ Defs(c) \in Seq(DefRecord) /\ Parses(c) \in BOOLEAN
<1>1. << >> \in Seq(DefRecord)
  OBVIOUS
<1> QED
  BY <1>1, ContentsAre DEF Defs, Parses, CodeContent

\* The stubs of a list of names, in its order.
LEMMA StubsAre ==
  ASSUME NEW names \in Seq(Names)
  PROVE  /\ StubsFor(names) \in Seq(DefRecord) /\ Len(StubsFor(names)) = Len(names)
         /\ \A i \in 1 .. Len(names) :
              /\ StubsFor(names)[i].name = names[i] /\ StubsFor(names)[i].form = "def"
<1> DEFINE stubs == StubsFor(names)
<1>1. /\ Len(names) \in Nat /\ \A i \in 1 .. Len(names) : names[i] \in Names
      /\ stubs = [i \in 1 .. Len(names) |-> Def(names[i], FALSE, "def")]
  BY DEF StubsFor
<1>2. \A i \in 1 .. Len(names) : Def(names[i], FALSE, "def") \in DefRecord
  BY <1>1 DEF Def, DefRecord
<1> HIDE DEF stubs
<1>3. stubs \in Seq(DefRecord) /\ Len(stubs) = Len(names)
  <2>1. stubs \in [1 .. Len(names) -> DefRecord]
    BY <1>1, <1>2
  <2>2. \E n \in Nat : stubs \in [1 .. n -> DefRecord]
    BY <1>1, <2>1
  <2>3. stubs \in Seq(DefRecord)
    BY <2>2, SeqDef
  <2>4. DOMAIN stubs = 1 .. Len(names) /\ DOMAIN stubs = 1 .. Len(stubs) /\ Len(stubs) \in Nat
    BY <2>1, <2>3
  <2>5. Len(stubs) \in 1 .. Len(names) \/ Len(stubs) = 0
    BY <1>1, <2>4
  <2>6. Len(names) \in 1 .. Len(stubs) \/ Len(names) = 0
    BY <1>1, <2>4
  <2>7. Len(stubs) \in Nat /\ Len(names) \in Nat
    BY <1>1, <2>4
  <2>8. Len(stubs) = Len(names)
    BY <2>5, <2>6, <2>7
  <2> QED
    BY <2>3, <2>8
<1>4. \A i \in 1 .. Len(names) : stubs[i].name = names[i] /\ stubs[i].form = "def"
  BY <1>1 DEF Def
<1> QED
  BY <1>3, <1>4 DEF stubs

\* What a file is rendered to is whole, and binds what the spec declares.
LEMMA RenderIs ==
  ASSUME NEW f \in Files, NEW s \in Specs \union {None}, f \in CodeFiles => s \in Specs
  PROVE  /\ Render(f, s) \in Contents(f) /\ Render(f, s) # Absent /\ Render(f, s) # Torn
         /\ f = "tree.py" => Render(f, s) = Made(s, FALSE)
         /\ f \in CodeFiles => /\ Defs(Render(f, s)) = StubsFor(Stubs[s][f])
                               /\ Parses(Render(f, s))
<1>1. CASE f \in CodeFiles
  <2>1. Stubs[s][f] \in Seq(Names)
    BY <1>1, SpecsAssumption
  <2>2. StubsFor(Stubs[s][f]) \in Seq(DefRecord)
    BY <2>1, StubsAre
  <2>3. Render(f, s) = Code(StubsFor(Stubs[s][f]), TRUE)
    BY <1>1 DEF Render
  <2>4. f # "tree.py"
    BY <1>1 DEF CodeFiles
  <2> QED
    BY <1>1, <2>2, <2>3, <2>4, CodeIsContent, ContentsAre DEF Contents
<1>2. CASE f \notin CodeFiles
  <2> DEFINE t == IF f \in {".gitignore", "pmstate.example.yaml"} THEN None ELSE s
  <2>1. Render(f, s) = Made(t, FALSE) /\ t \in Specs \union {None}
    BY <1>2 DEF Render
  <2>2. f = "tree.py" => t = s
    OBVIOUS
  <2> HIDE DEF t
  <2>3. Made(t, FALSE) \in Contents(f) /\ Made(t, FALSE).kind = "made"
    BY <1>2, <2>1, MadeIsContent
  <2>4. Made(t, FALSE) \in Content
    BY <2>3, ContentsAre
  <2>5. Made(t, FALSE) # Absent /\ Made(t, FALSE) # Torn
    BY <2>3, <2>4, ContentsAre
  <2> QED
    BY <1>2, <2>1, <2>2, <2>3, <2>5
<1> QED
  BY <1>1, <1>2

-----------------------------------------------------------------------------
(* The names that are missing. *)

\* The least number principle.
LEMMA LeastNat ==
  ASSUME NEW T, T \subseteq Nat, T # {}
  PROVE  \E x \in T : \A y \in T : x <= y
<1> DEFINE less == OpToRel(<, Nat)
<1>1. \A x, y \in Nat : x < y => <<x, y>> \in less
  BY DEF OpToRel
<1>2. IsWellFoundedOn(less, Nat)
  BY NatLessThanWellFounded
<1> HIDE DEF less
<1>3. PICK x \in T : \A y \in T : ~ (<<y, x>> \in less)
  BY <1>2, WFMin
<1>4. ASSUME NEW y \in T PROVE x <= y
  <2>1. x \in Nat /\ y \in Nat
    OBVIOUS
  <2>2. ~ (y < x)
    BY <1>1, <1>3, <2>1
  <2> QED
    BY <2>1, <2>2
<1> QED
  BY <1>4

\* f[i] is what is missing of the first i names.
Lacks(f, names, there, n) ==
  f = [i \in 0 .. n |->
         IF i = 0 THEN << >>
         ELSE IF names[i] \in there THEN f[i - 1] ELSE Append(f[i - 1], names[i])]

\* The recursive function of Missing exists: by the least prefix without one.
LEMMA LacksExist ==
  ASSUME NEW names, NEW there, NEW n \in Nat
  PROVE  \E f : Lacks(f, names, there, n)
<1> DEFINE Bad == {m \in Nat : ~ \E f : Lacks(f, names, there, m)}
<1> SUFFICES ASSUME Bad # {} PROVE FALSE
  OBVIOUS
<1>1. PICK m \in Bad : \A k \in Bad : m <= k
  BY LeastNat
<1>2. m \in Nat /\ m # 0
  <2>1. Lacks([i \in 0 .. 0 |-> << >>], names, there, 0)
    BY DEF Lacks
  <2> QED
    BY <2>1
<1>3. PICK f : Lacks(f, names, there, m - 1)
  BY <1>1, <1>2
<1> DEFINE last == IF names[m] \in there THEN f[m - 1] ELSE Append(f[m - 1], names[m])
           g == [i \in 0 .. m |-> IF i < m THEN f[i] ELSE last]
<1>4. ASSUME NEW i \in 0 .. m
      PROVE  g[i] = IF i = 0 THEN << >>
                    ELSE IF names[i] \in there THEN g[i - 1] ELSE Append(g[i - 1], names[i])
  <2>1. CASE i = m
    <3>1. m - 1 \in 0 .. m /\ m - 1 < m
      BY <1>2
    <3>2. g[i] = last /\ g[i - 1] = f[m - 1]
      BY <1>2, <2>1, <3>1
    <3> QED
      BY <1>2, <2>1, <3>2
  <2>2. CASE i # m
    <3>1. i \in 0 .. m - 1 /\ i < m
      BY <1>2, <2>2
    <3>2. f[i] = IF i = 0 THEN << >>
                 ELSE IF names[i] \in there THEN f[i - 1] ELSE Append(f[i - 1], names[i])
      BY <1>3, <3>1 DEF Lacks
    <3>3. i # 0 => i - 1 \in 0 .. m /\ i - 1 < m
      BY <1>2, <3>1
    <3> HIDE DEF last
    <3>4. g[i] = f[i] /\ (i # 0 => g[i - 1] = f[i - 1])
      BY <3>1, <3>3
    <3> QED
      BY <3>2, <3>4
  <2> QED
    BY <2>1, <2>2
<1>5. g = [i \in 0 .. m |-> g[i]]
  OBVIOUS
<1> HIDE DEF g
<1>6. Lacks(g, names, there, m)
  BY <1>4, <1>5 DEF Lacks
<1> QED
  BY <1>6

\* Missing keeps the names that are not there, and no other.
LEMMA MissingIs ==
  ASSUME NEW names \in Seq(Names), NEW there
  PROVE  /\ Missing(names, there) \in Seq(Names)
         /\ \A x : (\E i \in 1 .. Len(Missing(names, there)) : Missing(names, there)[i] = x)
                   <=> (x \notin there /\ \E i \in 1 .. Len(names) : names[i] = x)
<1> DEFINE n == Len(names)
           f == CHOOSE f : Lacks(f, names, there, n)
           Has(s, x) == \E i \in 1 .. Len(s) : s[i] = x
           Right(k) == /\ f[k] \in Seq(Names)
                       /\ \A x : Has(f[k], x) <=> (x \notin there /\ \E i \in 1 .. k : names[i] = x)
           Bad == {k \in 0 .. n : ~ Right(k)}
<1>1. Missing(names, there) = f[n]
  BY DEF Missing, Lacks
<1>2. n \in Nat
  OBVIOUS
<1>3. Lacks(f, names, there, n)
  BY <1>2, LacksExist
<1> HIDE DEF f, n
<1>4. \A i \in 0 .. n : f[i] = IF i = 0 THEN << >>
                               ELSE IF names[i] \in there THEN f[i - 1] ELSE Append(f[i - 1], names[i])
  BY <1>2, <1>3 DEF Lacks
<1>5. Bad = {}
  <2> SUFFICES ASSUME Bad # {} PROVE FALSE
    OBVIOUS
  <2>1. PICK k \in Bad : \A j \in Bad : k <= j
    <3> HIDE DEF Right
    <3>1. Bad \subseteq Nat
      BY <1>2
    <3> HIDE DEF Bad
    <3> QED
      BY <3>1, LeastNat
  <2>2. k \in 0 .. n /\ k \in Nat /\ ~ Right(k)
    BY <1>2, <2>1
  <2>3. CASE k = 0
    <3>1. f[0] = << >>
      BY <1>2, <1>4
    <3> QED
      BY <2>2, <2>3, <3>1
  <2>4. CASE k # 0
    <3>1. k - 1 \in 0 .. n /\ k - 1 \in Nat /\ ~ (k <= k - 1)
      BY <1>2, <2>2, <2>4
    <3>2. Right(k - 1)
      BY <2>1, <3>1
    <3>3. names[k] \in Names
      BY <1>2, <2>2, <2>4 DEF n
    <3> DEFINE s == f[k - 1]
    <3>4. s \in Seq(Names) /\ f[k] = IF names[k] \in there THEN s ELSE Append(s, names[k])
      BY <1>4, <2>2, <2>4, <3>2
    <3>5. \A x : Has(s, x) <=> (x \notin there /\ \E i \in 1 .. k - 1 : names[i] = x)
      BY <3>2
    <3>6. \A x : (\E i \in 1 .. k : names[i] = x) <=> ((\E i \in 1 .. k - 1 : names[i] = x) \/ names[k] = x)
      BY <2>2, <2>4
    <3> HIDE DEF s
    <3>7. \A x : Has(Append(s, names[k]), x) <=> (Has(s, x) \/ names[k] = x)
      <4>1. s \in Seq(Names) /\ Len(s) \in Nat
        BY <3>4
      <4> DEFINE t == Append(s, names[k])
      <4>2. Len(t) = Len(s) + 1 /\ t[Len(s) + 1] = names[k] /\ \A i \in 1 .. Len(s) : t[i] = s[i]
        BY <3>3, <4>1
      <4> HIDE DEF t
      <4>3. \A x : Has(t, x) <=> (Has(s, x) \/ names[k] = x)
        BY <4>1, <4>2
      <4> QED
        BY <4>3 DEF t
    <3>8. CASE names[k] \in there
      BY <2>2, <3>4, <3>5, <3>6, <3>8
    <3>9. CASE names[k] \notin there
      <4>1. f[k] = Append(s, names[k]) /\ f[k] \in Seq(Names)
        BY <3>3, <3>4, <3>9
      <4>2. \A x : Has(f[k], x) <=> (Has(s, x) \/ names[k] = x)
        BY <3>7, <4>1
      <4> HIDE DEF Has
      <4> QED
        BY <2>2, <3>5, <3>6, <3>9, <4>1, <4>2
    <3> QED
      BY <3>8, <3>9
  <2> QED
    BY <2>3, <2>4
<1>6. Right(n)
  BY <1>2, <1>5
<1> QED
  BY <1>1, <1>6 DEF n

-----------------------------------------------------------------------------
(* A command's record. *)

Pcs == {"idle", "task", "open", "write", "replace", "read", "truncate", "append", "done"}

\* The record of a process that runs no command.
LEMMA IdleIs ==
  /\ Idle \in RunRecord /\ Idle.pc = "idle" /\ Idle.verb = None /\ Idle.spec = None
  /\ Idle.force = FALSE /\ Idle.plan = << >> /\ Idle.fd = "closed" /\ Idle.names = << >>
  /\ Idle.text = Absent /\ Idle.exit = "running"
<1>1. << >> \in Seq(Tasks) /\ << >> \in Seq(Names) /\ Absent \in Content
  BY DEF Absent, Content
<1> QED
  BY <1>1 DEF Idle, RunRecord

\* A record whose pc changed, and then one for each other field.
LEMMA PcChanged ==
  ASSUME NEW rd \in RunRecord, NEW pc \in Pcs, NEW new, new = [rd EXCEPT !.pc = pc]
  PROVE  /\ new \in RunRecord /\ new.pc = pc /\ new.verb = rd.verb /\ new.spec = rd.spec
         /\ new.force = rd.force /\ new.plan = rd.plan /\ new.fd = rd.fd /\ new.names = rd.names
         /\ new.text = rd.text /\ new.exit = rd.exit
BY DEF RunRecord, Pcs

\* The same for its file descriptor.
LEMMA FdChanged ==
  ASSUME NEW rd \in RunRecord, NEW fd \in {"closed", "tmp", "destination", "unlinked"},
         NEW new, new = [rd EXCEPT !.fd = fd]
  PROVE  /\ new \in RunRecord /\ new.pc = rd.pc /\ new.verb = rd.verb /\ new.spec = rd.spec
         /\ new.force = rd.force /\ new.plan = rd.plan /\ new.fd = fd /\ new.names = rd.names
         /\ new.text = rd.text /\ new.exit = rd.exit
BY DEF RunRecord

\* The same for the names to append.
LEMMA NamesChanged ==
  ASSUME NEW rd \in RunRecord, NEW names \in Seq(Names), NEW new, new = [rd EXCEPT !.names = names]
  PROVE  /\ new \in RunRecord /\ new.pc = rd.pc /\ new.verb = rd.verb /\ new.spec = rd.spec
         /\ new.force = rd.force /\ new.plan = rd.plan /\ new.fd = rd.fd /\ new.names = names
         /\ new.text = rd.text /\ new.exit = rd.exit
BY DEF RunRecord

\* The same for the text it read.
LEMMA TextChanged ==
  ASSUME NEW rd \in RunRecord, NEW text \in Content, NEW new, new = [rd EXCEPT !.text = text]
  PROVE  /\ new \in RunRecord /\ new.pc = rd.pc /\ new.verb = rd.verb /\ new.spec = rd.spec
         /\ new.force = rd.force /\ new.plan = rd.plan /\ new.fd = rd.fd /\ new.names = rd.names
         /\ new.text = text /\ new.exit = rd.exit
BY DEF RunRecord

Advanced(rd) == [rd EXCEPT !.pc = "task", !.plan = Tail(rd.plan), !.fd = "closed",
                           !.names = << >>, !.text = Absent]

\* A record that went on to its next task.
LEMMA AdvancedIs ==
  ASSUME NEW rd \in RunRecord, rd.plan # << >>, NEW new, new = Advanced(rd)
  PROVE  /\ new \in RunRecord /\ new.pc = "task" /\ new.verb = rd.verb /\ new.spec = rd.spec
         /\ new.force = rd.force /\ new.plan = Tail(rd.plan) /\ new.fd = "closed"
         /\ new.names = << >> /\ new.text = Absent /\ new.exit = rd.exit
<1>1. << >> \in Seq(Names) /\ Absent \in Content /\ Tail(rd.plan) \in Seq(Tasks)
  BY DEF RunRecord, Absent, Content
<1>2. /\ new.pc = "task" /\ new.verb = rd.verb /\ new.spec = rd.spec
      /\ new.force = rd.force /\ new.plan = Tail(rd.plan) /\ new.fd = "closed"
      /\ new.names = << >> /\ new.text = Absent /\ new.exit = rd.exit
  BY DEF RunRecord, Advanced
<1>3. new \in RunRecord
  BY <1>1 DEF RunRecord, Advanced
<1> QED
  BY <1>2, <1>3

Ended(rd, code) == [rd EXCEPT !.pc = "done", !.exit = code, !.fd = "closed", !.plan = << >>,
                              !.names = << >>, !.text = Absent]

\* A record that ended with an exit code.
LEMMA EndedIs ==
  ASSUME NEW rd \in RunRecord, NEW code \in {"ok", "refused", "failed"}, NEW new,
         new = Ended(rd, code)
  PROVE  /\ new \in RunRecord /\ new.pc = "done" /\ new.verb = rd.verb /\ new.spec = rd.spec
         /\ new.force = rd.force /\ new.plan = << >> /\ new.fd = "closed" /\ new.exit = code
<1>1. << >> \in Seq(Names) /\ Absent \in Content /\ << >> \in Seq(Tasks)
  BY DEF Absent, Content
<1>2. /\ new.pc = "done" /\ new.verb = rd.verb /\ new.spec = rd.spec
      /\ new.force = rd.force /\ new.plan = << >> /\ new.fd = "closed" /\ new.exit = code
  BY DEF RunRecord, Ended
<1>3. new \in RunRecord
  BY <1>1 DEF RunRecord, Ended
<1> QED
  BY <1>2, <1>3


\* A record that starts with a plan.
LEMMA StartedIs ==
  ASSUME NEW verb \in {"example", "init", "upgrade"}, NEW s \in Specs \union {None},
         NEW force \in BOOLEAN, NEW plan \in Seq(Tasks), NEW new,
         new = Started(verb, s, force, plan)
  PROVE  /\ new \in RunRecord /\ new.pc = "task" /\ new.verb = verb /\ new.spec = s
         /\ new.force = force /\ new.plan = plan /\ new.fd = "closed" /\ new.names = << >>
         /\ new.text = Absent /\ new.exit = "running"
<1>1. Idle \in RunRecord
  BY IdleIs
<1>2. /\ new.pc = "task" /\ new.verb = verb /\ new.spec = s
      /\ new.force = force /\ new.plan = plan /\ new.fd = "closed" /\ new.names = << >>
      /\ new.text = Absent /\ new.exit = "running"
  BY DEF Started, Idle
<1>3. new \in RunRecord
  BY <1>1 DEF Started, RunRecord
<1> QED
  BY <1>2, <1>3

\* A record that refused at once.
LEMMA RefusedIs ==
  ASSUME NEW verb \in {"example", "init", "upgrade"}, NEW force \in BOOLEAN, NEW new,
         new = Refused(verb, force)
  PROVE  /\ new \in RunRecord /\ new.pc = "done" /\ new.verb = verb /\ new.force = force
         /\ new.plan = << >> /\ new.fd = "closed" /\ new.exit = "refused"
<1>1. Idle \in RunRecord
  BY IdleIs
<1>2. /\ new.pc = "done" /\ new.verb = verb /\ new.force = force
      /\ new.plan = << >> /\ new.fd = "closed" /\ new.exit = "refused"
  BY DEF Refused, Idle
<1>3. new \in RunRecord
  BY <1>1 DEF Refused, RunRecord
<1> QED
  BY <1>2, <1>3

\* A plan behind its first task.
LEMMA TailIs ==
  ASSUME NEW s \in Seq(Tasks), s # << >>
  PROVE  /\ Head(s) = s[1] /\ s[1] \in Tasks /\ Len(s) \in Nat /\ Len(s) >= 1 /\ 1 \in 1 .. Len(s)
         /\ Tail(s) \in Seq(Tasks) /\ Len(Tail(s)) = Len(s) - 1
         /\ \A i \in 1 .. Len(Tail(s)) : Tail(s)[i] = s[i + 1] /\ i + 1 \in 1 .. Len(s)
         /\ \A i \in 1 .. Len(s) : i # 1 => i - 1 \in 1 .. Len(Tail(s)) /\ Tail(s)[i - 1] = s[i]
<1>1. Head(s) = s[1] /\ s[1] \in Tasks /\ Len(s) \in Nat /\ Len(s) >= 1 /\ 1 \in 1 .. Len(s)
  OBVIOUS
<1>2. Tail(s) \in Seq(Tasks) /\ Len(Tail(s)) = Len(s) - 1
  OBVIOUS
<1>3. \A i \in 1 .. Len(Tail(s)) : Tail(s)[i] = s[i + 1] /\ i + 1 \in 1 .. Len(s)
  BY <1>1, <1>2
<1>4. \A i \in 1 .. Len(s) : i # 1 => i - 1 \in 1 .. Len(Tail(s)) /\ Tail(s)[i - 1] = s[i]
  BY <1>1, <1>2, <1>3
<1> QED
  BY <1>1, <1>2, <1>3, <1>4

-----------------------------------------------------------------------------
(* What each step does. *)

\* The command goes on: from pc, with plan, as it was called.
GoesOn(p, pc, plan, exit) ==
  /\ run' \in [Procs -> RunRecord] /\ \A q \in Procs : q # p => run'[q] = run[q]
  /\ run'[p] \in RunRecord
  /\ run'[p].pc = pc /\ run'[p].plan = plan /\ run'[p].exit = exit
  /\ run'[p].verb = run[p].verb /\ run'[p].spec = run[p].spec /\ run'[p].force = run[p].force

Facts(rd) ==
  /\ rd \in RunRecord /\ rd.plan \in Seq(Tasks) /\ Len(rd.plan) \in Nat
  /\ rd.spec \in Specs \union {None} /\ rd.force \in BOOLEAN

\* What ScaffoldTyped says of one process.
LEMMA RunFacts ==
  ASSUME ScaffoldTyped, NEW p \in Procs
  PROVE  /\ Facts(run[p]) /\ RunGood(run[p]) /\ run \in [Procs -> RunRecord]
         /\ disk \in Disks /\ tmp \in Disks /\ before[p] \in Disks
BY DEF ScaffoldTyped, Facts, RunRecord

\* Its task is the first of its plan.
LEMMA AtTask ==
  ASSUME ScaffoldTyped, NEW p \in Procs, run[p].plan # << >>
  PROVE  /\ This(p) = run[p].plan[1] /\ File(p) = run[p].plan[1].file /\ File(p) \in Files
         /\ This(p).how \in {"new", "force", "missing", "stubs"}
         /\ File(p) \in CodeFiles => run[p].spec \in Specs
         /\ This(p).how = "stubs" => File(p) \in CodeFiles
<1>1. run[p].plan \in Seq(Tasks) /\ RunGood(run[p])
  BY RunFacts DEF Facts
<1>2. /\ This(p) = run[p].plan[1] /\ run[p].plan[1] \in Tasks /\ 1 \in 1 .. Len(run[p].plan)
  BY <1>1, TailIs DEF This
<1>3. File(p) = run[p].plan[1].file
  BY <1>2 DEF File
<1> QED
  BY <1>1, <1>2, <1>3 DEF Tasks, RunGood

\* The task writes: --force says so, or the file is not there.
LEMMA ProceedDoes ==
  ASSUME ScaffoldTyped, NEW p \in Procs, Proceed(p)
  PROVE  /\ run[p].pc = "task" /\ run[p].plan # << >> /\ This(p).how # "stubs"
         /\ This(p).how # "force" => disk[File(p)] = Absent
         /\ GoesOn(p, "open", run[p].plan, run[p].exit) /\ run'[p].fd = run[p].fd
         /\ UNCHANGED <<disk, tmp, before, commands, edits>>
<1> DEFINE new == [run[p] EXCEPT !.pc = "open"]
<1>1. run \in [Procs -> RunRecord] /\ run[p] \in RunRecord
  BY DEF ScaffoldTyped
<1>2. run' = [run EXCEPT ![p] = new]
  BY DEF Proceed
<1>3. new \in RunRecord /\ new.pc = "open" /\ new.verb = run[p].verb /\ new.spec = run[p].spec
      /\ new.force = run[p].force /\ new.plan = run[p].plan /\ new.fd = run[p].fd
      /\ new.exit = run[p].exit
  BY <1>1, PcChanged DEF Pcs
<1> HIDE DEF new
<1>4. GoesOn(p, "open", run[p].plan, run[p].exit) /\ run'[p].fd = run[p].fd
  BY <1>1, <1>2, <1>3 DEF GoesOn
<1> QED
  BY <1>4 DEF Proceed, At, Exists

\* <file>.tmp is opened and thereby emptied.
LEMMA OpenTmpDoes ==
  ASSUME ScaffoldTyped, NEW p \in Procs, OpenTmp(p)
  PROVE  /\ run[p].pc = "open" /\ run[p].plan # << >>
         /\ GoesOn(p, "write", run[p].plan, run[p].exit) /\ run'[p].fd = "tmp"
         /\ tmp' = [tmp EXCEPT ![File(p)] = Torn]
         /\ UNCHANGED <<disk, before, commands, edits>>
<1> DEFINE one == [run[p] EXCEPT !.pc = "write"]
           new == [one EXCEPT !.fd = "tmp"]
<1>1. run \in [Procs -> RunRecord] /\ run[p] \in RunRecord
  BY DEF ScaffoldTyped
<1>2. run' = [run EXCEPT ![p] = new]
  BY <1>1 DEF OpenTmp
<1>3. one \in RunRecord /\ one.pc = "write" /\ one.verb = run[p].verb /\ one.spec = run[p].spec
      /\ one.force = run[p].force /\ one.plan = run[p].plan /\ one.exit = run[p].exit
  BY <1>1, PcChanged DEF Pcs
<1> HIDE DEF one
<1>4. new \in RunRecord /\ new.pc = "write" /\ new.verb = run[p].verb /\ new.spec = run[p].spec
      /\ new.force = run[p].force /\ new.plan = run[p].plan /\ new.exit = run[p].exit /\ new.fd = "tmp"
  BY <1>3, FdChanged
<1> HIDE DEF new
<1>5. GoesOn(p, "write", run[p].plan, run[p].exit) /\ run'[p].fd = "tmp"
  BY <1>1, <1>2, <1>4 DEF GoesOn
<1> QED
  BY <1>5 DEF OpenTmp, At


\* The content goes to where the opened file is by now.
LEMMA WriteTmpDoes ==
  ASSUME ScaffoldTyped, NEW p \in Procs, WriteTmp(p)
  PROVE  LET f == File(p)
             c == Render(f, run[p].spec)
         IN  /\ run[p].pc = "write" /\ run[p].plan # << >>
             /\ GoesOn(p, "replace", run[p].plan, run[p].exit) /\ run'[p].fd = "closed"
             /\ IF run[p].fd = "tmp"
                THEN \E w \in Overwritten(tmp[f], c) : tmp' = [tmp EXCEPT ![f] = w]
                ELSE UNCHANGED tmp
             /\ IF run[p].fd = "destination"
                THEN \E w \in Overwritten(disk[f], c) : disk' = [disk EXCEPT ![f] = w]
                ELSE UNCHANGED disk
             /\ UNCHANGED <<before, commands, edits>>
<1> DEFINE one == [run[p] EXCEPT !.pc = "replace"]
           new == [one EXCEPT !.fd = "closed"]
<1>1. run \in [Procs -> RunRecord] /\ run[p] \in RunRecord
  BY DEF ScaffoldTyped
<1>2. run' = [run EXCEPT ![p] = new]
  BY <1>1 DEF WriteTmp
<1>3. one \in RunRecord /\ one.pc = "replace" /\ one.verb = run[p].verb /\ one.spec = run[p].spec
      /\ one.force = run[p].force /\ one.plan = run[p].plan /\ one.exit = run[p].exit
  BY <1>1, PcChanged DEF Pcs
<1> HIDE DEF one
<1>4. new \in RunRecord /\ new.pc = "replace" /\ new.verb = run[p].verb /\ new.spec = run[p].spec
      /\ new.force = run[p].force /\ new.plan = run[p].plan /\ new.exit = run[p].exit
      /\ new.fd = "closed"
  BY <1>3, FdChanged
<1> HIDE DEF new
<1>5. GoesOn(p, "replace", run[p].plan, run[p].exit) /\ run'[p].fd = "closed"
  BY <1>1, <1>2, <1>4 DEF GoesOn
<1> QED
  BY <1>5 DEF WriteTmp, At

\* A file moved under a command that has it open leaves it writing.
LEMMA MovedIs ==
  ASSUME ScaffoldTyped, NEW q \in Procs, NEW f, NEW here \in {"destination", "unlinked"},
         NEW there \in {"destination", "unlinked"}, NEW new, new = Moved(q, f, here, there)
  PROVE  /\ new \in RunRecord /\ new.pc = run[q].pc /\ new.verb = run[q].verb
         /\ new.spec = run[q].spec /\ new.force = run[q].force /\ new.plan = run[q].plan
         /\ new.names = run[q].names /\ new.text = run[q].text /\ new.exit = run[q].exit
         /\ new.fd = run[q].fd \/ (new.pc = "write" /\ new.fd # "closed")
<1>1. run[q] \in RunRecord /\ RunGood(run[q]) /\ run[q].fd \in {"closed", "tmp", "destination", "unlinked"}
  BY DEF ScaffoldTyped, RunRecord
<1>2. CASE At(q, "write") /\ File(q) = f
  <2> DEFINE fd == IF run[q].fd = "tmp" THEN here
                   ELSE IF run[q].fd = "destination" THEN there ELSE run[q].fd
  <2>1. new = [run[q] EXCEPT !.fd = fd]
    BY <1>1, <1>2 DEF Moved
  <2>2. fd \in {"closed", "tmp", "destination", "unlinked"} /\ run[q].pc = "write" /\ fd # "closed"
    BY <1>1, <1>2 DEF At, RunGood
  <2> HIDE DEF fd
  <2> QED
    BY <1>1, <2>1, <2>2, FdChanged
<1>3. CASE ~ (At(q, "write") /\ File(q) = f)
  BY <1>1, <1>3 DEF Moved
<1> QED
  BY <1>2, <1>3

\* As GoesOn, while the files that others have open may be moved.
GoesOnAmong(p, pc, plan, exit) ==
  /\ run' \in [Procs -> RunRecord]
  /\ \A q \in Procs : q # p =>
       /\ run'[q].pc = run[q].pc /\ run'[q].verb = run[q].verb
       /\ run'[q].spec = run[q].spec /\ run'[q].force = run[q].force /\ run'[q].plan = run[q].plan
       /\ run'[q].names = run[q].names /\ run'[q].text = run[q].text /\ run'[q].exit = run[q].exit
       /\ run'[q].fd = run[q].fd \/ (run'[q].pc = "write" /\ run'[q].fd # "closed")
  /\ run'[p] \in RunRecord
  /\ run'[p].pc = pc /\ run'[p].plan = plan /\ run'[p].exit = exit
  /\ run'[p].verb = run[p].verb /\ run'[p].spec = run[p].spec /\ run'[p].force = run[p].force

\* Going on without touching other processes is a case of going on.
LEMMA GoesOnAlone ==
  ASSUME ScaffoldTyped, NEW p \in Procs, NEW pc, NEW plan, NEW exit, GoesOn(p, pc, plan, exit)
  PROVE  GoesOnAmong(p, pc, plan, exit)
BY DEF GoesOn, GoesOnAmong

\* <file>.tmp takes the place of the file.
LEMMA ReplaceDoes ==
  ASSUME ScaffoldTyped, NEW p \in Procs, Replace(p)
  PROVE  /\ run[p].pc = "replace" /\ run[p].plan # << >>
         /\ GoesOnAmong(p, "task", Tail(run[p].plan), run[p].exit) /\ run'[p].fd = "closed"
         /\ tmp[File(p)] # Absent
         /\ disk' = [disk EXCEPT ![File(p)] = tmp[File(p)]]
         /\ tmp' = [tmp EXCEPT ![File(p)] = Absent]
         /\ UNCHANGED <<before, commands, edits>>
<1> DEFINE new == NextTask(p)
           now(q) == IF q = p THEN new ELSE Moved(q, File(p), "destination", "unlinked")
<1>1. run \in [Procs -> RunRecord] /\ run[p] \in RunRecord /\ run[p].pc = "replace" /\ run[p].plan # << >>
  BY DEF ScaffoldTyped, Replace, At
<1>2. run' = [q \in Procs |-> now(q)]
  BY DEF Replace
<1>3. /\ new \in RunRecord /\ new.pc = "task" /\ new.verb = run[p].verb /\ new.spec = run[p].spec
      /\ new.force = run[p].force /\ new.plan = Tail(run[p].plan) /\ new.fd = "closed"
      /\ new.exit = run[p].exit
  <2>1. new = Advanced(run[p])
    BY DEF NextTask, Advanced
  <2> HIDE DEF new
  <2> QED
    BY <1>1, <2>1, AdvancedIs
<1>4. ASSUME NEW q \in Procs, q # p
      PROVE  /\ now(q) \in RunRecord /\ now(q).pc = run[q].pc /\ now(q).verb = run[q].verb
             /\ now(q).spec = run[q].spec /\ now(q).force = run[q].force /\ now(q).plan = run[q].plan
             /\ now(q).names = run[q].names /\ now(q).text = run[q].text /\ now(q).exit = run[q].exit
             /\ now(q).fd = run[q].fd \/ (now(q).pc = "write" /\ now(q).fd # "closed")
  <2>1. now(q) = Moved(q, File(p), "destination", "unlinked")
    BY <1>4
  <2> HIDE DEF now
  <2> QED
    BY <2>1, MovedIs
<1>5. now(p) = new
  OBVIOUS
<1> HIDE DEF new, now
<1>6. run' \in [Procs -> RunRecord] /\ \A q \in Procs : run'[q] = now(q)
  BY <1>2, <1>3, <1>4, <1>5
<1>7. GoesOnAmong(p, "task", Tail(run[p].plan), run[p].exit) /\ run'[p].fd = "closed"
  BY <1>3, <1>4, <1>5, <1>6 DEF GoesOnAmong
<1> QED
  BY <1>1, <1>7 DEF Replace

\* A write that fails unlinks <file>.tmp and ends the command.
LEMMA WriteFailsDoes ==
  ASSUME ScaffoldTyped, NEW p \in Procs, WriteFails(p)
  PROVE  /\ run[p].pc \in {"write", "replace"}
         /\ GoesOnAmong(p, "done", << >>, "failed") /\ run'[p].fd = "closed"
         /\ tmp' = [tmp EXCEPT ![File(p)] = Absent]
         /\ UNCHANGED <<disk, before, commands, edits>>
<1> DEFINE new == Exit(p, "failed")
           now(q) == IF q = p THEN new ELSE Moved(q, File(p), "unlinked", "destination")
<1>1. run \in [Procs -> RunRecord] /\ run[p] \in RunRecord
  BY DEF ScaffoldTyped
<1>2. run' = [q \in Procs |-> now(q)]
  BY DEF WriteFails
<1>3. /\ new \in RunRecord /\ new.pc = "done" /\ new.verb = run[p].verb /\ new.spec = run[p].spec
      /\ new.force = run[p].force /\ new.plan = << >> /\ new.fd = "closed" /\ new.exit = "failed"
  <2>1. new = Ended(run[p], "failed")
    BY DEF Exit, Ended
  <2> HIDE DEF new
  <2> QED
    BY <1>1, <2>1, EndedIs
<1>4. ASSUME NEW q \in Procs, q # p
      PROVE  /\ now(q) \in RunRecord /\ now(q).pc = run[q].pc /\ now(q).verb = run[q].verb
             /\ now(q).spec = run[q].spec /\ now(q).force = run[q].force /\ now(q).plan = run[q].plan
             /\ now(q).names = run[q].names /\ now(q).text = run[q].text /\ now(q).exit = run[q].exit
             /\ now(q).fd = run[q].fd \/ (now(q).pc = "write" /\ now(q).fd # "closed")
  <2>1. now(q) = Moved(q, File(p), "unlinked", "destination")
    BY <1>4
  <2> HIDE DEF now
  <2> QED
    BY <2>1, MovedIs
<1>5. now(p) = new
  OBVIOUS
<1> HIDE DEF new, now
<1>6. run' \in [Procs -> RunRecord] /\ \A q \in Procs : run'[q] = now(q)
  BY <1>2, <1>3, <1>4, <1>5
<1>7. GoesOnAmong(p, "done", << >>, "failed") /\ run'[p].fd = "closed"
  BY <1>3, <1>4, <1>5, <1>6 DEF GoesOnAmong
<1> QED
  BY <1>7 DEF WriteFails

\* Ends that touch no file.
LEMMA EndsDo ==
  ASSUME ScaffoldTyped, NEW p \in Procs, Collide(p) \/ ReplaceFails(p) \/ Succeed(p)
  PROVE  \E code \in {"ok", "refused", "failed"} :
           /\ GoesOn(p, "done", << >>, code) /\ run'[p].fd = "closed" /\ Busy(run[p])
           /\ UNCHANGED <<disk, tmp, before, commands, edits>>
           /\ code = "refused" => /\ run[p].pc = "task" /\ run[p].plan # << >>
                                  /\ This(p).how = "new" /\ disk[File(p)] # Absent
           /\ code = "ok" => run[p].pc = "task" /\ run[p].plan = << >>
<1>1. run \in [Procs -> RunRecord] /\ run[p] \in RunRecord
  BY DEF ScaffoldTyped
<1>2. ASSUME NEW code \in {"ok", "refused", "failed"}, run' = [run EXCEPT ![p] = Exit(p, code)]
      PROVE  GoesOn(p, "done", << >>, code) /\ run'[p].fd = "closed"
  <2> DEFINE new == Exit(p, code)
  <2>1. run' = [run EXCEPT ![p] = new]
    BY <1>2
  <2>2. new = Ended(run[p], code)
    BY DEF Exit, Ended
  <2> HIDE DEF new
  <2>3. /\ new \in RunRecord /\ new.pc = "done" /\ new.verb = run[p].verb /\ new.spec = run[p].spec
        /\ new.force = run[p].force /\ new.plan = << >> /\ new.fd = "closed" /\ new.exit = code
    BY <1>1, <2>2, EndedIs
  <2> QED
    BY <1>1, <2>1, <2>3 DEF GoesOn
<1>3. CASE Collide(p)
  BY <1>2, <1>3 DEF Collide, At, Exists, Busy
<1>4. CASE ReplaceFails(p)
  BY <1>2, <1>4 DEF ReplaceFails, At, Busy, Writing
<1>5. CASE Succeed(p)
  BY <1>2, <1>5 DEF Succeed, Busy
<1> QED
  BY <1>3, <1>4, <1>5


\* NextTask goes on behind the first task.
LEMMA AdvanceDoes ==
  ASSUME ScaffoldTyped, NEW p \in Procs, run[p].plan # << >>, run' = [run EXCEPT ![p] = NextTask(p)]
  PROVE  GoesOn(p, "task", Tail(run[p].plan), run[p].exit) /\ run'[p].fd = "closed"
<1> DEFINE new == NextTask(p)
<1>1. run \in [Procs -> RunRecord] /\ run[p] \in RunRecord /\ run' = [run EXCEPT ![p] = new]
  BY DEF ScaffoldTyped
<1>2. new = Advanced(run[p])
  BY DEF NextTask, Advanced
<1> HIDE DEF new
<1>3. /\ new \in RunRecord /\ new.pc = "task" /\ new.verb = run[p].verb /\ new.spec = run[p].spec
      /\ new.force = run[p].force /\ new.plan = Tail(run[p].plan) /\ new.fd = "closed"
      /\ new.exit = run[p].exit
  BY <1>1, <1>2, AdvancedIs
<1> QED
  BY <1>1, <1>3 DEF GoesOn

\* A task for a missing file is over when the file is there.
LEMMA SkipDoes ==
  ASSUME ScaffoldTyped, NEW p \in Procs, Skip(p)
  PROVE  /\ run[p].pc = "task" /\ run[p].plan # << >> /\ This(p).how = "missing"
         /\ disk[File(p)] # Absent
         /\ GoesOn(p, "task", Tail(run[p].plan), run[p].exit) /\ run'[p].fd = "closed"
         /\ UNCHANGED <<disk, tmp, before, commands, edits>>
BY AdvanceDoes DEF Skip, At, Exists

\* The names that are missing are names.
LEMMA NamesTyped ==
  ASSUME ScaffoldTyped, NEW p \in Procs, run[p].plan # << >>, File(p) \in CodeFiles, NEW c
  PROVE  Missing(Stubs[run[p].spec][File(p)], ExistingNames(c)) \in Seq(Names)
BY AtTask, SpecsAssumption, MissingIs

\* Nothing is missing, or the missing names are noted.
LEMMA ReadNamesDoes ==
  ASSUME ScaffoldTyped, NEW p \in Procs, ReadNames(p)
  PROVE  /\ run[p].pc = "task" /\ run[p].plan # << >> /\ This(p).how = "stubs"
         /\ UNCHANGED <<disk, tmp, before, commands, edits>>
         /\ run'[p].fd = "closed"
         /\ \/ /\ MissingNames(p) = << >>
               /\ GoesOn(p, "task", Tail(run[p].plan), run[p].exit)
            \/ /\ GoesOn(p, "read", run[p].plan, run[p].exit)
               /\ run'[p].names = MissingNames(p)
<1>1. /\ run \in [Procs -> RunRecord] /\ run[p] \in RunRecord /\ run[p].plan # << >>
      /\ run[p].pc = "task" /\ This(p).how = "stubs" /\ RunGood(run[p])
      /\ run[p].fd \in {"closed", "tmp", "destination", "unlinked"}
  BY DEF ScaffoldTyped, ReadNames, At, RunRecord
<1>2. MissingNames(p) \in Seq(Names) /\ run[p].fd = "closed"
  BY <1>1, AtTask, NamesTyped DEF MissingNames, RunGood
<1>3. CASE MissingNames(p) = << >>
  <2>1. run' = [run EXCEPT ![p] = NextTask(p)]
    BY <1>3 DEF ReadNames
  <2> QED
    BY <1>1, <1>3, <2>1, AdvanceDoes DEF ReadNames
<1>4. CASE MissingNames(p) # << >>
  <2> DEFINE one == [run[p] EXCEPT !.pc = "read"]
             new == [one EXCEPT !.names = MissingNames(p)]
  <2>1. run' = [run EXCEPT ![p] = new]
    BY <1>1, <1>4 DEF ReadNames
  <2>2. one \in RunRecord /\ one.pc = "read" /\ one.verb = run[p].verb /\ one.spec = run[p].spec
        /\ one.force = run[p].force /\ one.plan = run[p].plan /\ one.exit = run[p].exit
        /\ one.fd = run[p].fd
    BY <1>1, PcChanged DEF Pcs
  <2> HIDE DEF one
  <2>3. new \in RunRecord /\ new.pc = "read" /\ new.verb = run[p].verb /\ new.spec = run[p].spec
        /\ new.force = run[p].force /\ new.plan = run[p].plan /\ new.exit = run[p].exit
        /\ new.fd = run[p].fd /\ new.names = MissingNames(p)
    BY <1>2, <2>2, NamesChanged
  <2> HIDE DEF new
  <2>4. GoesOn(p, "read", run[p].plan, run[p].exit) /\ run'[p].fd = "closed" /\ run'[p].names = MissingNames(p)
    BY <1>1, <1>2, <2>1, <2>3 DEF GoesOn
  <2> QED
    BY <1>1, <2>4 DEF ReadNames
<1> QED
  BY <1>3, <1>4

\* The text of the file is read as it stands.
LEMMA ReadTextDoes ==
  ASSUME ScaffoldTyped, NEW p \in Procs, ReadText(p)
  PROVE  /\ run[p].pc = "read" /\ run[p].plan # << >>
         /\ GoesOn(p, "truncate", run[p].plan, run[p].exit) /\ run'[p].fd = run[p].fd
         /\ run'[p].names = run[p].names /\ run'[p].text = disk[File(p)]
         /\ UNCHANGED <<disk, tmp, before, commands, edits>>
<1> DEFINE one == [run[p] EXCEPT !.pc = "truncate"]
           new == [one EXCEPT !.text = disk[File(p)]]
<1>1. run \in [Procs -> RunRecord] /\ run[p] \in RunRecord /\ run[p].plan # << >>
  BY DEF ScaffoldTyped, ReadText, At
<1>2. disk[File(p)] \in Content
  BY <1>1, AtTask DEF ScaffoldTyped, Disks
<1>3. run' = [run EXCEPT ![p] = new]
  BY <1>1 DEF ReadText
<1>4. one \in RunRecord /\ one.pc = "truncate" /\ one.verb = run[p].verb /\ one.spec = run[p].spec
      /\ one.force = run[p].force /\ one.plan = run[p].plan /\ one.exit = run[p].exit
      /\ one.fd = run[p].fd /\ one.names = run[p].names
  BY <1>1, PcChanged DEF Pcs
<1> HIDE DEF one
<1>5. new \in RunRecord /\ new.pc = "truncate" /\ new.verb = run[p].verb /\ new.spec = run[p].spec
      /\ new.force = run[p].force /\ new.plan = run[p].plan /\ new.exit = run[p].exit
      /\ new.fd = run[p].fd /\ new.names = run[p].names /\ new.text = disk[File(p)]
  BY <1>2, <1>4, TextChanged
<1> HIDE DEF new
<1>6. /\ GoesOn(p, "truncate", run[p].plan, run[p].exit) /\ run'[p].fd = run[p].fd
      /\ run'[p].names = run[p].names /\ run'[p].text = disk[File(p)]
  BY <1>1, <1>3, <1>5 DEF GoesOn
<1> QED
  BY <1>6 DEF ReadText, At

\* The file is opened for writing and thereby emptied.
LEMMA TruncateDoes ==
  ASSUME ScaffoldTyped, NEW p \in Procs, TruncateCode(p)
  PROVE  /\ run[p].pc = "truncate" /\ run[p].plan # << >>
         /\ GoesOn(p, "append", run[p].plan, run[p].exit) /\ run'[p].fd = run[p].fd
         /\ run'[p].names = run[p].names /\ run'[p].text = run[p].text
         /\ disk' = [disk EXCEPT ![File(p)] = Torn]
         /\ UNCHANGED <<tmp, before, commands, edits>>
<1> DEFINE new == [run[p] EXCEPT !.pc = "append"]
<1>1. run \in [Procs -> RunRecord] /\ run[p] \in RunRecord
  BY DEF ScaffoldTyped
<1>2. run' = [run EXCEPT ![p] = new]
  BY DEF TruncateCode
<1>3. new \in RunRecord /\ new.pc = "append" /\ new.verb = run[p].verb /\ new.spec = run[p].spec
      /\ new.force = run[p].force /\ new.plan = run[p].plan /\ new.fd = run[p].fd
      /\ new.exit = run[p].exit /\ new.names = run[p].names /\ new.text = run[p].text
  BY <1>1, PcChanged DEF Pcs
<1> HIDE DEF new
<1>4. /\ GoesOn(p, "append", run[p].plan, run[p].exit) /\ run'[p].fd = run[p].fd
      /\ run'[p].names = run[p].names /\ run'[p].text = run[p].text
  BY <1>1, <1>2, <1>3 DEF GoesOn
<1> QED
  BY <1>4 DEF TruncateCode, At

\* The text that was read is written, with the stubs behind it.
LEMMA AppendDoes ==
  ASSUME ScaffoldTyped, NEW p \in Procs, AppendStubs(p)
  PROVE  /\ run[p].pc = "append" /\ run[p].plan # << >>
         /\ GoesOn(p, "task", Tail(run[p].plan), run[p].exit) /\ run'[p].fd = "closed"
         /\ disk' = [disk EXCEPT ![File(p)] =
                       Code(Defs(run[p].text) \o StubsFor(run[p].names), Parses(run[p].text))]
         /\ UNCHANGED <<tmp, before, commands, edits>>
BY AdvanceDoes DEF AppendStubs, At

\* A process that is gone leaves the disk as it was.
LEMMA GoneDoes ==
  ASSUME ScaffoldTyped, NEW p \in Procs, Gone(p)
  PROVE  /\ run' \in [Procs -> RunRecord] /\ run'[p] = Idle
         /\ \A q \in Procs : q # p => run'[q] = run[q]
         /\ \A q \in Procs : q # p => before'[q] = before[q]
         /\ before' \in [Procs -> Disks]
         /\ UNCHANGED <<disk, tmp, commands, edits>>
<1>1. [f \in Files |-> Absent] \in Disks
  BY ContentsAre DEF Disks
<1> QED
  BY <1>1, IdleIs DEF Gone, ScaffoldTyped

-----------------------------------------------------------------------------
(* Plans. *)

How(force) == IF force THEN "force" ELSE "new"
HowMissing(force) == IF force THEN "force" ELSE "missing"

\* A task has the file and the way it was made with.
LEMMA TaskIs ==
  ASSUME NEW f \in Files, NEW how \in {"new", "force", "missing", "stubs"}
  PROVE  Task(f, how) \in Tasks /\ Task(f, how).file = f /\ Task(f, how).how = how
BY DEF Task, Tasks

\* The init plan, task by task.
LEMMA InitPlanIs ==
  ASSUME NEW force \in BOOLEAN, NEW inPlace \in BOOLEAN, NEW plan, plan = InitPlan(force, inPlace)
  PROVE  /\ plan \in Seq(Tasks)
         /\ Len(plan) = IF inPlace THEN 7 ELSE 8
         /\ \A i \in 1 .. 6 : plan[i] = Task(Generated[i], How(force))
         /\ IF inPlace THEN plan[7] = Task(".gitignore", HowMissing(force))
            ELSE /\ plan[7] = Task("pmstate.yaml", How(force))
                 /\ plan[8] = Task(".gitignore", HowMissing(force))
<1> DEFINE how == How(force)
           six == [i \in 1 .. 6 |-> Task(Generated[i], how)]
           yaml == <<Task("pmstate.yaml", how)>>
           last == <<Task(".gitignore", HowMissing(force))>>
<1>1. plan = (six \o (IF inPlace THEN << >> ELSE yaml)) \o last
  <2>1. Len(Generated) = 6
    BY DEF Generated
  <2> QED
    BY <2>1 DEF InitPlan, How, HowMissing
<1>2. how \in {"new", "force"} /\ HowMissing(force) \in {"force", "missing"}
  BY DEF How, HowMissing
<1>3. \A i \in 1 .. 6 : Generated[i] \in Files
  BY DEF Generated, Files, GeneratedFiles
<1>4. six \in Seq(Tasks) /\ Len(six) = 6 /\ \A i \in 1 .. 6 : six[i] = Task(Generated[i], how)
  <2>1. six \in [1 .. 6 -> Tasks]
    BY <1>2, <1>3, TaskIs
  <2>2. six \in Seq(Tasks)
    BY <2>1
  <2> QED
    BY <2>1, <2>2
<1>5. /\ yaml \in Seq(Tasks) /\ Len(yaml) = 1 /\ yaml[1] = Task("pmstate.yaml", how)
      /\ last \in Seq(Tasks) /\ Len(last) = 1 /\ last[1] = Task(".gitignore", HowMissing(force))
  BY <1>2, FilesAre, TaskIs
<1> HIDE DEF how, six, yaml, last
<1>6. CASE inPlace
  <2>1. plan = (six \o << >>) \o last
    BY <1>1, <1>6
  <2>2. six \o << >> = six
    BY <1>4
  <2>3. plan = six \o last
    BY <2>1, <2>2
  <2>4. /\ plan \in Seq(Tasks) /\ Len(plan) = 7 /\ \A i \in 1 .. 6 : plan[i] = six[i]
        /\ plan[7] = last[1]
    <3>1. plan = six \o last /\ six \in Seq(Tasks) /\ last \in Seq(Tasks)
      BY <1>4, <1>5, <2>3
    <3>2. plan \in Seq(Tasks) /\ Len(plan) = Len(six) + Len(last)
      BY <3>1
    <3>3. \A i \in 1 .. Len(six) : plan[i] = six[i]
      BY <3>1
    <3>4. \A i \in 1 .. Len(last) : plan[Len(six) + i] = last[i]
      BY <3>1
    <3>5. Len(six) = 6 /\ Len(last) = 1
      BY <1>4, <1>5, <2>3
    <3>6. Len(plan) = 7
      BY <3>2, <3>5
    <3>7. \A i \in 1 .. 6 : plan[i] = six[i]
      BY <3>3, <3>5
    <3>8. \A i \in 1 .. 1 : plan[6 + i] = last[i]
      BY <3>4, <3>5
    <3>9. plan[7] = last[1]
      <4>1. 1 \in 1 .. 1 /\ 6 + 1 = 7
        OBVIOUS
      <4> QED
        BY <3>8, <4>1
    <3> QED
      BY <3>2, <3>6, <3>7, <3>9
  <2> QED
    BY <1>4, <1>5, <1>6, <2>4 DEF how
<1>7. CASE ~ inPlace
  <2> DEFINE seven == six \o yaml
  <2>1. plan = seven \o last
    BY <1>1, <1>7
  <2>2. /\ seven \in Seq(Tasks) /\ Len(seven) = 7 /\ seven[7] = Task("pmstate.yaml", how)
        /\ \A i \in 1 .. 6 : seven[i] = Task(Generated[i], how)
    <3>1. seven = six \o yaml /\ six \in Seq(Tasks) /\ yaml \in Seq(Tasks)
      BY <1>4, <1>5
    <3>2. seven \in Seq(Tasks) /\ Len(seven) = Len(six) + Len(yaml)
      BY <3>1
    <3>3. \A i \in 1 .. Len(six) : seven[i] = six[i]
      BY <3>1
    <3>4. \A i \in 1 .. Len(yaml) : seven[Len(six) + i] = yaml[i]
      BY <3>1
    <3>5. Len(six) = 6 /\ Len(yaml) = 1
      BY <1>4, <1>5
    <3> HIDE DEF seven
    <3>6. Len(seven) = 7
      BY <3>2, <3>5
    <3>7. \A i \in 1 .. 6 : seven[i] = six[i]
      BY <3>3, <3>5
    <3>8. \A i \in 1 .. 1 : seven[6 + i] = yaml[i]
      BY <3>4, <3>5
    <3> QED
      BY <3>2, <3>6, <3>7, <3>8, <1>4, <1>5
  <2> HIDE DEF seven
  <2>3. /\ plan \in Seq(Tasks) /\ Len(plan) = 8 /\ \A i \in 1 .. 7 : plan[i] = seven[i]
        /\ plan[8] = last[1]
    <3>1. plan = seven \o last /\ seven \in Seq(Tasks) /\ last \in Seq(Tasks)
      BY <1>5, <2>1, <2>2
    <3>2. plan \in Seq(Tasks) /\ Len(plan) = Len(seven) + Len(last)
      BY <3>1
    <3>3. \A i \in 1 .. Len(seven) : plan[i] = seven[i]
      BY <3>1
    <3>4. \A i \in 1 .. Len(last) : plan[Len(seven) + i] = last[i]
      BY <3>1
    <3>5. Len(seven) = 7 /\ Len(last) = 1
      BY <1>5, <2>1, <2>2
    <3>6. Len(plan) = 8
      BY <3>2, <3>5
    <3>7. \A i \in 1 .. 7 : plan[i] = seven[i]
      BY <3>3, <3>5
    <3>8. \A i \in 1 .. 1 : plan[7 + i] = last[i]
      BY <3>4, <3>5
    <3>9. plan[8] = last[1]
      <4>1. 1 \in 1 .. 1 /\ 7 + 1 = 8
        OBVIOUS
      <4> QED
        BY <3>8, <4>1
    <3> QED
      BY <3>2, <3>6, <3>7, <3>9
  <2> QED
    BY <1>5, <1>7, <2>2, <2>3 DEF how
<1> QED
  BY <1>6, <1>7

\* The upgrade plan, task by task.
LEMMA UpgradePlanIs ==
  ASSUME NEW force \in BOOLEAN, NEW plan, plan = UpgradePlan(force)
  PROVE  /\ plan \in Seq(Tasks) /\ Len(plan) = IF force THEN 7 ELSE 9
         /\ plan[1] = Task("tree.py", "force") /\ plan[2] = Task("add.py", "force")
         /\ IF force
            THEN /\ plan[3] = Task("views.py", "force") /\ plan[4] = Task("reducers.py", "force")
                 /\ plan[5] = Task("AGENTS.md", "missing") /\ plan[6] = Task("chat.py", "missing")
                 /\ plan[7] = Task(".gitignore", "missing")
            ELSE /\ plan[3] = Task("views.py", "missing") /\ plan[4] = Task("reducers.py", "missing")
                 /\ plan[5] = Task("views.py", "stubs") /\ plan[6] = Task("reducers.py", "stubs")
                 /\ plan[7] = Task("AGENTS.md", "missing") /\ plan[8] = Task("chat.py", "missing")
                 /\ plan[9] = Task(".gitignore", "missing")
<1> DEFINE two == <<Task("tree.py", "force"), Task("add.py", "force")>>
           anew == <<Task("views.py", "force"), Task("reducers.py", "force")>>
           stubs == <<Task("views.py", "missing"), Task("reducers.py", "missing"),
                      Task("views.py", "stubs"), Task("reducers.py", "stubs")>>
           last == <<Task("AGENTS.md", "missing"), Task("chat.py", "missing"),
                     Task(".gitignore", "missing")>>
<1>1. plan = (two \o (IF force THEN anew ELSE stubs)) \o last
  BY DEF UpgradePlan
<1>2. \A f \in Files, how \in {"new", "force", "missing", "stubs"} : Task(f, how) \in Tasks
  BY TaskIs
<1>3. two \in Seq(Tasks) /\ anew \in Seq(Tasks) /\ stubs \in Seq(Tasks) /\ last \in Seq(Tasks)
  BY <1>2, FilesAre
<1>4. /\ Len(two) = 2 /\ two[1] = Task("tree.py", "force") /\ two[2] = Task("add.py", "force")
      /\ Len(anew) = 2 /\ anew[1] = Task("views.py", "force") /\ anew[2] = Task("reducers.py", "force")
      /\ Len(stubs) = 4
      /\ stubs[1] = Task("views.py", "missing") /\ stubs[2] = Task("reducers.py", "missing")
      /\ stubs[3] = Task("views.py", "stubs") /\ stubs[4] = Task("reducers.py", "stubs")
      /\ Len(last) = 3 /\ last[1] = Task("AGENTS.md", "missing")
      /\ last[2] = Task("chat.py", "missing") /\ last[3] = Task(".gitignore", "missing")
  OBVIOUS
<1> HIDE DEF two, anew, stubs, last
<1>5. CASE force
  <2> DEFINE four == two \o anew
  <2>1. plan = four \o last
    BY <1>1, <1>5
  <2>2. /\ four \in Seq(Tasks) /\ Len(four) = 4 /\ four[1] = two[1] /\ four[2] = two[2]
        /\ four[3] = anew[1] /\ four[4] = anew[2]
    <3>1. four = two \o anew /\ two \in Seq(Tasks) /\ anew \in Seq(Tasks)
      BY <1>3, <1>4
    <3>2. four \in Seq(Tasks) /\ Len(four) = Len(two) + Len(anew)
      BY <3>1
    <3>3. \A i \in 1 .. Len(two) : four[i] = two[i]
      BY <3>1
    <3>4. \A i \in 1 .. Len(anew) : four[Len(two) + i] = anew[i]
      BY <3>1
    <3>5. Len(two) = 2 /\ Len(anew) = 2
      BY <1>3, <1>4
    <3> HIDE DEF four
    <3>6. Len(four) = 4
      BY <3>2, <3>5
    <3>7. \A i \in 1 .. 2 : four[i] = two[i]
      BY <3>3, <3>5
    <3>8. \A i \in 1 .. 2 : four[2 + i] = anew[i]
      BY <3>4, <3>5
    <3> QED
      BY <3>2, <3>6, <3>7, <3>8, <1>4
  <2> HIDE DEF four
  <2>3. /\ plan \in Seq(Tasks) /\ Len(plan) = 7 /\ \A i \in 1 .. 4 : plan[i] = four[i]
        /\ plan[5] = last[1] /\ plan[6] = last[2] /\ plan[7] = last[3]
    <3>1. plan = four \o last /\ four \in Seq(Tasks) /\ last \in Seq(Tasks)
      BY <1>3, <1>4, <2>1, <2>2
    <3>2. plan \in Seq(Tasks) /\ Len(plan) = Len(four) + Len(last)
      BY <3>1
    <3>3. \A i \in 1 .. Len(four) : plan[i] = four[i]
      BY <3>1
    <3>4. \A i \in 1 .. Len(last) : plan[Len(four) + i] = last[i]
      BY <3>1
    <3>5. Len(four) = 4 /\ Len(last) = 3
      BY <1>3, <1>4, <2>1, <2>2
    <3>6. Len(plan) = 7
      BY <3>2, <3>5
    <3>7. \A i \in 1 .. 4 : plan[i] = four[i]
      BY <3>3, <3>5
    <3>8. \A i \in 1 .. 3 : plan[4 + i] = last[i]
      BY <3>4, <3>5
    <3>9. plan[5] = last[1] /\ plan[6] = last[2] /\ plan[7] = last[3]
      <4>1. 1 \in 1 .. 3 /\ 4 + 1 = 5
        OBVIOUS
      <4>2. 2 \in 1 .. 3 /\ 4 + 2 = 6
        OBVIOUS
      <4>3. 3 \in 1 .. 3 /\ 4 + 3 = 7
        OBVIOUS
      <4> QED
        BY <3>8, <4>1, <4>2, <4>3
    <3> QED
      BY <3>2, <3>6, <3>7, <3>9
  <2>4. /\ plan[1] = four[1] /\ plan[2] = four[2] /\ plan[3] = four[3] /\ plan[4] = four[4]
        /\ plan[5] = last[1] /\ plan[6] = last[2] /\ plan[7] = last[3]
    BY <2>3
  <2>5. /\ plan[1] = Task("tree.py", "force") /\ plan[2] = Task("add.py", "force")
        /\ plan[3] = Task("views.py", "force") /\ plan[4] = Task("reducers.py", "force")
        /\ plan[5] = Task("AGENTS.md", "missing") /\ plan[6] = Task("chat.py", "missing")
        /\ plan[7] = Task(".gitignore", "missing")
    BY <1>4, <2>2, <2>4
  <2> QED
    BY <1>5, <2>3, <2>5
<1>6. CASE ~ force
  <2> DEFINE six == two \o stubs
  <2>1. plan = six \o last
    BY <1>1, <1>6
  <2>2. /\ six \in Seq(Tasks) /\ Len(six) = 6 /\ six[1] = two[1] /\ six[2] = two[2]
        /\ six[3] = stubs[1] /\ six[4] = stubs[2] /\ six[5] = stubs[3] /\ six[6] = stubs[4]
    <3>1. six = two \o stubs /\ two \in Seq(Tasks) /\ stubs \in Seq(Tasks)
      BY <1>3, <1>4
    <3>2. six \in Seq(Tasks) /\ Len(six) = Len(two) + Len(stubs)
      BY <3>1
    <3>3. \A i \in 1 .. Len(two) : six[i] = two[i]
      BY <3>1
    <3>4. \A i \in 1 .. Len(stubs) : six[Len(two) + i] = stubs[i]
      BY <3>1
    <3>5. Len(two) = 2 /\ Len(stubs) = 4
      BY <1>3, <1>4
    <3> HIDE DEF six
    <3>6. Len(six) = 6
      BY <3>2, <3>5
    <3>7. \A i \in 1 .. 2 : six[i] = two[i]
      BY <3>3, <3>5
    <3>8. \A i \in 1 .. 4 : six[2 + i] = stubs[i]
      BY <3>4, <3>5
    <3> QED
      BY <3>2, <3>6, <3>7, <3>8, <1>4
  <2> HIDE DEF six
  <2>3. /\ plan \in Seq(Tasks) /\ Len(plan) = 9 /\ \A i \in 1 .. 6 : plan[i] = six[i]
        /\ plan[7] = last[1] /\ plan[8] = last[2] /\ plan[9] = last[3]
    <3>1. plan = six \o last /\ six \in Seq(Tasks) /\ last \in Seq(Tasks)
      BY <1>3, <1>4, <2>1, <2>2
    <3>2. plan \in Seq(Tasks) /\ Len(plan) = Len(six) + Len(last)
      BY <3>1
    <3>3. \A i \in 1 .. Len(six) : plan[i] = six[i]
      BY <3>1
    <3>4. \A i \in 1 .. Len(last) : plan[Len(six) + i] = last[i]
      BY <3>1
    <3>5. Len(six) = 6 /\ Len(last) = 3
      BY <1>3, <1>4, <2>1, <2>2
    <3>6. Len(plan) = 9
      BY <3>2, <3>5
    <3>7. \A i \in 1 .. 6 : plan[i] = six[i]
      BY <3>3, <3>5
    <3>8. \A i \in 1 .. 3 : plan[6 + i] = last[i]
      BY <3>4, <3>5
    <3>9. plan[7] = last[1] /\ plan[8] = last[2] /\ plan[9] = last[3]
      <4>1. 1 \in 1 .. 3 /\ 6 + 1 = 7
        OBVIOUS
      <4>2. 2 \in 1 .. 3 /\ 6 + 2 = 8
        OBVIOUS
      <4>3. 3 \in 1 .. 3 /\ 6 + 3 = 9
        OBVIOUS
      <4> QED
        BY <3>8, <4>1, <4>2, <4>3
    <3> QED
      BY <3>2, <3>6, <3>7, <3>9
  <2> QED
    BY <1>4, <1>6, <2>2, <2>3
<1> QED
  BY <1>5, <1>6


\* The init plan has every file once, and pmstate.yaml behind the generated ones.
LEMMA InitPlanGood ==
  ASSUME NEW force \in BOOLEAN, NEW inPlace \in BOOLEAN, NEW plan, plan = InitPlan(force, inPlace)
  PROVE  /\ plan \in Seq(Tasks)
         /\ \A i \in 1 .. Len(plan) :
              /\ plan[i].how # "stubs" /\ (~ force => plan[i].how # "force")
              /\ plan[i].file = "pmstate.yaml" => i = 7
              /\ plan[i].how = "new" => /\ ~ force
                                        /\ plan[i].file \in GeneratedFiles \union
                                             (IF inPlace THEN {} ELSE {"pmstate.yaml"})
              /\ \A j \in 1 .. Len(plan) : plan[i].file = plan[j].file => i = j
         /\ \A f \in GeneratedFiles : \E j \in 1 .. 6 :
              j \in 1 .. Len(plan) /\ plan[j].file = f /\ plan[j].how \in {"new", "force"}
         /\ \E i \in 1 .. Len(plan) : plan[i].file = ".gitignore" /\ plan[i].how \in {"force", "missing"}
         /\ ~ inPlace => \E i \in 1 .. Len(plan) :
                           plan[i].file = "pmstate.yaml" /\ plan[i].how \in {"new", "force"}
<1> DEFINE how == How(force)
           rest == HowMissing(force)
<1>1. /\ how \in {"new", "force"} /\ (how = "new" <=> ~ force)
      /\ rest \in {"missing", "force"} /\ (rest = "force" <=> force)
  BY DEF How, HowMissing
<1>2. plan \in Seq(Tasks) /\ Len(plan) = IF inPlace THEN 7 ELSE 8
  BY InitPlanIs
<1>3. \A i \in 1 .. 6 : plan[i].file = Generated[i] /\ plan[i].how = how
  <2>1. \A i \in 1 .. 6 : plan[i] = Task(Generated[i], how)
    BY InitPlanIs
  <2> HIDE DEF how
  <2> QED
    BY <2>1 DEF Task
<1>4. IF inPlace THEN plan[7].file = ".gitignore" /\ plan[7].how = rest
      ELSE /\ plan[7].file = "pmstate.yaml" /\ plan[7].how = how
           /\ plan[8].file = ".gitignore" /\ plan[8].how = rest
  <2>1. IF inPlace THEN plan[7] = Task(".gitignore", rest)
        ELSE plan[7] = Task("pmstate.yaml", how) /\ plan[8] = Task(".gitignore", rest)
    BY InitPlanIs
  <2> HIDE DEF how, rest
  <2> QED
    BY <2>1 DEF Task
<1> HIDE DEF how, rest
<1>5. /\ plan[1].file = "tree.py" /\ plan[2].file = "views.py" /\ plan[3].file = "reducers.py"
      /\ plan[4].file = "chat.py" /\ plan[5].file = "add.py" /\ plan[6].file = "AGENTS.md"
      /\ plan[1].how = how /\ plan[2].how = how /\ plan[3].how = how
      /\ plan[4].how = how /\ plan[5].how = how /\ plan[6].how = how
  BY <1>3 DEF Generated
<1>6. ASSUME NEW f \in GeneratedFiles
      PROVE  \E j \in 1 .. 6 : j \in 1 .. Len(plan) /\ plan[j].file = f /\ plan[j].how \in {"new", "force"}
  <2>1. \A j \in 1 .. 6 : j \in 1 .. Len(plan)
    BY <1>2
  <2>2. \E j \in 1 .. 6 : plan[j].file = f
    BY <1>5, FilesAre
  <2> QED
    BY <1>1, <1>3, <2>1, <2>2
<1>7. CASE inPlace
  <2>1. \A i \in 1 .. Len(plan) : i = 1 \/ i = 2 \/ i = 3 \/ i = 4 \/ i = 5 \/ i = 6 \/ i = 7
    BY <1>2, <1>7
  <2>2. plan[7].file = ".gitignore" /\ plan[7].how = rest /\ 7 \in 1 .. Len(plan)
    <3>1. plan[7].file = ".gitignore" /\ plan[7].how = rest
      BY <1>4, <1>7
    <3>2. Len(plan) = 7
      BY <1>2, <1>7
    <3> QED
      BY <3>1, <3>2
  <2>3. ASSUME NEW i \in 1 .. Len(plan)
        PROVE  /\ plan[i].how # "stubs" /\ (~ force => plan[i].how # "force")
               /\ plan[i].file = "pmstate.yaml" => i = 7
               /\ plan[i].how = "new" => ~ force /\ plan[i].file \in GeneratedFiles
               /\ \A j \in 1 .. Len(plan) : plan[i].file = plan[j].file => i = j
    <3>1. /\ plan[i].how # "stubs" /\ (~ force => plan[i].how # "force")
          /\ plan[i].file = "pmstate.yaml" => i = 7
          /\ plan[i].how = "new" => ~ force /\ plan[i].file \in GeneratedFiles
      BY <1>1, <1>5, <2>1, <2>2, FilesAre
    <3>2. ASSUME NEW j \in 1 .. Len(plan), plan[i].file = plan[j].file PROVE i = j
      BY <1>5, <2>1, <2>2, <3>2
    <3> QED
      BY <3>1, <3>2
  <2>4. \E i \in 1 .. Len(plan) : plan[i].file = ".gitignore" /\ plan[i].how \in {"force", "missing"}
    BY <1>1, <2>2
  <2>5. ASSUME NEW i \in 1 .. Len(plan), plan[i].how = "new"
        PROVE  /\ ~ force
               /\ plan[i].file \in GeneratedFiles \union (IF inPlace THEN {} ELSE {"pmstate.yaml"})
    BY <2>3, <2>5
  <2> QED
    BY <1>2, <1>6, <1>7, <2>3, <2>4, <2>5
<1>8. CASE ~ inPlace
  <2>1. \A i \in 1 .. Len(plan) : \/ i = 1 \/ i = 2 \/ i = 3 \/ i = 4 \/ i = 5 \/ i = 6 \/ i = 7
                                  \/ i = 8
    BY <1>2, <1>8
  <2>2. /\ plan[7].file = "pmstate.yaml" /\ plan[7].how = how /\ 7 \in 1 .. Len(plan)
        /\ plan[8].file = ".gitignore" /\ plan[8].how = rest /\ 8 \in 1 .. Len(plan)
    BY <1>2, <1>4, <1>8
  <2>3. ASSUME NEW i \in 1 .. Len(plan)
        PROVE  /\ plan[i].how # "stubs" /\ (~ force => plan[i].how # "force")
               /\ plan[i].file = "pmstate.yaml" => i = 7
               /\ plan[i].how = "new" => ~ force /\ plan[i].file \in GeneratedFiles \union {"pmstate.yaml"}
               /\ \A j \in 1 .. Len(plan) : plan[i].file = plan[j].file => i = j
    <3>1. plan[i].how \in {how, rest} /\ (plan[i].how = how \/ i = 8)
      BY <1>5, <2>1, <2>2
    <3>2. plan[i].how # "stubs" /\ (~ force => plan[i].how # "force")
      BY <1>1, <3>1
    <3>3. plan[i].file = "pmstate.yaml" => i = 7
      BY <1>5, <2>1, <2>2
    <3>4. i # 8 => plan[i].file \in GeneratedFiles \union {"pmstate.yaml"}
      BY <1>5, <2>1, <2>2, FilesAre
    <3>5. plan[i].how = "new" => ~ force /\ i # 8
      BY <1>1, <2>2, <3>1
    <3>6. ASSUME NEW j \in 1 .. Len(plan), plan[i].file = plan[j].file PROVE i = j
      BY <1>5, <2>1, <2>2, <3>6
    <3> QED
      BY <3>2, <3>3, <3>4, <3>5, <3>6
  <2>4. /\ \E i \in 1 .. Len(plan) : plan[i].file = ".gitignore" /\ plan[i].how \in {"force", "missing"}
        /\ \E i \in 1 .. Len(plan) : plan[i].file = "pmstate.yaml" /\ plan[i].how \in {"new", "force"}
    BY <1>1, <2>2
  <2>5. GeneratedFiles \union (IF inPlace THEN {} ELSE {"pmstate.yaml"})
          = GeneratedFiles \union {"pmstate.yaml"}
    BY <1>8
  <2> QED
    BY <1>2, <1>6, <1>8, <2>3, <2>4, <2>5
<1> QED
  BY <1>7, <1>8

\* The upgrade plan refuses nothing, has every file but pmstate.yaml, and
\* without --force leaves the code files to be made or appended to.
LEMMA UpgradePlanGood ==
  ASSUME NEW force \in BOOLEAN, NEW plan, plan = UpgradePlan(force)
  PROVE  /\ plan \in Seq(Tasks)
         /\ \A i \in 1 .. Len(plan) :
              /\ plan[i].how # "new" /\ plan[i].file # "pmstate.yaml"
              /\ plan[i].how = "stubs" => plan[i].file \in CodeFiles
              /\ ~ force /\ plan[i].file \in CodeFiles => plan[i].how # "force"
         /\ \A f \in Files \ {"pmstate.example.yaml", "pmstate.yaml"} :
              \E i \in 1 .. Len(plan) : plan[i].file = f /\ plan[i].how \in {"force", "missing"}
         /\ \A f \in CodeFiles :
              \E i \in 1 .. Len(plan) : plan[i].file = f /\ plan[i].how \in {"force", "stubs"}
         /\ \E i \in 1 .. Len(plan) : plan[i].file = "tree.py" /\ plan[i].how = "force"
<1>1. plan \in Seq(Tasks) /\ Len(plan) = IF force THEN 7 ELSE 9
  BY UpgradePlanIs
<1>2. CASE force
  <2>0. /\ plan[1] = Task("tree.py", "force") /\ plan[2] = Task("add.py", "force")
        /\ plan[3] = Task("views.py", "force") /\ plan[4] = Task("reducers.py", "force")
        /\ plan[5] = Task("AGENTS.md", "missing") /\ plan[6] = Task("chat.py", "missing")
        /\ plan[7] = Task(".gitignore", "missing")
    BY <1>2, UpgradePlanIs
  <2>1. /\ plan[1].file = "tree.py" /\ plan[2].file = "add.py" /\ plan[3].file = "views.py"
        /\ plan[4].file = "reducers.py" /\ plan[5].file = "AGENTS.md" /\ plan[6].file = "chat.py"
        /\ plan[7].file = ".gitignore"
    BY <2>0 DEF Task
  <2>2. /\ plan[1].how = "force" /\ plan[2].how = "force" /\ plan[3].how = "force"
        /\ plan[4].how = "force" /\ plan[5].how = "missing" /\ plan[6].how = "missing"
        /\ plan[7].how = "missing"
    BY <2>0 DEF Task
  <2>3. /\ 1 \in 1 .. Len(plan) /\ 2 \in 1 .. Len(plan) /\ 3 \in 1 .. Len(plan)
        /\ 4 \in 1 .. Len(plan) /\ 5 \in 1 .. Len(plan) /\ 6 \in 1 .. Len(plan) /\ 7 \in 1 .. Len(plan)
        /\ \A i \in 1 .. Len(plan) : i = 1 \/ i = 2 \/ i = 3 \/ i = 4 \/ i = 5 \/ i = 6 \/ i = 7
    BY <1>1, <1>2
  <2>4. \A i \in 1 .. Len(plan) :
          /\ plan[i].how # "new" /\ plan[i].file # "pmstate.yaml" /\ plan[i].how # "stubs"
    BY <2>1, <2>2, <2>3
  <2>5. \A f \in Files \ {"pmstate.example.yaml", "pmstate.yaml"} :
          \E i \in 1 .. Len(plan) : plan[i].file = f /\ plan[i].how \in {"force", "missing"}
    BY <2>1, <2>2, <2>3, FilesAre
  <2>6. \A f \in CodeFiles :
          \E i \in 1 .. Len(plan) : plan[i].file = f /\ plan[i].how \in {"force", "stubs"}
    BY <2>1, <2>2, <2>3 DEF CodeFiles
  <2>7. 1 \in 1 .. Len(plan) /\ plan[1].file = "tree.py" /\ plan[1].how = "force"
    BY <2>1, <2>2, <2>3
  <2> QED
    BY <1>1, <1>2, <2>4, <2>5, <2>6, <2>7
<1>3. CASE ~ force
  <2>1. /\ plan[1].file = "tree.py" /\ plan[2].file = "add.py" /\ plan[3].file = "views.py"
        /\ plan[4].file = "reducers.py" /\ plan[5].file = "views.py" /\ plan[6].file = "reducers.py"
        /\ plan[7].file = "AGENTS.md" /\ plan[8].file = "chat.py" /\ plan[9].file = ".gitignore"
    BY <1>3, UpgradePlanIs DEF Task
  <2>2. /\ plan[1].how = "force" /\ plan[2].how = "force" /\ plan[3].how = "missing"
        /\ plan[4].how = "missing" /\ plan[5].how = "stubs" /\ plan[6].how = "stubs"
        /\ plan[7].how = "missing" /\ plan[8].how = "missing" /\ plan[9].how = "missing"
    BY <1>3, UpgradePlanIs DEF Task
  <2>3. /\ 1 \in 1 .. Len(plan) /\ 2 \in 1 .. Len(plan) /\ 3 \in 1 .. Len(plan)
        /\ 4 \in 1 .. Len(plan) /\ 5 \in 1 .. Len(plan) /\ 6 \in 1 .. Len(plan)
        /\ 7 \in 1 .. Len(plan) /\ 8 \in 1 .. Len(plan) /\ 9 \in 1 .. Len(plan)
        /\ \A i \in 1 .. Len(plan) : \/ i = 1 \/ i = 2 \/ i = 3 \/ i = 4 \/ i = 5 \/ i = 6
                                     \/ i = 7 \/ i = 8 \/ i = 9
    BY <1>1, <1>3
  <2>4. \A i \in 1 .. Len(plan) :
          /\ plan[i].how # "new" /\ plan[i].file # "pmstate.yaml"
          /\ plan[i].how = "stubs" => plan[i].file \in CodeFiles
          /\ plan[i].file \in CodeFiles => plan[i].how # "force"
    BY <2>1, <2>2, <2>3 DEF CodeFiles
  <2>5. \A f \in Files \ {"pmstate.example.yaml", "pmstate.yaml"} :
          \E i \in 1 .. Len(plan) : plan[i].file = f /\ plan[i].how \in {"force", "missing"}
    BY <2>1, <2>2, <2>3, FilesAre
  <2>6. \A f \in CodeFiles :
          \E i \in 1 .. Len(plan) : plan[i].file = f /\ plan[i].how \in {"force", "stubs"}
    BY <2>1, <2>2, <2>3 DEF CodeFiles
  <2> QED
    BY <1>1, <2>1, <2>2, <2>3, <2>4, <2>5, <2>6
<1> QED
  BY <1>2, <1>3


-----------------------------------------------------------------------------
(* How a command begins. *)

\* Process p is now at r, in a new command.
Begins(p, r) ==
  /\ run[p].pc = "idle" /\ r \in RunRecord
  /\ run' \in [Procs -> RunRecord] /\ run'[p] = r
  /\ \A q \in Procs : q # p => run'[q] = run[q]
  /\ before' \in [Procs -> Disks] /\ before'[p] = disk
  /\ \A q \in Procs : q # p => before'[q] = before[q]
  /\ commands' \in 0 .. MaxCommands
  /\ UNCHANGED <<disk, tmp, edits>>

\* A step that begins a command with record r.
LEMMA BeginsAt ==
  ASSUME ScaffoldTyped, NEW p \in Procs, Begin(p), NEW r \in RunRecord,
         run' = [run EXCEPT ![p] = r]
  PROVE  Begins(p, r)
<1>1. /\ run \in [Procs -> RunRecord] /\ before \in [Procs -> Disks] /\ disk \in Disks
      /\ commands \in 0 .. MaxCommands
  BY DEF ScaffoldTyped
<1>2. commands' \in 0 .. MaxCommands
  BY <1>1, UserAssumption DEF Begin
<1> QED
  BY <1>1, <1>2 DEF Begin, Begins

IsRefused(r) == r.pc = "done" /\ r.plan = << >> /\ r.fd = "closed" /\ r.exit = "refused"

IsStarted(r, verb, s, force, plan) ==
  /\ r.pc = "task" /\ r.verb = verb /\ r.spec = s /\ r.force = force /\ r.plan = plan
  /\ r.fd = "closed" /\ r.exit = "running"

\* Refused makes such a record.
LEMMA RefusedGood ==
  ASSUME NEW verb \in {"example", "init", "upgrade"}, NEW force \in BOOLEAN
  PROVE  /\ Refused(verb, force) \in RunRecord /\ IsRefused(Refused(verb, force))
         /\ Refused(verb, force).verb = verb
BY RefusedIs DEF IsRefused

\* Started makes such a record.
LEMMA StartedGood ==
  ASSUME NEW verb \in {"example", "init", "upgrade"}, NEW s \in Specs \union {None},
         NEW force \in BOOLEAN, NEW plan \in Seq(Tasks)
  PROVE  /\ Started(verb, s, force, plan) \in RunRecord
         /\ IsStarted(Started(verb, s, force, plan), verb, s, force, plan)
BY StartedIs DEF IsStarted

\* init without flags begins with one task.
LEMMA ExampleDoes ==
  ASSUME ScaffoldTyped, NEW p \in Procs, Example(p)
  PROVE  \E r : Begins(p, r) /\ IsStarted(r, "example", None, FALSE, <<Task("pmstate.example.yaml", "new")>>)
<1> DEFINE plan == <<Task("pmstate.example.yaml", "new")>>
           r == Started("example", None, FALSE, plan)
<1>1. Task("pmstate.example.yaml", "new") \in Tasks
  BY TaskIs, FilesAre
<1>2. plan \in Seq(Tasks)
  BY <1>1
<1>3. Begin(p) /\ run' = [run EXCEPT ![p] = r]
  BY DEF Example
<1> HIDE DEF plan
<1>4. r \in RunRecord /\ IsStarted(r, "example", None, FALSE, plan)
  BY <1>2, StartedGood
<1> HIDE DEF r
<1>5. Begins(p, r)
  BY <1>3, <1>4, BeginsAt
<1> QED
  BY <1>4, <1>5 DEF plan

\* init --from-spec refuses, or saw no destination, or was given --force.
LEMMA FromSpecDoes ==
  ASSUME ScaffoldTyped, NEW p \in Procs, NEW s \in Specs, NEW force \in BOOLEAN,
         NEW inPlace \in BOOLEAN, FromSpec(p, s, force, inPlace)
  PROVE  \E r : /\ Begins(p, r)
                /\ \/ IsRefused(r) /\ r.verb = "init"
                   \/ /\ IsStarted(r, "init", s, force, InitPlan(force, inPlace))
                      /\ inPlace => disk["pmstate.yaml"] # Absent
                      /\ ~ force => \A f \in GeneratedFiles \union
                                               (IF inPlace THEN {} ELSE {"pmstate.yaml"}) :
                                      disk[f] = Absent
<1> DEFINE plan == InitPlan(force, inPlace)
           dests == GeneratedFiles \union (IF inPlace THEN {} ELSE {"pmstate.yaml"})
<1>1. plan \in Seq(Tasks) /\ Begin(p)
  BY InitPlanGood DEF FromSpec
<1>2. inPlace => disk["pmstate.yaml"] # Absent
  BY FilesAre DEF FromSpec, Absent
<1>3. \/ run' = [run EXCEPT ![p] = Refused("init", force)]
      \/ /\ run' = [run EXCEPT ![p] = Started("init", s, force, plan)]
         /\ ~ force => \A f \in dests : disk[f] = Absent
  BY DEF FromSpec, Exists
<1> HIDE DEF plan, dests
<1>4. CASE run' = [run EXCEPT ![p] = Refused("init", force)]
  <2>1. Refused("init", force) \in RunRecord /\ IsRefused(Refused("init", force)) /\ Refused("init", force).verb = "init"
    BY RefusedGood
  <2>2. Begins(p, Refused("init", force))
    BY <1>1, <1>4, <2>1, BeginsAt
  <2> QED
    BY <2>1, <2>2
<1>5. CASE /\ run' = [run EXCEPT ![p] = Started("init", s, force, plan)]
           /\ ~ force => \A f \in dests : disk[f] = Absent
  <2>1. /\ Started("init", s, force, plan) \in RunRecord
        /\ IsStarted(Started("init", s, force, plan), "init", s, force, plan)
    BY <1>1, StartedGood
  <2>2. Begins(p, Started("init", s, force, plan))
    BY <1>1, <1>5, <2>1, BeginsAt
  <2> QED
    BY <1>2, <1>5, <2>1, <2>2 DEF plan, dests
<1> QED
  BY <1>3, <1>4, <1>5

\* init --upgrade refuses, or has a pmstate.yaml and starts.
LEMMA UpgradeDoes ==
  ASSUME ScaffoldTyped, NEW p \in Procs, NEW force \in BOOLEAN, Upgrade(p, force)
  PROVE  \E r : /\ Begins(p, r)
                /\ \/ IsRefused(r) /\ r.verb = "upgrade"
                   \/ /\ disk["pmstate.yaml"] # Absent
                      /\ \E s \in Specs : IsStarted(r, "upgrade", s, force, UpgradePlan(force))
<1> DEFINE plan == UpgradePlan(force)
           s == disk["pmstate.yaml"].spec
<1>1. plan \in Seq(Tasks) /\ Begin(p)
  BY UpgradePlanGood DEF Upgrade
<1>2. \/ run' = [run EXCEPT ![p] = Refused("upgrade", force)]
      \/ /\ run' = [run EXCEPT ![p] = Started("upgrade", s, force, plan)]
         /\ disk["pmstate.yaml"].kind = "made" /\ s \in Renderable
  BY DEF Upgrade
<1> HIDE DEF plan, s
<1>3. CASE run' = [run EXCEPT ![p] = Refused("upgrade", force)]
  <2>1. /\ Refused("upgrade", force) \in RunRecord /\ IsRefused(Refused("upgrade", force))
        /\ Refused("upgrade", force).verb = "upgrade"
    BY RefusedGood
  <2>2. Begins(p, Refused("upgrade", force))
    BY <1>1, <1>3, <2>1, BeginsAt
  <2> QED
    BY <2>1, <2>2
<1>4. CASE /\ run' = [run EXCEPT ![p] = Started("upgrade", s, force, plan)]
           /\ disk["pmstate.yaml"].kind = "made" /\ s \in Renderable
  <2>1. s \in Specs /\ disk["pmstate.yaml"] # Absent
    BY <1>4, SpecsAssumption DEF Absent
  <2>2. /\ Started("upgrade", s, force, plan) \in RunRecord
        /\ IsStarted(Started("upgrade", s, force, plan), "upgrade", s, force, plan)
    BY <1>1, <2>1, StartedGood
  <2>3. Begins(p, Started("upgrade", s, force, plan))
    BY <1>1, <1>4, <2>2, BeginsAt
  <2> QED
    BY <2>1, <2>2, <2>3 DEF plan
<1> QED
  BY <1>2, <1>3, <1>4

-----------------------------------------------------------------------------
(* Types are kept. *)

\* One file of the disk is changed.
LEMMA PutIs ==
  ASSUME NEW d \in Disks, NEW f \in Files, NEW c \in Contents(f)
  PROVE  /\ [d EXCEPT ![f] = c] \in Disks
         /\ \A g \in Files : [d EXCEPT ![f] = c][g] = IF g = f THEN c ELSE d[g]
<1>1. c \in Content
  BY ContentsAre
<1> QED
  BY <1>1 DEF Disks

\* The user edits one file while no command runs, and marks a spec as edited.
LEMMA UserDoes ==
  ASSUME ScaffoldTyped, User
  PROVE  /\ \A p \in Procs : run[p].pc = "idle"
         /\ edits' \in 0 .. MaxEdits /\ UNCHANGED <<tmp, run, before, commands>>
         /\ \E f \in Files : \E c \in Contents(f) :
              /\ disk' = [disk EXCEPT ![f] = c] /\ c # Absent /\ c # Torn
              /\ f = "pmstate.yaml" => c.edited
<1>1. ASSUME NEW f \in Files, NEW c \in Contents(f), Edit(f, c), c.kind \notin {"absent", "torn"},
             f = "pmstate.yaml" => c.edited
      PROVE  /\ \A p \in Procs : run[p].pc = "idle"
             /\ edits' \in 0 .. MaxEdits /\ UNCHANGED <<tmp, run, before, commands>>
             /\ \E g \in Files : \E d \in Contents(g) :
                  /\ disk' = [disk EXCEPT ![g] = d] /\ d # Absent /\ d # Torn
                  /\ g = "pmstate.yaml" => d.edited
  <2>1. edits \in 0 .. MaxEdits /\ MaxEdits \in Nat
    BY UserAssumption DEF ScaffoldTyped
  <2>2. edits' \in 0 .. MaxEdits
    BY <1>1, <2>1 DEF Edit
  <2>3. c # Absent /\ c # Torn
    BY <1>1 DEF Absent, Torn
  <2> QED
    BY <1>1, <2>2, <2>3 DEF Edit
<1>2. CASE \E s \in Specs : WriteSpec(s)
  <2>1. PICK s \in Specs : Edit("pmstate.yaml", Made(s, TRUE))
    BY <1>2 DEF WriteSpec
  <2>2. "pmstate.yaml" \in Files \ CodeFiles
    BY FilesAre DEF CodeFiles
  <2>3. Made(s, TRUE) \in Contents("pmstate.yaml") /\ Made(s, TRUE).kind = "made" /\ Made(s, TRUE).edited
    BY <2>2, MadeIsContent
  <2> QED
    BY <1>1, <2>1, <2>2, <2>3
<1>3. ASSUME NEW f \in CodeFiles, disk[f].kind = "code"
      PROVE  /\ f \in Files /\ f # "pmstate.yaml" /\ disk[f].defs \in Seq(DefRecord)
             /\ disk[f].parses \in BOOLEAN
             /\ \A defs \in Seq(DefRecord), parses \in BOOLEAN :
                  Code(defs, parses) \in Contents(f) /\ Code(defs, parses).kind = "code"
  <2>1. f \in Files /\ f # "pmstate.yaml"
    BY FilesAre DEF CodeFiles
  <2>2. disk[f] \in CodeContent
    BY <1>3, <2>1, ContentsAre DEF ScaffoldTyped, Disks
  <2> QED
    BY <2>1, <2>2, CodeIsContent DEF CodeContent
<1>4. CASE \E f \in CodeFiles, form \in Forms : \E i \in 1 .. Len(Defs(disk[f])) : DefineName(f, i, form)
  <2>0. PICK f \in CodeFiles, form \in Forms : \E i \in 1 .. Len(Defs(disk[f])) : DefineName(f, i, form)
    BY <1>4
  <2>1. PICK i \in 1 .. Len(Defs(disk[f])) : DefineName(f, i, form)
    BY <2>0
  <2> DEFINE defs == disk[f].defs
             now == [defs EXCEPT ![i] = Def(defs[i].name, TRUE, form)]
  <2>2. disk[f].kind = "code" /\ i \in 1 .. Len(defs) /\ Edit(f, Code(now, disk[f].parses))
    BY <2>1 DEF DefineName
  <2>3. defs \in Seq(DefRecord)
    BY <1>3, <2>2
  <2>4. form \in {"def", "other"}
    BY UserAssumption
  <2> HIDE DEF defs
  <2>5. Def(defs[i].name, TRUE, form) \in DefRecord
    <3>1. defs[i] \in DefRecord
      BY <2>2, <2>3
    <3>2. defs[i].name \in Names
      BY <3>1 DEF DefRecord
    <3> QED
      BY <2>4, <3>2 DEF Def, DefRecord
  <2>6. now \in Seq(DefRecord)
    BY <2>2, <2>3, <2>5, ExceptSeq
  <2> HIDE DEF now
  <2>7. Code(now, disk[f].parses) \in Contents(f) /\ Code(now, disk[f].parses).kind = "code"
    BY <1>3, <2>2, <2>6
  <2> QED
    BY <1>1, <1>3, <2>2, <2>7
<1>5. CASE \E f \in CodeFiles : ToggleSyntax(f)
  <2>1. PICK f \in CodeFiles : ToggleSyntax(f)
    BY <1>5
  <2>2. disk[f].kind = "code" /\ Edit(f, Code(disk[f].defs, ~ disk[f].parses))
    BY <2>1 DEF ToggleSyntax
  <2> DEFINE parses == ~ disk[f].parses
  <2>3. parses \in BOOLEAN
    OBVIOUS
  <2> HIDE DEF parses
  <2>4. Code(disk[f].defs, parses) \in Contents(f) /\ Code(disk[f].defs, parses).kind = "code"
    BY <1>3, <2>2, <2>3
  <2>5. Edit(f, Code(disk[f].defs, parses))
    BY <2>2 DEF parses
  <2> QED
    BY <1>1, <1>3, <2>2, <2>4, <2>5
<1> QED
  BY <1>2, <1>4, <1>5 DEF User

\* The record of p stays good while its plan does.
LEMMA SamePlanGood ==
  ASSUME NEW rd \in RunRecord, RunGood(rd), NEW new \in RunRecord, rd.plan # << >>,
         new.plan = rd.plan, new.spec = rd.spec, new.pc \in Writing \union Stubbing,
         new.pc = "write" <=> new.fd # "closed",
         new.pc \in Stubbing <=> rd.plan[1].how = "stubs",
         new.pc \in {"truncate", "append"} => new.text \in Contents(rd.plan[1].file)
  PROVE  RunGood(new)
<1>1. new.pc \in Writing <=> ~ (new.pc \in Stubbing)
  BY DEF Writing, Stubbing
<1>2. Busy(new)
  BY DEF Busy
<1> QED
  BY <1>1, <1>2 DEF RunGood

\* It stays good behind its first task.
LEMMA NextPlanGood ==
  ASSUME NEW rd \in RunRecord, RunGood(rd), NEW new \in RunRecord, rd.plan # << >>,
         new.plan = Tail(rd.plan), new.spec = rd.spec, new.pc = "task", new.fd = "closed"
  PROVE  RunGood(new)
<1>1. rd.plan \in Seq(Tasks)
  BY DEF RunRecord
<1>2. \A i \in 1 .. Len(new.plan) : new.plan[i] = rd.plan[i + 1] /\ i + 1 \in 1 .. Len(rd.plan)
  BY <1>1, TailIs
<1>3. Busy(new) /\ new.pc \notin Writing \union Stubbing
  BY DEF Busy, Writing, Stubbing
<1> QED
  BY <1>2, <1>3 DEF RunGood, Writing, Stubbing

\* It is good once it is over.
LEMMA DoneGood ==
  ASSUME NEW new, new.plan = << >>, new.pc \in {"idle", "done"}, new.fd = "closed"
  PROVE  RunGood(new)
<1>1. ~ Busy(new) /\ new.pc \notin Writing \union Stubbing
  BY DEF Busy, Writing, Stubbing
<1>2. \A i \in 1 .. Len(new.plan) : FALSE
  OBVIOUS
<1> QED
  BY <1>1, <1>2 DEF RunGood, Writing, Stubbing

\* A step that leaves p a good record keeps the types.
LEMMA TypedStep ==
  ASSUME ScaffoldTyped, NEW p \in Procs, NEW pc, NEW plan, NEW exit, GoesOnAmong(p, pc, plan, exit),
         RunGood(run'[p]), disk' \in Disks, tmp' \in Disks, UNCHANGED <<before, commands, edits>>
  PROVE  ScaffoldTyped'
<1>1. ASSUME NEW q \in Procs, q # p PROVE RunGood(run'[q])
  <2>1. /\ run'[q].pc = run[q].pc /\ run'[q].plan = run[q].plan /\ run'[q].spec = run[q].spec
        /\ run'[q].text = run[q].text
        /\ run'[q].fd = run[q].fd \/ (run'[q].pc = "write" /\ run'[q].fd # "closed")
    BY <1>1 DEF GoesOnAmong
  <2>2. RunGood(run[q])
    BY DEF ScaffoldTyped
  <2>3. run'[q].pc = "write" <=> run'[q].fd # "closed"
    BY <2>1, <2>2 DEF RunGood
  <2> QED
    BY <2>1, <2>2, <2>3 DEF RunGood, Busy
<1>2. \A q \in Procs : RunGood(run'[q])
  BY <1>1
<1> QED
  BY <1>2 DEF ScaffoldTyped, GoesOnAmong


\* Every step of a command keeps the types.
LEMMA WorkTyped ==
  ASSUME ScaffoldTyped, NEW p \in Procs, Work(p)
  PROVE  ScaffoldTyped'
<1> DEFINE rd == run[p]
           new == run'[p]
           f == File(p)
<1>1. /\ rd \in RunRecord /\ RunGood(rd) /\ disk \in Disks /\ tmp \in Disks
      /\ rd.plan \in Seq(Tasks) /\ rd.spec \in Specs \union {None}
  BY RunFacts DEF Facts
<1>2. rd.plan # << >> => /\ f \in Files /\ This(p) = rd.plan[1] /\ f = rd.plan[1].file
                         /\ f \in CodeFiles => rd.spec \in Specs
                         /\ rd.plan[1].how = "stubs" => f \in CodeFiles
                         /\ disk[f] \in Contents(f) /\ tmp[f] \in Contents(f)
  BY AtTask, <1>1 DEF Disks
<1>3. \A pc, plan, exit : GoesOn(p, pc, plan, exit) => GoesOnAmong(p, pc, plan, exit)
  BY GoesOnAlone
<1>4. \A pc, plan, exit : GoesOnAmong(p, pc, plan, exit) =>
        /\ new \in RunRecord /\ new.pc = pc /\ new.plan = plan /\ new.spec = rd.spec
  BY DEF GoesOnAmong
<1> DEFINE Kept == UNCHANGED <<before, commands, edits>>
<1>5. ASSUME NEW pc \in Writing \union Stubbing, NEW exit, GoesOnAmong(p, pc, rd.plan, exit),
             rd.plan # << >>, pc = "write" <=> new.fd # "closed",
             pc \in Stubbing <=> rd.plan[1].how = "stubs",
             pc \in {"truncate", "append"} => new.text \in Contents(f),
             disk' \in Disks, tmp' \in Disks, Kept
      PROVE  ScaffoldTyped'
  <2>1. /\ new \in RunRecord /\ new.pc = pc /\ new.plan = rd.plan /\ new.spec = rd.spec
    BY <1>4, <1>5
  <2> HIDE DEF new, rd, f
  <2>2. RunGood(new)
    BY <1>1, <1>2, <1>5, <2>1, SamePlanGood
  <2> QED
    BY <1>5, <2>2, TypedStep DEF new, rd
<1>6. ASSUME NEW exit, GoesOnAmong(p, "task", Tail(rd.plan), exit), rd.plan # << >>,
             new.fd = "closed", disk' \in Disks, tmp' \in Disks, Kept
      PROVE  ScaffoldTyped'
  <2>1. /\ new \in RunRecord /\ new.pc = "task" /\ new.plan = Tail(rd.plan) /\ new.spec = rd.spec
    BY <1>4, <1>6
  <2> HIDE DEF new, rd, f
  <2>2. RunGood(new)
    BY <1>1, <1>6, <2>1, NextPlanGood
  <2> QED
    BY <1>6, <2>2, TypedStep DEF new, rd
<1>7. ASSUME NEW exit, GoesOnAmong(p, "done", << >>, exit), new.fd = "closed",
             disk' \in Disks, tmp' \in Disks, Kept
      PROVE  ScaffoldTyped'
  <2>1. /\ new \in RunRecord /\ new.pc = "done" /\ new.plan = << >>
    BY <1>4, <1>7
  <2> HIDE DEF new, rd, f
  <2>2. RunGood(new)
    BY <1>7, <2>1, DoneGood
  <2> QED
    BY <1>7, <2>2, TypedStep DEF new, rd
<1>8. CASE Collide(p) \/ ReplaceFails(p) \/ Succeed(p)
  <2>1. PICK code : GoesOn(p, "done", << >>, code) /\ new.fd = "closed" /\ UNCHANGED <<disk, tmp>> /\ Kept
    BY <1>8, EndsDo
  <2> QED
    BY <1>1, <1>3, <1>7, <2>1
<1>9. CASE Skip(p)
  <2>1. /\ rd.plan # << >> /\ GoesOn(p, "task", Tail(rd.plan), rd.exit) /\ new.fd = "closed"
        /\ UNCHANGED <<disk, tmp>> /\ Kept
    BY <1>9, SkipDoes
  <2> QED
    BY <1>1, <1>3, <1>6, <2>1
<1>10. CASE Proceed(p)
  <2>1. /\ rd.pc = "task" /\ rd.plan # << >> /\ This(p).how # "stubs"
        /\ GoesOn(p, "open", rd.plan, rd.exit) /\ new.fd = rd.fd /\ UNCHANGED <<disk, tmp>> /\ Kept
    BY <1>10, ProceedDoes
  <2>2. new.fd = "closed" /\ rd.plan[1].how # "stubs"
    BY <1>1, <1>2, <2>1 DEF RunGood
  <2> QED
    BY <1>1, <1>3, <1>5, <2>1, <2>2 DEF Writing, Stubbing
<1>11. CASE OpenTmp(p)
  <2>1. /\ rd.pc = "open" /\ rd.plan # << >> /\ GoesOn(p, "write", rd.plan, rd.exit) /\ new.fd = "tmp"
        /\ tmp' = [tmp EXCEPT ![f] = Torn] /\ UNCHANGED disk /\ Kept
    BY <1>11, OpenTmpDoes
  <2>2. tmp' \in Disks
    BY <1>1, <1>2, <2>1, PutIs, ContentsAre
  <2>3. rd.plan[1].how # "stubs"
    BY <1>1, <2>1 DEF RunGood, Writing
  <2> QED
    BY <1>1, <1>3, <1>5, <2>1, <2>2, <2>3 DEF Writing, Stubbing
<1>12. CASE WriteTmp(p)
  <2> DEFINE c == Render(f, rd.spec)
  <2>1. /\ rd.pc = "write" /\ rd.plan # << >>
        /\ GoesOn(p, "replace", rd.plan, rd.exit) /\ new.fd = "closed"
        /\ IF rd.fd = "tmp" THEN \E w \in Overwritten(tmp[f], c) : tmp' = [tmp EXCEPT ![f] = w]
           ELSE UNCHANGED tmp
        /\ IF rd.fd = "destination"
           THEN \E w \in Overwritten(disk[f], c) : disk' = [disk EXCEPT ![f] = w]
           ELSE UNCHANGED disk
        /\ Kept
    BY <1>12, WriteTmpDoes
  <2>2. c \in Contents(f) /\ Torn \in Contents(f)
    BY <1>1, <1>2, <2>1, RenderIs, ContentsAre
  <2> HIDE DEF c, new, rd, f
  <2>3. \A old : Overwritten(old, c) \subseteq Contents(f)
    BY <2>2 DEF Overwritten
  <2>4. disk' \in Disks /\ tmp' \in Disks
    BY <1>1, <1>2, <2>1, <2>3, PutIs
  <2>5. rd.plan[1].how # "stubs"
    BY <1>1, <2>1 DEF RunGood, Writing
  <2> QED
    BY <1>3, <1>5, <2>1, <2>4, <2>5 DEF Writing, Stubbing
<1>13. CASE Replace(p)
  <2>1. /\ rd.plan # << >> /\ GoesOnAmong(p, "task", Tail(rd.plan), rd.exit) /\ new.fd = "closed"
        /\ disk' = [disk EXCEPT ![f] = tmp[f]] /\ tmp' = [tmp EXCEPT ![f] = Absent] /\ Kept
    BY <1>13, ReplaceDoes
  <2>2. disk' \in Disks /\ tmp' \in Disks
    BY <1>1, <1>2, <2>1, PutIs, ContentsAre
  <2> QED
    BY <1>6, <2>1, <2>2
<1>14. CASE WriteFails(p)
  <2>1. /\ rd.pc \in {"write", "replace"} /\ GoesOnAmong(p, "done", << >>, "failed") /\ new.fd = "closed"
        /\ tmp' = [tmp EXCEPT ![f] = Absent] /\ UNCHANGED disk /\ Kept
    BY <1>14, WriteFailsDoes
  <2>2. rd.plan # << >>
    BY <1>1, <2>1 DEF RunGood, Writing
  <2>3. tmp' \in Disks
    BY <1>1, <1>2, <2>1, <2>2, PutIs, ContentsAre
  <2> QED
    BY <1>1, <1>7, <2>1, <2>3
<1>15. CASE ReadNames(p)
  <2>1. /\ rd.pc = "task" /\ rd.plan # << >> /\ This(p).how = "stubs" /\ new.fd = "closed"
        /\ \/ GoesOn(p, "task", Tail(rd.plan), rd.exit)
           \/ GoesOn(p, "read", rd.plan, rd.exit)
        /\ UNCHANGED <<disk, tmp>> /\ Kept
    BY <1>15, ReadNamesDoes
  <2>2. rd.plan[1].how = "stubs"
    BY <1>2, <2>1
  <2> QED
    BY <1>1, <1>3, <1>5, <1>6, <2>1, <2>2 DEF Writing, Stubbing
<1>16. CASE ReadText(p)
  <2>1. /\ rd.pc = "read" /\ rd.plan # << >> /\ GoesOn(p, "truncate", rd.plan, rd.exit) /\ new.fd = rd.fd
        /\ new.text = disk[f] /\ UNCHANGED <<disk, tmp>> /\ Kept
    BY <1>16, ReadTextDoes
  <2>2. rd.plan[1].how = "stubs" /\ rd.fd = "closed"
    BY <1>1, <2>1 DEF RunGood, Stubbing
  <2> QED
    BY <1>1, <1>2, <1>3, <1>5, <2>1, <2>2 DEF Writing, Stubbing
<1>17. CASE TruncateCode(p)
  <2>1. /\ rd.pc = "truncate" /\ rd.plan # << >> /\ GoesOn(p, "append", rd.plan, rd.exit)
        /\ new.fd = rd.fd /\ new.text = rd.text
        /\ disk' = [disk EXCEPT ![f] = Torn] /\ UNCHANGED tmp /\ Kept
    BY <1>17, TruncateDoes
  <2>2. rd.plan[1].how = "stubs" /\ rd.fd = "closed" /\ rd.text \in Contents(rd.plan[1].file)
    BY <1>1, <2>1 DEF RunGood, Stubbing
  <2>3. disk' \in Disks
    BY <1>1, <1>2, <2>1, PutIs, ContentsAre
  <2>4. new.text \in Contents(f) /\ new.fd = "closed" /\ GoesOnAmong(p, "append", rd.plan, rd.exit)
    BY <1>2, <1>3, <2>1, <2>2
  <2> HIDE DEF new, rd, f
  <2> QED
    BY <1>1, <1>5, <2>1, <2>2, <2>3, <2>4 DEF Writing, Stubbing
<1>18. CASE AppendStubs(p)
  <2> DEFINE c == Code(Defs(rd.text) \o StubsFor(rd.names), Parses(rd.text))
  <2>1. /\ rd.pc = "append" /\ rd.plan # << >> /\ GoesOn(p, "task", Tail(rd.plan), rd.exit)
        /\ new.fd = "closed" /\ disk' = [disk EXCEPT ![f] = c] /\ UNCHANGED tmp /\ Kept
    BY <1>18, AppendDoes
  <2>2. rd.text \in Contents(f) /\ f \in CodeFiles
    BY <1>1, <1>2, <2>1 DEF RunGood, Stubbing
  <2>3. rd.names \in Seq(Names)
    BY <1>1 DEF RunRecord
  <2>4. /\ Defs(rd.text) \in Seq(DefRecord) /\ Parses(rd.text) \in BOOLEAN
        /\ StubsFor(rd.names) \in Seq(DefRecord)
    BY <1>2, <2>1, <2>2, <2>3, DefsAre, StubsAre
  <2>5. Defs(rd.text) \o StubsFor(rd.names) \in Seq(DefRecord)
    BY <2>4
  <2>6. c \in Contents(f)
    BY <2>2, <2>4, <2>5, CodeIsContent
  <2> HIDE DEF c
  <2>7. disk' \in Disks
    BY <1>1, <1>2, <2>1, <2>6, PutIs
  <2> QED
    BY <1>1, <1>3, <1>6, <2>1, <2>7
<1>19. CASE Return(p) \/ Kill(p)
  <2>1. Gone(p)
    BY <1>19 DEF Return, Kill
  <2>2. /\ run' \in [Procs -> RunRecord] /\ run'[p] = Idle /\ before' \in [Procs -> Disks]
        /\ \A q \in Procs : q # p => run'[q] = run[q]
        /\ UNCHANGED <<disk, tmp, commands, edits>>
    BY <2>1, GoneDoes
  <2>3. RunGood(Idle)
    BY IdleIs, DoneGood
  <2>4. \A q \in Procs : RunGood(run'[q])
    BY <2>2, <2>3 DEF ScaffoldTyped
  <2> QED
    BY <2>2, <2>4 DEF ScaffoldTyped
<1> QED
  BY <1>8, <1>9, <1>10, <1>11, <1>12, <1>13, <1>14, <1>15, <1>16, <1>17, <1>18, <1>19 DEF Work

\* A command that begins with a good record keeps the types.
LEMMA BeginsTyped ==
  ASSUME ScaffoldTyped, NEW p \in Procs, NEW r, Begins(p, r), RunGood(r)
  PROVE  ScaffoldTyped'
<1>1. \A q \in Procs : RunGood(run'[q])
  BY DEF Begins, ScaffoldTyped
<1> QED
  BY <1>1 DEF Begins, ScaffoldTyped

\* A record that starts is good if its plan is.
LEMMA StartedRunGood ==
  ASSUME NEW r, NEW verb, NEW s, NEW force, NEW plan, IsStarted(r, verb, s, force, plan),
         \A i \in 1 .. Len(plan) : /\ plan[i].how = "stubs" => plan[i].file \in CodeFiles
                                   /\ plan[i].file \in CodeFiles => s \in Specs
  PROVE  RunGood(r)
BY DEF IsStarted, RunGood, Busy, Writing, Stubbing

\* Every step keeps the types.
LEMMA NextTyped ==
  ASSUME ScaffoldTyped, [Next]_vars
  PROVE  ScaffoldTyped'
<1>1. ASSUME NEW p \in Procs, Example(p) PROVE ScaffoldTyped'
  <2> DEFINE plan == <<Task("pmstate.example.yaml", "new")>>
  <2>1. PICK r : Begins(p, r) /\ IsStarted(r, "example", None, FALSE, plan)
    BY <1>1, ExampleDoes
  <2>2. \A i \in 1 .. Len(plan) : plan[i].how = "new" /\ plan[i].file \notin CodeFiles
    BY DEF Task, CodeFiles
  <2> HIDE DEF plan
  <2> QED
    BY <2>1, <2>2, StartedRunGood, BeginsTyped
<1>2. ASSUME NEW p \in Procs, NEW s \in Specs, NEW force \in BOOLEAN, NEW inPlace \in BOOLEAN,
             FromSpec(p, s, force, inPlace)
      PROVE  ScaffoldTyped'
  <2> DEFINE plan == InitPlan(force, inPlace)
  <2>1. PICK r : Begins(p, r) /\ (IsRefused(r) \/ IsStarted(r, "init", s, force, plan))
    BY <1>2, FromSpecDoes
  <2>2. \A i \in 1 .. Len(plan) : plan[i].how # "stubs"
    BY InitPlanGood
  <2> HIDE DEF plan
  <2>3. RunGood(r)
    BY <2>1, <2>2, StartedRunGood, DoneGood DEF IsRefused
  <2> QED
    BY <2>1, <2>3, BeginsTyped
<1>3. ASSUME NEW p \in Procs, NEW force \in BOOLEAN, Upgrade(p, force) PROVE ScaffoldTyped'
  <2> DEFINE plan == UpgradePlan(force)
  <2>1. PICK r : Begins(p, r) /\ (IsRefused(r) \/ \E s \in Specs : IsStarted(r, "upgrade", s, force, plan))
    BY <1>3, UpgradeDoes
  <2>2. \A i \in 1 .. Len(plan) : plan[i].how = "stubs" => plan[i].file \in CodeFiles
    BY UpgradePlanGood
  <2> HIDE DEF plan
  <2>3. RunGood(r)
    BY <2>1, <2>2, StartedRunGood, DoneGood DEF IsRefused
  <2> QED
    BY <2>1, <2>3, BeginsTyped
<1>4. CASE User
  <2>1. PICK f \in Files : \E c \in Contents(f) : disk' = [disk EXCEPT ![f] = c]
    BY <1>4, UserDoes
  <2>2. disk \in Disks
    BY DEF ScaffoldTyped
  <2>3. disk' \in Disks
    <3>1. PICK c \in Contents(f) : disk' = [disk EXCEPT ![f] = c]
      BY <2>1
    <3> QED
      BY <2>2, <3>1, PutIs
  <2>4. edits' \in 0 .. MaxEdits /\ UNCHANGED <<tmp, run, before, commands>>
    BY <1>4, UserDoes
  <2> QED
    BY <2>3, <2>4 DEF ScaffoldTyped
<1>5. CASE UNCHANGED vars
  BY <1>5 DEF ScaffoldTyped, vars
<1> QED
  BY <1>1, <1>2, <1>3, <1>4, <1>5, WorkTyped DEF Next

\* The types hold at first.
LEMMA InitTyped == Init => ScaffoldTyped
<1> SUFFICES ASSUME Init PROVE ScaffoldTyped
  OBVIOUS
<1>1. [f \in Files |-> Absent] \in Disks
  BY ContentsAre DEF Disks
<1>2. RunGood(Idle)
  BY IdleIs, DoneGood
<1> QED
  BY <1>1, <1>2, IdleIs, UserAssumption DEF Init, ScaffoldTyped

\* The variables keep their types, whatever runs, dies or fails: the invariant
\* that the others rest on.
THEOREM ScaffoldIsTyped == Spec => []ScaffoldTyped
BY InitTyped, NextTyped, PTL DEF Spec

\* Every variable keeps its type under faults, for any number of commands, and
\* a code file is never mistaken for another.
THEOREM ScaffoldTypes == Spec => []TypeOK
<1>1. ScaffoldTyped => TypeOK
  <2> SUFFICES ASSUME ScaffoldTyped PROVE TypeOK
    OBVIOUS
  <2>1. disk \in [Files -> Content] /\ tmp \in [Files -> Content]
    BY DEF ScaffoldTyped, Disks
  <2>2. ASSUME NEW f \in Files
        PROVE  /\ {disk[f].kind, tmp[f].kind} \subseteq Kinds
               /\ disk[f].kind = "code" => f \in CodeFiles
               /\ disk[f].kind = "made" => f \notin CodeFiles
    BY ContentsAre DEF ScaffoldTyped, Disks
  <2>3. ASSUME NEW p \in Procs
        PROVE  /\ run[p].pc \in Pcs /\ run[p].fd \in {"closed", "tmp", "destination", "unlinked"}
               /\ run[p].pc \notin {"idle", "task", "done"} => run[p].plan # << >>
               /\ run[p].pc = "write" <=> run[p].fd # "closed"
    <3>1. run[p] \in RunRecord /\ RunGood(run[p])
      BY DEF ScaffoldTyped
    <3>2. run[p].pc \in Pcs
      BY <3>1 DEF RunRecord, Pcs
    <3>3. run[p].pc \notin {"idle", "task", "done"} => run[p].pc \in Writing \union Stubbing
      BY <3>2 DEF Pcs, Writing, Stubbing
    <3> QED
      BY <3>1, <3>2, <3>3 DEF RunRecord, RunGood
  <2>4. commands \in 0 .. MaxCommands /\ edits \in 0 .. MaxEdits
    BY DEF ScaffoldTyped
  <2> QED
    BY <2>1, <2>2, <2>3, <2>4 DEF TypeOK, Pcs
<1> QED
  BY <1>1, ScaffoldIsTyped, PTL

-----------------------------------------------------------------------------
(* A project never lacks files, for any number of commands. *)

\* A command changes one file at a time, the one of its task, and removes none.
LEMMA WorkDisk ==
  ASSUME ScaffoldTyped, NEW p \in Procs, Work(p), disk' # disk
  PROVE  /\ run[p].plan # << >>
         /\ \E c \in Contents(File(p)) : disk' = [disk EXCEPT ![File(p)] = c] /\ c # Absent
<1> DEFINE rd == run[p]
           f == File(p)
<1>1. /\ rd \in RunRecord /\ RunGood(rd) /\ disk \in Disks /\ tmp \in Disks
      /\ rd.spec \in Specs \union {None}
  BY RunFacts DEF Facts
<1>2. rd.plan # << >> => /\ f \in Files /\ f = rd.plan[1].file
                         /\ f \in CodeFiles => rd.spec \in Specs
                         /\ disk[f] \in Contents(f) /\ tmp[f] \in Contents(f)
  BY AtTask, <1>1 DEF Disks
<1>3. Torn # Absent /\ \A g \in Files : Torn \in Contents(g)
  BY ContentsAre, FilesAre
<1>4. ~ (Collide(p) \/ ReplaceFails(p) \/ Succeed(p) \/ Skip(p) \/ Proceed(p) \/ OpenTmp(p)
         \/ WriteFails(p) \/ ReadNames(p) \/ ReadText(p) \/ Return(p) \/ Kill(p))
  BY DEF Collide, ReplaceFails, Succeed, Skip, Proceed, OpenTmp, WriteFails, ReadNames, ReadText,
         Return, Kill, Gone
<1>5. CASE WriteTmp(p)
  <2> DEFINE c == Render(f, rd.spec)
  <2>1. rd.plan # << >> /\ \E w \in Overwritten(disk[f], c) : disk' = [disk EXCEPT ![f] = w]
    BY <1>5, WriteTmpDoes
  <2>2. c \in Contents(f) /\ c # Absent
    BY <1>1, <1>2, <2>1, RenderIs
  <2> HIDE DEF c
  <2>3. \A w \in Overwritten(disk[f], c) : w \in Contents(f) /\ w # Absent
    BY <1>2, <1>3, <2>1, <2>2 DEF Overwritten
  <2> QED
    BY <2>1, <2>3
<1>6. CASE Replace(p)
  BY <1>2, <1>6, ReplaceDoes
<1>7. CASE TruncateCode(p)
  BY <1>2, <1>3, <1>7, TruncateDoes
<1>8. CASE AppendStubs(p)
  <2> DEFINE c == Code(Defs(rd.text) \o StubsFor(rd.names), Parses(rd.text))
  <2>1. rd.pc = "append" /\ rd.plan # << >> /\ disk' = [disk EXCEPT ![f] = c]
    BY <1>8, AppendDoes
  <2>2. rd.plan[1].how = "stubs" /\ rd.text \in Contents(f) /\ rd.names \in Seq(Names)
    BY <1>1, <1>2, <2>1 DEF RunGood, Stubbing, RunRecord
  <2>3. f \in CodeFiles
    BY <2>1, <2>2, AtTask
  <2>4. /\ Defs(rd.text) \in Seq(DefRecord) /\ Parses(rd.text) \in BOOLEAN
        /\ StubsFor(rd.names) \in Seq(DefRecord)
    BY <1>2, <2>1, <2>2, DefsAre, StubsAre
  <2>5. Defs(rd.text) \o StubsFor(rd.names) \in Seq(DefRecord)
    BY <2>4
  <2>6. c \in Contents(f) /\ c.kind = "code"
    BY <2>3, <2>4, <2>5, CodeIsContent
  <2>7. c # Absent
    BY <2>6 DEF Absent
  <2> HIDE DEF c
  <2> QED
    BY <2>1, <2>6, <2>7
<1> QED
  BY <1>4, <1>5, <1>6, <1>7, <1>8 DEF Work

\* Its plan stays, is given up, or goes on behind its first task, which was to
\* append stubs, or whose file is there now.
LEMMA WorkPlan ==
  ASSUME ScaffoldTyped, NEW p \in Procs, Work(p)
  PROVE  /\ \A q \in Procs : q # p => run'[q].plan = run[q].plan
         /\ \/ run'[p].plan = run[p].plan
            \/ run'[p].plan = << >>
            \/ /\ run[p].plan # << >> /\ run'[p].plan = Tail(run[p].plan)
               /\ run[p].plan[1].how # "stubs" => disk'[File(p)] # Absent
               /\ run[p].plan[1].how \notin {"stubs", "missing"} =>
                    run[p].pc = "replace" /\ disk' = [disk EXCEPT ![File(p)] = tmp[File(p)]]
<1>1. run[p].plan # << >> => This(p) = run[p].plan[1] /\ File(p) \in Files
  BY AtTask
<1>2. CASE Collide(p) \/ ReplaceFails(p) \/ Succeed(p)
  BY <1>2, EndsDo DEF GoesOn
<1>3. CASE Skip(p)
  BY <1>1, <1>3, SkipDoes DEF GoesOn
<1>4. CASE Proceed(p)
  BY <1>4, ProceedDoes DEF GoesOn
<1>5. CASE OpenTmp(p)
  BY <1>5, OpenTmpDoes DEF GoesOn
<1>6. CASE WriteTmp(p)
  BY <1>6, WriteTmpDoes DEF GoesOn
<1>7. CASE Replace(p)
  <2>1. disk' = [disk EXCEPT ![File(p)] = tmp[File(p)]] /\ tmp[File(p)] # Absent /\ run[p].plan # << >>
        /\ run[p].pc = "replace"
    BY <1>7, ReplaceDoes
  <2>2. disk'[File(p)] # Absent
    BY <1>1, <2>1 DEF ScaffoldTyped, Disks
  <2> QED
    BY <1>7, <2>1, <2>2, ReplaceDoes DEF GoesOnAmong
<1>8. CASE WriteFails(p)
  BY <1>8, WriteFailsDoes DEF GoesOnAmong
<1>9. CASE ReadNames(p)
  BY <1>1, <1>9, ReadNamesDoes DEF GoesOn
<1>10. CASE ReadText(p)
  BY <1>10, ReadTextDoes DEF GoesOn
<1>11. CASE TruncateCode(p)
  BY <1>11, TruncateDoes DEF GoesOn
<1>12. CASE AppendStubs(p)
  <2>1. run[p].plan[1].how = "stubs"
    BY <1>12, AppendDoes DEF ScaffoldTyped, RunGood, Stubbing
  <2> QED
    BY <1>12, <2>1, AppendDoes DEF GoesOn
<1>13. CASE Return(p) \/ Kill(p)
  BY <1>13, GoneDoes, IdleIs DEF Return, Kill
<1> QED
  BY <1>2, <1>3, <1>4, <1>5, <1>6, <1>7, <1>8, <1>9, <1>10, <1>11, <1>12, <1>13 DEF Work

\* No file is ever removed.
LEMMA ExistsStays ==
  ASSUME ScaffoldTyped, [Next]_vars
  PROVE  \A f \in Files : disk[f] # Absent => disk'[f] # Absent
<1>1. disk \in Disks
  BY DEF ScaffoldTyped
<1>2. ASSUME NEW g \in Files, NEW c \in Contents(g), disk' = [disk EXCEPT ![g] = c], c # Absent
      PROVE  \A f \in Files : disk[f] # Absent => disk'[f] # Absent
  BY <1>1, <1>2, PutIs
<1>3. ASSUME NEW p \in Procs, Work(p)
      PROVE  \A f \in Files : disk[f] # Absent => disk'[f] # Absent
  BY <1>2, <1>3, WorkDisk, AtTask
<1>4. CASE User
  BY <1>2, <1>4, UserDoes
<1> QED
  BY <1>3, <1>4 DEF Next, vars, Example, FromSpec, Upgrade, Begin

\* MarkerLast does not depend on more than the plan, and files only appear.
LEMMA MarkerSame ==
  ASSUME NEW rd, NEW new, NEW files, NEW files1, MarkerLast(rd, files), new.plan = rd.plan,
         \A f \in Files : files[f] # Absent => files1[f] # Absent
  PROVE  MarkerLast(new, files1)
<1> SUFFICES ASSUME NEW i \in 1 .. Len(rd.plan), rd.plan[i].file = "pmstate.yaml",
                    NEW f \in GeneratedFiles
             PROVE  \/ files1[f] # Absent
                    \/ \E j \in 1 .. i - 1 : rd.plan[j].file = f /\ rd.plan[j].how \in {"new", "force"}
  BY DEF MarkerLast
<1>1. \/ files[f] # Absent
      \/ \E j \in 1 .. i - 1 : rd.plan[j].file = f /\ rd.plan[j].how \in {"new", "force"}
  BY DEF MarkerLast
<1>2. f \in Files
  BY FilesAre
<1> QED
  BY <1>1, <1>2

\* It stays true behind the first task, whose file is there.
LEMMA MarkerNext ==
  ASSUME NEW rd, rd.plan \in Seq(Tasks), rd.plan # << >>, NEW new, NEW files, NEW files1,
         MarkerLast(rd, files), new.plan = Tail(rd.plan),
         rd.plan[1].how \in {"new", "force"} => files1[rd.plan[1].file] # Absent,
         \A f \in Files : files[f] # Absent => files1[f] # Absent
  PROVE  MarkerLast(new, files1)
<1> SUFFICES ASSUME NEW i \in 1 .. Len(new.plan), new.plan[i].file = "pmstate.yaml",
                    NEW f \in GeneratedFiles
             PROVE  \/ files1[f] # Absent
                    \/ \E j \in 1 .. i - 1 : new.plan[j].file = f /\ new.plan[j].how \in {"new", "force"}
  BY DEF MarkerLast
<1> SUFFICES ASSUME files1[f] = Absent
             PROVE  \E j \in 1 .. i - 1 : new.plan[j].file = f /\ new.plan[j].how \in {"new", "force"}
  OBVIOUS
<1>1. /\ Len(rd.plan) \in Nat /\ Len(new.plan) = Len(rd.plan) - 1
      /\ \A k \in 1 .. Len(new.plan) : new.plan[k] = rd.plan[k + 1] /\ k + 1 \in 1 .. Len(rd.plan)
  BY TailIs
<1>2. i + 1 \in 1 .. Len(rd.plan) /\ rd.plan[i + 1].file = "pmstate.yaml" /\ files[f] = Absent
  BY <1>1, FilesAre
<1>3. PICK j \in 1 .. (i + 1) - 1 : rd.plan[j].file = f /\ rd.plan[j].how \in {"new", "force"}
  BY <1>2 DEF MarkerLast
<1>4. j # 1
  BY <1>3
<1>5. j - 1 \in 1 .. i - 1 /\ j - 1 \in 1 .. Len(new.plan) /\ (j - 1) + 1 = j
  BY <1>1, <1>3, <1>4
<1>6. new.plan[j - 1] = rd.plan[j]
  BY <1>1, <1>5
<1> QED
  BY <1>3, <1>5, <1>6

Complete(files) == \A f \in GeneratedFiles : files[f] # Absent

\* When pmstate.yaml is due next, every generated file is there.
LEMMA MarkerFirst ==
  ASSUME NEW rd, rd.plan \in Seq(Tasks), rd.plan # << >>, NEW files, MarkerLast(rd, files),
         rd.plan[1].file = "pmstate.yaml"
  PROVE  Complete(files)
<1>1. 1 \in 1 .. Len(rd.plan)
  BY TailIs
<1>2. \A j \in 1 .. 1 - 1 : FALSE
  OBVIOUS
<1> QED
  BY <1>1, <1>2 DEF MarkerLast, Complete

\* A marked project stays complete when another file changes, and when the
\* user's spec takes its place.
LEMMA MarkerChange ==
  ASSUME ScaffoldTyped, MarkerMeansComplete, NEW g \in Files, NEW c \in Contents(g),
         disk' = [disk EXCEPT ![g] = c], c # Absent, g = "pmstate.yaml" => c.edited \/ Complete(disk)
  PROVE  MarkerMeansComplete'
<1>1. disk \in Disks
  BY DEF ScaffoldTyped
<1>2. \A f \in Files : disk'[f] = IF f = g THEN c ELSE disk[f]
  BY <1>1, PutIs
<1>3. \A f \in Files : disk[f] # Absent => disk'[f] # Absent
  BY <1>2
<1>4. Complete(disk) => \A f \in GeneratedFiles : disk'[f] # Absent
  BY <1>3, FilesAre DEF Complete
<1>5. "pmstate.yaml" \in Files
  BY FilesAre
<1>6. disk'["pmstate.yaml"].kind = "made" /\ ~ disk'["pmstate.yaml"].edited => Complete(disk)
  BY <1>2, <1>5 DEF MarkerMeansComplete, Exists, Complete
<1> QED
  BY <1>4, <1>6 DEF MarkerMeansComplete, Exists

\* Every step keeps a marked project complete.
LEMMA NextMarked ==
  ASSUME ScaffoldTyped, Marked, [Next]_vars
  PROVE  Marked'
<1>1. \A f \in Files : disk[f] # Absent => disk'[f] # Absent
  BY ExistsStays
<1>2. MarkerMeansComplete /\ \A p \in Procs : MarkerLast(run[p], disk)
  BY DEF Marked
<1>3. \A p \in Procs : run[p].plan \in Seq(Tasks)
  BY RunFacts DEF Facts
<1>4. disk' = disk => MarkerMeansComplete'
  BY <1>2 DEF MarkerMeansComplete, Exists
<1>5. ASSUME NEW p \in Procs, Work(p) PROVE Marked'
  <2>1. MarkerMeansComplete'
    <3>1. CASE disk' # disk
      <4>1. run[p].plan # << >> /\ File(p) \in Files /\ File(p) = run[p].plan[1].file
        BY <1>5, <3>1, WorkDisk, AtTask
      <4>2. PICK c \in Contents(File(p)) : disk' = [disk EXCEPT ![File(p)] = c] /\ c # Absent
        BY <1>5, <3>1, WorkDisk
      <4>3. File(p) = "pmstate.yaml" => Complete(disk)
        BY <1>2, <1>3, <4>1, MarkerFirst
      <4> QED
        BY <1>2, <4>1, <4>2, <4>3, MarkerChange
    <3> QED
      BY <1>4, <3>1
  <2>2. ASSUME NEW q \in Procs PROVE MarkerLast(run'[q], disk')
    <3>1. CASE run'[q].plan = run[q].plan
      BY <1>1, <1>2, <3>1, MarkerSame
    <3>2. CASE run'[q].plan = << >>
      BY <3>2 DEF MarkerLast
    <3>3. CASE /\ q = p /\ run[p].plan # << >> /\ run'[p].plan = Tail(run[p].plan)
               /\ run[p].plan[1].how # "stubs" => disk'[File(p)] # Absent
      <4>1. File(p) = run[p].plan[1].file
        BY <3>3, AtTask
      <4>2. run[p].plan[1].how \in {"new", "force"} => disk'[run[p].plan[1].file] # Absent
        BY <3>3, <4>1
      <4> QED
        BY <1>1, <1>2, <1>3, <3>3, <4>2, MarkerNext
    <3> QED
      BY <1>5, <3>1, <3>2, <3>3, WorkPlan
  <2> QED
    BY <2>1, <2>2 DEF Marked
<1>6. ASSUME NEW p \in Procs, NEW r, Begins(p, r),
             \A i \in 1 .. Len(r.plan) : r.plan[i].file = "pmstate.yaml" =>
               \A f \in GeneratedFiles : \E j \in 1 .. i - 1 :
                 r.plan[j].file = f /\ r.plan[j].how \in {"new", "force"}
      PROVE  Marked'
  <2>1. MarkerLast(r, disk')
    BY <1>6 DEF MarkerLast
  <2>2. ASSUME NEW q \in Procs, q # p PROVE MarkerLast(run'[q], disk')
    BY <1>1, <1>2, <1>6, <2>2, MarkerSame DEF Begins
  <2> QED
    BY <1>4, <1>6, <2>1, <2>2 DEF Begins, Marked
<1>7. ASSUME NEW p \in Procs, NEW r, Begins(p, r), IsRefused(r) PROVE Marked'
  <2>1. \A i \in 1 .. Len(r.plan) : FALSE
    BY <1>7 DEF IsRefused
  <2> QED
    BY <1>6, <1>7, <2>1
<1>8. ASSUME NEW p \in Procs, Example(p) PROVE Marked'
  <2> DEFINE plan == <<Task("pmstate.example.yaml", "new")>>
  <2>1. PICK r : Begins(p, r) /\ IsStarted(r, "example", None, FALSE, plan)
    BY <1>8, ExampleDoes
  <2>2. \A i \in 1 .. Len(plan) : plan[i].file # "pmstate.yaml"
    BY DEF Task
  <2> HIDE DEF plan
  <2> QED
    BY <1>6, <2>1, <2>2 DEF IsStarted
<1>9. ASSUME NEW p \in Procs, NEW s \in Specs, NEW force \in BOOLEAN, NEW inPlace \in BOOLEAN,
             FromSpec(p, s, force, inPlace)
      PROVE  Marked'
  <2> DEFINE plan == InitPlan(force, inPlace)
  <2>1. PICK r : Begins(p, r) /\ (IsRefused(r) \/ IsStarted(r, "init", s, force, plan))
    BY <1>9, FromSpecDoes
  <2>2. ASSUME NEW i \in 1 .. Len(plan), plan[i].file = "pmstate.yaml", NEW f \in GeneratedFiles
        PROVE  \E j \in 1 .. i - 1 : plan[j].file = f /\ plan[j].how \in {"new", "force"}
    <3>1. i = 7
      BY <2>2, InitPlanGood
    <3>2. \E j \in 1 .. 6 : plan[j].file = f /\ plan[j].how \in {"new", "force"}
      BY InitPlanGood
    <3> QED
      BY <3>1, <3>2
  <2> HIDE DEF plan
  <2>3. CASE IsStarted(r, "init", s, force, plan)
    BY <1>6, <2>1, <2>2, <2>3 DEF IsStarted
  <2> QED
    BY <1>7, <2>1, <2>3
<1>10. ASSUME NEW p \in Procs, NEW force \in BOOLEAN, Upgrade(p, force) PROVE Marked'
  <2> DEFINE plan == UpgradePlan(force)
  <2>1. PICK r : Begins(p, r) /\ (IsRefused(r) \/ \E s \in Specs : IsStarted(r, "upgrade", s, force, plan))
    BY <1>10, UpgradeDoes
  <2>2. \A i \in 1 .. Len(plan) : plan[i].file # "pmstate.yaml"
    BY UpgradePlanGood
  <2> HIDE DEF plan
  <2>3. CASE \E s \in Specs : IsStarted(r, "upgrade", s, force, plan)
    BY <1>6, <2>1, <2>2, <2>3 DEF IsStarted
  <2> QED
    BY <1>7, <2>1, <2>3
<1>11. CASE User
  <2>1. UNCHANGED run
    BY <1>11, UserDoes
  <2>2. PICK f \in Files : \E c \in Contents(f) : /\ disk' = [disk EXCEPT ![f] = c] /\ c # Absent
                                                  /\ f = "pmstate.yaml" => c.edited
    BY <1>11, UserDoes
  <2>3. MarkerMeansComplete'
    <3>1. PICK c \in Contents(f) : /\ disk' = [disk EXCEPT ![f] = c] /\ c # Absent
                                   /\ f = "pmstate.yaml" => c.edited
      BY <2>2
    <3> QED
      BY <1>2, <3>1, MarkerChange
  <2>4. \A q \in Procs : MarkerLast(run'[q], disk')
    BY <1>1, <1>2, <2>1, MarkerSame
  <2> QED
    BY <2>3, <2>4 DEF Marked
<1>12. CASE UNCHANGED vars
  BY <1>2, <1>12, <1>4 DEF vars, Marked
<1> QED
  BY <1>5, <1>8, <1>9, <1>10, <1>11, <1>12 DEF Next

\* There is no project at first.
LEMMA InitMarked == Init => Marked
<1> SUFFICES ASSUME Init PROVE Marked
  OBVIOUS
<1>1. MarkerMeansComplete
  BY FilesAre DEF Init, MarkerMeansComplete, Absent
<1>2. \A p \in Procs : run[p].plan = << >>
  BY IdleIs DEF Init
<1> QED
  BY <1>1, <1>2 DEF Marked, MarkerLast

\* Where init --from-spec put a pmstate.yaml, no generated file is missing, for
\* any number of commands that are killed or fail at any step.
THEOREM MarkerIsLast == Spec => []MarkerMeansComplete
<1>1. ScaffoldTyped /\ Marked /\ [Next]_vars => Marked'
  BY NextMarked
<1>2. Marked => MarkerMeansComplete
  BY DEF Marked
<1> QED
  BY <1>1, <1>2, InitMarked, ScaffoldIsTyped, PTL DEF Spec

-----------------------------------------------------------------------------
(* Names in code files. *)

\* A name is bound, or found, by one of the definitions.
LEMMA BoundIs ==
  ASSUME NEW c, NEW x
  PROVE  /\ x \in Bound(c) <=> \E i \in 1 .. Len(Defs(c)) : Defs(c)[i].name = x
         /\ x \in ExistingNames(c) <=>
              \E i \in 1 .. Len(Defs(c)) : Defs(c)[i].name = x /\ Parses(c) /\ Defs(c)[i].form = "def"
BY DEF Bound, ExistingNames

\* A file rendered anew has what its spec declares.
LEMMA RenderSettles ==
  ASSUME NEW f \in CodeFiles, NEW s \in Specs
  PROVE  Settled(Render(f, s), s, f)
<1> DEFINE c == Render(f, s)
           names == Stubs[s][f]
<1>1. f \in Files
  BY FilesAre DEF CodeFiles
<1>2. names \in Seq(Names)
  BY SpecsAssumption
<1>3. Defs(c) = StubsFor(names) /\ Parses(c)
  BY <1>1, RenderIs
<1>4. /\ Len(StubsFor(names)) = Len(names)
      /\ \A i \in 1 .. Len(names) : StubsFor(names)[i].name = names[i] /\ StubsFor(names)[i].form = "def"
  BY <1>2, StubsAre
<1> HIDE DEF c
<1>5. ASSUME NEW x \in Declared(s, f) PROVE x \in Bound(c) /\ x \in ExistingNames(c)
  <2>1. PICK i \in 1 .. Len(names) : names[i] = x
    BY DEF Declared
  <2> HIDE DEF names
  <2>2. i \in 1 .. Len(Defs(c)) /\ Defs(c)[i].name = x /\ Defs(c)[i].form = "def"
    BY <1>3, <1>4, <2>1
  <2> QED
    BY <1>3, <2>2, BoundIs
<1> QED
  BY <1>5 DEF Settled, c

\* A file that lacks no stub has what its spec declares.
LEMMA LacksNothing ==
  ASSUME NEW f \in CodeFiles, NEW s \in Specs, NEW c,
         Missing(Stubs[s][f], ExistingNames(c)) = << >>
  PROVE  Settled(c, s, f)
<1> DEFINE names == Stubs[s][f]
<1>1. names \in Seq(Names)
  BY SpecsAssumption
<1>2. ASSUME NEW x \in Declared(s, f) PROVE x \in Bound(c) /\ x \in ExistingNames(c)
  <2>1. \E i \in 1 .. Len(names) : names[i] = x
    BY DEF Declared
  <2> HIDE DEF names
  <2>2. Missing(names, ExistingNames(c)) = << >>
    BY DEF names
  <2>3. ~ \E i \in 1 .. Len(Missing(names, ExistingNames(c))) : Missing(names, ExistingNames(c))[i] = x
    BY <2>2
  <2>4. x \in ExistingNames(c)
    BY <1>1, <2>1, <2>3, MissingIs
  <2> QED
    BY <2>4, BoundIs
<1> QED
  BY <1>2 DEF Settled

\* The definitions of a file to which stubs were appended.
LEMMA AppendedIs ==
  ASSUME NEW f \in CodeFiles, NEW text \in Contents(f), NEW names \in Seq(Names),
         NEW c, c = Code(Defs(text) \o StubsFor(names), Parses(text))
  PROVE  /\ c \in Contents(f) /\ c # Absent /\ Parses(c) = Parses(text)
         /\ Len(Defs(text)) \in Nat /\ Len(names) \in Nat
         /\ Len(Defs(c)) = Len(Defs(text)) + Len(names)
         /\ \A i \in 1 .. Len(Defs(text)) : i \in 1 .. Len(Defs(c)) /\ Defs(c)[i] = Defs(text)[i]
         /\ \A i \in 1 .. Len(names) :
              /\ Len(Defs(text)) + i \in 1 .. Len(Defs(c))
              /\ Defs(c)[Len(Defs(text)) + i].name = names[i]
              /\ Defs(c)[Len(Defs(text)) + i].form = "def"
<1> DEFINE a == Defs(text)
           b == StubsFor(names)
           defs == a \o b
<1>1. f \in Files
  BY FilesAre DEF CodeFiles
<1>2. a \in Seq(DefRecord) /\ Parses(text) \in BOOLEAN
  BY <1>1, DefsAre
<1>3. /\ b \in Seq(DefRecord) /\ Len(b) = Len(names)
      /\ \A i \in 1 .. Len(names) : b[i].name = names[i] /\ b[i].form = "def"
  BY StubsAre
<1>4. defs \in Seq(DefRecord) /\ Len(names) \in Nat /\ Len(a) \in Nat
  BY <1>2, <1>3
<1>5. c \in Contents(f) /\ c.kind = "code" /\ Defs(c) = defs /\ Parses(c) = Parses(text)
  <2> HIDE DEF defs
  <2>1. c = Code(defs, Parses(text))
    BY DEF defs
  <2> QED
    BY <1>2, <1>4, <2>1, CodeIsContent
<1>6. c # Absent
  BY <1>5 DEF Absent
<1>0. defs = a \o b /\ a \in Seq(DefRecord) /\ b \in Seq(DefRecord)
  BY <1>2, <1>3
<1> HIDE DEF a, b, defs
<1>7. Len(defs) = Len(a) + Len(b)
  BY <1>0
<1>8. \A i \in 1 .. Len(a) : defs[i] = a[i]
  BY <1>0
<1>9. \A i \in 1 .. Len(b) : defs[Len(a) + i] = b[i]
  BY <1>0
<1>10. \A i \in 1 .. Len(a) : i \in 1 .. Len(defs)
  BY <1>3, <1>4, <1>7
<1>11. \A i \in 1 .. Len(names) : Len(a) + i \in 1 .. Len(defs)
  BY <1>3, <1>4, <1>7
<1> QED
  BY <1>3, <1>4, <1>5, <1>6, <1>7, <1>8, <1>9, <1>10, <1>11 DEF a, b

\* Appending the stubs that a file lacks gives it what its spec declares.
LEMMA AppendSettles ==
  ASSUME NEW f \in CodeFiles, NEW s \in Specs, NEW text \in Contents(f), NEW names \in Seq(Names),
         names = Missing(Stubs[s][f], ExistingNames(text)),
         NEW c, c = Code(Defs(text) \o StubsFor(names), Parses(text))
  PROVE  Settled(c, s, f)
<1>1. /\ Parses(c) = Parses(text)
      /\ \A i \in 1 .. Len(Defs(text)) : i \in 1 .. Len(Defs(c)) /\ Defs(c)[i] = Defs(text)[i]
      /\ \A i \in 1 .. Len(names) :
           /\ Len(Defs(text)) + i \in 1 .. Len(Defs(c))
           /\ Defs(c)[Len(Defs(text)) + i].name = names[i]
           /\ Defs(c)[Len(Defs(text)) + i].form = "def"
  BY AppendedIs
<1>2. ASSUME NEW x \in Declared(s, f) PROVE x \in Bound(c) /\ (Parses(c) => x \in ExistingNames(c))
  <2>1. \E i \in 1 .. Len(Stubs[s][f]) : Stubs[s][f][i] = x
    BY DEF Declared
  <2>2. Stubs[s][f] \in Seq(Names)
    BY SpecsAssumption
  <2>3. x \in ExistingNames(text) \/ \E i \in 1 .. Len(names) : names[i] = x
    BY <2>1, <2>2, MissingIs
  <2>4. CASE x \in ExistingNames(text)
    <3>1. PICK i \in 1 .. Len(Defs(text)) :
            Defs(text)[i].name = x /\ Parses(text) /\ Defs(text)[i].form = "def"
      BY <2>4, BoundIs
    <3>2. i \in 1 .. Len(Defs(c)) /\ Defs(c)[i].name = x /\ Defs(c)[i].form = "def"
      BY <1>1, <3>1
    <3> QED
      BY <3>2, BoundIs
  <2>5. CASE \E i \in 1 .. Len(names) : names[i] = x
    <3>1. PICK i \in 1 .. Len(names) : names[i] = x
      BY <2>5
    <3> DEFINE j == Len(Defs(text)) + i
    <3>2. j \in 1 .. Len(Defs(c)) /\ Defs(c)[j].name = x /\ Defs(c)[j].form = "def"
      BY <1>1, <3>1
    <3> HIDE DEF j
    <3> QED
      BY <3>2, BoundIs
  <2> QED
    BY <2>3, <2>4, <2>5
<1> QED
  BY <1>2 DEF Settled

\* A name that is bound has a last binding.
LEMMA LastExists ==
  ASSUME NEW f \in Files, NEW c \in Contents(f), NEW x \in Bound(c)
  PROVE  LET at == {i \in 1 .. Len(Defs(c)) : Defs(c)[i].name = x}
         IN  \E k \in at : \A j \in at : j <= k
<1> DEFINE n == Len(Defs(c))
           at == {i \in 1 .. n : Defs(c)[i].name = x}
           from == {n - i : i \in at}
<1>1. n \in Nat
  BY DefsAre
<1>2. at # {}
  BY BoundIs
<1>3. at \subseteq 1 .. n
  OBVIOUS
<1> HIDE DEF at
<1>4. from \subseteq Nat /\ from # {}
  <2> HIDE DEF n
  <2>1. \A i \in at : n - i \in Nat
    BY <1>1, <1>3
  <2> QED
    BY <1>2, <2>1
<1>5. PICK m \in from : \A y \in from : m <= y
  <2> HIDE DEF from
  <2> QED
    BY <1>4, LeastNat
<1>6. PICK k \in at : m = n - k
  OBVIOUS
<1>7. ASSUME NEW j \in at PROVE j <= k
  <2>1. m <= n - j
    BY <1>5
  <2>2. j \in 1 .. n /\ k \in 1 .. n
    BY <1>3
  <2> HIDE DEF n
  <2> QED
    BY <1>1, <1>6, <2>1, <2>2
<1> QED
  BY <1>7 DEF at

\* The binding in force is one of the definitions.
LEMMA InForceIs ==
  ASSUME NEW f \in Files, NEW c \in Contents(f), NEW x \in Bound(c)
  PROVE  \E k \in 1 .. Len(Defs(c)) : InForce(c, x) = Defs(c)[k] /\ Defs(c)[k].name = x
<1> DEFINE at == {i \in 1 .. Len(Defs(c)) : Defs(c)[i].name = x}
           k == CHOOSE k \in at : \A j \in at : j <= k
<1>1. k \in at
  BY LastExists
<1>2. InForce(c, x) = Defs(c)[k]
  BY DEF InForce
<1> HIDE DEF k
<1> QED
  BY <1>1, <1>2

\* A user's function stays in force when the stubs that a file lacks are appended.
LEMMA AppendKeeps ==
  ASSUME NEW f \in CodeFiles, NEW s \in Specs, NEW text \in Contents(f), NEW names \in Seq(Names),
         names = Missing(Stubs[s][f], ExistingNames(text)),
         NEW c, c = Code(Defs(text) \o StubsFor(names), Parses(text)),
         NEW old, Keeps(old, text)
  PROVE  Keeps(old, c)
<1> SUFFICES ASSUME NEW d, \E i \in 1 .. Len(Defs(old)) : Defs(old)[i] = d,
                    d = InForce(old, d.name), d.own, d.form = "def", Parses(old)
             PROVE  Parses(c) /\ d.name \in Bound(c) /\ InForce(c, d.name) = d
  BY DEF Keeps
<1>1. Parses(text) /\ d.name \in Bound(text) /\ InForce(text, d.name) = d
  BY DEF Keeps
<1> DEFINE x == d.name
<1>2. f \in Files
  BY FilesAre DEF CodeFiles
<1>3. PICK k \in 1 .. Len(Defs(text)) : d = Defs(text)[k] /\ Defs(text)[k].name = x
  BY <1>1, <1>2, InForceIs
<1>4. x \in ExistingNames(text)
  BY <1>1, <1>3, BoundIs
<1>5. \A i \in 1 .. Len(names) : names[i] # x
  <2>1. Stubs[s][f] \in Seq(Names)
    BY SpecsAssumption
  <2> QED
    BY <1>4, <2>1, MissingIs
<1>6. /\ Parses(c) = Parses(text) /\ Len(Defs(text)) \in Nat /\ Len(names) \in Nat
      /\ Len(Defs(c)) = Len(Defs(text)) + Len(names)
      /\ \A i \in 1 .. Len(Defs(text)) : i \in 1 .. Len(Defs(c)) /\ Defs(c)[i] = Defs(text)[i]
      /\ \A i \in 1 .. Len(names) : Defs(c)[Len(Defs(text)) + i].name = names[i]
  <2>1. \A i \in 1 .. Len(names) :
          /\ Len(Defs(text)) + i \in 1 .. Len(Defs(c))
          /\ Defs(c)[Len(Defs(text)) + i].name = names[i]
          /\ Defs(c)[Len(Defs(text)) + i].form = "def"
    BY SMTT(30), AppendedIs
  <2>2. /\ Parses(c) = Parses(text) /\ Len(Defs(text)) \in Nat /\ Len(names) \in Nat
        /\ Len(Defs(c)) = Len(Defs(text)) + Len(names)
    BY AppendedIs
  <2>3. \A i \in 1 .. Len(Defs(text)) : i \in 1 .. Len(Defs(c)) /\ Defs(c)[i] = Defs(text)[i]
    BY AppendedIs
  <2> QED
    BY <2>1, <2>2, <2>3
<1> HIDE DEF x
<1>7. ASSUME NEW i \in 1 .. Len(Defs(c)), Defs(c)[i].name = x PROVE i \in 1 .. Len(Defs(text))
  <2> SUFFICES ASSUME ~ (i \in 1 .. Len(Defs(text))) PROVE FALSE
    OBVIOUS
  <2> DEFINE m == Len(Defs(text))
             j == i - m
  <2>1. j \in 1 .. Len(names) /\ m + j = i
    BY <1>6
  <2>2. Defs(c)[m + j].name = names[j]
    BY <1>6, <2>1
  <2> HIDE DEF m, j
  <2> QED
    BY <1>5, <1>7, <2>1, <2>2
<1> DEFINE here == {i \in 1 .. Len(Defs(text)) : Defs(text)[i].name = x}
           there == {i \in 1 .. Len(Defs(c)) : Defs(c)[i].name = x}
<1>8. here = there
  BY <1>6, <1>7
<1>9. InForce(text, x) = Defs(text)[CHOOSE i \in here : \A j \in here : j <= i]
  BY DEF InForce
<1>10. InForce(c, x) = Defs(c)[CHOOSE i \in there : \A j \in there : j <= i]
  BY DEF InForce
<1> DEFINE at == CHOOSE i \in here : \A j \in here : j <= i
<1>11. InForce(text, x) = Defs(text)[at] /\ InForce(c, x) = Defs(c)[at]
  <2> HIDE DEF here, there
  <2> QED
    BY <1>8, <1>9, <1>10
<1>12. at \in 1 .. Len(Defs(text))
  <2>1. \E i \in here : \A j \in here : j <= i
    <3>1. x \in Bound(text)
      BY <1>1 DEF x
    <3> QED
      BY <1>2, <3>1, LastExists
  <2> QED
    BY <2>1
<1> HIDE DEF at, here, there
<1>13. Defs(c)[at] = Defs(text)[at]
  BY <1>6, <1>12
<1>14. InForce(c, x) = d
  BY <1>1, <1>11, <1>13 DEF x
<1>15. x \in Bound(c)
  BY <1>3, <1>6, BoundIs
<1> QED
  BY <1>1, <1>6, <1>14, <1>15 DEF x

-----------------------------------------------------------------------------
(* One command at a time: what the kinds of steps keep. *)

Same(new, rd) == new.verb = rd.verb /\ new.spec = rd.spec /\ new.force = rd.force

\* What is due depends on the plan only.
LEMMA DueSame ==
  ASSUME NEW rd, NEW new, new.plan = rd.plan, NEW f, NEW hows
  PROVE  Due(new, f, hows) <=> Due(rd, f, hows)
BY DEF Due

\* What was due still is, but for the first task.
LEMMA DueNext ==
  ASSUME NEW rd, rd.plan \in Seq(Tasks), rd.plan # << >>, NEW new, new.plan = Tail(rd.plan),
         NEW f, NEW hows, Due(rd, f, hows)
  PROVE  Due(new, f, hows) \/ (rd.plan[1].file = f /\ rd.plan[1].how \in hows)
<1>1. PICK i \in 1 .. Len(rd.plan) : rd.plan[i].file = f /\ rd.plan[i].how \in hows
  BY DEF Due
<1>2. i # 1 => i - 1 \in 1 .. Len(new.plan) /\ new.plan[i - 1] = rd.plan[i]
  BY TailIs
<1>3. CASE i # 1
  <2> DEFINE j == i - 1
  <2>1. j \in 1 .. Len(new.plan) /\ new.plan[j].file = f /\ new.plan[j].how \in hows
    BY <1>1, <1>2, <1>3
  <2> HIDE DEF j
  <2> QED
    BY <2>1 DEF Due
<1> QED
  BY <1>1, <1>3

\* A command that is not running leaves nothing to keep.
LEMMA IdleAlone ==
  ASSUME NEW rd, rd.pc = "idle", rd.plan = << >>, rd.fd = "closed",
         NEW files, NEW tmps, NEW old
  PROVE  AloneAt(rd, files, tmps, old)
<1>1. ~ Busy(rd) /\ rd.pc \notin Writing
  BY DEF Busy, Writing, Stubbing
<1>2. \A i \in 1 .. Len(rd.plan) : FALSE
  OBVIOUS
<1> QED
  BY <1>1, <1>2 DEF AloneAt, OwnFiles, Unchanged, Progress, Underway, Appending, KeepsEdits

\* It refuses only what has changed nothing, and succeeds when nothing is due.
LEMMA EndAlone ==
  ASSUME NEW rd \in RunRecord, Busy(rd), NEW files, NEW tmps, NEW tmps1, NEW old,
         AloneAt(rd, files, tmps, old),
         NEW new, NEW code \in {"ok", "refused", "failed"}, Same(new, rd),
         new.pc = "done", new.plan = << >>, new.fd = "closed", new.exit = code,
         code = "refused" => /\ rd.pc = "task" /\ rd.plan # << >> /\ rd.plan[1].how = "new"
                             /\ files[rd.plan[1].file] # Absent,
         code = "ok" => rd.pc = "task" /\ rd.plan = << >>
  PROVE  AloneAt(new, files, tmps1, old)
<1>1. ~ Busy(new) /\ new.pc \notin Writing /\ \A i \in 1 .. Len(new.plan) : FALSE
  BY DEF Busy, Writing, Stubbing
<1>2. OwnFiles(new, files, tmps1)
  BY <1>1 DEF OwnFiles
<1>3. Unchanged(new, files, old)
  <2>1. ASSUME code = "refused" PROVE files = old
    <3>1. rd.plan \in Seq(Tasks) /\ rd.verb \in {None, "example", "init", "upgrade"}
      BY DEF RunRecord
    <3>2. 1 \in 1 .. Len(rd.plan)
      BY <2>1, <3>1, TailIs
    <3> QED
      BY <2>1, <3>1, <3>2 DEF AloneAt, Unchanged
  <2> QED
    BY <1>1, <2>1 DEF Unchanged
<1>4. Progress(new, files)
  <2> SUFFICES ASSUME Underway(new) PROVE Progress(new, files)
    BY DEF Progress
  <2>1. code = "ok" /\ Underway(rd)
    BY <1>1 DEF Underway, Same
  <2>2. new.plan = rd.plan
    BY <2>1
  <2>3. \A f, hows : Due(new, f, hows) <=> Due(rd, f, hows)
    BY <2>2, DueSame
  <2> QED
    BY <2>1, <2>3 DEF AloneAt, Progress, Same
<1>5. Appending(new, files)
  BY DEF Appending
<1>6. KeepsEdits(new, files, old)
  <2> SUFFICES ASSUME ~ new.force, code \in {"ok", "refused"} PROVE KeepsEdits(new, files, old)
    BY <1>1 DEF KeepsEdits
  <2>1. rd.pc = "task" /\ ~ rd.force
    BY DEF Same
  <2>2. \A f \in CodeFiles : Keeps(old[f], files[f])
    BY <2>1 DEF AloneAt, KeepsEdits
  <2> QED
    BY <1>1, <2>2 DEF KeepsEdits
<1> QED
  BY <1>2, <1>3, <1>4, <1>5, <1>6 DEF AloneAt

\* A step within a task, which moves no file into place.
LEMMA WithinAlone ==
  ASSUME NEW rd \in RunRecord, RunGood(rd), Busy(rd), rd.plan # << >>, rd.pc # "append",
         NEW files, NEW tmps, NEW tmps1, NEW old, AloneAt(rd, files, tmps, old),
         NEW new, Same(new, rd), new.plan = rd.plan,
         new.pc \in (Writing \union Stubbing) \ {"append"},
         OwnFiles(new, files, tmps1), Appending(new, files)
  PROVE  AloneAt(new, files, tmps1, old)
<1>1. Busy(new) /\ new.pc \notin {"done", "append"}
  BY DEF Busy, Writing, Stubbing
<1>2. Unchanged(new, files, old)
  BY <1>1 DEF AloneAt, Unchanged, Same
<1>3. Progress(new, files)
  <2>1. Underway(new) => Underway(rd)
    BY DEF Underway, Same
  <2>2. \A f, hows : Due(new, f, hows) <=> Due(rd, f, hows)
    BY DueSame
  <2> QED
    BY <2>1, <2>2 DEF AloneAt, Progress, Same
<1>4. KeepsEdits(new, files, old)
  BY <1>1 DEF AloneAt, KeepsEdits, Same
<1> QED
  BY <1>2, <1>3, <1>4 DEF AloneAt

\* A plan of at most one task is empty behind its first.
LEMMA OneLess ==
  ASSUME NEW n \in Nat, n >= 1, n <= 1, NEW m, m = n - 1
  PROVE  m = 0 /\ m <= 1 /\ 1 .. m = {}
OBVIOUS

\* The file of the task is in place.
InPlace(rd, files, files1) ==
  LET f == rd.plan[1].file
      how == rd.plan[1].how
  IN  /\ \A g \in Files : g # f => files1[g] = files[g]
      /\ files[f] # Absent \/ how # "stubs" => files1[f] # Absent
      /\ f = "tree.py" => \/ files1[f] = Made(rd.spec, FALSE)
                          \/ files1[f] = files[f] /\ how = "missing"
      /\ f \in CodeFiles => \/ Settled(files1[f], rd.spec, f)
                            \/ files1[f] = files[f] /\ how = "missing"
      /\ f \in CodeFiles /\ how # "force" =>
           \A o : Keeps(o, IF rd.pc = "append" THEN rd.text ELSE files[f]) => Keeps(o, files1[f])

\* A task is done.
LEMMA AdvanceAlone ==
  ASSUME NEW rd \in RunRecord, RunGood(rd), Busy(rd), rd.plan # << >>,
         NEW files, NEW files1, NEW tmps, NEW tmps1, NEW old, AloneAt(rd, files, tmps, old),
         NEW new, Same(new, rd), new.plan = Tail(rd.plan), new.pc = "task", new.fd = "closed",
         InPlace(rd, files, files1)
  PROVE  AloneAt(new, files1, tmps1, old)
<1> DEFINE f == rd.plan[1].file
           how == rd.plan[1].how
<1>0. /\ \A g \in Files : g # f => files1[g] = files[g]
      /\ files[f] # Absent \/ how # "stubs" => files1[f] # Absent
      /\ f = "tree.py" => \/ files1[f] = Made(rd.spec, FALSE)
                          \/ files1[f] = files[f] /\ how = "missing"
      /\ f \in CodeFiles => \/ Settled(files1[f], rd.spec, f)
                            \/ files1[f] = files[f] /\ how = "missing"
      /\ f \in CodeFiles /\ how # "force" =>
           \A o : Keeps(o, IF rd.pc = "append" THEN rd.text ELSE files[f]) => Keeps(o, files1[f])
  BY DEF InPlace
<1>1. /\ rd.plan \in Seq(Tasks) /\ 1 \in 1 .. Len(rd.plan) /\ Len(rd.plan) \in Nat /\ f \in Files
      /\ Len(new.plan) = Len(rd.plan) - 1
      /\ \A i \in 1 .. Len(new.plan) : new.plan[i] = rd.plan[i + 1] /\ i + 1 \in 1 .. Len(rd.plan)
      /\ new.plan \in Seq(Tasks)
  <2>1. rd.plan \in Seq(Tasks)
    BY DEF RunRecord
  <2>2. /\ rd.plan[1] \in Tasks /\ 1 \in 1 .. Len(rd.plan) /\ Len(rd.plan) \in Nat
        /\ Len(new.plan) = Len(rd.plan) - 1 /\ new.plan \in Seq(Tasks)
        /\ \A i \in 1 .. Len(new.plan) : new.plan[i] = rd.plan[i + 1] /\ i + 1 \in 1 .. Len(rd.plan)
    BY <2>1, TailIs
  <2>3. f \in Files
    BY <2>2 DEF Tasks
  <2> QED
    BY <2>1, <2>2, <2>3
<1>2. \A g, hows : Due(rd, g, hows) => Due(new, g, hows) \/ (f = g /\ how \in hows)
  BY <1>1, DueNext
<1>3. Busy(new) /\ new.pc \notin Writing
  BY DEF Busy, Writing
<1>4. OwnFiles(new, files1, tmps1)
  BY <1>3 DEF OwnFiles
<1>5. Unchanged(new, files1, old)
  <2>1. ASSUME new.verb = "init", NEW i \in 1 .. Len(new.plan)
        PROVE  /\ new.plan[i].how = "new" => files1[new.plan[i].file] = Absent
               /\ \A j \in 1 .. Len(new.plan) : new.plan[i].file = new.plan[j].file => i = j
    <3>1. rd.verb = "init"
      BY <2>1 DEF Same
    <3>2. \A k \in 1 .. Len(rd.plan) :
            /\ rd.plan[k].how = "new" => files[rd.plan[k].file] = Absent
            /\ \A j \in 1 .. Len(rd.plan) : rd.plan[k].file = rd.plan[j].file => k = j
      BY <3>1 DEF AloneAt, Unchanged
    <3> DEFINE k == i + 1
    <3>3. new.plan[i] = rd.plan[k] /\ k \in 1 .. Len(rd.plan) /\ k # 1
      BY <1>1, <2>1
    <3> HIDE DEF k
    <3>4. rd.plan[k].file # f /\ rd.plan[k].file \in Files
      <4>1. rd.plan[k] \in Tasks
        BY <1>1, <3>3
      <4> QED
        BY <1>1, <3>2, <3>3, <4>1 DEF Tasks
    <3>5. new.plan[i].how = "new" => files1[new.plan[i].file] = Absent
      BY <1>0, <3>2, <3>3, <3>4
    <3>6. ASSUME NEW j \in 1 .. Len(new.plan), new.plan[i].file = new.plan[j].file PROVE i = j
      <4>1. new.plan[j] = rd.plan[j + 1] /\ j + 1 \in 1 .. Len(rd.plan)
        BY <1>1, <3>6
      <4>2. k = j + 1
        BY <3>2, <3>3, <3>6, <4>1
      <4> QED
        BY <4>2 DEF k
    <3> QED
      BY <3>5, <3>6
  <2>2. ASSUME new.verb = "example"
        PROVE  new.plan = << >> /\ Len(new.plan) <= 1 /\ \A i \in 1 .. Len(new.plan) : FALSE
    <3>1. Len(rd.plan) <= 1
      BY <2>2 DEF AloneAt, Unchanged, Same
    <3>2. Len(new.plan) = 0 /\ Len(new.plan) <= 1 /\ 1 .. Len(new.plan) = {}
      <4>1. Len(rd.plan) \in Nat /\ Len(rd.plan) >= 1 /\ Len(new.plan) = Len(rd.plan) - 1
        BY <1>1
      <4> QED
        BY <3>1, <4>1, OneLess
    <3>3. new.plan = << >>
      BY <1>1, <3>2, EmptySeq
    <3> QED
      BY <3>2, <3>3
  <2>3. ASSUME new.verb = "upgrade", NEW i \in 1 .. Len(new.plan) PROVE new.plan[i].how # "new"
    <3>1. new.plan[i] = rd.plan[i + 1] /\ i + 1 \in 1 .. Len(rd.plan)
      BY <1>1, <2>3
    <3> QED
      BY <2>3, <3>1 DEF AloneAt, Unchanged, Same
  <2>4. new.verb \in {"example", "init", "upgrade"}
    BY DEF AloneAt, Unchanged, Same
  <2>5. new.pc = "task"
    OBVIOUS
  <2>6. new.verb = "example" => Len(new.plan) <= 1
    BY <2>2
  <2> QED
    BY <2>1, <2>2, <2>3, <2>4, <2>5, <2>6 DEF Unchanged
<1>6. Progress(new, files1)
  <2> SUFFICES ASSUME Underway(new) PROVE Progress(new, files1)
    BY DEF Progress
  <2>1. Underway(rd) /\ new.spec = rd.spec
    BY DEF Underway, Same
  <2>2. /\ rd.spec \in Specs
        /\ \A g \in Files \ {"pmstate.example.yaml"} :
             files[g] # Absent \/ Due(rd, g, {"new", "force", "missing"})
        /\ files["tree.py"] = Made(rd.spec, FALSE) \/ Due(rd, "tree.py", {"new", "force"})
        /\ \A g \in CodeFiles : Settled(files[g], rd.spec, g) \/ Due(rd, g, {"new", "force", "stubs"})
    BY <2>1 DEF AloneAt, Progress
  <2>3. ASSUME NEW g \in Files \ {"pmstate.example.yaml"}
        PROVE  files1[g] # Absent \/ Due(new, g, {"new", "force", "missing"})
    BY <1>0, <1>2, <2>2
  <2>4. files1["tree.py"] = Made(rd.spec, FALSE) \/ Due(new, "tree.py", {"new", "force"})
    BY <1>0, <1>2, <2>2, FilesAre
  <2>5. ASSUME NEW g \in CodeFiles
        PROVE  Settled(files1[g], rd.spec, g) \/ Due(new, g, {"new", "force", "stubs"})
    <3>1. g \in Files
      BY FilesAre DEF CodeFiles
    <3>2. Settled(files[g], rd.spec, g) \/ Due(new, g, {"new", "force", "stubs"})
          \/ (f = g /\ how # "missing")
      BY <1>2, <2>2
    <3> QED
      BY <1>0, <3>1, <3>2
  <2> QED
    BY <2>1, <2>2, <2>3, <2>4, <2>5 DEF Progress
<1>7. Appending(new, files1)
  BY DEF Appending
<1>8. KeepsEdits(new, files1, old)
  <2> SUFFICES ASSUME ~ rd.force PROVE KeepsEdits(new, files1, old)
    BY DEF KeepsEdits, Same
  <2>1. /\ \A i \in 1 .. Len(rd.plan) : rd.plan[i].file \in CodeFiles => rd.plan[i].how # "force"
        /\ \A g \in CodeFiles : Keeps(old[g], IF rd.pc = "append" /\ f = g THEN rd.text ELSE files[g])
    BY DEF AloneAt, KeepsEdits
  <2>2. ASSUME NEW i \in 1 .. Len(new.plan), new.plan[i].file \in CodeFiles
        PROVE  new.plan[i].how # "force"
    <3>1. new.plan[i] = rd.plan[i + 1] /\ i + 1 \in 1 .. Len(rd.plan)
      BY <1>1, <2>2
    <3> QED
      BY <2>1, <2>2, <3>1
  <2>3. ASSUME NEW g \in CodeFiles PROVE Keeps(old[g], files1[g])
    <3>1. g \in Files
      BY FilesAre DEF CodeFiles
    <3>2. CASE g = f
      <4>1. how # "force"
        BY <1>1, <2>1, <3>2
      <4>2. Keeps(old[f], IF rd.pc = "append" THEN rd.text ELSE files[f])
        BY <2>1, <3>2
      <4> QED
        BY <1>0, <3>2, <4>1, <4>2
    <3>3. CASE g # f
      <4>1. Keeps(old[g], files[g])
        BY <2>1, <3>3
      <4> QED
        BY <1>0, <3>1, <3>3, <4>1
    <3> QED
      BY <3>2, <3>3
  <2> QED
    BY <2>2, <2>3 DEF KeepsEdits
<1> QED
  BY <1>4, <1>5, <1>6, <1>7, <1>8 DEF AloneAt

\* A code file that lacks names is opened for writing, its text in memory.
LEMMA TruncateAlone ==
  ASSUME NEW rd \in RunRecord, RunGood(rd), rd.pc = "truncate",
         NEW files \in Disks, NEW tmps, NEW old, AloneAt(rd, files, tmps, old),
         NEW new, Same(new, rd), new.plan = rd.plan, new.pc = "append", new.fd = rd.fd,
         new.names = rd.names, new.text = rd.text,
         NEW files1, files1 = [files EXCEPT ![rd.plan[1].file] = Torn]
  PROVE  AloneAt(new, files1, tmps, old)
<1> DEFINE f == rd.plan[1].file
<1>1. rd.plan # << >> /\ rd.plan[1].how = "stubs" /\ Busy(rd) /\ rd.plan \in Seq(Tasks)
  BY DEF RunGood, Busy, Stubbing, RunRecord
<1>2. 1 \in 1 .. Len(rd.plan) /\ rd.plan[1] \in Tasks
  BY <1>1, TailIs
<1>3. f \in CodeFiles /\ f \in Files
  BY <1>1, <1>2 DEF RunGood, Tasks
<1> HIDE DEF f
<1>4. files1[f] = Torn /\ \A g \in Files : g # f => files1[g] = files[g]
  BY <1>3, PutIs, ContentsAre DEF f
<1>5. Torn # Absent
  BY <1>3, ContentsAre
<1>6. Busy(new) /\ new.pc \notin Writing
  BY DEF Busy, Writing, Stubbing
<1>7. OwnFiles(new, files1, tmps)
  BY <1>6 DEF AloneAt, OwnFiles
<1>8. Unchanged(new, files1, old)
  <2>1. ASSUME new.verb = "init", NEW i \in 1 .. Len(rd.plan)
        PROVE  /\ rd.plan[i].how = "new" => files1[rd.plan[i].file] = Absent
               /\ \A j \in 1 .. Len(rd.plan) : rd.plan[i].file = rd.plan[j].file => i = j
    <3>1. /\ rd.plan[i].how = "new" => files[rd.plan[i].file] = Absent
          /\ \A j \in 1 .. Len(rd.plan) : rd.plan[i].file = rd.plan[j].file => i = j
      BY <1>1, <2>1 DEF AloneAt, Unchanged, Same
    <3>2. rd.plan[i].how = "new" => rd.plan[i].file # f
      BY <1>1, <1>2, <3>1 DEF f
    <3>3. rd.plan[i].file \in Files
      <4>1. rd.plan[i] \in Tasks
        BY <1>1
      <4> QED
        BY <4>1 DEF Tasks
    <3> QED
      BY <1>4, <3>1, <3>2, <3>3
  <2>2. new.verb # "example" /\ new.verb \in {"example", "init", "upgrade"}
    BY <1>1, <1>2 DEF AloneAt, Unchanged, Same
  <2>3. new.verb = "upgrade" => \A i \in 1 .. Len(new.plan) : new.plan[i].how # "new"
    BY DEF AloneAt, Unchanged, Same
  <2> QED
    BY <2>1, <2>2, <2>3 DEF Unchanged
<1>9. Progress(new, files1)
  <2> SUFFICES ASSUME Underway(new) PROVE Progress(new, files1)
    BY DEF Progress
  <2>1. Underway(rd) /\ new.spec = rd.spec
    BY <1>1 DEF Underway, Same
  <2>2. /\ rd.spec \in Specs
        /\ \A g \in Files \ {"pmstate.example.yaml"} :
             files[g] # Absent \/ Due(rd, g, {"new", "force", "missing"})
        /\ files["tree.py"] = Made(rd.spec, FALSE) \/ Due(rd, "tree.py", {"new", "force"})
        /\ \A g \in CodeFiles : Settled(files[g], rd.spec, g) \/ Due(rd, g, {"new", "force", "stubs"})
    BY <2>1 DEF AloneAt, Progress
  <2>3. \A g, hows : Due(new, g, hows) <=> Due(rd, g, hows)
    BY DueSame
  <2>4. \A g \in Files \ {"pmstate.example.yaml"} :
          files1[g] # Absent \/ Due(new, g, {"new", "force", "missing"})
    BY <1>4, <1>5, <2>2, <2>3
  <2>5. files1["tree.py"] = Made(rd.spec, FALSE) \/ Due(new, "tree.py", {"new", "force"})
    <3>1. "tree.py" \in Files /\ f # "tree.py"
      BY <1>3, FilesAre DEF CodeFiles
    <3> QED
      BY <1>4, <2>2, <2>3, <3>1
  <2>6. ASSUME NEW g \in CodeFiles
        PROVE  Settled(files1[g], rd.spec, g) \/ Due(new, g, {"new", "force", "stubs"})
    <3>1. g \in Files
      BY FilesAre DEF CodeFiles
    <3>2. Due(new, f, {"new", "force", "stubs"})
      BY <1>1, <1>2 DEF Due, f
    <3> QED
      BY <1>4, <2>2, <2>3, <3>1, <3>2
  <2> QED
    BY <2>1, <2>2, <2>4, <2>5, <2>6 DEF Progress
<1>10. Appending(new, files1)
  BY DEF AloneAt, Appending, Same
<1>11. KeepsEdits(new, files1, old)
  <2> SUFFICES ASSUME ~ rd.force PROVE KeepsEdits(new, files1, old)
    BY DEF KeepsEdits, Same
  <2>1. /\ \A i \in 1 .. Len(rd.plan) : rd.plan[i].file \in CodeFiles => rd.plan[i].how # "force"
        /\ \A g \in CodeFiles : Keeps(old[g], files[g])
    BY <1>1 DEF AloneAt, KeepsEdits
  <2>2. rd.text = files[f]
    BY DEF AloneAt, Appending, f
  <2>3. ASSUME NEW g \in CodeFiles
        PROVE  IF g = f THEN Keeps(old[g], rd.text) ELSE Keeps(old[g], files1[g])
    <3>1. g \in Files
      BY FilesAre DEF CodeFiles
    <3> QED
      BY <1>4, <2>1, <2>2, <3>1
  <2> QED
    BY <2>1, <2>3 DEF KeepsEdits, f
<1> QED
  BY <1>7, <1>8, <1>9, <1>10, <1>11 DEF AloneAt

\* Nothing is lost where there was nothing.
LEMMA AbsentKeeps ==
  ASSUME NEW old, Keeps(old, Absent), NEW c
  PROVE  Keeps(old, c)
<1>1. Bound(Absent) = {}
  BY DEF Bound, Defs, Absent
<1> QED
  BY <1>1 DEF Keeps

\* A file keeps what it has.
LEMMA KeepsAll ==
  ASSUME NEW c
  PROVE  Keeps(c, c)
BY BoundIs DEF Keeps

-----------------------------------------------------------------------------
(* One command at a time: every step. *)

\* With one process, Alone is a matter of its own record.
LEMMA AloneNow ==
  ASSUME OneProc, NEW p \in Procs, AloneAt(run'[p], disk', tmp', before'[p]),
         \A f \in Files \ CodeFiles : disk'[f] # Torn
  PROVE  Alone'
<1>1. \A q \in Procs : q = p
  BY DEF OneProc
<1> QED
  BY <1>1 DEF Alone, AtomicFiles

\* Every step of a command keeps Alone.
LEMMA WorkAlone ==
  ASSUME OneProc, ScaffoldTyped, Alone, NEW p \in Procs, Work(p)
  PROVE  Alone'
<1> DEFINE rd == run[p]
           new == run'[p]
           f == File(p)
           old == before[p]
           Kept == UNCHANGED <<before, commands, edits>>
<1>1. /\ rd \in RunRecord /\ RunGood(rd) /\ disk \in Disks /\ tmp \in Disks
      /\ rd.plan \in Seq(Tasks) /\ rd.spec \in Specs \union {None}
  BY RunFacts DEF Facts
<1>2. rd.plan # << >> => /\ f \in Files /\ This(p) = rd.plan[1] /\ f = rd.plan[1].file
                         /\ f \in CodeFiles => rd.spec \in Specs
                         /\ rd.plan[1].how = "stubs" => f \in CodeFiles
                         /\ disk[f] \in Contents(f) /\ tmp[f] \in Contents(f)
  BY AtTask, <1>1 DEF Disks
<1>3. AloneAt(rd, disk, tmp, old) /\ \A g \in Files \ CodeFiles : disk[g] # Torn
  BY DEF Alone, AtomicFiles
<1>4. \A pc, plan, exit : GoesOn(p, pc, plan, exit) => GoesOnAmong(p, pc, plan, exit)
  BY GoesOnAlone
<1>5. \A pc, plan, exit : GoesOnAmong(p, pc, plan, exit) =>
        /\ new.pc = pc /\ new.plan = plan /\ new.exit = exit /\ Same(new, rd)
  BY DEF GoesOnAmong, Same
<1>6. ASSUME AloneAt(new, disk', tmp', old), Kept, UNCHANGED disk PROVE Alone'
  BY <1>3, <1>6, AloneNow
<1>7. CASE Collide(p) \/ ReplaceFails(p) \/ Succeed(p) \/ WriteFails(p)
  <2>1. \E code \in {"ok", "refused", "failed"} :
          /\ GoesOnAmong(p, "done", << >>, code) /\ new.fd = "closed" /\ Busy(rd)
          /\ UNCHANGED disk /\ Kept
          /\ code = "refused" => /\ rd.pc = "task" /\ rd.plan # << >> /\ rd.plan[1].how = "new"
                                 /\ disk[rd.plan[1].file] # Absent
          /\ code = "ok" => rd.pc = "task" /\ rd.plan = << >>
    <3>1. CASE WriteFails(p)
      BY <3>1, WriteFailsDoes DEF Busy, Writing
    <3>2. CASE Collide(p) \/ ReplaceFails(p) \/ Succeed(p)
      BY <1>2, <1>4, <3>2, EndsDo
    <3> QED
      BY <1>7, <3>1, <3>2
  <2>2. AloneAt(new, disk, tmp', old)
    <3>1. PICK code \in {"ok", "refused", "failed"} :
          /\ GoesOnAmong(p, "done", << >>, code) /\ new.fd = "closed" /\ Busy(rd)
          /\ code = "refused" => /\ rd.pc = "task" /\ rd.plan # << >> /\ rd.plan[1].how = "new"
                                 /\ disk[rd.plan[1].file] # Absent
          /\ code = "ok" => rd.pc = "task" /\ rd.plan = << >>
      BY <2>1
    <3>2. new.pc = "done" /\ new.plan = << >> /\ new.exit = code /\ Same(new, rd)
      BY <1>5, <3>1
    <3> HIDE DEF new, rd, f, old
    <3> QED
      BY <1>1, <1>3, <3>1, <3>2, EndAlone
  <2> QED
    BY <1>6, <2>1, <2>2
<1>8. ASSUME NEW exit, GoesOnAmong(p, "task", Tail(rd.plan), exit), rd.plan # << >>, Busy(rd),
             new.fd = "closed", Kept, InPlace(rd, disk, disk'), disk'[f] = Torn => f \in CodeFiles
      PROVE  Alone'
  <2>1. new.pc = "task" /\ new.plan = Tail(rd.plan) /\ Same(new, rd)
    BY <1>5, <1>8
  <2>2. \A g \in Files \ CodeFiles : disk'[g] # Torn
    BY <1>2, <1>3, <1>8 DEF InPlace
  <2>3. AloneAt(new, disk', tmp', old)
    <3> HIDE DEF new, rd, f, old
    <3> QED
      BY <1>1, <1>3, <1>8, <2>1, AdvanceAlone
  <2> QED
    BY <1>8, <2>2, <2>3, AloneNow
<1>9. ASSUME NEW pc \in (Writing \union Stubbing) \ {"append"}, NEW exit,
             GoesOnAmong(p, pc, rd.plan, exit), rd.plan # << >>, Busy(rd), rd.pc # "append",
             UNCHANGED disk, Kept, OwnFiles(new, disk, tmp'), Appending(new, disk)
      PROVE  Alone'
  <2>1. new.pc = pc /\ new.plan = rd.plan /\ Same(new, rd)
    BY <1>5, <1>9
  <2>2. AloneAt(new, disk, tmp', old)
    <3> HIDE DEF new, rd, f, old
    <3> QED
      BY <1>1, <1>3, <1>9, <2>1, WithinAlone
  <2> QED
    BY <1>6, <1>9, <2>2
<1>10. CASE Skip(p)
  <2>1. /\ rd.pc = "task" /\ rd.plan # << >> /\ This(p).how = "missing" /\ disk[f] # Absent
        /\ GoesOn(p, "task", Tail(rd.plan), rd.exit) /\ new.fd = "closed"
        /\ UNCHANGED disk /\ Kept
    BY <1>10, SkipDoes
  <2>2. rd.plan[1].how = "missing" /\ Busy(rd) /\ f \in Files
    BY <1>2, <2>1 DEF Busy
  <2>3. GoesOnAmong(p, "task", Tail(rd.plan), rd.exit)
    BY <1>4, <2>1
  <2>4. disk[f] = Torn => f \in CodeFiles
    BY <1>3, <2>2
  <2>5. InPlace(rd, disk, disk')
    BY <1>2, <2>1, <2>2 DEF InPlace
  <2> HIDE DEF new, rd, f, old
  <2> QED
    BY <1>8, <2>1, <2>2, <2>3, <2>4, <2>5
<1>11. CASE Proceed(p)
  <2>1. /\ rd.pc = "task" /\ rd.plan # << >> /\ This(p).how # "stubs"
        /\ This(p).how # "force" => disk[f] = Absent
        /\ GoesOn(p, "open", rd.plan, rd.exit) /\ new.fd = rd.fd /\ UNCHANGED disk /\ Kept
    BY <1>11, ProceedDoes
  <2>2. rd.plan[1].how # "force" => disk[rd.plan[1].file] = Absent
    BY <1>2, <2>1
  <2>3. GoesOnAmong(p, "open", rd.plan, rd.exit) /\ new.pc = "open" /\ new.plan = rd.plan
    BY <1>4, <1>5, <2>1
  <2>4. OwnFiles(new, disk, tmp')
    BY <1>3, <2>1, <2>2, <2>3 DEF AloneAt, OwnFiles
  <2>5. Appending(new, disk)
    BY <2>3 DEF Appending
  <2>6. Busy(rd) /\ rd.pc # "append"
    BY <2>1 DEF Busy
  <2> HIDE DEF new, rd, f, old
  <2> QED
    BY <1>9, <2>1, <2>3, <2>4, <2>5, <2>6 DEF Writing, Stubbing
<1>12. CASE OpenTmp(p)
  <2>1. /\ rd.pc = "open" /\ rd.plan # << >> /\ GoesOn(p, "write", rd.plan, rd.exit) /\ new.fd = "tmp"
        /\ tmp' = [tmp EXCEPT ![f] = Torn] /\ UNCHANGED disk /\ Kept
    BY <1>12, OpenTmpDoes
  <2>2. GoesOnAmong(p, "write", rd.plan, rd.exit) /\ new.pc = "write" /\ new.plan = rd.plan
    BY <1>4, <1>5, <2>1
  <2>3. tmp'[rd.plan[1].file] = Torn
    BY <1>1, <1>2, <2>1 DEF Disks
  <2>4. OwnFiles(new, disk, tmp')
    BY <1>3, <2>1, <2>2, <2>3 DEF AloneAt, OwnFiles, Writing
  <2>5. Appending(new, disk)
    BY <2>2 DEF Appending
  <2>6. Busy(rd) /\ rd.pc # "append"
    BY <2>1 DEF Busy, Writing
  <2> HIDE DEF new, rd, f, old
  <2> QED
    BY <1>9, <2>1, <2>2, <2>4, <2>5, <2>6 DEF Writing, Stubbing
<1>13. CASE WriteTmp(p)
  <2> DEFINE c == Render(f, rd.spec)
  <2>1. /\ rd.pc = "write" /\ rd.plan # << >>
        /\ GoesOn(p, "replace", rd.plan, rd.exit) /\ new.fd = "closed"
        /\ IF rd.fd = "tmp" THEN \E w \in Overwritten(tmp[f], c) : tmp' = [tmp EXCEPT ![f] = w]
           ELSE UNCHANGED tmp
        /\ IF rd.fd = "destination"
           THEN \E w \in Overwritten(disk[f], c) : disk' = [disk EXCEPT ![f] = w]
           ELSE UNCHANGED disk
        /\ Kept
    BY <1>13, WriteTmpDoes
  <2>2. GoesOnAmong(p, "replace", rd.plan, rd.exit) /\ new.pc = "replace" /\ new.plan = rd.plan
        /\ new.spec = rd.spec
    BY <1>4, <1>5, <2>1 DEF Same
  <2>3. rd.fd = "tmp" /\ tmp[f] = Torn
    BY <1>1, <1>2, <1>3, <2>1 DEF AloneAt, OwnFiles, RunGood
  <2>4. Overwritten(tmp[f], c) = {c}
    BY <2>3 DEF Overwritten
  <2>5. tmp' = [tmp EXCEPT ![f] = c] /\ UNCHANGED disk
    <3> HIDE DEF c
    <3> QED
      BY <2>1, <2>3, <2>4
  <2>6. tmp'[f] = c
    BY <1>1, <1>2, <2>1, <2>5 DEF Disks
  <2>7. tmp'[new.plan[1].file] = Render(new.plan[1].file, new.spec)
    BY <1>2, <2>1, <2>2, <2>6
  <2>8. OwnFiles(new, disk, tmp')
    BY <1>3, <2>1, <2>2, <2>7 DEF AloneAt, OwnFiles, Writing
  <2>9. Appending(new, disk)
    BY <2>2 DEF Appending
  <2>10. Busy(rd) /\ rd.pc # "append"
    BY <2>1 DEF Busy, Writing
  <2> HIDE DEF new, rd, f, old, c
  <2> QED
    BY <1>9, <2>1, <2>2, <2>5, <2>8, <2>9, <2>10 DEF Writing, Stubbing
<1>14. CASE Replace(p)
  <2>1. /\ rd.pc = "replace" /\ rd.plan # << >>
        /\ GoesOnAmong(p, "task", Tail(rd.plan), rd.exit) /\ new.fd = "closed"
        /\ disk' = [disk EXCEPT ![f] = tmp[f]] /\ Kept
    BY <1>14, ReplaceDoes
  <2>2. tmp[f] = Render(f, rd.spec) /\ (rd.plan[1].how # "force" => disk[f] = Absent)
    BY <1>2, <1>3, <2>1 DEF AloneAt, OwnFiles, Writing
  <2>3. f \in Files /\ disk'[f] = Render(f, rd.spec) /\ \A g \in Files : g # f => disk'[g] = disk[g]
    BY <1>1, <1>2, <2>1, <2>2 DEF Disks
  <2>4. /\ disk'[f] # Absent /\ disk'[f] # Torn
        /\ f = "tree.py" => disk'[f] = Made(rd.spec, FALSE)
    BY <1>1, <1>2, <2>1, <2>3, RenderIs
  <2>5. f \in CodeFiles => Settled(disk'[f], rd.spec, f)
    BY <1>2, <2>1, <2>3, RenderSettles
  <2>6. rd.plan[1].how # "force" =>
          \A o : Keeps(o, IF rd.pc = "append" THEN rd.text ELSE disk[f]) => Keeps(o, disk'[f])
    BY <2>1, <2>2, AbsentKeeps
  <2>7. Busy(rd)
    BY <2>1 DEF Busy, Writing
  <2>8. InPlace(rd, disk, disk')
    BY <1>2, <2>1, <2>3, <2>4, <2>5, <2>6 DEF InPlace
  <2> HIDE DEF new, rd, f, old
  <2> QED
    BY <1>8, <2>1, <2>4, <2>7, <2>8
<1>15. CASE ReadNames(p)
  <2>1. /\ rd.pc = "task" /\ rd.plan # << >> /\ This(p).how = "stubs" /\ UNCHANGED disk /\ Kept
        /\ new.fd = "closed"
        /\ \/ MissingNames(p) = << >> /\ GoesOn(p, "task", Tail(rd.plan), rd.exit)
           \/ GoesOn(p, "read", rd.plan, rd.exit) /\ new.names = MissingNames(p)
    BY <1>15, ReadNamesDoes
  <2>2. /\ rd.plan[1].how = "stubs" /\ f \in CodeFiles /\ rd.spec \in Specs /\ f \in Files
        /\ f = rd.plan[1].file /\ Busy(rd)
    BY <1>2, <2>1 DEF Busy
  <2>3. CASE MissingNames(p) = << >> /\ GoesOn(p, "task", Tail(rd.plan), rd.exit)
    <3>1. Settled(disk[f], rd.spec, f)
      BY <2>2, <2>3, LacksNothing DEF MissingNames
    <3>2. f # "tree.py"
      BY <2>2 DEF CodeFiles
    <3>3. GoesOnAmong(p, "task", Tail(rd.plan), rd.exit)
      BY <1>4, <2>3
    <3>4. InPlace(rd, disk, disk')
      BY <2>1, <2>2, <3>1, <3>2 DEF InPlace
    <3> HIDE DEF new, rd, f, old
    <3> QED
      BY <1>8, <2>1, <2>2, <3>3, <3>4
  <2>4. CASE GoesOn(p, "read", rd.plan, rd.exit) /\ new.names = MissingNames(p)
    <3>1. GoesOnAmong(p, "read", rd.plan, rd.exit) /\ new.pc = "read" /\ new.plan = rd.plan
          /\ new.spec = rd.spec
      BY <1>4, <1>5, <2>4 DEF Same
    <3>2. OwnFiles(new, disk, tmp')
      BY <2>1, <3>1 DEF OwnFiles, Writing
    <3>3. Appending(new, disk)
      BY <2>2, <2>4, <3>1 DEF Appending, MissingNames
    <3> HIDE DEF new, rd, f, old
    <3> QED
      BY <1>9, <2>1, <2>2, <3>1, <3>2, <3>3 DEF Writing, Stubbing
  <2> QED
    BY <2>1, <2>3, <2>4
<1>16. CASE ReadText(p)
  <2>1. /\ rd.pc = "read" /\ rd.plan # << >> /\ GoesOn(p, "truncate", rd.plan, rd.exit)
        /\ new.fd = rd.fd /\ new.names = rd.names /\ new.text = disk[f] /\ UNCHANGED disk /\ Kept
    BY <1>16, ReadTextDoes
  <2>2. GoesOnAmong(p, "truncate", rd.plan, rd.exit) /\ new.pc = "truncate" /\ new.plan = rd.plan
        /\ new.spec = rd.spec
    BY <1>4, <1>5, <2>1 DEF Same
  <2>3. OwnFiles(new, disk, tmp')
    BY <1>3, <2>1, <2>2 DEF AloneAt, OwnFiles, Writing
  <2>4. Appending(new, disk)
    BY <1>2, <1>3, <2>1, <2>2 DEF AloneAt, Appending
  <2>5. Busy(rd) /\ rd.pc # "append"
    BY <2>1 DEF Busy, Stubbing
  <2> HIDE DEF new, rd, f, old
  <2> QED
    BY <1>9, <2>1, <2>2, <2>3, <2>4, <2>5 DEF Writing, Stubbing
<1>17. CASE TruncateCode(p)
  <2>1. /\ rd.pc = "truncate" /\ rd.plan # << >> /\ GoesOn(p, "append", rd.plan, rd.exit)
        /\ new.fd = rd.fd /\ new.names = rd.names /\ new.text = rd.text
        /\ disk' = [disk EXCEPT ![f] = Torn] /\ UNCHANGED tmp /\ Kept
    BY <1>17, TruncateDoes
  <2>2. new.pc = "append" /\ new.plan = rd.plan /\ Same(new, rd)
    BY <1>4, <1>5, <2>1
  <2>3. disk' = [disk EXCEPT ![rd.plan[1].file] = Torn] /\ f \in CodeFiles /\ f \in Files
    BY <1>1, <1>2, <2>1 DEF RunGood, Stubbing
  <2>4. AloneAt(new, disk', tmp, old)
    <3> HIDE DEF new, rd, f, old
    <3> QED
      BY <1>1, <1>3, <2>1, <2>2, <2>3, TruncateAlone
  <2>5. \A g \in Files \ CodeFiles : disk'[g] # Torn
    BY <1>1, <1>3, <2>1, <2>3 DEF Disks
  <2> QED
    BY <2>1, <2>4, <2>5, AloneNow
<1>18. CASE AppendStubs(p)
  <2> DEFINE c == Code(Defs(rd.text) \o StubsFor(rd.names), Parses(rd.text))
  <2>1. /\ rd.pc = "append" /\ rd.plan # << >> /\ GoesOn(p, "task", Tail(rd.plan), rd.exit)
        /\ new.fd = "closed" /\ disk' = [disk EXCEPT ![f] = c] /\ UNCHANGED tmp /\ Kept
    BY <1>18, AppendDoes
  <2>2. /\ rd.text \in Contents(f) /\ f \in CodeFiles /\ f \in Files /\ rd.spec \in Specs
        /\ f = rd.plan[1].file /\ Busy(rd)
    BY <1>1, <1>2, <2>1 DEF RunGood, Busy, Stubbing
  <2>3. rd.names \in Seq(Names)
    BY <1>1 DEF RunRecord
  <2>4. rd.names = Missing(Stubs[rd.spec][f], ExistingNames(rd.text))
    BY <1>3, <2>1, <2>2 DEF AloneAt, Appending
  <2> HIDE DEF new, rd, f, old
  <2>5. c \in Contents(f) /\ c # Absent
    BY <2>2, <2>3, AppendedIs
  <2>6. Settled(c, rd.spec, f)
    BY <2>2, <2>3, <2>4, AppendSettles
  <2>7. \A o : Keeps(o, rd.text) => Keeps(o, c)
    BY <2>2, <2>3, <2>4, AppendKeeps
  <2> HIDE DEF c
  <2>8. disk'[f] = c /\ \A g \in Files : g # f => disk'[g] = disk[g]
    BY <1>1, <2>1, <2>2, <2>5, PutIs
  <2>9. InPlace(rd, disk, disk')
    <3>1. f # "tree.py"
      BY <2>2 DEF CodeFiles
    <3> QED
      BY <2>1, <2>2, <2>5, <2>6, <2>7, <2>8, <3>1 DEF InPlace
  <2>10. GoesOnAmong(p, "task", Tail(rd.plan), rd.exit)
    BY <1>4, <2>1
  <2> QED
    BY <1>8, <2>1, <2>2, <2>9, <2>10
<1>19. CASE Return(p) \/ Kill(p)
  <2>1. new = Idle /\ UNCHANGED disk
    BY <1>19, GoneDoes DEF Return, Kill
  <2>2. AloneAt(new, disk', tmp', before'[p])
    BY <2>1, IdleIs, IdleAlone
  <2> QED
    BY <1>3, <2>1, <2>2, AloneNow
<1> QED
  BY <1>7, <1>10, <1>11, <1>12, <1>13, <1>14, <1>15, <1>16, <1>17, <1>18, <1>19 DEF Work

\* A command that refused at once has nothing to keep.
LEMMA RefusedAlone ==
  ASSUME NEW r, IsRefused(r), NEW files, NEW tmps
  PROVE  AloneAt(r, files, tmps, files)
<1>1. ~ Busy(r) /\ r.pc \notin Writing /\ \A i \in 1 .. Len(r.plan) : FALSE
  BY DEF IsRefused, Busy, Writing, Stubbing
<1> QED
  BY <1>1, KeepsAll DEF IsRefused, AloneAt, OwnFiles, Unchanged, Progress, Underway, Appending, KeepsEdits

\* The same for a command that starts.
LEMMA StartedAlone ==
  ASSUME NEW verb, NEW s, NEW force, NEW plan, NEW r, IsStarted(r, verb, s, force, plan),
         NEW files, NEW tmps, Unchanged(r, files, files), Progress(r, files),
         \A i \in 1 .. Len(plan) : plan[i].file \in CodeFiles /\ ~ force => plan[i].how # "force"
  PROVE  AloneAt(r, files, tmps, files)
<1>1. r.pc = "task" /\ r.pc \notin Writing
  BY DEF IsStarted, Writing
<1>2. KeepsEdits(r, files, files)
  BY <1>1, KeepsAll DEF KeepsEdits, IsStarted
<1> QED
  BY <1>1, <1>2 DEF IsStarted, AloneAt, OwnFiles, Appending

\* A command that begins keeps Alone.
LEMMA BeginAlone ==
  ASSUME OneProc, Alone, NEW p \in Procs, NEW r, Begins(p, r), AloneAt(r, disk, tmp, disk)
  PROVE  Alone'
<1>1. run'[p] = r /\ before'[p] = disk /\ disk' = disk /\ tmp' = tmp
  BY DEF Begins
<1>2. \A f \in Files \ CodeFiles : disk'[f] # Torn
  BY <1>1 DEF Alone, AtomicFiles
<1> QED
  BY <1>1, <1>2, AloneNow

\* init without flags keeps Alone when it begins.
LEMMA ExampleAlone ==
  ASSUME OneProc, ScaffoldTyped, Alone, NEW p \in Procs, Example(p)
  PROVE  Alone'
<1> DEFINE plan == <<Task("pmstate.example.yaml", "new")>>
<1>1. PICK r : Begins(p, r) /\ IsStarted(r, "example", None, FALSE, plan)
  BY ExampleDoes
<1>2. Len(plan) = 1 /\ \A i \in 1 .. Len(plan) : plan[i].how = "new"
  BY DEF Task
<1> HIDE DEF plan
<1>3. r.pc = "task" /\ r.verb = "example" /\ r.plan = plan /\ Len(plan) <= 1
  BY <1>1, <1>2 DEF IsStarted
<1>4. Unchanged(r, disk, disk)
  BY <1>2, <1>3 DEF Unchanged
<1>5. Progress(r, disk)
  BY <1>3 DEF Progress, Underway
<1>6. AloneAt(r, disk, tmp, disk)
  BY <1>1, <1>2, <1>4, <1>5, StartedAlone
<1> QED
  BY <1>1, <1>6, BeginAlone

\* So does init --from-spec: it looked at every destination.
LEMMA FromSpecAlone ==
  ASSUME OneProc, ScaffoldTyped, Alone, NEW p \in Procs, NEW s \in Specs, NEW force \in BOOLEAN,
         NEW inPlace \in BOOLEAN, FromSpec(p, s, force, inPlace)
  PROVE  Alone'
<1> DEFINE plan == InitPlan(force, inPlace)
<1>1. PICK r : /\ Begins(p, r)
               /\ \/ IsRefused(r) /\ r.verb = "init"
                  \/ /\ IsStarted(r, "init", s, force, plan)
                     /\ inPlace => disk["pmstate.yaml"] # Absent
                     /\ ~ force => \A f \in GeneratedFiles \union
                                              (IF inPlace THEN {} ELSE {"pmstate.yaml"}) :
                                     disk[f] = Absent
  BY FromSpecDoes
<1>2. /\ plan \in Seq(Tasks)
      /\ \A i \in 1 .. Len(plan) :
           /\ ~ force => plan[i].how # "force"
           /\ plan[i].how = "new" => /\ ~ force
                                     /\ plan[i].file \in GeneratedFiles \union
                                          (IF inPlace THEN {} ELSE {"pmstate.yaml"})
           /\ \A j \in 1 .. Len(plan) : plan[i].file = plan[j].file => i = j
      /\ \A f \in GeneratedFiles : \E j \in 1 .. 6 :
           j \in 1 .. Len(plan) /\ plan[j].file = f /\ plan[j].how \in {"new", "force"}
      /\ \E i \in 1 .. Len(plan) : plan[i].file = ".gitignore" /\ plan[i].how \in {"force", "missing"}
      /\ ~ inPlace => \E i \in 1 .. Len(plan) :
                        plan[i].file = "pmstate.yaml" /\ plan[i].how \in {"new", "force"}
  BY SMTT(30), InitPlanGood
<1> HIDE DEF plan
<1>3. CASE IsRefused(r)
  BY <1>1, <1>3, RefusedAlone, BeginAlone
<1>4. CASE /\ IsStarted(r, "init", s, force, plan)
           /\ inPlace => disk["pmstate.yaml"] # Absent
           /\ ~ force => \A f \in GeneratedFiles \union
                                    (IF inPlace THEN {} ELSE {"pmstate.yaml"}) :
                           disk[f] = Absent
  <2>1. r.pc = "task" /\ r.verb = "init" /\ r.plan = plan /\ r.spec = s
    BY <1>4 DEF IsStarted
  <2>2. \A i \in 1 .. Len(plan) : plan[i].how = "new" => disk[plan[i].file] = Absent
    BY <1>2, <1>4
  <2>3. Unchanged(r, disk, disk)
    BY <1>2, <2>1, <2>2 DEF Unchanged
  <2>4. \A f \in GeneratedFiles : Due(r, f, {"new", "force"})
    BY <1>2, <2>1 DEF Due
  <2>5. ASSUME NEW f \in GeneratedFiles
        PROVE  Due(r, f, {"new", "force", "missing"}) /\ Due(r, f, {"new", "force", "stubs"})
    BY <2>4 DEF Due
  <2>6. Due(r, ".gitignore", {"new", "force", "missing"})
    BY <1>2, <2>1 DEF Due
  <2>7. disk["pmstate.yaml"] # Absent \/ Due(r, "pmstate.yaml", {"new", "force", "missing"})
    BY <1>2, <1>4, <2>1 DEF Due
  <2>8. ASSUME NEW f \in Files \ {"pmstate.example.yaml"}
        PROVE  disk[f] # Absent \/ Due(r, f, {"new", "force", "missing"})
    <3>1. f \in GeneratedFiles \/ f = ".gitignore" \/ f = "pmstate.yaml"
      BY FilesAre
    <3> QED
      BY <2>5, <2>6, <2>7, <3>1
  <2>9. "tree.py" \in GeneratedFiles /\ CodeFiles \subseteq GeneratedFiles
    BY FilesAre DEF CodeFiles
  <2>10. Progress(r, disk)
    BY <2>1, <2>4, <2>5, <2>8, <2>9 DEF Progress
  <2>11. AloneAt(r, disk, tmp, disk)
    BY <1>2, <1>4, <2>3, <2>10, StartedAlone
  <2> QED
    BY <1>1, <2>11, BeginAlone
<1> QED
  BY <1>1, <1>3, <1>4

\* So does init --upgrade: it has a pmstate.yaml.
LEMMA UpgradeAlone ==
  ASSUME OneProc, ScaffoldTyped, Alone, NEW p \in Procs, NEW force \in BOOLEAN, Upgrade(p, force)
  PROVE  Alone'
<1> DEFINE plan == UpgradePlan(force)
<1>1. PICK r : /\ Begins(p, r)
               /\ \/ IsRefused(r) /\ r.verb = "upgrade"
                  \/ /\ disk["pmstate.yaml"] # Absent
                     /\ \E s \in Specs : IsStarted(r, "upgrade", s, force, plan)
  BY UpgradeDoes
<1>2. /\ plan \in Seq(Tasks)
      /\ \A i \in 1 .. Len(plan) :
           /\ plan[i].how # "new"
           /\ ~ force /\ plan[i].file \in CodeFiles => plan[i].how # "force"
      /\ \A f \in Files \ {"pmstate.example.yaml", "pmstate.yaml"} :
           \E i \in 1 .. Len(plan) : plan[i].file = f /\ plan[i].how \in {"force", "missing"}
      /\ \A f \in CodeFiles :
           \E i \in 1 .. Len(plan) : plan[i].file = f /\ plan[i].how \in {"force", "stubs"}
      /\ \E i \in 1 .. Len(plan) : plan[i].file = "tree.py" /\ plan[i].how = "force"
  BY UpgradePlanGood
<1> HIDE DEF plan
<1>3. CASE IsRefused(r)
  BY <1>1, <1>3, RefusedAlone, BeginAlone
<1>4. ASSUME disk["pmstate.yaml"] # Absent, NEW s \in Specs, IsStarted(r, "upgrade", s, force, plan)
      PROVE  Alone'
  <2>1. r.pc = "task" /\ r.verb = "upgrade" /\ r.plan = plan /\ r.spec = s
    BY <1>4 DEF IsStarted
  <2>2. Unchanged(r, disk, disk)
    BY <1>2, <2>1 DEF Unchanged
  <2>3. ASSUME NEW f \in Files \ {"pmstate.example.yaml"}
        PROVE  disk[f] # Absent \/ Due(r, f, {"new", "force", "missing"})
    BY <1>2, <1>4, <2>1 DEF Due
  <2>4. \A f \in CodeFiles : Due(r, f, {"new", "force", "stubs"})
    BY <1>2, <2>1 DEF Due
  <2>5. Due(r, "tree.py", {"new", "force"})
    BY <1>2, <2>1 DEF Due
  <2>6. Progress(r, disk)
    BY <2>1, <2>3, <2>4, <2>5 DEF Progress
  <2>7. AloneAt(r, disk, tmp, disk)
    BY <1>2, <1>4, <2>2, <2>6, StartedAlone
  <2> QED
    BY <1>1, <2>7, BeginAlone
<1> QED
  BY <1>1, <1>3, <1>4

\* So does the user, who edits while no command runs.
LEMMA UserAlone ==
  ASSUME OneProc, ScaffoldTyped, Alone, User
  PROVE  Alone'
<1>1. (\A p \in Procs : run[p].pc = "idle") /\ UNCHANGED <<tmp, run, before>>
  BY UserDoes
<1>2. ASSUME NEW p \in Procs PROVE AloneAt(run'[p], disk', tmp', before'[p])
  <2>1. run[p].pc = "idle" /\ RunGood(run[p]) /\ run'[p] = run[p]
    BY <1>1, RunFacts
  <2>2. run[p].plan = << >> /\ run[p].fd = "closed"
    <3>1. run[p] \in RunRecord
      BY DEF ScaffoldTyped
    <3> QED
      BY <2>1, <3>1 DEF RunGood, Busy, Writing, Stubbing, RunRecord
  <2> QED
    BY <2>1, <2>2, IdleAlone
<1>3. PICK f \in Files : \E c \in Contents(f) : disk' = [disk EXCEPT ![f] = c] /\ c # Torn
  BY UserDoes
<1>4. PICK c \in Contents(f) : disk' = [disk EXCEPT ![f] = c] /\ c # Torn
  BY <1>3
<1>5. disk \in Disks /\ \A g \in Files \ CodeFiles : disk[g] # Torn
  BY DEF ScaffoldTyped, Alone, AtomicFiles
<1>6. \A g \in Files : disk'[g] # disk[g] => disk'[g] # Torn
  BY <1>4, <1>5, PutIs
<1> QED
  BY <1>2, <1>5, <1>6 DEF Alone, AtomicFiles

\* Every step keeps Alone.
LEMMA NextAlone ==
  ASSUME OneProc, ScaffoldTyped, Alone, [Next]_vars
  PROVE  Alone'
<1>1. CASE UNCHANGED vars
  BY <1>1 DEF vars, Alone, AtomicFiles
<1> QED
  BY <1>1, WorkAlone, ExampleAlone, FromSpecAlone, UpgradeAlone, UserAlone DEF Next

\* Alone holds at first.
LEMMA InitAlone == Init => Alone
<1> SUFFICES ASSUME Init PROVE Alone
  OBVIOUS
<1>1. \A p \in Procs : AloneAt(run[p], disk, tmp, before[p])
  BY IdleIs, IdleAlone DEF Init
<1>2. AtomicFiles
  BY ContentsAre DEF Init, AtomicFiles
<1> QED
  BY <1>1, <1>2 DEF Alone

\* While one command runs at a time, the invariant Alone holds, whatever dies
\* or fails.
LEMMA AlwaysAlone ==
  ASSUME OneProc
  PROVE  Spec => [](ScaffoldTyped /\ Alone)
<1>1. ScaffoldTyped /\ Alone /\ [Next]_vars => Alone'
  BY NextAlone
<1> QED
  BY <1>1, InitAlone, ScaffoldIsTyped, PTL DEF Spec

\* "Write contents to path atomically" (_io.py:10): one command at a time never
\* leaves a file but a code file half written, whatever dies or fails.
THEOREM WritesAreAtomic ==
  ASSUME OneProc
  PROVE  Spec => []AtomicFiles
<1>1. Alone => AtomicFiles
  BY DEF Alone
<1> QED
  BY <1>1, AlwaysAlone, PTL

\* "Refuses on collision unless force" (_io.py:10): one command at a time never
\* moves a file onto one that exists, unless it was told to.
THEOREM NothingIsOverwritten ==
  ASSUME OneProc
  PROVE  Spec => []RefusesCollision
<1>1. ScaffoldTyped /\ Alone => RefusesCollision
  <2> SUFFICES ASSUME ScaffoldTyped, Alone, NEW p \in Procs, At(p, "replace"), This(p).how # "force"
               PROVE  ~ Exists(File(p))
    BY DEF RefusesCollision
  <2>1. run[p].plan # << >> /\ run[p].pc = "replace"
    BY DEF At
  <2>2. disk[run[p].plan[1].file] = Absent
    BY <2>1, AtTask DEF Alone, AloneAt, OwnFiles, Writing
  <2> QED
    BY <2>1, <2>2, AtTask DEF Exists
<1> QED
  BY <1>1, AlwaysAlone, PTL

\* A command that refuses has changed no file: init looks at every destination
\* before it writes one, and nothing else can refuse half way.
THEOREM RefusalIsClean ==
  ASSUME OneProc
  PROVE  Spec => []RefusalChangesNothing
<1>1. Alone => RefusalChangesNothing
  BY DEF Alone, AloneAt, Unchanged, RefusalChangesNothing
<1> QED
  BY <1>1, AlwaysAlone, PTL

\* What a command that returned 0 leaves behind.
LEMMA WhenOk ==
  ASSUME ScaffoldTyped, Alone, NEW p \in Procs, Returned(p, {"init", "upgrade"})
  PROVE  /\ run[p].spec \in Specs
         /\ \A f \in Files \ {"pmstate.example.yaml"} : disk[f] # Absent
         /\ disk["tree.py"] = Made(run[p].spec, FALSE)
         /\ \A f \in CodeFiles : Settled(disk[f], run[p].spec, f)
<1>1. run[p].plan = << >>
  BY RunFacts DEF Returned, RunGood, Busy, Writing, Stubbing
<1>2. \A f, hows : ~ Due(run[p], f, hows)
  BY <1>1 DEF Due
<1>3. Progress(run[p], disk) /\ Underway(run[p])
  BY DEF Alone, AloneAt, Returned, Underway
<1> QED
  BY <1>2, <1>3 DEF Progress

\* A command that returned 0 leaves a whole project, however many died before
\* it: every file is there and every name that tree.py imports is bound.
THEOREM SuccessIsWhole ==
  ASSUME OneProc
  PROVE  Spec => []SuccessMeansComplete
<1>1. ScaffoldTyped /\ Alone => SuccessMeansComplete
  <2> SUFFICES ASSUME ScaffoldTyped, Alone, NEW p \in Procs, Returned(p, {"init", "upgrade"})
               PROVE  /\ \A f \in Files \ {"pmstate.example.yaml"} :
                           Exists(f) /\ (disk[f] = Torn => f \in CodeFiles)
                      /\ \A f \in CodeFiles : Declared(disk["tree.py"].spec, f) \subseteq Bound(disk[f])
    BY DEF SuccessMeansComplete
  <2>1. \A f \in Files \ CodeFiles : disk[f] # Torn
    BY DEF Alone, AtomicFiles
  <2>2. disk["tree.py"] = Made(run[p].spec, FALSE)
    BY WhenOk
  <2>3. disk["tree.py"].spec = run[p].spec
    BY <2>2 DEF Made
  <2> QED
    BY <2>1, <2>3, WhenOk DEF Exists, Settled
<1> QED
  BY <1>1, AlwaysAlone, PTL

\* Once --upgrade returned 0, running it again with the same spec would append
\* nothing to a file that parses ("idempotent when the spec is unchanged",
\* docs/cli.md:51-52).
THEOREM UpgradeIsSettled ==
  ASSUME OneProc
  PROVE  Spec => []UpgradeSettles
<1>1. ScaffoldTyped /\ Alone => UpgradeSettles
  <2> SUFFICES ASSUME ScaffoldTyped, Alone, NEW p \in Procs, Returned(p, {"upgrade"}),
                      NEW f \in CodeFiles, Parses(disk[f])
               PROVE  Declared(run[p].spec, f) \subseteq ExistingNames(disk[f])
    BY DEF UpgradeSettles
  <2>1. Returned(p, {"init", "upgrade"})
    BY DEF Returned
  <2> QED
    BY <2>1, WhenOk DEF Settled
<1> QED
  BY <1>1, AlwaysAlone, PTL

\* The views and reducers the user wrote are still the ones in force after a
\* command without --force that ran to its end ("without overwriting your
\* existing edits", agents_md.tmpl:34-35).
THEOREM EditsAreKept ==
  ASSUME OneProc
  PROVE  Spec => []EditsInForce
<1>1. Alone => EditsInForce
  <2> SUFFICES ASSUME Alone, NEW p \in Procs, run[p].pc = "done",
                      run[p].exit \in {"ok", "refused"}, ~ run[p].force, NEW f \in CodeFiles
               PROVE  \A i \in 1 .. Len(Defs(before[p][f])) :
                        LET d == Defs(before[p][f])[i]
                        IN  d = InForce(before[p][f], d.name) /\ d.own /\ d.form = "def"
                            /\ Parses(before[p][f])
                            => d.name \in Bound(disk[f]) /\ InForce(disk[f], d.name) = d
    BY DEF EditsInForce
  <2>1. Keeps(before[p][f], disk[f])
    BY DEF Alone, AloneAt, KeepsEdits
  <2> QED
    BY <2>1 DEF Keeps
<1> QED
  BY <1>1, AlwaysAlone, PTL
=============================================================================
