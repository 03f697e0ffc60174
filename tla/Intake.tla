-------------------------------- MODULE Intake --------------------------------
(***************************************************************************)
(* Everything that puts events into a project's logs: pmstate append, the  *)
(* append_event tool of pmstate run --write, and pmstate seed.  They share *)
(* the log files, pmstate.yaml and tree.py with each other and with the    *)
(* user, who edits the last two at any time.                               *)
(*                                                                         *)
(* An append is one step here, once the file is open: a log is the         *)
(* sequence of what the appends left in it, each a whole line or, when the *)
(* append failed or its process was killed, less.  How the bytes of two    *)
(* appends may interleave is the subject of EventLog.                      *)
(***************************************************************************)
EXTENDS Integers, Sequences, FiniteSets

CONSTANTS
  Callers,   \* processes that run pmstate append or pmstate run --write
  Seeders,   \* processes that run pmstate seed
  Logs,      \* log files
  Inside,    \* those under state/
  Specs,     \* contents of pmstate.yaml
  Schema,    \* Schema[s]: the types spec s declares, each with its fields' types
  Trees,     \* contents of tree.py
  Nodes,     \* Nodes[t]: the paths of tree t, each with its log or None
  Leaves,    \* Leaves[t]: the logs of t in the order of a walk
  About,     \* About[e]: the leaf whose name type e starts with, or None
  Named,     \* the types that match envelope._TYPE_REGEX
  Requests,  \* what callers ask to append
  Counts,    \* values of --n
  MaxCalls,  \* bound: requests
  MaxSeeds,  \* bound: runs of pmstate seed
  MaxEdits,  \* bound: edits of pmstate.yaml and tree.py
  MaxBroken, \* bound: appends to a log file that break off
  None

Procs == Callers \union Seeders

Types == UNION {DOMAIN Schema[s] : s \in Specs}

\* What is in a log: spec is history, the version the event was validated
\* against or made from; the data of an event are its fields' types.
LogEvents ==
  [id : {"ulid", "seed"} \X Nat, type : Types,
   data : UNION {{Schema[s][e] : e \in DOMAIN Schema[s]} : s \in Specs}, spec : Specs]

\* What an append leaves in the file: the event's line, the object without its
\* newline, or less.
Lefts == {"line", "object", "part"}

Appends == [ev : LogEvents, left : Lefts]

ASSUME ProjectAssumption ==
  /\ Callers \intersect Seeders = {}
  /\ Inside \subseteq Logs /\ None \notin Logs \union Specs \union Trees \union Types
  /\ None \notin Seq(Appends)
  /\ \A s \in Specs : \A e \in DOMAIN Schema[s] :
       Schema[s][e] = [f \in DOMAIN Schema[s][e] |-> Schema[s][e][f]]
  /\ \A t \in Trees :
       /\ Leaves[t] \in Seq(Logs)
       /\ {Leaves[t][i] : i \in 1 .. Len(Leaves[t])} = {Nodes[t][x] : x \in DOMAIN Nodes[t]} \ {None}
ASSUME CountAssumption ==
  /\ Counts \subseteq Int /\ MaxCalls \in Nat /\ MaxSeeds \in Nat
  /\ MaxEdits \in Nat /\ MaxBroken \in Nat

VARIABLES
  spec,     \* pmstate.yaml; None: missing, or it does not parse
  tree,     \* tree.py; None: missing, or it cannot be imported
  logs,     \* what the appends to each log file left there; None: there is no such file
  others,   \* state/ holds files that are not logs
  proc,     \* each process: what it does and where it is
  calls,    \* requests so far
  answers,  \* history: what the callers were told of each request
  wiped,    \* history: the requests whose appends had opened a file that was removed since
  seeds,    \* runs of pmstate seed so far
  edits     \* edits so far

vars == <<spec, tree, logs, others, proc, calls, answers, wiped, seeds, edits>>

-----------------------------------------------------------------------------
(* prepare_append. *)

\* Mutant: isinstance(True, int).
CoercibleBool(kind, type) ==
  kind = type \/ (kind = "int" /\ type = "float") \/ (kind = "bool" /\ type = "int")

\* coerce_field accepts a value of its own type, and an int for a float.
Coercible(kind, type) == kind = type \/ (kind = "int" /\ type = "float")

Coerced(kind, type) == IF kind = "int" /\ type = "float" THEN "float" ELSE kind

\* _resolve_node, _check_log_leaf.
IsLogLeaf(t, path) == path \in DOMAIN Nodes[t] /\ Nodes[t][path] # None

\* The type is declared and the data, which is an object, has the keys of its
\* schema with values of their types.
Fits(s, type, data) ==
  /\ type \in DOMAIN Schema[s]
  /\ data # None
  /\ LET fields == Schema[s][type]
     IN  DOMAIN data = DOMAIN fields /\ \A f \in DOMAIN fields : Coercible(data[f], fields[f])

\* What Event checks, and raises for: the type's form, which parse_spec does
\* not look at, and that the source is a path.
WellFormed(q) == q.type \in Named /\ q.rooted

\* Measuring the event fails on a lone surrogate.
Verdict(s, t, q) ==
  IF ~ IsLogLeaf(t, q.path) \/ ~ Fits(s, q.type, q.data) THEN "issues"
  ELSE IF ~ WellFormed(q) \/ q.text = "surrogate" THEN "raised"
  ELSE IF q.text = "long" THEN "issues"
  ELSE "ready"

Event(id, type, data, s) == [id |-> id, type |-> type, data |-> data, spec |-> s]

NewEvent(k, s, q) ==
  LET fields == Schema[s][q.type]
  IN  Event(<<"ulid", k>>, q.type,
            [f \in DOMAIN fields \intersect DOMAIN q.data |-> Coerced(q.data[f], fields[f])], s)

-----------------------------------------------------------------------------
(* What pmstate seed generates. *)

LeafFor(t, i) == Leaves[t][(i % Len(Leaves[t])) + 1]

\* The types that start with the leaf's name, or else all of them.
Pool(s, l) ==
  LET matches == {e \in DOMAIN Schema[s] : About[e] = l}
  IN  IF matches = {} THEN DOMAIN Schema[s] ELSE matches

\* The random number generator starts from a fixed seed: the choice is the same
\* in every run.
Pick(s, t, i) == CHOOSE e \in Pool(s, LeafFor(t, i)) : TRUE

SeedEvent(s, t, i) == Event(<<"seed", i>>, Pick(s, t, i), Schema[s][Pick(s, t, i)], s)

IsSeed(ev) == ev.id[1] = "seed"

-----------------------------------------------------------------------------
Idle == [verb |-> None, pc |-> "idle", spec |-> None, tree |-> None, log |-> None,
         linked |-> TRUE, ev |-> None, id |-> 0, force |-> FALSE, n |-> 0, i |-> 0,
         wipe |-> << >>]

Init ==
  /\ spec \in Specs /\ tree \in Trees
  /\ logs = [l \in Logs |-> None]
  /\ others \in BOOLEAN
  /\ proc = [p \in Procs |-> Idle]
  /\ calls = 0 /\ seeds = 0 /\ edits = 0
  /\ answers = {}
  /\ wiped = {}

\* append and seed read pmstate.yaml before tree.py, run --write after it.
Start(p, verb) ==
  /\ proc[p].pc = "idle"
  /\ proc' = [proc EXCEPT ![p] = [Idle EXCEPT !.verb = verb,
                                   !.pc = IF verb = "run" THEN "tree" ELSE "spec"]]
  /\ UNCHANGED <<spec, tree, logs, others, calls, answers, wiped, seeds, edits>>

StartSeed(p, n, force) ==
  /\ proc[p].pc = "idle" /\ seeds < MaxSeeds
  /\ seeds' = seeds + 1
  /\ proc' = [proc EXCEPT ![p] = [Idle EXCEPT !.verb = "seed", !.pc = "spec",
                                              !.n = n, !.force = force]]
  /\ UNCHANGED <<spec, tree, logs, others, calls, answers, wiped, edits>>

\* What cannot be loaded ends the command.
LoadSpec(p) ==
  /\ proc[p].pc = "spec"
  /\ proc' = [proc EXCEPT ![p] =
       IF spec = None THEN Idle
       ELSE [proc[p] EXCEPT !.spec = spec, !.pc = IF proc[p].verb = "run" THEN "ready" ELSE "tree"]]
  /\ UNCHANGED <<spec, tree, logs, others, calls, answers, wiped, seeds, edits>>

LoadTree(p) ==
  /\ proc[p].pc = "tree"
  /\ proc' = [proc EXCEPT ![p] =
       IF tree = None THEN Idle
       ELSE [proc[p] EXCEPT !.tree = tree,
               !.pc = CASE proc[p].verb = "run" -> "spec"
                        [] proc[p].verb = "append" -> "ready"
                        [] proc[p].verb = "seed" -> "check"]]
  /\ UNCHANGED <<spec, tree, logs, others, calls, answers, wiped, seeds, edits>>

-----------------------------------------------------------------------------
(* append_event, for callers and seeders. *)

\* open("ab") creates the file.
Open(p) ==
  /\ proc[p].pc = "open"
  /\ logs' = [logs EXCEPT ![proc[p].log] = IF @ = None THEN << >> ELSE @]
  /\ proc' = [proc EXCEPT ![p] = [proc[p] EXCEPT !.pc = "write", !.linked = TRUE]]
  /\ UNCHANGED <<spec, tree, others, calls, answers, wiped, seeds, edits>>

Left(p, left) == [ev |-> proc[p].ev, left |-> left]

\* Mutant: open("wb").
WrittenOver(p, left) ==
  [logs EXCEPT ![proc[p].log] = IF proc[p].linked THEN <<Left(p, left)>> ELSE @]

\* The event goes to the file that was opened, removed or not.
Written(p, left) ==
  [logs EXCEPT ![proc[p].log] = IF proc[p].linked THEN Append(@, Left(p, left)) ELSE @]

Write(p) ==
  /\ proc[p].pc = "write"
  /\ logs' = Written(p, "line")
  /\ proc' = [proc EXCEPT ![p] =
       IF proc[p].verb = "seed" THEN [proc[p] EXCEPT !.pc = "seed", !.i = proc[p].i + 1]
       ELSE [proc[p] EXCEPT !.pc = "answer"]]
  /\ UNCHANGED <<spec, tree, others, calls, answers, wiped, seeds, edits>>

Appended(l) == IF logs[l] = None THEN << >> ELSE logs[l]

BrokenOff(l) == {i \in 1 .. Len(Appended(l)) : logs[l][i].left # "line"}

\* An append that does not end well leaves nothing, part of its line, or all of
\* it: the write, its flush or the close fails, or the process is killed.
CutShort(p) ==
  \/ UNCHANGED logs
  \/ /\ proc[p].pc = "write"
     /\ Cardinality(BrokenOff(proc[p].log)) < MaxBroken
     /\ \E left \in Lefts : logs' = Written(p, left)

-----------------------------------------------------------------------------
(* pmstate append and the append_event tool. *)

\* pmstate append exits after its one request, the harness takes another.
Answered(p) ==
  [proc EXCEPT ![p] =
     IF proc[p].verb = "append" THEN Idle
     ELSE [Idle EXCEPT !.verb = "run", !.pc = "ready", !.spec = proc[p].spec,
                       !.tree = proc[p].tree]]

\* A request; it may be one that was made before, whose answer was an error or
\* got lost on its way to the agent: nothing tells the two apart.
Call(p, q) ==
  LET verdict == Verdict(proc[p].spec, proc[p].tree, q)
  IN  /\ proc[p].pc = "ready" /\ calls < MaxCalls
      /\ calls' = calls + 1
      /\ IF verdict = "ready"
         THEN /\ proc' = [proc EXCEPT ![p] =
                   [proc[p] EXCEPT !.pc = "open", !.id = calls',
                                   !.log = Nodes[proc[p].tree][q.path],
                                   !.ev = NewEvent(calls', proc[p].spec, q)]]
              /\ UNCHANGED answers
         ELSE /\ proc' = Answered(p)
              /\ answers' = answers \union {[id |-> calls', status |-> verdict, log |-> None]}
      /\ UNCHANGED <<spec, tree, logs, others, wiped, seeds, edits>>

Answer(p) ==
  /\ proc[p].pc = "answer"
  /\ answers' = answers \union {[id |-> proc[p].id, status |-> "ok", log |-> proc[p].log]}
  /\ proc' = Answered(p)
  /\ UNCHANGED <<spec, tree, logs, others, calls, wiped, seeds, edits>>

\* OSError: an issue of pmstate append, an error of the tool, the end of seed.
AppendFails(p) ==
  /\ proc[p].pc \in {"open", "write"}
  /\ CutShort(p)
  /\ IF proc[p].verb = "seed"
     THEN proc' = [proc EXCEPT ![p] = Idle] /\ UNCHANGED answers
     ELSE /\ answers' = answers \union
               {[id |-> proc[p].id, status |-> "failed", log |-> proc[p].log]}
          /\ proc' = Answered(p)
  /\ UNCHANGED <<spec, tree, others, calls, wiped, seeds, edits>>

-----------------------------------------------------------------------------
(* pmstate seed. *)

\* Mutant: only the files that are not logs are looked for.
StateHasNoOthers == ~ others

StateIsWritable == ~ others /\ \A l \in Inside : logs[l] = None

\* Mutant: only the leaves that get an event are wiped.
CheckWipesUsed(p) ==
  LET s == proc[p].spec
      t == proc[p].tree
      used == IF proc[p].n < Len(Leaves[t]) THEN proc[p].n ELSE Len(Leaves[t])
      refused == \/ Leaves[t] = << >>
                 \/ ~ proc[p].force /\ ~ StateIsWritable
                 \/ DOMAIN Schema[s] = {}
  IN  /\ proc[p].pc = "check"
      /\ proc' = [proc EXCEPT ![p] =
           IF refused THEN Idle
           ELSE [proc[p] EXCEPT
                   !.pc = "wipe",
                   !.wipe = IF proc[p].force THEN SubSeq(Leaves[t], 1, used) ELSE << >>]]
      /\ UNCHANGED <<spec, tree, logs, others, calls, answers, wiped, seeds, edits>>

\* No leaves, a state that is in use, no event types: nothing is done.
Check(p) ==
  LET s == proc[p].spec
      t == proc[p].tree
      refused == \/ Leaves[t] = << >>
                 \/ ~ proc[p].force /\ ~ StateIsWritable
                 \/ DOMAIN Schema[s] = {}
  IN  /\ proc[p].pc = "check"
      /\ proc' = [proc EXCEPT ![p] =
           IF refused THEN Idle
           ELSE [proc[p] EXCEPT !.pc = "wipe", !.wipe = IF proc[p].force THEN Leaves[t] ELSE << >>]]
      /\ UNCHANGED <<spec, tree, logs, others, calls, answers, wiped, seeds, edits>>

\* The requests whose events are in log l, or whose appends have it open.
InOrOpen(l) ==
  {k \in 1 .. calls :
     \/ \E i \in 1 .. Len(Appended(l)) : logs[l][i].ev.id = <<"ulid", k>>
     \/ \E c \in Callers : proc[c].pc = "write" /\ proc[c].log = l /\ proc[c].id = k}

\* Mutant: who has the file open goes on writing to it.
WipeKeepsOpen(p) ==
  /\ proc[p].pc = "wipe" /\ proc[p].wipe # << >>
  /\ LET l == Head(proc[p].wipe)
     IN  /\ logs' = [logs EXCEPT ![l] = None]
         /\ wiped' = wiped \union InOrOpen(l)
         /\ proc' = [proc EXCEPT ![p].wipe = Tail(@)]
  /\ UNCHANGED <<spec, tree, others, calls, answers, seeds, edits>>

\* --force: the logs of the leaves are unlinked, one after the other.
Wipe(p) ==
  /\ proc[p].pc = "wipe" /\ proc[p].wipe # << >>
  /\ LET l == Head(proc[p].wipe)
     IN  /\ logs' = [logs EXCEPT ![l] = None]
         /\ wiped' = wiped \union InOrOpen(l)
         /\ proc' = [q \in Procs |->
              IF q = p THEN [proc[p] EXCEPT !.wipe = Tail(proc[p].wipe)]
              ELSE IF proc[q].pc = "write" /\ proc[q].log = l
                   THEN [proc[q] EXCEPT !.linked = FALSE]
              ELSE proc[q]]
  /\ UNCHANGED <<spec, tree, others, calls, answers, seeds, edits>>

Wiped(p) ==
  /\ proc[p].pc = "wipe" /\ proc[p].wipe = << >>
  /\ proc' = [proc EXCEPT ![p] = [proc[p] EXCEPT !.pc = "seed"]]
  /\ UNCHANGED <<spec, tree, logs, others, calls, answers, wiped, seeds, edits>>

\* Event() raises when parse_spec let a type pass that is not well formed.
Generate(p) ==
  LET s == proc[p].spec
      t == proc[p].tree
      i == proc[p].i
  IN  /\ proc[p].pc = "seed" /\ i < proc[p].n
      /\ proc' = [proc EXCEPT ![p] =
           IF Pick(s, t, i) \notin Named THEN Idle
           ELSE [proc[p] EXCEPT !.pc = "open", !.log = LeafFor(t, i), !.ev = SeedEvent(s, t, i)]]
      /\ UNCHANGED <<spec, tree, logs, others, calls, answers, wiped, seeds, edits>>

\* All events are written: the count is printed.
Seeded(p) ==
  /\ proc[p].pc = "seed" /\ proc[p].i >= proc[p].n
  /\ proc' = [proc EXCEPT ![p] = [proc[p] EXCEPT !.pc = "seeded"]]
  /\ UNCHANGED <<spec, tree, logs, others, calls, answers, wiped, seeds, edits>>

-----------------------------------------------------------------------------
\* The process is killed; a process that is finished, or a conversation, ends.
Exit(p) ==
  /\ proc[p].pc # "idle"
  /\ CutShort(p)
  /\ proc' = [proc EXCEPT ![p] = Idle]
  /\ UNCHANGED <<spec, tree, others, calls, answers, wiped, seeds, edits>>

EditSpec(s) ==
  /\ edits < MaxEdits
  /\ edits' = edits + 1
  /\ spec' = s
  /\ UNCHANGED <<tree, logs, others, proc, calls, answers, wiped, seeds>>

EditTree(t) ==
  /\ edits < MaxEdits
  /\ edits' = edits + 1
  /\ tree' = t
  /\ UNCHANGED <<spec, logs, others, proc, calls, answers, wiped, seeds>>

Caller(c) ==
  \/ \E verb \in {"append", "run"} : Start(c, verb)
  \/ \E q \in Requests : Call(c, q)
  \/ Answer(c)

Seeder(p) ==
  \/ \E n \in Counts, force \in BOOLEAN : StartSeed(p, n, force)
  \/ Check(p) \/ Wipe(p) \/ Wiped(p) \/ Generate(p) \/ Seeded(p)

AnyStep(p) ==
  \/ LoadSpec(p) \/ LoadTree(p) \/ Open(p) \/ Write(p) \/ AppendFails(p) \/ Exit(p)

Next ==
  \/ \E c \in Callers : Caller(c)
  \/ \E p \in Seeders : Seeder(p)
  \/ \E p \in Procs : AnyStep(p)
  \/ \E s \in Specs \union {None} : EditSpec(s)
  \/ \E t \in Trees \union {None} : EditTree(t)

Spec == Init /\ [][Next]_vars
-----------------------------------------------------------------------------
(* Properties. *)

Statuses == {"ok", "issues", "raised", "failed"}

\* Every variable has its type, what a process needs is loaded, and only a
\* process with an open file can have it removed under it.
TypeOK ==
  /\ spec \in Specs \union {None} /\ tree \in Trees \union {None}
  /\ \A p \in Procs :
       /\ proc[p].verb \in IF p \in Seeders THEN {None, "seed"} ELSE {None, "append", "run"}
       /\ proc[p].pc \in {"idle", "spec", "tree", "ready", "open", "write", "answer",
                          "check", "wipe", "seed", "seeded"}
       /\ proc[p].pc \notin {"idle", "spec", "tree"} =>
            proc[p].spec \in Specs /\ proc[p].tree \in Trees
       /\ proc[p].pc \in {"open", "write", "answer"} => proc[p].log \in Logs
       /\ proc[p].pc = "write" /\ proc[p].linked => logs[proc[p].log] # None
  /\ answers \subseteq [id : 1 .. calls, status : Statuses, log : Logs \union {None}]
  /\ wiped \subseteq 1 .. calls
  /\ calls \in 0 .. MaxCalls /\ seeds \in 0 .. MaxSeeds /\ edits \in 0 .. MaxEdits

\* A line can be read when it is whole, or the last and whole but for its
\* newline, and what is before it ended with a newline.
Readable(log, i) ==
  /\ log[i].left = "line" \/ (log[i].left = "object" /\ i = Len(log))
  /\ i > 1 => log[i - 1].left = "line"

SeedLine(s, t, i) == [ev |-> SeedEvent(s, t, i), left |-> "line"]

\* The seeded events of a log are those among the first n of seed that are
\* leaf l's, each once, in order and in whole lines.
Generated(log, s, t, l, n) ==
  LET due == {i \in 0 .. n - 1 : LeafFor(t, i) = l}
  IN  /\ \A a \in 1 .. Len(log) : IsSeed(log[a].ev) => \E i \in due : log[a] = SeedLine(s, t, i)
      /\ \A i \in due : \E a \in 1 .. Len(log) : log[a] = SeedLine(s, t, i)
      /\ \A a, b \in 1 .. Len(log) :
           a < b /\ IsSeed(log[a].ev) /\ IsSeed(log[b].ev) => log[a].ev.id[2] < log[b].ev.id[2]

\* "Re-running with the same seed + --force produces byte-identical files"
\* (docs/cli.md:102-103): when seed reports success, what it wrote to each
\* leaf's log depends only on the spec, the tree and n, whatever earlier runs
\* left behind when they died and whatever callers append in between, broken
\* off or not.  Without --force it is so for the logs under state/.  For one
\* seed at a time.
SeedIsReproducible ==
  \A p \in Seeders : proc[p].pc = "seeded" =>
    \A k \in 1 .. Len(Leaves[proc[p].tree]) :
      LET l == Leaves[proc[p].tree][k]
      IN  proc[p].force \/ l \in Inside =>
            Generated(Appended(l), proc[p].spec, proc[p].tree, l, proc[p].n)

\* No two appends to a log under state/ have the same id: not after seed died or
\* failed half way and was run again, not after the tree lost a leaf and got it
\* back.  For one seed at a time.
DistinctIds ==
  \A l \in Inside : \A i, j \in 1 .. Len(Appended(l)) :
    logs[l][i].ev.id = logs[l][j].ev.id => i = j

\* "Append a single event to a Log leaf, with spec-aware validation"
\* (docs/cli.md:114): an event in a log has exactly the fields of its type,
\* with values of their types, in the spec that its writer had loaded, however
\* pmstate.yaml and tree.py have changed since.
EveryEventConforms ==
  \A l \in Logs : \A i \in 1 .. Len(Appended(l)) :
    LET ev == logs[l][i].ev
    IN  ev.type \in DOMAIN Schema[ev.spec] /\ ev.data = Schema[ev.spec][ev.type]

ToldOk(id) == \E a \in answers : a.status = "ok" /\ id = <<"ulid", a.id>>

\* A caller that is told ok finds its event in the log, unless seed --force has
\* removed the file since the append opened it: it can be read there, or else
\* the append right before it broke off, and whoever made that one was not told
\* ok.  A caller that is told of issues, or gets an exception, has left nothing.
\* One that is told of a failure may have left its event all the same.
AnswersTellTheTruth ==
  \A a \in answers :
    /\ a.status = "ok" /\ a.id \notin wiped =>
         \E i \in 1 .. Len(Appended(a.log)) :
           LET log == logs[a.log]
           IN  /\ log[i].ev.id = <<"ulid", a.id>>
               /\ \/ Readable(log, i)
                  \/ i > 1 /\ log[i - 1].left # "line" /\ ~ ToldOk(log[i - 1].ev.id)
    /\ a.status \in {"issues", "raised"} =>
         \A l \in Logs : \A i \in 1 .. Len(Appended(l)) : logs[l][i].ev.id # <<"ulid", a.id>>

\* "Errors-as-data via the issues field" (_append.py:145): whatever is asked
\* for, prepare_append returns.  Fails: Event.new raises for a source that is
\* not a path and for a declared type that is not well formed.
ErrorsAreData == \A a \in answers : a.status # "raised"
=============================================================================
