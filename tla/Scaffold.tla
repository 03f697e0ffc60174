------------------------------- MODULE Scaffold -------------------------------
(***************************************************************************)
(* pmstate init: scaffolding a project from its spec (--from-spec), keeping *)
(* it up to date with the spec (--upgrade), and cli/_io.write_file_safe,   *)
(* the atomic, refuse-on-collision write both are made of.                 *)
(*                                                                         *)
(* A command is a plan: a list of files to write, one after the other.     *)
(* Between two commands the user edits the spec, views.py and reducers.py. *)
(* With Faults a command may be killed, or an operation on a file may      *)
(* raise OSError, at any step.                                             *)
(***************************************************************************)
EXTENDS Integers, Sequences

CONSTANTS
  Procs,        \* concurrent invocations of the command
  Specs,        \* contents of pmstate.yaml that parse
  Renderable,   \* those with one subtree below the root (_render_tree)
  Stubs,        \* Stubs[s][f]: names spec s declares for code file f, sorted
  Forms,        \* how a user binds a name: "def", or "other" (import, =, async)
  Mistakes,     \* may a user save a code file that does not parse?
  Faults,       \* may commands die and operations on files fail?
  MaxCommands,  \* bound: invocations
  MaxEdits,     \* bound: edits
  None

CodeFiles == {"views.py", "reducers.py"}
Generated == <<"tree.py", "views.py", "reducers.py", "chat.py", "add.py", "AGENTS.md">>
GeneratedFiles == {Generated[i] : i \in 1 .. Len(Generated)}
Files == GeneratedFiles \union {"pmstate.yaml", ".gitignore", "pmstate.example.yaml"}

Names == UNION {{Stubs[s][f][i] : i \in 1 .. Len(Stubs[s][f])} : s \in Specs, f \in CodeFiles}

ASSUME SpecsAssumption ==
  /\ Renderable \subseteq Specs /\ None \notin Specs
  /\ \A s \in Specs, f \in CodeFiles :
       /\ Stubs[s][f] \in Seq(Names)
       /\ \A i, j \in 1 .. Len(Stubs[s][f]) : Stubs[s][f][i] = Stubs[s][f][j] => i = j
ASSUME UserAssumption ==
  /\ Forms \subseteq {"def", "other"} /\ Mistakes \in BOOLEAN /\ Faults \in BOOLEAN
  /\ MaxCommands \in Nat /\ MaxEdits \in Nat

VARIABLES
  disk,      \* the project's files
  tmp,       \* <file>.tmp beside each of them
  run,       \* each invocation: what it does and where it is
  before,    \* history: the files when an invocation began
  commands,  \* invocations so far
  edits      \* edits so far

vars == <<disk, tmp, run, before, commands, edits>>

-----------------------------------------------------------------------------
(* Contents of files. *)

Absent == [kind |-> "absent"]

\* Opened for writing and not completely written.  A code file that is read
\* in this state is taken to be empty: its text reaches the disk in one write.
Torn == [kind |-> "torn"]

\* A file rendered from spec s, or (edited) a spec that the user wrote.
Made(s, edited) == [kind |-> "made", spec |-> s, edited |-> edited]

\* A code file: the names it binds at top level, in order.
Code(defs, parses) == [kind |-> "code", defs |-> defs, parses |-> parses]

Def(name, own, form) == [name |-> name, own |-> own, form |-> form]

StubsFor(names) == [i \in 1 .. Len(names) |-> Def(names[i], FALSE, "def")]

Render(f, s) ==
  IF f \in CodeFiles THEN Code(StubsFor(Stubs[s][f]), TRUE)
  ELSE Made(IF f \in {".gitignore", "pmstate.example.yaml"} THEN None ELSE s, FALSE)

Defs(c) == IF c.kind = "code" THEN c.defs ELSE << >>

Parses(c) == c.kind = "code" => c.parses

\* _existing_names: function definitions, none when the file does not parse.
ExistingNames(c) ==
  {Defs(c)[i].name : i \in {j \in 1 .. Len(Defs(c)) : Parses(c) /\ Defs(c)[j].form = "def"}}

Exists(f) == disk[f] # Absent

-----------------------------------------------------------------------------
(* Plans. *)

Task(f, how) == [file |-> f, how |-> how]

\* Mutant: the spec is copied first.
InitPlanSpecFirst(force, inPlace) ==
  LET how == IF force THEN "force" ELSE "new"
  IN  (IF inPlace THEN << >> ELSE <<Task("pmstate.yaml", how)>>)
      \o [i \in 1 .. Len(Generated) |-> Task(Generated[i], how)]
      \o <<Task(".gitignore", IF force THEN "force" ELSE "missing")>>

\* _do_from_spec.  pmstate.yaml comes after everything a project needs; it is
\* not copied onto itself when the spec is the project's own.
InitPlan(force, inPlace) ==
  LET how == IF force THEN "force" ELSE "new"
  IN  [i \in 1 .. Len(Generated) |-> Task(Generated[i], how)]
      \o (IF inPlace THEN << >> ELSE <<Task("pmstate.yaml", how)>>)
      \o <<Task(".gitignore", IF force THEN "force" ELSE "missing")>>

\* Mutant: reducers.py is written when it is missing, and never appended to.
UpgradePlanViewsOnly(force) ==
  <<Task("tree.py", "force"), Task("add.py", "force"),
    Task("views.py", "missing"), Task("reducers.py", "missing"),
    Task("views.py", "stubs"),
    Task("AGENTS.md", "missing"), Task("chat.py", "missing"), Task(".gitignore", "missing")>>

\* _do_upgrade.
UpgradePlan(force) ==
  <<Task("tree.py", "force"), Task("add.py", "force")>>
  \o (IF force
      THEN <<Task("views.py", "force"), Task("reducers.py", "force")>>
      ELSE <<Task("views.py", "missing"), Task("reducers.py", "missing"),
             Task("views.py", "stubs"), Task("reducers.py", "stubs")>>)
  \o <<Task("AGENTS.md", "missing"), Task("chat.py", "missing"),
       Task(".gitignore", "missing")>>

Idle == [pc |-> "idle", verb |-> None, spec |-> None, force |-> FALSE, plan |-> << >>,
         fd |-> "closed", names |-> << >>, text |-> Absent, exit |-> "running"]

Init ==
  /\ disk = [f \in Files |-> Absent]
  /\ tmp = [f \in Files |-> Absent]
  /\ run = [p \in Procs |-> Idle]
  /\ before = [p \in Procs |-> disk]
  /\ commands = 0
  /\ edits = 0

Started(verb, s, force, plan) ==
  [Idle EXCEPT !.pc = "task", !.verb = verb, !.spec = s, !.force = force, !.plan = plan]

Refused(verb, force) == [Idle EXCEPT !.pc = "done", !.verb = verb, !.force = force, !.exit = "refused"]

Begin(p) ==
  /\ run[p].pc = "idle" /\ commands < MaxCommands
  /\ commands' = commands + 1
  /\ before' = [before EXCEPT ![p] = disk]
  /\ UNCHANGED <<disk, tmp, edits>>

\* init without flags.
Example(p) ==
  /\ Begin(p)
  /\ run' = [run EXCEPT ![p] = Started("example", None, FALSE,
                                       <<Task("pmstate.example.yaml", "new")>>)]

\* Mutant: the destinations are not looked at first.
FromSpecUnchecked(p, s, force, inPlace) ==
  /\ Begin(p)
  /\ inPlace => disk["pmstate.yaml"].kind = "made" /\ disk["pmstate.yaml"].spec = s
  /\ run' = [run EXCEPT ![p] =
       IF s \notin Renderable THEN Refused("init", force)
       ELSE Started("init", s, force, InitPlan(force, inPlace))]

\* init --from-spec: everything is rendered, then every destination is looked
\* at, and only then is anything written.
FromSpec(p, s, force, inPlace) ==
  /\ Begin(p)
  /\ inPlace => disk["pmstate.yaml"].kind = "made" /\ disk["pmstate.yaml"].spec = s
  /\ LET dests == GeneratedFiles \union (IF inPlace THEN {} ELSE {"pmstate.yaml"})
     IN  run' = [run EXCEPT ![p] =
           IF s \notin Renderable \/ (~ force /\ \E f \in dests : Exists(f))
           THEN Refused("init", force)
           ELSE Started("init", s, force, InitPlan(force, inPlace))]

\* init --upgrade in a project; there is none without pmstate.yaml.
Upgrade(p, force) ==
  /\ Begin(p)
  /\ LET yaml == disk["pmstate.yaml"]
     IN  run' = [run EXCEPT ![p] =
           IF yaml.kind # "made" \/ yaml.spec \notin Renderable
           THEN Refused("upgrade", force)
           ELSE Started("upgrade", yaml.spec, force, UpgradePlan(force))]

-----------------------------------------------------------------------------
(* write_file_safe. *)

This(p) == Head(run[p].plan)

File(p) == This(p).file

At(p, pc) == run[p].pc = pc /\ run[p].plan # << >>

\* The task is done: go on to the next one.
NextTask(p) == [run[p] EXCEPT !.pc = "task", !.plan = Tail(@), !.fd = "closed",
                              !.names = << >>, !.text = Absent]

\* Mutant: the file under way is not closed.
ExitOpen(p, code) == [run[p] EXCEPT !.pc = "done", !.exit = code]

\* Its locals are gone with it.
Exit(p, code) == [run[p] EXCEPT !.pc = "done", !.exit = code, !.fd = "closed",
                                !.plan = << >>, !.names = << >>, !.text = Absent]

\* FileExistsError: what exists is not overwritten without force.
Collide(p) ==
  /\ At(p, "task") /\ This(p).how = "new" /\ Exists(File(p))
  /\ run' = [run EXCEPT ![p] = Exit(p, "refused")]
  /\ UNCHANGED <<disk, tmp, before, commands, edits>>

\* Mutant: return, in place of going on with the next file.
SkipRest(p) ==
  /\ At(p, "task") /\ This(p).how = "missing" /\ Exists(File(p))
  /\ run' = [run EXCEPT ![p] = [NextTask(p) EXCEPT !.plan = << >>]]
  /\ UNCHANGED <<disk, tmp, before, commands, edits>>

Skip(p) ==
  /\ At(p, "task") /\ This(p).how = "missing" /\ Exists(File(p))
  /\ run' = [run EXCEPT ![p] = NextTask(p)]
  /\ UNCHANGED <<disk, tmp, before, commands, edits>>

\* Mutant: whether the file exists is not looked at.
ProceedAlways(p) ==
  /\ At(p, "task") /\ This(p).how # "stubs"
  /\ run' = [run EXCEPT ![p].pc = "open"]
  /\ UNCHANGED <<disk, tmp, before, commands, edits>>

Proceed(p) ==
  /\ At(p, "task")
  /\ \/ This(p).how = "force"
     \/ This(p).how \in {"new", "missing"} /\ ~ Exists(File(p))
  /\ run' = [run EXCEPT ![p].pc = "open"]
  /\ UNCHANGED <<disk, tmp, before, commands, edits>>

\* Mutant: the destination itself is opened.
OpenDestination(p) ==
  /\ At(p, "open")
  /\ disk' = [disk EXCEPT ![File(p)] = Torn]
  /\ tmp' = [tmp EXCEPT ![File(p)] = Torn]
  /\ run' = [run EXCEPT ![p].pc = "write", ![p].fd = "tmp"]
  /\ UNCHANGED <<before, commands, edits>>

\* open(tmp, "w") truncates: another invocation may have the same file open.
OpenTmp(p) ==
  /\ At(p, "open")
  /\ tmp' = [tmp EXCEPT ![File(p)] = Torn]
  /\ run' = [run EXCEPT ![p].pc = "write", ![p].fd = "tmp"]
  /\ UNCHANGED <<disk, before, commands, edits>>

\* What the file holds once c is written over old from its first byte on.
Overwritten(old, c) == IF old \in {Torn, c} THEN {c} ELSE {c, Torn}

\* The write goes to the file that was opened, wherever it is by now.
WriteTmp(p) ==
  LET f == File(p)
      c == Render(f, run[p].spec)
  IN  /\ At(p, "write")
      /\ IF run[p].fd = "tmp"
         THEN \E w \in Overwritten(tmp[f], c) : tmp' = [tmp EXCEPT ![f] = w]
         ELSE UNCHANGED tmp
      /\ IF run[p].fd = "destination"
         THEN \E w \in Overwritten(disk[f], c) : disk' = [disk EXCEPT ![f] = w]
         ELSE UNCHANGED disk
      /\ run' = [run EXCEPT ![p].pc = "replace", ![p].fd = "closed"]
      /\ UNCHANGED <<before, commands, edits>>

\* The files that others have open at f.tmp and at f are now elsewhere.
Moved(q, f, here, there) ==
  IF At(q, "write") /\ File(q) = f
  THEN [run[q] EXCEPT !.fd = IF @ = "tmp" THEN here ELSE IF @ = "destination" THEN there ELSE @]
  ELSE run[q]

Replace(p) ==
  LET f == File(p)
  IN  /\ At(p, "replace")
      /\ tmp[f] # Absent
      /\ disk' = [disk EXCEPT ![f] = tmp[f]]
      /\ tmp' = [tmp EXCEPT ![f] = Absent]
      /\ run' = [q \in Procs |-> IF q = p THEN NextTask(p)
                                 ELSE Moved(q, f, "destination", "unlinked")]
      /\ UNCHANGED <<before, commands, edits>>

\* Mutant: wait until the file is there again.
ReplaceWaits(p) ==
  /\ At(p, "replace") /\ tmp[File(p)] = Absent
  /\ UNCHANGED vars

\* os.replace raises FileNotFoundError: somebody else moved the file.
ReplaceFails(p) ==
  /\ At(p, "replace") /\ tmp[File(p)] = Absent
  /\ run' = [run EXCEPT ![p] = Exit(p, "failed")]
  /\ UNCHANGED <<disk, tmp, before, commands, edits>>

\* Any exception while writing unlinks the temporary file and ends the command.
WriteFails(p) ==
  LET f == File(p)
  IN  /\ Faults
      /\ run[p].pc \in {"write", "replace"}
      /\ tmp' = [tmp EXCEPT ![f] = Absent]
      /\ run' = [q \in Procs |-> IF q = p THEN Exit(p, "failed")
                                 ELSE Moved(q, f, "unlinked", "destination")]
      /\ UNCHANGED <<disk, before, commands, edits>>

-----------------------------------------------------------------------------
(* _append_missing_views, _append_missing_reducers. *)

\* Mutant: every stub of the spec is appended.
AllNames(p) == Stubs[run[p].spec][File(p)]

\* What there is not of a list of names, in its order.
Missing(names, there) ==
  LET upTo[i \in 0 .. Len(names)] ==
        IF i = 0 THEN << >>
        ELSE IF names[i] \in there THEN upTo[i - 1] ELSE Append(upTo[i - 1], names[i])
  IN  upTo[Len(names)]

MissingNames(p) == Missing(Stubs[run[p].spec][File(p)], ExistingNames(disk[File(p)]))

ReadNames(p) ==
  /\ At(p, "task") /\ This(p).how = "stubs"
  /\ run' = [run EXCEPT ![p] =
       IF MissingNames(p) = << >> THEN NextTask(p)
       ELSE [run[p] EXCEPT !.pc = "read", !.names = MissingNames(p)]]
  /\ UNCHANGED <<disk, tmp, before, commands, edits>>

ReadText(p) ==
  /\ At(p, "read")
  /\ run' = [run EXCEPT ![p].pc = "truncate", ![p].text = disk[File(p)]]
  /\ UNCHANGED <<disk, tmp, before, commands, edits>>

\* path.write_text opens the file itself.
TruncateCode(p) ==
  /\ At(p, "truncate")
  /\ disk' = [disk EXCEPT ![File(p)] = Torn]
  /\ run' = [run EXCEPT ![p].pc = "append"]
  /\ UNCHANGED <<tmp, before, commands, edits>>

AppendStubs(p) ==
  LET text == run[p].text
  IN  /\ At(p, "append")
      /\ disk' = [disk EXCEPT ![File(p)] =
           Code(Defs(text) \o StubsFor(run[p].names), Parses(text))]
      /\ run' = [run EXCEPT ![p] = NextTask(p)]
      /\ UNCHANGED <<tmp, before, commands, edits>>

-----------------------------------------------------------------------------
Succeed(p) ==
  /\ run[p].pc = "task" /\ run[p].plan = << >>
  /\ run' = [run EXCEPT ![p] = Exit(p, "ok")]
  /\ UNCHANGED <<disk, tmp, before, commands, edits>>

\* The process is gone.
Gone(p) ==
  /\ run' = [run EXCEPT ![p] = Idle]
  /\ before' = [before EXCEPT ![p] = [f \in Files |-> Absent]]
  /\ UNCHANGED <<disk, tmp, commands, edits>>

Return(p) == run[p].pc = "done" /\ Gone(p)

\* The command is killed, or an operation outside write_file_safe fails.
Kill(p) ==
  /\ Faults
  /\ run[p].pc \notin {"idle", "done"}
  /\ Gone(p)

Work(p) ==
  \/ Collide(p) \/ Skip(p) \/ Proceed(p)
  \/ OpenTmp(p) \/ WriteTmp(p) \/ Replace(p) \/ ReplaceFails(p) \/ WriteFails(p)
  \/ ReadNames(p) \/ ReadText(p) \/ TruncateCode(p) \/ AppendStubs(p)
  \/ Succeed(p) \/ Return(p) \/ Kill(p)

-----------------------------------------------------------------------------
(* The user, while no command runs. *)

Edit(f, c) ==
  /\ \A p \in Procs : run[p].pc = "idle"
  /\ edits < MaxEdits
  /\ edits' = edits + 1
  /\ disk' = [disk EXCEPT ![f] = c]
  /\ UNCHANGED <<tmp, run, before, commands>>

WriteSpec(s) == Edit("pmstate.yaml", Made(s, TRUE))

\* A stub is replaced by the user's own function.
DefineName(f, i, form) ==
  LET defs == disk[f].defs
  IN  /\ disk[f].kind = "code" /\ i \in 1 .. Len(defs)
      /\ Edit(f, Code([defs EXCEPT ![i] = Def(defs[i].name, TRUE, form)], disk[f].parses))

\* A syntax error is made, or repaired.
ToggleSyntax(f) ==
  /\ Mistakes
  /\ disk[f].kind = "code"
  /\ Edit(f, Code(disk[f].defs, ~ disk[f].parses))

User ==
  \/ \E s \in Specs : WriteSpec(s)
  \/ \E f \in CodeFiles, form \in Forms : \E i \in 1 .. Len(Defs(disk[f])) : DefineName(f, i, form)
  \/ \E f \in CodeFiles : ToggleSyntax(f)

Next ==
  \/ \E p \in Procs :
       \/ Example(p)
       \/ \E s \in Specs, force, inPlace \in BOOLEAN : FromSpec(p, s, force, inPlace)
       \/ \E force \in BOOLEAN : Upgrade(p, force)
       \/ Work(p)
  \/ User

Spec == Init /\ [][Next]_vars

\* A command is straight-line code that takes no lock: it keeps being scheduled.
FairSpec == Spec /\ \A p \in Procs : WF_vars(Work(p))

-----------------------------------------------------------------------------
(* Properties. *)

Kinds == {"absent", "torn", "made", "code"}

\* Every variable has its type, and a code file is never mistaken for another.
TypeOK ==
  /\ DOMAIN disk = Files /\ DOMAIN tmp = Files
  /\ \A f \in Files :
       /\ {disk[f].kind, tmp[f].kind} \subseteq Kinds
       /\ disk[f].kind = "code" => f \in CodeFiles
       /\ disk[f].kind = "made" => f \notin CodeFiles
  /\ \A p \in Procs :
       /\ run[p].pc \in {"idle", "task", "open", "write", "replace", "read", "truncate",
                         "append", "done"}
       /\ run[p].fd \in {"closed", "tmp", "destination", "unlinked"}
       /\ run[p].pc \notin {"idle", "task", "done"} => run[p].plan # << >>
       /\ run[p].pc = "write" <=> run[p].fd # "closed"
  /\ commands \in 0 .. MaxCommands
  /\ edits \in 0 .. MaxEdits

\* "Write contents to path atomically" (_io.py:10): no file but views.py and
\* reducers.py, which _append_stubs writes in place, is ever seen half written.
\* Holds for one invocation at a time, whatever fails.
AtomicFiles == \A f \in Files \ CodeFiles : disk[f] # Torn

\* "Refuses on collision unless force" (_io.py:10): what a command without
\* --force moves into place never replaces a file.  Holds for one invocation at
\* a time.
RefusesCollision ==
  \A p \in Procs : At(p, "replace") /\ This(p).how # "force" => ~ Exists(File(p))

\* An init that refuses because some file exists has not touched any other.
\* Holds for one invocation at a time.
RefusalChangesNothing ==
  \A p \in Procs : run[p].pc = "done" /\ run[p].exit = "refused" => disk = before[p]

\* pmstate.yaml is what makes a directory a project, and init --from-spec
\* copies it there last: when a command dies half way, there is no project
\* that lacks files.
MarkerMeansComplete ==
  disk["pmstate.yaml"].kind = "made" /\ ~ disk["pmstate.yaml"].edited
  => \A f \in GeneratedFiles : Exists(f)

Bound(c) == {Defs(c)[i].name : i \in 1 .. Len(Defs(c))}

Declared(s, f) == {Stubs[s][f][i] : i \in 1 .. Len(Stubs[s][f])}

Returned(p, verbs) == run[p].pc = "done" /\ run[p].exit = "ok" /\ run[p].verb \in verbs

\* A command that returns 0 leaves a whole project behind, however many died
\* before it: no file is missing or half written, but for a code file no stub
\* is due in, and every name that tree.py imports is bound.
SuccessMeansComplete ==
  \A p \in Procs : Returned(p, {"init", "upgrade"}) =>
    /\ \A f \in Files \ {"pmstate.example.yaml"} :
         Exists(f) /\ (disk[f] = Torn => f \in CodeFiles)
    /\ \A f \in CodeFiles : Declared(disk["tree.py"].spec, f) \subseteq Bound(disk[f])

\* "Idempotent when the spec is unchanged" (docs/cli.md:51-52): once --upgrade
\* returned 0, running it again would append nothing.
UpgradeIsIdempotent ==
  \A p \in Procs : Returned(p, {"upgrade"}) =>
    \A f \in CodeFiles : Declared(run[p].spec, f) \subseteq ExistingNames(disk[f])

\* The same for the files that parse, which is what the code achieves.
UpgradeSettles ==
  \A p \in Procs : Returned(p, {"upgrade"}) =>
    \A f \in CodeFiles :
      Parses(disk[f]) => Declared(run[p].spec, f) \subseteq ExistingNames(disk[f])

\* The binding of a name that a module ends up with: the last one.
InForce(c, name) ==
  LET at == {i \in 1 .. Len(Defs(c)) : Defs(c)[i].name = name}
  IN  Defs(c)[CHOOSE i \in at : \A j \in at : j <= i]

\* "appends new view or reducer stubs without overwriting your existing edits"
\* (agents_md.tmpl:34-35): after a command without --force that ran to its end,
\* the views and the reducers the user wrote are still there and still the ones
\* that are used.  Holds for files that parse and functions written as def.
EditsInForce ==
  \A p \in Procs :
    run[p].pc = "done" /\ run[p].exit \in {"ok", "refused"} /\ ~ run[p].force =>
      \A f \in CodeFiles : \A i \in 1 .. Len(Defs(before[p][f])) :
        LET d == Defs(before[p][f])[i]
        IN  d = InForce(before[p][f], d.name) /\ d.own /\ d.form = "def" /\ Parses(before[p][f])
            => d.name \in Bound(disk[f]) /\ InForce(disk[f], d.name) = d

\* A command that is not killed ends, whatever another one does to its files.
CommandsEnd == \A p \in Procs : run[p].pc # "idle" ~> run[p].pc = "idle"
=============================================================================
