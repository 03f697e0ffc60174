# pmstate in TLA+

pmstate keeps the state of a business process in a directory: every leaf of a
process tree owns an append-only JSONL log (or a JSON table), every inner node
has a view computed from its children's views, and a command line scaffolds such
a project from `pmstate.yaml`, fills its logs and asks an agent about it. There
is no server and no lock. Several short-lived processes (`pmstate append`,
`seed`, `init`, `run`, `add.py`, `chat.py`) share one directory with each other
and with an editor. This directory specifies what that sharing does: TLA+
modules translated from the Python source, TLC configurations that check them
on small instances, and theorems checked by TLAPS.

All source paths below are relative to `src/pmstate/` of the repository.

## 1. Inventory

| Component | State | Operations | Interacts with |
|---|---|---|---|
| Event log, writers (`writer.py`, `backends/filesystem.py`) | bytes of a `.jsonl` file | `append_event`, `FilesystemBackend.append` | readers, other writers, power |
| Event log, readers (`reader.py`, `backends/filesystem.py`) | a file position | `FilesystemBackend.read`, `read_events` (cursor, limit, filter) | writers that append meanwhile |
| Rollup (`rollup.py`, `storage.py`, cache in `backends/filesystem.py`) | `.pmstate/rollup.json` of each inner node | `compute_view`, `compute_view_at`, `read_cache`, `write_cache` | logs, other processes' caches, versions of the tree |
| Scaffolding (`cli/init.py`, `cli/_io.py`) | the generated files and their `.tmp` | `init`, `init --from-spec`, `init --upgrade`, `write_file_safe`, `_append_stubs` | the user's edits, other invocations |
| Intake (`cli/append.py`, `cli/_append.py`, `cli/seed.py`, the write tool of `adapters/claude_sdk.py`) | a spec and a tree loaded at start; the logs | `prepare_append`, `cmd_append`, the `append_event` tool, `cmd_seed` | logs, `pmstate.yaml`, `tree.py` |
| Process tree (`node.py`, `tree.py`, `_paths.py`) | frozen Node objects, shared between trees | `Node(...)`, `get`, `spawn`, `prune` | rollup, tools |
| Agent tools (`tools.py`) | the queue and matches of a search | `list_tree`, `get_state`, `find_state`, `read_log` | tree, logs, rollup |
| Upcasters (`upcasters.py`) | a registry, global to the process | `register`, `upcast` | `read_events`, `read_log` |
| AGENTS.md loader (`agents_md.py`) | a cache keyed by mtime, global to the process | `load_agents_md` | the user's edits, other threads |
| Harness and watcher (`adapters/claude_sdk.py`, `_watcher.py`) | a thread and a stop event | `run`, `watch` | an external SDK |
| Spec parser, validate, discovery, project loading (`cli/_spec.py`, `cli/validate.py`, `cli/_discovery.py`, `cli/_project.py`) | the rendered project | `parse_spec`, rendering, `_build_tree`, `cmd_validate` | `pmstate.yaml`, `tree.py` |

What is hard about them, and the properties that make each one correct:

* **Log.** Appends of several processes interleave with each other and with a
  reader that holds a position in the file; a write may be partial, fail, be cut
  off by a kill or undone by a power cut. An acknowledged event must be a line
  of its own, a reader must yield the log in order and completely, and what was
  fsynced must stay readable whatever is torn around it.
* **Rollup.** Cache files are truncated and rewritten without a lock by
  processes whose trees differ, while logs grow under a traversal that reads
  them one by one. The cache must be invisible.
* **Scaffolding.** A command is a series of writes that may stop anywhere, over
  files the user edits. Commands must not overwrite what they promise not to,
  must not leave what looks like a project but is none, and must repair what a
  dead one left.
* **Intake.** Every writer validates against a spec and a tree it loaded
  earlier; `seed --force` unlinks logs that others have open; answers get lost
  and requests are retried. Events must conform, ids must be distinct, answers
  must be true, and seeding reproducible.

* **Tools.** A search asks for one view after the other while logs grow, other
  processes write the caches and single views fail. It must name what showed the
  query, miss nothing that did all the time, and cut off the farthest.
* **In memory.** Trees share nodes, so a change to one must not show in another.
  Upcasters are registered while a reader is under way, and their chain must end.
  AGENTS.md is edited between `stat` and `read`. A run that raises must still stop
  its watcher. A spec that parses need not make a tree that imports.

`PROJECT.json` lists every component and, line by line, the hazards.

## 2. Modules

```
Journal ── EventLogJournal ── MCEventLog        RollupTree ── UncachedRollup ── Rollup ── AgentTools
EventLog ─────┘                                     │                             │           │
    └─ EventLogProofs                               │                       RollupProofs ── AgentToolsProofs
          └─ EventLogJournalProofs               MCTrees ── MCRollup, MCAgentTools
             (and EventLogJournal)

Scaffold ── MCScaffold, ScaffoldProofs          Intake ── MCIntake, IntakeProofs

PathTree ── ProcessTree ── ProcessTreeProofs
Upcasting, Harness, SpecProject ── SessionProofs
ProcessTree, Upcasting, Harness, SpecProject ── MCSession
```

Three modules are abstract specifications that another one implements, by a
refinement mapping that TLC checks: `Journal` (`EventLog`, property `IsJournal`),
`UncachedRollup` (`Rollup`, property `CacheIsTransparent`) and `PathTree`
(`ProcessTree`, property `IsPathTree`). All three refinements are also proved.

`Intake` abstracts what `EventLog` details (an append to an open file is one
step of `Intake`), `Rollup` abstracts it further (a log is its number of
events).

### EventLog

The file is a sequence of bytes `<<e, i>>`, "the i-th byte of event e's line".
Bytes are kept because everything that can go wrong with the log is about where
a line begins and ends. `Open`, `WritePart`, `WriteRest`, `Fsync`, `Abort` are
the steps of one `append_event` call: opening (which fixes the cursor that
`append` will return), the write(2) calls that empty the buffer, and fsync. A
complete write of a buffered line to an `O_APPEND` descriptor is one atomic
step; with `ShortWrites` the kernel may also take a part. `PowerCut` keeps a
prefix that holds everything fsynced. A reader advances one `readline` per step
(`StopBefore`, `Eof`, `ReadBlank`, `ReadEvent`, `ReadBroken`), in two forms:
`read` applies `limit` before it reads a line, `read_events` after it has
filtered one. `Decodes` says when `json.loads` makes an event of a line: it is the
event's object, with or without its newline. `Splices` says of which other lines it
*may* make something: of pieces of several events, as when an object was cut inside
a string and the rest of another line ends that string. The model does not look
into the objects, so wherever the bytes allow it both outcomes happen, an error
(`ReadBroken`) and a value that is yielded like an event (`ReadSpliced`); only the
beginning of an object, an object with more after it, and the end of an object are
never JSON. A piece from the middle of a line need not be an object at all, and then
`upcast` raises `AttributeError`. `written` and `acked` are history variables.
`PowerCut` keeps the file itself: `writer.py:31-33` fsyncs the file and not its
directory, so that the *first* event of a new log is durable rests on the filesystem.

### Journal, EventLogJournal

`Journal` is what log and readers promise together when every write(2) is whole:
a sequence of events to which each call adds its event once, between its start
and its return, and scans that go through it event by event and end only at
`limit`, `until` or the end. It has no bytes, so everything in `EventLog` about
where lines begin and end has to come out right for `IsJournal` to hold.
`EventLogJournal` is the mapping: a byte offset becomes the number of lines that
end at or before it, `until` the number of lines that start before it. A reader
whose cursor points into a line (see the cursors, below) is mapped to no scan:
of it nothing is promised.

### RollupTree, UncachedRollup, Rollup

`RollupTree` has trees as data: versions `Trees`, children, functions, what
`_fn_hash` makes of a function, and `_cache_key`. Functions are uninterpreted:
`Apply` is a term of the function and what it was given, for a reducer the children's
views under their names, so two views are equal exactly if function, names and
input are. A view is a pair of the Python object and the text that
`json.dumps(default=str)` makes of it; `Json` is what comes back from that text
(`Parsed`). The two differ unless the function is `Plain`: datetimes come back as
strings, tuples as lists, int keys as strings. A reducer is `Blind` if the text of
its view depends only on the text of what it is given, as when it counts or copies
(without a reducer the children's views *are* the view, which is `Blind` too).
`UncachedRollup` is the promise: a depth-first traversal, frame by frame, that
reads a leaf's log at the moment it gets there. `Rollup` adds the cache file of
each node and the steps `Hit`, `Miss`, `Truncate` (`open("w")`) and `WriteCache`;
two descriptors that write one file may leave a mixture (`Damaged`). The file holds
the view's text (`Stored`), so `Hit` returns `Json` of what was reduced and
`WriteCache`, after a miss, the object itself, as the code does; keys are made of texts
(`Texts`). So the refinement mapping is not the identity: it takes the views and answers
of `UncachedRollup` to be the JSON of these (`JsonViews`, `JsonAnswer`). Then `Hit` and
`WriteCache` are `Reduce`, `Miss` and `Truncate` are stutters (`CacheIsTransparent`).
What the module claims is therefore: cached and uncached computation agree *as JSON*.
`JsonSafe` is the condition for that: a reducer that is not `Blind` has only `Plain` children.

### Scaffold

A command is a plan (`InitPlan`, `UpgradePlan`), a list of tasks each with a file
and how it is written: `new` refuses if it exists, `missing` skips, `force`
overwrites, `stubs` appends the missing stubs. Each task goes through the steps
of `write_file_safe` (check, open `.tmp`, write, `os.replace`) or of
`_append_stubs` (parse, read, truncate, write). A code file is the list of names
it binds, who wrote each, and whether the file parses; any other file is the
spec it was rendered from. `Moved` follows a descriptor that another invocation
renames or unlinks. `Kill` and `WriteFails` stop a command at any step; a killed
process leaves nothing but its files. The user edits the spec, defines functions
and breaks or repairs the syntax between commands.

### Intake

Each process has loaded a spec and a tree (`LoadSpec`, `LoadTree`; `run --write`
loads them in the other order and keeps them for the whole conversation).
`Verdict` is `prepare_append`: an issue, an exception, or an event to write.
`Open` and `Write` are the two halves of an append that matter here, because
`seed --force` may unlink the file in between (`linked`). A log is the sequence of
what each append left in it (`Lefts`): its whole line, or, when the write, flush or close
failed or the process was killed (`CutShort`), nothing, a part of it, the object
without its newline, or even all of it, whatever the caller was told. An append is
one step once the file is open: how the bytes of two appends may alternate, and what
`json.loads` makes of a mixture, is the matter of `EventLog`; here a line that begins
with somebody's broken-off append counts as unreadable (`Readable`). `wiped` is
history: the requests whose file was removed since their append opened it.
`Check`, `Wipe`, `Generate` are `cmd_seed`. A value is its type; `Coercible` and `Coerced` are
`coerce_field`. The generator is seeded, so the type it picks is some fixed choice
(`CHOOSE`). A retry is simply another request, with a new id: when the first append
failed but left its event, the log has the event twice under two ids, and nothing in
the code could tell.

### AgentTools

A process of `Rollup` that serves the agent. `get_state` is one `compute_view`
(`RBegin` to `Return`), or an exception that comes back as data (`Fails`).
`find_state` is the loop of the code: `Skip` a node that the glob does not match,
`View` one that it does, `Judge` the view when it is there, `Enqueue` the
children; between any two steps of it logs grow and other processes run. A glob
is the set of paths it matches, a query the set of leaf views that show it; a
reducer keeps its children's views, so an inner view shows what is below. The
text of an error view is searched like any other, so it may match or not.
Whether an inner view shows the query is said by the leaves below its node (`Shows`).
`list_tree` is the function `Listing`, one turn of the loop after the other, compared
with a definition that does not use a queue (an `ASSUME` of `MCAgentTools`).

### ProcessTree, PathTree

`ProcessTree` is the heap: `Node(...)` allocates, `spawn` and `prune` copy the nodes
on the path from the root (`Spine`) and share all others; a Node given to several
parents is one object. The program holds every result. `PathTree` has no objects:
a tree is a name and the sequence of its subtrees, and spawn and prune are
functions on values: the way down a path (`Way`), and the values that replace those on
it, from its end up (`Put`). `IsPathTree` maps each object to its value, so it says both
that each call makes the right tree and that no call changes a tree already held.

### Upcasting

`UpcasterRegistry` under its two users, `read_events` (a generator, "stream") and
`read_log` (a list). `Apply` is one turn of the loop of `upcast`, `Deliver` what
follows it: filter, limit, row. An event is its type, an upcaster the type it
makes. `Register` may come between any two steps.

### Harness

One `_run_async` per run, in threads of one process: `load_agents_md` line by line
(`Exists`, `Stat`, `Lookup`, `ReadText`, `Store`) with the global cache `mdCache`; the
watcher thread; the conversation, which returns, raises or is cancelled
(`EndSession`). `Edit` is the user's editor at any moment, `Tick` the clock that
modification times come from: two edits in one tick get the same.

### SpecProject

A document is a record with a value of the wrong type (`Wrong`) or nothing
(`Absent`, a missing key or an empty string) where YAML can have one; `root` stands for
the required strings beside it. `ParseAccepts` is `parse_spec`, `Renders` and `Rendered`
are `_render_tree`, `LeavesDict` the table of `add.py`. `Builds` is the import of
tree.py and `_build_tree()` in it. Names are written into tree.py as they stand, so
it looks at all of them: node names that `Node` refuses (`Unfit`), names that Python
reads as others or not at all between quotes (`ReadAs`, for backslashes and line ends), view
and reducer names that are no identifiers (`NotNames`) or hide what tree.py calls
(`Taken`). `Spoilt` are the code files that a stub with such a name leaves unimportable.

`InitFromSpec` makes the project. Afterwards the user may edit pmstate.yaml, tree.py,
views.py and reducers.py, and AGENTS.md at any time (`EditSpec`, `EditTree`, `EditCode`, `EditAgents`)
and run `--upgrade`, with `--force` or not (`Upgrade`); so tree.py and add.py may be those of a
document that pmstate.yaml no longer holds, and a bad stub outlives its document.
`Validate` is `cmd_validate`, in its order: the spec, then tree.py if the spec parses, then
the views if the tree was built, and AGENTS.md in any case. What a tree.py written
by the user does, and whether computing the root's view raises, is open. How the files get
on the disk is `Scaffold`.

## 3. What TLC checks

| Run | Instance | Properties |
|---|---|---|
| `log_shared` | 2 writers, 1 reader, 3 calls; events of 3 and 4 bytes (one with a 2-byte character) and one over the ceiling; both reader forms, every cursor an append returned, limits none and 1, filters all and one type | `AckedReadable`, `CursorWhenAlone`, `ReadsInOrder`, `CompleteAtEof`, `NeverBroken`, `IsJournal` |
| `log_faults` | 2 writers, 1 reader, 2 calls, partial writes, failures, kills, power cuts; lines that are spliced of two events parse or do not | `TypeOK`, `DamageIsContained`, `DurableStaysReadable` |
| `rollup_shared` | 2 processes, a group that has 1 or 2 leaves depending on the tree version, 1 event per leaf, a leaf's view that is no JSON value beside one that is, deaths anywhere | `RTypeOK`, `MatchMeansFresh`, `CacheProvenance`, `CacheIsTransparent`, `CallsReturn` |
| `agent_tools` | 1 process, root - group - leaf and a leaf under the root that a version of the tree has pruned, 2 events per leaf; globs that match all or one leaf, `max_results` 1 and 50; failures and deaths anywhere | `AnswerIsFresh`, `FoundIsTrue`, `NothingMissed`, `NearestFirst` |
| `scaffold` | 1 invocation at a time, 3 commands, 2 edits, 2 specs, deaths and failures anywhere, syntax errors, functions written as `def` or otherwise | `TypeOK`, `AtomicFiles`, `RefusesCollision`, `MarkerMeansComplete`, `SuccessMeansComplete`, `RefusalChangesNothing`, `UpgradeSettles`, `EditsInForce` |
| `scaffold_two` | 2 concurrent commands, with a spec that renders and one that does not | `CommandsEnd` |
| `intake` | 1 caller with 2 requests, 2 runs of `seed` (1 or 2 events), 1 edit, 2 specs, 2 trees, one log outside `state/`, deaths and failures anywhere, 1 append to each log that breaks off in any way | `TypeOK`, `SeedIsReproducible`, `DistinctIds`, `EveryEventConforms`, `AnswersTellTheTruth` |
| `session` | trees of up to 6 objects and 4 results over 2 names, up to 2 children and paths of 2; 3 event types, 4 upcasters (chains, a cycle, an event without a type), a log of 3; 2 runs of the agent, 2 edits, 2 ticks; 1471 documents with every fault the parser looks for and those that it does not, with any edits, upgrades and validations after | `WellFormed`, `IsPathTree`, `RowsAreDecoded`, `CycleIsReal`, `UpcastEnds`, `PromptIsCurrent`, `WatchersStop`, `ValidateIsRight` |

Why these bounds reach the interesting cases. *Log:* a hazard of an append is
about the line before it and the line after it, so two writers and three calls
give every order of two lines around a third; sizes 3 and 4 make a line that
ends inside another, and a character that a partial write can split. *Rollup:*
one cache file with two processes and two tree versions has every overlap of
truncation, write and read. *Tools:* a level more, so that a stale view could
travel upwards and a match lie deeper than another, two events per leaf, so that
a reading can be neither the first nor the last, and a leaf that one version of
the tree lacks. One process is enough there: that several on one cache look like none
is `CacheIsTransparent`, checked for two and proved for any number. *Scaffold:* three commands are a death, another
death, and the command that must repair; two edits are a change of the spec and
an edit of a function. *Intake:* a leaf that the second tree lacks, a type that
passes the parser and fails `Event`, and a log outside `state/` make seed refuse,
die and spare; two seeds are the dead one and its successor; one broken-off append to
a log, with other appends before and after it, is what an answer can suffer from. *Session:* its four
parts share no state in the program (a tree is never changed, registry and cache
belong to different modules), so a behaviour is about one of them and the state
spaces add up. Six objects are enough for a node with two parents whose copy is
changed under one of them; three types for a cycle that does not begin with the
event's own type; the three documents that pmstate.yaml may be turned into
(`MCLater`) are one that does not parse, a good one and one with a bad view name; two runs and two edits for a text that another thread caches
between `stat` and `read`.

Every constant that bounds a run is named: `MaxCalls`, `MaxEvents`,
`MaxCommands`, `MaxEdits`, `MaxSeeds`, `MaxKids`, `MaxHeld`, `MaxObjects`, `MaxPath`,
`MaxClock`, `MaxBroken`. Deadlock is checked by the runs of the rollup and of the tools, which go
on for ever; the others stop in the program too, when the bounded calls, commands,
requests or edits are over (in the log runs, also because an iterator ends once).
No run checks anything under a constraint. Each property is also run against a
plausible bug of the code (`PROJECT.json`, "mutants"; the operators are marked
`Mutant:` beside the definition they change) and must fail there.

### Where the code differs from what it says

Four runs are expected to end in a counterexample.

* `log_torn`: `writer.py:24` says "Atomically append one event ... as a single
  JSONL line". A write that stopped half way leaves no newline, nothing looks at
  how the log ends, and the next append that *succeeds* is glued to the torn one.
* `rollup_rename`: `rollup.py:6-7` says "match means the cached view is fresh".
  The key has the children's view hashes, not their names: prune a child, spawn
  one with an equal view under another name, and the old view is served.
* `scaffold_broken`: `docs/cli.md:51-52` says `--upgrade` is "Idempotent when the
  spec is unchanged". With a syntax error in `views.py` each one appends all
  stubs again. `UpgradeSettles` is what does hold.
* `intake_source`: `_append.py:145` says "Errors-as-data via the issues field".
  A source that does not start with `/` (`pmstate append --source x`), or a
  declared type that `_TYPE_REGEX` rejects, raises.

Further limits, which the modules show but no run states:

* `docs/spec-authoring.md:23` lets `tree.nodes` be empty, and the parser accepts any
  list; `_render_tree` (`init.py:47-48`) raises `NotImplementedError` for anything but
  one entry (`Renders`), and `cmd_init` does not catch it. Segments between the first and
  the last of its path are dropped: `/r/x/a` makes `/r/a` (`Rendered`).
* `docs/spec-authoring.md:28` calls a child's `state` required; `_spec.py:136` takes `log`
  when it is missing (`StateOf`).
* The parser accepts names that `Node` refuses: two children of one name, a slash, an
  empty last segment of the path; and any string as a view or a reducer
  (`_spec.py:142-147`), so that tree.py may begin with `from reducers import a/b`. init
  then succeeds and tree.py does not import; `validate` blames tree.py (`ValidateIsRight`),
  the parser does not. The stub of a bad name stays in views.py or reducers.py after
  pmstate.yaml has been put right and upgraded, until the user removes it or
  upgrades with `--force`.
* `validate` looks at pmstate.yaml and at tree.py, not at whether one was made of the
  other: after an edit without `--upgrade` an old tree.py passes. `ValidateIsRight` is
  stated of the document that tree.py was rendered from for that reason.
* A view read from the cache is what JSON made of it (`filesystem.py:107-108,116-118`), a
  view just computed is the object (`rollup.py:138-139`): datetimes are strings in one and
  not in the other, tuples lists, int keys strings. Callers that compare or compute
  with them see a difference that depends on whether somebody asked before. Without
  `JsonSafe` it gets into other nodes' views too: a reducer that tells the two apart
  gives, under one key, two results (with `Blind = {}` TLC finds `CacheProvenance`
  violated). A view with keys that JSON cannot have raises (`Abort`); int keys
  also sort differently before and after (`sort_keys`), which only makes misses.
* A line spliced of two torn events may be valid JSON, and is then yielded as an event
  that nobody appended (`ReadSpliced`); without a schema nothing tells it apart.
* A failed append may have left its event, readable or glued to the next one
  (`AppendFails`); an event acknowledged right after a torn one cannot be read
  (`AnswersTellTheTruth` says when that is so, `log_torn` shows it byte by byte).
* `seed --force` removes logs that others have open or have written to: an event that was
  acknowledged is then gone (`wiped`), and nobody is told.
* `tools.py:95` and `tools.py:136-137` say that `max_results` and `limit` are capped; both
  raise `ValueError` above the cap.
* `claude_sdk.py:37` tells the agent that `read_log` takes `start` and `end`; the tool
  (`claude_sdk.py:168-175`) passes neither, so only the first events of a log can be read.
* `find_state` searches the text of error views too (`Judge`), so a failing node may be
  returned as a match.
* `read_events` and `read_log` read, upcast and filter one accepted event past the limit
  (`Deliver`): when that one is malformed, `read_log` loses a list that was complete.
* `add.py` names its logs relative to the directory it is run in (`init.py:151`), `tree.py`
  relative to its own file.
* Two edits of AGENTS.md within one tick of the file system's clock cannot be told
  apart (`agents_md.py:22`): `PromptIsCurrent` is stated up to modification times.

* The cursor `append` returns is computed from the size at `open()`
  (`filesystem.py:50`); with another appender in between it is too small and may
  point into a line. `CursorWhenAlone` and the condition `Aligned` of the reader
  properties are there for this reason.
* A line cut inside a character raises `UnicodeDecodeError`, not the `ReaderError`
  of `reader.py:27-28` (`DecodeError`).
* `_fn_hash` (`rollup.py:46`) removes everything after a `#`, inside strings too,
  and does not see what a function calls: `KeysFaithful` is the exact assumption
  the cache needs.
* `_append_stubs` truncates `views.py` before it writes it (`init.py:280`); a death
  there loses the user's functions. `EditsInForce` is about commands that end by
  themselves.
* `_existing_names` (`init.py:257`) sees `def` only, so an imported or assigned view
  is shadowed by a new stub.
* `--upgrade` renders `tree.py` anew, though `agents_md.tmpl:29` tells to edit it.
* Invocations of `init` at the same time share one `.tmp` per file and look for
  collisions too early (`_io.py:11-17`): `AtomicFiles`, `RefusesCollision` and
  `RefusalChangesNothing` are claimed for one at a time, and only `CommandsEnd` for two.
* Two `seed` at a time may both find `state/` empty; `SeedIsReproducible` and
  `DistinctIds` are claimed for one at a time, and `DistinctIds` for logs under
  `state/`, which is all `_state_is_writable` looks at.

## 4. Fairness

Three runs have a liveness property. `RFairSpec` (`CallsReturn`) is weak
fairness of a process's own next step of `compute_view`: the function is
straight-line recursion without lock or wait, so it keeps being scheduled. Deaths
(`RAbort`) get no fairness. `FairSpec` of Scaffold (`CommandsEnd`) is weak
fairness of an invocation's own steps, for the same reason. In `session`, `UpFairness`
(`UpcastEnds`) is weak fairness of the loop of `upcast`, which waits for nothing, and
`HarnessFairness` (`WatchersStop`) of the watcher's end once its event is set, which
`watchfiles` polls for; the end of a conversation gets none. Nothing is assumed
of the user, of the arrival of requests, or of readers.

## 5. What is proved

Each theorem holds for every value of the constants under the module's named
assumptions, which TLC evaluates on the instances, and under the hypothesis the
theorem itself states, if any. Where there is one it is the hypothesis under
which the code makes the promise at all; the runs it excludes are named below.

* `EventLogProofs`, under all faults
  * `EventLogTypeCorrect`: `Spec => []TypeOK`. Inductive invariant `TypeInv`:
    `TypeOK` and `CallsTyped`, which relates a writer's counters to its event's
    size.
  * `DurableStays`: `Spec => DurableStaysReadable`. Needs `DurableAcked` (an ack
    with fsync ends within the durable prefix): no step changes bytes that are
    already in the file except a power cut, which keeps the durable prefix.
    `StepKeeps` and `IntactKept` are that argument.
  * `ReadersContainDamage`: `Spec => []DamageIsContained`: whatever is torn or spliced around
    it, a whole line that a reader has passed was yielded. The inductive invariant
    `ReadersCovered` says it of bytes, without asking who wrote them: wherever a line
    begins like an event's and the reader is past that beginning, it is past the whole
    object and has yielded it (`Covered`). Writers and power cuts keep it
    (`CoveredKept`), since they leave the bytes a reader has passed or stop the reader; a line
    that is skipped as blank or yielded as a splice does not begin like any event up to
    its end (`LinePassed`, `NotAnEvent`).
* `EventLogProofs`, second part, under `~ ShortWrites` and `~ PowerCuts`: failures and
  kills may still happen anywhere. With a partial write or a power cut the theorems are
  false: `log_torn` is the counterexample. What they show is therefore that torn
  lines are the only way in which the log can go wrong: no interleaving of any
  number of writers and readers does it.
  * `AcknowledgedIsLogged`, `CursorIsLineEnd`: `[]AckedReadable` and
    `[]CursorWhenAlone`. Inductive invariant `WriteInv`: the file is the lines of
    `written`, one after the other without gaps (`Layout`); a call has written all of
    its line or nothing, and its cursor was computed from a size that the file still
    has at least (`WholeCalls`); an acknowledged event is one of the lines.
  * `ReadersInOrder`, `ReadersComplete`, `ReadersNeverBroken`: `[]ReadsInOrder`,
    `[]CompleteAtEof` and `[]NeverBroken`. Inductive invariant `ReadInv`: a reader that
    began between two lines is always between two lines, has yielded the accepted ones
    of those before, in order, and misses none of them (`Faithful`). A step of a writer
    keeps it because it only adds lines at the end (`GrowsExtends`, `FaithfulKept`).
* `EventLogJournalProofs`, under the same hypothesis
  * `LogIsJournal`: `Spec => IsJournal`, the refinement of `Journal`. Besides the two
    invariants it needs that no reader goes past its `limit` and none waits for more
    than the file holds (`Limited`). Every step on bytes is one step of `Journal` or a
    stutter (`StepRefines`): the one write(2) of a call is where its event is appended,
    reading a line is an advance of the scan, a reader that began inside a line is
    no scan. Counting lines (`UpTo`, `From`) is a matter of cardinalities
    of initial segments, since the lines' ends increase (`UpToEnd`, `FromEnd`).
* `RollupProofs`
  * `RollupTypeCorrect`: `RSpec => []RTypeOK`.
  * `ProvenanceHolds`: under `JsonSafe`, `RSpec => []CacheProvenance`, inductive together
    with `RTypeOK` and `Formed` (`RollupInv`). A truncation, a damaged mixture or a death
    never makes an entry; an entry is written by the frame it was computed for. `Formed`
    says which views a frame holds are JSON values: those of `Plain` functions, read
    from a cache or not. Under `JsonSafe` a reducer makes the same JSON of what it is
    given and of its round trip (`ResultOfJson`).
  * `MatchIsFresh`: under `KeysFaithful` and `JsonSafe`, `RSpec => []MatchMeansFresh`.
    Without the first the run `rollup_rename` is the counterexample.
  * `CacheRefines`: under the same two, `RSpec => CacheIsTransparent`: as JSON, the cached
    computation implements the uncached one, for any trees, any number of
    processes and any interleaving. `NoneIsNoView`, also a hypothesis, only says
    that Python's `None` is not a view, so that a call without an answer yet is
    not taken for one with an answer.
* `AgentToolsProofs`, under `KeysFaithful` and `JsonSafe`, with answers taken as JSON, for any tree, any query and any number of
  processes that share the caches, while logs grow between any two steps
  * `AnswerIsFreshHolds`: `ASpec => []AnswerIsFresh`. The invariant `FreshInv` says it of
    every view a call has collected: there are readings of the logs, each between
    the call's start and now, for which it is the child's view, *whatever is read
    elsewhere than below that child* (`IsView`, `Under`). That is what makes it compose:
    the children's readings are of disjoint subtrees (`UnderKids`), so there is one
    reading that is right for all of them. A cached view is as good as a computed one by
    `MatchIsFresh`.
  * `FoundIsTrueHolds`, `NothingMissedHolds`, `NearestFirstHolds`: `[]FoundIsTrue`,
    `[]NothingMissed`, `[]NearestFirst`. The invariant `SearchInv`: the subtrees of the
    queue are disjoint, and its nodes are in order of depth and at most one level
    apart (`QueueGood`); what was found has been visited, top down (`FoundGood`), and showed
    the query at readings since the search began (`FoundTrue`); a node that showed the
    query all the time is found, lost to an error, still below the queue (`Covered`)
    or, once the search is over, cut off and no nearer than the last match (`CutOff`).
  * Of paths only this is assumed: they are finitely many, going up from one ends
    at the root, and a tree's nodes have their parents (`DepthAssumption`,
    `ShapeAssumption`, `SearchAssumption`).
* `ScaffoldProofs`, for any specs, stubs and edits
  * For any number of commands at a time, whatever dies or fails: `ScaffoldTypes`,
    `[]TypeOK`, by `ScaffoldTyped`, which also says of each command what is left of its
    plan and what it has in hand; and `MarkerIsLast`, `[]MarkerMeansComplete`. Its
    inductive invariant `Marked` adds that in every command's plan `pmstate.yaml` stands
    after every generated file that does not exist yet. No step removes a file.
  * For one command at a time (`OneProc`), dying and failing as it likes:
    `WritesAreAtomic`, `NothingIsOverwritten`, `RefusalIsClean`, `SuccessIsWhole`,
    `UpgradeIsSettled`, `EditsAreKept`. With two of them the statements are false, since
    they share the `.tmp` files and look for collisions before they write (section 3).
    The inductive invariant `Alone` says of a command: the `.tmp` it works on is its own
    and holds what it wrote, and where it may not overwrite there is nothing
    (`OwnFiles`); as long as it may refuse, it has changed nothing (`Unchanged`); every
    file is in place or still in the plan (`Progress`); the stubs it will append are those
    the file lacks (`Appending`), so a user's function is never shadowed
    (`KeepsEdits`).
* `IntakeProofs`, for any specs, trees, callers, seeds and requests
  * `IntakeTypes`, `EventsConform` and `AnswersAreTrue`: `[]TypeOK`,
    `[]EveryEventConforms` and `[]AnswersTellTheTruth`. Of the inductive invariant
    `IntakeInv` they need: an event under way conforms to the spec that its writer
    loaded (`ProcsGood`); the id of a call is nobody else's, and in a log only if its append
    got that far (`IdsIssued`, `CallsApart`); who was told ok, or is about to be, left a
    whole line, and what broke off belongs to somebody who is not told ok
    (`Truth`, `BreaksApart`); a file is removed under a caller only with its request put on
    record as wiped (`Linked`). `AnswersAreTrue` then follows by looking at the line
    before the caller's own.
  * `SeedsAreReproducible` and `IdsAreDistinct`: `[]SeedIsReproducible` and
    `[]DistinctIds`, for one seed at a time (`OneSeeder`), beside any number of callers,
    and after any number of seeds that died. Two at a time may both find `state/` empty
    and both write. Appends break off anywhere, also those of a seed. `SeedsGood` is the invariant: once a seeder is past its check, every
    log it is to write holds, of seed events, just those it has generated so far, or is
    on its list of files to unlink.
* `ProcessTreeProofs`, for any names and bounds
  * `WellFormedHolds`: `TreeSpec => []WellFormed`. The inductive invariant `TreeInv`: the
    children of a node are older than it and have distinct names (`GoodHeap`), and the
    program holds nodes of the heap. A node is allocated after its children and never
    changes, so no step can make a cycle; the copies of a spawn or a prune are
    allocated from the end of the path up (`SpineGood`).
  * `IsPathTreeHolds`: `TreeSpec => IsPathTree`, the refinement of `PathTree`. Since children
    are older, every node has exactly one value (`ValueOfIs`); since nodes are kept,
    so are their values (`ValuesKept`): no call changes a tree already held, however much
    it shares. The copies along the path have the values that `Put` makes
    (`SpineValue`), so `get`, `spawn` and `prune` give what the abstract operation does
    (`GetIs`, `SpawnIs`, `PruneIs`) or raise when it does.
* `SessionProofs`, Upcasting: `ReadsDecode` and `CyclesAreReal`, that is `[]RowsAreDecoded` and
  `[]CycleIsReal`, for any upcasters registered at any time. `UpInv`: the types that a
  call has seen are a chain of upcasters from the line's own type that passes no type
  twice (`Chained`). An upcaster is never replaced, so the chain survives `Register`;
  it is at most as long as there are upcasters (`ChainIsShort`), so `Iterate`, which
  goes on for that many steps, ends where the loop does.
* `SessionProofs`, Harness: `PromptsAreCurrent`, `[]PromptIsCurrent`, for any number of runs that
  share the cache. The cache may well hold a text under a time it never had, when an
  edit came between `stat` and `read`. `Sound` is what saves it: then that time has
  passed, and every run that still goes by it was under way when the text was put
  there. `HarnessInv` says it of the cache and of what a run is about to cache.

* `SessionProofs`, SpecProject: `ValidateHolds`, `ProjectSpec => []ValidateIsRight`, for any
  documents, any names, and any sequence of edits, upgrades and validations.
  `ProjectInv`: tree.py and add.py are always those of one document, that was accepted and
  renders, until the user edits tree.py (`Rooted`), whatever pmstate.yaml holds by
  then; and what `validate` left is about the files as they are, since every edit and
  upgrade discards it (`Judged`). From there, whether tree.py builds is a matter of the names in
  that one document and of the spoilt files (`BuildsIs`), and a tree that was built has
  each declared child once, with a file of its own (`BuiltIsRight`). `LaterAssumption`: an
  edited pmstate.yaml is one of the documents. `FileAssumption`: the value that stands for
  a missing file is not the name of a log.

Functions defined by recursion (over the naturals: `Missing` of Scaffold, `Iterate` of
Upcasting; along a path: `Along`, `Way`, `Put`; over a tree: `Eval`, `ValueOf`, `Depth`)
take part in these proofs without the library's induction theorems, which cannot be
instantiated here: induction is on the least number at which a claim fails (`LeastNat`,
from the well-foundedness of `<`), and where the data is a tree, on its depth or on the
age of a node. TLC checked every inductive invariant on the instance of a run before it
was proved (`RollupInv` on that of `rollup_shared`, on which the others of
`AgentToolsProofs` rest).

Every invariant of the runs that are expected to pass is a theorem, and so are the three
refinements and `DurableStaysReadable`. Model-checked only:

* Liveness (`CallsReturn`, `CommandsEnd`, `UpcastEnds`, `WatchersStop`): fairness and
  ENABLED are beyond the prover.
* `ListingIsBreadthFirst`, the assumption of `MCAgentTools` about `Listing`: an evaluation
  of the function on the instance's trees.
* What the four expected counterexamples refute.

## 6. Not modelled

* Argument parsing, printing, `--strict` (which calls mypy and ruff), the lines that
  the parser's errors name, and the spelling of paths (`_paths.parse`).
* The text of rendered files beyond names, logs and the shape of the tree; ULIDs,
  timestamps, JSON wording. ULIDs are taken to be unique and SHA-256 to be injective.
* The external SDK and what an agent says; the watcher's callback, which does nothing.
* `read_doc` and the table views: a table is read whole and never written by
  pmstate.
* An edit that sets the modification time of AGENTS.md back.
* A view and a reducer of one name (the import of the second one wins), names with a double
  quote, a project name that breaks the docstrings it is put into, and functions that the
  user gives a name that views.py or reducers.py needs itself. Of the generated
  files the user deletes AGENTS.md at most (`SpecProject`); functions are added, not removed.
* The argument parser that is generated into `add.py`. What `add.py` writes is not in
  `Intake`: its events have the fields that pmstate.yaml declared when it was rendered.
* What a spliced line says: `EventLog` lets it parse or not, and pass a filter or not.
* The storage protocol (`backends/base.py`), which has no code, and the examples.

## 7. Plan

No safety property that a run checks is left to prove. What would extend the project:

1. *Hazards without a property* (`PROJECT.json`), each with the reason it has none. The
   nearest to a property are the death of `--upgrade` in the middle of `views.py`
   (`EditsInForce` for commands that are killed, to be stated once the code writes a
   temporary file) and a reducer whose error is cached until a child changes.
2. *`Listing` for every tree*: rows top down, each once, as a theorem; the queue argument
   of `SearchInv` would carry over.
