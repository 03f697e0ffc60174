-------------------------------- MODULE Harness --------------------------------
(***************************************************************************)
(* Harness.run of adapters/claude_sdk.py, from its system prompt to its    *)
(* end.  The prompt takes AGENTS.md from load_agents_md, whose cache is    *)
(* global to the process and keyed by modification time; then a watcher    *)
(* thread is started, and the conversation is held with an external SDK.   *)
(* Runs may overlap, in several threads, and the file is edited meanwhile. *)
(*                                                                         *)
(* The tools that the conversation calls are in AgentTools, Upcasting and  *)
(* Intake.                                                                 *)
(***************************************************************************)
EXTENDS Integers

CONSTANTS
  Runs,      \* calls of Harness.run
  Texts,     \* contents of AGENTS.md, the empty one of a file being written included
  Gone,      \* no file; no prompt yet
  MaxClock,  \* bound: ticks of the file system's clock
  MaxEdits   \* bound: edits of AGENTS.md

ASSUME HarnessAssumption == Gone \notin Texts /\ MaxClock \in Nat /\ MaxEdits \in Nat

VARIABLES
  agentsMd,  \* the file: its text and its mtime
  clock,     \* modification times come from it
  edits,     \* number of edits so far
  mdCache,   \* _cache
  run,       \* the state of each run
  ever       \* history: what agentsMd has been

harnessVars == <<agentsMd, clock, edits, mdCache, run, ever>>

NoFile == [text |-> Gone, mtime |-> 0]

\* mtime, text: locals of load_agents_md; prompted: it has returned text;
\* stop: the stop_event is set; during: history, agentsMd while it loaded.
HarnessInit ==
  /\ agentsMd \in {NoFile} \union [text : Texts, mtime : {1}]
  /\ clock = 1 /\ edits = 0
  /\ mdCache = NoFile
  /\ run = [r \in Runs |->
       [pc |-> "idle", mtime |-> 0, text |-> Gone, prompted |-> FALSE,
        watcher |-> "none", stop |-> FALSE, during |-> {}]]
  /\ ever = {agentsMd}

-----------------------------------------------------------------------------
(* The world. *)

Tick ==
  /\ clock < MaxClock /\ clock' = clock + 1
  /\ UNCHANGED <<agentsMd, edits, mdCache, run, ever>>

Loading(r) == run[r].pc \in {"exists", "stat", "lookup", "read", "store"}

\* An editor writes the file, empties it before it does, or deletes it.
Edit(new) ==
  /\ edits < MaxEdits /\ edits' = edits + 1
  /\ agentsMd' = new /\ ever' = ever \union {new}
  /\ run' = [r \in Runs |->
       IF Loading(r) THEN [run[r] EXCEPT !.during = @ \union {new}] ELSE run[r]]
  /\ UNCHANGED <<clock, mdCache>>

-----------------------------------------------------------------------------
(* load_agents_md. *)

Goes(r, new) == run' = [run EXCEPT ![r] = new] /\ UNCHANGED <<agentsMd, clock, edits, ever>>

Begins(r) ==
  /\ run[r].pc = "idle"
  /\ Goes(r, [run[r] EXCEPT !.pc = "exists", !.during = {agentsMd}])
  /\ UNCHANGED mdCache

Prompt(r, text) == [run[r] EXCEPT !.pc = "prompted", !.text = text, !.prompted = TRUE]

\* No file: forget what is cached, return None.
Exists(r) ==
  /\ run[r].pc = "exists"
  /\ IF agentsMd = NoFile
     THEN Goes(r, Prompt(r, Gone)) /\ mdCache' = NoFile
     ELSE Goes(r, [run[r] EXCEPT !.pc = "stat"]) /\ UNCHANGED mdCache

\* stat and read_text raise when the file has gone: the run is over.
Raised(r) == [run[r] EXCEPT !.pc = "over"]

Stat(r) ==
  /\ run[r].pc = "stat"
  /\ Goes(r, IF agentsMd = NoFile THEN Raised(r)
             ELSE [run[r] EXCEPT !.pc = "lookup", !.mtime = agentsMd.mtime])
  /\ UNCHANGED mdCache

Lookup(r) ==
  /\ run[r].pc = "lookup"
  /\ Goes(r, IF mdCache # NoFile /\ mdCache.mtime = run[r].mtime
             THEN Prompt(r, mdCache.text) ELSE [run[r] EXCEPT !.pc = "read"])
  /\ UNCHANGED mdCache

ReadText(r) ==
  /\ run[r].pc = "read"
  /\ Goes(r, IF agentsMd = NoFile THEN Raised(r)
             ELSE [run[r] EXCEPT !.pc = "store", !.text = agentsMd.text])
  /\ UNCHANGED mdCache

\* Mutant: the text is cached under the time the file has by now.
StoreStatAgain(r) ==
  /\ run[r].pc = "store" /\ agentsMd # NoFile
  /\ mdCache' = [text |-> run[r].text, mtime |-> agentsMd.mtime]
  /\ Goes(r, Prompt(r, run[r].text))

Store(r) ==
  /\ run[r].pc = "store"
  /\ mdCache' = [text |-> run[r].text, mtime |-> run[r].mtime]
  /\ Goes(r, Prompt(r, run[r].text))

-----------------------------------------------------------------------------
(* The rest of _run_async. *)

\* The watcher is optional.
StartSession(r) ==
  /\ run[r].pc = "prompted"
  /\ \E watcher \in {"none", "running"} :
       Goes(r, [run[r] EXCEPT !.pc = "session", !.watcher = watcher])
  /\ UNCHANGED mdCache

\* Mutant: stop_event is set where the answer is returned.
EndSessionUnlessRaised(r) ==
  /\ run[r].pc = "session"
  /\ \E ok \in BOOLEAN : Goes(r, [run[r] EXCEPT !.pc = "over", !.stop = ok])
  /\ UNCHANGED mdCache

\* It returns, or raises, or is cancelled: the finally clause.
EndSession(r) ==
  /\ run[r].pc = "session"
  /\ Goes(r, [run[r] EXCEPT !.pc = "over", !.stop = TRUE])
  /\ UNCHANGED mdCache

\* watchfiles looks at the event from time to time; the thread may also die.
WatcherEnds(r) ==
  /\ run[r].watcher = "running" /\ run[r].stop
  /\ Goes(r, [run[r] EXCEPT !.watcher = "ended"])
  /\ UNCHANGED mdCache

WatcherDies(r) ==
  /\ run[r].watcher = "running"
  /\ Goes(r, [run[r] EXCEPT !.watcher = "ended"])
  /\ UNCHANGED mdCache

HarnessNext ==
  \/ Tick
  \/ \E new \in {NoFile} \union [text : Texts, mtime : {clock}] : Edit(new)
  \/ \E r \in Runs :
       \/ Begins(r) \/ Exists(r) \/ Stat(r) \/ Lookup(r) \/ ReadText(r) \/ Store(r)
       \/ StartSession(r) \/ EndSession(r) \/ WatcherEnds(r) \/ WatcherDies(r)

\* wf_watch polls the stop_event that it was given.
HarnessFairness == \A r \in Runs : WF_harnessVars(WatcherEnds(r))

HarnessSpec == HarnessInit /\ [][HarnessNext]_harnessVars /\ HarnessFairness

-----------------------------------------------------------------------------
(* Properties. *)

\* "Caches by absolute path; invalidates when the file's mtime changes"
\* (agents_md.py:13): the text in a prompt was in the file while the prompt was
\* made, or had the modification time that the file had then: edits between
\* stat and read, and other threads, leave nothing older in the cache.
PromptIsCurrent ==
  \A r \in Runs : run[r].prompted =>
    \E f \in run[r].during :
      \/ run[r].text = f.text
      \/ [text |-> run[r].text, mtime |-> f.mtime] \in ever

\* "stop_event lets callers cleanly shut the thread down" (_watcher.py:28): the
\* watcher does not outlive its run, however the run ends.
WatchersStop ==
  \A r \in Runs : run[r].pc = "over" ~> run[r].watcher # "running"
=============================================================================
