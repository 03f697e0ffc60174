------------------------------- MODULE Upcasting -------------------------------
(***************************************************************************)
(* UpcasterRegistry and its two users: read_events, a generator, and the   *)
(* read_log tool, which returns a list.  Lines arrive as raw events (how   *)
(* is in EventLog); each is upcast, filtered, and counted, in this order,  *)
(* so the event after the last one that fits is upcast too.  Upcasters are *)
(* registered by whatever runs between two yields, or in another thread.   *)
(*                                                                         *)
(* An event is its type; an upcaster is what it makes of one.              *)
(***************************************************************************)
EXTENDS Integers, Sequences, FiniteSets, SequencesExt

CONSTANTS
  Types,       \* event types
  None,        \* a "type" that is no string; no limit
  Upcasters,   \* pairs <<from, to>> that may be registered
  Log,         \* the types of the events in the log, in order
  EventReads,  \* calls of read_events and read_log
  Accepted,    \* what filters accept: sets of types
  ReadLimits   \* limits

ASSUME UpcastingAssumption ==
  /\ None \notin Types
  /\ Upcasters \subseteq Types \X (Types \union {None})
  /\ Log \in Seq(Types \union {None})
  /\ ReadLimits \subseteq Nat \union {None}

VARIABLES
  registry,  \* the upcasters registered, by type
  reading    \* the state of each call

upcastVars == <<registry, reading>>

\* api: "stream" for read_events, "list" for read_log; pos: lines taken;
\* type: of the event at hand; seen: as in upcast; rows: events yielded or
\* collected; passed: history, what became of each line and the registry then.
UpInit ==
  /\ registry = << >>
  /\ reading = [r \in EventReads |->
       [pc |-> "idle", api |-> "stream", limit |-> None, accept |-> {}, pos |-> 0,
        type |-> None, seen |-> << >>, rows |-> << >>, passed |-> << >>]]

\* Mutant: the last one registered counts.
RegisterOver(from, to) ==
  /\ registry' = [t \in DOMAIN registry \union {from} |-> IF t = from THEN to ELSE registry[t]]
  /\ UNCHANGED reading

\* A second upcaster for a type is refused with ValueError.
Register(from, to) ==
  /\ from \notin DOMAIN registry
  /\ registry' = [t \in DOMAIN registry \union {from} |-> IF t = from THEN to ELSE registry[t]]
  /\ UNCHANGED reading

ReadBegins(r, api, limit, accept) ==
  /\ reading[r].pc = "idle"
  /\ api = "list" => limit # None /\ limit >= 1
  /\ reading' = [reading EXCEPT ![r] =
       [@ EXCEPT !.pc = "next", !.api = api, !.limit = limit, !.accept = accept]]
  /\ UNCHANGED registry

NextLine(r) ==
  /\ reading[r].pc = "next"
  /\ reading' = [reading EXCEPT ![r] =
       IF reading[r].pos = Len(Log) THEN [reading[r] EXCEPT !.pc = "done"]
       ELSE [reading[r] EXCEPT !.pc = "upcast", !.pos = reading[r].pos + 1,
                               !.type = Log[reading[r].pos + 1], !.seen = << >>]]
  /\ UNCHANGED registry

Cycles(r) == Contains(reading[r].seen, reading[r].type)

\* Mutant: one upcaster per event.
FinalOnce(r) ==
  reading[r].type \notin DOMAIN registry \/ reading[r].seen # << >>

\* No string, or no upcaster.
Final(r) == reading[r].type \notin DOMAIN registry

\* Mutant: only the type before is remembered.
ApplyForgetting(r) ==
  /\ reading[r].pc = "upcast" /\ ~ Cycles(r) /\ ~ Final(r)
  /\ reading' = [reading EXCEPT ![r] =
       [reading[r] EXCEPT !.type = registry[reading[r].type], !.seen = <<reading[r].type>>]]
  /\ UNCHANGED registry

Apply(r) ==
  /\ reading[r].pc = "upcast" /\ ~ Cycles(r) /\ ~ Final(r)
  /\ reading' = [reading EXCEPT ![r] =
       [reading[r] EXCEPT !.type = registry[reading[r].type],
                          !.seen = Append(reading[r].seen, reading[r].type)]]
  /\ UNCHANGED registry

\* An exception: a generator's consumer keeps what it got, a list is lost.
Raise(r, why) ==
  reading' = [reading EXCEPT ![r] =
    [reading[r] EXCEPT !.pc = why,
                       !.rows = IF reading[r].api = "list" THEN << >> ELSE reading[r].rows]]

CycleError(r) ==
  /\ reading[r].pc = "upcast" /\ Cycles(r)
  /\ Raise(r, "cycle")
  /\ UNCHANGED registry

UpcasterFails(r) ==
  /\ reading[r].pc = "upcast" /\ ~ Cycles(r) /\ ~ Final(r)
  /\ Raise(r, "failed")
  /\ UNCHANGED registry

Full(r) == reading[r].limit # None /\ Len(reading[r].rows) >= reading[r].limit

\* The filter, then the limit.
Deliver(r) ==
  LET type == reading[r].type
      taken == type \in reading[r].accept
  IN  /\ reading[r].pc = "upcast" /\ ~ Cycles(r) /\ Final(r)
      /\ reading' = [reading EXCEPT ![r] =
           [reading[r] EXCEPT
              !.pc = IF taken /\ Full(r) THEN "done" ELSE "next",
              !.rows = IF taken /\ ~ Full(r) THEN Append(reading[r].rows, type) ELSE reading[r].rows,
              !.passed = Append(reading[r].passed, [type |-> type, registry |-> registry])]]
      /\ UNCHANGED registry

Upcast(r) == Apply(r) \/ CycleError(r) \/ Deliver(r)

UpNext ==
  \/ \E u \in Upcasters : Register(u[1], u[2])
  \/ \E r \in EventReads :
       \/ \E api \in {"stream", "list"}, limit \in ReadLimits, accept \in Accepted :
            ReadBegins(r, api, limit, accept)
       \/ NextLine(r) \/ Upcast(r) \/ UpcasterFails(r)

\* upcast is a loop that waits for nothing.
UpFairness == \A r \in EventReads : WF_upcastVars(Upcast(r))

UpSpec == UpInit /\ [][UpNext]_upcastVars /\ UpFairness

-----------------------------------------------------------------------------
(* Properties. *)

\* n upcasters, or as many as there are, applied to type t.
Iterate(by, t, n) ==
  LET step[i \in 0 .. n] ==
        IF i = 0 THEN t
        ELSE IF step[i - 1] \in DOMAIN by THEN by[step[i - 1]] ELSE step[i - 1]
  IN  step[n]

\* How many of the first n lines that passed fit the filter.
Fitting(r, n) ==
  Cardinality({i \in 1 .. n : reading[r].passed[i].type \in reading[r].accept})

Allowed(r, n) == reading[r].limit = None \/ n <= reading[r].limit

\* "Apply the chain of upcasters until no more match" (upcasters.py:34): every
\* line that passed had become what the chain made it under the upcasters
\* registered by then, though they were registered while it was at work; and
\* the rows are the first ones that the filter accepts, in order, as many as
\* the limit allows.
RowsAreDecoded ==
  \A r \in EventReads :
    LET passed == reading[r].passed
        all == Fitting(r, Len(passed))
    IN  /\ \A i \in 1 .. Len(passed) :
             LET by == passed[i].registry
             IN  passed[i].type = Iterate(by, Log[i], Cardinality(DOMAIN by))
        /\ \/ /\ Len(reading[r].rows) = IF Allowed(r, all) THEN all ELSE reading[r].limit
              /\ \A i \in 1 .. Len(passed) :
                   passed[i].type \in reading[r].accept /\ Allowed(r, Fitting(r, i))
                   => reading[r].rows[Fitting(r, i)] = passed[i].type
           \/ reading[r].api = "list" /\ reading[r].pc \in {"cycle", "failed"}

\* UpcastCycleError is raised for cycles only: the type it was raised at comes
\* back to itself, under the upcasters registered.
CycleIsReal ==
  \A r \in EventReads : reading[r].pc = "cycle" =>
    /\ reading[r].type \in DOMAIN registry
    /\ \E n \in 1 .. Cardinality(DOMAIN registry) :
         Iterate(registry, reading[r].type, n) = reading[r].type

\* "Detects cycles" (upcasters.py:34): the upcasting of an event ends, whatever
\* upcasters there are.
UpcastEnds == \A r \in EventReads : reading[r].pc = "upcast" ~> reading[r].pc # "upcast"
=============================================================================
