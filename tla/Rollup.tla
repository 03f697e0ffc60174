-------------------------------- MODULE Rollup --------------------------------
(***************************************************************************)
(* rollup.compute_view over FilesystemBackend.read_cache and write_cache:  *)
(* every internal node keeps its last view in a file, under a key made of  *)
(* the node's path, its function's source and its children's views.        *)
(*                                                                         *)
(* Several processes, possibly with different versions of the tree, share  *)
(* the cache files and take no lock.  write_text truncates the file and    *)
(* then writes: a process may die in between, and what another one wrote   *)
(* meanwhile is overwritten from its first byte on, which leaves the tail  *)
(* of the longer text behind.                                              *)
(***************************************************************************)
EXTENDS UncachedRollup

VARIABLES
  cache,    \* the cache file of each node
  mode,     \* where in compute_view the frame at[pr] is
  pending   \* the entry write_cache is writing for pr

rollupVars == <<log, tree, base, at, views, answer, start, cache, mode, pending>>

\* A cache file holds an entry (a key and a view), or no JSON: it does not
\* exist, it is empty, or it holds a part or a mixture of entries.
Missing == [state |-> "missing"]
Empty == [state |-> "empty"]
Damaged == [state |-> "damaged"]
Entry(key, view) == [state |-> "entry", key |-> key, view |-> view]

IsEntry(c) == c.state = "entry"

RInit ==
  /\ Init
  /\ cache = [p \in Paths |-> Missing]
  /\ mode = [pr \in Procs |-> "walk"]
  /\ pending = [pr \in Procs |-> Missing]

RAppendEvent(p) == AppendEvent(p) /\ UNCHANGED <<cache, mode, pending>>

RBegin(pr, t, p) == Begin(pr, t, p) /\ UNCHANGED <<cache, mode, pending>>

RDescend(pr) ==
  /\ mode[pr] = "walk"
  /\ Descend(pr)
  /\ UNCHANGED <<cache, mode, pending>>

RReadLeaf(pr) ==
  /\ mode[pr] = "walk"
  /\ ReadLeaf(pr)
  /\ UNCHANGED <<cache, mode, pending>>

CurrentKey(pr) == Key(tree[pr], at[pr], Texts(views[pr][at[pr]]))

\* Mutant: whatever entry the file holds is taken.
MatchesAnyKey(c, key) == IsEntry(c)

\* read_cache returns an entry with this key, and its view is the result.
Matches(c, key) == IsEntry(c) /\ c.key = key

\* Mutant: an entry is taken before the children are visited.
HitUnvisited(pr) ==
  /\ at[pr] # None /\ ~ IsLeaf(tree[pr], at[pr]) /\ mode[pr] = "walk"
  /\ views[pr][at[pr]] = << >>
  /\ IsEntry(cache[at[pr]])
  /\ Return(pr, cache[at[pr]].view)
  /\ UNCHANGED <<cache, mode, pending>>

\* The view comes back from the file as its JSON.
Hit(pr) ==
  /\ AllVisited(pr) /\ mode[pr] = "walk"
  /\ Matches(cache[at[pr]], CurrentKey(pr))
  /\ Return(pr, cache[at[pr]].view)
  /\ UNCHANGED <<cache, mode, pending>>

\* Mutant: the last child's view is taken for the reduced one.
MissUnreduced(pr) ==
  /\ AllVisited(pr) /\ mode[pr] = "walk"
  /\ ~ Matches(cache[at[pr]], CurrentKey(pr))
  /\ pending' = [pending EXCEPT ![pr] =
       Entry(CurrentKey(pr), views[pr][at[pr]][Visited(pr)])]
  /\ mode' = [mode EXCEPT ![pr] = "truncate"]
  /\ UNCHANGED <<vars, cache>>

\* Any other key, and any file that is not JSON, is a miss: reduce.
Miss(pr) ==
  /\ AllVisited(pr) /\ mode[pr] = "walk"
  /\ ~ Matches(cache[at[pr]], CurrentKey(pr))
  /\ pending' = [pending EXCEPT ![pr] =
       Entry(CurrentKey(pr), Result(tree[pr], at[pr], views[pr][at[pr]]))]
  /\ mode' = [mode EXCEPT ![pr] = "truncate"]
  /\ UNCHANGED <<vars, cache>>

\* mkdir and open("w").
Truncate(pr) ==
  /\ mode[pr] = "truncate"
  /\ cache' = [cache EXCEPT ![at[pr]] = Empty]
  /\ mode' = [mode EXCEPT ![pr] = "write"]
  /\ UNCHANGED <<vars, pending>>

\* json.dumps(default=str): of the view only its JSON is stored.
Stored(entry) == [entry EXCEPT !.view = Json(@)]

\* The text is written from offset 0 on.  Over the text of somebody else the
\* longer one keeps its tail.  The frame returns the object it computed.
Overlay(old, new) == IF old \in {Empty, new} THEN {new} ELSE {new, Damaged}

\* Mutant: wait until the file is as it was truncated.
WriteCacheUntouched(pr) ==
  /\ mode[pr] = "write"
  /\ cache[at[pr]] = Empty
  /\ cache' = [cache EXCEPT ![at[pr]] = Stored(pending[pr])]
  /\ mode' = [mode EXCEPT ![pr] = "walk"]
  /\ pending' = [pending EXCEPT ![pr] = Missing]
  /\ Return(pr, pending[pr].view)

WriteCache(pr) ==
  /\ mode[pr] = "write"
  /\ \E c \in Overlay(cache[at[pr]], Stored(pending[pr])) :
       cache' = [cache EXCEPT ![at[pr]] = c]
  /\ mode' = [mode EXCEPT ![pr] = "walk"]
  /\ pending' = [pending EXCEPT ![pr] = Missing]
  /\ Return(pr, pending[pr].view)

\* Mutant: the frame that was writing is left as it was.
RAbortMidway(pr) ==
  /\ Abort(pr)
  /\ UNCHANGED <<cache, mode, pending>>

\* The process is killed, or reading or writing the cache raises OSError.
\* A write that failed half way leaves a part of the entry.
RAbort(pr) ==
  /\ Abort(pr)
  /\ mode' = [mode EXCEPT ![pr] = "walk"]
  /\ pending' = [pending EXCEPT ![pr] = Missing]
  /\ \/ UNCHANGED cache
     \/ mode[pr] = "write" /\ cache' = [cache EXCEPT ![at[pr]] = Damaged]

Step(pr) ==
  \/ RDescend(pr)
  \/ RReadLeaf(pr)
  \/ Hit(pr)
  \/ Miss(pr)
  \/ Truncate(pr)
  \/ WriteCache(pr)

RNext ==
  \/ \E p \in Leaves : RAppendEvent(p)
  \/ \E pr \in Procs :
       \/ \E t \in Trees, p \in Paths : RBegin(pr, t, p)
       \/ Step(pr)
       \/ RAbort(pr)

RSpec == RInit /\ [][RNext]_rollupVars

\* compute_view is straight-line recursion with no lock and no wait: a thread
\* that runs it keeps being scheduled until it returns or dies.
RFairSpec == RSpec /\ \A pr \in Procs : WF_rollupVars(Step(pr))

-----------------------------------------------------------------------------
(* Properties. *)

\* A finite sequence of anything: views have no type of their own.
IsSequence(s) == s \in Seq({s[i] : i \in DOMAIN s})

\* Every variable has its type.
RTypeOK ==
  /\ log \in [Paths -> 0 .. MaxEvents]
  /\ tree \in [Procs -> Trees]
  /\ base \in [Procs -> Paths \union {None}]
  /\ at \in [Procs -> Paths \union {None}]
  /\ start \in [Procs -> [Paths -> 0 .. MaxEvents]]
  /\ mode \in [Procs -> {"walk", "truncate", "write"}]
  /\ DOMAIN cache = Paths /\ DOMAIN pending = Procs
  /\ DOMAIN answer = Procs /\ DOMAIN views = Procs
  /\ \A p \in Paths : cache[p].state \in {"missing", "empty", "damaged", "entry"}
  /\ \A pr \in Procs :
       /\ at[pr] = None => mode[pr] = "walk"
       /\ mode[pr] # "walk" => IsEntry(pending[pr])
       /\ DOMAIN views[pr] = Paths
       /\ \A p \in Paths : IsSequence(views[pr][p])

\* "match means the cached view is fresh" (rollup.py:6-7): whenever a cached
\* entry would be taken for a node with these children's views, its view is
\* the JSON of what reducing them gives.  No crash, overlapping write or change
\* of tree can leave an entry that answers for other inputs.
MatchMeansFresh ==
  \A pr \in Procs :
    AllVisited(pr) /\ Matches(cache[at[pr]], CurrentKey(pr)) =>
      cache[at[pr]].view = Json(Result(tree[pr], at[pr], views[pr][at[pr]]))

\* Where an entry comes from: some tree version's result for the views that
\* its key names.
FromSomeTree(p, c) ==
  \E t \in Trees :
    LET texts == c.key[3]
    IN  /\ Len(texts) = Len(Kids[t][p])
        /\ c.key = Key(t, p, texts)
        /\ c.view = Json(Result(t, p, [i \in 1 .. Len(texts) |-> Parsed(texts[i])]))

\* The file of a node never holds an entry computed for another node, and an
\* entry that is about to be written is the one for the frame it is written by.
CacheProvenance ==
  /\ \A p \in Paths : IsEntry(cache[p]) => FromSomeTree(p, cache[p])
  /\ \A pr \in Procs : mode[pr] # "walk" =>
       /\ AllVisited(pr)
       /\ pending[pr] = Entry(CurrentKey(pr),
                              Result(tree[pr], at[pr], views[pr][at[pr]]))

\* compute_view without a cache, all views taken as JSON.
JsonViews == [pr \in Procs |-> [p \in Paths |->
                [i \in 1 .. Len(views[pr][p]) |-> Json(views[pr][p][i])]]]

JsonAnswer == [pr \in Procs |-> IF answer[pr] = None THEN None ELSE Json(answer[pr])]

U == INSTANCE UncachedRollup
       WITH Plain <- {Fn[t][p] : t \in Trees, p \in Paths},
            views <- JsonViews, answer <- JsonAnswer

\* A cached call behaves as a call without a cache, up to the JSON round trip
\* of write_cache and read_cache (filesystem.py:107-108,116-118): a hit
\* returns the JSON of the object that a miss returns.
CacheIsTransparent == U!Spec

\* A call that is not killed returns, whatever the others do to the cache.
CallsReturn == \A pr \in Procs : at[pr] # None ~> at[pr] = None
=============================================================================
