------------------------------ MODULE AgentTools ------------------------------
(***************************************************************************)
(* The agent's tools that look at views: list_tree, get_state, find_state. *)
(* A process (a Harness) holds a tree and serves one tool call at a time.  *)
(* get_state is one call of compute_view, find_state calls it once for     *)
(* every node it visits, while logs grow, other processes write the cache  *)
(* and calls fail: a search never sees the project at one moment.          *)
(*                                                                         *)
(* The fourth tool, read_log, is in Upcasting.                             *)
(***************************************************************************)
EXTENDS Rollup, FiniteSets, SequencesExt

CONSTANTS
  Root,     \* the path "/"
  Shown,    \* numbers of events for which a log's view shows the query
  Scopes,   \* path_glob arguments: each the set of paths it matches
  Maxima    \* max_results arguments, in 1 .. _FIND_RESULT_MAX

\* The segments of a path, which are finitely many.
Depth[p \in Paths] == IF Parent[p] = p THEN 0 ELSE 1 + Depth[Parent[p]]

ASSUME DepthAssumption ==
  /\ IsFiniteSet(Paths) /\ Depth \in [Paths -> Nat]
  /\ \A p \in Paths : Depth[p] = IF Parent[p] = p THEN 0 ELSE 1 + Depth[Parent[p]]
ASSUME SearchAssumption ==
  /\ Root \in Paths /\ \A p \in Paths : Parent[p] = p <=> p = Root
  /\ Maxima \subseteq 1 .. 200
  /\ \A s \in Scopes : s \subseteq Paths

VARIABLE search  \* the find_state call of each process

agentVars == <<log, tree, base, at, views, answer, start, cache, mode, pending, search>>

\* found: the paths of the matches; lost, since: history, the nodes whose view
\* was an error, and the logs when the search began.
NoSearch ==
  [pc |-> "none", queue |-> << >>, found |-> << >>, max |-> 1, scope |-> {},
   lost |-> {}, since |-> [p \in Paths |-> 0]]

AInit == RInit /\ search = [pr \in Procs |-> NoSearch]

\* list_tree(path, depth): the paths of its rows.  A turn of the loop takes the
\* first node off the queue, with its level, and lists its children.
Listing(t, p, depth) ==
  LET Turn[n \in Nat] ==
        IF n = 0 THEN [queue |-> <<<<p, 0>>>>, rows |-> << >>]
        ELSE LET now == Turn[n - 1]
                 level == Head(now.queue)[2]
                 kids == IF level >= depth THEN << >> ELSE Kids[t][Head(now.queue)[1]]
             IN  IF now.queue = << >> THEN now
                 ELSE [queue |-> Tail(now.queue) \o [i \in DOMAIN kids |-> <<kids[i], level + 1>>],
                       rows |-> now.rows \o kids]
  IN  Turn[Cardinality(Paths)].rows

\* A path and those above it.
Above[p \in Paths] == {p} \union IF Parent[p] = p THEN {} ELSE Above[Parent[p]]

\* str(query) in json.dumps(view): the reducers keep their children's views, so
\* the view of p shows the query if that of a leaf below it does.
Shows(t, p, view) ==
  LET Within[q \in Paths] == IF q = p THEN view.text ELSE Within[Parent[q]].of[q]
  IN  \E q \in Paths :
        InTree(t, q) /\ IsLeaf(t, q) /\ p \in Above[q] /\ Within[q].of \in Shown

-----------------------------------------------------------------------------
Searching(pr) == search[pr].pc \in {"next", "view"}

\* get_state on its own.
GetState(pr, t, p) ==
  /\ ~ Searching(pr) /\ RBegin(pr, t, p)
  /\ search' = [search EXCEPT ![pr] = NoSearch]

FindState(pr, t, scope, max) ==
  /\ ~ Searching(pr) /\ at[pr] = None
  /\ search' = [search EXCEPT ![pr] =
       [pc |-> "next", queue |-> <<Root>>, found |-> << >>, max |-> max, scope |-> scope,
        lost |-> {}, since |-> log]]
  /\ tree' = [tree EXCEPT ![pr] = t] /\ answer' = [answer EXCEPT ![pr] = None]
  /\ UNCHANGED <<log, base, at, views, start, cache, mode, pending>>

\* while queue and len(matches) < max_results.
Continues(pr) ==
  /\ search[pr].pc = "next"
  /\ search[pr].queue # << >> /\ Len(search[pr].found) < search[pr].max

Here(pr) == Head(search[pr].queue)

\* Mutant: depth first.
EnqueueFirst(pr) == Kids[tree[pr]][Here(pr)] \o Tail(search[pr].queue)

\* Mutant: a node that is not in scope has no children in scope.
EnqueueInScope(pr) ==
  Tail(search[pr].queue) \o
    IF Here(pr) \in search[pr].scope THEN Kids[tree[pr]][Here(pr)] ELSE << >>

Enqueue(pr) == Tail(search[pr].queue) \o Kids[tree[pr]][Here(pr)]

\* The glob does not match the node: go on to its children.
Skip(pr) ==
  /\ Continues(pr) /\ Here(pr) \notin search[pr].scope
  /\ search' = [search EXCEPT ![pr].queue = Enqueue(pr)]
  /\ UNCHANGED rollupVars

View(pr) ==
  /\ Continues(pr) /\ Here(pr) \in search[pr].scope
  /\ RBegin(pr, tree[pr], Here(pr))
  /\ search' = [search EXCEPT ![pr].pc = "view"]

\* get_state has returned a view, or an exception as data, whose text is
\* searched like a view and may happen to show the query.
Judge(pr) ==
  /\ search[pr].pc = "view" /\ at[pr] = None
  /\ \E matches \in IF answer[pr] = None THEN BOOLEAN ELSE {Shows(tree[pr], Here(pr), answer[pr])} :
       search' = [search EXCEPT
         ![pr].pc = "next", ![pr].queue = Enqueue(pr),
         ![pr].found = IF matches THEN Append(@, Here(pr)) ELSE @,
         ![pr].lost = IF answer[pr] = None THEN @ \union {Here(pr)} ELSE @]
  /\ UNCHANGED rollupVars

FindReturns(pr) ==
  /\ search[pr].pc = "next" /\ ~ Continues(pr)
  /\ search' = [search EXCEPT ![pr].pc = "done", ![pr].queue = << >>]
  /\ UNCHANGED rollupVars

\* compute_view raises, which get_state catches.
Fails(pr) == RAbort(pr) /\ UNCHANGED search

Dies(pr) ==
  /\ Searching(pr)
  /\ search' = [search EXCEPT ![pr] = NoSearch]
  /\ IF at[pr] # None THEN RAbort(pr) ELSE UNCHANGED rollupVars

ANext ==
  \/ \E p \in Leaves : RAppendEvent(p) /\ UNCHANGED search
  \/ \E pr \in Procs :
       \/ \E t \in Trees, p \in Paths : GetState(pr, t, p)
       \/ \E t \in Trees, scope \in Scopes, max \in Maxima : FindState(pr, t, scope, max)
       \/ Skip(pr) \/ View(pr) \/ Judge(pr) \/ FindReturns(pr)
       \/ Step(pr) /\ UNCHANGED search
       \/ Fails(pr) \/ Dies(pr)

ASpec == AInit /\ [][ANext]_agentVars

-----------------------------------------------------------------------------
(* Properties. *)

\* The view of the subtree of p when the leaves' logs hold reading[leaf]
\* events, as JSON: what a reader of the documentation expects of compute_view.
Eval(t, p, reading) ==
  LET ViewOf[q \in Paths] ==
        Json(IF IsLeaf(t, q) THEN LeafView(t, q, reading[q])
             ELSE Result(t, q, [i \in 1 .. Len(Kids[t][q]) |-> ViewOf[Kids[t][q][i]]]))
  IN  ViewOf[p]

\* What the logs may have held between the moment they held `since` and now.
Readings(since) ==
  {r \in [Paths -> 0 .. MaxEvents] :
     \A p \in Paths : r[p] \in IF p \in Leaves THEN since[p] .. log[p] ELSE {0}}

\* compute_view returns the view of the whole subtree, each leaf as it was at
\* some moment between the call and its return: an append that returned before
\* the call began is never missed, whatever the cache holds.  Up to the JSON
\* round trip of a cached view.
AnswerIsFresh ==
  \A pr \in Procs : answer[pr] # None =>
    \E reading \in Readings(start[pr]) : Json(answer[pr]) = Eval(tree[pr], base[pr], reading)

\* "match query inside each node's view JSON" (tools.py:101): a node that
\* find_state names showed the query while the search ran, whatever stale
\* entries the caches held, or its view was an error.
FoundIsTrue ==
  \A pr \in Procs : \A p \in Range(search[pr].found) \ search[pr].lost :
    \E reading \in Readings(search[pr].since) : Shows(tree[pr], p, Eval(tree[pr], p, reading))

\* p showed the query all the time since pr's search began.
ShownThroughout(pr, p) ==
  \A reading \in Readings(search[pr].since) : Shows(tree[pr], p, Eval(tree[pr], p, reading))

Missed(pr) ==
  {p \in search[pr].scope : InTree(tree[pr], p) /\ ShownThroughout(pr, p)}
    \ (Range(search[pr].found) \union search[pr].lost)

\* A search that returns less than max_results has found every node of the
\* tree that the glob matches and whose view showed the query all the time,
\* unless that node's view was an error.
NothingMissed ==
  \A pr \in Procs :
    search[pr].pc = "done" /\ Len(search[pr].found) < search[pr].max => Missed(pr) = {}

\* "Breadth-first search" (tools.py:101): matches come top down, each node
\* once, and one that max_results cut off is not above any that was returned.
NearestFirst ==
  \A pr \in Procs :
    LET found == search[pr].found
    IN  /\ \A i, j \in 1 .. Len(found) :
             i < j => Depth[found[i]] <= Depth[found[j]] /\ found[i] # found[j]
        /\ search[pr].pc = "done" /\ found # << >> =>
             \A p \in Missed(pr) : Depth[p] >= Depth[Last(found)]
=============================================================================
