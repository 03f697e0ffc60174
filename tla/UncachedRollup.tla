---------------------------- MODULE UncachedRollup ----------------------------
(***************************************************************************)
(* The promise of compute_view: each call visits the subtree depth first,  *)
(* children in order, reads every leaf once while the call runs, and       *)
(* reduces every internal node from the views its children just returned.  *)
(* This is compute_view without read_cache and write_cache.                *)
(*                                                                         *)
(* The recursion's frames are the nodes from base[pr], where the call      *)
(* began, down to at[pr]; views[pr][p] are the views that the children of  *)
(* p visited so far have returned (children_views in the code), empty      *)
(* where there is no frame.                                                *)
(***************************************************************************)
EXTENDS RollupTree

VARIABLES
  log,     \* number of events in each leaf's log
  tree,    \* the tree each process holds
  base,    \* the path its call was made for
  at,      \* the node it is at, None when no call runs
  views,   \* views returned to the frames of the call
  answer,  \* the view the last call returned
  start    \* history: the logs when the call began

vars == <<log, tree, base, at, views, answer, start>>

NoViews == [p \in Paths |-> << >>]

Init ==
  /\ log = [p \in Paths |-> 0]
  /\ tree \in [Procs -> Trees]
  /\ base = [pr \in Procs |-> None]
  /\ at = [pr \in Procs |-> None]
  /\ views = [pr \in Procs |-> NoViews]
  /\ answer = [pr \in Procs |-> None]
  /\ start = [pr \in Procs |-> log]

\* A writer appends to a log (see EventLog).
AppendEvent(p) ==
  /\ log[p] < MaxEvents
  /\ log' = [log EXCEPT ![p] = @ + 1]
  /\ UNCHANGED <<tree, base, at, views, answer, start>>

\* compute_view_at(t, p, ...) finds the node and calls compute_view.
Begin(pr, t, p) ==
  /\ at[pr] = None
  /\ InTree(t, p)
  /\ tree' = [tree EXCEPT ![pr] = t]
  /\ base' = [base EXCEPT ![pr] = p]
  /\ at' = [at EXCEPT ![pr] = p]
  /\ answer' = [answer EXCEPT ![pr] = None]
  /\ start' = [start EXCEPT ![pr] = log]
  /\ views' = [views EXCEPT ![pr] = NoViews]
  /\ UNCHANGED log

KidsOf(pr) == Kids[tree[pr]][at[pr]]

Visited(pr) == Len(views[pr][at[pr]])

\* All children of the internal node pr is at have returned.
AllVisited(pr) ==
  /\ at[pr] # None
  /\ ~ IsLeaf(tree[pr], at[pr])
  /\ Visited(pr) = Len(KidsOf(pr))

\* The recursive call for the next child.
Descend(pr) ==
  /\ at[pr] # None
  /\ Visited(pr) < Len(KidsOf(pr))
  /\ at' = [at EXCEPT ![pr] = KidsOf(pr)[Visited(pr) + 1]]
  /\ UNCHANGED <<log, tree, base, views, answer, start>>

\* The frame at[pr] returns view v to its caller.
Return(pr, v) ==
  /\ UNCHANGED <<log, tree, base, start>>
  /\ IF at[pr] = base[pr]
     THEN /\ at' = [at EXCEPT ![pr] = None]
          /\ answer' = [answer EXCEPT ![pr] = v]
          /\ views' = [views EXCEPT ![pr][at[pr]] = << >>]
     ELSE /\ at' = [at EXCEPT ![pr] = Parent[@]]
          /\ views' = [views EXCEPT ![pr][at[pr]] = << >>,
                                    ![pr][Parent[at[pr]]] =
                                      Append(views[pr][Parent[at[pr]]], v)]
          /\ UNCHANGED answer

ReadLeaf(pr) ==
  /\ at[pr] # None
  /\ IsLeaf(tree[pr], at[pr])
  /\ Return(pr, LeafView(tree[pr], at[pr], log[at[pr]]))

Reduce(pr) ==
  /\ AllVisited(pr)
  /\ Return(pr, Result(tree[pr], at[pr], views[pr][at[pr]]))

\* The process dies or the call raises; it can be called again.
Abort(pr) ==
  /\ at[pr] # None
  /\ at' = [at EXCEPT ![pr] = None]
  /\ views' = [views EXCEPT ![pr] = NoViews]
  /\ UNCHANGED <<log, tree, base, answer, start>>

Next ==
  \/ \E p \in Leaves : AppendEvent(p)
  \/ \E pr \in Procs :
       \/ \E t \in Trees, p \in Paths : Begin(pr, t, p)
       \/ Descend(pr)
       \/ ReadLeaf(pr)
       \/ Reduce(pr)
       \/ Abort(pr)

Spec == Init /\ [][Next]_vars
=============================================================================
