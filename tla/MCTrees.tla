-------------------------------- MODULE MCTrees --------------------------------
(* Small process trees to instantiate the modules of the rollup with.          *)
EXTENDS RollupTree, TLC

CONSTANTS root, group, a, b, c

MCParent ==
  [p \in Paths |-> IF p \in {a, b} \/ root \notin Paths THEN group ELSE root]

\* The tree before and after spawn("/group", b).
PathsFlat == {group, a, b}
PathsTwo == {root, group, a, b}
PathsThree == PathsTwo \union {c}
Shape(groupKids) ==
  [p \in Paths |->
     CASE p = root -> IF c \in Paths THEN <<group, c>> ELSE <<group>>
       [] p = group -> groupKids
       [] OTHER -> << >>]
GrowKids == "small" :> Shape(<<a>>) @@ "grown" :> Shape(<<a, b>>)

\* prune("/c").
PathsPruned == {root, group, a, c}
PruneKids == "full" :> Shape(<<a>>) @@ "pruned" :> [Shape(<<a>>) EXCEPT ![root] = <<group>>]
Prune == {"full", "pruned"}

\* One child and its replacement: prune("/group/a"), then spawn("/group", b).
RenameKids == "before" :> Shape(<<a>>) @@ "after" :> Shape(<<b>>)

Before == {"before", "after"}
Grow == {"small", "grown"}

\* The views of a and b are not JSON values; the group's reducer makes the
\* same of them and of their JSON.
FunctionOf(p) ==
  CASE p = root -> "by name" [] p = group -> "sum" [] p = c -> "count" [] OTHER -> "view"
GrowFn == [t \in Grow |-> [p \in Paths |-> FunctionOf(p)]]
PruneFn == [t \in Prune |-> [p \in Paths |-> FunctionOf(p)]]
RenameFn == [t \in Before |-> [p \in Paths |-> FunctionOf(p)]]

ByName == [f \in {"by name", "sum", "count", "view"} |-> f]

\* A reducer without a reducer above it may return anything.
OnlyCount == {"count"}
CountAndSum == {"count", "sum"}
OnlySum == {"sum"}

ASSUME TreesAreFaithful == Trees \in {Grow, Prune} => KeysFaithful
ASSUME TreesAreSafe == JsonSafe
=============================================================================
