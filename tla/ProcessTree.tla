------------------------------ MODULE ProcessTree ------------------------------
(***************************************************************************)
(* Node and Tree (node.py, tree.py, _paths.py) as objects: a frozen Node   *)
(* refers to its children, spawn and prune copy the nodes on the way from  *)
(* the root to the change and share all the others, and one Node may be a  *)
(* child of several.  A path is the tuple of names that parse makes of it. *)
(***************************************************************************)
EXTENDS Integers, Sequences, SequencesExt

CONSTANTS
  Names,      \* names that _validate_name accepts
  MaxKids,    \* bound: children given to one Node(...)
  MaxHeld,    \* bound: results the program keeps
  MaxObjects, \* bound: nodes on the heap
  MaxPath     \* bound: names in a path that is asked for

ASSUME TreeBounds == {MaxKids, MaxHeld, MaxObjects, MaxPath} \subseteq Nat

VARIABLES
  heap,    \* the Node objects: their names and their children's indices
  handle,  \* the nodes the program holds, as indices
  call     \* the last call and its outcome

treeVars == <<heap, handle, call>>

TreeInit == heap = << >> /\ handle = << >> /\ call = <<"none", "ok">>

Nowhere == 0

\* The first child of that name, or Nowhere.
Position(n, name) ==
  SelectInSeq(heap[n].children, LAMBDA c : heap[c].name = name)
ChildNamed(n, name) ==
  IF n = Nowhere \/ Position(n, name) = 0 THEN Nowhere
  ELSE heap[n].children[Position(n, name)]

\* The nodes on the way from n down path: the k-th is where the first k names
\* lead, or Nowhere.
Along(n, path) ==
  LET To[k \in 0 .. Len(path)] == IF k = 0 THEN n ELSE ChildNamed(To[k - 1], path[k])
  IN  To

\* Node.find.
Find(n, path) == Along(n, path)[Len(path)]

NodePaths == UNION {[1 .. n -> Names] : n \in 0 .. MaxPath}

-----------------------------------------------------------------------------
TreeGives(op, n) ==
  /\ Len(handle) < MaxHeld
  /\ handle' = Append(handle, n) /\ call' = <<op, "ok">>

TreeRaises(op, why) == call' = <<op, why>> /\ UNCHANGED <<heap, handle>>

Allocate(op, nodes) ==
  /\ Len(heap) + Len(nodes) <= MaxObjects
  /\ heap' = heap \o nodes
  /\ TreeGives(op, Len(heap) + Len(nodes))

\* Mutant: _children_converter without its check.
AnySiblings(ns) == TRUE

DistinctSiblings(ns) == IsInjective([i \in DOMAIN ns |-> heap[ns[i]].name])

\* Node(name, children=...).
MakeNode(name, children) ==
  IF DistinctSiblings(children)
  THEN Allocate("make", <<[name |-> name, children |-> children]>>)
  ELSE TreeRaises("make", "duplicate")

\* Tree.get.
GetNode(root, path) ==
  Find(root, path) # Nowhere /\ TreeGives("get", Find(root, path)) /\ UNCHANGED heap

\* NodePathError, from any of the three: no child has the name, or it is the
\* root that should be pruned.
Missing(root) ==
  /\ {path \in NodePaths : Find(root, path) = Nowhere} # {}
  /\ \E op \in {"get", "spawn", "prune"} : TreeRaises(op, "no path")

\* The copies of the nodes along path, deepest first: the node at path
\* becomes one with these children, each one above it gets the copy below it
\* in the place of the original.
Spine(root, path, children) ==
  [j \in 1 .. Len(path) + 1 |->
     LET node == Along(root, path)[Len(path) + 1 - j]
     IN  IF j = 1 THEN [heap[node] EXCEPT !.children = children]
         ELSE [heap[node] EXCEPT
                 !.children[Position(node, path[Len(path) + 2 - j])] = Len(heap) + j - 1]]

\* Tree.spawn, _add_child.
SpawnChild(root, path, child) ==
  LET parent == Find(root, path)
  IN  /\ parent # Nowhere
      /\ IF ChildNamed(parent, heap[child].name) # Nowhere
         THEN TreeRaises("spawn", "duplicate")
         ELSE Allocate("spawn", Spine(root, path, Append(heap[parent].children, child)))

Without(parent, name) == RemoveAt(heap[parent].children, Position(parent, name))

\* Mutant: the child is removed from the parent itself.
PruneInPlace(root, path) ==
  LET parent == Find(root, Front(path))
  IN  /\ path # << >> /\ Find(root, path) # Nowhere
      /\ heap' = [heap EXCEPT ![parent].children = Without(parent, Last(path))]
      /\ TreeGives("prune", root)

\* Tree.prune, _remove_child.
PruneChild(root, path) ==
  /\ path # << >> /\ Find(root, path) # Nowhere
  /\ Allocate("prune",
       Spine(root, Front(path), Without(Find(root, Front(path)), Last(path))))

TreeNext ==
  \/ \E name \in Names, n \in 0 .. MaxKids : \E ks \in [1 .. n -> DOMAIN handle] :
       MakeNode(name, [i \in 1 .. n |-> handle[ks[i]]])
  \/ \E root \in Range(handle) :
       \/ Missing(root)
       \/ \E path \in NodePaths :
            \/ GetNode(root, path) \/ PruneChild(root, path)
            \/ \E child \in Range(handle) : SpawnChild(root, path, child)

TreeSpec == TreeInit /\ [][TreeNext]_treeVars

-----------------------------------------------------------------------------
(* Properties. *)

\* The value of a node.
ValueOf[n \in DOMAIN heap] ==
  [name |-> heap[n].name,
   kids |-> [i \in DOMAIN heap[n].children |-> ValueOf[heap[n].children[i]]]]

V == INSTANCE PathTree WITH held <- [h \in DOMAIN handle |-> ValueOf[handle[h]]], last <- call

\* "spawn/prune over an immutable Node graph" (tree.py:1): though the trees
\* that the program holds share nodes, each call makes exactly the tree it
\* should, or raises, and changes no tree held before.
IsPathTree == V!Spec

\* No node, however it came about, has two children of one name, or is below
\* itself: every node can be found by its path and every walk ends.
WellFormed ==
  \A n \in DOMAIN heap :
    /\ \A i, j \in DOMAIN heap[n].children :
         heap[heap[n].children[i]].name = heap[heap[n].children[j]].name => i = j
    /\ \A i \in DOMAIN heap[n].children : heap[n].children[i] \in 1 .. n - 1
=============================================================================
