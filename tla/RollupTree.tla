------------------------------ MODULE RollupTree ------------------------------
(***************************************************************************)
(* What the rollup computes: process trees, node functions, views and      *)
(* cache keys.  Shared by UncachedRollup, which says what compute_view     *)
(* promises, and by Rollup, which is compute_view with its cache.          *)
(*                                                                         *)
(* A node is its path.  Several versions of the tree exist side by side:   *)
(* Tree.spawn and Tree.prune return new trees, and a process keeps the one *)
(* it imported, while the logs and the caches on disk are shared.          *)
(***************************************************************************)
EXTENDS Integers, Sequences

CONSTANTS
  Procs,       \* threads or processes that compute views
  Trees,       \* versions of the process tree
  Paths,       \* paths of nodes
  Kids,        \* Kids[t][p]: the paths of node.children, in order
  Parent,      \* Parent[p]: p without its last segment
  Fn,          \* Fn[t][p]: the reducer of an internal node, the view of a leaf
  SourceHash,  \* SourceHash[f]: what _fn_hash makes of the function's source
  Plain,       \* functions whose views are JSON values: no datetime, tuple, int key
  Blind,       \* reducers whose view, as JSON, depends only on their input as JSON
  MaxEvents,   \* bound: events in one log
  None

IsLeaf(t, p) == Kids[t][p] = << >>

\* p is a node of tree t.  The root is its own parent.
InTree(t, p) ==
  p = Parent[p] \/ \E i \in 1 .. Len(Kids[t][Parent[p]]) : Kids[t][Parent[p]][i] = p

Leaves == {p \in Paths : \E t \in Trees : InTree(t, p) /\ IsLeaf(t, p)}

ASSUME TreeAssumption ==
  /\ Kids \in [Trees -> [Paths -> Seq(Paths)]]
  /\ Parent \in [Paths -> Paths]
  /\ \A t \in Trees, p \in Paths :
       /\ \A i \in 1 .. Len(Kids[t][p]) : Parent[Kids[t][p][i]] = p
       /\ \A i, j \in 1 .. Len(Kids[t][p]) : Kids[t][p][i] = Kids[t][p][j] => i = j
\* A path that is no node of a tree has no kids there, and none is its own.
ASSUME ShapeAssumption ==
  \A t \in Trees, p \in Paths :
    /\ ~ InTree(t, p) => Kids[t][p] = << >>
    /\ \A i \in 1 .. Len(Kids[t][p]) : Kids[t][p][i] # p
ASSUME NoneAssumption == None \notin Paths /\ None \notin Trees
ASSUME EventsAssumption == MaxEvents \in Nat

\* A view is an object and the JSON text that json.dumps(default=str) makes of
\* it.  Nothing is assumed of the functions but that they are functions: equal
\* inputs give equal views.
Apply(f, texts, objects) ==
  LET text == [fn |-> f, of |-> IF f \in Blind THEN texts ELSE objects, form |-> "json"]
  IN  [text |-> text,
       object |-> IF f \in Plain THEN text ELSE [fn |-> f, of |-> objects, form |-> "python"]]

\* json.loads of a text.
Parsed(text) == [text |-> text, object |-> text]

\* What is left of a view that was written to a cache file and read back.
Json(view) == Parsed(view.text)

\* _leaf_view: the node's view function over its log, here its event count.
LeafView(t, p, count) == Apply(Fn[t][p], count, count)

\* The children's views keyed by child name, through the node's reducer (with
\* none they are the view: that is Blind).  An exception inside the reducer is
\* a view too (_safe_reduce).
Result(t, p, views) ==
  LET names == {Kids[t][p][i] : i \in 1 .. Len(Kids[t][p])}
      Of(k) == views[CHOOSE i \in 1 .. Len(Kids[t][p]) : Kids[t][p][i] = k]
  IN  Apply(Fn[t][p], [k \in names |-> Of(k).text], [k \in names |-> Of(k).object])

Texts(views) == [i \in 1 .. Len(views) |-> views[i].text]

\* _cache_key: the path, the function's hash and the hashes of the children's
\* views as JSON, in order.  SHA-256 is taken to be injective.  The children's
\* names are not part of it.
Key(t, p, texts) == <<p, SourceHash[Fn[t][p]], texts>>

\* What the key must tell apart for the cache to be right: no two versions
\* of the tree give a node different functions with one source hash, or
\* equally many children under different names.
KeysFaithful ==
  \A t, u \in Trees, p \in Paths :
    /\ SourceHash[Fn[t][p]] = SourceHash[Fn[u][p]]
    /\ Len(Kids[t][p]) = Len(Kids[u][p])
    => Fn[t][p] = Fn[u][p] /\ Kids[t][p] = Kids[u][p]

\* What a view read back from a cache may replace: a reducer that looks at
\* more than the JSON of its children's views gets none but JSON values.
JsonSafe ==
  \A t \in Trees, p \in Paths :
    Fn[t][p] \in Blind \/ \A i \in 1 .. Len(Kids[t][p]) : Fn[t][Kids[t][p][i]] \in Plain
=============================================================================
