-------------------------------- MODULE PathTree --------------------------------
(***************************************************************************)
(* What node.py and tree.py promise: a process tree is a value, a name and *)
(* the sequence of the trees below it.  Every operation makes a new value  *)
(* and leaves the ones the program holds as they are.  Nothing is said of  *)
(* objects and of what they share.                                         *)
(***************************************************************************)
EXTENDS Integers, Sequences, SequencesExt

CONSTANTS
  Names,   \* names that _validate_name accepts
  MaxPath  \* bound: names in a path that is asked for

VARIABLES
  held,  \* the trees the program holds: results of Node, get, spawn, prune
  last   \* the last call and its outcome

pathVars == <<held, last>>

PathNames == UNION {[1 .. n -> Names] : n \in 0 .. MaxPath}

NamesOf(v) == {v.kids[i].name : i \in 1 .. Len(v.kids)}

\* The place among v's children of the one with that name.
Place(v, name) == CHOOSE i \in 1 .. Len(v.kids) : v.kids[i].name = name

\* The subtrees on the way from v to p: the k-th is at the first k names.
Way(v, p) ==
  LET To[k \in 0 .. Len(p)] == IF k = 0 THEN v ELSE To[k - 1].kids[Place(To[k - 1], p[k])]
  IN  To

At(v, p) == Way(v, p)[Len(p)]

IsPath(v, p) == \A k \in 1 .. Len(p) : p[k] \in NamesOf(Way(v, p)[k - 1])

\* v with w in the place of what is at p: the k-th of these is at p but its
\* last k names.
Put(v, p, w) ==
  LET New[k \in 0 .. Len(p)] ==
        IF k = 0 THEN w
        ELSE LET old == Way(v, p)[Len(p) - k]
             IN  [old EXCEPT !.kids[Place(old, p[Len(p) - k + 1])] = New[k - 1]]
  IN  New[Len(p)]

\* v with c as the last child of p.
Graft(v, p, c) == Put(v, p, [At(v, p) EXCEPT !.kids = Append(@, c)])

\* v without the child of p that has that name, and what is below it.
Cut(v, p, name) ==
  Put(v, p, [At(v, p) EXCEPT !.kids = RemoveAt(@, Place(At(v, p), name))])

-----------------------------------------------------------------------------
\* What each operation may give to one who holds these trees.
Made(trees, r) ==
  /\ r.name \in Names
  /\ \A i, j \in 1 .. Len(r.kids) :
       r.kids[i] \in trees /\ (r.kids[i].name = r.kids[j].name => i = j)

Got(trees, r) == \E v \in trees, p \in PathNames : IsPath(v, p) /\ r = At(v, p)

Spawned(trees, r) ==
  \E v, c \in trees, p \in PathNames :
    IsPath(v, p) /\ c.name \notin NamesOf(At(v, p)) /\ r = Graft(v, p, c)

Pruned(trees, r) ==
  \E v \in trees, p \in PathNames :
    IsPath(v, p) /\ p # << >> /\ r = Cut(v, Front(p), Last(p))

\* A child is offered to a node that has one of that name.
Duplicate(trees) ==
  \E v, c \in trees, p \in PathNames : IsPath(v, p) /\ c.name \in NamesOf(At(v, p))

Trees == {held[h] : h \in 1 .. Len(held)}

Given == held'[Len(held')]

Gives(op) ==
  last' = <<op, "ok">> /\ Len(held') = Len(held) + 1 /\ SubSeq(held', 1, Len(held)) = held

Raises(op, why) == last' = <<op, why>> /\ UNCHANGED held /\ held # << >>

Make ==
  \/ Gives("make") /\ Made(Trees, Given)
  \/ Raises("make", "duplicate")
Get ==
  \/ Gives("get") /\ Got(Trees, Given)
  \/ Raises("get", "no path")
Spawn ==
  \/ Gives("spawn") /\ Spawned(Trees, Given)
  \/ Raises("spawn", "duplicate") /\ Duplicate(Trees)
  \/ Raises("spawn", "no path")
Prune ==
  \/ Gives("prune") /\ Pruned(Trees, Given)
  \/ Raises("prune", "no path")

Init == held = << >> /\ last = <<"none", "ok">>

Next == Make \/ Get \/ Spawn \/ Prune

Spec == Init /\ [][Next]_pathVars
=============================================================================
