----------------------------- MODULE RollupProofs -----------------------------
(***************************************************************************)
(* Proofs about Rollup, for every tree, every number of processes and      *)
(* every choice of functions.                                              *)
(***************************************************************************)
EXTENDS Rollup, TLAPS

\* Appending to a sequence of anything gives one that is longer by one.
LEMMA AppendIsSequence ==
  ASSUME NEW s, NEW v, IsSequence(s)
  PROVE  IsSequence(Append(s, v)) /\ Len(s) \in Nat
<1> DEFINE old == {s[i] : i \in DOMAIN s}
<1> DEFINE new == {Append(s, v)[i] : i \in DOMAIN Append(s, v)}
<1>1. s \in Seq(old)
  BY DEF IsSequence
<1>2. Append(s, v) \in Seq(old \union {v})
  BY <1>1
<1>3. old \union {v} \subseteq new
  <2>1. DOMAIN s = 1 .. Len(s) /\ Len(s) \in Nat /\ DOMAIN Append(s, v) = 1 .. Len(s) + 1
    BY <1>1
  <2>2. \A i \in DOMAIN s : Append(s, v)[i] = s[i]
    BY <1>1
  <2>3. Append(s, v)[Len(s) + 1] = v
    BY <1>1
  <2> QED
    BY <2>1, <2>2, <2>3
<1>4. Append(s, v) \in Seq(new)
  BY <1>2, <1>3
<1> QED
  BY <1>1, <1>4 DEF IsSequence

LEMMA EmptyIsSequence == IsSequence(<< >>)
BY DEF IsSequence

\* The types are inductive on their own.
LEMMA InitType == RInit => RTypeOK
BY EventsAssumption, NoneAssumption, EmptyIsSequence
DEF RInit, Init, RTypeOK, NoViews, Missing

\* The next child of a frame is a path, and so is its parent.
LEMMA NextKidIsPath ==
  ASSUME RTypeOK, NEW pr \in Procs, at[pr] # None, Visited(pr) < Len(KidsOf(pr))
  PROVE  KidsOf(pr)[Visited(pr) + 1] \in Paths
<1>1. KidsOf(pr) \in Seq(Paths)
  BY TreeAssumption DEF RTypeOK, KidsOf
<1>2. Visited(pr) \in Nat
  BY AppendIsSequence DEF RTypeOK, Visited
<1> QED
  BY <1>1, <1>2

LEMMA ParentIsPath == ASSUME NEW p \in Paths PROVE Parent[p] \in Paths
BY TreeAssumption

\* Returning from a frame keeps the types of the walk.
LEMMA ReturnType ==
  ASSUME RTypeOK, NEW pr \in Procs, at[pr] # None, NEW v, Return(pr, v)
  PROVE  /\ UNCHANGED <<log, tree, base, start>>
         /\ at' \in [Procs -> Paths \union {None}]
         /\ DOMAIN answer' = Procs /\ DOMAIN views' = Procs
         /\ \A q \in Procs : DOMAIN views'[q] = Paths
         /\ \A q \in Procs, p \in Paths : IsSequence(views'[q][p])
         /\ \A q \in Procs \ {pr} : at'[q] = at[q] /\ views'[q] = views[q]
<1>1. at[pr] \in Paths /\ Parent[at[pr]] \in Paths
  BY ParentIsPath DEF RTypeOK
<1>2. UNCHANGED <<log, tree, base, start>>
  BY DEF Return
<1> DEFINE up == Parent[at[pr]]
           longer == Append(views[pr][up], v)
<1>3. IsSequence(longer)
  BY <1>1, AppendIsSequence DEF RTypeOK
<1>4. /\ at' \in [Procs -> Paths \union {None}]
      /\ DOMAIN answer' = Procs /\ DOMAIN views' = Procs
      /\ \A q \in Procs : DOMAIN views'[q] = Paths
      /\ \A q \in Procs \ {pr} : at'[q] = at[q] /\ views'[q] = views[q]
  BY <1>1 DEF RTypeOK, Return
<1>5. \A p \in Paths : views'[pr][p] \in {<< >>, longer, views[pr][p]}
  BY <1>1 DEF RTypeOK, Return
<1>6. \A q \in Procs, p \in Paths : IsSequence(views'[q][p])
  <2> SUFFICES ASSUME NEW q \in Procs, NEW p \in Paths
               PROVE  IsSequence(views'[q][p])
    OBVIOUS
  <2>1. CASE q = pr
    <3>1. IsSequence(views[pr][p])
      BY DEF RTypeOK
    <3> QED
      BY <1>3, <1>5, <2>1, <3>1, EmptyIsSequence
  <2>2. CASE q # pr
    BY <1>4, <2>2 DEF RTypeOK
  <2> QED
    BY <2>1, <2>2
<1> QED
  BY <1>2, <1>4, <1>6

LEMMA NextType == RTypeOK /\ [RNext]_rollupVars => RTypeOK'
<1> SUFFICES ASSUME RTypeOK, [RNext]_rollupVars PROVE RTypeOK'
  OBVIOUS
<1>1. ASSUME NEW p \in Leaves, RAppendEvent(p) PROVE RTypeOK'
  BY <1>1, EventsAssumption DEF RAppendEvent, AppendEvent, Leaves, RTypeOK
<1>2. ASSUME NEW pr \in Procs, NEW t \in Trees, NEW p \in Paths, RBegin(pr, t, p)
      PROVE  RTypeOK'
  <2>1. /\ DOMAIN views' = Procs /\ \A q \in Procs : DOMAIN views'[q] = Paths
        /\ \A q \in Procs, x \in Paths : IsSequence(views'[q][x])
    BY <1>2, EmptyIsSequence DEF RBegin, Begin, RTypeOK, NoViews
  <2>2. /\ tree' \in [Procs -> Trees] /\ base' \in [Procs -> Paths \union {None}]
        /\ at' \in [Procs -> Paths \union {None}]
        /\ start' \in [Procs -> [Paths -> 0 .. MaxEvents]]
        /\ DOMAIN answer' = Procs /\ UNCHANGED <<log, cache, mode, pending>>
    BY <1>2 DEF RBegin, Begin, RTypeOK
  <2>3. \A q \in Procs : at'[q] = None => mode'[q] = "walk"
    BY <1>2, <2>2, NoneAssumption DEF RBegin, Begin, RTypeOK
  <2> QED
    BY <2>1, <2>2, <2>3 DEF RTypeOK
<1>3. ASSUME NEW pr \in Procs, RDescend(pr) PROVE RTypeOK'
  <2>1. KidsOf(pr)[Visited(pr) + 1] \in Paths
    BY <1>3, NextKidIsPath DEF RDescend, Descend
  <2>2. at' \in [Procs -> Paths \union {None}] /\ mode[pr] = "walk"
        /\ \A q \in Procs \ {pr} : at'[q] = at[q]
    BY <1>3, <2>1 DEF RDescend, Descend, RTypeOK
  <2>3. UNCHANGED <<log, tree, base, views, answer, start, cache, mode, pending>>
    BY <1>3 DEF RDescend, Descend
  <2> QED
    BY <2>2, <2>3 DEF RTypeOK
<1>4. ASSUME NEW pr \in Procs, RReadLeaf(pr) PROVE RTypeOK'
  <2>1. at[pr] # None /\ mode[pr] = "walk" /\ UNCHANGED <<cache, mode, pending>>
        /\ Return(pr, LeafView(tree[pr], at[pr], log[at[pr]]))
    BY <1>4 DEF RReadLeaf, ReadLeaf
  <2> QED
    BY <2>1, ReturnType DEF RTypeOK
<1>5. ASSUME NEW pr \in Procs, Hit(pr) PROVE RTypeOK'
  <2>1. at[pr] # None /\ mode[pr] = "walk" /\ UNCHANGED <<cache, mode, pending>>
        /\ Return(pr, cache[at[pr]].view)
    BY <1>5 DEF Hit, AllVisited
  <2> QED
    BY <2>1, ReturnType DEF RTypeOK
<1>6. ASSUME NEW pr \in Procs, Miss(pr) PROVE RTypeOK'
  <2>1. at[pr] # None
    BY <1>6 DEF Miss, AllVisited
  <2>2. IsEntry(pending'[pr])
    BY <1>6 DEF Miss, RTypeOK, IsEntry, Entry
  <2>3. UNCHANGED <<log, tree, base, at, views, answer, start, cache>>
    BY <1>6 DEF Miss, vars
  <2>4. /\ mode' \in [Procs -> {"walk", "truncate", "write"}]
        /\ DOMAIN pending' = Procs
        /\ \A q \in Procs \ {pr} : mode'[q] = mode[q] /\ pending'[q] = pending[q]
    BY <1>6 DEF Miss, RTypeOK
  <2> QED
    BY <2>1, <2>2, <2>3, <2>4 DEF RTypeOK
<1>7. ASSUME NEW pr \in Procs, Truncate(pr) PROVE RTypeOK'
  <2>1. at[pr] \in Paths /\ at[pr] # None
    BY <1>7 DEF Truncate, RTypeOK
  <2>2. UNCHANGED <<log, tree, base, at, views, answer, start, pending>>
    BY <1>7 DEF Truncate, vars
  <2>3. /\ mode' \in [Procs -> {"walk", "truncate", "write"}]
        /\ \A q \in Procs \ {pr} : mode'[q] = mode[q]
        /\ DOMAIN cache' = Paths
        /\ \A p \in Paths : cache'[p] = cache[p] \/ cache'[p] = Empty
    BY <1>7, <2>1 DEF Truncate, RTypeOK
  <2> QED
    BY <1>7, <2>1, <2>2, <2>3 DEF RTypeOK, Truncate, Empty
<1>8. ASSUME NEW pr \in Procs, WriteCache(pr) PROVE RTypeOK'
  <2>1. at[pr] \in Paths /\ at[pr] # None /\ IsEntry(pending[pr])
    BY <1>8 DEF WriteCache, RTypeOK
  <2>2. PICK c \in Overlay(cache[at[pr]], Stored(pending[pr])) :
          cache' = [cache EXCEPT ![at[pr]] = c]
    BY <1>8 DEF WriteCache
  <2>3. c.state \in {"missing", "empty", "damaged", "entry"}
    <3>1. pending[pr].state = "entry"
      BY <2>1 DEF IsEntry
    <3>2. Stored(pending[pr]).state = "entry"
      BY <3>1 DEF Stored
    <3> QED
      BY <2>2, <3>2 DEF Overlay, Damaged
  <2>4. /\ DOMAIN cache' = Paths
        /\ \A p \in Paths : cache'[p].state \in {"missing", "empty", "damaged", "entry"}
    BY <2>1, <2>2, <2>3 DEF RTypeOK
  <2>5. /\ mode' \in [Procs -> {"walk", "truncate", "write"}]
        /\ DOMAIN pending' = Procs
        /\ mode'[pr] = "walk"
        /\ \A q \in Procs \ {pr} : mode'[q] = mode[q] /\ pending'[q] = pending[q]
    BY <1>8 DEF WriteCache, RTypeOK
  <2>6. Return(pr, pending[pr].view)
    BY <1>8 DEF WriteCache
  <2> QED
    BY <2>1, <2>4, <2>5, <2>6, ReturnType DEF RTypeOK
<1>9. ASSUME NEW pr \in Procs, RAbort(pr) PROVE RTypeOK'
  <2>1. at[pr] \in Paths
    BY <1>9 DEF RAbort, Abort, RTypeOK
  <2>2. /\ DOMAIN cache' = Paths
        /\ \A p \in Paths : cache'[p] = cache[p] \/ cache'[p] = Damaged
    BY <1>9, <2>1 DEF RAbort, RTypeOK
  <2>3. UNCHANGED <<log, tree, base, answer, start>>
    BY <1>9 DEF RAbort, Abort
  <2>4. /\ mode' \in [Procs -> {"walk", "truncate", "write"}]
        /\ at' \in [Procs -> Paths \union {None}]
        /\ DOMAIN pending' = Procs /\ DOMAIN views' = Procs
        /\ mode'[pr] = "walk" /\ views'[pr] = NoViews
        /\ \A q \in Procs \ {pr} : /\ mode'[q] = mode[q] /\ pending'[q] = pending[q]
                                   /\ at'[q] = at[q] /\ views'[q] = views[q]
    BY <1>9 DEF RAbort, Abort, RTypeOK
  <2>5. \A q \in Procs : /\ DOMAIN views'[q] = Paths
                         /\ \A p \in Paths : IsSequence(views'[q][p])
    <3>1. DOMAIN NoViews = Paths /\ \A p \in Paths : IsSequence(NoViews[p])
      BY EmptyIsSequence DEF NoViews
    <3>2. \A q \in Procs : views'[q] = views[q] \/ views'[q] = NoViews
      BY <2>4
    <3> QED
      BY <3>1, <3>2 DEF RTypeOK
  <2>6. \A p \in Paths : cache'[p].state \in {"missing", "empty", "damaged", "entry"}
    BY <2>2 DEF Damaged, RTypeOK
  <2> QED
    BY <2>2, <2>3, <2>4, <2>5, <2>6 DEF RTypeOK
<1>10. CASE UNCHANGED rollupVars
  BY <1>10 DEF rollupVars, RTypeOK
<1> QED
  BY <1>1, <1>2, <1>3, <1>4, <1>5, <1>6, <1>7, <1>8, <1>9, <1>10 DEF RNext, Step

\* Every variable keeps its type, whatever processes do to each other's files.
THEOREM RollupTypeCorrect == RSpec => []RTypeOK
<1>1. RInit => RTypeOK
  BY InitType
<1>2. RTypeOK /\ [RNext]_rollupVars => RTypeOK'
  BY NextType
<1> QED
  BY <1>1, <1>2, PTL DEF RSpec
-----------------------------------------------------------------------------
(* What is below a path. *)

\* With a path the set has those whose parent it is.
Closed(S) == \A q \in Paths : Parent[q] \in S /\ Parent[q] # q => q \in S

Under == [p \in Paths |-> {q \in Paths : \A S \in SUBSET Paths : p \in S /\ Closed(S) => q \in S}]

LEMMA UnderIs ==
  ASSUME NEW p \in Paths
  PROVE  /\ Under[p] \subseteq Paths /\ p \in Under[p]
         /\ \A q \in Paths : Parent[q] \in Under[p] /\ Parent[q] # q => q \in Under[p]
         /\ \A S \in SUBSET Paths : p \in S /\ Closed(S) => Under[p] \subseteq S
BY DEF Under, Closed

\* What is below p is p or has a parent below p, and a path that is its own
\* parent is below no other.
LEMMA UnderStrict ==
  ASSUME NEW p \in Paths, NEW q \in Under[p], q # p
  PROVE  Parent[q] \in Under[p] /\ Parent[q] # q
<1> DEFINE S == {x \in Under[p] : x = p \/ (Parent[x] \in Under[p] /\ Parent[x] # x)}
<1>1. S \subseteq Paths /\ p \in S
  BY UnderIs
<1>2. Closed(S)
  BY UnderIs DEF Closed
<1> QED
  BY <1>1, <1>2, UnderIs

-----------------------------------------------------------------------------
(* Views and their JSON. *)

\* The views of p's children are JSON values if their functions make such.
KidsPlain(t, p) == \A i \in 1 .. Len(Kids[t][p]) : Fn[t][Kids[t][p][i]] \in Plain

AsParsed(vs) == [i \in 1 .. Len(Texts(vs)) |-> Parsed(Texts(vs)[i])]

LEMMA JsonOfJson == \A v : Json(Json(v)) = Json(v) /\ Json(v).object = v.text /\ Json(v).text = v.text
BY DEF Json, Parsed

\* A function of Plain makes JSON values.
LEMMA PlainApplied ==
  ASSUME NEW f \in Plain, NEW texts, NEW objects
  PROVE  Json(Apply(f, texts, objects)) = Apply(f, texts, objects)
BY DEF Json, Parsed, Apply

\* Under JsonSafe a reducer makes the same of its children's views and of what
\* is left of them after the round trip.
LEMMA ResultOfJson ==
  ASSUME JsonSafe, NEW t \in Trees, NEW p \in Paths, NEW vs,
         KidsPlain(t, p) => \A i \in 1 .. Len(Kids[t][p]) : Json(vs[i]) = vs[i],
         NEW ws, \A i \in 1 .. Len(Kids[t][p]) : ws[i] = Json(vs[i])
  PROVE  Json(Result(t, p, vs)) = Json(Result(t, p, ws))
<1> DEFINE n == Len(Kids[t][p])
           names == {Kids[t][p][i] : i \in 1 .. n}
           At(k) == CHOOSE i \in 1 .. n : Kids[t][p][i] = k
           texts(us) == [k \in names |-> us[At(k)].text]
           objects(us) == [k \in names |-> us[At(k)].object]
           f == Fn[t][p]
<1>1. \A k \in names : At(k) \in 1 .. n
  OBVIOUS
<1>2. \A us : Result(t, p, us) = Apply(f, texts(us), objects(us))
  BY DEF Result
<1> HIDE DEF names, At
<1>3. texts(vs) = texts(ws)
  BY <1>1, JsonOfJson
<1>4. f \in Blind \/ objects(vs) = objects(ws)
  <2> SUFFICES ASSUME f \notin Blind PROVE objects(vs) = objects(ws)
    OBVIOUS
  <2>1. KidsPlain(t, p)
    BY DEF JsonSafe, KidsPlain
  <2>2. \A i \in 1 .. n : vs[i] = ws[i]
    BY <2>1
  <2> QED
    BY <1>1, <2>2
<1> HIDE DEF texts, objects, f
<1>5. Apply(f, texts(vs), objects(vs)).text = Apply(f, texts(ws), objects(ws)).text
  BY <1>3, <1>4 DEF Apply
<1> QED
  BY <1>2, <1>5 DEF Json

LEMMA AsParsedIs ==
  ASSUME NEW vs, Len(vs) \in Nat
  PROVE  /\ Len(Texts(vs)) = Len(vs) /\ Len(AsParsed(vs)) = Len(vs)
         /\ \A i \in 1 .. Len(vs) : AsParsed(vs)[i] = Json(vs[i])
<1>1. Len(Texts(vs)) = Len(vs) /\ \A i \in 1 .. Len(vs) : Texts(vs)[i] = vs[i].text
  BY DEF Texts
<1> QED
  BY <1>1 DEF AsParsed, Json

-----------------------------------------------------------------------------
\* Where a call is, and which of the views it has are JSON values.
Formed(pr) ==
  /\ base[pr] \in Paths /\ at[pr] \in Under[base[pr]] /\ InTree(tree[pr], at[pr])
  /\ \A p \in Paths : KidsPlain(tree[pr], p) =>
       \A i \in 1 .. Len(views[pr][p]) : Json(views[pr][p][i]) = views[pr][p][i]

\* What the entries on disk and under way are, and the types.
RollupInv ==
  /\ RTypeOK /\ CacheProvenance
  /\ \A pr \in Procs : at[pr] # None => Formed(pr)

\* A view stored or to be returned is made of the children's.
LEMMA VisitedResult ==
  ASSUME JsonSafe, RollupInv, NEW pr \in Procs, AllVisited(pr)
  PROVE  LET vs == views[pr][at[pr]]
             t == tree[pr]
         IN  /\ at[pr] \in Paths /\ t \in Trees /\ Len(vs) = Len(Kids[t][at[pr]])
             /\ Len(vs) \in Nat
             /\ Json(Result(t, at[pr], vs)) = Json(Result(t, at[pr], AsParsed(vs)))
             /\ KidsPlain(t, at[pr]) => \A i \in 1 .. Len(vs) : Json(vs[i]) = vs[i]
<1> DEFINE vs == views[pr][at[pr]]
           t == tree[pr]
<1>1. at[pr] \in Paths /\ t \in Trees /\ at[pr] # None
  BY DEF RollupInv, RTypeOK, AllVisited
<1>2. Len(vs) = Len(Kids[t][at[pr]])
  BY DEF AllVisited, Visited, KidsOf
<1>3. Len(vs) \in Nat
  BY <1>1, AppendIsSequence DEF RollupInv, RTypeOK
<1>4. KidsPlain(t, at[pr]) => \A i \in 1 .. Len(vs) : Json(vs[i]) = vs[i]
  BY <1>1 DEF RollupInv, Formed
<1> HIDE DEF vs, t
<1>5. Json(Result(t, at[pr], vs)) = Json(Result(t, at[pr], AsParsed(vs)))
  BY <1>1, <1>2, <1>3, <1>4, AsParsedIs, ResultOfJson
<1> QED
  BY <1>1, <1>2, <1>3, <1>4, <1>5 DEF vs, t

\* An entry for the frame a process is at comes from the tree it holds.
LEMMA PendingFromTree ==
  ASSUME JsonSafe, RollupInv, NEW pr \in Procs, mode[pr] # "walk"
  PROVE  /\ AllVisited(pr)
         /\ at[pr] \in Paths
         /\ pending[pr].view = Result(tree[pr], at[pr], views[pr][at[pr]])
         /\ FromSomeTree(at[pr], Stored(pending[pr]))
<1> DEFINE vs == views[pr][at[pr]]
           t == tree[pr]
           view == Result(t, at[pr], vs)
           key == Key(t, at[pr], Texts(vs))
<1>1. AllVisited(pr) /\ pending[pr] = Entry(key, view)
  BY DEF RollupInv, CacheProvenance, CurrentKey
<1>2. /\ at[pr] \in Paths /\ t \in Trees /\ Len(vs) = Len(Kids[t][at[pr]]) /\ Len(vs) \in Nat
      /\ Json(view) = Json(Result(t, at[pr], AsParsed(vs)))
  BY <1>1, VisitedResult
<1> HIDE DEF vs, t, view
<1>3. Stored(pending[pr]) = Entry(key, Json(view))
  BY <1>1 DEF Stored, Entry
<1>4. Stored(pending[pr]).key = key /\ Stored(pending[pr]).view = Json(view) /\ key[3] = Texts(vs)
  BY <1>3 DEF Entry, Key
<1>5. Len(Texts(vs)) = Len(Kids[t][at[pr]])
  BY <1>2, AsParsedIs
<1>6. FromSomeTree(at[pr], Stored(pending[pr]))
  BY <1>2, <1>4, <1>5 DEF FromSomeTree, AsParsed
<1>7. pending[pr].view = view
  BY <1>1 DEF Entry
<1> QED
  BY <1>1, <1>2, <1>6, <1>7 DEF view, vs, t

\* A step leaves the frames of the other processes alone.
FrameKept(pr) ==
  /\ tree'[pr] = tree[pr] /\ at'[pr] = at[pr] /\ views'[pr] = views[pr]
  /\ mode'[pr] = mode[pr] /\ pending'[pr] = pending[pr]

\* When every frame that is writing is kept, and every file is kept or holds
\* no entry or one from some tree, the provenance of all entries is kept.
LEMMA ProvenanceKept ==
  ASSUME RollupInv, RTypeOK',
         \A q \in Procs : FrameKept(q) \/ mode'[q] = "walk",
         \A p \in Paths : cache'[p] = cache[p] \/ ~ IsEntry(cache'[p])
                                             \/ FromSomeTree(p, cache'[p])
  PROVE  CacheProvenance'
<1>1. \A p \in Paths : IsEntry(cache'[p]) => FromSomeTree(p, cache'[p])
  BY DEF RollupInv, CacheProvenance
<1>2. ASSUME NEW q \in Procs, mode'[q] # "walk"
      PROVE  /\ AllVisited(q)'
             /\ pending'[q] = Entry(CurrentKey(q),
                                    Result(tree[q], at[q], views[q][at[q]]))'
  <2>1. FrameKept(q) /\ mode[q] # "walk"
    BY <1>2 DEF FrameKept
  <2>2. AllVisited(q) /\ pending[q] = Entry(CurrentKey(q),
                                Result(tree[q], at[q], views[q][at[q]]))
    BY <2>1 DEF RollupInv, CacheProvenance
  <2>3. AllVisited(q)'
    BY <2>1, <2>2 DEF FrameKept, AllVisited, Visited, KidsOf
  <2>4. CurrentKey(q)' = CurrentKey(q)
    BY <2>1 DEF FrameKept, CurrentKey
  <2>5. Result(tree[q], at[q], views[q][at[q]])' = Result(tree[q], at[q], views[q][at[q]])
    BY <2>1 DEF FrameKept
  <2> QED
    BY <2>1, <2>2, <2>3, <2>4, <2>5 DEF FrameKept
<1> QED
  BY <1>1, <1>2 DEF CacheProvenance

LEMMA NextProvenance ==
  ASSUME JsonSafe, RollupInv, [RNext]_rollupVars
  PROVE  CacheProvenance'
<1> USE DEF FrameKept
<1>t. RTypeOK /\ RTypeOK'
  BY NextType DEF RollupInv
<1>1. ASSUME NEW p \in Leaves, RAppendEvent(p) PROVE CacheProvenance'
  BY <1>t, <1>1, ProvenanceKept DEF RAppendEvent, AppendEvent
<1>2. ASSUME NEW pr \in Procs, NEW t \in Trees, NEW p \in Paths, RBegin(pr, t, p)
      PROVE  CacheProvenance'
  <2>1. UNCHANGED <<cache, mode, pending>> /\ mode'[pr] = "walk"
    BY <1>t, <1>2 DEF RBegin, Begin, RTypeOK
  <2>2. \A q \in Procs \ {pr} :
          at'[q] = at[q] /\ tree'[q] = tree[q] /\ views'[q] = views[q]
    BY <1>t, <1>2 DEF RBegin, Begin, RTypeOK
  <2> QED
    BY <1>t, <2>1, <2>2, ProvenanceKept
<1>3. ASSUME NEW pr \in Procs, RDescend(pr) PROVE CacheProvenance'
  <2>1. UNCHANGED <<tree, views, cache, mode, pending>> /\ mode'[pr] = "walk"
    BY <1>t, <1>3 DEF RDescend, Descend
  <2>2. \A q \in Procs \ {pr} : at'[q] = at[q]
    BY <1>t, <1>3 DEF RDescend, Descend, RTypeOK
  <2> QED
    BY <1>t, <2>1, <2>2, ProvenanceKept
<1>4. ASSUME NEW pr \in Procs, NEW v, at[pr] # None, mode[pr] = "walk",
             Return(pr, v), UNCHANGED <<cache, mode, pending>>
      PROVE  CacheProvenance'
  <2>1. UNCHANGED tree /\ \A q \in Procs \ {pr} : at'[q] = at[q] /\ views'[q] = views[q]
    BY <1>t, <1>4, ReturnType
  <2> QED
    BY <1>t, <1>4, <2>1, ProvenanceKept
<1>5. ASSUME NEW pr \in Procs, RReadLeaf(pr) PROVE CacheProvenance'
  BY <1>4, <1>5 DEF RReadLeaf, ReadLeaf
<1>6. ASSUME NEW pr \in Procs, Hit(pr) PROVE CacheProvenance'
  BY <1>4, <1>6 DEF Hit, AllVisited
<1>7. ASSUME NEW pr \in Procs, Miss(pr) PROVE CacheProvenance'
  <2>1. UNCHANGED <<log, tree, base, at, views, answer, start, cache>>
    BY <1>7 DEF Miss, vars
  <2>2. \A q \in Procs \ {pr} : mode'[q] = mode[q] /\ pending'[q] = pending[q]
    BY <1>t, <1>7 DEF Miss, RTypeOK
  <2>3. AllVisited(pr)'
    BY <1>7, <2>1 DEF Miss, AllVisited, Visited, KidsOf
  <2>4. pending'[pr] = Entry(CurrentKey(pr),
                             Result(tree[pr], at[pr], views[pr][at[pr]]))
    BY <1>t, <1>7 DEF Miss, RTypeOK
  <2>5. pending'[pr] = Entry(CurrentKey(pr),
                             Result(tree[pr], at[pr], views[pr][at[pr]]))'
    BY <2>1, <2>4 DEF CurrentKey
  <2>6. ASSUME NEW q \in Procs \ {pr}, mode'[q] # "walk"
        PROVE  /\ AllVisited(q)'
               /\ pending'[q] = Entry(CurrentKey(q),
                                      Result(tree[q], at[q], views[q][at[q]]))'
    <3>1. AllVisited(q) /\ pending[q] = Entry(CurrentKey(q),
                                  Result(tree[q], at[q], views[q][at[q]]))
      BY <2>2, <2>6 DEF RollupInv, CacheProvenance
    <3> QED
      BY <2>1, <2>2, <3>1 DEF AllVisited, Visited, KidsOf, CurrentKey
  <2>7. \A p \in Paths : IsEntry(cache'[p]) => FromSomeTree(p, cache'[p])
    BY <2>1 DEF RollupInv, CacheProvenance
  <2> QED
    BY <2>3, <2>5, <2>6, <2>7 DEF CacheProvenance
<1>8. ASSUME NEW pr \in Procs, Truncate(pr) PROVE CacheProvenance'
  <2>1. UNCHANGED <<tree, at, views, pending>>
    BY <1>8 DEF Truncate, vars
  <2>2. \A p \in Paths : cache'[p] = cache[p] \/ ~ IsEntry(cache'[p])
    BY <1>t, <1>8 DEF Truncate, RTypeOK, Empty, IsEntry
  <2>3. \A p \in Paths : IsEntry(cache'[p]) => FromSomeTree(p, cache'[p])
    BY <2>2 DEF RollupInv, CacheProvenance
  <2>4. ASSUME NEW q \in Procs, mode'[q] # "walk"
        PROVE  /\ AllVisited(q)'
               /\ pending'[q] = Entry(CurrentKey(q),
                                      Result(tree[q], at[q], views[q][at[q]]))'
    <3>1. mode[q] # "walk"
      BY <1>t, <1>8, <2>4 DEF Truncate, RTypeOK
    <3>2. AllVisited(q) /\ pending[q] = Entry(CurrentKey(q),
                                  Result(tree[q], at[q], views[q][at[q]]))
      BY <3>1 DEF RollupInv, CacheProvenance
    <3> QED
      BY <2>1, <3>2 DEF AllVisited, Visited, KidsOf, CurrentKey
  <2> QED
    BY <2>3, <2>4 DEF CacheProvenance
<1>9. ASSUME NEW pr \in Procs, WriteCache(pr) PROVE CacheProvenance'
  <2>1. at[pr] \in Paths /\ at[pr] # None /\ FromSomeTree(at[pr], Stored(pending[pr]))
    BY <1>9, <1>t, PendingFromTree DEF WriteCache, RTypeOK
  <2>2. PICK c \in Overlay(cache[at[pr]], Stored(pending[pr])) :
          cache' = [cache EXCEPT ![at[pr]] = c]
    BY <1>9 DEF WriteCache
  <2>3. c = Stored(pending[pr]) \/ ~ IsEntry(c)
    BY <2>2 DEF Overlay, Damaged, IsEntry
  <2>4. \A p \in Paths : cache'[p] = cache[p] \/ ~ IsEntry(cache'[p])
                                              \/ FromSomeTree(p, cache'[p])
    BY <1>t, <2>1, <2>2, <2>3 DEF RTypeOK
  <2>5. /\ mode'[pr] = "walk" /\ UNCHANGED tree
        /\ \A q \in Procs \ {pr} : /\ mode'[q] = mode[q] /\ pending'[q] = pending[q]
                                   /\ at'[q] = at[q] /\ views'[q] = views[q]
    BY <1>t, <1>9, <2>1, ReturnType DEF WriteCache, RTypeOK
  <2> QED
    BY <1>t, <2>4, <2>5, ProvenanceKept
<1>10. ASSUME NEW pr \in Procs, RAbort(pr) PROVE CacheProvenance'
  <2>1. at[pr] \in Paths
    BY <1>t, <1>10 DEF RAbort, Abort, RTypeOK
  <2>2. \A p \in Paths : cache'[p] = cache[p] \/ ~ IsEntry(cache'[p])
    BY <1>t, <1>10, <2>1 DEF RAbort, RTypeOK, Damaged, IsEntry
  <2>3. /\ mode'[pr] = "walk" /\ UNCHANGED tree
        /\ \A q \in Procs \ {pr} : /\ mode'[q] = mode[q] /\ pending'[q] = pending[q]
                                   /\ at'[q] = at[q] /\ views'[q] = views[q]
    BY <1>t, <1>10 DEF RAbort, Abort, RTypeOK
  <2> QED
    BY <1>t, <2>2, <2>3, ProvenanceKept
<1>11. CASE UNCHANGED rollupVars
  BY <1>t, <1>11, ProvenanceKept DEF rollupVars
<1> QED
  BY <1>1, <1>2, <1>3, <1>5, <1>6, <1>7, <1>8, <1>9, <1>10, <1>11 DEF RNext, Step

\* The views that a step returns are JSON values where the function makes such.
LEMMA FormedReturn ==
  ASSUME RollupInv, RTypeOK', NEW pr \in Procs, at[pr] # None, NEW v, Return(pr, v),
         Fn[tree[pr]][at[pr]] \in Plain => Json(v) = v
  PROVE  \A q \in Procs : at'[q] # None => Formed(q)'
<1> DEFINE up == Parent[at[pr]]
           t == tree[pr]
<1>t. RTypeOK /\ Formed(pr) /\ at[pr] \in Paths /\ up \in Paths /\ t \in Trees
  BY ParentIsPath DEF RollupInv, RTypeOK
<1>1. ASSUME NEW q \in Procs, q # pr, at'[q] # None PROVE Formed(q)'
  <2>1. at'[q] = at[q] /\ views'[q] = views[q] /\ UNCHANGED <<tree, base>>
    BY <1>t, <1>1, ReturnType
  <2>2. Formed(q)
    BY <1>1, <2>1 DEF RollupInv
  <2> QED
    BY <2>1, <2>2 DEF Formed
<1>2. ASSUME at'[pr] # None PROVE Formed(pr)'
  <2>1. /\ at[pr] # base[pr] /\ at'[pr] = up /\ UNCHANGED <<tree, base>>
        /\ views'[pr] = [views[pr] EXCEPT ![at[pr]] = << >>, ![up] = Append(views[pr][up], v)]
    BY <1>t, <1>2 DEF Return, RTypeOK
  <2>2. up \in Under[base[pr]] /\ up # at[pr]
    BY <1>t, <2>1, UnderStrict DEF Formed
  <2>3. PICK i \in 1 .. Len(Kids[t][up]) : Kids[t][up][i] = at[pr]
    BY <1>t, <2>2 DEF Formed, InTree
  <2>4. InTree(t, up)
    <3> SUFFICES ASSUME ~ InTree(t, up) PROVE FALSE
      OBVIOUS
    <3>1. Kids[t][up] = << >>
      BY <1>t, ShapeAssumption
    <3> QED
      BY <2>3, <3>1
  <2>5. ASSUME NEW p \in Paths, KidsPlain(t, p), NEW j \in 1 .. Len(views'[pr][p])
        PROVE  Json(views'[pr][p][j]) = views'[pr][p][j]
    <3>0. DOMAIN views[pr] = Paths /\ IsSequence(views[pr][p])
      BY <1>t DEF RTypeOK
    <3>1. CASE p = up
      <4>1. views'[pr][p] = Append(views[pr][up], v)
        BY <1>t, <2>1, <3>0, <3>1
      <4>2. Len(views[pr][up]) \in Nat /\ IsSequence(views[pr][up])
        BY <3>0, <3>1, AppendIsSequence
      <4>3. Json(v) = v
        BY <2>3, <2>5, <3>1 DEF KidsPlain
      <4>4. \A k \in 1 .. Len(views[pr][up]) : Json(views[pr][up][k]) = views[pr][up][k]
        BY <1>t, <2>5, <3>1 DEF Formed
      <4>5. /\ Len(views'[pr][p]) = Len(views[pr][up]) + 1
            /\ \A k \in 1 .. Len(views'[pr][p]) :
                 views'[pr][p][k] = IF k <= Len(views[pr][up]) THEN views[pr][up][k] ELSE v
        BY <4>1, <4>2 DEF IsSequence
      <4> QED
        BY <4>2, <4>3, <4>4, <4>5
    <3>2. CASE p = at[pr] /\ p # up
      <4>1. views'[pr][p] = << >>
        BY <2>1, <3>0, <3>2
      <4> QED
        BY <4>1
    <3>3. CASE p # at[pr] /\ p # up
      <4>1. views'[pr][p] = views[pr][p]
        BY <2>1, <3>0, <3>3
      <4> QED
        BY <1>t, <2>5, <4>1 DEF Formed
    <3> QED
      BY <3>1, <3>2, <3>3
  <2>6. \A p \in Paths : KidsPlain(t, p)' <=> KidsPlain(t, p)
    BY <2>1 DEF KidsPlain
  <2>7. base[pr] \in Paths
    BY <1>t DEF Formed
  <2> HIDE DEF up
  <2> QED
    BY <2>1, <2>2, <2>4, <2>5, <2>6, <2>7 DEF Formed
<1> QED
  BY <1>1, <1>2

\* A step that leaves every frame where it is.
LEMMA FormedKept ==
  ASSUME RollupInv, UNCHANGED <<tree, base, views>>,
         \A q \in Procs : at'[q] = at[q]
  PROVE  \A q \in Procs : at'[q] # None => Formed(q)'
BY DEF RollupInv, Formed

LEMMA NextFormed ==
  ASSUME JsonSafe, RollupInv, [RNext]_rollupVars
  PROVE  \A q \in Procs : at'[q] # None => Formed(q)'
<1>t. RTypeOK /\ RTypeOK'
  BY NextType DEF RollupInv
<1>f. \A q \in Procs : at[q] # None => Formed(q)
  BY DEF RollupInv
<1>1. ASSUME NEW p \in Leaves, RAppendEvent(p) PROVE UNCHANGED <<tree, base, views, at>>
  BY <1>1 DEF RAppendEvent, AppendEvent
<1>2. ASSUME NEW pr \in Procs, NEW t \in Trees, NEW p \in Paths, RBegin(pr, t, p)
      PROVE  \A q \in Procs : at'[q] # None => Formed(q)'
  <2>1. /\ tree'[pr] = t /\ base'[pr] = p /\ at'[pr] = p /\ views'[pr] = NoViews /\ InTree(t, p)
        /\ \A q \in Procs \ {pr} : /\ tree'[q] = tree[q] /\ base'[q] = base[q]
                                   /\ at'[q] = at[q] /\ views'[q] = views[q]
    BY <1>t, <1>2 DEF RBegin, Begin, RTypeOK
  <2>2. Formed(pr)'
    <3>1. p \in Under[p]
      BY UnderIs
    <3>2. \A x \in Paths : NoViews[x] = << >>
      BY DEF NoViews
    <3> QED
      BY <2>1, <3>1, <3>2 DEF Formed
  <2>3. ASSUME NEW q \in Procs \ {pr}, at'[q] # None PROVE Formed(q)'
    BY <1>f, <2>1, <2>3 DEF Formed
  <2> QED
    BY <2>2, <2>3
<1>3. ASSUME NEW pr \in Procs, RDescend(pr)
      PROVE  \A q \in Procs : at'[q] # None => Formed(q)'
  <2> DEFINE k == KidsOf(pr)[Visited(pr) + 1]
  <2>1. /\ at[pr] # None /\ UNCHANGED <<tree, base, views>> /\ at' = [at EXCEPT ![pr] = k]
        /\ Visited(pr) < Len(KidsOf(pr))
    BY <1>3 DEF RDescend, Descend
  <2>2. /\ at[pr] \in Paths /\ tree[pr] \in Trees /\ Formed(pr) /\ base[pr] \in Paths
    BY <1>t, <1>f, <2>1 DEF RTypeOK, Formed
  <2>3. k \in Paths
    BY <1>t, <2>1, NextKidIsPath
  <2>4. Visited(pr) + 1 \in 1 .. Len(KidsOf(pr))
    <3>1. Visited(pr) \in Nat
      BY <1>t, <2>2, AppendIsSequence DEF RTypeOK, Visited
    <3>2. Len(KidsOf(pr)) \in Nat
      BY <2>2, TreeAssumption DEF KidsOf
    <3> QED
      BY <2>1, <3>1, <3>2
  <2>5. Parent[k] = at[pr] /\ k # at[pr]
    BY <2>2, <2>4, TreeAssumption, ShapeAssumption DEF KidsOf
  <2>6. InTree(tree[pr], k)
    BY <2>4, <2>5 DEF InTree, KidsOf
  <2> HIDE DEF k
  <2>7. k \in Under[base[pr]]
    BY <2>2, <2>3, <2>5, UnderIs DEF Formed
  <2>8. at'[pr] = k /\ \A q \in Procs \ {pr} : at'[q] = at[q]
    BY <1>t, <2>1 DEF RTypeOK
  <2> QED
    BY <1>f, <2>1, <2>2, <2>6, <2>7, <2>8 DEF Formed
<1>4. ASSUME NEW pr \in Procs, RReadLeaf(pr)
      PROVE  \A q \in Procs : at'[q] # None => Formed(q)'
  <2> DEFINE v == LeafView(tree[pr], at[pr], log[at[pr]])
  <2>1. at[pr] # None /\ Return(pr, v)
    BY <1>4 DEF RReadLeaf, ReadLeaf
  <2>2. Fn[tree[pr]][at[pr]] \in Plain => Json(v) = v
    BY PlainApplied DEF LeafView
  <2> HIDE DEF v
  <2> QED
    BY <1>t, <2>1, <2>2, FormedReturn
<1>5. ASSUME NEW pr \in Procs, Hit(pr)
      PROVE  \A q \in Procs : at'[q] # None => Formed(q)'
  <2> DEFINE v == cache[at[pr]].view
  <2>1. at[pr] # None /\ at[pr] \in Paths /\ IsEntry(cache[at[pr]]) /\ Return(pr, v)
    BY <1>t, <1>5 DEF Hit, AllVisited, Matches, RTypeOK
  <2>2. FromSomeTree(at[pr], cache[at[pr]])
    BY <2>1 DEF RollupInv, CacheProvenance
  <2>3. Json(v) = v
    BY <2>2, JsonOfJson DEF FromSomeTree
  <2> HIDE DEF v
  <2> QED
    BY <1>t, <2>1, <2>3, FormedReturn
<1>6. ASSUME NEW pr \in Procs, Miss(pr) \/ Truncate(pr) PROVE UNCHANGED <<tree, base, views, at>>
  BY <1>6 DEF Miss, Truncate, vars
<1>7. ASSUME NEW pr \in Procs, WriteCache(pr)
      PROVE  \A q \in Procs : at'[q] # None => Formed(q)'
  <2> DEFINE v == pending[pr].view
  <2>1. /\ at[pr] # None /\ Return(pr, v)
        /\ v = Result(tree[pr], at[pr], views[pr][at[pr]])
    BY <1>t, <1>7, PendingFromTree DEF WriteCache, AllVisited
  <2>2. Fn[tree[pr]][at[pr]] \in Plain => Json(v) = v
    BY <2>1, PlainApplied DEF Result
  <2> HIDE DEF v
  <2> QED
    BY <1>t, <2>1, <2>2, FormedReturn
<1>8. ASSUME NEW pr \in Procs, RAbort(pr)
      PROVE  \A q \in Procs : at'[q] # None => Formed(q)'
  <2>1. /\ at'[pr] = None /\ UNCHANGED <<tree, base>>
        /\ \A q \in Procs \ {pr} : at'[q] = at[q] /\ views'[q] = views[q]
    BY <1>t, <1>8 DEF RAbort, Abort, RTypeOK
  <2>2. ASSUME NEW q \in Procs \ {pr}, at'[q] # None PROVE Formed(q)'
    BY <1>f, <2>1, <2>2 DEF Formed
  <2> QED
    BY <2>1, <2>2
<1>9. CASE UNCHANGED rollupVars
  BY <1>9, FormedKept DEF rollupVars
<1> QED
  BY <1>1, <1>2, <1>3, <1>4, <1>5, <1>6, <1>7, <1>8, <1>9, FormedKept DEF RNext, Step

LEMMA RollupStep ==
  ASSUME JsonSafe, RollupInv, [RNext]_rollupVars
  PROVE  RollupInv'
BY NextType, NextProvenance, NextFormed DEF RollupInv

LEMMA RollupInvariant == JsonSafe => (RSpec => []RollupInv)
<1> SUFFICES ASSUME JsonSafe PROVE RSpec => []RollupInv
  OBVIOUS
<1>1. RInit => RollupInv
  <2>1. RInit => CacheProvenance
    BY DEF RInit, CacheProvenance, IsEntry, Missing
  <2>2. RInit => \A pr \in Procs : at[pr] # None => Formed(pr)
    BY DEF RInit, Init
  <2> QED
    BY <2>1, <2>2, InitType DEF RollupInv
<1>2. RollupInv /\ [RNext]_rollupVars => RollupInv'
  BY RollupStep
<1> QED
  BY <1>1, <1>2, PTL DEF RSpec

\* No node's cache file ever holds an entry computed for another node or for
\* other inputs than its key names, and an entry under way stays the right one
\* for the frame that writes it.  Under JsonSafe: without it what an entry was
\* computed from cannot be told from the JSON that the key names.
THEOREM ProvenanceHolds == JsonSafe => (RSpec => []CacheProvenance)
<1> SUFFICES ASSUME JsonSafe PROVE RSpec => []CacheProvenance
  OBVIOUS
<1> QED
  BY RollupInvariant, PTL DEF RollupInv
-----------------------------------------------------------------------------
\* Under KeysFaithful equal keys mean equal results: an entry from one tree
\* version answers for a frame of another only if the other would compute it.
LEMMA FaithfulMatch ==
  ASSUME KeysFaithful, NEW t \in Trees, NEW p \in Paths, NEW vs, Len(vs) \in Nat,
         Len(vs) = Len(Kids[t][p]), NEW c, FromSomeTree(p, c), c.key = Key(t, p, Texts(vs))
  PROVE  c.view = Json(Result(t, p, AsParsed(vs)))
<1>1. PICK u \in Trees : /\ Len(c.key[3]) = Len(Kids[u][p])
                         /\ c.key = Key(u, p, c.key[3])
                         /\ c.view = Json(Result(u, p, [i \in 1 .. Len(c.key[3]) |->
                                                        Parsed(c.key[3][i])]))
  BY DEF FromSomeTree
<1>2. c.key[3] = Texts(vs) /\ c.key[2] = SourceHash[Fn[t][p]] /\ Len(Texts(vs)) = Len(vs)
  BY AsParsedIs DEF Key
<1>3. c.key[2] = SourceHash[Fn[u][p]]
  BY <1>1 DEF Key
<1>4. Fn[t][p] = Fn[u][p] /\ Kids[t][p] = Kids[u][p]
  <2>1. SourceHash[Fn[t][p]] = SourceHash[Fn[u][p]]
    BY <1>2, <1>3
  <2>2. Len(Kids[t][p]) = Len(Kids[u][p])
    BY <1>1, <1>2
  <2> QED
    BY <2>1, <2>2 DEF KeysFaithful
<1>5. c.view = Json(Result(u, p, AsParsed(vs)))
  BY <1>1, <1>2 DEF AsParsed
<1>6. Result(t, p, AsParsed(vs)) = Result(u, p, AsParsed(vs))
  BY <1>4 DEF Result
<1> QED
  BY <1>5, <1>6

\* With faithful keys the provenance of entries makes every match fresh.
LEMMA ProvenanceMeansFresh == KeysFaithful /\ JsonSafe /\ RollupInv => MatchMeansFresh
<1> SUFFICES ASSUME KeysFaithful, JsonSafe, RollupInv, NEW pr \in Procs, AllVisited(pr),
                    Matches(cache[at[pr]], CurrentKey(pr))
             PROVE  cache[at[pr]].view = Json(Result(tree[pr], at[pr], views[pr][at[pr]]))
  BY DEF MatchMeansFresh
<1> DEFINE vs == views[pr][at[pr]]
           t == tree[pr]
<1>1. /\ at[pr] \in Paths /\ t \in Trees /\ Len(vs) = Len(Kids[t][at[pr]]) /\ Len(vs) \in Nat
      /\ Json(Result(t, at[pr], vs)) = Json(Result(t, at[pr], AsParsed(vs)))
  BY VisitedResult
<1>2. FromSomeTree(at[pr], cache[at[pr]])
  BY <1>1 DEF RollupInv, CacheProvenance, Matches
<1>3. cache[at[pr]].key = Key(t, at[pr], Texts(vs))
  BY DEF Matches, CurrentKey
<1> HIDE DEF vs, t
<1>4. cache[at[pr]].view = Json(Result(t, at[pr], AsParsed(vs)))
  BY <1>1, <1>2, <1>3, FaithfulMatch
<1> QED
  BY <1>1, <1>4 DEF vs, t

\* "match means the cached view is fresh" (rollup.py:6-7), for any number of
\* processes, trees and crashes, provided that the key tells the versions of
\* the tree apart and reducers do not notice the JSON round trip.  The run of
\* RollupRename.cfg shows that the first proviso is needed.
THEOREM MatchIsFresh == KeysFaithful /\ JsonSafe => (RSpec => []MatchMeansFresh)
<1> SUFFICES ASSUME KeysFaithful, JsonSafe PROVE RSpec => []MatchMeansFresh
  OBVIOUS
<1>1. RollupInv => MatchMeansFresh
  BY ProvenanceMeansFresh
<1> QED
  BY <1>1, RollupInvariant, PTL
-----------------------------------------------------------------------------
(* The uncached computation. *)

\* A view is a pair of a text and an object, and Python's None is neither.
NoneIsNoView == \A t, o : None # [text |-> t, object |-> o]

LEMMA NoViewIsNone ==
  ASSUME NoneIsNoView
  PROVE  /\ \A t, p, count : LeafView(t, p, count) # None
         /\ \A v : Json(v) # None
         /\ \A t, p, vs : Result(t, p, vs) # None
<1>1. ASSUME NEW f, NEW texts, NEW objects PROVE Apply(f, texts, objects) # None
  BY DEF NoneIsNoView, Apply
<1> QED
  BY <1>1 DEF NoneIsNoView, LeafView, Result, Json, Parsed

LEMMA JsonViewsAre ==
  ASSUME RTypeOK
  PROVE  /\ DOMAIN JsonViews = Procs /\ DOMAIN JsonAnswer = Procs
         /\ \A q \in Procs : /\ DOMAIN JsonViews[q] = Paths
              /\ \A p \in Paths :
                   /\ Len(views[q][p]) \in Nat
                   /\ JsonViews[q][p] = [i \in 1 .. Len(views[q][p]) |-> Json(views[q][p][i])]
                   /\ Len(JsonViews[q][p]) = Len(views[q][p])
<1>1. \A q \in Procs, p \in Paths : Len(views[q][p]) \in Nat
  BY AppendIsSequence DEF RTypeOK
<1> QED
  BY <1>1 DEF JsonViews, JsonAnswer

\* What the functions of the uncached computation make of JSON values.
LEMMA UncachedLeaf ==
  ASSUME NEW t \in Trees, NEW p \in Paths, NEW count
  PROVE  U!LeafView(t, p, count) = Json(LeafView(t, p, count))
BY DEF U!LeafView, U!Apply, LeafView, Apply, Json, Parsed

LEMMA UncachedResult ==
  ASSUME NEW t \in Trees, NEW p \in Paths, NEW vs,
         \A i \in 1 .. Len(Kids[t][p]) : Json(vs[i]) = vs[i]
  PROVE  U!Result(t, p, vs) = Json(Result(t, p, vs))
<1> DEFINE names == {Kids[t][p][i] : i \in 1 .. Len(Kids[t][p])}
           Of(k) == vs[CHOOSE i \in 1 .. Len(Kids[t][p]) : Kids[t][p][i] = k]
           texts == [k \in names |-> Of(k).text]
           objects == [k \in names |-> Of(k).object]
<1>1. Result(t, p, vs) = Apply(Fn[t][p], texts, objects)
  BY DEF Result
<1>2. U!Result(t, p, vs) = U!Apply(Fn[t][p], texts, objects)
  BY DEF U!Result
<1> HIDE DEF names, texts, objects
<1>3. U!Apply(Fn[t][p], texts, objects) = Json(Apply(Fn[t][p], texts, objects))
  BY DEF U!Apply, Apply, Json, Parsed
<1> QED
  BY <1>1, <1>2, <1>3

LEMMA ReturnSimulates ==
  ASSUME RTypeOK, RTypeOK', NEW pr \in Procs, at[pr] # None, NEW v, v # None, Return(pr, v)
  PROVE  U!Return(pr, Json(v))
<1> DEFINE up == Parent[at[pr]]
           mine == JsonViews[pr]
<1>t. /\ at[pr] \in Paths /\ up \in Paths /\ UNCHANGED <<log, tree, base, start>>
  BY ParentIsPath DEF RTypeOK, Return
<1>1. CASE at[pr] = base[pr]
  <2>1. /\ at' = [at EXCEPT ![pr] = None] /\ answer' = [answer EXCEPT ![pr] = v]
        /\ views' = [views EXCEPT ![pr][at[pr]] = << >>]
    BY <1>1 DEF Return
  <2>2. JsonAnswer' = [JsonAnswer EXCEPT ![pr] = Json(v)]
    <3>1. answer'[pr] = v /\ \A q \in Procs \ {pr} : answer'[q] = answer[q]
      BY <2>1 DEF RTypeOK
    <3>2. JsonAnswer'[pr] = Json(v)
      BY <3>1 DEF JsonAnswer
    <3>3. \A q \in Procs \ {pr} : JsonAnswer'[q] = JsonAnswer[q]
      BY <3>1 DEF JsonAnswer
    <3> QED
      BY <3>2, <3>3 DEF JsonAnswer
  <2>3. JsonViews' = [JsonViews EXCEPT ![pr][at[pr]] = << >>]
    <3>1. /\ \A q \in Procs \ {pr} : views'[q] = views[q]
          /\ views'[pr][at[pr]] = << >>
          /\ \A p \in Paths \ {at[pr]} : views'[pr][p] = views[pr][p]
      BY <1>t, <2>1 DEF RTypeOK
    <3>2. \A q \in Procs, p \in Paths :
            JsonViews'[q][p] = IF q = pr /\ p = at[pr] THEN << >> ELSE JsonViews[q][p]
      <4>1. ASSUME NEW q \in Procs, NEW p \in Paths, q # pr \/ p # at[pr]
            PROVE  JsonViews'[q][p] = JsonViews[q][p]
        <5>1. views'[q][p] = views[q][p]
          BY <3>1, <4>1
        <5> QED
          BY <5>1 DEF JsonViews
      <4>2. JsonViews'[pr][at[pr]] = << >>
        <5>1. JsonViews'[pr][at[pr]] = [i \in 1 .. 0 |-> Json(views'[pr][at[pr]][i])]
          BY <1>t, <3>1 DEF JsonViews
        <5> QED
          BY <5>1
      <4> QED
        BY <4>1, <4>2
    <3> DEFINE new == [JsonViews EXCEPT ![pr][at[pr]] = << >>]
    <3>3. /\ new = [q \in Procs |-> new[q]]
          /\ \A q \in Procs : new[q] = [p \in Paths |-> new[q][p]]
          /\ \A q \in Procs, p \in Paths :
               new[q][p] = IF q = pr /\ p = at[pr] THEN << >> ELSE JsonViews[q][p]
      BY <1>t DEF JsonViews
    <3>4. /\ JsonViews' = [q \in Procs |-> JsonViews'[q]]
          /\ \A q \in Procs : JsonViews'[q] = [p \in Paths |-> JsonViews'[q][p]]
      BY DEF JsonViews
    <3> HIDE DEF new
    <3>5. \A q \in Procs : JsonViews'[q] = new[q]
      BY <3>2, <3>3, <3>4
    <3> QED
      BY <3>3, <3>4, <3>5 DEF new
  <2> QED
    BY <1>t, <1>1, <2>1, <2>2, <2>3 DEF U!Return
<1>2. CASE at[pr] # base[pr]
  <2>1. /\ at' = [at EXCEPT ![pr] = Parent[@]] /\ UNCHANGED answer
        /\ views' = [views EXCEPT ![pr][at[pr]] = << >>,
                                  ![pr][Parent[at[pr]]] = Append(views[pr][Parent[at[pr]]], v)]
    BY <1>2 DEF Return
  <2>2. JsonAnswer' = JsonAnswer
    BY <2>1 DEF JsonAnswer
  <2> DEFINE longer == Append(JsonViews[pr][up], Json(v))
             new == [JsonViews EXCEPT ![pr][at[pr]] = << >>, ![pr][up] = longer]
  <2>3. JsonViews' = new
    <3>1. /\ \A q \in Procs \ {pr} : views'[q] = views[q]
          /\ views'[pr][up] = Append(views[pr][up], v)
          /\ at[pr] # up => views'[pr][at[pr]] = << >>
          /\ \A p \in Paths \ {at[pr], up} : views'[pr][p] = views[pr][p]
      BY <1>t, <2>1 DEF RTypeOK
    <3>2. JsonViews'[pr][up] = longer
      <4> DEFINE n == Len(views[pr][up])
      <4>1. n \in Nat /\ IsSequence(views[pr][up])
        BY <1>t, JsonViewsAre DEF RTypeOK
      <4>2. /\ Len(views'[pr][up]) = n + 1
            /\ \A k \in 1 .. n + 1 : views'[pr][up][k] = IF k <= n THEN views[pr][up][k] ELSE v
        BY <3>1, <4>1 DEF IsSequence
      <4>3. JsonViews'[pr][up] = [i \in 1 .. n + 1 |-> Json(views'[pr][up][i])]
        BY <1>t, <4>2 DEF JsonViews
      <4>4. JsonViews[pr][up] = [i \in 1 .. n |-> Json(views[pr][up][i])]
        BY <1>t, JsonViewsAre
      <4>5. longer = [i \in 1 .. n + 1 |-> IF i <= n THEN Json(views[pr][up][i]) ELSE Json(v)]
        <5> HIDE DEF n
        <5>1. Len(JsonViews[pr][up]) = n
          BY <4>1, <4>4
        <5>2. \A i \in 1 .. n : i <= n /\ JsonViews[pr][up][i] = Json(views[pr][up][i])
          BY <4>1, <4>4
        <5> QED
          BY <4>1, <4>4, <5>1, <5>2
      <4> HIDE DEF n, longer
      <4>6. \A i \in 1 .. n + 1 :
              Json(views'[pr][up][i]) = IF i <= n THEN Json(views[pr][up][i]) ELSE Json(v)
        BY <4>2
      <4> QED
        BY <4>3, <4>5, <4>6
    <3>3. \A q \in Procs, p \in Paths :
            JsonViews'[q][p] = IF q = pr /\ p = up THEN longer
                               ELSE IF q = pr /\ p = at[pr] THEN << >> ELSE JsonViews[q][p]
      <4> HIDE DEF longer
      <4>1. ASSUME NEW q \in Procs, NEW p \in Paths, q # pr \/ p \notin {at[pr], up}
            PROVE  JsonViews'[q][p] = JsonViews[q][p]
        BY <3>1, <4>1 DEF JsonViews
      <4>2. ASSUME at[pr] # up PROVE JsonViews'[pr][at[pr]] = << >>
        <5>1. JsonViews'[pr][at[pr]] = [i \in 1 .. 0 |-> Json(views'[pr][at[pr]][i])]
          BY <1>t, <3>1, <4>2 DEF JsonViews
        <5> QED
          BY <5>1
      <4> QED
        BY <1>t, <3>2, <4>1, <4>2
    <3> HIDE DEF longer
    <3>4. /\ new = [q \in Procs |-> new[q]]
          /\ \A q \in Procs : new[q] = [p \in Paths |-> new[q][p]]
          /\ \A q \in Procs, p \in Paths :
               new[q][p] = IF q = pr /\ p = up THEN longer
                           ELSE IF q = pr /\ p = at[pr] THEN << >> ELSE JsonViews[q][p]
      BY <1>t DEF JsonViews
    <3>5. /\ JsonViews' = [q \in Procs |-> JsonViews'[q]]
          /\ \A q \in Procs : JsonViews'[q] = [p \in Paths |-> JsonViews'[q][p]]
      BY DEF JsonViews
    <3> HIDE DEF new
    <3>6. \A q \in Procs : JsonViews'[q] = new[q]
      BY <3>3, <3>4, <3>5
    <3> QED
      BY <3>4, <3>5, <3>6
  <2> QED
    BY <1>t, <1>2, <2>1, <2>2, <2>3 DEF U!Return
<1> QED
  BY <1>1, <1>2

LEMMA InitSimulates == RInit => U!Init
<1> SUFFICES ASSUME RInit PROVE U!Init
  OBVIOUS
<1>1. JsonViews = [pr \in Procs |-> U!NoViews]
  <2>1. \A pr \in Procs, p \in Paths : views[pr][p] = << >>
    BY DEF RInit, Init, NoViews
  <2>2. \A pr \in Procs, p \in Paths :
          [i \in 1 .. Len(views[pr][p]) |-> Json(views[pr][p][i])] = << >>
    BY <2>1
  <2> QED
    BY <2>2 DEF JsonViews, U!NoViews
<1>2. JsonAnswer = [pr \in Procs |-> None]
  BY DEF RInit, Init, JsonAnswer
<1> QED
  BY <1>1, <1>2 DEF RInit, Init, U!Init

\* Every step of the cached rollup is a step of the uncached one or leaves its
\* variables alone: a hit and the write after a miss are where it reduces.
LEMMA StepSimulation ==
  ASSUME KeysFaithful, JsonSafe, NoneIsNoView, RollupInv, [RNext]_rollupVars
  PROVE  [U!Next]_(U!vars)
<1>t. RTypeOK /\ RTypeOK' /\ MatchMeansFresh
  BY NextType, ProvenanceMeansFresh DEF RollupInv
<1>j. UNCHANGED <<views, answer>> => UNCHANGED <<JsonViews, JsonAnswer>>
  BY DEF JsonViews, JsonAnswer
<1>m. \A q \in Procs, p \in Paths :
        /\ Len(views[q][p]) \in Nat
        /\ JsonViews[q][p] = [i \in 1 .. Len(views[q][p]) |-> Json(views[q][p][i])]
        /\ Len(JsonViews[q][p]) = Len(views[q][p])
  BY <1>t, JsonViewsAre
<1>l. \A pr \in Procs : at[pr] # None => Len(JsonViews[pr][at[pr]]) = Len(views[pr][at[pr]])
  <2>1. \A pr \in Procs : at[pr] # None => at[pr] \in Paths
    BY <1>t DEF RTypeOK
  <2> QED
    BY <1>m, <2>1
<1>1. ASSUME NEW p \in Leaves, RAppendEvent(p) PROVE U!Next
  <2>1. U!AppendEvent(p)
    BY <1>1, <1>j DEF RAppendEvent, AppendEvent, U!AppendEvent
  <2>2. p \in U!Leaves
    BY DEF Leaves, U!Leaves, InTree, U!InTree, IsLeaf, U!IsLeaf
  <2> QED
    BY <2>1, <2>2 DEF U!Next
<1>2. ASSUME NEW pr \in Procs, NEW t \in Trees, NEW p \in Paths, RBegin(pr, t, p)
      PROVE  U!Next
  <2>1. /\ at[pr] = None /\ InTree(t, p) /\ tree' = [tree EXCEPT ![pr] = t]
        /\ base' = [base EXCEPT ![pr] = p] /\ at' = [at EXCEPT ![pr] = p]
        /\ answer' = [answer EXCEPT ![pr] = None] /\ start' = [start EXCEPT ![pr] = log]
        /\ views' = [views EXCEPT ![pr] = NoViews] /\ UNCHANGED log
    BY <1>2 DEF RBegin, Begin
  <2>2. JsonAnswer' = [JsonAnswer EXCEPT ![pr] = None]
    <3>1. answer'[pr] = None /\ \A q \in Procs \ {pr} : answer'[q] = answer[q]
      BY <1>t, <2>1 DEF RTypeOK
    <3> QED
      BY <3>1 DEF JsonAnswer
  <2>3. JsonViews' = [JsonViews EXCEPT ![pr] = U!NoViews]
    <3>1. views'[pr] = NoViews /\ \A q \in Procs \ {pr} : views'[q] = views[q]
      BY <1>t, <2>1 DEF RTypeOK
    <3>2. \A q \in Procs \ {pr} : JsonViews'[q] = JsonViews[q]
      BY <3>1 DEF JsonViews
    <3>3. JsonViews'[pr] = U!NoViews
      <4>1. \A x \in Paths : views'[pr][x] = << >>
        BY <3>1 DEF NoViews
      <4>2. \A x \in Paths : [i \in 1 .. Len(views'[pr][x]) |-> Json(views'[pr][x][i])] = << >>
        BY <4>1
      <4> QED
        BY <4>2 DEF JsonViews, U!NoViews
    <3> QED
      BY <3>2, <3>3 DEF JsonViews
  <2>4. U!Begin(pr, t, p)
    BY <2>1, <2>2, <2>3 DEF U!Begin, U!InTree, InTree
  <2> QED
    BY <2>4 DEF U!Next
<1>3. ASSUME NEW pr \in Procs, RDescend(pr) PROVE U!Next
  <2>1. U!Descend(pr)
    BY <1>3, <1>j, <1>l
    DEF RDescend, Descend, U!Descend, U!Visited, Visited, U!KidsOf, KidsOf
  <2> QED
    BY <2>1 DEF U!Next
<1>4. ASSUME NEW pr \in Procs, RReadLeaf(pr) PROVE U!Next
  <2>1. /\ at[pr] # None /\ IsLeaf(tree[pr], at[pr]) /\ at[pr] \in Paths /\ tree[pr] \in Trees
        /\ Return(pr, LeafView(tree[pr], at[pr], log[at[pr]]))
    BY <1>t, <1>4 DEF RReadLeaf, ReadLeaf, RTypeOK
  <2>2. U!Return(pr, U!LeafView(tree[pr], at[pr], log[at[pr]]))
    BY <1>t, <2>1, UncachedLeaf, NoViewIsNone, ReturnSimulates
  <2>3. U!ReadLeaf(pr)
    BY <2>1, <2>2 DEF U!ReadLeaf, U!IsLeaf, IsLeaf
  <2> QED
    BY <2>3 DEF U!Next
<1>5. ASSUME NEW pr \in Procs, NEW v, v # None, AllVisited(pr), Return(pr, v),
             Json(v) = Json(Result(tree[pr], at[pr], views[pr][at[pr]]))
      PROVE  U!Next
  <2> DEFINE vs == views[pr][at[pr]]
             t == tree[pr]
             ws == JsonViews[pr][at[pr]]
  <2>1. /\ at[pr] \in Paths /\ t \in Trees /\ Len(vs) = Len(Kids[t][at[pr]]) /\ Len(vs) \in Nat
        /\ KidsPlain(t, at[pr]) => \A i \in 1 .. Len(vs) : Json(vs[i]) = vs[i]
        /\ at[pr] # None /\ ~ IsLeaf(t, at[pr])
    BY <1>5, VisitedResult DEF AllVisited
  <2>2. \A i \in 1 .. Len(vs) : ws[i] = Json(vs[i])
    <3>1. ws = [i \in 1 .. Len(vs) |-> Json(vs[i])]
      BY <1>m, <2>1
    <3> HIDE DEF vs, ws
    <3> QED
      BY <3>1
  <2>3. Len(ws) = Len(vs)
    BY <1>l, <2>1
  <2>4. U!Return(pr, Json(v))
    BY <1>t, <1>5, <2>1, ReturnSimulates
  <2>5. Json(v) = Json(Result(t, at[pr], vs))
    BY <1>5
  <2> HIDE DEF vs, t, ws
  <2>6. \A i \in 1 .. Len(Kids[t][at[pr]]) : Json(ws[i]) = ws[i] /\ ws[i] = Json(vs[i])
    BY <2>1, <2>2, JsonOfJson
  <2>7. Json(Result(t, at[pr], vs)) = Json(Result(t, at[pr], ws))
    BY <2>1, <2>6, ResultOfJson
  <2>8. U!Result(t, at[pr], ws) = Json(v)
    BY <2>1, <2>5, <2>6, <2>7, UncachedResult
  <2>9. U!Reduce(pr)
    BY <2>1, <2>3, <2>4, <2>8
    DEF U!Reduce, U!AllVisited, U!IsLeaf, IsLeaf, U!Visited, U!KidsOf, vs, t, ws
  <2> QED
    BY <2>9 DEF U!Next
<1>6. ASSUME NEW pr \in Procs, Hit(pr) PROVE U!Next
  <2>1. /\ AllVisited(pr) /\ Return(pr, cache[at[pr]].view)
        /\ cache[at[pr]].view = Json(Result(tree[pr], at[pr], views[pr][at[pr]]))
    BY <1>t, <1>6 DEF MatchMeansFresh, Hit
  <2> QED
    BY <1>5, <2>1, JsonOfJson, NoViewIsNone
<1>7. ASSUME NEW pr \in Procs, Miss(pr) \/ Truncate(pr) PROVE UNCHANGED U!vars
  BY <1>7, <1>j DEF Miss, Truncate, vars, U!vars
<1>8. ASSUME NEW pr \in Procs, WriteCache(pr) PROVE U!Next
  <2>1. /\ AllVisited(pr) /\ Return(pr, pending[pr].view)
        /\ pending[pr].view = Result(tree[pr], at[pr], views[pr][at[pr]])
        /\ tree[pr] \in Trees /\ at[pr] \in Paths
    BY <1>t, <1>8, PendingFromTree DEF WriteCache, RTypeOK, AllVisited
  <2> QED
    BY <1>5, <2>1, NoViewIsNone
<1>9. ASSUME NEW pr \in Procs, RAbort(pr) PROVE U!Next
  <2>1. /\ at[pr] # None /\ at' = [at EXCEPT ![pr] = None]
        /\ views' = [views EXCEPT ![pr] = NoViews] /\ UNCHANGED <<log, tree, base, answer, start>>
    BY <1>9 DEF RAbort, Abort
  <2>2. JsonViews' = [JsonViews EXCEPT ![pr] = U!NoViews]
    <3>1. views'[pr] = NoViews /\ \A q \in Procs \ {pr} : views'[q] = views[q]
      BY <1>t, <2>1 DEF RTypeOK
    <3>2. \A q \in Procs \ {pr} : JsonViews'[q] = JsonViews[q]
      BY <3>1 DEF JsonViews
    <3>3. JsonViews'[pr] = U!NoViews
      <4>1. \A x \in Paths : views'[pr][x] = << >>
        BY <3>1 DEF NoViews
      <4>2. \A x \in Paths : [i \in 1 .. Len(views'[pr][x]) |-> Json(views'[pr][x][i])] = << >>
        BY <4>1
      <4> QED
        BY <4>2 DEF JsonViews, U!NoViews
    <3> QED
      BY <3>2, <3>3 DEF JsonViews
  <2>3. JsonAnswer' = JsonAnswer
    BY <2>1 DEF JsonAnswer
  <2>4. U!Abort(pr)
    BY <2>1, <2>2, <2>3 DEF U!Abort
  <2> QED
    BY <2>4 DEF U!Next
<1>10. CASE UNCHANGED rollupVars
  BY <1>10, <1>j DEF rollupVars, U!vars
<1> QED
  BY <1>1, <1>2, <1>3, <1>4, <1>6, <1>7, <1>8, <1>9, <1>10 DEF RNext, Step

\* The cache is transparent: compute_view with its cache files, truncated,
\* overwritten and left behind by whoever crashed, behaves as compute_view
\* without a cache, up to the JSON round trip of views.  Needs reducers that do
\* not notice the round trip of what they are given: JsonSafe.
THEOREM CacheRefines ==
  KeysFaithful /\ JsonSafe /\ NoneIsNoView => (RSpec => CacheIsTransparent)
<1> SUFFICES ASSUME KeysFaithful, JsonSafe, NoneIsNoView PROVE RSpec => CacheIsTransparent
  OBVIOUS
<1>1. RInit => U!Init
  BY InitSimulates
<1>2. RollupInv /\ [RNext]_rollupVars => [U!Next]_(U!vars)
  BY StepSimulation
<1>3. RSpec => []RollupInv
  BY RollupInvariant
<1> QED
  BY <1>1, <1>2, <1>3, PTL DEF RSpec, CacheIsTransparent, U!Spec
=============================================================================
