--------------------------- MODULE AgentToolsProofs ---------------------------
(***************************************************************************)
(* Proofs about AgentTools, for any tree and any number of processes: what *)
(* get_state returns is the view of the whole subtree as its logs were     *)
(* while it ran, and find_state, which goes by such views, returns what    *)
(* showed the query, nearest first, and misses nothing.                    *)
(***************************************************************************)
EXTENDS AgentTools, RollupProofs, FiniteSetTheorems, SequenceTheorems, WellFoundedInduction

-----------------------------------------------------------------------------
(* compute_view: the inductive invariant. *)

AllReadings == [Paths -> 0 .. MaxEvents]

\* Readings(since) when the logs are as now.
Between(since, now) ==
  {r \in AllReadings : \A p \in Paths : r[p] \in IF p \in Leaves THEN since[p] .. now[p] ELSE {0}}

\* v, as JSON, is the view of k for readings of the logs since then, whatever is read
\* elsewhere than below k.
IsView(t, k, v, since, now) ==
  \E r \in Between(since, now) : \A q \in AllReadings :
    (\A x \in Under[k] : q[x] = r[x]) => Json(v) = Eval(t, k, q)

\* The frames of a call.
OnStack(pr, p) == p \in Under[base[pr]] /\ at[pr] \in Under[p]

WalkGood(pr) ==
  LET t == tree[pr]
  IN  /\ at[pr] \in Under[base[pr]] /\ InTree(t, at[pr])
      /\ \A p \in Paths :
           /\ views[pr][p] # << >> => OnStack(pr, p)
           /\ OnStack(pr, p) /\ p # base[pr] =>
                /\ Len(views[pr][Parent[p]]) < Len(Kids[t][Parent[p]])
                /\ Kids[t][Parent[p]][Len(views[pr][Parent[p]]) + 1] = p
           /\ Len(views[pr][p]) <= Len(Kids[t][p])
           /\ \A i \in 1 .. Len(views[pr][p]) :
                IsView(t, Kids[t][p][i], views[pr][p][i], start[pr], log)

CallGood(pr) ==
  /\ IF at[pr] = None THEN views[pr] = NoViews ELSE base[pr] \in Paths /\ WalkGood(pr)
  /\ answer[pr] # None => IsView(tree[pr], base[pr], answer[pr], start[pr], log)
  /\ \A p \in Paths : start[pr][p] <= log[p]

FreshInv ==
  /\ \A p \in Paths \ Leaves : log[p] = 0
  /\ \A pr \in Procs : CallGood(pr)

-----------------------------------------------------------------------------
(* find_state: the inductive invariant. *)

SearchRecord ==
  [pc : {"none", "next", "view", "done"}, queue : Seq(Paths), found : Seq(Paths), max : Nat,
   scope : SUBSET Paths, lost : SUBSET Paths, since : AllReadings]

\* The nodes still to be visited are below those in the queue, each below one.
QueueGood(t, queue) ==
  /\ \A i \in 1 .. Len(queue) :
       InTree(t, queue[i]) /\ Depth[queue[i]] <= Depth[queue[1]] + 1
  /\ \A i, j \in 1 .. Len(queue) : i < j =>
       /\ Depth[queue[i]] <= Depth[queue[j]]
       /\ Under[queue[i]] \cap Under[queue[j]] = {}

\* What was found has been visited, top down.
FoundGood(found, queue) ==
  /\ \A i, j \in 1 .. Len(found) : i < j => Depth[found[i]] <= Depth[found[j]] /\ found[i] # found[j]
  /\ \A i \in 1 .. Len(found), j \in 1 .. Len(queue) :
       found[i] \notin Under[queue[j]] /\ Depth[found[i]] <= Depth[queue[j]]

\* Missed, when the search s goes over t and the logs are as now.
MissedIn(t, s, now) ==
  {p \in s.scope : InTree(t, p) /\ \A r \in Between(s.since, now) : Shows(t, p, Eval(t, p, r))}
    \ (Range(s.found) \union s.lost)

FoundTrue(t, s, now) ==
  \A p \in Range(s.found) \ s.lost :
    \E r \in Between(s.since, now) : Shows(t, p, Eval(t, p, r))

\* What was missed is still to come, or cut off.
Covered(t, s, now) ==
  \A p \in MissedIn(t, s, now) : \E j \in 1 .. Len(s.queue) : p \in Under[s.queue[j]]

CutOff(t, s, now) ==
  /\ Len(s.found) < s.max => MissedIn(t, s, now) = {}
  /\ s.found # << >> => \A p \in MissedIn(t, s, now) : Depth[p] >= Depth[Last(s.found)]

SearchGood(t, s, now) ==
  /\ FoundGood(s.found, s.queue) /\ FoundTrue(t, s, now)
  /\ s.pc = "none" => s.found = << >>
  /\ s.pc \in {"next", "view"} => QueueGood(t, s.queue) /\ Covered(t, s, now)
  /\ s.pc = "done" => CutOff(t, s, now)

\* A search and the call of get_state that it waits for.
Together(pr) ==
  /\ Searching(pr) => \A p \in Paths : search[pr].since[p] <= log[p]
  /\ search[pr].pc = "next" => at[pr] = None
  /\ search[pr].pc = "view" =>
       /\ search[pr].queue # << >> /\ base[pr] = search[pr].queue[1]
       /\ \A p \in Paths : search[pr].since[p] <= start[pr][p]

SearchInv ==
  /\ search \in [Procs -> SearchRecord]
  /\ \A pr \in Procs : SearchGood(tree[pr], search[pr], log) /\ Together(pr)

-----------------------------------------------------------------------------
(* Lemmas: what is below a path. *)

LEMMA KidsArePaths ==
  ASSUME NEW t \in Trees, NEW p \in Paths
  PROVE  /\ Kids[t][p] \in Seq(Paths) /\ Len(Kids[t][p]) \in Nat
         /\ \A i \in 1 .. Len(Kids[t][p]) :
              LET k == Kids[t][p][i]
              IN  k \in Paths /\ Parent[k] = p /\ k # p /\ Depth[k] = Depth[p] + 1 /\ InTree(t, k)
<1>1. Kids[t][p] \in Seq(Paths) /\ Len(Kids[t][p]) \in Nat
  BY TreeAssumption
<1>2. ASSUME NEW i \in 1 .. Len(Kids[t][p])
      PROVE  LET k == Kids[t][p][i]
             IN  k \in Paths /\ Parent[k] = p /\ k # p /\ Depth[k] = Depth[p] + 1 /\ InTree(t, k)
  <2> DEFINE k == Kids[t][p][i]
  <2>1. k \in Paths
    BY <1>1
  <2>2. Parent[k] = p /\ k # p
    BY TreeAssumption, ShapeAssumption
  <2>3. Depth[k] = 1 + Depth[p] /\ Depth[p] \in Nat
    BY <2>1, <2>2, DepthAssumption
  <2>4. InTree(t, k)
    BY <2>2 DEF InTree
  <2> QED
    BY <2>1, <2>2, <2>3, <2>4
<1> QED
  BY <1>1, <1>2

\* What is below p is deeper than p.
LEMMA UnderDeeper ==
  ASSUME NEW p \in Paths, NEW q \in Under[p]
  PROVE  q \in Paths /\ Depth[q] \in Nat /\ Depth[p] \in Nat /\ Depth[q] >= Depth[p]
         /\ (Depth[q] = Depth[p] => q = p)
<1> DEFINE S == {x \in Paths : x = p \/ Depth[x] > Depth[p]}
<1>1. \A x \in Paths : Depth[x] \in Nat
  BY DepthAssumption
<1>2. ASSUME NEW x \in Paths, Parent[x] \in S, Parent[x] # x PROVE x \in S
  <2>1. Depth[x] = 1 + Depth[Parent[x]] /\ Depth[Parent[x]] >= Depth[p]
    BY <1>1, <1>2, DepthAssumption
  <2> QED
    BY <1>1, <1>2, <2>1
<1>3. Under[p] \subseteq S
  BY <1>2, UnderIs DEF Closed
<1> QED
  BY <1>1, <1>3

\* What is below what is below p is below p.
LEMMA UnderUnder ==
  ASSUME NEW p \in Paths, NEW q \in Under[p]
  PROVE  Under[q] \subseteq Under[p]
BY UnderIs DEF Closed

\* Below p is what has its parent below p.
LEMMA UnderParent ==
  ASSUME NEW p \in Paths, NEW q \in Under[p], q # p
  PROVE  Parent[q] \in Under[p] /\ Parent[q] \in Paths /\ Parent[q] # q
<1> DEFINE S == {x \in Under[p] : x = p \/ Parent[x] \in Under[p]}
<1>1. Under[p] \subseteq S
  <2>1. S \subseteq Paths /\ p \in S
    BY UnderIs
  <2>2. Closed(S)
    BY UnderIs DEF Closed
  <2> QED
    BY <2>1, <2>2, UnderIs
<1>2. q \in Paths /\ Parent[q] \in Paths
  BY UnderIs, TreeAssumption
<1>3. Parent[q] # q
  <2>1. Depth[q] > Depth[p] /\ Depth[p] >= 0
    BY UnderDeeper
  <2> QED
    BY <1>2, <2>1, DepthAssumption, UnderDeeper
<1> QED
  BY <1>1, <1>2, <1>3

\* Nothing is below two paths of one depth.
LEMMA UnderApart ==
  ASSUME NEW p \in Paths, NEW q \in Paths, p # q, Depth[p] = Depth[q]
  PROVE  Under[p] \cap Under[q] = {}
<1> DEFINE S == {x \in Under[p] : x \notin Under[q]}
<1>1. S \subseteq Paths /\ p \in S
  <2>1. p \notin Under[q]
    BY UnderDeeper
  <2> QED
    BY <2>1, UnderIs
<1>2. ASSUME NEW x \in Paths, Parent[x] \in S, Parent[x] # x PROVE x \in S
  <2>1. x \in Under[p]
    BY <1>2, UnderIs
  <2>2. x # q
    <3>1. Depth[x] = 1 + Depth[Parent[x]] /\ Depth[Parent[x]] >= Depth[p]
      BY <1>2, DepthAssumption, UnderDeeper
    <3>2. Depth[p] \in Nat /\ Depth[Parent[x]] \in Nat
      BY <1>2, UnderDeeper
    <3> QED
      BY <3>1, <3>2
  <2>3. x \notin Under[q]
    BY <1>2, <2>2, UnderParent
  <2> QED
    BY <2>1, <2>3
<1>3. Under[p] \subseteq S
  BY <1>1, <1>2, UnderIs DEF Closed
<1> QED
  BY <1>3

\* The kids of a path are below it, apart from each other, and all there is.
LEMMA UnderKids ==
  ASSUME NEW t \in Trees, NEW p \in Paths
  PROVE  /\ \A i \in 1 .. Len(Kids[t][p]) :
              Kids[t][p][i] \in Under[p] /\ Under[Kids[t][p][i]] \subseteq Under[p] \ {p}
         /\ \A i, j \in 1 .. Len(Kids[t][p]) :
              i # j => Under[Kids[t][p][i]] \cap Under[Kids[t][p][j]] = {}
         /\ \A q \in Under[p] : InTree(t, q) /\ q # p =>
              \E i \in 1 .. Len(Kids[t][p]) : q \in Under[Kids[t][p][i]]
<1>1. ASSUME NEW i \in 1 .. Len(Kids[t][p])
      PROVE  Kids[t][p][i] \in Under[p] /\ Under[Kids[t][p][i]] \subseteq Under[p] \ {p}
  <2> DEFINE k == Kids[t][p][i]
  <2>1. k \in Paths /\ Parent[k] = p /\ k # p /\ Depth[k] = Depth[p] + 1
    BY KidsArePaths
  <2>2. k \in Under[p]
    BY <2>1, UnderIs
  <2> HIDE DEF k
  <2>3. p \notin Under[k]
    <3> SUFFICES ASSUME p \in Under[k] PROVE FALSE
      OBVIOUS
    <3>1. Depth[p] >= Depth[k] /\ Depth[p] \in Nat
      BY <2>1, UnderDeeper
    <3> QED
      BY <2>1, <3>1
  <2>4. Under[k] \subseteq Under[p]
    BY <2>2, UnderUnder
  <2> QED
    BY <2>2, <2>3, <2>4 DEF k
<1>2. ASSUME NEW i \in 1 .. Len(Kids[t][p]), NEW j \in 1 .. Len(Kids[t][p]), i # j
      PROVE  Under[Kids[t][p][i]] \cap Under[Kids[t][p][j]] = {}
  <2>1. Kids[t][p][i] # Kids[t][p][j]
    BY <1>2, TreeAssumption
  <2>2. /\ Kids[t][p][i] \in Paths /\ Kids[t][p][j] \in Paths
        /\ Depth[Kids[t][p][i]] = Depth[Kids[t][p][j]]
    BY KidsArePaths
  <2> QED
    BY <2>1, <2>2, UnderApart
<1> DEFINE BelowKid(q) == \E i \in 1 .. Len(Kids[t][p]) : q \in Under[Kids[t][p][i]]
           S == {x \in Under[p] : x = p \/ ~ InTree(t, x) \/ BelowKid(x)}
<1>3. ASSUME NEW x \in Paths, Parent[x] \in S, Parent[x] # x PROVE x \in S
  <2>1. x \in Under[p] /\ Parent[x] \in Paths
    BY <1>3, UnderIs
  <2> SUFFICES ASSUME InTree(t, x) PROVE BelowKid(x)
    BY <2>1
  <2>2. PICK i \in 1 .. Len(Kids[t][Parent[x]]) : Kids[t][Parent[x]][i] = x
    BY <1>3 DEF InTree
  <2>3. InTree(t, Parent[x])
    <3> SUFFICES ASSUME ~ InTree(t, Parent[x]) PROVE FALSE
      OBVIOUS
    <3>1. Kids[t][Parent[x]] = << >>
      BY <2>1, ShapeAssumption
    <3> QED
      BY <2>2, <3>1
  <2>4. CASE Parent[x] = p
    BY <2>2, <2>4, UnderIs
  <2>5. CASE Parent[x] # p
    <3>1. PICK j \in 1 .. Len(Kids[t][p]) : Parent[x] \in Under[Kids[t][p][j]]
      BY <1>3, <2>3, <2>5
    <3>2. Kids[t][p][j] \in Paths
      BY KidsArePaths
    <3>3. x \in Under[Kids[t][p][j]]
      BY <1>3, <3>1, <3>2, UnderIs
    <3> QED
      BY <3>3
  <2> QED
    BY <2>4, <2>5
<1>4. Under[p] \subseteq S
  <2> HIDE DEF BelowKid
  <2>1. S \subseteq Paths /\ p \in S
    BY UnderIs
  <2>2. Closed(S)
    BY <1>3 DEF Closed
  <2> QED
    BY <2>1, <2>2, UnderIs
<1> QED
  BY <1>1, <1>2, <1>4

\* The least number principle.
LEMMA LeastNat ==
  ASSUME NEW T, T \subseteq Nat, T # {}
  PROVE  \E x \in T : \A y \in T : x <= y
<1> DEFINE less == OpToRel(<, Nat)
<1>1. \A x, y \in Nat : x < y => <<x, y>> \in less
  BY DEF OpToRel
<1>2. IsWellFoundedOn(less, Nat)
  BY NatLessThanWellFounded
<1> HIDE DEF less
<1>3. PICK x \in T : \A y \in T : ~ (<<y, x>> \in less)
  BY <1>2, WFMin
<1>4. ASSUME NEW y \in T PROVE x <= y
  <2>1. x \in Nat /\ y \in Nat
    OBVIOUS
  <2>2. ~ (y < x)
    BY <1>1, <1>3, <2>1
  <2> QED
    BY <2>1, <2>2
<1> QED
  BY <1>4

\* Every path is below the root.
LEMMA UnderRoot == Under[Root] = Paths
<1> DEFINE Depths == {Depth[p] : p \in Paths \ Under[Root]}
<1> SUFFICES ASSUME NEW p \in Paths \ Under[Root] PROVE FALSE
  BY UnderIs, SearchAssumption
<1>1. PICK d \in Depths : \A e \in Depths : d <= e
  <2>1. Depths \subseteq Nat /\ Depths # {}
    BY DepthAssumption
  <2> HIDE DEF Depths
  <2> QED
    BY <2>1, LeastNat
<1>2. PICK q \in Paths \ Under[Root] : d = Depth[q]
  BY <1>1
<1>3. q # Root /\ Parent[q] # q /\ Parent[q] \in Paths
  BY <1>2, UnderIs, SearchAssumption, TreeAssumption
<1>4. Parent[q] \notin Under[Root]
  BY <1>2, <1>3, UnderIs, SearchAssumption
<1>5. Depth[q] = 1 + Depth[Parent[q]] /\ Depth[Parent[q]] \in Nat
  BY <1>2, <1>3, DepthAssumption
<1>6. Depth[q] <= Depth[Parent[q]]
  BY <1>1, <1>2, <1>3, <1>4
<1> QED
  BY <1>5, <1>6

-----------------------------------------------------------------------------
(* Eval. *)

\* The view of q, given those of its children in f.
FromKids(t, reading, f, q) ==
  Json(IF IsLeaf(t, q) THEN LeafView(t, q, reading[q])
       ELSE Result(t, q, [i \in 1 .. Len(Kids[t][q]) |-> f[Kids[t][q][i]]]))

\* f gives the views of the paths of at least that depth.
Views(t, reading, f, depth) ==
  DOMAIN f = Paths /\ \A q \in Paths : Depth[q] >= depth => f[q] = FromKids(t, reading, f, q)

\* There are finitely many paths, so one is the deepest.
LEMMA DeepestPath == \E d \in Nat : \A p \in Paths : Depth[p] <= d
<1>1. PICK n \in Nat : \E f : f \in Surjection(1 .. n, Paths)
  BY DepthAssumption, FS_NatSurjection DEF ExistsSurjection
<1>2. PICK f : f \in Surjection(1 .. n, Paths)
  BY <1>1
<1>3. \A p \in Paths : \E i \in 1 .. n : f[i] = p
  BY <1>2 DEF Surjection
<1>4. \A i \in 1 .. n : f[i] \in Paths
  BY <1>2 DEF Surjection
<1> DEFINE Bad == {m \in 0 .. n : ~ \E d \in Nat : \A i \in 1 .. m : Depth[f[i]] <= d}
<1> SUFFICES ASSUME Bad # {} PROVE FALSE
  <2> SUFFICES ASSUME n \notin Bad PROVE \E d \in Nat : \A p \in Paths : Depth[p] <= d
    OBVIOUS
  <2>1. PICK d \in Nat : \A i \in 1 .. n : Depth[f[i]] <= d
    BY <1>1
  <2> QED
    BY <1>3, <2>1
<1>5. PICK m \in Bad : \A k \in Bad : m <= k
  <2>1. Bad \subseteq Nat
    BY <1>1
  <2> HIDE DEF Bad
  <2> QED
    BY <2>1, LeastNat
<1>6. m \in Nat /\ m # 0 /\ m - 1 \in 0 .. n /\ m \in 1 .. n
  <2>1. \A i \in 1 .. 0 : Depth[f[i]] <= 0
    OBVIOUS
  <2>2. m # 0
    BY <2>1
  <2> QED
    BY <1>1, <2>2
<1>7. PICK d \in Nat : \A i \in 1 .. m - 1 : Depth[f[i]] <= d
  <2>1. m - 1 \notin Bad
    <3>1. ~ (m <= m - 1)
      BY <1>6
    <3> QED
      BY <1>5, <3>1
  <2> QED
    BY <1>6, <2>1
<1>8. Depth[f[m]] \in Nat
  BY <1>4, <1>6, DepthAssumption
<1> DEFINE e == IF Depth[f[m]] > d THEN Depth[f[m]] ELSE d
<1>9. e \in Nat /\ \A i \in 1 .. m : Depth[f[i]] <= e
  <2>1. \A i \in 1 .. m : i = m \/ i \in 1 .. m - 1
    BY <1>6
  <2>2. \A i \in 1 .. n : Depth[f[i]] \in Nat
    BY <1>4, DepthAssumption
  <2>3. \A i \in 1 .. m : i \in 1 .. n
    BY <1>6
  <2>4. ASSUME NEW i \in 1 .. m PROVE Depth[f[i]] <= e
    <3>1. i \in 1 .. m - 1 => Depth[f[i]] <= d
      BY <1>7
    <3>2. Depth[f[i]] \in Nat
      BY <2>2, <2>3
    <3>3. i = m \/ i \in 1 .. m - 1
      BY <2>1
    <3> QED
      BY <1>8, <3>1, <3>2, <3>3
  <2>5. e \in Nat
    BY <1>8
  <2> QED
    BY <2>4, <2>5
<1> QED
  BY <1>6, <1>9

\* The recursive function of Eval exists: it is made from the deepest paths up.
LEMMA ViewsExist ==
  ASSUME NEW t \in Trees, NEW reading
  PROVE  \E f : Views(t, reading, f, 0)
<1>1. PICK d \in Nat : \A p \in Paths : Depth[p] <= d
  BY DeepestPath
<1> DEFINE Good == {m \in Nat : \E f : Views(t, reading, f, m)}
<1>2. d + 1 \in Good
  <2>1. Views(t, reading, [p \in Paths |-> None], d + 1)
    BY <1>1, DepthAssumption DEF Views
  <2> QED
    BY <2>1
<1>3. PICK m \in Good : \A k \in Good : m <= k
  BY <1>2, LeastNat
<1> SUFFICES ASSUME m # 0 PROVE FALSE
  BY <1>3
<1>4. m \in Nat /\ m - 1 \in Nat
  BY <1>3
<1>5. PICK f : Views(t, reading, f, m)
  BY <1>3
<1> DEFINE g == [q \in Paths |-> IF Depth[q] = m - 1 THEN FromKids(t, reading, f, q) ELSE f[q]]
<1>6. ASSUME NEW q \in Paths, Depth[q] >= m - 1 PROVE g[q] = FromKids(t, reading, g, q)
  <2>1. \A i \in 1 .. Len(Kids[t][q]) : g[Kids[t][q][i]] = f[Kids[t][q][i]]
    <3> SUFFICES ASSUME NEW i \in 1 .. Len(Kids[t][q]) PROVE g[Kids[t][q][i]] = f[Kids[t][q][i]]
      OBVIOUS
    <3>1. Kids[t][q][i] \in Paths /\ Depth[Kids[t][q][i]] = Depth[q] + 1
      BY KidsArePaths
    <3>2. Depth[Kids[t][q][i]] # m - 1
      BY <1>4, <1>6, <3>1, DepthAssumption
    <3> QED
      BY <3>1, <3>2
  <2>2. FromKids(t, reading, g, q) = FromKids(t, reading, f, q)
    <3> HIDE DEF g
    <3>1. [i \in 1 .. Len(Kids[t][q]) |-> g[Kids[t][q][i]]] = [i \in 1 .. Len(Kids[t][q]) |-> f[Kids[t][q][i]]]
      BY <2>1
    <3> QED
      BY <3>1 DEF FromKids
  <2>3. g[q] = FromKids(t, reading, f, q)
    <3>1. CASE Depth[q] = m - 1
      BY <3>1
    <3>2. CASE Depth[q] # m - 1
      <4>1. Depth[q] >= m
        BY <1>4, <1>6, <3>2, DepthAssumption
      <4> QED
        BY <1>5, <3>2, <4>1 DEF Views
    <3> QED
      BY <3>1, <3>2
  <2> QED
    BY <2>2, <2>3
<1>7. DOMAIN g = Paths
  OBVIOUS
<1> HIDE DEF g
<1>8. Views(t, reading, g, m - 1)
  BY <1>6, <1>7 DEF Views
<1>9. m - 1 \in Good
  BY <1>4, <1>8
<1> QED
  BY <1>3, <1>4, <1>9

\* Eval is what its definition says.
LEMMA EvalIs ==
  ASSUME NEW t \in Trees, NEW p \in Paths, NEW reading
  PROVE  Eval(t, p, reading) =
           Json(IF IsLeaf(t, p) THEN LeafView(t, p, reading[p])
                ELSE Result(t, p, [i \in 1 .. Len(Kids[t][p]) |-> Eval(t, Kids[t][p][i], reading)]))
<1> DEFINE IsIt(f) == f = [q \in Paths |-> FromKids(t, reading, f, q)]
           F == CHOOSE f : IsIt(f)
<1>1. \A q : Eval(t, q, reading) = F[q]
  BY DEF Eval, FromKids
<1>2. IsIt(F)
  <2>1. PICK f : Views(t, reading, f, 0)
    BY ViewsExist
  <2>2. \E g : IsIt(g)
    <3> DEFINE g == [q \in Paths |-> f[q]]
    <3>1. \A q \in Paths : g[q] = f[q]
      OBVIOUS
    <3>2. ASSUME NEW q \in Paths PROVE FromKids(t, reading, g, q) = FromKids(t, reading, f, q)
      <4>1. \A i \in 1 .. Len(Kids[t][q]) : Kids[t][q][i] \in Paths
        BY KidsArePaths
      <4> HIDE DEF g
      <4>2. [i \in 1 .. Len(Kids[t][q]) |-> g[Kids[t][q][i]]] = [i \in 1 .. Len(Kids[t][q]) |-> f[Kids[t][q][i]]]
        BY <3>1, <4>1
      <4> QED
        BY <4>2 DEF FromKids
    <3>3. \A q \in Paths : f[q] = FromKids(t, reading, f, q)
      BY <2>1, DepthAssumption DEF Views
    <3>4. g = [q \in Paths |-> g[q]]
      OBVIOUS
    <3> HIDE DEF g
    <3>5. \A q \in Paths : g[q] = FromKids(t, reading, g, q)
      BY <3>1, <3>2, <3>3
    <3>6. IsIt(g)
      BY <3>4, <3>5
    <3> QED
      BY <3>6
  <2> HIDE DEF IsIt
  <2> QED
    BY <2>2
<1> HIDE DEF F
<1>3. F[p] = FromKids(t, reading, F, p)
  BY <1>2
<1>4. FromKids(t, reading, F, p) =
        Json(IF IsLeaf(t, p) THEN LeafView(t, p, reading[p])
             ELSE Result(t, p, [i \in 1 .. Len(Kids[t][p]) |-> F[Kids[t][p][i]]]))
  BY DEF FromKids
<1> QED
  BY <1>1, <1>3, <1>4

-----------------------------------------------------------------------------
(* Views of a subtree for some reading of its logs. *)

LEMMA ReadingsAre == \A since : Readings(since) = Between(since, log)
BY DEF Readings, Between, AllReadings

LEMMA BetweenGrows ==
  ASSUME NEW since \in AllReadings, NEW now \in AllReadings, NEW next \in AllReadings,
         NEW before \in AllReadings,
         \A p \in Paths : now[p] <= next[p] /\ before[p] <= since[p]
  PROVE  Between(since, now) \subseteq Between(before, next)
<1> SUFFICES ASSUME NEW r \in Between(since, now), NEW p \in Paths
             PROVE  r[p] \in IF p \in Leaves THEN before[p] .. next[p] ELSE {0}
  BY DEF Between
<1>1. r[p] \in IF p \in Leaves THEN since[p] .. now[p] ELSE {0}
  BY DEF Between
<1>2. now[p] \in Nat /\ next[p] \in Nat /\ since[p] \in Nat /\ before[p] \in Nat
  BY EventsAssumption DEF AllReadings
<1>3. now[p] <= next[p] /\ before[p] <= since[p]
  OBVIOUS
<1> QED
  BY <1>1, <1>2, <1>3

\* A view stays one when the logs grow.
LEMMA ViewStays ==
  ASSUME NEW since \in AllReadings, NEW now \in AllReadings, NEW next \in AllReadings,
         \A p \in Paths : now[p] <= next[p],
         NEW t, NEW k, NEW v, IsView(t, k, v, since, now)
  PROVE  IsView(t, k, v, since, next)
<1>1. \A p \in Paths : since[p] <= since[p]
  BY EventsAssumption DEF AllReadings
<1>2. Between(since, now) \subseteq Between(since, next)
  BY <1>1, BetweenGrows
<1> QED
  BY <1>2 DEF IsView

LEMMA LeafIsView ==
  ASSUME NEW since \in AllReadings, NEW now \in AllReadings, \A q \in Paths : since[q] <= now[q],
         \A q \in Paths \ Leaves : now[q] = 0,
         NEW t \in Trees, NEW p \in Paths, InTree(t, p), IsLeaf(t, p)
  PROVE  IsView(t, p, LeafView(t, p, now[p]), since, now)
<1> DEFINE r == [q \in Paths |-> IF q = p THEN now[p] ELSE since[q]]
<1>2. r \in AllReadings
  BY DEF AllReadings
<1>3. ASSUME NEW q \in Paths PROVE r[q] \in IF q \in Leaves THEN since[q] .. now[q] ELSE {0}
  <2>1. since[q] \in Nat /\ now[q] \in Nat /\ since[q] <= now[q]
    BY EventsAssumption DEF AllReadings
  <2>2. r[q] = since[q] \/ r[q] = now[q]
    OBVIOUS
  <2>3. q \notin Leaves => now[q] = 0 /\ since[q] = 0
    BY <2>1
  <2> HIDE DEF r
  <2> QED
    BY <2>1, <2>2, <2>3
<1>4. r \in Between(since, now)
  BY <1>2, <1>3 DEF Between
<1>5. ASSUME NEW q \in AllReadings, \A x \in Under[p] : q[x] = r[x]
      PROVE  Json(LeafView(t, p, now[p])) = Eval(t, p, q)
  <2>1. q[p] = now[p]
    BY <1>5, UnderIs
  <2> QED
    BY <2>1, EvalIs
<1> HIDE DEF r
<1> QED
  BY <1>4, <1>5 DEF IsView

\* Of readings for the children, one for the parent: they are about different
\* logs.
LEMMA ReduceIsView ==
  ASSUME JsonSafe, NEW t \in Trees, NEW p \in Paths, ~ IsLeaf(t, p), NEW since, NEW now, NEW vs,
         KidsPlain(t, p) => \A i \in 1 .. Len(Kids[t][p]) : Json(vs[i]) = vs[i],
         \A i \in 1 .. Len(Kids[t][p]) : IsView(t, Kids[t][p][i], vs[i], since, now),
         NEW v, Json(v) = Json(Result(t, p, vs))
  PROVE  IsView(t, p, v, since, now)
<1> DEFINE ks == Kids[t][p]
           n == Len(ks)
           For(i, r) == \A q \in AllReadings :
                          (\A x \in Under[ks[i]] : q[x] = r[x]) => Json(vs[i]) = Eval(t, ks[i], q)
           R(i) == CHOOSE r \in Between(since, now) : For(i, r)
           Kid(x) == CHOOSE i \in 1 .. n : x \in Under[ks[i]]
           HasKid(x) == \E i \in 1 .. n : x \in Under[ks[i]]
           r == [x \in Paths |-> IF HasKid(x) THEN R(Kid(x))[x] ELSE R(1)[x]]
<1>1. n \in Nat /\ n >= 1 /\ 1 \in 1 .. n
  <2>1. ks \in Seq(Paths) /\ ks # << >>
    BY KidsArePaths DEF IsLeaf
  <2> QED
    BY <2>1
<1>2. ASSUME NEW i \in 1 .. n PROVE R(i) \in Between(since, now) /\ For(i, R(i))
  <2>1. \E s \in Between(since, now) : For(i, s)
    BY DEF IsView
  <2> HIDE DEF For
  <2> QED
    BY <2>1
<1>3. ASSUME NEW x \in Paths, HasKid(x) PROVE Kid(x) \in 1 .. n /\ x \in Under[ks[Kid(x)]]
  BY <1>3
<1> HIDE DEF R, Kid, For
<1>4. \A x \in Paths : r[x] = R(1)[x] \/ \E i \in 1 .. n : r[x] = R(i)[x]
  <2> HIDE DEF HasKid
  <2> QED
    BY <1>3
<1>5. \A x \in Paths : \E i \in 1 .. n : r[x] = R(i)[x]
  <2> HIDE DEF r
  <2> QED
    BY <1>1, <1>4
<1>6. ASSUME NEW i \in 1 .. n, NEW x \in Under[ks[i]] PROVE x \in Paths /\ r[x] = R(i)[x]
  <2>1. x \in Paths
    BY KidsArePaths, UnderIs
  <2>2. HasKid(x)
    BY <1>6
  <2>3. Kid(x) = i
    BY <1>3, <1>6, <2>1, <2>2, UnderKids
  <2> QED
    BY <2>1, <2>2, <2>3
<1> HIDE DEF r, HasKid
<1>7. r \in Between(since, now)
  <2>1. DOMAIN r = Paths /\ r = [x \in Paths |-> r[x]]
    BY DEF r
  <2>2. \A i \in 1 .. n : /\ R(i) \in [Paths -> 0 .. MaxEvents]
                          /\ \A x \in Paths : R(i)[x] \in IF x \in Leaves THEN since[x] .. now[x] ELSE {0}
    <3> HIDE DEF n
    <3> QED
      BY <1>2 DEF Between, AllReadings
  <2>3. \A x \in Paths : r[x] \in 0 .. MaxEvents /\ r[x] \in IF x \in Leaves THEN since[x] .. now[x] ELSE {0}
    <3> SUFFICES ASSUME NEW x \in Paths
                 PROVE  r[x] \in 0 .. MaxEvents /\ r[x] \in IF x \in Leaves THEN since[x] .. now[x] ELSE {0}
      OBVIOUS
    <3>1. PICK i \in 1 .. n : r[x] = R(i)[x]
      BY <1>5
    <3>2. R(i)[x] \in 0 .. MaxEvents /\ R(i)[x] \in IF x \in Leaves THEN since[x] .. now[x] ELSE {0}
      BY <2>2
    <3> QED
      BY <3>1, <3>2
  <2>4. r \in [Paths -> 0 .. MaxEvents]
    BY <2>1, <2>3
  <2> QED
    BY <2>3, <2>4 DEF Between, AllReadings
<1>8. ASSUME NEW q \in AllReadings, \A x \in Under[p] : q[x] = r[x]
      PROVE  Json(v) = Eval(t, p, q)
  <2> DEFINE ws == [i \in 1 .. Len(Kids[t][p]) |-> Eval(t, Kids[t][p][i], q)]
  <2>1. ASSUME NEW i \in 1 .. n PROVE Json(vs[i]) = Eval(t, ks[i], q)
    <3>1. \A x \in Under[ks[i]] : q[x] = R(i)[x]
      BY <1>6, <1>8, UnderKids
    <3> QED
      BY <1>2, <3>1 DEF For
  <2>2. Eval(t, p, q) = Json(Result(t, p, ws))
    BY EvalIs
  <2>3. \A i \in 1 .. Len(Kids[t][p]) : ws[i] = Json(vs[i])
    BY <2>1
  <2> HIDE DEF ws
  <2>4. Json(Result(t, p, vs)) = Json(Result(t, p, ws))
    BY <2>3, ResultOfJson
  <2> QED
    BY <2>2, <2>4
<1> QED
  BY <1>7, <1>8 DEF IsView

-----------------------------------------------------------------------------
(* A step of compute_view keeps the walk of each process good. *)

LEMMA ReadsTyped ==
  ASSUME RTypeOK
  PROVE  log \in AllReadings /\ \A pr \in Procs : start[pr] \in AllReadings
BY DEF RTypeOK, AllReadings

\* What other processes do does not disturb a call.
LEMMA CallStays ==
  ASSUME RTypeOK, RTypeOK', NEW pr \in Procs, CallGood(pr), \A p \in Paths : log[p] <= log'[p],
         tree'[pr] = tree[pr], base'[pr] = base[pr], at'[pr] = at[pr], views'[pr] = views[pr],
         answer'[pr] = answer[pr], start'[pr] = start[pr]
  PROVE  CallGood(pr)'
<1>1. log \in AllReadings /\ log' \in AllReadings /\ start[pr] \in AllReadings
  BY DEF RTypeOK, AllReadings
<1>2. \A t, k, v : IsView(t, k, v, start[pr], log) => IsView(t, k, v, start[pr], log')
  BY <1>1, ViewStays
<1>3. \A p \in Paths : start'[pr][p] <= log'[p]
  <2> SUFFICES ASSUME NEW p \in Paths PROVE start[pr][p] <= log'[p]
    OBVIOUS
  <2>1. start[pr][p] \in Nat /\ log[p] \in Nat /\ log'[p] \in Nat
    BY <1>1, EventsAssumption DEF AllReadings
  <2>2. start[pr][p] <= log[p] /\ log[p] <= log'[p]
    BY DEF CallGood
  <2> QED
    BY <2>1, <2>2
<1>4. WalkGood(pr) => WalkGood(pr)'
  BY <1>2 DEF WalkGood, OnStack
<1>5. answer'[pr] # None => IsView(tree'[pr], base'[pr], answer'[pr], start'[pr], log')
  BY <1>2 DEF CallGood
<1> QED
  BY <1>3, <1>4, <1>5 DEF CallGood

LEMMA BeginGood ==
  ASSUME RTypeOK, RTypeOK', NEW pr \in Procs, CallGood(pr), NEW t \in Trees, NEW p \in Paths,
         Begin(pr, t, p)
  PROVE  CallGood(pr)'
<1>1. /\ tree'[pr] = t /\ base'[pr] = p /\ at'[pr] = p /\ answer'[pr] = None
      /\ start'[pr] = log /\ log' = log /\ views'[pr] = NoViews /\ InTree(t, p)
  BY DEF Begin, RTypeOK, CallGood
<1>2. \A x \in Paths : views'[pr][x] = << >> /\ Len(views'[pr][x]) = 0
  BY <1>1 DEF NoViews
<1>3. \A x \in Paths : OnStack(pr, x)' => x = p
  BY <1>1, UnderDeeper DEF OnStack
<1>4. \A x \in Paths : 0 <= Len(Kids[t][x])
  BY KidsArePaths
<1>5. WalkGood(pr)'
  BY <1>1, <1>2, <1>3, <1>4, UnderIs DEF WalkGood
<1>6. \A x \in Paths : start'[pr][x] <= log'[x]
  BY <1>1, EventsAssumption DEF RTypeOK
<1> QED
  BY <1>1, <1>5, <1>6 DEF CallGood

\* The frame at hand and its kids.
LEMMA AtFrame ==
  ASSUME RTypeOK, NEW pr \in Procs, at[pr] # None, CallGood(pr)
  PROVE  /\ tree[pr] \in Trees /\ at[pr] \in Paths /\ base[pr] \in Paths /\ WalkGood(pr)
         /\ InTree(tree[pr], at[pr]) /\ at[pr] \in Under[base[pr]] /\ Len(views[pr][at[pr]]) \in Nat
<1>1. tree[pr] \in Trees /\ at[pr] \in Paths /\ base[pr] \in Paths /\ WalkGood(pr)
  BY DEF RTypeOK, CallGood
<1>2. IsSequence(views[pr][at[pr]])
  BY <1>1 DEF RTypeOK
<1> QED
  BY <1>1, <1>2, AppendIsSequence DEF WalkGood

LEMMA DescendGood ==
  ASSUME RTypeOK, RTypeOK', NEW pr \in Procs, CallGood(pr), Descend(pr)
  PROVE  CallGood(pr)'
<1> DEFINE m == at[pr]
           t == tree[pr]
           n == Len(views[pr][m]) + 1
           c == Kids[t][m][n]
<1>1. /\ tree'[pr] = t /\ base'[pr] = base[pr] /\ at'[pr] = c /\ answer'[pr] = answer[pr]
      /\ start'[pr] = start[pr] /\ log' = log /\ views'[pr] = views[pr] /\ m # None
      /\ n - 1 < Len(Kids[t][m])
  BY DEF Descend, RTypeOK, Visited, KidsOf
<1>2. /\ t \in Trees /\ m \in Paths /\ base[pr] \in Paths /\ WalkGood(pr)
      /\ InTree(t, m) /\ m \in Under[base[pr]] /\ n - 1 \in Nat
  BY <1>1, AtFrame
<1> HIDE DEF m, t
<1>3. n \in 1 .. Len(Kids[t][m])
  BY <1>1, <1>2, KidsArePaths
<1> HIDE DEF n
<1>4. c \in Paths /\ Parent[c] = m /\ c # m /\ InTree(t, c) /\ c # None
  BY <1>2, <1>3, KidsArePaths, NoneAssumption
<1>5. c \in Under[m]
  BY <1>2, <1>3, UnderKids
<1>6. c \in Under[base[pr]]
  BY <1>2, <1>5, UnderUnder
<1> HIDE DEF c
<1>7. \A x \in Paths : m \in Under[x] => c \in Under[x]
  BY <1>4, UnderIs
<1>8. \A x \in Paths : c \in Under[x] /\ x # c => m \in Under[x]
  BY <1>4, UnderParent
<1>9. WalkGood(pr)'
  <2>1. \A x \in Paths : OnStack(pr, x) => OnStack(pr, x)'
    BY <1>1, <1>7 DEF OnStack, m
  <2>2. \A x \in Paths : OnStack(pr, x)' => OnStack(pr, x) \/ x = c
    BY <1>1, <1>8 DEF OnStack, m
  <2>3. Len(views[pr][Parent[c]]) < Len(Kids[t][Parent[c]]) /\ Kids[t][Parent[c]][Len(views[pr][Parent[c]]) + 1] = c
    BY <1>1, <1>2, <1>4 DEF n, c
  <2> QED
    BY <1>1, <1>2, <1>4, <1>6, <2>1, <2>2, <2>3 DEF WalkGood, t
<1> QED
  BY <1>1, <1>2, <1>4, <1>9 DEF CallGood, t

\* The views of a frame, when it returns one to the frame above it.
LEMMA ReturnUp ==
  ASSUME RTypeOK, RTypeOK', NEW pr \in Procs, at[pr] # None, at[pr] # base[pr], CallGood(pr), NEW v,
         IsView(tree[pr], at[pr], v, start[pr], log), Return(pr, v)
  PROVE  CallGood(pr)'
<1> DEFINE c == at[pr]
           m == Parent[c]
           t == tree[pr]
           n == Len(views[pr][m])
<1>1. /\ t \in Trees /\ c \in Paths /\ base[pr] \in Paths /\ WalkGood(pr)
      /\ InTree(t, c) /\ c \in Under[base[pr]]
  BY AtFrame
<1>2. m \in Paths /\ m \in Under[base[pr]] /\ m # c /\ m # None
  BY <1>1, UnderParent, NoneAssumption
<1>3. OnStack(pr, c)
  BY <1>1, UnderIs DEF OnStack
<1>4. n < Len(Kids[t][m]) /\ Kids[t][m][n + 1] = c
  BY <1>1, <1>3 DEF WalkGood
<1>5. IsSequence(views[pr][m]) /\ n \in Nat
  BY <1>2, AppendIsSequence DEF RTypeOK
<1>6. /\ tree'[pr] = t /\ base'[pr] = base[pr] /\ at'[pr] = m /\ answer'[pr] = answer[pr]
      /\ start'[pr] = start[pr] /\ log' = log
      /\ views'[pr][c] = << >> /\ views'[pr][m] = Append(views[pr][m], v)
      /\ \A x \in Paths : x # c /\ x # m => views'[pr][x] = views[pr][x]
  BY <1>1, <1>2 DEF Return, RTypeOK
<1> DEFINE Up == views'[pr]
<1>7. Up[c] = << >> /\ Len(Up[c]) = 0 /\ Len(Up[m]) = n + 1 /\ Up[m][n + 1] = v /\ \A i \in 1 .. n : Up[m][i] = views[pr][m][i]
  <2> DEFINE T == {views[pr][m][i] : i \in DOMAIN views[pr][m]} \union {v}
  <2>1. views[pr][m] \in Seq(T)
    BY <1>5 DEF IsSequence
  <2>2. v \in T
    OBVIOUS
  <2> HIDE DEF T
  <2> QED
    BY <1>5, <1>6, <2>1, <2>2
<1>8. InTree(t, m)
  BY <1>1, <1>2, <1>4, <1>5, ShapeAssumption
<1> HIDE DEF c, m, t, Up
<1>9. \A x \in Paths : OnStack(pr, x) /\ x # c => OnStack(pr, x)'
  BY <1>1, <1>6, UnderParent DEF OnStack, c, m
<1>10. ASSUME NEW x \in Paths, OnStack(pr, x)'
       PROVE  OnStack(pr, x) /\ x # c /\ (x # base[pr] => Parent[x] # c /\ Parent[x] # m /\ Parent[x] \in Paths)
  <2>1. m \in Under[x] /\ x \in Under[base[pr]]
    BY <1>6, <1>10 DEF OnStack
  <2>2. c \in Under[x]
    BY <1>1, <1>2, <2>1, UnderIs DEF m
  <2>3. /\ Depth[c] = 1 + Depth[m] /\ Depth[m] >= Depth[x]
        /\ Depth[c] \in Nat /\ Depth[m] \in Nat /\ Depth[x] \in Nat
    BY <1>1, <1>2, <2>1, DepthAssumption, UnderDeeper DEF m
  <2>4. ASSUME x # base[pr] PROVE Parent[x] \in Paths /\ Depth[x] = 1 + Depth[Parent[x]] /\ Depth[Parent[x]] \in Nat
    BY <1>1, <2>1, <2>4, UnderParent, DepthAssumption
  <2> QED
    BY <2>1, <2>2, <2>3, <2>4 DEF OnStack, c
<1>11. ASSUME NEW x \in Paths
       PROVE  /\ Up[x] # << >> => OnStack(pr, x)'
              /\ OnStack(pr, x)' /\ x # base[pr] =>
                   /\ Len(Up[Parent[x]]) < Len(Kids[t][Parent[x]])
                   /\ Kids[t][Parent[x]][Len(Up[Parent[x]]) + 1] = x
              /\ Len(Up[x]) <= Len(Kids[t][x])
              /\ \A i \in 1 .. Len(Up[x]) : IsView(t, Kids[t][x][i], Up[x][i], start[pr], log)
  <2>1. Up[x] # << >> => OnStack(pr, x)'
    <3>1. CASE x = c
      BY <1>7, <3>1
    <3>2. CASE x = m
      BY <1>2, <1>6, <3>2, UnderIs DEF OnStack
    <3>3. CASE x # c /\ x # m
      <4>1. Up[x] = views[pr][x]
        BY <1>6, <3>3 DEF Up
      <4> QED
        BY <1>1, <1>9, <3>3, <4>1 DEF WalkGood
    <3> QED
      BY <3>1, <3>2, <3>3
  <2>2. ASSUME OnStack(pr, x)', x # base[pr]
        PROVE  /\ Len(Up[Parent[x]]) < Len(Kids[t][Parent[x]])
               /\ Kids[t][Parent[x]][Len(Up[Parent[x]]) + 1] = x
    <3>1. Up[Parent[x]] = views[pr][Parent[x]]
      BY <1>6, <1>10, <2>2 DEF Up
    <3>2. OnStack(pr, x)
      BY <1>10, <2>2
    <3> QED
      BY <1>1, <2>2, <3>1, <3>2 DEF WalkGood, t
  <2>3. Len(Up[x]) <= Len(Kids[t][x])
    <3>1. CASE x = c
      BY <1>1, <1>7, <3>1, KidsArePaths
    <3>2. CASE x = m
      BY <1>1, <1>2, <1>4, <1>5, <1>7, <3>2, KidsArePaths
    <3>3. CASE x # c /\ x # m
      BY <1>1, <1>6, <3>3 DEF WalkGood, t, Up
    <3> QED
      BY <3>1, <3>2, <3>3
  <2>4. ASSUME NEW i \in 1 .. Len(Up[x]) PROVE IsView(t, Kids[t][x][i], Up[x][i], start[pr], log)
    <3>1. CASE x = c
      BY <1>7, <2>4, <3>1
    <3>2. CASE x = m
      <4>1. i = n + 1 \/ i \in 1 .. n
        BY <1>5, <1>7, <2>4, <3>2
      <4>2. CASE i = n + 1
        BY <1>4, <1>7, <3>2, <4>2 DEF t, c
      <4>3. CASE i \in 1 .. n
        <5>1. IsView(t, Kids[t][m][i], views[pr][m][i], start[pr], log)
          BY <1>1, <1>2, <4>3 DEF WalkGood, t
        <5> QED
          BY <1>7, <3>2, <4>3, <5>1
      <4> QED
        BY <4>1, <4>2, <4>3
    <3>3. CASE x # c /\ x # m
      BY <1>1, <1>6, <2>4, <3>3 DEF WalkGood, t, Up
    <3> QED
      BY <3>1, <3>2, <3>3
  <2> QED
    BY <2>1, <2>2, <2>3, <2>4
<1>12. WalkGood(pr)'
  BY <1>2, <1>6, <1>8, <1>11 DEF WalkGood, Up
<1> QED
  BY <1>1, <1>2, <1>6, <1>12 DEF CallGood, t

\* The call returns: no frame is left, so no views are.
LEMMA ReturnHome ==
  ASSUME RTypeOK, RTypeOK', NEW pr \in Procs, at[pr] # None, at[pr] = base[pr], CallGood(pr), NEW v,
         IsView(tree[pr], at[pr], v, start[pr], log), Return(pr, v)
  PROVE  CallGood(pr)'
<1>1. /\ tree[pr] \in Trees /\ at[pr] \in Paths /\ base[pr] \in Paths /\ WalkGood(pr)
  BY AtFrame
<1>2. /\ tree'[pr] = tree[pr] /\ base'[pr] = base[pr] /\ at'[pr] = None /\ answer'[pr] = v
      /\ start'[pr] = start[pr] /\ log' = log /\ views'[pr] = [views[pr] EXCEPT ![at[pr]] = << >>]
  BY <1>1 DEF Return, RTypeOK
<1>3. \A x \in Paths : x # at[pr] => views[pr][x] = << >>
  BY <1>1, UnderDeeper DEF WalkGood, OnStack
<1>4. views'[pr] = NoViews
  BY <1>1, <1>2, <1>3 DEF NoViews, RTypeOK
<1> QED
  BY <1>2, <1>4 DEF CallGood

LEMMA ReturnGood ==
  ASSUME RTypeOK, RTypeOK', NEW pr \in Procs, at[pr] # None, CallGood(pr), NEW v,
         IsView(tree[pr], at[pr], v, start[pr], log), Return(pr, v)
  PROVE  CallGood(pr)'
BY ReturnUp, ReturnHome

LEMMA ReadLeafGood ==
  ASSUME RTypeOK, RTypeOK', FreshInv, NEW pr \in Procs, ReadLeaf(pr)
  PROVE  CallGood(pr)'
<1>1. CallGood(pr) /\ \A q \in Paths \ Leaves : log[q] = 0
  BY DEF FreshInv
<1>2. /\ at[pr] # None /\ IsLeaf(tree[pr], at[pr])
      /\ Return(pr, LeafView(tree[pr], at[pr], log[at[pr]]))
  BY DEF ReadLeaf
<1>3. \A q \in Paths : start[pr][q] <= log[q]
  BY <1>1 DEF CallGood
<1>4. IsView(tree[pr], at[pr], LeafView(tree[pr], at[pr], log[at[pr]]), start[pr], log)
  BY <1>1, <1>2, <1>3, AtFrame, ReadsTyped, LeafIsView
<1> QED
  BY <1>1, <1>2, <1>4, ReturnGood

\* What a hit and a miss return is, as JSON, the node's view.
LEMMA ReduceGood ==
  ASSUME JsonSafe, RollupInv, RTypeOK', FreshInv, NEW pr \in Procs, AllVisited(pr), NEW v,
         Json(v) = Json(Result(tree[pr], at[pr], views[pr][at[pr]])), Return(pr, v)
  PROVE  CallGood(pr)'
<1>1. RTypeOK /\ CallGood(pr)
  BY DEF FreshInv, RollupInv
<1>2. /\ at[pr] # None /\ ~ IsLeaf(tree[pr], at[pr])
      /\ Len(views[pr][at[pr]]) = Len(Kids[tree[pr]][at[pr]])
  BY DEF AllVisited, Visited, KidsOf
<1>3. at[pr] \in Paths /\ tree[pr] \in Trees /\ WalkGood(pr)
  BY <1>1, <1>2, AtFrame
<1>4. \A i \in 1 .. Len(Kids[tree[pr]][at[pr]]) :
        IsView(tree[pr], Kids[tree[pr]][at[pr]][i], views[pr][at[pr]][i], start[pr], log)
  BY <1>2, <1>3 DEF WalkGood
<1>5. KidsPlain(tree[pr], at[pr]) => \A i \in 1 .. Len(Kids[tree[pr]][at[pr]]) :
        Json(views[pr][at[pr]][i]) = views[pr][at[pr]][i]
  BY <1>2, VisitedResult
<1>6. IsView(tree[pr], at[pr], v, start[pr], log)
  BY <1>2, <1>3, <1>4, <1>5, ReduceIsView
<1> QED
  BY <1>1, <1>2, <1>6, ReturnGood

LEMMA AbortGood ==
  ASSUME RTypeOK, RTypeOK', NEW pr \in Procs, CallGood(pr), Abort(pr)
  PROVE  CallGood(pr)'
BY DEF Abort, CallGood, RTypeOK

LEMMA FreshStep ==
  ASSUME KeysFaithful, JsonSafe, RollupInv, FreshInv, [RNext]_rollupVars
  PROVE  FreshInv'
<1>t. RTypeOK /\ RTypeOK' /\ MatchMeansFresh
  BY NextType, ProvenanceMeansFresh DEF RollupInv
<1> DEFINE Kept(q) == /\ tree'[q] = tree[q] /\ base'[q] = base[q] /\ at'[q] = at[q]
                      /\ views'[q] = views[q] /\ answer'[q] = answer[q] /\ start'[q] = start[q]
<1>1. \A p \in Paths : log[p] \in Nat
  BY <1>t, EventsAssumption DEF RTypeOK
<1>2. ASSUME \A q \in Procs : Kept(q), \A p \in Paths : log[p] <= log'[p], \A p \in Paths \ Leaves : log'[p] = log[p]
      PROVE  FreshInv'
  BY <1>t, <1>2, CallStays DEF FreshInv
<1>3. ASSUME NEW pr \in Procs, CallGood(pr)', \A q \in Procs \ {pr} : Kept(q), log' = log
      PROVE  FreshInv'
  <2>1. \A p \in Paths : log[p] <= log'[p]
    BY <1>1, <1>3
  <2>2. ASSUME NEW q \in Procs, q # pr PROVE CallGood(q)'
    BY <1>t, <1>3, <2>1, <2>2, CallStays DEF FreshInv
  <2> QED
    BY <1>3, <2>2 DEF FreshInv
<1>4. ASSUME NEW p \in Leaves, AppendEvent(p) PROVE FreshInv'
  <2>1. p \in Paths
    BY DEF Leaves
  <2>2. \A q \in Paths : log'[q] = IF q = p THEN log[q] + 1 ELSE log[q]
    BY <1>t, <1>4, <2>1 DEF AppendEvent, RTypeOK
  <2>3. \A q \in Paths : log[q] <= log'[q]
    BY <1>1, <2>2
  <2>4. \A q \in Procs : Kept(q)
    BY <1>4 DEF AppendEvent
  <2> QED
    BY <1>2, <2>2, <2>3, <2>4
<1>5. ASSUME NEW pr \in Procs, NEW t \in Trees, NEW p \in Paths, Begin(pr, t, p) PROVE FreshInv'
  <2>1. CallGood(pr)'
    BY <1>t, <1>5, BeginGood DEF FreshInv
  <2>2. log' = log /\ \A q \in Procs \ {pr} : Kept(q)
    BY <1>t, <1>5 DEF Begin, RTypeOK
  <2> QED
    BY <1>3, <2>1, <2>2
<1>6. ASSUME NEW pr \in Procs, Descend(pr) PROVE FreshInv'
  <2>1. CallGood(pr)'
    BY <1>t, <1>6, DescendGood DEF FreshInv
  <2>2. log' = log /\ \A q \in Procs \ {pr} : Kept(q)
    BY <1>t, <1>6 DEF Descend, RTypeOK
  <2> QED
    BY <1>3, <2>1, <2>2
<1>7. ASSUME NEW pr \in Procs, NEW v, Return(pr, v) PROVE log' = log /\ \A q \in Procs \ {pr} : Kept(q)
  BY <1>t, <1>7 DEF Return, RTypeOK
<1>8. ASSUME NEW pr \in Procs, ReadLeaf(pr) PROVE FreshInv'
  <2>1. CallGood(pr)'
    BY <1>t, <1>8, ReadLeafGood
  <2> QED
    BY <1>3, <1>7, <1>8, <2>1 DEF ReadLeaf
<1>9. ASSUME NEW pr \in Procs, AllVisited(pr), NEW v, Return(pr, v),
             Json(v) = Json(Result(tree[pr], at[pr], views[pr][at[pr]]))
      PROVE  FreshInv'
  <2>1. CallGood(pr)'
    BY <1>t, <1>9, ReduceGood
  <2> QED
    BY <1>3, <1>7, <1>9, <2>1
<1>10. ASSUME NEW pr \in Procs, Hit(pr) PROVE FreshInv'
  <2>1. /\ AllVisited(pr) /\ Return(pr, cache[at[pr]].view)
        /\ cache[at[pr]].view = Json(Result(tree[pr], at[pr], views[pr][at[pr]]))
    BY <1>t, <1>10 DEF MatchMeansFresh, Hit
  <2> QED
    BY <1>9, <2>1, JsonOfJson
<1>11. ASSUME NEW pr \in Procs, WriteCache(pr) PROVE FreshInv'
  <2>1. /\ AllVisited(pr) /\ Return(pr, pending[pr].view)
        /\ pending[pr].view = Result(tree[pr], at[pr], views[pr][at[pr]])
    BY <1>11, PendingFromTree DEF WriteCache
  <2> QED
    BY <1>9, <2>1
<1>12. ASSUME NEW pr \in Procs, Abort(pr) PROVE FreshInv'
  <2>1. CallGood(pr)'
    BY <1>t, <1>12, AbortGood DEF FreshInv
  <2>2. log' = log /\ \A q \in Procs \ {pr} : Kept(q)
    BY <1>t, <1>12 DEF Abort, RTypeOK
  <2> QED
    BY <1>3, <2>1, <2>2
<1>13. CASE UNCHANGED vars
  BY <1>1, <1>2, <1>13 DEF vars
<1>14. ASSUME NEW pr \in Procs, Miss(pr) \/ Truncate(pr) PROVE UNCHANGED vars
  BY <1>14 DEF Miss, Truncate
<1> QED
  BY <1>4, <1>5, <1>6, <1>8, <1>10, <1>11, <1>12, <1>13, <1>14
  DEF RNext, Step, RAppendEvent, RBegin, RDescend, RReadLeaf, RAbort, rollupVars, vars

-----------------------------------------------------------------------------
(* Steps of a search. *)

\* What the other operators of Rollup leave alone.
LEMMA LogsGrow == RTypeOK /\ [ANext]_agentVars => \A p \in Paths : log[p] <= log'[p]
<1> SUFFICES ASSUME RTypeOK, [ANext]_agentVars, NEW p \in Paths PROVE log[p] <= log'[p]
  OBVIOUS
<1>1. log[p] \in Nat
  BY EventsAssumption DEF RTypeOK
<1>2. ASSUME NEW q \in Leaves, RAppendEvent(q) PROVE log[p] <= log'[p]
  <2>1. log'[p] = log[p] \/ log'[p] = log[p] + 1
    BY <1>2 DEF RAppendEvent, AppendEvent, RTypeOK
  <2> QED
    BY <1>1, <2>1
<1>3. ASSUME log' = log PROVE log[p] <= log'[p]
  BY <1>1, <1>3
<1>4. CASE \E pr \in Procs : \E v : Return(pr, v)
  BY <1>3, <1>4 DEF Return
<1> QED
  BY <1>2, <1>3, <1>4
  DEF ANext, agentVars, GetState, FindState, Skip, View, Judge, FindReturns, Step, Fails, Dies,
      RBegin, Begin, RDescend, Descend, RReadLeaf, ReadLeaf, Hit, Miss, Truncate, WriteCache,
      RAbort, Abort,
      rollupVars, vars

\* The search sees less and less of what it might have missed.
LEMMA SearchStays ==
  ASSUME NEW t, NEW s \in SearchRecord, NEW now \in AllReadings, NEW next \in AllReadings,
         \A p \in Paths : now[p] <= next[p], SearchGood(t, s, now)
  PROVE  SearchGood(t, s, next)
<1>1. s.since \in AllReadings
  BY DEF SearchRecord
<1>2. \A p \in Paths : s.since[p] <= s.since[p]
  BY <1>1, EventsAssumption DEF AllReadings
<1>3. Between(s.since, now) \subseteq Between(s.since, next)
  BY <1>1, <1>2, BetweenGrows
<1>4. MissedIn(t, s, next) \subseteq MissedIn(t, s, now)
  BY <1>3 DEF MissedIn
<1>5. FoundTrue(t, s, next)
  BY <1>3 DEF FoundTrue, SearchGood
<1>6. Covered(t, s, now) => Covered(t, s, next)
  BY <1>4 DEF Covered
<1>7. CutOff(t, s, now) => CutOff(t, s, next)
  BY <1>4 DEF CutOff
<1> QED
  BY <1>5, <1>6, <1>7 DEF SearchGood

\* What is in the queue after a node was taken off and its children were put on.
LEMMA EnqueuedIs ==
  ASSUME NEW t \in Trees, NEW queue \in Seq(Paths), queue # << >>,
         NEW new, new = Tail(queue) \o Kids[t][Head(queue)]
  PROVE  /\ queue[1] = Head(queue) /\ queue[1] \in Paths /\ Len(queue) \in Nat \ {0}
         /\ new \in Seq(Paths) /\ Len(new) \in Nat
         /\ Len(new) = Len(queue) - 1 + Len(Kids[t][queue[1]])
         /\ \A i \in 1 .. Len(queue) - 1 : new[i] = queue[i + 1]
         /\ \A i \in 1 .. Len(Kids[t][queue[1]]) : new[Len(queue) - 1 + i] = Kids[t][queue[1]][i]
<1>1. queue[1] = Head(queue) /\ queue[1] \in Paths /\ Len(queue) \in Nat \ {0}
  OBVIOUS
<1>2. Kids[t][queue[1]] \in Seq(Paths) /\ Len(Kids[t][queue[1]]) \in Nat
  BY <1>1, KidsArePaths
<1> DEFINE tail == Tail(queue)
           kids == Kids[t][queue[1]]
<1>3. tail \in Seq(Paths) /\ Len(tail) = Len(queue) - 1 /\ \A i \in 1 .. Len(queue) - 1 : tail[i] = queue[i + 1]
  BY <1>1
<1>4. new = tail \o kids
  BY <1>1
<1> HIDE DEF tail, kids
<1>5. new \in Seq(Paths) /\ Len(new) = Len(tail) + Len(kids)
  BY <1>2, <1>3, <1>4 DEF kids
<1>6. \A i \in 1 .. Len(tail) + Len(kids) : new[i] = IF i <= Len(tail) THEN tail[i] ELSE kids[i - Len(tail)]
  BY <1>2, <1>3, <1>4, ConcatProperties DEF kids
<1>7. ASSUME NEW i \in 1 .. Len(queue) - 1 PROVE new[i] = queue[i + 1]
  BY <1>1, <1>2, <1>3, <1>6, <1>7 DEF kids
<1>8. ASSUME NEW i \in 1 .. Len(kids) PROVE new[Len(queue) - 1 + i] = kids[i]
  <2>1. Len(tail) + i \in 1 .. Len(tail) + Len(kids) /\ ~ (Len(tail) + i <= Len(tail)) /\ Len(tail) + i - Len(tail) = i
    BY <1>1, <1>2, <1>3, <1>8 DEF kids
  <2>4. \A x \in 1 .. Len(tail) + Len(kids) : ~ (x <= Len(tail)) => new[x] = kids[x - Len(tail)]
    BY <1>6
  <2>5. PICK x \in 1 .. Len(tail) + Len(kids) : x = Len(tail) + i /\ ~ (x <= Len(tail)) /\ x - Len(tail) = i
    BY <2>1
  <2>2. new[Len(tail) + i] = kids[i]
    BY <2>4, <2>5
  <2>3. Len(queue) - 1 + i = Len(tail) + i
    BY <1>3
  <2> QED
    BY <2>2, <2>3
<1> QED
  BY <1>1, <1>2, <1>3, <1>5, <1>7, <1>8 DEF kids

\* A node of the new queue was in the old one behind the first, or is a child
\* of the first.
LEMMA EnqueuedFrom ==
  ASSUME NEW t \in Trees, NEW queue \in Seq(Paths), queue # << >>,
         NEW new, new = Tail(queue) \o Kids[t][Head(queue)], NEW i \in 1 .. Len(new)
  PROVE  \/ i \in 1 .. Len(queue) - 1 /\ i + 1 \in 1 .. Len(queue) /\ new[i] = queue[i + 1]
         \/ /\ i - (Len(queue) - 1) \in 1 .. Len(Kids[t][queue[1]])
            /\ new[i] = Kids[t][queue[1]][i - (Len(queue) - 1)]
<1> DEFINE n == Len(queue)
           k == Len(Kids[t][queue[1]])
<1>1. n \in Nat \ {0} /\ Len(new) = n - 1 + k /\ queue[1] \in Paths
  BY EnqueuedIs
<1>2. k \in Nat
  BY <1>1, KidsArePaths
<1>3. \A j \in 1 .. n - 1 : new[j] = queue[j + 1]
  BY EnqueuedIs
<1>4. \A j \in 1 .. k : new[n - 1 + j] = Kids[t][queue[1]][j]
  BY EnqueuedIs
<1> HIDE DEF n, k
<1>5. i \in 1 .. n - 1 \/ i - (n - 1) \in 1 .. k
  BY <1>1, <1>2
<1>6. i \in 1 .. n - 1 => i + 1 \in 1 .. n
  BY <1>1
<1>7. n - 1 + (i - (n - 1)) = i
  BY <1>1
<1> QED
  BY <1>3, <1>4, <1>5, <1>6, <1>7 DEF n, k

\* The new queue is in order and its nodes apart, each below an old one; what
\* was below an old one, but for the node taken off, is below a new one.
Follows(t, new, queue) ==
  /\ QueueGood(t, new)
  /\ \A i \in 1 .. Len(new) :
       /\ new[i] \in Paths /\ Depth[queue[1]] <= Depth[new[i]]
       /\ queue[1] \notin Under[new[i]]
       /\ \E j \in 1 .. Len(queue) : Under[new[i]] \subseteq Under[queue[j]]
  /\ \A j \in 1 .. Len(queue) : \A p \in Under[queue[j]] : InTree(t, p) /\ p # queue[1] =>
       \E i \in 1 .. Len(new) : p \in Under[new[i]]

LEMMA EnqueueGood ==
  ASSUME NEW t \in Trees, NEW queue \in Seq(Paths), queue # << >>, QueueGood(t, queue),
         NEW new, new = Tail(queue) \o Kids[t][Head(queue)]
  PROVE  Follows(t, new, queue)
<1> DEFINE h == queue[1]
           n == Len(queue)
           d == Depth[h]
           Old(i) == i \in 1 .. n - 1 /\ i + 1 \in 1 .. n /\ new[i] = queue[i + 1]
           Kid(i) == i - (n - 1) \in 1 .. Len(Kids[t][h]) /\ new[i] = Kids[t][h][i - (n - 1)]
<1>1. /\ h \in Paths /\ n \in Nat \ {0} /\ 1 \in 1 .. n /\ new \in Seq(Paths) /\ Len(new) \in Nat
      /\ Len(new) = n - 1 + Len(Kids[t][h]) /\ Len(Kids[t][h]) \in Nat
  BY EnqueuedIs, KidsArePaths
<1>2. \A i \in 1 .. Len(new) : Old(i) \/ Kid(i)
  BY EnqueuedFrom
<1>3. /\ \A i \in 1 .. n : queue[i] \in Paths /\ Depth[queue[i]] \in Nat
      /\ \A i \in 1 .. Len(new) : new[i] \in Paths /\ Depth[new[i]] \in Nat
      /\ d \in Nat
  <2>1. \A p \in Paths : Depth[p] \in Nat
    BY DepthAssumption
  <2>2. \A i \in 1 .. Len(new) : new[i] \in Paths
    BY <1>1
  <2>3. \A i \in 1 .. n : queue[i] \in Paths
    OBVIOUS
  <2> QED
    BY <1>1, <2>1, <2>2, <2>3
<1>4. \A i \in 1 .. n : Depth[queue[i]] <= d + 1 /\ InTree(t, queue[i])
  BY DEF QueueGood
<1>5. \A i, j \in 1 .. n : i < j => Depth[queue[i]] <= Depth[queue[j]] /\ Under[queue[i]] \cap Under[queue[j]] = {}
  BY DEF QueueGood
<1>6. ASSUME NEW i \in 1 .. Len(new), Old(i)
      PROVE  /\ d <= Depth[new[i]] /\ Depth[new[i]] <= d + 1 /\ InTree(t, new[i])
             /\ Under[h] \cap Under[new[i]] = {}
  <2>1. i + 1 \in 1 .. n /\ 1 < i + 1
    BY <1>1, <1>6
  <2> QED
    BY <1>1, <1>4, <1>5, <1>6, <2>1
<1>7. ASSUME NEW i \in 1 .. Len(new), Kid(i)
      PROVE  Depth[new[i]] = d + 1 /\ InTree(t, new[i]) /\ Under[new[i]] \subseteq Under[h] \ {h}
  <2>1. PICK k \in 1 .. Len(Kids[t][h]) : new[i] = Kids[t][h][k]
    BY <1>7
  <2> HIDE DEF h, n
  <2>2. Depth[Kids[t][h][k]] = d + 1 /\ InTree(t, Kids[t][h][k])
    BY <1>1, KidsArePaths DEF d
  <2>3. Under[Kids[t][h][k]] \subseteq Under[h] \ {h}
    BY <1>1, UnderKids
  <2> QED
    BY <2>1, <2>2, <2>3
<1>8. ASSUME NEW i \in 1 .. Len(new), NEW j \in 1 .. Len(new), i < j
      PROVE  Depth[new[i]] <= Depth[new[j]] /\ Under[new[i]] \cap Under[new[j]] = {}
  <2>1. CASE Old(i) /\ Old(j)
    <3>1. i + 1 \in 1 .. n /\ j + 1 \in 1 .. n /\ i + 1 < j + 1
      BY <1>1, <1>8, <2>1
    <3> QED
      BY <1>5, <2>1, <3>1
  <2>2. CASE Old(i) /\ Kid(j)
    <3>1. Depth[new[i]] <= d + 1 /\ Depth[new[j]] = d + 1 /\ Under[h] \cap Under[new[i]] = {} /\ Under[new[j]] \subseteq Under[h] \ {h}
      BY <1>6, <1>7, <2>2
    <3> QED
      BY <3>1
  <2>3. CASE Kid(i) /\ Old(j)
    BY <1>1, <1>8, <2>3
  <2>4. CASE Kid(i) /\ Kid(j)
    <3>1. Depth[new[i]] = d + 1 /\ Depth[new[j]] = d + 1
      BY <1>7, <2>4
    <3>2. \E a, b \in 1 .. Len(Kids[t][h]) : a # b /\ new[i] = Kids[t][h][a] /\ new[j] = Kids[t][h][b]
      <4>1. i - (n - 1) # j - (n - 1)
        BY <1>1, <1>8
      <4> QED
        BY <2>4, <4>1
    <3>3. Under[new[i]] \cap Under[new[j]] = {}
      <4> HIDE DEF h, n
      <4>1. PICK a \in 1 .. Len(Kids[t][h]), b \in 1 .. Len(Kids[t][h]) :
              a # b /\ new[i] = Kids[t][h][a] /\ new[j] = Kids[t][h][b]
        BY <3>2
      <4>2. Under[Kids[t][h][a]] \cap Under[Kids[t][h][b]] = {}
        BY <1>1, <4>1, UnderKids
      <4> QED
        BY <4>1, <4>2
    <3>4. d + 1 <= d + 1
      BY <1>3
    <3> HIDE DEF d
    <3> QED
      BY <3>1, <3>3, <3>4
  <2> QED
    BY <1>2, <2>1, <2>2, <2>3, <2>4
<1>9. ASSUME NEW i \in 1 .. Len(new) PROVE d <= Depth[new[i]] /\ Depth[new[i]] <= d + 1 /\ InTree(t, new[i])
  <2>1. CASE Old(i)
    BY <1>6, <2>1
  <2>2. CASE Kid(i)
    <3>1. Depth[new[i]] = d + 1 /\ InTree(t, new[i])
      BY <1>7, <2>2
    <3>2. d \in Nat
      BY <1>3
    <3> HIDE DEF d
    <3> QED
      BY <3>1, <3>2
  <2> HIDE DEF d, Old, Kid
  <2> QED
    BY <1>2, <2>1, <2>2
<1>10. QueueGood(t, new)
  <2>1. ASSUME NEW i \in 1 .. Len(new) PROVE Depth[new[i]] <= Depth[new[1]] + 1
    <3>1. 1 \in 1 .. Len(new)
      BY <1>1
    <3>2. d <= Depth[new[1]] /\ Depth[new[i]] <= d + 1 /\ Depth[new[1]] \in Nat /\ Depth[new[i]] \in Nat
      BY <1>3, <1>9, <3>1
    <3>3. d \in Nat
      BY <1>3
    <3>4. \A a, b, c \in Nat : a <= b /\ c <= a + 1 => c <= b + 1
      OBVIOUS
    <3> HIDE DEF d
    <3> QED
      BY <3>2, <3>3, <3>4
  <2> QED
    BY <1>8, <1>9, <2>1 DEF QueueGood
<1>11. ASSUME NEW i \in 1 .. Len(new)
       PROVE  h \notin Under[new[i]] /\ \E j \in 1 .. n : Under[new[i]] \subseteq Under[queue[j]]
  <2>1. CASE Old(i)
    BY <1>1, <1>6, <2>1, UnderIs
  <2>2. CASE Kid(i)
    BY <1>1, <1>7, <2>2
  <2> QED
    BY <1>2, <2>1, <2>2
<1>12. ASSUME NEW j \in 1 .. n, NEW p \in Under[queue[j]], InTree(t, p), p # h
       PROVE  \E i \in 1 .. Len(new) : p \in Under[new[i]]
  <2>1. CASE j = 1
    <3>1. PICK k \in 1 .. Len(Kids[t][h]) : p \in Under[Kids[t][h][k]]
      <4> HIDE DEF n, h
      <4>1. p \in Under[h]
        BY <2>1 DEF h
      <4> QED
        BY <1>1, <1>12, <4>1, UnderKids
    <3>2. n - 1 + k \in 1 .. Len(new)
      BY <1>1
    <3>3. new[n - 1 + k] = Kids[t][h][k]
      BY EnqueuedIs
    <3> QED
      BY <3>1, <3>2, <3>3
  <2>2. CASE j # 1
    <3>1. j - 1 \in 1 .. n - 1 /\ j - 1 \in 1 .. Len(new) /\ j - 1 + 1 = j
      BY <1>1, <2>2
    <3>2. new[j - 1] = queue[j]
      BY <3>1, EnqueuedIs
    <3> QED
      BY <1>12, <3>1, <3>2
  <2> QED
    BY <2>1, <2>2
<1> QED
  BY <1>3, <1>9, <1>10, <1>11, <1>12 DEF Follows

\* The search goes on to the next node: what was missed is still to come,
\* unless the node at hand was.
LEMMA AdvanceGood ==
  ASSUME NEW t \in Trees, NEW s \in SearchRecord, NEW now \in AllReadings, SearchGood(t, s, now),
         s.pc \in {"next", "view"}, s.queue # << >>,
         NEW u \in SearchRecord, u.pc = "next", u.queue = Tail(s.queue) \o Kids[t][Head(s.queue)],
         u.scope = s.scope, u.since = s.since, s.lost \subseteq u.lost,
         s.queue[1] \notin MissedIn(t, u, now),
         \/ u.found = s.found
         \/ /\ u.found = Append(s.found, s.queue[1])
            /\ \/ s.queue[1] \in u.lost
               \/ \E r \in Between(s.since, now) : Shows(t, s.queue[1], Eval(t, s.queue[1], r))
  PROVE  SearchGood(t, u, now)
<1> DEFINE queue == s.queue
           h == queue[1]
<1>1. queue \in Seq(Paths) /\ s.found \in Seq(Paths) /\ u.found \in Seq(Paths) /\ h \in Paths /\ 1 \in 1 .. Len(queue)
  BY DEF SearchRecord
<1>2. QueueGood(t, queue) /\ Covered(t, s, now) /\ FoundGood(s.found, queue) /\ FoundTrue(t, s, now)
  BY DEF SearchGood
<1>e. queue # << >> /\ u.queue = Tail(queue) \o Kids[t][Head(queue)]
  OBVIOUS
<1> HIDE DEF queue
<1>q. Follows(t, u.queue, queue)
  BY <1>1, <1>2, <1>e, EnqueueGood
<1>3. QueueGood(t, u.queue)
  BY <1>q DEF Follows
<1>4. \A i \in 1 .. Len(u.queue) :
        /\ u.queue[i] \in Paths /\ Depth[h] <= Depth[u.queue[i]]
        /\ h \notin Under[u.queue[i]]
        /\ \E j \in 1 .. Len(queue) : Under[u.queue[i]] \subseteq Under[queue[j]]
  BY <1>q DEF Follows
<1>5. \A j \in 1 .. Len(queue) : \A p \in Under[queue[j]] : InTree(t, p) /\ p # h =>
        \E i \in 1 .. Len(u.queue) : p \in Under[u.queue[i]]
  BY <1>q DEF Follows
<1> USE DEF queue
<1>6. /\ Len(s.found) \in Nat /\ s.found \in Seq(Paths)
      /\ Range(s.found) = {s.found[i] : i \in 1 .. Len(s.found)}
  BY <1>1 DEF Range
<1>7. ASSUME u.found = Append(s.found, h)
      PROVE  /\ Len(u.found) = Len(s.found) + 1 /\ u.found[Len(s.found) + 1] = h
             /\ \A i \in 1 .. Len(s.found) : u.found[i] = s.found[i]
             /\ Range(u.found) = Range(s.found) \union {h}
  <2>1. /\ Len(u.found) = Len(s.found) + 1 /\ u.found[Len(s.found) + 1] = h
        /\ \A i \in 1 .. Len(s.found) : u.found[i] = s.found[i]
    BY <1>1, <1>6, <1>7
  <2>2. \A i \in 1 .. Len(s.found) + 1 : i \in 1 .. Len(s.found) \/ i = Len(s.found) + 1
    BY <1>6
  <2>3. Range(u.found) = {u.found[i] : i \in 1 .. Len(u.found)}
    BY <1>1 DEF Range
  <2>4. 1 .. Len(s.found) \subseteq 1 .. Len(s.found) + 1 /\ Len(s.found) + 1 \in 1 .. Len(s.found) + 1
    BY <1>6
  <2> HIDE DEF h
  <2> QED
    BY <1>6, <2>1, <2>2, <2>3, <2>4
<1>8. Range(s.found) \subseteq Range(u.found)
  BY <1>7
<1>9. MissedIn(t, u, now) \subseteq MissedIn(t, s, now)
  BY <1>8 DEF MissedIn
<1> HIDE DEF h
<1>10. Covered(t, u, now)
  <2> SUFFICES ASSUME NEW p \in MissedIn(t, u, now)
               PROVE  \E i \in 1 .. Len(u.queue) : p \in Under[u.queue[i]]
    BY DEF Covered
  <2>1. InTree(t, p) /\ p # h
    BY DEF MissedIn, h
  <2>2. PICK j \in 1 .. Len(queue) : p \in Under[queue[j]]
    BY <1>2, <1>9 DEF Covered
  <2> QED
    BY <1>5, <2>1, <2>2
<1>11. FoundTrue(t, u, now)
  <2> SUFFICES ASSUME NEW p \in Range(u.found) \ u.lost
               PROVE  \E r \in Between(s.since, now) : Shows(t, p, Eval(t, p, r))
    BY DEF FoundTrue
  <2>1. CASE p \in Range(s.found)
    BY <1>2, <2>1 DEF FoundTrue
  <2>2. CASE p \notin Range(s.found)
    BY <1>7, <2>2 DEF h
  <2> QED
    BY <2>1, <2>2
<1>12. \A i \in 1 .. Len(s.found), j \in 1 .. Len(queue) :
         s.found[i] \notin Under[queue[j]] /\ Depth[s.found[i]] <= Depth[queue[j]]
  BY <1>2 DEF FoundGood
<1>13. ASSUME NEW i \in 1 .. Len(s.found)
       PROVE  s.found[i] # h /\ s.found[i] \in Paths /\ Depth[s.found[i]] <= Depth[h]
  BY <1>1, <1>12, UnderIs DEF h
<1>14. ASSUME NEW i \in 1 .. Len(s.found), NEW j \in 1 .. Len(u.queue)
       PROVE  s.found[i] \notin Under[u.queue[j]] /\ Depth[s.found[i]] <= Depth[u.queue[j]]
  <2>1. Depth[s.found[i]] <= Depth[h] /\ Depth[h] <= Depth[u.queue[j]]
    BY <1>4, <1>13
  <2>2. Depth[s.found[i]] \in Nat /\ Depth[h] \in Nat /\ Depth[u.queue[j]] \in Nat
    BY <1>1, <1>4, <1>13, DepthAssumption DEF h
  <2>3. s.found[i] \notin Under[u.queue[j]]
    BY <1>4, <1>12
  <2>4. \A a, b, c \in Nat : a <= b /\ b <= c => a <= c
    OBVIOUS
  <2> QED
    BY <2>1, <2>2, <2>3, <2>4
<1>15. FoundGood(u.found, u.queue)
  <2>1. CASE u.found = s.found
    BY <1>2, <1>14, <2>1 DEF FoundGood
  <2>2. CASE u.found = Append(s.found, h)
    <3>1. \A i \in 1 .. Len(u.found) :
            \/ i \in 1 .. Len(s.found) /\ u.found[i] = s.found[i]
            \/ i = Len(s.found) + 1 /\ u.found[i] = h
      BY <1>6, <1>7, <2>2
    <3>2. ASSUME NEW i \in 1 .. Len(u.found), NEW j \in 1 .. Len(u.found), i < j
          PROVE  Depth[u.found[i]] <= Depth[u.found[j]] /\ u.found[i] # u.found[j]
      <4>1. i \in 1 .. Len(s.found) /\ u.found[i] = s.found[i]
        BY <1>6, <1>7, <2>2, <3>1, <3>2
      <4>2. CASE j \in 1 .. Len(s.found) /\ u.found[j] = s.found[j]
        BY <1>2, <3>2, <4>1, <4>2 DEF FoundGood
      <4>3. CASE u.found[j] = h
        BY <1>13, <4>1, <4>3
      <4> QED
        BY <3>1, <4>2, <4>3
    <3>3. ASSUME NEW i \in 1 .. Len(u.found), NEW j \in 1 .. Len(u.queue)
          PROVE  u.found[i] \notin Under[u.queue[j]] /\ Depth[u.found[i]] <= Depth[u.queue[j]]
      BY <1>4, <1>14, <3>1
    <3> QED
      BY <3>2, <3>3 DEF FoundGood
  <2> QED
    BY <2>1, <2>2 DEF h
<1> QED
  BY <1>3, <1>10, <1>11, <1>15 DEF SearchGood

-----------------------------------------------------------------------------
(* The inductive invariant of a search. *)

LEMMA NoSearchGood ==
  ASSUME NEW t, NEW now
  PROVE  SearchGood(t, NoSearch, now) /\ NoSearch \in SearchRecord
<1>1. NoSearch.found = << >> /\ NoSearch.queue = << >> /\ NoSearch.pc = "none"
  BY DEF NoSearch
<1>2. FoundGood(<< >>, << >>)
  BY DEF FoundGood
<1>3. FoundTrue(t, NoSearch, now)
  BY <1>1 DEF FoundTrue, Range
<1>4. NoSearch \in SearchRecord
  BY EventsAssumption DEF NoSearch, SearchRecord, AllReadings
<1> QED
  BY <1>1, <1>2, <1>3, <1>4 DEF SearchGood

LEMMA NewSearchGood ==
  ASSUME NEW t \in Trees, NEW now \in AllReadings, NEW scope \in Scopes, NEW max \in Maxima,
         NEW s, s = [pc |-> "next", queue |-> <<Root>>, found |-> << >>, max |-> max, scope |-> scope,
                     lost |-> {}, since |-> now]
  PROVE  SearchGood(t, s, now) /\ s \in SearchRecord
<1>1. Root \in Paths /\ scope \subseteq Paths /\ max \in Nat /\ InTree(t, Root)
  BY SearchAssumption DEF InTree
<1>2. s \in SearchRecord
  BY <1>1 DEF SearchRecord
<1>3. Depth[Root] \in Nat
  BY <1>1, DepthAssumption
<1>4. QueueGood(t, <<Root>>)
  <2>1. Len(<<Root>>) = 1 /\ <<Root>>[1] = Root
    OBVIOUS
  <2>2. \A i \in 1 .. 1 : i = 1
    OBVIOUS
  <2> QED
    BY <1>1, <1>3, <2>1, <2>2 DEF QueueGood
<1>5. FoundGood(<< >>, <<Root>>)
  BY DEF FoundGood
<1>6. FoundTrue(t, s, now)
  BY DEF FoundTrue, Range
<1>7. Covered(t, s, now)
  <2>1. MissedIn(t, s, now) \subseteq Paths
    BY <1>1 DEF MissedIn
  <2>2. 1 \in 1 .. Len(s.queue) /\ s.queue[1] = Root
    OBVIOUS
  <2> QED
    BY <2>1, <2>2, UnderRoot DEF Covered
<1> QED
  BY <1>2, <1>4, <1>5, <1>6, <1>7 DEF SearchGood

\* What others do, and a step of get_state, do not disturb a search.
LEMMA OthersStay ==
  ASSUME RTypeOK, RTypeOK', SearchInv, \A p \in Paths : log[p] <= log'[p], NEW q \in Procs,
         tree'[q] = tree[q], search'[q] = search[q], base'[q] = base[q], start'[q] = start[q],
         at'[q] = at[q] \/ search[q].pc # "next"
  PROVE  SearchGood(tree'[q], search'[q], log') /\ Together(q)'
<1>1. /\ log \in AllReadings /\ log' \in AllReadings /\ search[q] \in SearchRecord
      /\ SearchGood(tree[q], search[q], log) /\ Together(q)
  BY DEF SearchInv, RTypeOK, AllReadings
<1>2. SearchGood(tree'[q], search'[q], log')
  BY <1>1, SearchStays
<1>3. Searching(q) => \A p \in Paths : search[q].since[p] <= log'[p]
  <2> SUFFICES ASSUME Searching(q), NEW p \in Paths PROVE search[q].since[p] <= log'[p]
    OBVIOUS
  <2>1. search[q].since[p] \in Nat /\ log[p] \in Nat /\ log'[p] \in Nat
    BY <1>1, EventsAssumption DEF SearchRecord, AllReadings
  <2>2. search[q].since[p] <= log[p] /\ log[p] <= log'[p]
    BY <1>1 DEF Together
  <2> QED
    BY <2>1, <2>2
<1> QED
  BY <1>1, <1>2, <1>3 DEF Together, Searching

\* A step is good if it leaves the searches of the others alone.
LEMMA OneSearch ==
  ASSUME RTypeOK, RTypeOK', SearchInv, \A p \in Paths : log[p] <= log'[p], NEW pr \in Procs, NEW s,
         search' = [search EXCEPT ![pr] = s], s \in SearchRecord,
         SearchGood(tree'[pr], s, log'), Together(pr)',
         \A q \in Procs \ {pr} :
           tree'[q] = tree[q] /\ base'[q] = base[q] /\ start'[q] = start[q] /\ at'[q] = at[q]
  PROVE  SearchInv'
<1>1. search \in [Procs -> SearchRecord]
  BY DEF SearchInv
<1>2. search'[pr] = s /\ \A q \in Procs \ {pr} : search'[q] = search[q]
  BY <1>1
<1>3. search' \in [Procs -> SearchRecord]
  BY <1>1
<1>4. ASSUME NEW q \in Procs PROVE SearchGood(tree'[q], search'[q], log') /\ Together(q)'
  BY <1>2, OthersStay
<1> QED
  BY <1>3, <1>4 DEF SearchInv

\* The search takes a node off the queue.
LEMMA AdvanceStep ==
  ASSUME RTypeOK, RTypeOK', SearchInv, NEW pr \in Procs, Searching(pr), search[pr].queue # << >>,
         at[pr] = None, UNCHANGED rollupVars, NEW u \in SearchRecord, search' = [search EXCEPT ![pr] = u],
         SearchGood(tree[pr], u, log), u.pc = "next", u.since = search[pr].since
  PROVE  SearchInv'
<1>1. /\ log' = log /\ tree' = tree /\ base' = base /\ start' = start /\ at' = at
  BY DEF rollupVars
<1>2. \A p \in Paths : log[p] <= log'[p]
  BY <1>1, EventsAssumption DEF RTypeOK
<1>3. search'[pr] = u
  BY DEF SearchInv
<1>4. Together(pr)'
  BY <1>1, <1>3 DEF SearchInv, Together, Searching
<1> QED
  BY <1>1, <1>2, <1>4, OneSearch

\* The record of a search that goes on.
Going(t, s, found, lost) ==
  [s EXCEPT !.pc = "next", !.queue = Tail(s.queue) \o Kids[t][Head(s.queue)],
            !.found = found, !.lost = lost]

GoesOn(t, s, found, lost, u) ==
  /\ u \in SearchRecord /\ u.pc = "next" /\ u.found = found /\ u.lost = lost
  /\ u.queue = Tail(s.queue) \o Kids[t][Head(s.queue)] /\ u.scope = s.scope /\ u.since = s.since

LEMMA GoingIs ==
  ASSUME NEW t \in Trees, NEW s \in SearchRecord, s.queue # << >>, NEW found \in Seq(Paths),
         NEW lost \in SUBSET Paths
  PROVE  GoesOn(t, s, found, lost, Going(t, s, found, lost))
<1> DEFINE new == Tail(s.queue) \o Kids[t][Head(s.queue)]
           u == [s EXCEPT !.pc = "next", !.queue = new, !.found = found, !.lost = lost]
<1>1. s.queue \in Seq(Paths)
  BY DEF SearchRecord
<1>2. new \in Seq(Paths)
  BY <1>1, EnqueuedIs
<1> HIDE DEF new
<1>3. /\ u \in SearchRecord /\ u.pc = "next" /\ u.found = found /\ u.lost = lost
      /\ u.queue = new /\ u.scope = s.scope /\ u.since = s.since
  BY <1>2 DEF SearchRecord
<1> HIDE DEF u
<1>4. Going(t, s, found, lost) = u
  BY DEF Going, u, new
<1> QED
  BY <1>3, <1>4 DEF new, GoesOn

LEMMA SkipGood ==
  ASSUME RTypeOK, RTypeOK', SearchInv, NEW pr \in Procs, Skip(pr)
  PROVE  SearchInv'
<1> DEFINE s == search[pr]
           t == tree[pr]
           u == Going(t, s, s.found, s.lost)
<1>1. /\ s \in SearchRecord /\ t \in Trees /\ SearchGood(t, s, log) /\ Together(pr)
      /\ log \in AllReadings
  BY DEF SearchInv, RTypeOK, AllReadings
<1>2. /\ s.pc = "next" /\ s.queue # << >> /\ Head(s.queue) \notin s.scope /\ UNCHANGED rollupVars
      /\ search' = [search EXCEPT ![pr].queue = Tail(s.queue) \o Kids[t][Head(s.queue)]]
  BY DEF Skip, Continues, Here, Enqueue
<1>3. at[pr] = None /\ Searching(pr)
  BY <1>1, <1>2 DEF Together, Searching
<1>4. u = [s EXCEPT !.queue = Tail(s.queue) \o Kids[t][Head(s.queue)]]
  BY <1>1, <1>2 DEF SearchRecord, Going
<1>5. search' = [search EXCEPT ![pr] = u]
  BY <1>2, <1>4
<1>6. s.found \in Seq(Paths) /\ s.lost \in SUBSET Paths /\ s.queue[1] = Head(s.queue)
  BY <1>1, <1>2 DEF SearchRecord
<1> HIDE DEF u, s, t
<1>7. /\ u \in SearchRecord /\ u.pc = "next" /\ u.found = s.found /\ u.lost = s.lost
      /\ u.queue = Tail(s.queue) \o Kids[t][Head(s.queue)] /\ u.scope = s.scope /\ u.since = s.since
  <2>1. GoesOn(t, s, s.found, s.lost, u)
    BY <1>1, <1>2, <1>6, GoingIs DEF u
  <2> QED
    BY <2>1 DEF GoesOn
<1>8. s.queue[1] \notin MissedIn(t, u, log)
  BY <1>2, <1>6, <1>7 DEF MissedIn
<1>9. SearchGood(t, u, log)
  BY <1>1, <1>2, <1>7, <1>8, AdvanceGood
<1> QED
  BY <1>2, <1>3, <1>5, <1>7, <1>9, AdvanceStep DEF s, t

LEMMA ViewGood ==
  ASSUME RTypeOK, RTypeOK', SearchInv, NEW pr \in Procs, View(pr)
  PROVE  SearchInv'
<1> DEFINE s == search[pr]
           t == tree[pr]
           u == [s EXCEPT !.pc = "view"]
<1>1. /\ s \in SearchRecord /\ t \in Trees /\ SearchGood(t, s, log) /\ Together(pr)
      /\ log \in AllReadings /\ search \in [Procs -> SearchRecord]
  BY DEF SearchInv, RTypeOK, AllReadings
<1>2. /\ s.pc = "next" /\ s.queue # << >> /\ Begin(pr, t, Head(s.queue))
      /\ search' = [search EXCEPT ![pr] = u]
  BY DEF View, Continues, Here, RBegin
<1>3. /\ u \in SearchRecord /\ u.pc = "view" /\ u.queue = s.queue /\ u.found = s.found /\ u.lost = s.lost
      /\ u.scope = s.scope /\ u.since = s.since /\ u.max = s.max
  BY <1>1 DEF SearchRecord
<1>4. /\ tree'[pr] = t /\ base'[pr] = Head(s.queue) /\ start'[pr] = log /\ log' = log
      /\ \A q \in Procs \ {pr} :
           tree'[q] = tree[q] /\ base'[q] = base[q] /\ start'[q] = start[q] /\ at'[q] = at[q]
  BY <1>2 DEF Begin, RTypeOK
<1>5. s.queue[1] = Head(s.queue) /\ search'[pr] = u
  BY <1>1, <1>2 DEF SearchRecord
<1> HIDE DEF s, t, u
<1>6. SearchGood(t, u, log)
  BY <1>1, <1>2, <1>3 DEF SearchGood, FoundTrue, Covered, MissedIn
<1>7. Together(pr)'
  BY <1>1, <1>2, <1>3, <1>4, <1>5 DEF Together, Searching, s
<1>8. \A p \in Paths : log[p] <= log'[p]
  BY <1>4, EventsAssumption DEF RTypeOK
<1> QED
  BY <1>2, <1>3, <1>4, <1>6, <1>7, <1>8, OneSearch

\* The text of a view is all that a search looks at.
LEMMA ShowsJson == \A t, p, v : Shows(t, p, v) = Shows(t, p, Json(v))
BY JsonOfJson DEF Shows

LEMMA JudgeGood ==
  ASSUME RTypeOK, RTypeOK', FreshInv, SearchInv, NEW pr \in Procs, Judge(pr)
  PROVE  SearchInv'
<1> DEFINE s == search[pr]
           t == tree[pr]
           h == Head(s.queue)
<1>1. /\ s \in SearchRecord /\ t \in Trees /\ SearchGood(t, s, log) /\ Together(pr)
      /\ log \in AllReadings /\ start[pr] \in AllReadings
  BY DEF SearchInv, RTypeOK, AllReadings
<1>2. /\ s.pc = "view" /\ at[pr] = None /\ UNCHANGED rollupVars /\ Searching(pr)
      /\ s.queue # << >> /\ base[pr] = s.queue[1] /\ \A p \in Paths : s.since[p] <= start[pr][p]
  BY <1>1 DEF Judge, Together, Searching
<1>3. PICK matches \in IF answer[pr] = None THEN BOOLEAN ELSE {Shows(t, h, answer[pr])} :
        search' = [search EXCEPT
          ![pr].pc = "next", ![pr].queue = Enqueue(pr),
          ![pr].found = IF matches THEN Append(@, Here(pr)) ELSE @,
          ![pr].lost = IF answer[pr] = None THEN @ \union {Here(pr)} ELSE @]
  BY DEF Judge, Here
<1> DEFINE found == IF matches THEN Append(s.found, h) ELSE s.found
           lost == IF answer[pr] = None THEN s.lost \union {h} ELSE s.lost
           u == Going(t, s, found, lost)
<1>4. search' = [search EXCEPT ![pr] = u]
  <2>1. Here(pr) = h /\ Enqueue(pr) = Tail(s.queue) \o Kids[t][Head(s.queue)]
    BY DEF Here, Enqueue
  <2>2. search' = [search EXCEPT ![pr] =
          [s EXCEPT !.pc = "next", !.queue = Enqueue(pr),
                    !.found = IF matches THEN Append(s.found, Here(pr)) ELSE s.found,
                    !.lost = IF answer[pr] = None THEN s.lost \union {Here(pr)} ELSE s.lost]]
    BY <1>3
  <2> QED
    BY <2>1, <2>2 DEF Going
<1>5. s.found \in Seq(Paths) /\ s.lost \in SUBSET Paths /\ s.queue[1] = h /\ h \in Paths
  BY <1>1, <1>2 DEF SearchRecord
<1>6. found \in Seq(Paths) /\ lost \in SUBSET Paths
  BY <1>5
<1>7. \A p \in Paths : start[pr][p] <= log[p]
  BY DEF FreshInv, CallGood
<1>8. ASSUME answer[pr] # None
      PROVE  \E r \in Between(s.since, log) : Json(answer[pr]) = Eval(t, h, r)
  <2>1. IsView(t, h, answer[pr], start[pr], log)
    BY <1>2, <1>5, <1>8 DEF FreshInv, CallGood
  <2>2. \E r \in Between(start[pr], log) : Json(answer[pr]) = Eval(t, h, r)
    BY <2>1 DEF IsView, Between
  <2>3. Between(start[pr], log) \subseteq Between(s.since, log)
    <3>1. s.since \in AllReadings
      BY <1>1 DEF SearchRecord
    <3>2. \A p \in Paths : log[p] <= log[p] /\ s.since[p] <= start[pr][p]
      BY <1>1, <1>2, EventsAssumption DEF AllReadings
    <3> QED
      BY <1>1, <3>1, <3>2, BetweenGrows
  <2> QED
    BY <2>2, <2>3
<1>9. answer[pr] # None => (matches <=> Shows(t, h, Json(answer[pr])))
  BY <1>3, ShowsJson
<1> HIDE DEF s, t, h, found, lost, u
<1>10. /\ u \in SearchRecord /\ u.pc = "next" /\ u.found = found /\ u.lost = lost
       /\ u.queue = Tail(s.queue) \o Kids[t][Head(s.queue)] /\ u.scope = s.scope /\ u.since = s.since
  <2>1. GoesOn(t, s, found, lost, u)
    BY <1>1, <1>2, <1>6, GoingIs DEF u
  <2> QED
    BY <2>1 DEF GoesOn
<1>11. s.lost \subseteq lost /\ (found = s.found \/ found = Append(s.found, h))
       /\ (~ matches => found = s.found) /\ (matches => found = Append(s.found, h))
       /\ (answer[pr] = None => h \in lost)
  BY DEF lost, found
<1>12. h \notin MissedIn(t, u, log)
  <2>1. CASE answer[pr] = None
    BY <1>10, <1>11, <2>1 DEF MissedIn
  <2>2. CASE matches
    <3>1. h \in Range(found)
      <4>1. found = Append(s.found, h) /\ Len(s.found) \in Nat
        BY <1>5, <1>11, <2>2
      <4>2. Len(s.found) + 1 \in DOMAIN found /\ found[Len(s.found) + 1] = h
        BY <1>5, <4>1
      <4> QED
        BY <4>2 DEF Range
    <3> QED
      BY <1>10, <3>1 DEF MissedIn
  <2>3. CASE answer[pr] # None /\ ~ matches
    <3>1. \E r \in Between(s.since, log) : ~ Shows(t, h, Eval(t, h, r))
      BY <1>8, <1>9, <2>3
    <3> QED
      BY <1>10, <3>1 DEF MissedIn
  <2> QED
    BY <2>1, <2>2, <2>3
<1>13. ASSUME matches
       PROVE  h \in lost \/ \E r \in Between(s.since, log) : Shows(t, h, Eval(t, h, r))
  BY <1>8, <1>9, <1>11, <1>13
<1>14. SearchGood(t, u, log)
  BY <1>1, <1>2, <1>5, <1>10, <1>11, <1>12, <1>13, AdvanceGood
<1> QED
  BY <1>2, <1>4, <1>10, <1>14, AdvanceStep DEF s, t

LEMMA FindReturnsGood ==
  ASSUME RTypeOK, RTypeOK', SearchInv, NEW pr \in Procs, FindReturns(pr)
  PROVE  SearchInv'
<1> DEFINE s == search[pr]
           t == tree[pr]
           u == [s EXCEPT !.pc = "done", !.queue = << >>]
<1>1. /\ s \in SearchRecord /\ t \in Trees /\ SearchGood(t, s, log) /\ search \in [Procs -> SearchRecord]
  BY DEF SearchInv, RTypeOK
<1>2. /\ s.pc = "next" /\ (s.queue = << >> \/ ~ (Len(s.found) < s.max)) /\ UNCHANGED rollupVars
      /\ search' = [search EXCEPT ![pr] = u]
  BY <1>1 DEF FindReturns, Continues, SearchRecord
<1>3. /\ u \in SearchRecord /\ u.pc = "done" /\ u.queue = << >> /\ u.found = s.found /\ u.lost = s.lost
      /\ u.scope = s.scope /\ u.since = s.since /\ u.max = s.max
  <2>1. << >> \in Seq(Paths)
    OBVIOUS
  <2> QED
    BY <1>1, <2>1 DEF SearchRecord
<1>4. search'[pr] = u
  BY <1>1, <1>2
<1>5. s.queue \in Seq(Paths) /\ s.found \in Seq(Paths)
  BY <1>1 DEF SearchRecord
<1> HIDE DEF s, t, u
<1>6. FoundGood(s.found, s.queue) /\ Covered(t, s, log) /\ FoundTrue(t, s, log)
  BY <1>1, <1>2 DEF SearchGood
<1>7. MissedIn(t, u, log) = MissedIn(t, s, log)
  BY <1>3 DEF MissedIn
<1>8. ASSUME Len(s.found) < s.max PROVE MissedIn(t, s, log) = {}
  BY <1>2, <1>6, <1>8 DEF Covered
<1>9. ASSUME s.found # << >>, NEW p \in MissedIn(t, s, log) PROVE Depth[p] >= Depth[Last(s.found)]
  <2>1. PICK j \in 1 .. Len(s.queue) : p \in Under[s.queue[j]]
    BY <1>6 DEF Covered
  <2>2. Len(s.found) \in 1 .. Len(s.found) /\ Last(s.found) = s.found[Len(s.found)] /\ Last(s.found) \in Paths
    BY <1>5, <1>9 DEF Last
  <2>3. s.queue[j] \in Paths
    BY <1>5
  <2>4. Depth[Last(s.found)] <= Depth[s.queue[j]]
    BY <1>6, <2>2 DEF FoundGood
  <2>5. Depth[p] \in Nat /\ Depth[s.queue[j]] \in Nat /\ Depth[p] >= Depth[s.queue[j]]
    BY <2>1, <2>3, UnderDeeper
  <2>6. Depth[Last(s.found)] \in Nat
    BY <2>2, DepthAssumption
  <2>7. \A a, b, c \in Nat : a <= b /\ c >= b => c >= a
    OBVIOUS
  <2> QED
    BY <2>4, <2>5, <2>6, <2>7
<1>10. CutOff(t, u, log)
  BY <1>3, <1>7, <1>8, <1>9 DEF CutOff
<1>11. FoundGood(u.found, u.queue)
  BY <1>3, <1>6 DEF FoundGood
<1>12. SearchGood(t, u, log)
  BY <1>3, <1>6, <1>10, <1>11 DEF SearchGood, FoundTrue
<1>13. /\ log' = log /\ tree' = tree /\ base' = base /\ start' = start /\ at' = at
  BY <1>2 DEF rollupVars
<1>14. \A p \in Paths : log[p] <= log'[p]
  BY <1>13, EventsAssumption DEF RTypeOK
<1>15. Together(pr)'
  BY <1>3, <1>4 DEF Together, Searching
<1> QED
  BY <1>2, <1>3, <1>12, <1>13, <1>14, <1>15, OneSearch DEF t

\* Step(pr) is a step of a call under way, for which the search waits.
LEMMA StepKeeps ==
  ASSUME RTypeOK, NEW pr \in Procs, Step(pr) \/ RAbort(pr)
  PROVE  /\ at[pr] # None
         /\ log' = log /\ tree' = tree /\ base' = base /\ start' = start
         /\ \A q \in Procs \ {pr} : at'[q] = at[q]
<1>1. ASSUME NEW v, Return(pr, v)
      PROVE  /\ log' = log /\ tree' = tree /\ base' = base /\ start' = start
             /\ \A q \in Procs \ {pr} : at'[q] = at[q]
  BY <1>1 DEF Return, RTypeOK
<1>2. CASE RDescend(pr)
  BY <1>2 DEF RDescend, Descend, RTypeOK
<1>3. CASE RReadLeaf(pr)
  BY <1>1, <1>3 DEF RReadLeaf, ReadLeaf
<1>4. CASE Hit(pr)
  BY <1>1, <1>4 DEF Hit, AllVisited
<1>5. CASE Miss(pr)
  BY <1>5 DEF Miss, AllVisited, vars
<1>6. CASE Truncate(pr)
  BY <1>6 DEF Truncate, vars, RTypeOK
<1>7. CASE WriteCache(pr)
  BY <1>1, <1>7 DEF WriteCache, RTypeOK
<1>8. CASE RAbort(pr)
  BY <1>8 DEF RAbort, Abort, RTypeOK
<1> QED
  BY <1>2, <1>3, <1>4, <1>5, <1>6, <1>7, <1>8 DEF Step

LEMMA SearchStep == RTypeOK /\ RTypeOK' /\ FreshInv /\ SearchInv /\ [ANext]_agentVars => SearchInv'
<1> SUFFICES ASSUME RTypeOK, RTypeOK', FreshInv, SearchInv, [ANext]_agentVars PROVE SearchInv'
  OBVIOUS
<1>g. \A p \in Paths : log[p] <= log'[p]
  BY LogsGrow
<1>s. search \in [Procs -> SearchRecord]
  BY DEF SearchInv
<1>1. ASSUME UNCHANGED search, tree' = tree, base' = base, start' = start,
             \A q \in Procs : at'[q] = at[q] \/ search[q].pc # "next"
      PROVE  SearchInv'
  <2>1. ASSUME NEW q \in Procs PROVE SearchGood(tree'[q], search'[q], log') /\ Together(q)'
    BY <1>1, <1>g, OthersStay
  <2> QED
    BY <1>1, <1>s, <2>1 DEF SearchInv
<1>2. ASSUME NEW pr \in Procs, at[pr] # None PROVE search[pr].pc # "next"
  BY <1>2 DEF SearchInv, Together
<1>3. ASSUME NEW p \in Leaves, RAppendEvent(p), UNCHANGED search PROVE SearchInv'
  BY <1>1, <1>3 DEF RAppendEvent, AppendEvent
<1>4. ASSUME NEW pr \in Procs, search' = [search EXCEPT ![pr] = NoSearch],
             \A q \in Procs \ {pr} :
               tree'[q] = tree[q] /\ base'[q] = base[q] /\ start'[q] = start[q] /\ at'[q] = at[q]
      PROVE  SearchInv'
  <2>1. NoSearch \in SearchRecord /\ SearchGood(tree'[pr], NoSearch, log')
    BY NoSearchGood
  <2>2. search'[pr] = NoSearch
    BY <1>4, <1>s
  <2>3. Together(pr)'
    BY <2>2 DEF Together, Searching, NoSearch
  <2> QED
    BY <1>4, <1>g, <2>1, <2>3, OneSearch
<1>5. ASSUME NEW pr \in Procs, NEW t \in Trees, NEW p \in Paths, GetState(pr, t, p) PROVE SearchInv'
  <2>1. \A q \in Procs \ {pr} :
          tree'[q] = tree[q] /\ base'[q] = base[q] /\ start'[q] = start[q] /\ at'[q] = at[q]
    BY <1>5 DEF GetState, RBegin, Begin, RTypeOK
  <2> QED
    BY <1>4, <1>5, <2>1 DEF GetState
<1>6. ASSUME NEW pr \in Procs, NEW t \in Trees, NEW scope \in Scopes, NEW max \in Maxima,
             FindState(pr, t, scope, max)
      PROVE  SearchInv'
  <2> DEFINE s == [pc |-> "next", queue |-> <<Root>>, found |-> << >>, max |-> max, scope |-> scope,
                   lost |-> {}, since |-> log]
  <2>1. /\ search' = [search EXCEPT ![pr] = s] /\ tree'[pr] = t /\ log' = log /\ at' = at /\ at[pr] = None
        /\ \A q \in Procs \ {pr} :
             tree'[q] = tree[q] /\ base'[q] = base[q] /\ start'[q] = start[q] /\ at'[q] = at[q]
    BY <1>6 DEF FindState, RTypeOK
  <2>2. log \in AllReadings
    BY DEF RTypeOK, AllReadings
  <2>3. s.pc = "next" /\ s.since = log
    OBVIOUS
  <2>4. SearchGood(t, s, log) /\ s \in SearchRecord
    BY <2>2, NewSearchGood
  <2> HIDE DEF s
  <2>5. search'[pr] = s
    BY <1>s, <2>1
  <2>6. \A p \in Paths : s.since[p] <= log'[p]
    BY <1>g, <2>3
  <2>7. Together(pr)'
    BY <2>1, <2>3, <2>5, <2>6 DEF Together, Searching
  <2> QED
    BY <1>g, <2>1, <2>4, <2>7, OneSearch
<1>7. ASSUME NEW pr \in Procs, Step(pr) \/ RAbort(pr), UNCHANGED search PROVE SearchInv'
  <2>1. at[pr] # None /\ tree' = tree /\ base' = base /\ start' = start /\ \A q \in Procs \ {pr} : at'[q] = at[q]
    BY <1>7, StepKeeps
  <2> QED
    BY <1>1, <1>2, <1>7, <2>1
<1>8. ASSUME NEW pr \in Procs, Dies(pr) PROVE SearchInv'
  <2>1. \A q \in Procs \ {pr} :
          tree'[q] = tree[q] /\ base'[q] = base[q] /\ start'[q] = start[q] /\ at'[q] = at[q]
    <3>1. CASE RAbort(pr)
      BY <3>1, StepKeeps
    <3>2. CASE UNCHANGED rollupVars
      BY <3>2 DEF rollupVars
    <3> QED
      BY <1>8, <3>1, <3>2 DEF Dies
  <2> QED
    BY <1>4, <1>8, <2>1 DEF Dies
<1>9. CASE UNCHANGED agentVars
  BY <1>1, <1>9 DEF agentVars
<1> QED
  BY <1>3, <1>5, <1>6, <1>7, <1>8, <1>9, SkipGood, ViewGood, JudgeGood, FindReturnsGood DEF ANext,
     Fails

-----------------------------------------------------------------------------
(* What the runs check. *)

AgentInv == RollupInv /\ FreshInv /\ SearchInv

\* The beginning of a search is no step of the rollup, but leaves its calls
\* alone: the process has none.
LEMMA FindStateKeeps ==
  ASSUME RollupInv, FreshInv, NEW pr \in Procs, NEW t \in Trees, NEW scope \in Scopes, NEW max \in Maxima,
         FindState(pr, t, scope, max)
  PROVE  RollupInv' /\ FreshInv'
<1>1. RTypeOK
  BY DEF RollupInv
<1>2. /\ at[pr] = None /\ tree' = [tree EXCEPT ![pr] = t] /\ answer' = [answer EXCEPT ![pr] = None]
      /\ UNCHANGED <<log, base, at, views, start, cache, mode, pending>>
  BY DEF FindState
<1>3. RTypeOK'
  BY <1>1, <1>2 DEF RTypeOK
<1>4. mode'[pr] = "walk"
  BY <1>1, <1>2 DEF RTypeOK
<1>5. \A q \in Procs \ {pr} : tree'[q] = tree[q] /\ answer'[q] = answer[q]
  BY <1>1, <1>2 DEF RTypeOK
<1>6. CacheProvenance'
  <2>1. \A q \in Procs : FrameKept(q) \/ mode'[q] = "walk"
    BY <1>2, <1>4, <1>5 DEF FrameKept
  <2> QED
    BY <1>2, <1>3, <2>1, ProvenanceKept
<1>7. answer'[pr] = None
  BY <1>1, <1>2 DEF RTypeOK
<1>8. \A p \in Paths : log[p] <= log'[p]
  BY <1>1, <1>2, EventsAssumption DEF RTypeOK
<1>9. CallGood(pr)'
  BY <1>2, <1>7 DEF FreshInv, CallGood
<1>10. ASSUME NEW q \in Procs, q # pr PROVE CallGood(q)'
  BY <1>1, <1>2, <1>3, <1>5, <1>8, <1>10, CallStays DEF FreshInv
<1>11. ASSUME NEW q \in Procs, at'[q] # None PROVE Formed(q)'
  <2>1. q # pr /\ at[q] # None
    BY <1>2, <1>11
  <2> QED
    BY <1>2, <1>5, <2>1 DEF RollupInv, Formed
<1> QED
  BY <1>2, <1>3, <1>6, <1>9, <1>10, <1>11 DEF RollupInv, FreshInv

LEMMA AgentInvariant == KeysFaithful /\ JsonSafe => (ASpec => []AgentInv)
<1> SUFFICES ASSUME KeysFaithful, JsonSafe PROVE ASpec => []AgentInv
  OBVIOUS
<1>1. AInit => AgentInv
  <2> SUFFICES ASSUME AInit PROVE AgentInv
    OBVIOUS
  <2>1. RollupInv
    BY InitType DEF AInit, RInit, Init, RollupInv, CacheProvenance, IsEntry, Missing
  <2>2. FreshInv
    BY NoneAssumption, EventsAssumption DEF AInit, RInit, Init, FreshInv, CallGood
  <2>3. SearchInv
    <3>1. search = [pr \in Procs |-> NoSearch]
      BY DEF AInit
    <3>2. \A pr \in Procs : Together(pr)
      BY <3>1 DEF Together, Searching, NoSearch
    <3> QED
      BY <3>1, <3>2, NoSearchGood DEF SearchInv
  <2> QED
    BY <2>1, <2>2, <2>3 DEF AgentInv
<1>2. AgentInv /\ [ANext]_agentVars => AgentInv'
  <2> SUFFICES ASSUME AgentInv, [ANext]_agentVars PROVE AgentInv'
    OBVIOUS
  <2>1. RollupInv /\ FreshInv /\ SearchInv /\ RTypeOK
    BY DEF AgentInv, RollupInv
  <2>2. RollupInv' /\ FreshInv'
    <3>1. CASE [RNext]_rollupVars
      <4>1. RollupInv'
        BY <2>1, <3>1, RollupStep
      <4> QED
        BY <2>1, <3>1, <4>1, FreshStep
    <3>2. CASE \E pr \in Procs, t \in Trees, scope \in Scopes, max \in Maxima : FindState(pr, t, scope, max)
      BY <2>1, <3>2, FindStateKeeps
    <3>3. [RNext]_rollupVars \/ \E pr \in Procs, t \in Trees, scope \in Scopes, max \in Maxima : FindState(pr, t, scope, max)
      <4>1. ASSUME NEW pr \in Procs, View(pr) PROVE RNext
        <5>1. tree[pr] \in Trees /\ Here(pr) \in Paths
          BY <2>1, <4>1 DEF View, Continues, Here, SearchInv, SearchRecord, RTypeOK
        <5> QED
          BY <4>1, <5>1 DEF View, RNext
      <4> QED
        BY <4>1 DEF ANext, agentVars, rollupVars, RNext, GetState, Skip, Judge, FindReturns,
           Fails, Dies
    <3> QED
      BY <3>1, <3>2, <3>3
  <2>3. SearchInv'
    BY <2>1, <2>2, SearchStep DEF RollupInv
  <2> QED
    BY <2>2, <2>3 DEF AgentInv
<1> QED
  BY <1>1, <1>2, PTL DEF ASpec

\* get_state returns the view of the whole subtree, each leaf as its log was
\* at some moment of the call: an append that returned before the call began
\* is never missed, for any tree, any number of processes and of logs, and
\* whatever the caches hold, provided that the key tells the versions of the
\* tree apart and reducers see no more of a view than a cache file keeps.
THEOREM AnswerIsFreshHolds == KeysFaithful /\ JsonSafe => (ASpec => []AnswerIsFresh)
<1>1. ASSUME AgentInv PROVE AnswerIsFresh
  <2> SUFFICES ASSUME NEW pr \in Procs, answer[pr] # None
               PROVE  \E r \in Readings(start[pr]) : Json(answer[pr]) = Eval(tree[pr], base[pr], r)
    BY DEF AnswerIsFresh
  <2>1. IsView(tree[pr], base[pr], answer[pr], start[pr], log)
    BY <1>1 DEF AgentInv, FreshInv, CallGood
  <2>2. PICK r \in Between(start[pr], log) : \A q \in AllReadings :
          (\A x \in Under[base[pr]] : q[x] = r[x]) => Json(answer[pr]) = Eval(tree[pr], base[pr], q)
    BY <2>1 DEF IsView
  <2>3. r \in AllReadings
    BY DEF Between
  <2> QED
    BY <2>2, <2>3, ReadingsAre
<1> QED
  BY <1>1, AgentInvariant, PTL

\* "match query inside each node's view JSON" (tools.py:101): a node that
\* find_state names showed the query at some moment of the search, or its view
\* was an error.
THEOREM FoundIsTrueHolds == KeysFaithful /\ JsonSafe => (ASpec => []FoundIsTrue)
<1>1. ASSUME AgentInv PROVE FoundIsTrue
  BY <1>1, ReadingsAre DEF AgentInv, SearchInv, SearchGood, FoundTrue, FoundIsTrue
<1> QED
  BY <1>1, AgentInvariant, PTL

\* What a search missed is what the invariant says it did.
LEMMA MissedIs == \A pr : Missed(pr) = MissedIn(tree[pr], search[pr], log)
BY ReadingsAre DEF Missed, ShownThroughout, MissedIn

\* A search that returns less than max_results has found every node that the
\* glob matches and whose view showed the query throughout, unless its view was
\* an error.
THEOREM NothingMissedHolds == KeysFaithful /\ JsonSafe => (ASpec => []NothingMissed)
<1>1. ASSUME AgentInv PROVE NothingMissed
  BY <1>1, MissedIs DEF AgentInv, SearchInv, SearchGood, CutOff, NothingMissed
<1> QED
  BY <1>1, AgentInvariant, PTL

\* "Breadth-first search" (tools.py:101): matches come top down, each once, and
\* what max_results cut off is not above any that was returned.
THEOREM NearestFirstHolds == KeysFaithful /\ JsonSafe => (ASpec => []NearestFirst)
<1>1. ASSUME AgentInv PROVE NearestFirst
  <2> SUFFICES ASSUME NEW pr \in Procs
               PROVE  LET found == search[pr].found
                      IN  /\ \A i, j \in 1 .. Len(found) :
                               i < j => Depth[found[i]] <= Depth[found[j]] /\ found[i] # found[j]
                          /\ search[pr].pc = "done" /\ found # << >> =>
                               \A p \in Missed(pr) : Depth[p] >= Depth[Last(found)]
    BY DEF NearestFirst
  <2>1. SearchGood(tree[pr], search[pr], log)
    BY <1>1 DEF AgentInv, SearchInv
  <2>2. FoundGood(search[pr].found, search[pr].queue)
    BY <2>1 DEF SearchGood
  <2>3. search[pr].pc = "done" => CutOff(tree[pr], search[pr], log)
    BY <2>1 DEF SearchGood
  <2> QED
    BY <2>2, <2>3, MissedIs DEF FoundGood, CutOff
<1> QED
  BY <1>1, AgentInvariant, PTL
=============================================================================
