-------------------------- MODULE ProcessTreeProofs --------------------------
(***************************************************************************)
(* Proofs about ProcessTree: the nodes on the heap are well formed, and    *)
(* the objects implement PathTree.  Though trees share nodes, each call    *)
(* makes the value it should, and no value made before changes.            *)
(***************************************************************************)
EXTENDS ProcessTree, TLAPS, WellFoundedInduction, SequenceTheorems

-----------------------------------------------------------------------------
(* The inductive invariant. *)

Objects == [name : Names, children : Seq(Nat)]

\* A heap of nodes; the children of a node are older than it.
GoodNode(h, n) ==
  /\ \A i \in 1 .. Len(h[n].children) : h[n].children[i] \in 1 .. n - 1
  /\ \A i, j \in 1 .. Len(h[n].children) :
       h[h[n].children[i]].name = h[h[n].children[j]].name => i = j

GoodHeap(h) == h \in Seq(Objects) /\ \A n \in 1 .. Len(h) : GoodNode(h, n)

TreeInv == GoodHeap(heap) /\ handle \in Seq(1 .. Len(heap))

-----------------------------------------------------------------------------
(* Heaps. *)

\* The least number principle.
LEMMA LeastNat ==
  ASSUME NEW T, T \subseteq Nat, T # {}
  PROVE  \E x \in T : \A y \in T : x <= y
<1> DEFINE less == OpToRel(<, Nat)
<1>1. \A x, y \in Nat : x < y => <<x, y>> \in less
  BY DEF OpToRel
<1>2. IsWellFoundedOn(less, Nat)
  BY NatLessThanWellFounded
<1> HIDE DEF less
<1>3. PICK x \in T : \A y \in T : ~ (<<y, x>> \in less)
  BY <1>2, WFMin
<1>4. ASSUME NEW y \in T PROVE x <= y
  <2>1. x \in Nat /\ y \in Nat
    OBVIOUS
  <2>2. ~ (y < x)
    BY <1>1, <1>3, <2>1
  <2> QED
    BY <2>1, <2>2
<1> QED
  BY <1>4

LEMMA NodeIs ==
  ASSUME NEW h, GoodHeap(h), NEW n \in 1 .. Len(h)
  PROVE  /\ n \in Nat /\ Len(h) \in Nat /\ DOMAIN h = 1 .. Len(h)
         /\ h[n] \in Objects /\ h[n].name \in Names /\ h[n].children \in Seq(Nat)
         /\ Len(h[n].children) \in Nat /\ DOMAIN h[n].children = 1 .. Len(h[n].children)
         /\ \A i \in 1 .. Len(h[n].children) :
              h[n].children[i] \in 1 .. n - 1 /\ h[n].children[i] \in 1 .. Len(h)
         /\ \A i, j \in 1 .. Len(h[n].children) :
              h[h[n].children[i]].name = h[h[n].children[j]].name => i = j
<1>1. h \in Seq(Objects) /\ GoodNode(h, n)
  BY DEF GoodHeap
<1>2. n \in Nat /\ Len(h) \in Nat /\ DOMAIN h = 1 .. Len(h) /\ h[n] \in Objects
  BY <1>1
<1>3. /\ h[n].name \in Names /\ h[n].children \in Seq(Nat)
      /\ Len(h[n].children) \in Nat /\ DOMAIN h[n].children = 1 .. Len(h[n].children)
  BY <1>2 DEF Objects
<1>4. ASSUME NEW i \in 1 .. Len(h[n].children)
      PROVE  h[n].children[i] \in 1 .. n - 1 /\ h[n].children[i] \in 1 .. Len(h)
  <2>1. h[n].children[i] \in 1 .. n - 1
    BY <1>1 DEF GoodNode
  <2> QED
    BY <1>2, <2>1
<1> QED
  BY <1>1, <1>2, <1>3, <1>4 DEF GoodNode

\* A good heap stays one when good nodes are put behind it.
LEMMA HeapGrows ==
  ASSUME NEW h, GoodHeap(h), NEW nodes \in Seq(Objects), NEW g, g = h \o nodes,
         \A j \in 1 .. Len(nodes) : GoodNode(g, Len(h) + j)
  PROVE  /\ GoodHeap(g) /\ Len(g) = Len(h) + Len(nodes) /\ Len(h) \in Nat /\ Len(nodes) \in Nat
         /\ \A n \in 1 .. Len(h) : g[n] = h[n] /\ n \in 1 .. Len(g)
         /\ \A j \in 1 .. Len(nodes) : g[Len(h) + j] = nodes[j] /\ Len(h) + j \in 1 .. Len(g)
<1>1. h \in Seq(Objects) /\ \A n \in 1 .. Len(h) : GoodNode(h, n)
  BY DEF GoodHeap
<1>2. g \in Seq(Objects) /\ Len(g) = Len(h) + Len(nodes) /\ Len(h) \in Nat /\ Len(nodes) \in Nat
  BY <1>1
<1>3. \A n \in 1 .. Len(h) : g[n] = h[n]
  BY <1>1
<1>4. \A j \in 1 .. Len(nodes) : g[Len(h) + j] = nodes[j]
  BY <1>1
<1>5. ASSUME NEW n \in 1 .. Len(h) PROVE GoodNode(g, n)
  <2>1. \A i \in 1 .. Len(h[n].children) :
          h[n].children[i] \in 1 .. n - 1 /\ h[n].children[i] \in 1 .. Len(h)
    BY NodeIs
  <2>2. GoodNode(h, n)
    BY <1>1
  <2> QED
    BY <1>3, <2>1, <2>2 DEF GoodNode
<1>6. ASSUME NEW n \in 1 .. Len(g) PROVE GoodNode(g, n)
  <2>1. n \in 1 .. Len(h) \/ n - Len(h) \in 1 .. Len(nodes)
    BY <1>2
  <2>2. ASSUME n - Len(h) \in 1 .. Len(nodes) PROVE GoodNode(g, n)
    <3>1. n = Len(h) + (n - Len(h))
      BY <1>2
    <3> QED
      BY <2>2, <3>1
  <2> QED
    BY <1>5, <2>1, <2>2
<1>7. \A n \in 1 .. Len(h) : n \in 1 .. Len(g)
  BY <1>2
<1>8. \A j \in 1 .. Len(nodes) : Len(h) + j \in 1 .. Len(g)
  BY <1>2
<1> QED
  BY <1>2, <1>3, <1>4, <1>6, <1>7, <1>8 DEF GoodHeap

-----------------------------------------------------------------------------
(* The way down a path. *)

\* What Position finds: the child of that name, of which there is one.
LEMMA PositionIs ==
  ASSUME GoodHeap(heap), NEW n \in 1 .. Len(heap), NEW name
  PROVE  LET cs == heap[n].children
         IN  \/ Position(n, name) = 0 /\ \A i \in 1 .. Len(cs) : heap[cs[i]].name # name
             \/ /\ Position(n, name) \in 1 .. Len(cs)
                /\ \A i \in 1 .. Len(cs) : heap[cs[i]].name = name <=> i = Position(n, name)
<1> DEFINE cs == heap[n].children
           I == {i \in 1 .. Len(cs) : heap[cs[i]].name = name}
<1>1. Len(cs) \in Nat /\ \A i, j \in 1 .. Len(cs) : heap[cs[i]].name = heap[cs[j]].name => i = j
  BY NodeIs
<1>2. Position(n, name) = IF I # {} THEN CHOOSE x \in I : \A y \in I : x =< y ELSE 0
  BY DEF Position, SelectInSeq, Min
<1>3. ASSUME I # {} PROVE Position(n, name) \in I
  <2>1. I \subseteq Nat
    BY <1>1
  <2> HIDE DEF I
  <2>2. \E x \in I : \A y \in I : x <= y
    BY <1>3, <2>1, LeastNat
  <2> QED
    BY <1>2, <1>3, <2>2
<1> QED
  BY <1>1, <1>2, <1>3

LEMMA ChildIs ==
  ASSUME GoodHeap(heap), NEW n \in 1 .. Len(heap), NEW name, ChildNamed(n, name) # Nowhere
  PROVE  /\ Position(n, name) \in 1 .. Len(heap[n].children)
         /\ ChildNamed(n, name) = heap[n].children[Position(n, name)]
         /\ heap[ChildNamed(n, name)].name = name
         /\ ChildNamed(n, name) \in 1 .. Len(heap)
<1>1. n # Nowhere
  BY NodeIs DEF Nowhere
<1>2. Position(n, name) # 0 /\ ChildNamed(n, name) = heap[n].children[Position(n, name)]
  BY <1>1 DEF ChildNamed
<1>3. Position(n, name) \in 1 .. Len(heap[n].children)
  BY <1>2, PositionIs
<1>4. heap[ChildNamed(n, name)].name = name
  BY <1>2, <1>3, PositionIs
<1> QED
  BY <1>2, <1>3, <1>4, NodeIs

\* A node with a child of that name has it found.
LEMMA ChildFound ==
  ASSUME GoodHeap(heap), NEW n \in 1 .. Len(heap), NEW i \in 1 .. Len(heap[n].children)
  PROVE  ChildNamed(n, heap[heap[n].children[i]].name) = heap[n].children[i]
<1> DEFINE name == heap[heap[n].children[i]].name
<1>1. Position(n, name) = i
  BY PositionIs
<1>2. i # 0 /\ n # Nowhere
  BY NodeIs DEF Nowhere
<1> QED
  BY <1>1, <1>2 DEF ChildNamed

\* To is the way from n down path.
IsWay(n, path, To) ==
  To = [k \in 0 .. Len(path) |-> IF k = 0 THEN n ELSE ChildNamed(To[k - 1], path[k])]

LEMMA WayExists ==
  ASSUME NEW path, Len(path) \in Nat, NEW n
  PROVE  \E To : IsWay(n, path, To)
<1> DEFINE L == Len(path)
           Upto(To, m) == /\ DOMAIN To = 0 .. L
                          /\ \A k \in 0 .. m : To[k] = IF k = 0 THEN n ELSE ChildNamed(To[k - 1], path[k])
           Bad == {m \in 0 .. L : ~ \E To : Upto(To, m)}
<1>1. ASSUME Bad # {} PROVE FALSE
  <2>1. PICK m \in Bad : \A k \in Bad : m <= k
    <3>1. Bad \subseteq Nat
      OBVIOUS
    <3> HIDE DEF Bad
    <3> QED
      BY <1>1, <3>1, LeastNat
  <2>2. m # 0
    <3>1. Upto([k \in 0 .. L |-> n], 0)
      OBVIOUS
    <3> QED
      BY <2>1, <3>1
  <2>3. m \in 1 .. L /\ m - 1 \in 0 .. L
    BY <2>1, <2>2
  <2>4. PICK To : Upto(To, m - 1)
    <3>1. ~ (m <= m - 1)
      BY <2>3
    <3>2. m - 1 \notin Bad
      BY <2>1, <3>1
    <3> QED
      BY <2>3, <3>2
  <2> DEFINE New == [To EXCEPT ![m] = ChildNamed(To[m - 1], path[m])]
  <2>5. DOMAIN New = 0 .. L
    BY <2>4
  <2>6. ASSUME NEW k \in 0 .. m PROVE New[k] = IF k = 0 THEN n ELSE ChildNamed(New[k - 1], path[k])
    <3>1. \A j \in 0 .. m - 1 : New[j] = To[j]
      BY <2>3, <2>4
    <3>2. CASE k = m
      <4>1. New[m] = ChildNamed(To[m - 1], path[m])
        BY <2>3, <2>4
      <4>2. m - 1 \in 0 .. m - 1
        BY <2>3
      <4> HIDE DEF New
      <4> QED
        BY <2>2, <3>1, <3>2, <4>1, <4>2
    <3>3. CASE k # m
      <4>1. k \in 0 .. m - 1
        BY <2>3, <3>3
      <4>2. k # 0 => k - 1 \in 0 .. m - 1
        BY <2>3, <4>1
      <4> HIDE DEF New
      <4> QED
        BY <2>4, <3>1, <4>1, <4>2
    <3> QED
      BY <3>2, <3>3
  <2> HIDE DEF New
  <2>7. Upto(New, m)
    BY <2>5, <2>6
  <2> QED
    BY <2>1, <2>7
<1>2. PICK To : Upto(To, L)
  <2>1. L \in 0 .. L
    OBVIOUS
  <2> QED
    BY <1>1, <2>1
<1> DEFINE Way == [k \in 0 .. L |-> To[k]]
<1>3. \A k \in 0 .. L : Way[k] = To[k]
  OBVIOUS
<1>4. Way = [k \in 0 .. L |-> Way[k]]
  OBVIOUS
<1> HIDE DEF Way
<1>5. \A k \in 0 .. L : Way[k] = IF k = 0 THEN n ELSE ChildNamed(Way[k - 1], path[k])
  <2>1. \A k \in 0 .. L : k # 0 => k - 1 \in 0 .. L
    OBVIOUS
  <2> QED
    BY <1>2, <1>3, <2>1
<1>6. IsWay(n, path, Way)
  BY <1>4, <1>5 DEF IsWay
<1> QED
  BY <1>6

LEMMA AlongIs ==
  ASSUME NEW path, Len(path) \in Nat, NEW n
  PROVE  /\ DOMAIN Along(n, path) = 0 .. Len(path) /\ Along(n, path)[0] = n
         /\ \A k \in 1 .. Len(path) : Along(n, path)[k] = ChildNamed(Along(n, path)[k - 1], path[k])
<1>1. Along(n, path) = CHOOSE To : IsWay(n, path, To)
  BY DEF Along, IsWay
<1>2. IsWay(n, path, Along(n, path))
  BY <1>1, WayExists
<1> DEFINE To == Along(n, path)
<1>3. To = [k \in 0 .. Len(path) |-> IF k = 0 THEN n ELSE ChildNamed(To[k - 1], path[k])]
  BY <1>2 DEF IsWay
<1> HIDE DEF To
<1>4. DOMAIN To = 0 .. Len(path)
  BY <1>3
<1>5. \A k \in 0 .. Len(path) : To[k] = IF k = 0 THEN n ELSE ChildNamed(To[k - 1], path[k])
  BY <1>3
<1>6. \A k \in 1 .. Len(path) : k \in 0 .. Len(path) /\ k # 0
  OBVIOUS
<1>7. 0 \in 0 .. Len(path)
  OBVIOUS
<1> QED
  BY <1>4, <1>5, <1>6, <1>7 DEF To

\* A way that arrives is one of nodes, each a child of the one before.
LEMMA WayArrives ==
  ASSUME GoodHeap(heap), NEW path, Len(path) \in Nat, NEW n \in 1 .. Len(heap), Find(n, path) # Nowhere
  PROVE  /\ \A k \in 0 .. Len(path) : Along(n, path)[k] \in 1 .. Len(heap)
         /\ \A k \in 1 .. Len(path) : LET m == Along(n, path)[k - 1] IN
              /\ Position(m, path[k]) \in 1 .. Len(heap[m].children)
              /\ Along(n, path)[k] = heap[m].children[Position(m, path[k])]
              /\ heap[Along(n, path)[k]].name = path[k]
<1> DEFINE L == Len(path)
           To == Along(n, path)
           Lost == {k \in 0 .. L : To[k] \notin 1 .. Len(heap)}
<1>1. To[0] = n /\ \A k \in 1 .. L : To[k] = ChildNamed(To[k - 1], path[k])
  BY AlongIs
<1>2. To[L] # Nowhere
  BY DEF Find
<1> HIDE DEF To
<1>3. ASSUME Lost # {} PROVE FALSE
  <2>1. PICK k \in Lost : \A j \in Lost : k <= j
    <3>1. Lost \subseteq Nat
      OBVIOUS
    <3> HIDE DEF Lost
    <3> QED
      BY <1>3, <3>1, LeastNat
  <2>2. k \in 1 .. L /\ k - 1 \in 0 .. L
    BY <1>1, <2>1
  <2>3. To[k - 1] \in 1 .. Len(heap)
    <3>1. ~ (k <= k - 1)
      BY <2>2
    <3> QED
      BY <2>1, <2>2, <3>1
  <2>4. To[k] = Nowhere
    BY <1>1, <2>1, <2>2, <2>3, ChildIs
  \* Once nowhere, the way stays there.
  <2> DEFINE Back == {j \in k .. L : To[j] # Nowhere}
  <2>5. ASSUME Back # {} PROVE FALSE
    <3>1. PICK j \in Back : \A i \in Back : j <= i
      <4>1. Back \subseteq Nat
        BY <2>2
      <4> HIDE DEF Back
      <4> QED
        BY <2>5, <4>1, LeastNat
    <3>2. j # k /\ j \in k .. L
      BY <2>4, <3>1
    <3>3. j - 1 \in k .. L /\ ~ (j <= j - 1) /\ j \in 1 .. L
      BY <2>2, <3>2
    <3>4. To[j - 1] = Nowhere
      BY <3>1, <3>3
    <3>5. To[j] = Nowhere
      BY <1>1, <3>3, <3>4 DEF ChildNamed
    <3> QED
      BY <3>1, <3>5
  <2>6. L \in k .. L
    BY <2>2
  <2> QED
    BY <1>2, <2>5, <2>6
<1>4. \A k \in 0 .. L : To[k] \in 1 .. Len(heap)
  BY <1>3
<1>5. ASSUME NEW k \in 1 .. L
      PROVE  /\ Position(To[k - 1], path[k]) \in 1 .. Len(heap[To[k - 1]].children)
             /\ To[k] = heap[To[k - 1]].children[Position(To[k - 1], path[k])]
             /\ heap[To[k]].name = path[k]
  <2>1. k \in 0 .. L /\ k - 1 \in 0 .. L
    OBVIOUS
  <2>2. To[k] = ChildNamed(To[k - 1], path[k]) /\ To[k - 1] \in 1 .. Len(heap) /\ To[k] \in 1 .. Len(heap)
    BY <1>1, <1>4, <2>1
  <2>3. To[k] # Nowhere
    BY <2>2 DEF Nowhere
  <2> QED
    BY <2>2, <2>3, ChildIs
<1> QED
  BY <1>4, <1>5 DEF To

-----------------------------------------------------------------------------
(* The values of nodes. *)

\* The value of n, given those of its children in f.
FromChildren(h, f, n) ==
  [name |-> h[n].name, kids |-> [i \in DOMAIN h[n].children |-> f[h[n].children[i]]]]

IsValues(h, f) == f = [n \in DOMAIN h |-> FromChildren(h, f, n)]

LEMMA ValuesExist ==
  ASSUME NEW h, GoodHeap(h)
  PROVE  \E f : IsValues(h, f)
<1> DEFINE L == Len(h)
           Upto(f, m) == DOMAIN f = 1 .. L /\ \A n \in 1 .. m : f[n] = FromChildren(h, f, n)
           Bad == {m \in 0 .. L : ~ \E f : Upto(f, m)}
<1>1. L \in Nat /\ DOMAIN h = 1 .. L
  BY DEF GoodHeap
<1>2. ASSUME Bad # {} PROVE FALSE
  <2>1. PICK m \in Bad : \A k \in Bad : m <= k
    <3>1. Bad \subseteq Nat
      OBVIOUS
    <3> HIDE DEF Bad
    <3> QED
      BY <1>2, <3>1, LeastNat
  <2>2. m # 0
    <3>1. Upto([n \in 1 .. L |-> 0], 0)
      OBVIOUS
    <3> QED
      BY <2>1, <3>1
  <2>3. m \in 1 .. L /\ m - 1 \in 0 .. L
    BY <1>1, <2>1, <2>2
  <2>4. PICK f : Upto(f, m - 1)
    <3>1. ~ (m <= m - 1)
      BY <2>3
    <3>2. m - 1 \notin Bad
      BY <2>1, <3>1
    <3> QED
      BY <2>3, <3>2
  <2> DEFINE g == [f EXCEPT ![m] = FromChildren(h, f, m)]
  <2>5. /\ DOMAIN g = 1 .. L /\ g[m] = FromChildren(h, f, m)
        /\ \A n \in 1 .. L : n # m => g[n] = f[n]
    BY <2>3, <2>4
  <2> HIDE DEF g
  <2>6. ASSUME NEW n \in 1 .. m PROVE g[n] = FromChildren(h, g, n)
    <3>1. n \in 1 .. L
      BY <2>3
    <3>2. ASSUME NEW i \in 1 .. Len(h[n].children)
          PROVE  h[n].children[i] \in 1 .. L /\ h[n].children[i] # m
      <4>1. h[n].children[i] \in 1 .. n - 1 /\ h[n].children[i] \in 1 .. L /\ n \in Nat
        BY <3>1, NodeIs
      <4> QED
        BY <2>3, <4>1
    <3>3. DOMAIN h[n].children = 1 .. Len(h[n].children)
      BY <3>1, NodeIs
    <3>4. [i \in DOMAIN h[n].children |-> g[h[n].children[i]]] = [i \in DOMAIN h[n].children |-> f[h[n].children[i]]]
      BY <2>5, <3>2, <3>3
    <3>5. FromChildren(h, g, n) = FromChildren(h, f, n)
      BY <3>4 DEF FromChildren
    <3>6. CASE n = m
      BY <2>5, <3>5, <3>6
    <3>7. CASE n # m
      <4>1. n \in 1 .. m - 1
        BY <2>3, <3>7
      <4> QED
        BY <2>4, <2>5, <3>1, <3>5, <3>7, <4>1
    <3> QED
      BY <3>6, <3>7
  <2>7. Upto(g, m)
    BY <2>5, <2>6
  <2> QED
    BY <2>1, <2>7
<1>3. PICK f : Upto(f, L)
  <2>1. L \in 0 .. L
    BY <1>1
  <2> QED
    BY <1>2, <2>1
<1> DEFINE g == [n \in 1 .. L |-> f[n]]
<1>4. g = [n \in 1 .. L |-> g[n]] /\ \A n \in 1 .. L : g[n] = f[n]
  OBVIOUS
<1> HIDE DEF g
<1>5. ASSUME NEW n \in 1 .. L PROVE g[n] = FromChildren(h, g, n)
  <2>1. \A i \in DOMAIN h[n].children : h[n].children[i] \in 1 .. L
    BY NodeIs
  <2>2. [i \in DOMAIN h[n].children |-> g[h[n].children[i]]] = [i \in DOMAIN h[n].children |-> f[h[n].children[i]]]
    BY <1>4, <2>1
  <2>3. FromChildren(h, g, n) = FromChildren(h, f, n)
    BY <2>2 DEF FromChildren
  <2> QED
    BY <1>3, <1>4, <2>3
<1>6. IsValues(h, g)
  BY <1>1, <1>4, <1>5 DEF IsValues
<1> QED
  BY <1>6

SameValues(h, f, e) == \A n \in 1 .. Len(h) : e[n] = f[n]

\* Nodes that a heap keeps keep their values.
LEMMA ValuesSame ==
  ASSUME NEW h, NEW g, GoodHeap(h), GoodHeap(g), Len(h) <= Len(g), \A n \in 1 .. Len(h) : g[n] = h[n],
         NEW f, NEW e, IsValues(h, f), IsValues(g, e)
  PROVE  SameValues(h, f, e)
<1> DEFINE Bad == {n \in 1 .. Len(h) : e[n] # f[n]}
<1> SUFFICES ASSUME Bad # {} PROVE FALSE
  BY DEF SameValues
<1>1. Len(h) \in Nat /\ Len(g) \in Nat /\ DOMAIN h = 1 .. Len(h) /\ DOMAIN g = 1 .. Len(g)
  BY DEF GoodHeap
<1>2. PICK n \in Bad : \A k \in Bad : n <= k
  <2>1. Bad \subseteq Nat
    BY <1>1
  <2> HIDE DEF Bad
  <2> QED
    BY <2>1, LeastNat
<1>3. n \in 1 .. Len(h) /\ n \in 1 .. Len(g)
  BY <1>1, <1>2
<1>4. \A i \in 1 .. Len(h[n].children) : e[h[n].children[i]] = f[h[n].children[i]]
  <2> SUFFICES ASSUME NEW i \in 1 .. Len(h[n].children) PROVE e[h[n].children[i]] = f[h[n].children[i]]
    OBVIOUS
  <2>1. h[n].children[i] \in 1 .. n - 1 /\ h[n].children[i] \in 1 .. Len(h) /\ n \in Nat
    BY <1>3, NodeIs
  <2>2. ~ (n <= h[n].children[i])
    BY <2>1
  <2> QED
    BY <1>2, <2>1, <2>2
<1>5. DOMAIN h[n].children = 1 .. Len(h[n].children)
  BY <1>3, NodeIs
<1>6. [i \in DOMAIN h[n].children |-> e[h[n].children[i]]] = [i \in DOMAIN h[n].children |-> f[h[n].children[i]]]
  BY <1>4, <1>5
<1>7. f[n] = FromChildren(h, f, n)
  BY <1>1, <1>3 DEF IsValues
<1>8. e[n] = FromChildren(g, e, n)
  BY <1>1, <1>3 DEF IsValues
<1>9. g[n] = h[n]
  BY <1>3
<1>10. e[n] = f[n]
  BY <1>6, <1>7, <1>8, <1>9 DEF FromChildren
<1> QED
  BY <1>2, <1>10

LEMMA ValueOfIs == GoodHeap(heap) => IsValues(heap, ValueOf)
<1> SUFFICES ASSUME GoodHeap(heap) PROVE IsValues(heap, ValueOf)
  OBVIOUS
<1>1. ValueOf = CHOOSE f : IsValues(heap, f)
  BY DEF ValueOf, IsValues, FromChildren
<1> QED
  BY <1>1, ValuesExist

LEMMA NewValueOfIs == GoodHeap(heap') => IsValues(heap', ValueOf')
<1> SUFFICES ASSUME GoodHeap(heap') PROVE IsValues(heap', ValueOf')
  OBVIOUS
<1>1. ValueOf' = CHOOSE f : IsValues(heap', f)
  BY DEF ValueOf, IsValues, FromChildren
<1> QED
  BY <1>1, ValuesExist

\* What is known of the value of a node.
GoodValue(h, f, n) ==
  /\ f[n] = [name |-> h[n].name, kids |-> [i \in 1 .. Len(h[n].children) |-> f[h[n].children[i]]]]
  /\ f[n].name = h[n].name /\ Len(f[n].kids) = Len(h[n].children)
  /\ f[n].kids \in Seq({f[k] : k \in 1 .. Len(h)})
  /\ \A i \in 1 .. Len(h[n].children) :
       f[n].kids[i] = f[h[n].children[i]] /\ f[n].kids[i].name = h[h[n].children[i]].name

LEMMA ValueIs ==
  ASSUME NEW h, GoodHeap(h), NEW f, IsValues(h, f), NEW n \in 1 .. Len(h)
  PROVE  GoodValue(h, f, n)
<1>1. DOMAIN h = 1 .. Len(h) /\ Len(h) \in Nat
  BY DEF GoodHeap
<1>2. \A k \in 1 .. Len(h) : f[k] = FromChildren(h, f, k)
  BY <1>1 DEF IsValues
<1>3. ASSUME NEW k \in 1 .. Len(h) PROVE f[k].name = h[k].name
  <2>1. f[k] = FromChildren(h, f, k)
    BY <1>2
  <2> QED
    BY <2>1 DEF FromChildren
<1>4. /\ DOMAIN h[n].children = 1 .. Len(h[n].children) /\ Len(h[n].children) \in Nat
      /\ \A i \in 1 .. Len(h[n].children) : h[n].children[i] \in 1 .. Len(h)
  BY NodeIs
<1>5. f[n] = [name |-> h[n].name, kids |-> [i \in 1 .. Len(h[n].children) |-> f[h[n].children[i]]]]
  BY <1>2, <1>4 DEF FromChildren
<1> DEFINE T == {f[k] : k \in 1 .. Len(h)}
           ks == [i \in 1 .. Len(h[n].children) |-> f[h[n].children[i]]]
<1>6. ks \in [1 .. Len(h[n].children) -> T]
  BY <1>4
<1>7. f[n].kids = ks
  BY <1>5
<1> HIDE DEF T
<1>8. ks \in Seq(T) /\ Len(ks) = Len(h[n].children)
  <2> HIDE DEF ks
  <2> QED
    BY <1>4, <1>6
<1>9. \A i \in 1 .. Len(h[n].children) : ks[i] = f[h[n].children[i]]
  OBVIOUS
<1> HIDE DEF ks
<1> QED
  BY <1>3, <1>4, <1>5, <1>7, <1>8, <1>9 DEF T, GoodValue

-----------------------------------------------------------------------------
(* Values on the way. *)

\* The child's place in the value is its place among the node's children.
LEMMA PlaceIs ==
  ASSUME GoodHeap(heap), NEW n \in 1 .. Len(heap), NEW name, Position(n, name) # 0
  PROVE  V!Place(ValueOf[n], name) = Position(n, name)
<1> DEFINE v == ValueOf[n]
<1>1. GoodValue(heap, ValueOf, n)
  BY ValueOfIs, ValueIs
<1>2. Len(v.kids) = Len(heap[n].children)
  BY <1>1 DEF GoodValue
<1>3. \A i \in 1 .. Len(heap[n].children) : v.kids[i].name = heap[heap[n].children[i]].name
  BY <1>1 DEF GoodValue
<1>4. /\ Position(n, name) \in 1 .. Len(heap[n].children)
      /\ \A i \in 1 .. Len(heap[n].children) : heap[heap[n].children[i]].name = name <=> i = Position(n, name)
  BY PositionIs
<1> HIDE DEF v
<1>5. /\ Position(n, name) \in 1 .. Len(v.kids)
      /\ \A i \in 1 .. Len(v.kids) : v.kids[i].name = name <=> i = Position(n, name)
  BY <1>2, <1>3, <1>4
<1>6. V!Place(v, name) = Position(n, name)
  BY <1>5 DEF V!Place
<1> QED
  BY <1>6 DEF v

LEMMA NamesAre ==
  ASSUME GoodHeap(heap), NEW n \in 1 .. Len(heap)
  PROVE  V!NamesOf(ValueOf[n]) = {heap[heap[n].children[i]].name : i \in 1 .. Len(heap[n].children)}
<1>1. GoodValue(heap, ValueOf, n)
  BY ValueOfIs, ValueIs
<1>2. Len(ValueOf[n].kids) = Len(heap[n].children)
  BY <1>1 DEF GoodValue
<1>3. \A i \in 1 .. Len(heap[n].children) : ValueOf[n].kids[i].name = heap[heap[n].children[i]].name
  BY <1>1 DEF GoodValue
<1> QED
  BY <1>2, <1>3 DEF V!NamesOf

IsValueWay(v, p, To) ==
  To = [k \in 0 .. Len(p) |-> IF k = 0 THEN v ELSE To[k - 1].kids[V!Place(To[k - 1], p[k])]]

\* The values along the way are those of the nodes along it.
LEMMA ValuesAlong ==
  ASSUME GoodHeap(heap), NEW path, Len(path) \in Nat, NEW n \in 1 .. Len(heap), Find(n, path) # Nowhere
  PROVE  \A k \in 0 .. Len(path) : V!Way(ValueOf[n], path)[k] = ValueOf[Along(n, path)[k]]
<1> DEFINE L == Len(path)
           To == Along(n, path)
           v == ValueOf[n]
           Values == [k \in 0 .. L |-> ValueOf[To[k]]]
           W == V!Way(v, path)
<1>1. \A m \in 1 .. Len(heap) : GoodValue(heap, ValueOf, m)
  BY ValueOfIs, ValueIs
<1>2. To[0] = n /\ \A k \in 0 .. L : To[k] \in 1 .. Len(heap)
  BY AlongIs, WayArrives
<1>3. ASSUME NEW k \in 1 .. L
      PROVE  /\ Position(To[k - 1], path[k]) \in 1 .. Len(heap[To[k - 1]].children)
             /\ To[k] = heap[To[k - 1]].children[Position(To[k - 1], path[k])]
  BY WayArrives
<1> HIDE DEF To
<1>4. ASSUME NEW k \in 1 .. L
      PROVE  ValueOf[To[k]] = ValueOf[To[k - 1]].kids[V!Place(ValueOf[To[k - 1]], path[k])]
  <2>1. k - 1 \in 0 .. L
    OBVIOUS
  <2>2. To[k - 1] \in 1 .. Len(heap)
    BY <1>2, <2>1
  <2> DEFINE m == To[k - 1]
             i == Position(m, path[k])
  <2>3. i \in 1 .. Len(heap[m].children) /\ To[k] = heap[m].children[i] /\ i # 0
    BY <1>3
  <2> HIDE DEF m, i
  <2>4. ValueOf[m].kids[i] = ValueOf[To[k]]
    <3>1. GoodValue(heap, ValueOf, m)
      BY <1>1, <2>2 DEF m
    <3> QED
      BY <2>3, <3>1 DEF GoodValue
  <2>5. V!Place(ValueOf[m], path[k]) = i
    BY <2>2, <2>3, PlaceIs DEF m, i
  <2> QED
    BY <2>4, <2>5 DEF m
<1>5. \A k \in 0 .. L : Values[k] = ValueOf[To[k]]
  OBVIOUS
<1>6. Values = [k \in 0 .. L |-> Values[k]]
  OBVIOUS
<1> HIDE DEF Values
<1>7. \A k \in 0 .. L : Values[k] = IF k = 0 THEN v ELSE Values[k - 1].kids[V!Place(Values[k - 1], path[k])]
  <2> SUFFICES ASSUME NEW k \in 0 .. L
               PROVE  Values[k] = IF k = 0 THEN v ELSE Values[k - 1].kids[V!Place(Values[k - 1], path[k])]
    OBVIOUS
  <2>1. CASE k = 0
    BY <1>2, <1>5, <2>1
  <2>2. CASE k # 0
    <3>1. k \in 1 .. L /\ k - 1 \in 0 .. L
      BY <2>2
    <3> QED
      BY <1>4, <1>5, <2>2, <3>1
  <2> QED
    BY <2>1, <2>2
<1>8. IsValueWay(v, path, Values)
  BY <1>6, <1>7 DEF IsValueWay
<1>9. W = CHOOSE f : IsValueWay(v, path, f)
  BY DEF V!Way, IsValueWay
<1>10. IsValueWay(v, path, W)
  BY <1>8, <1>9
<1> HIDE DEF W
<1>11. \A k \in 0 .. L : W[k] = IF k = 0 THEN v ELSE W[k - 1].kids[V!Place(W[k - 1], path[k])]
  BY <1>10 DEF IsValueWay
<1> DEFINE Bad == {k \in 0 .. L : W[k] # Values[k]}
<1>12. ASSUME Bad # {} PROVE FALSE
  <2>1. PICK k \in Bad : \A j \in Bad : k <= j
    <3>1. Bad \subseteq Nat
      OBVIOUS
    <3> HIDE DEF Bad
    <3> QED
      BY <1>12, <3>1, LeastNat
  <2>2. k # 0
    BY <1>7, <1>11, <2>1
  <2>3. k \in 1 .. L /\ k - 1 \in 0 .. L /\ ~ (k <= k - 1)
    BY <2>1, <2>2
  <2>4. W[k - 1] = Values[k - 1]
    BY <2>1, <2>3
  <2>5. W[k] = Values[k]
    BY <1>7, <1>11, <2>1, <2>2, <2>4
  <2> QED
    BY <2>1, <2>5
<1> QED
  BY <1>5, <1>12 DEF W, To

LEMMA AtIs ==
  ASSUME GoodHeap(heap), NEW path, Len(path) \in Nat, NEW n \in 1 .. Len(heap), Find(n, path) # Nowhere
  PROVE  V!At(ValueOf[n], path) = ValueOf[Find(n, path)] /\ Find(n, path) \in 1 .. Len(heap)
<1>1. Len(path) \in 0 .. Len(path)
  OBVIOUS
<1> QED
  BY <1>1, ValuesAlong, WayArrives DEF V!At, Find

LEMMA PathIs ==
  ASSUME GoodHeap(heap), NEW path, Len(path) \in Nat, NEW n \in 1 .. Len(heap), Find(n, path) # Nowhere
  PROVE  V!IsPath(ValueOf[n], path)
<1> SUFFICES ASSUME NEW k \in 1 .. Len(path)
             PROVE  path[k] \in V!NamesOf(V!Way(ValueOf[n], path)[k - 1])
  BY DEF V!IsPath
<1> DEFINE m == Along(n, path)[k - 1]
<1>1. k - 1 \in 0 .. Len(path)
  OBVIOUS
<1>2. V!Way(ValueOf[n], path)[k - 1] = ValueOf[m] /\ m \in 1 .. Len(heap)
  BY <1>1, ValuesAlong, WayArrives
<1>3. \E i \in 1 .. Len(heap[m].children) : heap[heap[m].children[i]].name = path[k]
  <2> DEFINE i == Position(m, path[k])
  <2>1. /\ i \in 1 .. Len(heap[m].children) /\ Along(n, path)[k] = heap[m].children[i]
        /\ heap[Along(n, path)[k]].name = path[k]
    BY WayArrives
  <2> HIDE DEF m, i
  <2> QED
    BY <2>1
<1> HIDE DEF m
<1> QED
  BY <1>2, <1>3, NamesAre

-----------------------------------------------------------------------------
(* The copies that spawn and prune make. *)

\* A node may have these children: nodes of the heap with names of their own.
GoodChildren(h, children) ==
  /\ children \in Seq(Nat) /\ \A i \in 1 .. Len(children) : children[i] \in 1 .. Len(h)
  /\ \A i, j \in 1 .. Len(children) : h[children[i]].name = h[children[j]].name => i = j

\* The j-th copy: of the node j - 1 above the end of the path.
Copied(root, path, j) == Along(root, path)[Len(path) + 1 - j]

CopyIs(root, path, children, j) ==
  LET node == Copied(root, path, j)
      copy == Spine(root, path, children)[j]
      i    == Position(node, path[Len(path) + 2 - j])
  IN  /\ node \in 1 .. Len(heap) /\ copy \in Objects /\ copy.name = heap[node].name
      /\ j = 1 => copy.children = children
      /\ j # 1 => /\ i \in 1 .. Len(heap[node].children)
                  /\ copy.children = [heap[node].children EXCEPT ![i] = Len(heap) + j - 1]
                  /\ Len(copy.children) = Len(heap[node].children)
                  /\ heap[node].children[i] = Copied(root, path, j - 1)

LEMMA SpineIs ==
  ASSUME GoodHeap(heap), NEW path, Len(path) \in Nat, NEW root \in 1 .. Len(heap),
         Find(root, path) # Nowhere, NEW children, children \in Seq(Nat)
  PROVE  /\ DOMAIN Spine(root, path, children) = 1 .. Len(path) + 1
         /\ \A j \in 1 .. Len(path) + 1 : CopyIs(root, path, children, j)
         /\ Spine(root, path, children) \in Seq(Objects)
         /\ Len(Spine(root, path, children)) = Len(path) + 1
<1> DEFINE L == Len(path)
           S == Spine(root, path, children)
           Node(j) == Along(root, path)[L + 1 - j]
<1>1. /\ DOMAIN S = 1 .. L + 1
      /\ \A j \in 1 .. L + 1 :
           S[j] = IF j = 1 THEN [heap[Node(j)] EXCEPT !.children = children]
                  ELSE [heap[Node(j)] EXCEPT
                          !.children[Position(Node(j), path[L + 2 - j])] = Len(heap) + j - 1]
      /\ S = [j \in 1 .. L + 1 |-> S[j]]
  BY DEF Spine
<1>2. Len(heap) \in Nat
  BY DEF GoodHeap
<1> HIDE DEF S
<1>3. ASSUME NEW j \in 1 .. L + 1 PROVE CopyIs(root, path, children, j)
  <2> DEFINE node == Node(j)
             i == Position(node, path[L + 2 - j])
  <2>1. L + 1 - j \in 0 .. L
    OBVIOUS
  <2>2. node \in 1 .. Len(heap)
    BY <2>1, WayArrives
  <2>3. heap[node] \in Objects /\ heap[node].children \in Seq(Nat)
    BY <2>2, NodeIs
  <2>4. CASE j = 1
    <3>1. S[j] = [heap[node] EXCEPT !.children = children]
      BY <1>1, <2>4
    <3> HIDE DEF node
    <3>2. S[j] \in Objects /\ S[j].name = heap[node].name /\ S[j].children = children
      BY <2>3, <3>1 DEF Objects
    <3> QED
      BY <2>2, <2>4, <3>2 DEF CopyIs, Copied, node, S
  <2>5. CASE j # 1
    <3>1. L + 2 - j \in 1 .. L /\ (L + 2 - j) - 1 = L + 1 - j /\ L + 1 - (j - 1) = L + 2 - j
      BY <2>5
    <3>2. /\ i \in 1 .. Len(heap[node].children)
          /\ heap[node].children[i] = Along(root, path)[L + 2 - j]
      <4> DEFINE k == L + 2 - j
      <4>1. k \in 1 .. L /\ Along(root, path)[k - 1] = node
        BY <3>1
      <4>2. i = Position(node, path[k])
        OBVIOUS
      <4> HIDE DEF k, i, node
      <4>3. /\ Position(node, path[k]) \in 1 .. Len(heap[node].children)
            /\ Along(root, path)[k] = heap[node].children[Position(node, path[k])]
        BY <4>1, WayArrives
      <4> QED
        BY <4>2, <4>3 DEF k
    <3>3. S[j] = [heap[node] EXCEPT !.children[i] = Len(heap) + j - 1]
      BY <1>1, <2>5
    <3>4. Len(heap) + j - 1 \in Nat
      BY <1>2
    <3> DEFINE cs == [heap[node].children EXCEPT ![i] = Len(heap) + j - 1]
    <3> HIDE DEF node, i
    <3>5. cs \in Seq(Nat) /\ Len(cs) = Len(heap[node].children)
      BY <2>3, <3>2, <3>4
    <3>6. S[j] = [heap[node] EXCEPT !.children = cs]
      BY <3>3
    <3> HIDE DEF cs
    <3>7. S[j] \in Objects /\ S[j].name = heap[node].name /\ S[j].children = cs
      BY <2>3, <3>5, <3>6 DEF Objects
    <3>8. heap[node].children[i] = Copied(root, path, j - 1)
      BY <3>1, <3>2 DEF Copied
    <3>9. node = Copied(root, path, j) /\ i = Position(node, path[Len(path) + 2 - j])
      BY DEF node, i, Copied
    <3> QED
      BY <2>2, <2>5, <3>2, <3>5, <3>7, <3>8, <3>9 DEF CopyIs, S, cs
  <2> QED
    BY <2>4, <2>5
<1>4. \A j \in 1 .. L + 1 : S[j] \in Objects
  BY <1>3 DEF CopyIs, S
<1>5. S \in [1 .. L + 1 -> Objects]
  BY <1>1, <1>4
<1>6. S \in Seq(Objects) /\ Len(S) = L + 1
  BY <1>5
<1> QED
  BY <1>1, <1>3, <1>6 DEF S

Grown(g, root, path, children) ==
  /\ GoodHeap(g) /\ Len(g) = Len(heap) + Len(path) + 1
  /\ \A n \in 1 .. Len(heap) : g[n] = heap[n]
  /\ \A j \in 1 .. Len(path) + 1 :
       g[Len(heap) + j] = Spine(root, path, children)[j] /\ Len(heap) + j \in 1 .. Len(g)

\* The copies keep the heap a good one.
LEMMA SpineGood ==
  ASSUME GoodHeap(heap), NEW path, Len(path) \in Nat, NEW root \in 1 .. Len(heap),
         Find(root, path) # Nowhere, NEW children, GoodChildren(heap, children),
         NEW g, g = heap \o Spine(root, path, children)
  PROVE  Grown(g, root, path, children)
<1> DEFINE L == Len(path)
           S == Spine(root, path, children)
           N == Len(heap)
<1>1. S \in Seq(Objects) /\ Len(S) = L + 1 /\ \A j \in 1 .. L + 1 : CopyIs(root, path, children, j)
  BY SpineIs DEF GoodChildren
<1>2. heap \in Seq(Objects) /\ N \in Nat
  BY DEF GoodHeap
<1> HIDE DEF S
<1>3. g = heap \o S
  BY DEF S
<1>4. /\ \A n \in 1 .. N : g[n] = heap[n]
      /\ \A j \in 1 .. L + 1 : g[N + j] = S[j]
  BY <1>1, <1>2, <1>3
<1>5. ASSUME NEW j \in 1 .. Len(S) PROVE GoodNode(g, N + j)
  <2>1. j \in 1 .. L + 1 /\ CopyIs(root, path, children, j) /\ g[N + j] = S[j]
    BY <1>1, <1>4
  <2>2. CASE j = 1
    <3>1. g[N + j].children = children
      BY <2>1, <2>2 DEF CopyIs, S
    <3>2. \A i \in 1 .. Len(children) : children[i] \in 1 .. N + j - 1 /\ g[children[i]] = heap[children[i]]
      BY <1>2, <1>4, <2>2 DEF GoodChildren
    <3> QED
      BY <3>1, <3>2 DEF GoodNode, GoodChildren
  <2>3. CASE j # 1
    <3> DEFINE node == Copied(root, path, j)
               old == heap[node].children
               i == Position(node, path[L + 2 - j])
               cs == [old EXCEPT ![i] = N + j - 1]
    <3>1. /\ node \in 1 .. N /\ i \in 1 .. Len(old) /\ g[N + j].children = cs /\ Len(cs) = Len(old)
          /\ old[i] = Copied(root, path, j - 1)
      BY <2>1, <2>3 DEF CopyIs, S
    <3>2. /\ old \in Seq(Nat) /\ \A k \in 1 .. Len(old) : old[k] \in 1 .. N
          /\ \A k, m \in 1 .. Len(old) : heap[old[k]].name = heap[old[m]].name => k = m
      BY <3>1, NodeIs
    <3>3. j - 1 \in 1 .. L + 1 /\ CopyIs(root, path, children, j - 1)
      BY <1>1, <2>1, <2>3
    <3>4. g[N + (j - 1)].name = heap[old[i]].name
      BY <1>4, <3>1, <3>3 DEF CopyIs, S
    <3>5. N + (j - 1) = N + j - 1 /\ N + j - 1 \in 1 .. (N + j) - 1 /\ \A k \in 1 .. N : k \in 1 .. (N + j) - 1
      BY <1>2, <3>3
    <3> HIDE DEF node, old, i
    <3>6. \A k \in 1 .. Len(old) : cs[k] = IF k = i THEN N + j - 1 ELSE old[k]
      BY <3>2
    <3>7. ASSUME NEW k \in 1 .. Len(old)
          PROVE  cs[k] \in 1 .. (N + j) - 1 /\ g[cs[k]].name = heap[old[k]].name
      <4>1. CASE k = i
        BY <3>4, <3>5, <3>6, <4>1
      <4>2. CASE k # i
        BY <1>4, <3>2, <3>5, <3>6, <4>2
      <4> QED
        BY <4>1, <4>2
    <3> HIDE DEF cs
    <3>8. \A k \in 1 .. Len(cs) : cs[k] \in 1 .. (N + j) - 1
      BY <3>1, <3>7
    <3>9. \A k, m \in 1 .. Len(cs) : g[cs[k]].name = g[cs[m]].name => k = m
      <4> SUFFICES ASSUME NEW k \in 1 .. Len(old), NEW m \in 1 .. Len(old), g[cs[k]].name = g[cs[m]].name
                   PROVE  k = m
        BY <3>1
      <4>1. heap[old[k]].name = heap[old[m]].name
        BY <3>7
      <4> QED
        BY <3>2, <4>1
    <3> QED
      BY <3>1, <3>8, <3>9 DEF GoodNode
  <2> QED
    BY <2>2, <2>3
<1>6. /\ GoodHeap(g) /\ Len(g) = N + Len(S)
      /\ \A j \in 1 .. Len(S) : N + j \in 1 .. Len(g)
  BY <1>1, <1>3, <1>5, HeapGrows
<1>7. Len(g) = N + L + 1
  BY <1>1, <1>2, <1>6
<1> QED
  BY <1>1, <1>4, <1>6, <1>7 DEF S, Grown
-----------------------------------------------------------------------------
(* The value that the copies make. *)

IsPut(v, p, w, New) ==
  New = [k \in 0 .. Len(p) |->
           IF k = 0 THEN w
           ELSE [V!Way(v, p)[Len(p) - k] EXCEPT
                   !.kids[V!Place(V!Way(v, p)[Len(p) - k], p[Len(p) - k + 1])] = New[k - 1]]]

\* There is one such function.
LEMMA PutIs ==
  ASSUME NEW v, NEW p, Len(p) \in Nat, NEW w, NEW New, IsPut(v, p, w, New)
  PROVE  V!Put(v, p, w) = New[Len(p)]
<1> DEFINE L == Len(p)
           One == CHOOSE f : IsPut(v, p, w, f)
           Old(k) == V!Way(v, p)[L - k]
           Step(k, x) == [Old(k) EXCEPT !.kids[V!Place(Old(k), p[L - k + 1])] = x]
<1>1. V!Put(v, p, w) = One[L]
  BY DEF V!Put, IsPut
<1>2. IsPut(v, p, w, One)
  OBVIOUS
<1> HIDE DEF One
<1>3. \A k \in 0 .. L : One[k] = IF k = 0 THEN w ELSE Step(k, One[k - 1])
  BY <1>2 DEF IsPut
<1>4. \A k \in 0 .. L : New[k] = IF k = 0 THEN w ELSE Step(k, New[k - 1])
  BY DEF IsPut
<1> HIDE DEF Step
<1> DEFINE Bad == {k \in 0 .. L : One[k] # New[k]}
<1>5. ASSUME Bad # {} PROVE FALSE
  <2>1. PICK k \in Bad : \A j \in Bad : k <= j
    <3>1. Bad \subseteq Nat
      OBVIOUS
    <3> HIDE DEF Bad
    <3> QED
      BY <1>5, <3>1, LeastNat
  <2>2. k # 0
    BY <1>3, <1>4, <2>1
  <2>3. k - 1 \in 0 .. L /\ ~ (k <= k - 1) /\ k \in 0 .. L
    BY <2>1, <2>2
  <2>4. One[k - 1] = New[k - 1]
    BY <2>1, <2>3
  <2>5. One[k] = New[k]
    BY <1>3, <1>4, <2>2, <2>3, <2>4
  <2> QED
    BY <2>1, <2>5
<1>6. L \in 0 .. L
  OBVIOUS
<1> QED
  BY <1>1, <1>5, <1>6

CopyPuts(e, root, path, k) ==
  LET old == V!Way(ValueOf[root], path)[Len(path) - k]
  IN  e[Len(heap) + k + 1] =
        [old EXCEPT !.kids[V!Place(old, path[Len(path) - k + 1])] = e[Len(heap) + k]]

\* The k-th copy from the end of the path has the value that Put makes there.
LEMMA CopyValue ==
  ASSUME GoodHeap(heap), NEW path, Len(path) \in Nat, NEW root \in 1 .. Len(heap),
         Find(root, path) # Nowhere, NEW children, GoodChildren(heap, children),
         NEW g, g = heap \o Spine(root, path, children), NEW e, IsValues(g, e),
         NEW k \in 1 .. Len(path)
  PROVE  CopyPuts(e, root, path, k)
<1> DEFINE L == Len(path)
           N == Len(heap)
           S == Spine(root, path, children)
           node == Copied(root, path, k + 1)
           i == Position(node, path[L - k + 1])
           cs == heap[node].children
           copy == S[k + 1]
<1>1. /\ GoodHeap(g) /\ Len(g) = N + L + 1 /\ \A n \in 1 .. N : g[n] = heap[n]
      /\ \A j \in 1 .. L + 1 : g[N + j] = S[j] /\ N + j \in 1 .. Len(g)
  <2>1. Grown(g, root, path, children)
    BY SpineGood
  <2> QED
    BY <2>1 DEF Grown
<1>2. N \in Nat /\ IsValues(heap, ValueOf) /\ k + 1 \in 1 .. L + 1 /\ k + 1 # 1
  BY ValueOfIs DEF GoodHeap
<1>3. \A n \in 1 .. N : e[n] = ValueOf[n]
  <2>1. Len(heap) <= Len(g)
    BY <1>1, <1>2
  <2>2. SameValues(heap, ValueOf, e)
    BY <1>1, <1>2, <2>1, ValuesSame
  <2> QED
    BY <2>2 DEF SameValues
<1>4. L + 2 - (k + 1) = L - k + 1 /\ N + (k + 1) - 1 = N + k /\ N + (k + 1) = N + k + 1 /\ L + 1 - (k + 1) = L - k
  BY <1>2
<1>5. CopyIs(root, path, children, k + 1)
  BY <1>2, SpineIs DEF GoodChildren
<1>6. /\ node \in 1 .. N /\ copy.name = heap[node].name /\ i \in 1 .. Len(cs)
      /\ copy.children = [cs EXCEPT ![i] = N + k] /\ Len(copy.children) = Len(cs)
  BY <1>2, <1>4, <1>5 DEF CopyIs
<1>7. cs \in Seq(Nat) /\ \A m \in 1 .. Len(cs) : cs[m] \in 1 .. N
  BY <1>6, NodeIs
<1>8. GoodValue(g, e, N + k + 1) /\ g[N + k + 1] = copy
  BY <1>1, <1>2, <1>4, ValueIs
<1>9. GoodValue(heap, ValueOf, node)
  BY <1>2, <1>6, ValueIs
<1>10. V!Way(ValueOf[root], path)[L - k] = ValueOf[node]
  <2>1. L - k \in 0 .. L
    OBVIOUS
  <2> QED
    BY <1>4, <2>1, ValuesAlong DEF Copied
<1>11. V!Place(ValueOf[node], path[L - k + 1]) = i
  <2>1. i # 0
    BY <1>6
  <2> QED
    BY <1>6, <2>1, PlaceIs
<1> HIDE DEF node, copy, i
<1>12. e[N + k + 1] = [name |-> heap[node].name, kids |-> [m \in 1 .. Len(cs) |-> e[copy.children[m]]]]
  BY <1>6, <1>8 DEF GoodValue
<1>13. ValueOf[node] = [name |-> heap[node].name, kids |-> [m \in 1 .. Len(cs) |-> ValueOf[cs[m]]]]
  BY <1>9 DEF GoodValue
<1> DEFINE before == [m \in 1 .. Len(cs) |-> ValueOf[cs[m]]]
           after == [m \in 1 .. Len(cs) |-> e[copy.children[m]]]
<1>14. after = [before EXCEPT ![i] = e[N + k]]
  <2>1. \A m \in 1 .. Len(cs) : copy.children[m] = IF m = i THEN N + k ELSE cs[m]
    BY <1>6, <1>7
  <2>2. \A m \in 1 .. Len(cs) : e[copy.children[m]] = IF m = i THEN e[N + k] ELSE ValueOf[cs[m]]
    BY <1>3, <1>7, <2>1
  <2> QED
    BY <1>6, <2>2
<1> HIDE DEF before, after
<1>15. e[N + k + 1] = [name |-> heap[node].name, kids |-> after] /\ ValueOf[node] = [name |-> heap[node].name, kids |-> before]
  BY <1>12, <1>13 DEF before, after
<1>16. e[N + k + 1] = [ValueOf[node] EXCEPT !.kids[i] = e[N + k]]
  BY <1>14, <1>15
<1> QED
  BY <1>10, <1>11, <1>16 DEF CopyPuts

\* x is the value of root with these children for the node at path.
PutThere(x, root, path, children) ==
  x = V!Put(ValueOf[root], path, [V!At(ValueOf[root], path) EXCEPT
        !.kids = [i \in 1 .. Len(children) |-> ValueOf[children[i]]]])

LEMMA SpineValue ==
  ASSUME GoodHeap(heap), NEW path, Len(path) \in Nat, NEW root \in 1 .. Len(heap),
         Find(root, path) # Nowhere, NEW children, GoodChildren(heap, children),
         NEW g, g = heap \o Spine(root, path, children), NEW e, IsValues(g, e)
  PROVE  PutThere(e[Len(heap) + Len(path) + 1], root, path, children)
<1> DEFINE L == Len(path)
           N == Len(heap)
           S == Spine(root, path, children)
           v == ValueOf[root]
           w == [V!At(v, path) EXCEPT !.kids = [i \in 1 .. Len(children) |-> ValueOf[children[i]]]]
           New == [k \in 0 .. L |-> e[N + k + 1]]
<1>1. /\ GoodHeap(g) /\ Len(g) = N + L + 1 /\ \A n \in 1 .. N : g[n] = heap[n]
      /\ \A j \in 1 .. L + 1 : g[N + j] = S[j] /\ N + j \in 1 .. Len(g)
  <2>1. Grown(g, root, path, children)
    BY SpineGood
  <2> QED
    BY <2>1 DEF Grown
<1>2. N \in Nat /\ IsValues(heap, ValueOf) /\ 1 \in 1 .. L + 1 /\ N + 0 + 1 = N + 1
  BY ValueOfIs DEF GoodHeap
<1>3. \A n \in 1 .. N : e[n] = ValueOf[n]
  <2>1. Len(heap) <= Len(g)
    BY <1>1, <1>2
  <2>2. SameValues(heap, ValueOf, e)
    BY <1>1, <1>2, <2>1, ValuesSame
  <2> QED
    BY <2>2 DEF SameValues
<1>4. e[N + 1] = w
  <2> DEFINE node == Find(root, path)
  <2>1. node \in 1 .. N /\ V!At(v, path) = ValueOf[node]
    BY AtIs
  <2>2. CopyIs(root, path, children, 1)
    BY <1>2, SpineIs DEF GoodChildren
  <2>3. L + 1 - 1 = L
    OBVIOUS
  <2>4. S[1].name = heap[node].name /\ S[1].children = children
    BY <2>2, <2>3 DEF CopyIs, Copied, Find
  <2>5. GoodValue(g, e, N + 1) /\ g[N + 1] = S[1]
    BY <1>1, <1>2, ValueIs
  <2>6. GoodValue(heap, ValueOf, node)
    BY <1>2, <2>1, ValueIs
  <2>7. [i \in 1 .. Len(children) |-> e[children[i]]] = [i \in 1 .. Len(children) |-> ValueOf[children[i]]]
    BY <1>3 DEF GoodChildren
  <2> HIDE DEF S, node
  <2>8. e[N + 1] = [name |-> heap[node].name, kids |-> [i \in 1 .. Len(children) |-> ValueOf[children[i]]]]
    <3>1. e[N + 1] =
            [name |-> g[N + 1].name,
             kids |-> [i \in 1 .. Len(g[N + 1].children) |-> e[g[N + 1].children[i]]]]
      BY <2>5 DEF GoodValue
    <3>2. g[N + 1].name = heap[node].name /\ g[N + 1].children = children
      BY <2>4, <2>5
    <3> HIDE DEF N
    <3> QED
      BY <2>7, <3>1, <3>2
  <2> DEFINE ks == [i \in 1 .. Len(children) |-> ValueOf[children[i]]]
             os == [i \in 1 .. Len(heap[node].children) |-> ValueOf[heap[node].children[i]]]
  <2>9. ValueOf[node] = [name |-> heap[node].name, kids |-> os]
    BY <2>6 DEF GoodValue
  <2>10. e[N + 1] = [name |-> heap[node].name, kids |-> ks]
    BY <2>8
  <2>11. w = [ValueOf[node] EXCEPT !.kids = ks]
    BY <2>1
  <2> HIDE DEF ks, os, w
  <2> QED
    BY <2>9, <2>10, <2>11
<1> DEFINE Old(k) == V!Way(v, path)[L - k]
<1>5. ASSUME NEW k \in 0 .. L, k # 0
      PROVE  e[N + k + 1] = [Old(k) EXCEPT !.kids[V!Place(Old(k), path[L - k + 1])] = e[N + k]]
  <2>1. k \in 1 .. L
    BY <1>5
  <2>2. CopyPuts(e, root, path, k)
    BY <2>1, CopyValue
  <2> QED
    BY <2>2 DEF CopyPuts
<1>6. /\ \A k \in 0 .. L : New[k] = e[N + k + 1]
      /\ New = [k \in 0 .. L |-> New[k]]
  OBVIOUS
<1> HIDE DEF New, w
<1>7. ASSUME NEW k \in 0 .. L
      PROVE  New[k] = IF k = 0 THEN w
                      ELSE [Old(k) EXCEPT !.kids[V!Place(Old(k), path[L - k + 1])] = New[k - 1]]
  <2>1. CASE k = 0
    BY <1>2, <1>4, <1>6, <2>1
  <2>2. CASE k # 0
    <3>1. k - 1 \in 0 .. L /\ N + (k - 1) + 1 = N + k
      BY <1>2, <2>2
    <3>2. New[k - 1] = e[N + k]
      BY <1>6, <3>1
    <3> QED
      BY <1>5, <1>6, <2>2, <3>2
  <2> QED
    BY <2>1, <2>2
<1>8. IsPut(v, path, w, New)
  BY <1>6, <1>7 DEF IsPut
<1>9. V!Put(v, path, w) = New[L]
  BY <1>8, PutIs
<1>10. L \in 0 .. L
  OBVIOUS
<1> QED
  BY <1>6, <1>9, <1>10 DEF w, PutThere
-----------------------------------------------------------------------------
(* The steps. *)

LEMMA PathsAre ==
  ASSUME NEW path \in NodePaths
  PROVE  path \in Seq(Names) /\ Len(path) \in Nat /\ path \in V!PathNames
<1>1. PICK n \in 0 .. MaxPath : path \in [1 .. n -> Names]
  BY DEF NodePaths
<1>2. n \in Nat
  BY <1>1, TreeBounds
<1>3. path \in Seq(Names) /\ Len(path) \in Nat
  BY <1>1, <1>2
<1> QED
  BY <1>3 DEF NodePaths, V!PathNames

LEMMA RemoveAtIs ==
  ASSUME NEW S, NEW s \in Seq(S), NEW i \in 1 .. Len(s)
  PROVE  /\ RemoveAt(s, i) \in Seq(S) /\ Len(RemoveAt(s, i)) = Len(s) - 1
         /\ \A k \in 1 .. Len(s) - 1 : RemoveAt(s, i)[k] = IF k < i THEN s[k] ELSE s[k + 1]
<1> DEFINE a == SubSeq(s, 1, i - 1)
           b == SubSeq(s, i + 1, Len(s))
<1>1. a \in Seq(S) /\ Len(a) = i - 1 /\ \A k \in 1 .. i - 1 : a[k] = s[k]
  OBVIOUS
<1>2. b \in Seq(S) /\ Len(b) = Len(s) - i /\ \A k \in 1 .. Len(s) - i : b[k] = s[k + i]
  OBVIOUS
<1>3. RemoveAt(s, i) = a \o b
  BY DEF RemoveAt
<1> HIDE DEF a, b
<1>4. a \o b \in Seq(S) /\ Len(a \o b) = Len(s) - 1
  <2>1. Len(a) + Len(b) = Len(s) - 1
    BY <1>1, <1>2
  <2>2. a \o b \in Seq(S) /\ Len(a \o b) = Len(a) + Len(b)
    BY <1>1, <1>2, ConcatProperties
  <2> QED
    BY <2>1, <2>2
<1>5. ASSUME NEW k \in 1 .. Len(s) - 1 PROVE (a \o b)[k] = IF k < i THEN s[k] ELSE s[k + 1]
  <2>1. CASE k < i
    BY <1>1, <1>2, <2>1
  <2>2. CASE ~ (k < i)
    <3>1. k - (i - 1) \in 1 .. Len(s) - i /\ (k - (i - 1)) + i = k + 1 /\ k \in 1 .. Len(a) + Len(b) /\ k > Len(a)
      BY <1>1, <1>2, <2>2
    <3>2. (a \o b)[k] = b[k - Len(a)]
      BY <1>1, <1>2, <3>1
    <3> QED
      BY <1>1, <1>2, <2>2, <3>1, <3>2
  <2> QED
    BY <2>1, <2>2
<1> QED
  BY <1>3, <1>4, <1>5

LEMMA AllButLast ==
  ASSUME NEW S, NEW s \in Seq(S), s # << >>
  PROVE  /\ Len(s) \in Nat /\ Len(s) # 0
         /\ Front(s) \in Seq(S) /\ Len(Front(s)) = Len(s) - 1
         /\ \A k \in 1 .. Len(s) - 1 : Front(s)[k] = s[k]
<1>1. Len(s) \in Nat /\ Len(s) # 0
  OBVIOUS
<1> DEFINE n == Len(s) - 1
           p == SubSeq(s, 1, n)
<1>2. n \in Nat /\ \A i \in 1 .. n : s[i] \in S
  BY <1>1
<1> HIDE DEF n
<1>3. p \in Seq(S) /\ Len(p) = n /\ \A k \in 1 .. n : p[k] = s[k]
  BY <1>2, SubSeqProperties
<1> QED
  BY <1>1, <1>2, <1>3 DEF Front, n

\* The way down a path but its last name.
LEMMA FrontIs ==
  ASSUME GoodHeap(heap), NEW path \in NodePaths, path # << >>, NEW root \in 1 .. Len(heap),
         Find(root, path) # Nowhere
  PROVE  /\ Front(path) \in NodePaths /\ Len(Front(path)) = Len(path) - 1
         /\ Find(root, Front(path)) \in 1 .. Len(heap) /\ Find(root, Front(path)) # Nowhere
         /\ ChildNamed(Find(root, Front(path)), Last(path)) = Find(root, path)
<1> DEFINE p == Front(path)
           L == Len(path)
<1>1. path \in Seq(Names) /\ L \in Nat
  BY PathsAre
<1>2. L # 0 /\ L - 1 \in Nat
  BY <1>1
<1>3. p \in Seq(Names) /\ Len(p) = L - 1 /\ \A k \in 1 .. L - 1 : p[k] = path[k]
  BY <1>1, AllButLast
<1>4. p \in NodePaths
  <2>1. PICK n \in 0 .. MaxPath : path \in [1 .. n -> Names]
    BY DEF NodePaths
  <2>2. n = L /\ MaxPath \in Nat
    BY <2>1, TreeBounds
  <2>3. L - 1 \in 0 .. MaxPath
    BY <1>2, <2>2
  <2>4. p \in [1 .. L - 1 -> Names]
    BY <1>2, <1>3
  <2> QED
    BY <2>3, <2>4 DEF NodePaths
<1> DEFINE A == Along(root, path)
           B == Along(root, p)
           Bad == {k \in 0 .. L - 1 : B[k] # A[k]}
<1>5. A[0] = root /\ \A k \in 1 .. L : A[k] = ChildNamed(A[k - 1], path[k])
  BY <1>1, AlongIs
<1> HIDE DEF p
<1>6. B[0] = root /\ \A k \in 1 .. L - 1 : B[k] = ChildNamed(B[k - 1], p[k])
  BY <1>2, <1>3, AlongIs
<1> HIDE DEF A, B
<1>7. ASSUME Bad # {} PROVE FALSE
  <2>1. PICK k \in Bad : \A j \in Bad : k <= j
    <3>1. Bad \subseteq Nat
      BY <1>2
    <3> HIDE DEF Bad
    <3> QED
      BY <1>7, <3>1, LeastNat
  <2>2. k # 0 /\ k \in 0 .. L - 1
    BY <1>5, <1>6, <2>1
  <2>3. k \in 1 .. L - 1 /\ k \in 1 .. L /\ k - 1 \in 0 .. L - 1 /\ ~ (k <= k - 1)
    BY <1>2, <2>2
  <2>4. B[k - 1] = A[k - 1]
    BY <2>1, <2>3
  <2>5. B[k] = A[k]
    BY <1>3, <1>5, <1>6, <2>3, <2>4
  <2> QED
    BY <2>1, <2>5
<1>8. L - 1 \in 0 .. L - 1 /\ L \in 1 .. L /\ L - 1 \in 0 .. L
  BY <1>1, <1>2
<1>9. Find(root, p) = A[L - 1]
  BY <1>3, <1>7, <1>8 DEF Find, B
<1>10. A[L - 1] \in 1 .. Len(heap)
  BY <1>1, <1>8, WayArrives DEF A
<1>11. Find(root, path) = ChildNamed(A[L - 1], Last(path))
  BY <1>5, <1>8 DEF Find, A, Last
<1>12. Len(heap) \in Nat
  BY DEF GoodHeap
<1> QED
  BY <1>3, <1>4, <1>9, <1>10, <1>11, <1>12 DEF p, Nowhere

LEMMA InRange ==
  ASSUME handle \in Seq(1 .. Len(heap)), NEW n \in Range(handle)
  PROVE  /\ n \in 1 .. Len(heap)
         /\ \E h \in 1 .. Len(handle) : n = handle[h]
BY DEF Range

\* Siblings of distinct names may be given to a node.
LEMMA MadeChildren ==
  ASSUME TreeInv, NEW n \in 0 .. MaxKids, NEW ks \in [1 .. n -> DOMAIN handle],
         NEW children, children = [i \in 1 .. n |-> handle[ks[i]]]
  PROVE  /\ children \in Seq(Nat) /\ Len(children) = n /\ n \in Nat /\ DOMAIN children = 1 .. n
         /\ \A i \in 1 .. n : children[i] \in Range(handle) /\ children[i] \in 1 .. Len(heap)
         /\ DistinctSiblings(children) => GoodChildren(heap, children)
         /\ ~ DistinctSiblings(children) => n # 0
<1>1. n \in Nat
  BY TreeBounds
<1>2. handle \in Seq(1 .. Len(heap)) /\ DOMAIN handle = 1 .. Len(handle)
  BY DEF TreeInv
<1>3. ASSUME NEW i \in 1 .. n PROVE children[i] \in Range(handle) /\ children[i] \in 1 .. Len(heap)
  <2>1. ks[i] \in DOMAIN handle /\ children[i] = handle[ks[i]]
    OBVIOUS
  <2> QED
    BY <1>2, <2>1 DEF Range
<1>4. children \in Seq(Nat) /\ Len(children) = n /\ DOMAIN children = 1 .. n
  <2>1. children \in [1 .. n -> Nat]
    BY <1>3
  <2> QED
    BY <1>1, <2>1
<1>5. DistinctSiblings(children) <=>
        \A i, j \in 1 .. n : heap[children[i]].name = heap[children[j]].name => i = j
  BY <1>4 DEF DistinctSiblings, IsInjective
<1> QED
  BY <1>1, <1>3, <1>4, <1>5 DEF GoodChildren

LEMMA SpawnedChildren ==
  ASSUME GoodHeap(heap), NEW n \in 1 .. Len(heap), NEW c \in 1 .. Len(heap),
         ChildNamed(n, heap[c].name) = Nowhere
  PROVE  /\ GoodChildren(heap, Append(heap[n].children, c))
         /\ \A i \in 1 .. Len(heap[n].children) : heap[heap[n].children[i]].name # heap[c].name
<1> DEFINE cs == heap[n].children
           ds == Append(cs, c)
<1>1. cs \in Seq(Nat) /\ Len(cs) \in Nat /\ c \in Nat /\ \A i \in 1 .. Len(cs) : cs[i] \in 1 .. Len(heap)
  BY NodeIs
<1>2. \A i, j \in 1 .. Len(cs) : heap[cs[i]].name = heap[cs[j]].name => i = j
  BY NodeIs
<1>3. \A i \in 1 .. Len(cs) : heap[cs[i]].name # heap[c].name
  <2> SUFFICES ASSUME NEW i \in 1 .. Len(cs), heap[cs[i]].name = heap[c].name PROVE FALSE
    OBVIOUS
  <2>1. ChildNamed(n, heap[cs[i]].name) = cs[i]
    BY ChildFound
  <2> QED
    BY <1>1, <2>1 DEF Nowhere
<1> HIDE DEF cs
<1>4. ds \in Seq(Nat) /\ Len(ds) = Len(cs) + 1
  BY <1>1
<1>5. ds[Len(cs) + 1] = c /\ \A i \in 1 .. Len(cs) : ds[i] = cs[i]
  BY <1>1
<1> HIDE DEF ds
<1>6. \A i \in 1 .. Len(ds) : i = Len(cs) + 1 \/ i \in 1 .. Len(cs)
  BY <1>1, <1>4
<1>7. \A i \in 1 .. Len(ds) : ds[i] \in 1 .. Len(heap)
  BY <1>1, <1>5, <1>6
<1>8. ASSUME NEW i \in 1 .. Len(ds), NEW j \in 1 .. Len(ds), heap[ds[i]].name = heap[ds[j]].name
      PROVE  i = j
  BY <1>2, <1>3, <1>5, <1>6, <1>8
<1> QED
  BY <1>3, <1>4, <1>7, <1>8 DEF GoodChildren, ds, cs

LEMMA PrunedChildren ==
  ASSUME GoodHeap(heap), NEW n \in 1 .. Len(heap), NEW name, ChildNamed(n, name) # Nowhere
  PROVE  GoodChildren(heap, Without(n, name))
<1> DEFINE cs == heap[n].children
           i == Position(n, name)
           ds == Without(n, name)
<1>1. cs \in Seq(Nat) /\ Len(cs) \in Nat /\ \A k \in 1 .. Len(cs) : cs[k] \in 1 .. Len(heap)
  BY NodeIs
<1>2. \A k, m \in 1 .. Len(cs) : heap[cs[k]].name = heap[cs[m]].name => k = m
  BY NodeIs
<1>3. i \in 1 .. Len(cs)
  BY ChildIs
<1>4. ds = RemoveAt(cs, i)
  BY DEF Without
<1> HIDE DEF cs, i, ds
<1>5. /\ ds \in Seq(Nat) /\ Len(ds) = Len(cs) - 1
      /\ \A k \in 1 .. Len(cs) - 1 : ds[k] = IF k < i THEN cs[k] ELSE cs[k + 1]
  BY <1>1, <1>3, <1>4, RemoveAtIs
<1>6. \A k \in 1 .. Len(ds) : k \in 1 .. Len(cs) /\ k + 1 \in 1 .. Len(cs) /\ k \in 1 .. Len(cs) - 1
  BY <1>1, <1>5
<1>7. \A k \in 1 .. Len(ds) : ds[k] \in 1 .. Len(heap)
  BY <1>1, <1>5, <1>6
<1>8. ASSUME NEW k \in 1 .. Len(ds), NEW m \in 1 .. Len(ds), heap[ds[k]].name = heap[ds[m]].name
      PROVE  k = m
  <2>1. PICK a \in 1 .. Len(cs) : ds[k] = cs[a] /\ a = IF k < i THEN k ELSE k + 1
    BY <1>5, <1>6
  <2>2. PICK b \in 1 .. Len(cs) : ds[m] = cs[b] /\ b = IF m < i THEN m ELSE m + 1
    BY <1>5, <1>6
  <2>3. a = b
    BY <1>2, <1>8, <2>1, <2>2
  <2>4. k \in Nat /\ m \in Nat /\ i \in Nat
    BY <1>3
  <2> QED
    BY <2>1, <2>2, <2>3, <2>4
<1> QED
  BY <1>5, <1>7, <1>8 DEF GoodChildren, ds
-----------------------------------------------------------------------------
(* What the program holds. *)

\* The heap keeps its nodes and stays a good one.
HeapKept == GoodHeap(heap') /\ Len(heap) <= Len(heap') /\ \A n \in 1 .. Len(heap) : heap'[n] = heap[n]

LEMMA ValuesKept ==
  ASSUME GoodHeap(heap), HeapKept
  PROVE  \A n \in 1 .. Len(heap) : ValueOf'[n] = ValueOf[n] /\ n \in 1 .. Len(heap')
<1>1. IsValues(heap, ValueOf) /\ IsValues(heap', ValueOf')
  BY ValueOfIs, NewValueOfIs DEF HeapKept
<1>2. SameValues(heap, ValueOf, ValueOf')
  BY <1>1, ValuesSame DEF HeapKept
<1>3. Len(heap) \in Nat /\ Len(heap') \in Nat
  BY DEF GoodHeap, HeapKept
<1> QED
  BY <1>2, <1>3 DEF SameValues, HeapKept

LEMMA TreesAre ==
  ASSUME TreeInv
  PROVE  /\ V!Trees = {ValueOf[handle[h]] : h \in 1 .. Len(handle)}
         /\ \A n \in Range(handle) : ValueOf[n] \in V!Trees
<1>1. handle \in Seq(1 .. Len(heap)) /\ DOMAIN handle = 1 .. Len(handle) /\ Len(handle) \in Nat
  BY DEF TreeInv
<1> DEFINE T == {ValueOf[handle[h]] : h \in 1 .. Len(handle)}
           hs == [h \in DOMAIN handle |-> ValueOf[handle[h]]]
<1>2. Len(hs) = Len(handle) /\ \A h \in 1 .. Len(handle) : hs[h] = ValueOf[handle[h]]
  <2>1. hs = [h \in 1 .. Len(handle) |-> ValueOf[handle[h]]]
    BY <1>1
  <2> QED
    BY <1>1, <2>1
<1>3. V!Trees = {hs[h] : h \in 1 .. Len(hs)}
  BY DEF V!Trees
<1> HIDE DEF hs
<1>4. V!Trees = T
  BY <1>2, <1>3
<1>5. \A n \in Range(handle) : ValueOf[n] \in T
  BY <1>1, InRange
<1> QED
  BY <1>4, <1>5

\* The program gets one node more.
LEMMA GivesIs ==
  ASSUME TreeInv, HeapKept, NEW op, NEW n \in 1 .. Len(heap'), TreeGives(op, n)
  PROVE  TreeInv' /\ V!Gives(op) /\ V!Given = ValueOf'[n]
<1>1. /\ handle \in Seq(1 .. Len(heap)) /\ DOMAIN handle = 1 .. Len(handle) /\ Len(handle) \in Nat
      /\ GoodHeap(heap)
  BY DEF TreeInv
<1>2. \A m \in 1 .. Len(heap) : ValueOf'[m] = ValueOf[m] /\ m \in 1 .. Len(heap')
  BY <1>1, ValuesKept
<1>3. handle' = Append(handle, n) /\ call' = <<op, "ok">>
  BY DEF TreeGives
<1>4. handle \in Seq(1 .. Len(heap'))
  <2>1. \A h \in 1 .. Len(handle) : handle[h] \in 1 .. Len(heap')
    BY <1>1, <1>2
  <2> QED
    BY <1>1, <2>1
<1>5. /\ handle' \in Seq(1 .. Len(heap')) /\ Len(handle') = Len(handle) + 1
      /\ handle'[Len(handle) + 1] = n /\ \A h \in 1 .. Len(handle) : handle'[h] = handle[h]
      /\ DOMAIN handle' = 1 .. Len(handle) + 1
  BY <1>1, <1>3, <1>4
<1>6. TreeInv'
  BY <1>5 DEF TreeInv, HeapKept
<1> DEFINE old == [h \in DOMAIN handle |-> ValueOf[handle[h]]]
           new == [h \in DOMAIN handle' |-> ValueOf'[handle'[h]]]
           T == {old[h] : h \in 1 .. Len(handle)} \cup {new[h] : h \in 1 .. Len(handle) + 1}
<1>7. /\ \A h \in 1 .. Len(handle) : old[h] = ValueOf[handle[h]] /\ new[h] = ValueOf'[handle'[h]]
      /\ new[Len(handle) + 1] = ValueOf'[n]
  BY <1>1, <1>5
<1>8. \A h \in 1 .. Len(handle) : old[h] = new[h]
  <2> SUFFICES ASSUME NEW h \in 1 .. Len(handle) PROVE old[h] = new[h]
    OBVIOUS
  <2>1. handle[h] \in 1 .. Len(heap) /\ handle'[h] = handle[h]
    BY <1>1, <1>5
  <2> HIDE DEF old, new
  <2> QED
    BY <1>2, <1>7, <2>1
<1>9. old \in Seq(T) /\ Len(old) = Len(handle)
  <2>1. old \in [1 .. Len(handle) -> T]
    BY <1>1
  <2> HIDE DEF old, T
  <2> QED
    BY <1>1, <2>1
<1>10. new \in Seq(T) /\ Len(new) = Len(handle) + 1
  <2>1. new \in [1 .. Len(handle) + 1 -> T]
    BY <1>5
  <2> HIDE DEF new, T
  <2> QED
    BY <1>1, <2>1
<1>11. V!Gives(op) <=> /\ call' = <<op, "ok">> /\ Len(new) = Len(old) + 1
                       /\ SubSeq(new, 1, Len(old)) = old
  BY DEF V!Gives
<1>12. V!Given = new[Len(new)]
  BY DEF V!Given
<1> HIDE DEF old, new, T
<1>13. SubSeq(new, 1, Len(old)) = old
  <2> DEFINE s == SubSeq(new, 1, Len(handle))
  <2>1. \A i \in 1 .. Len(handle) : new[i] \in T
    BY <1>1, <1>10
  <2>2. s \in Seq(T) /\ Len(s) = Len(handle) /\ \A i \in 1 .. Len(handle) : s[i] = new[i]
    BY <1>1, <2>1, SubSeqProperties
  <2> HIDE DEF s
  <2>3. s = old
    BY <1>1, <1>8, <1>9, <2>2, SeqEqual
  <2> QED
    BY <1>9, <2>3 DEF s
<1> QED
  BY <1>3, <1>6, <1>7, <1>9, <1>10, <1>11, <1>12, <1>13

\* The program keeps what it has.
LEMMA Keeps ==
  ASSUME TreeInv, UNCHANGED <<heap, handle>>
  PROVE  TreeInv' /\ UNCHANGED [h \in DOMAIN handle |-> ValueOf[handle[h]]]
<1>1. handle \in Seq(1 .. Len(heap)) /\ DOMAIN handle = 1 .. Len(handle) /\ GoodHeap(heap)
  BY DEF TreeInv
<1>2. HeapKept
  BY <1>1 DEF HeapKept, GoodHeap
<1>3. \A m \in 1 .. Len(heap) : ValueOf'[m] = ValueOf[m]
  BY <1>1, <1>2, ValuesKept
<1>4. TreeInv'
  BY DEF TreeInv
<1>5. [h \in DOMAIN handle' |-> ValueOf'[handle'[h]]] = [h \in DOMAIN handle |-> ValueOf[handle[h]]]
  BY <1>1, <1>3
<1> QED
  BY <1>4, <1>5

LEMMA RaisesIs ==
  ASSUME TreeInv, NEW op, NEW why, TreeRaises(op, why), handle # << >>
  PROVE  TreeInv' /\ V!Raises(op, why)
<1>1. call' = <<op, why>> /\ UNCHANGED <<heap, handle>>
  BY DEF TreeRaises
<1>2. TreeInv' /\ UNCHANGED [h \in DOMAIN handle |-> ValueOf[handle[h]]]
  BY <1>1, Keeps
<1>3. [h \in DOMAIN handle |-> ValueOf[handle[h]]] # << >>
  <2>1. handle \in Seq(1 .. Len(heap))
    BY DEF TreeInv
  <2>2. 1 \in DOMAIN handle
    BY <2>1
  <2>3. 1 \in DOMAIN [h \in DOMAIN handle |-> ValueOf[handle[h]]]
    BY <2>2
  <2> QED
    BY <2>3
<1> QED
  BY <1>1, <1>2, <1>3 DEF V!Raises

LEMMA AllocateIs ==
  ASSUME TreeInv, NEW nodes \in Seq(Objects), Len(nodes) > 0, NEW op, Allocate(op, nodes),
         GoodHeap(heap')
  PROVE  /\ TreeInv' /\ V!Gives(op) /\ V!Given = ValueOf'[Len(heap) + Len(nodes)]
         /\ HeapKept /\ Len(heap) + Len(nodes) \in 1 .. Len(heap')
<1>1. heap \in Seq(Objects) /\ Len(heap) \in Nat
  BY DEF TreeInv, GoodHeap
<1>2. heap' = heap \o nodes /\ TreeGives(op, Len(heap) + Len(nodes))
  BY DEF Allocate
<1>3. Len(heap') = Len(heap) + Len(nodes) /\ Len(nodes) \in Nat
  BY <1>1, <1>2, ConcatProperties
<1>4. \A n \in 1 .. Len(heap) : heap'[n] = heap[n]
  BY <1>1, <1>2
<1>5. HeapKept /\ Len(heap) + Len(nodes) \in 1 .. Len(heap')
  BY <1>1, <1>3, <1>4 DEF HeapKept
<1> QED
  BY <1>2, <1>5, GivesIs
-----------------------------------------------------------------------------
(* Each action keeps the heap good and is a step of PathTree. *)

LEMMA HoldsSome ==
  ASSUME TreeInv, NEW n \in Range(handle)
  PROVE  n \in 1 .. Len(heap) /\ handle # << >> /\ ValueOf[n] \in V!Trees /\ GoodHeap(heap)
<1>1. handle \in Seq(1 .. Len(heap)) /\ GoodHeap(heap)
  BY DEF TreeInv
<1>2. handle # << >>
  BY DEF Range
<1> QED
  BY <1>1, <1>2, InRange, TreesAre

LEMMA MakeIs ==
  ASSUME TreeInv, NEW name \in Names, NEW n \in 0 .. MaxKids, NEW ks \in [1 .. n -> DOMAIN handle],
         NEW children, children = [i \in 1 .. n |-> handle[ks[i]]], MakeNode(name, children)
  PROVE  TreeInv' /\ V!Make
<1> DEFINE N == Len(heap)
           node == [name |-> name, children |-> children]
           nodes == <<node>>
<1>1. heap \in Seq(Objects) /\ GoodHeap(heap) /\ N \in Nat
  BY DEF TreeInv, GoodHeap
<1>2. /\ children \in Seq(Nat) /\ Len(children) = n /\ n \in Nat
      /\ \A i \in 1 .. n : children[i] \in Range(handle) /\ children[i] \in 1 .. N
  BY MadeChildren
<1>3. CASE DistinctSiblings(children)
  <2>1. GoodChildren(heap, children)
    BY <1>3, MadeChildren
  <2>2. Allocate("make", nodes)
    BY <1>3 DEF MakeNode
  <2>3. node \in Objects /\ node.name = name /\ node.children = children
    BY <1>2 DEF Objects
  <2> HIDE DEF node
  <2>4. nodes \in Seq(Objects) /\ Len(nodes) = 1 /\ nodes[1] = node
    BY <2>3
  <2> HIDE DEF nodes
  <2>5. heap' = heap \o nodes
    BY <2>2 DEF Allocate
  <2>6. heap'[N + 1] = node /\ \A m \in 1 .. N : heap'[m] = heap[m]
    <3>1. \A i \in 1 .. N + 1 : heap'[i] = IF i <= N THEN heap[i] ELSE nodes[i - N]
      <4>1. \A i \in 1 .. N + Len(nodes) :
              (heap \o nodes)[i] = IF i <= N THEN heap[i] ELSE nodes[i - N]
        BY <1>1, <2>4, ConcatProperties
      <4> QED
        BY <2>4, <2>5, <4>1
    <3>2. N + 1 \in 1 .. N + 1 /\ (N + 1) - N = 1 /\ \A m \in 1 .. N : m \in 1 .. N + 1
      BY <1>1
    <3> QED
      BY <1>1, <2>4, <3>1, <3>2
  <2>7. GoodNode(heap', N + 1)
    <3>1. \A i \in 1 .. Len(children) : children[i] \in 1 .. (N + 1) - 1
      BY <1>1, <1>2
    <3>2. \A i, j \in 1 .. Len(children) : heap'[children[i]].name = heap'[children[j]].name => i = j
      <4>1. \A i \in 1 .. Len(children) : heap'[children[i]] = heap[children[i]]
        BY <1>2, <2>6
      <4>2. \A i, j \in 1 .. Len(children) : heap[children[i]].name = heap[children[j]].name => i = j
        BY <2>1 DEF GoodChildren
      <4> QED
        BY <4>1, <4>2
    <3> QED
      BY <2>3, <2>6, <3>1, <3>2 DEF GoodNode
  <2>8. GoodHeap(heap')
    <3>1. \A j \in 1 .. Len(nodes) : GoodNode(heap', N + j)
      BY <2>4, <2>7
    <3> QED
      BY <1>1, <2>4, <2>5, <3>1, HeapGrows
  <2>9. /\ TreeInv' /\ V!Gives("make") /\ V!Given = ValueOf'[N + 1]
        /\ HeapKept /\ N + 1 \in 1 .. Len(heap')
    <3>1. /\ TreeInv' /\ V!Gives("make") /\ V!Given = ValueOf'[N + Len(nodes)]
          /\ HeapKept /\ N + Len(nodes) \in 1 .. Len(heap')
      <4>1. Len(nodes) > 0 /\ nodes \in Seq(Objects)
        BY <2>4
      <4> QED
        BY <2>2, <2>8, <4>1, AllocateIs
    <3> QED
      BY <2>4, <3>1
  <2> DEFINE r == ValueOf'[N + 1]
  <2>10. IsValues(heap', ValueOf')
    BY <2>8, NewValueOfIs
  <2>11. GoodValue(heap', ValueOf', N + 1)
    BY <2>8, <2>9, <2>10, ValueIs
  <2>12. /\ r.name = name /\ Len(r.kids) = n
         /\ \A i \in 1 .. n : r.kids[i] = ValueOf'[children[i]] /\ r.kids[i].name = heap'[children[i]].name
    BY <1>2, <2>3, <2>6, <2>11 DEF GoodValue
  <2>13. \A m \in 1 .. N : ValueOf'[m] = ValueOf[m]
    BY <1>1, <2>9, ValuesKept
  <2> HIDE DEF r
  <2>14. \A i \in 1 .. n : r.kids[i] \in V!Trees
    <3> SUFFICES ASSUME NEW i \in 1 .. n PROVE r.kids[i] \in V!Trees
      OBVIOUS
    <3>1. children[i] \in Range(handle) /\ children[i] \in 1 .. N /\ r.kids[i] = ValueOf[children[i]]
      BY <1>2, <2>12, <2>13
    <3> QED
      BY <3>1, HoldsSome
  <2>15. \A i, j \in 1 .. n : r.kids[i].name = r.kids[j].name => i = j
    <3> SUFFICES ASSUME NEW i \in 1 .. n, NEW j \in 1 .. n, r.kids[i].name = r.kids[j].name
                 PROVE  i = j
      OBVIOUS
    <3>1. heap'[children[i]].name = heap'[children[j]].name
      BY <2>12
    <3>2. heap'[children[i]] = heap[children[i]] /\ heap'[children[j]] = heap[children[j]]
      BY <1>2, <2>6
    <3>3. heap[children[i]].name = heap[children[j]].name
      BY <3>1, <3>2
    <3> QED
      BY <1>2, <2>1, <3>3 DEF GoodChildren
  <2>16. V!Made(V!Trees, r)
    BY <2>12, <2>14, <2>15 DEF V!Made
  <2> QED
    BY <2>9, <2>16 DEF V!Make, r
<1>4. CASE ~ DistinctSiblings(children)
  <2>1. TreeRaises("make", "duplicate")
    BY <1>4 DEF MakeNode
  <2>2. n # 0
    BY <1>4, MadeChildren
  <2>3. handle # << >>
    <3>1. children[1] \in Range(handle)
      BY <1>2, <2>2
    <3> QED
      BY <3>1 DEF Range
  <2> QED
    BY <2>1, <2>3, RaisesIs DEF V!Make
<1> QED
  BY <1>3, <1>4

LEMMA MissingIs ==
  ASSUME TreeInv, NEW root \in Range(handle), Missing(root)
  PROVE  TreeInv' /\ V!Next
<1>1. PICK op \in {"get", "spawn", "prune"} : TreeRaises(op, "no path")
  BY DEF Missing
<1>2. handle # << >>
  BY HoldsSome
<1>3. TreeInv' /\ V!Raises(op, "no path")
  BY <1>1, <1>2, RaisesIs
<1> QED
  BY <1>3 DEF V!Next, V!Get, V!Spawn, V!Prune

LEMMA GetIs ==
  ASSUME TreeInv, NEW root \in Range(handle), NEW path \in NodePaths, GetNode(root, path)
  PROVE  TreeInv' /\ V!Get
<1> DEFINE n == Find(root, path)
<1>1. root \in 1 .. Len(heap) /\ ValueOf[root] \in V!Trees /\ GoodHeap(heap)
  BY HoldsSome
<1>2. n # Nowhere /\ TreeGives("get", n) /\ UNCHANGED heap
  BY DEF GetNode
<1>3. Len(path) \in Nat /\ path \in V!PathNames
  BY PathsAre
<1>4. V!At(ValueOf[root], path) = ValueOf[n] /\ n \in 1 .. Len(heap)
  BY <1>1, <1>2, <1>3, AtIs
<1>5. V!IsPath(ValueOf[root], path)
  BY <1>1, <1>2, <1>3, PathIs
<1>6. HeapKept
  BY <1>1, <1>2 DEF HeapKept, GoodHeap
<1> HIDE DEF n
<1>7. n \in 1 .. Len(heap') /\ ValueOf'[n] = ValueOf[n]
  BY <1>1, <1>4, <1>6, ValuesKept
<1>8. TreeInv' /\ V!Gives("get") /\ V!Given = ValueOf'[n]
  BY <1>2, <1>6, <1>7, GivesIs
<1>9. V!Got(V!Trees, V!Given)
  BY <1>1, <1>3, <1>4, <1>5, <1>7, <1>8 DEF V!Got
<1> QED
  BY <1>8, <1>9 DEF V!Get

\* spawn and prune: the copies along the path are what the program gets.
LEMMA SpineStep ==
  ASSUME TreeInv, NEW root \in 1 .. Len(heap), NEW path, Len(path) \in Nat,
         Find(root, path) # Nowhere, NEW children, GoodChildren(heap, children),
         NEW op, Allocate(op, Spine(root, path, children))
  PROVE  TreeInv' /\ V!Gives(op) /\ PutThere(V!Given, root, path, children)
<1> DEFINE S == Spine(root, path, children)
<1>1. GoodHeap(heap) /\ Len(heap) \in Nat
  BY DEF TreeInv, GoodHeap
<1>2. S \in Seq(Objects) /\ Len(S) = Len(path) + 1
  BY <1>1, SpineIs DEF GoodChildren
<1>3. heap' = heap \o S
  BY DEF Allocate
<1>4. Grown(heap', root, path, children)
  BY <1>1, <1>3, SpineGood
<1>5. GoodHeap(heap')
  BY <1>4 DEF Grown
<1>6. TreeInv' /\ V!Gives(op) /\ V!Given = ValueOf'[Len(heap) + Len(S)]
  <2> HIDE DEF S
  <2> QED
    BY <1>2, <1>5, AllocateIs DEF S
<1>7. IsValues(heap', ValueOf')
  BY <1>5, NewValueOfIs
<1>8. Len(heap) + Len(S) = Len(heap) + Len(path) + 1
  BY <1>1, <1>2
<1>9. PutThere(ValueOf'[Len(heap) + Len(path) + 1], root, path, children)
  BY <1>1, <1>3, <1>7, SpineValue
<1> QED
  BY <1>6, <1>8, <1>9

LEMMA SpawnIs ==
  ASSUME TreeInv, NEW root \in Range(handle), NEW path \in NodePaths, NEW child \in Range(handle),
         SpawnChild(root, path, child)
  PROVE  TreeInv' /\ V!Spawn
<1> DEFINE n == Find(root, path)
           v == ValueOf[root]
           c == ValueOf[child]
           name == heap[child].name
<1>1. /\ root \in 1 .. Len(heap) /\ v \in V!Trees /\ GoodHeap(heap)
      /\ child \in 1 .. Len(heap) /\ c \in V!Trees /\ handle # << >>
  BY HoldsSome
<1>2. n # Nowhere
  BY DEF SpawnChild
<1>3. Len(path) \in Nat /\ path \in V!PathNames
  BY PathsAre
<1>4. V!At(v, path) = ValueOf[n] /\ n \in 1 .. Len(heap)
  BY <1>1, <1>2, <1>3, AtIs
<1>5. V!IsPath(v, path)
  BY <1>1, <1>2, <1>3, PathIs
<1>6. \A m \in 1 .. Len(heap) : GoodValue(heap, ValueOf, m)
  BY <1>1, ValueOfIs, ValueIs
<1>7. c.name = name
  BY <1>1, <1>6 DEF GoodValue
<1>8. V!NamesOf(V!At(v, path)) = {heap[heap[n].children[i]].name : i \in 1 .. Len(heap[n].children)}
  BY <1>1, <1>4, NamesAre
<1>9. CASE ChildNamed(n, name) # Nowhere
  <2>1. TreeRaises("spawn", "duplicate")
    BY <1>2, <1>9 DEF SpawnChild
  <2>2. TreeInv' /\ V!Raises("spawn", "duplicate")
    BY <1>1, <2>1, RaisesIs
  <2>3. \E i \in 1 .. Len(heap[n].children) : heap[heap[n].children[i]].name = name
    BY <1>1, <1>4, <1>9, ChildIs
  <2>4. c.name \in V!NamesOf(V!At(v, path))
    BY <1>7, <1>8, <2>3
  <2> HIDE DEF v, c
  <2>5. V!Duplicate(V!Trees)
    BY <1>1, <1>3, <1>5, <2>4 DEF V!Duplicate
  <2> QED
    BY <2>2, <2>5 DEF V!Spawn
<1>10. CASE ChildNamed(n, name) = Nowhere
  <2> DEFINE cs == heap[n].children
             ds == Append(cs, child)
  <2>1. Allocate("spawn", Spine(root, path, ds))
    BY <1>2, <1>10 DEF SpawnChild
  <2>2. GoodChildren(heap, ds) /\ \A i \in 1 .. Len(cs) : heap[cs[i]].name # name
    BY <1>1, <1>4, <1>10, SpawnedChildren
  <2>3. TreeInv' /\ V!Gives("spawn") /\ PutThere(V!Given, root, path, ds)
    BY <1>1, <1>2, <1>3, <2>1, <2>2, SpineStep
  <2>4. c.name \notin V!NamesOf(V!At(v, path))
    BY <1>7, <1>8, <2>2
  <2> DEFINE ks == ValueOf[n].kids
             T == {ValueOf[m] : m \in 1 .. Len(heap)}
             new == [i \in 1 .. Len(ds) |-> ValueOf[ds[i]]]
  <2>5. cs \in Seq(Nat) /\ Len(cs) \in Nat /\ child \in Nat
    BY <1>1, <1>4, NodeIs
  <2>6. ks \in Seq(T) /\ Len(ks) = Len(cs) /\ (\A i \in 1 .. Len(cs) : ks[i] = ValueOf[cs[i]]) /\ c \in T
    BY <1>1, <1>4, <1>6 DEF GoodValue
  <2>7. /\ Len(ds) = Len(cs) + 1 /\ ds[Len(cs) + 1] = child
        /\ \A i \in 1 .. Len(cs) : ds[i] = cs[i]
    BY <2>5
  <2>8. new = Append(ks, c)
    <3> HIDE DEF ks, cs, ds, T
    <3>1. \A i \in 1 .. Len(cs) + 1 : new[i] = IF i <= Len(cs) THEN ks[i] ELSE c
      <4> SUFFICES ASSUME NEW i \in 1 .. Len(cs) + 1 PROVE new[i] = IF i <= Len(cs) THEN ks[i] ELSE c
        OBVIOUS
      <4>1. new[i] = ValueOf[ds[i]]
        BY <2>7
      <4>2. i \in 1 .. Len(cs) \/ i = Len(cs) + 1
        BY <2>5
      <4>3. CASE i \in 1 .. Len(cs)
        BY <2>5, <2>6, <2>7, <4>1, <4>3
      <4>4. CASE i = Len(cs) + 1
        BY <2>5, <2>7, <4>1, <4>4
      <4> QED
        BY <4>2, <4>3, <4>4
    <3>2. new = [i \in 1 .. Len(cs) + 1 |-> new[i]]
      BY <2>7
    <3> HIDE DEF new, c
    <3>3. Append(ks, c) = [i \in 1 .. Len(cs) + 1 |-> IF i <= Len(cs) THEN ks[i] ELSE c]
      <4> DEFINE a == Append(ks, c)
      <4>1. /\ a \in Seq(T) /\ Len(a) = Len(cs) + 1
            /\ \A i \in 1 .. Len(cs) : a[i] = ks[i]
            /\ a[Len(cs) + 1] = c
        BY <2>5, <2>6, AppendProperties
      <4> HIDE DEF a
      <4>2. \A i \in 1 .. Len(cs) + 1 : a[i] = IF i <= Len(cs) THEN ks[i] ELSE c
        BY <2>5, <4>1
      <4>3. a = [i \in 1 .. Len(cs) + 1 |-> a[i]]
        BY <2>5, <4>1
      <4> QED
        BY <4>2, <4>3 DEF a
    <3> QED
      BY <3>1, <3>2, <3>3
  <2>9. V!Graft(v, path, c) = V!Put(v, path, [V!At(v, path) EXCEPT !.kids = Append(ks, c)])
    BY <1>4 DEF V!Graft
  <2>10. V!Given = V!Put(v, path, [V!At(v, path) EXCEPT !.kids = new])
    BY <2>3 DEF PutThere
  <2> HIDE DEF v, c, new, ks
  <2>11. V!Given = V!Graft(v, path, c)
    BY <2>8, <2>9, <2>10
  <2>12. V!Spawned(V!Trees, V!Given)
    BY <1>1, <1>3, <1>5, <2>4, <2>11 DEF V!Spawned
  <2> QED
    BY <2>3, <2>12 DEF V!Spawn
<1> QED
  BY <1>9, <1>10

LEMMA PruneIs ==
  ASSUME TreeInv, NEW root \in Range(handle), NEW path \in NodePaths, PruneChild(root, path)
  PROVE  TreeInv' /\ V!Prune
<1> DEFINE p == Front(path)
           name == Last(path)
           n == Find(root, p)
           v == ValueOf[root]
           cs == heap[n].children
           ds == Without(n, name)
           pos == Position(n, name)
<1>1. root \in 1 .. Len(heap) /\ v \in V!Trees /\ GoodHeap(heap)
  BY HoldsSome
<1>2. path # << >> /\ Find(root, path) # Nowhere /\ Allocate("prune", Spine(root, p, ds))
  BY DEF PruneChild
<1>3. p \in NodePaths /\ n \in 1 .. Len(heap) /\ n # Nowhere /\ ChildNamed(n, name) = Find(root, path)
  BY <1>1, <1>2, FrontIs
<1>4. Len(p) \in Nat /\ Len(path) \in Nat /\ path \in V!PathNames
  BY <1>3, PathsAre
<1>5. V!At(v, p) = ValueOf[n] /\ V!IsPath(v, path)
  BY <1>1, <1>2, <1>3, <1>4, AtIs, PathIs
<1>6. GoodChildren(heap, ds)
  BY <1>1, <1>2, <1>3, PrunedChildren
<1>7. TreeInv' /\ V!Gives("prune") /\ PutThere(V!Given, root, p, ds)
  BY <1>1, <1>2, <1>3, <1>4, <1>6, SpineStep
<1>8. pos \in 1 .. Len(cs) /\ cs \in Seq(Nat) /\ Len(cs) \in Nat
  BY <1>1, <1>2, <1>3, ChildIs, NodeIs
<1>9. V!Place(ValueOf[n], name) = pos
  <2>1. pos # 0
    BY <1>8
  <2> QED
    BY <1>1, <1>3, <2>1, PlaceIs
<1> DEFINE ks == ValueOf[n].kids
           T == {ValueOf[m] : m \in 1 .. Len(heap)}
           new == [i \in 1 .. Len(ds) |-> ValueOf[ds[i]]]
<1>10. GoodValue(heap, ValueOf, n)
  BY <1>1, <1>3, ValueOfIs, ValueIs
<1>11. ks \in Seq(T) /\ Len(ks) = Len(cs) /\ \A i \in 1 .. Len(cs) : ks[i] = ValueOf[cs[i]]
  BY <1>10 DEF GoodValue
<1>12. ds = RemoveAt(cs, pos)
  BY DEF Without
<1>13. V!Cut(v, p, name) = V!Put(v, p, [V!At(v, p) EXCEPT !.kids = RemoveAt(ks, pos)])
  BY <1>5, <1>9 DEF V!Cut, V!RemoveAt, RemoveAt
<1>14. V!Given = V!Put(v, p, [V!At(v, p) EXCEPT !.kids = new])
  BY <1>7 DEF PutThere
<1>15. new = RemoveAt(ks, pos)
  <2> HIDE DEF cs, ds, ks, T, pos
  <2>1. /\ Len(ds) = Len(cs) - 1
        /\ \A k \in 1 .. Len(cs) - 1 : ds[k] = IF k < pos THEN cs[k] ELSE cs[k + 1]
    BY <1>8, <1>12, RemoveAtIs
  <2> DEFINE R == RemoveAt(ks, pos)
  <2>2. /\ R \in Seq(T) /\ Len(R) = Len(cs) - 1
        /\ \A k \in 1 .. Len(cs) - 1 : R[k] = IF k < pos THEN ks[k] ELSE ks[k + 1]
    <3>1. pos \in 1 .. Len(ks)
      BY <1>8, <1>11
    <3> QED
      BY <1>11, <3>1, RemoveAtIs
  <2> HIDE DEF R
  <2>3. \A k \in 1 .. Len(cs) - 1 : new[k] = R[k]
    <3> SUFFICES ASSUME NEW k \in 1 .. Len(cs) - 1 PROVE new[k] = R[k]
      OBVIOUS
    <3>1. new[k] = ValueOf[ds[k]]
      BY <2>1
    <3>2. k \in 1 .. Len(cs) /\ k + 1 \in 1 .. Len(cs)
      BY <1>8
    <3> HIDE DEF new
    <3>3. CASE k < pos
      BY <1>11, <2>1, <2>2, <3>1, <3>2, <3>3
    <3>4. CASE ~ (k < pos)
      BY <1>11, <2>1, <2>2, <3>1, <3>2, <3>4
    <3> QED
      BY <3>3, <3>4
  <2>4. new = [k \in 1 .. Len(cs) - 1 |-> new[k]]
    BY <2>1
  <2> HIDE DEF new
  <2>5. R = [k \in 1 .. Len(cs) - 1 |-> R[k]]
    BY <1>8, <2>2
  <2> QED
    BY <2>3, <2>4, <2>5 DEF R
<1> HIDE DEF v, new, ks, p, name
<1>16. V!Given = V!Cut(v, p, name)
  BY <1>13, <1>14, <1>15
<1>17. V!Pruned(V!Trees, V!Given)
  BY <1>1, <1>2, <1>4, <1>5, <1>16 DEF V!Pruned, V!Front, V!Last, Front, Last, p, name
<1> QED
  BY <1>7, <1>17 DEF V!Prune

-----------------------------------------------------------------------------
(* The theorems. *)

LEMMA TreeInvInit == TreeInit => TreeInv /\ V!Init
<1> SUFFICES ASSUME TreeInit PROVE TreeInv /\ V!Init
  OBVIOUS
<1>1. heap = << >> /\ handle = << >> /\ call = <<"none", "ok">>
  BY DEF TreeInit
<1>2. GoodHeap(heap) /\ handle \in Seq(1 .. Len(heap))
  BY <1>1 DEF GoodHeap
<1>3. [h \in DOMAIN handle |-> ValueOf[handle[h]]] = << >>
  BY <1>1
<1> QED
  BY <1>1, <1>2, <1>3 DEF TreeInv, V!Init

LEMMA TreeStep == TreeInv /\ [TreeNext]_treeVars => TreeInv' /\ [V!Next]_(V!pathVars)
<1> SUFFICES ASSUME TreeInv, [TreeNext]_treeVars PROVE TreeInv' /\ [V!Next]_(V!pathVars)
  OBVIOUS
<1>1. ASSUME NEW name \in Names, NEW n \in 0 .. MaxKids, NEW ks \in [1 .. n -> DOMAIN handle],
             MakeNode(name, [i \in 1 .. n |-> handle[ks[i]]])
      PROVE  TreeInv' /\ [V!Next]_(V!pathVars)
  BY <1>1, MakeIs DEF V!Next
<1>2. ASSUME NEW root \in Range(handle), Missing(root)
      PROVE  TreeInv' /\ [V!Next]_(V!pathVars)
  BY <1>2, MissingIs
<1>3. ASSUME NEW root \in Range(handle), NEW path \in NodePaths, GetNode(root, path)
      PROVE  TreeInv' /\ [V!Next]_(V!pathVars)
  BY <1>3, GetIs DEF V!Next
<1>4. ASSUME NEW root \in Range(handle), NEW path \in NodePaths, PruneChild(root, path)
      PROVE  TreeInv' /\ [V!Next]_(V!pathVars)
  BY <1>4, PruneIs DEF V!Next
<1>5. ASSUME NEW root \in Range(handle), NEW path \in NodePaths, NEW child \in Range(handle),
             SpawnChild(root, path, child)
      PROVE  TreeInv' /\ [V!Next]_(V!pathVars)
  BY <1>5, SpawnIs DEF V!Next
<1>6. ASSUME UNCHANGED treeVars PROVE TreeInv' /\ [V!Next]_(V!pathVars)
  <2>1. UNCHANGED <<heap, handle>> /\ UNCHANGED call
    BY <1>6 DEF treeVars
  <2>2. TreeInv' /\ UNCHANGED [h \in DOMAIN handle |-> ValueOf[handle[h]]]
    BY <2>1, Keeps
  <2> QED
    BY <2>1, <2>2 DEF V!pathVars
<1> QED
  BY <1>1, <1>2, <1>3, <1>4, <1>5, <1>6 DEF TreeNext

\* No node has two children of one name or is below itself, whatever calls
\* made the heap.  (Node.__init__ checks siblings, _with_children keeps them.)
THEOREM WellFormedHolds == TreeSpec => []WellFormed
<1>1. TreeInv => WellFormed
  <2> SUFFICES ASSUME TreeInv, NEW n \in DOMAIN heap
               PROVE  /\ \A i, j \in DOMAIN heap[n].children :
                           heap[heap[n].children[i]].name = heap[heap[n].children[j]].name => i = j
                      /\ \A i \in DOMAIN heap[n].children : heap[n].children[i] \in 1 .. n - 1
    BY DEF WellFormed
  <2>1. GoodHeap(heap) /\ n \in 1 .. Len(heap)
    BY DEF TreeInv, GoodHeap
  <2>2. /\ DOMAIN heap[n].children = 1 .. Len(heap[n].children)
        /\ \A i \in 1 .. Len(heap[n].children) : heap[n].children[i] \in 1 .. n - 1
    BY <2>1, NodeIs
  <2>3. \A i, j \in 1 .. Len(heap[n].children) :
          heap[heap[n].children[i]].name = heap[heap[n].children[j]].name => i = j
    BY <2>1, NodeIs
  <2> QED
    BY <2>2, <2>3
<1> QED
  BY <1>1, TreeInvInit, TreeStep, PTL DEF TreeSpec

\* The objects implement PathTree: every call of spawn and prune gives the
\* value with that change alone, and no tree that the program holds changes,
\* though the trees share all nodes but those on the way to the change.
THEOREM IsPathTreeHolds == TreeSpec => IsPathTree
<1> QED
  BY TreeInvInit, TreeStep, PTL DEF TreeSpec, IsPathTree, V!Spec
=============================================================================
