----------------------------- MODULE SessionProofs -----------------------------
(***************************************************************************)
(* Proofs about three parts of a program that share nothing: Upcasting,    *)
(* Harness and SpecProject.                                                *)
(***************************************************************************)
EXTENDS Upcasting, Harness, SpecProject,
        SequenceTheorems, FiniteSetTheorems, WellFoundedInduction, TLAPS

-----------------------------------------------------------------------------
(* Upcasting.  What upcast makes of an event, for any upcasters,           *)
(* registered at any time.  The types seen so far are a chain under the    *)
(* upcasters registered now: an upcaster is never replaced, so a chain     *)
(* that was begun under fewer of them still is one.                        *)

(* Iterate. *)

\* The least number principle.
LEMMA LeastNat ==
  ASSUME NEW T, T \subseteq Nat, T # {}
  PROVE  \E x \in T : \A y \in T : x <= y
<1> DEFINE less == OpToRel(<, Nat)
<1>1. \A x, y \in Nat : x < y => <<x, y>> \in less
  BY DEF OpToRel
<1>2. IsWellFoundedOn(less, Nat)
  BY NatLessThanWellFounded
<1> HIDE DEF less
<1>3. PICK x \in T : \A y \in T : ~ (<<y, x>> \in less)
  BY <1>2, WFMin
<1>4. ASSUME NEW y \in T PROVE x <= y
  <2>1. x \in Nat /\ y \in Nat
    OBVIOUS
  <2>2. ~ (y < x)
    BY <1>1, <1>3, <2>1
  <2> QED
    BY <2>1, <2>2
<1> QED
  BY <1>4

After(by, t) == IF t \in DOMAIN by THEN by[t] ELSE t

\* f is the function that Iterate defines.
Steps(f, by, t, n) == f = [i \in 0 .. n |-> IF i = 0 THEN t ELSE After(by, f[i - 1])]

LEMMA StepsExist ==
  ASSUME NEW by, NEW t, NEW n \in Nat
  PROVE  \E f : Steps(f, by, t, n)
<1> DEFINE Bad == {m \in Nat : ~ \E f : Steps(f, by, t, m)}
<1> SUFFICES ASSUME Bad # {} PROVE FALSE
  OBVIOUS
<1>1. PICK m \in Bad : \A k \in Bad : m <= k
  BY LeastNat
<1>2. m \in Nat /\ m # 0
  <2>1. Steps([i \in 0 .. 0 |-> t], by, t, 0)
    BY DEF Steps
  <2> QED
    BY <2>1
<1>3. PICK f : Steps(f, by, t, m - 1)
  BY <1>1, <1>2
<1> DEFINE g == [i \in 0 .. m |-> IF i < m THEN f[i] ELSE After(by, f[m - 1])]
<1>4. ASSUME NEW i \in 0 .. m PROVE g[i] = IF i = 0 THEN t ELSE After(by, g[i - 1])
  <2>1. CASE i = m
    <3>1. m - 1 \in 0 .. m /\ m - 1 < m
      BY <1>2
    <3> QED
      BY <1>2, <2>1, <3>1
  <2>2. CASE i # m
    <3>1. i \in 0 .. m - 1 /\ i < m
      BY <1>2, <2>2
    <3>2. f[i] = IF i = 0 THEN t ELSE After(by, f[i - 1])
      BY <1>3, <3>1 DEF Steps
    <3>3. i # 0 => i - 1 \in 0 .. m /\ i - 1 < m
      BY <1>2, <3>1
    <3> QED
      BY <3>1, <3>2, <3>3
  <2> QED
    BY <2>1, <2>2
<1>5. g = [i \in 0 .. m |-> g[i]]
  OBVIOUS
<1> HIDE DEF g
<1>6. Steps(g, by, t, m)
  BY <1>4, <1>5 DEF Steps
<1> QED
  BY <1>6

\* A chain of n types from t, each made of the one before as long as there is
\* an upcaster for it, ends where Iterate does.
LEMMA IterateIs ==
  ASSUME NEW by, NEW t, NEW n \in Nat, NEW c,
         c[0] = t, \A i \in 1 .. n : c[i] = After(by, c[i - 1])
  PROVE  Iterate(by, t, n) = c[n]
<1> DEFINE f == CHOOSE f : Steps(f, by, t, n)
<1>1. Iterate(by, t, n) = f[n]
  BY DEF Iterate, Steps, After
<1>2. Steps(f, by, t, n)
  BY StepsExist
<1> HIDE DEF f
<1>3. \A i \in 0 .. n : f[i] = IF i = 0 THEN t ELSE After(by, f[i - 1])
  BY <1>2 DEF Steps
<1> DEFINE Bad == {m \in Nat : m <= n /\ f[m] # c[m]}
<1> SUFFICES ASSUME Bad # {} PROVE FALSE
  BY <1>1
<1>4. PICK m \in Bad : \A k \in Bad : m <= k
  BY LeastNat
<1>5. m # 0
  BY <1>3
<1>6. m - 1 \in 0 .. n /\ m \in 1 .. n
  BY <1>5
<1>7. f[m - 1] = c[m - 1]
  BY <1>4, <1>6
<1> QED
  BY <1>3, <1>5, <1>6, <1>7
-----------------------------------------------------------------------------
(* The inductive invariant. *)

Maybe == Types \union {None}

Registries == UNION {[some -> Maybe] : some \in SUBSET Types}

PassedLines == [type : Maybe, registry : Registries]

CallRecord ==
  [pc : {"idle", "next", "upcast", "done", "cycle", "failed"}, api : {"stream", "list"},
   limit : Nat \union {None}, accept : Accepted \union {{}}, pos : 0 .. Len(Log), type : Maybe,
   seen : Seq(Types), rows : Seq(Maybe), passed : Seq(PassedLines)]

UpTyped ==
  /\ registry \in Registries /\ IsFiniteSet(DOMAIN registry)
  /\ reading \in [EventReads -> CallRecord]

\* The lines that a call took and those that passed.
InStep(rd) ==
  /\ rd.pc = "idle" => rd.pos = 0
  /\ rd.pc \in {"idle", "next"} => Len(rd.passed) = rd.pos
  /\ rd.pc \in {"upcast", "cycle"} => rd.pos = Len(rd.passed) + 1

\* The type that followed i upcasters.
Link(rd, i) == IF i < Len(rd.seen) THEN rd.seen[i + 1] ELSE rd.type

\* The types seen, and the one at hand, are a chain of upcasters of by that
\* begins at the line taken last and passed no type twice.
Chained(rd, by) ==
  /\ Link(rd, 0) = Log[rd.pos]
  /\ \A i \in 1 .. Len(rd.seen) : rd.seen[i] \in DOMAIN by /\ by[rd.seen[i]] = Link(rd, i)
  /\ \A i, j \in 1 .. Len(rd.seen) : rd.seen[i] = rd.seen[j] => i = j

\* A cycle is what it was raised for.
CycleSeen(rd) == \E i \in 1 .. Len(rd.seen) : rd.seen[i] = rd.type

LineDecoded(line, type) ==
  line.type = Iterate(line.registry, type, Cardinality(DOMAIN line.registry))

FitIn(rd, n) == Cardinality({i \in 1 .. n : rd.passed[i].type \in rd.accept})

Below(rd, n) == rd.limit = None \/ n <= rd.limit

RowsFit(rd) ==
  /\ Len(rd.rows) = IF Below(rd, FitIn(rd, Len(rd.passed))) THEN FitIn(rd, Len(rd.passed)) ELSE rd.limit
  /\ \A i \in 1 .. Len(rd.passed) :
       rd.passed[i].type \in rd.accept /\ Below(rd, FitIn(rd, i)) =>
         rd.rows[FitIn(rd, i)] = rd.passed[i].type

RowsLost(rd) == rd.api = "list" /\ rd.pc \in {"cycle", "failed"}

CallGood(rd, by) ==
  /\ InStep(rd)
  /\ rd.pc \in {"upcast", "cycle"} => Chained(rd, by)
  /\ rd.pc = "cycle" => CycleSeen(rd)
  /\ \A i \in 1 .. Len(rd.passed) : LineDecoded(rd.passed[i], Log[i])
  /\ RowsFit(rd) \/ RowsLost(rd)

UpInv == UpTyped /\ \A r \in EventReads : CallGood(reading[r], registry)

-----------------------------------------------------------------------------
(* How many lines fit. *)

LEMMA FitIsNat ==
  ASSUME NEW rd, NEW n \in Nat
  PROVE  /\ IsFiniteSet({i \in 1 .. n : rd.passed[i].type \in rd.accept})
         /\ FitIn(rd, n) \in Nat
<1>1. IsFiniteSet(1 .. n)
  BY FS_Interval
<1>2. IsFiniteSet({i \in 1 .. n : rd.passed[i].type \in rd.accept})
  BY <1>1, FS_Subset
<1> QED
  BY <1>2, FS_CardinalityType DEF FitIn

LEMMA FitGrows ==
  ASSUME NEW rd, NEW n \in Nat, NEW m \in Nat, n <= m
  PROVE  FitIn(rd, n) <= FitIn(rd, m)
<1> DEFINE Few == {i \in 1 .. n : rd.passed[i].type \in rd.accept}
           Many == {i \in 1 .. m : rd.passed[i].type \in rd.accept}
<1>1. Few \in SUBSET Many
  OBVIOUS
<1>2. IsFiniteSet(Many)
  BY FitIsNat
<1>3. Cardinality(Few) <= Cardinality(Many)
  BY <1>1, <1>2, FS_Subset
<1> QED
  BY <1>3 DEF FitIn

LEMMA FittingCounts ==
  ASSUME NEW rd, NEW n \in Nat, n >= 1, rd.passed[n].type \in rd.accept
  PROVE  FitIn(rd, n) >= 1
<1> DEFINE Fit == {i \in 1 .. n : rd.passed[i].type \in rd.accept}
<1>1. n \in Fit
  OBVIOUS
<1>2. IsFiniteSet(Fit) /\ Cardinality(Fit) \in Nat
  BY FitIsNat DEF FitIn
<1>3. Cardinality(Fit) # 0
  BY <1>1, <1>2, FS_EmptySet
<1> QED
  BY <1>2, <1>3 DEF FitIn

LEMMA NothingFits ==
  ASSUME NEW rd PROVE FitIn(rd, 0) = 0
<1>1. {i \in 1 .. 0 : rd.passed[i].type \in rd.accept} = {}
  OBVIOUS
<1> QED
  BY <1>1, FS_EmptySet DEF FitIn

\* One more line.
LEMMA FitAppends ==
  ASSUME NEW rd, NEW new, NEW line \in PassedLines, rd.passed \in Seq(PassedLines),
         new.passed = Append(rd.passed, line), new.accept = rd.accept
  PROVE  /\ \A n \in 0 .. Len(rd.passed) : FitIn(new, n) = FitIn(rd, n)
         /\ FitIn(new, Len(rd.passed) + 1) =
              FitIn(rd, Len(rd.passed)) + IF line.type \in rd.accept THEN 1 ELSE 0
<1> DEFINE m == Len(rd.passed)
<1>1. m \in Nat /\ new.passed[m + 1] = line /\ \A i \in 1 .. m : new.passed[i] = rd.passed[i]
  OBVIOUS
<1> DEFINE Old == {i \in 1 .. m : rd.passed[i].type \in rd.accept}
           Now == {i \in 1 .. m + 1 : new.passed[i].type \in new.accept}
<1>2. ASSUME NEW n \in 0 .. m PROVE FitIn(new, n) = FitIn(rd, n)
  <2>1. {i \in 1 .. n : new.passed[i].type \in new.accept} = {i \in 1 .. n : rd.passed[i].type \in rd.accept}
    BY <1>1
  <2> QED
    BY <2>1 DEF FitIn
<1>3. IsFiniteSet(Old) /\ Cardinality(Old) \in Nat /\ m + 1 \notin Old
  <2>1. IsFiniteSet(Old)
    BY <1>1, FitIsNat
  <2>2. m + 1 \notin 1 .. m
    BY <1>1
  <2> QED
    BY <2>1, <2>2, FS_CardinalityType
<1>4. Now = IF line.type \in rd.accept THEN Old \union {m + 1} ELSE Old
  BY <1>1
<1>5. Cardinality(Old \union {m + 1}) = Cardinality(Old) + 1
  BY <1>3, FS_AddElement
<1>6. Cardinality(Now) = Cardinality(Old) + IF line.type \in rd.accept THEN 1 ELSE 0
  <2> HIDE DEF Old, Now, m
  <2>1. CASE line.type \in rd.accept
    BY <1>4, <1>5, <2>1
  <2>2. CASE line.type \notin rd.accept
    BY <1>3, <1>4, <2>2
  <2> QED
    BY <2>1, <2>2
<1> QED
  BY <1>2, <1>6 DEF FitIn

-----------------------------------------------------------------------------
(* Chains. *)

\* A chain passes no more types than there are upcasters.
LEMMA ChainIsShort ==
  ASSUME NEW rd, NEW by, rd.seen \in Seq(Types), IsFiniteSet(DOMAIN by), Chained(rd, by)
  PROVE  /\ Cardinality(DOMAIN by) \in Nat
         /\ Len(rd.seen) <= Cardinality(DOMAIN by)
<1> DEFINE n == Len(rd.seen)
<1>1. n \in Nat /\ rd.seen \in [1 .. n -> Types]
  OBVIOUS
<1>2. rd.seen \in [1 .. n -> DOMAIN by]
  BY <1>1 DEF Chained
<1>3. rd.seen \in Injection(1 .. n, DOMAIN by)
  BY <1>2 DEF Chained, Injection, IsInjective
<1>4. Cardinality(1 .. n) <= Cardinality(DOMAIN by)
  BY <1>3, FS_Injection
<1>5. Cardinality(1 .. n) = n
  <2>1. \A q \in Nat : Cardinality(1 .. q) = IF 1 > q THEN 0 ELSE q - 1 + 1
    BY FS_Interval
  <2> HIDE DEF n
  <2> QED
    BY <1>1, <2>1
<1> QED
  BY <1>4, <1>5, FS_CardinalityType

\* Where no upcaster is left, the chain has come to what Iterate makes of the line.
LEMMA ChainDecodes ==
  ASSUME NEW rd, NEW by, rd.seen \in Seq(Types), IsFiniteSet(DOMAIN by), Chained(rd, by),
         rd.type \notin DOMAIN by
  PROVE  rd.type = Iterate(by, Log[rd.pos], Cardinality(DOMAIN by))
<1> DEFINE n == Cardinality(DOMAIN by)
           k == Len(rd.seen)
           c == [i \in 0 .. n |-> Link(rd, i)]
<1>1. n \in Nat /\ k \in Nat /\ k <= n
  BY ChainIsShort
<1>2. c[0] = Log[rd.pos] /\ c[n] = rd.type
  BY <1>1 DEF Chained, Link
<1>3. ASSUME NEW i \in 1 .. n PROVE c[i] = After(by, c[i - 1])
  <2>1. c[i] = Link(rd, i) /\ c[i - 1] = Link(rd, i - 1)
    BY <1>1
  <2>2. CASE i <= k
    <3>1. Link(rd, i - 1) = rd.seen[i] /\ i \in 1 .. k
      BY <1>1, <2>2 DEF Link
    <3> QED
      BY <2>1, <3>1 DEF Chained, After
  <2>3. CASE i > k
    <3>1. Link(rd, i - 1) = rd.type /\ Link(rd, i) = rd.type
      BY <1>1, <2>3 DEF Link
    <3> QED
      BY <2>1, <3>1 DEF After
  <2> QED
    BY <1>1, <2>2, <2>3
<1> HIDE DEF n, k, c
<1>4. Iterate(by, Log[rd.pos], n) = c[n]
  BY <1>1, <1>2, <1>3, IterateIs
<1> QED
  BY <1>2, <1>4 DEF n

\* A chain that comes to a type it has seen goes round.
LEMMA ChainCycles ==
  ASSUME NEW rd, NEW by, rd.seen \in Seq(Types), IsFiniteSet(DOMAIN by), Chained(rd, by),
         CycleSeen(rd)
  PROVE  /\ rd.type \in DOMAIN by
         /\ \E n \in 1 .. Cardinality(DOMAIN by) : Iterate(by, rd.type, n) = rd.type
<1> DEFINE k == Len(rd.seen)
<1>1. PICK j \in 1 .. k : rd.seen[j] = rd.type
  BY DEF CycleSeen
<1> DEFINE n == k - j + 1
           c == [i \in 0 .. n |-> Link(rd, j - 1 + i)]
<1>2. k \in Nat /\ n \in 1 .. Cardinality(DOMAIN by) /\ n \in Nat
  BY ChainIsShort
<1>3. c[0] = rd.type
  BY <1>1, <1>2 DEF Link
<1>4. c[n] = rd.type
  BY <1>1, <1>2 DEF Link
<1>5. ASSUME NEW i \in 1 .. n PROVE c[i] = After(by, c[i - 1])
  <2>1. j - 1 + i \in 1 .. k /\ j + i - 1 = j - 1 + i
    BY <1>1, <1>2
  <2>2. c[i] = Link(rd, j - 1 + i) /\ c[i - 1] = Link(rd, j - 2 + i)
    BY <1>1, <1>2
  <2>3. Link(rd, j - 2 + i) = rd.seen[j - 1 + i]
    BY <1>2, <2>1 DEF Link
  <2> QED
    BY <2>1, <2>2, <2>3 DEF Chained, After
<1> HIDE DEF n, c
<1>6. Iterate(by, rd.type, n) = c[n]
  BY <1>2, <1>3, <1>5, IterateIs
<1>7. rd.type \in DOMAIN by
  BY <1>1 DEF Chained
<1> QED
  BY <1>2, <1>4, <1>6, <1>7

-----------------------------------------------------------------------------
(* The properties follow from the invariant. *)

LEMMA UpInvDecodes == UpInv => RowsAreDecoded
<1> SUFFICES ASSUME UpInv, NEW r \in EventReads
             PROVE  LET passed == reading[r].passed
                        all == Fitting(r, Len(passed))
                    IN  /\ \A i \in 1 .. Len(passed) :
                             LET by == passed[i].registry
                             IN  passed[i].type = Iterate(by, Log[i], Cardinality(DOMAIN by))
                        /\ \/ /\ Len(reading[r].rows) = IF Allowed(r, all) THEN all ELSE reading[r].limit
                              /\ \A i \in 1 .. Len(passed) :
                                   passed[i].type \in reading[r].accept /\ Allowed(r, Fitting(r, i))
                                   => reading[r].rows[Fitting(r, i)] = passed[i].type
                           \/ reading[r].api = "list" /\ reading[r].pc \in {"cycle", "failed"}
  BY DEF RowsAreDecoded
<1>1. CallGood(reading[r], registry)
  BY DEF UpInv
<1>2. \A n : Fitting(r, n) = FitIn(reading[r], n) /\ (Allowed(r, n) <=> Below(reading[r], n))
  BY DEF Fitting, FitIn, Allowed, Below
<1>3. \A i \in 1 .. Len(reading[r].passed) : LineDecoded(reading[r].passed[i], Log[i])
  BY <1>1 DEF CallGood
<1>4. RowsFit(reading[r]) \/ RowsLost(reading[r])
  BY <1>1 DEF CallGood
<1> QED
  <2> HIDE DEF Fitting, Allowed
  <2>1. \A i \in 1 .. Len(reading[r].passed) :
          reading[r].passed[i].type =
            Iterate(reading[r].passed[i].registry, Log[i], Cardinality(DOMAIN reading[r].passed[i].registry))
    BY <1>3 DEF LineDecoded
  <2>2. CASE RowsLost(reading[r])
    BY <2>1, <2>2 DEF RowsLost
  <2>3. CASE RowsFit(reading[r])
    <3>1. Len(reading[r].rows) =
            IF Allowed(r, Fitting(r, Len(reading[r].passed)))
            THEN Fitting(r, Len(reading[r].passed)) ELSE reading[r].limit
      BY <1>2, <2>3 DEF RowsFit
    <3>2. \A i \in 1 .. Len(reading[r].passed) :
            reading[r].passed[i].type \in reading[r].accept /\ Allowed(r, Fitting(r, i))
            => reading[r].rows[Fitting(r, i)] = reading[r].passed[i].type
      BY <1>2, <2>3 DEF RowsFit
    <3> QED
      BY <2>1, <3>1, <3>2
  <2> QED
    BY <1>4, <2>2, <2>3

LEMMA UpInvCycles == UpInv => CycleIsReal
<1> SUFFICES ASSUME UpInv, NEW r \in EventReads, reading[r].pc = "cycle"
             PROVE  /\ reading[r].type \in DOMAIN registry
                    /\ \E n \in 1 .. Cardinality(DOMAIN registry) :
                         Iterate(registry, reading[r].type, n) = reading[r].type
  BY DEF CycleIsReal
<1>1. CallGood(reading[r], registry) /\ reading[r] \in CallRecord /\ IsFiniteSet(DOMAIN registry)
  BY DEF UpInv, UpTyped
<1>2. Chained(reading[r], registry) /\ CycleSeen(reading[r]) /\ reading[r].seen \in Seq(Types)
  BY <1>1 DEF CallGood, CallRecord
<1> QED
  BY <1>1, <1>2, ChainCycles

-----------------------------------------------------------------------------
(* Every step keeps the invariant. *)

LEMMA InitUpInv == UpInit => UpInv
<1> SUFFICES ASSUME UpInit PROVE UpInv
  OBVIOUS
<1>1. registry \in Registries /\ IsFiniteSet(DOMAIN registry)
  <2>1. registry \in [{} -> Maybe] /\ DOMAIN registry = {}
    BY DEF UpInit
  <2> QED
    BY <2>1, FS_EmptySet DEF Registries
<1>2. reading \in [EventReads -> CallRecord]
  BY UpcastingAssumption DEF UpInit, CallRecord, Maybe
<1>3. ASSUME NEW r \in EventReads PROVE CallGood(reading[r], registry)
  <2>1. /\ reading[r].pc = "idle" /\ reading[r].pos = 0 /\ reading[r].limit = None
        /\ reading[r].rows = << >> /\ reading[r].passed = << >>
    BY DEF UpInit
  <2>2. FitIn(reading[r], 0) = 0
    BY NothingFits
  <2>3. RowsFit(reading[r])
    BY <2>1, <2>2 DEF RowsFit, Below
  <2> QED
    BY <2>1, <2>3 DEF CallGood, InStep
<1> QED
  BY <1>1, <1>2, <1>3 DEF UpInv, UpTyped

\* A step of one call that leaves it good.
LEMMA CallSteps ==
  ASSUME UpInv, NEW r \in EventReads, NEW new \in CallRecord, CallGood(new, registry),
         reading' = [reading EXCEPT ![r] = new], UNCHANGED registry
  PROVE  UpInv'
<1>1. UpTyped'
  BY DEF UpInv, UpTyped
<1>2. ASSUME NEW q \in EventReads PROVE CallGood(reading'[q], registry')
  <2>1. reading'[q] = IF q = r THEN new ELSE reading[q]
    BY DEF UpInv, UpTyped
  <2> QED
    BY <2>1 DEF UpInv
<1> QED
  BY <1>1, <1>2 DEF UpInv

\* One more upcaster leaves a chain a chain.
LEMMA RegisterKeeps ==
  ASSUME UpInv, NEW u \in Upcasters, Register(u[1], u[2])
  PROVE  UpInv'
<1> DEFINE from == u[1]
           to == u[2]
<1>1. from \in Types /\ to \in Maybe
  BY UpcastingAssumption DEF Maybe
<1>2. from \notin DOMAIN registry /\ UNCHANGED reading
      /\ registry' = [t \in DOMAIN registry \union {from} |-> IF t = from THEN to ELSE registry[t]]
  BY DEF Register
<1>3. registry \in Registries /\ IsFiniteSet(DOMAIN registry)
  BY DEF UpInv, UpTyped
<1>4. PICK some \in SUBSET Types : registry \in [some -> Maybe]
  BY <1>3 DEF Registries
<1>5. registry' \in Registries
  <2>1. registry' \in [some \union {from} -> Maybe]
    BY <1>1, <1>2, <1>4
  <2> QED
    BY <1>1, <2>1 DEF Registries
<1>6. IsFiniteSet(DOMAIN registry')
  BY <1>2, <1>3, FS_AddElement
<1>7. \A t \in DOMAIN registry : t \in DOMAIN registry' /\ registry'[t] = registry[t]
  BY <1>2
<1>8. ASSUME NEW r \in EventReads PROVE CallGood(reading'[r], registry')
  <2>1. CallGood(reading[r], registry) /\ reading'[r] = reading[r]
    BY <1>2 DEF UpInv
  <2>2. Chained(reading[r], registry) => Chained(reading[r], registry')
    BY <1>7 DEF Chained
  <2> QED
    BY <2>1, <2>2 DEF CallGood
<1> QED
  BY <1>2, <1>3, <1>5, <1>6, <1>8 DEF UpInv, UpTyped

LEMMA ReadBeginsKeeps ==
  ASSUME UpInv, NEW r \in EventReads, NEW api \in {"stream", "list"},
         NEW limit \in ReadLimits, NEW accept \in Accepted, ReadBegins(r, api, limit, accept)
  PROVE  UpInv'
<1> DEFINE rd == reading[r]
           new == [rd EXCEPT !.pc = "next", !.api = api, !.limit = limit, !.accept = accept]
<1>1. rd \in CallRecord /\ CallGood(rd, registry) /\ rd.pc = "idle"
  BY DEF UpInv, UpTyped, ReadBegins
<1>2. reading' = [reading EXCEPT ![r] = new] /\ UNCHANGED registry
  BY DEF ReadBegins
<1>3. new \in CallRecord
  BY <1>1, UpcastingAssumption DEF CallRecord
<1>4. /\ new.pc = "next" /\ new.limit = limit /\ new.pos = rd.pos
      /\ new.rows = rd.rows /\ new.passed = rd.passed
  BY <1>1 DEF CallRecord
<1>5. /\ rd.pos = 0 /\ rd.passed \in Seq(PassedLines) /\ Len(rd.passed) = 0 /\ rd.rows \in Seq(Maybe)
  BY <1>1 DEF CallGood, InStep, CallRecord
<1>6. Len(rd.rows) = 0
  <2>1. FitIn(rd, 0) = 0
    BY NothingFits
  <2>2. RowsFit(rd) /\ rd.limit \in Nat \union {None}
    BY <1>1 DEF CallGood, RowsLost, CallRecord
  <2> QED
    BY <1>5, <2>1, <2>2 DEF RowsFit, Below
<1> HIDE DEF new, rd
<1>7. RowsFit(new)
  <2>1. FitIn(new, 0) = 0
    BY NothingFits
  <2>2. limit \in Nat \union {None}
    BY UpcastingAssumption
  <2> QED
    BY <1>4, <1>5, <1>6, <2>1, <2>2 DEF RowsFit, Below
<1>8. CallGood(new, registry)
  BY <1>4, <1>5, <1>7 DEF CallGood, InStep
<1> QED
  BY <1>2, <1>3, <1>8, CallSteps

\* One field of a call's record.
LEMMA FieldStays ==
  ASSUME NEW rd \in CallRecord
  PROVE  /\ \A v \in {"idle", "next", "upcast", "done", "cycle", "failed"} : [rd EXCEPT !.pc = v] \in CallRecord
         /\ \A v \in 0 .. Len(Log) : [rd EXCEPT !.pos = v] \in CallRecord
         /\ \A v \in Maybe : [rd EXCEPT !.type = v] \in CallRecord
         /\ \A v \in Seq(Types) : [rd EXCEPT !.seen = v] \in CallRecord
         /\ \A v \in Seq(Maybe) : [rd EXCEPT !.rows = v] \in CallRecord
         /\ \A v \in Seq(PassedLines) : [rd EXCEPT !.passed = v] \in CallRecord
  BY DEF CallRecord

LEMMA NextLineKeeps ==
  ASSUME UpInv, NEW r \in EventReads, NextLine(r)
  PROVE  UpInv'
<1> DEFINE rd == reading[r]
<1>1. rd \in CallRecord /\ CallGood(rd, registry) /\ rd.pc = "next"
  BY DEF UpInv, UpTyped, NextLine
<1>2. /\ rd.pos = Len(rd.passed) /\ rd.pos \in 0 .. Len(Log)
      /\ Len(Log) \in Nat
      /\ RowsFit(rd)
      /\ \A i \in 1 .. Len(rd.passed) : LineDecoded(rd.passed[i], Log[i])
  BY <1>1, UpcastingAssumption DEF CallGood, InStep, RowsLost, CallRecord
<1>3. CASE rd.pos = Len(Log)
  <2> DEFINE new == [rd EXCEPT !.pc = "done"]
  <2>1. reading' = [reading EXCEPT ![r] = new] /\ UNCHANGED registry
    BY <1>3 DEF NextLine
  <2>2. new \in CallRecord
    BY <1>1 DEF CallRecord
  <2>3. /\ new.pc = "done" /\ new.rows = rd.rows /\ new.passed = rd.passed
        /\ new.limit = rd.limit /\ new.accept = rd.accept
    BY <1>1 DEF CallRecord
  <2> HIDE DEF new, rd
  <2>4. CallGood(new, registry)
    BY <1>2, <2>3 DEF CallGood, InStep, RowsFit, Below, FitIn
  <2> QED
    BY <2>1, <2>2, <2>4, CallSteps
<1>4. CASE rd.pos # Len(Log)
  <2> DEFINE new == [rd EXCEPT !.pc = "upcast", !.pos = rd.pos + 1, !.type = Log[rd.pos + 1],
                               !.seen = << >>]
  <2>1. reading' = [reading EXCEPT ![r] = new] /\ UNCHANGED registry
    BY <1>4 DEF NextLine
  <2>2. rd.pos + 1 \in 0 .. Len(Log) /\ Log[rd.pos + 1] \in Maybe
    BY <1>2, <1>4, UpcastingAssumption DEF Maybe
  <2>3. new \in CallRecord
    <3> DEFINE half == [[rd EXCEPT !.pc = "upcast"] EXCEPT !.pos = rd.pos + 1]
               most == [half EXCEPT !.type = Log[rd.pos + 1]]
    <3>1. half \in CallRecord
      BY <1>1, <2>2, FieldStays
    <3>2. most \in CallRecord
      <4> HIDE DEF half
      <4> QED
        BY <2>2, <3>1, FieldStays
    <3>3. [most EXCEPT !.seen = << >>] \in CallRecord
      <4> HIDE DEF most
      <4>1. << >> \in Seq(Types)
        OBVIOUS
      <4> QED
        BY <3>2, <4>1, FieldStays
    <3>4. new = [most EXCEPT !.seen = << >>]
      BY <1>1 DEF CallRecord
    <3> QED
      BY <3>3, <3>4
  <2>4. /\ new.pc = "upcast" /\ new.rows = rd.rows /\ new.passed = rd.passed
        /\ new.limit = rd.limit /\ new.accept = rd.accept
        /\ new.pos = rd.pos + 1 /\ new.type = Log[rd.pos + 1] /\ new.seen = << >>
    BY <1>1 DEF CallRecord
  <2> HIDE DEF new, rd
  <2>5. Chained(new, registry)
    BY <2>4 DEF Chained, Link
  <2>6. RowsFit(new)
    BY <1>2, <2>4 DEF RowsFit, Below, FitIn
  <2>7. CallGood(new, registry)
    BY <1>2, <2>4, <2>5, <2>6 DEF CallGood, InStep
  <2> QED
    BY <2>1, <2>3, <2>7, CallSteps
<1> QED
  BY <1>3, <1>4

LEMMA ApplyKeeps ==
  ASSUME UpInv, NEW r \in EventReads, Apply(r)
  PROVE  UpInv'
<1> DEFINE rd == reading[r]
           new == [rd EXCEPT !.type = registry[rd.type], !.seen = Append(rd.seen, rd.type)]
           k == Len(rd.seen)
<1>1. /\ rd \in CallRecord /\ CallGood(rd, registry) /\ rd.pc = "upcast"
      /\ rd.type \in DOMAIN registry
  BY DEF UpInv, UpTyped, Apply, Final
<1>2. reading' = [reading EXCEPT ![r] = new] /\ UNCHANGED registry
  BY DEF Apply
<1>3. rd.seen \in Seq(Types) /\ rd.type \in Maybe
  BY <1>1 DEF CallRecord
<1>4. rd.type \in Types /\ registry[rd.type] \in Maybe
  BY <1>1 DEF UpInv, UpTyped, Registries
<1>5. new \in CallRecord
  <2> DEFINE half == [rd EXCEPT !.type = registry[rd.type]]
  <2>1. half \in CallRecord
    BY <1>1, <1>4, FieldStays
  <2>2. Append(rd.seen, rd.type) \in Seq(Types)
    BY <1>3, <1>4
  <2>3. new = [half EXCEPT !.seen = Append(rd.seen, rd.type)]
    BY <1>1 DEF CallRecord
  <2> HIDE DEF half
  <2>4. [half EXCEPT !.seen = Append(rd.seen, rd.type)] \in CallRecord
    BY <2>1, <2>2, FieldStays
  <2> QED
    BY <2>3, <2>4
<1>6. /\ new.pc = "upcast" /\ new.rows = rd.rows /\ new.passed = rd.passed
      /\ new.limit = rd.limit /\ new.accept = rd.accept /\ new.pos = rd.pos
      /\ new.type = registry[rd.type] /\ new.seen = Append(rd.seen, rd.type)
  BY <1>1 DEF CallRecord
<1>7. \A i \in 1 .. k : rd.seen[i] # rd.type
  BY <1>3 DEF Apply, Cycles, Contains
<1>8. Chained(rd, registry) /\ RowsFit(rd)
  BY <1>1 DEF CallGood, RowsLost
<1> HIDE DEF new, rd
<1>9. /\ k \in Nat /\ Len(new.seen) = k + 1 /\ new.seen[k + 1] = rd.type
      /\ \A i \in 1 .. k : new.seen[i] = rd.seen[i]
  BY <1>3, <1>6
<1>10. \A i \in 0 .. k : Link(new, i) = Link(rd, i)
  BY <1>9 DEF Link
<1>11. Link(new, k + 1) = registry[rd.type]
  BY <1>6, <1>9 DEF Link
<1>12. Chained(new, registry)
  <2>1. Link(new, 0) = Log[new.pos]
    BY <1>6, <1>8, <1>9, <1>10 DEF Chained
  <2>2. ASSUME NEW i \in 1 .. k + 1
        PROVE  new.seen[i] \in DOMAIN registry /\ registry[new.seen[i]] = Link(new, i)
    <3>1. CASE i = k + 1
      BY <1>1, <1>9, <1>11, <3>1 DEF rd
    <3>2. CASE i # k + 1
      <4>1. i \in 1 .. k /\ i \in 0 .. k
        BY <1>9, <3>2
      <4> QED
        BY <1>8, <1>9, <1>10, <4>1 DEF Chained
    <3> QED
      BY <3>1, <3>2
  <2>3. ASSUME NEW i \in 1 .. k + 1, NEW j \in 1 .. k + 1, new.seen[i] = new.seen[j]
        PROVE  i = j
    <3>1. \A n \in 1 .. k + 1 : n = k + 1 \/ n \in 1 .. k
      BY <1>9
    <3> QED
      BY <1>7, <1>8, <1>9, <2>3, <3>1 DEF Chained
  <2> QED
    BY <1>9, <2>1, <2>2, <2>3 DEF Chained
<1>13. RowsFit(new)
  BY <1>6, <1>8 DEF RowsFit, Below, FitIn
<1>14. CallGood(new, registry)
  BY <1>1, <1>6, <1>12, <1>13 DEF CallGood, InStep, rd
<1> QED
  BY <1>2, <1>5, <1>14, CallSteps

\* An exception: why is "cycle" or "failed".
LEMMA RaiseKeeps ==
  ASSUME UpInv, NEW r \in EventReads, NEW why \in {"cycle", "failed"},
         reading[r].pc = "upcast", why = "cycle" => Cycles(r), Raise(r, why), UNCHANGED registry
  PROVE  UpInv'
<1> DEFINE rd == reading[r]
           new == [rd EXCEPT !.pc = why, !.rows = IF rd.api = "list" THEN << >> ELSE rd.rows]
<1>1. rd \in CallRecord /\ CallGood(rd, registry) /\ rd.pc = "upcast"
  BY DEF UpInv, UpTyped
<1>2. reading' = [reading EXCEPT ![r] = new]
  BY DEF Raise
<1>3. new \in CallRecord
  <2> DEFINE half == [rd EXCEPT !.pc = why]
             kept == IF rd.api = "list" THEN << >> ELSE rd.rows
  <2>1. half \in CallRecord
    BY <1>1, FieldStays
  <2>2. kept \in Seq(Maybe)
    BY <1>1 DEF CallRecord
  <2>3. new = [half EXCEPT !.rows = kept]
    BY <1>1 DEF CallRecord
  <2> HIDE DEF half, kept
  <2>4. [half EXCEPT !.rows = kept] \in CallRecord
    BY <2>1, <2>2, FieldStays
  <2> QED
    BY <2>3, <2>4
<1>4. /\ new.pc = why /\ new.passed = rd.passed /\ new.api = rd.api
      /\ new.limit = rd.limit /\ new.accept = rd.accept /\ new.pos = rd.pos
      /\ new.type = rd.type /\ new.seen = rd.seen
      /\ new.api # "list" => new.rows = rd.rows
  BY <1>1 DEF CallRecord
<1>5. Chained(rd, registry) /\ RowsFit(rd)
  BY <1>1 DEF CallGood, RowsLost
<1>6. why = "cycle" => CycleSeen(rd)
  <2>1. rd.seen \in Seq(Types)
    BY <1>1 DEF CallRecord
  <2> QED
    BY <2>1 DEF Cycles, Contains, CycleSeen
<1>7. InStep(rd) /\ \A i \in 1 .. Len(rd.passed) : LineDecoded(rd.passed[i], Log[i])
  BY <1>1 DEF CallGood
<1>8. rd.pc = "upcast"
  BY <1>1
<1> HIDE DEF new, rd
<1>9. RowsFit(new) \/ RowsLost(new)
  <2>1. CASE new.api = "list"
    BY <1>4, <2>1 DEF RowsLost
  <2>2. CASE new.api # "list"
    BY <1>4, <1>5, <2>2 DEF RowsFit, Below, FitIn
  <2> QED
    BY <2>1, <2>2
<1>10. Chained(new, registry)
  BY <1>4, <1>5 DEF Chained, Link
<1>11. new.pc = "cycle" => CycleSeen(new)
  BY <1>4, <1>6 DEF CycleSeen
<1>12. InStep(new)
  BY <1>4, <1>7, <1>8 DEF InStep
<1>13. CallGood(new, registry)
  BY <1>4, <1>7, <1>9, <1>10, <1>11, <1>12 DEF CallGood
<1> QED
  BY <1>2, <1>3, <1>13, CallSteps

\* A line passes: what it had become is what the chain makes of it, and it is a
\* row if the filter and the limit allow.
LEMMA DeliverKeeps ==
  ASSUME UpInv, NEW r \in EventReads, Deliver(r)
  PROVE  UpInv'
<1> DEFINE rd == reading[r]
           taken == rd.type \in rd.accept
           line == [type |-> rd.type, registry |-> registry]
           pc == IF taken /\ Full(r) THEN "done" ELSE "next"
           rows == IF taken /\ ~ Full(r) THEN Append(rd.rows, rd.type) ELSE rd.rows
           new == [rd EXCEPT !.pc = pc, !.rows = rows, !.passed = Append(rd.passed, line)]
           m == Len(rd.passed)
<1>1. /\ rd \in CallRecord /\ CallGood(rd, registry) /\ rd.pc = "upcast"
      /\ rd.type \notin DOMAIN registry
      /\ registry \in Registries /\ IsFiniteSet(DOMAIN registry)
  BY DEF UpInv, UpTyped, Deliver, Final
<1>2. reading' = [reading EXCEPT ![r] = new] /\ UNCHANGED registry
  BY DEF Deliver
<1>3. /\ rd.type \in Maybe /\ rd.passed \in Seq(PassedLines) /\ rd.rows \in Seq(Maybe)
      /\ rd.seen \in Seq(Types) /\ rd.limit \in Nat \union {None}
  BY <1>1 DEF CallRecord
<1>4. line \in PassedLines /\ line.type = rd.type /\ line.registry = registry
  BY <1>1, <1>3 DEF PassedLines
<1>5. pc \in {"done", "next"} /\ rows \in Seq(Maybe) /\ Append(rd.passed, line) \in Seq(PassedLines)
  BY <1>3, <1>4
<1>6. Full(r) <=> rd.limit # None /\ Len(rd.rows) >= rd.limit
  BY DEF Full
<1>7. rows = IF taken /\ ~ Full(r) THEN Append(rd.rows, rd.type) ELSE rd.rows
  OBVIOUS
<1> HIDE DEF line, pc, rows
<1>8. new \in CallRecord
  <2> DEFINE half == [[rd EXCEPT !.pc = pc] EXCEPT !.rows = rows]
  <2>1. [rd EXCEPT !.pc = pc] \in CallRecord
    BY <1>1, <1>5, FieldStays
  <2>2. half \in CallRecord
    BY <1>5, <2>1, FieldStays
  <2>3. new = [half EXCEPT !.passed = Append(rd.passed, line)]
    BY <1>1 DEF CallRecord
  <2> HIDE DEF half
  <2>4. [half EXCEPT !.passed = Append(rd.passed, line)] \in CallRecord
    BY <1>5, <2>2, FieldStays
  <2> QED
    BY <2>3, <2>4
<1>9. /\ new.pc = pc /\ new.rows = rows /\ new.passed = Append(rd.passed, line)
      /\ new.limit = rd.limit /\ new.accept = rd.accept /\ new.pos = rd.pos
  BY <1>1 DEF CallRecord
<1>10. /\ rd.pos = m + 1 /\ Chained(rd, registry) /\ RowsFit(rd)
       /\ \A i \in 1 .. m : LineDecoded(rd.passed[i], Log[i])
  BY <1>1 DEF CallGood, InStep, RowsLost
<1>11. rd.type = Iterate(registry, Log[rd.pos], Cardinality(DOMAIN registry))
  BY <1>1, <1>3, <1>10, ChainDecodes
<1> HIDE DEF new, rd
<1>12. /\ m \in Nat /\ Len(new.passed) = m + 1 /\ new.passed[m + 1] = line
       /\ \A i \in 1 .. m : new.passed[i] = rd.passed[i]
  BY <1>3, <1>4, <1>9
<1>13. ASSUME NEW i \in 1 .. m + 1 PROVE LineDecoded(new.passed[i], Log[i])
  <2>1. CASE i = m + 1
    BY <1>4, <1>10, <1>11, <1>12, <2>1 DEF LineDecoded
  <2>2. CASE i # m + 1
    <3>1. i \in 1 .. m
      BY <1>12, <2>2
    <3> QED
      BY <1>10, <1>12, <3>1
  <2> QED
    BY <2>1, <2>2
<1>14. RowsFit(new)
  <2> DEFINE all == FitIn(rd, m)
             more == FitIn(new, m + 1)
  <2>1. /\ \A n \in 0 .. m : FitIn(new, n) = FitIn(rd, n)
        /\ more = all + IF taken THEN 1 ELSE 0
    BY <1>3, <1>4, <1>9, FitAppends
  <2>2. all \in Nat
    BY <1>12, FitIsNat
  <2>3. ASSUME NEW i \in 1 .. m
        PROVE  /\ FitIn(rd, i) \in Nat /\ FitIn(rd, i) <= all
               /\ rd.passed[i].type \in rd.accept => FitIn(rd, i) >= 1
    <3>1. i \in Nat /\ i >= 1 /\ i <= m /\ m \in Nat
      BY <1>12
    <3> HIDE DEF m
    <3> QED
      BY <3>1, FitIsNat, FitGrows, FittingCounts
  <2>4. Len(rd.rows) = IF Below(rd, all) THEN all ELSE rd.limit
    BY <1>10 DEF RowsFit
  <2>5. \A i \in 1 .. m :
          rd.passed[i].type \in rd.accept /\ Below(rd, FitIn(rd, i)) =>
            rd.rows[FitIn(rd, i)] = rd.passed[i].type
    BY <1>10 DEF RowsFit
  <2>6. \A n : Below(new, n) <=> Below(rd, n)
    BY <1>9 DEF Below
  <2> HIDE DEF all, more, m
  <2>7. Len(new.rows) = IF Below(new, more) THEN more ELSE new.limit
    <3>1. CASE ~ taken
      BY <1>7, <1>9, <2>1, <2>2, <2>4, <2>6, <3>1
    <3>2. CASE taken /\ Full(r)
      BY <1>3, <1>6, <1>7, <1>9, <2>1, <2>2, <2>4, <3>2 DEF Below
    <3>3. CASE taken /\ ~ Full(r)
      <4>1. Len(new.rows) = Len(rd.rows) + 1
        BY <1>3, <1>7, <1>9, <3>3
      <4> QED
        BY <1>3, <1>6, <1>9, <2>1, <2>2, <2>4, <3>3, <4>1 DEF Below
    <3> QED
      BY <3>1, <3>2, <3>3
  <2>8. ASSUME NEW i \in 1 .. m, rd.passed[i].type \in rd.accept, Below(rd, FitIn(rd, i))
        PROVE  rows[FitIn(rd, i)] = rd.passed[i].type
    <3>1. rd.rows[FitIn(rd, i)] = rd.passed[i].type
      BY <2>5, <2>8
    <3>2. CASE ~ (taken /\ ~ Full(r))
      BY <1>7, <3>1, <3>2
    <3>3. CASE taken /\ ~ Full(r)
      <4>1. FitIn(rd, i) \in 1 .. all
        BY <2>2, <2>3, <2>8
      <4>2. Len(rd.rows) = all
        BY <1>3, <1>6, <2>2, <2>4, <3>3 DEF Below
      <4> QED
        BY <1>3, <1>7, <3>1, <3>3, <4>1, <4>2
    <3> QED
      BY <3>2, <3>3
  <2>9. ASSUME taken, Below(rd, more) PROVE rows[more] = rd.type
    <3>1. more = all + 1
      BY <2>1, <2>9
    <3>2. ~ Full(r) /\ Len(rd.rows) = all
      BY <1>3, <1>6, <2>2, <2>4, <2>9, <3>1 DEF Below
    <3> QED
      BY <1>3, <1>7, <2>9, <3>1, <3>2
  <2>10. ASSUME NEW i \in 1 .. m + 1, new.passed[i].type \in new.accept, Below(new, FitIn(new, i))
         PROVE  new.rows[FitIn(new, i)] = new.passed[i].type
    <3>1. CASE i = m + 1
      BY <1>4, <1>9, <1>12, <2>6, <2>9, <2>10, <3>1 DEF more
    <3>2. CASE i # m + 1
      <4>1. i \in 1 .. m /\ i \in 0 .. m
        BY <1>12, <3>2 DEF m
      <4> QED
        BY <1>9, <1>12, <2>1, <2>6, <2>8, <2>10, <4>1
    <3> QED
      BY <3>1, <3>2
  <2> QED
    BY <1>12, <2>7, <2>10 DEF RowsFit, more, m
<1>15. InStep(new)
  BY <1>5, <1>9, <1>10, <1>12 DEF InStep
<1>16. CallGood(new, registry)
  BY <1>5, <1>9, <1>12, <1>13, <1>14, <1>15 DEF CallGood
<1> QED
  BY <1>2, <1>8, <1>16, CallSteps

LEMMA UpInvKept == UpInv /\ [UpNext]_upcastVars => UpInv'
<1> SUFFICES ASSUME UpInv, [UpNext]_upcastVars PROVE UpInv'
  OBVIOUS
<1>1. CASE UNCHANGED upcastVars
  BY <1>1 DEF upcastVars, UpInv, UpTyped
<1>2. CASE UpNext
  <2>1. ASSUME NEW u \in Upcasters, Register(u[1], u[2]) PROVE UpInv'
    BY <2>1, RegisterKeeps
  <2>2. ASSUME NEW r \in EventReads, NEW api \in {"stream", "list"}, NEW limit \in ReadLimits,
               NEW accept \in Accepted, ReadBegins(r, api, limit, accept)
        PROVE  UpInv'
    BY <2>2, ReadBeginsKeeps
  <2>3. ASSUME NEW r \in EventReads, NextLine(r) PROVE UpInv'
    BY <2>3, NextLineKeeps
  <2>4. ASSUME NEW r \in EventReads, Apply(r) PROVE UpInv'
    BY <2>4, ApplyKeeps
  <2>5. ASSUME NEW r \in EventReads, CycleError(r) PROVE UpInv'
    BY <2>5, RaiseKeeps DEF CycleError
  <2>6. ASSUME NEW r \in EventReads, UpcasterFails(r) PROVE UpInv'
    BY <2>6, RaiseKeeps DEF UpcasterFails
  <2>7. ASSUME NEW r \in EventReads, Deliver(r) PROVE UpInv'
    BY <2>7, DeliverKeeps
  <2> QED
    BY <1>2, <2>1, <2>2, <2>3, <2>4, <2>5, <2>6, <2>7 DEF UpNext, Upcast
<1> QED
  BY <1>1, <1>2

LEMMA UpInvHolds == UpSpec => []UpInv
  BY InitUpInv, UpInvKept, PTL DEF UpSpec

\* Whatever upcasters there are and whenever they are registered, every line
\* read has become what the chain registered by then makes of it, and the rows
\* are the first that fit, as many as the limit allows (upcasters.py upcast,
\* reader.py read_events, tools.py read_log).
THEOREM ReadsDecode == UpSpec => []RowsAreDecoded
  BY UpInvHolds, UpInvDecodes, PTL

\* UpcastCycleError is raised only at a type that the upcasters lead back to
\* itself, in at most as many steps as there are upcasters (upcasters.py upcast).
THEOREM CyclesAreReal == UpSpec => []CycleIsReal
  BY UpInvHolds, UpInvCycles, PTL

-----------------------------------------------------------------------------
(* Harness.  The text of AGENTS.md in a prompt is current, for any number  *)
(* of runs that share the cache and any edits.  A cached text may have     *)
(* been read after an edit that followed the stat: then it is cached under *)
(* a time the file will never have again, and only runs that saw that edit *)
(* too can still look it up.                                               *)

Files == {NoFile} \union [text : Texts, mtime : Nat]

RunRecord ==
  [pc : {"idle", "exists", "stat", "lookup", "read", "store", "prompted", "session", "over"},
   mtime : Nat, text : Texts \union {Gone}, prompted : BOOLEAN,
   watcher : {"none", "running", "ended"}, stop : BOOLEAN, during : SUBSET Files]

HarnessTyped ==
  /\ agentsMd \in Files /\ mdCache \in Files
  /\ clock \in Nat /\ clock >= 1
  /\ run \in [Runs -> RunRecord]
  /\ ever \subseteq Files

\* The file's times come from the clock, and the file has the latest of them.
Dated ==
  /\ agentsMd \in ever
  /\ \A f \in ever :
       /\ f # NoFile => f.mtime >= 1
       /\ f.mtime <= clock
       /\ agentsMd # NoFile => f.mtime <= agentsMd.mtime

\* r has called stat() and goes by the time it got.
Statted(r) == run[r].pc \in {"lookup", "read", "store"}

\* A text under a modification time: the file was that, or the time has passed
\* and whoever still goes by it saw the file with this text.
Sound(text, mtime) ==
  \/ [text |-> text, mtime |-> mtime] \in ever
  \/ /\ mtime < clock /\ agentsMd.mtime # mtime
     /\ \A q \in Runs :
          Statted(q) /\ run[q].mtime = mtime => \E f \in run[q].during : f.text = text

\* A run that loads sees every edit, and stat() told it a time the file had.
Watching ==
  \A r \in Runs :
    /\ Loading(r) => agentsMd \in run[r].during /\ run[r].during \subseteq ever
    /\ Statted(r) => \E f \in run[r].during : f # NoFile /\ f.mtime = run[r].mtime
    /\ run[r].pc = "store" =>
         /\ run[r].text \in Texts
         /\ \E f \in run[r].during : f.text = run[r].text
         /\ Sound(run[r].text, run[r].mtime)

CacheSound == mdCache # NoFile => mdCache.mtime >= 1 /\ Sound(mdCache.text, mdCache.mtime)

Current(r) ==
  \E f \in run[r].during :
    \/ run[r].text = f.text
    \/ [text |-> run[r].text, mtime |-> f.mtime] \in ever

Prompted ==
  \A r \in Runs : run[r].prompted => ~ Loading(r) /\ run[r].pc # "idle" /\ Current(r)

HarnessInv == HarnessTyped /\ Dated /\ Watching /\ CacheSound /\ Prompted

LEMMA InitHarnessInv == HarnessInit => HarnessInv
<1> SUFFICES ASSUME HarnessInit PROVE HarnessInv
  OBVIOUS
<1>1. HarnessTyped
  BY DEF HarnessInit, HarnessTyped, RunRecord, Files, NoFile
<1>2. Dated
  BY DEF HarnessInit, Dated, NoFile
<1>3. \A r \in Runs : ~ Loading(r) /\ ~ Statted(r) /\ ~ run[r].prompted /\ run[r].pc = "idle"
  BY DEF HarnessInit, Loading, Statted
<1>4. mdCache = NoFile
  BY DEF HarnessInit
<1> QED
  BY <1>1, <1>2, <1>3, <1>4 DEF HarnessInv, Watching, CacheSound, Prompted

-----------------------------------------------------------------------------
(* A run moves on, and what is cached stays. *)

\* Sound after the step.
SoundNext(text, mtime) ==
  \/ [text |-> text, mtime |-> mtime] \in ever'
  \/ /\ mtime < clock' /\ agentsMd'.mtime # mtime
     /\ \A q \in Runs :
          run'[q].pc \in {"lookup", "read", "store"} /\ run'[q].mtime = mtime =>
            \E f \in run'[q].during : f.text = text

\* What may become of run r on its way.
Proper(r, new) ==
  /\ new \in RunRecord /\ new.during = run[r].during
  /\ new.pc \in {"exists", "stat", "lookup", "read", "store"} => Loading(r)
  /\ new.pc \in {"lookup", "read", "store"} =>
       \/ Statted(r) /\ new.mtime = run[r].mtime
       \/ agentsMd # NoFile /\ new.mtime = agentsMd.mtime
  /\ new.pc = "store" =>
       /\ new.text \in Texts
       /\ \E f \in new.during : f.text = new.text
       /\ Sound(new.text, new.mtime)
  /\ new.prompted =>
       /\ new.pc \in {"prompted", "session", "over"}
       /\ \E f \in new.during :
            \/ new.text = f.text
            \/ [text |-> new.text, mtime |-> f.mtime] \in ever

LEMMA MovesKeepSound ==
  ASSUME HarnessInv, NEW r \in Runs, NEW new, Proper(r, new), Goes(r, new)
  PROVE  \A text, mtime : Sound(text, mtime) => SoundNext(text, mtime)
<1> SUFFICES ASSUME NEW text, NEW mtime, Sound(text, mtime),
                    [text |-> text, mtime |-> mtime] \notin ever
             PROVE  SoundNext(text, mtime)
  BY DEF Goes, SoundNext
<1>1. UNCHANGED <<agentsMd, clock, ever>> /\ run' = [run EXCEPT ![r] = new]
  BY DEF Goes
<1>2. /\ mtime < clock /\ agentsMd.mtime # mtime
      /\ \A q \in Runs :
           Statted(q) /\ run[q].mtime = mtime => \E f \in run[q].during : f.text = text
  BY DEF Sound
<1>3. run \in [Runs -> RunRecord]
  BY DEF HarnessInv, HarnessTyped
<1>4. ASSUME NEW q \in Runs, run'[q].pc \in {"lookup", "read", "store"}, run'[q].mtime = mtime
      PROVE  \E f \in run'[q].during : f.text = text
  <2>1. CASE q # r
    BY <1>1, <1>2, <1>3, <1>4, <2>1 DEF Statted
  <2>2. CASE q = r
    <3>1. run'[q] = new /\ new.during = run[r].during
      BY <1>1, <1>3, <2>2 DEF Proper
    <3>2. Statted(r) /\ run[r].mtime = mtime
      BY <1>2, <1>4, <3>1 DEF Proper
    <3> QED
      BY <1>2, <3>1, <3>2
  <2> QED
    BY <2>1, <2>2
<1> QED
  BY <1>1, <1>2, <1>4 DEF SoundNext

LEMMA RunMoves ==
  ASSUME HarnessInv, NEW r \in Runs, NEW new, Proper(r, new), Goes(r, new),
         mdCache' \in Files,
         mdCache' # NoFile => mdCache'.mtime >= 1 /\ Sound(mdCache'.text, mdCache'.mtime)
  PROVE  HarnessInv'
<1>1. UNCHANGED <<agentsMd, clock, edits, ever>> /\ run' = [run EXCEPT ![r] = new]
  BY DEF Goes
<1>2. /\ HarnessTyped /\ Dated /\ Watching /\ Prompted
      /\ run \in [Runs -> RunRecord] /\ new \in RunRecord
  BY DEF HarnessInv, HarnessTyped, Proper
<1>3. \A text, mtime : Sound(text, mtime) => SoundNext(text, mtime)
  BY MovesKeepSound
<1>4. run'[r] = new /\ \A q \in Runs : q # r => run'[q] = run[q]
  BY <1>1, <1>2
<1>5. HarnessTyped'
  BY <1>1, <1>2 DEF HarnessTyped
<1>6. Dated'
  BY <1>1, <1>2 DEF Dated
<1>7. Watching'
  <2> SUFFICES ASSUME NEW q \in Runs
               PROVE  /\ Loading(q)' => agentsMd' \in run'[q].during /\ run'[q].during \subseteq ever'
                      /\ Statted(q)' => \E f \in run'[q].during : f # NoFile /\ f.mtime = run'[q].mtime
                      /\ run'[q].pc = "store" =>
                           /\ run'[q].text \in Texts
                           /\ \E f \in run'[q].during : f.text = run'[q].text
                           /\ SoundNext(run'[q].text, run'[q].mtime)
    BY DEF Watching, Sound, SoundNext, Statted
  <2>1. CASE q # r
    BY <1>1, <1>2, <1>3, <1>4, <2>1 DEF Watching, Loading, Statted
  <2>2. CASE q = r
    <3>1. run'[q] = new /\ new.during = run[r].during
      BY <1>4, <2>2 DEF Proper
    <3>2. Loading(q)' => agentsMd' \in run'[q].during /\ run'[q].during \subseteq ever'
      BY <1>1, <1>2, <3>1 DEF Watching, Loading, Proper
    <3>3. Statted(q)' => \E f \in run'[q].during : f # NoFile /\ f.mtime = run'[q].mtime
      <4> SUFFICES ASSUME new.pc \in {"lookup", "read", "store"}
                   PROVE  \E f \in run[r].during : f # NoFile /\ f.mtime = new.mtime
        BY <3>1 DEF Statted
      <4>1. CASE Statted(r) /\ new.mtime = run[r].mtime
        BY <1>2, <4>1 DEF Watching
      <4>2. CASE agentsMd # NoFile /\ new.mtime = agentsMd.mtime
        <5>1. agentsMd \in run[r].during
          BY <1>2 DEF Watching, Proper
        <5> QED
          BY <4>2, <5>1
      <4> QED
        BY <4>1, <4>2 DEF Proper
    <3>4. run'[q].pc = "store" =>
            /\ run'[q].text \in Texts
            /\ \E f \in run'[q].during : f.text = run'[q].text
            /\ SoundNext(run'[q].text, run'[q].mtime)
      BY <1>3, <3>1 DEF Proper
    <3> QED
      BY <3>2, <3>3, <3>4
  <2> QED
    BY <2>1, <2>2
<1>8. CacheSound'
  <2>1. mdCache' # NoFile => mdCache'.mtime >= 1 /\ SoundNext(mdCache'.text, mdCache'.mtime)
    BY <1>3
  <2> QED
    BY <2>1 DEF CacheSound, Sound, SoundNext, Statted, NoFile
<1>9. Prompted'
  <2> SUFFICES ASSUME NEW q \in Runs, run'[q].prompted
               PROVE  /\ run'[q].pc \notin {"exists", "stat", "lookup", "read", "store", "idle"}
                      /\ \E f \in run'[q].during :
                           \/ run'[q].text = f.text
                           \/ [text |-> run'[q].text, mtime |-> f.mtime] \in ever'
    BY DEF Prompted, Current, Loading
  <2>1. CASE q # r
    BY <1>1, <1>2, <1>4, <2>1 DEF Prompted, Current, Loading
  <2>2. CASE q = r
    BY <1>1, <1>4, <2>2 DEF Proper
  <2> QED
    BY <2>1, <2>2
<1> QED
  BY <1>5, <1>6, <1>7, <1>8, <1>9 DEF HarnessInv

-----------------------------------------------------------------------------
(* The steps. *)

\* Time passes, or the file is edited: nobody has read the new file yet.
LEMMA WorldMoves ==
  ASSUME HarnessInv,
         \/ Tick
         \/ \E new \in {NoFile} \union [text : Texts, mtime : {clock}] : Edit(new)
  PROVE  HarnessInv'
<1>t. /\ HarnessTyped /\ Dated /\ Watching /\ CacheSound /\ Prompted
      /\ run \in [Runs -> RunRecord] /\ clock \in Nat /\ clock >= 1
      /\ ever \subseteq Files /\ mdCache \in Files
  BY DEF HarnessInv, HarnessTyped
<1>1. CASE Tick
  <2>1. UNCHANGED <<agentsMd, mdCache, run, ever>> /\ clock' = clock + 1
    BY <1>1 DEF Tick
  <2>2. HarnessTyped'
    BY <1>t, <2>1 DEF HarnessTyped
  <2>3. Dated'
    <3>1. \A f \in ever : f.mtime \in Nat
      BY <1>t DEF Files, NoFile
    <3> QED
      BY <1>t, <2>1, <3>1 DEF Dated
  <2>4. \A text : \A mtime \in Nat : Sound(text, mtime) => SoundNext(text, mtime)
    BY <1>t, <2>1 DEF Sound, SoundNext, Statted
  <2>5. Watching'
    BY <1>t, <2>1, <2>4 DEF Watching, Loading, Statted, Sound, SoundNext, RunRecord
  <2>6. CacheSound'
    BY <1>t, <2>1, <2>4 DEF CacheSound, Sound, SoundNext, Statted, Files, NoFile
  <2>7. Prompted'
    BY <1>t, <2>1 DEF Prompted, Current, Loading
  <2> QED
    BY <2>2, <2>3, <2>5, <2>6, <2>7 DEF HarnessInv
<1>2. ASSUME NEW new \in {NoFile} \union [text : Texts, mtime : {clock}], Edit(new)
      PROVE  HarnessInv'
  <2>1. /\ agentsMd' = new /\ ever' = ever \union {new} /\ UNCHANGED <<clock, mdCache>>
        /\ run' = [r \in Runs |->
             IF Loading(r) THEN [run[r] EXCEPT !.during = @ \union {new}] ELSE run[r]]
    BY <1>2 DEF Edit
  <2>2. new \in Files /\ new.mtime \in Nat /\ (new # NoFile => new.mtime = clock)
    BY <1>t DEF Files, NoFile
  <2>3. ASSUME NEW r \in Runs
        PROVE  /\ run'[r] \in RunRecord
               /\ run'[r].pc = run[r].pc /\ run'[r].mtime = run[r].mtime
               /\ run'[r].text = run[r].text /\ run'[r].prompted = run[r].prompted
               /\ run'[r].during = IF Loading(r) THEN run[r].during \union {new}
                                   ELSE run[r].during
    <3>1. run[r] \in RunRecord
      BY <1>t
    <3>2. CASE Loading(r)
      <4> DEFINE next == [run[r] EXCEPT !.during = @ \union {new}]
      <4>1. run'[r] = next
        BY <2>1, <3>2
      <4>2. run[r].during \union {new} \subseteq Files
        BY <2>2, <3>1 DEF RunRecord
      <4>3. next \in RunRecord
        BY <3>1, <4>2 DEF RunRecord
      <4> QED
        BY <3>1, <3>2, <4>1, <4>3 DEF RunRecord
    <3>3. CASE ~ Loading(r)
      BY <2>1, <3>1, <3>3
    <3> QED
      BY <3>2, <3>3
  <2>4. HarnessTyped'
    <3>1. run' = [r \in Runs |-> run'[r]]
      BY <2>1
    <3>2. run' \in [Runs -> RunRecord]
      BY <2>3, <3>1
    <3> QED
      BY <1>t, <2>1, <2>2, <3>2 DEF HarnessTyped
  <2>5. Dated'
    <3>1. \A f \in ever : f.mtime \in Nat
      BY <1>t DEF Files, NoFile
    <3>2. new.mtime <= clock /\ (new # NoFile => new.mtime >= 1)
      BY <1>t, <2>2 DEF NoFile
    <3> QED
      BY <1>t, <2>1, <2>2, <3>1, <3>2 DEF Dated
  <2>6. \A text : \A mtime \in Nat : mtime >= 1 /\ Sound(text, mtime) => SoundNext(text, mtime)
    <3> SUFFICES ASSUME NEW text, NEW mtime \in Nat, mtime >= 1, Sound(text, mtime),
                        [text |-> text, mtime |-> mtime] \notin ever
                 PROVE  SoundNext(text, mtime)
      BY <2>1 DEF SoundNext
    <3>1. /\ mtime < clock /\ agentsMd.mtime # mtime
          /\ \A q \in Runs :
               Statted(q) /\ run[q].mtime = mtime => \E f \in run[q].during : f.text = text
      BY DEF Sound
    <3>2. new.mtime # mtime
      BY <1>t, <2>2, <3>1 DEF NoFile
    <3> QED
      BY <2>1, <2>3, <3>1, <3>2 DEF SoundNext, Statted
  <2>7. Watching'
    <3> SUFFICES ASSUME NEW q \in Runs
                 PROVE  /\ Loading(q)' => agentsMd' \in run'[q].during /\ run'[q].during \subseteq ever'
                        /\ Statted(q)' => \E f \in run'[q].during : f # NoFile /\ f.mtime = run'[q].mtime
                        /\ run'[q].pc = "store" =>
                             /\ run'[q].text \in Texts
                           /\ \E f \in run'[q].during : f.text = run'[q].text
                             /\ SoundNext(run'[q].text, run'[q].mtime)
      BY DEF Watching, Sound, SoundNext, Statted
    <3>1. Loading(q)' => agentsMd' \in run'[q].during /\ run'[q].during \subseteq ever'
      BY <1>t, <2>1, <2>3 DEF Watching, Loading
    <3>2. Statted(q)' => \E f \in run'[q].during : f # NoFile /\ f.mtime = run'[q].mtime
      BY <1>t, <2>1, <2>3 DEF Watching, Statted
    <3>3. ASSUME run'[q].pc = "store"
          PROVE  /\ run'[q].text \in Texts
                 /\ \E f \in run'[q].during : f.text = run'[q].text
                 /\ SoundNext(run'[q].text, run'[q].mtime)
      <4>1. /\ run[q].pc = "store" /\ Statted(q) /\ Loading(q) /\ run[q].text \in Texts
            /\ \E f \in run[q].during : f.text = run[q].text
            /\ Sound(run[q].text, run[q].mtime)
        BY <1>t, <2>3, <3>3 DEF Watching, Statted, Loading
      <4>2. run[q].mtime \in Nat /\ run[q].mtime >= 1
        <5>1. PICK f \in run[q].during : f # NoFile /\ f.mtime = run[q].mtime
          BY <1>t, <4>1 DEF Watching
        <5>2. f \in ever
          BY <1>t, <4>1 DEF Watching
        <5> QED
          BY <1>t, <5>1, <5>2 DEF Dated, RunRecord
      <4> QED
        BY <2>3, <2>6, <4>1, <4>2
    <3> QED
      BY <3>1, <3>2, <3>3
  <2>8. CacheSound'
    <3>1. mdCache # NoFile => mdCache.mtime \in Nat /\ mdCache.mtime >= 1 /\ Sound(mdCache.text, mdCache.mtime)
      BY <1>t DEF CacheSound, Files
    <3>2. mdCache # NoFile => SoundNext(mdCache.text, mdCache.mtime)
      BY <2>6, <3>1
    <3> QED
      BY <2>1, <3>1, <3>2 DEF CacheSound, Sound, SoundNext, Statted, NoFile
  <2>9. Prompted'
    BY <1>t, <2>1, <2>3 DEF Prompted, Current, Loading
  <2> QED
    BY <2>4, <2>5, <2>7, <2>8, <2>9 DEF HarnessInv
<1> QED
  BY <1>1, <1>2

LEMMA NextHarnessInv ==
  ASSUME HarnessInv, [HarnessNext]_harnessVars
  PROVE  HarnessInv'
<1>t. /\ HarnessTyped /\ Dated /\ Watching /\ CacheSound /\ Prompted
      /\ run \in [Runs -> RunRecord] /\ mdCache \in Files /\ agentsMd \in Files
      /\ ever \subseteq Files /\ agentsMd \in ever
  BY DEF HarnessInv, HarnessTyped, Dated
<1>c. mdCache # NoFile => mdCache.mtime >= 1 /\ Sound(mdCache.text, mdCache.mtime)
  BY <1>t DEF CacheSound
\* A run moves, and the cache stays, is emptied, or gets a sound text.
<1>m. ASSUME NEW r \in Runs, NEW new, Proper(r, new), Goes(r, new), UNCHANGED mdCache
      PROVE  HarnessInv'
  BY <1>c, <1>m, <1>t, RunMoves
<1>1. ASSUME NEW r \in Runs, Begins(r) PROVE HarnessInv'
  <2> DEFINE new == [run[r] EXCEPT !.pc = "exists", !.during = {agentsMd}]
  <2>1. UNCHANGED <<agentsMd, clock, ever, mdCache>> /\ run' = [run EXCEPT ![r] = new]
    BY <1>1 DEF Begins, Goes
  <2>2. /\ new \in RunRecord /\ new.pc = "exists" /\ new.during = {agentsMd}
        /\ new.prompted = run[r].prompted
    BY <1>t DEF RunRecord
  <2>3. ~ run[r].prompted
    BY <1>1, <1>t DEF Begins, Prompted
  <2> HIDE DEF new
  <2>4. run'[r] = new /\ \A q \in Runs : q # r => run'[q] = run[q]
    BY <1>t, <2>1
  <2>5. \A text, mtime : Sound(text, mtime) => SoundNext(text, mtime)
    BY <2>1, <2>2, <2>4 DEF Sound, SoundNext, Statted
  <2>6. HarnessTyped' /\ Dated'
    BY <1>t, <2>1, <2>2 DEF HarnessTyped, Dated
  <2>7. Watching'
    BY <1>t, <2>1, <2>2, <2>4, <2>5 DEF Watching, Loading, Statted, Sound, SoundNext
  <2>8. CacheSound'
    BY <1>t, <2>1, <2>5 DEF CacheSound, Sound, SoundNext, Statted, NoFile
  <2>9. Prompted'
    BY <1>t, <2>1, <2>2, <2>3, <2>4 DEF Prompted, Current, Loading
  <2> QED
    BY <2>6, <2>7, <2>8, <2>9 DEF HarnessInv
<1>2. ASSUME NEW r \in Runs, Exists(r) PROVE HarnessInv'
  <2>1. Loading(r) /\ agentsMd \in run[r].during /\ ~ run[r].prompted
    BY <1>2, <1>t DEF Exists, Watching, Loading, Prompted
  <2>2. CASE agentsMd = NoFile
    <3> DEFINE new == Prompt(r, Gone)
    <3>1. Goes(r, new) /\ mdCache' = NoFile
      BY <1>2, <2>2 DEF Exists
    <3>2. new \in RunRecord /\ new.during = run[r].during /\ new.pc = "prompted" /\ new.text = Gone
      BY <1>t DEF Prompt, RunRecord
    <3>3. agentsMd.text = Gone
      BY <2>2 DEF NoFile
    <3>4. Proper(r, new)
      BY <2>1, <3>2, <3>3 DEF Proper
    <3> HIDE DEF new
    <3> QED
      BY <3>1, <3>4, RunMoves DEF Files
  <2>3. CASE agentsMd # NoFile
    <3> DEFINE new == [run[r] EXCEPT !.pc = "stat"]
    <3>1. Goes(r, new) /\ UNCHANGED mdCache
      BY <1>2, <2>3 DEF Exists
    <3>2. Proper(r, new)
      BY <1>t, <2>1 DEF Proper, RunRecord
    <3> HIDE DEF new
    <3> QED
      BY <1>m, <3>1, <3>2
  <2> QED
    BY <2>2, <2>3
<1>r. ASSUME NEW r \in Runs, Loading(r) PROVE Proper(r, Raised(r))
  BY <1>r, <1>t DEF Proper, Raised, RunRecord, Prompted
<1>3. ASSUME NEW r \in Runs, Stat(r) PROVE HarnessInv'
  <2>1. Loading(r) /\ ~ run[r].prompted
    BY <1>3, <1>t DEF Stat, Loading, Prompted
  <2>2. CASE agentsMd = NoFile
    BY <1>3, <1>m, <1>r, <2>1, <2>2 DEF Stat
  <2>3. CASE agentsMd # NoFile
    <3> DEFINE new == [run[r] EXCEPT !.pc = "lookup", !.mtime = agentsMd.mtime]
    <3>1. Goes(r, new) /\ UNCHANGED mdCache
      BY <1>3, <2>3 DEF Stat
    <3>2. agentsMd.mtime \in Nat
      BY <1>t DEF Files, NoFile
    <3>3. Proper(r, new)
      BY <1>t, <2>1, <2>3, <3>2 DEF Proper, RunRecord
    <3> HIDE DEF new
    <3> QED
      BY <1>m, <3>1, <3>3
  <2> QED
    BY <2>2, <2>3
<1>4. ASSUME NEW r \in Runs, Lookup(r) PROVE HarnessInv'
  <2>1. Loading(r) /\ Statted(r) /\ ~ run[r].prompted
    BY <1>4, <1>t DEF Lookup, Loading, Statted, Prompted
  <2>2. CASE mdCache # NoFile /\ mdCache.mtime = run[r].mtime
    <3> DEFINE new == Prompt(r, mdCache.text)
    <3>1. Goes(r, new) /\ UNCHANGED mdCache
      BY <1>4, <2>2 DEF Lookup
    <3>2. mdCache.text \in Texts \union {Gone}
      BY <1>t DEF Files, NoFile
    <3>3. /\ new \in RunRecord /\ new.during = run[r].during /\ new.pc = "prompted"
          /\ new.text = mdCache.text
      BY <1>t, <3>2 DEF Prompt, RunRecord
    <3>4. \E f \in run[r].during :
             mdCache.text = f.text \/ [text |-> mdCache.text, mtime |-> f.mtime] \in ever
      BY <1>t, <1>c, <2>1, <2>2 DEF Sound, Watching
    <3>5. Proper(r, new)
      BY <3>3, <3>4 DEF Proper
    <3> HIDE DEF new
    <3> QED
      BY <1>m, <3>1, <3>5
  <2>3. CASE ~ (mdCache # NoFile /\ mdCache.mtime = run[r].mtime)
    <3> DEFINE new == [run[r] EXCEPT !.pc = "read"]
    <3>1. Goes(r, new) /\ UNCHANGED mdCache
      BY <1>4, <2>3 DEF Lookup
    <3>2. Proper(r, new)
      BY <1>t, <2>1 DEF Proper, RunRecord
    <3> HIDE DEF new
    <3> QED
      BY <1>m, <3>1, <3>2
  <2> QED
    BY <2>2, <2>3
<1>5. ASSUME NEW r \in Runs, ReadText(r) PROVE HarnessInv'
  <2>1. Loading(r) /\ Statted(r) /\ ~ run[r].prompted /\ agentsMd \in run[r].during
    BY <1>5, <1>t DEF ReadText, Loading, Statted, Prompted, Watching
  <2>2. CASE agentsMd = NoFile
    BY <1>5, <1>m, <1>r, <2>1, <2>2 DEF ReadText
  <2>3. CASE agentsMd # NoFile
    <3> DEFINE new == [run[r] EXCEPT !.pc = "store", !.text = agentsMd.text]
    <3>1. Goes(r, new) /\ UNCHANGED mdCache
      BY <1>5, <2>3 DEF ReadText
    <3>2. agentsMd \in [text : Texts, mtime : Nat]
      BY <1>t, <2>3 DEF Files
    <3>3. /\ new \in RunRecord /\ new.during = run[r].during /\ new.pc = "store"
          /\ new.text = agentsMd.text /\ new.mtime = run[r].mtime /\ new.prompted = run[r].prompted
      BY <1>t, <3>2 DEF RunRecord
    <3>4. Sound(agentsMd.text, run[r].mtime)
      <4>1. CASE agentsMd.mtime = run[r].mtime
        <5>1. agentsMd = [text |-> agentsMd.text, mtime |-> run[r].mtime]
          BY <3>2, <4>1
        <5> QED
          BY <1>t, <5>1 DEF Sound
      <4>2. CASE agentsMd.mtime # run[r].mtime
        <5>1. PICK f \in run[r].during : f # NoFile /\ f.mtime = run[r].mtime
          BY <1>t, <2>1 DEF Watching
        <5>2. f \in ever
          BY <1>t, <2>1 DEF Watching
        <5>3. run[r].mtime <= agentsMd.mtime /\ agentsMd.mtime <= clock
          BY <1>t, <2>3, <5>1, <5>2 DEF Dated
        <5>4. run[r].mtime \in Nat /\ agentsMd.mtime \in Nat /\ clock \in Nat
          BY <1>t, <3>2 DEF RunRecord, HarnessTyped
        <5>5. run[r].mtime < clock
          BY <4>2, <5>3, <5>4
        <5>6. \A q \in Runs : Statted(q) => \E g \in run[q].during : g.text = agentsMd.text
          BY <1>t DEF Watching, Statted, Loading
        <5> QED
          BY <4>2, <5>5, <5>6 DEF Sound
      <4> QED
        BY <4>1, <4>2
    <3>5. agentsMd.text \in Texts
      BY <3>2
    <3> HIDE DEF new
    <3>6. Proper(r, new)
      BY <2>1, <3>3, <3>4, <3>5 DEF Proper
    <3> QED
      BY <1>m, <3>1, <3>6
  <2> QED
    BY <2>2, <2>3
<1>6. ASSUME NEW r \in Runs, Store(r) PROVE HarnessInv'
  <2> DEFINE new == Prompt(r, run[r].text)
             entry == [text |-> run[r].text, mtime |-> run[r].mtime]
  <2>1. Goes(r, new) /\ mdCache' = entry
    BY <1>6 DEF Store
  <2>2. /\ Loading(r) /\ Statted(r) /\ run[r].during \subseteq ever
        /\ \E f \in run[r].during : f.text = run[r].text
        /\ Sound(run[r].text, run[r].mtime)
    BY <1>6, <1>t DEF Store, Loading, Statted, Watching
  <2>3. /\ new \in RunRecord /\ new.during = run[r].during /\ new.pc = "prompted"
        /\ new.text = run[r].text
    BY <1>t DEF Prompt, RunRecord
  <2>4. Proper(r, new)
    BY <2>2, <2>3 DEF Proper
  <2>5. run[r].mtime >= 1
    <3>1. PICK f \in run[r].during : f # NoFile /\ f.mtime = run[r].mtime
      BY <1>t, <2>2 DEF Watching
    <3> QED
      BY <1>t, <2>2, <3>1 DEF Dated
  <2>6. entry \in Files
    BY <1>6, <1>t DEF Store, Watching, Files, RunRecord
  <2> HIDE DEF new
  <2> QED
    BY <2>1, <2>2, <2>4, <2>5, <2>6, RunMoves
<1>7. ASSUME NEW r \in Runs, StartSession(r) PROVE HarnessInv'
  <2>1. PICK watcher \in {"none", "running"} :
          /\ Goes(r, [run[r] EXCEPT !.pc = "session", !.watcher = watcher])
          /\ UNCHANGED mdCache
    BY <1>7 DEF StartSession
  <2> DEFINE new == [run[r] EXCEPT !.pc = "session", !.watcher = watcher]
  <2>2. Proper(r, new)
    BY <1>7, <1>t DEF Proper, StartSession, RunRecord, Prompted, Current
  <2> HIDE DEF new
  <2> QED
    BY <1>m, <2>1, <2>2 DEF new
<1>8. ASSUME NEW r \in Runs, EndSession(r) PROVE HarnessInv'
  <2> DEFINE new == [run[r] EXCEPT !.pc = "over", !.stop = TRUE]
  <2>1. Goes(r, new) /\ UNCHANGED mdCache
    BY <1>8 DEF EndSession
  <2>2. Proper(r, new)
    BY <1>8, <1>t DEF Proper, EndSession, RunRecord, Prompted, Current
  <2> HIDE DEF new
  <2> QED
    BY <1>m, <2>1, <2>2
<1>9. ASSUME NEW r \in Runs, WatcherEnds(r) \/ WatcherDies(r) PROVE HarnessInv'
  <2> DEFINE new == [run[r] EXCEPT !.watcher = "ended"]
  <2>1. Goes(r, new) /\ UNCHANGED mdCache
    BY <1>9 DEF WatcherEnds, WatcherDies
  <2>2. Proper(r, new)
    BY <1>t DEF Proper, RunRecord, Prompted, Current, Watching, Loading, Statted
  <2> HIDE DEF new
  <2> QED
    BY <1>m, <2>1, <2>2
<1>10. CASE UNCHANGED harnessVars
  BY <1>t, <1>10 DEF harnessVars, HarnessInv, HarnessTyped, Dated, Watching, CacheSound,
                     Prompted, Loading, Statted, Sound, Current
<1> QED
  BY <1>1, <1>2, <1>3, <1>4, <1>5, <1>6, <1>7, <1>8, <1>9, <1>10, WorldMoves DEF HarnessNext

\* "Caches by absolute path; invalidates when the file's mtime changes": the
\* text in a prompt was in AGENTS.md while the prompt was made, or had the
\* modification time AGENTS.md had then, whatever runs share the cache and
\* however the file is edited between their steps.
THEOREM PromptsAreCurrent == HarnessSpec => []PromptIsCurrent
<1>1. HarnessInit => HarnessInv
  BY InitHarnessInv
<1>2. HarnessInv /\ [HarnessNext]_harnessVars => HarnessInv'
  BY NextHarnessInv
<1>3. HarnessInv => PromptIsCurrent
  BY DEF HarnessInv, Prompted, Current, PromptIsCurrent
<1> QED
  BY <1>1, <1>2, <1>3, PTL DEF HarnessSpec

-----------------------------------------------------------------------------
(* SpecProject.  tree.py and add.py are always those of one document, that *)
(* was accepted and renders, until the user edits tree.py; so what validate *)
(* says of them follows from the names in that document and from the files  *)
(* that are spoilt when it runs.                                            *)

\* What validate left, of the files as they are.
Judged(p) ==
  /\ <<"error", "pmstate.yaml">> \in p.issues <=> ~ ParseAccepts(p.spec)
  /\ \E builds \in BOOLEAN :
       /\ p.treeOf # Absent => builds = Builds(p.treeOf, p.spoilt)
       /\ <<"error", "tree.py">> \in p.issues <=> ParseAccepts(p.spec) /\ ~ builds
       /\ <<"error", "views.py">> \in p.issues => ParseAccepts(p.spec) /\ builds
       /\ ParseAccepts(p.spec) /\ builds /\ p.treeOf # Absent => p.tree = Rendered(p.treeOf)

Rooted(p) ==
  /\ p.spec \in Docs
  /\ p.treeOf # Absent =>
       /\ p.treeOf \in Docs /\ ParseAccepts(p.treeOf) /\ Renders(p.treeOf)
       /\ p.leaves = LeavesDict(p.treeOf)

Shaped(p) ==
  p = [phase |-> p.phase, spec |-> p.spec, treeOf |-> p.treeOf, leaves |-> p.leaves,
       spoilt |-> p.spoilt, agentsMd |-> p.agentsMd, tree |-> p.tree, issues |-> p.issues]

ProjectInv ==
  /\ Shaped(project)
  /\ project.phase \in {"none", "refused", "raised", "made", "validated"}
  /\ IsProject => Rooted(project)
  /\ project.phase = "validated" => Judged(project)

LEMMA InitProjectInv == SpecInit => ProjectInv
BY DEF SpecInit, NoProject, ProjectInv, Shaped, IsProject

LEMMA NextProjectInv == ProjectInv /\ [SpecNext]_project => ProjectInv'
<1> SUFFICES ASSUME ProjectInv, [SpecNext]_project PROVE ProjectInv'
  OBVIOUS
<1>t. /\ Shaped(project)
      /\ project.phase \in {"none", "refused", "raised", "made", "validated"}
      /\ IsProject => Rooted(project)
  BY DEF ProjectInv
<1>1. CASE InitFromSpec
  <2>1. PICK doc \in Docs : project' = Made(doc)
    BY <1>1 DEF InitFromSpec
  <2> QED
    BY <2>1 DEF Made, NoProject, ProjectInv, Shaped, IsProject, Rooted
\* An edit, or an upgrade, leaves a project that nobody has validated yet.
<1>m. ASSUME Shaped(project'), project'.phase = "made", Rooted(project') PROVE ProjectInv'
  BY <1>m DEF ProjectInv, Shaped, Rooted, IsProject
<1>2. CASE Upgrade
  <2>1. PICK force \in BOOLEAN : project' = Upgraded(project, force)
    BY <1>2 DEF Upgrade
  <2>2. ParseAccepts(project.spec) /\ Renders(project.spec) /\ project.spec \in Docs
    BY <1>t, <1>2 DEF Upgrade, Rooted
  <2>3. /\ project'.phase = "made" /\ project'.spec = project.spec /\ project'.treeOf = project.spec
        /\ project'.leaves = LeavesDict(project.spec) /\ Shaped(project')
    BY <1>t, <2>1 DEF Upgraded, Touched, Shaped
  <2> QED
    BY <1>m, <2>2, <2>3 DEF Rooted
<1>3. CASE EditSpec
  <2>1. PICK doc \in Later : project' = [Touched(project) EXCEPT !.spec = doc]
    BY <1>3 DEF EditSpec
  <2>2. /\ project'.phase = "made" /\ project'.spec = doc /\ project'.treeOf = project.treeOf
        /\ project'.leaves = project.leaves /\ Shaped(project')
    BY <1>t, <2>1 DEF Touched, Shaped
  <2> QED
    BY <1>m, <1>t, <1>3, <2>2, LaterAssumption DEF EditSpec, Rooted
<1>4. CASE EditTree
  <2>1. /\ project'.phase = "made" /\ project'.spec = project.spec /\ project'.treeOf = Absent
        /\ Shaped(project')
    BY <1>t, <1>4 DEF EditTree, Touched, Shaped
  <2> QED
    BY <1>m, <1>t, <1>4, <2>1 DEF EditTree, Rooted
<1>5. CASE EditCode \/ EditAgents
  <2>1. PICK spoilt, md : \/ project' = [Touched(project) EXCEPT !.spoilt = spoilt]
                          \/ project' = [Touched(project) EXCEPT !.agentsMd = md]
    BY <1>5 DEF EditCode, EditAgents
  <2>2. /\ project'.phase = "made" /\ project'.spec = project.spec /\ project'.treeOf = project.treeOf
        /\ project'.leaves = project.leaves /\ Shaped(project')
    BY <1>t, <2>1 DEF Touched, Shaped
  <2> QED
    BY <1>m, <1>t, <1>5, <2>2 DEF EditCode, EditAgents, Rooted
<1>6. CASE Validate
  <2> DEFINE parses == ParseAccepts(project.spec)
             builds(own) == IF project.treeOf = Absent THEN own
                            ELSE Builds(project.treeOf, project.spoilt)
             tree(own) == IF parses /\ builds(own) /\ project.treeOf # Absent
                          THEN Rendered(project.treeOf) ELSE Absent
             spec == IF parses THEN {} ELSE {<<"error", "pmstate.yaml">>}
             treePy(own) == IF parses /\ ~ builds(own) THEN {<<"error", "tree.py">>} ELSE {}
             views(own, raises) ==
               IF parses /\ builds(own) /\ raises THEN {<<"error", "views.py">>} ELSE {}
             agents == CASE project.agentsMd = "empty" -> {<<"error", "AGENTS.md">>}
                         [] project.agentsMd = "missing" -> {<<"warn", "AGENTS.md">>}
                         [] OTHER -> {}
  <2>1. PICK own \in BOOLEAN, raises \in BOOLEAN :
          project' = Validated(project, own, raises)
    BY <1>6 DEF Validate
  <2>2. \A issue \in agents : issue[2] = "AGENTS.md"
    OBVIOUS
  <2>3. <<"error", "pmstate.yaml">> \in spec <=> ~ parses
    OBVIOUS
  <2>4. <<"error", "tree.py">> \in treePy(own) <=> parses /\ ~ builds(own)
    OBVIOUS
  <2>5. <<"error", "views.py">> \in views(own, raises) => parses /\ builds(own)
    OBVIOUS
  <2>6. /\ <<"error", "tree.py">> \notin spec \union views(own, raises)
        /\ <<"error", "pmstate.yaml">> \notin treePy(own) \union views(own, raises)
        /\ <<"error", "views.py">> \notin spec \union treePy(own)
    OBVIOUS
  <2>7. builds(own) \in BOOLEAN /\ (project.treeOf # Absent => builds(own) = Builds(project.treeOf, project.spoilt))
    BY DEF Builds
  <2>8. parses /\ builds(own) /\ project.treeOf # Absent => tree(own) = Rendered(project.treeOf)
    OBVIOUS
  <2>9. parses <=> ParseAccepts(project.spec)
    OBVIOUS
  <2>a. project' = [project EXCEPT !.phase = "validated", !.tree = tree(own),
          !.issues = spec \union treePy(own) \union views(own, raises) \union agents]
    BY <2>1 DEF Validated
  <2> HIDE DEF parses, builds, tree, spec, treePy, views, agents
  <2>10. /\ project'.phase = "validated" /\ project'.spec = project.spec
         /\ project'.treeOf = project.treeOf /\ project'.leaves = project.leaves
         /\ project'.spoilt = project.spoilt /\ project'.tree = tree(own) /\ Shaped(project')
         /\ project'.issues = spec \union treePy(own) \union views(own, raises) \union agents
    BY <1>t, <2>a DEF Shaped
  <2>11. /\ <<"error", "pmstate.yaml">> \in project'.issues <=> ~ parses
         /\ <<"error", "tree.py">> \in project'.issues <=> parses /\ ~ builds(own)
         /\ <<"error", "views.py">> \in project'.issues => parses /\ builds(own)
    BY <2>2, <2>3, <2>4, <2>5, <2>6, <2>10
  <2>12. Judged(project')
    BY <2>7, <2>8, <2>9, <2>10, <2>11 DEF Judged
  <2>13. Rooted(project')
    BY <1>t, <1>6, <2>10 DEF Validate, IsProject, Rooted
  <2> QED
    BY <2>10, <2>12, <2>13 DEF ProjectInv, Shaped, Rooted, Judged, IsProject
<1>7. CASE UNCHANGED project
  BY <1>7 DEF ProjectInv, Shaped, Rooted, Judged, IsProject
<1> QED
  BY <1>1, <1>2, <1>3, <1>4, <1>5, <1>6, <1>7 DEF SpecNext

ChildNames(doc) ==
  [i \in DOMAIN Rendered(doc).children |-> Rendered(doc).children[i].name]

LEMMA RenderedIs ==
  ASSUME NEW doc
  PROVE  LET declared == doc.nodes[1].children
             nodes == Rendered(doc).children
         IN  /\ Rendered(doc).root = ReadAs(doc.root)
             /\ Rendered(doc).name = ReadAs(Last(doc.nodes[1].path))
             /\ DOMAIN nodes = DOMAIN declared
             /\ \A i \in DOMAIN declared :
                  nodes[i] = [name |-> ReadAs(declared[i].name), file |-> FileOf(declared[i])]
             /\ DOMAIN ChildNames(doc) = DOMAIN declared
             /\ \A i \in DOMAIN declared : ChildNames(doc)[i] = ReadAs(declared[i].name)
BY DEF Rendered, ChildNames

\* A tree.py that its document and the files it imports allow is the one that
\* builds.
LEMMA BuildsIs ==
  ASSUME NEW doc, NEW spoilt
  PROVE  Builds(doc, spoilt) <=>
           /\ ~ BadNames(doc)
           /\ Views(doc) # {} => "views.py" \notin spoilt
           /\ Reducers(doc) # {} => "reducers.py" \notin spoilt
<1> DEFINE declared == doc.nodes[1].children
           names == ChildNames(doc)
<1>1. /\ Rendered(doc).root = ReadAs(doc.root) /\ Rendered(doc).name = ReadAs(Last(doc.nodes[1].path))
      /\ DOMAIN names = DOMAIN declared
      /\ \A i \in DOMAIN declared : names[i] = ReadAs(declared[i].name)
  BY RenderedIs
<1>2. Builds(doc, spoilt) <=>
        /\ (Views(doc) \union Reducers(doc)) \cap (NotNames \union Taken) = {}
        /\ Views(doc) # {} => "views.py" \notin spoilt
        /\ Reducers(doc) # {} => "reducers.py" \notin spoilt
        /\ ({Rendered(doc).root, Rendered(doc).name} \union Range(names)) \cap (Unfit \union {Absent}) = {}
        /\ IsInjective(names)
  BY DEF Builds, ChildNames
<1>3. BadNames(doc) <=>
        \/ \E i, j \in DOMAIN declared : i # j /\ ReadAs(declared[i].name) = ReadAs(declared[j].name)
        \/ \E name \in {doc.root, Last(doc.nodes[1].path)} \union {c.name : c \in Range(declared)} :
             ReadAs(name) \in Unfit \union {Absent}
        \/ (Views(doc) \union Reducers(doc)) \cap (NotNames \union Taken) # {}
  BY DEF BadNames
<1> HIDE DEF declared, names
<1>4. IsInjective(names) <=>
        ~ \E i, j \in DOMAIN declared : i # j /\ ReadAs(declared[i].name) = ReadAs(declared[j].name)
  BY <1>1 DEF IsInjective
<1>5. ({Rendered(doc).root, Rendered(doc).name} \union Range(names)) \cap (Unfit \union {Absent}) = {}
        <=> ~ \E name \in {doc.root, Last(doc.nodes[1].path)} \union {c.name : c \in Range(declared)} :
                ReadAs(name) \in Unfit \union {Absent}
  <2>1. Range(names) = {ReadAs(n) : n \in {c.name : c \in Range(declared)}}
    <3>1. \A i \in DOMAIN declared : declared[i] \in Range(declared)
      BY DEF Range
    <3>2. \A c \in Range(declared) : \E i \in DOMAIN declared : c = declared[i]
      BY DEF Range
    <3>3. ASSUME NEW n \in Range(names) PROVE n \in {ReadAs(m) : m \in {c.name : c \in Range(declared)}}
      <4>1. PICK i \in DOMAIN declared : n = names[i]
        BY <1>1 DEF Range
      <4> QED
        BY <1>1, <3>1, <4>1
    <3>4. ASSUME NEW c \in Range(declared) PROVE ReadAs(c.name) \in Range(names)
      <4>1. PICK i \in DOMAIN declared : c = declared[i]
        BY <3>2
      <4>2. names[i] = ReadAs(c.name)
        BY <1>1, <4>1
      <4> QED
        BY <1>1, <4>2 DEF Range
    <3> QED
      BY <3>3, <3>4
  <2> QED
    BY <1>1, <2>1
<1> QED
  BY <1>2, <1>3, <1>4, <1>5

\* What a tree that could be built is.
LEMMA BuiltIsRight ==
  ASSUME NEW doc \in Docs, ParseAccepts(doc), Renders(doc), ~ BadNames(doc)
  PROVE  LET declared == doc.nodes[1].children
             nodes == Rendered(doc).children
         IN  /\ \A c \in Range(declared) :
                  {n \in Range(nodes) : n.name = ReadAs(c.name)} =
                    {[name |-> ReadAs(c.name), file |-> FileOf(c)]}
             /\ \A i, j \in DOMAIN nodes : nodes[i].file = nodes[j].file /\ i # j => nodes[i].file = Absent
             /\ LeavesDict(doc) =
                  {<<n.name, n.file>> : n \in {m \in Range(nodes) : m.file # Absent /\ m.file[2] = "jsonl"}}
<1> DEFINE declared == doc.nodes[1].children
           nodes == Rendered(doc).children
<1>1. /\ DOMAIN nodes = DOMAIN declared
      /\ \A i \in DOMAIN declared :
           nodes[i] = [name |-> ReadAs(declared[i].name), file |-> FileOf(declared[i])]
  BY RenderedIs
<1>2. \A i, j \in DOMAIN declared : ReadAs(declared[i].name) = ReadAs(declared[j].name) => i = j
  BY DEF BadNames
<1>3. \A i \in DOMAIN declared : <<ReadAs(declared[i].name), "jsonl">> # Absent
  BY FileAssumption DEF Children, Range
<1>4. LeavesDict(doc) = {<<name, <<name, "jsonl">>>> :
                           name \in {ReadAs(c.name) : c \in {d \in Range(declared) : StateOf(d) = "log"}}}
  BY DEF LeavesDict, LogLeafNames, Children
<1> HIDE DEF declared, nodes
<1>5. ASSUME NEW c \in Range(declared)
      PROVE  {n \in Range(nodes) : n.name = ReadAs(c.name)} =
               {[name |-> ReadAs(c.name), file |-> FileOf(c)]}
  <2>1. PICK i \in DOMAIN declared : c = declared[i]
    BY DEF Range
  <2>2. nodes[i] = [name |-> ReadAs(c.name), file |-> FileOf(c)] /\ nodes[i] \in Range(nodes)
    BY <1>1, <2>1 DEF Range
  <2>3. ASSUME NEW n \in Range(nodes), n.name = ReadAs(c.name) PROVE n = nodes[i]
    <3>1. PICK j \in DOMAIN declared : n = nodes[j]
      BY <1>1 DEF Range
    <3>2. ReadAs(declared[j].name) = ReadAs(declared[i].name)
      BY <1>1, <2>1, <2>3, <3>1
    <3> QED
      BY <1>2, <3>1, <3>2
  <2> QED
    BY <2>2, <2>3
<1>6. ASSUME NEW i \in DOMAIN nodes, NEW j \in DOMAIN nodes, nodes[i].file = nodes[j].file, i # j
      PROVE  nodes[i].file = Absent
  <2>1. nodes[i].file = FileOf(declared[i]) /\ nodes[j].file = FileOf(declared[j])
    BY <1>1
  <2>2. ReadAs(declared[i].name) # ReadAs(declared[j].name)
    BY <1>1, <1>2, <1>6
  <2>3. \A d : FileOf(d) # Absent => FileOf(d)[1] = ReadAs(d.name)
    BY DEF FileOf
  <2> QED
    BY <1>6, <2>1, <2>2, <2>3
<1> DEFINE Logs == {m \in Range(nodes) : m.file # Absent /\ m.file[2] = "jsonl"}
<1>7. ASSUME NEW d \in Range(declared), StateOf(d) = "log"
      PROVE  \E n \in Logs : <<n.name, n.file>> = <<ReadAs(d.name), <<ReadAs(d.name), "jsonl">>>>
  <2>1. PICK i \in DOMAIN declared : d = declared[i]
    BY DEF Range
  <2>2. nodes[i] \in Range(nodes) /\ nodes[i].name = ReadAs(d.name)
        /\ nodes[i].file = <<ReadAs(d.name), "jsonl">>
    BY <1>1, <1>7, <2>1 DEF Range, FileOf
  <2>3. nodes[i] \in Logs
    BY <1>3, <2>1, <2>2
  <2> QED
    BY <2>2, <2>3
<1>8. ASSUME NEW n \in Logs
      PROVE  \E d \in Range(declared) :
               StateOf(d) = "log" /\ <<n.name, n.file>> = <<ReadAs(d.name), <<ReadAs(d.name), "jsonl">>>>
  <2>1. PICK i \in DOMAIN declared : n = nodes[i]
    BY <1>1 DEF Range
  <2>2. n.name = ReadAs(declared[i].name) /\ n.file = FileOf(declared[i])
        /\ declared[i] \in Range(declared)
    BY <1>1, <2>1 DEF Range
  <2>3. StateOf(declared[i]) = "log"
    BY <2>2 DEF FileOf
  <2> QED
    BY <2>2, <2>3 DEF FileOf
<1>9. LeavesDict(doc) = {<<n.name, n.file>> : n \in Logs}
  <2> HIDE DEF Logs
  <2> QED
    BY <1>4, <1>7, <1>8
<1> QED
  BY <1>5, <1>6, <1>9 DEF declared, nodes

\* Whatever the documents, the edits and the upgrades: validate blames
\* pmstate.yaml just when it does not parse, blames a tree.py that nobody edited
\* only for names in its document or a spoilt file that it imports, and when it
\* does not, the tree, the files and add.py's leaves are those that document
\* declares.  (validate.py, init.py.)
THEOREM ValidateHolds == ProjectSpec => []ValidateIsRight
<1>1. ProjectInv => ValidateIsRight
  <2> SUFFICES ASSUME ProjectInv, project.phase = "validated" PROVE ValidateIsRight
    BY DEF ValidateIsRight
  <2> DEFINE doc == project.treeOf
  <2>1. Rooted(project) /\ Judged(project)
    BY DEF ProjectInv, IsProject
  <2>2. PICK builds \in BOOLEAN :
          /\ doc # Absent => builds = Builds(doc, project.spoilt)
          /\ <<"error", "tree.py">> \in project.issues <=> ParseAccepts(project.spec) /\ ~ builds
          /\ <<"error", "views.py">> \in project.issues => ParseAccepts(project.spec) /\ builds
          /\ ParseAccepts(project.spec) /\ builds /\ doc # Absent => project.tree = Rendered(doc)
    BY <2>1 DEF Judged
  <2>3. /\ Blamed("pmstate.yaml") <=> ~ ParseAccepts(project.spec)
        /\ Blamed("tree.py") <=> ParseAccepts(project.spec) /\ ~ builds
        /\ Blamed("views.py") => ParseAccepts(project.spec) /\ builds
    BY <2>1, <2>2 DEF Blamed, Judged
  <2>4. ASSUME doc # Absent, ~ Blamed("pmstate.yaml"), Blamed("tree.py")
        PROVE  \/ BadNames(doc)
               \/ Views(doc) # {} /\ "views.py" \in project.spoilt
               \/ Reducers(doc) # {} /\ "reducers.py" \in project.spoilt
    BY <2>2, <2>3, <2>4, BuildsIs
  <2>5. ASSUME doc # Absent, ~ Blamed("pmstate.yaml"), ~ Blamed("tree.py")
        PROVE  ~ BadNames(doc) /\ TreeIsDeclared(doc)
    <3>1. ~ BadNames(doc) /\ project.tree = Rendered(doc)
      BY <2>2, <2>3, <2>5, BuildsIs
    <3>2. doc \in Docs /\ ParseAccepts(doc) /\ Renders(doc) /\ project.leaves = LeavesDict(doc)
      BY <2>1, <2>5 DEF Rooted
    <3> QED
      BY <3>1, <3>2, BuiltIsRight DEF TreeIsDeclared, Children
  <2> QED
    BY <2>3, <2>4, <2>5 DEF ValidateIsRight
<1> QED
  BY <1>1, InitProjectInv, NextProjectInv, PTL DEF ProjectSpec
================================================================================
