------------------------ MODULE AdaptiveRetrievalProofs ------------------------
(***************************************************************************)
(* Proofs about AdaptiveRetrieval and DocumentGovernance, for every set of    *)
(* documents, every policy and all results of the searches: what              *)
(* administrators entered stays, no relation is lost, the evidence is in the  *)
(* scope, background only supplements, and the selection leaves nothing out.  *)
(***************************************************************************)
EXTENDS AdaptiveRetrieval, FiniteSetTheorems, SequenceTheorems, WellFoundedInduction, TLAPS

-----------------------------------------------------------------------------
(* Numbers and sets of numbers.                                              *)

\* A nonempty set of numbers has a least one.
LEMMA LeastNumber ==
  ASSUME NEW S, S \subseteq Nat, S # {}
  PROVE  \E m \in S : \A n \in S : m <= n
<1> DEFINE R == {ss \in Nat \X Nat : ss[1] < ss[2]}
<1>0. IsWellFoundedOn(R, Nat)
  BY NatLessThanWellFounded DEF OpToRel
<1>1. PICK m \in S : \A n \in S : ~ (<<n, m>> \in R)
  BY <1>0, WFMin
<1>2. ASSUME NEW n \in S PROVE m <= n
  <2>1. n \in Nat /\ m \in Nat
    OBVIOUS
  <2>2. <<n, m>> \in R <=> n < m
    BY <2>1
  <2>3. QED
    BY <1>1, <2>1, <2>2
<1>3. QED
  BY <1>2

\* What holds at zero and from each step to the next holds after n steps.
LEMMA UpTo ==
  ASSUME NEW n \in Nat, NEW S, 0 \in S, \A k \in 1..n : k - 1 \in S => k \in S
  PROVE  n \in S
<1> DEFINE Missing == {k \in 0..n : k \notin S}
<1> SUFFICES ASSUME Missing # {} PROVE FALSE
  OBVIOUS
<1>1. Missing \subseteq Nat
  OBVIOUS
<1>2. PICK m \in Missing : \A k \in Missing : m <= k
  <2> HIDE DEF Missing
  <2> QED BY <1>1, LeastNumber
<1>3. m \in 1..n /\ m - 1 \in 0..n /\ m - 1 \notin Missing
  BY <1>2
<1>4. QED
  BY <1>3

\* A nonempty set of numbers that are at most n has a greatest one.
LEMMA MaxIsIn ==
  ASSUME NEW n \in Nat, NEW S, S \subseteq 1..n, S # {}
  PROVE  Max(S) \in S /\ \A k \in S : Max(S) >= k
<1> DEFINE Bounds == {b \in Nat : \A k \in S : k <= b}
<1>1. Bounds \subseteq Nat /\ n \in Bounds
  OBVIOUS
<1>2. PICK b \in Bounds : \A c \in Bounds : b <= c
  <2> HIDE DEF Bounds
  <2> QED BY <1>1, LeastNumber
<1>3. b \in S
  <2> SUFFICES ASSUME b \notin S PROVE FALSE
    OBVIOUS
  <2>1. \A k \in S : k <= b - 1
    BY <1>2
  <2>2. b - 1 \in Bounds
    <3>1. PICK k \in S : TRUE
      OBVIOUS
    <3>2. k \in Nat /\ k >= 1 /\ k <= b - 1 /\ b \in Nat
      BY <2>1
    <3>3. b - 1 \in Nat
      BY <3>2
    <3>4. QED
      BY <2>1, <3>3
  <2>3. QED
    BY <1>2, <2>2
<1>4. \E k \in S : \A l \in S : k >= l
  BY <1>2, <1>3
<1>5. QED
  BY <1>4 DEF Max

LEMMA SameLength ==
  ASSUME NEW m \in Nat, NEW n \in Nat, 1..m = 1..n
  PROVE  m = n
<1>1. ~(m < n)
  <2> SUFFICES ASSUME m < n PROVE FALSE
    OBVIOUS
  <2>1. n \in 1..n /\ n \notin 1..m
    OBVIOUS
  <2>2. QED
    BY <2>1
<1>2. ~(n < m)
  <2> SUFFICES ASSUME n < m PROVE FALSE
    OBVIOUS
  <2>1. m \in 1..m /\ m \notin 1..n
    OBVIOUS
  <2>2. QED
    BY <2>1
<1>3. QED
  BY <1>1, <1>2

LEMMA MaxOfTwo ==
  ASSUME NEW a \in Int, NEW b \in Int
  PROVE  Max({a, b}) = IF a >= b THEN a ELSE b
BY DEF Max

LEMMA MinOfTwo ==
  ASSUME NEW a \in Int, NEW b \in Int
  PROVE  Min({a, b}) = IF a <= b THEN a ELSE b
BY DEF Min

-----------------------------------------------------------------------------
(* Folds over sequences: what FoldLeft computes, turn by turn.               *)

\* A turn of each of the three folds.
Turn(way, m, q, x) ==
  IF way = "see" THEN See(q, x)
  ELSE IF way = "take" THEN TakeUp(m, q, x) ELSE LeaveOpen(m, q, x)

\* g[s] is what has come out when the elements at s are done.
Turns(way, m, seq, g) ==
  g = [s \in SUBSET DOMAIN seq |->
         IF s = {} THEN <<>> ELSE Turn(way, m, g[s \ {Max(s)}], seq[Max(s)])]

LEMMA TurnsExist ==
  ASSUME NEW way, NEW m, NEW n \in Nat, NEW seq, DOMAIN seq = 1..n
  PROVE  \E g : Turns(way, m, seq, g)
<1> DEFINE Small(k) == {s \in SUBSET (1..n) : Cardinality(s) <= k}
           TurnsTo(g, k) ==
             g = [s \in Small(k) |->
                    IF s = {} THEN <<>> ELSE Turn(way, m, g[s \ {Max(s)}], seq[Max(s)])]
<1>0. IsFiniteSet(1..n) /\ Cardinality(1..n) = n
  BY FS_Interval
<1>1. \A s \in SUBSET (1..n) : IsFiniteSet(s) /\ Cardinality(s) \in Nat /\ Cardinality(s) <= n
  BY <1>0, FS_Subset, FS_CardinalityType
<1>2. \E g : TurnsTo(g, 0)
  <2> DEFINE g == [s \in Small(0) |-> <<>>]
  <2>1. \A s \in Small(0) : s = {}
    BY <1>1, FS_EmptySet
  <2>2. TurnsTo(g, 0)
    BY <2>1
  <2>3. QED
    BY <2>2
<1>3. ASSUME NEW k \in Nat, NEW g, TurnsTo(g, k) PROVE \E h : TurnsTo(h, k + 1)
  <2> DEFINE h == [s \in Small(k + 1) |->
                     IF s = {} THEN <<>> ELSE Turn(way, m, g[s \ {Max(s)}], seq[Max(s)])]
  <2>1. ASSUME NEW s \in Small(k + 1), s # {} PROVE s \ {Max(s)} \in Small(k)
    <3>1. Max(s) \in s /\ s \in SUBSET (1..n) /\ Cardinality(s) <= k + 1
      BY <2>1, MaxIsIn
    <3>2. Cardinality(s \ {Max(s)}) = Cardinality(s) - 1
      BY <1>1, <3>1, FS_RemoveElement
    <3>3. s \ {Max(s)} \in SUBSET (1..n) /\ Cardinality(s) \in Nat
      BY <1>1, <3>1
    <3>4. Cardinality(s \ {Max(s)}) <= k
      BY <3>1, <3>2, <3>3
    <3>5. QED
      BY <3>3, <3>4
  <2>2. \A t \in Small(k) : t \in Small(k + 1)
    BY <1>1
  <2>3. \A t \in Small(k) : h[t] = g[t]
    <3>1. \A t \in Small(k) :
            g[t] = IF t = {} THEN <<>> ELSE Turn(way, m, g[t \ {Max(t)}], seq[Max(t)])
      <4> HIDE DEF Small
      <4> QED BY <1>3
    <3> HIDE DEF Small
    <3>2. QED
      BY <2>2, <3>1
  <2>4. TurnsTo(h, k + 1)
    <3> HIDE DEF Small
    <3> QED BY <2>1, <2>3
  <2>5. QED
    BY <2>4
<1>4. \E g : TurnsTo(g, n)
  <2> DEFINE S == {k \in Nat : \E g : TurnsTo(g, k)}
  <2> HIDE DEF TurnsTo
  <2>1. 0 \in S
    BY <1>2
  <2>2. \A k \in 1..n : k - 1 \in S => k \in S
    <3> SUFFICES ASSUME NEW k \in 1..n, k - 1 \in S PROVE k \in S
      OBVIOUS
    <3>1. k - 1 \in Nat /\ (k - 1) + 1 = k
      OBVIOUS
    <3>2. \E h : TurnsTo(h, (k - 1) + 1)
      BY <1>3, <3>1
    <3>3. \E h : TurnsTo(h, k)
      BY <3>1, <3>2
    <3>4. QED
      BY <3>3
  <2> HIDE DEF S
  <2>3. n \in S
    BY <2>1, <2>2, UpTo
  <2>4. QED
    BY <2>3 DEF S
<1>5. PICK g : TurnsTo(g, n)
  BY <1>4
<1>6. Small(n) = SUBSET DOMAIN seq
  BY <1>1
<1>7. Turns(way, m, seq, g)
  <2> HIDE DEF Small
  <2> QED BY <1>5, <1>6 DEF Turns
<1>8. QED
  BY <1>7

\* The results after each turn, and the one after the last.
Run(way, m, seq, out, G) ==
  /\ G[0] = <<>> /\ G[Len(seq)] = out
  /\ \A k \in 1..Len(seq) : G[k] = Turn(way, m, G[k - 1], seq[k])

LEMMA TurnsRun ==
  ASSUME NEW way, NEW m, NEW n \in Nat, NEW seq, DOMAIN seq = 1..n, Len(seq) = n,
         NEW g, Turns(way, m, seq, g)
  PROVE  \E G : Run(way, m, seq, g[DOMAIN seq], G)
<1> DEFINE G == [k \in 0..n |-> g[1..k]]
<1>1. \A s \in SUBSET (1..n) :
        g[s] = IF s = {} THEN <<>> ELSE Turn(way, m, g[s \ {Max(s)}], seq[Max(s)])
  BY DEF Turns
<1>2. G[0] = <<>>
  <2>1. 1..0 = {} /\ {} \in SUBSET (1..n)
    OBVIOUS
  <2>2. g[{}] = <<>>
    BY <1>1, <2>1
  <2>3. G[0] = g[1..0]
    OBVIOUS
  <2>4. QED
    BY <2>1, <2>2, <2>3
<1>3. ASSUME NEW k \in 1..n PROVE G[k] = Turn(way, m, G[k - 1], seq[k])
  <2>1. 1..k \in SUBSET (1..n) /\ 1..k # {} /\ 1..k \subseteq 1..k
    OBVIOUS
  <2>2. Max(1..k) = k
    <3>1. k \in Nat /\ k \in 1..k
      OBVIOUS
    <3>2. Max(1..k) \in 1..k /\ \A j \in 1..k : Max(1..k) >= j
      BY <2>1, <3>1, MaxIsIn
    <3>3. QED
      BY <3>1, <3>2
  <2>3. (1..k) \ {k} = 1..(k - 1)
    OBVIOUS
  <2>4. g[1..k] = Turn(way, m, g[(1..k) \ {Max(1..k)}], seq[Max(1..k)])
    <3> DEFINE s == 1..k
    <3>1. s \in SUBSET (1..n) /\ s # {}
      BY <2>1
    <3> HIDE DEF s
    <3>2. g[s] = Turn(way, m, g[s \ {Max(s)}], seq[Max(s)])
      BY <1>1, <3>1
    <3>3. QED
      BY <3>2 DEF s
  <2>5. g[1..k] = Turn(way, m, g[1..(k - 1)], seq[k])
    BY <2>2, <2>3, <2>4
  <2>6. G[k] = g[1..k] /\ G[k - 1] = g[1..(k - 1)]
    <3>1. k \in 0..n /\ k - 1 \in 0..n
      OBVIOUS
    <3>2. QED
      BY <3>1
  <2> HIDE DEF G
  <2>7. QED
    BY <2>5, <2>6
<1>4. G[n] = g[DOMAIN seq]
  OBVIOUS
<1> HIDE DEF G
<1>5. QED
  BY <1>2, <1>3, <1>4 DEF Run

LEMMA CombineRuns ==
  ASSUME NEW n \in Nat, NEW packages, DOMAIN packages = 1..n, Len(packages) = n
  PROVE  \E G : Run("see", 0, packages, Combine(packages), G)
<1> DEFINE iter == CHOOSE h : h = [s \in SUBSET DOMAIN packages |->
                     IF s = {} THEN <<>> ELSE See(h[s \ {Max(s)}], packages[Max(s)])]
<1>1. \E g : Turns("see", 0, packages, g)
  BY TurnsExist
<1>2. \E g : g = [s \in SUBSET DOMAIN packages |->
                     IF s = {} THEN <<>> ELSE See(g[s \ {Max(s)}], packages[Max(s)])]
  BY <1>1 DEF Turns, Turn
<1>3. iter = [s \in SUBSET DOMAIN packages |->
                IF s = {} THEN <<>> ELSE See(iter[s \ {Max(s)}], packages[Max(s)])]
  BY <1>2
<1>4. Combine(packages) = iter[DOMAIN packages]
  BY DEF Combine, FoldLeft, MapThenFoldSet, Max
<1> HIDE DEF iter
<1>5. Turns("see", 0, packages, iter)
  BY <1>3 DEF Turns, Turn
<1>6. QED
  BY <1>4, <1>5, TurnsRun

LEMMA DiversifyRuns ==
  ASSUME NEW n \in Nat, NEW packages, DOMAIN packages = 1..n, Len(packages) = n, NEW room
  PROVE  \E G : Run("take", room, packages, Diversify(packages, room), G)
<1> DEFINE iter == CHOOSE h : h = [s \in SUBSET DOMAIN packages |->
                     IF s = {} THEN <<>> ELSE TakeUp(room, h[s \ {Max(s)}], packages[Max(s)])]
<1>1. \E g : Turns("take", room, packages, g)
  BY TurnsExist
<1>2. \E g : g = [s \in SUBSET DOMAIN packages |->
                     IF s = {} THEN <<>> ELSE TakeUp(room, g[s \ {Max(s)}], packages[Max(s)])]
  BY <1>1 DEF Turns, Turn
<1>3. iter = [s \in SUBSET DOMAIN packages |->
                IF s = {} THEN <<>> ELSE TakeUp(room, iter[s \ {Max(s)}], packages[Max(s)])]
  BY <1>2
<1>4. Diversify(packages, room) = iter[DOMAIN packages]
  BY DEF Diversify, FoldLeft, MapThenFoldSet, Max
<1> HIDE DEF iter
<1>5. Turns("take", room, packages, iter)
  BY <1>3 DEF Turns, Turn
<1>6. QED
  BY <1>4, <1>5, TurnsRun

LEMMA OpenRuns ==
  ASSUME NEW missing
  PROVE  \E G : Run("open", missing, Facets, OpenFacets(missing), G)
<1> DEFINE iter == CHOOSE h : h = [s \in SUBSET DOMAIN Facets |->
                     IF s = {} THEN <<>> ELSE LeaveOpen(missing, h[s \ {Max(s)}], Facets[Max(s)])]
<1>0. Len(Facets) \in Nat /\ DOMAIN Facets = 1..Len(Facets)
  BY PlanAssumption, LenProperties
<1>1. \E g : Turns("open", missing, Facets, g)
  BY <1>0, TurnsExist
<1>2. \E g : g = [s \in SUBSET DOMAIN Facets |->
                     IF s = {} THEN <<>> ELSE LeaveOpen(missing, g[s \ {Max(s)}], Facets[Max(s)])]
  BY <1>1 DEF Turns, Turn
<1>3. iter = [s \in SUBSET DOMAIN Facets |->
                IF s = {} THEN <<>> ELSE LeaveOpen(missing, iter[s \ {Max(s)}], Facets[Max(s)])]
  BY <1>2
<1>4. OpenFacets(missing) = iter[DOMAIN Facets]
  BY DEF OpenFacets, FoldLeft, MapThenFoldSet, Max
<1> HIDE DEF iter
<1>5. Turns("open", missing, Facets, iter)
  BY <1>3 DEF Turns, Turn
<1>6. QED
  BY <1>0, <1>4, <1>5, TurnsRun

-----------------------------------------------------------------------------
(* Candidates: one package for each node.                                    *)

Same(p, q) == p.node = q.node /\ p.named = q.named
DistinctNodes(packages) ==
  \A i, j \in 1..Len(packages) : packages[i].node = packages[j].node => i = j
\* Every package is one of the others, but for rank and facets.
ComeFrom(packages, others) ==
  \A i \in 1..Len(packages) : \E j \in 1..Len(others) : Same(packages[i], others[j])
\* No node is lost.
HaveNodesOf(packages, others) ==
  \A j \in 1..Len(others) : \E i \in 1..Len(packages) : packages[i].node = others[j].node

LEMMA MergeTyped ==
  ASSUME NEW p \in Package, NEW q \in Package
  PROVE  Merge(p, q) \in Package /\ Same(Merge(p, q), p)
<1>1. Min({p.rank, q.rank}) \in Nat \ {0}
  BY MinOfTwo DEF Package
<1>2. p.facets \cup q.facets \in SUBSET AllFacets
  BY DEF Package
<1>3. Merge(p, q) = [p EXCEPT !.rank = Min({p.rank, q.rank}), !.facets = p.facets \cup q.facets]
  BY DEF Merge
<1> HIDE DEF Min
<1>4. QED
  BY <1>1, <1>2, <1>3 DEF Package, Same

\* One more package is merged with the one of its node, or is the last.
LEMMA SeeTurn ==
  ASSUME NEW seen \in Seq(Package), NEW p \in Package
  PROVE  /\ See(seen, p) \in Seq(Package)
         /\ \A i \in 1..Len(seen) : Same(See(seen, p)[i], seen[i])
         /\ \/ Len(See(seen, p)) = Len(seen) /\ \E i \in 1..Len(seen) : seen[i].node = p.node
            \/ See(seen, p) = Append(seen, p) /\ \A i \in 1..Len(seen) : seen[i].node # p.node
<1>0. /\ Len(seen) \in Nat /\ DOMAIN seen = 1..Len(seen)
      /\ \A i \in 1..Len(seen) : seen[i] \in Package
  BY LenProperties, ElementOfSeq
<1>1. (\E q \in ToSet(seen) : q.node = p.node) <=> \E i \in 1..Len(seen) : seen[i].node = p.node
  BY <1>0 DEF ToSet
<1>2. CASE \E i \in 1..Len(seen) : seen[i].node = p.node
  <2> DEFINE merged(i) == IF seen[i].node = p.node THEN Merge(seen[i], p) ELSE seen[i]
  <2>1. See(seen, p) = [i \in 1..Len(seen) |-> merged(i)]
    BY <1>1, <1>2 DEF See
  <2>2. \A i \in 1..Len(seen) : merged(i) \in Package /\ Same(merged(i), seen[i])
    BY <1>0, MergeTyped DEF Same
  <2> HIDE DEF merged
  <2>3. See(seen, p) \in Seq(Package) /\ Len(See(seen, p)) = Len(seen)
    <3>1. See(seen, p) \in Seq(Package)
      BY <1>0, <2>1, <2>2, IsASeq
    <3>2. Len(See(seen, p)) \in Nat /\ DOMAIN See(seen, p) = 1..Len(See(seen, p))
      BY <3>1, LenProperties
    <3>3. DOMAIN See(seen, p) = 1..Len(seen)
      BY <2>1
    <3>4. QED
      BY <1>0, <3>1, <3>2, <3>3, SameLength
  <2>4. QED
    BY <1>2, <2>1, <2>2, <2>3
<1>3. CASE ~ \E i \in 1..Len(seen) : seen[i].node = p.node
  <2>1. See(seen, p) = Append(seen, p)
    BY <1>1, <1>3 DEF See
  <2>2. Append(seen, p) \in Seq(Package) /\ \A i \in 1..Len(seen) : Append(seen, p)[i] = seen[i]
    BY <1>0, AppendProperties
  <2>3. QED
    BY <1>3, <2>1, <2>2 DEF Same
<1>4. QED
  BY <1>2, <1>3

\* What has come out after the first k packages.
Seen(seen, packages, k) ==
  /\ seen \in Seq(Package) /\ Len(seen) <= k
  /\ DistinctNodes(seen)
  /\ \A i \in 1..Len(seen) : \E j \in 1..k : Same(seen[i], packages[j])
  /\ \A j \in 1..k : \E i \in 1..Len(seen) : seen[i].node = packages[j].node

LEMMA SeenOneMore ==
  ASSUME NEW packages \in Seq(Package), NEW k \in 1..Len(packages), NEW seen,
         Seen(seen, packages, k - 1)
  PROVE  Seen(See(seen, packages[k]), packages, k)
<1> DEFINE p == packages[k]
           next == See(seen, p)
<1>0. /\ seen \in Seq(Package) /\ p \in Package /\ Len(seen) \in Nat /\ k \in Nat /\ k - 1 \in Nat
      /\ Len(packages) \in Nat
  BY LenProperties, ElementOfSeq DEF Seen
<1>1. /\ next \in Seq(Package) /\ \A i \in 1..Len(seen) : Same(next[i], seen[i])
      /\ \/ Len(next) = Len(seen) /\ \E i \in 1..Len(seen) : seen[i].node = p.node
         \/ next = Append(seen, p) /\ \A i \in 1..Len(seen) : seen[i].node # p.node
  BY <1>0, SeeTurn
<1> HIDE DEF p, next
<1>2. \A j \in 1..k : j \in 1..(k - 1) \/ j = k
  BY <1>0
<1>3. CASE Len(next) = Len(seen) /\ \E i \in 1..Len(seen) : seen[i].node = p.node
  <2>1. Len(next) <= k /\ DistinctNodes(next)
    <3>1. Len(next) <= k
      BY <1>0, <1>3 DEF Seen
    <3>2. \A i \in 1..Len(next) : next[i].node = seen[i].node
      BY <1>1, <1>3 DEF Same
    <3>3. DistinctNodes(next)
      BY <1>3, <3>2 DEF Seen, DistinctNodes
    <3>4. QED
      BY <3>1, <3>3
  <2>2. \A i \in 1..Len(next) : \E j \in 1..k : Same(next[i], packages[j])
    <3>1. ASSUME NEW i \in 1..Len(next) PROVE \E j \in 1..k : Same(next[i], packages[j])
      <4>1. PICK j \in 1..(k - 1) : Same(seen[i], packages[j])
        BY <1>3 DEF Seen
      <4>2. j \in 1..k /\ Same(next[i], packages[j])
        BY <1>0, <1>1, <1>3, <4>1 DEF Same
      <4>3. QED
        BY <4>2
    <3>2. QED
      BY <3>1
  <2>3. \A j \in 1..k : \E i \in 1..Len(next) : next[i].node = packages[j].node
    <3>1. \A j \in 1..(k - 1) : \E i \in 1..Len(seen) : seen[i].node = packages[j].node
      BY DEF Seen
    <3>2. \A i \in 1..Len(seen) : next[i].node = seen[i].node
      BY <1>1 DEF Same
    <3>3. \E i \in 1..Len(seen) : seen[i].node = packages[k].node
      BY <1>3 DEF p
    <3>4. QED
      BY <1>2, <1>3, <3>1, <3>2, <3>3
  <2>4. QED
    BY <1>1, <2>1, <2>2, <2>3 DEF Seen, next, p
<1>4. CASE next = Append(seen, p) /\ \A i \in 1..Len(seen) : seen[i].node # p.node
  <2>1. /\ Len(next) = Len(seen) + 1 /\ next[Len(seen) + 1] = p
        /\ \A i \in 1..Len(seen) : next[i] = seen[i]
    BY <1>0, <1>4, AppendProperties
  <2>2. \A i \in 1..Len(next) : i \in 1..Len(seen) \/ i = Len(seen) + 1
    BY <1>0, <2>1
  <2>3. Len(next) <= k /\ DistinctNodes(next)
    <3>1. Len(seen) <= k - 1 /\ DistinctNodes(seen)
      BY DEF Seen
    <3>2. \A i, j \in 1..Len(next) : next[i].node = next[j].node => i = j
      BY <1>0, <1>4, <2>1, <2>2, <3>1 DEF DistinctNodes
    <3>3. QED
      BY <1>0, <2>1, <3>1, <3>2 DEF DistinctNodes
  <2>4. \A i \in 1..Len(next) : \E j \in 1..k : Same(next[i], packages[j])
    <3>1. ASSUME NEW i \in 1..Len(seen) PROVE \E j \in 1..k : Same(next[i], packages[j])
      <4>1. PICK j \in 1..(k - 1) : Same(seen[i], packages[j])
        BY DEF Seen
      <4>2. j \in 1..k /\ Same(next[i], packages[j])
        BY <1>0, <2>1, <4>1
      <4>3. QED
        BY <4>2
    <3>2. Same(next[Len(seen) + 1], packages[k]) /\ k \in 1..k
      BY <1>0, <2>1 DEF Same, p
    <3>3. QED
      BY <2>2, <3>1, <3>2
  <2>5. \A j \in 1..k : \E i \in 1..Len(next) : next[i].node = packages[j].node
    <3>1. Len(seen) + 1 \in 1..Len(next) /\ \A i \in 1..Len(seen) : i \in 1..Len(next)
      BY <1>0, <2>1
    <3>2. QED
      BY <1>2, <2>1, <3>1 DEF Seen, p
  <2>6. QED
    BY <1>1, <2>3, <2>4, <2>5 DEF Seen, next, p
<1>5. QED
  BY <1>1, <1>3, <1>4

\* What _combine_candidates makes of packages.
LEMMA Combined ==
  ASSUME NEW packages \in Seq(Package)
  PROVE  /\ Combine(packages) \in Seq(Package) /\ Len(Combine(packages)) <= Len(packages)
         /\ DistinctNodes(Combine(packages))
         /\ ComeFrom(Combine(packages), packages) /\ HaveNodesOf(Combine(packages), packages)
<1> DEFINE n == Len(packages)
<1>1. n \in Nat /\ DOMAIN packages = 1..n
  BY LenProperties
<1>2. PICK G : Run("see", 0, packages, Combine(packages), G)
  BY <1>1, CombineRuns
<1> DEFINE S == {k \in 0..n : Seen(G[k], packages, k)}
<1>3. 0 \in S
  <2>1. G[0] = <<>> /\ <<>> \in Seq(Package) /\ Len(<<>>) = 0
    BY <1>2, EmptySeq DEF Run
  <2>2. Seen(<<>>, packages, 0)
    BY <2>1 DEF Seen, DistinctNodes
  <2>3. QED
    BY <1>1, <2>1, <2>2
<1>4. \A k \in 1..n : k - 1 \in S => k \in S
  <2>1. ASSUME NEW k \in 1..n, k - 1 \in S PROVE k \in S
    <3>1. G[k] = See(G[k - 1], packages[k])
      BY <1>2 DEF Run, Turn
    <3>2. QED
      BY <1>1, <2>1, <3>1, SeenOneMore
  <2>2. QED
    BY <2>1
<1>5. n \in S
  <2> HIDE DEF S
  <2> QED BY <1>1, <1>3, <1>4, UpTo
<1>6. QED
  BY <1>2, <1>5 DEF Run, Seen, ComeFrom, HaveNodesOf

\* Packages of different nodes are their own candidates.
LEMMA CombinedAlready ==
  ASSUME NEW packages \in Seq(Package), DistinctNodes(packages)
  PROVE  Combine(packages) = packages
<1> DEFINE n == Len(packages)
<1>1. n \in Nat /\ DOMAIN packages = 1..n
  BY LenProperties
<1>2. PICK G : Run("see", 0, packages, Combine(packages), G)
  BY <1>1, CombineRuns
<1> DEFINE Begins(seen, k) == /\ seen \in Seq(Package) /\ Len(seen) = k
                              /\ \A i \in 1..k : seen[i] = packages[i]
           S == {k \in 0..n : Begins(G[k], k)}
<1>3. 0 \in S
  <2>1. G[0] = <<>> /\ <<>> \in Seq(Package) /\ Len(<<>>) = 0
    BY <1>2, EmptySeq DEF Run
  <2>2. Begins(<<>>, 0)
    BY <2>1
  <2>3. 0 \in 0..n
    BY <1>1
  <2> HIDE DEF Begins
  <2>4. QED
    BY <2>1, <2>2, <2>3
<1>4. \A k \in 1..n : k - 1 \in S => k \in S
  <2>1. ASSUME NEW k \in 1..n, Begins(G[k - 1], k - 1) PROVE Begins(G[k], k)
    <3>1. G[k] = See(G[k - 1], packages[k]) /\ packages[k] \in Package
      BY <1>2, ElementOfSeq DEF Run, Turn
    <3> DEFINE seen == G[k - 1]
    <3>2. /\ seen \in Seq(Package) /\ Len(seen) = k - 1 /\ k \in Nat
          /\ \A i \in 1..(k - 1) : seen[i] = packages[i]
      BY <1>1, <2>1
    <3> HIDE DEF seen
    <3>3. \A i \in 1..Len(seen) : seen[i].node # packages[k].node
      <4>1. \A i \in 1..(k - 1) : packages[i].node # packages[k].node
        BY <1>1, <3>2 DEF DistinctNodes
      <4>2. QED
        BY <3>2, <4>1
    <3>4. See(seen, packages[k]) = Append(seen, packages[k])
      <4>1. packages[k] \in Package /\ seen \in Seq(Package)
        BY <3>1, <3>2
      <4>2. \/ \E i \in 1..Len(seen) : seen[i].node = packages[k].node
            \/ See(seen, packages[k]) = Append(seen, packages[k])
        BY <4>1, SeeTurn
      <4>3. QED
        BY <3>3, <4>2
    <3>5. G[k] = Append(seen, packages[k])
      BY <3>1, <3>4 DEF seen
    <3> DEFINE next == Append(seen, packages[k])
    <3>6. /\ next \in Seq(Package) /\ Len(next) = (k - 1) + 1 /\ next[(k - 1) + 1] = packages[k]
          /\ \A i \in 1..(k - 1) : next[i] = seen[i]
      BY <3>1, <3>2, AppendProperties
    <3>7. (k - 1) + 1 = k /\ \A i \in 1..k : i \in 1..(k - 1) \/ i = k
      BY <3>2
    <3> HIDE DEF next
    <3>8. Begins(next, k)
      BY <3>2, <3>6, <3>7
    <3>9. QED
      BY <3>5, <3>8 DEF next
  <2> HIDE DEF Begins
  <2>2. QED
    BY <1>1, <2>1
<1>5. n \in S
  <2> HIDE DEF S
  <2> QED BY <1>1, <1>3, <1>4, UpTo
<1>6. Combine(packages) \in Seq(Package) /\ Len(Combine(packages)) = n
      /\ \A i \in 1..n : Combine(packages)[i] = packages[i]
  BY <1>2, <1>5 DEF Run
<1>7. QED
  BY <1>6, SeqEqual

-----------------------------------------------------------------------------
(* Ranking: the candidates in another order.                                 *)

\* A set of dates is finite, so the dates in front of a package can be counted.
LEMMA FreshnessIsNumber ==
  ASSUME NEW candidates \in Seq(Package), NEW p \in Package
  PROVE  Freshness(p, candidates) \in Nat
<1> DEFINE dates == {Date[d] : d \in Docs}
           newer == {d \in {Date[DocumentOf(q)] : q \in ToSet(candidates)} : d > Date[DocumentOf(p)]}
<1>1. Date \in Surjection(Docs, dates)
  BY StoreAssumption DEF Surjection
<1>2. IsFiniteSet(dates)
  BY <1>1, FS_Surjection, GovernanceAssumption
<1>3. newer \subseteq dates
  <2>1. \A q \in ToSet(candidates) : DocumentOf(q) \in Docs
    <3>1. \A q \in ToSet(candidates) : q \in Package
      BY LenProperties, ElementOfSeq DEF ToSet
    <3>2. \A q \in Package : DocumentOf(q) \in Docs
      BY StoreAssumption DEF Package, DocumentOf, Stored
    <3>3. QED
      BY <3>1, <3>2
  <2>2. QED
    BY <2>1
<1>4. Cardinality(newer) \in Nat
  BY <1>2, <1>3, FS_Subset, FS_CardinalityType
<1>5. QED
  BY <1>4 DEF Freshness

LEMMA ShareIsNumber ==
  ASSUME NEW weight \in Nat, NEW rank \in Nat
  PROVE  Share(weight, rank) \in Int
<1>1. Policy.rrf + rank \in Nat /\ Policy.rrf + rank > 0
  BY PolicyAssumption DEF PolicyType
<1>2. 10000 * weight \in Int
  OBVIOUS
<1>3. QED
  BY <1>1, <1>2 DEF Share

LEMMA ScoreIsNumber ==
  ASSUME NEW candidates \in Seq(Package), NEW p \in Package, NEW fresh \in BOOLEAN
  PROVE  Score(p, candidates, fresh) \in Int
<1>1. DocumentOf(p) \in Docs /\ p.rank \in Nat
  BY StoreAssumption DEF Package, DocumentOf, Stored
<1>2. /\ Share(Policy.semantic, p.rank) \in Int
      /\ Share(Policy.freshness, Freshness(p, candidates)) \in Int
  BY <1>1, ShareIsNumber, FreshnessIsNumber, PolicyAssumption DEF PolicyType
<1>3. Bonus[DocumentOf(p)] \in Int
  BY <1>1, StoreAssumption
<1>4. QED
  BY <1>2, <1>3 DEF Score

LEMMA KeyTyped ==
  ASSUME NEW candidates \in Seq(Package), NEW fresh \in BOOLEAN, NEW i \in 1..Len(candidates)
  PROVE  /\ Key(candidates, fresh, i) \in Int \X Int \X Int \X Int
         /\ Key(candidates, fresh, i)[4] = -i
<1>1. candidates[i] \in Package /\ i \in Int
  BY LenProperties, ElementOfSeq
<1>2. /\ Score(candidates[i], candidates, fresh) \in Int
      /\ Date[DocumentOf(candidates[i])] \in Int
      /\ -candidates[i].rank \in Int /\ -i \in Int
  <2>1. Score(candidates[i], candidates, fresh) \in Int
    BY <1>1, ScoreIsNumber
  <2>2. DocumentOf(candidates[i]) \in Docs /\ candidates[i].rank \in Nat
    BY <1>1, StoreAssumption DEF Package, DocumentOf, Stored
  <2>3. Date[DocumentOf(candidates[i])] \in Int
    BY <2>2, StoreAssumption
  <2>4. QED
    BY <1>1, <2>1, <2>2, <2>3
<1>3. QED
  BY <1>2 DEF Key

\* The order of the keys, written out.
Higher(a1, a2, a3, a4, b1, b2, b3, b4) ==
  \/ a1 > b1
  \/ a1 = b1 /\ a2 > b2
  \/ a1 = b1 /\ a2 = b2 /\ a3 > b3
  \/ a1 = b1 /\ a2 = b2 /\ a3 = b3 /\ a4 > b4

Above(x, y) == Higher(x[1], x[2], x[3], x[4], y[1], y[2], y[3], y[4])

\* Of two keys that differ in the last place, one is above the other.
LEMMA HigherOne ==
  ASSUME NEW a1 \in Int, NEW a2 \in Int, NEW a3 \in Int, NEW a4 \in Int,
         NEW b1 \in Int, NEW b2 \in Int, NEW b3 \in Int, NEW b4 \in Int, a4 # b4
  PROVE  \/ Higher(a1, a2, a3, a4, b1, b2, b3, b4)
         \/ Higher(b1, b2, b3, b4, a1, a2, a3, a4)
BY DEF Higher

LEMMA BeforeIsAbove ==
  ASSUME NEW candidates, NEW fresh, NEW i, NEW j
  PROVE  Before(candidates, fresh, i, j)
         <=> Above(Key(candidates, fresh, i), Key(candidates, fresh, j))
<1> DEFINE x == Key(candidates, fresh, i)
           y == Key(candidates, fresh, j)
           At(k) == x[k] > y[k] /\ \A l \in 1..(k - 1) : x[l] = y[l]
<1>1. Before(candidates, fresh, i, j) <=> \E k \in 1..4 : At(k)
  BY DEF Before
<1> HIDE DEF x, y
<1>2. /\ 1..(1 - 1) = {} /\ 1..(2 - 1) = {1} /\ 1..(3 - 1) = {1, 2} /\ 1..(4 - 1) = {1, 2, 3}
      /\ 1..4 = {1, 2, 3, 4}
  OBVIOUS
<1>3. /\ At(1) <=> x[1] > y[1]
      /\ At(2) <=> x[1] = y[1] /\ x[2] > y[2]
      /\ At(3) <=> x[1] = y[1] /\ x[2] = y[2] /\ x[3] > y[3]
      /\ At(4) <=> x[1] = y[1] /\ x[2] = y[2] /\ x[3] = y[3] /\ x[4] > y[4]
  BY <1>2
<1> HIDE DEF At
<1>4. (\E k \in 1..4 : At(k)) <=> At(1) \/ At(2) \/ At(3) \/ At(4)
  BY <1>2
<1>5. QED
  BY <1>1, <1>3, <1>4 DEF Above, Higher, x, y

\* One candidate is before the other, and never the other way round.
LEMMA BeforeIsOrder ==
  ASSUME NEW candidates \in Seq(Package), NEW fresh \in BOOLEAN,
         NEW i \in 1..Len(candidates), NEW j \in 1..Len(candidates), NEW k \in 1..Len(candidates)
  PROVE  /\ ~Before(candidates, fresh, i, i)
         /\ i # j => Before(candidates, fresh, i, j) \/ Before(candidates, fresh, j, i)
         /\ Before(candidates, fresh, i, j) /\ Before(candidates, fresh, j, k)
              => Before(candidates, fresh, i, k)
<1> DEFINE x == Key(candidates, fresh, i)
           y == Key(candidates, fresh, j)
           z == Key(candidates, fresh, k)
<1>1. /\ x \in Int \X Int \X Int \X Int /\ y \in Int \X Int \X Int \X Int
      /\ z \in Int \X Int \X Int \X Int
      /\ x[4] = -i /\ y[4] = -j
  BY KeyTyped
<1>2. /\ x[1] \in Int /\ x[2] \in Int /\ x[3] \in Int /\ x[4] \in Int
      /\ y[1] \in Int /\ y[2] \in Int /\ y[3] \in Int /\ y[4] \in Int
      /\ z[1] \in Int /\ z[2] \in Int /\ z[3] \in Int /\ z[4] \in Int
      /\ i \in Int /\ j \in Int
  BY <1>1
<1>3. /\ Before(candidates, fresh, i, i) <=> Above(x, x)
      /\ Before(candidates, fresh, i, j) <=> Above(x, y)
      /\ Before(candidates, fresh, j, i) <=> Above(y, x)
      /\ Before(candidates, fresh, j, k) <=> Above(y, z)
      /\ Before(candidates, fresh, i, k) <=> Above(x, z)
  BY BeforeIsAbove
<1> HIDE DEF x, y, z
<1>4. ~Above(x, x)
  <2>1. \A a \in Int : ~(a > a)
    OBVIOUS
  <2>2. /\ ~(x[1] > x[1]) /\ ~(x[2] > x[2])
        /\ ~(x[3] > x[3]) /\ ~(x[4] > x[4])
    BY <1>2, <2>1
  <2>3. QED
    BY <2>2 DEF Above, Higher
<1>5. i # j => Above(x, y) \/ Above(y, x)
  <2>1. i # j => x[4] # y[4]
    BY <1>1, <1>2
  <2>2. QED
    BY <1>2, <2>1, HigherOne DEF Above
<1>6. ASSUME Above(x, y), Above(y, z) PROVE Above(x, z)
  <2> DEFINE x1 == x[1]
             x2 == x[2]
             x3 == x[3]
             x4 == x[4]
             y1 == y[1]
             y2 == y[2]
             y3 == y[3]
             y4 == y[4]
             z1 == z[1]
             z2 == z[2]
             z3 == z[3]
             z4 == z[4]
  <2>1. /\ x1 \in Int /\ x2 \in Int /\ x3 \in Int /\ x4 \in Int
        /\ y1 \in Int /\ y2 \in Int /\ y3 \in Int /\ y4 \in Int
        /\ z1 \in Int /\ z2 \in Int /\ z3 \in Int /\ z4 \in Int
    BY <1>2
  <2>2. Higher(x1, x2, x3, x4, y1, y2, y3, y4) /\ Higher(y1, y2, y3, y4, z1, z2, z3, z4)
    BY <1>6 DEF Above
  <2>3. Higher(x1, x2, x3, x4, z1, z2, z3, z4) => Above(x, z)
    BY DEF Above
  <2> HIDE DEF x1, x2, x3, x4, y1, y2, y3, y4, z1, z2, z3, z4
  <2>4. Higher(x1, x2, x3, x4, z1, z2, z3, z4)
    BY <2>1, <2>2 DEF Higher
  <2>5. QED
    BY <2>3, <2>4
<1>7. QED
  BY <1>3, <1>4, <1>5, <1>6

\* Every place is taken by one candidate.
LEMMA Places ==
  ASSUME NEW candidates \in Seq(Package), NEW fresh \in BOOLEAN
  PROVE  LET n == Len(candidates) IN
         /\ \A i \in 1..n : Place(candidates, fresh, i) \in 1..n
         /\ \A i, j \in 1..n :
              Place(candidates, fresh, i) = Place(candidates, fresh, j) => i = j
         /\ \A k \in 1..n : \E i \in 1..n : Place(candidates, fresh, i) = k
<1> DEFINE n == Len(candidates)
           front(i) == {j \in 1..n : Before(candidates, fresh, j, i)}
           P(i) == Place(candidates, fresh, i)
<1>1. n \in Nat /\ DOMAIN candidates = 1..n /\ IsFiniteSet(1..n) /\ Cardinality(1..n) = n
  <2>1. n \in Nat /\ DOMAIN candidates = 1..n
    BY LenProperties
  <2> HIDE DEF n
  <2>2. IsFiniteSet(1..n) /\ Cardinality(1..n) = n
    BY <2>1, FS_Interval
  <2>3. QED
    BY <2>1, <2>2
<1>2. \A i \in 1..n : P(i) = 1 + Cardinality(front(i))
  BY <1>1 DEF Place
<1>3. \A i \in 1..n : IsFiniteSet(front(i)) /\ Cardinality(front(i)) \in Nat
  <2>1. \A i \in 1..n : front(i) \subseteq 1..n
    OBVIOUS
  <2> HIDE DEF front
  <2>2. QED
    BY <1>1, <2>1, FS_Subset, FS_CardinalityType
<1>4. ASSUME NEW i \in 1..n PROVE P(i) \in 1..n
  <2>1. front(i) \subseteq (1..n) \ {i}
    BY BeforeIsOrder
  <2>2. IsFiniteSet((1..n) \ {i}) /\ Cardinality((1..n) \ {i}) = n - 1
    <3>1. i \in 1..n
      OBVIOUS
    <3> HIDE DEF n
    <3>2. QED
      BY <1>1, <3>1, FS_RemoveElement
  <2> HIDE DEF front
  <2>3. Cardinality(front(i)) <= n - 1
    BY <2>1, <2>2, FS_Subset
  <2>4. QED
    BY <1>1, <1>2, <1>3, <2>3
<1>5. ASSUME NEW i \in 1..n, NEW j \in 1..n, Before(candidates, fresh, i, j) PROVE P(i) < P(j)
  <2>1. i \notin front(i) /\ front(i) \cup {i} \subseteq front(j)
    BY <1>5, BeforeIsOrder
  <2> HIDE DEF front, P
  <2>2. Cardinality(front(i) \cup {i}) = Cardinality(front(i)) + 1
    BY <1>3, <2>1, FS_AddElement
  <2>3. Cardinality(front(i) \cup {i}) <= Cardinality(front(j))
    BY <1>3, <2>1, FS_Subset
  <2>4. QED
    BY <1>2, <1>3, <2>2, <2>3
<1>6. \A i, j \in 1..n : P(i) = P(j) => i = j
  <2> HIDE DEF P
  <2>1. ASSUME NEW i \in 1..n, NEW j \in 1..n, i # j PROVE P(i) # P(j)
    <3>1. P(i) \in 1..n /\ P(j) \in 1..n
      BY <1>4
    <3>2. P(i) < P(j) \/ P(j) < P(i)
      BY <1>5, <2>1, BeforeIsOrder
    <3>3. QED
      BY <1>1, <3>1, <3>2
  <2>2. QED
    BY <2>1
<1>7. \A k \in 1..n : \E i \in 1..n : P(i) = k
  <2> HIDE DEF P
  <2> DEFINE f == [i \in 1..n |-> P(i)]
  <2>1. f \in Injection(1..n, 1..n)
    BY <1>4, <1>6 DEF Injection, IsInjective
  <2>2. f \in Surjection(1..n, 1..n)
    BY <1>1, <2>1, FS_Injection
  <2>3. QED
    BY <2>2 DEF Surjection
<1>8. QED
  BY <1>4, <1>6, <1>7

\* What rerank_packages makes of packages.
LEMMA Reranked ==
  ASSUME NEW packages \in Seq(Package), NEW fresh \in BOOLEAN
  PROVE  LET ranked == Rerank(packages, fresh) IN
         /\ ranked \in Seq(Package) /\ DistinctNodes(ranked)
         /\ ComeFrom(ranked, packages) /\ HaveNodesOf(ranked, packages)
<1> DEFINE c == Combine(packages)
           n == Len(c)
           P(i) == Place(c, fresh, i)
           o(k) == CHOOSE i \in 1..n : P(i) = k
           ranked == Rerank(packages, fresh)
<1>1. /\ c \in Seq(Package) /\ DistinctNodes(c) /\ ComeFrom(c, packages) /\ HaveNodesOf(c, packages)
      /\ n \in Nat /\ DOMAIN c = 1..n
  BY Combined, LenProperties
<1>2. ranked = [k \in 1..n |-> c[o(k)]]
  BY <1>1 DEF Rerank
<1> HIDE DEF c, ranked
<1>3. /\ \A i \in 1..n : P(i) \in 1..n
      /\ \A i, j \in 1..n : P(i) = P(j) => i = j
      /\ \A k \in 1..n : \E i \in 1..n : P(i) = k
  BY <1>1, Places
<1> HIDE DEF P
<1>4. \A k \in 1..n : o(k) \in 1..n /\ P(o(k)) = k
  BY <1>3
<1>5. \A i \in 1..n : o(P(i)) = i
  BY <1>3, <1>4
<1> HIDE DEF o
<1>6. \A k \in 1..n : c[o(k)] \in Package
  BY <1>1, <1>4, ElementOfSeq
<1>7. ranked \in Seq(Package)
  BY <1>1, <1>2, <1>6, IsASeq
<1>8. Len(ranked) = n
  <2>1. Len(ranked) \in Nat /\ DOMAIN ranked = 1..Len(ranked)
    BY <1>7, LenProperties
  <2>2. DOMAIN ranked = 1..n
    BY <1>2
  <2>3. QED
    BY <1>1, <2>1, <2>2, SameLength
<1>9. \A k \in 1..n : ranked[k] = c[o(k)] /\ o(k) \in 1..n
  BY <1>2, <1>4
<1>10. \A i \in 1..n : P(i) \in 1..n /\ ranked[P(i)] = c[i]
  BY <1>3, <1>5, <1>9
<1>11. DistinctNodes(ranked)
  <2>1. ASSUME NEW k \in 1..n, NEW l \in 1..n, ranked[k].node = ranked[l].node PROVE k = l
    <3>1. o(k) = o(l)
      BY <1>1, <1>9, <2>1 DEF DistinctNodes
    <3>2. QED
      BY <1>4, <3>1
  <2>2. QED
    BY <1>8, <2>1 DEF DistinctNodes
<1>12. ComeFrom(ranked, packages)
  BY <1>1, <1>8, <1>9 DEF ComeFrom
<1>13. HaveNodesOf(ranked, packages)
  <2>1. ASSUME NEW j \in 1..Len(packages)
        PROVE  \E k \in 1..Len(ranked) : ranked[k].node = packages[j].node
    <3>1. PICK i \in 1..n : c[i].node = packages[j].node
      BY <1>1 DEF HaveNodesOf
    <3>2. QED
      BY <1>8, <1>10, <3>1
  <2>2. QED
    BY <2>1 DEF HaveNodesOf
<1>14. QED
  BY <1>7, <1>11, <1>12, <1>13 DEF ranked

-----------------------------------------------------------------------------
(* Diversity: as many packages as there is room, of each document a few.     *)

LEMMA PerDocument == Policy.per_document \in Nat /\ Policy.per_document >= 1
<1>1. Policy.per_document \in 1..20
  BY PolicyAssumption DEF PolicyType
<1>2. QED
  BY <1>1

LEMMA DocumentsOfPackages ==
  ASSUME NEW packages \in Seq(Package)
  PROVE  /\ Len(packages) \in Nat /\ DOMAIN packages = 1..Len(packages)
         /\ \A i \in 1..Len(packages) : packages[i] \in Package /\ DocumentOf(packages[i]) \in Docs
<1>1. \A p \in Package : DocumentOf(p) \in Docs
  BY StoreAssumption DEF Package, DocumentOf, Stored
<1>2. QED
  BY <1>1, LenProperties, ElementOfSeq

LEMMA CountsOfDocuments ==
  ASSUME NEW packages \in Seq(Package), NEW d
  PROVE  /\ IsFiniteSet(OfDocument(packages, d))
         /\ Cardinality(OfDocument(packages, d)) \in Nat
<1> DEFINE n == Len(packages)
<1>1. n \in Nat /\ DOMAIN packages = 1..n
  BY DocumentsOfPackages
<1> HIDE DEF n
<1>2. IsFiniteSet(1..n) /\ OfDocument(packages, d) \subseteq 1..n
  BY <1>1, FS_Interval DEF OfDocument
<1>3. QED
  BY <1>2, FS_Subset, FS_CardinalityType

\* A package more is one more of its document.
LEMMA OneMoreOfDocument ==
  ASSUME NEW packages \in Seq(Package), NEW p \in Package, NEW d
  PROVE  Cardinality(OfDocument(Append(packages, p), d)) =
           Cardinality(OfDocument(packages, d)) + (IF DocumentOf(p) = d THEN 1 ELSE 0)
<1> DEFINE n == Len(packages)
           more == Append(packages, p)
<1>1. n \in Nat /\ DOMAIN packages = 1..n
  BY DocumentsOfPackages
<1>2. /\ more \in Seq(Package) /\ Len(more) = n + 1 /\ more[n + 1] = p
      /\ \A i \in 1..n : more[i] = packages[i]
  BY AppendProperties
<1>3. DOMAIN more = 1..(n + 1)
  BY <1>2, LenProperties
<1> HIDE DEF n, more
<1>4. 1..(n + 1) = 1..n \cup {n + 1} /\ n + 1 \notin 1..n
  BY <1>1
<1>5. CASE DocumentOf(p) = d
  <2>1. /\ OfDocument(more, d) = OfDocument(packages, d) \cup {n + 1}
        /\ n + 1 \notin OfDocument(packages, d)
    BY <1>1, <1>2, <1>3, <1>4, <1>5 DEF OfDocument
  <2>2. QED
    BY <1>5, <2>1, CountsOfDocuments, FS_AddElement DEF more
<1>6. CASE DocumentOf(p) # d
  <2>1. OfDocument(more, d) = OfDocument(packages, d)
    BY <1>1, <1>2, <1>3, <1>4, <1>6 DEF OfDocument
  <2>2. QED
    BY <1>6, <2>1, CountsOfDocuments DEF more
<1>7. QED
  BY <1>5, <1>6

Full(q, room) == Len(q) >= 1 /\ Len(q) >= room
Often(q, d) == Cardinality(OfDocument(q, d)) >= Policy.per_document

\* What was taken of the first k packages.
Taken(q, packages, room, k) ==
  /\ q \in Seq(Package) /\ (Len(q) <= 1 \/ Len(q) <= room)
  /\ k >= 1 => Len(q) >= 1
  /\ DistinctNodes(q)
  /\ \A i \in 1..Len(q) : \E j \in 1..k : q[i] = packages[j]
  /\ \A d : Cardinality(OfDocument(q, d)) <= Policy.per_document
  /\ \A j \in 1..k : \/ Full(q, room)
                     \/ \E i \in 1..Len(q) : q[i] = packages[j]
                     \/ Often(q, DocumentOf(packages[j]))

LEMMA TakenOneMore ==
  ASSUME NEW packages \in Seq(Package), DistinctNodes(packages), NEW room \in Int,
         NEW k \in 1..Len(packages), NEW q, Taken(q, packages, room, k - 1)
  PROVE  Taken(TakeUp(room, q, packages[k]), packages, room, k)
<1> DEFINE p == packages[k]
<1>0. /\ q \in Seq(Package) /\ p \in Package /\ Len(q) \in Nat /\ k \in Nat /\ k - 1 \in Nat
      /\ Len(packages) \in Nat
      /\ Policy.per_document \in Nat /\ Policy.per_document >= 1
      /\ \A d : Cardinality(OfDocument(q, d)) \in Nat
  BY DocumentsOfPackages, CountsOfDocuments, PerDocument DEF Taken
<1>1. \A j \in 1..k : j \in 1..(k - 1) \/ j = k
  BY <1>0
<1>2. \A j \in 1..(k - 1) : j \in 1..k
  BY <1>0
<1>3. q # <<>> <=> Len(q) >= 1
  BY <1>0, EmptySeq
<1>4. Full(q, room) <=> q # <<>> /\ Len(q) >= room
  BY <1>3 DEF Full
<1>5. CASE Full(q, room) \/ Often(q, DocumentOf(p))
  <2>1. TakeUp(room, q, p) = q
    BY <1>4, <1>5 DEF TakeUp, Often
  <2>2. Len(q) >= 1
    <3>1. CASE Full(q, room)
      BY <3>1 DEF Full
    <3>2. CASE Often(q, DocumentOf(p))
      <4>1. OfDocument(q, DocumentOf(p)) # {}
        <5> SUFFICES ASSUME OfDocument(q, DocumentOf(p)) = {} PROVE FALSE
          OBVIOUS
        <5>1. Cardinality(OfDocument(q, DocumentOf(p))) = 0
          BY FS_EmptySet
        <5>2. QED
          BY <1>0, <3>2, <5>1 DEF Often
      <4>2. \E i \in DOMAIN q : TRUE
        BY <4>1 DEF OfDocument
      <4>3. DOMAIN q = 1..Len(q)
        BY <1>0, LenProperties
      <4>4. QED
        BY <1>0, <4>2, <4>3
    <3>3. QED
      BY <1>5, <3>1, <3>2
  <2>3. \A i \in 1..Len(q) : \E j \in 1..k : q[i] = packages[j]
    BY <1>2 DEF Taken
  <2>4. \A j \in 1..k : \/ Full(q, room)
                        \/ \E i \in 1..Len(q) : q[i] = packages[j]
                        \/ Often(q, DocumentOf(packages[j]))
    BY <1>1, <1>5 DEF Taken
  <2>5. QED
    BY <2>1, <2>2, <2>3, <2>4 DEF Taken
<1>6. CASE ~Full(q, room) /\ ~Often(q, DocumentOf(p))
  <2> DEFINE more == Append(q, p)
  <2>1. TakeUp(room, q, p) = more
    BY <1>4, <1>6 DEF TakeUp, Often
  <2>2. /\ more \in Seq(Package) /\ Len(more) = Len(q) + 1 /\ more[Len(q) + 1] = p
        /\ \A i \in 1..Len(q) : more[i] = q[i]
    BY <1>0, AppendProperties
  <2>3. \A d : Cardinality(OfDocument(more, d)) =
                 Cardinality(OfDocument(q, d)) + (IF DocumentOf(p) = d THEN 1 ELSE 0)
    BY <1>0, OneMoreOfDocument
  <2> HIDE DEF more, p
  <2>4. \A i \in 1..Len(more) : i \in 1..Len(q) \/ i = Len(q) + 1
    BY <1>0, <2>2
  <2>5. Len(more) <= 1 \/ Len(more) <= room
    BY <1>0, <1>6, <2>2 DEF Full
  <2>6. \A i \in 1..Len(q) : q[i].node # p.node
    <3>1. ASSUME NEW i \in 1..Len(q) PROVE q[i].node # p.node
      <4>1. PICK j \in 1..(k - 1) : q[i] = packages[j]
        BY DEF Taken
      <4>2. j # k /\ j \in 1..Len(packages)
        BY <1>0
      <4>3. QED
        BY <4>1, <4>2 DEF DistinctNodes, p
    <3>2. QED
      BY <3>1
  <2>7. DistinctNodes(more)
    <3>1. \A i, j \in 1..Len(q) : q[i].node = q[j].node => i = j
      BY DEF Taken, DistinctNodes
    <3>2. \A i, j \in 1..Len(more) : more[i].node = more[j].node => i = j
      BY <1>0, <2>2, <2>4, <2>6, <3>1
    <3>3. QED
      BY <3>2 DEF DistinctNodes
  <2>8. \A i \in 1..Len(more) : \E j \in 1..k : more[i] = packages[j]
    <3>1. \A i \in 1..Len(q) : \E j \in 1..k : more[i] = packages[j]
      BY <1>2, <2>2 DEF Taken
    <3>2. more[Len(q) + 1] = packages[k] /\ k \in 1..k
      BY <1>0, <2>2 DEF p
    <3>3. QED
      BY <2>4, <3>1, <3>2
  <2>9. \A d : Cardinality(OfDocument(more, d)) <= Policy.per_document
    <3>1. ASSUME NEW d PROVE Cardinality(OfDocument(more, d)) <= Policy.per_document
      <4>1. Cardinality(OfDocument(q, d)) <= Policy.per_document
        BY DEF Taken
      <4>2. CASE DocumentOf(p) = d
        BY <1>0, <1>6, <2>3, <4>2 DEF Often
      <4>3. CASE DocumentOf(p) # d
        BY <1>0, <2>3, <4>1, <4>3
      <4>4. QED
        BY <4>2, <4>3
    <3>2. QED
      BY <3>1
  <2>10. \A j \in 1..k : \/ Full(more, room)
                         \/ \E i \in 1..Len(more) : more[i] = packages[j]
                         \/ Often(more, DocumentOf(packages[j]))
    <3>1. \A i \in 1..Len(q) : i \in 1..Len(more)
      BY <1>0, <2>2
    <3>2. \A d : Often(q, d) => Often(more, d)
      <4>1. \A d : Cardinality(OfDocument(more, d)) >= Cardinality(OfDocument(q, d))
        BY <1>0, <2>3
      <4>2. \A d : Cardinality(OfDocument(more, d)) \in Nat
        BY <2>2, CountsOfDocuments
      <4>3. QED
        BY <1>0, <4>1, <4>2 DEF Often
    <3>3. ASSUME NEW j \in 1..(k - 1)
          PROVE  \/ \E i \in 1..Len(more) : more[i] = packages[j]
                 \/ Often(more, DocumentOf(packages[j]))
      <4>1. \/ \E i \in 1..Len(q) : q[i] = packages[j]
            \/ Often(q, DocumentOf(packages[j]))
        BY <1>6 DEF Taken
      <4>2. QED
        BY <2>2, <3>1, <3>2, <4>1
    <3>4. Len(q) + 1 \in 1..Len(more) /\ more[Len(q) + 1] = packages[k]
      BY <1>0, <2>2 DEF p
    <3>5. QED
      BY <1>1, <3>3, <3>4
  <2>11. Len(more) >= 1
    BY <1>0, <2>2
  <2>12. QED
    BY <2>1, <2>2, <2>5, <2>7, <2>8, <2>9, <2>10, <2>11 DEF Taken, p
<1>7. QED
  BY <1>5, <1>6

\* What diversify_packages makes of packages.
LEMMA Diversified ==
  ASSUME NEW packages \in Seq(Package), DistinctNodes(packages), NEW room \in Int
  PROVE  Taken(Diversify(packages, room), packages, room, Len(packages))
<1> DEFINE n == Len(packages)
<1>1. n \in Nat /\ DOMAIN packages = 1..n
  BY LenProperties
<1>2. PICK G : Run("take", room, packages, Diversify(packages, room), G)
  BY <1>1, DiversifyRuns
<1> DEFINE S == {k \in 0..n : Taken(G[k], packages, room, k)}
<1>3. 0 \in S
  <2>1. G[0] = <<>> /\ <<>> \in Seq(Package) /\ Len(<<>>) = 0
    BY <1>2, EmptySeq DEF Run
  <2>2. \A d : Cardinality(OfDocument(<<>>, d)) <= Policy.per_document
    <3>1. \A d : OfDocument(<<>>, d) = {}
      BY DEF OfDocument
    <3>2. ASSUME NEW d PROVE Cardinality(OfDocument(<<>>, d)) <= Policy.per_document
      <4>1. Cardinality({}) = 0 /\ OfDocument(<<>>, d) = {}
        BY <3>1, FS_EmptySet
      <4>2. Cardinality(OfDocument(<<>>, d)) = 0
        BY <4>1, Zenon
      <4>3. QED
        BY <4>2, PerDocument
    <3>3. QED
      BY <3>2
  <2>3. Taken(<<>>, packages, room, 0)
    BY <2>1, <2>2 DEF Taken, DistinctNodes
  <2>4. QED
    BY <1>1, <2>1, <2>3
<1>4. \A k \in 1..n : k - 1 \in S => k \in S
  <2>1. ASSUME NEW k \in 1..n, k - 1 \in S PROVE k \in S
    <3>1. G[k] = TakeUp(room, G[k - 1], packages[k])
      BY <1>2 DEF Run, Turn
    <3>2. QED
      BY <1>1, <2>1, <3>1, TakenOneMore
  <2>2. QED
    BY <2>1
<1>5. n \in S
  <2> HIDE DEF S
  <2> QED BY <1>1, <1>3, <1>4, UpTo
<1>6. QED
  BY <1>2, <1>5 DEF Run

-----------------------------------------------------------------------------
(* The governance of the documents.                                          *)

ValueRow == [doc : Docs, value : Values]
FillRow == [doc : Docs]
RelationRow == [key : Keys, original : Keys]
Filled(S) == Seq(S) \ {<<>>}

\* A request has rows of its kind left, and only a relation is written in two statements.
OpShape ==
  \/ op = Idle
  \/ op \in [kind : {"values"}, rows : Filled(ValueRow), stage : {"write"}]
  \/ op \in [kind : {"fill"}, rows : Filled(FillRow), stage : {"write"}]
  \/ op \in [kind : {"relations"}, rows : Filled(RelationRow), stage : {"write", "delete"}]

GovernanceShapes ==
  /\ meta \in [Docs -> MetaType] /\ said \in [Docs -> MetaType]
  /\ table \in BOOLEAN /\ relations \subseteq Keys /\ edits \in 0..MaxEdits
  /\ OpShape

\* What is still to be filled was not entered by hand.
FillsAreNotManual ==
  op.kind = "fill" => \A i \in 1..Len(op.rows) : meta[op.rows[i].doc].source # "manual"

\* The relation that replaces another one is stored before that one is deleted.
ReplacementStored ==
  op.stage = "delete" => /\ Head(op.rows).key \in relations
                         /\ Head(op.rows).key # Head(op.rows).original

GovernanceInv ==
  GovernanceShapes /\ ManualValuesStay /\ FillsAreNotManual /\ ReplacementStored

LEMMA IdleOp == Idle.kind = "idle" /\ Idle.stage = "write" /\ Idle.rows = <<>>
BY DEF Idle

LEMMA GovernanceStarts ==
  ASSUME GovernanceInit
  PROVE  GovernanceInv
<1>1. Unfilled \in MetaType /\ NoEntry \in MetaType /\ NoEntry.source = "none"
  BY DEF Unfilled, NoEntry, MetaType
<1>2. GovernanceShapes
  BY <1>1, GovernanceAssumption DEF GovernanceInit, GovernanceShapes, OpShape
<1>3. \A d \in Docs : said[d].source # "manual"
  BY <1>1 DEF GovernanceInit
<1>4. QED
  BY <1>2, <1>3, IdleOp
  DEF GovernanceInit, GovernanceInv, ManualValuesStay, FillsAreNotManual, ReplacementStored

\* A request begins with rows of its kind.
LEMMA BeginsShaped ==
  ASSUME NEW kind, NEW rows, Begin(kind, rows), edits \in 0..MaxEdits,
         \/ kind = "values" /\ rows \in Filled(ValueRow)
         \/ kind = "fill" /\ rows \in Filled(FillRow)
         \/ kind = "relations" /\ rows \in Filled(RelationRow)
  PROVE  /\ OpShape' /\ edits' \in 0..MaxEdits
         /\ op'.kind = kind /\ op'.rows = rows /\ op'.stage = "write"
<1>1. op' = [kind |-> kind, rows |-> rows, stage |-> "write"] /\ edits' = edits + 1 /\ edits < MaxEdits
  BY DEF Begin
<1>2. OpShape'
  BY <1>1 DEF OpShape
<1>3. QED
  BY <1>1, <1>2, GovernanceAssumption

\* What is left of the rows of a request are rows of its kind.
LEMMA AdvanceShaped ==
  ASSUME OpShape, op # Idle, Advance
  PROVE  /\ OpShape' /\ op'.stage = "write"
         /\ op'.kind = "fill" => /\ op.kind = "fill" /\ Len(op.rows) \in Nat /\ Len(op'.rows) \in Nat
                                 /\ Len(op'.rows) = Len(op.rows) - 1
                                 /\ \A i \in 1..Len(op'.rows) : op'.rows[i] = op.rows[i + 1]
<1>1. CASE op' = Idle
  BY <1>1, IdleOp DEF OpShape
<1>2. CASE op' # Idle
  <2>1. Len(op.rows) > 1 /\ op' = [op EXCEPT !.rows = Tail(op.rows), !.stage = "write"]
    BY <1>2 DEF Advance
  <2>2. ASSUME NEW S, op.rows \in Filled(S)
        PROVE  /\ Tail(op.rows) \in Filled(S) /\ Len(op.rows) \in Nat
               /\ Len(Tail(op.rows)) = Len(op.rows) - 1
               /\ \A i \in 1..Len(Tail(op.rows)) : Tail(op.rows)[i] = op.rows[i + 1]
    <3>1. op.rows \in Seq(S) /\ op.rows # <<>> /\ Len(op.rows) \in Nat
      BY <2>2, LenProperties DEF Filled
    <3>2. /\ Tail(op.rows) \in Seq(S) /\ Len(Tail(op.rows)) = Len(op.rows) - 1
          /\ \A i \in 1..Len(Tail(op.rows)) : Tail(op.rows)[i] = op.rows[i + 1]
      BY <3>1, HeadTailProperties
    <3>3. Len(Tail(op.rows)) > 0
      BY <2>1, <3>1, <3>2
    <3>4. Tail(op.rows) # <<>>
      BY <3>3, EmptySeq
    <3>5. QED
      BY <3>1, <3>2, <3>4 DEF Filled
  <2> DEFINE rest == Tail(op.rows)
  <2>3. op' = [op EXCEPT !.rows = rest, !.stage = "write"]
    BY <2>1
  <2> HIDE DEF rest
  <2>4. CASE op \in [kind : {"values"}, rows : Filled(ValueRow), stage : {"write"}]
    <3>1. rest \in Filled(ValueRow)
      BY <2>2, <2>4 DEF rest
    <3>2. op' \in [kind : {"values"}, rows : Filled(ValueRow), stage : {"write"}]
      BY <2>3, <2>4, <3>1
    <3>3. QED
      BY <3>2 DEF OpShape
  <2>5. CASE op \in [kind : {"fill"}, rows : Filled(FillRow), stage : {"write"}]
    <3>1. /\ rest \in Filled(FillRow) /\ Len(op.rows) \in Nat /\ Len(rest) = Len(op.rows) - 1
          /\ \A i \in 1..Len(rest) : rest[i] = op.rows[i + 1]
      BY <2>2, <2>5 DEF rest
    <3>2. /\ op' \in [kind : {"fill"}, rows : Filled(FillRow), stage : {"write"}]
          /\ op'.rows = rest /\ op.kind = "fill"
      BY <2>3, <2>5, <3>1
    <3>3. Len(rest) \in Nat
      BY <2>1, <3>1
    <3>4. QED
      BY <3>1, <3>2, <3>3 DEF OpShape
  <2>6. CASE op \in [kind : {"relations"}, rows : Filled(RelationRow), stage : {"write", "delete"}]
    <3>1. rest \in Filled(RelationRow)
      BY <2>2, <2>6 DEF rest
    <3>2. op' \in [kind : {"relations"}, rows : Filled(RelationRow), stage : {"write", "delete"}]
          /\ op'.stage = "write"
      BY <2>3, <2>6, <3>1
    <3>3. QED
      BY <3>2 DEF OpShape
  <2>7. QED
    BY <2>4, <2>5, <2>6, <1>2 DEF OpShape
<1>3. QED
  BY <1>1, <1>2

\* The three requests that only begin.
LEMMA EntersKeep ==
  ASSUME GovernanceInv,
         \/ \E rows \in Entries : EnterValues(rows)
         \/ \E n \in 1..Cardinality(Docs) : \E order \in [1..n -> Docs] : Autofill(order)
         \/ \E rows \in Imports \cup Edits : EnterRelations(rows)
  PROVE  GovernanceInv'
<1>1. UNCHANGED <<meta, table, relations, said>>
  BY DEF EnterValues, Autofill, EnterRelations
<1>2. /\ OpShape' /\ edits' \in 0..MaxEdits /\ op'.stage = "write"
      /\ op'.kind = "fill" => \A i \in 1..Len(op'.rows) : meta[op'.rows[i].doc].source # "manual"
  <2>0. edits \in 0..MaxEdits
    BY DEF GovernanceInv, GovernanceShapes
  <2>1. ASSUME NEW S, NEW n \in Nat \ {0}, NEW rows \in [1..n -> S] PROVE rows \in Filled(S)
    <3>1. rows \in Seq(S)
      OBVIOUS
    <3>2. Len(rows) = n
      OBVIOUS
    <3>3. rows # <<>>
      BY <3>2, EmptySeq
    <3>4. QED
      BY <3>1, <3>3 DEF Filled
  <2>2. ASSUME NEW rows \in Entries, EnterValues(rows)
        PROVE  OpShape' /\ edits' \in 0..MaxEdits /\ op'.stage = "write" /\ op'.kind = "values"
    <3>1. PICK n \in 1..2 : rows \in [1..n -> ValueRow]
      BY DEF Entries, ValueRow
    <3>2. rows \in Filled(ValueRow) /\ Begin("values", rows)
      BY <2>1, <2>2, <3>1 DEF EnterValues
    <3>3. QED
      BY <2>0, <3>2, BeginsShaped
  <2>3. ASSUME NEW rows \in Imports \cup Edits, EnterRelations(rows)
        PROVE  OpShape' /\ edits' \in 0..MaxEdits /\ op'.stage = "write" /\ op'.kind = "relations"
    <3>1. rows \in Filled(RelationRow)
      <4>1. CASE rows \in Imports
        <5>1. PICK n \in 1..2 : rows \in [1..n -> {[key |-> k, original |-> k] : k \in Keys}]
          BY <4>1 DEF Imports
        <5>2. {[key |-> k, original |-> k] : k \in Keys} \subseteq RelationRow
          BY DEF RelationRow
        <5>3. rows \in [1..n -> RelationRow]
          BY <5>1, <5>2
        <5>4. QED
          BY <2>1, <5>3
      <4>2. CASE rows \in Edits
        <5>1. PICK row \in RelationRow : rows = <<row>>
          BY <4>2 DEF Edits, RelationRow
        <5>2. rows \in Seq(RelationRow) /\ rows # <<>>
          BY <5>1
        <5>3. QED
          BY <5>2 DEF Filled
      <4>3. QED
        BY <4>1, <4>2
    <3>2. Begin("relations", rows)
      BY <2>3 DEF EnterRelations
    <3>3. QED
      BY <2>0, <3>1, <3>2, BeginsShaped
  <2>4. ASSUME NEW n \in 1..Cardinality(Docs), NEW order \in [1..n -> Docs], Autofill(order)
        PROVE  /\ OpShape' /\ edits' \in 0..MaxEdits /\ op'.stage = "write"
               /\ \A i \in 1..Len(op'.rows) : meta[op'.rows[i].doc].source # "manual"
    <3> DEFINE rows == [i \in DOMAIN order |-> [doc |-> order[i]]]
    <3>1. n \in Nat \ {0} /\ DOMAIN order = 1..n
      BY FS_CardinalityType, GovernanceAssumption
    <3>2. rows \in [1..n -> FillRow]
      BY <3>1 DEF FillRow
    <3>3. \A i \in 1..n : meta[rows[i].doc].source # "manual"
      <4>1. Fills = {order[i] : i \in DOMAIN order}
        BY <2>4 DEF Autofill
      <4>2. \A i \in 1..n : order[i] \in Fills /\ rows[i].doc = order[i]
        BY <3>1, <4>1
      <4>3. QED
        BY <4>2 DEF Fills
    <3>4. Begin("fill", rows)
      BY <2>4 DEF Autofill
    <3> HIDE DEF rows
    <3>5. rows \in Filled(FillRow) /\ Len(rows) = n
      BY <2>1, <3>1, <3>2
    <3>6. OpShape' /\ edits' \in 0..MaxEdits /\ op'.rows = rows /\ op'.stage = "write"
      BY <2>0, <3>4, <3>5, BeginsShaped
    <3>7. QED
      BY <3>3, <3>5, <3>6
  <2>5. QED
    BY <2>2, <2>3, <2>4
<1>3. QED
  BY <1>1, <1>2 DEF GovernanceInv, GovernanceShapes, ManualValuesStay, FillsAreNotManual, ReplacementStored

\* A value is written for a document, entered or found out.
LEMMA WritesKeep ==
  ASSUME GovernanceInv, WriteValues \/ WriteFill
  PROVE  GovernanceInv'
<1>0. OpShape /\ op # Idle /\ Advance /\ UNCHANGED <<table, relations, edits>>
  BY IdleOp DEF GovernanceInv, GovernanceShapes, WriteValues, WriteFill
<1>1. /\ OpShape' /\ op'.stage = "write"
      /\ op'.kind = "fill" => /\ op.kind = "fill" /\ Len(op.rows) \in Nat /\ Len(op'.rows) \in Nat
                              /\ Len(op'.rows) = Len(op.rows) - 1
                              /\ \A i \in 1..Len(op'.rows) : op'.rows[i] = op.rows[i + 1]
  BY <1>0, AdvanceShaped
<1>2. meta \in [Docs -> MetaType] /\ said \in [Docs -> MetaType]
  BY DEF GovernanceInv, GovernanceShapes
<1>3. CASE WriteValues
  <2> DEFINE row == Head(op.rows)
  <2>1. op \in [kind : {"values"}, rows : Filled(ValueRow), stage : {"write"}]
    BY <1>0, <1>3, IdleOp DEF WriteValues, OpShape
  <2>2. row \in ValueRow
    BY <2>1, HeadTailProperties DEF Filled
  <2>3. /\ meta' = [meta EXCEPT ![row.doc] = row.value]
        /\ said' = [said EXCEPT ![row.doc] = row.value]
    BY <1>3 DEF WriteValues
  <2> HIDE DEF row
  <2>4. row.doc \in Docs /\ row.value \in MetaType
    BY <2>2, GovernanceAssumption DEF ValueRow
  <2>5. meta' \in [Docs -> MetaType] /\ said' \in [Docs -> MetaType] /\ ManualValuesStay'
    BY <1>2, <2>3, <2>4 DEF GovernanceInv, ManualValuesStay
  <2>6. op'.kind # "fill"
    BY <1>1, <2>1
  <2>7. QED
    BY <1>0, <1>1, <2>5, <2>6
    DEF GovernanceInv, GovernanceShapes, FillsAreNotManual, ReplacementStored
<1>4. CASE WriteFill
  <2> DEFINE d == Head(op.rows).doc
  <2>1. op \in [kind : {"fill"}, rows : Filled(FillRow), stage : {"write"}]
    BY <1>0, <1>4, IdleOp DEF WriteFill, OpShape
  <2>2. /\ Head(op.rows) \in FillRow /\ Head(op.rows) = op.rows[1] /\ Len(op.rows) \in Nat
        /\ 1 \in 1..Len(op.rows)
    BY <2>1, HeadTailProperties, EmptySeq DEF Filled
  <2>3. d \in Docs /\ meta[d].source # "manual"
    BY <2>1, <2>2 DEF FillRow, GovernanceInv, FillsAreNotManual
  <2>4. meta' = [meta EXCEPT ![d] = Derived[d]] /\ UNCHANGED said
    BY <1>4 DEF WriteFill
  <2> HIDE DEF d
  <2>5. Derived[d] \in MetaType /\ Derived[d].source # "manual"
    BY <2>3, GovernanceAssumption
  <2>6. meta' \in [Docs -> MetaType] /\ said' \in [Docs -> MetaType] /\ ManualValuesStay'
    BY <1>2, <2>3, <2>4, <2>5 DEF GovernanceInv, ManualValuesStay
  <2>7. FillsAreNotManual'
    <3>1. ASSUME op'.kind = "fill", NEW i \in 1..Len(op'.rows)
          PROVE  meta'[op'.rows[i].doc].source # "manual"
      <4>1. i + 1 \in 1..Len(op.rows) /\ op'.rows[i] = op.rows[i + 1]
        BY <1>1, <3>1
      <4>2. op.rows[i + 1] \in FillRow
        BY <2>1, <4>1, ElementOfSeq DEF Filled
      <4>3. op.rows[i + 1].doc \in Docs /\ meta[op.rows[i + 1].doc].source # "manual"
        BY <2>1, <4>1, <4>2 DEF FillRow, GovernanceInv, FillsAreNotManual
      <4>4. QED
        BY <1>2, <2>4, <2>5, <4>1, <4>3
    <3>2. QED
      BY <3>1 DEF FillsAreNotManual
  <2>8. QED
    BY <1>0, <1>1, <2>6, <2>7 DEF GovernanceInv, GovernanceShapes, ReplacementStored
<1>5. QED
  BY <1>3, <1>4

\* A relation is written, and the one it replaces is deleted.
LEMMA RelationsKeep ==
  ASSUME GovernanceInv,
         SaveRelation \/ DeleteOriginal \/ Initialize \/ Fail \/ \E key \in Keys : DeleteRelation(key)
  PROVE  GovernanceInv'
<1>0. OpShape /\ relations \subseteq Keys /\ table \in BOOLEAN /\ edits \in 0..MaxEdits
  BY DEF GovernanceInv, GovernanceShapes
<1>1. UNCHANGED <<meta, said>>
  BY DEF SaveRelation, DeleteOriginal, Initialize, Fail, DeleteRelation
<1>2. ManualValuesStay'
  BY <1>1 DEF GovernanceInv, ManualValuesStay
<1>3. ASSUME OpShape', relations' \subseteq Keys, table' \in BOOLEAN, edits' \in 0..MaxEdits,
             op'.kind # "fill", ReplacementStored'
      PROVE  GovernanceInv'
  BY <1>1, <1>2, <1>3 DEF GovernanceInv, GovernanceShapes, FillsAreNotManual
<1>4. CASE SaveRelation
  <2> DEFINE row == Head(op.rows)
  <2>1. op \in [kind : {"relations"}, rows : Filled(RelationRow), stage : {"write", "delete"}]
    BY <1>0, <1>4, IdleOp DEF SaveRelation, OpShape
  <2>2. row \in RelationRow
    BY <2>1, HeadTailProperties DEF Filled
  <2>3. /\ table' = TRUE /\ UNCHANGED edits
        /\ \/ op' = Idle /\ UNCHANGED relations
           \/ /\ relations' = relations \cup {row.key}
              /\ \/ /\ row.original \in relations \ {row.key}
                    /\ op' = [op EXCEPT !.stage = "delete"]
                 \/ Advance
    BY <1>4 DEF SaveRelation
  <2> HIDE DEF row
  <2>4. row.key \in Keys
    BY <2>2 DEF RelationRow
  <2>5. CASE op' = Idle
    BY <1>0, <1>3, <2>3, <2>4, <2>5, IdleOp DEF OpShape, ReplacementStored
  <2>6. CASE /\ relations' = relations \cup {row.key}
             /\ row.original \in relations \ {row.key} /\ op' = [op EXCEPT !.stage = "delete"]
    <3>1. /\ op' \in [kind : {"relations"}, rows : Filled(RelationRow), stage : {"write", "delete"}]
          /\ op'.rows = op.rows
      BY <2>1, <2>6
    <3>2. ReplacementStored' /\ op'.kind # "fill" /\ OpShape'
      BY <2>6, <3>1 DEF ReplacementStored, row, OpShape
    <3>3. QED
      BY <1>0, <1>3, <2>3, <2>4, <2>6, <3>2
  <2>7. CASE relations' = relations \cup {row.key} /\ Advance
    <3>1. OpShape' /\ op'.stage = "write" /\ op'.kind # "fill"
      BY <1>0, <2>1, <2>7, AdvanceShaped, IdleOp
    <3>2. QED
      BY <1>0, <1>3, <2>3, <2>4, <2>7, <3>1 DEF ReplacementStored
  <2>8. QED
    BY <2>3, <2>5, <2>6, <2>7
<1>5. CASE DeleteOriginal
  <2>1. op.kind = "relations" /\ Advance /\ UNCHANGED <<table, edits>> /\ relations' \subseteq relations
    BY <1>5 DEF DeleteOriginal
  <2>2. OpShape' /\ op'.stage = "write" /\ op'.kind # "fill"
    BY <1>0, <2>1, AdvanceShaped, IdleOp
  <2>3. QED
    BY <1>0, <1>3, <2>1, <2>2 DEF ReplacementStored
<1>6. CASE Initialize \/ \E key \in Keys : DeleteRelation(key)
  <2>1. /\ op = Idle /\ op' = Idle /\ relations' \subseteq relations /\ table' \in BOOLEAN
        /\ edits' \in 0..MaxEdits
    <3>1. CASE Initialize
      BY <1>0, <3>1 DEF Initialize
    <3>2. CASE \E key \in Keys : DeleteRelation(key)
      <4>1. PICK key \in Keys : DeleteRelation(key)
        BY <3>2
      <4>2. op = Idle /\ op' = op /\ table' = table /\ relations' = relations \ {key}
        BY <4>1 DEF DeleteRelation
      <4>3. edits' = edits + 1 /\ edits < MaxEdits
        BY <4>1 DEF DeleteRelation
      <4>4. edits' \in 0..MaxEdits
        BY <1>0, <4>3, GovernanceAssumption
      <4>5. QED
        BY <1>0, <4>2, <4>4
    <3>3. QED
      BY <1>6, <3>1, <3>2
  <2>2. QED
    BY <1>0, <1>3, <2>1, IdleOp DEF OpShape, ReplacementStored
<1>7. CASE Fail
  BY <1>0, <1>3, <1>7, IdleOp DEF Fail, OpShape, ReplacementStored
<1>8. QED
  BY <1>4, <1>5, <1>6, <1>7

\* Administrators keep the documents in order.
LEMMA AdministerKeeps ==
  ASSUME GovernanceInv, Administer
  PROVE  GovernanceInv'
BY EntersKeep, WritesKeep, RelationsKeep DEF Administer

\* A relation goes only by request, or when its replacement is stored.
LEMMA RelationGoes ==
  ASSUME GovernanceInv, Administer, NEW k \in relations \ relations'
  PROVE  \/ op = Idle
         \/ Head(op.rows).original = k /\ Head(op.rows).key \in relations'
<1>1. CASE \E key \in Keys : DeleteRelation(key)
  BY <1>1 DEF DeleteRelation
<1>2. CASE DeleteOriginal
  BY <1>2 DEF DeleteOriginal, GovernanceInv, ReplacementStored
<1>3. CASE SaveRelation
  BY <1>3 DEF SaveRelation
<1>4. QED
  BY <1>1, <1>2, <1>3
  DEF Administer, EnterValues, Autofill, EnterRelations, Initialize, WriteValues, WriteFill, Fail

-----------------------------------------------------------------------------
(* The answer.                                                               *)

Ours(track) == IF track = "current" THEN current ELSE background

AnswerShapes ==
  /\ at \in {"asked", "searching", "discovered", "supplementing",
             "selecting", "selected", "answered", "refused"}
  /\ governed \subseteq Docs /\ current \subseteq governed /\ background \subseteq governed
  /\ top_k \in 0..MaxTopK /\ limit \in 0..Policy.maximum_final
  /\ facets \in Seq(AllFacets)
  /\ found \in [Tracks -> Seq(Package)]
  /\ coverage \in [sufficient : BOOLEAN, missing : SUBSET AllFacets]
  /\ final \in Seq(Package)
  /\ first \subseteq Stored /\ \A r \in first : DocOf[r] \in current
  /\ at # "answered" => read = {}
  /\ read \subseteq (IF final = <<>> THEN first ELSE NodesOf(final))

\* What the stages of the answer promise each other: the limits are set with the
\* scope, background is searched only after insufficient coverage, and nothing is
\* selected before the selection.
Stages ==
  /\ at \notin {"asked", "refused"} => 1 <= limit /\ limit <= top_k
  /\ at = "asked" => found = NothingFound /\ first = {} /\ coverage = NoCoverage
  /\ at \in {"asked", "searching", "discovered"} => found["background"] = <<>>
  /\ coverage.sufficient => found["background"] = <<>> /\ at # "supplementing"
  /\ ~Answered => final = <<>>

\* The tracks share no document, and a row that names its document is in its track.
TracksApart ==
  /\ current \cap background = {}
  /\ \A track \in Tracks : \A i \in 1..Len(found[track]) :
       found[track][i].named => DocumentOf(found[track][i]) \in Ours(track)

\* What is in the background is older than something current of its group.
KeptIsNewer ==
  Policy.keep > 0 => \A d \in background : \E e \in current :
    Group(e) = Group(d) /\ Date[e] >= Date[d]

\* What the selection has made of the candidates.
SelectionMade ==
  Answered =>
    /\ Len(final) <= limit /\ DistinctNodes(final)
    /\ \A i \in 1..Len(final) : final[i].named => DocumentOf(final[i]) \in governed
    /\ AllNamed =>
         /\ Selected("background") # {} => ~coverage.sufficient
         /\ Cardinality(Selected("background")) <= MaximumBackground
         /\ found["current"] # <<>> => Selected("current") # {}
         /\ \A d \in Docs : Cardinality(OfDocument(final, d)) <= Policy.per_document
         /\ Len(final) < limit =>
              \A p \in ToSet(found["current"]) :
                \/ \E q \in ToSet(final) : q.node = p.node
                \/ Cardinality(OfDocument(final, DocumentOf(p))) = Policy.per_document

AnswerInv == AnswerShapes /\ Stages /\ TracksApart /\ KeptIsNewer /\ SelectionMade

LEMMA NothingFoundTyped ==
  /\ NothingFound \in [Tracks -> Seq(Package)]
  /\ \A track \in Tracks : NothingFound[track] = <<>>
  /\ "current" \in Tracks /\ "background" \in Tracks
BY DEF NothingFound, Tracks

LEMMA PolicyNumbers ==
  /\ Policy.maximum_final \in Nat /\ Policy.maximum_final >= 1
  /\ Policy.per_track \in Nat /\ Policy.keep \in Nat
  /\ Policy.fraction[1] \in Nat /\ Policy.fraction[2] \in Nat /\ Policy.fraction[2] >= 1
<1>1. Policy.maximum_final \in 1..100 /\ Policy.per_track \in 1..20 /\ Policy.keep \in 0..20
      /\ Policy.fraction \in Nat \X (Nat \ {0})
  BY PolicyAssumption DEF PolicyType
<1>2. QED
  BY <1>1

\* An answer for which nothing was found or selected.
LEMMA NothingYet ==
  ASSUME at \in {"asked", "refused", "searching"}, governed \subseteq Docs,
         current \subseteq governed, background \subseteq governed, current \cap background = {},
         top_k \in 0..MaxTopK, limit \in 0..Policy.maximum_final,
         at = "searching" => 1 <= limit /\ limit <= top_k,
         facets \in Seq(AllFacets), found = NothingFound, first = {}, coverage = NoCoverage,
         final = <<>>, read = {}, KeptIsNewer
  PROVE  AnswerInv
<1>1. AnswerShapes
  BY NothingFoundTyped DEF AnswerShapes, NoCoverage
<1>2. Stages
  BY NothingFoundTyped DEF Stages, NoCoverage
<1>3. TracksApart
  <2>1. \A track \in Tracks : found[track] = <<>> /\ Len(found[track]) = 0
    BY NothingFoundTyped, EmptySeq
  <2>2. QED
    BY <2>1 DEF TracksApart
<1>4. SelectionMade
  BY DEF SelectionMade, Answered
<1>5. QED
  BY <1>1, <1>2, <1>3, <1>4 DEF AnswerInv

LEMMA AnswerStarts ==
  ASSUME Init
  PROVE  AnswerInv
<1>1. /\ at = "asked" /\ governed = {} /\ current = {} /\ background = {} /\ top_k = 0 /\ limit = 0
      /\ facets = <<>> /\ found = NothingFound /\ first = {} /\ coverage = NoCoverage
      /\ final = <<>> /\ read = {}
  BY DEF Init
<1>2. KeptIsNewer /\ 0 \in 0..MaxTopK /\ 0 \in 0..Policy.maximum_final
  BY <1>1, PolicyNumbers DEF KeptIsNewer, MaxTopK
<1>3. QED
  BY <1>1, <1>2, NothingYet

\* The same of the next state.
LEMMA NothingYetNext ==
  ASSUME at' \in {"asked", "refused", "searching"}, governed' \subseteq Docs,
         current' \subseteq governed', background' \subseteq governed', current' \cap background' = {},
         top_k' \in 0..MaxTopK, limit' \in 0..Policy.maximum_final,
         at' = "searching" => 1 <= limit' /\ limit' <= top_k',
         facets' \in Seq(AllFacets), found' = NothingFound, first' = {}, coverage' = NoCoverage,
         final' = <<>>, read' = {}, KeptIsNewer'
  PROVE  AnswerInv'
<1>1. AnswerShapes'
  BY NothingFoundTyped DEF AnswerShapes, NoCoverage
<1>2. Stages'
  BY NothingFoundTyped DEF Stages, NoCoverage
<1>3. TracksApart'
  <2>1. \A track \in Tracks : found'[track] = <<>> /\ Len(found'[track]) = 0
    BY NothingFoundTyped, EmptySeq
  <2>2. QED
    BY <2>1 DEF TracksApart
<1>4. SelectionMade'
  BY DEF SelectionMade, Answered
<1>5. QED
  BY <1>1, <1>2, <1>3, <1>4 DEF AnswerInv

-----------------------------------------------------------------------------
(* The scope.                                                                *)

\* In every group some document has none in front of it, and is the newest.
LEMMA GroupHasNewest ==
  ASSUME NEW scope, scope \subseteq Docs, NEW d \in scope, Recurring(d)
  PROVE  \E e \in scope : /\ Group(e) = Group(d) /\ Date[e] >= Date[d]
                          /\ Cardinality(Newer(e, scope)) = 0
<1> DEFINE ofGroup == {e \in scope : Recurring(e) /\ Group(e) = Group(d)}
           Ahead(e) == Cardinality(Newer(e, scope))
           numbers == {Ahead(e) : e \in ofGroup}
<1>0. \A e \in Docs : Date[e] \in Nat /\ Name[e] \in Nat
  BY StoreAssumption
<1>1. \A e : Newer(e, scope) \subseteq Docs
  BY DEF Newer
<1>2. \A e : IsFiniteSet(Newer(e, scope)) /\ Ahead(e) \in Nat
  BY <1>1, GovernanceAssumption, FS_Subset, FS_CardinalityType
<1>3. PICK e \in ofGroup : \A f \in ofGroup : Ahead(e) <= Ahead(f)
  <2>1. numbers \subseteq Nat /\ numbers # {}
    BY <1>2
  <2>2. PICK m \in numbers : \A n \in numbers : m <= n
    <3> HIDE DEF numbers
    <3> QED BY <2>1, LeastNumber
  <2>3. QED
    BY <2>2
<1>4. Newer(e, scope) = {}
  <2> SUFFICES ASSUME NEW f \in Newer(e, scope) PROVE FALSE
    OBVIOUS
  <2>1. f \in ofGroup /\ e \in Docs /\ f \in Docs
    BY <1>3 DEF Newer
  <2>2. Newer(f, scope) \subseteq Newer(e, scope) \ {f}
    <3> SUFFICES ASSUME NEW g \in Newer(f, scope) PROVE g \in Newer(e, scope) /\ g # f
      OBVIOUS
    <3>1. g \in Docs
      BY <1>1
    <3>2. QED
      BY <1>0, <2>1, <3>1 DEF Newer
  <2>3. Ahead(f) <= Cardinality(Newer(e, scope) \ {f})
    BY <1>2, <2>2, FS_Subset, FS_RemoveElement
  <2>4. Cardinality(Newer(e, scope) \ {f}) = Ahead(e) - 1
    BY <1>2, FS_RemoveElement
  <2>5. Ahead(e) <= Ahead(f)
    BY <1>3, <2>1
  <2> HIDE DEF Ahead
  <2>6. QED
    BY <1>2, <2>3, <2>4, <2>5
<1>5. Cardinality(Newer(e, scope)) = 0
  BY <1>4, FS_EmptySet
<1>6. Date[e] >= Date[d]
  <2>1. d \notin Newer(e, scope)
    BY <1>4
  <2>2. QED
    BY <1>0, <1>3, <2>1 DEF Newer
<1>7. QED
  BY <1>3, <1>5, <1>6

LEMMA WindowsGoverned ==
  ASSUME NEW window \in Windows
  PROVE  InWindow(window) \subseteq Governed /\ Governed \subseteq Docs
<1>1. window.kind \in {"latest_available", "latest_quarter", "dates"}
  BY PlanAssumption DEF WindowType
<1>2. Governed \subseteq Docs
  BY DEF Governed, Effective
<1>3. LatestQuarter \subseteq Governed
  BY DEF LatestQuarter
<1>4. InWindow(window) \subseteq Governed
  <2>1. CASE window.kind = "latest_available"
    BY <2>1 DEF InWindow
  <2>2. CASE window.kind = "latest_quarter"
    BY <1>3, <2>2 DEF InWindow
  <2>3. CASE window.kind = "dates"
    BY <2>3 DEF InWindow
  <2>4. QED
    BY <1>1, <2>1, <2>2, <2>3
<1>5. QED
  BY <1>2, <1>4

LEMMA BetweenTyped ==
  ASSUME NEW low \in Int, NEW high \in Int, NEW n \in Int, low <= high
  PROVE  /\ Between(low, high, n) \in low..high
         /\ n >= low => Between(low, high, n) <= n
<1> DEFINE m == Min({high, n})
<1>1. m = IF high <= n THEN high ELSE n
  BY MinOfTwo
<1> HIDE DEF m
<1>2. m \in Int
  BY <1>1
<1>3. Max({low, m}) = IF low >= m THEN low ELSE m
  BY <1>2, MaxOfTwo
<1>4. Between(low, high, n) = Max({low, m})
  BY DEF Between, m
<1>5. QED
  BY <1>1, <1>2, <1>3, <1>4

\* The plan is a sequence of its facets.
LEMMA FacetsTyped ==
  /\ Facets \in Seq(AllFacets) /\ Discovered \in Seq(AllFacets)
  /\ Facets # <<>> /\ Facets \o Discovered \in Seq(AllFacets)
<1>1. ToSet(Facets) \subseteq AllFacets /\ ToSet(Discovered) \subseteq AllFacets
  BY DEF AllFacets
<1>2. Facets \in Seq(AllFacets) /\ Discovered \in Seq(AllFacets) /\ Facets # <<>>
  BY <1>1, PlanAssumption
<1>3. QED
  BY <1>2, ConcatProperties

LEMMA ScopeKeeps ==
  ASSUME AnswerInv, NEW window \in Windows, NEW requested \in Requests, Scope(window, requested)
  PROVE  AnswerInv'
<1> DEFINE scope == InWindow(window)
           older == Periodic(scope)
<1>1. /\ current' = IF scope = older THEN older ELSE scope \ older
      /\ background' = IF scope = older THEN {} ELSE older
      /\ at' \in {"refused", "searching"} /\ governed' = Governed
      /\ facets' = Facets /\ UNCHANGED <<found, first, coverage, final, read>>
  BY DEF Scope
<1>2. top_k' = Between(1, MaxTopK, requested) /\ limit' = Between(1, Policy.maximum_final, top_k')
  BY DEF Scope, FinalLimit
<1>3. scope \subseteq Governed /\ Governed \subseteq Docs /\ older \subseteq scope
  BY WindowsGoverned DEF Periodic
<1> HIDE DEF scope
<1>4. top_k' \in 1..MaxTopK /\ limit' \in 1..Policy.maximum_final /\ limit' <= top_k'
  <2>1. requested \in Int /\ 1 <= MaxTopK /\ MaxTopK \in Int
    BY PlanAssumption DEF MaxTopK
  <2>2. top_k' \in 1..MaxTopK
    BY <1>2, <2>1, BetweenTyped
  <2>3. top_k' \in Int /\ top_k' >= 1
    BY <2>1, <2>2
  <2>4. ASSUME NEW n \in Int, n >= 1
        PROVE  /\ Between(1, Policy.maximum_final, n) \in 1..Policy.maximum_final
               /\ Between(1, Policy.maximum_final, n) <= n
    <3> DEFINE high == Policy.maximum_final
    <3>1. high \in Int /\ 1 <= high
      BY PolicyNumbers
    <3> HIDE DEF high
    <3>2. /\ Between(1, high, n) \in 1..high
          /\ Between(1, high, n) <= n
      BY <2>4, <3>1, BetweenTyped
    <3>3. QED
      BY <3>2 DEF high
  <2>5. QED
    BY <1>2, <2>2, <2>3, <2>4
<1>5. KeptIsNewer'
  <2> SUFFICES ASSUME Policy.keep > 0, NEW d \in background'
               PROVE  \E e \in current' : Group(e) = Group(d) /\ Date[e] >= Date[d]
    BY DEF KeptIsNewer, Group
  <2>1. scope # older /\ d \in older /\ d \in scope /\ current' = scope \ older
    BY <1>1, <1>3
  <2>2. PICK e \in scope : /\ Group(e) = Group(d) /\ Date[e] >= Date[d]
                           /\ Cardinality(Newer(e, scope)) = 0
    <3>1. scope \subseteq Docs /\ Recurring(d)
      BY <1>3, <2>1 DEF Periodic
    <3>2. QED
      BY <2>1, <3>1, GroupHasNewest
  <2>3. e \notin older
    BY <2>2, PolicyNumbers DEF Periodic
  <2>4. QED
    BY <2>1, <2>2, <2>3
<1>6. final = <<>> /\ read = {} /\ found = NothingFound /\ first = {} /\ coverage = NoCoverage
  <2>1. at = "asked"
    BY DEF Scope
  <2>2. QED
    BY <2>1 DEF AnswerInv, Stages, Answered, AnswerShapes
<1> HIDE DEF older
<1>7. /\ governed' \subseteq Docs /\ current' \subseteq governed' /\ background' \subseteq governed'
      /\ current' \cap background' = {}
  BY <1>1, <1>3
<1>8. top_k' \in 0..MaxTopK /\ limit' \in 0..Policy.maximum_final /\ 1 <= limit' /\ limit' <= top_k'
  BY <1>4, PolicyNumbers DEF MaxTopK
<1>9. /\ at' \in {"asked", "refused", "searching"} /\ facets' \in Seq(AllFacets)
      /\ found' = NothingFound /\ first' = {} /\ coverage' = NoCoverage /\ final' = <<>> /\ read' = {}
  BY <1>1, <1>6, FacetsTyped
<1>10. QED
  BY <1>5, <1>7, <1>8, <1>9, NothingYetNext

-----------------------------------------------------------------------------
(* The searches.                                                             *)

\* The candidates of a search are packages, and those that name their document
\* are in the filter.
LEMMA MarkTyped ==
  ASSUME NEW docs, NEW hits \in Results(docs), NEW facet \in AllFacets
  PROVE  /\ Mark(hits, facet) \in Seq(Package)
         /\ \A i \in 1..Len(Mark(hits, facet)) :
              Mark(hits, facet)[i].named => DocumentOf(Mark(hits, facet)[i]) \in docs
         /\ \A hit \in ToSet(hits) : hit.from \in Inside(docs)
<1>1. PICK n \in 0..Policy.per_track : hits \in [1..n -> Hits(docs)]
  BY DEF Results
<1>2. n \in Nat /\ Len(hits) = n /\ DOMAIN hits = 1..n
  BY <1>1, PolicyNumbers
<1>3. \A hit \in Hits(docs) : /\ hit.from \in Inside(docs) /\ hit.node \in Nodes /\ hit.named \in BOOLEAN
                              /\ hit.named => DocOf[hit.node] \in docs
  <2> SUFFICES ASSUME NEW hit \in Hits(docs)
               PROVE  /\ hit.from \in Inside(docs) /\ hit.node \in Nodes /\ hit.named \in BOOLEAN
                      /\ hit.named => DocOf[hit.node] \in docs
    OBVIOUS
  <2>1. PICK r \in Inside(docs) :
          hit \in {[from |-> r, node |-> n1, named |-> TRUE] : n1 \in Own(r)}
                   \cup {[from |-> r, node |-> n1, named |-> FALSE] : n1 \in Others(r)}
    BY DEF Hits
  <2>2. CASE hit \in {[from |-> r, node |-> n1, named |-> TRUE] : n1 \in Own(r)}
    <3>1. PICK m \in Own(r) : hit = [from |-> r, node |-> m, named |-> TRUE]
      BY <2>2
    <3>2. m \in Nodes /\ DocOf[m] = DocOf[r]
      BY DEF Own
    <3>3. hit.from = r /\ hit.node = m /\ hit.named = TRUE /\ DocOf[r] \in docs
      BY <3>1 DEF Inside
    <3>4. QED
      BY <3>2, <3>3
  <2>3. CASE hit \in {[from |-> r, node |-> n1, named |-> FALSE] : n1 \in Others(r)}
    <3>1. PICK m \in Others(r) : hit = [from |-> r, node |-> m, named |-> FALSE]
      BY <2>3
    <3>2. m \in Nodes
      BY DEF Others
    <3>3. hit.from = r /\ hit.node = m /\ hit.named = FALSE
      BY <3>1
    <3>4. QED
      BY <3>2, <3>3
  <2>4. QED
    BY <2>1, <2>2, <2>3
<1> DEFINE q == Mark(hits, facet)
<1>4. q = [i \in 1..n |-> [node |-> hits[i].node, named |-> hits[i].named,
                           rank |-> i, facets |-> {facet}]]
  BY <1>2 DEF Mark
<1> HIDE DEF q
<1>5. \A i \in 1..n : /\ q[i].named => DocOf[q[i].node] \in docs
                      /\ q[i] \in Package
  <2> SUFFICES ASSUME NEW i \in 1..n
               PROVE  /\ q[i].named => DocOf[q[i].node] \in docs
                      /\ q[i] \in Package
    OBVIOUS
  <2>1. q[i] = [node |-> hits[i].node, named |-> hits[i].named, rank |-> i, facets |-> {facet}]
    BY <1>4
  <2>2. hits[i] \in Hits(docs)
    BY <1>1
  <2>3. /\ hits[i].node \in Nodes /\ hits[i].named \in BOOLEAN
        /\ hits[i].named => DocOf[hits[i].node] \in docs
    BY <1>3, <2>2
  <2>4. QED
    BY <2>1, <2>3 DEF Package
<1>6. q \in [1..n -> Package]
  BY <1>4, <1>5
<1>7. q \in Seq(Package) /\ Len(q) = n
  BY <1>2, <1>6
<1>8. \A hit \in ToSet(hits) : hit.from \in Inside(docs)
  <2> SUFFICES ASSUME NEW hit \in ToSet(hits) PROVE hit.from \in Inside(docs)
    OBVIOUS
  <2>1. PICK i \in DOMAIN hits : hit = hits[i]
    BY DEF ToSet
  <2>2. hits[i] \in Hits(docs)
    BY <1>1, <1>2, <2>1
  <2>3. QED
    BY <1>3, <2>1, <2>2
<1>9. QED
  BY <1>5, <1>7, <1>8 DEF q, DocumentOf

LEMMA SearchFinds ==
  ASSUME AnswerInv, NEW track \in Tracks, NEW hits, NEW lost,
         Search(track, Ours(track), hits, lost)
  PROVE  /\ facets' \in Seq(AllFacets) /\ found' \in [Tracks -> Seq(Package)]
         /\ \A other \in Tracks \ {track} : found'[other] = found[other]
         /\ \A i \in 1..Len(found'[track]) :
              found'[track][i].named => DocumentOf(found'[track][i]) \in Ours(track)
         /\ RowsOf(hits, lost) \subseteq Inside(Ours(track))
<1>1. facets \in Seq(AllFacets) /\ found \in [Tracks -> Seq(Package)]
  BY DEF AnswerInv, AnswerShapes
<1>2. /\ facets # <<>> /\ hits \in Results(Ours(track)) /\ lost \subseteq Unmatched(Ours(track))
      /\ found' = [found EXCEPT ![track] = found[track] \o Mark(hits, Head(facets))]
      /\ facets' = Tail(facets)
  BY DEF Search
<1>3. Head(facets) \in AllFacets /\ facets' \in Seq(AllFacets)
  BY <1>1, <1>2, HeadTailProperties
<1> DEFINE q == Mark(hits, Head(facets))
<1>4. /\ q \in Seq(Package)
      /\ \A i \in 1..Len(q) : q[i].named => DocumentOf(q[i]) \in Ours(track)
      /\ \A hit \in ToSet(hits) : hit.from \in Inside(Ours(track))
  BY <1>2, <1>3, MarkTyped
<1> HIDE DEF q
<1> DEFINE p == found[track]
<1>5. p \in Seq(Package) /\ \A i \in 1..Len(p) : p[i].named => DocumentOf(p[i]) \in Ours(track)
  BY <1>1 DEF AnswerInv, TracksApart
<1>6. found' = [found EXCEPT ![track] = p \o q]
  BY <1>2 DEF q
<1> HIDE DEF p
<1>7. p \o q \in Seq(Package) /\ Len(p \o q) = Len(p) + Len(q)
      /\ Len(p) \in Nat /\ Len(q) \in Nat
      /\ \A i \in 1..(Len(p) + Len(q)) :
           (p \o q)[i] = IF i <= Len(p) THEN p[i] ELSE q[i - Len(p)]
  BY <1>4, <1>5, ConcatProperties, LenProperties
<1>8. \A i \in 1..Len(p \o q) : (p \o q)[i].named => DocumentOf((p \o q)[i]) \in Ours(track)
  <2> SUFFICES ASSUME NEW i \in 1..(Len(p) + Len(q)), (p \o q)[i].named
               PROVE  DocumentOf((p \o q)[i]) \in Ours(track)
    BY <1>7
  <2>1. CASE i <= Len(p)
    <3>1. i \in 1..Len(p) /\ (p \o q)[i] = p[i]
      BY <1>7, <2>1
    <3>2. QED
      BY <1>5, <3>1
  <2>2. CASE ~(i <= Len(p))
    <3>1. i - Len(p) \in 1..Len(q) /\ (p \o q)[i] = q[i - Len(p)]
      BY <1>7, <2>2
    <3>2. QED
      BY <1>4, <3>1
  <2>3. QED
    BY <2>1, <2>2
<1>9. RowsOf(hits, lost) \subseteq Inside(Ours(track))
  <2>1. \A hit \in ToSet(hits) : hit.from \in Inside(Ours(track))
    BY <1>4
  <2>2. lost \subseteq Inside(Ours(track))
    BY <1>2 DEF Unmatched
  <2>3. QED
    BY <2>1, <2>2 DEF RowsOf
<1>10. QED
  BY <1>1, <1>3, <1>6, <1>7, <1>8, <1>9

LEMMA SearchesKeep ==
  ASSUME AnswerInv,
         \/ \E hits \in Results(current), lost \in SUBSET Unmatched(current) : SearchCurrent(hits, lost)
         \/ \E hits \in Results(background), lost \in SUBSET Unmatched(background) :
              SearchBackground(hits, lost)
  PROVE  AnswerInv'
<1> DEFINE Step(track, hits, lost) ==
             /\ Search(track, Ours(track), hits, lost)
             /\ \/ /\ track = "current" /\ at \in {"searching", "discovered"} /\ at' = at
                   /\ first' \in {first, RowsOf(hits, lost)}
                \/ /\ track = "background" /\ at = "supplementing" /\ first' = first
                   /\ at' \in {"supplementing", "selecting"}
<1>1. \E track \in Tracks : \E hits, lost : Step(track, hits, lost)
  <2>1. ASSUME NEW hits, NEW lost, SearchCurrent(hits, lost)
        PROVE  Step("current", hits, lost)
    BY <2>1 DEF SearchCurrent, Ours
  <2>2. ASSUME NEW hits, NEW lost, SearchBackground(hits, lost)
        PROVE  Step("background", hits, lost)
    BY <2>2 DEF SearchBackground, Ours
  <2>3. "current" \in Tracks /\ "background" \in Tracks
    BY DEF Tracks
  <2> HIDE DEF Step
  <2>4. QED
    BY <2>1, <2>2, <2>3
<1>2. UNCHANGED <<governed, current, background, top_k, limit, coverage, final, read>>
  BY DEF SearchCurrent, SearchBackground
<1>3. PICK track \in Tracks : \E hits, lost : Step(track, hits, lost)
  BY <1>1
<1>4. /\ facets' \in Seq(AllFacets) /\ found' \in [Tracks -> Seq(Package)]
      /\ \A other \in Tracks \ {track} : found'[other] = found[other]
      /\ \A i \in 1..Len(found'[track]) :
           found'[track][i].named => DocumentOf(found'[track][i]) \in Ours(track)
      /\ first' = first \/ (track = "current" /\ first' \subseteq Inside(current))
  BY <1>3, SearchFinds DEF Ours
<1>5. track \in {"current", "background"} /\ Tracks = {"current", "background"}
  BY DEF Tracks
<1>6. AnswerShapes'
  <2>1. read = {} /\ at' # "answered"
    BY <1>3 DEF AnswerInv, AnswerShapes
  <2>2. first' \subseteq Stored /\ \A r \in first' : DocOf[r] \in current
    BY <1>4 DEF AnswerInv, AnswerShapes, Inside
  <2>3. at' \in {"searching", "discovered", "supplementing", "selecting"}
    BY <1>3
  <2> HIDE DEF Step
  <2>4. QED
    BY <1>2, <1>4, <2>1, <2>2, <2>3 DEF AnswerInv, AnswerShapes
<1>7. Stages'
  <2>1. track = "current" => found'["background"] = found["background"]
    BY <1>4, <1>5
  <2>2. CASE track = "current"
    BY <1>2, <1>3, <2>1, <2>2 DEF AnswerInv, Stages, Answered
  <2>3. CASE track = "background"
    BY <1>2, <1>3, <2>3 DEF AnswerInv, Stages, Answered
  <2>4. QED
    BY <1>5, <2>2, <2>3
<1>8. TracksApart'
  <2>1. \A other \in Tracks : Ours(other)' = Ours(other)
    BY <1>2 DEF Ours
  <2>2. ASSUME NEW other \in Tracks, NEW i \in 1..Len(found'[other]), found'[other][i].named
        PROVE  DocumentOf(found'[other][i]) \in Ours(other)
    BY <1>4, <2>2 DEF AnswerInv, TracksApart
  <2>3. QED
    BY <1>2, <2>1, <2>2 DEF AnswerInv, TracksApart
<1>9. KeptIsNewer' /\ SelectionMade'
  BY <1>2, <1>3, <1>5 DEF AnswerInv, KeptIsNewer, SelectionMade, Answered
<1>10. QED
  BY <1>6, <1>7, <1>8, <1>9 DEF AnswerInv

-----------------------------------------------------------------------------
(* Discovery, coverage, the reply and its failures.                          *)

\* What only changes how far the answer is and what is to be searched keeps the
\* tracks and the documents.
LEMMA NothingFoundAnew ==
  ASSUME AnswerInv, UNCHANGED <<governed, current, background, found>>
  PROVE  TracksApart' /\ KeptIsNewer'
<1>1. \A track \in Tracks : Ours(track)' = Ours(track)
  BY DEF Ours
<1>2. TracksApart'
  BY <1>1 DEF AnswerInv, TracksApart
<1>3. QED
  BY <1>2 DEF AnswerInv, KeptIsNewer

LEMMA OpenFacetsTyped ==
  ASSUME NEW missing
  PROVE  OpenFacets(missing) \in Seq(AllFacets)
<1>1. PICK G : Run("open", missing, Facets, OpenFacets(missing), G)
  BY OpenRuns
<1> DEFINE n == Len(Facets)
           S == {k \in 0..n : G[k] \in Seq(AllFacets)}
<1>2. n \in Nat /\ \A k \in 1..n : Facets[k] \in AllFacets
  BY FacetsTyped, LenProperties, ElementOfSeq
<1> HIDE DEF n
<1>3. 0 \in S
  <2>1. G[0] = <<>>
    BY <1>1 DEF Run
  <2>2. G[0] \in Seq(AllFacets)
    BY <2>1, EmptySeq
  <2>3. 0 \in 0..n
    BY <1>2
  <2>4. QED
    BY <2>2, <2>3
<1>4. \A k \in 1..n : k - 1 \in S => k \in S
  <2> SUFFICES ASSUME NEW k \in 1..n, k - 1 \in S PROVE k \in S
    OBVIOUS
  <2>1. G[k] = LeaveOpen(missing, G[k - 1], Facets[k])
    BY <1>1 DEF Run, Turn, n
  <2>2. G[k] \in Seq(AllFacets)
    BY <1>2, <2>1 DEF LeaveOpen
  <2>3. QED
    BY <1>2, <2>2
<1>5. n \in S
  <2> HIDE DEF S
  <2> QED BY <1>2, <1>3, <1>4, UpTo
<1>6. QED
  BY <1>1, <1>5 DEF Run, n

LEMMA DiscoverKeeps ==
  ASSUME AnswerInv, NEW more, Discover(more)
  PROVE  AnswerInv'
<1>1. /\ at = "searching" /\ at' = "discovered" /\ facets' \in {Discovered, <<>>}
      /\ UNCHANGED <<governed, current, background, top_k, limit, found, first, coverage, final, read>>
  BY DEF Discover
<1>2. AnswerShapes'
  <2>1. facets' \in Seq(AllFacets)
    BY <1>1, FacetsTyped, EmptySeq
  <2>2. QED
    BY <1>1, <2>1 DEF AnswerInv, AnswerShapes, NodesOf
<1>3. Stages' /\ SelectionMade'
  BY <1>1 DEF AnswerInv, Stages, SelectionMade, Answered
<1>4. QED
  BY <1>1, <1>2, <1>3, NothingFoundAnew DEF AnswerInv

LEMMA CoverTyped ==
  ASSUME NEW packages
  PROVE  Cover(packages) \in [sufficient : BOOLEAN, missing : SUBSET AllFacets]
<1> DEFINE missing == {f \in ToSet(Facets) : ~(Required[f] \subseteq Text(NodesOf(packages)).terms)}
           enough == /\ missing = {}
                     /\ Len(packages) >= Policy.minimum_packages
                     /\ Cardinality({DocOf[n] : n \in NodesOf(packages)}) >= Policy.minimum_documents
                     /\ Text(NodesOf(packages)).size >= Policy.minimum_characters
<1>1. Cover(packages) = [missing |-> missing, sufficient |-> enough]
  BY DEF Cover
<1>2. missing \in SUBSET AllFacets
  BY DEF AllFacets
<1>3. enough \in BOOLEAN
  OBVIOUS
<1> HIDE DEF missing, enough
<1>4. QED
  BY <1>1, <1>2, <1>3

LEMMA EvaluateKeeps ==
  ASSUME AnswerInv, NEW extended, Evaluate(extended)
  PROVE  AnswerInv'
<1>1. /\ at = "discovered"
      /\ coverage' = Cover(Diversify(RankedCurrent, limit))
      /\ at' \in {"selecting", "supplementing"}
      /\ coverage'.sufficient => at' = "selecting"
      /\ facets' \in {<<>>, BackgroundFacets(coverage'.missing, extended)}
      /\ UNCHANGED <<governed, current, background, top_k, limit, found, first, final, read>>
  BY DEF Evaluate
<1>2. coverage' \in [sufficient : BOOLEAN, missing : SUBSET AllFacets]
  BY <1>1, CoverTyped
<1>3. BackgroundFacets(coverage'.missing, extended) \in Seq(AllFacets)
  <2> DEFINE open == OpenFacets(coverage'.missing)
  <2>1. open \in Seq(AllFacets)
    BY OpenFacetsTyped
  <2>2. BackgroundFacets(coverage'.missing, extended) \in {open, Facets \o Discovered, Facets}
    BY DEF BackgroundFacets
  <2> HIDE DEF open
  <2>3. QED
    BY <2>1, <2>2, FacetsTyped
<1>4. facets' \in Seq(AllFacets)
  BY <1>1, <1>3, EmptySeq
<1>5. AnswerShapes'
  BY <1>1, <1>2, <1>4 DEF AnswerInv, AnswerShapes, NodesOf
<1>6. Stages' /\ SelectionMade'
  BY <1>1 DEF AnswerInv, Stages, SelectionMade, Answered
<1>7. QED
  BY <1>1, <1>5, <1>6, NothingFoundAnew DEF AnswerInv

LEMMA ReplyKeeps ==
  ASSUME AnswerInv, \E rows \in SUBSET Stored : Answer(rows)
  PROVE  AnswerInv'
<1>1. /\ at = "selected" /\ at' = "answered"
      /\ read' \subseteq (IF final = <<>> THEN first ELSE NodesOf(final))
      /\ UNCHANGED <<governed, current, background, top_k, limit, facets, found, first, coverage, final>>
  BY DEF Answer, ResponseRows, Lock
<1>2. AnswerShapes'
  BY <1>1 DEF AnswerInv, AnswerShapes, NodesOf
<1>3. Stages'
  BY <1>1 DEF AnswerInv, Stages, Answered
<1>4. SelectionMade'
  BY <1>1 DEF AnswerInv, SelectionMade, Answered, AllNamed, Selected, DistinctNodes, OfDocument,
     DocumentOf, MaximumBackground
<1>5. QED
  BY <1>1, <1>2, <1>3, <1>4, NothingFoundAnew DEF AnswerInv

LEMMA RefuseKeeps ==
  ASSUME Refuse
  PROVE  AnswerInv'
<1>1. /\ at' = "refused" /\ governed' = {} /\ current' = {} /\ background' = {} /\ top_k' = 0
      /\ limit' = 0 /\ facets' = <<>> /\ found' = NothingFound /\ first' = {}
      /\ coverage' = NoCoverage /\ final' = <<>> /\ read' = {}
  BY DEF Refuse
<1>2. KeptIsNewer' /\ 0 \in 0..MaxTopK /\ 0 \in 0..Policy.maximum_final
  BY <1>1, PolicyNumbers DEF KeptIsNewer, MaxTopK
<1>3. QED
  BY <1>1, <1>2, NothingYetNext

-----------------------------------------------------------------------------
(* The selection.                                                            *)

LEMMA RoundedTyped ==
  ASSUME NEW n \in Nat, NEW d \in Nat, d >= 1
  PROVE  Rounded(n, d) \in Int
<1> DEFINE q == n \div d
<1>1. q \in Int
  OBVIOUS
<1> HIDE DEF q
<1>2. q + 1 \in Int
  BY <1>1
<1>3. Rounded(n, d) \in {q, q + 1}
  BY DEF Rounded, q
<1>4. QED
  BY <1>1, <1>2, <1>3

\* The background may have a place.
LEMMA BackgroundShare ==
  ASSUME limit \in Nat
  PROVE  MaximumBackground \in Int /\ MaximumBackground >= 1
<1>1. ASSUME NEW m \in Nat, NEW n \in Nat PROVE m * n \in Nat
  OBVIOUS
<1> DEFINE r == Rounded(limit * Policy.fraction[1], Policy.fraction[2])
<1>2. r \in Int
  BY <1>1, PolicyNumbers, RoundedTyped
<1> HIDE DEF r
<1>3. Max({1, r}) = IF 1 >= r THEN 1 ELSE r
  BY <1>2, MaxOfTwo
<1>4. MaximumBackground = Max({1, r})
  BY DEF MaximumBackground, r
<1>5. QED
  BY <1>2, <1>3, <1>4

LEMMA PackagesCounted ==
  ASSUME NEW packages \in Seq(Package)
  PROVE  IsFiniteSet(ToSet(packages)) /\ Cardinality(ToSet(packages)) <= Len(packages)
<1> DEFINE n == Len(packages)
           f == [i \in 1..n |-> packages[i]]
<1>1. n \in Nat /\ DOMAIN packages = 1..n
  BY DocumentsOfPackages
<1> HIDE DEF n
<1>2. f \in Surjection(1..n, ToSet(packages))
  BY <1>1 DEF ToSet, Surjection
<1>3. IsFiniteSet(1..n) /\ Cardinality(1..n) = n
  BY <1>1, FS_Interval
<1> HIDE DEF f
<1>4. IsFiniteSet(ToSet(packages)) /\ Cardinality(ToSet(packages)) <= n
  BY <1>2, <1>3, FS_Surjection
<1>5. QED
  BY <1>4 DEF n

\* Packages of documents in S, followed by packages of documents in T.
LEMMA JoinedPackages ==
  ASSUME NEW a \in Seq(Package), NEW b \in Seq(Package)
  PROVE  /\ a \o b \in Seq(Package) /\ Len(a) \in Nat /\ Len(b) \in Nat
         /\ Len(a \o b) = Len(a) + Len(b)
         /\ \A i \in 1..Len(a) : i \in 1..Len(a \o b) /\ (a \o b)[i] = a[i]
         /\ \A i \in 1..Len(b) :
              Len(a) + i \in 1..Len(a \o b) /\ (a \o b)[Len(a) + i] = b[i]
         /\ \A i \in 1..Len(a \o b) : \/ i \in 1..Len(a)
                                      \/ i - Len(a) \in 1..Len(b) /\ i = Len(a) + (i - Len(a))
<1>1. /\ a \o b \in Seq(Package) /\ Len(a) \in Nat /\ Len(b) \in Nat
      /\ Len(a \o b) = Len(a) + Len(b)
      /\ \A i \in 1..(Len(a) + Len(b)) : (a \o b)[i] = IF i <= Len(a) THEN a[i] ELSE b[i - Len(a)]
  BY ConcatProperties, LenProperties
<1>2. QED
  BY <1>1

Within(packages, docs) == {p \in ToSet(packages) : DocumentOf(p) \in docs}

\* Packages that may be selected together, and those of some documents.
Diverse(packages) ==
  /\ packages \in Seq(Package) /\ DistinctNodes(packages)
  /\ \A d : Cardinality(OfDocument(packages, d)) <= Policy.per_document
AllWithin(packages, docs) == \A i \in 1..Len(packages) : DocumentOf(packages[i]) \in docs

LEMMA JoinedTracks ==
  ASSUME NEW a, Diverse(a), NEW b, Diverse(b), NEW S, NEW T, S \cap T = {},
         AllWithin(a, S), AllWithin(b, T)
  PROVE  LET joined == a \o b IN
         /\ Diverse(joined)
         /\ \A d \in S : OfDocument(joined, d) = OfDocument(a, d)
         /\ Within(joined, S) = ToSet(a) /\ Within(joined, T) = ToSet(b)
<1> DEFINE joined == a \o b
           m == Len(a)
           n == Len(b)
<1>0. /\ a \in Seq(Package) /\ b \in Seq(Package) /\ DistinctNodes(a) /\ DistinctNodes(b)
      /\ \A d : Cardinality(OfDocument(a, d)) <= Policy.per_document
      /\ \A d : Cardinality(OfDocument(b, d)) <= Policy.per_document
  BY DEF Diverse
<1>1. /\ joined \in Seq(Package) /\ m \in Nat /\ n \in Nat
      /\ Len(joined) = m + n
      /\ \A i \in 1..m : i \in 1..Len(joined) /\ joined[i] = a[i]
      /\ \A i \in 1..n : m + i \in 1..Len(joined) /\ joined[m + i] = b[i]
      /\ \A i \in 1..Len(joined) : i \in 1..m \/ (i - m \in 1..n /\ i = m + (i - m))
  BY <1>0, JoinedPackages
<1>2. DOMAIN a = 1..m /\ DOMAIN b = 1..n /\ DOMAIN joined = 1..Len(joined)
  BY <1>0, <1>1, DocumentsOfPackages
<1>3. /\ \A i \in 1..m : DocumentOf(a[i]) \in S /\ DocumentOf(a[i]) \notin T
      /\ \A i \in 1..n : DocumentOf(b[i]) \in T /\ DocumentOf(b[i]) \notin S
  BY DEF AllWithin
<1> HIDE DEF joined, m, n
<1>4. \A i \in 1..Len(joined) :
        \/ i \in 1..m /\ joined[i] = a[i] /\ DocumentOf(joined[i]) \in S /\ DocumentOf(joined[i]) \notin T
        \/ /\ i - m \in 1..n /\ joined[i] = b[i - m]
           /\ DocumentOf(joined[i]) \in T /\ DocumentOf(joined[i]) \notin S
  <2> TAKE i \in 1..Len(joined)
  <2>1. CASE i \in 1..m
    BY <1>1, <1>3, <2>1
  <2>2. CASE i - m \in 1..n /\ i = m + (i - m)
    <3>1. joined[i] = b[i - m]
      BY <1>1, <2>2
    <3>2. QED
      BY <1>3, <2>2, <3>1
  <2>3. QED
    BY <1>1, <2>1, <2>2
<1>5. DistinctNodes(joined)
  <2> SUFFICES ASSUME NEW i \in 1..Len(joined), NEW j \in 1..Len(joined),
                      joined[i].node = joined[j].node
               PROVE  i = j
    BY DEF DistinctNodes
  <2>1. DocumentOf(joined[i]) = DocumentOf(joined[j])
    BY DEF DocumentOf
  <2>2. CASE i \in 1..m /\ j \in 1..m /\ joined[i] = a[i] /\ joined[j] = a[j]
    BY <1>0, <2>2 DEF DistinctNodes, m
  <2>3. CASE i - m \in 1..n /\ j - m \in 1..n /\ joined[i] = b[i - m] /\ joined[j] = b[j - m]
    <3>1. i - m = j - m
      BY <1>0, <2>3 DEF DistinctNodes, n
    <3>2. QED
      BY <1>1, <3>1
  <2>4. QED
    BY <1>4, <2>1, <2>2, <2>3
<1>6. \A d \in S : OfDocument(joined, d) = OfDocument(a, d)
  <2> SUFFICES ASSUME NEW d \in S
               PROVE  \A i : i \in OfDocument(joined, d) <=> i \in OfDocument(a, d)
    BY Zenon DEF OfDocument
  <2>1. ASSUME NEW i \in OfDocument(joined, d) PROVE i \in OfDocument(a, d)
    BY <1>2, <1>4 DEF OfDocument
  <2>2. ASSUME NEW i \in OfDocument(a, d) PROVE i \in OfDocument(joined, d)
    BY <1>1, <1>2 DEF OfDocument
  <2>3. QED
    BY <2>1, <2>2
<1>7. ASSUME NEW d PROVE Cardinality(OfDocument(joined, d)) <= Policy.per_document
  <2>1. CASE d \in S
    BY <1>0, <1>6, <2>1
  <2>2. CASE d \notin S
    <3> DEFINE X == OfDocument(joined, d)
               Y == OfDocument(b, d)
               f == [i \in X |-> i - m]
    <3>1. \A i \in X : i - m \in Y /\ i \in Int
      BY <1>1, <1>2, <1>4, <2>2 DEF OfDocument
    <3>2. IsFiniteSet(X) /\ Cardinality(X) \in Nat
      BY <1>1, CountsOfDocuments
    <3>3. IsFiniteSet(Y) /\ Cardinality(Y) \in Nat /\ Cardinality(Y) <= Policy.per_document
      BY <1>0, CountsOfDocuments
    <3> HIDE DEF X, Y
    <3>4. f \in Injection(X, Y)
      BY <1>1, <3>1 DEF Injection, IsInjective
    <3> HIDE DEF f
    <3>5. Cardinality(X) <= Cardinality(Y)
      BY <3>3, <3>4, FS_Injection
    <3>6. QED
      BY <3>2, <3>3, <3>5, PerDocument DEF X
  <2>3. QED
    BY <2>1, <2>2
<1>8. Within(joined, S) = ToSet(a) /\ Within(joined, T) = ToSet(b)
  <2>1. ASSUME NEW i \in 1..Len(joined)
        PROVE  /\ DocumentOf(joined[i]) \in S => joined[i] \in ToSet(a)
               /\ DocumentOf(joined[i]) \in T => joined[i] \in ToSet(b)
    BY <1>2, <1>4 DEF ToSet
  <2>2. ASSUME NEW i \in 1..m PROVE a[i] \in ToSet(joined) /\ DocumentOf(a[i]) \in S
    BY <1>1, <1>2, <1>3 DEF ToSet
  <2>3. ASSUME NEW i \in 1..n PROVE b[i] \in ToSet(joined) /\ DocumentOf(b[i]) \in T
    <3>1. b[i] = joined[m + i] /\ m + i \in DOMAIN joined
      BY <1>1, <1>2
    <3>2. QED
      BY <1>3, <3>1 DEF ToSet
  <2>4. QED
    BY <1>2, <2>1, <2>2, <2>3 DEF ToSet, Within
<1>9. QED
  BY <1>1, <1>5, <1>6, <1>7, <1>8 DEF joined, Diverse

\* What the two tracks give to the answer.
Candidates(track) == Rerank(found[track], track = "current")
Supplement(places) ==
  /\ places \in Seq(Package) /\ DistinctNodes(places)
  /\ Len(places) <= MaximumBackground /\ Len(places) <= limit
  /\ Candidates("current") # <<>> => Len(places) <= limit - 1
  /\ \A i \in 1..Len(places) : \E j \in 1..Len(Candidates("background")) :
       places[i] = Candidates("background")[j]
  /\ \A d : Cardinality(OfDocument(places, d)) <= Policy.per_document

\* The current packages that fit beside a supplement.
Chosen(supplement) == Diversify(Candidates("current"), PlacesLeft(supplement))

LEMMA CandidatesTyped ==
  ASSUME AnswerInv, NEW track \in Tracks
  PROVE  /\ Candidates(track) \in Seq(Package) /\ DistinctNodes(Candidates(track))
         /\ found[track] \in Seq(Package)
         /\ ComeFrom(Candidates(track), found[track]) /\ HaveNodesOf(Candidates(track), found[track])
<1>1. found[track] \in Seq(Package)
  BY DEF AnswerInv, AnswerShapes
<1>2. (track = "current") \in BOOLEAN
  OBVIOUS
<1>3. QED
  BY <1>1, <1>2, Reranked DEF Candidates

\* There are candidates if anything was found.
LEMMA CandidatesIfFound ==
  ASSUME AnswerInv, NEW track \in Tracks
  PROVE  Candidates(track) = <<>> <=> found[track] = <<>>
<1> DEFINE c == Candidates(track)
           f == found[track]
<1>1. c \in Seq(Package) /\ f \in Seq(Package) /\ ComeFrom(c, f) /\ HaveNodesOf(c, f)
  BY CandidatesTyped
<1> HIDE DEF c, f
<1>2. ASSUME NEW x \in Seq(Package) PROVE Len(x) \in Nat /\ (x = <<>> <=> Len(x) = 0)
  BY EmptySeq, LenProperties
<1>3. ASSUME Len(c) = 0 PROVE Len(f) = 0
  <2> SUFFICES ASSUME Len(f) # 0 PROVE FALSE
    OBVIOUS
  <2>1. 1 \in 1..Len(f)
    BY <1>1, <1>2
  <2>2. \E i \in 1..Len(c) : c[i].node = f[1].node
    BY <1>1, <2>1 DEF HaveNodesOf
  <2>3. QED
    BY <1>3, <2>2
<1>4. ASSUME Len(f) = 0 PROVE Len(c) = 0
  <2> SUFFICES ASSUME Len(c) # 0 PROVE FALSE
    OBVIOUS
  <2>1. 1 \in 1..Len(c)
    BY <1>1, <1>2
  <2>2. \E j \in 1..Len(f) : Same(c[1], f[j])
    BY <1>1, <2>1 DEF ComeFrom
  <2>3. QED
    BY <1>4, <2>2
<1>5. c = <<>> <=> f = <<>>
  BY <1>1, <1>2, <1>3, <1>4
<1>6. QED
  BY <1>5 DEF c, f

LEMMA SupplementFits ==
  ASSUME AnswerInv, at = "selecting",
         NEW places,
         places = IF Candidates("background") # <<>> /\ (limit > 1 \/ Candidates("current") = <<>>)
                  THEN Diversify(Candidates("background"),
                                 Min({MaximumBackground, Capacity(Candidates("current"))}))
                  ELSE <<>>
  PROVE  Supplement(places)
<1>0. limit \in Nat /\ limit >= 1 /\ MaximumBackground \in Int /\ MaximumBackground >= 1
  BY BackgroundShare, PolicyNumbers DEF AnswerInv, AnswerShapes, Stages
<1>1. CASE places = <<>>
  <2>1. \A d : OfDocument(<<>>, d) = {}
    BY EmptySeq DEF OfDocument
  <2>2. Cardinality({}) = 0 /\ Len(<<>>) = 0 /\ <<>> \in Seq(Package)
    BY FS_EmptySet, EmptySeq
  <2>3. ASSUME NEW d PROVE Cardinality(OfDocument(places, d)) <= Policy.per_document
    <3>1. OfDocument(places, d) = {}
      BY <1>1, <2>1
    <3>2. Cardinality(OfDocument(places, d)) = 0
      BY <2>2, <3>1, Zenon
    <3>3. QED
      BY <3>2, PerDocument
  <2>4. Len(places) = 0 /\ places \in Seq(Package)
    BY <1>1, <2>2
  <2>5. \A i \in 1..Len(places) : FALSE
    BY <2>4
  <2>6. DistinctNodes(places)
    BY <2>5 DEF DistinctNodes
  <2>7. Len(places) <= MaximumBackground /\ Len(places) <= limit /\ Len(places) <= limit - 1
    BY <1>0, <2>4
  <2>8. QED
    BY <2>3, <2>4, <2>5, <2>6, <2>7 DEF Supplement
<1>2. CASE places # <<>>
  <2> DEFINE others == Candidates("background")
             capacity == Capacity(Candidates("current"))
             room == Min({MaximumBackground, capacity})
  <2>1. /\ others # <<>> /\ (limit > 1 \/ Candidates("current") = <<>>)
        /\ places = Diversify(others, room)
    BY <1>2
  <2>2. /\ capacity \in Int /\ capacity >= 1 /\ capacity <= limit
        /\ Candidates("current") # <<>> => capacity = limit - 1
    BY <1>0, <2>1 DEF Capacity
  <2> HIDE DEF capacity
  <2>3. room = IF MaximumBackground <= capacity THEN MaximumBackground ELSE capacity
    BY <1>0, <2>2, MinOfTwo
  <2>4. others \in Seq(Package) /\ DistinctNodes(others)
    BY CandidatesTyped DEF Tracks
  <2> HIDE DEF room, others
  <2>5. room \in Int /\ room >= 1 /\ room <= MaximumBackground /\ room <= capacity
    BY <1>0, <2>2, <2>3
  <2>6. Taken(places, others, room, Len(others))
    BY <2>1, <2>4, <2>5, Diversified
  <2>7. Len(places) \in Nat /\ Len(places) <= room
    BY <2>5, <2>6, LenProperties DEF Taken
  <2>8. /\ Len(places) <= MaximumBackground /\ Len(places) <= limit
        /\ Candidates("current") # <<>> => Len(places) <= limit - 1
    BY <1>0, <2>2, <2>5, <2>7
  <2>9. QED
    BY <2>6, <2>8 DEF Taken, Supplement, others
<1>3. QED
  BY <1>1, <1>2

\* The selected current packages leave the supplement its places.
LEMMA ChosenFits ==
  ASSUME AnswerInv, at = "selecting", NEW b, Supplement(b)
  PROVE  LET c == Candidates("current") IN
         /\ Taken(Chosen(b), c, limit - Len(b), Len(c))
         /\ Len(Chosen(b)) \in Nat /\ Len(b) \in Nat /\ Len(Chosen(b)) + Len(b) <= limit
         /\ c # <<>> => Len(Chosen(b)) >= 1 /\ limit - Len(b) >= 1
<1> DEFINE c == Candidates("current")
           a == Chosen(b)
<1>1. c \in Seq(Package) /\ DistinctNodes(c) /\ Len(c) \in Nat
  BY CandidatesTyped, LenProperties DEF Tracks
<1>2. limit \in Nat /\ limit >= 1 /\ Len(b) \in Nat /\ Len(b) <= limit
  BY LenProperties, PolicyNumbers DEF AnswerInv, AnswerShapes, Stages, Supplement
<1>3. c # <<>> => Len(b) <= limit - 1
  BY DEF Supplement
<1> HIDE DEF c
<1>4. Taken(a, c, limit - Len(b), Len(c))
  <2>1. a = Diversify(c, limit - Len(b)) /\ limit - Len(b) \in Int
    BY <1>2 DEF Chosen, PlacesLeft, c
  <2> HIDE DEF a
  <2>2. QED
    BY <1>1, <2>1, Diversified
<1> HIDE DEF a
<1>5. Len(a) \in Nat
  BY <1>4, LenProperties DEF Taken
<1>6. CASE c = <<>>
  <2>1. Len(c) = 0
    BY <1>6, EmptySeq
  <2>2. Len(a) = 0
    <3> SUFFICES ASSUME Len(a) # 0 PROVE FALSE
      OBVIOUS
    <3>1. 1 \in 1..Len(a)
      BY <1>5
    <3>2. \E j \in 1..Len(c) : a[1] = c[j]
      BY <1>4, <3>1 DEF Taken
    <3>3. QED
      BY <2>1, <3>2
  <2>3. QED
    BY <1>2, <1>4, <1>5, <1>6, <2>2 DEF a, c
<1>7. CASE c # <<>>
  <2>1. Len(c) >= 1
    BY <1>1, <1>7, EmptySeq
  <2>2. Len(a) >= 1 /\ (Len(a) <= 1 \/ Len(a) <= limit - Len(b))
    BY <1>4, <2>1 DEF Taken
  <2>3. limit - Len(b) >= 1
    BY <1>2, <1>3, <1>7
  <2>4. Len(a) + Len(b) <= limit
    BY <1>2, <1>5, <2>2, <2>3
  <2>5. QED
    BY <1>2, <1>4, <1>5, <2>2, <2>3, <2>4 DEF a, c
<1>8. QED
  BY <1>6, <1>7

\* The chosen packages are of the current track, the supplement is of the other,
\* as far as the rows of the searches name their documents.
LEMMA ChosenFromTracks ==
  ASSUME AnswerInv, NEW track \in Tracks, NEW q,
         \A i \in 1..Len(q) : \E j \in 1..Len(Candidates(track)) : q[i] = Candidates(track)[j]
  PROVE  \A i \in 1..Len(q) : /\ q[i].named => DocumentOf(q[i]) \in Ours(track)
                              /\ AllNamed => q[i].named
<1> DEFINE c == Candidates(track)
           f == found[track]
<1>1. ComeFrom(c, f) /\ f \in Seq(Package)
  BY CandidatesTyped
<1>2. \A j \in 1..Len(f) : f[j].named => DocumentOf(f[j]) \in Ours(track)
  BY DEF AnswerInv, TracksApart
<1>3. AllNamed => \A j \in 1..Len(f) : f[j].named
  BY <1>1, LenProperties DEF AllNamed, ToSet
<1> SUFFICES ASSUME NEW i \in 1..Len(q)
             PROVE  /\ q[i].named => DocumentOf(q[i]) \in Ours(track)
                    /\ AllNamed => q[i].named
  OBVIOUS
<1>4. PICK j \in 1..Len(c) : q[i] = c[j]
  OBVIOUS
<1> HIDE DEF c, f
<1>5. PICK k \in 1..Len(f) : q[i].node = f[k].node /\ q[i].named = f[k].named
  BY <1>1, <1>4 DEF ComeFrom, Same
<1>6. QED
  BY <1>2, <1>3, <1>5 DEF DocumentOf

\* What the answer has if every row named its document.
LEMMA JoinedAnswer ==
  ASSUME AnswerInv, at = "selecting", AllNamed, NEW b, Supplement(b), NEW a, a = Chosen(b)
  PROVE  /\ Combine(a \o b) = a \o b
         /\ Within(a \o b, current) = ToSet(a) /\ Within(a \o b, background) = ToSet(b)
         /\ \A d : Cardinality(OfDocument(a \o b, d)) <= Policy.per_document
         /\ \A d \in current : OfDocument(a \o b, d) = OfDocument(a, d)
<1> DEFINE c == Candidates("current")
<1>1. Taken(a, c, limit - Len(b), Len(c))
  BY ChosenFits
<1>2. /\ a \in Seq(Package) /\ DistinctNodes(a) /\ \A i \in 1..Len(a) : \E j \in 1..Len(c) : a[i] = c[j]
      /\ \A d : Cardinality(OfDocument(a, d)) <= Policy.per_document
  BY <1>1 DEF Taken
<1>3. /\ b \in Seq(Package) /\ DistinctNodes(b)
      /\ \A i \in 1..Len(b) : \E j \in 1..Len(Candidates("background")) : b[i] = Candidates("background")[j]
      /\ \A d : Cardinality(OfDocument(b, d)) <= Policy.per_document
  BY DEF Supplement
<1>4. "current" \in Tracks /\ "background" \in Tracks
      /\ Ours("current") = current /\ Ours("background") = background
  BY DEF Tracks, Ours
<1>5. \A i \in 1..Len(a) : DocumentOf(a[i]) \in current
  BY <1>2, <1>4, ChosenFromTracks
<1>6. \A i \in 1..Len(b) : DocumentOf(b[i]) \in background
  BY <1>3, <1>4, ChosenFromTracks
<1>7. current \cap background = {}
  BY DEF AnswerInv, TracksApart
<1> HIDE DEF c
<1>8. /\ Diverse(a \o b)
      /\ \A d \in current : OfDocument(a \o b, d) = OfDocument(a, d)
      /\ Within(a \o b, current) = ToSet(a) /\ Within(a \o b, background) = ToSet(b)
  <2>1. Diverse(a) /\ Diverse(b)
    BY <1>2, <1>3 DEF Diverse
  <2>2. AllWithin(a, current) /\ AllWithin(b, background)
    BY <1>5, <1>6 DEF AllWithin
  <2>3. QED
    BY <1>7, <2>1, <2>2, JoinedTracks
<1>9. Combine(a \o b) = a \o b
  BY <1>8, CombinedAlready DEF Diverse
<1>10. QED
  BY <1>8, <1>9 DEF Diverse

LEMMA SelectKeeps ==
  ASSUME AnswerInv, Select
  PROVE  AnswerInv'
<1> DEFINE others == Candidates("background")
           b == IF others # <<>> /\ (limit > 1 \/ Candidates("current") = <<>>)
                THEN Diversify(others, Min({MaximumBackground, Capacity(Candidates("current"))}))
                ELSE <<>>
           a == Chosen(b)
           joined == a \o b
<1>1. /\ at = "selecting" /\ at' = "selected"
      /\ UNCHANGED <<governed, current, background, top_k, limit, facets, found, first, coverage, read>>
  BY DEF Select
<1>2. final' = Combine(joined)
  <2>1. Candidates("current") = RankedCurrent /\ others = Rerank(found["background"], FALSE)
    BY DEF Candidates, RankedCurrent
  <2>2. QED
    BY <2>1 DEF Select, Chosen
<1>3. Supplement(b)
  BY <1>1, SupplementFits
<1> HIDE DEF others, b
<1>4. /\ Taken(a, Candidates("current"), limit - Len(b), Len(Candidates("current")))
      /\ Len(a) \in Nat /\ Len(b) \in Nat /\ Len(a) + Len(b) <= limit
      /\ Candidates("current") # <<>> => Len(a) >= 1 /\ limit - Len(b) >= 1
  BY <1>1, <1>3, ChosenFits
<1>5. a \in Seq(Package) /\ b \in Seq(Package)
  BY <1>3, <1>4 DEF Taken, Supplement
<1>6. /\ AllNamed => final' = joined /\ a = Chosen(b)
      /\ AllNamed => Within(joined, current) = ToSet(a) /\ Within(joined, background) = ToSet(b)
      /\ AllNamed => \A d : Cardinality(OfDocument(joined, d)) <= Policy.per_document
      /\ AllNamed => \A d \in current : OfDocument(joined, d) = OfDocument(a, d)
  BY <1>1, <1>2, <1>3, JoinedAnswer
<1> HIDE DEF a
<1>7. /\ joined \in Seq(Package) /\ Len(joined) = Len(a) + Len(b)
      /\ \A i \in 1..Len(joined) : \/ i \in 1..Len(a) /\ joined[i] = a[i]
                                   \/ i - Len(a) \in 1..Len(b) /\ joined[i] = b[i - Len(a)]
      /\ \A i \in 1..Len(a) : i \in 1..Len(joined) /\ joined[i] = a[i]
  <2>1. \A i \in 1..Len(b) : joined[Len(a) + i] = b[i]
    BY <1>5, JoinedPackages
  <2>2. \A i \in 1..Len(joined) : i \in 1..Len(a) \/ (i - Len(a) \in 1..Len(b) /\ i = Len(a) + (i - Len(a)))
    BY <1>5, JoinedPackages
  <2>3. joined \in Seq(Package) /\ Len(joined) = Len(a) + Len(b)
        /\ \A i \in 1..Len(a) : i \in 1..Len(joined) /\ joined[i] = a[i]
    BY <1>5, JoinedPackages
  <2> HIDE DEF joined
  <2>4. QED
    BY <2>1, <2>2, <2>3
<1> HIDE DEF joined
<1>8. /\ final' \in Seq(Package) /\ Len(final') <= Len(joined) /\ DistinctNodes(final')
      /\ ComeFrom(final', joined)
  BY <1>2, <1>7, Combined
<1>9. Len(final') <= limit
  <2>1. Len(final') \in Nat
    BY <1>8, LenProperties
  <2>2. limit \in Nat
    BY PolicyNumbers DEF AnswerInv, AnswerShapes
  <2>3. QED
    BY <1>4, <1>7, <1>8, <2>1, <2>2

<1>10. \A i \in 1..Len(final') : final'[i].named => DocumentOf(final'[i]) \in governed
  <2> SUFFICES ASSUME NEW i \in 1..Len(final'), final'[i].named
               PROVE  DocumentOf(final'[i]) \in governed
    OBVIOUS
  <2>1. PICK j \in 1..Len(joined) : final'[i].node = joined[j].node /\ final'[i].named = joined[j].named
    BY <1>8 DEF ComeFrom, Same
  <2>2. /\ \A k \in 1..Len(a) : a[k].named => DocumentOf(a[k]) \in Ours("current")
        /\ \A k \in 1..Len(b) : b[k].named => DocumentOf(b[k]) \in Ours("background")
    <3>1. \A k \in 1..Len(a) : \E l \in 1..Len(Candidates("current")) : a[k] = Candidates("current")[l]
      BY <1>4 DEF Taken
    <3>2. \A k \in 1..Len(b) : \E l \in 1..Len(Candidates("background")) : b[k] = Candidates("background")[l]
      BY <1>3 DEF Supplement
    <3>3. QED
      BY <3>1, <3>2, ChosenFromTracks DEF Tracks
  <2>3. joined[j].named => DocumentOf(joined[j]) \in Ours("current") \cup Ours("background")
    BY <1>7, <2>2
  <2>4. Ours("current") \subseteq governed /\ Ours("background") \subseteq governed
    BY DEF Ours, AnswerInv, AnswerShapes
  <2>5. QED
    BY <2>1, <2>3, <2>4 DEF DocumentOf
<1>11. AnswerShapes'
  <2>1. read = {} /\ read' = {}
    BY <1>1 DEF AnswerInv, AnswerShapes
  <2>2. QED
    BY <1>1, <1>8, <2>1 DEF AnswerInv, AnswerShapes
<1>12. Stages'
  BY <1>1 DEF AnswerInv, Stages, Answered
<1>13. ASSUME AllNamed
       PROVE  /\ Selected("background")' = ToSet(b) /\ Selected("current")' = ToSet(a)
              /\ \A d \in Docs : Cardinality(OfDocument(final', d)) <= Policy.per_document
              /\ \A d \in current : OfDocument(final', d) = OfDocument(a, d)
  <2>1. final' = joined
    BY <1>6, <1>13
  <2>2. Selected("background")' = Within(joined, background)
    BY <1>1, <2>1 DEF Selected, DocumentOf, Within
  <2>3. Selected("current")' = Within(joined, current)
    BY <1>1, <2>1 DEF Selected, DocumentOf, Within
  <2>4. QED
    BY <1>6, <1>13, <2>1, <2>2, <2>3
<1>14. ASSUME AllNamed
       PROVE  /\ ToSet(b) # {} => ~coverage.sufficient
              /\ Cardinality(ToSet(b)) <= MaximumBackground
              /\ found["current"] # <<>> => ToSet(a) # {}
  <2>1. ASSUME ToSet(b) # {} PROVE ~coverage.sufficient
    <3>1. DOMAIN b = 1..Len(b)
      BY <1>5, DocumentsOfPackages
    <3>2. PICK i \in 1..Len(b) : TRUE
      BY <2>1, <3>1 DEF ToSet
    <3>3. PICK j \in 1..Len(Candidates("background")) : TRUE
      BY <1>3, <3>2 DEF Supplement
    <3>4. Candidates("background") # <<>>
      BY <3>3, EmptySeq
    <3>5. found["background"] # <<>>
      BY <3>4, CandidatesIfFound DEF Tracks
    <3>6. QED
      BY <3>5 DEF AnswerInv, Stages
  <2>2. Cardinality(ToSet(b)) <= MaximumBackground
    <3>1. Cardinality(ToSet(b)) <= Len(b) /\ Cardinality(ToSet(b)) \in Nat
      BY <1>5, PackagesCounted, FS_CardinalityType
    <3>2. Len(b) <= MaximumBackground /\ MaximumBackground \in Int
      BY <1>3, BackgroundShare, PolicyNumbers DEF Supplement, AnswerInv, AnswerShapes
    <3>3. QED
      BY <1>4, <3>1, <3>2
  <2>3. ASSUME found["current"] # <<>> PROVE ToSet(a) # {}
    <3>1. Candidates("current") # <<>>
      BY <2>3, CandidatesIfFound DEF Tracks
    <3>2. 1 \in 1..Len(a) /\ DOMAIN a = 1..Len(a)
      BY <1>4, <1>5, <3>1, DocumentsOfPackages
    <3>3. QED
      BY <3>2 DEF ToSet
  <2>4. QED
    BY <2>1, <2>2, <2>3
<1>15. ASSUME AllNamed, Len(final') < limit, NEW p \in ToSet(found["current"])
       PROVE  \/ \E q \in ToSet(final') : q.node = p.node
              \/ Cardinality(OfDocument(final', DocumentOf(p))) = Policy.per_document
  <2> DEFINE c == Candidates("current")
  <2>1. /\ found["current"] \in Seq(Package) /\ HaveNodesOf(c, found["current"]) /\ c \in Seq(Package)
    BY CandidatesTyped DEF Tracks
  <2>2. PICK k \in 1..Len(found["current"]) : p = found["current"][k]
    BY <2>1, LenProperties DEF ToSet
  <2> HIDE DEF c
  <2>3. PICK j \in 1..Len(c) : c[j].node = p.node
    BY <2>1, <2>2 DEF HaveNodesOf
  <2>4. DocumentOf(c[j]) = DocumentOf(p) /\ DocumentOf(p) \in current
    <3>1. p.named
      BY <1>15 DEF AllNamed, Tracks
    <3>2. DocumentOf(p) \in Ours("current")
      BY <2>2, <3>1 DEF AnswerInv, TracksApart, Tracks
    <3>3. QED
      BY <2>3, <3>2 DEF Ours, DocumentOf
  <2>5. ~Full(a, limit - Len(b))
    <3>1. Len(final') = Len(a) + Len(b) /\ limit \in Nat
      BY <1>6, <1>7, <1>15, PolicyNumbers DEF AnswerInv, AnswerShapes
    <3>2. QED
      BY <1>4, <1>15, <3>1 DEF Full
  <2>6. CASE \E i \in 1..Len(a) : a[i] = c[j]
    <3>1. PICK i \in 1..Len(a) : a[i] = c[j]
      BY <2>6
    <3>2. i \in 1..Len(final') /\ final'[i] = c[j]
      BY <1>6, <1>7, <1>15, <3>1
    <3>3. final'[i] \in ToSet(final')
      BY <1>8, <3>2, DocumentsOfPackages DEF ToSet
    <3>4. QED
      BY <2>3, <3>2, <3>3
  <2>7. CASE Often(a, DocumentOf(c[j]))
    <3>1. Cardinality(OfDocument(a, DocumentOf(p))) >= Policy.per_document
      BY <2>4, <2>7 DEF Often
    <3>2. /\ OfDocument(final', DocumentOf(p)) = OfDocument(a, DocumentOf(p))
          /\ Cardinality(OfDocument(a, DocumentOf(p))) <= Policy.per_document
      BY <1>4, <1>13, <1>15, <2>4 DEF Taken
    <3>3. Cardinality(OfDocument(a, DocumentOf(p))) \in Nat
      BY <1>5, CountsOfDocuments
    <3>4. QED
      BY <3>1, <3>2, <3>3, PerDocument
  <2>8. \/ Full(a, limit - Len(b)) \/ (\E i \in 1..Len(a) : a[i] = c[j]) \/ Often(a, DocumentOf(c[j]))
    BY <1>4 DEF Taken, c
  <2>9. QED
    BY <2>5, <2>6, <2>7, <2>8
<1>16. /\ AllNamed' <=> AllNamed
       /\ MaximumBackground' = MaximumBackground
       /\ \A d : OfDocument(final, d)' = OfDocument(final', d)
       /\ \A p : DocumentOf(p)' = DocumentOf(p)
  BY <1>1 DEF AllNamed, MaximumBackground, OfDocument, DocumentOf
<1>17. SelectionMade'
  BY <1>1, <1>9, <1>8, <1>10, <1>13, <1>14, <1>15, <1>16
  DEF SelectionMade, DistinctNodes, OfDocument, DocumentOf
<1>18. QED
  BY <1>1, <1>11, <1>12, <1>17, NothingFoundAnew DEF AnswerInv

-----------------------------------------------------------------------------
(* The inductive invariant and the theorems.                                 *)

IInv == GovernanceInv /\ AnswerInv

LEMMA GovernanceUnchanged ==
  ASSUME GovernanceInv, UNCHANGED governance
  PROVE  GovernanceInv'
BY DEF governance, GovernanceInv, GovernanceShapes, OpShape, ManualValuesStay, FillsAreNotManual,
       ReplacementStored

LEMMA AnswerUnchanged ==
  ASSUME AnswerInv, UNCHANGED answer
  PROVE  AnswerInv'
<1>1. UNCHANGED <<at, governed, current, background, top_k, limit, facets, found, first, coverage, final, read>>
  BY DEF answer
<1>2. AnswerShapes'
  BY <1>1 DEF AnswerInv, AnswerShapes, NodesOf
<1>3. Stages'
  BY <1>1 DEF AnswerInv, Stages, Answered
<1>4. SelectionMade'
  BY <1>1 DEF AnswerInv, SelectionMade, Answered, AllNamed, Selected, DistinctNodes, OfDocument,
     DocumentOf, MaximumBackground
<1>5. QED
  BY <1>1, <1>2, <1>3, <1>4, NothingFoundAnew DEF AnswerInv

LEMMA StepKeeps ==
  ASSUME IInv, [Next]_vars
  PROVE  IInv'
<1>0. GovernanceInv /\ AnswerInv
  BY DEF IInv
<1>1. CASE Edit
  BY <1>0, <1>1, AdministerKeeps, AnswerUnchanged DEF Edit, IInv
<1>2. CASE \E window \in Windows, requested \in Requests : Scope(window, requested)
  BY <1>0, <1>2, ScopeKeeps, GovernanceUnchanged DEF Scope, governance, IInv
<1>3. CASE \/ \E hits \in Results(current), lost \in SUBSET Unmatched(current) : SearchCurrent(hits, lost)
           \/ \E hits \in Results(background), lost \in SUBSET Unmatched(background) :
                SearchBackground(hits, lost)
  BY <1>0, <1>3, SearchesKeep, GovernanceUnchanged DEF SearchCurrent, SearchBackground, governance, IInv
<1>4. CASE \E more \in BOOLEAN : Discover(more) \/ Evaluate(more)
  BY <1>0, <1>4, DiscoverKeeps, EvaluateKeeps, GovernanceUnchanged
  DEF Discover, Evaluate, governance, IInv
<1>5. CASE Select
  BY <1>0, <1>5, SelectKeeps, GovernanceUnchanged DEF Select, governance, IInv
<1>6. CASE \E rows \in SUBSET Stored : Answer(rows)
  BY <1>0, <1>6, ReplyKeeps, GovernanceUnchanged DEF Answer, governance, IInv
<1>7. CASE Refuse
  BY <1>0, <1>7, RefuseKeeps, GovernanceUnchanged DEF Refuse, governance, IInv
<1>8. CASE UNCHANGED vars
  BY <1>0, <1>8, AnswerUnchanged, GovernanceUnchanged DEF vars, IInv
<1>9. QED
  BY <1>1, <1>2, <1>3, <1>4, <1>5, <1>6, <1>7, <1>8 DEF Next

\* The inductive invariant holds in every state.
THEOREM IInvAlways == Spec => []IInv
<1>1. Init => IInv
  BY GovernanceStarts, AnswerStarts DEF Init, IInv
<1>2. IInv /\ [Next]_vars => IInv'
  BY StepKeeps
<1>3. QED
  BY <1>1, <1>2, PTL DEF Spec

\* Every variable of the answer and of the governance has its type.
THEOREM TypeCorrect == Spec => []TypeOK
<1>1. ASSUME IInv PROVE GovernanceTypeOK
  <2>1. GovernanceShapes
    BY <1>1 DEF IInv, GovernanceInv
  <2>2. op.kind \in {"idle", "values", "fill", "relations"} /\ op.stage \in {"write", "delete"}
    BY <2>1, IdleOp DEF GovernanceShapes, OpShape
  <2>3. op = Idle <=> op.rows = <<>>
    BY <2>1, IdleOp DEF GovernanceShapes, OpShape, Filled
  <2>4. QED
    BY <2>1, <2>2, <2>3 DEF GovernanceShapes, GovernanceTypeOK
<1>2. ASSUME IInv PROVE TypeOK
  <2>1. AnswerShapes
    BY <1>2 DEF IInv, AnswerInv
  <2>2. \A S : \A q \in Seq(S) : ToSet(q) \subseteq S
    <3> SUFFICES ASSUME NEW S, NEW q \in Seq(S), NEW x \in ToSet(q) PROVE x \in S
      OBVIOUS
    <3>1. PICK i \in DOMAIN q : x = q[i]
      BY DEF ToSet
    <3>2. QED
      BY <3>1, ElementOfSeq, LenProperties
  <2>3. /\ ToSet(facets) \subseteq AllFacets
        /\ \A track \in Tracks : ToSet(found[track]) \subseteq Package
        /\ ToSet(final) \subseteq Package
    BY <2>1, <2>2 DEF AnswerShapes
  <2>4. first \subseteq Stored /\ read \subseteq Stored
    <3>1. \A p \in ToSet(final) : p.node \in Stored
      BY <2>3 DEF Package, Stored
    <3>2. QED
      BY <2>1, <3>1 DEF AnswerShapes, NodesOf
  <2>5. QED
    BY <1>1, <1>2, <2>1, <2>3, <2>4 DEF AnswerShapes, TypeOK
<1>3. QED
  BY <1>2, IInvAlways, PTL

\* An administrator's entries stand, evidence whose row carried its document's
\* id is of a governed document and of its track, and with only such evidence,
\* or none, the language model reads of governed documents.
THEOREM EvidenceScoped == Spec => []EvidenceInScope
<1>1. ASSUME IInv PROVE EvidenceInScope
  <2>1. ManualValuesStay
    BY <1>1 DEF IInv, GovernanceInv
  <2>2. /\ final \in Seq(Package) /\ found \in [Tracks -> Seq(Package)]
        /\ Stages /\ SelectionMade /\ TracksApart
    BY <1>1 DEF IInv, AnswerInv, AnswerShapes
  <2>3. ASSUME NEW p \in ToSet(final), p.named PROVE DocumentOf(p) \in governed
    <3>1. PICK i \in 1..Len(final) : p = final[i]
      BY <2>2, DocumentsOfPackages DEF ToSet
    <3>2. Answered
      BY <2>2, <3>1, EmptySeq DEF Stages
    <3>3. QED
      BY <2>2, <2>3, <3>1, <3>2 DEF SelectionMade
  <2>4. ASSUME NEW track \in Tracks, NEW p \in ToSet(found[track]), p.named
        PROVE  DocumentOf(p) \in Ours(track)
    <3>1. PICK i \in 1..Len(found[track]) : p = found[track][i]
      BY <2>2, DocumentsOfPackages DEF ToSet
    <3>2. QED
      BY <2>2, <2>4, <3>1 DEF TracksApart
  <2>5. ASSUME \A p \in ToSet(final) : p.named, NEW r \in read PROVE DocOf[r] \in governed
    <3>1. CASE final = <<>>
      BY <1>1, <2>5, <3>1 DEF IInv, AnswerInv, AnswerShapes
    <3>2. CASE final # <<>>
      <4>1. PICK p \in ToSet(final) : r = p.node
        BY <1>1, <2>5, <3>2 DEF IInv, AnswerInv, AnswerShapes, NodesOf
      <4>2. QED
        BY <2>3, <2>5, <4>1 DEF DocumentOf
    <3>3. QED
      BY <3>1, <3>2
  <2>6. QED
    BY <2>1, <2>3, <2>4, <2>5 DEF EvidenceInScope, Ours
<1>2. QED
  BY <1>1, IInvAlways, PTL

\* Background is older than what is current, and only supplements it.
THEOREM BackgroundOnlySupplements == Spec => []BackgroundSupplements
<1>1. IInv => BackgroundSupplements
  BY DEF IInv, AnswerInv, KeptIsNewer, SelectionMade, BackgroundSupplements
<1>2. QED
  BY <1>1, IInvAlways, PTL

\* The answer leaves nothing out that has a place, and all of it is shown.
THEOREM SelectionComplete == Spec => []SelectionIsComplete
<1>1. ASSUME IInv, Answered PROVE Shown = final
  <2> DEFINE n == Len(final)
  <2>1. final \in Seq(Package) /\ n \in Nat
    BY <1>1, DocumentsOfPackages DEF IInv, AnswerInv, AnswerShapes
  <2>2. n <= top_k /\ top_k \in Int
    <3>1. n <= limit /\ limit <= top_k /\ limit \in Nat /\ top_k \in 0..MaxTopK
      BY <1>1, PolicyNumbers DEF IInv, AnswerInv, SelectionMade, Stages, Answered, AnswerShapes
    <3>2. QED
      BY <2>1, <3>1 DEF MaxTopK
  <2>3. SubSeq(final, 1, n) = final
    BY <2>1
  <2> HIDE DEF n
  <2>4. Min({top_k, n}) = n
    BY <2>1, <2>2, MinOfTwo
  <2>5. QED
    BY <2>3, <2>4 DEF Shown, First, n
<1>2. ASSUME IInv, Answered PROVE IsInjective([i \in DOMAIN final |-> final[i].node])
  <2>1. DOMAIN final = 1..Len(final) /\ DistinctNodes(final)
    BY <1>2, DocumentsOfPackages DEF IInv, AnswerInv, AnswerShapes, SelectionMade
  <2>2. QED
    BY <2>1 DEF DistinctNodes, IsInjective
<1>3. ASSUME IInv, Answered, final # <<>> PROVE read \cup NodesOf(Cited) \subseteq NodesOf(Shown)
  <2>1. Shown = final /\ final \in Seq(Package) /\ final # <<>> /\ Len(final) \in Nat
    BY <1>1, <1>3, DocumentsOfPackages DEF IInv, AnswerInv, AnswerShapes
  <2>2. read \subseteq NodesOf(Shown)
    BY <1>3, <2>1 DEF IInv, AnswerInv, AnswerShapes
  <2>3. Min({3, Len(final)}) \in 0..Len(final)
    <3>1. Min({3, Len(final)}) = 3 \/ Min({3, Len(final)}) = Len(final)
      BY <2>1, MinOfTwo
    <3>2. Min({3, Len(final)}) <= Len(final)
      BY <2>1, MinOfTwo
    <3>3. QED
      BY <2>1, <3>1, <3>2
  <2>4. Cited = SubSeq(final, 1, Min({3, Len(final)}))
    BY <2>1 DEF Cited, First
  <2>5. ToSet(Cited) \subseteq ToSet(final)
    BY <2>1, <2>3, <2>4 DEF ToSet
  <2>6. QED
    BY <2>1, <2>2, <2>5 DEF NodesOf
<1>4. ASSUME IInv PROVE SelectionIsComplete
  <2>1. SelectionMade
    BY <1>4 DEF IInv, AnswerInv
  <2>2. QED
    BY <1>1, <1>2, <1>3, <1>4, <2>1 DEF SelectionMade, SelectionIsComplete
<1>5. QED
  BY <1>4, IInvAlways, PTL

\* A relation goes by request, or when the one that replaces it is stored.
THEOREM RelationsStay == Spec => RelationsAreNotLost
<1>1. ASSUME IInv, [Next]_vars, NEW k \in relations \ relations'
      PROVE  op = Idle \/ (Head(op.rows).original = k /\ Head(op.rows).key \in relations')
  <2>1. CASE Edit
    BY <1>1, <2>1, RelationGoes DEF Edit, IInv
  <2>2. CASE ~Edit
    BY <1>1, <2>2 DEF Next, Scope, SearchCurrent, SearchBackground, Discover, Evaluate, Select, Answer,
       Refuse, vars, governance
  <2>3. QED
    BY <2>1, <2>2
<1>2. IInv /\ [Next]_vars =>
        [\A k \in relations \ relations' :
           \/ op = Idle
           \/ Head(op.rows).original = k /\ Head(op.rows).key \in relations']_governance
  BY <1>1
<1>3. QED
  BY <1>2, IInvAlways, PTL DEF Spec, RelationsAreNotLost
=============================================================================
