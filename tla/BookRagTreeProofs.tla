-------------------------- MODULE BookRagTreeProofs --------------------------
(***************************************************************************)
(* Proofs about BookRagTree, LeafSegments and EntityRegistry, for every set   *)
(* of elements, every text and limit, and all names.                          *)
(***************************************************************************)
EXTENDS BookRagTree, FiniteSetTheorems, SequenceTheorems, WellFoundedInduction, TLAPS

-----------------------------------------------------------------------------
(* Numbers and sequences.                                                    *)

\* A nonempty set of numbers has a least one.
LEMMA LeastNumber ==
  ASSUME NEW S, S \subseteq Nat, S # {}
  PROVE  \E m \in S : \A n \in S : m <= n
<1> DEFINE R == {p \in Nat \X Nat : p[1] < p[2]}
<1>1. IsWellFoundedOn(R, Nat)
  BY NatLessThanWellFounded DEF OpToRel
<1>2. PICK m \in S : \A n \in S : ~ (<<n, m>> \in R)
  BY <1>1, WFMin
<1>3. ASSUME NEW n \in S PROVE m <= n
  <2>1. n \in Nat /\ m \in Nat
    OBVIOUS
  <2>2. <<n, m>> \in R <=> n < m
    BY <2>1
  <2> QED BY <1>2, <2>1, <2>2
<1> QED BY <1>3

LEMMA SeqHolds ==
  ASSUME NEW T, NEW s \in Seq(T)
  PROVE  Len(s) \in Nat /\ DOMAIN s = 1..Len(s) /\ \A i \in DOMAIN s : s[i] \in T
OBVIOUS

\* What holds at zero and from each number to the next holds at n.
LEMMA UpTo ==
  ASSUME NEW n \in Nat, NEW S, 0 \in S, \A k \in 1..n : k - 1 \in S => k \in S
  PROVE  n \in S
<1> DEFINE Missing == {k \in 0..n : k \notin S}
<1> SUFFICES ASSUME Missing # {} PROVE FALSE
  OBVIOUS
<1>1. Missing \subseteq Nat
  OBVIOUS
<1>2. PICK m \in Missing : \A k \in Missing : m <= k
  <2> HIDE DEF Missing
  <2> QED BY <1>1, LeastNumber
<1>3. m \in 1..n /\ m - 1 \in 0..n /\ m - 1 \notin Missing
  BY <1>2
<1> QED BY <1>3

\* A nonempty set of numbers that are at most n has a greatest one.
LEMMA Greatest ==
  ASSUME NEW n \in Nat, NEW S, S \subseteq 1..n, S # {}
  PROVE  \E b \in S : \A k \in S : k <= b
<1> DEFINE Bounds == {b \in Nat : \A k \in S : k <= b}
<1>1. Bounds \subseteq Nat /\ n \in Bounds
  OBVIOUS
<1>2. PICK b \in Bounds : \A c \in Bounds : b <= c
  <2> HIDE DEF Bounds
  <2> QED BY <1>1, LeastNumber
<1>3. b \in S
  <2> SUFFICES ASSUME b \notin S PROVE FALSE
    OBVIOUS
  <2>1. \A k \in S : k <= b - 1
    BY <1>2
  <2>2. PICK k \in S : TRUE
    OBVIOUS
  <2>3. k \in Nat /\ k >= 1 /\ k <= b - 1 /\ b \in Nat
    BY <2>1
  <2>4. b - 1 \in Nat
    BY <2>3
  <2> QED BY <1>2, <2>1, <2>4
<1> QED BY <1>2, <1>3

\* LastIn finds the greatest number of a set, or zero.
LEMMA LastIsIn ==
  ASSUME NEW n \in Nat, NEW S, S \subseteq 1..n
  PROVE  /\ S = {} => LastIn(S) = 0
         /\ S # {} => LastIn(S) \in S /\ \A k \in S : k <= LastIn(S)
<1>1. CASE S = {}
  BY <1>1 DEF LastIn
<1>2. CASE S # {}
  <2>1. \E b \in S : \A k \in S : k <= b
    BY <1>2, Greatest
  <2> QED BY <1>2, <2>1 DEF LastIn
<1> QED BY <1>1, <1>2

\* It is the only greatest one.
LEMMA LastIsThe ==
  ASSUME NEW n \in Nat, NEW S, S \subseteq 1..n, NEW b \in S, \A k \in S : k <= b
  PROVE  LastIn(S) = b
<1> DEFINE l == LastIn(S)
<1>1. l \in S /\ b <= l
  BY LastIsIn
<1> HIDE DEF l
<1>2. l <= b /\ l \in Nat /\ b \in Nat
  BY <1>1
<1>3. l = b
  BY <1>1, <1>2
<1> QED BY <1>3 DEF l


LEMMA MaxIsIn ==
  ASSUME NEW n \in Nat, NEW S, S \subseteq 1..n, S # {}
  PROVE  Max(S) \in S /\ \A k \in S : Max(S) >= k
<1>1. \E b \in S : \A k \in S : b >= k
  <2>1. PICK b \in S : \A k \in S : k <= b
    BY Greatest
  <2>2. \A k \in S : b >= k
    BY <2>1
  <2> QED BY <2>2
<1> QED BY <1>1 DEF Max

LEMMA MinIsIn ==
  ASSUME NEW S, S \subseteq Nat, S # {}
  PROVE  Min(S) \in S /\ \A k \in S : Min(S) <= k
BY LeastNumber DEF Min

-----------------------------------------------------------------------------
(* Folds over sequences: what FoldLeft computes, turn by turn.               *)

\* A turn of the loop over the units of a text, and of a sum of tokens.
Turn(way, q, x) == IF way = "cut" THEN AddUnit(q, x) ELSE Plus(q, x)

\* g[s] is what has come out when the elements at s are done.
Turns(way, base, seq, g) ==
  g = [s \in SUBSET DOMAIN seq |->
         IF s = {} THEN base ELSE Turn(way, g[s \ {Max(s)}], seq[Max(s)])]

LEMMA TurnsExist ==
  ASSUME NEW way, NEW base, NEW n \in Nat, NEW seq, DOMAIN seq = 1..n
  PROVE  \E g : Turns(way, base, seq, g)
<1> DEFINE Small(k) == {s \in SUBSET (1..n) : Cardinality(s) <= k}
           TurnsTo(g, k) ==
             g = [s \in Small(k) |->
                    IF s = {} THEN base ELSE Turn(way, g[s \ {Max(s)}], seq[Max(s)])]
<1>0. IsFiniteSet(1..n) /\ Cardinality(1..n) = n
  BY FS_Interval
<1>1. \A s \in SUBSET (1..n) : IsFiniteSet(s) /\ Cardinality(s) \in Nat /\ Cardinality(s) <= n
  BY <1>0, FS_Subset, FS_CardinalityType
<1>2. \E g : TurnsTo(g, 0)
  <2> DEFINE g == [s \in Small(0) |-> base]
  <2>1. \A s \in Small(0) : s = {}
    BY <1>1, FS_EmptySet
  <2>2. TurnsTo(g, 0)
    BY <2>1
  <2> QED BY <2>2
<1>3. ASSUME NEW k \in Nat, NEW g, TurnsTo(g, k) PROVE \E h : TurnsTo(h, k + 1)
  <2> DEFINE h == [s \in Small(k + 1) |->
                     IF s = {} THEN base ELSE Turn(way, g[s \ {Max(s)}], seq[Max(s)])]
  <2>1. ASSUME NEW s \in Small(k + 1), s # {} PROVE s \ {Max(s)} \in Small(k)
    <3>1. Max(s) \in s /\ s \in SUBSET (1..n) /\ Cardinality(s) <= k + 1
      BY <2>1, MaxIsIn
    <3>2. Cardinality(s \ {Max(s)}) = Cardinality(s) - 1
      BY <1>1, <3>1, FS_RemoveElement
    <3>3. s \ {Max(s)} \in SUBSET (1..n) /\ Cardinality(s) \in Nat
      BY <1>1, <3>1
    <3>4. Cardinality(s \ {Max(s)}) <= k
      BY <3>1, <3>2, <3>3
    <3> QED BY <3>3, <3>4
  <2>2. \A t \in Small(k) : t \in Small(k + 1)
    BY <1>1
  <2>3. \A t \in Small(k) : h[t] = g[t]
    <3>1. \A t \in Small(k) :
            g[t] = IF t = {} THEN base ELSE Turn(way, g[t \ {Max(t)}], seq[Max(t)])
      <4> HIDE DEF Small
      <4> QED BY <1>3
    <3> HIDE DEF Small
    <3> QED BY <2>2, <3>1
  <2>4. TurnsTo(h, k + 1)
    <3> HIDE DEF Small
    <3> QED BY <2>1, <2>3
  <2> QED BY <2>4
<1>4. \E g : TurnsTo(g, n)
  <2> DEFINE S == {k \in Nat : \E g : TurnsTo(g, k)}
  <2> HIDE DEF TurnsTo
  <2>1. 0 \in S
    BY <1>2
  <2>2. \A k \in 1..n : k - 1 \in S => k \in S
    <3> SUFFICES ASSUME NEW k \in 1..n, k - 1 \in S PROVE k \in S
      OBVIOUS
    <3>1. k - 1 \in Nat /\ (k - 1) + 1 = k
      OBVIOUS
    <3>2. \E h : TurnsTo(h, (k - 1) + 1)
      BY <1>3, <3>1
    <3>3. \E h : TurnsTo(h, k)
      BY <3>1, <3>2
    <3> QED BY <3>3
  <2> HIDE DEF S
  <2>3. n \in S
    BY <2>1, <2>2, UpTo
  <2> QED BY <2>3 DEF S
<1>5. PICK g : TurnsTo(g, n)
  BY <1>4
<1>6. Small(n) = SUBSET DOMAIN seq
  BY <1>1
<1>7. Turns(way, base, seq, g)
  <2> HIDE DEF Small
  <2> QED BY <1>5, <1>6 DEF Turns
<1> QED BY <1>7

\* The results after each turn, and the one after the last.
Run(way, base, seq, out, G) ==
  /\ G[0] = base /\ G[Len(seq)] = out
  /\ \A k \in 1..Len(seq) : G[k] = Turn(way, G[k - 1], seq[k])

LEMMA TurnsRun ==
  ASSUME NEW way, NEW base, NEW n \in Nat, NEW seq, DOMAIN seq = 1..n, Len(seq) = n,
         NEW g, Turns(way, base, seq, g)
  PROVE  \E G : Run(way, base, seq, g[DOMAIN seq], G)
<1> DEFINE G == [k \in 0..n |-> g[1..k]]
<1>1. \A s \in SUBSET (1..n) :
        g[s] = IF s = {} THEN base ELSE Turn(way, g[s \ {Max(s)}], seq[Max(s)])
  BY DEF Turns
<1>2. G[0] = base
  <2>1. 1..0 = {} /\ {} \in SUBSET (1..n)
    OBVIOUS
  <2>2. g[{}] = base
    BY <1>1, <2>1
  <2>3. G[0] = g[1..0]
    OBVIOUS
  <2> QED BY <2>1, <2>2, <2>3
<1>3. ASSUME NEW k \in 1..n PROVE G[k] = Turn(way, G[k - 1], seq[k])
  <2>1. 1..k \in SUBSET (1..n) /\ 1..k # {} /\ 1..k \subseteq 1..k
    OBVIOUS
  <2>2. Max(1..k) = k
    <3>1. k \in Nat /\ k \in 1..k
      OBVIOUS
    <3>2. Max(1..k) \in 1..k /\ \A j \in 1..k : Max(1..k) >= j
      BY <2>1, <3>1, MaxIsIn
    <3> QED BY <3>1, <3>2
  <2>3. (1..k) \ {k} = 1..(k - 1)
    OBVIOUS
  <2> QED BY <1>1, <2>1, <2>2, <2>3
<1>4. G[n] = g[DOMAIN seq]
  OBVIOUS
<1> HIDE DEF G
<1> QED BY <1>2, <1>3, <1>4 DEF Run

Uncut == [segments |-> <<>>, open |-> <<>>]
LEMMA CutRuns ==
  ASSUME NEW n \in Nat, NEW units, DOMAIN units = 1..n, Len(units) = n
  PROVE  \E G : Run("cut", Uncut, units, FoldLeft(AddUnit, Uncut, units), G)
<1> DEFINE iter == CHOOSE h : h = [s \in SUBSET DOMAIN units |->
                     IF s = {} THEN Uncut ELSE AddUnit(h[s \ {Max(s)}], units[Max(s)])]
<1>1. \E g : Turns("cut", Uncut, units, g)
  BY TurnsExist
<1>2. \E g : g = [s \in SUBSET DOMAIN units |->
                     IF s = {} THEN Uncut ELSE AddUnit(g[s \ {Max(s)}], units[Max(s)])]
  BY <1>1 DEF Turns, Turn
<1>3. iter = [s \in SUBSET DOMAIN units |->
                IF s = {} THEN Uncut ELSE AddUnit(iter[s \ {Max(s)}], units[Max(s)])]
  BY <1>2
<1>4. FoldLeft(AddUnit, Uncut, units) = iter[DOMAIN units]
  BY DEF FoldLeft, MapThenFoldSet, Max
<1> HIDE DEF iter
<1>5. Turns("cut", Uncut, units, iter)
  BY <1>3 DEF Turns, Turn
<1> QED BY <1>4, <1>5, TurnsRun

LEMMA SumRuns ==
  ASSUME NEW n \in Nat, NEW piece, DOMAIN piece = 1..n, Len(piece) = n
  PROVE  \E G : Run("sum", 0, piece, Tokens(piece), G)
<1> DEFINE iter == CHOOSE h : h = [s \in SUBSET DOMAIN piece |->
                     IF s = {} THEN 0 ELSE Plus(h[s \ {Max(s)}], piece[Max(s)])]
<1>1. \E g : Turns("sum", 0, piece, g)
  BY TurnsExist
<1>2. \E g : g = [s \in SUBSET DOMAIN piece |->
                     IF s = {} THEN 0 ELSE Plus(g[s \ {Max(s)}], piece[Max(s)])]
  BY <1>1 DEF Turns, Turn
<1>3. iter = [s \in SUBSET DOMAIN piece |->
                IF s = {} THEN 0 ELSE Plus(iter[s \ {Max(s)}], piece[Max(s)])]
  BY <1>2
<1>4. Tokens(piece) = iter[DOMAIN piece]
  BY DEF Tokens, FoldLeft, MapThenFoldSet, Max
<1> HIDE DEF iter
<1>5. Turns("sum", 0, piece, iter)
  BY <1>3 DEF Turns, Turn
<1> QED BY <1>4, <1>5, TurnsRun

-----------------------------------------------------------------------------
(* Pieces of a text.                                                         *)

Unit == Nat \X Nat
Piece == Seq(Unit)
Cutting == [segments: Seq(Piece), open: Piece]

LEMMA VisibleIn == ASSUME NEW p \in Piece PROVE Visible(p) \subseteq 1..Len(p)
BY DEF Visible, Piece

\* Where a piece that has something visible begins and ends once it is stripped.
LEMMA StrippedIsMiddle ==
  ASSUME NEW p \in Piece, Visible(p) # {}
  PROVE  \E a, b \in 1..Len(p) :
           /\ a <= b /\ a \in Visible(p) /\ b \in Visible(p)
           /\ \A i \in Visible(p) : a <= i /\ i <= b
           /\ Stripped(p) = SubSeq(p, a, b)
<1> DEFINE a == Min(Visible(p))
           b == Max(Visible(p))
<1>1. Len(p) \in Nat BY DEF Piece
<1>2. Visible(p) \subseteq Nat BY <1>1, VisibleIn
<1>3. a \in Visible(p) /\ \A k \in Visible(p) : a <= k BY <1>2, MinIsIn
<1>4. b \in Visible(p) /\ \A k \in Visible(p) : b >= k BY <1>1, VisibleIn, MaxIsIn
<1>5. Stripped(p) = SubSeq(p, a, b) BY DEF Stripped
<1> HIDE DEF a, b
<1>6. a \in 1..Len(p) /\ b \in 1..Len(p) /\ a <= b BY <1>3, <1>4, VisibleIn
<1>7. \A i \in Visible(p) : a <= i /\ i <= b BY <1>1, <1>2, <1>3, <1>4, <1>6
<1> QED BY <1>3, <1>4, <1>5, <1>6, <1>7

LEMMA StrippedType == ASSUME NEW p \in Piece PROVE Stripped(p) \in Piece
<1>1. CASE Visible(p) = {}
  <2>1. Stripped(p) = <<>> BY <1>1 DEF Stripped
  <2> QED BY <2>1, EmptySeq DEF Piece
<1>2. CASE Visible(p) # {}
  <2>1. PICK a \in 1..Len(p), b \in 1..Len(p) : Stripped(p) = SubSeq(p, a, b)
    BY <1>2, StrippedIsMiddle
  <2> QED BY <2>1, SubSeqProperties DEF Piece
<1> QED BY <1>1, <1>2

LEMMA KeptType ==
  ASSUME NEW s \in Seq(Piece), NEW p \in Piece PROVE Kept(s, p) \in Seq(Piece)
BY StrippedType DEF Kept

\* What is carried over is an end of the piece.
LEMMA CarriedIsEnd ==
  ASSUME NEW p \in Piece, p # <<>>, OverlapTokens # 0
  PROVE  \E k \in 1..Len(p) :
           /\ Carried(p) = SubSeq(p, Len(p) - k + 1, Len(p))
           /\ k = 1 \/ Tokens(Carried(p)) <= OverlapTokens
<1> DEFINE tail(k) == SubSeq(p, Len(p) - k + 1, Len(p))
           fits == {k \in 1 .. Len(p) : k = 1 \/ Tokens(tail(k)) <= OverlapTokens}
           m == Max(fits)
<1>1. Len(p) \in Nat /\ 1 \in 1..Len(p) BY EmptySeq DEF Piece
<1>2. 1 \in fits BY <1>1
<1>3. fits \subseteq 1..Len(p) OBVIOUS
<1>4. m \in fits
  <2> HIDE DEF fits
  <2> QED BY <1>1, <1>2, <1>3, MaxIsIn
<1>5. Carried(p) = tail(m) BY DEF Carried
<1>6. m \in 1..Len(p) /\ (m = 1 \/ Tokens(tail(m)) <= OverlapTokens) BY <1>4
<1> HIDE DEF m, fits
<1> QED BY <1>5, <1>6

LEMMA CarriedType == ASSUME NEW p \in Piece PROVE Carried(p) \in Piece
<1>1. CASE OverlapTokens = 0 \/ p = <<>>
  <2>1. Carried(p) = <<>> BY <1>1 DEF Carried
  <2> QED BY <2>1, EmptySeq DEF Piece
<1>2. CASE ~(OverlapTokens = 0 \/ p = <<>>)
  <2>1. PICK k \in 1..Len(p) : Carried(p) = SubSeq(p, Len(p) - k + 1, Len(p))
    BY <1>2, CarriedIsEnd
  <2>2. Len(p) \in Nat BY DEF Piece
  <2>3. Len(p) - k + 1 \in 1..Len(p) BY <2>2
  <2> QED BY <2>1, <2>2, <2>3, SubSeqProperties DEF Piece
<1> QED BY <1>1, <1>2

\* How many chunks a long word is cut into, and what is left for the last.
LEMMA ChunkCount ==
  ASSUME NEW u \in Nat, u > 0
  PROVE  LET m == (u + TokenLimit - 1) \div TokenLimit
         IN /\ m \in Nat \ {0}
            /\ (m - 1) * TokenLimit < u /\ u <= m * TokenLimit
<1> DEFINE x == u + TokenLimit - 1
           m == x \div TokenLimit
<1>1. TokenLimit \in Nat /\ TokenLimit > 0 /\ x \in Nat BY LimitAssumption
<1>2. m \in Nat /\ m * TokenLimit <= x /\ x < m * TokenLimit + TokenLimit
  BY <1>1, Z3
<1> QED BY <1>1, <1>2, Z3


\* The chunks of a long word: full ones, and a last one with the rest.
ChunkOf(unit, m, k) == IF k < m THEN TokenLimit ELSE unit[2] - (m - 1) * TokenLimit

LEMMA ChunksAre ==
  ASSUME NEW unit \in Unit, unit[2] > 0
  PROVE  \E m \in Nat \ {0} :
           /\ (m - 1) * TokenLimit < unit[2] /\ unit[2] <= m * TokenLimit
           /\ Chunks(unit) = [k \in 1..m |-> << <<unit[1], ChunkOf(unit, m, k)>> >>]
           /\ \A k \in 1..m : ChunkOf(unit, m, k) \in 1..TokenLimit
<1> DEFINE u == unit[2]
           m == (u + TokenLimit - 1) \div TokenLimit
<1>1. u \in Nat /\ u > 0 /\ unit[1] \in Nat /\ TokenLimit \in Nat /\ TokenLimit > 0
  BY LimitAssumption DEF Unit
<1>2. m \in Nat \ {0} /\ (m - 1) * TokenLimit < u /\ u <= m * TokenLimit
  BY <1>1, ChunkCount
<1>3. Chunks(unit) = [k \in 1..m |-> << <<unit[1], Min({TokenLimit, u - (k - 1) * TokenLimit})>> >>]
  BY DEF Chunks
<1> HIDE DEF m
<1>4. ASSUME NEW k \in 1..m
      PROVE  /\ Min({TokenLimit, u - (k - 1) * TokenLimit}) = ChunkOf(unit, m, k)
             /\ ChunkOf(unit, m, k) \in 1..TokenLimit
  <2>1. CASE k < m
    <3>1. k <= m - 1 BY <1>2, <2>1
    <3>2. k * TokenLimit <= (m - 1) * TokenLimit BY <1>1, <1>2, <3>1, Z3
    <3>3. (k - 1) * TokenLimit = k * TokenLimit - TokenLimit BY <1>1, <1>2, Z3
    <3>4. (k - 1) * TokenLimit \in Int /\ k * TokenLimit \in Int /\ (m - 1) * TokenLimit \in Int
      BY <1>1, <1>2
    <3> DEFINE rest == u - (k - 1) * TokenLimit
    <3>5. rest \in Int /\ TokenLimit <= rest BY <1>1, <1>2, <3>2, <3>3, <3>4
    <3> HIDE DEF rest
    <3>6. Min({TokenLimit, rest}) = TokenLimit BY <1>1, <3>5 DEF Min
    <3> QED BY <1>1, <2>1, <3>6 DEF ChunkOf, rest
  <2>2. CASE ~(k < m)
    <3>1. k = m BY <1>2, <2>2
    <3>2. m * TokenLimit = (m - 1) * TokenLimit + TokenLimit BY <1>1, <1>2, Z3
    <3>3. (m - 1) * TokenLimit \in Int /\ m * TokenLimit \in Int BY <1>1, <1>2
    <3> DEFINE rest == u - (m - 1) * TokenLimit
    <3>4. rest \in Int /\ rest <= TokenLimit /\ rest > 0 BY <1>1, <1>2, <3>2, <3>3
    <3> HIDE DEF rest
    <3>5. Min({TokenLimit, rest}) = rest BY <1>1, <3>4 DEF Min
    <3>6. ChunkOf(unit, m, k) = rest BY <2>2 DEF ChunkOf, rest
    <3>7. rest \in 1..TokenLimit BY <1>1, <3>4
    <3> QED BY <3>1, <3>5, <3>6, <3>7 DEF rest
  <2> QED BY <2>1, <2>2
<1>5. Chunks(unit) = [k \in 1..m |-> << <<unit[1], ChunkOf(unit, m, k)>> >>]
  BY <1>3, <1>4
<1> QED BY <1>2, <1>4, <1>5

LEMMA ChunksType ==
  ASSUME NEW unit \in Unit PROVE Chunks(unit) \in Seq(Piece)
<1>0. unit[2] \in Nat /\ unit[1] \in Nat BY DEF Unit
<1>1. CASE unit[2] > 0
  <2>1. PICK m \in Nat \ {0} :
           /\ Chunks(unit) = [k \in 1..m |-> << <<unit[1], ChunkOf(unit, m, k)>> >>]
           /\ \A k \in 1..m : ChunkOf(unit, m, k) \in 1..TokenLimit
    BY <1>1, ChunksAre
  <2>2. \A k \in 1..m : << <<unit[1], ChunkOf(unit, m, k)>> >> \in Piece
    BY <1>0, <2>1, LimitAssumption DEF Piece, Unit
  <2> QED BY <2>1, <2>2
<1>2. CASE unit[2] = 0
  <2> DEFINE m == (0 + TokenLimit - 1) \div TokenLimit
  <2>1. m = 0 BY LimitAssumption, Z3
  <2>2. Chunks(unit) = [k \in 1..m |-> << <<unit[1], Min({TokenLimit, unit[2] - (k - 1) * TokenLimit})>> >>]
    BY <1>2 DEF Chunks
  <2> HIDE DEF m
  <2>3. 1..m = {} BY <2>1
  <2>4. Chunks(unit) = <<>> BY <2>2, <2>3
  <2> QED BY <2>4, EmptySeq
<1> QED BY <1>0, <1>1, <1>2

\* Every turn of the loop leaves segments and an open piece.
LEMMA AddUnitType ==
  ASSUME NEW cut \in Cutting, NEW unit \in Unit
  PROVE  AddUnit(cut, unit) \in Cutting
<1> DEFINE flushed == Kept(cut.segments, cut.open)
           over == unit[2] > TokenLimit
           full == cut.open # <<>> /\ Tokens(cut.open) + unit[2] > TokenLimit
<1>1. cut.segments \in Seq(Piece) /\ cut.open \in Piece BY DEF Cutting
<1>2. flushed \in Seq(Piece) BY <1>1, KeptType
<1>3. AddUnit(cut, unit) =
        IF over THEN [segments |-> flushed \o Chunks(unit), open |-> <<>>]
        ELSE IF full THEN [segments |-> flushed, open |-> Append(Carried(cut.open), unit)]
        ELSE [cut EXCEPT !.open = Append(@, unit)]
  BY DEF AddUnit
<1>4. flushed \o Chunks(unit) \in Seq(Piece) BY <1>2, ChunksType, ConcatProperties
<1>5. Append(Carried(cut.open), unit) \in Piece /\ Append(cut.open, unit) \in Piece
  BY <1>1, CarriedType, AppendProperties DEF Piece
<1>6. <<>> \in Piece BY EmptySeq DEF Piece
<1>7. [cut EXCEPT !.open = Append(@, unit)] = [segments |-> cut.segments, open |-> Append(cut.open, unit)]
  BY DEF Cutting
<1> HIDE DEF flushed, over, full
<1>8. \A s \in Seq(Piece), o \in Piece : [segments |-> s, open |-> o] \in Cutting
  BY DEF Cutting
<1>9. CASE over BY <1>3, <1>4, <1>6, <1>8, <1>9
<1>10. CASE ~over /\ full BY <1>2, <1>3, <1>5, <1>8, <1>10
<1>11. CASE ~over /\ ~full BY <1>1, <1>3, <1>5, <1>7, <1>8, <1>11
<1> QED BY <1>9, <1>10, <1>11

LEMMA UnitsType ==
  ASSUME NEW text \in Seq(Nat)
  PROVE  /\ Units(text) \in Piece /\ Len(Units(text)) = Len(text)
         /\ \A i \in 1..Len(text) : Units(text)[i] = <<i, text[i]>>
<1>1. Len(text) \in Nat /\ DOMAIN text = 1..Len(text) OBVIOUS
<1>2. Units(text) = [i \in 1..Len(text) |-> <<i, text[i]>>] BY <1>1 DEF Units
<1>3. \A i \in 1..Len(text) : <<i, text[i]>> \in Unit BY <1>1 DEF Unit
<1> QED BY <1>1, <1>2, <1>3 DEF Piece

LEMMA UncutType == Uncut \in Cutting
BY EmptySeq DEF Uncut, Cutting, Piece

\* What the loop has cut after each unit.
LEMMA CutsAre ==
  ASSUME NEW text \in Seq(Nat)
  PROVE  \E G : /\ G[0] = Uncut
                /\ \A k \in 1..Len(text) : G[k] = AddUnit(G[k - 1], <<k, text[k]>>)
                /\ \A k \in 0..Len(text) : G[k] \in Cutting
                /\ Segments(text) = Kept(G[Len(text)].segments, G[Len(text)].open)
<1> DEFINE n == Len(text)
           units == Units(text)
<1>1. n \in Nat /\ DOMAIN units = 1..n /\ Len(units) = n BY UnitsType DEF Piece, Units
<1>2. PICK G : Run("cut", Uncut, units, FoldLeft(AddUnit, Uncut, units), G)
  BY <1>1, CutRuns
<1>3. G[0] = Uncut /\ G[n] = FoldLeft(AddUnit, Uncut, units) BY <1>1, <1>2 DEF Run
<1>4. \A k \in 1..n : G[k] = AddUnit(G[k - 1], <<k, text[k]>>)
  BY <1>1, <1>2, UnitsType DEF Run, Turn
<1>5. ASSUME NEW k \in 0..n PROVE G[k] \in Cutting
  <2> DEFINE S == {j \in 0..n : G[j] \in Cutting}
  <2>1. 0 \in S BY <1>1, <1>3, UncutType
  <2>2. ASSUME NEW j \in 1..k, j - 1 \in S PROVE j \in S
    <3>1. j \in 1..n /\ <<j, text[j]>> \in Unit BY <1>1 DEF Unit
    <3> QED BY <1>4, <2>2, <3>1, AddUnitType
  <2> HIDE DEF S
  <2>3. k \in S BY <1>1, <2>1, <2>2, UpTo
  <2> QED BY <2>3 DEF S
<1>6. Segments(text) = Kept(G[n].segments, G[n].open) BY <1>3 DEF Segments, Uncut
<1> QED BY <1>3, <1>4, <1>5, <1>6

LEMMA SegmentsType == ASSUME NEW text \in Seq(Nat) PROVE Segments(text) \in Seq(Piece)
<1>1. PICK c \in Cutting : Segments(text) = Kept(c.segments, c.open)
  BY CutsAre
<1> QED BY <1>1, KeptType DEF Cutting

-----------------------------------------------------------------------------
(* Stretches of a text, and what they sum up to.                             *)

\* T[k] is what the first k units of the text measure.
Sums(text, T) ==
  /\ T[0] = 0 /\ \A k \in 0..Len(text) : T[k] \in Nat
  /\ \A k \in 1..Len(text) : T[k] = T[k - 1] + text[k]

\* The units from a to b.
Stretch(text, a, b) == [u \in 1 .. b - a + 1 |-> <<a + u - 1, text[a + u - 1]>>]
Bounds(text, a, b) == a \in 1 .. Len(text) + 1 /\ b \in a - 1 .. Len(text)

LEMMA SumsExist == ASSUME NEW text \in Seq(Nat) PROVE \E T : Sums(text, T)
<1> DEFINE n == Len(text)
           units == Units(text)
<1>1. /\ n \in Nat /\ DOMAIN units = 1..n /\ Len(units) = n
      /\ \A k \in 1..n : units[k] = <<k, text[k]>> /\ text[k] \in Nat
  BY UnitsType DEF Units
<1>2. PICK G : Run("sum", 0, units, Tokens(units), G) BY <1>1, SumRuns
<1>3. G[0] = 0 /\ \A k \in 1..n : G[k] = G[k - 1] + text[k]
  BY <1>1, <1>2 DEF Run, Turn, Plus
<1>4. ASSUME NEW k \in 0..n PROVE G[k] \in Nat
  <2> DEFINE S == {j \in 0..n : G[j] \in Nat}
  <2>1. 0 \in S BY <1>1, <1>3
  <2>2. \A j \in 1..k : j - 1 \in S => j \in S BY <1>1, <1>3
  <2> HIDE DEF S
  <2>3. k \in S BY <1>1, <2>1, <2>2, UpTo
  <2> QED BY <2>3 DEF S
<1> QED BY <1>3, <1>4 DEF Sums

\* What is longer measures no less, and only units that are visible measure.
LEMMA SumsGrow ==
  ASSUME NEW text \in Seq(Nat), NEW T, Sums(text, T),
         NEW a \in 0..Len(text), NEW b \in a..Len(text)
  PROVE  /\ T[a] <= T[b]
         /\ (\A i \in a + 1 .. b : ~(text[i] > 0)) => T[a] = T[b]
<1> DEFINE n == Len(text)
           quiet == \A i \in a + 1 .. b : ~(text[i] > 0)
           S == {d \in 0 .. b - a : T[a] <= T[a + d] /\ (quiet => T[a] = T[a + d])}
<1>1. n \in Nat /\ a \in Nat /\ b \in Nat /\ a <= b /\ b <= n BY SeqHolds
<1>2. \A k \in 0..n : T[k] \in Nat BY DEF Sums
<1>3. 0 \in S
  <2>1. a + 0 = a /\ T[a] \in Nat BY <1>1, <1>2
  <2> QED BY <1>1, <2>1
<1>4. ASSUME NEW d \in 1 .. b - a, d - 1 \in S PROVE d \in S
  <2> DEFINE k == a + d
  <2>1. k \in 1..n /\ k \in a + 1 .. b /\ a + (d - 1) = k - 1 BY <1>1
  <2>2. T[k] = T[k - 1] + text[k] BY <2>1 DEF Sums
  <2>3. text[k] \in Nat /\ T[k - 1] \in Nat /\ T[k] \in Nat /\ T[a] \in Nat
    BY <1>1, <1>2, <2>1, SeqHolds
  <2>4. quiet => text[k] = 0 BY <2>1, <2>3
  <2>5. T[a] <= T[k - 1] /\ (quiet => T[a] = T[k - 1]) BY <1>4, <2>1
  <2> HIDE DEF quiet, k
  <2>6. T[a] <= T[k] /\ (quiet => T[a] = T[k]) BY <2>2, <2>3, <2>4, <2>5
  <2> QED BY <1>1, <2>6 DEF k
<1> HIDE DEF S
<1>5. b - a \in S BY <1>1, <1>3, <1>4, UpTo
<1>6. a + (b - a) = b BY <1>1
<1> QED BY <1>5, <1>6 DEF S

\* What the piece p from a to b is.
StretchShape(text, a, b, p) ==
  /\ a \in Nat /\ b \in Nat /\ a >= 1 /\ b >= a - 1 /\ b <= Len(text) /\ Len(text) \in Nat
  /\ p \in Piece /\ Len(p) = b - a + 1 /\ DOMAIN p = 1 .. b - a + 1 /\ b - a + 1 \in Nat
  /\ \A u \in 1 .. b - a + 1 : /\ p[u] = <<a + u - 1, text[a + u - 1]>>
                              /\ a + u - 1 \in a..b /\ text[a + u - 1] \in Nat
  /\ \A i \in a..b : i - a + 1 \in 1 .. b - a + 1 /\ p[i - a + 1] = <<i, text[i]>> /\ text[i] \in Nat

LEMMA StretchIs ==
  ASSUME NEW text \in Seq(Nat), NEW a, NEW b, Bounds(text, a, b)
  PROVE  StretchShape(text, a, b, Stretch(text, a, b))
<1> DEFINE p == Stretch(text, a, b)
           m == b - a + 1
<1>1. Len(text) \in Nat /\ \A k \in 1..Len(text) : text[k] \in Nat BY SeqHolds
<1>2. a \in Nat /\ b \in Nat /\ a >= 1 /\ b >= a - 1 /\ b <= Len(text) BY <1>1 DEF Bounds
<1>3. m \in Nat BY <1>2
<1>4. \A u \in 1..m : a + u - 1 \in a..b /\ a + u - 1 \in 1..Len(text) BY <1>1, <1>2
<1>5. \A u \in 1..m : <<a + u - 1, text[a + u - 1]>> \in Unit BY <1>1, <1>2, <1>4 DEF Unit
<1>6. p = [u \in 1..m |-> <<a + u - 1, text[a + u - 1]>>] BY DEF Stretch
<1>7. \A i \in a..b : i - a + 1 \in 1..m /\ a + (i - a + 1) - 1 = i /\ i \in 1..Len(text) BY <1>1, <1>2
<1> HIDE DEF m
<1>8. p \in Piece /\ Len(p) = m /\ DOMAIN p = 1..m BY <1>3, <1>5, <1>6 DEF Piece
<1>9. \A u \in 1..m : p[u] = <<a + u - 1, text[a + u - 1]>> BY <1>6
<1>10. \A i \in a..b : p[i - a + 1] = <<i, text[i]>> BY <1>7, <1>9
<1>11. \A u \in 1..m : p[u] = <<a + u - 1, text[a + u - 1]>> /\ a + u - 1 \in a..b /\ text[a + u - 1] \in Nat
  BY <1>1, <1>4, <1>9
<1>12. \A i \in a..b : i - a + 1 \in 1..m /\ p[i - a + 1] = <<i, text[i]>> /\ text[i] \in Nat
  BY <1>1, <1>7, <1>10
<1> HIDE DEF p
<1>13. /\ p \in Piece /\ Len(p) = b - a + 1 /\ DOMAIN p = 1 .. b - a + 1 /\ b - a + 1 \in Nat
  BY <1>3, <1>8 DEF m
<1>14. \A u \in 1 .. b - a + 1 : p[u] = <<a + u - 1, text[a + u - 1]>> /\ a + u - 1 \in a..b /\ text[a + u - 1] \in Nat
  BY <1>11 DEF m
<1>15. \A i \in a..b : i - a + 1 \in 1 .. b - a + 1 /\ p[i - a + 1] = <<i, text[i]>> /\ text[i] \in Nat
  BY <1>12 DEF m
<1>16. StretchShape(text, a, b, p)
  BY <1>1, <1>2, <1>13, <1>14, <1>15 DEF StretchShape
<1> QED BY <1>16 DEF p

LEMMA StretchTokens ==
  ASSUME NEW text \in Seq(Nat), NEW T, Sums(text, T), NEW a, NEW b, Bounds(text, a, b)
  PROVE  Tokens(Stretch(text, a, b)) = T[b] - T[a - 1]
<1> DEFINE m == b - a + 1
<1>0. StretchShape(text, a, b, Stretch(text, a, b)) BY StretchIs
<1> DEFINE p == Stretch(text, a, b)
<1>1. /\ a \in Nat /\ b \in Nat /\ a >= 1 /\ b >= a - 1 /\ b <= Len(text) /\ Len(text) \in Nat
      /\ p \in Piece /\ Len(p) = m /\ DOMAIN p = 1..m
      /\ \A u \in 1..m : p[u] = <<a + u - 1, text[a + u - 1]>>
  BY <1>0 DEF StretchShape
<1>2. m \in Nat BY <1>1
<1> HIDE DEF p
<1>3. PICK G : Run("sum", 0, p, Tokens(p), G) BY <1>1, <1>2, SumRuns
<1>4. G[0] = 0 /\ G[m] = Tokens(p) /\ \A k \in 1..m : G[k] = G[k - 1] + text[a + k - 1]
  BY <1>1, <1>3 DEF Run, Turn, Plus
<1> DEFINE S == {k \in 0..m : G[k] = T[a + k - 1] - T[a - 1]}
<1>5. \A k \in 0..m : T[a + k - 1] \in Nat
  <2>1. \A k \in 0..m : a + k - 1 \in 0..Len(text) BY <1>1
  <2> QED BY <2>1 DEF Sums
<1>6. 0 \in S
  <2>1. a + 0 - 1 = a - 1 BY <1>1
  <2>2. T[a - 1] \in Nat BY <1>2, <1>5, <2>1
  <2> QED BY <1>2, <1>4, <2>1, <2>2
<1>7. ASSUME NEW k \in 1..m, k - 1 \in S PROVE k \in S
  <2> DEFINE i == a + k - 1
  <2>1. i \in 1..Len(text) /\ a + (k - 1) - 1 = i - 1 /\ a + 0 - 1 = a - 1 /\ a + (k - 1) - 1 = i - 1
    BY <1>1
  <2>2. T[i] = T[i - 1] + text[i] BY <2>1 DEF Sums
  <2>3. G[k - 1] = T[i - 1] - T[a - 1] BY <1>7, <2>1
  <2>4. G[k] = G[k - 1] + text[i] BY <1>4
  <2>5. T[i] \in Nat /\ T[i - 1] \in Nat /\ T[a - 1] \in Nat /\ text[i] \in Nat
    <3>1. k - 1 \in 0..m /\ k \in 0..m /\ 0 \in 0..m BY <1>2
    <3> QED BY <1>5, <2>1, <3>1, SeqHolds
  <2> HIDE DEF i
  <2>6. G[k] = T[i] - T[a - 1] BY <2>2, <2>3, <2>4, <2>5
  <2> QED BY <2>6 DEF i
<1> HIDE DEF S
<1>8. m \in S BY <1>2, <1>6, <1>7, UpTo
<1>9. a + m - 1 = b BY <1>1
<1> QED BY <1>4, <1>8, <1>9 DEF S, p

LEMMA Appended ==
  ASSUME NEW S, NEW s \in Seq(S), NEW x \in S
  PROVE  /\ Append(s, x) \in Seq(S) /\ Len(Append(s, x)) = Len(s) + 1 /\ Len(s) \in Nat
         /\ \A i \in 1..Len(s) : Append(s, x)[i] = s[i]
         /\ Append(s, x)[Len(s) + 1] = x
OBVIOUS

\* A part of a stretch is one.
LEMMA StretchPart ==
  ASSUME NEW text \in Seq(Nat), NEW a, NEW b, Bounds(text, a, b), NEW c \in a .. b + 1, NEW d \in c - 1 .. b
  PROVE  /\ Bounds(text, c, d)
         /\ SubSeq(Stretch(text, a, b), c - a + 1, d - a + 1) = Stretch(text, c, d)
<1> DEFINE p == Stretch(text, a, b)
           q == Stretch(text, c, d)
           r == SubSeq(p, c - a + 1, d - a + 1)
<1>1. StretchShape(text, a, b, p) BY StretchIs
<1>2. Bounds(text, c, d) BY <1>1 DEF StretchShape, Bounds
<1>3. StretchShape(text, c, d, q) BY <1>2, StretchIs
<1> HIDE DEF p, q
<1>4. c \in Nat /\ d \in Int /\ a \in Nat /\ b \in Nat /\ a <= c /\ d <= b /\ d >= c - 1
      /\ c - a + 1 \in Int /\ d - a + 1 \in Int
  BY <1>1 DEF StretchShape
<1>5. \A i \in c - a + 1 .. d - a + 1 : i \in 1 .. b - a + 1 /\ p[i] \in Unit
  <2>1. \A i \in c - a + 1 .. d - a + 1 : i \in 1 .. b - a + 1 BY <1>4
  <2>2. p \in Seq(Unit) /\ Len(p) = b - a + 1 BY <1>1 DEF StretchShape, Piece
  <2> QED BY <2>1, <2>2
<1>6. /\ r \in Seq(Unit) /\ Len(r) = d - c + 1
      /\ \A i \in 1 .. d - c + 1 : r[i] = p[c - a + 1 + i - 1]
  <2> DEFINE m == c - a + 1
             n == d - a + 1
  <2>1. m \in Int /\ n \in Int /\ \A i \in m..n : p[i] \in Unit BY <1>4, <1>5
  <2>2. n - m + 1 = d - c + 1 /\ (m <= n <=> c <= d) /\ d >= c - 1 BY <1>4
  <2> HIDE DEF m, n, r
  <2>3. /\ SubSeq(p, m, n) \in Seq(Unit)
        /\ Len(SubSeq(p, m, n)) = IF m <= n THEN n - m + 1 ELSE 0
        /\ \A i \in 1 .. n - m + 1 : SubSeq(p, m, n)[i] = p[m + i - 1]
    BY <2>1, SubSeqProperties
  <2>4. Len(SubSeq(p, m, n)) = d - c + 1 BY <1>4, <2>2, <2>3
  <2>5. r = SubSeq(p, m, n) BY DEF r, m, n
  <2>6. \A i \in 1 .. d - c + 1 : SubSeq(p, m, n)[i] = p[m + i - 1] BY <2>2, <2>3
  <2>7. \A i \in 1 .. d - c + 1 : r[i] = p[c - a + 1 + i - 1] BY <2>5, <2>6 DEF m
  <2> QED BY <2>3, <2>4, <2>5, <2>7
<1>7. Len(r) = d - c + 1 BY <1>6
<1>8. q \in Seq(Unit) /\ Len(q) = d - c + 1 BY <1>3 DEF StretchShape, Piece
<1>9. ASSUME NEW i \in 1 .. d - c + 1 PROVE r[i] = q[i]
  <2> DEFINE u == c - a + 1 + i - 1
  <2>1. u \in 1 .. b - a + 1 /\ a + u - 1 = c + i - 1 BY <1>4
  <2>2. r[i] = p[u] BY <1>6, <2>1
  <2> HIDE DEF u
  <2>3. p[u] = <<a + u - 1, text[a + u - 1]>> BY <1>1, <2>1 DEF StretchShape
  <2>4. q[i] = <<c + i - 1, text[c + i - 1]>> BY <1>3 DEF StretchShape
  <2> QED BY <2>1, <2>2, <2>3, <2>4
<1> HIDE DEF r
<1>10. r = q BY <1>6, <1>7, <1>8, <1>9, SeqEqual
<1> QED BY <1>2, <1>10 DEF r, p, q

LEMMA StretchGrows ==
  ASSUME NEW text \in Seq(Nat), NEW a, NEW b, Bounds(text, a, b), b < Len(text)
  PROVE  /\ Bounds(text, a, b + 1)
         /\ Append(Stretch(text, a, b), <<b + 1, text[b + 1]>>) = Stretch(text, a, b + 1)
<1> DEFINE p == Stretch(text, a, b)
           d == b + 1
           q == Stretch(text, a, d)
           x == <<b + 1, text[b + 1]>>
           r == Append(p, x)
<1>1. StretchShape(text, a, b, p) BY StretchIs
<1>2. Bounds(text, a, d) BY <1>1 DEF StretchShape, Bounds
<1>3. StretchShape(text, a, d, q) BY <1>2, StretchIs
<1>4. x \in Unit
  <2>1. b + 1 \in 1..Len(text) /\ b + 1 \in Nat BY <1>1 DEF StretchShape
  <2> QED BY <2>1, SeqHolds DEF Unit
<1>d. d = b + 1 OBVIOUS
<1> HIDE DEF p, q, x, d
<1>5. p \in Seq(Unit) /\ Len(p) = b - a + 1 /\ q \in Seq(Unit) /\ Len(q) = d - a + 1 /\ a \in Nat /\ b \in Nat
      /\ Len(p) \in Nat
  BY <1>1, <1>3 DEF StretchShape, Piece
<1>6. r \in Seq(Unit) /\ Len(r) = Len(p) + 1 /\ (\A i \in 1..Len(p) : r[i] = p[i]) /\ r[Len(p) + 1] = x
  <2>1. p \in Seq(Unit) /\ x \in Unit BY <1>4, <1>5
  <2>2. /\ Append(p, x) \in Seq(Unit) /\ Len(Append(p, x)) = Len(p) + 1
        /\ (\A i \in 1..Len(p) : Append(p, x)[i] = p[i]) /\ Append(p, x)[Len(p) + 1] = x
    BY <2>1, Appended
  <2> QED BY <2>2
<1>7. ASSUME NEW i \in 1 .. Len(p) + 1 PROVE r[i] = q[i]
  <2>0. i \in 1 .. d - a + 1 BY <1>5, <1>d
  <2>1. q[i] = <<a + i - 1, text[a + i - 1]>> BY <1>3, <2>0 DEF StretchShape
  <2>2. CASE i = Len(p) + 1
    <3>1. a + i - 1 = b + 1 BY <1>5, <2>2
    <3> QED BY <1>6, <2>1, <2>2, <3>1 DEF x
  <2>3. CASE i # Len(p) + 1
    <3>1. i \in 1..Len(p) BY <1>5, <2>3
    <3>2. i \in 1 .. b - a + 1 BY <1>5, <3>1
    <3>3. p[i] = <<a + i - 1, text[a + i - 1]>> BY <1>1, <3>2 DEF StretchShape
    <3> QED BY <1>6, <2>1, <3>1, <3>3
  <2> QED BY <2>2, <2>3
<1> HIDE DEF r
<1>8. Len(r) = Len(q) BY <1>5, <1>6, <1>d
<1>9. r = q BY <1>5, <1>6, <1>7, <1>8, SeqEqual
<1> QED BY <1>2, <1>9 DEF r, p, q, x, d

LEMMA EmptyStretch ==
  ASSUME NEW text \in Seq(Nat), NEW a \in 1 .. Len(text) + 1
  PROVE  Bounds(text, a, a - 1) /\ Stretch(text, a, a - 1) = <<>>
<1>1. Bounds(text, a, a - 1) BY SeqHolds DEF Bounds
<1>2. StretchShape(text, a, a - 1, Stretch(text, a, a - 1)) BY <1>1, StretchIs
<1>3. Stretch(text, a, a - 1) \in Seq(Unit) /\ Len(Stretch(text, a, a - 1)) = a - 1 - a + 1 /\ a \in Nat
  BY <1>2 DEF StretchShape, Piece
<1>4. Len(Stretch(text, a, a - 1)) = 0 BY <1>3
<1> QED BY <1>1, <1>3, <1>4, EmptySeq

LEMMA StretchVisible ==
  ASSUME NEW text \in Seq(Nat), NEW a, NEW b, Bounds(text, a, b)
  PROVE  /\ \A u \in Visible(Stretch(text, a, b)) : a + u - 1 \in a..b /\ text[a + u - 1] > 0
         /\ \A i \in a..b : text[i] > 0 => i - a + 1 \in Visible(Stretch(text, a, b))
<1> DEFINE p == Stretch(text, a, b)
<1>1. StretchShape(text, a, b, p) BY StretchIs
<1> HIDE DEF p
<1>0. DOMAIN p = 1 .. b - a + 1 BY <1>1 DEF StretchShape
<1>2. Visible(p) = {u \in 1 .. b - a + 1 : p[u][2] > 0} BY <1>0 DEF Visible
<1>3. ASSUME NEW u \in 1 .. b - a + 1 PROVE a + u - 1 \in a..b /\ p[u][2] = text[a + u - 1]
  <2>1. p[u] = <<a + u - 1, text[a + u - 1]>> /\ a + u - 1 \in a..b BY <1>1 DEF StretchShape
  <2> QED BY <2>1
<1>4. ASSUME NEW i \in a..b PROVE i - a + 1 \in 1 .. b - a + 1 /\ p[i - a + 1][2] = text[i]
  <2>1. i - a + 1 \in 1 .. b - a + 1 /\ p[i - a + 1] = <<i, text[i]>> BY <1>1 DEF StretchShape
  <2> QED BY <2>1
<1> QED BY <1>2, <1>3, <1>4 DEF p

\* What is left of a stretch once it is stripped: it begins and ends with
\* something visible, has all that is, and measures as much.
Middle(text, T, a, b, c, d) ==
  /\ c \in a..b /\ d \in c..b /\ text[c] > 0 /\ text[d] > 0
  /\ \A i \in a..b : text[i] > 0 => c <= i /\ i <= d
  /\ T[d] - T[c - 1] = T[b] - T[a - 1]

LEMMA StretchStripped ==
  ASSUME NEW text \in Seq(Nat), NEW T, Sums(text, T), NEW a, NEW b, Bounds(text, a, b),
         NEW v \in a..b, text[v] > 0
  PROVE  /\ Visible(Stretch(text, a, b)) # {}
         /\ \E c, d : Middle(text, T, a, b, c, d) /\ Stripped(Stretch(text, a, b)) = Stretch(text, c, d)
<1> DEFINE p == Stretch(text, a, b)
<1>1. StretchShape(text, a, b, p) BY StretchIs
<1>2. /\ \A u \in Visible(p) : a + u - 1 \in a..b /\ text[a + u - 1] > 0
      /\ \A i \in a..b : text[i] > 0 => i - a + 1 \in Visible(p)
  BY StretchVisible
<1> HIDE DEF p
<1>3. Visible(p) # {} BY <1>2
<1>4. p \in Piece /\ Len(p) = b - a + 1 /\ a \in Nat /\ b \in Nat /\ a >= 1 /\ b <= Len(text) /\ Len(text) \in Nat
  BY <1>1 DEF StretchShape
<1>5. PICK l \in 1..Len(p), r \in 1..Len(p) :
         /\ l <= r /\ l \in Visible(p) /\ r \in Visible(p)
         /\ \A i \in Visible(p) : l <= i /\ i <= r
         /\ Stripped(p) = SubSeq(p, l, r)
  BY <1>3, <1>4, StrippedIsMiddle
<1> DEFINE c == a + l - 1
           d == a + r - 1
<1>6. /\ l \in Nat /\ r \in Nat /\ c \in a..b /\ d \in c..b /\ l = c - a + 1 /\ r = d - a + 1
      /\ c \in a .. b + 1 /\ d \in c - 1 .. b
  BY <1>4, <1>5
<1>7. text[c] > 0 /\ text[d] > 0 BY <1>2, <1>5
<1>8. \A i \in a..b : text[i] > 0 => c <= i /\ i <= d
  <2> SUFFICES ASSUME NEW i \in a..b, text[i] > 0 PROVE c <= i /\ i <= d
    OBVIOUS
  <2>1. l <= i - a + 1 /\ i - a + 1 <= r BY <1>2, <1>5
  <2> QED BY <1>4, <1>6, <2>1
<1> HIDE DEF c, d
<1>9. Stripped(p) = Stretch(text, c, d)
  <2>1. SubSeq(p, c - a + 1, d - a + 1) = Stretch(text, c, d) BY <1>6, StretchPart DEF p
  <2>2. SubSeq(p, l, r) = SubSeq(p, c - a + 1, d - a + 1) BY <1>6
  <2> QED BY <1>5, <2>1, <2>2
<1>10. T[d] - T[c - 1] = T[b] - T[a - 1]
  <2>1. c - 1 \in 0..Len(text) /\ c - 1 \in a - 1 .. Len(text) /\ a - 1 \in 0..Len(text) /\ d \in 0..Len(text) /\ b \in d..Len(text)
        /\ b \in 0..Len(text)
    BY <1>4, <1>6
  <2>2. \A i \in a - 1 + 1 .. c - 1 : ~(text[i] > 0)
    <3> SUFFICES ASSUME NEW i \in a .. c - 1, text[i] > 0 PROVE FALSE
      BY <1>4
    <3>1. i \in a..b /\ ~(c <= i) BY <1>4, <1>6
    <3> QED BY <1>8, <3>1
  <2>3. \A i \in d + 1 .. b : ~(text[i] > 0)
    <3> SUFFICES ASSUME NEW i \in d + 1 .. b, text[i] > 0 PROVE FALSE
      OBVIOUS
    <3>1. i \in a..b /\ ~(i <= d) BY <1>4, <1>6
    <3> QED BY <1>8, <3>1
  <2>4. T[a - 1] = T[c - 1]
    <3> DEFINE e == a - 1
               f == c - 1
    <3>1. e \in 0..Len(text) /\ f \in e..Len(text) /\ \A i \in e + 1 .. f : ~(text[i] > 0)
      BY <2>1, <2>2
    <3> HIDE DEF e, f
    <3>2. T[e] = T[f] BY <3>1, SumsGrow
    <3> QED BY <3>2 DEF e, f
  <2>5. T[d] = T[b] BY <2>1, <2>3, SumsGrow
  <2> QED BY <2>4, <2>5
<1>11. Middle(text, T, a, b, c, d) BY <1>6, <1>7, <1>8, <1>10 DEF Middle
<1> QED BY <1>3, <1>9, <1>11 DEF p

\* What is carried over is a stretch that ends where it ended, within the overlap
\* or a single unit.
LEMMA StretchCarried ==
  ASSUME NEW text \in Seq(Nat), NEW T, Sums(text, T), NEW a, NEW b, Bounds(text, a, b)
  PROVE  \E c \in a .. b + 1 :
           /\ Carried(Stretch(text, a, b)) = Stretch(text, c, b)
           /\ c <= b => c = b \/ T[b] - T[c - 1] <= OverlapTokens
<1> DEFINE p == Stretch(text, a, b)
<1>1. StretchShape(text, a, b, p) BY StretchIs
<1> HIDE DEF p
<1>2. p \in Piece /\ Len(p) = b - a + 1 /\ a \in Nat /\ b \in Nat /\ a >= 1 /\ b <= Len(text) /\ Len(text) \in Nat
      /\ b >= a - 1
  BY <1>1 DEF StretchShape
<1>3. CASE OverlapTokens = 0 \/ p = <<>>
  <2>1. Carried(p) = <<>> BY <1>3 DEF Carried
  <2> DEFINE c == b + 1
  <2>2. c \in 1 .. Len(text) + 1 /\ c - 1 = b /\ c \in a .. b + 1 /\ ~(c <= b) BY <1>2
  <2> HIDE DEF c
  <2>3. Stretch(text, c, c - 1) = <<>> BY <2>2, EmptyStretch
  <2>4. Carried(p) = Stretch(text, c, b) BY <2>1, <2>2, <2>3
  <2> QED BY <2>2, <2>4 DEF p
<1>4. CASE ~(OverlapTokens = 0 \/ p = <<>>)
  <2>1. PICK k \in 1..Len(p) : /\ Carried(p) = SubSeq(p, Len(p) - k + 1, Len(p))
                               /\ k = 1 \/ Tokens(Carried(p)) <= OverlapTokens
    BY <1>2, <1>4, CarriedIsEnd
  <2> DEFINE c == b - k + 1
  <2>2. /\ c \in a .. b + 1 /\ b \in c - 1 .. b /\ Len(p) - k + 1 = c - a + 1 /\ Len(p) = b - a + 1
        /\ (k = 1 => c = b)
    BY <1>2
  <2> HIDE DEF c
  <2>3. Bounds(text, c, b) /\ Carried(p) = Stretch(text, c, b)
    BY <2>1, <2>2, StretchPart DEF p
  <2>4. Tokens(Carried(p)) = T[b] - T[c - 1] BY <2>3, StretchTokens
  <2> QED BY <2>1, <2>2, <2>3, <2>4 DEF p
<1> QED BY <1>3, <1>4

-----------------------------------------------------------------------------
(* Segments of the first units of a text.                                    *)

\* A stretch of whole words, and a part of a word that is cut.
Whole(text, b, p) ==
  \E x \in 1..b : \E y \in x..b :
    p = Stretch(text, x, y) /\ \A i \in x..y : text[i] <= TokenLimit
Part(text, b, p) ==
  \E i \in 1..b, c \in 1..TokenLimit : text[i] > TokenLimit /\ p = << <<i, c>> >>
Segment(text, b, p) == Whole(text, b, p) \/ Part(text, b, p)

\* What the properties ask of a segment and the next.
Within(p, q) ==
  LET again == Shared(p, q)
  IN \/ Len(q) = 1 /\ Tokens(q) <= TokenLimit
     \/ /\ Tokens(q) <= TokenLimit + Tokens(again)
        /\ Tokens(again) <= OverlapTokens \/ Cardinality(Visible(again)) = 1
Follows(text, p, q) ==
  /\ \/ Last(p)[1] < Last(q)[1]
     \/ Len(q) = 1 /\ text[Last(q)[1]] > TokenLimit
     \/ Tokens(p) > TokenLimit
  /\ Within(p, q)

HasUnit(p, i) == \E u \in DOMAIN p : p[u][1] = i
Holds(s, i) == {k \in DOMAIN s : HasUnit(s[k], i)}
CutWord(text, s, i) ==
  \E j, l \in DOMAIN s :
    /\ j <= l /\ Holds(s, i) = j .. l
    /\ \A k \in j .. l - 1 : s[k] = << <<i, TokenLimit>> >>
    /\ s[l] = << <<i, text[i] - (l - j) * TokenLimit>> >>
Covered(text, s, i) == IF text[i] > TokenLimit THEN CutWord(text, s, i) ELSE Holds(s, i) # {}

\* The segments s hold the first b units of the text.
Made(text, b, s) ==
  /\ s \in Seq(Piece)
  /\ \A k \in DOMAIN s : Segment(text, b, s[k])
  /\ \A k \in DOMAIN s : k > 1 => Follows(text, s[k - 1], s[k])
  /\ \A i \in 1..b : text[i] > 0 => Covered(text, s, i)

LEMMA StretchHas ==
  ASSUME NEW text \in Seq(Nat), NEW a, NEW b, Bounds(text, a, b)
  PROVE  \A i : HasUnit(Stretch(text, a, b), i) <=> i \in a..b
<1> DEFINE p == Stretch(text, a, b)
<1>1. StretchShape(text, a, b, p) BY StretchIs
<1> HIDE DEF p
<1>2. DOMAIN p = 1 .. b - a + 1 BY <1>1 DEF StretchShape
<1>3. ASSUME NEW u \in DOMAIN p PROVE p[u][1] \in a..b
  <2>1. p[u] = <<a + u - 1, text[a + u - 1]>> /\ a + u - 1 \in a..b BY <1>1, <1>2 DEF StretchShape
  <2> QED BY <2>1
<1>4. ASSUME NEW i \in a..b PROVE HasUnit(p, i)
  <2>1. i - a + 1 \in 1 .. b - a + 1 /\ p[i - a + 1] = <<i, text[i]>> BY <1>1 DEF StretchShape
  <2>2. i - a + 1 \in DOMAIN p /\ p[i - a + 1][1] = i BY <1>2, <2>1
  <2> QED BY <2>2 DEF HasUnit
<1> QED BY <1>3, <1>4 DEF HasUnit, p

LEMMA SegmentHas ==
  ASSUME NEW text \in Seq(Nat), NEW b \in 0..Len(text), NEW p, Segment(text, b, p)
  PROVE  /\ p \in Piece
         /\ \A i : HasUnit(p, i) => i \in 1..b
         /\ \A c \in b..Len(text) : Segment(text, c, p)
<1>0. Len(text) \in Nat /\ b \in Nat OBVIOUS
<1>1. CASE Whole(text, b, p)
  <2>1. PICK x \in 1..b : \E y \in x..b :
           p = Stretch(text, x, y) /\ \A i \in x..y : text[i] <= TokenLimit
    BY <1>1 DEF Whole
  <2>7. PICK y \in x..b : p = Stretch(text, x, y) /\ \A i \in x..y : text[i] <= TokenLimit
    BY <2>1
  <2>2. Bounds(text, x, y) BY <1>0 DEF Bounds
  <2>3. \A i : HasUnit(p, i) => i \in x..y BY <2>7, <2>2, StretchHas
  <2>4. p \in Piece BY <2>7, <2>2, StretchIs DEF StretchShape
  <2>5. \A c \in b..Len(text) : x \in 1..c /\ y \in x..c BY <1>0
  <2>6. \A c \in b..Len(text) : Whole(text, c, p) BY <2>7, <2>5 DEF Whole
  <2> QED BY <2>3, <2>4, <2>6 DEF Segment
<1>2. CASE Part(text, b, p)
  <2>1. PICK j \in 1..b, d \in 1..TokenLimit : text[j] > TokenLimit /\ p = << <<j, d>> >>
    BY <1>2 DEF Part
  <2>2. <<j, d>> \in Unit BY LimitAssumption DEF Unit
  <2>3. p \in Piece BY <2>1, <2>2 DEF Piece
  <2>4. \A i : HasUnit(p, i) => i = j BY <2>1 DEF HasUnit
  <2>5. \A c \in b..Len(text) : j \in 1..c BY <1>0
  <2>6. \A c \in b..Len(text) : Part(text, c, p) BY <2>1, <2>5 DEF Part
  <2> QED BY <2>3, <2>4, <2>6 DEF Segment
<1> QED BY <1>1, <1>2 DEF Segment

LEMMA HoldsJoined ==
  ASSUME NEW s \in Seq(Piece), NEW t \in Seq(Piece)
  PROVE  /\ s \o t \in Seq(Piece) /\ Len(s \o t) = Len(s) + Len(t)
         /\ Len(s) \in Nat /\ Len(t) \in Nat
         /\ DOMAIN (s \o t) = 1 .. Len(s) + Len(t) /\ DOMAIN s = 1..Len(s) /\ DOMAIN t = 1..Len(t)
         /\ \A k \in 1..Len(s) : (s \o t)[k] = s[k]
         /\ \A k \in 1..Len(t) : (s \o t)[Len(s) + k] = t[k]
         /\ \A i : /\ \A k \in 1..Len(s) : k \in Holds(s \o t, i) <=> k \in Holds(s, i)
                   /\ \A k \in 1..Len(t) : Len(s) + k \in Holds(s \o t, i) <=> k \in Holds(t, i)
<1> DEFINE r == s \o t
           n == Len(s)
           m == Len(t)
<1>1. n \in Nat /\ m \in Nat /\ DOMAIN s = 1..n /\ DOMAIN t = 1..m OBVIOUS
<1>2. r \in Seq(Piece) /\ Len(r) = n + m /\ \A k \in 1 .. n + m : r[k] = IF k <= n THEN s[k] ELSE t[k - n]
  <2> HIDE DEF Piece
  <2> QED BY ConcatProperties
<1> HIDE DEF r, n, m
<1>3. DOMAIN r = 1 .. n + m BY <1>1, <1>2
<1>4. \A k \in 1..n : r[k] = s[k] /\ k \in 1 .. n + m BY <1>1, <1>2
<1>5. ASSUME NEW k \in 1..m PROVE r[n + k] = t[k] /\ n + k \in 1 .. n + m
  <2> DEFINE j == n + k
  <2>1. j \in 1 .. n + m /\ ~(j <= n) /\ j - n = k BY <1>1
  <2> HIDE DEF j
  <2>2. r[j] = t[j - n] BY <1>2, <2>1
  <2>3. r[j] = t[k] BY <2>1, <2>2
  <2> QED BY <2>1, <2>3 DEF j
<1>6. ASSUME NEW i
      PROVE  /\ \A k \in 1..n : k \in Holds(r, i) <=> k \in Holds(s, i)
             /\ \A k \in 1..m : n + k \in Holds(r, i) <=> k \in Holds(t, i)
  BY <1>1, <1>3, <1>4, <1>5 DEF Holds
<1> QED BY <1>1, <1>2, <1>3, <1>4, <1>5, <1>6 DEF r, n, m

LEMMA CutWordJoined ==
  ASSUME NEW text \in Seq(Nat), NEW s \in Seq(Piece), NEW t \in Seq(Piece), NEW i, text[i] \in Nat
  PROVE  /\ CutWord(text, s, i) /\ Holds(t, i) = {} => CutWord(text, s \o t, i)
         /\ CutWord(text, t, i) /\ Holds(s, i) = {} => CutWord(text, s \o t, i)
<1> DEFINE r == s \o t
           n == Len(s)
           m == Len(t)
<1>1. /\ n \in Nat /\ m \in Nat /\ DOMAIN s = 1..n /\ DOMAIN t = 1..m /\ DOMAIN r = 1 .. n + m
      /\ \A k \in 1..n : r[k] = s[k] /\ (k \in Holds(r, i) <=> k \in Holds(s, i))
      /\ \A k \in 1..m : r[n + k] = t[k] /\ (n + k \in Holds(r, i) <=> k \in Holds(t, i))
  BY HoldsJoined
<1> HIDE DEF r, n, m
<1>2. Holds(r, i) \subseteq 1 .. n + m /\ Holds(s, i) \subseteq 1..n /\ Holds(t, i) \subseteq 1..m
  BY <1>1 DEF Holds
<1>3. \A k \in 1 .. n + m : k \in 1..n \/ (k - n \in 1..m /\ n + (k - n) = k) BY <1>1
<1>4. ASSUME CutWord(text, s, i), Holds(t, i) = {} PROVE CutWord(text, r, i)
  <2>1. PICK j \in 1..n, l \in 1..n :
          /\ j <= l /\ Holds(s, i) = j .. l
          /\ \A k \in j .. l - 1 : s[k] = << <<i, TokenLimit>> >>
          /\ s[l] = << <<i, text[i] - (l - j) * TokenLimit>> >>
    BY <1>1, <1>4 DEF CutWord
  <2>2. Holds(r, i) = j..l
    <3>1. \A k \in j..l : k \in 1..n /\ k \in Holds(r, i) BY <1>1, <2>1
    <3>2. ASSUME NEW k \in Holds(r, i) PROVE k \in j..l
      <4>1. k \in 1..n BY <1>1, <1>2, <1>3, <1>4
      <4> QED BY <1>1, <2>1, <4>1
    <3> QED BY <3>1, <3>2
  <2>3. j \in 1 .. n + m /\ l \in 1 .. n + m /\ \A k \in j .. l - 1 : k \in 1..n BY <1>1
  <2> QED BY <1>1, <2>1, <2>2, <2>3 DEF CutWord
<1>5. ASSUME CutWord(text, t, i), Holds(s, i) = {} PROVE CutWord(text, r, i)
  <2>1. PICK j \in 1..m, l \in 1..m :
          /\ j <= l /\ Holds(t, i) = j .. l
          /\ \A k \in j .. l - 1 : t[k] = << <<i, TokenLimit>> >>
          /\ t[l] = << <<i, text[i] - (l - j) * TokenLimit>> >>
    BY <1>1, <1>5 DEF CutWord
  <2> DEFINE a == n + j
             b == n + l
  <2>2. /\ a \in 1 .. n + m /\ b \in 1 .. n + m /\ a <= b /\ b - a = l - j
        /\ \A k \in a..b : k - n \in j..l /\ k - n \in 1..m /\ n + (k - n) = k
        /\ \A k \in a .. b - 1 : k - n \in j .. l - 1 /\ k - n \in 1..m /\ n + (k - n) = k
        /\ \A k \in j..l : n + k \in a..b
    BY <1>1, <2>1
  <2>3. r[b] = t[l] BY <1>1
  <2> HIDE DEF a, b
  <2>4. Holds(r, i) = a..b
    <3>1. ASSUME NEW k \in a..b PROVE k \in Holds(r, i)
      <4> DEFINE h == k - n
      <4>1. h \in j..l /\ h \in 1..m /\ n + h = k BY <2>2
      <4> HIDE DEF h
      <4>2. n + h \in Holds(r, i) BY <1>1, <2>1, <4>1
      <4> QED BY <4>1, <4>2
    <3>2. ASSUME NEW k \in Holds(r, i) PROVE k \in a..b
      <4>1. k \notin 1..n /\ k \in 1 .. n + m BY <1>1, <1>2, <1>5
      <4> DEFINE h == k - n
      <4>2. h \in 1..m /\ n + h = k BY <1>3, <4>1
      <4> HIDE DEF h
      <4>3. h \in j..l BY <1>1, <2>1, <4>2
      <4> QED BY <2>2, <4>2, <4>3
    <3> QED BY <3>1, <3>2
  <2>5. ASSUME NEW k \in a .. b - 1 PROVE r[k] = << <<i, TokenLimit>> >>
    <3> DEFINE h == k - n
    <3>1. h \in j .. l - 1 /\ h \in 1..m /\ n + h = k BY <2>2
    <3> HIDE DEF h
    <3>2. r[n + h] = t[h] BY <1>1, <3>1
    <3> QED BY <2>1, <3>1, <3>2
  <2>6. r[b] = << <<i, text[i] - (b - a) * TokenLimit>> >> BY <2>1, <2>2, <2>3
  <2> QED BY <1>1, <2>2, <2>4, <2>5, <2>6 DEF CutWord
<1> QED BY <1>4, <1>5 DEF r

\* More segments are added to those of the first units.
LEMMA MadeJoined ==
  ASSUME NEW text \in Seq(Nat), NEW b \in 0..Len(text), NEW c \in b..Len(text), NEW s, Made(text, b, s),
         NEW t \in Seq(Piece),
         \A k \in 1..Len(t) : Segment(text, c, t[k]),
         \A k \in 1..Len(t) : k > 1 => Follows(text, t[k - 1], t[k]),
         Len(s) > 0 /\ Len(t) > 0 => Follows(text, s[Len(s)], t[1]),
         \A i \in 1..b : text[i] > TokenLimit => Holds(t, i) = {},
         \A i \in b + 1 .. c : text[i] > 0 => Covered(text, t, i)
  PROVE  Made(text, c, s \o t)
<1> DEFINE r == s \o t
           n == Len(s)
           m == Len(t)
<1>0. s \in Seq(Piece) BY DEF Made
<1>1. /\ r \in Seq(Piece) /\ n \in Nat /\ m \in Nat /\ DOMAIN s = 1..n /\ DOMAIN t = 1..m /\ DOMAIN r = 1 .. n + m
      /\ \A k \in 1..n : r[k] = s[k]
      /\ \A k \in 1..m : r[n + k] = t[k]
      /\ \A i : /\ \A k \in 1..n : (k \in Holds(r, i) <=> k \in Holds(s, i))
                /\ \A k \in 1..m : (n + k \in Holds(r, i) <=> k \in Holds(t, i))
  BY <1>0, HoldsJoined
<1>2. \A i : /\ CutWord(text, s, i) /\ Holds(t, i) = {} /\ text[i] \in Nat => CutWord(text, r, i)
             /\ CutWord(text, t, i) /\ Holds(s, i) = {} /\ text[i] \in Nat => CutWord(text, r, i)
  BY <1>0, CutWordJoined
<1>3. \A k \in 1..m : Segment(text, c, t[k]) /\ (k > 1 => Follows(text, t[k - 1], t[k])) OBVIOUS
<1>4. n > 0 /\ m > 0 => Follows(text, s[n], t[1]) OBVIOUS
<1>5. \A i : Holds(s, i) \subseteq 1..n /\ Holds(t, i) \subseteq 1..m BY <1>1 DEF Holds
<1>6. b \in Nat /\ c \in Nat /\ b <= c /\ c <= Len(text) /\ Len(text) \in Nat OBVIOUS
<1>7. \A i \in 1..c : text[i] \in Nat BY <1>6
<1> HIDE DEF r, n, m
<1>8. ASSUME NEW k \in 1 .. n + m
      PROVE  k \in 1..n \/ \E h \in 1..m : k = n + h
  <2>1. k \in 1..n \/ (k - n \in 1..m /\ n + (k - n) = k) BY <1>1
  <2> QED BY <2>1
<1>9. \A k \in DOMAIN r : Segment(text, c, r[k])
  <2> SUFFICES ASSUME NEW k \in 1 .. n + m PROVE Segment(text, c, r[k])
    BY <1>1
  <2>1. CASE k \in 1..n
    <3>1. Segment(text, b, s[k]) BY <1>1, <2>1 DEF Made
    <3> QED BY <1>1, <2>1, <3>1, SegmentHas
  <2>2. ASSUME NEW h \in 1..m, k = n + h PROVE Segment(text, c, r[k]) BY <1>1, <1>3, <2>2
  <2> QED BY <1>8, <2>1, <2>2
<1>10. ASSUME NEW k \in DOMAIN r, k > 1 PROVE Follows(text, r[k - 1], r[k])
  <2>0. k \in 1 .. n + m BY <1>1
  <2>1. CASE k \in 1..n
    <3>1. k - 1 \in 1..n BY <1>1, <1>10, <2>1
    <3>2. Follows(text, s[k - 1], s[k]) BY <1>1, <1>10, <2>1 DEF Made
    <3>3. r[k - 1] = s[k - 1] /\ r[k] = s[k] BY <1>1, <2>1, <3>1
    <3> QED BY <3>2, <3>3
  <2>2. ASSUME NEW h \in 1..m, k = n + h PROVE Follows(text, r[k - 1], r[k])
    <3>1. r[k] = t[h] BY <1>1, <2>2
    <3>2. CASE h > 1
      <4> DEFINE g == h - 1
      <4>1. g \in 1..m /\ k - 1 = n + g BY <1>1, <2>2, <3>2
      <4>2. Follows(text, t[g], t[h]) BY <1>3, <3>2
      <4> HIDE DEF g
      <4>3. r[n + g] = t[g] BY <1>1, <4>1
      <4> QED BY <3>1, <4>1, <4>2, <4>3
    <3>3. CASE ~(h > 1)
      <4>1. h = 1 /\ k - 1 = n /\ n \in 1..n /\ n > 0 /\ m > 0 BY <1>1, <1>10, <2>2, <3>3
      <4>2. r[n] = s[n] BY <1>1, <4>1
      <4> QED BY <1>4, <3>1, <4>1, <4>2
    <3> QED BY <3>2, <3>3
  <2> QED BY <1>8, <2>0, <2>1, <2>2
<1>11. ASSUME NEW i \in 1..c, text[i] > 0 PROVE Covered(text, r, i)
  <2>1. CASE i \in 1..b
    <3>1. Covered(text, s, i) BY <1>11, <2>1 DEF Made
    <3>2. CASE text[i] > TokenLimit
      <4>1. CutWord(text, s, i) /\ Holds(t, i) = {} BY <2>1, <3>1, <3>2 DEF Covered
      <4> QED BY <1>2, <1>7, <3>2, <4>1 DEF Covered
    <3>3. CASE ~(text[i] > TokenLimit)
      <4>1. Holds(s, i) # {} BY <3>1, <3>3 DEF Covered
      <4>2. Holds(r, i) # {} BY <1>1, <1>5, <4>1
      <4> QED BY <3>3, <4>2 DEF Covered
    <3> QED BY <3>2, <3>3
  <2>2. CASE i \notin 1..b
    <3>0. i \in b + 1 .. c BY <1>6, <2>2
    <3>1. Covered(text, t, i) BY <1>11, <3>0
    <3>2. CASE text[i] > TokenLimit
      <4>1. CutWord(text, t, i) BY <3>1, <3>2 DEF Covered
      <4>2. Holds(s, i) = {}
        <5> SUFFICES ASSUME NEW k \in Holds(s, i) PROVE FALSE
          OBVIOUS
        <5>1. k \in DOMAIN s /\ HasUnit(s[k], i) BY DEF Holds
        <5>2. Segment(text, b, s[k]) BY <5>1 DEF Made
        <5> QED BY <2>2, <5>1, <5>2, SegmentHas
      <4> QED BY <1>2, <1>7, <3>2, <4>1, <4>2 DEF Covered
    <3>3. CASE ~(text[i] > TokenLimit)
      <4>1. Holds(t, i) # {} BY <3>1, <3>3 DEF Covered
      <4>2. PICK h \in 1..m : h \in Holds(t, i) BY <1>5, <4>1
      <4>3. n + h \in Holds(r, i) BY <1>1, <4>2
      <4> QED BY <3>3, <4>3 DEF Covered
    <3> QED BY <3>2, <3>3
  <2> QED BY <2>1, <2>2
<1>12. Made(text, c, r) BY <1>1, <1>9, <1>10, <1>11 DEF Made
<1> QED BY <1>12 DEF r

LEMMA MadeFurther ==
  ASSUME NEW text \in Seq(Nat), NEW b \in 0..Len(text), NEW c \in b..Len(text), NEW s, Made(text, b, s),
         \A i \in b + 1 .. c : ~(text[i] > 0)
  PROVE  Made(text, c, s)
<1> DEFINE t == <<>>
<1>1. t \in Seq(Piece) /\ Len(t) = 0 /\ 1..Len(t) = {} /\ s \in Seq(Piece) BY EmptySeq DEF Made
<1>2. \A i : Holds(t, i) = {} BY <1>1 DEF Holds
<1>3. s \o t = s
  <2> HIDE DEF Piece
  <2> QED BY <1>1, ConcatEmptySeq
<1> HIDE DEF t
<1>4. Len(t) > 0 => FALSE BY <1>1
<1>5. Made(text, c, s \o t) BY <1>1, <1>2, <1>4, MadeJoined
<1> QED BY <1>3, <1>5

LEMMA MadeWhole ==
  ASSUME NEW text \in Seq(Nat), NEW b \in 0..Len(text), NEW c \in b..Len(text), NEW s, Made(text, b, s),
         NEW x \in 1..c, NEW y \in x..c, \A i \in x..y : text[i] <= TokenLimit,
         \A i \in b + 1 .. c : text[i] > 0 => i \in x..y,
         Len(s) > 0 => Follows(text, s[Len(s)], Stretch(text, x, y))
  PROVE  Made(text, c, Append(s, Stretch(text, x, y)))
<1> DEFINE q == Stretch(text, x, y)
           t == <<q>>
<1>0. b \in Nat /\ c \in Nat /\ Len(text) \in Nat /\ b <= c /\ c <= Len(text) OBVIOUS
<1>1. Bounds(text, x, y) BY <1>0 DEF Bounds
<1>2. q \in Piece BY <1>1, StretchIs DEF StretchShape
<1>3. \A i : HasUnit(q, i) <=> i \in x..y BY <1>1, StretchHas
<1>4. Segment(text, c, q) BY DEF Segment, Whole
<1>5. s \in Seq(Piece) BY DEF Made
<1> HIDE DEF q
<1>6. t \in Seq(Piece) /\ Len(t) = 1 /\ t[1] = q /\ DOMAIN t = 1..1
  <2> HIDE DEF Piece
  <2> QED BY <1>2
<1>7. Append(s, q) = s \o t
  <2> HIDE DEF Piece
  <2> QED BY <1>2, <1>5, AppendIsConcat
<1> HIDE DEF t
<1>8. 1..Len(t) = {1} BY <1>6
<1>9. \A k \in 1..Len(t) : Segment(text, c, t[k]) /\ ~(k > 1) BY <1>4, <1>6, <1>8
<1>10. \A i : Holds(t, i) # {} <=> i \in x..y BY <1>3, <1>6 DEF Holds
<1>11. \A i \in x..y : ~(text[i] > TokenLimit)
  <2> SUFFICES ASSUME NEW i \in x..y PROVE ~(text[i] > TokenLimit)
    OBVIOUS
  <2>1. i \in 1..Len(text) BY <1>0
  <2>2. text[i] \in Nat /\ TokenLimit \in Nat /\ text[i] <= TokenLimit BY <2>1, SeqHolds, LimitAssumption
  <2> QED BY <2>2
<1>12. \A i \in 1..b : text[i] > TokenLimit => Holds(t, i) = {} BY <1>10, <1>11
<1>13. \A i \in b + 1 .. c : text[i] > 0 => Covered(text, t, i) BY <1>10, <1>11 DEF Covered
<1>14. Len(s) > 0 /\ Len(t) > 0 => Follows(text, s[Len(s)], t[1]) BY <1>6 DEF q
<1>15. Made(text, c, s \o t) BY <1>6, <1>9, <1>12, <1>13, <1>14, MadeJoined
<1> QED BY <1>7, <1>15 DEF q

LEMMA PartFollows ==
  ASSUME NEW text \in Seq(Nat), NEW i \in 1..Len(text), NEW c \in 1..TokenLimit, text[i] > TokenLimit, NEW p
  PROVE  Follows(text, p, << <<i, c>> >>)
<1> DEFINE q == << <<i, c>> >>
<1>1. DOMAIN q = 1..1 /\ Len(q) = 1 /\ q[1] = <<i, c>> OBVIOUS
<1>2. c \in Nat /\ c <= TokenLimit BY LimitAssumption
<1>3. PICK G : Run("sum", 0, q, Tokens(q), G)
  <2>1. 1 \in Nat OBVIOUS
  <2> HIDE DEF q
  <2> QED BY <1>1, <2>1, SumRuns
<1> HIDE DEF q
<1>4. Tokens(q) = 0 + c
  <2>1. 1 \in 1..Len(q) /\ 1 - 1 = 0 BY <1>1
  <2>2. G[0] = 0 /\ G[1] = Tokens(q) /\ G[1] = Turn("sum", G[1 - 1], q[1]) BY <1>1, <1>3, <2>1 DEF Run
  <2>3. Turn("sum", 0, <<i, c>>) = 0 + c BY DEF Turn, Plus
  <2> QED BY <1>1, <2>1, <2>2, <2>3
<1>5. Tokens(q) <= TokenLimit BY <1>2, <1>4
<1>6. Last(q)[1] = i BY <1>1 DEF Last
<1>7. Follows(text, p, q) BY <1>1, <1>5, <1>6 DEF Follows, Within
<1> QED BY <1>7 DEF q

LEMMA MadeParts ==
  ASSUME NEW text \in Seq(Nat), NEW b \in 0 .. Len(text) - 1, NEW s, Made(text, b, s), text[b + 1] > TokenLimit
  PROVE  Made(text, b + 1, s \o Chunks(<<b + 1, text[b + 1]>>))
<1> DEFINE i == b + 1
           unit == <<i, text[i]>>
           t == Chunks(unit)
<1>0. /\ i \in 1..Len(text) /\ i \in b..Len(text) /\ b \in 0..Len(text) /\ b \in Nat /\ Len(text) \in Nat
      /\ \A k \in b + 1 .. i : k = i
      /\ \A k \in 1..b : k # i
  OBVIOUS
<1>1. i \in Nat /\ text[i] \in Nat /\ text[i] > TokenLimit BY <1>0, SeqHolds
<1>2. unit \in Unit /\ unit[2] = text[i] /\ unit[1] = i /\ text[i] > 0
  <2>1. text[i] > 0 BY <1>1, LimitAssumption
  <2> HIDE DEF i
  <2> QED BY <1>1, <2>1 DEF Unit
<1> HIDE DEF i, unit
<1>3. PICK m \in Nat \ {0} :
         /\ t = [k \in 1..m |-> << <<i, ChunkOf(unit, m, k)>> >>]
         /\ \A k \in 1..m : ChunkOf(unit, m, k) \in 1..TokenLimit
  BY <1>2, ChunksAre
<1>4. t \in Seq(Piece) BY <1>2, ChunksType
<1> HIDE DEF t
<1>5. Len(t) = m /\ DOMAIN t = 1..m /\ \A k \in 1..m : t[k] = << <<i, ChunkOf(unit, m, k)>> >>
  BY <1>3
<1>6. ASSUME NEW k \in 1..m, NEW p PROVE Segment(text, i, t[k]) /\ Follows(text, p, t[k])
  <2> DEFINE c == ChunkOf(unit, m, k)
  <2>1. c \in 1..TokenLimit /\ t[k] = << <<i, c>> >> BY <1>3, <1>5
  <2> HIDE DEF c
  <2>2. i \in 1..i BY <1>0
  <2>3. Segment(text, i, t[k]) BY <1>1, <2>1, <2>2 DEF Segment, Part
  <2>4. Follows(text, p, t[k]) BY <1>0, <1>1, <2>1, PartFollows
  <2> QED BY <2>3, <2>4
<1>7. ASSUME NEW k \in 1..m, NEW j PROVE HasUnit(t[k], j) <=> j = i
  <2> DEFINE c == ChunkOf(unit, m, k)
  <2>1. t[k] = << <<i, c>> >> BY <1>5
  <2> HIDE DEF c
  <2> QED BY <2>1 DEF HasUnit
<1>8. Holds(t, i) = 1..m /\ \A j : j # i => Holds(t, j) = {} BY <1>5, <1>7 DEF Holds
<1>9. CutWord(text, t, i)
  <2>1. 1 \in DOMAIN t /\ m \in DOMAIN t /\ 1 <= m BY <1>5
  <2>2. ASSUME NEW k \in 1 .. m - 1 PROVE t[k] = << <<i, TokenLimit>> >>
    <3>1. k \in 1..m /\ k < m OBVIOUS
    <3>2. ChunkOf(unit, m, k) = TokenLimit BY <3>1 DEF ChunkOf
    <3> QED BY <1>5, <3>1, <3>2
  <2>3. t[m] = << <<i, text[i] - (m - 1) * TokenLimit>> >>
    <3>1. m \in 1..m /\ ~(m < m) OBVIOUS
    <3>2. ChunkOf(unit, m, m) = text[i] - (m - 1) * TokenLimit BY <1>2, <3>1 DEF ChunkOf
    <3> QED BY <1>5, <3>1, <3>2
  <2> QED BY <1>8, <2>1, <2>2, <2>3 DEF CutWord
<1>10. \A k \in 1..b : Holds(t, k) = {} BY <1>0, <1>8
<1>11. \A k \in b + 1 .. i : Covered(text, t, k) BY <1>0, <1>1, <1>9 DEF Covered
<1>12. /\ \A k \in 1..Len(t) : Segment(text, i, t[k])
       /\ \A k \in 1..Len(t) : k > 1 => Follows(text, t[k - 1], t[k])
       /\ Len(s) > 0 /\ Len(t) > 0 => Follows(text, s[Len(s)], t[1])
  <2>1. 1 \in 1..m OBVIOUS
  <2>2. \A k \in 1..m : Segment(text, i, t[k]) BY <1>6
  <2>3. \A k \in 1..m : Follows(text, t[k - 1], t[k]) BY <1>6
  <2>4. Follows(text, s[Len(s)], t[1]) BY <1>6, <2>1
  <2> QED BY <1>5, <2>2, <2>3, <2>4
<1>13. Made(text, i, s \o t) BY <1>0, <1>4, <1>10, <1>11, <1>12, MadeJoined
<1> QED BY <1>13 DEF i, unit, t

\* What two stretches share.
LEMMA StretchShares ==
  ASSUME NEW text \in Seq(Nat), NEW c, NEW d, Bounds(text, c, d), NEW p, NEW m \in c - 1 .. d,
         \A i \in c..d : HasUnit(p, i) <=> i <= m
  PROVE  Shared(p, Stretch(text, c, d)) = Stretch(text, c, m) /\ Bounds(text, c, m)
<1> DEFINE q == Stretch(text, c, d)
           S == {u \in DOMAIN q : \E i \in DOMAIN p : p[i][1] = q[u][1]}
           k == m - c + 1
<1>1. StretchShape(text, c, d, q) BY StretchIs
<1> HIDE DEF q
<1>2. c \in Nat /\ d \in Nat /\ m \in Int /\ k \in Nat /\ k <= d - c + 1 /\ d - c + 1 \in Nat
      /\ DOMAIN q = 1 .. d - c + 1
  BY <1>1 DEF StretchShape
<1>3. ASSUME NEW u \in 1 .. d - c + 1 PROVE q[u][1] = c + u - 1 /\ c + u - 1 \in c..d
  <2>1. q[u] = <<c + u - 1, text[c + u - 1]>> /\ c + u - 1 \in c..d BY <1>1 DEF StretchShape
  <2> QED BY <2>1
<1>4. \A u \in 1 .. d - c + 1 : u \in S <=> HasUnit(p, c + u - 1) BY <1>2, <1>3 DEF HasUnit
<1>5. \A u \in 1 .. d - c + 1 : u \in S <=> c + u - 1 <= m BY <1>3, <1>4
<1>6. S = 1..k
  <2>1. \A u \in 1 .. d - c + 1 : c + u - 1 <= m <=> u \in 1..k BY <1>2
  <2>2. S \subseteq 1 .. d - c + 1 /\ 1..k \subseteq 1 .. d - c + 1 BY <1>2
  <2> HIDE DEF S, k
  <2> QED BY <1>5, <2>1, <2>2
<1>7. Shared(p, q) = SubSeq(q, 1, Cardinality(S)) BY DEF Shared
<1>9. c - c + 1 = 1 /\ c \in c .. d + 1 BY <1>1 DEF StretchShape
<1> HIDE DEF S, k
<1>8. Cardinality(S) = k
  <2>1. Cardinality(1..k) = k BY <1>2, FS_Interval
  <2> QED BY <1>6, <2>1
<1>10. /\ SubSeq(q, c - c + 1, m - c + 1) = Stretch(text, c, m) /\ Bounds(text, c, m)
  BY <1>9, StretchPart DEF q
<1> QED BY <1>7, <1>8, <1>9, <1>10 DEF q, k

LEMMA SegmentEnds ==
  ASSUME NEW text \in Seq(Nat), NEW b \in 0..Len(text), NEW p, Segment(text, b, p)
  PROVE  HasUnit(p, Last(p)[1])
<1>1. CASE Whole(text, b, p)
  <2>1. PICK x \in 1..b : \E y \in x..b : p = Stretch(text, x, y) BY <1>1 DEF Whole
  <2>2. PICK y \in x..b : p = Stretch(text, x, y) BY <2>1
  <2>3. Bounds(text, x, y)
    <3>1. Len(text) \in Nat /\ b \in Nat OBVIOUS
    <3> QED BY <3>1 DEF Bounds
  <2>4. StretchShape(text, x, y, p) BY <2>2, <2>3, StretchIs
  <2>5. Len(p) = y - x + 1 /\ DOMAIN p = 1 .. y - x + 1 /\ y - x + 1 \in 1 .. y - x + 1
    BY <2>4 DEF StretchShape
  <2>6. Len(p) \in DOMAIN p BY <2>5
  <2> QED BY <2>6 DEF HasUnit, Last
<1>2. CASE Part(text, b, p)
  <2>1. PICK j \in 1..b, d \in 1..TokenLimit : p = << <<j, d>> >> BY <1>2 DEF Part
  <2>2. Len(p) = 1 /\ 1 \in DOMAIN p BY <2>1
  <2> QED BY <2>2 DEF HasUnit, Last
<1> QED BY <1>1, <1>2 DEF Segment

LEMMA StretchEnds ==
  ASSUME NEW text \in Seq(Nat), NEW c, NEW d, Bounds(text, c, d), c <= d
  PROVE  Last(Stretch(text, c, d))[1] = d /\ Head(Stretch(text, c, d))[1] = c
<1> DEFINE q == Stretch(text, c, d)
           k == d - c + 1
<1>1. StretchShape(text, c, d, q) BY StretchIs
<1>2. \A u \in 1..k : q[u] = <<c + u - 1, text[c + u - 1]>> BY <1>1 DEF StretchShape
<1>3. Len(q) = k /\ k \in 1..k /\ 1 \in 1..k /\ c + k - 1 = d /\ c + 1 - 1 = c BY <1>1 DEF StretchShape
<1> HIDE DEF q, k
<1>4. q[k] = <<d, text[d]>> /\ q[1] = <<c, text[c]>> BY <1>2, <1>3
<1> QED BY <1>3, <1>4 DEF q, Last

\* A stretch that follows what ends before it.
LEMMA FollowsApart ==
  ASSUME NEW text \in Seq(Nat), NEW T, Sums(text, T), NEW b \in 0..Len(text), NEW p, Segment(text, b, p),
         NEW c, NEW d, Bounds(text, c, d), c <= d, b < c, T[d] - T[c - 1] <= TokenLimit
  PROVE  Follows(text, p, Stretch(text, c, d))
<1> DEFINE q == Stretch(text, c, d)
           again == Shared(p, q)
<1>1. c \in Nat /\ d \in Nat /\ c >= 1 /\ d <= Len(text) /\ b \in Nat /\ Len(text) \in Nat
  BY StretchIs DEF StretchShape
<1>2. \A i : HasUnit(p, i) => i \in 1..b BY SegmentHas
<1>3. c - 1 \in c - 1 .. d /\ \A i \in c..d : HasUnit(p, i) <=> i <= c - 1
  BY <1>1, <1>2
<1>4. again = Stretch(text, c, c - 1) /\ Bounds(text, c, c - 1) BY <1>3, StretchShares
<1>5. Tokens(again) = T[c - 1] - T[c - 1]
  <2> DEFINE e == c - 1
  <2>1. Bounds(text, c, e) /\ again = Stretch(text, c, e) BY <1>4
  <2> HIDE DEF e, again
  <2>2. Tokens(again) = T[e] - T[c - 1] BY <2>1, StretchTokens
  <2> QED BY <2>2 DEF e
<1>6. Tokens(q) = T[d] - T[c - 1] BY StretchTokens
<1>7. T[c - 1] \in Nat /\ T[d] \in Nat
  <2>1. c - 1 \in 0..Len(text) /\ d \in 0..Len(text) BY <1>1
  <2> QED BY <2>1 DEF Sums
<1>8. Last(q)[1] = d BY StretchEnds
<1>9. Last(p)[1] \in 1..b BY <1>2, SegmentEnds
<1> HIDE DEF q, again
<1>10. Last(p)[1] < Last(q)[1] BY <1>1, <1>8, <1>9
<1>11. Tokens(q) <= TokenLimit + Tokens(again) /\ Tokens(again) <= OverlapTokens
  BY <1>5, <1>6, <1>7, LimitAssumption
<1> QED BY <1>10, <1>11 DEF Follows, Within, q, again

\* A stretch that repeats the end of the one before it.
LEMMA FollowsOverlapping ==
  ASSUME NEW text \in Seq(Nat), NEW T, Sums(text, T), NEW x, NEW y, Bounds(text, x, y),
         NEW c, NEW d, Bounds(text, c, d), c <= d, x <= c, c <= y, NEW m \in c..d, m <= y, m = d \/ m = y,
         T[d] - T[m] <= TokenLimit,
         T[m] - T[c - 1] <= OverlapTokens \/ (m = c /\ text[c] > 0),
         y < d \/ T[y] - T[x - 1] > TokenLimit
  PROVE  Follows(text, Stretch(text, x, y), Stretch(text, c, d))
<1> DEFINE p == Stretch(text, x, y)
           q == Stretch(text, c, d)
           again == Shared(p, q)
<1>1. /\ c \in Nat /\ d \in Nat /\ c >= 1 /\ d <= Len(text) /\ Len(text) \in Nat
      /\ x \in Nat /\ y \in Nat /\ y <= Len(text) /\ x <= y
  BY StretchIs DEF StretchShape
<1>2. \A i : HasUnit(p, i) <=> i \in x..y BY StretchHas
<1>3. m \in c - 1 .. d /\ \A i \in c..d : HasUnit(p, i) <=> i <= m
  BY <1>1, <1>2
<1>4. again = Stretch(text, c, m) /\ Bounds(text, c, m) BY <1>3, StretchShares
<1>5. Tokens(again) = T[m] - T[c - 1] BY <1>4, StretchTokens
<1>6. Tokens(q) = T[d] - T[c - 1] /\ Tokens(p) = T[y] - T[x - 1] BY StretchTokens
<1>7. T[c - 1] \in Nat /\ T[d] \in Nat /\ T[m] \in Nat
  <2>1. c - 1 \in 0..Len(text) /\ d \in 0..Len(text) /\ m \in 0..Len(text) BY <1>1
  <2> QED BY <2>1 DEF Sums
<1>8. Last(q)[1] = d /\ Last(p)[1] = y BY <1>1, StretchEnds
<1>9. m = c /\ text[c] > 0 => Cardinality(Visible(again)) = 1
  <2> SUFFICES ASSUME m = c, text[c] > 0 PROVE Cardinality(Visible(again)) = 1
    OBVIOUS
  <2>1. again = Stretch(text, c, c) /\ Bounds(text, c, c) BY <1>4
  <2> HIDE DEF again
  <2>2. \A u \in Visible(again) : c + u - 1 \in c..c /\ u \in Nat
    <3>1. \A u \in Visible(again) : c + u - 1 \in c..c BY <2>1, StretchVisible
    <3>2. Visible(again) \subseteq DOMAIN again BY DEF Visible
    <3>3. DOMAIN again = 1 .. c - c + 1 BY <2>1, StretchIs DEF StretchShape
    <3> QED BY <3>1, <3>2, <3>3
  <2>3. c - c + 1 \in Visible(again)
    <3>1. c \in c..c BY <1>1
    <3> QED BY <2>1, <3>1, StretchVisible
  <2>4. Visible(again) = {1} BY <1>1, <2>2, <2>3
  <2> QED BY <2>4, FS_Singleton
<1> HIDE DEF p, q, again
<1>10. Tokens(q) <= TokenLimit + Tokens(again) BY <1>5, <1>6, <1>7, LimitAssumption
<1>11. Within(p, q) BY <1>5, <1>9, <1>10 DEF Within, again
<1>12. Last(p)[1] < Last(q)[1] \/ Tokens(p) > TokenLimit BY <1>6, <1>8
<1>13. Follows(text, p, q) BY <1>11, <1>12 DEF Follows
<1> QED BY <1>13 DEF p, q

-----------------------------------------------------------------------------
(* The loop over the units.                                                  *)

\* The segment p repeats the units from a to b, and what was carried over is not
\* all that comes after it, unless it is over the limit.
Repeated(text, T, p, a, b, k) ==
  \E x \in 1..b : \E y \in x..b :
    /\ p = Stretch(text, x, y)
    /\ \A i \in y + 1 .. b : ~(text[i] > 0)
    /\ \A i \in a..b : text[i] > 0 => x <= i
    /\ (\E i \in b + 1 .. k : text[i] > 0) \/ T[y] - T[x - 1] > TokenLimit

\* After k units the open piece begins at a, and what is new in it after b.
OpenIs(text, T, k, s, o, a, b) ==
  /\ a \in 1 .. k + 1 /\ b \in a - 1 .. k
  /\ o = Stretch(text, a, k)
  /\ \A i \in a..k : text[i] <= TokenLimit
  /\ T[k] - T[b] <= TokenLimit
  /\ a <= b => /\ a = b \/ T[b] - T[a - 1] <= OverlapTokens
               /\ Len(s) > 0 /\ Repeated(text, T, s[Len(s)], a, b, k)

LoopInv(text, T, k, cut) ==
  \E a, b : OpenIs(text, T, k, cut.segments, cut.open, a, b) /\ Made(text, b, cut.segments)

\* A stretch that is finished follows the segment before it.
LEMMA FlushFollows ==
  ASSUME NEW text \in Seq(Nat), NEW T, Sums(text, T), NEW k \in 0..Len(text), NEW s, NEW o, NEW a, NEW b,
         OpenIs(text, T, k, s, o, a, b), Made(text, b, s), Len(s) > 0,
         NEW c, NEW d, Middle(text, T, a, k, c, d)
  PROVE  Follows(text, s[Len(s)], Stretch(text, c, d))
<1> DEFINE p == s[Len(s)]
<1>1. /\ k \in Nat /\ a \in Nat /\ b \in Nat /\ c \in Nat /\ d \in Nat /\ Len(text) \in Nat
      /\ a >= 1 /\ a - 1 <= b /\ b <= k /\ k <= Len(text) /\ a <= c /\ c <= d /\ d <= k
  BY DEF OpenIs, Middle
<1>2. \A i \in a..k : text[i] > 0 => c <= i /\ i <= d BY DEF Middle
<1>3. text[c] > 0 /\ text[d] > 0 BY DEF Middle
<1>4. Bounds(text, c, d) BY <1>1 DEF Bounds
<1>5. T[k] - T[b] <= TokenLimit BY DEF OpenIs
<1>6. \A i \in 0..Len(text) : T[i] \in Nat BY DEF Sums
<1>7. \A i \in 0..Len(text) : \A j \in i..Len(text) : T[i] <= T[j] BY SumsGrow
<1>8. T[c - 1] \in Nat /\ T[d] \in Nat /\ T[k] \in Nat /\ T[b] \in Nat /\ T[a - 1] \in Nat
  <2>1. /\ c - 1 \in 0..Len(text) /\ d \in 0..Len(text) /\ k \in 0..Len(text) /\ b \in 0..Len(text)
        /\ a - 1 \in 0..Len(text)
    BY <1>1
  <2> QED BY <1>6, <2>1
<1>9. T[d] <= T[k]
  <2>1. d \in 0..Len(text) /\ k \in d..Len(text) BY <1>1
  <2> QED BY <1>7, <2>1
<1>10. s \in Seq(Piece) /\ Len(s) \in DOMAIN s /\ Segment(text, b, p)
  <2>1. s \in Seq(Piece) /\ \A j \in DOMAIN s : Segment(text, b, s[j]) BY DEF Made
  <2>2. Len(s) \in DOMAIN s
    <3> HIDE DEF Piece
    <3> QED BY <2>1
  <2> QED BY <2>1, <2>2
<1> HIDE DEF p
<1>11. CASE b < c
  <2>1. T[b] <= T[c - 1]
    <3>1. b \in 0..Len(text) /\ c - 1 \in b..Len(text) BY <1>1, <1>11
    <3> QED BY <1>7, <3>1
  <2>2. T[d] - T[c - 1] <= TokenLimit BY <1>5, <1>8, <1>9, <2>1, LimitAssumption
  <2>3. b \in 0..Len(text) BY <1>1
  <2>4. Follows(text, p, Stretch(text, c, d)) BY <1>1, <1>4, <1>10, <1>11, <2>2, <2>3, FollowsApart
  <2> QED BY <2>4 DEF p
<1>12. CASE ~(b < c)
  <2>1. a <= b /\ c \in a..b /\ b \in 1..b BY <1>1, <1>12
  <2>2. (a = b \/ T[b] - T[a - 1] <= OverlapTokens) /\ Repeated(text, T, p, a, b, k)
    BY <2>1 DEF OpenIs, p
  <2>3. PICK x \in 1..b : \E y \in x..b :
           /\ p = Stretch(text, x, y)
           /\ \A i \in y + 1 .. b : ~(text[i] > 0)
           /\ \A i \in a..b : text[i] > 0 => x <= i
           /\ (\E i \in b + 1 .. k : text[i] > 0) \/ T[y] - T[x - 1] > TokenLimit
    BY <2>2 DEF Repeated
  <2>4. PICK y \in x..b :
           /\ p = Stretch(text, x, y)
           /\ \A i \in y + 1 .. b : ~(text[i] > 0)
           /\ \A i \in a..b : text[i] > 0 => x <= i
           /\ (\E i \in b + 1 .. k : text[i] > 0) \/ T[y] - T[x - 1] > TokenLimit
    BY <2>3
  <2>5. x \in Nat /\ y \in Nat /\ x >= 1 /\ x <= y /\ y <= b /\ x <= c
    <3>1. x <= c BY <1>3, <2>1, <2>4
    <3> QED BY <1>1, <3>1
  <2>6. c <= y
    <3> SUFFICES ASSUME ~(c <= y) PROVE FALSE
      OBVIOUS
    <3>1. c \in y + 1 .. b BY <1>1, <2>1, <2>5
    <3> QED BY <1>3, <2>4, <3>1
  <2>7. Bounds(text, x, y) BY <1>1, <2>5 DEF Bounds
  <2> DEFINE m == IF d < y THEN d ELSE y
  <2>8. m \in c..d /\ m <= y /\ (m = d \/ m = y) BY <1>1, <2>5, <2>6
  <2> HIDE DEF m
  <2>9. T[y] = T[b] /\ T[y] \in Nat
    <3>1. y \in 0..Len(text) /\ b \in y..Len(text) BY <1>1, <2>5
    <3>2. T[y] = T[b] BY <2>4, <3>1, SumsGrow
    <3> QED BY <1>8, <3>2
  <2>10. T[d] - T[m] <= TokenLimit
    <3>1. CASE m = d BY <1>8, <3>1, LimitAssumption
    <3>2. CASE m = y BY <1>5, <1>8, <1>9, <2>9, <3>2, LimitAssumption
    <3> QED BY <2>8, <3>1, <3>2
  <2>11. T[m] - T[c - 1] <= OverlapTokens \/ (m = c /\ text[c] > 0)
    <3>1. CASE a = b
      <4>1. m = c BY <1>1, <2>1, <2>5, <2>8, <3>1
      <4> QED BY <1>3, <4>1
    <3>2. CASE T[b] - T[a - 1] <= OverlapTokens
      <4>1. T[m] <= T[b] /\ T[m] \in Nat
        <5>1. m \in 0..Len(text) /\ b \in m..Len(text) BY <1>1, <2>5, <2>8
        <5> QED BY <1>6, <1>7, <5>1
      <4>2. T[a - 1] <= T[c - 1]
        <5>1. a - 1 \in 0..Len(text) /\ c - 1 \in a - 1 .. Len(text) BY <1>1
        <5> QED BY <1>7, <5>1
      <4> QED BY <1>8, <3>2, <4>1, <4>2, LimitAssumption
    <3> QED BY <2>2, <3>1, <3>2
  <2>12. y < d \/ T[y] - T[x - 1] > TokenLimit
    <3>1. CASE \E i \in b + 1 .. k : text[i] > 0
      <4>1. PICK i \in b + 1 .. k : text[i] > 0 BY <3>1
      <4>2. i \in a..k BY <1>1, <4>1
      <4>3. i <= d BY <1>2, <4>1, <4>2
      <4> QED BY <1>1, <2>5, <4>3
    <3> QED BY <2>4, <3>1
  <2>13. Follows(text, Stretch(text, x, y), Stretch(text, c, d))
    BY <1>1, <1>4, <2>5, <2>6, <2>7, <2>8, <2>10, <2>11, <2>12, FollowsOverlapping
  <2> QED BY <2>4, <2>13 DEF p
<1> QED BY <1>11, <1>12

\* What is flushed holds all units so far.
LEMMA Flushed ==
  ASSUME NEW text \in Seq(Nat), NEW T, Sums(text, T), NEW k \in 0..Len(text), NEW s, NEW o, NEW a, NEW b,
         OpenIs(text, T, k, s, o, a, b), Made(text, b, s)
  PROVE  /\ Made(text, k, Kept(s, o))
         /\ (\E i \in a..k : text[i] > 0) =>
              \E c, d : Middle(text, T, a, k, c, d) /\ Kept(s, o) = Append(s, Stretch(text, c, d))
<1>1. /\ k \in Nat /\ a \in Nat /\ b \in Nat /\ Len(text) \in Nat /\ Bounds(text, a, k)
      /\ a >= 1 /\ a - 1 <= b /\ b <= k /\ k <= Len(text) /\ o = Stretch(text, a, k)
      /\ b \in 0..Len(text) /\ k \in b..Len(text)
  BY DEF OpenIs, Bounds
<1>2. CASE ~\E i \in a..k : text[i] > 0
  <2>1. Visible(o) = {} BY <1>1, <1>2, StretchVisible
  <2>2. Kept(s, o) = s BY <2>1 DEF Kept
  <2>3. \A i \in b + 1 .. k : i \in a..k BY <1>1
  <2>4. Made(text, k, s) BY <1>1, <1>2, <2>3, MadeFurther
  <2> QED BY <1>2, <2>2, <2>4
<1>3. ASSUME NEW v \in a..k, text[v] > 0
      PROVE  /\ Made(text, k, Kept(s, o))
             /\ \E c, d : Middle(text, T, a, k, c, d) /\ Kept(s, o) = Append(s, Stretch(text, c, d))
  <2>1. Visible(o) # {} /\ \E c, d : Middle(text, T, a, k, c, d) /\ Stripped(o) = Stretch(text, c, d)
    BY <1>1, <1>3, StretchStripped
  <2>2. PICK c, d : Middle(text, T, a, k, c, d) /\ Stripped(o) = Stretch(text, c, d) BY <2>1
  <2>3. Kept(s, o) = Append(s, Stretch(text, c, d)) BY <2>1, <2>2 DEF Kept
  <2>4. /\ c \in a..k /\ d \in c..k /\ c \in 1..k
        /\ \A i \in a..k : text[i] > 0 => c <= i /\ i <= d
    BY <1>1, <2>2 DEF Middle
  <2>5. \A i \in c..d : i \in a..k BY <1>1, <2>4
  <2>6. \A i \in c..d : text[i] <= TokenLimit BY <2>5 DEF OpenIs
  <2>7. \A i \in b + 1 .. k : text[i] > 0 => i \in c..d
    <3> SUFFICES ASSUME NEW i \in b + 1 .. k, text[i] > 0 PROVE i \in c..d
      OBVIOUS
    <3>1. i \in a..k BY <1>1
    <3>2. c <= i /\ i <= d BY <2>4, <3>1
    <3> QED BY <1>1, <2>4, <3>1, <3>2
  <2>8. Len(s) > 0 => Follows(text, s[Len(s)], Stretch(text, c, d)) BY <2>2, FlushFollows
  <2>9. Made(text, k, Append(s, Stretch(text, c, d))) BY <1>1, <2>4, <2>6, <2>7, <2>8, MadeWhole
  <2> QED BY <2>2, <2>3, <2>9
<1> QED BY <1>2, <1>3

LEMMA LoopWhen ==
  ASSUME NEW text, NEW T, NEW n, NEW s, NEW a, NEW b, NEW cut, cut.segments = s,
         cut.open = Stretch(text, a, n), Made(text, b, s),
         a \in 1 .. n + 1, b \in a - 1 .. n, \A i \in a..n : text[i] <= TokenLimit, T[n] - T[b] <= TokenLimit,
         a <= b => /\ a = b \/ T[b] - T[a - 1] <= OverlapTokens
                   /\ Len(s) > 0 /\ Repeated(text, T, s[Len(s)], a, b, n)
  PROVE  LoopInv(text, T, n, cut)
<1>1. OpenIs(text, T, n, s, Stretch(text, a, n), a, b) BY DEF OpenIs
<1> QED BY <1>1 DEF LoopInv

\* One more unit, whatever it measures.
LEMMA LoopGoesOn ==
  ASSUME NEW text \in Seq(Nat), NEW T, Sums(text, T), NEW k \in 0 .. Len(text) - 1, NEW cut \in Cutting,
         LoopInv(text, T, k, cut)
  PROVE  LoopInv(text, T, k + 1, AddUnit(cut, <<k + 1, text[k + 1]>>))
<1> DEFINE n == k + 1
           unit == <<n, text[n]>>
           s == cut.segments
           o == cut.open
           flushed == Kept(s, o)
           new == AddUnit(cut, unit)
           full == o # <<>> /\ Tokens(o) + text[n] > TokenLimit
<1>1. PICK a, b : OpenIs(text, T, k, s, o, a, b) /\ Made(text, b, s) BY DEF LoopInv
<1>2. /\ k \in Nat /\ k \in 0..Len(text) /\ n \in 1..Len(text) /\ n \in Nat /\ k < n /\ k = n - 1
      /\ Len(text) \in Nat /\ k < Len(text)
  OBVIOUS
<1>3. /\ a \in Nat /\ b \in Nat /\ a >= 1 /\ a - 1 <= b /\ b <= k /\ o = Stretch(text, a, k)
      /\ Bounds(text, a, k)
  BY <1>1, <1>2 DEF OpenIs, Bounds
<1>4. text[n] \in Nat BY <1>2, SeqHolds
<1>5. T[n] = T[k] + text[n] /\ \A i \in 0..Len(text) : T[i] \in Nat BY <1>2 DEF Sums
<1>6. T[n] \in Nat /\ T[k] \in Nat /\ T[b] \in Nat /\ T[a - 1] \in Nat
  <2>1. n \in 0..Len(text) /\ b \in 0..Len(text) /\ a - 1 \in 0..Len(text) BY <1>2, <1>3
  <2> QED BY <1>2, <1>5, <2>1
<1>7. Made(text, k, flushed) BY <1>1, <1>2, Flushed
<1>8. new = IF text[n] > TokenLimit
            THEN [segments |-> flushed \o Chunks(unit), open |-> <<>>]
            ELSE IF full
            THEN [segments |-> flushed, open |-> Append(Carried(o), unit)]
            ELSE [cut EXCEPT !.open = Append(@, unit)]
  BY DEF AddUnit
<1>9. Tokens(o) = T[k] - T[a - 1] BY <1>3, StretchTokens
<1>10. Append(Stretch(text, a, k), unit) = Stretch(text, a, n) BY <1>2, <1>3, StretchGrows
<1> HIDE DEF unit, new, full, flushed, s, o, n
<1>11. CASE text[n] > TokenLimit
  <2>1. new.segments = flushed \o Chunks(unit) /\ new.open = <<>> BY <1>8, <1>11
  <2>2. Made(text, n, flushed \o Chunks(unit))
    BY <1>2, <1>7, <1>11, MadeParts DEF unit, n
  <2> DEFINE c == n + 1
  <2>3. c \in 1 .. Len(text) + 1 /\ c \in 1 .. n + 1 /\ c - 1 = n /\ n \in c - 1 .. n /\ ~(c <= n) /\ c..n = {}
    BY <1>2
  <2> HIDE DEF c
  <2>4. Stretch(text, c, c - 1) = <<>> BY <2>3, EmptyStretch
  <2>5. T[n] - T[n] <= TokenLimit BY <1>6, LimitAssumption
  <2>6. new.open = Stretch(text, c, n) BY <2>1, <2>3, <2>4
  <2>20. LoopInv(text, T, n, new) BY <2>1, <2>2, <2>3, <2>5, <2>6, LoopWhen
  <2> QED BY <2>20 DEF n, new, unit
<1>12. CASE ~(text[n] > TokenLimit) /\ full
  <2>0. text[n] <= TokenLimit /\ TokenLimit \in Nat BY <1>4, <1>12, LimitAssumption
  <2>1. new.segments = flushed /\ new.open = Append(Carried(o), unit) BY <1>8, <1>12
  <2>2. T[k] - T[a - 1] + text[n] > TokenLimit /\ T[k] > T[a - 1]
    BY <1>4, <1>6, <1>9, <1>12, <2>0 DEF full
  <2>3. \E i \in a..k : text[i] > 0
    <3> SUFFICES ASSUME \A i \in a..k : ~(text[i] > 0) PROVE FALSE
      OBVIOUS
    <3> DEFINE z == a - 1
    <3>1. z \in 0..Len(text) /\ k \in z..Len(text) /\ z + 1 = a BY <1>2, <1>3
    <3> HIDE DEF z
    <3>2. T[z] = T[k] BY <3>1, SumsGrow
    <3> QED BY <1>6, <2>2, <3>2 DEF z
  <2>4. PICK x, y : Middle(text, T, a, k, x, y) /\ flushed = Append(s, Stretch(text, x, y))
    BY <1>1, <1>2, <2>3, Flushed DEF flushed
  <2>5. PICK c \in a .. k + 1 : /\ Carried(o) = Stretch(text, c, k)
                                /\ c <= k => c = k \/ T[k] - T[c - 1] <= OverlapTokens
    BY <1>3, StretchCarried
  <2>6. c \in 1 .. n + 1 /\ k \in c - 1 .. n /\ c \in Nat /\ a <= c /\ Bounds(text, c, k)
    BY <1>2, <1>3, <2>5 DEF Bounds
  <2>7. new.open = Stretch(text, c, n) BY <1>2, <2>1, <2>5, <2>6, StretchGrows DEF unit, n
  <2>8. \A i \in c..n : text[i] <= TokenLimit
    <3> SUFFICES ASSUME NEW i \in c..n PROVE text[i] <= TokenLimit
      OBVIOUS
    <3>1. CASE i = n BY <2>0, <3>1
    <3>2. CASE i # n
      <4>1. i \in a..k BY <1>2, <1>3, <2>6, <3>2
      <4> QED BY <1>1, <4>1 DEF OpenIs
    <3> QED BY <3>1, <3>2
  <2>9. T[n] - T[k] <= TokenLimit
    <3>1. T[n] - T[k] = text[n] BY <1>4, <1>5, <1>6
    <3> QED BY <2>0, <3>1
  <2>10. /\ x \in a..k /\ y \in x..k /\ x \in 1..k /\ T[y] - T[x - 1] = T[k] - T[a - 1]
         /\ \A i \in a..k : text[i] > 0 => x <= i /\ i <= y
    BY <1>2, <1>3, <2>4 DEF Middle
  <2>11. Len(flushed) > 0 /\ flushed[Len(flushed)] = Stretch(text, x, y)
    <3>1. s \in Seq(Piece) /\ flushed \in Seq(Piece) BY <1>1, <1>7 DEF Made
    <3>2. Stretch(text, x, y) \in Piece
      <4>1. Bounds(text, x, y) BY <1>2, <2>10 DEF Bounds
      <4> QED BY <4>1, StretchIs DEF StretchShape
    <3> HIDE DEF Piece
    <3>3. Len(flushed) = Len(s) + 1 /\ Len(s) \in Nat /\ flushed[Len(s) + 1] = Stretch(text, x, y)
      BY <2>4, <3>1, <3>2, Appended
    <3> QED BY <3>3
  <2>12. Repeated(text, T, flushed[Len(flushed)], c, k, n)
    <3>1. \A i \in y + 1 .. k : ~(text[i] > 0)
      <4> SUFFICES ASSUME NEW i \in y + 1 .. k, text[i] > 0 PROVE FALSE
        OBVIOUS
      <4>1. i \in a..k /\ ~(i <= y) BY <1>2, <1>3, <2>10
      <4> QED BY <2>10, <4>1
    <3>2. \A i \in c..k : text[i] > 0 => x <= i
      <4> SUFFICES ASSUME NEW i \in c..k, text[i] > 0 PROVE x <= i
        OBVIOUS
      <4>1. i \in a..k BY <1>2, <1>3, <2>6
      <4> QED BY <2>10, <4>1
    <3>3. (\E i \in k + 1 .. n : text[i] > 0) \/ T[y] - T[x - 1] > TokenLimit
      <4>1. CASE text[n] > 0
        <5>1. n \in k + 1 .. n BY <1>2
        <5> QED BY <4>1, <5>1
      <4>2. CASE ~(text[n] > 0)
        <5>1. T[k] - T[a - 1] > TokenLimit BY <1>4, <1>6, <2>2, <4>2
        <5> QED BY <2>10, <5>1
      <4> QED BY <4>1, <4>2
    <3> QED BY <2>10, <2>11, <3>1, <3>2, <3>3 DEF Repeated
  <2>13. new.segments = flushed BY <2>1
  <2>20. LoopInv(text, T, n, new) BY <1>7, <2>5, <2>6, <2>7, <2>8, <2>9, <2>11, <2>12, <2>13, LoopWhen
  <2> QED BY <2>20 DEF n, new, unit
<1>13. CASE ~(text[n] > TokenLimit) /\ ~full
  <2>0. text[n] <= TokenLimit /\ TokenLimit \in Nat BY <1>4, <1>13, LimitAssumption
  <2>1. new.segments = s /\ new.open = Append(o, unit)
    <3>1. new = [cut EXCEPT !.open = Append(@, unit)] BY <1>8, <1>13
    <3> QED BY <3>1 DEF Cutting, s, o
  <2>2. new.open = Stretch(text, a, n) BY <1>3, <1>10, <2>1
  <2>3. a \in 1 .. n + 1 /\ b \in a - 1 .. n BY <1>2, <1>3
  <2>4. \A i \in a..n : text[i] <= TokenLimit
    <3> SUFFICES ASSUME NEW i \in a..n PROVE text[i] <= TokenLimit
      OBVIOUS
    <3>1. CASE i = n BY <2>0, <3>1
    <3>2. CASE i # n
      <4>1. i \in a..k BY <1>2, <1>3, <3>2
      <4> QED BY <1>1, <4>1 DEF OpenIs
    <3> QED BY <3>1, <3>2
  <2>5. T[n] - T[b] <= TokenLimit
    <3>1. CASE o = <<>>
      <4>1. Len(o) = 0 /\ Len(o) = k - a + 1 BY <1>3, <3>1, StretchIs DEF StretchShape
      <4>2. b = k BY <1>2, <1>3, <4>1
      <4> QED BY <1>4, <1>5, <1>6, <2>0, <4>2
    <3>2. CASE o # <<>>
      <4>1. T[k] - T[a - 1] + text[n] <= TokenLimit BY <1>4, <1>6, <1>9, <1>13, <2>0, <3>2 DEF full
      <4>2. T[a - 1] <= T[b]
        <5>1. a - 1 \in 0..Len(text) /\ b \in a - 1 .. Len(text) BY <1>2, <1>3
        <5> QED BY <5>1, SumsGrow
      <4>3. T[n] = T[k] + text[n] BY <1>5
      <4> DEFINE tn == T[n]
                 tk == T[k]
                 ta == T[a - 1]
                 tb == T[b]
                 w == text[n]
      <4>4. tn \in Nat /\ tk \in Nat /\ ta \in Nat /\ tb \in Nat /\ w \in Nat /\ TokenLimit \in Nat
        BY <1>4, <1>6, <2>0
      <4>5. tk - ta + w <= TokenLimit /\ ta <= tb /\ tn = tk + w BY <4>1, <4>2, <4>3
      <4> HIDE DEF tn, tk, ta, tb, w
      <4>6. tn - tb <= TokenLimit BY <4>4, <4>5
      <4> QED BY <4>6 DEF tn, tb
    <3> QED BY <3>1, <3>2
  <2>6. ASSUME a <= b
        PROVE  /\ a = b \/ T[b] - T[a - 1] <= OverlapTokens
               /\ Len(s) > 0 /\ Repeated(text, T, s[Len(s)], a, b, n)
    <3>1. /\ a = b \/ T[b] - T[a - 1] <= OverlapTokens
          /\ Len(s) > 0 /\ Repeated(text, T, s[Len(s)], a, b, k)
      BY <1>1, <2>6 DEF OpenIs
    <3>2. \A i \in b + 1 .. k : i \in b + 1 .. n BY <1>2, <1>3
    <3>3. Repeated(text, T, s[Len(s)], a, b, n) BY <3>1, <3>2 DEF Repeated
    <3> QED BY <3>1, <3>3
  <2>7. new.segments = s BY <2>1
  <2>20. LoopInv(text, T, n, new) BY <1>1, <2>2, <2>3, <2>4, <2>5, <2>6, <2>7, LoopWhen
  <2> QED BY <2>20 DEF n, new, unit
<1> QED BY <1>11, <1>12, <1>13
\* The segments of a text hold all of it.
LEMMA SegmentsAreMade ==
  ASSUME NEW text \in Seq(Nat) PROVE Made(text, Len(text), Segments(text))
<1> DEFINE n == Len(text)
<1>0. n \in Nat /\ n \in 0..n OBVIOUS
<1>1. PICK T : Sums(text, T) BY SumsExist
<1>2. PICK G : /\ G[0] = Uncut
               /\ \A k \in 1..n : G[k] = AddUnit(G[k - 1], <<k, text[k]>>)
               /\ \A k \in 0..n : G[k] \in Cutting
               /\ Segments(text) = Kept(G[n].segments, G[n].open)
  BY CutsAre
<1> DEFINE S == {j \in 0..n : LoopInv(text, T, j, G[j])}
<1>3. 0 \in S
  <2>1. Uncut.segments = <<>> /\ Uncut.open = <<>> BY DEF Uncut
  <2>2. 1 \in 1 .. n + 1 /\ Stretch(text, 1, 1 - 1) = <<>> BY <1>0, EmptyStretch
  <2>3. Made(text, 0, <<>>) BY EmptySeq DEF Made
  <2>4. T[0] = 0 /\ 0 - 0 = 0 BY <1>1 DEF Sums
  <2>5. /\ 1 \in 1 .. 0 + 1 /\ 0 \in 1 - 1 .. 0 /\ 1 - 1 = 0 /\ ~(1 <= 0) /\ T[0] - T[0] <= TokenLimit
        /\ 1..0 = {}
    BY <2>4, LimitAssumption
  <2>6. LoopInv(text, T, 0, Uncut) BY <2>1, <2>2, <2>3, <2>5, LoopWhen
  <2> QED BY <1>0, <1>2, <2>6
<1>4. ASSUME NEW j \in 1..n, j - 1 \in S PROVE j \in S
  <2> DEFINE k == j - 1
  <2>1. k \in 0 .. n - 1 /\ k \in 0..n /\ k + 1 = j BY <1>0
  <2> DEFINE cut == G[k]
  <2>2. cut \in Cutting /\ LoopInv(text, T, k, cut) BY <1>2, <1>4, <2>1
  <2>3. G[j] = AddUnit(cut, <<j, text[j]>>) BY <1>2
  <2>4. k \in 0 .. Len(text) - 1 BY <2>1
  <2> HIDE DEF k, cut
  <2>5. LoopInv(text, T, k + 1, AddUnit(cut, <<k + 1, text[k + 1]>>))
    BY <1>1, <2>2, <2>4, LoopGoesOn
  <2>6. LoopInv(text, T, j, G[j]) BY <2>1, <2>3, <2>5
  <2>7. j \in 0..n BY <1>0
  <2> QED BY <2>6, <2>7
<1> HIDE DEF S
<1>5. n \in S BY <1>0, <1>3, <1>4, UpTo
<1>6. PICK a, b : OpenIs(text, T, n, G[n].segments, G[n].open, a, b) /\ Made(text, b, G[n].segments)
  BY <1>5 DEF S, LoopInv
<1>7. Made(text, n, Kept(G[n].segments, G[n].open)) BY <1>0, <1>1, <1>6, Flushed
<1> QED BY <1>2, <1>7

LEMMA SegmentShape ==
  ASSUME NEW text \in Seq(Nat), NEW b \in 0..Len(text), NEW p, Segment(text, b, p)
  PROVE  /\ \A u \in DOMAIN p : p[u][1] = Head(p)[1] + u - 1
         /\ \A i : HasUnit(p, i) /\ ~(text[i] > TokenLimit) => \E u \in DOMAIN p : p[u] = <<i, text[i]>>
<1>1. CASE Whole(text, b, p)
  <2>1. PICK x \in 1..b : \E y \in x..b : p = Stretch(text, x, y) BY <1>1 DEF Whole
  <2>2. PICK y \in x..b : p = Stretch(text, x, y) BY <2>1
  <2>3. Bounds(text, x, y) /\ x <= y
    <3>1. Len(text) \in Nat /\ b \in Nat OBVIOUS
    <3> QED BY <3>1 DEF Bounds
  <2>4. StretchShape(text, x, y, p) BY <2>2, <2>3, StretchIs
  <2>5. Head(p)[1] = x BY <2>2, <2>3, StretchEnds
  <2>6. ASSUME NEW u \in DOMAIN p PROVE p[u] = <<x + u - 1, text[x + u - 1]>> BY <2>4 DEF StretchShape
  <2>7. \A u \in DOMAIN p : p[u][1] = Head(p)[1] + u - 1 BY <2>5, <2>6
  <2>8. ASSUME NEW i, HasUnit(p, i) PROVE \E u \in DOMAIN p : p[u] = <<i, text[i]>>
    <3>1. PICK u \in DOMAIN p : p[u][1] = i BY <2>8 DEF HasUnit
    <3>2. p[u] = <<i, text[i]>> BY <2>6, <3>1
    <3> QED BY <3>2
  <2> QED BY <2>7, <2>8
<1>2. CASE Part(text, b, p)
  <2>1. PICK j \in 1..b, d \in 1..TokenLimit : text[j] > TokenLimit /\ p = << <<j, d>> >> BY <1>2 DEF Part
  <2>2. DOMAIN p = {1} /\ p[1] = <<j, d>> /\ Head(p) = <<j, d>> BY <2>1
  <2>3. j \in Nat BY <2>1
  <2>4. \A u \in DOMAIN p : p[u][1] = Head(p)[1] + u - 1
    <3>1. j + 1 - 1 = j BY <2>3
    <3> QED BY <2>2, <3>1
  <2>5. \A i : HasUnit(p, i) => i = j BY <2>2 DEF HasUnit
  <2> QED BY <2>1, <2>4, <2>5
<1> QED BY <1>1, <1>2 DEF Segment

\* What a reader of the segments relies on, for every text and every limit.
LEMMA SegmentsHoldText ==
  ASSUME NEW text \in Seq(Nat)
  PROVE  CoversText(text, Segments(text)) /\ LimitsText(Segments(text))
<1> DEFINE n == Len(text)
           pieces == Segments(text)
<1>0. n \in Nat /\ n \in 0..n /\ DOMAIN text = 1..n OBVIOUS
<1>1. Made(text, n, pieces) BY SegmentsAreMade
<1> HIDE DEF pieces
<1>2. pieces \in Seq(Piece) BY <1>1 DEF Made
<1>3. \A k \in DOMAIN pieces : Segment(text, n, pieces[k]) BY <1>1 DEF Made
<1>4. \A k \in DOMAIN pieces : k > 1 => Follows(text, pieces[k - 1], pieces[k]) BY <1>1 DEF Made
<1>5. ASSUME NEW i \in DOMAIN text, text[i] > 0
      PROVE  LET holds == {k \in DOMAIN pieces : \E u \in DOMAIN pieces[k] : pieces[k][u][1] = i}
             IN \/ holds # {} /\ \A k \in holds : \E u \in DOMAIN pieces[k] : pieces[k][u] = <<i, text[i]>>
                \/ \E j, l \in DOMAIN pieces :
                     /\ j <= l /\ holds = j .. l
                     /\ \A k \in j .. l - 1 : pieces[k] = <<<<i, TokenLimit>>>>
                     /\ pieces[l] = <<<<i, text[i] - (l - j) * TokenLimit>>>>
  <2> DEFINE holds == {k \in DOMAIN pieces : \E u \in DOMAIN pieces[k] : pieces[k][u][1] = i}
  <2>1. holds = Holds(pieces, i) BY DEF Holds, HasUnit
  <2>2. Covered(text, pieces, i) BY <1>0, <1>1, <1>5 DEF Made
  <2> HIDE DEF holds
  <2>3. CASE text[i] > TokenLimit
    <3>1. CutWord(text, pieces, i) BY <2>2, <2>3 DEF Covered
    <3>2. \E j, l \in DOMAIN pieces :
            /\ j <= l /\ holds = j .. l
            /\ \A k \in j .. l - 1 : pieces[k] = <<<<i, TokenLimit>>>>
            /\ pieces[l] = <<<<i, text[i] - (l - j) * TokenLimit>>>>
      BY <2>1, <3>1 DEF CutWord
    <3> QED BY <3>2 DEF holds
  <2>4. CASE ~(text[i] > TokenLimit)
    <3>1. holds # {} BY <2>1, <2>2, <2>4 DEF Covered
    <3>2. ASSUME NEW k \in holds PROVE \E u \in DOMAIN pieces[k] : pieces[k][u] = <<i, text[i]>>
      <4>1. k \in DOMAIN pieces /\ HasUnit(pieces[k], i) BY <2>1 DEF Holds
      <4> QED BY <1>0, <1>3, <2>4, <4>1, SegmentShape
    <3>3. holds # {} /\ \A k \in holds : \E u \in DOMAIN pieces[k] : pieces[k][u] = <<i, text[i]>>
      BY <3>1, <3>2
    <3> QED BY <3>3 DEF holds
  <2> QED BY <2>3, <2>4
<1>6. ASSUME NEW k \in DOMAIN pieces
      PROVE  /\ \A u \in DOMAIN pieces[k] : pieces[k][u][1] = Head(pieces[k])[1] + u - 1
             /\ k > 1 => \/ Last(pieces[k - 1])[1] < Last(pieces[k])[1]
                         \/ Len(pieces[k]) = 1 /\ text[Last(pieces[k])[1]] > TokenLimit
                         \/ Tokens(pieces[k - 1]) > TokenLimit
  <2>1. \A u \in DOMAIN pieces[k] : pieces[k][u][1] = Head(pieces[k])[1] + u - 1
    BY <1>0, <1>3, SegmentShape
  <2> QED BY <1>4, <2>1 DEF Follows
<1>7. CoversText(text, pieces) BY <1>5, <1>6 DEF CoversText
<1>8. LimitsText(pieces)
  <2>1. \A k \in DOMAIN pieces \ {1} : k > 1
    <3>1. DOMAIN pieces = 1..Len(pieces) /\ Len(pieces) \in Nat
      <4> HIDE DEF Piece
      <4> QED BY <1>2
    <3> QED BY <3>1
  <2>2. \A k \in DOMAIN pieces \ {1} : Within(pieces[k - 1], pieces[k]) BY <1>4, <2>1 DEF Follows
  <2> QED BY <2>2 DEF LimitsText, Within
<1> QED BY <1>7, <1>8 DEF pieces

-----------------------------------------------------------------------------
(* Rows of the tree.                                                         *)

LEMMA NodesAreSeq ==
  ASSUME TypeOK
  PROVE  /\ Len(nodes) \in Nat /\ Places = 1..Len(nodes) /\ 1 \in Places
         /\ \A i \in Places : nodes[i] \in NodeType
         /\ Len(stack) \in Nat
         /\ \A k \in OpenSections : stack[k] \in Places
<1>1. nodes \in Seq(NodeType) /\ nodes # <<>> /\ stack \in Seq(Places) BY DEF TypeOK
<1>2. Len(nodes) \in Nat /\ DOMAIN nodes = 1..Len(nodes) /\ Len(nodes) # 0 BY <1>1, EmptySeq
<1>3. Len(stack) \in Nat /\ \A k \in 1..Len(stack) : stack[k] \in Places BY <1>1
<1> QED BY <1>1, <1>2, <1>3 DEF Places, OpenSections

\* The document and the open sections.
IsOpen(i) == i = 1 \/ \E k \in OpenSections : stack[k] = i

\* Two rows of one node, before and after it is known to reach further.
SameNode(r, s) ==
  /\ s.id = r.id /\ s.parent = r.parent /\ s.element = r.element /\ s.kind = r.kind
  /\ s.family = r.family /\ s.level = r.level /\ s.ordinal = r.ordinal
  /\ s.first = r.first /\ s.content = r.content

LEMMA ReachingRows ==
  ASSUME TypeOK, NEW page \in Nat \ {0}
  PROVE  /\ Reaching(page) \in Seq(NodeType) /\ Len(Reaching(page)) = Len(nodes)
         /\ \A i \in Places :
              /\ SameNode(nodes[i], Reaching(page)[i])
              /\ Reaching(page)[i].last = IF IsOpen(i) THEN Larger(nodes[i].last, page)
                                          ELSE nodes[i].last
<1> DEFINE R == Reaching(page)
           Further(r) == [r EXCEPT !.last = Larger(r.last, page)]
<1>1. R = [i \in Places |-> IF IsOpen(i) THEN Further(nodes[i]) ELSE nodes[i]]
  BY DEF Reaching, IsOpen, Places
<1>2. ASSUME NEW r \in NodeType
      PROVE  /\ Further(r) \in NodeType /\ SameNode(r, Further(r)) /\ SameNode(r, r)
             /\ Further(r).last = Larger(r.last, page)
  <2> DEFINE l == Larger(r.last, page)
  <2>1. r.last \in Nat \ {0} BY DEF NodeType
  <2>2. l \in Nat \ {0} BY <2>1 DEF Larger
  <2> HIDE DEF l
  <2>3. Further(r) = [r EXCEPT !.last = l] BY DEF l
  <2>4. [r EXCEPT !.last = l] \in NodeType BY <2>2 DEF NodeType
  <2>5. SameNode(r, [r EXCEPT !.last = l]) /\ [r EXCEPT !.last = l].last = l
    BY DEF SameNode, NodeType
  <2> QED BY <2>3, <2>4, <2>5 DEF l, SameNode
<1>3. \A i \in Places : R[i] = IF IsOpen(i) THEN Further(nodes[i]) ELSE nodes[i]
  BY <1>1
<1>4. DOMAIN R = 1..Len(nodes) /\ R = [i \in 1..Len(nodes) |-> R[i]] BY <1>1, NodesAreSeq
<1>5. \A i \in 1..Len(nodes) : R[i] \in NodeType
  <2> HIDE DEF R, Further
  <2> QED BY <1>2, <1>3, NodesAreSeq
<1>6. R \in Seq(NodeType) /\ Len(R) = Len(nodes)
  <2> HIDE DEF R
  <2> QED BY <1>4, <1>5, NodesAreSeq
<1>7. ASSUME NEW i \in Places
      PROVE  /\ SameNode(nodes[i], R[i])
             /\ R[i].last = IF IsOpen(i) THEN Larger(nodes[i].last, page) ELSE nodes[i].last
  <2> HIDE DEF R, Further
  <2> QED BY <1>2, <1>3, NodesAreSeq
<1> QED BY <1>6, <1>7

\* The rows of the element e are added under the node at P, and what is open
\* reaches as far as its page.
Grown(e, P) ==
  /\ phase = "reading" /\ e \in Elements /\ e.kind \in {"section", "leaf"}
  /\ raw' = Append(raw, e) /\ Len(raw) < MaxElements
  /\ P \in Places /\ IsOpen(P)
  /\ nodes' \in Seq(NodeType) /\ Len(nodes) <= Len(nodes')
  /\ \A i \in Places :
       /\ SameNode(nodes[i], nodes'[i])
       /\ nodes'[i].last = IF IsOpen(i) THEN Larger(nodes[i].last, PageOf(e)) ELSE nodes[i].last
  /\ \A i \in Places' \ Places :
       /\ nodes'[i].parent = nodes[P].id /\ nodes'[i].kind = e.kind
       /\ nodes'[i].element = ElementId(e, Len(raw) + 1)
       /\ nodes'[i].id[1] = nodes'[i].element
       /\ nodes'[i].last = PageOf(e)
  /\ \A i, j \in Places' \ Places : nodes'[i].id = nodes'[j].id => i = j
  /\ lastPage' = PageOf(e)
  /\ UNCHANGED phase /\ UNCHANGED graph

\* What an element gives.
LEMMA ElementFacts ==
  ASSUME NEW e \in Elements
  PROVE  /\ e.kind \in Kinds /\ e.id \in Ids \cup {NoId} /\ e.page \in Nat
         /\ e.family \in Families \cup {NoId} /\ e.level \in Nat /\ e.depth \in Nat
         /\ e.text \in Seq(Nat)
         /\ e.items \in Seq([name: Names, type: Types])
         /\ e.relations \in Seq([from: Names, by: {"owns", "files"}, to: Names])
         /\ e.kind = "section" => e.family \in Families
BY ElementsAssumption DEF ElementType

LEMMA PageIsPage ==
  ASSUME TypeOK, NEW e \in Elements PROVE PageOf(e) \in Nat \ {0}
BY ElementFacts DEF PageOf, TypeOK

LEMMA ElementIdType ==
  ASSUME NEW e \in Elements, NEW n \in Nat PROVE ElementId(e, n) \in Nat \cup Ids
BY ElementFacts DEF ElementId

\* A row of the element e under p.
RowOf(r, e, p, segment, level, content) ==
  /\ r \in NodeType
  /\ r.parent = p.id /\ r.kind = e.kind /\ r.element = ElementId(e, Len(raw) + 1)
  /\ r.id = <<ElementId(e, Len(raw) + 1), segment>> /\ r.level = level
  /\ r.last = PageOf(e) /\ r.first = PageOf(e) /\ r.content = content
  /\ r.family = IF e.kind = "section" THEN e.family ELSE NoId

LEMMA NewNodeType ==
  ASSUME TypeOK, NEW e \in Elements, e.kind \in {"section", "leaf"}, NEW p \in NodeType,
         NEW segment \in Nat, NEW ordinal \in Nat, NEW level \in Nat, NEW content \in Piece
  PROVE  RowOf(NewNode(e, p, segment, ordinal, level, content), e, p, segment, level, content)
<1> DEFINE eid == ElementId(e, Len(raw) + 1)
           family == IF e.kind = "section" THEN e.family ELSE NoId
           page == PageOf(e)
<1>1. Len(raw) + 1 \in Nat BY DEF TypeOK
<1>2. eid \in Nat \cup Ids BY <1>1, ElementIdType
<1>3. family \in Families \cup {NoId} BY ElementFacts
<1>4. page \in Nat \ {0} BY PageIsPage
<1>5. p.id \in (Nat \cup Ids) \X Nat BY DEF NodeType
<1>6. NewNode(e, p, segment, ordinal, level, content) =
        [id |-> <<eid, segment>>, parent |-> p.id, element |-> eid, kind |-> e.kind,
         family |-> family, level |-> level, ordinal |-> ordinal, first |-> page,
         last |-> page, content |-> content]
  BY DEF NewNode, NodeId
<1>7. <<eid, segment>> \in (Nat \cup Ids) \X Nat BY <1>2
<1> HIDE DEF eid, family, page
<1>8. [id |-> <<eid, segment>>, parent |-> p.id, element |-> eid, kind |-> e.kind,
       family |-> family, level |-> level, ordinal |-> ordinal, first |-> page,
       last |-> page, content |-> content] \in NodeType
  BY <1>2, <1>3, <1>4, <1>5, <1>7 DEF NodeType, Piece, Unit
<1> QED BY <1>6, <1>8 DEF eid, family, page, RowOf

-----------------------------------------------------------------------------
(* Where a heading goes.                                                     *)

LEMMA OpenIsNode ==
  ASSUME TypeOK, NEW k \in 0..Len(stack)
  PROVE  /\ Open(k) \in NodeType /\ Open(k).level \in Nat
         /\ \E P \in Places : IsOpen(P) /\ Open(k) = nodes[P] /\ P = IF k = 0 THEN 1 ELSE stack[k]
<1>1. CASE k = 0
  BY <1>1, NodesAreSeq DEF Open, IsOpen, NodeType
<1>2. CASE k # 0
  <2>1. k \in OpenSections BY <1>2, NodesAreSeq DEF OpenSections
  <2>2. stack[k] \in Places /\ nodes[stack[k]] \in NodeType BY <2>1, NodesAreSeq
  <2> QED BY <1>2, <2>1, <2>2 DEF Open, IsOpen, NodeType
<1> QED BY <1>1, <1>2

\* What every plan has.
GoodPlan(e, p) ==
  /\ p.keep \in 0..Len(stack) /\ p.parent \in 0..Len(stack) /\ p.level \in Nat
  /\ e.family \in Major => p.keep = p.parent /\ (p.keep = 0 \/ Open(p.keep).family \in Major)
  /\ p.parent # 0 => Open(p.parent).level < p.level
  /\ NodeKeysDiffer => p.keep = p.parent

LEMMA LastOpen ==
  ASSUME TypeOK, NEW S, S \subseteq OpenSections
  PROVE  /\ LastIn(S) \in 0..Len(stack)
         /\ LastIn(S) # 0 => LastIn(S) \in S
         /\ S # {} => LastIn(S) \in S /\ \A k \in S : k <= LastIn(S)
<1> DEFINE l == LastIn(S)
<1>1. Len(stack) \in Nat /\ S \subseteq 1..Len(stack) BY NodesAreSeq DEF OpenSections
<1>2. /\ S = {} => l = 0
      /\ S # {} => l \in S /\ \A k \in S : k <= l
  BY <1>1, LastIsIn
<1> HIDE DEF l
<1>3. l \in 0..Len(stack)
  <2>1. CASE S = {} BY <1>1, <1>2, <2>1
  <2>2. CASE S # {}
    <3>1. l \in 1..Len(stack) BY <1>1, <1>2, <2>2
    <3> QED BY <1>1, <3>1
  <2> QED BY <2>1, <2>2
<1>4. l # 0 => l \in S BY <1>2
<1> QED BY <1>2, <1>3, <1>4 DEF l

\* Sections on the stack are sections of the document, each once.
LEMMA StackIncreases ==
  ASSUME TypeOK
  PROVE  \A j, k \in OpenSections : j < k => stack[j] < stack[k]
<1> SUFFICES ASSUME NEW j \in OpenSections, NEW k \in OpenSections, j < k
             PROVE  stack[j] < stack[k]
  OBVIOUS
<1> DEFINE n == k - j
           S == {d \in 0..n : d = 0 \/ stack[j] < stack[j + d]}
<1>1. n \in Nat /\ n > 0 /\ j \in 1..Len(stack) /\ k \in 1..Len(stack) /\ Len(stack) \in Nat
  BY NodesAreSeq DEF OpenSections
<1>2. \A i \in OpenSections : stack[i] \in Nat BY NodesAreSeq
<1>3. 0 \in S BY <1>1
<1>4. ASSUME NEW d \in 1..n, d - 1 \in S PROVE d \in S
  <2>1. j + d \in OpenSections /\ j + (d - 1) \in OpenSections /\ j + d > 1
    BY <1>1 DEF OpenSections
  <2>2. stack[(j + d) - 1] < stack[j + d] BY <2>1 DEF TypeOK
  <2>3. (j + d) - 1 = j + (d - 1) /\ d \in 0..n BY <1>1, <2>1
  <2>4. stack[j] \in Nat /\ stack[j + d] \in Nat /\ stack[j + (d - 1)] \in Nat BY <1>2, <2>1
  <2>5. d - 1 = 0 => j + (d - 1) = j BY <1>1
  <2> QED BY <1>4, <2>2, <2>3, <2>4, <2>5
<1> HIDE DEF S
<1>5. n \in S BY <1>1, <1>3, <1>4, UpTo
<1> QED BY <1>1, <1>5 DEF S

LEMMA ByLevelIsGood ==
  ASSUME TypeOK, NEW e, e.family \notin Major, NEW level \in Nat
  PROVE  GoodPlan(e, ByLevel(level))
<1> DEFINE S == {j \in OpenSections : Open(j).level < level}
<1>1. LastIn(S) \in 0..Len(stack) /\ (LastIn(S) # 0 => LastIn(S) \in S)
  BY LastOpen
<1>2. ByLevel(level) = [keep |-> LastIn(S), parent |-> LastIn(S), level |-> level]
  BY DEF ByLevel, Plan
<1>3. LastIn(S) # 0 => Open(LastIn(S)).level < level BY <1>1
<1> HIDE DEF S
<1> QED BY <1>1, <1>2, <1>3 DEF GoodPlan

LEMMA UnderMajorIsGood ==
  ASSUME TypeOK, NEW e, NEW level \in Nat
  PROVE  GoodPlan(e, UnderMajor(level))
<1> DEFINE S == {j \in OpenSections : Open(j).family \in Major /\ Open(j).level < level}
<1>1. LastIn(S) \in 0..Len(stack) /\ (LastIn(S) # 0 => LastIn(S) \in S)
  BY LastOpen
<1>2. UnderMajor(level) = [keep |-> LastIn(S), parent |-> LastIn(S), level |-> level]
  BY DEF UnderMajor, Plan
<1>3. LastIn(S) # 0 => Open(LastIn(S)).family \in Major /\ Open(LastIn(S)).level < level BY <1>1
<1> HIDE DEF S
<1> QED BY <1>1, <1>2, <1>3 DEF GoodPlan

LEMMA UnderIsGood ==
  ASSUME TypeOK, NEW e, e.family \notin Major, NEW k \in OpenSections
  PROVE  GoodPlan(e, Under(k))
<1> DEFINE S == {j \in OpenSections : Open(j).id = Open(k).id}
<1>0. k \in 1..Len(stack) /\ Len(stack) \in Nat BY NodesAreSeq DEF OpenSections
<1>1. LastIn(S) \in 0..Len(stack) /\ LastIn(S) \in S
  BY LastOpen
<1>2. Under(k) = [keep |-> LastIn(S), parent |-> k, level |-> Open(k).level + 1]
  BY DEF Under, Plan
<1>3. Open(k).level \in Nat BY <1>0, OpenIsNode
<1>4. ASSUME NodeKeysDiffer, NEW j \in S PROVE j = k
  <2>1. j \in 1..Len(stack) /\ nodes[stack[j]].id = nodes[stack[k]].id
    BY <1>0 DEF Open, OpenSections
  <2>2. stack[j] = stack[k] BY <1>4, <2>1, NodesAreSeq DEF NodeKeysDiffer, Places, OpenSections
  <2>3. stack[j] \in Nat BY <2>1, NodesAreSeq DEF OpenSections
  <2> QED BY <1>0, <2>1, <2>2, <2>3, StackIncreases DEF OpenSections
<1> HIDE DEF S
<1> QED BY <1>0, <1>1, <1>2, <1>3, <1>4 DEF GoodPlan

LEMMA InnermostIsOpen ==
  ASSUME TypeOK, NEW families, Innermost(families) # 0
  PROVE  Innermost(families) \in OpenSections
<1> DEFINE S == {j \in OpenSections : Open(j).family \in families}
<1>1. LastIn(S) # 0 => LastIn(S) \in S BY LastOpen
<1> QED BY <1>1 DEF Innermost

LEMMA BaseLevelType ==
  ASSUME TypeOK, NEW e \in Elements PROVE BaseLevel(e) \in Nat
<1>1. CASE e.level > 0 BY <1>1, ElementFacts DEF BaseLevel
<1>2. CASE ~(e.level > 0) /\ stack = <<>> BY <1>2 DEF BaseLevel
<1>3. CASE ~(e.level > 0) /\ stack # <<>>
  <2>1. Len(stack) \in 0..Len(stack) BY NodesAreSeq
  <2> QED BY <1>3, <2>1, OpenIsNode DEF BaseLevel
<1> QED BY <1>1, <1>2, <1>3

\* Every early return of the parent rules gives a good plan.
LEMMA ResolvedIsGood ==
  ASSUME TypeOK, NEW e \in Elements PROVE GoodPlan(e, ResolvedParent(e))
<1> DEFINE level == BaseLevel(e)
           major == Innermost(Major)
           enum == Innermost(Enum)
           byDepth == e.depth > 0 /\ \/ e.family = Generic /\ e.depth = level
                                     \/ e.family \in Group /\ e.attachment
<1>1. level \in Nat /\ e.depth \in Nat BY BaseLevelType, ElementFacts
<1>2. major # 0 => major \in OpenSections BY InnermostIsOpen
<1>3. enum # 0 => enum \in OpenSections BY InnermostIsOpen
<1>4. ResolvedParent(e) =
        IF e.family \in Major THEN UnderMajor(level)
        ELSE IF e.family \in Enum /\ major # 0 THEN Under(major)
        ELSE IF byDepth THEN ByLevel(e.depth)
        ELSE IF e.family \in Group /\ major # 0 THEN Under(major)
        ELSE IF e.family = Generic /\ enum # 0 THEN Under(enum)
        ELSE ByLevel(level)
  BY DEF ResolvedParent
<1> HIDE DEF level, major, enum, byDepth
<1>5. CASE e.family \in Major BY <1>1, <1>4, <1>5, UnderMajorIsGood
<1>6. CASE e.family \notin Major
  BY <1>1, <1>2, <1>3, <1>4, <1>6, UnderIsGood, ByLevelIsGood
<1> QED BY <1>5, <1>6

-----------------------------------------------------------------------------
(* What the elements add to the tree.                                        *)

LEMMA CutIs ==
  ASSUME NEW e \in Elements
  PROVE  /\ Cut[e] \in Seq(Piece) /\ Cut[e] = Segments(e.text)
         /\ Len(Cut[e]) \in Nat /\ DOMAIN Cut[e] = 1..Len(Cut[e])
         /\ \A k \in 1..Len(Cut[e]) : Cut[e][k] \in Piece
<1>1. Cut[e] = Segments(e.text) BY DEF Cut
<1>2. Cut[e] \in Seq(Piece) BY <1>1, ElementFacts, SegmentsType
<1> HIDE DEF Piece
<1> QED BY <1>1, <1>2

\* The rows of a leaf under p.
LEMMA PiecesAre ==
  ASSUME TypeOK, NEW e \in Elements, e.kind = "leaf", NEW p \in NodeType
  PROVE  LET N == Pieces(e, p)
         IN /\ N \in Seq(NodeType) /\ Len(N) = Len(Cut[e])
            /\ \A k \in 1..Len(N) :
                 /\ N[k].parent = p.id /\ N[k].kind = e.kind
                 /\ N[k].element = ElementId(e, Len(raw) + 1)
                 /\ N[k].id = <<ElementId(e, Len(raw) + 1), IF Len(N) = 1 THEN 0 ELSE k>>
                 /\ N[k].last = PageOf(e) /\ N[k].content = Cut[e][k]
<1> DEFINE n == Len(raw) + 1
           level == p.level + 1
           segments == Cut[e]
           N == Pieces(e, p)
<1>1. n \in Nat /\ level \in Nat
  <2>1. raw \in Seq(Elements) BY DEF TypeOK
  <2>2. p.level \in Nat BY DEF NodeType
  <2> QED BY <2>1, <2>2
<1>0. e.kind \in {"section", "leaf"} OBVIOUS
<1>2. CASE Len(segments) = 1
  <2> DEFINE x == NewNode(e, p, 0, n, level, segments[1])
  <2>1. N = <<x>> BY <1>2 DEF Pieces
  <2> HIDE DEF level
  <2>2. segments[1] \in Piece BY <1>2, CutIs
  <2>3. RowOf(x, e, p, 0, level, segments[1]) BY <1>0, <1>1, <2>2, NewNodeType
  <2> HIDE DEF N, x
  <2>4. N \in Seq(NodeType) /\ Len(N) = 1 /\ N[1] = x BY <2>1, <2>3 DEF RowOf
  <2>5. \A k \in 1..Len(N) : k = 1
    <3>1. 1..Len(N) = 1..1 BY <2>4
    <3> QED BY <3>1
  <2>6. Len(N) = Len(Cut[e]) BY <1>2, <2>4
  <2>7. Cut[e] = segments OBVIOUS
  <2> HIDE DEF segments, level
  <2>8. \A k \in 1..Len(N) :
          /\ N[k].parent = p.id /\ N[k].kind = e.kind
          /\ N[k].element = ElementId(e, Len(raw) + 1)
          /\ N[k].id = <<ElementId(e, Len(raw) + 1), IF Len(N) = 1 THEN 0 ELSE k>>
          /\ N[k].last = PageOf(e) /\ N[k].content = segments[k]
    BY <2>3, <2>4, <2>5 DEF RowOf
  <2> QED BY <2>4, <2>6, <2>7, <2>8 DEF N
<1>3. CASE Len(segments) # 1
  <2> DEFINE x(k) == NewNode(e, p, k, n * 10000 + k, level, segments[k])
  <2>1. N = [k \in 1..Len(segments) |-> x(k)] BY <1>3, CutIs DEF Pieces
  <2> HIDE DEF level
  <2>2. ASSUME NEW k \in 1..Len(segments) PROVE RowOf(x(k), e, p, k, level, segments[k])
    <3>1. k \in Nat /\ n * 10000 + k \in Nat /\ segments[k] \in Piece BY <1>1, CutIs
    <3> QED BY <1>0, <1>1, <3>1, NewNodeType
  <2> HIDE DEF N, x
  <2>3. N \in Seq(NodeType) /\ Len(N) = Len(segments) BY <2>1, <2>2, CutIs DEF RowOf
  <2>4. \A k \in 1..Len(N) : N[k] = x(k) BY <2>1, <2>3
  <2> QED BY <1>3, <2>2, <2>3, <2>4 DEF N, RowOf
<1> QED BY <1>2, <1>3

\* The rows that were there, reaching as far as page, and new ones behind them.
LEMMA Joined ==
  ASSUME TypeOK, NEW page \in Nat \ {0}, NEW N \in Seq(NodeType),
         nodes' = Reaching(page) \o N
  PROVE  /\ nodes' \in Seq(NodeType) /\ Len(nodes') = Len(nodes) + Len(N)
         /\ Len(N) \in Nat /\ Places' = 1..(Len(nodes) + Len(N))
         /\ \A i \in Places : nodes'[i] = Reaching(page)[i]
         /\ \A k \in 1..Len(N) : nodes'[Len(nodes) + k] = N[k]
         /\ \A i \in Places' \ Places : \E k \in 1..Len(N) : i = Len(nodes) + k
<1> DEFINE R == Reaching(page)
<1>1. R \in Seq(NodeType) /\ Len(R) = Len(nodes) BY ReachingRows
<1>2. Len(nodes) \in Nat /\ Places = 1..Len(nodes) BY NodesAreSeq
<1> HIDE DEF R
<1>3. nodes' = R \o N BY DEF R
<1>4. nodes' \in Seq(NodeType) /\ Len(nodes') = Len(nodes) + Len(N) BY <1>1, <1>3, ConcatProperties
<1>5. Len(N) \in Nat /\ Places' = 1..(Len(nodes) + Len(N)) BY <1>2, <1>4 DEF Places
<1>6. \A i \in Places : nodes'[i] = R[i] BY <1>1, <1>2, <1>3
<1>7. \A k \in 1..Len(N) : nodes'[Len(nodes) + k] = N[k] BY <1>1, <1>2, <1>3, <1>5
<1>8. ASSUME NEW i \in Places' \ Places PROVE \E k \in 1..Len(N) : i = Len(nodes) + k
  <2> DEFINE k == i - Len(nodes)
  <2>1. i \in 1..(Len(nodes) + Len(N)) /\ i \notin 1..Len(nodes) BY <1>2, <1>5
  <2>2. k \in 1..Len(N) /\ i = Len(nodes) + k BY <1>2, <1>5, <2>1
  <2> QED BY <2>2
<1> QED BY <1>4, <1>5, <1>6, <1>7, <1>8 DEF R

LEMMA GrownByRows ==
  ASSUME TypeOK, NEW e \in Elements, e.kind \in {"section", "leaf"}, Read(e), Idle,
         NEW P \in Places, IsOpen(P), NEW N \in Seq(NodeType),
         nodes' = Reaching(PageOf(e)) \o N, lastPage' = PageOf(e),
         \A k \in 1..Len(N) :
           /\ N[k].parent = nodes[P].id /\ N[k].kind = e.kind
           /\ N[k].element = ElementId(e, Len(raw) + 1)
           /\ N[k].id = <<ElementId(e, Len(raw) + 1), IF Len(N) = 1 THEN 0 ELSE k>>
           /\ N[k].last = PageOf(e)
  PROVE  Grown(e, P)
<1>1. PageOf(e) \in Nat \ {0} BY PageIsPage
<1>2. /\ nodes' \in Seq(NodeType) /\ Len(nodes') = Len(nodes) + Len(N) /\ Len(N) \in Nat
      /\ \A i \in Places : nodes'[i] = Reaching(PageOf(e))[i]
      /\ \A k \in 1..Len(N) : nodes'[Len(nodes) + k] = N[k]
      /\ \A i \in Places' \ Places : \E k \in 1..Len(N) : i = Len(nodes) + k
  BY <1>1, Joined
<1>3. \A i \in Places :
        /\ SameNode(nodes[i], nodes'[i])
        /\ nodes'[i].last = IF IsOpen(i) THEN Larger(nodes[i].last, PageOf(e)) ELSE nodes[i].last
  <2>1. \A i \in Places :
          /\ SameNode(nodes[i], Reaching(PageOf(e))[i])
          /\ Reaching(PageOf(e))[i].last = IF IsOpen(i) THEN Larger(nodes[i].last, PageOf(e))
                                           ELSE nodes[i].last
    BY <1>1, ReachingRows
  <2> QED BY <1>2, <2>1
<1>4. \A i \in Places' \ Places :
       /\ nodes'[i].parent = nodes[P].id /\ nodes'[i].kind = e.kind
       /\ nodes'[i].element = ElementId(e, Len(raw) + 1)
       /\ nodes'[i].id[1] = nodes'[i].element
       /\ nodes'[i].last = PageOf(e)
  <2> SUFFICES ASSUME NEW i \in Places' \ Places
               PROVE  /\ nodes'[i].parent = nodes[P].id /\ nodes'[i].kind = e.kind
                      /\ nodes'[i].element = ElementId(e, Len(raw) + 1)
                      /\ nodes'[i].id[1] = nodes'[i].element
                      /\ nodes'[i].last = PageOf(e)
    OBVIOUS
  <2>1. PICK k \in 1..Len(N) : i = Len(nodes) + k BY <1>2
  <2>2. nodes'[i] = N[k] BY <1>2, <2>1
  <2>3. N[k].id[1] = ElementId(e, Len(raw) + 1) OBVIOUS
  <2> QED BY <2>2, <2>3
<1>5. ASSUME NEW i \in Places' \ Places, NEW j \in Places' \ Places, nodes'[i].id = nodes'[j].id
      PROVE  i = j
  <2>1. PICK k \in 1..Len(N) : i = Len(nodes) + k BY <1>2
  <2>2. PICK l \in 1..Len(N) : j = Len(nodes) + l BY <1>2
  <2>0. nodes'[i] = N[k] /\ nodes'[j] = N[l] BY <1>2, <2>1, <2>2
  <2>3. N[k].id[2] = N[l].id[2] BY <1>5, <2>0
  <2>6. /\ N[k].id[2] = IF Len(N) = 1 THEN 0 ELSE k
        /\ N[l].id[2] = IF Len(N) = 1 THEN 0 ELSE l
    <3>1. N[k].id = <<ElementId(e, Len(raw) + 1), IF Len(N) = 1 THEN 0 ELSE k>> OBVIOUS
    <3>2. N[l].id = <<ElementId(e, Len(raw) + 1), IF Len(N) = 1 THEN 0 ELSE l>> OBVIOUS
    <3> QED BY <3>1, <3>2
  <2>4. (IF Len(N) = 1 THEN 0 ELSE k) = (IF Len(N) = 1 THEN 0 ELSE l) BY <2>3, <2>6
  <2>7. Len(N) \in Nat /\ 1..Len(N) \subseteq Nat BY <1>2
  <2>5. k = l
    <3>1. CASE Len(N) = 1 BY <3>1
    <3>2. CASE Len(N) # 1 BY <2>4, <3>2
    <3> QED BY <3>1, <3>2
  <2> QED BY <2>1, <2>2, <2>5
<1>6. Len(nodes) <= Len(nodes') BY <1>2, NodesAreSeq
<1> QED BY <1>2, <1>3, <1>4, <1>5, <1>6 DEF Grown, Read, Idle

\* A heading adds a section below the one its plan names.
SectionAdded(e, p) ==
  /\ e.kind = "section" /\ GoodPlan(e, p)
  /\ Grown(e, IF p.parent = 0 THEN 1 ELSE stack[p.parent])
  /\ Len(nodes') = Len(nodes) + 1
  /\ nodes'[Len(nodes) + 1].level = p.level /\ nodes'[Len(nodes) + 1].family = e.family
  /\ stack' = Append(SubSeq(stack, 1, p.keep), Len(nodes) + 1)

LEMMA SectionGrows ==
  ASSUME TypeOK, NEW e \in Elements, AddSection(e)
  PROVE  SectionAdded(e, ResolvedParent(e))
<1> DEFINE p == ResolvedParent(e)
           P == IF p.parent = 0 THEN 1 ELSE stack[p.parent]
           x == NewNode(e, Open(p.parent), 0, Len(raw) + 1, p.level, Units(e.text))
           N == <<x>>
<1>1. GoodPlan(e, p) BY ResolvedIsGood
<1>2. /\ e.kind = "section" /\ Read(e) /\ Idle /\ lastPage' = PageOf(e)
      /\ nodes' = Append(Reaching(PageOf(e)), x)
      /\ stack' = Append(SubSeq(stack, 1, p.keep), Len(nodes) + 1)
  BY DEF AddSection
<1> HIDE DEF p
<1>3. p.parent \in 0..Len(stack) /\ p.level \in Nat BY <1>1 DEF GoodPlan
<1>4. P \in Places /\ IsOpen(P) /\ Open(p.parent) = nodes[P] /\ nodes[P] \in NodeType
  BY <1>3, OpenIsNode
<1>5. Len(raw) + 1 \in Nat /\ Units(e.text) \in Piece BY ElementFacts, UnitsType DEF TypeOK
<1>6. RowOf(x, e, nodes[P], 0, p.level, Units(e.text))
  <2> HIDE DEF P
  <2>1. Open(p.parent) \in NodeType BY <1>4
  <2>2. RowOf(x, e, Open(p.parent), 0, p.level, Units(e.text))
    BY <1>2, <1>3, <1>5, <2>1, NewNodeType
  <2> QED BY <1>4, <2>2
<1>7. Reaching(PageOf(e)) \in Seq(NodeType) BY PageIsPage, ReachingRows
<1> HIDE DEF x, P
<1>8. N \in Seq(NodeType) /\ Len(N) = 1 /\ N[1] = x BY <1>6 DEF RowOf
<1>9. nodes' = Reaching(PageOf(e)) \o N BY <1>2, <1>6, <1>7 DEF RowOf
<1>15. 1..Len(N) = {1} BY <1>8
<1> HIDE DEF N
<1>10. \A k \in 1..Len(N) :
         /\ N[k].parent = nodes[P].id /\ N[k].kind = e.kind
         /\ N[k].element = ElementId(e, Len(raw) + 1)
         /\ N[k].id = <<ElementId(e, Len(raw) + 1), IF Len(N) = 1 THEN 0 ELSE k>>
         /\ N[k].last = PageOf(e)
  <2> SUFFICES ASSUME NEW k \in 1..Len(N)
               PROVE  /\ N[k].parent = nodes[P].id /\ N[k].kind = e.kind
                      /\ N[k].element = ElementId(e, Len(raw) + 1)
                      /\ N[k].id = <<ElementId(e, Len(raw) + 1), IF Len(N) = 1 THEN 0 ELSE k>>
                      /\ N[k].last = PageOf(e)
    OBVIOUS
  <2>1. k = 1 /\ N[k] = x /\ Len(N) = 1 BY <1>8, <1>15
  <2>2. /\ x.parent = nodes[P].id /\ x.kind = e.kind /\ x.last = PageOf(e)
        /\ x.element = ElementId(e, Len(raw) + 1) /\ x.id = <<ElementId(e, Len(raw) + 1), 0>>
    BY <1>6 DEF RowOf
  <2> DEFINE segment == IF Len(N) = 1 THEN 0 ELSE k
             eid == ElementId(e, Len(raw) + 1)
  <2>3. segment = 0 BY <2>1
  <2>4. x.element = eid /\ x.id = <<eid, 0>> BY <2>2
  <2> HIDE DEF segment, eid
  <2>5. N[k].element = eid /\ N[k].id = <<eid, segment>> BY <2>1, <2>3, <2>4
  <2>6. N[k].parent = nodes[P].id /\ N[k].kind = e.kind /\ N[k].last = PageOf(e)
    BY <2>1, <2>2
  <2> QED BY <2>5, <2>6 DEF segment, eid
<1>11. Grown(e, P) BY <1>2, <1>4, <1>8, <1>9, <1>10, GrownByRows
<1>12. Len(nodes') = Len(nodes) + 1 /\ nodes'[Len(nodes) + 1] = x
  <2>1. PageOf(e) \in Nat \ {0} BY PageIsPage
  <2>2. /\ Len(nodes') = Len(nodes) + Len(N)
        /\ \A k \in 1..Len(N) : nodes'[Len(nodes) + k] = N[k]
    BY <1>8, <1>9, <2>1, Joined
  <2>3. 1 \in 1..Len(N) BY <1>8
  <2> QED BY <1>8, <2>2, <2>3
<1>13. x.level = p.level /\ x.family = e.family BY <1>2, <1>6 DEF RowOf
<1>14. SectionAdded(e, p) BY <1>1, <1>2, <1>11, <1>12, <1>13 DEF SectionAdded, P
<1> QED BY <1>14 DEF p

\* A leaf adds its pieces below the innermost open section.
LeafAdded(e) ==
  /\ e.kind = "leaf" /\ stack' = stack
  /\ Grown(e, IF Len(stack) = 0 THEN 1 ELSE stack[Len(stack)])
  /\ Len(nodes') = Len(nodes) + Len(Cut[e])
  /\ \A k \in 1..Len(Cut[e]) : nodes'[Len(nodes) + k].content = Cut[e][k]

LEMMA LeafGrows ==
  ASSUME TypeOK, NEW e \in Elements, AddLeaf(e)
  PROVE  LeafAdded(e)
<1> DEFINE P == IF Len(stack) = 0 THEN 1 ELSE stack[Len(stack)]
           N == Pieces(e, nodes[P])
<1>1. Len(stack) \in 0..Len(stack) BY NodesAreSeq
<1>2. P \in Places /\ IsOpen(P) /\ Open(Len(stack)) = nodes[P] /\ nodes[P] \in NodeType
  BY <1>1, OpenIsNode
<1> HIDE DEF P
<1>3. /\ e.kind = "leaf" /\ Read(e) /\ Idle /\ lastPage' = PageOf(e) /\ stack' = stack
      /\ nodes' = Reaching(PageOf(e)) \o N
  BY <1>2 DEF AddLeaf
<1>4. /\ N \in Seq(NodeType) /\ Len(N) = Len(Cut[e])
      /\ \A k \in 1..Len(N) :
           /\ N[k].parent = nodes[P].id /\ N[k].kind = e.kind
           /\ N[k].element = ElementId(e, Len(raw) + 1)
           /\ N[k].id = <<ElementId(e, Len(raw) + 1), IF Len(N) = 1 THEN 0 ELSE k>>
           /\ N[k].last = PageOf(e) /\ N[k].content = Cut[e][k]
  BY <1>2, <1>3, PiecesAre
<1> HIDE DEF N
<1>5. Grown(e, P) BY <1>2, <1>3, <1>4, GrownByRows
<1>6. /\ Len(nodes') = Len(nodes) + Len(Cut[e])
      /\ \A k \in 1..Len(Cut[e]) : nodes'[Len(nodes) + k].content = Cut[e][k]
  BY <1>3, <1>4, PageIsPage, Joined
<1> QED BY <1>3, <1>5, <1>6 DEF LeafAdded, P

-----------------------------------------------------------------------------
(* The inductive invariant.                                                  *)

IsParent(i, j) == nodes[i].parent = nodes[j].id
IsSection(i) == nodes[i].kind = "section"

\* The first row is the document; any other stands for a block and lies under an
\* earlier row.
RowsHaveParents ==
  /\ nodes[1].kind = "document" /\ nodes[1].id = RootId /\ nodes[1].first = 1
  /\ \A i \in Places \ {1} :
       /\ nodes[i].kind \in {"section", "leaf"} /\ nodes[i].id[1] = nodes[i].element
       /\ \E n \in Blocks : nodes[i].element = BlockId(n)
       /\ \E j \in Places : j < i /\ IsParent(i, j)

\* No section comes after the innermost open one.
InnermostIsLast ==
  \A i \in Places : IsSection(i) => Len(stack) > 0 /\ i <= stack[Len(stack)]

\* What only holds as long as no two blocks have one id.

\* An open section lies under the one that is open around it.
OpenSectionsNest ==
  \A k \in OpenSections : /\ Open(k).parent = Open(k - 1).id
                          /\ k > 1 => Open(k - 1).level < Open(k).level

\* A leaf lies under the last section before it.
LeavesUnderLast ==
  \A i, j \in Places : i # 1 /\ nodes[i].kind = "leaf" /\ IsParent(i, j) =>
    /\ j < i /\ nodes[j].kind # "leaf"
    /\ \A k \in Places : j < k /\ k < i => ~IsSection(k)

\* What follows an open section lies in it.
OpenHolds ==
  \A o, i, j \in Places : IsOpen(o) /\ o < i /\ IsParent(i, j) => o <= j

\* What comes after a row's parent, and before the row, lies in that parent.
RowsContiguous ==
  \A j, k, p, q \in Places :
    k # 1 /\ p < j /\ j < k /\ IsParent(k, p) /\ IsParent(j, q) => p <= q

\* A row's pages end within its parent's.
EndsNest == \A i, j \in Places : i # 1 /\ IsParent(i, j) => nodes[i].last <= nodes[j].last

\* The rows of a leaf follow each other and hold the pieces its text is cut into.
LeafRows(n) == {i \in Places : nodes[i].kind = "leaf" /\ nodes[i].element = BlockId(n)}
HeldAfter(n, f) ==
  LET pieces == Cut[raw[n]]
  IN /\ LeafRows(n) = f + 1 .. f + Len(pieces)
     /\ \A k \in 1..Len(pieces) : nodes[f + k].content = pieces[k]
LeavesHeld == \A n \in DOMAIN raw : raw[n].kind = "leaf" => \E f \in 0..Len(nodes) : HeldAfter(n, f)

KeyedTree ==
  /\ NodeKeysDiffer /\ OpenSectionsNest /\ LeavesUnderLast
  /\ OpenHolds /\ RowsContiguous /\ EndsNest

TreeInv ==
  /\ RowsHaveParents /\ InnermostIsLast /\ MajorsAreOutermost
  /\ BlockKeysDiffer => KeyedTree /\ LeavesHeld

\* What is known of the graph while it is built.
GraphInv ==
  /\ phase = "reading" => registry = {} /\ todo = {} /\ walk = <<>> /\ links = {} /\ relations = {}
  /\ walk # <<>> /\ BlockKeysDiffer =>
       /\ at <= walk[3]
       /\ \A k \in Places : at < k /\ k <= walk[3] => ~IsSection(k)
  /\ walk # <<>> /\ walk[1] = 1 => place = 0
  /\ BlockKeysDiffer => RowsKeepTheirSection
  /\ phase = "linking" => \A n \in DOMAIN raw : MentionedBy(raw[n]) \subseteq EntitiesOf(registry)
  /\ \A r \in relations : r.place \in DOMAIN raw[r.ordinal].relations
  /\ \A x \in Ends : x.entity \in Called(registry, LookupKeys(x.name))

IInv == TypeOK /\ TreeInv /\ GraphInv

-----------------------------------------------------------------------------
(* Reading an element.                                                       *)

LEMMA ReadFacts ==
  ASSUME TypeOK, NEW e \in Elements, Read(e)
  PROVE  LET n == Len(raw) + 1
         IN /\ raw' \in Seq(Elements) /\ Len(raw') <= MaxElements /\ n \in Nat \ {0}
            /\ DOMAIN raw' = (DOMAIN raw) \cup {n} /\ n \notin DOMAIN raw
            /\ raw'[n] = e /\ \A m \in DOMAIN raw : m \in Nat \ {0} /\ raw'[m] = raw[m]
<1>1. /\ raw \in Seq(Elements) /\ raw' = Append(raw, e) /\ Len(raw) < MaxElements
      /\ MaxElements \in Nat
  BY BoundAssumption DEF TypeOK, Read
<1>2. Len(raw) \in Nat /\ DOMAIN raw = 1..Len(raw) BY <1>1
<1>3. Len(raw') = Len(raw) + 1 /\ raw' \in Seq(Elements) BY <1>1
<1>4. DOMAIN raw' = 1..(Len(raw) + 1) BY <1>2, <1>3
<1>5. /\ raw'[Len(raw) + 1] = e
      /\ \A m \in 1..Len(raw) : raw'[m] = raw[m]
  BY <1>1, <1>2
<1> QED BY <1>1, <1>2, <1>3, <1>4, <1>5

LEMMA BlocksOnRead ==
  ASSUME TypeOK, NEW e \in Elements, Read(e)
  PROVE  LET n == Len(raw) + 1
         IN /\ Blocks \subseteq Blocks' /\ Blocks' \subseteq Blocks \cup {n} /\ n \notin Blocks
            /\ e.kind # "dropped" => n \in Blocks'
            /\ \A m \in Blocks : ElementId(raw'[m], m) = BlockId(m)
            /\ ElementId(raw'[n], n) = ElementId(e, n)
            /\ BlockKeysDiffer' => BlockKeysDiffer
            /\ BlockKeysDiffer' /\ e.kind # "dropped" =>
                 \A m \in Blocks : BlockId(m) # ElementId(e, n)
<1> DEFINE n == Len(raw) + 1
<1>1. /\ DOMAIN raw' = (DOMAIN raw) \cup {n} /\ n \notin DOMAIN raw
      /\ raw'[n] = e /\ \A m \in DOMAIN raw : m \in Nat \ {0} /\ raw'[m] = raw[m]
  BY ReadFacts
<1> HIDE DEF n
<1>2. Blocks = {m \in DOMAIN raw : raw[m].kind # "dropped"} BY DEF Blocks
<1>3. Blocks' = {m \in DOMAIN raw' : raw'[m].kind # "dropped"} BY DEF Blocks
<1>4. Blocks \subseteq Blocks' /\ Blocks' \subseteq Blocks \cup {n} /\ n \notin Blocks
  BY <1>1, <1>2, <1>3
<1>5. e.kind # "dropped" => n \in Blocks' BY <1>1, <1>3
<1>6. \A m \in Blocks : ElementId(raw'[m], m) = BlockId(m) BY <1>1, <1>2 DEF BlockId
<1>7. ElementId(raw'[n], n) = ElementId(e, n) BY <1>1
<1>8. BlockKeysDiffer' <=>
        \A l, m \in Blocks' : ElementId(raw'[l], l) = ElementId(raw'[m], m) => l = m
  BY DEF BlockKeysDiffer, BlockId
<1>9. BlockKeysDiffer' => BlockKeysDiffer
  BY <1>4, <1>6, <1>8 DEF BlockKeysDiffer
<1>10. BlockKeysDiffer' /\ e.kind # "dropped" => \A m \in Blocks : BlockId(m) # ElementId(e, n)
  BY <1>4, <1>5, <1>6, <1>7, <1>8
<1> QED BY <1>4, <1>5, <1>6, <1>7, <1>9, <1>10 DEF n

\* Blocks whose number is their id are told from the document by it.
LEMMA BlockIdNotRoot ==
  ASSUME NEW e \in Elements, NEW n \in Nat \ {0} PROVE ElementId(e, n) # 0
<1>1. e.id # NoId => e.id \in Ids BY ElementFacts
<1> QED BY <1>1, IdsAssumption DEF ElementId

LEMMA GrownFacts ==
  ASSUME TypeOK, NEW e, NEW P, Grown(e, P)
  PROVE  /\ e \in Elements /\ Read(e) /\ e.kind # "dropped"
         /\ Len(nodes) \in Nat \ {0} /\ Len(nodes') \in Nat /\ Len(nodes) <= Len(nodes')
         /\ Places = 1..Len(nodes) /\ Places' = 1..Len(nodes') /\ Places \subseteq Places'
         /\ nodes' # <<>> /\ 1 \in Places /\ P \in Places
         /\ \A i \in Places' \ Places : i > Len(nodes)
         /\ \A i, j \in Places : IsParent(i, j)' <=> IsParent(i, j)
         /\ \A i \in Places : IsSection(i)' <=> IsSection(i)
<1>1. /\ e \in Elements /\ e.kind \in {"section", "leaf"} /\ phase = "reading"
      /\ raw' = Append(raw, e) /\ Len(raw) < MaxElements /\ P \in Places
      /\ nodes' \in Seq(NodeType) /\ Len(nodes) <= Len(nodes')
      /\ \A i \in Places : SameNode(nodes[i], nodes'[i])
  BY DEF Grown
<1>2. /\ Len(nodes) \in Nat \ {0} /\ DOMAIN nodes = 1..Len(nodes) /\ Places = 1..Len(nodes)
      /\ 1 \in Places
  BY NodesAreSeq
<1>3. Len(nodes') \in Nat /\ DOMAIN nodes' = 1..Len(nodes') BY <1>1
<1>4. Places' = 1..Len(nodes') BY <1>3 DEF Places
<1>5. Places \subseteq Places' /\ nodes' # <<>> /\ \A i \in Places' \ Places : i > Len(nodes)
  BY <1>1, <1>2, <1>3, <1>4, EmptySeq
<1>6. \A i, j \in Places : IsParent(i, j)' <=> IsParent(i, j)
  BY <1>1 DEF IsParent, SameNode
<1>7. \A i \in Places : IsSection(i)' <=> IsSection(i) BY <1>1 DEF IsSection, SameNode
<1> QED BY <1>1, <1>2, <1>3, <1>4, <1>5, <1>6, <1>7 DEF Read

\* Rows under distinct ids are still told from each other when more follow.
LEMMA KeysOnGrowth ==
  ASSUME TypeOK, TreeInv, NEW e, NEW P, Grown(e, P), BlockKeysDiffer'
  PROVE  NodeKeysDiffer'
<1> DEFINE eid == ElementId(e, Len(raw) + 1)
<1>1. /\ e \in Elements /\ Read(e) /\ e.kind # "dropped" /\ Places = DOMAIN nodes
      /\ Places' = DOMAIN nodes' /\ Places \subseteq Places' /\ 1 \in Places
  BY GrownFacts DEF Places
<1>2. BlockKeysDiffer /\ \A m \in Blocks : BlockId(m) # eid BY <1>1, BlocksOnRead
<1>3. NodeKeysDiffer BY <1>2 DEF TreeInv, KeyedTree
<1>4. eid # 0
  <2>1. Len(raw) + 1 \in Nat \ {0} BY <1>1, ReadFacts
  <2> QED BY <1>1, <2>1, BlockIdNotRoot
<1>5. \A i \in Places : nodes[i].id[1] # eid
  <2>1. nodes[1].id[1] = 0 BY DEF TreeInv, RowsHaveParents, RootId, NodeId
  <2>2. \A i \in Places \ {1} : nodes[i].id[1] = nodes[i].element /\ nodes[i].element # eid
    BY <1>2 DEF TreeInv, RowsHaveParents
  <2> QED BY <1>4, <2>1, <2>2
<1>6. \A i \in Places : nodes'[i].id = nodes[i].id BY DEF Grown, SameNode
<1>7. \A i \in Places' \ Places : nodes'[i].id[1] = eid BY DEF Grown
<1>8. \A i, j \in Places' \ Places : nodes'[i].id = nodes'[j].id => i = j BY DEF Grown
<1> HIDE DEF eid
<1>9. \A i, j \in Places' : nodes'[i].id = nodes'[j].id => i = j
  <2> SUFFICES ASSUME NEW i \in Places', NEW j \in Places', nodes'[i].id = nodes'[j].id
               PROVE  i = j
    OBVIOUS
  <2>1. CASE i \in Places /\ j \in Places BY <1>1, <1>3, <1>6, <2>1 DEF NodeKeysDiffer
  <2>2. CASE i \in Places /\ j \notin Places BY <1>5, <1>6, <1>7, <2>2
  <2>3. CASE i \notin Places /\ j \in Places BY <1>5, <1>6, <1>7, <2>3
  <2>4. CASE i \notin Places /\ j \notin Places BY <1>8, <2>4
  <2> QED BY <2>1, <2>2, <2>3, <2>4
<1> QED BY <1>1, <1>9 DEF NodeKeysDiffer

LEMMA RowsHaveParentsOnGrowth ==
  ASSUME TypeOK, TreeInv, NEW e, NEW P, Grown(e, P)
  PROVE  RowsHaveParents'
<1>1. /\ e \in Elements /\ Read(e) /\ e.kind # "dropped" /\ Len(nodes) \in Nat
      /\ Places = 1..Len(nodes) /\ Places \subseteq Places' /\ 1 \in Places /\ P \in Places
      /\ \A i \in Places' \ Places : i > Len(nodes)
      /\ \A i, j \in Places : IsParent(i, j)' <=> IsParent(i, j)
  BY GrownFacts
<1>2. RowsHaveParents BY DEF TreeInv
<1>3. /\ \A i \in Places : SameNode(nodes[i], nodes'[i])
      /\ \A i \in Places' \ Places :
           /\ nodes'[i].parent = nodes[P].id /\ nodes'[i].kind = e.kind
           /\ nodes'[i].element = ElementId(e, Len(raw) + 1)
           /\ nodes'[i].id[1] = nodes'[i].element
      /\ e.kind \in {"section", "leaf"}
  BY DEF Grown
<1>4. nodes'[1].kind = "document" /\ nodes'[1].id = RootId /\ nodes'[1].first = 1
  BY <1>1, <1>2, <1>3 DEF RowsHaveParents, SameNode
<1>5. /\ Blocks \subseteq Blocks' /\ Len(raw) + 1 \in Blocks'
      /\ \A m \in Blocks : ElementId(raw'[m], m) = BlockId(m)
      /\ ElementId(raw'[Len(raw) + 1], Len(raw) + 1) = ElementId(e, Len(raw) + 1)
  BY <1>1, BlocksOnRead
<1>6. ASSUME NEW i \in Places' \ {1}
      PROVE  /\ nodes'[i].kind \in {"section", "leaf"} /\ nodes'[i].id[1] = nodes'[i].element
             /\ \E n \in Blocks' : nodes'[i].element = ElementId(raw'[n], n)
             /\ \E j \in Places' : j < i /\ IsParent(i, j)'
  <2>1. CASE i \in Places
    <3>1. /\ nodes[i].kind \in {"section", "leaf"} /\ nodes[i].id[1] = nodes[i].element
          /\ \E n \in Blocks : nodes[i].element = BlockId(n)
          /\ \E j \in Places : j < i /\ IsParent(i, j)
      BY <1>2, <2>1 DEF RowsHaveParents
    <3>2. SameNode(nodes[i], nodes'[i]) BY <1>3, <2>1
    <3>3. \E n \in Blocks' : nodes'[i].element = ElementId(raw'[n], n)
      BY <1>5, <3>1, <3>2 DEF SameNode
    <3>4. \E j \in Places' : j < i /\ IsParent(i, j)' BY <1>1, <2>1, <3>1
    <3> QED BY <3>1, <3>2, <3>3, <3>4 DEF SameNode
  <2>2. CASE i \notin Places
    <3>1. P < i BY <1>1, <2>2
    <3>2. IsParent(i, P)' BY <1>1, <1>3, <2>2 DEF IsParent, SameNode
    <3> QED BY <1>1, <1>3, <1>5, <2>2, <3>1, <3>2
  <2> QED BY <2>1, <2>2
<1> QED BY <1>4, <1>6 DEF RowsHaveParents, BlockId

\* Parents are who they were, and the parent of a new row is P.
LEMMA ParentsOnGrowth ==
  ASSUME TypeOK, TreeInv, NEW e, NEW P, Grown(e, P), BlockKeysDiffer',
         NEW i \in Places', NEW j \in Places', i # 1, IsParent(i, j)'
  PROVE  \/ i \in Places /\ j \in Places /\ IsParent(i, j)
         \/ i \notin Places /\ j = P
<1>1. NodeKeysDiffer' BY KeysOnGrowth
<1>2. \A k, l \in Places' : nodes'[k].id = nodes'[l].id => k = l
  BY <1>1 DEF NodeKeysDiffer, Places
<1>3. /\ Places \subseteq Places' /\ P \in Places
      /\ \A k, l \in Places : IsParent(k, l)' <=> IsParent(k, l)
  BY GrownFacts
<1>4. nodes'[i].parent = nodes'[j].id BY DEF IsParent
<1>5. CASE i \in Places
  <2>1. PICK k \in Places : IsParent(i, k) BY <1>5 DEF TreeInv, RowsHaveParents
  <2>2. nodes'[i].parent = nodes'[k].id BY <1>3, <1>5, <2>1 DEF IsParent
  <2>3. k = j BY <1>2, <1>3, <1>4, <2>2
  <2> QED BY <1>5, <2>1, <2>3
<1>6. CASE i \notin Places
  <2>1. nodes'[i].parent = nodes[P].id /\ nodes'[P].id = nodes[P].id
    BY <1>3, <1>6 DEF Grown, SameNode
  <2>2. P = j BY <1>2, <1>3, <1>4, <2>1
  <2> QED BY <1>6, <2>2
<1> QED BY <1>5, <1>6

-----------------------------------------------------------------------------
(* The tree stays nested.                                                    *)

\* The parent of an open section is open, and no leaf is.
LEMMA OpenParent ==
  ASSUME TypeOK, KeyedTree, NEW i \in Places, NEW j \in Places, i # 1, IsOpen(i), IsParent(i, j)
  PROVE  IsOpen(j)
<1>1. PICK k \in OpenSections : stack[k] = i BY DEF IsOpen
<1>2. k \in 1..Len(stack) /\ Len(stack) \in Nat BY NodesAreSeq DEF OpenSections
<1>3. k - 1 \in 0..Len(stack) /\ k \in 0..Len(stack) BY <1>2
<1>4. PICK l \in Places : IsOpen(l) /\ Open(k - 1) = nodes[l] BY <1>3, OpenIsNode
<1>5. Open(k) = nodes[i] BY <1>1, <1>2 DEF Open
<1>6. nodes[i].parent = nodes[l].id BY <1>1, <1>4, <1>5 DEF KeyedTree, OpenSectionsNest
<1>7. l = j BY <1>6 DEF IsParent, KeyedTree, NodeKeysDiffer, Places
<1> QED BY <1>4, <1>7

LEMMA OpenIsNoLeaf ==
  ASSUME TypeOK, TreeInv, NEW P \in Places, IsOpen(P) PROVE nodes[P].kind # "leaf"
<1>1. CASE P = 1 BY <1>1 DEF TreeInv, RowsHaveParents
<1>2. CASE P # 1
  <2>1. PICK k \in OpenSections : stack[k] = P BY <1>2 DEF IsOpen
  <2>2. k # 0 BY NodesAreSeq DEF OpenSections
  <2> QED BY <2>1, <2>2 DEF TypeOK, Open
<1> QED BY <1>1, <1>2

\* After an element, only what is open around its new rows is open, and the last
\* of them; a leaf goes under the last section there is.
Narrowed(e, P) ==
  /\ \A o \in Places' : IsOpen(o)' => (IsOpen(o) /\ o <= P) \/ o = Len(nodes')
  /\ e.kind = "leaf" => \A i \in Places : IsSection(i) => i <= P

LEMMA OpenHoldsOnGrowth ==
  ASSUME TypeOK, TreeInv, NEW e, NEW P, Grown(e, P), Narrowed(e, P), BlockKeysDiffer'
  PROVE  OpenHolds'
<1>1. /\ Places = 1..Len(nodes) /\ Places' = 1..Len(nodes') /\ Len(nodes') \in Nat
      /\ \A i \in Places' \ Places : i > Len(nodes)
      /\ e \in Elements /\ Read(e) /\ Len(nodes) \in Nat /\ P \in Places
  BY GrownFacts
<1>2. OpenHolds BY <1>1, BlocksOnRead DEF TreeInv, KeyedTree
<1>3. ASSUME NEW o \in Places', NEW i \in Places', NEW j \in Places',
             IsOpen(o)', o < i, IsParent(i, j)'
      PROVE  o <= j
  <2>1. IsOpen(o) /\ o <= P BY <1>1, <1>3 DEF Narrowed
  <2>2. i # 1 BY <1>1, <1>3
  <2>3. CASE i \in Places /\ j \in Places /\ IsParent(i, j)
    <3>1. o \in Places BY <1>1, <2>1
    <3> QED BY <1>2, <1>3, <2>1, <2>3, <3>1 DEF OpenHolds
  <2>4. CASE i \notin Places /\ j = P BY <2>1, <2>4
  <2> QED BY <1>3, <2>2, <2>3, <2>4, ParentsOnGrowth
<1> QED BY <1>3 DEF OpenHolds

LEMMA RowsContiguousOnGrowth ==
  ASSUME TypeOK, TreeInv, NEW e, NEW P, Grown(e, P), BlockKeysDiffer'
  PROVE  RowsContiguous'
<1>1. /\ Places = 1..Len(nodes) /\ Places' = 1..Len(nodes') /\ Len(nodes') \in Nat
      /\ \A i \in Places' \ Places : i > Len(nodes)
      /\ e \in Elements /\ Read(e) /\ Len(nodes) \in Nat /\ P \in Places
  BY GrownFacts
<1>2. RowsContiguous /\ OpenHolds BY <1>1, BlocksOnRead DEF TreeInv, KeyedTree
<1>3. IsOpen(P) BY DEF Grown
<1>4. ASSUME NEW j \in Places', NEW k \in Places', NEW p \in Places', NEW q \in Places',
             k # 1, p < j, j < k, IsParent(k, p)', IsParent(j, q)'
      PROVE  p <= q
  <2>1. j # 1 BY <1>1, <1>4
  <2>2. \/ k \in Places /\ p \in Places /\ IsParent(k, p)
        \/ k \notin Places /\ p = P
    BY <1>4, ParentsOnGrowth
  <2>3. \/ j \in Places /\ q \in Places /\ IsParent(j, q)
        \/ j \notin Places /\ q = P
    BY <1>4, <2>1, ParentsOnGrowth
  <2>4. CASE k \in Places
    <3>1. j \in Places BY <1>1, <1>4, <2>4
    <3> QED BY <1>2, <1>4, <2>2, <2>3, <2>4, <3>1 DEF RowsContiguous
  <2>5. CASE k \notin Places /\ j \in Places
    BY <1>1, <1>2, <1>3, <1>4, <2>2, <2>3, <2>5 DEF OpenHolds
  <2>6. CASE k \notin Places /\ j \notin Places BY <1>1, <2>2, <2>3, <2>6
  <2> QED BY <2>4, <2>5, <2>6
<1> QED BY <1>4 DEF RowsContiguous

LEMMA EndsNestOnGrowth ==
  ASSUME TypeOK, TreeInv, NEW e, NEW P, Grown(e, P), BlockKeysDiffer'
  PROVE  EndsNest'
<1> DEFINE g == PageOf(e)
<1>1. /\ Places = 1..Len(nodes) /\ Places' = 1..Len(nodes')
      /\ e \in Elements /\ Read(e) /\ P \in Places
  BY GrownFacts
<1>2. KeyedTree BY <1>1, BlocksOnRead DEF TreeInv
<1>3. /\ \A i \in Places :
            nodes'[i].last = IF IsOpen(i) THEN Larger(nodes[i].last, g) ELSE nodes[i].last
      /\ \A i \in Places' \ Places : nodes'[i].last = g
      /\ IsOpen(P)
  BY DEF Grown
<1>4. g \in Nat /\ \A i \in Places : nodes[i].last \in Nat
  <2>1. g \in Nat BY <1>1, PageIsPage
  <2>2. \A i \in Places : nodes[i].last \in Nat BY NodesAreSeq DEF NodeType
  <2> QED BY <2>1, <2>2
<1> HIDE DEF g
<1>5. ASSUME NEW i \in Places', NEW j \in Places', i # 1, IsParent(i, j)'
      PROVE  nodes'[i].last <= nodes'[j].last
  <2>1. CASE i \in Places /\ j \in Places /\ IsParent(i, j)
    <3>1. nodes[i].last <= nodes[j].last BY <1>2, <1>5, <2>1 DEF KeyedTree, EndsNest
    <3>2. IsOpen(i) => IsOpen(j) BY <1>2, <1>5, <2>1, OpenParent
    <3> QED BY <1>3, <1>4, <2>1, <3>1, <3>2 DEF Larger
  <2>2. CASE i \notin Places /\ j = P
    <3>1. nodes'[i].last = g /\ nodes'[j].last = Larger(nodes[j].last, g) BY <1>1, <1>3, <2>2
    <3> QED BY <1>1, <1>4, <2>2, <3>1 DEF Larger
  <2> QED BY <1>5, <2>1, <2>2, ParentsOnGrowth
<1> QED BY <1>5 DEF EndsNest

LEMMA LeavesUnderLastOnGrowth ==
  ASSUME TypeOK, TreeInv, NEW e, NEW P, Grown(e, P), Narrowed(e, P), BlockKeysDiffer'
  PROVE  LeavesUnderLast'
<1>1. /\ Places = 1..Len(nodes) /\ Places' = 1..Len(nodes') /\ Len(nodes') \in Nat
      /\ \A i \in Places' \ Places : i > Len(nodes)
      /\ e \in Elements /\ Read(e) /\ Len(nodes) \in Nat /\ P \in Places /\ 1 \in Places
      /\ \A i \in Places : IsSection(i)' <=> IsSection(i)
  BY GrownFacts
<1>2. LeavesUnderLast BY <1>1, BlocksOnRead DEF TreeInv, KeyedTree
<1>3. nodes[P].kind # "leaf"
  <2>1. IsOpen(P) BY DEF Grown
  <2> QED BY <1>1, <2>1, OpenIsNoLeaf
<1>4. /\ \A i \in Places : nodes'[i].kind = nodes[i].kind
      /\ \A i \in Places' \ Places : nodes'[i].kind = e.kind
  BY DEF Grown, SameNode
<1>5. ASSUME NEW i \in Places', NEW j \in Places', i # 1, nodes'[i].kind = "leaf", IsParent(i, j)'
      PROVE  /\ j < i /\ nodes'[j].kind # "leaf"
             /\ \A k \in Places' : j < k /\ k < i => ~IsSection(k)'
  <2>1. CASE i \in Places /\ j \in Places /\ IsParent(i, j)
    <3>1. /\ j < i /\ nodes[j].kind # "leaf"
          /\ \A k \in Places : j < k /\ k < i => ~IsSection(k)
      BY <1>2, <1>4, <1>5, <2>1 DEF LeavesUnderLast
    <3>2. \A k \in Places' : k < i => k \in Places BY <1>1, <2>1
    <3> QED BY <1>1, <1>4, <2>1, <3>1, <3>2
  <2>2. CASE i \notin Places /\ j = P
    <3>1. e.kind = "leaf" BY <1>4, <1>5, <2>2
    <3>2. \A k \in Places : IsSection(k) => k <= P BY <3>1 DEF Narrowed
    <3>3. ASSUME NEW k \in Places', j < k, k < i PROVE ~IsSection(k)'
      <4>1. CASE k \in Places BY <1>1, <2>2, <3>2, <3>3, <4>1
      <4>2. CASE k \notin Places BY <1>4, <3>1, <4>2 DEF IsSection
      <4> QED BY <4>1, <4>2
    <3> QED BY <1>1, <1>3, <1>4, <2>2, <3>3
  <2> QED BY <1>5, <2>1, <2>2, ParentsOnGrowth
<1> QED BY <1>5 DEF LeavesUnderLast

-----------------------------------------------------------------------------
(* Headings.                                                                 *)

LEMMA StackOnSection ==
  ASSUME TypeOK, NEW e, NEW p, SectionAdded(e, p)
  PROVE  /\ p.keep \in Nat /\ p.keep <= Len(stack) /\ Len(stack') = p.keep + 1
         /\ stack' \in Seq(Places') /\ OpenSections' = 1 .. p.keep + 1
         /\ \A j \in 1..p.keep : stack'[j] = stack[j] /\ stack[j] <= Len(nodes)
         /\ stack'[p.keep + 1] = Len(nodes) + 1 /\ Len(nodes') = Len(nodes) + 1
         /\ \A j \in 0..p.keep : SameNode(Open(j), Open(j)')
         /\ Open(p.keep + 1)' = nodes'[Len(nodes) + 1]
<1> DEFINE k == p.keep
           S == SubSeq(stack, 1, k)
           P == IF p.parent = 0 THEN 1 ELSE stack[p.parent]
           new == Len(nodes) + 1
<1>1. /\ Grown(e, P) /\ Len(nodes') = new /\ stack' = Append(S, new)
      /\ k \in 0..Len(stack)
  BY DEF SectionAdded, GoodPlan
<1>2. /\ Places = 1..Len(nodes) /\ Places' = 1..Len(nodes') /\ Places \subseteq Places'
      /\ Len(nodes) \in Nat
  BY <1>1, GrownFacts
<1>3. stack \in Seq(Places) /\ Len(stack) \in Nat /\ \A j \in 1..Len(stack) : stack[j] \in Places
  BY NodesAreSeq DEF TypeOK, OpenSections
<1>4. k \in Nat /\ k <= Len(stack) /\ 1..k \subseteq 1..Len(stack) BY <1>1, <1>3
<1> HIDE DEF k, P
<1>5. S \in Seq(Places) /\ Len(S) = k /\ \A j \in 1..k : S[j] = stack[j]
  <2>1. k \in Int /\ 1 \in Int /\ \A j \in 1..k : stack[j] \in Places BY <1>3, <1>4
  <2>2. /\ S \in Seq(Places) /\ Len(S) = IF 1 <= k THEN k - 1 + 1 ELSE 0
        /\ \A j \in 1 .. k - 1 + 1 : S[j] = stack[1 + j - 1]
    BY <2>1, SubSeqProperties
  <2> HIDE DEF S
  <2>3. k - 1 + 1 = k /\ (IF 1 <= k THEN k - 1 + 1 ELSE 0) = k BY <1>4
  <2>4. \A j \in 1..k : 1 + j - 1 = j BY <1>4
  <2> QED BY <2>2, <2>3, <2>4
<1> HIDE DEF S
<1>6. new \in Places'
  <2>1. Len(nodes') = Len(nodes) + 1 BY <1>1
  <2>2. Places' = 1..(Len(nodes) + 1) BY <1>2, <2>1
  <2> QED BY <1>2, <2>2
<1>7. S \in Seq(Places')
  <2>1. S = [j \in 1..k |-> S[j]] /\ \A j \in 1..k : S[j] \in Places' BY <1>2, <1>3, <1>4, <1>5
  <2> QED BY <1>4, <2>1
<1> HIDE DEF new
<1>8. /\ stack' \in Seq(Places') /\ Len(stack') = k + 1 /\ stack'[k + 1] = new
      /\ \A j \in 1..k : stack'[j] = stack[j]
  BY <1>1, <1>4, <1>5, <1>6, <1>7
<1>9. OpenSections' = 1..k + 1 BY <1>8 DEF OpenSections
<1>10. \A j \in 1..k : stack[j] \in Places /\ stack[j] <= Len(nodes)
  <2>1. \A j \in 1..k : stack[j] \in 1..Len(nodes) BY <1>2, <1>3, <1>4
  <2> QED BY <1>2, <2>1
<1>11. \A i \in Places : SameNode(nodes[i], nodes'[i]) BY <1>1 DEF Grown
<1>12. ASSUME NEW j \in 0..k PROVE SameNode(Open(j), Open(j)')
  <2>1. CASE j = 0 BY <1>2, <1>11, <2>1, NodesAreSeq DEF Open
  <2>2. CASE j # 0
    <3>1. j \in 1..k BY <1>4, <2>2
    <3>2. stack'[j] = stack[j] /\ stack[j] \in Places BY <1>8, <1>10, <3>1
    <3> QED BY <1>11, <2>2, <3>2 DEF Open
  <2> QED BY <2>1, <2>2
<1>13. Open(k + 1)' = nodes'[new]
  <2>1. k + 1 # 0 BY <1>4
  <2> QED BY <1>8, <2>1 DEF Open
<1> QED BY <1>1, <1>4, <1>8, <1>9, <1>10, <1>12, <1>13 DEF new, k

\* The new section under its plan: the stack holds sections, in order.
LEMMA SectionStackType ==
  ASSUME TypeOK, NEW e, NEW p, SectionAdded(e, p), NEW j \in OpenSections'
  PROVE  Open(j)'.kind = "section" /\ (j > 1 => stack'[j - 1] < stack'[j])
<1> DEFINE k == p.keep
           new == Len(nodes) + 1
<1>1. /\ k \in Nat /\ k <= Len(stack) /\ OpenSections' = 1..k + 1
      /\ \A i \in 1..k : stack'[i] = stack[i] /\ stack[i] <= Len(nodes)
      /\ stack'[k + 1] = new /\ Len(nodes') = new
      /\ \A i \in 0..k : SameNode(Open(i), Open(i)')
      /\ Open(k + 1)' = nodes'[new]
  BY StackOnSection
<1>2. /\ e.kind = "section" /\ \A i \in Places' \ Places : nodes'[i].kind = e.kind
  BY DEF SectionAdded, Grown
<1>3. /\ Len(nodes) \in Nat /\ Places = 1..Len(nodes) /\ Places' = 1..Len(nodes')
      /\ Len(stack) \in Nat /\ OpenSections = 1..Len(stack)
  BY NodesAreSeq, GrownFacts DEF SectionAdded, OpenSections
<1> HIDE DEF k
<1>4. j \in 1..k + 1 BY <1>1
<1>5. CASE j \in 1..k
  <2>1. j \in OpenSections BY <1>1, <1>3, <1>5
  <2>2. Open(j).kind = "section" /\ (j > 1 => stack[j - 1] < stack[j]) BY <2>1 DEF TypeOK
  <2>3. Open(j)'.kind = "section" BY <1>1, <1>5, <2>2 DEF SameNode
  <2>4. j > 1 => j - 1 \in 1..k BY <1>1, <1>5
  <2> QED BY <1>1, <1>5, <2>2, <2>3, <2>4
<1>6. CASE j = k + 1
  <2>1. new \in Places' \ Places BY <1>1, <1>3
  <2>2. j > 1 => j - 1 \in 1..k BY <1>1, <1>6
  <2>3. j > 1 => stack'[j - 1] <= Len(nodes) /\ stack'[j - 1] = stack[j - 1] BY <1>1, <2>2
  <2>4. j > 1 => stack[j - 1] \in Nat
    <3>1. j > 1 => j - 1 \in OpenSections BY <1>1, <1>3, <2>2
    <3>2. \A i \in OpenSections : stack[i] \in Places BY NodesAreSeq
    <3>3. Places \subseteq Nat BY <1>3
    <3> QED BY <3>1, <3>2, <3>3
  <2>5. Open(j)'.kind = "section" BY <1>1, <1>2, <1>6, <2>1
  <2>6. stack'[j] = new BY <1>1, <1>6
  <2>7. ASSUME j > 1 PROVE stack'[j - 1] < new
    <3> DEFINE s == stack'[j - 1]
    <3>1. s <= Len(nodes) /\ s \in Nat BY <2>3, <2>4, <2>7
    <3> HIDE DEF s
    <3>2. s < new BY <1>3, <3>1
    <3> QED BY <3>2 DEF s
  <2> QED BY <2>5, <2>6, <2>7
<1> QED BY <1>1, <1>4, <1>5, <1>6

LEMMA SectionMajors ==
  ASSUME TypeOK, TreeInv, NEW e, NEW p, SectionAdded(e, p)
  PROVE  MajorsAreOutermost'
<1> DEFINE k == p.keep
           new == Len(nodes) + 1
<1>1. /\ k \in Nat /\ k <= Len(stack) /\ OpenSections' = 1..k + 1
      /\ \A i \in 0..k : SameNode(Open(i), Open(i)')
      /\ Open(k + 1)' = nodes'[new]
  BY StackOnSection
<1>2. /\ nodes'[new].family = e.family
      /\ e.family \in Major => k = 0 \/ Open(k).family \in Major
  BY DEF SectionAdded, GoodPlan
<1>3. Len(stack) \in Nat /\ OpenSections = 1..Len(stack) BY NodesAreSeq DEF OpenSections
<1> HIDE DEF k
<1>4. ASSUME NEW j \in 1..k + 1, j # 1, Open(j)'.family \in Major
      PROVE  Open(j - 1)'.family \in Major
  <2>1. j - 1 \in 0..k /\ j - 1 # 0 BY <1>1, <1>4
  <2>2. CASE j \in 1..k
    <3>1. j \in OpenSections \ {1} BY <1>1, <1>3, <1>4, <2>2
    <3>2. Open(j).family \in Major BY <1>1, <1>4, <2>2 DEF SameNode
    <3>3. Open(j - 1).family \in Major BY <3>1, <3>2 DEF TreeInv, MajorsAreOutermost
    <3> QED BY <1>1, <2>1, <3>3 DEF SameNode
  <2>3. CASE j = k + 1
    <3>1. Open(k).family \in Major BY <1>1, <1>2, <1>4, <2>1, <2>3
    <3>2. j - 1 = k /\ k \in 0..k BY <1>1, <2>3
    <3> QED BY <1>1, <3>1, <3>2 DEF SameNode
  <2> QED BY <1>1, <2>2, <2>3
<1> QED BY <1>1, <1>4 DEF MajorsAreOutermost

LEMMA SectionNests ==
  ASSUME TypeOK, TreeInv, NEW e, NEW p, SectionAdded(e, p), KeyedTree
  PROVE  OpenSectionsNest'
<1> DEFINE k == p.keep
           new == Len(nodes) + 1
           P == IF p.parent = 0 THEN 1 ELSE stack[p.parent]
<1>1. /\ k \in Nat /\ k <= Len(stack) /\ OpenSections' = 1..k + 1
      /\ \A i \in 0..k : SameNode(Open(i), Open(i)')
      /\ Open(k + 1)' = nodes'[new] /\ Len(nodes') = new
  BY StackOnSection
<1>2. p.keep = p.parent BY DEF KeyedTree, SectionAdded, GoodPlan
<1>3. /\ nodes'[new].level = p.level /\ (k # 0 => Open(k).level < p.level)
      /\ Grown(e, P)
  BY <1>2 DEF SectionAdded, GoodPlan
<1>4. /\ Len(stack) \in Nat /\ OpenSections = 1..Len(stack) /\ Len(nodes) \in Nat
      /\ Places = 1..Len(nodes) /\ Places' = 1..Len(nodes')
  BY <1>3, NodesAreSeq, GrownFacts DEF OpenSections
<1>5. nodes'[new].parent = Open(k).id
  <2>1. new \in Places' \ Places BY <1>1, <1>4
  <2>2. nodes'[new].parent = nodes[P].id BY <1>3, <2>1 DEF Grown
  <2>3. nodes[P] = Open(k) BY <1>2 DEF Open
  <2> QED BY <2>2, <2>3
<1> HIDE DEF k, P, new
<1>6. ASSUME NEW j \in 1..k + 1
      PROVE  /\ Open(j)'.parent = Open(j - 1)'.id
             /\ j > 1 => Open(j - 1)'.level < Open(j)'.level
  <2>1. j - 1 \in 0..k /\ (j > 1 <=> j - 1 # 0) BY <1>1, <1>6
  <2>2. SameNode(Open(j - 1), Open(j - 1)') BY <1>1, <2>1
  <2>3. CASE j \in 1..k
    <3>1. j \in OpenSections /\ j \in 0..k BY <1>1, <1>4, <2>3
    <3>2. Open(j).parent = Open(j - 1).id /\ (j > 1 => Open(j - 1).level < Open(j).level)
      BY <3>1 DEF KeyedTree, OpenSectionsNest
    <3>3. SameNode(Open(j), Open(j)') BY <1>1, <3>1
    <3> QED BY <2>2, <3>2, <3>3 DEF SameNode
  <2>4. CASE j = k + 1
    <3>1. j - 1 = k BY <1>1, <2>4
    <3>2. Open(j)' = nodes'[new] BY <1>1, <2>4
    <3> QED BY <1>3, <1>5, <2>1, <2>2, <3>1, <3>2 DEF SameNode
  <2> QED BY <1>1, <2>3, <2>4
<1> QED BY <1>1, <1>6 DEF OpenSectionsNest

LEMMA SectionNarrows ==
  ASSUME TypeOK, NEW e, NEW p, SectionAdded(e, p), KeyedTree
  PROVE  Narrowed(e, IF p.parent = 0 THEN 1 ELSE stack[p.parent])
<1> DEFINE k == p.keep
           P == IF p.parent = 0 THEN 1 ELSE stack[p.parent]
<1>1. /\ k \in Nat /\ k <= Len(stack) /\ OpenSections' = 1..k + 1
      /\ \A j \in 1..k : stack'[j] = stack[j]
      /\ stack'[k + 1] = Len(nodes) + 1 /\ Len(nodes') = Len(nodes) + 1
  BY StackOnSection
<1>2. /\ k = p.parent /\ e.kind = "section" /\ Grown(e, P)
  BY DEF KeyedTree, SectionAdded, GoodPlan
<1>3. /\ Len(stack) \in Nat /\ OpenSections = 1..Len(stack) /\ Places = 1..Len(nodes)
      /\ Len(nodes) \in Nat /\ \A j \in OpenSections : stack[j] \in Places
  BY NodesAreSeq, GrownFacts DEF OpenSections, Places
<1>4. P = IF k = 0 THEN 1 ELSE stack[k] BY <1>2
<1> HIDE DEF k
<1>5. P \in Places /\ P >= 1
  <2>1. k # 0 => k \in OpenSections BY <1>1, <1>3
  <2>2. P \in Places BY <1>3, <1>4, <2>1, NodesAreSeq
  <2> QED BY <1>3, <2>2
<1> HIDE DEF P
<1>6. ASSUME NEW o \in Places', IsOpen(o)' PROVE (IsOpen(o) /\ o <= P) \/ o = Len(nodes')
  <2>1. o = 1 \/ \E j \in 1..k + 1 : stack'[j] = o BY <1>1, <1>6 DEF IsOpen
  <2>2. CASE o = 1 BY <1>3, <1>5, <2>2 DEF IsOpen
  <2>3. ASSUME NEW j \in 1..k, stack'[j] = o PROVE IsOpen(o) /\ o <= P
    <3>1. j \in OpenSections /\ k \in OpenSections /\ k # 0 BY <1>1, <1>3
    <3>2. stack[j] = o BY <1>1, <2>3
    <3>3. j < k => stack[j] < stack[k] BY <3>1, StackIncreases
    <3>4. stack[j] \in Nat /\ stack[k] \in Nat BY <1>3, <3>1
    <3>5. j < k \/ j = k BY <1>1
    <3> QED BY <1>4, <3>1, <3>2, <3>3, <3>4, <3>5 DEF IsOpen
  <2>4. stack'[k + 1] = o => o = Len(nodes') BY <1>1
  <2>5. \A j \in 1..k + 1 : j \in 1..k \/ j = k + 1 BY <1>1
  <2> QED BY <2>1, <2>2, <2>3, <2>4, <2>5
<1>7. e.kind # "leaf" BY <1>2
<1> QED BY <1>6, <1>7 DEF Narrowed, P

-----------------------------------------------------------------------------
(* The tree while elements are read, and after.                              *)

LEMMA LeafNarrows ==
  ASSUME TypeOK, TreeInv, NEW e, LeafAdded(e)
  PROVE  Narrowed(e, IF Len(stack) = 0 THEN 1 ELSE stack[Len(stack)])
<1> DEFINE k == Len(stack)
           P == IF k = 0 THEN 1 ELSE stack[k]
<1>1. Grown(e, P) /\ stack' = stack BY DEF LeafAdded
<1>2. /\ k \in Nat /\ OpenSections = 1..k /\ Places = 1..Len(nodes)
      /\ Len(nodes) \in Nat /\ \A j \in OpenSections : stack[j] \in Places /\ stack[j] \in Nat
  BY <1>1, NodesAreSeq, GrownFacts DEF OpenSections
<1>3. OpenSections' = OpenSections BY <1>1 DEF OpenSections
<1>4. \A i \in Places : IsSection(i) => k > 0 /\ i <= stack[k]
  BY DEF TreeInv, InnermostIsLast
<1> HIDE DEF k
<1>5. P \in Nat /\ P >= 1
  <2>1. CASE k = 0 BY <2>1
  <2>2. CASE k # 0
    <3>1. k \in OpenSections BY <1>2, <2>2
    <3> QED BY <1>2, <2>2, <3>1
  <2> QED BY <2>1, <2>2
<1>6. ASSUME NEW o \in Places', IsOpen(o)' PROVE IsOpen(o) /\ o <= P
  <2>1. o = 1 \/ \E j \in OpenSections : stack[j] = o BY <1>1, <1>3, <1>6 DEF IsOpen
  <2>2. CASE o = 1 BY <1>5, <2>2 DEF IsOpen
  <2>3. ASSUME NEW j \in OpenSections, stack[j] = o PROVE IsOpen(o) /\ o <= P
    <3>1. k \in OpenSections /\ k # 0 /\ (j < k \/ j = k) BY <1>2
    <3>2. j < k => stack[j] < stack[k] BY <3>1, StackIncreases
    <3> QED BY <1>2, <2>3, <3>1, <3>2 DEF IsOpen
  <2> QED BY <2>1, <2>2, <2>3
<1>7. \A i \in Places : IsSection(i) => i <= P BY <1>2, <1>4
<1> QED BY <1>6, <1>7 DEF Narrowed, k

TreeTypes ==
  /\ raw \in Seq(Elements) /\ Len(raw) <= MaxElements
  /\ nodes \in Seq(NodeType) /\ nodes # <<>>
  /\ stack \in Seq(Places)
  /\ \A k \in OpenSections : Open(k).kind = "section" /\ (k > 1 => stack[k - 1] < stack[k])
  /\ lastPage \in Nat \ {0}
  /\ phase \in {"reading", "linking", "validating", "accepted", "rejected"}

GraphTypes ==
  /\ todo \subseteq (1 .. 2) \X (DOMAIN raw) \X Places
  /\ walk # <<>> => phase = "linking" /\ walk \in (1 .. 2) \X (DOMAIN raw) \X Places
  /\ at \in Places
  /\ registry \subseteq Names \X Entities
  /\ links \subseteq [ordinal: DOMAIN raw, node: Places, section: Places \cup {0},
                     entity: EntitiesOf(registry)]
  /\ place \in Nat /\ (place > 0 => walk # <<>>)
  /\ relations \subseteq [ordinal: DOMAIN raw, place: Nat, node: Places, section: Places \cup {0},
                         from: EntitiesOf(registry), to: EntitiesOf(registry)]

LEMMA TypesAre == TypeOK <=> TreeTypes /\ GraphTypes
BY DEF TypeOK, TreeTypes, GraphTypes

LEMMA GraphTypesStay ==
  ASSUME GraphTypes, UNCHANGED graph, UNCHANGED phase, DOMAIN raw \subseteq DOMAIN raw',
         Places \subseteq Places'
  PROVE  GraphTypes'
<1> DEFINE R == DOMAIN raw
           RP == DOMAIN raw'
           L(r, p) == [ordinal: r, node: p, section: p \cup {0}, entity: EntitiesOf(registry)]
           Q(r, p) == [ordinal: r, place: Nat, node: p, section: p \cup {0},
                       from: EntitiesOf(registry), to: EntitiesOf(registry)]
<1>1. /\ todo' = todo /\ walk' = walk /\ at' = at /\ registry' = registry /\ links' = links
      /\ place' = place /\ relations' = relations /\ phase' = phase
  BY DEF graph
<1>2. (1 .. 2) \X R \X Places \subseteq (1 .. 2) \X RP \X Places'
  OBVIOUS
<1>3. L(R, Places) \subseteq L(RP, Places')
  OBVIOUS
<1>4. Q(R, Places) \subseteq Q(RP, Places')
  OBVIOUS
<1>5. EntitiesOf(registry)' = EntitiesOf(registry) BY <1>1 DEF EntitiesOf
<1> QED BY <1>1, <1>2, <1>3, <1>4, <1>5 DEF GraphTypes

LEMMA TypeOnGrowth ==
  ASSUME TypeOK, NEW e, NEW P, Grown(e, P), stack' \in Seq(Places'),
         \A k \in OpenSections' :
           Open(k)'.kind = "section" /\ (k > 1 => stack'[k - 1] < stack'[k])
  PROVE  TypeOK'
<1>1. /\ e \in Elements /\ Read(e) /\ nodes' # <<>> /\ Places \subseteq Places'
  BY GrownFacts
<1>2. raw' \in Seq(Elements) /\ Len(raw') <= MaxElements /\ DOMAIN raw \subseteq DOMAIN raw'
  BY <1>1, ReadFacts
<1>3. /\ nodes' \in Seq(NodeType) /\ lastPage' = PageOf(e) /\ UNCHANGED graph /\ UNCHANGED phase
  BY DEF Grown
<1>4. GraphTypes' BY <1>1, <1>2, <1>3, TypesAre, GraphTypesStay
<1>5. TreeTypes' BY <1>1, <1>2, <1>3, PageIsPage, TypesAre DEF TreeTypes
<1> QED BY <1>4, <1>5, TypesAre, PTL

\* The rows of the leaves there were are the same, and those of a new one come last.
LEMMA LeavesOnGrowth ==
  ASSUME TypeOK, TreeInv, NEW e, NEW P, Grown(e, P), e.kind = "leaf" => LeafAdded(e), BlockKeysDiffer'
  PROVE  LeavesHeld'
<1>0. PICK c : c = Len(raw) + 1 OBVIOUS
<1> DEFINE eid == ElementId(e, c)
<1>1. /\ e \in Elements /\ Read(e) /\ e.kind # "dropped" /\ Places = 1..Len(nodes)
      /\ Places' = 1..Len(nodes') /\ Len(nodes) \in Nat /\ Len(nodes') \in Nat
      /\ Len(nodes) <= Len(nodes') /\ Places \subseteq Places'
  BY GrownFacts
<1>2. DOMAIN raw' = (DOMAIN raw) \cup {c} /\ raw'[c] = e /\ \A m \in DOMAIN raw : raw'[m] = raw[m]
  BY <1>0, <1>1, ReadFacts
<1>3. /\ BlockKeysDiffer /\ \A m \in Blocks : BlockId(m) # eid
      /\ \A m \in Blocks : ElementId(raw'[m], m) = BlockId(m)
      /\ ElementId(raw'[c], c) = eid
  BY <1>0, <1>1, BlocksOnRead
<1>4. /\ \A i \in Places : nodes'[i].kind = nodes[i].kind /\ nodes'[i].element = nodes[i].element
                           /\ nodes'[i].content = nodes[i].content
      /\ \A i \in Places' \ Places : nodes'[i].kind = e.kind /\ nodes'[i].element = eid
  BY <1>0 DEF Grown, SameNode
<1>5. \A i \in Places : nodes[i].kind = "leaf" => nodes[i].element # eid
  BY <1>3 DEF TreeInv, RowsHaveParents
<1> HIDE DEF eid
<1>6. ASSUME NEW n \in DOMAIN raw, raw[n].kind = "leaf"
      PROVE  \E f \in 0..Len(nodes') : HeldAfter(n, f)'
  <2>1. PICK f \in 0..Len(nodes) : HeldAfter(n, f) BY <1>3, <1>6 DEF TreeInv, LeavesHeld
  <2> DEFINE pieces == Cut[raw[n]]
  <2>2. n \in Blocks /\ BlockId(n)' = BlockId(n) /\ raw'[n] = raw[n]
    BY <1>2, <1>3, <1>6 DEF Blocks, BlockId
  <2>3. LeafRows(n)' = LeafRows(n) BY <1>1, <1>3, <1>4, <2>2 DEF LeafRows
  <2>4. LeafRows(n) = f + 1 .. f + Len(pieces) /\ \A k \in 1..Len(pieces) : nodes[f + k].content = pieces[k]
    BY <2>1 DEF HeldAfter
  <2>5. pieces' = pieces /\ Len(pieces) \in Nat
    <3>1. raw[n] \in Elements BY SeqHolds DEF TypeOK
    <3> QED BY <2>2, <3>1, CutIs
  <2> HIDE DEF pieces
  <2>6. ASSUME NEW k \in 1..Len(pieces) PROVE nodes'[f + k].content = pieces[k]
    <3> DEFINE i == f + k
    <3>1. i \in f + 1 .. f + Len(pieces) BY <1>1, <2>5
    <3>2. i \in Places BY <2>4, <3>1 DEF LeafRows
    <3>3. nodes[i].content = pieces[k] BY <2>4
    <3> HIDE DEF i
    <3>4. nodes'[i].content = pieces[k] BY <1>4, <3>2, <3>3
    <3> QED BY <3>4 DEF i
  <2>7. f \in 0..Len(nodes') BY <1>1
  <2>8. HeldAfter(n, f)' BY <2>3, <2>4, <2>5, <2>6 DEF HeldAfter, pieces
  <2> QED BY <2>7, <2>8
<1>7. ASSUME e.kind = "leaf" PROVE \E f \in 0..Len(nodes') : HeldAfter(c, f)'
  <2>0. PICK f : f = Len(nodes) OBVIOUS
  <2> DEFINE pieces == Cut[e]
  <2>1. /\ Len(nodes') = f + Len(pieces) /\ \A k \in 1..Len(pieces) : nodes'[f + k].content = pieces[k]
    BY <1>7, <2>0 DEF LeafAdded
  <2>2. BlockId(c)' = eid BY <1>3 DEF BlockId
  <2>3. LeafRows(c)' = Places' \ Places
    BY <1>1, <1>4, <1>5, <1>7, <2>2 DEF LeafRows
  <2>4. Len(pieces) \in Nat BY <1>1, CutIs
  <2>5. pieces = Cut[raw'[c]] BY <1>2
  <2> HIDE DEF pieces
  <2>6. Places' \ Places = f + 1 .. f + Len(pieces) BY <1>1, <2>0, <2>1, <2>4
  <2>7. HeldAfter(c, f)' BY <2>1, <2>3, <2>5, <2>6 DEF HeldAfter
  <2>8. f \in 0..Len(nodes') BY <1>1, <2>0
  <2> QED BY <2>7, <2>8
<1> QED BY <1>2, <1>6, <1>7 DEF LeavesHeld

LEMMA TreeOnGrowth ==
  ASSUME TypeOK, TreeInv, NEW e, NEW P, Grown(e, P), InnermostIsLast', MajorsAreOutermost',
         BlockKeysDiffer' => OpenSectionsNest' /\ Narrowed(e, P),
         e.kind = "leaf" => LeafAdded(e)
  PROVE  TreeInv'
<1>1. RowsHaveParents' BY RowsHaveParentsOnGrowth
<1>2. ASSUME BlockKeysDiffer' PROVE KeyedTree'
  <2>1. NodeKeysDiffer' BY <1>2, KeysOnGrowth
  <2>2. OpenHolds' BY <1>2, OpenHoldsOnGrowth
  <2>3. RowsContiguous' BY <1>2, RowsContiguousOnGrowth
  <2>4. EndsNest' BY <1>2, EndsNestOnGrowth
  <2>5. LeavesUnderLast' BY <1>2, LeavesUnderLastOnGrowth
  <2> QED BY <1>2, <2>1, <2>2, <2>3, <2>4, <2>5 DEF KeyedTree
<1>3. BlockKeysDiffer' => LeavesHeld' BY LeavesOnGrowth
<1> QED BY <1>1, <1>2, <1>3 DEF TreeInv

LEMMA SectionKeepsTree ==
  ASSUME TypeOK, TreeInv, NEW e \in Elements, AddSection(e)
  PROVE  TypeOK' /\ TreeInv'
<1> DEFINE p == ResolvedParent(e)
           P == IF p.parent = 0 THEN 1 ELSE stack[p.parent]
<1>1. SectionAdded(e, p) BY SectionGrows
<1> HIDE DEF p
<1>2. Grown(e, P) BY <1>1 DEF SectionAdded
<1>3. /\ stack' \in Seq(Places') /\ Len(stack') = p.keep + 1 /\ p.keep \in Nat
      /\ stack'[p.keep + 1] = Len(nodes) + 1 /\ Len(nodes') = Len(nodes) + 1
  BY <1>1, StackOnSection
<1>4. TypeOK'
  <2>1. \A k \in OpenSections' :
          Open(k)'.kind = "section" /\ (k > 1 => stack'[k - 1] < stack'[k])
    BY <1>1, SectionStackType
  <2> HIDE DEF P
  <2> QED BY <1>2, <1>3, <2>1, TypeOnGrowth
<1>5. InnermostIsLast'
  <2>1. Places' = 1..Len(nodes') /\ Len(nodes') \in Nat BY <1>2, GrownFacts
  <2>2. Len(stack') > 0 /\ \A i \in Places' : i <= stack'[Len(stack')] BY <1>3, <2>1
  <2> QED BY <2>2 DEF InnermostIsLast
<1>6. MajorsAreOutermost' BY <1>1, SectionMajors
<1>7. ASSUME BlockKeysDiffer' PROVE OpenSectionsNest' /\ Narrowed(e, P)
  <2>1. Read(e) BY <1>2, GrownFacts
  <2>2. KeyedTree BY <1>7, <2>1, BlocksOnRead DEF TreeInv
  <2> QED BY <1>1, <2>2, SectionNests, SectionNarrows
<1> HIDE DEF P
<1>8. e.kind # "leaf" BY <1>1 DEF SectionAdded
<1>9. TreeInv' BY <1>2, <1>5, <1>6, <1>7, <1>8, TreeOnGrowth
<1> QED BY <1>4, <1>9

LEMMA LeafKeepsTree ==
  ASSUME TypeOK, TreeInv, NEW e \in Elements, AddLeaf(e)
  PROVE  TypeOK' /\ TreeInv'
<1> DEFINE P == IF Len(stack) = 0 THEN 1 ELSE stack[Len(stack)]
<1>1. LeafAdded(e) BY LeafGrows
<1>2. Grown(e, P) /\ stack' = stack /\ e.kind = "leaf" BY <1>1 DEF LeafAdded
<1>3. /\ Places \subseteq Places' /\ 1 \in Places /\ Read(e)
      /\ \A i \in Places : IsSection(i)' <=> IsSection(i)
  BY <1>2, GrownFacts
<1>4. /\ \A i \in Places : SameNode(nodes[i], nodes'[i])
      /\ \A i \in Places' \ Places : nodes'[i].kind = e.kind
  BY <1>2 DEF Grown
<1>5. Narrowed(e, P) BY <1>1, LeafNarrows
<1> HIDE DEF P
<1>6. OpenSections' = OpenSections /\ \A k \in OpenSections : k \in Nat /\ k # 0 /\ stack[k] \in Places
  BY <1>2, NodesAreSeq DEF OpenSections
<1>7. Len(stack) \in Nat /\ OpenSections = 1..Len(stack) BY NodesAreSeq DEF OpenSections
<1>8. \A k \in 0..Len(stack) : SameNode(Open(k), Open(k)')
  BY <1>2, <1>3, <1>4, <1>6, <1>7 DEF Open
<1>9. \A k \in OpenSections : k \in 0..Len(stack) /\ k - 1 \in 0..Len(stack) BY <1>7
<1>10. TypeOK'
  <2>1. stack \in Seq(Places) BY DEF TypeOK
  <2>2. stack' \in Seq(Places')
    <3>1. /\ stack = [k \in 1..Len(stack) |-> stack[k]]
          /\ \A k \in 1..Len(stack) : stack[k] \in Places'
      BY <1>3, <1>6, <1>7, <2>1
    <3>2. stack \in Seq(Places') BY <1>7, <3>1
    <3> QED BY <1>2, <3>2
  <2>3. \A k \in OpenSections' :
          Open(k)'.kind = "section" /\ (k > 1 => stack'[k - 1] < stack'[k])
    BY <1>2, <1>6, <1>8, <1>9 DEF TypeOK, SameNode
  <2> QED BY <1>2, <2>2, <2>3, TypeOnGrowth
<1>11. InnermostIsLast'
  <2>1. \A i \in Places' : IsSection(i)' => i \in Places /\ IsSection(i)
    BY <1>2, <1>3, <1>4 DEF IsSection
  <2> QED BY <1>2, <2>1 DEF TreeInv, InnermostIsLast
<1>12. MajorsAreOutermost'
  <2>1. MajorsAreOutermost BY DEF TreeInv
  <2> QED BY <1>6, <1>8, <1>9, <2>1 DEF MajorsAreOutermost, SameNode
<1>13. ASSUME BlockKeysDiffer' PROVE OpenSectionsNest'
  <2>1. OpenSectionsNest BY <1>3, <1>13, BlocksOnRead DEF TreeInv, KeyedTree
  <2> QED BY <1>6, <1>8, <1>9, <2>1 DEF OpenSectionsNest, SameNode
<1>14. TreeInv' BY <1>1, <1>2, <1>5, <1>11, <1>12, <1>13, TreeOnGrowth
<1> QED BY <1>10, <1>14

\* Nothing changes the tree but what adds to it.
LEMMA DropKeepsTree ==
  ASSUME TypeOK, TreeInv, NEW e \in Elements, Drop(e)
  PROVE  TypeOK' /\ TreeInv'
<1>1. /\ Read(e) /\ nodes' = nodes /\ stack' = stack /\ lastPage' = lastPage
      /\ UNCHANGED phase /\ UNCHANGED graph
  BY DEF Drop, Idle
<1>2. /\ raw' \in Seq(Elements) /\ Len(raw') <= MaxElements /\ DOMAIN raw \subseteq DOMAIN raw'
  BY <1>1, ReadFacts
<1>3. Places' = Places /\ OpenSections' = OpenSections /\ \A k : Open(k)' = Open(k)
  BY <1>1 DEF Places, OpenSections, Open
<1>4. TypeOK'
  <2>1. GraphTypes' BY <1>1, <1>2, <1>3, TypesAre, GraphTypesStay
  <2>2. TreeTypes' BY <1>1, <1>2, <1>3, TypesAre DEF TreeTypes
  <2> QED BY <2>1, <2>2, TypesAre, PTL
<1>5. /\ Blocks \subseteq Blocks' /\ \A m \in Blocks : ElementId(raw'[m], m) = BlockId(m)
      /\ BlockKeysDiffer' => BlockKeysDiffer
  BY <1>1, BlocksOnRead
<1>6. RowsHaveParents'
  BY <1>1, <1>3, <1>5 DEF TreeInv, RowsHaveParents, IsParent, BlockId
<1>7. InnermostIsLast' /\ MajorsAreOutermost'
  BY <1>1, <1>3 DEF TreeInv, InnermostIsLast, MajorsAreOutermost, IsSection
<1>8. KeyedTree => KeyedTree'
  BY <1>1, <1>3 DEF KeyedTree, NodeKeysDiffer, OpenSectionsNest, LeavesUnderLast, OpenHolds,
       RowsContiguous, EndsNest, IsParent, IsSection, IsOpen
<1>9. LeavesHeld => LeavesHeld'
  <2> DEFINE c == Len(raw) + 1
  <2>1. DOMAIN raw' = (DOMAIN raw) \cup {c} /\ raw'[c] = e /\ \A m \in DOMAIN raw : raw'[m] = raw[m]
    BY <1>1, ReadFacts
  <2>2. e.kind # "leaf" BY DEF Drop
  <2> HIDE DEF c
  <2>3. ASSUME NEW n \in DOMAIN raw, raw[n].kind = "leaf", NEW f, HeldAfter(n, f)
        PROVE  HeldAfter(n, f)'
    <3>1. n \in Blocks /\ BlockId(n)' = BlockId(n) /\ raw'[n] = raw[n]
      BY <1>5, <2>1, <2>3 DEF Blocks, BlockId
    <3> QED BY <1>1, <1>3, <2>3, <3>1 DEF HeldAfter, LeafRows
  <2> QED BY <1>1, <2>1, <2>2, <2>3 DEF LeavesHeld
<1> QED BY <1>4, <1>5, <1>6, <1>7, <1>8, <1>9 DEF TreeInv

-----------------------------------------------------------------------------
(* Entities and their names.                                                 *)

LEMMA KeysOfName ==
  ASSUME NEW n \in Names
  PROVE  /\ LookupKeys(n) \subseteq Names
         /\ {n, Compact[n]} \subseteq LookupKeys(n)
BY NamesAssumption DEF LookupKeys

LEMMA EntityForType ==
  ASSUME NEW n \in Names, NEW t \in Types
  PROVE  /\ EntityFor(n, t) \subseteq Entities
         /\ \A x \in EntityFor(n, t) : EntityFor(n, t) = {x}
         /\ EntityFor(n, t) # {} => Canonical(n, t) \in Names
<1> DEFINE c == Canonical(n, t)
           named == c # NoName /\ n \notin Labels[t]
<1>1. c \in Names \cup {NoName} BY NamesAssumption DEF Canonical
<1>2. EntityFor(n, t) = {<<Compact[m], t>> : m \in {k \in {c} : k # NoName /\ n \notin Labels[t]}}
  BY DEF EntityFor
<1> HIDE DEF c
<1>3. CASE named
  <2>1. {k \in {c} : k # NoName /\ n \notin Labels[t]} = {c} BY <1>3
  <2>2. EntityFor(n, t) = {<<Compact[c], t>>} BY <1>2, <2>1
  <2>3. c \in Names /\ Compact[c] \in Names BY <1>1, <1>3, NamesAssumption
  <2> QED BY <2>2, <2>3 DEF Entities, c
<1>4. CASE ~named
  <2>1. {k \in {c} : k # NoName /\ n \notin Labels[t]} = {} BY <1>4
  <2>2. EntityFor(n, t) = {} BY <1>2, <2>1
  <2> QED BY <2>2
<1> QED BY <1>3, <1>4

LEMMA EnteredIs ==
  ASSUME NEW made, NEW n \in Names, NEW t \in Types
  PROVE  /\ Entered(made, n, t) \subseteq Names \X Entities
         /\ \A x \in EntityFor(n, t), k \in LookupKeys(n) : <<k, x>> \in Entered(made, n, t)
<1>1. CASE EntityFor(n, t) = {} BY <1>1 DEF Entered
<1>2. CASE EntityFor(n, t) # {}
  <2> DEFINE c == Canonical(n, t)
             display == IF EntityFor(n, t) \subseteq made THEN {} ELSE LookupKeys(c)
             keys == LookupKeys(n) \cup LookupKeys(Compact[c]) \cup display
  <2>1. Entered(made, n, t) = keys \X EntityFor(n, t) BY <1>2 DEF Entered, NamedFor
  <2>2. c \in Names /\ EntityFor(n, t) \subseteq Entities BY <1>2, EntityForType
  <2>3. Compact[c] \in Names BY <2>2, NamesAssumption
  <2> HIDE DEF c
  <2>4. keys \subseteq Names /\ LookupKeys(n) \subseteq keys BY <2>2, <2>3, KeysOfName
  <2> HIDE DEF keys
  <2> QED BY <2>1, <2>2, <2>4
<1> QED BY <1>1, <1>2

LEMMA CalledGrows ==
  ASSUME NEW R, NEW S, R \subseteq S, NEW K, NEW L, K \subseteq L
  PROVE  Called(R, K) \subseteq Called(S, L) /\ EntitiesOf(R) \subseteq EntitiesOf(S)
         /\ Called(R, K) \subseteq EntitiesOf(R)
BY DEF Called, EntitiesOf

LEMMA CalledBy ==
  ASSUME NEW R, NEW K, NEW k \in K, NEW x, <<k, x>> \in R
  PROVE  x \in Called(R, K)
BY DEF Called, EntitiesOf

\* There are finitely many entities, so that one of them is the only one.
LEMMA FewEntities ==
  ASSUME NEW R, R \subseteq Names \X Entities, NEW K
  PROVE  Cardinality(Called(R, K)) = 1 <=> \E x : Called(R, K) = {x}
<1>1. IsFiniteSet(Entities) BY FS_Product, NamesAssumption DEF Entities
<1>2. Called(R, K) \subseteq Entities BY DEF Called, EntitiesOf
<1>3. IsFiniteSet(Called(R, K)) BY <1>1, <1>2, FS_Subset
<1> QED BY <1>3, FS_Singleton

\* A name that resolves, resolves to the only entity it is spelled for, or to
\* the only one it has a key of.
LEMMA ResolvedIs ==
  ASSUME NEW R, R \subseteq Names \X Entities, NEW n \in Names, NEW y \in Resolved(R, n)
  PROVE  /\ y \in Called(R, LookupKeys(n))
         /\ Spelled(R, n) = {y} \/ Called(R, LookupKeys(n)) = {y}
<1> DEFINE exact == Spelled(R, n)
           all == exact \cup Called(R, LookupKeys(n))
<1>1. Spelled(R, n) \subseteq Called(R, LookupKeys(n))
  BY KeysOfName, CalledGrows DEF Spelled
<1>2. all = Called(R, LookupKeys(n)) BY <1>1
<1>3. Resolved(R, n) = IF Cardinality(exact) = 1 THEN exact
                       ELSE IF Cardinality(all) = 1 THEN all ELSE {}
  BY DEF Resolved
<1>4. Cardinality(exact) = 1 <=> \E x : exact = {x} BY FewEntities DEF Spelled
<1>5. Cardinality(all) = 1 <=> \E x : all = {x} BY <1>2, FewEntities
<1> HIDE DEF exact, all
<1>6. CASE Cardinality(exact) = 1
  <2>1. y \in exact /\ exact = {y} BY <1>3, <1>4, <1>6
  <2> QED BY <1>1, <2>1 DEF exact
<1>7. CASE Cardinality(exact) # 1
  <2>1. y \in all /\ all = {y} BY <1>3, <1>5, <1>7
  <2> QED BY <1>2, <2>1
<1> QED BY <1>6, <1>7

\* An end of a relation is an entity that can be looked up by the end's name.
LEMMA EndIsCalled ==
  ASSUME NEW R, R \subseteq Names \X Entities, NEW n \in Names
  PROVE  /\ After(R, n) \subseteq Names \X Entities /\ R \subseteq After(R, n)
         /\ \A y \in EndOf(R, n) : y \in Called(After(R, n), LookupKeys(n))
<1>1. Guess[n] \in Types BY NamesAssumption
<1>2. CASE Resolved(R, n) # {}
  BY <1>2, ResolvedIs DEF After, EndOf
<1>3. CASE Resolved(R, n) = {}
  <2> DEFINE new == Entered(EntitiesOf(R), n, Guess[n])
  <2>1. After(R, n) = R \cup new /\ EndOf(R, n) = EntityFor(n, Guess[n])
    BY <1>3 DEF After, EndOf
  <2>2. /\ new \subseteq Names \X Entities
        /\ \A x \in EntityFor(n, Guess[n]), k \in LookupKeys(n) : <<k, x>> \in new
    BY <1>1, EnteredIs
  <2> HIDE DEF new
  <2>3. n \in LookupKeys(n) BY KeysOfName
  <2>4. ASSUME NEW y \in EndOf(R, n) PROVE y \in Called(After(R, n), LookupKeys(n))
    <3>1. <<n, y>> \in After(R, n) BY <2>1, <2>2, <2>3
    <3> QED BY <2>3, <3>1, CalledBy
  <2> QED BY <2>1, <2>2, <2>4
<1> QED BY <1>2, <1>3

\* Two ends of one name, the first of which can be looked up when the second is.
LEMMA EndAgrees ==
  ASSUME NEW R, R \subseteq Names \X Entities, NEW n \in Names,
         NEW x \in Called(R, LookupKeys(n)), NEW y \in EndOf(R, n)
  PROVE  \/ y = x
         \/ {y} = EntityFor(n, Guess[n])
         \/ x \notin Spelled(R, n) /\ y \in Spelled(R, n)
<1>1. CASE Resolved(R, n) # {}
  <2>1. y \in Resolved(R, n) BY <1>1 DEF EndOf
  <2>2. Spelled(R, n) = {y} \/ Called(R, LookupKeys(n)) = {y} BY <2>1, ResolvedIs
  <2> QED BY <2>2
<1>2. CASE Resolved(R, n) = {}
  <2>1. y \in EntityFor(n, Guess[n]) /\ Guess[n] \in Types BY <1>2, NamesAssumption DEF EndOf
  <2> QED BY <2>1, EntityForType
<1> QED BY <1>1, <1>2

\* What the elements of a document name.
LEMMA NamedIsEntered ==
  ASSUME NEW m \in DOMAIN raw, raw[m] \in Elements
  PROVE  /\ NamedBy(m) \subseteq Names \X Entities
         /\ MentionedBy(raw[m]) \subseteq EntitiesOf(NamedBy(m))
<1> DEFINE e == raw[m]
<1>1. \A i \in DOMAIN e.items : e.items[i].name \in Names /\ e.items[i].type \in Types
  <2> DEFINE s == e.items
  <2>1. s \in Seq([name: Names, type: Types]) BY ElementFacts
  <2> HIDE DEF s
  <2>2. \A i \in DOMAIN s : s[i] \in [name: Names, type: Types] BY <2>1, SeqHolds
  <2>3. \A i \in DOMAIN s : s[i].name \in Names /\ s[i].type \in Types BY <2>2
  <2> QED BY <2>3 DEF s
<1>2. NamedBy(m) \subseteq Names \X Entities
  <2>1. \A i \in DOMAIN e.items :
          Entered(MadeBefore(m, i), e.items[i].name, e.items[i].type) \subseteq Names \X Entities
    BY <1>1, EnteredIs
  <2> QED BY <2>1 DEF NamedBy
<1>3. ASSUME NEW x \in MentionedBy(e) PROVE x \in EntitiesOf(NamedBy(m))
  <2>1. PICK i \in DOMAIN e.items : x \in EntityFor(e.items[i].name, e.items[i].type)
    BY DEF MentionedBy
  <2> DEFINE n == e.items[i].name
             t == e.items[i].type
  <2>2. n \in Names /\ t \in Types BY <1>1
  <2>3. n \in LookupKeys(n) BY <2>2, KeysOfName
  <2>4. x \in EntityFor(n, t) BY <2>1
  <2>5. Entered(MadeBefore(m, i), n, t) \subseteq NamedBy(m) BY DEF NamedBy
  <2> HIDE DEF n, t
  <2>6. <<n, x>> \in NamedBy(m) BY <2>2, <2>3, <2>4, <2>5, EnteredIs
  <2> QED BY <2>6 DEF EntitiesOf
<1> QED BY <1>2, <1>3

-----------------------------------------------------------------------------
(* The graph.                                                                *)

LEMMA TreeStays ==
  ASSUME TypeOK, TreeInv, UNCHANGED tree,
         phase' \in {"reading", "linking", "validating", "accepted", "rejected"}
  PROVE  /\ TreeTypes' /\ TreeInv' /\ Places' = Places /\ raw' = raw /\ nodes' = nodes
         /\ BlockKeysDiffer' <=> BlockKeysDiffer
         /\ \A i : IsSection(i)' <=> IsSection(i)
<1>1. raw' = raw /\ nodes' = nodes /\ stack' = stack /\ lastPage' = lastPage BY DEF tree
<1>2. /\ Places' = Places /\ OpenSections' = OpenSections /\ Blocks' = Blocks
      /\ \A k : Open(k)' = Open(k)
      /\ \A n : BlockId(n)' = BlockId(n)
      /\ \A i : IsOpen(i)' <=> IsOpen(i)
      /\ \A i : IsSection(i)' <=> IsSection(i)
      /\ \A i, j : IsParent(i, j)' <=> IsParent(i, j)
  BY <1>1 DEF Places, OpenSections, Blocks, Open, BlockId, IsOpen, IsSection, IsParent
<1>3. BlockKeysDiffer' <=> BlockKeysDiffer BY <1>2 DEF BlockKeysDiffer
<1>4. TreeTypes' BY <1>1, <1>2, TypesAre DEF TreeTypes
<1>5. RowsHaveParents' BY <1>1, <1>2 DEF TreeInv, RowsHaveParents
<1>6. InnermostIsLast' /\ MajorsAreOutermost'
  BY <1>1, <1>2 DEF TreeInv, InnermostIsLast, MajorsAreOutermost
<1>7. KeyedTree => KeyedTree'
  BY <1>1, <1>2 DEF KeyedTree, NodeKeysDiffer, OpenSectionsNest, LeavesUnderLast, OpenHolds,
       RowsContiguous, EndsNest
<1>8. LeavesHeld => LeavesHeld'
  <2>1. \A n, f : HeldAfter(n, f)' <=> HeldAfter(n, f) BY <1>1, <1>2 DEF HeldAfter, LeafRows
  <2> QED BY <1>1, <2>1 DEF LeavesHeld
<1> QED BY <1>1, <1>2, <1>3, <1>4, <1>5, <1>6, <1>7, <1>8 DEF TreeInv

LEMMA GraphOnRead ==
  ASSUME GraphInv, phase = "reading", UNCHANGED phase, UNCHANGED graph
  PROVE  GraphInv'
<1>1. /\ registry' = {} /\ todo' = {} /\ walk' = <<>> /\ links' = {} /\ relations' = {}
      /\ phase' = "reading"
  BY DEF GraphInv, graph
<1>2. Ends' = {} BY <1>1 DEF Ends
<1>3. RowsKeepTheirSection' BY <1>1 DEF RowsKeepTheirSection
<1> QED BY <1>1, <1>2, <1>3 DEF GraphInv

LEMMA ReadKeepsInv ==
  ASSUME IInv, NEW e \in Elements, Drop(e) \/ AddSection(e) \/ AddLeaf(e)
  PROVE  IInv'
<1>1. TypeOK' /\ TreeInv' BY DropKeepsTree, SectionKeepsTree, LeafKeepsTree DEF IInv
<1>2. phase = "reading" /\ UNCHANGED phase /\ UNCHANGED graph
  BY DEF Drop, AddSection, AddLeaf, Read, Idle
<1> QED BY <1>1, <1>2, GraphOnRead DEF IInv

LEMMA EndDocumentKeepsInv ==
  ASSUME IInv, EndDocument
  PROVE  IInv'
<1>1. /\ phase = "reading" /\ phase' = IF GraphEnabled THEN "linking" ELSE "validating"
      /\ walk' = walk /\ at' = at /\ links' = links /\ relations' = relations /\ place' = place
      /\ UNCHANGED tree
  BY DEF EndDocument
<1>2. /\ TreeTypes' /\ TreeInv' /\ Places' = Places /\ raw' = raw /\ nodes' = nodes
  BY <1>1, TreeStays DEF IInv
<1>3. registry = {} /\ todo = {} /\ walk = <<>> /\ links = {} /\ relations = {} /\ GraphTypes
  BY <1>1, TypesAre DEF IInv, GraphInv
<1>4. /\ GraphEnabled => /\ todo' = LinkWalks \cup RelationWalks
                         /\ registry' = UNION {NamedBy(n) : n \in DOMAIN raw}
      /\ ~GraphEnabled => todo' = todo /\ registry' = registry
  BY DEF EndDocument
<1>5. LinkWalks \cup RelationWalks \subseteq (1 .. 2) \X (DOMAIN raw) \X Places
  <2>1. \A e : LinkedNodes(e) \subseteq Places /\ PrimaryNode(e) \subseteq Places
    BY DEF LinkedNodes, PrimaryNode, Places
  <2>2. LinkWalks \subseteq (1 .. 2) \X (DOMAIN raw) \X Places BY <2>1 DEF LinkWalks
  <2>3. RelationWalks \subseteq (1 .. 2) \X (DOMAIN raw) \X Places BY <2>1 DEF RelationWalks
  <2> QED BY <2>2, <2>3
<1>6. \A n \in DOMAIN raw : raw[n] \in Elements BY SeqHolds DEF IInv, TypeOK
<1>7. registry' \subseteq Names \X Entities BY <1>3, <1>4, <1>6, NamedIsEntered
<1>8. GraphTypes' BY <1>1, <1>2, <1>3, <1>4, <1>5, <1>7 DEF GraphTypes
<1>9. GraphInv'
  <2>1. ASSUME GraphEnabled, NEW n \in DOMAIN raw PROVE MentionedBy(raw[n]) \subseteq EntitiesOf(registry')
    <3>1. NamedBy(n) \subseteq registry' BY <1>4, <2>1
    <3> QED BY <1>6, <2>1, <3>1, NamedIsEntered, CalledGrows
  <2>2. phase' = "linking" => \A n \in DOMAIN raw' : MentionedBy(raw'[n]) \subseteq EntitiesOf(registry')
    BY <1>1, <1>2, <2>1
  <2>3. Ends' = {} /\ RowsKeepTheirSection' BY <1>1, <1>3 DEF Ends, RowsKeepTheirSection
  <2>4. phase' # "reading" BY <1>1
  <2> QED BY <1>1, <1>3, <2>2, <2>3, <2>4 DEF GraphInv
<1> QED BY <1>2, <1>8, <1>9, TypesAre, PTL DEF IInv

\* What the graph holds while nothing is added to it.
LEMMA GraphRowsStay ==
  ASSUME IInv, UNCHANGED tree, phase # "reading", phase' \in {"linking", "validating", "accepted", "rejected"},
         phase' = "linking" => phase = "linking",
         UNCHANGED <<registry, links, relations>>
  PROVE  /\ TreeTypes' /\ TreeInv'
         /\ BlockKeysDiffer' => RowsKeepTheirSection'
         /\ phase' = "linking" => \A n \in DOMAIN raw' : MentionedBy(raw'[n]) \subseteq EntitiesOf(registry')
         /\ \A r \in relations' : r.place \in DOMAIN raw'[r.ordinal].relations
         /\ \A x \in Ends' : x.entity \in Called(registry', LookupKeys(x.name))
         /\ registry' \subseteq Names \X Entities
         /\ links' \subseteq [ordinal: DOMAIN raw', node: Places', section: Places' \cup {0},
                             entity: EntitiesOf(registry')]
         /\ relations' \subseteq [ordinal: DOMAIN raw', place: Nat, node: Places', section: Places' \cup {0},
                                 from: EntitiesOf(registry'), to: EntitiesOf(registry')]
<1>1. /\ TreeTypes' /\ TreeInv' /\ Places' = Places /\ raw' = raw /\ nodes' = nodes
      /\ BlockKeysDiffer' <=> BlockKeysDiffer
  BY TreeStays DEF IInv
<1>2. registry' = registry /\ links' = links /\ relations' = relations OBVIOUS
<1>3. \A r : EndsOf(r)' = EndsOf(r) BY <1>1 DEF EndsOf
<1>4. Ends' = Ends BY <1>2, <1>3 DEF Ends
<1>5. RowsKeepTheirSection' <=> RowsKeepTheirSection BY <1>1, <1>2 DEF RowsKeepTheirSection
<1>6. GraphTypes /\ GraphInv BY TypesAre DEF IInv
<1> QED BY <1>1, <1>2, <1>4, <1>5, <1>6 DEF GraphTypes, GraphInv

LEMMA BeginWalkKeepsInv ==
  ASSUME IInv, BeginWalk
  PROVE  IInv'
<1>1. PICK w \in todo : walk' = w /\ at' = w[3] /\ todo' = todo \ {w} BY DEF BeginWalk
<1>2. /\ phase = "linking" /\ phase' = phase /\ walk = <<>> /\ place' = place
      /\ UNCHANGED <<registry, links, relations>> /\ UNCHANGED tree
  BY DEF BeginWalk
<1>3. /\ TreeTypes' /\ TreeInv' /\ Places' = Places /\ raw' = raw /\ nodes' = nodes
  BY <1>2, TreeStays DEF IInv
<1>4. GraphTypes BY TypesAre DEF IInv
<1>5. w \in (1 .. 2) \X (DOMAIN raw) \X Places BY <1>4 DEF GraphTypes
<1>6. w[3] \in Places /\ Places \subseteq Nat BY <1>5, NodesAreSeq DEF IInv
<1>7. GraphTypes'
  <2>1. todo' \subseteq (1 .. 2) \X (DOMAIN raw') \X Places' BY <1>1, <1>3, <1>4 DEF GraphTypes
  <2>2. phase' = "linking" /\ walk' \in (1 .. 2) \X (DOMAIN raw') \X Places' /\ at' \in Places'
    BY <1>1, <1>2, <1>3, <1>5, <1>6
  <2>3. place' \in Nat /\ ~(place' > 0) BY <1>2, <1>4 DEF GraphTypes
  <2>4. /\ registry' \subseteq Names \X Entities
        /\ links' \subseteq [ordinal: DOMAIN raw', node: Places', section: Places' \cup {0},
                            entity: EntitiesOf(registry')]
        /\ relations' \subseteq [ordinal: DOMAIN raw', place: Nat, node: Places', section: Places' \cup {0},
                                from: EntitiesOf(registry'), to: EntitiesOf(registry')]
    BY <1>2, GraphRowsStay
  <2>5. Entities' = Entities /\ EntitiesOf(registry)' = EntitiesOf(registry') BY DEF Entities, EntitiesOf
  <2> QED BY <2>1, <2>2, <2>3, <2>4, <2>5 DEF GraphTypes
<1>8. /\ at' <= walk'[3] /\ \A k \in Places' : at' < k /\ k <= walk'[3] => ~IsSection(k)'
  <2> DEFINE b == w[3]
  <2>1. at' = b /\ walk'[3] = b /\ b \in Nat /\ Places' \subseteq Nat BY <1>1, <1>3, <1>6
  <2> HIDE DEF b
  <2> QED BY <2>1
<1>9. place' = 0
  <2>1. place \in Nat /\ ~(place > 0) BY <1>2, <1>4 DEF GraphTypes
  <2> QED BY <1>2, <2>1
<1>10. GraphInv' BY <1>2, <1>8, <1>9, GraphRowsStay DEF GraphInv
<1> QED BY <1>3, <1>7, <1>10, TypesAre, PTL DEF IInv

\* The parent of a leaf, which a walk goes to.
LEMMA NodeNamedIs ==
  ASSUME TypeOK, TreeInv, NEW i \in Places, i # 1
  PROVE  /\ NodeNamed(nodes[i].parent) \in Places
         /\ IsParent(i, NodeNamed(nodes[i].parent))
<1> DEFINE S == {j \in DOMAIN nodes : nodes[j].id = nodes[i].parent}
<1>1. PICK j \in Places : IsParent(i, j) BY DEF TreeInv, RowsHaveParents
<1>2. j \in S BY <1>1 DEF IsParent, Places
<1>3. Len(nodes) \in Nat /\ Places = 1..Len(nodes) /\ S \subseteq 1..Len(nodes) /\ S # {}
  BY <1>2, NodesAreSeq
<1>4. LastIn(S) \in S
  <2> HIDE DEF S
  <2> QED BY <1>3, LastIsIn
<1>5. NodeNamed(nodes[i].parent) = LastIn(S) BY DEF NodeNamed
<1> QED BY <1>3, <1>4, <1>5 DEF IsParent

LEMMA WalkUpKeepsInv ==
  ASSUME IInv, WalkUp
  PROVE  IInv'
<1>1. /\ phase = "linking" /\ phase' = phase /\ walk # <<>> /\ walk' = walk /\ place' = place
      /\ nodes[at].kind = "leaf" /\ at' = NodeNamed(nodes[at].parent) /\ todo' = todo
      /\ UNCHANGED <<registry, links, relations>> /\ UNCHANGED tree
  BY DEF WalkUp
<1>2. /\ TreeTypes' /\ TreeInv' /\ Places' = Places /\ raw' = raw /\ nodes' = nodes
      /\ BlockKeysDiffer' <=> BlockKeysDiffer
      /\ \A i : IsSection(i)' <=> IsSection(i)
  BY <1>1, TreeStays DEF IInv
<1>3. GraphTypes /\ TypeOK /\ TreeInv BY TypesAre DEF IInv
<1>4. at \in Places /\ at # 1
  BY <1>1, <1>3 DEF GraphTypes, TreeInv, RowsHaveParents
<1>5. at' \in Places /\ IsParent(at, at') BY <1>1, <1>3, <1>4, NodeNamedIs
<1>6. GraphTypes' BY <1>1, <1>2, <1>3, <1>5, GraphRowsStay DEF GraphTypes
<1>7. ASSUME BlockKeysDiffer
      PROVE  /\ at' <= walk'[3] /\ \A k \in Places' : at' < k /\ k <= walk'[3] => ~IsSection(k)'
  <2>1. at <= walk[3] /\ \A k \in Places : at < k /\ k <= walk[3] => ~IsSection(k)
    BY <1>1, <1>7 DEF IInv, GraphInv
  <2>2. at' < at /\ \A k \in Places : at' < k /\ k < at => ~IsSection(k)
    BY <1>1, <1>4, <1>5, <1>7 DEF IInv, TreeInv, KeyedTree, LeavesUnderLast
  <2>3. ~IsSection(at) BY <1>1 DEF IsSection
  <2>4. at \in Nat /\ at' \in Nat /\ walk[3] \in Nat /\ Places \subseteq Nat
    <3>1. Places \subseteq Nat BY <1>3, NodesAreSeq
    <3>2. walk[3] \in Places BY <1>1, <1>3 DEF GraphTypes
    <3> QED BY <1>4, <1>5, <3>1, <3>2
  <2>5. \A k \in Places : k < at \/ k = at \/ at < k BY <2>4
  <2> QED BY <1>1, <1>2, <2>1, <2>2, <2>3, <2>4, <2>5
<1>8. walk' # <<>> /\ walk'[1] = 1 => place' = 0 BY <1>1 DEF IInv, GraphInv
<1>9. GraphInv' BY <1>1, <1>2, <1>7, <1>8, GraphRowsStay DEF GraphInv
<1> QED BY <1>2, <1>6, <1>9, TypesAre, PTL DEF IInv

\* A walk that has ended has found the last section at or before its node.
LEMMA SectionFound ==
  ASSUME IInv, walk # <<>>, nodes[at].kind # "leaf"
  PROVE  /\ SectionAt \in Places \cup {0}
         /\ BlockKeysDiffer =>
              SectionAt = LastIn({i \in Places : i <= walk[3] /\ nodes[i].kind = "section"})
<1> DEFINE S == {i \in Places : i <= walk[3] /\ nodes[i].kind = "section"}
<1>1. /\ at \in Places /\ walk[3] \in Places BY TypesAre DEF IInv, GraphTypes
<1>2. /\ Places = 1..Len(nodes) /\ Len(nodes) \in Nat BY NodesAreSeq DEF IInv
<1>3. SectionAt = IF IsSection(at) THEN at ELSE 0 BY DEF SectionAt, IsSection
<1>4. ASSUME BlockKeysDiffer PROVE SectionAt = LastIn(S)
  <2>1. at <= walk[3] /\ \A k \in Places : at < k /\ k <= walk[3] => ~IsSection(k)
    BY <1>4 DEF IInv, GraphInv
  <2>2. S \subseteq 1..Len(nodes) BY <1>2
  <2>3. CASE IsSection(at)
    <3>1. at \in S BY <1>1, <2>1, <2>3 DEF IsSection
    <3>2. \A k \in S : k <= at BY <1>1, <1>2, <2>1 DEF IsSection
    <3> HIDE DEF S
    <3>3. LastIn(S) = at BY <1>2, <2>2, <3>1, <3>2, LastIsThe
    <3> QED BY <1>3, <2>3, <3>3
  <2>4. CASE ~IsSection(at)
    <3>1. at = 1 BY <1>1, <2>4 DEF IInv, TreeInv, RowsHaveParents, IsSection
    <3>2. S = {} BY <1>1, <1>2, <2>1, <2>4, <3>1 DEF IsSection
    <3> QED BY <1>3, <2>4, <3>2 DEF LastIn
  <2> QED BY <2>3, <2>4
<1> QED BY <1>1, <1>3, <1>4

LEMMA EndLinkWalkKeepsInv ==
  ASSUME IInv, EndLinkWalk
  PROVE  IInv'
<1> DEFINE new == [ordinal : {walk[2]}, node : {walk[3]}, section : {SectionAt},
                   entity : MentionedBy(raw[walk[2]])]
           L == [ordinal: DOMAIN raw, node: Places, section: Places \cup {0},
                 entity: EntitiesOf(registry)]
<1>1. /\ phase = "linking" /\ phase' = phase /\ walk # <<>> /\ nodes[at].kind # "leaf"
      /\ links' = links \cup new /\ walk' = <<>> /\ at' = 1
      /\ registry' = registry /\ todo' = todo /\ relations' = relations /\ place' = place
      /\ UNCHANGED tree
  BY DEF EndLinkWalk
<1>0. walk[1] = 1 BY DEF EndLinkWalk
<1>2. /\ TreeTypes' /\ TreeInv' /\ Places' = Places /\ raw' = raw /\ nodes' = nodes
      /\ BlockKeysDiffer' <=> BlockKeysDiffer
  BY <1>1, TreeStays DEF IInv
<1>3. GraphTypes /\ GraphInv BY TypesAre DEF IInv
<1>4. walk[2] \in DOMAIN raw /\ walk[3] \in Places BY <1>1, <1>3 DEF GraphTypes
<1>5. /\ SectionAt \in Places \cup {0}
      /\ BlockKeysDiffer =>
           SectionAt = LastIn({i \in Places : i <= walk[3] /\ nodes[i].kind = "section"})
  BY <1>1, SectionFound
<1>6. MentionedBy(raw[walk[2]]) \subseteq EntitiesOf(registry) BY <1>1, <1>3, <1>4 DEF GraphInv
<1>7. new \subseteq L BY <1>4, <1>5, <1>6
<1>8. links' \subseteq L
  <2>1. links \subseteq L BY <1>3 DEF GraphTypes
  <2> QED BY <1>1, <1>7, <2>1
<1>9. GraphTypes'
  <2>1. EntitiesOf(registry)' = EntitiesOf(registry) BY <1>1 DEF EntitiesOf
  <2>2. 1 \in Places BY NodesAreSeq DEF IInv
  <2>3. place' \in Nat /\ ~(place' > 0)
    <3>1. place = 0 BY <1>0, <1>1, <1>3 DEF GraphInv
    <3> QED BY <1>1, <3>1
  <2> QED BY <1>1, <1>2, <1>3, <1>8, <2>1, <2>2, <2>3 DEF GraphTypes
<1>10. BlockKeysDiffer => RowsKeepTheirSection'
  <2>1. \A l \in new : l.section = SectionAt /\ l.node = walk[3] OBVIOUS
  <2>2. BlockKeysDiffer => RowsKeepTheirSection BY <1>3 DEF GraphInv
  <2> HIDE DEF new
  <2> QED BY <1>1, <1>2, <1>5, <2>1, <2>2 DEF RowsKeepTheirSection
<1>11. Ends' = Ends
  <2>1. \A r : EndsOf(r)' = EndsOf(r) BY <1>2 DEF EndsOf
  <2> QED BY <1>1, <2>1 DEF Ends
<1>12. GraphInv' BY <1>1, <1>2, <1>3, <1>10, <1>11 DEF GraphInv
<1> QED BY <1>2, <1>9, <1>12, TypesAre, PTL DEF IInv

\* What looking at a relation does: nothing, or it files a row for its two ends,
\* each of which is found or made before the next.
RelationFiled(r) ==
  LET between == After(registry, r.from)
  IN /\ registry' = After(between, r.to) /\ relations \subseteq relations'
     /\ \A row \in relations' \ relations :
          /\ row.ordinal = walk[2] /\ row.place = place + 1 /\ row.node = walk[3]
          /\ row.section = SectionAt
          /\ row.from \in EndOf(registry, r.from) /\ row.to \in EndOf(between, r.to)
          /\ row \in [ordinal: {walk[2]}, place: {place + 1}, node: {walk[3]}, section: {SectionAt},
                      from: EndOf(registry, r.from), to: EndOf(between, r.to)]

LEMMA RelationAdded ==
  ASSUME IInv, AddRelation
  PROVE  LET r == Stated[place + 1]
         IN /\ place + 1 \in DOMAIN raw[walk[2]].relations /\ r = raw[walk[2]].relations[place + 1]
            /\ r.from \in Names /\ r.to \in Names
            /\ UNCHANGED <<registry, relations>> \/ RelationFiled(r)
<1> DEFINE S == raw[walk[2]].relations
           r == Stated[place + 1]
           between == After(registry, r.from)
           new == [ordinal : {walk[2]}, place : {place + 1}, node : {walk[3]}, section : {SectionAt},
                   from : EndOf(registry, r.from), to : EndOf(between, r.to)]
<1>1. /\ walk # <<>> /\ place < Len(Stated) /\ place' = place + 1
      /\ \/ UNCHANGED <<registry, relations>>
         \/ registry' = After(between, r.to) /\ relations' = relations \cup new
  BY DEF AddRelation
<1>2. GraphTypes /\ \A n \in DOMAIN raw : raw[n] \in Elements
  BY TypesAre, SeqHolds DEF IInv, TypeOK
<1>3. walk[2] \in DOMAIN raw /\ place \in Nat BY <1>1, <1>2 DEF GraphTypes
<1>4. S \in Seq([from: Names, by: {"owns", "files"}, to: Names])
  BY <1>2, <1>3, ElementFacts
<1>5. S = Stated BY DEF Stated
<1> HIDE DEF S
<1>6. /\ Len(S) \in Nat /\ DOMAIN S = 1..Len(S)
      /\ \A i \in DOMAIN S : S[i] \in [from: Names, by: {"owns", "files"}, to: Names]
  BY <1>4, SeqHolds
<1>7. place + 1 \in DOMAIN S BY <1>1, <1>3, <1>5, <1>6
<1>8. r = S[place + 1] /\ r \in [from: Names, by: {"owns", "files"}, to: Names]
  BY <1>5, <1>6, <1>7
<1> HIDE DEF r
<1>9. r.from \in Names /\ r.to \in Names BY <1>8
<1>10. ASSUME registry' = After(between, r.to), relations' = relations \cup new
       PROVE  RelationFiled(r)
  <2>1. \A row \in new :
          /\ row.ordinal = walk[2] /\ row.place = place + 1 /\ row.node = walk[3]
          /\ row.section = SectionAt
          /\ row.from \in EndOf(registry, r.from) /\ row.to \in EndOf(between, r.to)
    OBVIOUS
  <2>2. \A row \in relations' \ relations : row \in new BY <1>10
  <2> QED BY <1>10, <2>1, <2>2 DEF RelationFiled
<1> QED BY <1>1, <1>7, <1>8, <1>9, <1>10 DEF r, S

\* The ends that are looked up for a row, each in the registry of its time.
LEMMA EndsOfRow ==
  ASSUME IInv, NEW r, RelationFiled(r), r.from \in Names, r.to \in Names,
         r = raw[walk[2]].relations[place + 1], raw' = raw,
         NEW row \in relations' \ relations, NEW y \in EndsOf(row)'
  PROVE  LET between == After(registry, r.from)
         IN /\ registry \subseteq between /\ between \subseteq registry'
            /\ registry' \subseteq Names \X Entities /\ between \subseteq Names \X Entities
            /\ \/ y.name = r.from /\ y.entity \in EndOf(registry, r.from)
               \/ y.name = r.to /\ y.entity \in EndOf(between, r.to)
            /\ y.entity \in Called(registry', LookupKeys(y.name))
<1> DEFINE between == After(registry, r.from)
<1>1. registry \subseteq Names \X Entities BY TypesAre DEF IInv, GraphTypes
<1>2. /\ between \subseteq Names \X Entities /\ registry \subseteq between
      /\ \A x \in EndOf(registry, r.from) : x \in Called(between, LookupKeys(r.from))
  BY <1>1, EndIsCalled
<1> HIDE DEF between
<1>3. /\ After(between, r.to) \subseteq Names \X Entities /\ between \subseteq After(between, r.to)
      /\ \A x \in EndOf(between, r.to) : x \in Called(After(between, r.to), LookupKeys(r.to))
  BY <1>2, EndIsCalled
<1>4. /\ registry' = After(between, r.to)
      /\ row.ordinal = walk[2] /\ row.place = place + 1
      /\ row.from \in EndOf(registry, r.from) /\ row.to \in EndOf(between, r.to)
  BY DEF RelationFiled, between
<1>5. EndsOf(row)' =
        {[at |-> <<row.ordinal, row.place, 1>>, name |-> r.from, entity |-> row.from],
         [at |-> <<row.ordinal, row.place, 2>>, name |-> r.to, entity |-> row.to]}
  BY <1>4 DEF EndsOf
<1>6. \/ y.name = r.from /\ y.entity = row.from
      \/ y.name = r.to /\ y.entity = row.to
  BY <1>5
<1>7. y.entity \in Called(registry', LookupKeys(y.name))
  <2>1. CASE y.name = r.from /\ y.entity = row.from
    <3>1. y.entity \in Called(between, LookupKeys(r.from)) BY <1>2, <1>4, <2>1
    <3>2. Called(between, LookupKeys(r.from)) \subseteq Called(registry', LookupKeys(r.from))
      BY <1>3, <1>4, CalledGrows
    <3> QED BY <2>1, <3>1, <3>2
  <2>2. CASE y.name = r.to /\ y.entity = row.to BY <1>3, <1>4, <2>2
  <2> QED BY <1>6, <2>1, <2>2
<1> QED BY <1>2, <1>3, <1>4, <1>6, <1>7 DEF between

LEMMA AddRelationKeepsInv ==
  ASSUME IInv, AddRelation
  PROVE  IInv'
<1> DEFINE r == Stated[place + 1]
           Q(reg) == [ordinal: DOMAIN raw, place: Nat, node: Places, section: Places \cup {0},
                      from: EntitiesOf(reg), to: EntitiesOf(reg)]
           L(reg) == [ordinal: DOMAIN raw, node: Places, section: Places \cup {0},
                      entity: EntitiesOf(reg)]
<1>1. /\ phase = "linking" /\ phase' = phase /\ walk # <<>> /\ walk[1] = 2
      /\ nodes[at].kind # "leaf" /\ place' = place + 1
      /\ walk' = walk /\ at' = at /\ todo' = todo /\ links' = links
      /\ UNCHANGED tree
  BY DEF AddRelation
<1>2. /\ TreeTypes' /\ TreeInv' /\ Places' = Places /\ raw' = raw /\ nodes' = nodes
      /\ BlockKeysDiffer' <=> BlockKeysDiffer
      /\ \A i : IsSection(i)' <=> IsSection(i)
  BY <1>1, TreeStays DEF IInv
<1>3. GraphTypes /\ GraphInv BY TypesAre DEF IInv
<1>4. /\ place + 1 \in DOMAIN raw[walk[2]].relations /\ r = raw[walk[2]].relations[place + 1]
      /\ r.from \in Names /\ r.to \in Names
      /\ UNCHANGED <<registry, relations>> \/ RelationFiled(r)
  BY RelationAdded
<1> HIDE DEF r
<1>5. walk[2] \in DOMAIN raw /\ walk[3] \in Places /\ place \in Nat
  BY <1>1, <1>3 DEF GraphTypes
<1>6. /\ SectionAt \in Places \cup {0}
      /\ BlockKeysDiffer =>
           SectionAt = LastIn({i \in Places : i <= walk[3] /\ nodes[i].kind = "section"})
  BY <1>1, SectionFound
<1>7. registry \subseteq registry' /\ registry' \subseteq Names \X Entities
  <2>1. registry \subseteq Names \X Entities BY <1>3 DEF GraphTypes
  <2>2. CASE RelationFiled(r)
    <3> DEFINE f == r.from
               t == r.to
               b == After(registry, f)
    <3>0. f \in Names /\ t \in Names BY <1>4
    <3>3. registry' = After(b, t) BY <2>2 DEF RelationFiled
    <3> HIDE DEF f, t
    <3>1. b \subseteq Names \X Entities /\ registry \subseteq b BY <2>1, <3>0, EndIsCalled
    <3> HIDE DEF b
    <3>2. After(b, t) \subseteq Names \X Entities /\ b \subseteq After(b, t)
      BY <3>0, <3>1, EndIsCalled
    <3> QED BY <3>1, <3>2, <3>3
  <2> QED BY <1>4, <2>1, <2>2
<1>8. EntitiesOf(registry) \subseteq EntitiesOf(registry') BY <1>7, CalledGrows
<1>9. ASSUME NEW row \in relations' \ relations
      PROVE  /\ RelationFiled(r)
             /\ row.ordinal = walk[2] /\ row.place = place + 1 /\ row.node = walk[3]
             /\ row.section = SectionAt
             /\ row \in Q(registry')
  <2>1. RelationFiled(r) BY <1>4, <1>9
  <2> DEFINE from == EndOf(registry, r.from)
             to == EndOf(After(registry, r.from), r.to)
  <2>2. /\ row.ordinal = walk[2] /\ row.place = place + 1 /\ row.node = walk[3]
        /\ row.section = SectionAt /\ row.from \in from /\ row.to \in to
        /\ row \in [ordinal: {walk[2]}, place: {place + 1}, node: {walk[3]}, section: {SectionAt},
                    from: from, to: to]
    BY <1>9, <2>1 DEF RelationFiled
  <2>3. \A y \in EndsOf(row)' : y.entity \in EntitiesOf(registry')
    BY <1>2, <1>4, <1>9, <2>1, EndsOfRow, CalledGrows
  <2> HIDE DEF from, to
  <2>4. \E y \in EndsOf(row)' : y.entity = row.from BY DEF EndsOf
  <2>5. \E y \in EndsOf(row)' : y.entity = row.to BY DEF EndsOf
  <2>6. row.from \in EntitiesOf(registry') /\ row.to \in EntitiesOf(registry')
    BY <2>3, <2>4, <2>5
  <2>7. row \in Q(registry') BY <1>5, <1>6, <2>2, <2>6
  <2> QED BY <2>1, <2>2, <2>7
<1>10. relations' \subseteq Q(registry')
  <2>1. relations \subseteq Q(registry) BY <1>3 DEF GraphTypes
  <2>2. Q(registry) \subseteq Q(registry') BY <1>8
  <2> HIDE DEF Q
  <2> QED BY <1>9, <2>1, <2>2
<1>11. links' \subseteq L(registry')
  <2>1. links \subseteq L(registry) BY <1>3 DEF GraphTypes
  <2>2. L(registry) \subseteq L(registry') BY <1>8
  <2> HIDE DEF L
  <2> QED BY <1>1, <2>1, <2>2
<1>12. GraphTypes'
  <2>1. EntitiesOf(registry)' = EntitiesOf(registry') /\ Entities' = Entities BY DEF EntitiesOf, Entities
  <2>2. place' \in Nat /\ walk' # <<>> BY <1>1, <1>5
  <2> QED BY <1>1, <1>2, <1>3, <1>7, <1>10, <1>11, <2>1, <2>2 DEF GraphTypes
<1>13. BlockKeysDiffer => RowsKeepTheirSection'
  <2>1. BlockKeysDiffer => RowsKeepTheirSection BY <1>3 DEF GraphInv
  <2>2. \A l \in relations' \ relations : l.section = SectionAt /\ l.node = walk[3] BY <1>9
  <2> QED BY <1>1, <1>2, <1>6, <2>1, <2>2 DEF RowsKeepTheirSection
<1>14. \A row \in relations' : row.place \in DOMAIN raw'[row.ordinal].relations
  <2>1. \A row \in relations : row.place \in DOMAIN raw[row.ordinal].relations
    BY <1>3 DEF GraphInv
  <2>2. \A row \in relations' \ relations : row.ordinal = walk[2] /\ row.place = place + 1 BY <1>9
  <2> QED BY <1>2, <1>4, <2>1, <2>2
<1>15. ASSUME NEW x \in Ends' PROVE x.entity \in Called(registry', LookupKeys(x.name))
  <2>1. PICK row \in relations' : x \in EndsOf(row)' BY DEF Ends
  <2>2. CASE row \in relations
    <3>1. x \in EndsOf(row) BY <1>2, <2>1 DEF EndsOf
    <3>2. x \in Ends BY <2>2, <3>1 DEF Ends
    <3>3. x.entity \in Called(registry, LookupKeys(x.name)) BY <1>3, <3>2 DEF GraphInv
    <3> QED BY <1>7, <3>3, CalledGrows
  <2>3. CASE row \notin relations
    <3>1. RelationFiled(r) BY <1>9, <2>3
    <3> QED BY <1>2, <1>4, <2>1, <2>3, <3>1, EndsOfRow
  <2> QED BY <2>2, <2>3
<1>16. \A n \in DOMAIN raw' : MentionedBy(raw'[n]) \subseteq EntitiesOf(registry')
  BY <1>1, <1>2, <1>3, <1>8 DEF GraphInv
<1>17. GraphInv'
  <2>1. BlockKeysDiffer => /\ at <= walk[3]
                           /\ \A k \in Places : at < k /\ k <= walk[3] => ~IsSection(k)
    BY <1>1, <1>3 DEF GraphInv
  <2> QED BY <1>1, <1>2, <1>13, <1>14, <1>15, <1>16, <2>1 DEF GraphInv
<1> QED BY <1>2, <1>12, <1>17, TypesAre, PTL DEF IInv

LEMMA EndRelationWalkKeepsInv ==
  ASSUME IInv, EndRelationWalk
  PROVE  IInv'
<1>1. /\ phase = "linking" /\ phase' = phase /\ walk' = <<>> /\ at' = 1 /\ place' = 0
      /\ todo' = todo /\ UNCHANGED <<registry, links, relations>> /\ UNCHANGED tree
  BY DEF EndRelationWalk
<1>2. /\ TreeTypes' /\ TreeInv' /\ Places' = Places /\ raw' = raw /\ nodes' = nodes
  BY <1>1, TreeStays DEF IInv
<1>3. GraphTypes /\ 1 \in Places BY TypesAre, NodesAreSeq DEF IInv
<1>4. GraphTypes' BY <1>1, <1>2, <1>3, GraphRowsStay DEF GraphTypes
<1>5. GraphInv' BY <1>1, GraphRowsStay DEF GraphInv
<1> QED BY <1>2, <1>4, <1>5, TypesAre, PTL DEF IInv

LEMMA EndGraphKeepsInv ==
  ASSUME IInv, EndGraph \/ Validate
  PROVE  IInv'
<1>1. /\ phase \in {"linking", "validating"} /\ phase' \in {"validating", "accepted", "rejected"}
      /\ UNCHANGED tree /\ UNCHANGED graph /\ walk = <<>>
  <2>1. CASE EndGraph BY <2>1 DEF EndGraph
  <2>2. CASE Validate
    <3>1. walk = <<>> BY <2>2, TypesAre DEF Validate, IInv, GraphTypes
    <3> QED BY <2>2, <3>1 DEF Validate
  <2> QED BY <2>1, <2>2
<1>2. /\ TreeTypes' /\ TreeInv' /\ Places' = Places /\ raw' = raw /\ nodes' = nodes
  BY <1>1, TreeStays DEF IInv
<1>3. GraphTypes BY TypesAre DEF IInv
<1>4. /\ registry' = registry /\ links' = links /\ relations' = relations /\ walk' = <<>>
      /\ todo' = todo /\ at' = at /\ place' = place
  BY <1>1 DEF graph
<1>5. GraphTypes' BY <1>1, <1>2, <1>3, <1>4, GraphRowsStay DEF GraphTypes
<1>6. GraphInv' BY <1>1, <1>4, GraphRowsStay DEF GraphInv
<1> QED BY <1>2, <1>5, <1>6, TypesAre, PTL DEF IInv

-----------------------------------------------------------------------------
(* What the rows say of the document.                                        *)

LEMMA ParentFound ==
  ASSUME TypeOK, TreeInv, NEW i \in Places, i # 1
  PROVE  /\ ParentOf(i) \in Places /\ IsParent(i, ParentOf(i))
         /\ BlockKeysDiffer => ParentOf(i) < i
<1>1. ParentOf(i) \in Places /\ IsParent(i, ParentOf(i)) BY NodeNamedIs DEF ParentOf
<1>2. ASSUME BlockKeysDiffer PROVE ParentOf(i) < i
  <2>1. PICK j \in Places : j < i /\ IsParent(i, j) BY DEF TreeInv, RowsHaveParents
  <2>2. nodes[j].id = nodes[ParentOf(i)].id BY <1>1, <2>1 DEF IsParent
  <2>3. j = ParentOf(i)
    BY <1>1, <1>2, <2>2 DEF TreeInv, KeyedTree, NodeKeysDiffer, Places
  <2> QED BY <2>1, <2>3
<1> QED BY <1>1, <1>2

LEMMA RowsNest ==
  ASSUME IInv, BlockKeysDiffer
  PROVE  SubtreesAreContiguous /\ PagesNest /\ StackDescends
<1>1. TypeOK /\ TreeInv /\ KeyedTree BY DEF IInv, TreeInv
<1>2. \A i \in Places \ {1} : ParentOf(i) \in Places /\ IsParent(i, ParentOf(i)) /\ ParentOf(i) < i
  BY <1>1, ParentFound
<1>3. SubtreesAreContiguous
  BY <1>1, <1>2 DEF SubtreesAreContiguous, KeyedTree, RowsContiguous
<1>4. PagesNest
  <2> DEFINE forward == \A i, j \in Places \ {1} : i < j => nodes[i].first <= nodes[j].first
  <2>1. ASSUME NEW i \in Places \ {1}
        PROVE  /\ nodes[i].last <= nodes[ParentOf(i)].last
               /\ forward => nodes[ParentOf(i)].first <= nodes[i].first
    <3>1. nodes[i].last <= nodes[ParentOf(i)].last
      BY <1>1, <1>2, <2>1 DEF KeyedTree, EndsNest
    <3>2. CASE ParentOf(i) = 1
      <4>1. nodes[1].first = 1 BY <1>1 DEF TreeInv, RowsHaveParents
      <4>2. nodes[i].first \in Nat \ {0} BY <1>1, NodesAreSeq DEF NodeType
      <4> QED BY <3>1, <3>2, <4>1, <4>2
    <3>3. CASE ParentOf(i) # 1
      BY <1>2, <2>1, <3>1, <3>3
    <3> QED BY <3>2, <3>3
  <2> QED BY <2>1 DEF PagesNest
<1>5. StackDescends
  <2>1. \A k \in OpenSections \ {1} : k > 1 BY <1>1, NodesAreSeq DEF OpenSections
  <2> QED BY <1>1, <2>1 DEF KeyedTree, OpenSectionsNest, StackDescends
<1> QED BY <1>3, <1>4, <1>5

\* The rows of a leaf, taken in their order, are the pieces its text was cut into.
LEMMA PiecesOfLeaf ==
  ASSUME TypeOK, TreeInv, BlockKeysDiffer, NEW n \in DOMAIN raw, raw[n].kind = "leaf"
  PROVE  [k \in 1 .. Cardinality(LeafRows(n)) |-> nodes[Min(LeafRows(n)) + k - 1].content]
           = Segments(raw[n].text)
<1> DEFINE rows == LeafRows(n)
           pieces == Cut[raw[n]]
           m == Len(pieces)
<1>1. PICK f \in 0..Len(nodes) : HeldAfter(n, f) BY DEF TreeInv, LeavesHeld
<1>2. rows = f + 1 .. f + m /\ \A k \in 1..m : nodes[f + k].content = pieces[k]
  BY <1>1 DEF HeldAfter
<1>3. raw[n] \in Elements BY SeqHolds DEF TypeOK
<1>4. /\ pieces = Segments(raw[n].text) /\ m \in Nat /\ DOMAIN pieces = 1..m
      /\ pieces \in Seq(Piece)
  BY <1>3, CutIs
<1>5. f \in Nat BY NodesAreSeq
<1> HIDE DEF rows, pieces, m
<1>6. Cardinality(rows) = m
  <2> DEFINE a == f + 1
             b == f + m
  <2>2. b - a + 1 = m BY <1>4, <1>5
  <2>3. a \in Int /\ b \in Int BY <1>4, <1>5
  <2>4. a > b => m = 0 BY <1>4, <1>5
  <2> HIDE DEF a, b
  <2>5. Cardinality(a..b) = IF a > b THEN 0 ELSE b - a + 1 BY <2>3, FS_Interval
  <2>6. Cardinality(a..b) = m BY <2>2, <2>4, <2>5
  <2> QED BY <1>2, <2>6 DEF a, b
<1>7. ASSUME NEW k \in 1..m PROVE nodes[Min(rows) + k - 1].content = pieces[k]
  <2>1. /\ f + 1 \in rows /\ rows \in SUBSET Nat
        /\ \A i \in rows : f + 1 <= i
    BY <1>2, <1>4, <1>5
  <2>2. Min(rows) = f + 1
    <3>1. Min(rows) \in rows /\ \A i \in rows : Min(rows) <= i BY <2>1, MinIsIn
    <3>2. Min(rows) <= f + 1 /\ f + 1 <= Min(rows) /\ Min(rows) \in Nat BY <2>1, <3>1
    <3> QED BY <1>5, <3>2
  <2>3. Min(rows) + k - 1 = f + k BY <1>5, <2>2
  <2> QED BY <1>2, <2>3
<1>8. [k \in 1..m |-> nodes[Min(rows) + k - 1].content] = [k \in 1..m |-> pieces[k]] BY <1>7
<1>9. pieces = [k \in 1..m |-> pieces[k]] BY <1>4
<1> QED BY <1>4, <1>6, <1>8, <1>9 DEF rows

LEMMA TextIsHeld ==
  ASSUME IInv, BlockKeysDiffer
  PROVE  LeavesHoldText
<1>1. ASSUME NEW n \in DOMAIN raw, raw[n].kind = "leaf"
      PROVE  LET rows == {i \in Places : nodes[i].kind = "leaf" /\ nodes[i].element = BlockId(n)}
                 pieces == [k \in 1 .. Cardinality(rows) |-> nodes[Min(rows) + k - 1].content]
             IN CoversText(raw[n].text, pieces) /\ LimitsText(pieces)
  <2> DEFINE rows == LeafRows(n)
             pieces == [k \in 1 .. Cardinality(rows) |-> nodes[Min(rows) + k - 1].content]
             text == raw[n].text
  <2>1. pieces = Segments(text) BY <1>1, PiecesOfLeaf DEF IInv
  <2>2. text \in Seq(Nat)
    <3>1. raw[n] \in Elements BY <1>1, SeqHolds DEF IInv, TypeOK
    <3> QED BY <3>1, ElementFacts
  <2> HIDE DEF text, pieces
  <2>3. CoversText(text, pieces) /\ LimitsText(pieces) BY <2>1, <2>2, SegmentsHoldText
  <2> QED BY <2>3 DEF text, pieces, LeafRows
<1> QED BY <1>1 DEF LeavesHoldText

-----------------------------------------------------------------------------
(* What the validator finds.                                                 *)

\* A row that stands for an element, by the id the element has been given.
OwnRow(n, i) == i # 1 /\ nodes[i].element = BlockId(n)

\* Walks start from rows of the element they are about, and relations are filed there.
RowsAreOwn ==
  /\ nodes[1].element = NoId
  /\ \A w \in todo : OwnRow(w[2], w[3])
  /\ walk # <<>> => OwnRow(walk[2], walk[3])
  /\ \A r \in relations : OwnRow(r.ordinal, r.node)

\* A document is only refused for elements that share an id.
RefusedForIds == phase = "rejected" => ~BlockKeysDiffer

LEMMA RowsAreOwnOnRead ==
  ASSUME IInv, RowsAreOwn, NEW e \in Elements, Drop(e) \/ AddSection(e) \/ AddLeaf(e)
  PROVE  RowsAreOwn'
<1>1. phase = "reading" /\ UNCHANGED graph BY DEF Drop, AddSection, AddLeaf, Read, Idle
<1>2. todo' = {} /\ walk' = <<>> /\ relations' = {} BY <1>1 DEF IInv, GraphInv, graph
<1>3. nodes'[1].element = nodes[1].element
  <2>0. TypeOK /\ 1 \in Places BY NodesAreSeq DEF IInv
  <2>1. CASE Drop(e) BY <2>1 DEF Drop
  <2>2. CASE AddSection(e)
    <3>1. PICK P : Grown(e, P) BY <2>0, <2>2, SectionGrows DEF SectionAdded
    <3> QED BY <2>0, <3>1 DEF Grown, SameNode
  <2>3. CASE AddLeaf(e)
    <3>1. PICK P : Grown(e, P) BY <2>0, <2>3, LeafGrows DEF LeafAdded
    <3> QED BY <2>0, <3>1 DEF Grown, SameNode
  <2> QED BY <2>1, <2>2, <2>3
<1> QED BY <1>2, <1>3 DEF RowsAreOwn

LEMMA WalksAreOwn ==
  ASSUME IInv, RowsAreOwn, NEW w \in LinkWalks \cup RelationWalks
  PROVE  OwnRow(w[2], w[3])
<1>1. PICK n \in DOMAIN raw : w[2] = n /\ w[3] \in LinkedNodes(raw[n])
  <2>1. CASE w \in LinkWalks BY <2>1 DEF LinkWalks
  <2>2. CASE w \in RelationWalks
    <3>1. \A e : PrimaryNode(e) \subseteq LinkedNodes(e) BY DEF PrimaryNode
    <3> QED BY <2>2, <3>1 DEF RelationWalks
  <2> QED BY <2>1, <2>2
<1>2. raw[n].id # NoId /\ nodes[w[3]].element = raw[n].id BY <1>1 DEF LinkedNodes
<1>3. w[3] # 1 BY <1>2 DEF RowsAreOwn
<1> QED BY <1>1, <1>2, <1>3 DEF OwnRow, BlockId, ElementId

LEMMA RowsAreOwnStep ==
  ASSUME IInv, RowsAreOwn, [Next]_vars
  PROVE  RowsAreOwn'
<1>1. CASE \E e \in Elements : Drop(e) \/ AddSection(e) \/ AddLeaf(e) BY <1>1, RowsAreOwnOnRead
<1>2. ASSUME UNCHANGED tree
      PROVE  nodes' = nodes /\ \A n, i : OwnRow(n, i)' <=> OwnRow(n, i)
  BY <1>2 DEF tree, OwnRow, BlockId
<1>3. CASE EndDocument
  <2>1. /\ phase = "reading" /\ UNCHANGED tree /\ UNCHANGED <<walk, relations>>
        /\ todo' = LinkWalks \cup RelationWalks \/ todo' = todo
    BY <1>3 DEF EndDocument
  <2>2. \A w \in todo' : OwnRow(w[2], w[3]) BY <2>1, WalksAreOwn DEF RowsAreOwn
  <2> QED BY <1>2, <2>1, <2>2 DEF RowsAreOwn
<1>4. CASE BeginWalk BY <1>2, <1>4 DEF BeginWalk, RowsAreOwn
<1>5. CASE WalkUp \/ EndLinkWalk \/ EndRelationWalk
  <2>1. /\ UNCHANGED tree /\ UNCHANGED <<todo, relations>> /\ (walk' = walk \/ walk' = <<>>)
    BY <1>5 DEF WalkUp, EndLinkWalk, EndRelationWalk
  <2> QED BY <1>2, <2>1 DEF RowsAreOwn
<1>6. CASE AddRelation
  <2>1. UNCHANGED tree /\ walk # <<>> /\ UNCHANGED <<todo, walk>> BY <1>6 DEF AddRelation
  <2>2. relations' = relations \/ \A r \in relations' \ relations : r.ordinal = walk[2] /\ r.node = walk[3]
    BY <1>6, RelationAdded DEF RelationFiled
  <2> QED BY <1>2, <2>1, <2>2 DEF RowsAreOwn
<1>7. CASE EndGraph \/ Validate \/ UNCHANGED vars
  <2>1. UNCHANGED tree /\ UNCHANGED graph
    BY <1>7 DEF EndGraph, Validate, vars, tree, graph
  <2> QED BY <1>2, <2>1 DEF RowsAreOwn, graph
<1> QED BY <1>1, <1>3, <1>4, <1>5, <1>6, <1>7 DEF Next

\* Whatever a row names is there.
LEMMA NothingDangles ==
  ASSUME IInv, RowsAreOwn
  PROVE  TargetsExist
<1>1. TypeOK /\ TreeInv /\ GraphTypes BY TypesAre DEF IInv
<1>2. \A i \in Places \ {1} : nodes[i].element \in BlockIds
  BY <1>1 DEF TreeInv, RowsHaveParents, BlockIds
<1>3. \A i \in DOMAIN nodes \ {1} : nodes[i].parent \in NodeIds /\ nodes[i].element \in BlockIds
  <2>1. ASSUME NEW i \in Places, i # 1 PROVE nodes[i].parent \in NodeIds
    <3>1. PICK j \in Places : IsParent(i, j) BY <1>1, <2>1 DEF TreeInv, RowsHaveParents
    <3> QED BY <3>1 DEF IsParent, NodeIds, Places
  <2> QED BY <1>2, <2>1 DEF Places
<1>4. \A i \in Places : nodes[i].id \in NodeIds BY DEF NodeIds, Places
<1>5. \A l \in links : nodes[l.node].id \in NodeIds /\ l.entity \in EntitiesOf(registry)
  BY <1>1, <1>4 DEF GraphTypes
<1>6. ASSUME NEW r \in relations
      PROVE  /\ nodes[r.node].id \in NodeIds /\ BlockId(r.ordinal) \in BlockIds
             /\ {r.from, r.to} \subseteq EntitiesOf(registry)
  <2>1. r.node \in Places /\ r.from \in EntitiesOf(registry) /\ r.to \in EntitiesOf(registry)
    BY <1>1 DEF GraphTypes
  <2>2. r.node # 1 /\ nodes[r.node].element = BlockId(r.ordinal) BY DEF RowsAreOwn, OwnRow
  <2> QED BY <1>2, <1>4, <2>1, <2>2
<1> QED BY <1>3, <1>5, <1>6 DEF TargetsExist

LEMMA RefusedStep ==
  ASSUME IInv, RowsAreOwn, RefusedForIds, [Next]_vars
  PROVE  RefusedForIds'
<1>1. CASE Validate
  <2>1. UNCHANGED tree /\ phase' = IF BlockKeysDiffer /\ NodeKeysDiffer /\ TargetsExist THEN "accepted" ELSE "rejected"
    BY <1>1 DEF Validate
  <2>2. BlockKeysDiffer' <=> BlockKeysDiffer BY <2>1 DEF tree, BlockKeysDiffer, Blocks, BlockId
  <2>3. BlockKeysDiffer => NodeKeysDiffer /\ TargetsExist
    BY NothingDangles DEF IInv, TreeInv, KeyedTree
  <2> QED BY <2>1, <2>2, <2>3 DEF RefusedForIds
<1>2. CASE UNCHANGED vars
  BY <1>2 DEF RefusedForIds, vars, BlockKeysDiffer, Blocks, BlockId
<1>3. CASE Next /\ ~Validate
  <2>1. phase' # "rejected"
    BY <1>3 DEF Next, Drop, AddSection, AddLeaf, Read, Idle, EndDocument, BeginWalk, WalkUp,
         EndLinkWalk, AddRelation, EndRelationWalk, EndGraph
  <2> QED BY <2>1 DEF RefusedForIds
<1> QED BY <1>1, <1>2, <1>3

-----------------------------------------------------------------------------
(* The theorems.                                                             *)

LEMMA InvInit == Init => IInv
<1> SUFFICES ASSUME Init PROVE IInv
  OBVIOUS
<1>1. /\ raw = <<>> /\ nodes = <<Root>> /\ stack = <<>> /\ lastPage = 1 /\ phase = "reading"
      /\ registry = {} /\ todo = {} /\ walk = <<>> /\ at = 1
      /\ links = {} /\ relations = {} /\ place = 0
  BY DEF Init
<1>2. /\ Root \in NodeType /\ Root.kind = "document" /\ Root.id = RootId /\ Root.first = 1
      /\ Root.last = 1
  <2>1. <<>> \in Seq(Nat \X Nat) OBVIOUS
  <2>2. RootId \in (Nat \cup Ids) \X Nat BY DEF RootId, NodeId
  <2>3. NodeId(NoId, 0) \in (Nat \cup Ids \cup {NoId}) \X Nat BY DEF NodeId
  <2> QED BY <2>1, <2>2, <2>3 DEF Root, NodeType
<1>3. Places = {1} /\ nodes[1] = Root /\ nodes # <<>> /\ nodes \in Seq(NodeType)
  <2> HIDE DEF Root
  <2> QED BY <1>1, <1>2 DEF Places
<1>4. OpenSections = {} BY <1>1 DEF OpenSections
<1>5. TreeTypes
  <2>1. raw \in Seq(Elements) /\ Len(raw) <= MaxElements BY <1>1, BoundAssumption
  <2>2. stack \in Seq(Places) BY <1>1
  <2> QED BY <1>1, <1>3, <1>4, <2>1, <2>2 DEF TreeTypes
<1>6. GraphTypes BY <1>1, <1>3 DEF GraphTypes
<1>7. RowsHaveParents BY <1>2, <1>3 DEF RowsHaveParents
<1>8. InnermostIsLast BY <1>2, <1>3 DEF InnermostIsLast, IsSection
<1>9. MajorsAreOutermost BY <1>4 DEF MajorsAreOutermost
<1>10. KeyedTree
  BY <1>3, <1>4 DEF KeyedTree, NodeKeysDiffer, OpenSectionsNest, LeavesUnderLast, OpenHolds,
       RowsContiguous, EndsNest, Places
<1>11. GraphInv
  <2>1. Ends = {} BY <1>1 DEF Ends
  <2>2. RowsKeepTheirSection BY <1>1 DEF RowsKeepTheirSection
  <2> QED BY <1>1, <2>1, <2>2 DEF GraphInv
<1>12. LeavesHeld BY <1>1 DEF LeavesHeld
<1> QED BY <1>5, <1>6, <1>7, <1>8, <1>9, <1>10, <1>11, <1>12, TypesAre DEF IInv, TreeInv

LEMMA InvStays ==
  ASSUME IInv, UNCHANGED vars
  PROVE  IInv'
<1>1. /\ UNCHANGED tree /\ UNCHANGED graph /\ phase' = phase BY DEF vars, tree, graph
<1>2. /\ TreeTypes' /\ TreeInv' /\ Places' = Places /\ raw' = raw /\ nodes' = nodes
      /\ BlockKeysDiffer' <=> BlockKeysDiffer
      /\ \A i : IsSection(i)' <=> IsSection(i)
  BY <1>1, TreeStays DEF IInv, TypeOK
<1>3. GraphTypes' BY <1>1, <1>2, TypesAre, GraphTypesStay DEF IInv
<1>4. GraphInv'
  <2>1. /\ registry' = registry /\ links' = links /\ relations' = relations /\ walk' = walk
        /\ todo' = todo /\ at' = at /\ place' = place
    BY <1>1 DEF graph
  <2>2. Ends' = Ends
    <3>1. \A r : EndsOf(r)' = EndsOf(r) BY <1>2 DEF EndsOf
    <3> QED BY <2>1, <3>1 DEF Ends
  <2>3. RowsKeepTheirSection' <=> RowsKeepTheirSection BY <1>2, <2>1 DEF RowsKeepTheirSection
  <2> QED BY <1>1, <1>2, <2>1, <2>2, <2>3 DEF IInv, GraphInv
<1> QED BY <1>2, <1>3, <1>4, TypesAre, PTL DEF IInv

\* What is built of any document, and what is known of it while it is built,
\* keeps its shape.
THEOREM Invariance == Spec => []IInv
<1>1. IInv /\ [Next]_vars => IInv'
  <2> SUFFICES ASSUME IInv, [Next]_vars PROVE IInv'
    OBVIOUS
  <2>1. CASE \E e \in Elements : Drop(e) \/ AddSection(e) \/ AddLeaf(e) BY <2>1, ReadKeepsInv
  <2>2. CASE EndDocument BY <2>2, EndDocumentKeepsInv
  <2>3. CASE BeginWalk BY <2>3, BeginWalkKeepsInv
  <2>4. CASE WalkUp BY <2>4, WalkUpKeepsInv
  <2>5. CASE EndLinkWalk BY <2>5, EndLinkWalkKeepsInv
  <2>6. CASE AddRelation BY <2>6, AddRelationKeepsInv
  <2>7. CASE EndRelationWalk BY <2>7, EndRelationWalkKeepsInv
  <2>8. CASE EndGraph \/ Validate BY <2>8, EndGraphKeepsInv
  <2>9. CASE UNCHANGED vars BY <2>9, InvStays
  <2> QED BY <2>1, <2>2, <2>3, <2>4, <2>5, <2>6, <2>7, <2>8, <2>9 DEF Next
<1> QED BY <1>1, InvInit, PTL DEF Spec

\* The types: the stack holds sections in the order they were read, every row of
\* the graph names a node and entities that exist, and a walk climbs within the tree.
THEOREM TypesHold == Spec => []TypeOK
<1>1. IInv => TypeOK BY DEF IInv
<1> QED BY <1>1, Invariance, PTL

\* A name that ends several relations stands for one entity, with the exceptions
\* that NamesKeepTheirEntity states: for any names, types and normal forms.
THEOREM NamesAreKept == Spec => NamesKeepTheirEntity
<1>1. ASSUME IInv, [Next]_vars
      PROVE  /\ registry \subseteq registry'
             /\ \A x \in Ends, y \in Ends' \ Ends :
                  x.name = y.name =>
                    \/ y.entity = x.entity
                    \/ {y.entity} = EntityFor(y.name, Guess[y.name])
                    \/ x.entity \notin Spelled(registry, x.name) /\ y.entity \in Spelled(registry', y.name)
  <2>1. CASE AddRelation
    <3> DEFINE r == Stated[place + 1]
               between == After(registry, r.from)
    <3>1. /\ r = raw[walk[2]].relations[place + 1] /\ r.from \in Names /\ r.to \in Names
          /\ UNCHANGED <<registry, relations>> \/ RelationFiled(r)
      BY <1>1, <2>1, RelationAdded
    <3> HIDE DEF r
    <3>2. raw' = raw BY <2>1 DEF AddRelation, tree
    <3>3. \A row : EndsOf(row)' = EndsOf(row) BY <3>2 DEF EndsOf
    <3>4. CASE UNCHANGED <<registry, relations>>
      <4>1. Ends' = Ends BY <3>3, <3>4 DEF Ends
      <4> QED BY <3>4, <4>1
    <3>5. CASE RelationFiled(r)
      <4>1. registry \subseteq Names \X Entities BY <1>1, TypesAre DEF IInv, GraphTypes
      <4>2. registry \subseteq registry'
        <5> DEFINE f == r.from
                   t == r.to
                   b == After(registry, f)
        <5>1. f \in Names /\ t \in Names BY <3>1
        <5>2. registry' = After(b, t) BY <3>5 DEF RelationFiled
        <5> HIDE DEF f, t
        <5>3. b \subseteq Names \X Entities /\ registry \subseteq b BY <4>1, <5>1, EndIsCalled
        <5> HIDE DEF b
        <5>4. b \subseteq After(b, t) BY <5>1, <5>3, EndIsCalled
        <5> QED BY <5>2, <5>3, <5>4
      <4>3. ASSUME NEW x \in Ends, NEW y \in Ends' \ Ends, x.name = y.name
            PROVE  \/ y.entity = x.entity
                   \/ {y.entity} = EntityFor(y.name, Guess[y.name])
                   \/ x.entity \notin Spelled(registry, x.name) /\ y.entity \in Spelled(registry', y.name)
        <5>1. PICK row \in relations' : y \in EndsOf(row)' BY <4>3 DEF Ends
        <5>2. row \notin relations BY <3>3, <4>3, <5>1 DEF Ends
        <5>3. /\ registry \subseteq between /\ between \subseteq registry'
              /\ between \subseteq Names \X Entities
              /\ \/ y.name = r.from /\ y.entity \in EndOf(registry, r.from)
                 \/ y.name = r.to /\ y.entity \in EndOf(between, r.to)
          BY <1>1, <3>1, <3>2, <3>5, <5>1, <5>2, EndsOfRow
        <5> HIDE DEF between
        <5> DEFINE n == y.name
                   xe == x.entity
                   ye == y.entity
        <5>4. xe \in Called(registry, LookupKeys(n)) BY <1>1, <4>3 DEF IInv, GraphInv
        <5>5. n \in Names BY <3>1, <5>3
        <5>6. \E R : /\ registry \subseteq R /\ R \subseteq registry' /\ R \subseteq Names \X Entities
                     /\ ye \in EndOf(R, n)
          BY <4>1, <4>2, <5>3
        <5>7. PICK R : /\ registry \subseteq R /\ R \subseteq registry' /\ R \subseteq Names \X Entities
                       /\ ye \in EndOf(R, n)
          BY <5>6
        <5>10. x.name = n BY <4>3
        <5> HIDE DEF n, xe, ye
        <5>8. xe \in Called(R, LookupKeys(n)) BY <5>4, <5>7, CalledGrows
        <5>9. /\ Spelled(registry, n) \subseteq Spelled(R, n)
              /\ Spelled(R, n) \subseteq Spelled(registry', n)
          BY <5>7, CalledGrows DEF Spelled
        <5>11. \/ ye = xe
               \/ {ye} = EntityFor(n, Guess[n])
               \/ xe \notin Spelled(R, n) /\ ye \in Spelled(R, n)
          BY <5>5, <5>7, <5>8, EndAgrees
        <5>12. \/ ye = xe
               \/ {ye} = EntityFor(n, Guess[n])
               \/ xe \notin Spelled(registry, n) /\ ye \in Spelled(registry', n)
          BY <5>9, <5>11
        <5> QED BY <5>10, <5>12 DEF n, xe, ye
      <4> QED BY <4>2, <4>3
    <3> QED BY <3>1, <3>4, <3>5
  <2>2. CASE \/ BeginWalk \/ WalkUp \/ EndLinkWalk \/ EndRelationWalk \/ EndGraph \/ Validate
             \/ UNCHANGED vars
    <3>1. registry' = registry /\ relations' = relations /\ raw' = raw
      BY <2>2 DEF BeginWalk, WalkUp, EndLinkWalk, EndRelationWalk, EndGraph, Validate, vars, tree, graph
    <3>2. \A row : EndsOf(row)' = EndsOf(row) BY <3>1 DEF EndsOf
    <3>3. Ends' = Ends BY <3>1, <3>2 DEF Ends
    <3> QED BY <3>1, <3>3
  <2>3. CASE EndDocument \/ \E e \in Elements : Drop(e) \/ AddSection(e) \/ AddLeaf(e)
    <3>1. phase = "reading" /\ relations' = relations
      BY <2>3 DEF EndDocument, Drop, AddSection, AddLeaf, Read, Idle, graph
    <3>2. registry = {} /\ relations = {} BY <1>1, <3>1 DEF IInv, GraphInv
    <3>3. Ends' = {} BY <3>1, <3>2 DEF Ends
    <3> QED BY <3>2, <3>3
  <2> QED BY <1>1, <2>1, <2>2, <2>3 DEF Next
<1> QED BY <1>1, Invariance, PTL DEF Spec, NamesKeepTheirEntity


\* The rows mirror the document whatever is read, in whatever order: while it is
\* read no chapter lies inside a smaller heading and the open sections descend; and
\* of a document whose element ids differ, subtrees are contiguous, pages nest,
\* every leaf's rows hold its text, for any text and limit, and links and relations
\* are filed under the section that was open where they were stated.
THEOREM RowsMirror == Spec => []RowsMirrorDocument
<1>1. IInv => RowsMirrorDocument
  <2> SUFFICES ASSUME IInv PROVE RowsMirrorDocument
    OBVIOUS
  <2>1. MajorsAreOutermost BY DEF IInv, TreeInv
  <2>2. BlockKeysDiffer => SubtreesAreContiguous /\ PagesNest /\ StackDescends BY RowsNest
  <2>3. BlockKeysDiffer => LeavesHoldText BY TextIsHeld
  <2>4. BlockKeysDiffer => RowsKeepTheirSection BY DEF IInv, GraphInv
  <2> QED BY <2>1, <2>2, <2>3, <2>4 DEF RowsMirrorDocument
<1> QED BY <1>1, Invariance, PTL


\* The validator never refuses what the builders made of elements with different ids,
\* segments, fallback ids, parents and relations included: the half of BuildSucceeds
\* that needs no fairness.
THEOREM NothingRefused == Spec => [](phase = "rejected" => ~BlockKeysDiffer)
<1>1. Init => RowsAreOwn /\ RefusedForIds
  <2> SUFFICES ASSUME Init PROVE RowsAreOwn /\ RefusedForIds
    OBVIOUS
  <2>1. /\ nodes = <<Root>> /\ phase = "reading" /\ todo = {} /\ walk = <<>> /\ relations = {}
    BY DEF Init
  <2>2. nodes[1].element = NoId BY <2>1 DEF Root
  <2> QED BY <2>1, <2>2 DEF RowsAreOwn, RefusedForIds
<1>2. IInv /\ RowsAreOwn /\ RefusedForIds /\ [Next]_vars => RowsAreOwn' /\ RefusedForIds'
  BY RowsAreOwnStep, RefusedStep
<1>3. RefusedForIds => (phase = "rejected" => ~BlockKeysDiffer) BY DEF RefusedForIds
<1> QED BY <1>1, <1>2, <1>3, Invariance, PTL DEF Spec

\* Each step of a climb goes to an earlier row, so that the climb ends: the other
\* half, in elements with different ids.
THEOREM ClimbsComeUp == Spec => [][WalkUp => at' < at \/ ~BlockKeysDiffer]_vars
<1>1. ASSUME IInv, WalkUp, BlockKeysDiffer PROVE at' < at
  <2>1. TypeOK /\ TreeInv /\ at \in Places /\ nodes[at].kind = "leaf" /\ at' = NodeNamed(nodes[at].parent)
    BY <1>1, TypesAre DEF IInv, GraphTypes, WalkUp
  <2>2. at # 1 BY <2>1 DEF TreeInv, RowsHaveParents
  <2> QED BY <1>1, <2>1, <2>2, ParentFound DEF ParentOf
<1>2. IInv /\ [Next]_vars => [WalkUp => at' < at \/ ~BlockKeysDiffer]_vars BY <1>1
<1> QED BY <1>2, Invariance, PTL DEF Spec
=============================================================================
