------------------------ MODULE DocumentParsingProofs ------------------------
(***************************************************************************)
(* Proofs about DocumentParsing, for every number of uploads and threads and  *)
(* all outputs of the service: the types, that a document is submitted once,  *)
(* what the manifest and a generation say of the service's output, and that   *)
(* row ids grow with the documents.                                          *)
(***************************************************************************)
EXTENDS DocumentParsing, FiniteSetTheorems, WellFoundedInduction, TLAPS

-----------------------------------------------------------------------------
(* Sums over finite sets: what MapThenSumSet computes.                       *)

\* A nonempty set of numbers has a least one.
LEMMA LeastNumber ==
  ASSUME NEW S, S \subseteq Nat, S # {}
  PROVE  \E m \in S : \A n \in S : m <= n
<1> DEFINE R == {ss \in Nat \X Nat : ss[1] < ss[2]}
<1>0. IsWellFoundedOn(R, Nat)
  BY NatLessThanWellFounded DEF OpToRel
<1>1. PICK m \in S : \A n \in S : ~ (<<n, m>> \in R)
  BY <1>0, WFMin
<1>2. ASSUME NEW n \in S PROVE m <= n
  <2>1. n \in Nat /\ m \in Nat
    OBVIOUS
  <2>2. <<n, m>> \in R <=> n < m
    BY <2>1
  <2>3. QED
    BY <1>1, <2>1, <2>2
<1>3. QED
  BY <1>2

\* Among subsets of a finite set there is one none of which is left when an element
\* is taken from it.
LEMMA SmallestSubset ==
  ASSUME NEW U, IsFiniteSet(U), NEW B, B \subseteq SUBSET U, B # {}
  PROVE  \E s \in B : \A x \in s : s \ {x} \notin B
<1>1. \A s \in B : IsFiniteSet(s) /\ Cardinality(s) \in Nat
  BY FS_Subset, FS_CardinalityType
<1> DEFINE sizes == {Cardinality(s) : s \in B}
<1>2. sizes \subseteq Nat /\ sizes # {}
  BY <1>1
<1>3. PICK m \in sizes : \A n \in sizes : m <= n
  <2> HIDE DEF sizes
  <2> QED BY <1>2, LeastNumber
<1>4. PICK s \in B : Cardinality(s) = m
  OBVIOUS
<1>5. ASSUME NEW x \in s, s \ {x} \in B PROVE FALSE
  <2>1. Cardinality(s \ {x}) = Cardinality(s) - 1
    BY <1>1, FS_RemoveElement
  <2>2. Cardinality(s) <= Cardinality(s \ {x})
    BY <1>3, <1>4, <1>5
  <2>3. QED
    BY <1>1, <2>1, <2>2
<1>6. QED
  BY <1>5

Pick(s) == CHOOSE x \in s : TRUE

\* g[s] is the sum of the counts of the records c over s, in the order of Pick.
Sums(c, g, U) ==
  g = [s \in SUBSET U |-> IF s = {} THEN 0 ELSE c[Pick(s)].count + g[s \ {Pick(s)}]]

LEMMA PickedIsIn ==
  ASSUME NEW s, s # {}
  PROVE  Pick(s) \in s
BY DEF Pick

\* There are such sums.
LEMMA SumsExist ==
  ASSUME NEW U, IsFiniteSet(U), NEW c
  PROVE  \E g : Sums(c, g, U)
<1> DEFINE Small(k) == {s \in SUBSET U : Cardinality(s) <= k}
           SumsTo(g, k) ==
             g = [s \in Small(k) |-> IF s = {} THEN 0 ELSE c[Pick(s)].count + g[s \ {Pick(s)}]]
           Missing == {k \in Nat : ~ \E g : SumsTo(g, k)}
<1>1. \A s \in SUBSET U : IsFiniteSet(s) /\ Cardinality(s) \in Nat
  BY FS_Subset, FS_CardinalityType
<1>2. \E g : SumsTo(g, 0)
  <2> DEFINE g == [s \in Small(0) |-> 0]
  <2>1. \A s \in Small(0) : s = {}
    BY <1>1, FS_EmptySet
  <2>2. SumsTo(g, 0)
    BY <2>1
  <2>3. QED
    BY <2>2
<1>3. ASSUME NEW k \in Nat, NEW g, SumsTo(g, k) PROVE \E h : SumsTo(h, k + 1)
  <2> DEFINE h == [s \in Small(k + 1) |-> IF s = {} THEN 0 ELSE c[Pick(s)].count + g[s \ {Pick(s)}]]
  <2>1. ASSUME NEW s \in Small(k + 1), s # {} PROVE s \ {Pick(s)} \in Small(k)
    <3>1. Pick(s) \in s /\ s \in SUBSET U /\ Cardinality(s) <= k + 1
      BY <2>1, PickedIsIn
    <3>2. Cardinality(s \ {Pick(s)}) = Cardinality(s) - 1
      BY <1>1, <3>1, FS_RemoveElement
    <3>3. QED
      BY <1>1, <3>1, <3>2
  <2>2. \A t \in Small(k) : t \in Small(k + 1)
    BY <1>1
  <2>3. \A t \in Small(k) : h[t] = g[t]
    <3>1. \A t \in Small(k) : g[t] = IF t = {} THEN 0 ELSE c[Pick(t)].count + g[t \ {Pick(t)}]
      <4> HIDE DEF Small
      <4> QED BY <1>3
    <3> HIDE DEF Small
    <3>2. QED
      BY <2>2, <3>1
  <2>4. SumsTo(h, k + 1)
    <3> HIDE DEF Small
    <3> QED BY <2>1, <2>3
  <2>5. QED
    BY <2>4
<1>4. Missing = {}
  <2> SUFFICES ASSUME Missing # {} PROVE FALSE
    OBVIOUS
  <2> HIDE DEF SumsTo
  <2>1. Missing \subseteq Nat
    OBVIOUS
  <2>2. PICK m \in Missing : \A n \in Missing : m <= n
    <3> HIDE DEF Missing
    <3> QED BY <2>1, LeastNumber
  <2>3. m # 0
    BY <1>2
  <2>4. m - 1 \in Nat /\ m - 1 \notin Missing
    BY <2>2, <2>3
  <2>5. \E h : SumsTo(h, (m - 1) + 1)
    BY <1>3, <2>4
  <2>6. (m - 1) + 1 = m
    BY <2>1
  <2>7. \E h : SumsTo(h, m)
    BY <2>5, <2>6
  <2>8. QED
    BY <2>7
<1>5. PICK g : SumsTo(g, Cardinality(U))
  BY <1>1, <1>4
<1>6. Small(Cardinality(U)) = SUBSET U
  BY FS_Subset, FS_CardinalityType
<1>7. Sums(c, g, U)
  <2> HIDE DEF Small
  <2> QED BY <1>5, <1>6 DEF Sums
<1>8. QED
  BY <1>7

\* One turn of the sum.
LEMMA SumTurn ==
  ASSUME NEW U, NEW c, NEW g, Sums(c, g, U), NEW s \in SUBSET U
  PROVE  g[s] = IF s = {} THEN 0 ELSE c[Pick(s)].count + g[s \ {Pick(s)}]
BY DEF Sums

\* Sums over subsets do not depend on the set they are taken from.
LEMMA SumsAgree ==
  ASSUME NEW U, IsFiniteSet(U), NEW V \in SUBSET U, NEW c, NEW g, NEW h,
         Sums(c, g, U), Sums(c, h, V), NEW s \in SUBSET V
  PROVE  g[s] = h[s]
<1> DEFINE B == {t \in SUBSET V : g[t] # h[t]}
<1> SUFFICES ASSUME B # {} PROVE FALSE
  OBVIOUS
<1>1. PICK t \in B : \A x \in t : t \ {x} \notin B
  <2>1. B \subseteq SUBSET U
    OBVIOUS
  <2> HIDE DEF B
  <2>2. QED
    BY <2>1, SmallestSubset
<1>2. g[t] = IF t = {} THEN 0 ELSE c[Pick(t)].count + g[t \ {Pick(t)}]
  BY SumTurn
<1>3. h[t] = IF t = {} THEN 0 ELSE c[Pick(t)].count + h[t \ {Pick(t)}]
  BY SumTurn
<1>4. t # {} => g[t \ {Pick(t)}] = h[t \ {Pick(t)}]
  BY <1>1, PickedIsIn
<1>5. QED
  BY <1>1, <1>2, <1>3, <1>4

\* A sum of numbers is a number, and any element may be taken out first.
LEMMA SumSplits ==
  ASSUME NEW U, IsFiniteSet(U), NEW c, \A x \in U : c[x].count \in Nat, NEW g, Sums(c, g, U)
  PROVE  /\ \A s \in SUBSET U : g[s] \in Nat
         /\ \A s \in SUBSET U : \A x \in s : g[s] = c[x].count + g[s \ {x}]
<1>1. \A s \in SUBSET U : g[s] \in Nat
  <2> DEFINE B == {s \in SUBSET U : g[s] \notin Nat}
  <2> SUFFICES ASSUME B # {} PROVE FALSE
    OBVIOUS
  <2>1. PICK s \in B : \A x \in s : s \ {x} \notin B
    <3>1. B \subseteq SUBSET U
      OBVIOUS
    <3> HIDE DEF B
    <3>2. QED
      BY <3>1, SmallestSubset
  <2>2. g[s] = IF s = {} THEN 0 ELSE c[Pick(s)].count + g[s \ {Pick(s)}]
    BY SumTurn
  <2>3. s # {} => c[Pick(s)].count \in Nat /\ g[s \ {Pick(s)}] \in Nat
    BY <2>1, PickedIsIn
  <2>4. QED
    BY <2>1, <2>2, <2>3
<1>2. \A s \in SUBSET U : \A x \in s : g[s] = c[x].count + g[s \ {x}]
  <2> DEFINE Splits(s, x) == g[s] = c[x].count + g[s \ {x}]
             B == {s \in SUBSET U : \E x \in s : ~Splits(s, x)}
  <2> SUFFICES ASSUME B # {} PROVE FALSE
    OBVIOUS
  <2>1. PICK s \in B : \A x \in s : s \ {x} \notin B
    <3>1. B \subseteq SUBSET U
      OBVIOUS
    <3> HIDE DEF B
    <3>2. QED
      BY <3>1, SmallestSubset
  <2>2. PICK x \in s : ~Splits(s, x)
    BY <2>1
  <2> DEFINE y == Pick(s)
  <2>3. y \in s /\ Splits(s, y)
    BY <2>2, PickedIsIn, SumTurn
  <2>4. y # x
    BY <2>2, <2>3
  <2> HIDE DEF y
  <2>5. Splits(s \ {y}, x) /\ Splits(s \ {x}, y)
    <3>1. \A z \in s : s \ {z} \in SUBSET U /\ s \ {z} \notin B
      BY <2>1
    <3>2. x \in s \ {y} /\ y \in s \ {x} /\ x \in s /\ y \in s
      BY <2>2, <2>3, <2>4
    <3> HIDE DEF Splits
    <3>3. QED
      BY <3>1, <3>2
  <2>6. (s \ {y}) \ {x} = (s \ {x}) \ {y}
    OBVIOUS
  <2>7. /\ c[x].count \in Nat /\ c[y].count \in Nat
        /\ g[(s \ {x}) \ {y}] \in Nat
    BY <1>1, <2>1, <2>2, <2>3
  <2>8. Splits(s, x)
    <3> DEFINE rest == g[(s \ {x}) \ {y}]
    <3>1. g[s] = c[y].count + g[s \ {y}] /\ g[s \ {x}] = c[y].count + rest
      BY <2>3, <2>5
    <3>2. g[s \ {y}] = c[x].count + rest
      BY <2>5, <2>6
    <3> HIDE DEF rest
    <3>3. g[s] = c[x].count + (c[y].count + rest)
      BY <2>7, <3>1, <3>2 DEF rest
    <3>4. QED
      BY <3>1, <3>3
  <2>9. QED
    BY <2>2, <2>8
<1>3. QED
  BY <1>1, <1>2

-----------------------------------------------------------------------------
(* Offsets of row ids.                                                       *)

Earlier(d) == {e \in Docs : e < d}
OffsetIn(records, d) == (CHOOSE g : Sums(records, g, Earlier(d)))[Earlier(d)]

\* The offset of a document is a sum over the records of the manifest.
LEMMA OffsetIsSum ==
  ASSUME NEW d
  PROVE  Offset(d) = OffsetIn(manifest.doc, d)
BY DEF Offset, MapThenSumSet, MapThenFoldSet, Sums, Pick, Count, OffsetIn, Earlier

\* The offset of a document is a number; that of a later document leaves room for all
\* elements of the earlier one.
LEMMA OffsetsGrow ==
  ASSUME NEW records \in [Docs -> Record], NEW d \in Docs
  PROVE  /\ OffsetIn(records, d) \in Nat
         /\ \A e \in Docs : d < e =>
              OffsetIn(records, d) + records[d].count <= OffsetIn(records, e)
<1>1. IsFiniteSet(Docs)
  BY SizeAssumption, FS_Interval DEF Docs
<1>2. \A e \in Docs : records[e].count \in Nat
  BY DEF Record
<1>3. PICK g : Sums(records, g, Docs)
  BY <1>1, SumsExist
<1>4. ASSUME NEW e \in Docs PROVE OffsetIn(records, e) = g[Earlier(e)] /\ g[Earlier(e)] \in Nat
  <2>1. IsFiniteSet(Earlier(e)) /\ Earlier(e) \in SUBSET Docs
    BY <1>1, FS_Subset DEF Earlier
  <2> DEFINE h == CHOOSE f : Sums(records, f, Earlier(e))
  <2>2. Sums(records, h, Earlier(e))
    BY <2>1, SumsExist
  <2> HIDE DEF h
  <2>3. g[Earlier(e)] = h[Earlier(e)]
    BY <1>1, <1>3, <2>1, <2>2, SumsAgree
  <2>4. g[Earlier(e)] \in Nat
    BY <1>1, <1>2, <1>3, <2>1, SumSplits
  <2>5. QED
    BY <2>3, <2>4 DEF OffsetIn, h
<1>5. ASSUME NEW e \in Docs, e + 1 \in Docs
      PROVE  OffsetIn(records, e + 1) = OffsetIn(records, e) + records[e].count
  <2>1. e \in Earlier(e + 1) /\ Earlier(e + 1) \ {e} = Earlier(e) /\ Earlier(e + 1) \in SUBSET Docs
    BY <1>5 DEF Earlier, Docs
  <2>2. g[Earlier(e + 1)] = records[e].count + g[Earlier(e + 1) \ {e}]
    BY <1>1, <1>2, <1>3, <2>1, SumSplits
  <2>3. /\ OffsetIn(records, e + 1) = g[Earlier(e + 1)]
        /\ OffsetIn(records, e) = g[Earlier(e)] /\ g[Earlier(e)] \in Nat
    BY <1>4, <1>5
  <2>4. g[Earlier(e + 1)] = records[e].count + g[Earlier(e)]
    BY <2>1, <2>2
  <2>5. records[e].count \in Nat
    BY <1>2
  <2> HIDE DEF Docs
  <2>6. QED
    BY <2>3, <2>4, <2>5
<1> DEFINE Tight == {e \in Docs : d < e /\ OffsetIn(records, d) + records[d].count > OffsetIn(records, e)}
<1>6. Tight = {}
  <2> SUFFICES ASSUME Tight # {} PROVE FALSE
    OBVIOUS
  <2>1. Tight \subseteq Nat
    BY DEF Docs
  <2>2. PICK e \in Tight : \A f \in Tight : e <= f
    <3> HIDE DEF Tight
    <3> QED BY <2>1, LeastNumber
  <2>3. e \in Docs /\ d \in Docs /\ e \in Nat /\ d \in Nat /\ d < e
    BY DEF Docs
  <2>4. e - 1 \in Docs /\ e - 1 \in Nat /\ (e - 1) + 1 = e /\ e - 1 \notin Tight
    <3>1. e - 1 \in Docs /\ e - 1 \in Nat /\ (e - 1) + 1 = e
      BY <2>3, SizeAssumption DEF Docs
    <3>2. ~ (e <= e - 1)
      BY <2>3
    <3>3. QED
      BY <2>2, <3>1, <3>2
  <2>5. OffsetIn(records, e) = OffsetIn(records, e - 1) + records[e - 1].count
    BY <1>5, <2>3, <2>4
  <2>6. /\ OffsetIn(records, d) \in Nat /\ OffsetIn(records, e - 1) \in Nat
        /\ records[d].count \in Nat /\ records[e - 1].count \in Nat
    BY <1>2, <1>4, <2>4
  <2>7. CASE e - 1 = d
    BY <2>2, <2>5, <2>6, <2>7
  <2>8. CASE d < e - 1
    <3>1. OffsetIn(records, d) + records[d].count <= OffsetIn(records, e - 1)
      BY <2>4, <2>6, <2>8
    <3>2. QED
      BY <2>2, <2>5, <2>6, <3>1
  <2>9. QED
    BY <2>3, <2>7, <2>8
<1>7. QED
  BY <1>2, <1>4, <1>6

-----------------------------------------------------------------------------
(* Parsing.                                                                  *)

\* The types of what the parsing run and the service keep.
ParseTyped ==
  /\ stage \in {"idle", "parsing", "raising", "raised", "ended", "died"}
  /\ source \subseteq Docs
  /\ task \in [Docs -> TaskType]
  /\ result \in [Docs -> {"pending", "success", "failed"}]
  /\ service \in [Docs -> ServiceType]
  /\ raw \in [Docs -> Payloads \cup {None}]

\* The service has accepted a document at most once, and not before its thread has sent it.
SubmittedOnce ==
  \A d \in Docs :
    /\ service[d].accepted <= 1
    /\ task[d].at \in {"queued", "submit"} => service[d].accepted = 0

\* A completed job has an output.
OutputsAreThere ==
  \A d \in Docs : service[d].state = "completed" => service[d].output \in Payloads

\* A thread downloads the output of a completed job only, and what it has stored is that
\* output until the run has ended.
OutputsAreStored ==
  \A d \in Docs :
    /\ task[d].at = "download" => service[d].state = "completed"
    /\ task[d].at = "returned" => service[d].state = "completed"
    /\ task[d].at = "returned" /\ stage # "ended" => raw[d] = service[d].output

\* Only threads that returned are recorded as successes.
SuccessesReturned == \A d \in Docs : result[d] = "success" => task[d].at = "returned"

\* Only a missing upload makes the run raise.
RaisedForSource == stage \in {"raising", "raised"} => source # Docs

Parsing ==
  /\ ParseTyped
  /\ SubmittedOnce /\ OutputsAreThere /\ OutputsAreStored /\ SuccessesReturned /\ RaisedForSource

\* A step of one thread.
Step(d) ==
  \/ \E fits \in BOOLEAN : TakeUp(d, fits)
  \/ \E answer \in Answers : Submit(d, answer)
  \/ \E answers \in BOOLEAN : Poll(d, answers)

\* What a thread does before it downloads: only its own task moves on, and the service
\* hears of a document when it is submitted, for the first time.
LEMMA ThreadMoves ==
  ASSUME ParseTyped, NEW d \in Docs, Step(d)
  PROVE  \E t \in TaskType :
           /\ task' = [task EXCEPT ![d] = t]
           /\ t.at # "queued" /\ t.at # "returned"
           /\ \/ service' = service
              \/ service' = [service EXCEPT ![d].accepted = @ + 1, ![d].state = "running"]
                   /\ task[d].at = "submit" /\ t.at # "submit"
           /\ task[d].at \in {"queued", "submit", "wait"}
           /\ t.at = "submit" => task[d].at \in {"queued", "submit"}
           /\ t.at = "download" => task[d].at = "wait" /\ service[d].state = "completed"
           /\ UNCHANGED <<stage, source, result, raw, manifest, gen>>
<1> DEFINE go(w) == [task[d] EXCEPT !.at = w]
<1>0. task[d] \in TaskType /\ task \in [Docs -> TaskType]
  BY DEF ParseTyped
<1>1. ASSUME NEW w \in {"submit", "wait", "download", "raised"}
      PROVE  go(w) \in TaskType /\ go(w).at = w
  BY <1>0, <1>1 DEF TaskType
<1>2. ASSUME NEW w, Go(d, w) PROVE task' = [task EXCEPT ![d] = go(w)]
  BY <1>0, <1>2 DEF Go
<1>3. ASSUME NEW fits \in BOOLEAN, TakeUp(d, fits)
      PROVE  \E w \in {"submit", "raised"} :
               /\ Go(d, w) /\ task[d].at = "queued"
               /\ UNCHANGED <<stage, source, result, service, raw, manifest, gen>>
  BY <1>3 DEF TakeUp, At, Raise
<1>4. ASSUME NEW answer \in Answers, Submit(d, answer)
      PROVE  /\ task[d].at = "submit"
             /\ UNCHANGED <<stage, source, result, raw, manifest, gen>>
             /\ \/ Accept(d) /\ \E w \in {"wait", "raised"} : Go(d, w)
                \/ service' = service /\ Go(d, "raised")
                \/ /\ service' = service
                   /\ task[d].tries + 1 < MaxAttempts
                   /\ task' = [task EXCEPT ![d].tries = @ + 1]
  BY <1>4 DEF Submit, At, Raise, Answers
<1>5. ASSUME NEW answers \in BOOLEAN, Poll(d, answers)
      PROVE  /\ task[d].at = "wait"
             /\ UNCHANGED <<stage, source, result, service, raw, manifest, gen>>
             /\ \/ Go(d, "download") /\ service[d].state = "completed"
                \/ task[d].polls + 1 < MaxPolls /\ task' = [task EXCEPT ![d].polls = @ + 1]
                \/ Go(d, "raised")
  BY <1>5 DEF Poll, At, Raise
<1>6. CASE \E fits \in BOOLEAN : TakeUp(d, fits)
  <2>1. PICK w \in {"submit", "raised"} :
               /\ Go(d, w) /\ task[d].at = "queued"
               /\ UNCHANGED <<stage, source, result, service, raw, manifest, gen>>
    BY <1>3, <1>6
  <2>2. task' = [task EXCEPT ![d] = go(w)] /\ go(w) \in TaskType /\ go(w).at = w
    BY <1>1, <1>2, <2>1
  <2> HIDE DEF go
  <2>3. QED
    BY <2>1, <2>2
<1>7. CASE \E answer \in Answers : Submit(d, answer)
  <2>1. /\ task[d].at = "submit"
        /\ UNCHANGED <<stage, source, result, raw, manifest, gen>>
    BY <1>4, <1>7
  <2>2. ASSUME Accept(d), NEW w \in {"wait", "raised"}, Go(d, w)
        PROVE  /\ task' = [task EXCEPT ![d] = go(w)] /\ go(w) \in TaskType /\ go(w).at = w
               /\ service' = [service EXCEPT ![d].accepted = @ + 1, ![d].state = "running"]
    BY <1>1, <1>2, <2>2 DEF Accept
  <2>3. ASSUME Go(d, "raised")
        PROVE  task' = [task EXCEPT ![d] = go("raised")] /\ go("raised") \in TaskType
               /\ go("raised").at = "raised"
    BY <1>1, <1>2, <2>3
  <2>4. ASSUME task[d].tries + 1 < MaxAttempts, task' = [task EXCEPT ![d].tries = @ + 1]
        PROVE  \E t \in TaskType : task' = [task EXCEPT ![d] = t] /\ t.at = task[d].at
    <3> DEFINE t == [task[d] EXCEPT !.tries = task[d].tries + 1]
    <3>1. task[d].tries + 1 \in 0..MaxAttempts
      BY <1>0, <2>4, LimitAssumption DEF TaskType
    <3>2. t \in TaskType /\ t.at = task[d].at
      BY <1>0, <3>1 DEF TaskType
    <3>3. task' = [task EXCEPT ![d] = t]
      BY <1>0, <2>4
    <3> HIDE DEF t
    <3>4. QED
      BY <3>2, <3>3
  <2>5. \/ Accept(d) /\ \E w \in {"wait", "raised"} : Go(d, w)
        \/ service' = service /\ Go(d, "raised")
        \/ service' = service /\ task[d].tries + 1 < MaxAttempts
             /\ task' = [task EXCEPT ![d].tries = @ + 1]
    BY <1>4, <1>7
  <2> HIDE DEF go
  <2>6. CASE Accept(d) /\ \E w \in {"wait", "raised"} : Go(d, w)
    BY <2>1, <2>2, <2>6
  <2>7. CASE service' = service /\ Go(d, "raised")
    BY <2>1, <2>3, <2>7
  <2>8. CASE service' = service /\ task[d].tries + 1 < MaxAttempts
             /\ task' = [task EXCEPT ![d].tries = @ + 1]
    BY <2>1, <2>4, <2>8
  <2>9. QED
    BY <2>5, <2>6, <2>7, <2>8
<1>8. CASE \E answers \in BOOLEAN : Poll(d, answers)
  <2>1. /\ task[d].at = "wait"
        /\ UNCHANGED <<stage, source, result, service, raw, manifest, gen>>
        /\ \/ Go(d, "download") /\ service[d].state = "completed"
           \/ task[d].polls + 1 < MaxPolls /\ task' = [task EXCEPT ![d].polls = @ + 1]
           \/ Go(d, "raised")
    BY <1>5, <1>8
  <2>2. ASSUME NEW w \in {"download", "raised"}, Go(d, w)
        PROVE  task' = [task EXCEPT ![d] = go(w)] /\ go(w) \in TaskType /\ go(w).at = w
    BY <1>1, <1>2, <2>2
  <2>3. ASSUME task[d].polls + 1 < MaxPolls, task' = [task EXCEPT ![d].polls = @ + 1]
        PROVE  \E t \in TaskType : task' = [task EXCEPT ![d] = t] /\ t.at = task[d].at
    <3> DEFINE t == [task[d] EXCEPT !.polls = task[d].polls + 1]
    <3>1. task[d].polls + 1 \in 0..MaxPolls
      BY <1>0, <2>3, LimitAssumption DEF TaskType
    <3>2. t \in TaskType /\ t.at = task[d].at
      BY <1>0, <3>1 DEF TaskType
    <3>3. task' = [task EXCEPT ![d] = t]
      BY <1>0, <2>3
    <3> HIDE DEF t
    <3>4. QED
      BY <3>2, <3>3
  <2> HIDE DEF go
  <2>4. QED
    BY <2>1, <2>2, <2>3
<1>9. QED
  BY <1>6, <1>7, <1>8 DEF Step

\* A thread on its way to the download keeps what is known of all threads.
LEMMA StepKeepsParsing ==
  ASSUME Parsing, NEW d \in Docs, Step(d)
  PROVE  Parsing'
<1> DEFINE Heard == [service EXCEPT ![d].accepted = @ + 1, ![d].state = "running"]
<1>1. PICK t \in TaskType :
           /\ task' = [task EXCEPT ![d] = t]
           /\ t.at # "queued" /\ t.at # "returned"
           /\ \/ service' = service
              \/ service' = Heard /\ task[d].at = "submit" /\ t.at # "submit"
           /\ task[d].at \in {"queued", "submit", "wait"}
           /\ t.at = "submit" => task[d].at \in {"queued", "submit"}
           /\ t.at = "download" => task[d].at = "wait" /\ service[d].state = "completed"
           /\ UNCHANGED <<stage, source, result, raw, manifest, gen>>
  BY ThreadMoves DEF Parsing
<1>2. /\ service[d] \in ServiceType /\ service \in [Docs -> ServiceType]
      /\ task \in [Docs -> TaskType]
  BY DEF Parsing, ParseTyped
<1>3. /\ Heard \in [Docs -> ServiceType]
      /\ Heard[d].accepted = service[d].accepted + 1 /\ Heard[d].state = "running"
      /\ \A e \in Docs : e # d => Heard[e] = service[e]
  <2> DEFINE n == service[d].accepted + 1
             h == [service[d] EXCEPT !.accepted = n, !.state = "running"]
  <2>1. n \in Nat
    BY <1>2 DEF ServiceType
  <2> HIDE DEF n
  <2>2. h \in ServiceType /\ h.accepted = n /\ h.state = "running"
    BY <1>2, <2>1 DEF ServiceType
  <2>3. Heard = [service EXCEPT ![d] = h]
    BY <1>2 DEF n
  <2> HIDE DEF h, Heard
  <2>4. QED
    BY <1>2, <2>2, <2>3 DEF n
<1>4. /\ task' \in [Docs -> TaskType] /\ task'[d] = t
      /\ \A e \in Docs : e # d => task'[e] = task[e]
  BY <1>1, <1>2
<1> HIDE DEF Heard
<1>5. /\ service' \in [Docs -> ServiceType]
      /\ \A e \in Docs : e # d => service'[e] = service[e]
      /\ \/ service'[d] = service[d]
         \/ /\ service'[d].accepted = service[d].accepted + 1 /\ service'[d].state = "running"
            /\ task[d].at = "submit" /\ t.at # "submit"
  BY <1>1, <1>2, <1>3
<1>6. ParseTyped'
  BY <1>1, <1>4, <1>5 DEF Parsing, ParseTyped
<1>7. SubmittedOnce'
  <2>1. service[d].accepted \in Nat
    BY <1>2 DEF ServiceType
  <2>2. /\ service'[d].accepted <= 1
        /\ task'[d].at \in {"queued", "submit"} => service'[d].accepted = 0
    BY <1>1, <1>4, <1>5, <2>1 DEF Parsing, SubmittedOnce
  <2>3. QED
    BY <1>4, <1>5, <2>2 DEF Parsing, SubmittedOnce
<1>8. OutputsAreThere'
  BY <1>5 DEF Parsing, OutputsAreThere
<1>9. OutputsAreStored'
  <2>1. t.at = "download" => service'[d].state = "completed"
    BY <1>1, <1>5
  <2>2. QED
    BY <1>1, <1>4, <1>5, <2>1 DEF Parsing, OutputsAreStored
<1>10. SuccessesReturned'
  BY <1>1, <1>4 DEF Parsing, SuccessesReturned
<1>11. RaisedForSource'
  BY <1>1 DEF Parsing, RaisedForSource
<1>12. QED
  BY <1>6, <1>7, <1>8, <1>9, <1>10, <1>11 DEF Parsing

\* A download stores the output of the job, or raises.
LEMMA DownloadKeepsParsing ==
  ASSUME Parsing, NEW d \in Docs, NEW arrives \in BOOLEAN, Download(d, arrives)
  PROVE  Parsing'
<1>0. /\ task \in [Docs -> TaskType] /\ raw \in [Docs -> Payloads \cup {None}]
      /\ service[d].output \in Payloads
      /\ service[d].state = "completed"
  BY DEF Parsing, ParseTyped, OutputsAreStored, OutputsAreThere, Download, At
<1>1. /\ task[d].at = "download" /\ stage # "ended"
      /\ UNCHANGED <<stage, source, result, service, manifest, gen>>
      /\ raw' = IF arrives THEN [raw EXCEPT ![d] = service[d].output] ELSE raw
      /\ task' = [task EXCEPT ![d].at = IF arrives /\ d \in source THEN "returned" ELSE "raised"]
  BY DEF Download, At, Running, Store, Go, Raise
<1>2. /\ raw' \in [Docs -> Payloads \cup {None}]
      /\ arrives => raw'[d] = service[d].output
      /\ \A e \in Docs : e # d => raw'[e] = raw[e]
  BY <1>0, <1>1
<1>3. /\ task' \in [Docs -> TaskType]
      /\ task'[d].at = IF arrives /\ d \in source THEN "returned" ELSE "raised"
      /\ \A e \in Docs : e # d => task'[e] = task[e]
  BY <1>0, <1>1 DEF TaskType
<1>4. ParseTyped'
  BY <1>1, <1>2, <1>3 DEF Parsing, ParseTyped
<1>5. SubmittedOnce' /\ OutputsAreThere'
  BY <1>1, <1>3 DEF Parsing, SubmittedOnce, OutputsAreThere
<1>6. OutputsAreStored'
  BY <1>0, <1>1, <1>2, <1>3 DEF Parsing, OutputsAreStored
<1>7. SuccessesReturned' /\ RaisedForSource'
  BY <1>1, <1>3 DEF Parsing, SuccessesReturned, RaisedForSource
<1>8. QED
  BY <1>4, <1>5, <1>6, <1>7 DEF Parsing

\* The handler moves on: threads, service and files are left alone.
LEMMA HandlerKeepsParsing ==
  ASSUME Parsing, Handler \/ Die
  PROVE  Parsing'
<1>1. UNCHANGED <<source, task, service, raw>>
  BY DEF Handler, Die, StartParse, Collect, LeavePool, WriteManifest
<1>2. /\ stage' \in {"idle", "parsing", "raising", "raised", "ended", "died"}
      /\ stage = "ended" => stage' = "ended"
  BY DEF Parsing, ParseTyped, Handler, Die, StartParse, Collect, LeavePool, WriteManifest, Running
<1>3. /\ result' \in [Docs -> {"pending", "success", "failed"}]
      /\ \A d \in Docs : result'[d] = "success" => result[d] = "success" \/ task[d].at = "returned"
  <2>1. ASSUME NEW d \in Docs, Collect(d)
        PROVE  \/ result' = result
               \/ \E r \in {"success", "failed"} :
                    /\ result' = [result EXCEPT ![d] = r]
                    /\ r = "success" => task[d].at = "returned"
    BY <2>1 DEF Collect
  <2>2. result \in [Docs -> {"pending", "success", "failed"}]
    BY DEF Parsing, ParseTyped
  <2>3. CASE result' = result
    BY <2>2, <2>3
  <2>4. ASSUME NEW d \in Docs, Collect(d)
        PROVE  /\ result' \in [Docs -> {"pending", "success", "failed"}]
               /\ \A e \in Docs : result'[e] = "success" =>
                    result[e] = "success" \/ task[e].at = "returned"
    BY <2>1, <2>2, <2>4
  <2>5. QED
    BY <2>3, <2>4 DEF Handler, Die, StartParse, LeavePool, WriteManifest
<1>4. stage' \in {"raising", "raised"} => source # Docs
  BY DEF Parsing, RaisedForSource, Handler, Die, StartParse, Collect, LeavePool, WriteManifest
<1>5. ParseTyped'
  BY <1>1, <1>2, <1>3 DEF Parsing, ParseTyped
<1>6. SubmittedOnce' /\ OutputsAreThere'
  BY <1>1 DEF Parsing, SubmittedOnce, OutputsAreThere
<1>7. OutputsAreStored'
  BY <1>1, <1>2 DEF Parsing, OutputsAreStored
<1>8. SuccessesReturned' /\ RaisedForSource'
  BY <1>1, <1>3, <1>4 DEF Parsing, SuccessesReturned, RaisedForSource
<1>9. QED
  BY <1>5, <1>6, <1>7, <1>8 DEF Parsing

\* The service and the disk move on their own.
LEMMA OthersKeepParsing ==
  ASSUME Parsing, NEW d \in Docs, NEW output \in Payloads \cup {None},
         LoseSource(d) \/ ServiceEnds(d, output) \/ ChangeRaw(d, output)
  PROVE  Parsing'
<1>1. CASE LoseSource(d)
  <2>1. source' \subseteq source /\ UNCHANGED <<stage, task, result, service, raw>>
    BY <1>1 DEF LoseSource
  <2>2. source' # Docs \/ source = Docs
    BY <2>1 DEF Parsing, ParseTyped
  <2>3. source # Docs => source' # Docs
    BY <2>1 DEF Parsing, ParseTyped
  <2>4. QED
    BY <2>1, <2>3 DEF Parsing, ParseTyped, SubmittedOnce, OutputsAreThere, OutputsAreStored,
                      SuccessesReturned, RaisedForSource
<1>2. CASE ServiceEnds(d, output)
  <2> DEFINE state == IF output = None THEN "failed" ELSE "completed"
  <2>1. /\ service[d].state = "running"
        /\ service' = [service EXCEPT ![d].state = state, ![d].output = output]
        /\ UNCHANGED <<stage, source, task, result, raw>>
    BY <1>2 DEF ServiceEnds
  <2>2. service \in [Docs -> ServiceType] /\ state \in {"failed", "completed"}
    BY DEF Parsing, ParseTyped
  <2>3. /\ service' \in [Docs -> ServiceType]
        /\ service'[d].accepted = service[d].accepted
        /\ service'[d].state = state /\ service'[d].output = output
        /\ \A e \in Docs : e # d => service'[e] = service[e]
    <3> HIDE DEF state
    <3> QED BY <2>1, <2>2 DEF ServiceType
  <2>4. ParseTyped'
    BY <2>1, <2>3 DEF Parsing, ParseTyped
  <2>5. SubmittedOnce' /\ OutputsAreThere'
    BY <2>1, <2>3 DEF Parsing, SubmittedOnce, OutputsAreThere
  <2>6. OutputsAreStored'
    BY <2>1, <2>3 DEF Parsing, OutputsAreStored
  <2>7. SuccessesReturned' /\ RaisedForSource'
    BY <2>1 DEF Parsing, SuccessesReturned, RaisedForSource
  <2>8. QED
    BY <2>4, <2>5, <2>6, <2>7 DEF Parsing
<1>3. CASE ChangeRaw(d, output)
  <2>1. /\ stage = "ended" /\ raw' \in [Docs -> Payloads \cup {None}]
        /\ UNCHANGED <<stage, source, task, result, service>>
    BY <1>3 DEF ChangeRaw, Parsing, ParseTyped
  <2>2. QED
    BY <2>1 DEF Parsing, ParseTyped, SubmittedOnce, OutputsAreThere, OutputsAreStored,
                SuccessesReturned, RaisedForSource
<1>4. QED
  BY <1>1, <1>2, <1>3

\* Generations only read what parsing left.
Generating ==
  \/ \E kind \in Kinds : StartGenerate(kind)
  \/ \E d \in Docs, built \in BOOLEAN : Transform(d, built)
  \/ \E relations \in BOOLEAN : FinishGenerate(relations)

LEMMA GeneratingReads ==
  ASSUME Generating
  PROVE  UNCHANGED <<stage, source, task, result, service, raw, manifest>>
BY DEF Generating, StartGenerate, Transform, FinishGenerate, parseVars

LEMMA ParsingStays ==
  ASSUME Parsing, UNCHANGED <<stage, source, task, result, service, raw>>
  PROVE  Parsing'
BY DEF Parsing, ParseTyped, SubmittedOnce, OutputsAreThere, OutputsAreStored,
       SuccessesReturned, RaisedForSource

\* Every step is one of these.
LEMMA Steps ==
  ASSUME [Next]_vars
  PROVE  \/ \E d \in Docs : Step(d)
         \/ \E d \in Docs, arrives \in BOOLEAN : Download(d, arrives)
         \/ Handler \/ Die
         \/ \E d \in Docs : LoseSource(d)
         \/ \E d \in Docs, output \in Payloads \cup {None} :
              ServiceEnds(d, output) \/ ChangeRaw(d, output)
         \/ Generating
         \/ UNCHANGED vars
BY Zenon DEF Next, Thread, Step, Generating

LEMMA ParsingAlways == Spec => []Parsing
<1>1. Init => Parsing
  <2> SUFFICES ASSUME Init PROVE Parsing
    OBVIOUS
  <2>1. ParseTyped
    <3>1. 0 \in 0..MaxAttempts /\ 0 \in 0..MaxPolls /\ 0 \in Nat
      BY LimitAssumption
    <3>2. QED
      BY <3>1 DEF Init, ParseTyped, TaskType, ServiceType
  <2>2. QED
    BY <2>1, PayloadAssumption
       DEF Init, Parsing, SubmittedOnce, OutputsAreThere, OutputsAreStored,
           SuccessesReturned, RaisedForSource
<1>2. Parsing /\ [Next]_vars => Parsing'
  <2> SUFFICES ASSUME Parsing, [Next]_vars PROVE Parsing'
    OBVIOUS
  <2>1. CASE Generating \/ UNCHANGED vars
    BY <2>1, GeneratingReads, ParsingStays DEF vars
  <2>2. QED
    BY <2>1, Steps, StepKeepsParsing, DownloadKeepsParsing, HandlerKeepsParsing,
       OthersKeepParsing
<1>3. QED
  BY <1>1, <1>2, PTL DEF Spec

\* The service never accepts a document of a run twice, whatever becomes of its answers.
THEOREM SubmittedAtMostOnce == Spec => []OneJobPerDocument
<1>1. Parsing => OneJobPerDocument
  BY DEF Parsing, SubmittedOnce, OneJobPerDocument
<1>2. QED
  BY <1>1, ParsingAlways, PTL

-----------------------------------------------------------------------------
(* The manifest.                                                             *)

ManifestTyped ==
  manifest \in [status: {"none", "ready", "failed"}, doc: [Docs -> Record]]

\* A manifest is written by a run that ends.
WrittenAtEnd ==
  stage # "ended" => manifest.status = "none" /\ \A d \in Docs : ~manifest.doc[d].ok

\* It records what the service has put out.
RecordsOutput ==
  /\ manifest.status = "ready" => \A d \in Docs : manifest.doc[d].ok
  /\ \A d \in Docs : manifest.doc[d].ok =>
       /\ service[d].state = "completed"
       /\ manifest.doc[d].sha = service[d].output
       /\ manifest.doc[d].count = Len(service[d].output)

Manifested == ManifestTyped /\ WrittenAtEnd /\ RecordsOutput

\* Nobody submits a document of a run that has ended, and a job is over once.
LEMMA CompletedStays ==
  ASSUME Parsing, [Next]_vars, stage = "ended",
         NEW d \in Docs, service[d].state = "completed"
  PROVE  service'[d] = service[d] /\ stage' = "ended"
<1>0. service \in [Docs -> ServiceType]
  BY DEF Parsing, ParseTyped
<1>1. ASSUME NEW e \in Docs, NEW output, ServiceEnds(e, output)
      PROVE  service'[d] = service[d] /\ stage' = "ended"
  BY <1>0, <1>1 DEF ServiceEnds
<1>2. ASSUME NEW e \in Docs, Step(e) PROVE FALSE
  BY <1>2 DEF Step, TakeUp, Submit, Poll, At, Running
<1>3. ASSUME NEW e \in Docs, NEW arrives, Download(e, arrives) PROVE FALSE
  BY <1>3 DEF Download, At, Running
<1>4. ASSUME Handler \/ Die PROVE FALSE
  BY <1>4 DEF Handler, Die, StartParse, Collect, LeavePool, WriteManifest, Running
<1>5. ASSUME NEW e \in Docs, NEW output, LoseSource(e) \/ ChangeRaw(e, output)
      PROVE  service'[d] = service[d] /\ stage' = "ended"
  BY <1>5 DEF LoseSource, ChangeRaw
<1>6. ASSUME Generating \/ UNCHANGED vars
      PROVE  service'[d] = service[d] /\ stage' = "ended"
  BY <1>6, GeneratingReads DEF vars
<1>7. QED
  BY <1>1, <1>2, <1>3, <1>4, <1>5, <1>6, Steps

\* A run that has ended stays ended, and with it the manifest; before, there is none.
LEMMA ManifestMoves ==
  ASSUME Parsing, [Next]_vars, ~WriteManifest
  PROVE  manifest' = manifest /\ (stage' = "ended" <=> stage = "ended")
<1>1. ASSUME NEW d \in Docs, Step(d)
      PROVE  manifest' = manifest /\ (stage' = "ended" <=> stage = "ended")
  BY <1>1 DEF Step, TakeUp, Submit, Poll
<1>2. ASSUME NEW d \in Docs, NEW arrives, Download(d, arrives)
      PROVE  manifest' = manifest /\ (stage' = "ended" <=> stage = "ended")
  BY <1>2 DEF Download
<1>3. ASSUME Handler \/ Die
      PROVE  manifest' = manifest /\ (stage' = "ended" <=> stage = "ended")
  BY <1>3 DEF Handler, Die, StartParse, Collect, LeavePool, Running
<1>4. ASSUME NEW d \in Docs, NEW output,
             LoseSource(d) \/ ServiceEnds(d, output) \/ ChangeRaw(d, output)
      PROVE  manifest' = manifest /\ (stage' = "ended" <=> stage = "ended")
  BY <1>4 DEF LoseSource, ServiceEnds, ChangeRaw
<1>5. ASSUME Generating \/ UNCHANGED vars
      PROVE  manifest' = manifest /\ (stage' = "ended" <=> stage = "ended")
  BY <1>5, GeneratingReads DEF vars
<1>6. QED
  BY <1>1, <1>2, <1>3, <1>4, <1>5, Steps

\* The manifest that a run writes.
LEMMA WrittenManifest ==
  ASSUME Parsing, WriteManifest
  PROVE  Manifested'
<1> DEFINE records == [d \in Docs |-> RecordOf(d)]
<1>1. /\ stage = "parsing" /\ stage' = "ended" /\ service' = service
      /\ manifest' = [status |-> ParseStatus(records), doc |-> records]
  BY DEF WriteManifest
<1>2. ASSUME NEW d \in Docs
      PROVE  /\ RecordOf(d) \in Record
             /\ RecordOf(d).ok => /\ service[d].state = "completed"
                                  /\ RecordOf(d).sha = service[d].output
                                  /\ RecordOf(d).count = Len(service[d].output)
  <2>1. CASE result[d] = "success"
    <3>1. /\ task[d].at = "returned" /\ service[d].state = "completed"
          /\ raw[d] = service[d].output /\ raw[d] \in Payloads
      BY <1>1, <2>1 DEF Parsing, SuccessesReturned, OutputsAreStored, OutputsAreThere
    <3>2. Len(raw[d]) \in Nat
      BY <3>1, PayloadAssumption
    <3>3. QED
      BY <2>1, <3>1, <3>2 DEF RecordOf, Record
  <2>2. CASE result[d] # "success"
    BY <2>2 DEF RecordOf, NoRecord, Record
  <2>3. QED
    BY <2>1, <2>2
<1>3. records \in [Docs -> Record] /\ \A d \in Docs : records[d] = RecordOf(d)
  BY <1>2
<1> HIDE DEF records
<1>4. ParseStatus(records) \in {"ready", "failed"}
      /\ (ParseStatus(records) = "ready" => \A d \in Docs : records[d].ok)
  BY DEF ParseStatus
<1>5. manifest'.doc = records /\ manifest'.status = ParseStatus(records)
  BY <1>1
<1>6. ManifestTyped'
  BY <1>1, <1>3, <1>4 DEF ManifestTyped
<1>7. WrittenAtEnd'
  BY <1>1 DEF WrittenAtEnd
<1>8. RecordsOutput'
  BY <1>1, <1>2, <1>3, <1>4, <1>5 DEF RecordsOutput
<1>9. QED
  BY <1>6, <1>7, <1>8 DEF Manifested

LEMMA ManifestedStep ==
  ASSUME Parsing, Manifested, [Next]_vars
  PROVE  Manifested'
<1>1. CASE WriteManifest
  BY <1>1, WrittenManifest
<1>2. CASE ~WriteManifest
  <2>1. manifest' = manifest /\ (stage' = "ended" <=> stage = "ended")
    BY <1>2, ManifestMoves
  <2>2. ManifestTyped' /\ WrittenAtEnd'
    BY <2>1 DEF Manifested, ManifestTyped, WrittenAtEnd
  <2>3. \A d \in Docs : manifest.doc[d].ok => service'[d] = service[d]
    BY CompletedStays DEF Manifested, WrittenAtEnd, RecordsOutput
  <2>4. RecordsOutput'
    BY <2>1, <2>3 DEF Manifested, RecordsOutput
  <2>5. QED
    BY <2>2, <2>4 DEF Manifested
<1>3. QED
  BY <1>1, <1>2

LEMMA ManifestedAlways == Spec => []Manifested
<1>1. Init => Manifested
  BY DEF Init, Manifested, ManifestTyped, WrittenAtEnd, RecordsOutput, NoRecord, Record
<1>2. Parsing /\ Manifested /\ [Next]_vars => Manifested'
  BY ManifestedStep
<1>3. QED
  BY <1>1, <1>2, ParsingAlways, PTL DEF Spec

\* A run raises for a missing upload only; a document is a success in its manifest with the
\* very output of its job, and the run is ready only with all of them.
THEOREM ManifestIsTrue == Spec => []ManifestTellsOutcome
<1>1. Parsing /\ Manifested => ManifestTellsOutcome
  BY DEF Parsing, RaisedForSource, Manifested, RecordsOutput, ManifestTellsOutcome
<1>2. QED
  BY <1>1, ParsingAlways, ManifestedAlways, PTL

-----------------------------------------------------------------------------
(* Generations.                                                              *)

\* The rows of a document, by the records of the manifest.
RowsIn(kind, records, d, payload) ==
  IF kind = "bookrag"
  THEN {<<i, i>> : i \in 1..Len(payload)}
  ELSE {<<OffsetIn(records, d) + i, i>> : i \in {j \in 1..Len(payload) : payload[j]}}

LEMMA RowsAreIn ==
  ASSUME NEW d, NEW payload
  PROVE  RowsOf(d, payload) = RowsIn(gen.kind, manifest.doc, d, payload)
BY OffsetIsSum DEF RowsOf, RowsIn

LEMMA RowsTyped ==
  ASSUME NEW kind, NEW records \in [Docs -> Record], NEW d \in Docs, NEW payload \in Seq(BOOLEAN)
  PROVE  /\ RowsIn(kind, records, d, payload) \subseteq Nat \X Nat
         /\ \A row \in RowsIn(kind, records, d, payload) :
              row[2] \in {i \in 1..Len(payload) : kind = "bookrag" \/ payload[i]}
         /\ \A i \in {i \in 1..Len(payload) : kind = "bookrag" \/ payload[i]} :
              \E row \in RowsIn(kind, records, d, payload) : row[2] = i
<1> DEFINE kept == {i \in 1..Len(payload) : kind = "bookrag" \/ payload[i]}
           id(i) == IF kind = "bookrag" THEN i ELSE OffsetIn(records, d) + i
<1>1. Len(payload) \in Nat /\ OffsetIn(records, d) \in Nat
  BY OffsetsGrow
<1>2. RowsIn(kind, records, d, payload) = {<<id(i), i>> : i \in kept}
  <2>1. CASE kind = "bookrag"
    BY <2>1 DEF RowsIn
  <2>2. CASE kind # "bookrag"
    BY <2>2 DEF RowsIn
  <2>3. QED
    BY <2>1, <2>2
<1>3. \A i \in kept : i \in Nat /\ id(i) \in Nat
  BY <1>1
<1>4. {<<id(i), i>> : i \in kept} \subseteq Nat \X Nat
  <2> HIDE DEF kept, id
  <2> QED BY <1>3
<1>5. /\ \A row \in {<<id(i), i>> : i \in kept} : row[2] \in kept
      /\ \A i \in kept : \E row \in {<<id(k), k>> : k \in kept} : row[2] = i
  <2> HIDE DEF kept, id
  <2>1. \A i \in kept : <<id(i), i>> \in {<<id(k), k>> : k \in kept} /\ <<id(i), i>>[2] = i
    OBVIOUS
  <2>2. QED
    BY <2>1
<1> HIDE DEF id
<1>6. QED
  BY <1>2, <1>4, <1>5

GenTyped ==
  gen \in [kind: Kinds, status: {"none", "running", "ready", "failed"},
           done: [Docs -> {"todo", "success", "failed"}], rows: [Docs -> SUBSET (Nat \X Nat)]]

\* A generation has a ready manifest of a run that has ended.
GeneratesFromReady ==
  gen.status # "none" => stage = "ended" /\ manifest.status = "ready"

\* A document is done with the rows of the output its service job gave.
RowsOfOutput ==
  \A d \in Docs :
    /\ gen.done[d] # "success" => gen.rows[d] = {}
    /\ gen.done[d] = "success" =>
         /\ gen.status # "none"
         /\ gen.rows[d] = RowsIn(gen.kind, manifest.doc, d, service[d].output)

ReadyIsComplete == gen.status = "ready" => \A d \in Docs : gen.done[d] = "success"

Generation == GenTyped /\ GeneratesFromReady /\ RowsOfOutput /\ ReadyIsComplete

\* A new generation has done nothing.
LEMMA StartKeepsGeneration ==
  ASSUME Manifested, Generation, NEW kind \in Kinds, StartGenerate(kind)
  PROVE  Generation'
<1>1. /\ gen' = [NoGeneration EXCEPT !.kind = kind, !.status = "running"]
      /\ UNCHANGED <<stage, service, manifest>> /\ manifest.status = "ready"
  BY DEF StartGenerate, parseVars, Reusable
<1>2. stage = "ended"
  BY <1>1 DEF Manifested, WrittenAtEnd
<1>3. /\ gen'.status = "running" /\ gen'.done = [d \in Docs |-> "todo"]
      /\ gen'.rows = [d \in Docs |-> {}] /\ gen'.kind = kind
  BY <1>1 DEF NoGeneration
<1>4. GenTyped'
  BY <1>1 DEF NoGeneration, GenTyped
<1>5. QED
  BY <1>1, <1>2, <1>3, <1>4 DEF Generation, GeneratesFromReady, RowsOfOutput, ReadyIsComplete

\* A document is transformed from what the manifest vouches for.
LEMMA TransformKeepsGeneration ==
  ASSUME Parsing, Manifested, Generation, NEW d \in Docs, NEW built, Transform(d, built)
  PROVE  Generation'
<1>0. gen \in [kind: Kinds, status: {"none", "running", "ready", "failed"},
               done: [Docs -> {"todo", "success", "failed"}],
               rows: [Docs -> SUBSET (Nat \X Nat)]]
  BY DEF Generation, GenTyped
<1>1. /\ gen.status = "running" /\ gen.done[d] = "todo"
      /\ UNCHANGED <<stage, service, manifest>>
  BY DEF Transform, parseVars
<1>2. /\ stage = "ended" /\ manifest.doc[d].ok /\ gen.rows[d] = {}
      /\ manifest.doc[d].sha = service[d].output
      /\ service[d].output \in Payloads
  BY <1>1 DEF Generation, GeneratesFromReady, RowsOfOutput, Manifested, RecordsOutput, Parsing,
              OutputsAreThere
<1> DEFINE rows == RowsIn(gen.kind, manifest.doc, d, service[d].output)
<1>3. rows \in SUBSET (Nat \X Nat)
  BY <1>2, RowsTyped, PayloadAssumption DEF Manifested, ManifestTyped
<1> HIDE DEF rows
<1>4. \/ gen' = [gen EXCEPT !.done[d] = "success", !.rows[d] = rows]
      \/ gen' = [gen EXCEPT !.done[d] = "failed"]
  <2>1. Usable(d) => RowsOf(d, raw[d]) = rows
    BY <1>2, RowsAreIn DEF Usable, rows
  <2>2. QED
    BY <2>1 DEF Transform
<1>5. /\ gen'.kind = gen.kind /\ gen'.status = gen.status
      /\ \/ /\ gen'.done = [gen.done EXCEPT ![d] = "success"]
            /\ gen'.rows = [gen.rows EXCEPT ![d] = rows]
         \/ gen'.done = [gen.done EXCEPT ![d] = "failed"] /\ gen'.rows = gen.rows
      /\ gen' = [kind |-> gen'.kind, status |-> gen'.status, done |-> gen'.done,
                 rows |-> gen'.rows]
  BY <1>0, <1>4
<1>6. /\ gen.done \in [Docs -> {"todo", "success", "failed"}]
      /\ gen.rows \in [Docs -> SUBSET (Nat \X Nat)]
      /\ gen.kind \in Kinds
  BY <1>0
<1>7. /\ gen'.done \in [Docs -> {"todo", "success", "failed"}]
      /\ gen'.rows \in [Docs -> SUBSET (Nat \X Nat)]
      /\ \A e \in Docs : e # d => gen'.done[e] = gen.done[e] /\ gen'.rows[e] = gen.rows[e]
      /\ \/ gen'.done[d] = "success" /\ gen'.rows[d] = rows
         \/ gen'.done[d] = "failed" /\ gen'.rows[d] = {}
  BY <1>2, <1>3, <1>5, <1>6
<1>8. GenTyped'
  <2>1. gen'.status \in {"none", "running", "ready", "failed"} /\ gen'.kind \in Kinds
    BY <1>1, <1>5, <1>6
  <2>2. QED
    BY <1>5, <1>7, <2>1 DEF GenTyped
<1>9. GeneratesFromReady' /\ ReadyIsComplete'
  BY <1>1, <1>5 DEF Generation, GeneratesFromReady, ReadyIsComplete
<1>10. RowsOfOutput'
  <2> SUFFICES ASSUME NEW e \in Docs
               PROVE  /\ gen'.done[e] # "success" => gen'.rows[e] = {}
                      /\ gen'.done[e] = "success" =>
                           /\ gen'.status # "none"
                           /\ gen'.rows[e] = RowsIn(gen.kind, manifest.doc, e, service[e].output)
    <3>1. /\ gen'.kind = gen.kind /\ manifest'.doc = manifest.doc
          /\ \A e \in Docs : service'[e] = service[e]
      BY <1>1, <1>5
    <3>2. QED
      BY <3>1 DEF RowsOfOutput
  <2>1. CASE e = d
    BY <1>1, <1>5, <1>7, <2>1 DEF rows
  <2>2. CASE e # d
    BY <1>1, <1>5, <1>7, <2>2 DEF Generation, RowsOfOutput
  <2>3. QED
    BY <2>1, <2>2
<1>11. QED
  BY <1>8, <1>9, <1>10 DEF Generation

\* A generation is ready when all its documents are done.
LEMMA FinishKeepsGeneration ==
  ASSUME Generation, NEW relations \in BOOLEAN, FinishGenerate(relations)
  PROVE  Generation'
<1>1. PICK status \in {"ready", "failed"} :
        /\ gen' = [gen EXCEPT !.status = status]
        /\ status = "ready" => \A d \in Docs : gen.done[d] = "success"
  BY DEF FinishGenerate
<1>2. gen.status = "running" /\ UNCHANGED <<stage, service, manifest>>
  BY DEF FinishGenerate, parseVars
<1>3. GenTyped'
  BY <1>1 DEF Generation, GenTyped
<1>4. gen'.done = gen.done /\ gen'.rows = gen.rows /\ gen'.kind = gen.kind /\ gen'.status = status
  BY <1>1 DEF Generation, GenTyped
<1>5. GeneratesFromReady' /\ ReadyIsComplete'
  BY <1>1, <1>2, <1>4 DEF Generation, GeneratesFromReady, ReadyIsComplete
<1>6. RowsOfOutput'
  BY <1>2, <1>4 DEF Generation, RowsOfOutput
<1>7. QED
  BY <1>3, <1>5, <1>6 DEF Generation

\* What else goes on does not reach the output a generation was made from.
LEMMA GenerationStays ==
  ASSUME Parsing, Manifested, Generation, [Next]_vars, gen' = gen
  PROVE  Generation'
<1>1. CASE gen.status = "none"
  BY <1>1 DEF Generation, GenTyped, GeneratesFromReady, RowsOfOutput, ReadyIsComplete
<1>2. CASE gen.status # "none"
  <2>1. stage = "ended" /\ manifest.status = "ready"
    BY <1>2 DEF Generation, GeneratesFromReady
  <2>2. manifest' = manifest /\ stage' = "ended"
    BY <2>1, ManifestMoves DEF WriteManifest
  <2>3. \A d \in Docs : service'[d] = service[d]
    BY <2>1, CompletedStays DEF Manifested, RecordsOutput
  <2>4. GenTyped' /\ GeneratesFromReady' /\ ReadyIsComplete'
    BY <2>1, <2>2 DEF Generation, GenTyped, GeneratesFromReady, ReadyIsComplete
  <2>5. RowsOfOutput'
    BY <2>2, <2>3 DEF Generation, RowsOfOutput
  <2>6. QED
    BY <2>4, <2>5 DEF Generation
<1>3. QED
  BY <1>1, <1>2

LEMMA GenerationAlways == Spec => []Generation
<1>1. Init => Generation
  BY DEF Init, Generation, GenTyped, GeneratesFromReady, RowsOfOutput, ReadyIsComplete,
         NoGeneration, Kinds
<1>2. Parsing /\ Manifested /\ Generation /\ [Next]_vars => Generation'
  <2> SUFFICES ASSUME Parsing, Manifested, Generation, [Next]_vars PROVE Generation'
    OBVIOUS
  <2>1. CASE Generating
    BY <2>1, StartKeepsGeneration, TransformKeepsGeneration, FinishKeepsGeneration DEF Generating
  <2>2. CASE ~Generating
    <3>1. ASSUME NEW d \in Docs, Step(d) PROVE gen' = gen
      BY <3>1 DEF Step, TakeUp, Submit, Poll
    <3>2. ASSUME NEW d \in Docs, NEW arrives, Download(d, arrives) PROVE gen' = gen
      BY <3>2 DEF Download
    <3>3. ASSUME Handler \/ Die PROVE gen' = gen
      BY <3>3 DEF Handler, Die, StartParse, Collect, LeavePool, WriteManifest
    <3>4. ASSUME NEW d \in Docs, NEW output,
                 LoseSource(d) \/ ServiceEnds(d, output) \/ ChangeRaw(d, output)
          PROVE  gen' = gen
      BY <3>4 DEF LoseSource, ServiceEnds, ChangeRaw
    <3>5. gen' = gen
      BY <2>2, <3>1, <3>2, <3>3, <3>4, Steps DEF vars
    <3>6. QED
      BY <3>5, GenerationStays
  <2>3. QED
    BY <2>1, <2>2
<1>3. QED
  BY <1>1, <1>2, ParsingAlways, ManifestedAlways, PTL DEF Spec

\* The types of the run, its manifest and its last generation.
THEOREM TypeCorrect == Spec => []TypeOK
<1>1. Parsing /\ Manifested /\ Generation => TypeOK
  BY DEF Parsing, ParseTyped, SuccessesReturned, Manifested, ManifestTyped, Generation, GenTyped,
         TypeOK
<1>2. QED
  BY <1>1, ParsingAlways, ManifestedAlways, GenerationAlways, PTL

\* A generation that is ready has a row for every element (Multi-Format: with text) that the
\* service returned, and no other, whatever happened to the files in between.
THEOREM RowsComeFromParsing == Spec => []GeneratedFromParsed
<1>1. Parsing /\ Manifested /\ Generation => GeneratedFromParsed
  <2> SUFFICES ASSUME Parsing, Manifested, Generation, gen.status = "ready", NEW d \in Docs
               PROVE  {row[2] : row \in gen.rows[d]} =
                        {i \in DOMAIN service[d].output :
                           gen.kind = "multi_format" => service[d].output[i]}
    BY DEF GeneratedFromParsed
  <2> DEFINE out == service[d].output
  <2>1. /\ gen.kind \in {"bookrag", "multi_format"}
        /\ gen.rows[d] = RowsIn(gen.kind, manifest.doc, d, out)
    BY DEF Generation, GenTyped, Kinds, ReadyIsComplete, RowsOfOutput
  <2>2. manifest.status = "ready" /\ service[d].state = "completed"
    BY DEF Generation, GeneratesFromReady, Manifested, RecordsOutput
  <2>3. out \in Seq(BOOLEAN) /\ manifest.doc \in [Docs -> Record]
    BY <2>2, PayloadAssumption DEF Parsing, OutputsAreThere, Manifested, ManifestTyped
  <2> HIDE DEF out
  <2>4. /\ \A row \in gen.rows[d] : row[2] \in {i \in 1..Len(out) : gen.kind = "bookrag" \/ out[i]}
        /\ \A i \in {i \in 1..Len(out) : gen.kind = "bookrag" \/ out[i]} :
             \E row \in gen.rows[d] : row[2] = i
    BY <2>1, <2>3, RowsTyped
  <2>5. /\ DOMAIN out = 1..Len(out)
        /\ \A i : gen.kind = "bookrag" \/ out[i] <=> (gen.kind = "multi_format" => out[i])
    BY <2>1, <2>3
  <2>6. QED
    BY <2>4, <2>5 DEF out
<1>2. QED
  BY <1>1, ParsingAlways, ManifestedAlways, GenerationAlways, PTL

\* Threads may transform the documents in any order, and in any number: the chunk rows of a
\* later document have greater ids than those of an earlier one.
THEOREM RowIdsGrow == Spec => []RowIdsFollowSource
<1>1. Parsing /\ Manifested /\ Generation => RowIdsFollowSource
  <2> SUFFICES ASSUME Parsing, Manifested, Generation, gen.kind = "multi_format",
                      NEW d \in Docs, NEW e \in Docs, d < e,
                      NEW row \in gen.rows[d], NEW other \in gen.rows[e]
               PROVE  row[1] < other[1]
    BY DEF RowIdsFollowSource
  <2>0. manifest.doc \in [Docs -> Record]
    BY DEF Manifested, ManifestTyped
  <2>1. ASSUME NEW f \in Docs, gen.rows[f] # {}
        PROVE  /\ gen.rows[f] = RowsIn("multi_format", manifest.doc, f, service[f].output)
               /\ manifest.doc[f].count = Len(service[f].output)
               /\ Len(service[f].output) \in Nat
    <3>1. gen.status # "none" /\ gen.rows[f] = RowsIn("multi_format", manifest.doc, f, service[f].output)
      BY <2>1 DEF Generation, RowsOfOutput
    <3>2. service[f].state = "completed" /\ manifest.doc[f].count = Len(service[f].output)
      BY <3>1 DEF Generation, GeneratesFromReady, Manifested, RecordsOutput
    <3>3. service[f].output \in Seq(BOOLEAN)
      BY <3>2, PayloadAssumption DEF Parsing, OutputsAreThere
    <3>4. QED
      BY <3>1, <3>2, <3>3
  <2>2. PICK i \in 1..Len(service[d].output) : row = <<OffsetIn(manifest.doc, d) + i, i>>
    BY <2>1 DEF RowsIn
  <2>3. PICK j \in 1..Len(service[e].output) : other = <<OffsetIn(manifest.doc, e) + j, j>>
    BY <2>1 DEF RowsIn
  <2>4. /\ OffsetIn(manifest.doc, d) \in Nat /\ OffsetIn(manifest.doc, e) \in Nat
        /\ OffsetIn(manifest.doc, d) + Len(service[d].output) <= OffsetIn(manifest.doc, e)
    BY <2>0, <2>1, OffsetsGrow
  <2>5. i \in Nat /\ j \in Nat /\ i <= Len(service[d].output) /\ 1 <= j /\ Len(service[d].output) \in Nat
    BY <2>1
  <2>6. OffsetIn(manifest.doc, d) + i < OffsetIn(manifest.doc, e) + j
    BY <2>4, <2>5
  <2>7. QED
    BY <2>2, <2>3, <2>6
<1>2. QED
  BY <1>1, ParsingAlways, ManifestedAlways, GenerationAlways, PTL

=============================================================================
