----------------------------- MODULE EvalProofs -----------------------------
(***************************************************************************)
(* What holds of EvalRun for any providers, dataset, page size and options *)
(* of openmem-eval: who is called, what is reported and, of a provider     *)
(* that pages by key, what cleanup() leaves.                               *)
(***************************************************************************)
EXTENDS EvalRun, FiniteSetTheorems, WellFoundedInduction, TLAPS

-----------------------------------------------------------------------------
(* The invariant *)

Before  == {"arguments", "dataset", "consent", "preview"}
Running == {"init", "add", "search"}
Sweeps  == {"clean", "list", "delete"}
After   == Sweeps \cup {"report", "verdict"}

Consented == /\ opt.live /\ ~ opt.dry /\ ~ opt.ci
             /\ opt.costly => opt.yes \/ (opt.tty /\ opt.agrees)

\* Where the process is with opt.live, and what it has asked by then.
ConsentInv ==
    /\ pc \in {"dataset", "consent", "preview"} => ~ (opt.live /\ opt.dry)
    /\ pc = "consent" => opt.live
    /\ pc = "preview" => ~ opt.live
    /\ pc \in Running \cup Sweeps => Consented
    /\ pc \in {"report", "verdict"} /\ opt.live => Consented
    /\ touched # {} => Consented

Unwritten(q) == store[q] \cup late[q] = {}

\* A provider that the run has not come to.
Ahead(q) == pc \in Before \/ (pc \in Running /\ q > p) \/ (pc = "init" /\ q = p)

\* One that it has done with.
Behind(q) == (pc \in Running /\ q < p) \/ (pc \in After /\ opt.live)

Reported(r) == /\ r.status \in {"ok", "partial", "failed"}
               /\ r.queries \in {0, NumQueries}
               /\ r.queries = 0 /\ NumQueries > 0 => r.status = "failed"
               /\ r.status = "ok" => ~ r.errors
               /\ r.status = "failed" => ~ r.found

\* The results, and the records, in the course of the run.
ResultInv ==
    /\ pc \in Before \cup {"report"} => p = 1
    /\ \A q \in Providers :
         /\ Ahead(q) => result[q] = NoResult /\ Unwritten(q)
         /\ Behind(q) => Reported(result[q])
         /\ Behind(q) /\ result[q].queries = 0 /\ NumQueries > 0 => Unwritten(q)
    /\ pc = "add" => result[p].queries = 0 /\ ~ result[p].found
    /\ pc = "search" => result[p].queries = n /\ n <= NumQueries
    /\ pc \in {"report", "verdict"} /\ ~ opt.live =>
         \A q \in Providers : result[q].status = "skipped"
    /\ pc \in Before \cup Running \cup After => code = -1
    /\ pc = "exited" /\ code = 1 /\ NumQueries > 0 => \A q \in Providers : Unwritten(q)

\* A provider that cleanup() has done with.
Swept(q) == \/ pc \in Sweeps /\ q < p
            \/ pc = "verdict" /\ opt.live /\ opt.cleanup
            \/ pc = "exited" /\ code \in {0, 1} /\ opt.live /\ opt.cleanup

\* The records that cleanup() still has to come to: those that it has not
\* failed to delete, of a provider that pages by key and was not disturbed.
Due(q) == IF Paging[q] = "key" /\ q \notin spoilt THEN store[q] \ kept[q] ELSE {}

\* Behind the cursor nothing is due but what is left of the page.
CleanInv ==
    /\ \A q \in Providers : Paging[q] = "key" => late[q] = {}
    /\ \A q \in Providers : Swept(q) => Due(q) = {}
    /\ pc = "list" => \A k \in Due(p) : k < cursor
    /\ pc = "delete" => \A k \in Due(p) : k < cursor \/ k \in batch

IInv == TypeOK /\ ConsentInv /\ ResultInv /\ CleanInv

-----------------------------------------------------------------------------
(* Sets of numbers *)

\* A set of natural numbers has a least element.
LEMMA Least ==
    ASSUME NEW S \in SUBSET Nat, S # {}
    PROVE  Min(S) \in S /\ \A y \in S : Min(S) <= y
  <1>1. PICK x \in S : \A y \in S : ~ (<<y, x>> \in OpToRel(<, Nat))
    BY NatLessThanWellFounded, WFMin
  <1>2. \A y \in S : ~ (y < x)
    BY <1>1 DEF OpToRel
  <1>3. x \in S /\ \A y \in S : x <= y
    BY <1>2
  <1>4. QED BY <1>3 DEF Min

\* A set of facts has a greatest element.
LEMMA Greatest ==
    ASSUME NEW S \in SUBSET Facts, S # {}
    PROVE  Max(S) \in S /\ \A y \in S : y <= Max(S)
  <1> DEFINE T == {NumFacts - x : x \in S}
  <1>1. NumFacts \in Nat /\ S \subseteq 1..NumFacts
    BY EvalRunAssumption DEF Facts
  <1>2. T \in SUBSET Nat /\ T # {}
    BY <1>1
  <1>3. PICK m \in T : \A y \in T : m <= y
    BY <1>2, Least
  <1>4. PICK x \in S : m = NumFacts - x
    BY <1>3
  <1>5. \A y \in S : NumFacts - y \in T
    OBVIOUS
  <1>6. \A y \in S : m <= NumFacts - y
    BY <1>3, <1>5
  <1>7. \A y \in S : x >= y
    BY <1>1, <1>4, <1>6
  <1>8. QED BY <1>1, <1>7 DEF Max

\* Of a set of numbers, those with fewer than size above them are its size
\* greatest, or all of it: a page, newest first.
LEMMA TopOfSet ==
    ASSUME NEW B \in SUBSET Nat, IsFiniteSet(B), NEW size \in Nat
    PROVE  LET above(k) == {j \in B : j > k}
               top      == {k \in B : Cardinality(above(k)) < size}
           IN  /\ \A m \in top, k \in B \ top : k < m
               /\ Cardinality(top) = size \/ top = B
  <1> DEFINE above(k) == {j \in B : j > k}
             rank     == [k \in B |-> Cardinality(above(k))]
             top      == {k \in B : rank[k] < size}
             count    == Cardinality(B)
  <1>1. \A k \in B : IsFiniteSet(above(k)) /\ rank[k] \in Nat
    <2>1. ASSUME NEW k \in B
          PROVE  IsFiniteSet(above(k)) /\ Cardinality(above(k)) \in Nat
      BY FS_Subset, FS_CardinalityType
    <2>2. QED BY <2>1
  <1>2. count \in Nat
    BY FS_CardinalityType
  \* The lower number has the higher rank.
  <1>3. ASSUME NEW k \in B, NEW m \in B, k < m
        PROVE  rank[k] > rank[m]
    <2>1. above(m) \in SUBSET above(k) /\ m \in above(k) /\ m \notin above(m)
      <3>1. \A j \in B : j \in Nat /\ (j > m => j > k)
        BY <1>3
      <3>2. m \in Nat /\ m > k /\ ~ (m > m)
        BY <1>3
      <3>3. QED BY <3>1, <3>2
    <2>2. Cardinality(above(m)) <= Cardinality(above(k)) /\ above(m) # above(k)
      BY <1>1, <2>1, FS_Subset
    <2>3. Cardinality(above(m)) # Cardinality(above(k))
      BY <1>1, <2>1, <2>2, FS_Subset
    <2> HIDE DEF above
    <2>4. QED BY <1>1, <2>2, <2>3
  <1>4. \A k \in B : rank[k] < count
    <2>1. ASSUME NEW k \in B
          PROVE  Cardinality(above(k)) < count
      <3>1. above(k) \in SUBSET B /\ k \notin above(k)
        OBVIOUS
      <3>2. Cardinality(above(k)) <= count /\ Cardinality(above(k)) # count
        BY <3>1, FS_Subset
      <3> HIDE DEF above, count
      <3>3. QED BY <1>1, <1>2, <3>2
    <2>2. QED BY <2>1
  <1>5. \A k, m \in B : rank[k] = rank[m] => k = m
    BY <1>1, <1>3
  <1> HIDE DEF above, count
  <1>6. \A m \in top, k \in B \ top : k < m
    <2>1. ASSUME NEW m \in top, NEW k \in B \ top
          PROVE  k < m
      <3>1. m \in B /\ rank[m] < size /\ ~ (rank[k] < size) /\ rank[m] \in Nat /\ rank[k] \in Nat
        BY <1>1
      <3> HIDE DEF rank
      <3>2. ~ (m < k) /\ m # k
        BY <1>3, <3>1
      <3>3. QED BY <3>1, <3>2
    <2>2. QED BY <2>1
  \* Every number below count is a rank: otherwise B would not fit in the others.
  <1>7. ASSUME NEW i \in 0..(count - 1)
        PROVE  \E k \in B : rank[k] = i
    <2> DEFINE ranks == (0..(count - 1)) \ {i}
    <2>1. SUFFICES ASSUME \A k \in B : rank[k] # i
                   PROVE  FALSE
      OBVIOUS
    <2>2. rank \in [B -> ranks]
      BY <1>1, <1>2, <1>4, <2>1
    <2>3. IsFiniteSet(0..(count - 1)) /\ Cardinality(0..(count - 1)) = count
      BY <1>2, FS_Interval
    <2>4. IsFiniteSet(ranks) /\ Cardinality(ranks) = count - 1
      BY <2>3, FS_RemoveElement
    <2>5. Cardinality(ranks) < Cardinality(B)
      BY <1>2, <2>4 DEF count
    <2> HIDE DEF ranks, rank
    <2>6. \E x, y \in B : x # y /\ rank[x] = rank[y]
      BY <2>2, <2>4, <2>5, FS_PigeonHole
    <2>7. QED BY <1>5, <2>6
  \* So the ranks of a page that is not all of B are all those below size.
  <1>8. ASSUME top # B
        PROVE  Cardinality(top) = size
    <2>1. size <= count - 1
      <3>1. PICK k \in B : ~ (rank[k] < size)
        BY <1>8
      <3>2. rank[k] \in Nat /\ rank[k] < count
        BY <1>1, <1>4
      <3> HIDE DEF rank
      <3>3. QED BY <1>2, <3>1, <3>2
    <2> DEFINE part == [k \in top |-> rank[k]]
    <2>2. part \in [top -> 0..(size - 1)]
      <3>1. \A k \in top : rank[k] \in Nat /\ rank[k] < size
        BY <1>1
      <3> HIDE DEF rank, top
      <3>2. \A k \in top : rank[k] \in 0..(size - 1)
        BY <3>1
      <3>3. QED BY <3>2
    <2>3. \A k, m \in top : part[k] = part[m] => k = m
      BY <1>5
    <2>4. \A i \in 0..(size - 1) : \E k \in top : part[k] = i
      <3>1. ASSUME NEW i \in 0..(size - 1)
            PROVE  \E k \in top : part[k] = i
        <4>1. i \in 0..(count - 1) /\ i < size
          BY <1>2, <2>1
        <4>2. PICK k \in B : rank[k] = i
          BY <1>7, <4>1
        <4>3. k \in top
          BY <4>1, <4>2
        <4>4. QED BY <4>2, <4>3
      <3>2. QED BY <3>1
    <2>5. IsFiniteSet(0..(size - 1)) /\ Cardinality(0..(size - 1)) = size
      BY FS_Interval
    <2> HIDE DEF part, top
    <2>6. part \in Injection(top, 0..(size - 1)) /\ part \in Surjection(top, 0..(size - 1))
      BY <2>2, <2>3, <2>4 DEF Injection, IsInjective, Surjection
    <2>7. QED BY <2>5, <2>6, FS_Injection
  <1>9. top = {k \in B : Cardinality({j \in B : j > k}) < size}
    BY DEF above
  <1>10. QED BY <1>6, <1>8, <1>9

\* The smaller number of two is at most the greater.
LEMMA WithinMax ==
    ASSUME NEW a \in Nat, NEW b \in Nat
    PROVE  Max({a, b}) \in Nat /\ a <= Max({a, b}) /\ b <= Max({a, b})
  <1>1. \E x \in {a, b} : \A y \in {a, b} : x >= y
    <2>1. a >= b \/ b >= a
      OBVIOUS
    <2>2. QED BY <2>1
  <1>2. Max({a, b}) \in {a, b} /\ \A y \in {a, b} : Max({a, b}) >= y
    BY <1>1 DEF Max
  <1> HIDE DEF Max
  <1>3. QED BY <1>2

\* A page is of the records of its provider; there is a next page as long as
\* the cursor for it; and what is below the cursor, at a provider that pages by
\* key, is on the page or on a later one.
LEMMA PageOf ==
    ASSUME TypeOK
    PROVE  /\ Page \subseteq store[p] /\ store[p] \subseteq Facts
           /\ HasNext => NextCursor \in 1..(NumFacts + 1)
           /\ Paging[p] = "key" =>
                \A k \in store[p] : k < cursor =>
                    k \in Page \/ (HasNext /\ k < NextCursor)
  <1>1. /\ NumFacts \in Nat /\ PageSize \in Nat \ {0} /\ p \in Providers
        /\ store[p] \subseteq Facts /\ cursor \in Nat /\ Facts = 1..NumFacts
    BY EvalRunAssumption DEF TypeOK, Facts
  <1>2. Page \subseteq store[p]
    BY DEF Page
  <1>3. /\ IsFiniteSet(store[p]) /\ Cardinality(store[p]) \in Nat
        /\ Cardinality(store[p]) <= NumFacts
    <2>1. IsFiniteSet(1..NumFacts) /\ Cardinality(1..NumFacts) <= NumFacts
      <3>1. /\ IsFiniteSet(1..NumFacts)
            /\ Cardinality(1..NumFacts) = IF 1 > NumFacts THEN 0 ELSE NumFacts - 1 + 1
        BY <1>1, FS_Interval
      <3>2. QED BY <1>1, <3>1
    <2>2. QED BY <1>1, <2>1, FS_Subset, FS_CardinalityType
  <1>4. CASE Paging[p] = "key"
    <2> DEFINE B == {j \in store[p] : j < cursor}
               above(k) == {j \in B : j > k}
               top == {k \in B : Cardinality(above(k)) < PageSize}
    <2>1. B \in SUBSET Nat /\ IsFiniteSet(B)
      BY <1>1, <1>3, FS_Subset
    <2>2. /\ \A m \in top, k \in B \ top : k < m
          /\ Cardinality(top) = PageSize \/ top = B
      BY <1>1, <2>1, TopOfSet
    <2>3. Page = top
      <3>1. \A k : {j \in Above(p, k) : j < cursor} = above(k)
        BY DEF Above
      <3>2. Page = {k \in store[p] : k < cursor /\ Cardinality(above(k)) < PageSize}
        BY <1>4, <3>1 DEF Page
      <3> HIDE DEF above
      <3>3. QED BY <3>2
    <2> HIDE DEF top
    <2>4. HasNext <=> Cardinality(top) = PageSize
      BY <1>4, <2>3 DEF HasNext
    <2>5. HasNext => NextCursor \in top /\ \A m \in top : NextCursor <= m
      <3>1. ASSUME HasNext
            PROVE  top # {}
        BY <1>1, <2>4, <3>1, FS_EmptySet
      <3>2. top \in SUBSET Nat
        BY <1>1, <1>2, <2>3
      <3>3. NextCursor = Min(top)
        BY <1>4, <2>3 DEF NextCursor
      <3>4. QED BY <3>1, <3>2, <3>3, Least
    <2>6. HasNext => NextCursor \in 1..(NumFacts + 1)
      BY <1>1, <1>2, <2>3, <2>5
    <2>7. ASSUME NEW k \in store[p], k < cursor
          PROVE  k \in Page \/ (HasNext /\ k < NextCursor)
      BY <2>2, <2>3, <2>4, <2>5, <2>7
    <2>8. QED BY <1>1, <1>2, <2>6, <2>7
  <1>5. CASE Paging[p] # "key"
    <2>1. ASSUME HasNext
          PROVE  cursor + 1 \in 1..(NumFacts + 1)
      <3>1. cursor * PageSize < NumFacts
        BY <1>1, <1>3, <1>5, <2>1 DEF HasNext
      <3>2. cursor <= cursor * PageSize
        BY <1>1
      <3>3. QED BY <1>1, <3>1, <3>2
    <2>2. QED BY <1>1, <1>2, <1>5, <2>1 DEF NextCursor
  <1>6. QED BY <1>4, <1>5

-----------------------------------------------------------------------------
(* Types *)

\* The next provider, or the first one again for what comes after.
LEMMA NextProviderEffect ==
    ASSUME p \in Providers, NEW where, NEW after, NextProvider(where, after)
    PROVE  /\ p' \in Providers /\ code' = code
           /\ \/ p < NumProviders /\ p' = p + 1 /\ pc' = where
              \/ p = NumProviders /\ p' = 1 /\ pc' = after
  <1>1. NumProviders \in Nat \ {0} /\ Providers = 1..NumProviders
    BY EvalRunAssumption DEF Providers
  <1>2. QED BY <1>1 DEF NextProvider, Goto

\* What the steps of cleanup() need of the greatest item of a page.
LEMMA LastItem ==
    ASSUME TypeOK, batch # {}
    PROVE  Max(batch) \in batch /\ Max(batch) \in Facts
  BY Greatest DEF TypeOK

\* The result of a provider that is skipped.
LEMMA Skipped ==
    ASSUME NumQueries \in Nat
    PROVE  /\ NoResult \in Result /\ [NoResult EXCEPT !.status = "skipped"] \in Result
           /\ [NoResult EXCEPT !.status = "skipped"].status = "skipped"
  <1>1. 0 \in 0..NumQueries
    OBVIOUS
  <1>2. NoResult \in Result
    BY <1>1 DEF NoResult, Result
  <1>3. QED BY <1>2 DEF Result

\* The result of the provider after one more query.
LEMMA AnsweredEffect ==
    ASSUME result \in [Providers -> Result], p \in Providers,
           result[p].queries + 1 \in 0..NumQueries,
           NEW hits \in BOOLEAN, NEW err \in BOOLEAN, Answered(hits, err)
    PROVE  /\ result' \in [Providers -> Result]
           /\ \A q \in Providers : q # p => result'[q] = result[q]
           /\ result'[p].queries = result[p].queries + 1
  <1> DEFINE found == result[p].found \/ hits
             errors == result[p].errors \/ err
  <1>1. found \in BOOLEAN /\ errors \in BOOLEAN
    BY Zenon
  <1>2. result' = [result EXCEPT ![p].queries = result[p].queries + 1,
                                 ![p].found = found, ![p].errors = errors]
    BY DEF Answered
  <1> HIDE DEF found, errors
  <1>3. QED BY <1>1, <1>2 DEF Result

\* The parts of TypeOK that an action sets by itself.
Phases == {"arguments", "dataset", "consent", "preview", "init", "add", "search",
           "report", "clean", "list", "delete", "verdict", "exited", "raised"}

LEMMA TypeStep ==
    ASSUME TypeOK, ResultInv, Next
    PROVE  TypeOK'
  <1> DEFINE top == Max({NumFacts, NumQueries})
  <1>1. NumFacts \in Nat /\ NumQueries \in Nat /\ NumProviders \in Nat \ {0}
    BY EvalRunAssumption
  <1>2. top \in Nat /\ NumFacts <= top /\ NumQueries <= top
    BY <1>1, WithinMax
  <1>3. 1 \in Providers /\ Providers = 1..NumProviders
    BY <1>1 DEF Providers
  <1>4. TypeOK <=>
          /\ opt \in Options /\ pc \in Phases /\ code \in -1..4 /\ p \in Providers
          /\ n \in 0..top
          /\ store \in [Providers -> SUBSET Facts] /\ late \in [Providers -> SUBSET Facts]
          /\ result \in [Providers -> Result]
          /\ cursor \in 0..(NumFacts + 1) /\ batch \subseteq Facts
          /\ touched \subseteq Providers /\ spoilt \subseteq Providers
          /\ kept \in [Providers -> SUBSET Facts]
    BY DEF TypeOK, Phases
  <1>5. TypeOK' <=>
          /\ opt' \in Options /\ pc' \in Phases /\ code' \in -1..4 /\ p' \in Providers
          /\ n' \in 0..top
          /\ store' \in [Providers -> SUBSET Facts] /\ late' \in [Providers -> SUBSET Facts]
          /\ result' \in [Providers -> Result]
          /\ cursor' \in 0..(NumFacts + 1) /\ batch' \subseteq Facts
          /\ touched' \subseteq Providers /\ spoilt' \subseteq Providers
          /\ kept' \in [Providers -> SUBSET Facts]
    BY DEF TypeOK, Phases
  <1> HIDE DEF top
  <1> USE DEF Goto, Exit, Raise, data, tidy
  <1>6. ASSUME Arguments \/ LoadDataset \/ Consent \/ RunRaises
        PROVE  TypeOK'
    <2>1. /\ UNCHANGED <<opt, p, n, data, result, tidy, touched>>
          /\ \/ pc' \in {"dataset", "consent", "preview", "init"} /\ code' = code
             \/ pc' \in {"exited", "raised"} /\ code' \in {1, 2, 3, 4}
      <3>1. CASE Arguments
        BY <3>1 DEF Arguments
      <3>2. CASE LoadDataset
        BY <3>2 DEF LoadDataset
      <3>3. CASE Consent
        BY <3>3, Zenon DEF Consent
      <3>4. CASE RunRaises
        BY <3>4 DEF RunRaises
      <3>5. QED BY <1>6, <3>1, <3>2, <3>3, <3>4
    <2>2. pc' \in Phases /\ code' \in -1..4
      BY <1>4, <2>1 DEF Phases
    <2>3. QED BY <1>4, <1>5, <2>1, <2>2
  <1>7. ASSUME Preview
        PROVE  TypeOK'
    <2>1. [NoResult EXCEPT !.status = "skipped"] \in Result
      BY <1>1, Skipped
    <2>2. result' \in [Providers -> Result] /\ pc' \in Phases
          /\ UNCHANGED <<opt, code, p, n, data, tidy, touched>>
      BY <1>7, <2>1 DEF Preview, Phases
    <2>3. QED BY <1>4, <1>5, <2>2
  <1>8. ASSUME InitProvider
        PROVE  TypeOK'
    <2>1. /\ result' \in [Providers -> Result]
          /\ pc' \in Phases /\ code' = code /\ p' \in Providers
      <3>1. CASE Goto("add") /\ UNCHANGED <<p, result>>
        BY <1>4, <3>1 DEF Phases
      <3>2. CASE /\ result' = [result EXCEPT ![p].status = "failed", ![p].errors = TRUE]
                 /\ NextProvider("init", "report")
        <4>1. pc' \in Phases /\ code' = code /\ p' \in Providers
          BY <1>4, <3>2, NextProviderEffect DEF Phases
        <4>2. result' \in [Providers -> Result]
          BY <1>4, <3>2 DEF Result
        <4>3. QED BY <4>1, <4>2
      <3>3. QED BY <1>8, <3>1, <3>2 DEF InitProvider
    <2>2. n' = 0 /\ UNCHANGED <<opt, data, tidy, touched>>
      BY <1>8 DEF InitProvider
    <2>3. 0 \in 0..top
      BY <1>2
    <2>4. QED BY <1>4, <1>5, <2>1, <2>2, <2>3
  <1>9. ASSUME AddFact
        PROVE  TypeOK'
    <2>1. n \in Nat /\ n < NumFacts /\ n' = n + 1 /\ touched' = touched \cup {p}
          /\ UNCHANGED <<opt, pc, code, p, tidy>>
      BY <1>4, <1>9 DEF AddFact
    <2>2. n' \in 0..top /\ n + 1 \in Facts
      BY <1>1, <1>2, <2>1 DEF Facts
    <2>3. result' \in [Providers -> Result]
      BY <1>4, <1>9 DEF AddFact, Erred, Result
    <2>4. store' \in [Providers -> SUBSET Facts] /\ late' \in [Providers -> SUBSET Facts]
      BY <1>4, <1>9, <2>2 DEF AddFact, Takes
    <2>5. QED BY <1>4, <1>5, <2>1, <2>2, <2>3, <2>4
  <1>10. ASSUME WaitForIngest
         PROVE  TypeOK'
    BY <1>2, <1>4, <1>5, <1>10 DEF WaitForIngest, Phases
  <1>11. ASSUME Search
         PROVE  TypeOK'
    <2>1. /\ pc = "search" /\ n \in Nat /\ n < NumQueries
          /\ n' = n + 1 /\ touched' = touched \cup {p}
          /\ UNCHANGED <<opt, pc, code, p, data, tidy>>
      BY <1>4, <1>11 DEF Search
    <2>2. result[p].queries + 1 \in 0..NumQueries /\ n' \in 0..top
      BY <1>1, <1>2, <1>4, <2>1 DEF ResultInv
    <2>3. PICK hits \in BOOLEAN, err \in BOOLEAN : Answered(hits, err)
      BY <1>11 DEF Search
    <2>4. result' \in [Providers -> Result]
      BY <1>4, <2>2, <2>3, AnsweredEffect
    <2>5. QED BY <1>4, <1>5, <2>1, <2>2, <2>4
  <1>12. ASSUME EndProvider
         PROVE  TypeOK'
    <2>1. /\ result' = [result EXCEPT ![p].status = Status(result[p])] /\ n' = 0
          /\ NextProvider("init", "report") /\ UNCHANGED <<opt, data, tidy, touched>>
      BY <1>12 DEF EndProvider
    <2>2. Status(result[p]) \in {"ok", "partial", "failed"}
      BY DEF Status
    <2>3. result' \in [Providers -> Result]
      BY <1>4, <2>1, <2>2 DEF Result
    <2>4. pc' \in Phases /\ code' = code /\ p' \in Providers /\ n' \in 0..top
      BY <1>2, <1>4, <2>1, NextProviderEffect DEF Phases
    <2>5. QED BY <1>4, <1>5, <2>1, <2>3, <2>4
  <1>13. ASSUME NEW q \in Providers, Ingest(q)
         PROVE  TypeOK'
    <2>1. PICK f \in late[q] : /\ late' = [late EXCEPT ![q] = @ \ {f}]
                               /\ store' = [store EXCEPT ![q] = @ \cup {f}]
      BY <1>13 DEF Ingest
    <2>2. store' \in [Providers -> SUBSET Facts] /\ late' \in [Providers -> SUBSET Facts]
      BY <1>4, <2>1
    <2>3. UNCHANGED <<opt, pc, code, p, n, result, tidy, touched>>
      BY <1>13 DEF Ingest
    <2>4. QED BY <1>4, <1>5, <2>2, <2>3
  <1>14. ASSUME Report
         PROVE  TypeOK'
    BY <1>4, <1>5, <1>14 DEF Report, Phases
  <1>15. ASSUME BeginCleanup
         PROVE  TypeOK'
    <2>1. pc' \in Phases /\ code' = code /\ p' \in Providers
      BY <1>4, <1>15, NextProviderEffect DEF BeginCleanup, Phases
    <2>2. cursor' \in 0..(NumFacts + 1) /\ spoilt' \subseteq Providers
      BY <1>1, <1>4, <1>15 DEF BeginCleanup, First
    <2>3. UNCHANGED <<opt, n, data, result, batch, kept, touched>>
      BY <1>15 DEF BeginCleanup
    <2>4. QED BY <1>4, <1>5, <2>1, <2>2, <2>3
  <1>16. ASSUME ListPage
         PROVE  TypeOK'
    <2>1. pc' \in Phases /\ code' = code /\ p' \in Providers
      BY <1>4, <1>16, NextProviderEffect DEF ListPage, Phases
    <2>2. batch' \subseteq Facts /\ cursor' \in 0..(NumFacts + 1)
      <3>1. Page \subseteq Facts /\ (HasNext => NextCursor \in 0..(NumFacts + 1))
        BY <1>1, PageOf
      <3>2. NoCursor \in 0..(NumFacts + 1)
        BY <1>1 DEF NoCursor
      <3>3. QED BY <1>4, <1>16, <3>1, <3>2 DEF ListPage
    <2>3. /\ touched' \subseteq Providers /\ spoilt' \subseteq Providers
          /\ UNCHANGED <<opt, n, data, result, kept>>
      BY <1>4, <1>16 DEF ListPage
    <2>4. QED BY <1>4, <1>5, <2>1, <2>2, <2>3
  <1>17. ASSUME DeleteItem
         PROVE  TypeOK'
    <2> DEFINE item == Max(batch)
    <2>1. item \in Facts
      BY <1>17, LastItem DEF DeleteItem
    <2> HIDE DEF item
    <2>2. /\ batch' \subseteq Facts
          /\ store' \in [Providers -> SUBSET Facts] /\ kept' \in [Providers -> SUBSET Facts]
          /\ UNCHANGED <<opt, pc, code, p, n, late, result, cursor, touched, spoilt>>
      BY <1>4, <1>17, <2>1 DEF DeleteItem, item
    <2>3. QED BY <1>4, <1>5, <2>2
  <1>18. ASSUME EndPage
         PROVE  TypeOK'
    <2>1. pc' \in Phases /\ code' = code /\ p' \in Providers
      BY <1>4, <1>18, NextProviderEffect DEF EndPage, Phases
    <2>2. UNCHANGED <<opt, n, data, result, tidy, touched>>
      BY <1>18 DEF EndPage
    <2>3. QED BY <1>4, <1>5, <2>1, <2>2
  <1>19. ASSUME Verdict
         PROVE  TypeOK'
    BY <1>4, <1>5, <1>19 DEF Verdict, Phases
  <1>20. ASSUME Ends
         PROVE  TypeOK'
    BY <1>4, <1>5, <1>20 DEF Ends, Ended, vars
  <1>21. QED BY <1>6, <1>7, <1>8, <1>9, <1>10, <1>11, <1>12, <1>13, <1>14, <1>15, <1>16,
                <1>17, <1>18, <1>19, <1>20 DEF Next, Step

-----------------------------------------------------------------------------
(* Consent *)

LEMMA ConsentStep ==
    ASSUME TypeOK, ConsentInv, Next
    PROVE  ConsentInv'
  <1> USE DEF ConsentInv, Goto, Exit, Raise, Running, Sweeps
  <1>1. p \in Providers
    BY DEF TypeOK
  \* The options stay as they are, and so does who has been called but for
  \* the steps that call a provider.
  <1>2. ASSUME UNCHANGED opt
        PROVE  Consented' = Consented
    BY <1>2 DEF Consented
  <1>3. ASSUME Arguments
        PROVE  ConsentInv'
    BY <1>2, <1>3 DEF Arguments
  <1>4. ASSUME LoadDataset
        PROVE  ConsentInv'
    BY <1>2, <1>4 DEF LoadDataset
  <1>5. ASSUME Consent
        PROVE  ConsentInv'
    <2>1. CASE opt.ci /\ Exit(4)
      BY <1>2, <1>5, <2>1 DEF Consent
    <2>2. CASE ~ Confirmed /\ Exit(3)
      BY <1>2, <1>5, <2>2 DEF Consent
    <2>3. CASE ~ opt.ci /\ Confirmed /\ Goto("init")
      <3>1. Consented
        BY <1>5, <2>3 DEF Consent, Consented, Confirmed
      <3>2. QED BY <1>2, <1>5, <2>3, <3>1 DEF Consent
    <2>4. QED BY <1>5, <2>1, <2>2, <2>3 DEF Consent
  <1>6. ASSUME Preview
        PROVE  ConsentInv'
    BY <1>2, <1>6 DEF Preview
  <1>7. ASSUME InitProvider
        PROVE  ConsentInv'
    BY <1>1, <1>2, <1>7, NextProviderEffect DEF InitProvider
  <1>8. ASSUME AddFact
        PROVE  ConsentInv'
    BY <1>2, <1>8 DEF AddFact
  <1>9. ASSUME WaitForIngest
        PROVE  ConsentInv'
    BY <1>2, <1>9 DEF WaitForIngest
  <1>10. ASSUME Search
         PROVE  ConsentInv'
    BY <1>2, <1>10 DEF Search
  <1>11. ASSUME EndProvider
         PROVE  ConsentInv'
    BY <1>1, <1>2, <1>11, NextProviderEffect DEF EndProvider
  <1>12. ASSUME RunRaises
         PROVE  ConsentInv'
    BY <1>2, <1>12 DEF RunRaises
  <1>13. ASSUME NEW q \in Providers, Ingest(q)
         PROVE  ConsentInv'
    BY <1>2, <1>13 DEF Ingest
  <1>14. ASSUME Report
         PROVE  ConsentInv'
    BY <1>2, <1>14 DEF Report
  <1>15. ASSUME BeginCleanup
         PROVE  ConsentInv'
    BY <1>1, <1>2, <1>15, NextProviderEffect DEF BeginCleanup
  <1>16. ASSUME ListPage
         PROVE  ConsentInv'
    BY <1>1, <1>2, <1>16, NextProviderEffect DEF ListPage
  <1>17. ASSUME DeleteItem
         PROVE  ConsentInv'
    BY <1>2, <1>17 DEF DeleteItem
  <1>18. ASSUME EndPage
         PROVE  ConsentInv'
    BY <1>1, <1>2, <1>18, NextProviderEffect DEF EndPage
  <1>19. ASSUME Verdict
         PROVE  ConsentInv'
    BY <1>2, <1>19 DEF Verdict
  <1>20. ASSUME Ends
         PROVE  ConsentInv'
    BY <1>2, <1>20 DEF Ends, Ended, vars
  <1>21. QED BY <1>3, <1>4, <1>5, <1>6, <1>7, <1>8, <1>9, <1>10, <1>11, <1>12, <1>13, <1>14,
                <1>15, <1>16, <1>17, <1>18, <1>19, <1>20 DEF Next, Step

-----------------------------------------------------------------------------
(* Results *)

\* What ResultInv says of one provider.
ProviderInv(q) ==
    /\ Ahead(q) => result[q] = NoResult /\ Unwritten(q)
    /\ Behind(q) => Reported(result[q])
    /\ Behind(q) /\ result[q].queries = 0 /\ NumQueries > 0 => Unwritten(q)

\* It goes on holding of a provider that nothing has happened to, if the run
\* is still as far from it.
LEMMA ProviderKept ==
    ASSUME NEW q \in Providers, ProviderInv(q), result'[q] = result[q],
           store'[q] = store[q], late'[q] = late[q],
           Ahead(q)' => Ahead(q), Behind(q)' => Behind(q)
    PROVE  ProviderInv(q)'
  <1>1. Unwritten(q)' <=> Unwritten(q)
    BY DEF Unwritten
  <1>2. QED BY <1>1 DEF ProviderInv

\* The end of a provider's turn puts it behind, and the others stay where
\* they are.
LEMMA TurnEnds ==
    ASSUME TypeOK, ConsentInv, pc \in Running, NextProvider("init", "report"), UNCHANGED opt
    PROVE  /\ \A q \in Providers : /\ Behind(q)' => Behind(q) \/ q = p
                                   /\ Ahead(q)' => Ahead(q) /\ q # p
           /\ pc' \in {"init", "report"} /\ opt'.live
           /\ pc' = "report" => p' = 1
  <1>1. /\ p \in Nat /\ NumProviders \in Nat /\ \A q \in Providers : q \in 1..NumProviders
        /\ opt.live
    BY EvalRunAssumption DEF TypeOK, Providers, ConsentInv, Consented
  <1>2. \/ p' = p + 1 /\ pc' = "init"
        \/ p = NumProviders /\ p' = 1 /\ pc' = "report"
    BY NextProviderEffect DEF TypeOK
  <1>3. QED BY <1>1, <1>2 DEF Behind, Ahead, Before, Running, After, Sweeps

LEMMA ResultStep ==
    ASSUME TypeOK, ConsentInv, ResultInv, Next
    PROVE  ResultInv'
  <1>1. /\ p \in Providers /\ p \in Nat /\ n \in Nat /\ NumQueries \in Nat /\ 1 \in Providers
        /\ \A q \in Providers : q \in Nat /\ q >= 1
        /\ result \in [Providers -> Result]
        /\ store \in [Providers -> SUBSET Facts] /\ late \in [Providers -> SUBSET Facts]
    <2>1. NumFacts \in Nat /\ NumQueries \in Nat /\ NumProviders \in Nat \ {0}
      BY EvalRunAssumption
    <2>2. Max({NumFacts, NumQueries}) \in Nat
      BY <2>1, WithinMax
    <2>3. /\ n \in 0..Max({NumFacts, NumQueries}) /\ p \in Providers
          /\ result \in [Providers -> Result]
          /\ store \in [Providers -> SUBSET Facts] /\ late \in [Providers -> SUBSET Facts]
      BY DEF TypeOK
    <2> HIDE DEF Max
    <2>4. QED BY <2>1, <2>2, <2>3 DEF Providers
  <1>2. \A q \in Providers : ProviderInv(q)
    BY DEF ResultInv, ProviderInv
  <1>3. ResultInv' <=>
          /\ pc' \in Before \cup {"report"} => p' = 1
          /\ \A q \in Providers : ProviderInv(q)'
          /\ pc' = "add" => result'[p'].queries = 0 /\ ~ result'[p'].found
          /\ pc' = "search" => result'[p'].queries = n' /\ n' <= NumQueries
          /\ pc' \in {"report", "verdict"} /\ ~ opt'.live =>
               \A q \in Providers : result'[q].status = "skipped"
          /\ pc' \in Before \cup Running \cup After => code' = -1
          /\ pc' = "exited" /\ code' = 1 /\ NumQueries > 0 => \A q \in Providers : Unwritten(q)'
    BY DEF ResultInv, ProviderInv
  <1>4. UNCHANGED <<store, late>> => \A q \in Providers : Unwritten(q)' = Unwritten(q)
    BY DEF Unwritten
  <1> USE DEF Goto, Exit, Raise, Before, Running, Sweeps, After, data, tidy
  <1>5. ASSUME Arguments \/ LoadDataset \/ Consent
        PROVE  ResultInv'
    <2>1. /\ UNCHANGED <<opt, p, n, data, result, tidy, touched>> /\ pc \in Before
          /\ \/ pc' \in {"dataset", "consent", "preview", "init"} /\ code' = code
             \/ pc' = "exited" /\ code' \in {2, 3, 4}
             \/ pc' = "raised"
      <3>1. CASE Arguments
        BY <3>1 DEF Arguments
      <3>2. CASE LoadDataset
        BY <3>2 DEF LoadDataset
      <3>3. CASE Consent
        BY <3>3, Zenon DEF Consent
      <3>4. QED BY <1>5, <3>1, <3>2, <3>3
    <2>2. p = 1 /\ code = -1
      BY <2>1 DEF ResultInv
    <2>3. ASSUME NEW q \in Providers
          PROVE  ProviderInv(q)'
      <3>1. Ahead(q) /\ ~ Behind(q)'
        BY <1>1, <2>1, <2>2 DEF Ahead, Behind
      <3>2. QED BY <1>2, <2>1, <3>1, ProviderKept
    <2>4. QED BY <1>3, <2>1, <2>2, <2>3
  <1>6. ASSUME Preview
        PROVE  ResultInv'
    <2>1. /\ result' = [q \in Providers |-> [NoResult EXCEPT !.status = "skipped"]]
          /\ pc = "preview" /\ pc' = "report" /\ code' = code /\ p' = p /\ UNCHANGED opt
      BY <1>6 DEF Preview
    <2>2. p = 1 /\ code = -1 /\ ~ opt.live
      BY <2>1 DEF ResultInv, ConsentInv
    <2>3. \A q \in Providers : result'[q].status = "skipped"
      BY <1>1, <2>1, Skipped
    <2>4. \A q \in Providers : ProviderInv(q)'
      BY <2>1, <2>2 DEF ProviderInv, Ahead, Behind
    <2>5. QED BY <1>3, <2>1, <2>2, <2>3, <2>4
  <1>7. ASSUME InitProvider
        PROVE  ResultInv'
    <2>1. /\ pc = "init" /\ n' = 0 /\ UNCHANGED <<opt, data, tidy, touched>>
          /\ result[p] = NoResult /\ Unwritten(p) /\ code = -1
      BY <1>1, <1>2, <1>7 DEF InitProvider, ProviderInv, Ahead, ResultInv
    <2>2. CASE Goto("add") /\ UNCHANGED <<p, result>>
      <3>1. \A q \in Providers : ProviderInv(q)'
        BY <1>2, <2>1, <2>2, ProviderKept DEF Ahead, Behind
      <3>2. result'[p'].queries = 0 /\ ~ result'[p'].found
        BY <2>1, <2>2 DEF NoResult
      <3>3. QED BY <1>3, <2>1, <2>2, <3>1, <3>2
    <2>3. CASE /\ result' = [result EXCEPT ![p].status = "failed", ![p].errors = TRUE]
               /\ NextProvider("init", "report")
      <3>1. /\ \A q \in Providers : /\ Behind(q)' => Behind(q) \/ q = p
                                    /\ Ahead(q)' => Ahead(q) /\ q # p
            /\ pc' \in {"init", "report"} /\ opt'.live
            /\ pc' = "report" => p' = 1
        BY <2>1, <2>3, TurnEnds
      <3>2. /\ result'[p].status = "failed" /\ result'[p].queries = 0 /\ ~ result'[p].found
            /\ \A q \in Providers : q # p => result'[q] = result[q]
        BY <1>1, <2>1, <2>3 DEF NoResult, Result
      <3>3. ASSUME NEW q \in Providers
            PROVE  ProviderInv(q)'
        <4>1. CASE q = p
          BY <1>4, <2>1, <3>1, <3>2, <4>1 DEF ProviderInv, Reported
        <4>2. CASE q # p
          BY <1>2, <2>1, <3>1, <3>2, <4>2, ProviderKept
        <4>3. QED BY <4>1, <4>2
      <3>4. code' = code
        BY <1>1, <2>3, NextProviderEffect
      <3>5. QED BY <1>3, <2>1, <3>1, <3>3, <3>4
    <2>4. QED BY <1>7, <2>2, <2>3 DEF InitProvider
  <1>8. ASSUME AddFact
        PROVE  ResultInv'
    <2>1. pc = "add" /\ UNCHANGED <<opt, pc, code, p, tidy>> /\ code = -1
      BY <1>8 DEF AddFact, ResultInv
    <2>2. /\ \A q \in Providers : q # p => /\ result'[q] = result[q]
                                           /\ store'[q] = store[q] /\ late'[q] = late[q]
          /\ result'[p].queries = result[p].queries /\ result'[p].found = result[p].found
      <3>1. /\ \A q \in Providers : q # p => result'[q] = result[q]
            /\ result'[p].queries = result[p].queries /\ result'[p].found = result[p].found
        BY <1>1, <1>8 DEF AddFact, Erred, Result
      <3>2. \A q \in Providers : q # p => store'[q] = store[q] /\ late'[q] = late[q]
        BY <1>1, <1>8 DEF AddFact, Takes
      <3>3. QED BY <3>1, <3>2
    <2>3. ASSUME NEW q \in Providers
          PROVE  ProviderInv(q)'
      <3>1. CASE q = p
        BY <1>1, <2>1, <3>1 DEF ProviderInv, Ahead, Behind
      <3>2. CASE q # p
        BY <1>2, <2>1, <2>2, <3>2, ProviderKept DEF Ahead, Behind
      <3>3. QED BY <3>1, <3>2
    <2>4. QED BY <1>3, <2>1, <2>2, <2>3 DEF ResultInv
  <1>9. ASSUME WaitForIngest
        PROVE  ResultInv'
    <2>1. /\ pc = "add" /\ pc' = "search" /\ n' = 0 /\ code' = code
          /\ UNCHANGED <<opt, p, data, result, tidy, touched>>
      BY <1>9 DEF WaitForIngest
    <2>2. \A q \in Providers : ProviderInv(q)'
      BY <1>2, <2>1, ProviderKept DEF Ahead, Behind
    <2>3. result'[p'].queries = n' /\ n' <= NumQueries /\ code' = -1
      BY <1>1, <2>1 DEF ResultInv
    <2>4. QED BY <1>3, <2>1, <2>2, <2>3
  <1>10. ASSUME Search
         PROVE  ResultInv'
    <2>1. /\ pc = "search" /\ n < NumQueries /\ n' = n + 1 /\ code = -1
          /\ UNCHANGED <<opt, pc, code, p, data, tidy>> /\ result[p].queries = n
      BY <1>10 DEF Search, ResultInv
    <2>2. result[p].queries + 1 \in 0..NumQueries
      BY <1>1, <2>1
    <2>3. /\ \A q \in Providers : q # p => result'[q] = result[q]
          /\ result'[p].queries = n + 1
      BY <1>1, <1>10, <2>1, <2>2, AnsweredEffect DEF Search
    <2>4. ASSUME NEW q \in Providers
          PROVE  ProviderInv(q)'
      <3>1. CASE q = p
        BY <1>1, <2>1, <3>1 DEF ProviderInv, Ahead, Behind
      <3>2. CASE q # p
        BY <1>2, <2>1, <2>3, <3>2, ProviderKept DEF Ahead, Behind
      <3>3. QED BY <3>1, <3>2
    <2>5. QED BY <1>1, <1>3, <2>1, <2>3, <2>4
  <1>11. ASSUME EndProvider
         PROVE  ResultInv'
    <2>1. /\ pc = "search" /\ n = NumQueries /\ code = -1 /\ result[p].queries = n
          /\ result' = [result EXCEPT ![p].status = Status(result[p])]
          /\ NextProvider("init", "report") /\ UNCHANGED <<opt, data, tidy, touched>>
      BY <1>11 DEF EndProvider, ResultInv
    <2>2. /\ \A q \in Providers : /\ Behind(q)' => Behind(q) \/ q = p
                                  /\ Ahead(q)' => Ahead(q) /\ q # p
          /\ pc' \in {"init", "report"} /\ opt'.live
          /\ pc' = "report" => p' = 1
      BY <2>1, TurnEnds
    <2>3. /\ \A q \in Providers : q # p => result'[q] = result[q]
          /\ result'[p].status = Status(result[p])
          /\ result'[p].queries = NumQueries
          /\ result'[p].errors = result[p].errors /\ result'[p].found = result[p].found
      BY <1>1, <2>1 DEF Result
    <2>4. Reported(result'[p])
      <3>1. /\ Status(result[p]) \in {"ok", "partial", "failed"}
            /\ Status(result[p]) = "ok" => ~ result[p].errors
            /\ Status(result[p]) = "failed" => ~ result[p].found
        <4>1. result[p].errors \in BOOLEAN /\ result[p].found \in BOOLEAN
          BY <1>1 DEF Result
        <4>2. QED BY <4>1 DEF Status
      <3>2. QED BY <1>1, <2>3, <3>1 DEF Reported
    <2>5. ASSUME NEW q \in Providers
          PROVE  ProviderInv(q)'
      <3>1. CASE q = p
        BY <1>1, <2>2, <2>3, <2>4, <3>1 DEF ProviderInv
      <3>2. CASE q # p
        BY <1>2, <2>1, <2>2, <2>3, <3>2, ProviderKept
      <3>3. QED BY <3>1, <3>2
    <2>6. code' = code
      BY <1>1, <2>1, NextProviderEffect
    <2>7. QED BY <1>3, <2>1, <2>2, <2>5, <2>6
  <1>12. ASSUME RunRaises
         PROVE  ResultInv'
    <2>1. pc' = "exited" /\ code' = 4
      BY <1>12 DEF RunRaises
    <2>2. \A q \in Providers : ProviderInv(q)'
      BY <2>1 DEF ProviderInv, Ahead, Behind
    <2>3. QED BY <1>3, <2>1, <2>2
  <1>13. ASSUME NEW r \in Providers, Ingest(r)
         PROVE  ResultInv'
    <2>1. /\ UNCHANGED <<opt, pc, code, p, n, result, tidy, touched>> /\ ~ Unwritten(r)
          /\ \A q \in Providers : q # r => store'[q] = store[q] /\ late'[q] = late[q]
      BY <1>1, <1>13 DEF Ingest, Unwritten
    <2>2. ASSUME NEW q \in Providers
          PROVE  /\ ProviderInv(q)'
                 /\ pc' = "exited" /\ code' = 1 /\ NumQueries > 0 => Unwritten(q)'
      <3>1. CASE q = r
        BY <1>2, <2>1, <3>1 DEF ProviderInv, Ahead, Behind, ResultInv
      <3>2. CASE q # r
        <4>1. Unwritten(q)' = Unwritten(q)
          BY <2>1, <3>2 DEF Unwritten
        <4>2. QED BY <1>2, <2>1, <3>2, <4>1, ProviderKept DEF Ahead, Behind, ResultInv
      <3>3. QED BY <3>1, <3>2
    <2>3. QED BY <1>3, <2>1, <2>2 DEF ResultInv
  \* The steps after the report leave the results alone.
  <1>14. ASSUME Report \/ BeginCleanup \/ ListPage \/ EndPage
         PROVE  ResultInv'
    <2>1. /\ pc \in {"report"} \cup Sweeps
          /\ \/ pc' \in Sweeps \cup {"verdict"} /\ code' = code
             \/ pc' = "raised"
          /\ UNCHANGED <<opt, n, data, result>>
      <3>1. CASE Report
        BY <3>1 DEF Report
      <3>2. CASE BeginCleanup
        BY <1>1, <3>2, NextProviderEffect DEF BeginCleanup
      <3>3. CASE ListPage
        BY <1>1, <3>3, NextProviderEffect DEF ListPage
      <3>4. CASE EndPage
        BY <1>1, <3>4, NextProviderEffect DEF EndPage
      <3>5. QED BY <1>14, <3>1, <3>2, <3>3, <3>4
    <2>2. pc' = "verdict" /\ ~ opt'.live => \A q \in Providers : result'[q].status = "skipped"
      <3>1. CASE pc = "report"
        BY <2>1, <3>1 DEF ResultInv
      <3>2. CASE pc \in Sweeps
        BY <2>1, <3>2 DEF ConsentInv, Consented
      <3>3. QED BY <2>1, <3>1, <3>2
    <2>3. \A q \in Providers : ProviderInv(q)'
      BY <1>2, <2>1, ProviderKept DEF Ahead, Behind
    <2>4. code = -1
      BY <2>1 DEF ResultInv
    <2>5. QED BY <1>3, <2>1, <2>2, <2>3, <2>4
  <1>15. ASSUME DeleteItem
         PROVE  ResultInv'
    <2>1. /\ pc = "delete" /\ code = -1
          /\ UNCHANGED <<opt, pc, code, p, n, late, result, cursor, touched, spoilt>>
      BY <1>15 DEF DeleteItem, ResultInv
    <2>2. ASSUME NEW q \in Providers
          PROVE  ProviderInv(q)'
      <3>1. store'[q] \subseteq store[q]
        BY <1>1, <1>15 DEF DeleteItem
      <3>2. Unwritten(q) => Unwritten(q)'
        BY <2>1, <3>1 DEF Unwritten
      <3>3. (Behind(q)' => Behind(q)) /\ ~ Ahead(q)'
        BY <2>1 DEF Behind, Ahead
      <3>4. QED BY <1>2, <2>1, <3>2, <3>3 DEF ProviderInv
    <2>3. QED BY <1>3, <2>1, <2>2
  <1>16. ASSUME Verdict
         PROVE  ResultInv'
    <2>1. /\ pc = "verdict" /\ pc' = "exited" /\ UNCHANGED <<opt, result, data>>
          /\ code' = IF NothingUsable THEN 1 ELSE 0
      BY <1>16 DEF Verdict
    <2>2. \A q \in Providers : ProviderInv(q)'
      BY <2>1 DEF ProviderInv, Ahead, Behind
    <2>3. ASSUME NothingUsable, NumQueries > 0, NEW q \in Providers
          PROVE  Unwritten(q)
      <3>1. opt.live
        BY <1>1, <2>1, <2>3 DEF ResultInv, NothingUsable
      <3>2. QED BY <1>2, <2>1, <2>3, <3>1 DEF ProviderInv, Behind, NothingUsable
    <2>4. QED BY <1>3, <1>4, <2>1, <2>2, <2>3
  <1>17. ASSUME Ends
         PROVE  ResultInv'
    <2>1. \A q \in Providers : ProviderInv(q)'
      BY <1>17 DEF Ends, Ended, vars, ProviderInv, Ahead, Behind
    <2>2. QED BY <1>3, <1>4, <1>17, <2>1 DEF Ends, Ended, vars, ResultInv
  <1>18. QED BY <1>5, <1>6, <1>7, <1>8, <1>9, <1>10, <1>11, <1>12, <1>13, <1>14, <1>15, <1>16,
                <1>17 DEF Next, Step

-----------------------------------------------------------------------------
(* Cleanup *)

\* The end of a provider's cleanup: it is swept, and the next one is not yet.
LEMMA SweepEnds ==
    ASSUME p \in Providers, pc \in Sweeps, NextProvider("clean", "verdict"), UNCHANGED opt
    PROVE  /\ \A q \in Providers : Swept(q)' => Swept(q) \/ q = p
           /\ pc' \notin {"list", "delete"}
  <1>1. /\ p \in Nat /\ NumProviders \in Nat /\ \A q \in Providers : q \in 1..NumProviders
    BY EvalRunAssumption DEF Providers
  <1>2. \/ p' = p + 1 /\ pc' = "clean"
        \/ p = NumProviders /\ p' = 1 /\ pc' = "verdict"
    BY NextProviderEffect
  <1>3. QED BY <1>1, <1>2 DEF Swept, Sweeps

\* A provider is not swept before the cleanup begins.
LEMMA NotSwept ==
    ASSUME NEW q \in Providers, pc \in Before \cup Running \cup {"report"}
    PROVE  ~ Swept(q)
  BY DEF Swept, Before, Running, Sweeps

LEMMA CleanStep ==
    ASSUME TypeOK, ConsentInv, ResultInv, CleanInv, Next
    PROVE  CleanInv'
  <1>1. /\ p \in Providers /\ code \in -1..4 /\ cursor \in Nat
        /\ NumFacts \in Nat /\ Facts = 1..NumFacts
        /\ \A q \in Providers : q \in Nat /\ q >= 1
        /\ store \in [Providers -> SUBSET Facts] /\ late \in [Providers -> SUBSET Facts]
        /\ kept \in [Providers -> SUBSET Facts]
    BY EvalRunAssumption DEF TypeOK, Providers, Facts
  <1>2. UNCHANGED <<store, spoilt, kept>> => \A q \in Providers : Due(q)' = Due(q)
    BY DEF Due
  <1>3. \A q \in Providers : Due(q) \subseteq store[q]
    BY DEF Due
  <1> USE DEF Goto, Exit, Raise, data, tidy
  \* Before the cleanup nothing is swept.
  <1>4. ASSUME Arguments \/ LoadDataset \/ Consent \/ Preview \/ InitProvider \/ WaitForIngest
               \/ EndProvider \/ RunRaises \/ AddFact \/ Search
        PROVE  CleanInv'
    <2>1. \/ pc' \in Before \cup Running \cup {"report"}
          \/ pc' = "exited" /\ code' \in {2, 3, 4}
          \/ pc' = "raised"
      <3>1. CASE Arguments
        BY <3>1 DEF Arguments, Before
      <3>2. CASE LoadDataset
        BY <3>2 DEF LoadDataset, Before
      <3>3. CASE Consent
        BY <3>3, Zenon DEF Consent, Running
      <3>4. CASE Preview \/ WaitForIngest \/ RunRaises \/ AddFact \/ Search
        BY <3>4 DEF Preview, WaitForIngest, RunRaises, AddFact, Search, Running
      <3>5. CASE InitProvider
        BY <1>1, <3>5, NextProviderEffect DEF InitProvider, Running
      <3>6. CASE EndProvider
        BY <1>1, <3>6, NextProviderEffect DEF EndProvider, Running
      <3>7. QED BY <1>4, <3>1, <3>2, <3>3, <3>4, <3>5, <3>6
    <2>2. \A q \in Providers : ~ Swept(q)'
      BY <2>1 DEF Swept, Before, Running, Sweeps
    <2>3. ASSUME NEW q \in Providers, Paging[q] = "key"
          PROVE  late'[q] = {}
      <3>1. CASE AddFact
        <4>1. late' = late \/ (Paging[p] # "key" /\ late' = [late EXCEPT ![p] = @ \cup {n + 1}])
          BY <3>1 DEF AddFact, Takes
        <4>2. QED BY <1>1, <2>3, <4>1 DEF CleanInv
      <3>2. CASE ~ AddFact
        <4>1. UNCHANGED late
          BY <1>4, <3>2 DEF Arguments, LoadDataset, Consent, Preview, InitProvider, WaitForIngest,
                            EndProvider, RunRaises, Search
        <4>2. QED BY <2>3, <4>1 DEF CleanInv
      <3>3. QED BY <3>1, <3>2
    <2>4. QED BY <2>1, <2>2, <2>3 DEF CleanInv, Before, Running
  <1>5. ASSUME NEW r \in Providers, Ingest(r)
        PROVE  CleanInv'
    <2>1. PICK f \in late[r] : /\ late' = [late EXCEPT ![r] = @ \ {f}]
                               /\ store' = [store EXCEPT ![r] = @ \cup {f}]
      BY <1>5 DEF Ingest
    <2>2. UNCHANGED <<opt, pc, code, p, n, result, tidy, touched>>
      BY <1>5 DEF Ingest
    <2>3. Paging[r] # "key"
      BY <2>1 DEF CleanInv
    <2>4. \A q \in Providers : Due(q)' = Due(q) /\ Swept(q)' = Swept(q)
      BY <1>1, <2>1, <2>2, <2>3 DEF Due, Swept
    <2>5. \A q \in Providers : Paging[q] = "key" => late'[q] = late[q]
      BY <1>1, <2>1, <2>3
    <2>6. QED BY <1>1, <2>2, <2>4, <2>5 DEF CleanInv
  <1>6. ASSUME Report
        PROVE  CleanInv'
    <2>1. /\ p = 1 /\ UNCHANGED <<opt, p, n, data, result, tidy, touched>>
          /\ \/ pc' \in {"clean", "raised"}
             \/ pc' = "verdict" /\ ~ (opt.live /\ opt.cleanup)
      BY <1>6 DEF Report, ResultInv
    <2>2. \A q \in Providers : ~ Swept(q)'
      BY <1>1, <2>1 DEF Swept, Sweeps
    <2>3. QED BY <2>1, <2>2 DEF CleanInv
  <1>7. ASSUME BeginCleanup
        PROVE  CleanInv'
    <2>1. pc = "clean" /\ UNCHANGED <<opt, code, n, data, result, batch, kept, touched>>
      BY <1>1, <1>7, NextProviderEffect DEF BeginCleanup
    <2>2. CASE /\ cursor' = First /\ pc' = "list" /\ p' = p
               /\ spoilt' = IF late[p] # {} THEN spoilt \cup {p} ELSE spoilt
      <3>1. Paging[p] = "key" => late[p] = {} /\ cursor' = NumFacts + 1
        BY <1>1, <2>2 DEF CleanInv, First
      <3>2. \A q \in Providers : Due(q)' = Due(q) /\ Swept(q)' = Swept(q)
        BY <2>1, <2>2, <3>1 DEF Due, Swept, Sweeps
      <3>3. \A k \in Due(p) : k < cursor'
        <4>1. Due(p) = {} \/ (Paging[p] = "key" /\ Due(p) \subseteq Facts)
          BY <1>1 DEF Due
        <4>2. QED BY <1>1, <3>1, <4>1
      <3>4. QED BY <1>1, <2>1, <2>2, <3>2, <3>3 DEF CleanInv
    <2>3. CASE spoilt' = spoilt \cup {p} /\ NextProvider("clean", "verdict") /\ UNCHANGED cursor
      <3>1. \A q \in Providers : Due(q)' = IF q = p THEN {} ELSE Due(q)
        BY <2>1, <2>3 DEF Due
      <3>2. /\ \A q \in Providers : Swept(q)' => Swept(q) \/ q = p
            /\ pc' \notin {"list", "delete"}
        BY <1>1, <2>1, <2>3, SweepEnds DEF Sweeps
      <3>3. QED BY <2>1, <3>1, <3>2 DEF CleanInv
    <2>4. QED BY <1>7, <2>2, <2>3 DEF BeginCleanup
  <1>8. ASSUME ListPage
        PROVE  CleanInv'
    <2>1. pc = "list" /\ UNCHANGED <<opt, code, n, data, result, kept>>
      BY <1>1, <1>8, NextProviderEffect DEF ListPage
    <2>2. CASE /\ batch' = Page /\ pc' = "delete" /\ UNCHANGED <<p, spoilt>>
               /\ cursor' = IF HasNext THEN NextCursor ELSE NoCursor
      <3>1. \A q \in Providers : Due(q)' = Due(q) /\ Swept(q)' = Swept(q)
        BY <2>1, <2>2 DEF Due, Swept, Sweeps
      <3>2. ASSUME NEW k \in Due(p)
            PROVE  k < cursor' \/ k \in batch'
        <4>1. Paging[p] = "key" /\ k \in store[p] /\ k < cursor
          BY <1>1, <2>1, <3>2 DEF Due, CleanInv
        <4>2. k \in Page \/ (HasNext /\ k < NextCursor)
          BY <4>1, PageOf
        <4>3. QED BY <2>2, <4>2
      <3>3. QED BY <1>1, <2>1, <2>2, <3>1, <3>2 DEF CleanInv
    <2>3. CASE spoilt' = spoilt \cup {p} /\ NextProvider("clean", "verdict")
      <3>1. \A q \in Providers : Due(q)' = IF q = p THEN {} ELSE Due(q)
        BY <2>1, <2>3 DEF Due
      <3>2. /\ \A q \in Providers : Swept(q)' => Swept(q) \/ q = p
            /\ pc' \notin {"list", "delete"}
        BY <1>1, <2>1, <2>3, SweepEnds DEF Sweeps
      <3>3. QED BY <2>1, <3>1, <3>2 DEF CleanInv
    <2>4. QED BY <1>8, <2>2, <2>3 DEF ListPage
  <1>9. ASSUME DeleteItem
        PROVE  CleanInv'
    <2> DEFINE item == Max(batch)
    <2>1. /\ pc = "delete" /\ batch' = batch \ {item}
          /\ UNCHANGED <<opt, pc, code, p, n, late, result, cursor, touched, spoilt>>
          /\ \/ store' = [store EXCEPT ![p] = @ \ {item}] /\ UNCHANGED kept
             \/ kept' = [kept EXCEPT ![p] = @ \cup {item}] /\ UNCHANGED store
      BY <1>9 DEF DeleteItem
    <2> HIDE DEF item
    <2>2. \A q \in Providers : q # p => Due(q)' = Due(q)
      BY <1>1, <2>1 DEF Due
    <2>3. Due(p)' = Due(p) \ {item}
      BY <1>1, <2>1 DEF Due
    <2>4. \A q \in Providers : Swept(q)' = Swept(q)
      BY <2>1 DEF Swept
    <2>5. QED BY <1>1, <2>1, <2>2, <2>3, <2>4 DEF CleanInv
  <1>10. ASSUME EndPage
         PROVE  CleanInv'
    <2>1. pc = "delete" /\ batch = {} /\ UNCHANGED <<opt, code, n, data, result, tidy, touched>>
      BY <1>1, <1>10, NextProviderEffect DEF EndPage
    <2>2. \A q \in Providers : Due(q)' = Due(q)
      BY <1>2, <2>1
    <2>3. \A k \in Due(p) : k < cursor
      BY <2>1 DEF CleanInv
    <2>4. CASE cursor = NoCursor /\ NextProvider("clean", "verdict")
      <3>1. Due(p) = {}
        BY <1>1, <1>3, <2>3, <2>4 DEF NoCursor
      <3>2. /\ \A q \in Providers : Swept(q)' => Swept(q) \/ q = p
            /\ pc' \notin {"list", "delete"}
        BY <1>1, <2>1, <2>4, SweepEnds DEF Sweeps
      <3>3. QED BY <2>1, <2>2, <3>1, <3>2 DEF CleanInv
    <2>5. CASE pc' = "list" /\ p' = p
      <3>1. \A q \in Providers : Swept(q)' = Swept(q)
        BY <2>1, <2>5 DEF Swept, Sweeps
      <3>2. QED BY <1>1, <2>1, <2>2, <2>3, <2>5, <3>1 DEF CleanInv
    <2>6. QED BY <1>10, <2>4, <2>5 DEF EndPage
  <1>11. ASSUME Verdict
         PROVE  CleanInv'
    <2>1. pc = "verdict" /\ pc' = "exited" /\ UNCHANGED <<opt, p, n, data, result, tidy, touched>>
      BY <1>11 DEF Verdict
    <2>2. \A q \in Providers : Swept(q)' => Swept(q)
      BY <2>1 DEF Swept, Sweeps
    <2>3. QED BY <1>2, <2>1, <2>2 DEF CleanInv
  <1>12. ASSUME Ends
         PROVE  CleanInv'
    <2>1. UNCHANGED vars /\ pc \in {"exited", "raised"}
      BY <1>12 DEF Ends, Ended
    <2>2. \A q \in Providers : Swept(q)' = Swept(q) /\ Due(q)' = Due(q)
      BY <2>1 DEF vars, Swept, Due
    <2>3. QED BY <2>1, <2>2 DEF vars, CleanInv
  <1>13. QED BY <1>4, <1>5, <1>6, <1>7, <1>8, <1>9, <1>10, <1>11, <1>12 DEF Next, Step

-----------------------------------------------------------------------------
(* Theorems *)

LEMMA InitInv ==
    ASSUME Init
    PROVE  IInv
  <1>1. NumFacts \in Nat /\ NumQueries \in Nat /\ NumProviders \in Nat \ {0}
    BY EvalRunAssumption
  <1>2. 0 \in 0..Max({NumFacts, NumQueries}) /\ 1 \in Providers
    <2>1. Max({NumFacts, NumQueries}) \in Nat
      BY <1>1, WithinMax
    <2> HIDE DEF Max
    <2>2. QED BY <1>1, <2>1 DEF Providers
  <1>3. TypeOK
    BY <1>1, <1>2, Skipped DEF Init, TypeOK, NoCursor
  <1>4. ConsentInv
    BY DEF Init, ConsentInv, Running, Sweeps
  <1>5. ResultInv
    BY DEF Init, ResultInv, Ahead, Behind, Unwritten, Before, Running, After, Sweeps
  <1>6. CleanInv
    BY DEF Init, CleanInv, Swept, Sweeps
  <1>7. QED BY <1>3, <1>4, <1>5, <1>6 DEF IInv

LEMMA Inductive ==
    ASSUME IInv, [Next]_vars
    PROVE  IInv'
  <1>1. CASE Next
    BY <1>1, TypeStep, ConsentStep, ResultStep, CleanStep DEF IInv
  <1>2. CASE UNCHANGED vars
    <2>1. TypeOK'
      BY <1>2 DEF vars, IInv, TypeOK
    <2>2. ConsentInv'
      BY <1>2 DEF vars, IInv, ConsentInv, Consented
    <2>3. \A q \in Providers :
            /\ Ahead(q)' = Ahead(q) /\ Behind(q)' = Behind(q) /\ Unwritten(q)' = Unwritten(q)
            /\ Swept(q)' = Swept(q) /\ Due(q)' = Due(q)
      BY <1>2 DEF vars, Ahead, Behind, Unwritten, Swept, Due
    <2>4. ResultInv'
      BY <1>2, <2>3 DEF vars, IInv, ResultInv
    <2>5. CleanInv'
      BY <1>2, <2>3 DEF vars, IInv, CleanInv, TypeOK
    <2>6. QED BY <2>1, <2>2, <2>4, <2>5 DEF IInv
  <1>3. QED BY <1>1, <1>2

\* The inductive invariant: consent, results and cleanup keep step with the
\* place where the process is (main(), run(), cleanup()).
THEOREM Invariance == Spec => []IInv
  <1>1. Init => IInv
    BY InitInv
  <1>2. IInv /\ [Next]_vars => IInv'
    BY Inductive
  <1>3. QED BY <1>1, <1>2, PTL DEF Spec

\* Every variable has its type (EvalRun!TypeOK): no page is past the last, and
\* no more queries are reported than there are.
THEOREM TypeCorrect == Spec => []TypeOK
  <1>1. IInv => TypeOK
    BY DEF IInv
  <1>2. QED BY <1>1, Invariance, PTL

\* No provider is ever called without consent, whatever the flags, the cost
\* and the terminal (main(), confirm_or_exit()).
THEOREM ConsentFirst == Spec => []NoCallWithoutConsent
  <1>1. IInv => NoCallWithoutConsent
    BY DEF IInv, ConsentInv, Consented, NoCallWithoutConsent
  <1>2. QED BY <1>1, Invariance, PTL

\* The failures of one provider are its own, for any number of providers,
\* facts and queries, and main() returns 1 only when nothing was written (run(),
\* _run_provider(); a report that cannot be written is an exception, no return).
THEOREM Reports == Spec => []EveryProviderReported
  <1>1. IInv => EveryProviderReported
    BY DEF IInv, ResultInv, Behind, Reported, Unwritten, After, Sweeps, EveryProviderReported
  <1>2. QED BY <1>1, Invariance, PTL

\* cleanup() leaves nothing at a provider that pages by key but what could not
\* be deleted, for any number of records and any size of a page.
THEOREM CleanupReachesAll == Spec => []KeysetCleanupComplete
  <1>1. IInv => KeysetCleanupComplete
    BY DEF IInv, CleanInv, Swept, Due, Cleaned, Tidied, KeysetCleanupComplete
  <1>2. QED BY <1>1, Invariance, PTL

=============================================================================
