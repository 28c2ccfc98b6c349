----------------------- MODULE SystemsOfRecord_proofs -----------------------
(***************************************************************************)
(* Theorems about SystemsOfRecord and the policy versions it extends, for   *)
(* any number of versions, days, releases and changes.                      *)
(***************************************************************************)
EXTENDS SystemsOfRecord, FiniteSetTheorems, WellFoundedInduction, TLAPS

USE PolicyAssumption, RecordsAssumption

-----------------------------------------------------------------------------
(* Choosing a version.                                                       *)

LEMMA LeastExists == ASSUME NEW S \in SUBSET Nat, S # {} PROVE \E m \in S : \A k \in S : m <= k
<1>1. PICK m \in S : \A k \in S : ~(<<k, m>> \in OpToRel(<, Nat))
  BY NatLessThanWellFounded, WFMin
<1>2. \A k \in S : ~(k < m)
  BY <1>1 DEF OpToRel
<1> QED
  BY <1>2

LEMMA GreatestExists ==
    ASSUME NEW S \in SUBSET Nat, S # {}, NEW b \in Nat, \A k \in S : k <= b
    PROVE  \E m \in S : \A k \in S : k <= m
<1> DEFINE T == {b - k : k \in S}
<1>1. T \in SUBSET Nat /\ T # {}
  <2>1. \A k \in S : b - k \in Nat
    OBVIOUS
  <2> QED
    BY <2>1
<1>2. PICK t \in T : \A u \in T : t <= u
  BY <1>1, LeastExists
<1>3. PICK m \in S : t = b - m
  BY <1>2
<1>4. \A k \in S : b - m <= b - k
  BY <1>2, <1>3
<1> QED
  BY <1>4

\* What version_as_of and current choose from, and what they choose.
Candidates(ds, day) == {i \in Approved(ds) : ds[i].effective <= day}

IsLast(ds, S, i) ==
    /\ i \in S
    /\ \A j \in S : \/ ds[j].effective < ds[i].effective
                    \/ ds[j].effective = ds[i].effective /\ j <= i

IsFirst(ds, S, i) ==
    /\ i \in S
    /\ \A j \in S : \/ ds[j].effective < ds[i].effective
                    \/ ds[j].effective = ds[i].effective /\ i <= j

LEMMA LastExists ==
    ASSUME NEW ds \in [Files -> Doc], NEW S \in SUBSET Files, S # {}
    PROVE  (\E i \in S : IsLast(ds, S, i)) /\ (\E i \in S : IsFirst(ds, S, i))
<1> DEFINE D == {ds[i].effective : i \in S}
<1>1. D \in SUBSET Nat /\ D # {} /\ \A d \in D : d <= MaxDay
  BY DEF Doc, Days
<1>2. PICK day \in D : \A d \in D : d <= day
  BY <1>1, GreatestExists
<1> DEFINE N == {i \in S : ds[i].effective = day}
<1>3. N \in SUBSET Nat /\ N # {} /\ \A i \in N : i <= NVersions
  BY <1>2 DEF Files
<1>4. \A j \in S : ds[j].effective \in Nat /\ ds[j].effective <= day
  BY <1>1, <1>2
<1>5. day \in Nat
  BY <1>1, <1>2
<1>6. PICK i \in N : \A j \in N : j <= i
  BY <1>3, GreatestExists
<1>7. PICK k \in N : \A j \in N : k <= j
  BY <1>3, LeastExists
<1>8. IsLast(ds, S, i)
  BY <1>4, <1>5, <1>6 DEF IsLast
<1>9. IsFirst(ds, S, k)
  BY <1>4, <1>5, <1>7 DEF IsFirst
<1> QED
  BY <1>8, <1>9

LEMMA LastIsOne ==
    ASSUME NEW ds \in [Files -> Doc], NEW S \in SUBSET Files,
           NEW i, NEW j, IsLast(ds, S, i), IsLast(ds, S, j)
    PROVE  i = j
<1>1. i \in Nat /\ j \in Nat /\ ds[i].effective \in Nat /\ ds[j].effective \in Nat
  BY DEF IsLast, Files, Doc, Days
<1> QED
  BY <1>1 DEF IsLast

\* version_as_of finds the last candidate, whenever there is one.
LEMMA AsOf ==
    ASSUME NEW ds \in [Files -> Doc], NEW day \in Nat
    PROVE  LET v == version_as_of(ds, day)
               C == Candidates(ds, day)
           IN  IF C = {} THEN v = NoVersion ELSE IsLast(ds, C, v)
<1> DEFINE C == Candidates(ds, day)
<1>1. C \in SUBSET Files /\ \A i \in Files : ds[i].effective \in Nat
  BY DEF Candidates, Approved, Doc, Days
<1>2. CASE C = {}
  <2>1. \A i \in Approved(ds) : ds[i].effective > day
    BY <1>1, <1>2 DEF Candidates, Approved
  <2> QED
    BY <1>2, <2>1 DEF version_as_of
<1>3. CASE C # {}
  <2> DEFINE P(i) == /\ ds[i].effective <= day
                     /\ \A j \in Approved(ds) : ds[j].effective <= day =>
                           \/ ds[j].effective < ds[i].effective
                           \/ ds[j].effective = ds[i].effective /\ j <= i
  <2>1. ~(\A i \in Approved(ds) : ds[i].effective > day)
    BY <1>1, <1>3 DEF Candidates, Approved
  <2>2. version_as_of(ds, day) = CHOOSE i \in Approved(ds) : P(i)
    BY <2>1 DEF version_as_of
  <2>3. PICK i \in C : IsLast(ds, C, i)
    BY <1>1, <1>3, LastExists
  <2>4. i \in Approved(ds) /\ P(i)
    BY <2>3 DEF Candidates, IsLast
  <2> HIDE DEF P
  <2>5. version_as_of(ds, day) \in Approved(ds) /\ P(version_as_of(ds, day))
    BY <2>2, <2>4
  <2> QED
    BY <1>3, <2>5 DEF P, IsLast, Candidates
<1> QED
  BY <1>2, <1>3

\* current finds the first of the newest approved versions.
LEMMA Current ==
    ASSUME NEW ds \in [Files -> Doc], Approved(ds) # {}
    PROVE  IsFirst(ds, Approved(ds), current(ds))
<1> DEFINE P(i) == \A j \in Approved(ds) :
                      \/ ds[j].effective < ds[i].effective
                      \/ ds[j].effective = ds[i].effective /\ i <= j
<1>1. current(ds) = CHOOSE i \in Approved(ds) : P(i)
  BY DEF current
<1>2. PICK i \in Approved(ds) : IsFirst(ds, Approved(ds), i)
  BY LastExists DEF Approved
<1>3. P(i)
  BY <1>2 DEF IsFirst
<1> HIDE DEF P
<1>4. current(ds) \in Approved(ds) /\ P(current(ds))
  BY <1>1, <1>2, <1>3
<1> QED
  BY <1>4 DEF P, IsFirst

\* The answer about a day depends on the versions that are approved and
\* effective by then, and on nothing else.
LEMMA SameCandidates ==
    ASSUME NEW ds \in [Files -> Doc], NEW es \in [Files -> Doc], NEW day \in Nat,
           Candidates(ds, day) = Candidates(es, day),
           \A i \in Candidates(ds, day) : ds[i].effective = es[i].effective
    PROVE  version_as_of(ds, day) = version_as_of(es, day)
<1> DEFINE C == Candidates(ds, day)
           v == version_as_of(ds, day)
           w == version_as_of(es, day)
<1>1. CASE C = {}
  BY <1>1, AsOf
<1>2. CASE C # {}
  <2>1. IsLast(ds, C, v) /\ IsLast(es, C, w)
    BY <1>2, AsOf
  <2>2. IsLast(ds, C, w)
    BY <2>1 DEF IsLast
  <2>3. C \in SUBSET Files
    BY DEF Candidates, Approved
  <2> QED
    BY <2>1, <2>2, <2>3, LastIsOne
<1> QED
  BY <1>1, <1>2

\* Without versions that were not the answer, the answer is the same.
LEMMA FewerCandidates ==
    ASSUME NEW ds \in [Files -> Doc], NEW es \in [Files -> Doc], NEW day \in Nat,
           Candidates(es, day) \subseteq Candidates(ds, day),
           version_as_of(ds, day) \in Candidates(es, day) \cup {NoVersion},
           \A j \in Candidates(es, day) : ds[j].effective = es[j].effective
    PROVE  version_as_of(ds, day) = version_as_of(es, day)
<1> DEFINE C == Candidates(es, day)
           v == version_as_of(ds, day)
           w == version_as_of(es, day)
<1>1. CASE Candidates(ds, day) = {}
  BY <1>1, AsOf
<1>2. CASE Candidates(ds, day) # {}
  <2>1. IsLast(ds, Candidates(ds, day), v)
    BY <1>2, AsOf
  <2>2. v \in C
    BY <2>1 DEF IsLast, Candidates, Approved, Files, NoVersion
  <2>3. IsLast(es, C, v)
    BY <2>1, <2>2 DEF IsLast
  <2>4. IsLast(es, C, w)
    BY <2>2, AsOf
  <2>5. C \in SUBSET Files
    BY DEF Candidates, Approved
  <2> QED
    BY <2>3, <2>4, <2>5, LastIsOne
<1> QED
  BY <1>1, <1>2

\* An answer is a file, or that there is none.
LEMMA AnswerTyped ==
    ASSUME NEW ds \in [Files -> Doc], NEW day \in Nat
    PROVE  /\ version_as_of(ds, day) \in Candidates(ds, day) \cup {NoVersion}
           /\ Candidates(ds, day) \subseteq Files
BY AsOf DEF IsLast, Candidates, Approved

-----------------------------------------------------------------------------
(* Types.                                                                    *)

LEMMA TypesInit == Init => TypeOK
<1> SUFFICES ASSUME Init PROVE TypeOK
  OBVIOUS
<1>1. NoDoc \in Doc
  BY DEF NoDoc, Doc, Statuses, Days
<1>2. PolicyTypeOK
  BY <1>1 DEF Init, PolicyInit, PolicyTypeOK, Days
<1>3. tests \in Seq(Months) /\ cache \subseteq Release
  BY DEF Init
<1>4. loaded \in [docs : [Files -> Doc], tests : Seq(Months), cache : SUBSET Release]
  BY <1>2, <1>3 DEF Init, PolicyTypeOK
<1>5. loadedOn \in 1..today /\ changes \in Nat
  BY DEF Init, PolicyInit
<1>6. ran \in BOOLEAN /\ filed \subseteq Mapping
  BY DEF Init
<1>7. shown \in [Items -> Days \cup {0}]
  BY DEF Init
<1> QED
  BY <1>2, <1>3, <1>4, <1>5, <1>6, <1>7 DEF TypeOK

LEMMA PolicyChangesTyped == ASSUME TypeOK, PolicyChanges PROVE TypeOK'
<1> USE DEF TypeOK
<1>1. /\ changes' \in Nat
      /\ UNCHANGED <<tests, shown, cache, loaded, loadedOn, ran, filed, today, inForce>>
  BY DEF PolicyChanges, Changes, FileVersion, Approve, Retire, Change, feedVars, serverVars, intakeVars
<1>2. \E i \in Files :
         \/ \E status \in {"draft", "approved"}, day \in Days : FileVersion(i, status, day)
         \/ Approve(i) \/ Retire(i)
  BY DEF PolicyChanges
<1>3. \A d \in 1..(today - 1) : d \in Days
  BY DEF PolicyTypeOK, Days
<1>4. ASSUME NEW i \in Files, NEW status \in {"draft", "approved"}, NEW day \in Days,
             FileVersion(i, status, day)
      PROVE  PolicyTypeOK'
  <2>1. [status |-> status, effective |-> day] \in Doc
    BY DEF Doc, Statuses
  <2> QED
    BY <1>1, <1>3, <1>4, <2>1 DEF FileVersion, Change, ReachesBack, PolicyTypeOK
<1>5. ASSUME NEW i \in Files, Approve(i) PROVE PolicyTypeOK'
  <2>1. [docs[i] EXCEPT !.status = "approved"] \in Doc
    BY ZenonT(40) DEF PolicyTypeOK, Doc, Statuses
  <2> QED
    BY <1>1, <1>3, <1>5, <2>1 DEF Approve, Change, ReachesBack, PolicyTypeOK
<1>6. ASSUME NEW i \in Files, Retire(i) PROVE PolicyTypeOK'
  <2>1. [docs[i] EXCEPT !.status = "retired"] \in Doc
    BY ZenonT(40) DEF PolicyTypeOK, Doc, Statuses
  <2> QED
    BY <1>1, <1>3, <1>6, <2>1 DEF Retire, Change, PolicyTypeOK
<1>7. PolicyTypeOK'
  BY <1>2, <1>4, <1>5, <1>6
<1> QED
  BY <1>1, <1>7

LEMMA TypesKept == ASSUME TypeOK, [Next]_vars PROVE TypeOK'
<1> USE DEF TypeOK
<1>1. CASE PolicyChanges
  BY <1>1, PolicyChangesTyped
<1>2. ASSUME NEW month \in Months, TestRecorded(month) PROVE TypeOK'
  BY <1>2 DEF TestRecorded, Changes, policyVars, feedVars, serverVars, intakeVars, PolicyTypeOK
<1>3. ASSUME NEW x \in Items, Publish(x) PROVE TypeOK'
  BY <1>3 DEF Publish, Changes, policyVars, serverVars, intakeVars, PolicyTypeOK
<1>4. ASSUME NEW xs \in SUBSET Items, Fetch(xs) PROVE TypeOK'
  <2>1. \A x \in xs : [item |-> x, published |-> _iso_date(x)] \in Release
    BY <1>4 DEF Fetch, _iso_date, Release, PolicyTypeOK
  <2> QED
    BY <1>4, <2>1 DEF Fetch, policyVars, serverVars, intakeVars, PolicyTypeOK
<1>5. CASE Restart
  BY <1>5 DEF Restart, policyVars, feedVars, intakeVars, PolicyTypeOK, Days
<1>6. CASE Intake
  <2>1. \A r \in since(today - 1) : [release |-> r, run |-> today] \in Mapping
    BY DEF since, Mapping, PolicyTypeOK
  <2> QED
    BY <1>6, <2>1 DEF Intake, policyVars, feedVars, serverVars, PolicyTypeOK
<1>7. CASE NextDay
  <2>1. version_as_of(docs, today) \in Files \cup {NoVersion}
    BY AnswerTyped DEF PolicyTypeOK, Days
  <2>2. today' = today + 1 /\ today' \in Days /\ loadedOn' \in 1..today'
    BY <1>7 DEF NextDay, DayEnds, serverVars, PolicyTypeOK, Days
  <2>3. PolicyTypeOK'
    BY <1>7, <2>1, <2>2 DEF NextDay, DayEnds, PolicyTypeOK
  <2> QED
    BY <1>7, <2>2, <2>3 DEF NextDay, DayEnds, feedVars, serverVars
<1>8. CASE UNCHANGED vars
  BY <1>8 DEF vars, policyVars, feedVars, serverVars, intakeVars, PolicyTypeOK
<1> QED
  BY <1>1, <1>2, <1>3, <1>4, <1>5, <1>6, <1>7, <1>8 DEF Next

\* The state is well formed for any numbers of versions, days, items and
\* results: no release has a day of its own that is not a day (feed_fetcher.py:61-69),
\* and the day before the first is no version's.
THEOREM TypeCorrect == Spec => []TypeOK
BY TypesInit, TypesKept, PTL DEF Spec

-----------------------------------------------------------------------------
(* The answers about versions.                                               *)

\* policy_get without as_of and with today's date agree just when no version is
\* approved ahead and no two share the latest date.
LEMMA TypedIsInForce == TypeOK => CurrentIsInForce
<1> SUFFICES ASSUME TypeOK PROVE CurrentIsInForce
  OBVIOUS
<1> DEFINE ds == loaded.docs
           A == Approved(ds)
           C == Candidates(ds, today)
           newest == {i \in A : \A j \in A : ds[j].effective <= ds[i].effective}
           v == version_as_of(ds, today)
<1>1. ds \in [Files -> Doc] /\ today \in Nat
  BY DEF TypeOK, PolicyTypeOK, Days
<1>2. A \in SUBSET Files /\ \A i \in A : ds[i].effective \in Nat /\ i \in Nat /\ i # NoVersion
  BY <1>1 DEF Approved, Doc, Days, Files, NoVersion
<1>3. IsFiniteSet(newest)
  <2>1. IsFiniteSet(Files)
    BY FS_Interval DEF Files
  <2> QED
    BY <1>2, <2>1, FS_Subset
<1>4. CASE A = {}
  <2>1. current(ds) = NoVersion /\ v = NoVersion
    BY <1>4 DEF current, version_as_of
  <2>2. Cardinality(newest) = 0
    BY <1>4, FS_EmptySet
  <2> QED
    BY <1>4, <2>1, <2>2 DEF CurrentIsInForce, PolicyGet, PolicyGetAsOf
<1>5. CASE A # {} /\ \A i \in A : ds[i].effective <= today
  <2>1. C = A
    BY <1>5 DEF Candidates
  <2>2. IsLast(ds, A, v) /\ IsFirst(ds, A, current(ds))
    BY <1>1, <1>5, <2>1, AsOf, Current
  <2>3. v \in newest /\ current(ds) \in newest
    BY <1>2, <2>2 DEF IsLast, IsFirst
  <2>4. \A i \in newest : current(ds) <= i /\ i <= v
    BY <1>2, <2>2, <2>3 DEF IsLast, IsFirst
  <2>5. ASSUME current(ds) = v PROVE newest = {v}
    BY <1>2, <2>3, <2>4, <2>5
  <2>6. Cardinality(newest) <= 1 <=> \E i : newest = {i}
    <3>1. Cardinality(newest) \in Nat /\ Cardinality(newest) # 0
      BY <1>3, <2>3, FS_CardinalityType, FS_EmptySet
    <3>2. Cardinality(newest) <= 1 <=> Cardinality(newest) = 1
      BY <3>1
    <3> HIDE DEF newest
    <3> QED
      BY <1>3, <3>2, FS_Singleton
  <2>7. current(ds) = v <=> Cardinality(newest) <= 1
    <3> HIDE DEF newest, v
    <3>1. ASSUME NEW i, newest = {i} PROVE current(ds) = v
      BY <2>3, <3>1
    <3> QED
      BY <2>5, <2>6, <3>1
  <2> QED
    BY <1>5, <2>7 DEF CurrentIsInForce, PolicyGet, PolicyGetAsOf
<1>6. CASE \E i \in A : ~(ds[i].effective <= today)
  <2>1. current(ds) \in A /\ ~(ds[current(ds)].effective <= today)
    BY <1>1, <1>2, <1>6, Current DEF IsFirst
  <2>2. current(ds) # v
    BY <1>1, <1>2, <2>1, AnswerTyped DEF Candidates
  <2> QED
    BY <1>6, <2>2 DEF CurrentIsInForce, PolicyGet, PolicyGetAsOf
<1> QED
  BY <1>4, <1>5, <1>6

\* For any number of versions and whatever the server has read and when: the
\* two forms of policy_get agree exactly where the property says
\* (store.py:101-117, service.py:156-162).
THEOREM CurrentAgrees == Spec => []CurrentIsInForce
BY TypeCorrect, TypedIsInForce, PTL

\* The answers of the files themselves about days gone by.
FilesAnswer == \A d \in 1..(today - 1) : d \notin altered => version_as_of(docs, d) = inForce[d]

AnswersInv == TypeOK /\ FilesAnswer /\ PastAnswersStand

\* A change of one file leaves the answers about the days it does not reach.
LEMMA ChangesReachNoFurther ==
    ASSUME TypeOK, PolicyChanges
    PROVE  /\ altered \subseteq altered'
           /\ \A d \in 1..(today - 1) : d \notin altered' /\ version_as_of(docs, d) = inForce[d]
                  => version_as_of(docs', d) = inForce[d]
<1> USE DEF TypeOK, PolicyTypeOK
<1>1. docs \in [Files -> Doc] /\ docs' \in [Files -> Doc]
  BY PolicyChangesTyped
<1>2. \A i \in Files : docs[i].effective \in Nat /\ docs'[i].effective \in Nat
  BY <1>1 DEF Doc, Days
<1>3. \E i \in Files :
         \/ \E status \in {"draft", "approved"}, day \in Days : FileVersion(i, status, day)
         \/ Approve(i) \/ Retire(i)
  BY DEF PolicyChanges
<1>4. ASSUME NEW i \in Files,
             \/ \E status \in {"draft", "approved"}, day \in Days : FileVersion(i, status, day)
             \/ Approve(i),
             NEW d \in 1..(today - 1), d \notin altered'
      PROVE  version_as_of(docs', d) = version_as_of(docs, d)
  <2>1. \A j \in Files \ {i} : docs'[j] = docs[j]
    BY <1>1, <1>4 DEF FileVersion, Approve, Change
  <2>2. docs[i].status # "approved"
    BY <1>4 DEF FileVersion, Approve
  <2>3. i \notin Candidates(docs', d)
    <3>1. CASE docs'[i].status # "approved"
      BY <3>1 DEF Candidates, Approved
    <3>2. CASE docs'[i].status = "approved"
      <4>1. ReachesBack(i)
        BY <1>1, <1>4, <3>2 DEF FileVersion, Approve, Change
      <4>2. ~(d >= docs'[i].effective)
        BY <1>4, <4>1 DEF ReachesBack
      <4> QED
        BY <1>2, <4>2 DEF Candidates, Days
    <3> QED
      BY <3>1, <3>2
  <2>4. Candidates(docs', d) = Candidates(docs, d)
    BY <2>1, <2>2, <2>3 DEF Candidates, Approved
  <2>5. \A j \in Candidates(docs, d) : docs[j].effective = docs'[j].effective
    BY <2>1, <2>2 DEF Candidates, Approved
  <2>6. d \in Nat
    BY DEF Days
  <2> QED
    BY <1>1, <2>4, <2>5, <2>6, SameCandidates
<1>5. ASSUME NEW i \in Files, Retire(i),
             NEW d \in 1..(today - 1), d \notin altered', version_as_of(docs, d) = inForce[d]
      PROVE  version_as_of(docs', d) = inForce[d]
  <2>1. d \in Nat
    BY DEF Days
  <2>2. \A j \in Files \ {i} : docs'[j] = docs[j]
    BY <1>1, <1>5 DEF Retire, Change
  <2>3. docs'[i].status = "retired"
    BY <1>1, <1>5 DEF Retire, Change
  <2>4. Candidates(docs', d) = Candidates(docs, d) \ {i}
    BY <2>2, <2>3 DEF Candidates, Approved
  <2>5. version_as_of(docs, d) # i
    BY <1>5 DEF Retire
  <2>6. version_as_of(docs, d) \in Candidates(docs', d) \cup {NoVersion}
    BY <1>1, <2>1, <2>4, <2>5, AnswerTyped
  <2>7. \A j \in Candidates(docs', d) : docs[j].effective = docs'[j].effective
    BY <2>2, <2>4 DEF Candidates, Approved
  <2>8. version_as_of(docs, d) = version_as_of(docs', d)
    BY <1>1, <2>1, <2>4, <2>6, <2>7, FewerCandidates
  <2> QED
    BY <1>5, <2>8
<1>6. altered \subseteq altered'
  BY <1>3 DEF FileVersion, Approve, Retire, ReachesBack
<1> QED
  BY <1>3, <1>4, <1>5, <1>6

LEMMA AnswersInit == Init => AnswersInv
<1> SUFFICES ASSUME Init PROVE AnswersInv
  OBVIOUS
<1>1. today = 1 /\ 1..(today - 1) = {}
  BY DEF Init, PolicyInit
<1> QED
  BY <1>1, TypesInit DEF AnswersInv, FilesAnswer, PastAnswersStand

LEMMA AnswersKept == ASSUME AnswersInv, [Next]_vars PROVE AnswersInv'
<1> USE DEF AnswersInv
<1>1. TypeOK'
  BY TypesKept
<1>2. today \in Nat /\ loadedOn \in 1..today
  BY DEF TypeOK, PolicyTypeOK, Days
<1>3. CASE UNCHANGED <<docs, today, inForce, altered, loaded, loadedOn>>
  BY <1>1, <1>3 DEF FilesAnswer, PastAnswersStand, PolicyGetAsOf
<1>4. CASE PolicyChanges
  <2>1. UNCHANGED <<today, inForce, loaded, loadedOn>>
    BY <1>4 DEF PolicyChanges, Changes, FileVersion, Approve, Retire, Change, serverVars
  <2>2. FilesAnswer'
    BY <1>4, <2>1, ChangesReachNoFurther DEF FilesAnswer
  <2>3. ASSUME NEW d \in 1..(today - 1), d \notin altered', d < loadedOn \/ loaded.docs = docs'
        PROVE  version_as_of(loaded.docs, d) = inForce[d]
    <3>1. CASE d < loadedOn
      BY <1>4, <2>3, <3>1, ChangesReachNoFurther DEF PastAnswersStand, PolicyGetAsOf
    <3>2. CASE loaded.docs = docs'
      BY <2>1, <2>2, <2>3, <3>2 DEF FilesAnswer
    <3> QED
      BY <2>3, <3>1, <3>2
  <2>4. PastAnswersStand'
    BY <2>1, <2>3 DEF PastAnswersStand, PolicyGetAsOf
  <2> QED
    BY <1>1, <2>2, <2>4
<1>5. CASE Restart
  <2>1. loaded'.docs = docs /\ UNCHANGED <<docs, today, inForce, altered>>
    BY <1>5 DEF Restart, policyVars
  <2> QED
    BY <1>1, <2>1 DEF FilesAnswer, PastAnswersStand, PolicyGetAsOf
<1>6. CASE NextDay
  <2>1. /\ UNCHANGED <<docs, altered, loaded, loadedOn>>
        /\ today' = today + 1
        /\ \A d \in 1..today : inForce'[d] = IF d = today THEN version_as_of(docs, today) ELSE inForce[d]
    BY <1>6 DEF NextDay, DayEnds, serverVars, TypeOK, PolicyTypeOK, Days
  <2>2. FilesAnswer'
    BY <1>2, <2>1 DEF FilesAnswer
  <2>3. ASSUME NEW d \in 1..today, d \notin altered, d < loadedOn \/ loaded.docs = docs
        PROVE  version_as_of(loaded.docs, d) = inForce'[d]
    <3>1. CASE d < loadedOn
      <4>1. d \in 1..(today - 1)
        BY <1>2, <3>1
      <4>2. d # today
        BY <1>2, <3>1
      <4> QED
        BY <2>1, <2>3, <3>1, <4>1, <4>2 DEF PastAnswersStand, PolicyGetAsOf
    <3>2. CASE loaded.docs = docs
      BY <1>2, <2>1, <2>2, <2>3, <3>2 DEF FilesAnswer
    <3> QED
      BY <2>3, <3>1, <3>2
  <2>4. PastAnswersStand'
    BY <1>2, <2>1, <2>3 DEF PastAnswersStand, PolicyGetAsOf
  <2> QED
    BY <1>1, <2>2, <2>4
<1> QED
  BY <1>3, <1>4, <1>5, <1>6
     DEF Next, TestRecorded, Publish, Fetch, Intake, Changes, vars, policyVars, serverVars

LEMMA AnswersHold == Spec => []AnswersInv
BY AnswersInit, AnswersKept, PTL DEF Spec

\* Whatever is filed, approved and retired, and whenever the server is started,
\* policy_get names for a past day what was in force when that day ended, unless
\* a change reached back to it or the server was started before the day was over
\* and the files have changed since (store.py:114-117).
THEOREM PastAnswers == Spec => []PastAnswersStand
<1>1. AnswersInv => PastAnswersStand
  BY DEF AnswersInv
<1> QED
  BY <1>1, AnswersHold, PTL

LEMMA AnswersAreListed == AnswersInv => ManifestCoversPeriod
<1> SUFFICES ASSUME AnswersInv, NEW start \in 1..(loadedOn - 1), NEW end \in 1..(loadedOn - 1), start <= end
             PROVE  LET listed == ListedVersions(loaded.docs, start, end)
                    IN  /\ PolicyGetAsOf(end) \in listed \cup {NoVersion}
                        /\ \A d \in start..end : d \in altered \/ inForce[d] \in listed \cup {NoVersion}
  BY DEF ManifestCoversPeriod
<1> USE DEF AnswersInv
<1>1. loaded.docs \in [Files -> Doc] /\ today \in Nat /\ loadedOn \in 1..today
  BY DEF TypeOK, PolicyTypeOK, Days
<1>2. ASSUME NEW d \in 1..end
      PROVE  version_as_of(loaded.docs, d) \in ListedVersions(loaded.docs, start, end) \cup {NoVersion}
  <2>1. Candidates(loaded.docs, d) \subseteq ListedVersions(loaded.docs, start, end)
    <3>1. \A i \in Approved(loaded.docs) : loaded.docs[i].effective \in Nat
      BY <1>1 DEF Approved, Doc, Days
    <3> QED
      BY <1>1, <3>1 DEF Candidates, ListedVersions
  <2> QED
    BY <1>1, <2>1, AnswerTyped
<1>3. ASSUME NEW d \in start..end, d \notin altered
      PROVE  inForce[d] = version_as_of(loaded.docs, d)
  <2>1. d \in 1..(today - 1) /\ d < loadedOn
    BY <1>1
  <2> QED
    BY <1>3, <2>1 DEF PastAnswersStand, PolicyGetAsOf
<1>4. \A d \in start..end : d \in 1..end
  OBVIOUS
<1> QED
  BY <1>2, <1>3, <1>4 DEF PolicyGetAsOf

\* For every period that is over when the server starts, an evidence manifest lists
\* all versions that were in force in it (service.py:249-253).
THEOREM ManifestsCover == Spec => []ManifestCoversPeriod
BY AnswersHold, AnswersAreListed, PTL

-----------------------------------------------------------------------------
(* The filed mappings.                                                       *)

\* A release of a dated item carries the day the item was published.
Dated(r) == r.item \notin Undated => shown[r.item] # 0 /\ r.published = shown[r.item]

FiledInv ==
    /\ TypeOK
    /\ \A x \in Items : shown[x] <= today
    /\ \A r \in cache \cup loaded.cache : Dated(r)
    /\ \A f \in filed : /\ Dated(f.release)
                        /\ f.release.item \notin Undated =>
                              f.run \in {f.release.published, f.release.published + 1}

LEMMA FiledInit == Init => FiledInv
BY TypesInit DEF Init, PolicyInit, FiledInv

LEMMA FiledKept == ASSUME FiledInv, [Next]_vars PROVE FiledInv'
<1> USE DEF FiledInv, Dated
<1>1. TypeOK'
  BY TypesKept
<1>2. today \in Nat /\ \A x \in Items : shown[x] \in Nat
  BY DEF TypeOK, PolicyTypeOK, Days
<1>3. /\ \A r \in cache \cup loaded.cache : r.item \in Items /\ r.published \in Nat
      /\ \A f \in filed : f.release.item \in Items
  BY DEF TypeOK, Release, Mapping, Days
<1>4. CASE UNCHANGED <<shown, cache, loaded, today, filed>>
  BY <1>1, <1>4
<1>5. ASSUME NEW x \in Items, Publish(x) PROVE FiledInv'
  <2>1. UNCHANGED <<cache, loaded, today, filed>> /\ shown[x] = 0
    BY <1>5 DEF Publish, Changes, serverVars, intakeVars
  <2>2. \A y \in Items : shown'[y] = IF y = x THEN today ELSE shown[y]
    BY <1>5 DEF Publish, TypeOK
  <2>3. \A y \in Items : shown[y] # 0 => shown'[y] = shown[y]
    BY <2>1, <2>2
  <2>4. \A y \in Items : shown'[y] <= today'
    BY <1>2, <2>1, <2>2
  <2> QED
    BY <1>1, <1>3, <2>1, <2>3, <2>4
<1>6. ASSUME NEW xs \in SUBSET Items, Fetch(xs) PROVE FiledInv'
  <2>1. UNCHANGED <<shown, loaded, today, filed>>
    BY <1>6 DEF Fetch, serverVars, intakeVars
  <2>2. \A r \in cache' : Dated(r)
    BY <1>6 DEF Fetch, _iso_date
  <2> QED
    BY <1>1, <2>1, <2>2
<1>7. CASE Restart
  <2>1. UNCHANGED <<shown, cache, today, filed>> /\ loaded'.cache = cache
    BY <1>7 DEF Restart, feedVars, intakeVars
  <2> QED
    BY <1>1, <2>1
<1>8. CASE Intake
  <2>1. UNCHANGED <<shown, cache, loaded, today>>
    BY <1>8 DEF Intake, feedVars, serverVars
  <2>2. filed' = filed \cup {[release |-> r, run |-> today] : r \in since(today - 1)}
    BY <1>8 DEF Intake
  <2>3. ASSUME NEW r \in since(today - 1), r.item \notin Undated
        PROVE  today \in {r.published, r.published + 1}
    BY <1>2, <1>3, <2>3 DEF since
  <2> QED
    BY <1>1, <2>1, <2>2, <2>3 DEF since
<1>9. CASE NextDay
  <2>1. UNCHANGED <<shown, cache, loaded, filed>> /\ today' = today + 1
    BY <1>9 DEF NextDay, DayEnds, feedVars, serverVars
  <2> QED
    BY <1>1, <1>2, <2>1
<1> QED
  BY <1>4, <1>5, <1>6, <1>7, <1>8, <1>9
     DEF Next, PolicyChanges, FileVersion, Approve, Retire, Change, TestRecorded, Changes,
         vars, feedVars, serverVars, intakeVars

LEMMA PairIsTwo == ASSUME NEW a, NEW b, NEW S \in SUBSET {a, b} PROVE Cardinality(S) <= 2
<1>1. /\ IsFiniteSet({a}) /\ Cardinality({a}) = 1
      /\ IsFiniteSet({a} \cup {b})
      /\ Cardinality({a} \cup {b}) = IF b \in {a} THEN Cardinality({a}) ELSE Cardinality({a}) + 1
  BY FS_Singleton, FS_AddElement
<1>2. Cardinality({a} \cup {b}) <= 2 /\ Cardinality({a} \cup {b}) \in Nat
  BY <1>1
<1>3. Cardinality(S) <= Cardinality({a} \cup {b}) /\ Cardinality(S) \in Nat
  <2>1. S \in SUBSET ({a} \cup {b})
    OBVIOUS
  <2> QED
    BY <1>1, <2>1, FS_Subset, FS_CardinalityType
<1> QED
  BY <1>2, <1>3

LEMMA FiledTwice == FiledInv => FiledAtMostTwice
<1> SUFFICES ASSUME FiledInv, NEW x \in Items \ Undated
             PROVE  Cardinality({f \in filed : f.release.item = x}) <= 2
  BY DEF FiledAtMostTwice
<1> DEFINE r == [item |-> x, published |-> shown[x]]
           S == {f \in filed : f.release.item = x}
<1>1. ASSUME NEW f \in S
      PROVE  f \in {[release |-> r, run |-> shown[x]], [release |-> r, run |-> shown[x] + 1]}
  <2>1. f \in [release : Release, run : Days] /\ f.release \in [item : Items, published : Days]
    BY DEF FiledInv, TypeOK, Mapping, Release
  <2>2. f.release.published = shown[x] /\ f.run \in {shown[x], shown[x] + 1}
    BY DEF FiledInv, Dated
  <2>3. f.release = r
    BY <2>1, <2>2
  <2> QED
    BY <2>1, <2>2, <2>3
<1>2. S \in SUBSET {[release |-> r, run |-> shown[x]], [release |-> r, run |-> shown[x] + 1]}
  BY <1>1
<1> QED
  BY <1>2, PairIsTwo

\* However often the feed is fetched and however late the server is started, no
\* dated release is filed by more than two of the daily runs (setup-cron.sh:15-17).
THEOREM FiledTwiceAtMost == Spec => []FiledAtMostTwice
BY FiledInit, FiledKept, FiledTwice, PTL DEF Spec

-----------------------------------------------------------------------------
(* The floor of the gap detection.                                           *)

LEMMA Quotient ==
    ASSUME NEW n \in Nat, NEW p \in {1, 3, 12}
    PROVE  /\ n \div p \in Nat /\ p * (n \div p) <= n /\ n < p * (n \div p) + p
           /\ n % p = n - p * (n \div p)
<1>1. CASE p = 1
  <2>1. /\ n \div 1 \in Nat /\ 1 * (n \div 1) <= n /\ n < 1 * (n \div 1) + 1
        /\ n % 1 = n - 1 * (n \div 1)
    OBVIOUS
  <2> QED
    BY <1>1, <2>1
<1>2. CASE p = 3
  <2>1. /\ n \div 3 \in Nat /\ 3 * (n \div 3) <= n /\ n < 3 * (n \div 3) + 3
        /\ n % 3 = n - 3 * (n \div 3)
    OBVIOUS
  <2> QED
    BY <1>2, <2>1
<1>3. CASE p = 12
  <2>1. /\ n \div 12 \in Nat /\ 12 * (n \div 12) <= n /\ n < 12 * (n \div 12) + 12
        /\ n % 12 = n - 12 * (n \div 12)
    OBVIOUS
  <2> QED
    BY <1>3, <2>1
<1> QED
  BY <1>1, <1>2, <1>3

\* The periods inside a range, and those it meets, are numbered without a gap.
LEMMA PeriodsInside ==
    ASSUME NEW p \in {1, 3, 12}, NEW start \in Nat \ {0}, NEW end \in Nat, start <= end
    PROVE  Inside(p, start, end) = ((start + p - 2) \div p)..(end \div p - 1)
<1> DEFINE a == (start + p - 2) \div p
           b == end \div p
<1>1. start + p - 2 \in Nat
  OBVIOUS
<1>2. /\ a \in Nat /\ p * a <= start + p - 2 /\ start + p - 2 < p * a + p
      /\ b \in Nat /\ p * b <= end /\ end < p * b + p
  BY <1>1, Quotient
<1> HIDE DEF a, b
<1>3. ASSUME NEW k \in Int
      PROVE  (k \in 0..end /\ start <= k * p + 1 /\ (k + 1) * p <= end) <=> k \in a..(b - 1)
  <2>1. CASE p = 1
    BY <1>2, <2>1
  <2>2. CASE p = 3
    BY <1>2, <2>2
  <2>3. CASE p = 12
    BY <1>2, <2>3
  <2> QED
    BY <2>1, <2>2, <2>3
<1>4. Inside(p, start, end) = a..(b - 1)
  BY <1>2, <1>3 DEF Inside
<1> QED
  BY <1>4 DEF a, b

LEMMA PeriodsMet ==
    ASSUME NEW p \in {1, 3, 12}, NEW start \in Nat \ {0}, NEW end \in Nat, start <= end
    PROVE  Met(p, start, end) = ((start - 1) \div p)..((end - 1) \div p)
<1> DEFINE a == (start - 1) \div p
           b == (end - 1) \div p
<1>1. start - 1 \in Nat /\ end - 1 \in Nat
  OBVIOUS
<1>2. /\ a \in Nat /\ p * a <= start - 1 /\ start - 1 < p * a + p
      /\ b \in Nat /\ p * b <= end - 1 /\ end - 1 < p * b + p
  BY <1>1, Quotient
<1> HIDE DEF a, b
<1>3. ASSUME NEW k \in Int
      PROVE  (k \in 0..end /\ k * p + 1 <= end /\ start <= (k + 1) * p) <=> k \in a..b
  <2>1. CASE p = 1
    BY <1>2, <2>1
  <2>2. CASE p = 3
    BY <1>2, <2>2
  <2>3. CASE p = 12
    BY <1>2, <2>3
  <2> QED
    BY <2>1, <2>2, <2>3
<1>4. Met(p, start, end) = a..b
  BY <1>2, <1>3 DEF Met
<1> QED
  BY <1>4 DEF a, b

\* The floor lies between the number of periods inside a range and the number it
\* meets, and is the latter when the range begins with one.
LEMMA FloorIsBetween ==
    ASSUME NEW p \in {1, 3, 12}, NEW start \in Nat \ {0}, NEW end \in Nat, start <= end
    PROVE  LET need == (months_inclusive(start, end) + p - 1) \div p
           IN  /\ need \in Nat
               /\ Cardinality(Inside(p, start, end)) \in Nat
               /\ Cardinality(Met(p, start, end)) \in Nat
               /\ Cardinality(Inside(p, start, end)) <= need
               /\ need <= Cardinality(Met(p, start, end))
               /\ start % p = 1 % p => need = Cardinality(Met(p, start, end))
<1> DEFINE a == (start + p - 2) \div p
           b == end \div p
           c == (start - 1) \div p
           d == (end - 1) \div p
           need == (end - start + p) \div p
<1>1. /\ start + p - 2 \in Nat /\ start - 1 \in Nat /\ end - 1 \in Nat /\ end - start + p \in Nat
      /\ (months_inclusive(start, end) + p - 1) \div p = need
  <2>1. months_inclusive(start, end) + p - 1 = end - start + p
    BY DEF months_inclusive
  <2> QED
    BY <2>1
<1>2. /\ a \in Nat /\ p * a <= start + p - 2 /\ start + p - 2 < p * a + p
      /\ b \in Nat /\ p * b <= end /\ end < p * b + p
  BY <1>1, Quotient
<1>3. /\ c \in Nat /\ p * c <= start - 1 /\ start - 1 < p * c + p
      /\ d \in Nat /\ p * d <= end - 1 /\ end - 1 < p * d + p
  BY <1>1, Quotient
<1>4. need \in Nat /\ p * need <= end - start + p /\ end - start + p < p * need + p
  BY <1>1, Quotient
<1>5. start % p = 1 % p => start - 1 = p * c
  <2>1. CASE p = 1
    BY <1>3, <2>1
  <2>2. CASE p = 3
    BY <2>2
  <2>3. CASE p = 12
    BY <2>3
  <2> QED
    BY <2>1, <2>2, <2>3
<1>6. /\ Cardinality(Inside(p, start, end)) = IF a > b - 1 THEN 0 ELSE b - a
      /\ Cardinality(Met(p, start, end)) = IF c > d THEN 0 ELSE d - c + 1
  <2>1. a \in Int /\ b - 1 \in Int /\ c \in Int /\ d \in Int
    BY <1>2, <1>3
  <2> HIDE DEF a, b, c, d
  <2>2. /\ Cardinality(a..(b - 1)) = IF a > b - 1 THEN 0 ELSE b - 1 - a + 1
        /\ Cardinality(c..d) = IF c > d THEN 0 ELSE d - c + 1
    BY <2>1, FS_Interval
  <2>3. Inside(p, start, end) = a..(b - 1)
    BY PeriodsInside DEF a, b
  <2>4. Met(p, start, end) = c..d
    BY PeriodsMet DEF c, d
  <2> QED
    BY <1>2, <2>2, <2>3, <2>4
<1> HIDE DEF a, b, c, d, need
<1>7. /\ b - a <= need /\ c <= d /\ need <= d - c + 1
      /\ start - 1 = p * c => need = d - c + 1
  <2>1. CASE p = 1
    BY <1>2, <1>3, <1>4, <2>1
  <2>2. CASE p = 3
    BY <1>2, <1>3, <1>4, <2>2
  <2>3. CASE p = 12
    BY <1>2, <1>3, <1>4, <2>3
  <2> QED
    BY <2>1, <2>2, <2>3
<1> QED
  BY <1>1, <1>2, <1>3, <1>4, <1>5, <1>6, <1>7

LEMMA TypedFloor == TypeOK => GapFloorIsSound
<1> SUFFICES ASSUME TypeOK, NEW frequency \in DOMAIN Cadence,
                    NEW start \in Months, NEW end \in Months, start <= end
             PROVE  LET n == Cardinality(results(start, end))
                        p == Cadence[frequency]
                        tooFew == TooFew(frequency, start, end)
                    IN  /\ n < Cardinality(Inside(p, start, end)) => tooFew
                        /\ n >= Cardinality(Met(p, start, end)) => ~tooFew
                        /\ start % p = 1 % p /\ n < Cardinality(Met(p, start, end)) => tooFew
  BY DEF GapFloorIsSound
<1> DEFINE p == Cadence[frequency]
           n == Cardinality(results(start, end))
           need == (months_inclusive(start, end) + p - 1) \div p
<1>1. p \in {1, 3, 12}
  BY DEF Cadence
<1>2. start \in Nat \ {0} /\ end \in Nat
  OBVIOUS
<1>3. n \in Nat
  <2>1. loaded.tests \in Seq(Months)
    BY DEF TypeOK
  <2>2. DOMAIN loaded.tests = 1..Len(loaded.tests) /\ Len(loaded.tests) \in Int
    BY <2>1
  <2>3. results(start, end) \in SUBSET (1..Len(loaded.tests))
    BY <2>2 DEF results
  <2>4. IsFiniteSet(1..Len(loaded.tests))
    BY <2>2, FS_Interval
  <2> QED
    BY <2>3, <2>4, FS_Subset, FS_CardinalityType
<1>4. TooFew(frequency, start, end) <=> n < need
  BY DEF TooFew, Needed
<1> HIDE DEF p, n, need
<1>5. /\ need \in Nat
      /\ Cardinality(Inside(p, start, end)) \in Nat
      /\ Cardinality(Met(p, start, end)) \in Nat
      /\ Cardinality(Inside(p, start, end)) <= need
      /\ need <= Cardinality(Met(p, start, end))
      /\ start % p = 1 % p => need = Cardinality(Met(p, start, end))
  BY <1>1, <1>2, FloorIsBetween, ZenonT(40) DEF need
<1>6. /\ n < Cardinality(Inside(p, start, end)) => n < need
      /\ n >= Cardinality(Met(p, start, end)) => ~(n < need)
      /\ start % p = 1 % p /\ n < Cardinality(Met(p, start, end)) => n < need
  BY <1>3, <1>5
<1> QED
  BY <1>4, <1>6 DEF n, p

\* For any months, results and every cadence the count of the gap detection flags
\* a range with fewer results than it holds whole months, quarters or years, and
\* never one with a result for each that it meets (service.py:318-337).
THEOREM FloorIsSound == Spec => []GapFloorIsSound
BY TypeCorrect, TypedFloor, PTL
=============================================================================
