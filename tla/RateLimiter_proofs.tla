------------------------- MODULE RateLimiter_proofs -------------------------
(***************************************************************************)
(* For any numbers of threads, keys and calls, any budget and any delay     *)
(* between the clock reading and the lock, a bucket is never overdrawn.     *)
(* The argument follows tokens - last * PerMinute, what the bucket would    *)
(* have held at time 0: refilling leaves it unchanged, the cap and every    *)
(* admitted call lower it, and nothing raises it.                           *)
(***************************************************************************)
EXTENDS RateLimiter, FiniteSetTheorems, TLAPS

USE LimiterAssumption

\* Every admitted call since the i-th is still charged to the bucket.
Charged ==
    \A k \in Keys : \A i \in DOMAIN admitted[k] :
        /\ k \in known
        /\ tokens[k] - last[k] * PerMinute + (Len(admitted[k]) - i + 1) * Minute
               <= Capacity - admitted[k][i] * PerMinute

\* No thread holds a reading from the future.
ReadBefore == \A c \in Callers : now[c] <= clock

LEMMA CapacityIsNat == Capacity \in Nat /\ Capacity >= Minute
<1>1. \A a, b \in Nat \ {0} : a * b \in Nat /\ a * b >= a
  <2> SUFFICES ASSUME NEW a \in Nat \ {0}, NEW b \in Nat \ {0} PROVE a * b \in Nat /\ a * b >= a
    OBVIOUS
  <2>1. a * (b - 1) >= 0 /\ a * b = a * (b - 1) + a
    OBVIOUS
  <2> QED BY <2>1
<1> QED BY <1>1 DEF Capacity

\* What lines 31 and 32 compute: at most a full bucket, at least what was left.
LEMMA LevelFacts ==
    ASSUME TypeOK, NEW k \in Keys, NEW t \in Nat
    PROVE  /\ Level(k, t) \in Int /\ Level(k, t) <= Capacity
           /\ k \in known => Level(k, t) - t * PerMinute <= tokens[k] - last[k] * PerMinute
           /\ \/ Level(k, t) = Capacity
              \/ k \in known /\ Level(k, t) - t * PerMinute = tokens[k] - last[k] * PerMinute
<1>1. (t - last[k]) * PerMinute = t * PerMinute - last[k] * PerMinute
  BY DEF TypeOK
<1>2. t * PerMinute \in Nat /\ last[k] * PerMinute \in Nat
  BY DEF TypeOK
<1> QED BY <1>1, <1>2, CapacityIsNat, SMTT(40) DEF TypeOK, Level

LEMMA TypesKept == TypeOK /\ [Next]_vars => TypeOK'
<1> SUFFICES ASSUME TypeOK, [Next]_vars PROVE TypeOK'
  OBVIOUS
<1> USE CapacityIsNat
<1>1. CASE Tick
  BY <1>1 DEF TypeOK, Tick, bucket
<1>2. ASSUME NEW c \in Callers, NEW k \in Keys, ReadClock(c, k) PROVE TypeOK'
  BY <1>2 DEF TypeOK, ReadClock, bucket
<1>3. ASSUME NEW c \in Callers, Refuse(c) PROVE TypeOK'
  <2>1. key[c] \in Keys /\ now[c] \in Nat
    BY DEF TypeOK
  <2>2. Level(key[c], now[c]) \in Int /\ Level(key[c], now[c]) <= Capacity
    BY <2>1, LevelFacts
  <2> QED BY <1>3, <2>1, <2>2 DEF TypeOK, Refuse, Store
<1>4. ASSUME NEW c \in Callers, Admit(c) PROVE TypeOK'
  <2>1. key[c] \in Keys /\ now[c] \in Nat
    BY DEF TypeOK
  <2>2. /\ Level(key[c], now[c]) - Minute \in Int
        /\ Level(key[c], now[c]) - Minute <= Capacity
    BY <2>1, LevelFacts
  <2>3. Append(admitted[key[c]], now[c]) \in Seq(Nat)
    BY <2>1 DEF TypeOK
  <2> QED BY <1>4, <2>1, <2>2, <2>3 DEF TypeOK, Admit, Store
<1>5. CASE UNCHANGED vars
  BY <1>5 DEF TypeOK, vars, bucket
<1> QED BY <1>1, <1>2, <1>3, <1>4, <1>5 DEF Next, Finished

LEMMA TypesHold == Spec => []TypeOK
<1>1. Init => TypeOK
  BY CapacityIsNat DEF Init, TypeOK
<1> QED BY <1>1, TypesKept, PTL DEF Spec

\* What a check that reads t does to the bucket of k, given how much it keeps.
LEMMA StoreKeepsCharged ==
    ASSUME TypeOK, Charged, NEW k \in Keys, NEW t \in Nat, NEW v \in Int, v <= Level(k, t),
           Store(k, v, t)
    PROVE  \A q \in Keys : \A i \in DOMAIN admitted[q] :
               /\ q \in known'
               /\ tokens'[q] - last'[q] * PerMinute + (Len(admitted[q]) - i + 1) * Minute
                        + (IF q = k THEN Level(k, t) - v ELSE 0)
                      <= Capacity - admitted[q][i] * PerMinute
<1> SUFFICES ASSUME NEW q \in Keys, NEW i \in DOMAIN admitted[q]
             PROVE  /\ q \in known'
                    /\ tokens'[q] - last'[q] * PerMinute + (Len(admitted[q]) - i + 1) * Minute
                             + (IF q = k THEN Level(k, t) - v ELSE 0)
                           <= Capacity - admitted[q][i] * PerMinute
  OBVIOUS
<1>1. /\ q \in known
      /\ tokens[q] - last[q] * PerMinute + (Len(admitted[q]) - i + 1) * Minute
             <= Capacity - admitted[q][i] * PerMinute
  BY DEF Charged
<1>2. /\ known' = known \cup {k}
      /\ tokens'[q] = IF q = k THEN v ELSE tokens[q]
      /\ last'[q] = IF q = k THEN t ELSE last[q]
  BY DEF Store, TypeOK
<1>3. /\ (Len(admitted[q]) - i + 1) * Minute \in Int /\ admitted[q][i] * PerMinute \in Int
      /\ tokens[q] \in Int /\ last[q] * PerMinute \in Int /\ t * PerMinute \in Int /\ Capacity \in Int
  <2>1. admitted[q] \in Seq(Nat) /\ i \in Nat /\ admitted[q][i] \in Nat
    BY DEF TypeOK
  <2> QED BY <2>1, CapacityIsNat, SMTT(40) DEF TypeOK
<1>4. CASE q # k
  BY <1>1, <1>2, <1>3, <1>4, SMTT(40)
<1>5. CASE q = k
  <2>1. Level(k, t) \in Int /\ Level(k, t) - t * PerMinute <= tokens[k] - last[k] * PerMinute
    BY <1>1, <1>5, LevelFacts
  <2>2. Level(k, t) - t * PerMinute + (Len(admitted[k]) - i + 1) * Minute
            <= Capacity - admitted[k][i] * PerMinute
    <3>1. PICK u \in Int : u = tokens[k] - last[k] * PerMinute
      BY <1>3, <1>5
    <3>2. PICK w \in Int, s \in Int, m \in Int, L \in Int :
             /\ w = t * PerMinute /\ s = admitted[k][i] * PerMinute
             /\ m = (Len(admitted[k]) - i + 1) * Minute
             /\ L = Level(k, t)
      BY <1>3, <1>5, <2>1
    <3>3. u + m <= Capacity - s
      BY <3>1, <3>2, <1>1, <1>5
    <3>4. L - w <= u
      BY <3>1, <3>2, <2>1
    <3>5. L - w + m <= Capacity - s
      BY <3>3, <3>4, <1>3
    <3> QED BY <3>2, <3>5
  <2> QED BY <2>1, <2>2, <1>1, <1>2, <1>3, <1>5, SMTT(40)
<1> QED BY <1>4, <1>5

\* An admitted call lowers what the bucket would have held at time 0 by one
\* token, so the calls charged since any earlier one still fit the bucket.
LEMMA AdmitKeepsCharged ==
    ASSUME TypeOK, Charged, NEW c \in Callers, Admit(c)
    PROVE  Charged'
<1> SUFFICES ASSUME NEW k \in Keys, k = key[c], NEW t \in Nat, t = now[c] PROVE Charged'
  BY DEF TypeOK
<1>1. Level(k, t) \in Int /\ Level(k, t) <= Capacity /\ Minute \in Nat /\ Capacity \in Int
  BY LevelFacts, CapacityIsNat
<1>2. Store(k, Level(k, t) - Minute, t)
  BY DEF Admit
<1>3. \A q \in Keys : \A i \in DOMAIN admitted[q] :
         /\ q \in known'
         /\ tokens'[q] - last'[q] * PerMinute + (Len(admitted[q]) - i + 1) * Minute
                  + (IF q = k THEN Minute ELSE 0)
                <= Capacity - admitted[q][i] * PerMinute
  <2>1. PICK v \in Int : v = Level(k, t) - Minute
    BY <1>1
  <2>2. Level(k, t) - v = Minute /\ v <= Level(k, t) /\ Store(k, v, t)
    BY <2>1, <1>1, <1>2
  <2> QED BY <2>2, StoreKeepsCharged
<1>4. /\ admitted'[k] = Append(admitted[k], t)
      /\ \A q \in Keys \ {k} : admitted'[q] = admitted[q]
      /\ tokens'[k] = Level(k, t) - Minute /\ last'[k] = t /\ k \in known'
  BY <1>2 DEF Admit, Store, TypeOK
<1> SUFFICES ASSUME NEW q \in Keys, NEW i \in DOMAIN admitted'[q]
             PROVE  /\ q \in known'
                    /\ tokens'[q] - last'[q] * PerMinute + (Len(admitted'[q]) - i + 1) * Minute
                           <= Capacity - admitted'[q][i] * PerMinute
  BY DEF Charged
<1>5. CASE q # k
  <2>1. admitted'[q] = admitted[q] /\ i \in DOMAIN admitted[q]
    BY <1>4, <1>5
  <2>2. tokens'[q] - last'[q] * PerMinute + (Len(admitted[q]) - i + 1) * Minute + 0
            <= Capacity - admitted[q][i] * PerMinute
    BY <2>1, <1>3, <1>5
  <2>3. tokens'[q] - last'[q] * PerMinute \in Int /\ (Len(admitted[q]) - i + 1) * Minute \in Int
    <3>1. tokens'[q] = tokens[q] /\ last'[q] = last[q] /\ admitted[q] \in Seq(Nat) /\ i \in Nat
      BY <2>1, <1>2, <1>5 DEF Store, TypeOK
    <3> QED BY <3>1 DEF TypeOK
  <2> QED BY <2>1, <2>2, <2>3, <1>3, <1>5
<1>6. CASE q = k
  <2>1. PICK n \in Nat : n = Len(admitted[k]) /\ Len(admitted'[k]) = n + 1 /\ DOMAIN admitted[k] = 1..n
    <3>1. admitted[k] \in Seq(Nat) /\ t \in Nat
      BY DEF TypeOK
    <3>2. /\ Len(admitted[k]) \in Nat /\ DOMAIN admitted[k] = 1..Len(admitted[k])
          /\ Len(Append(admitted[k], t)) = Len(admitted[k]) + 1
      BY <3>1
    <3> QED BY <3>2, <1>4
  <2>2. admitted[k] \in Seq(Nat) /\ i \in 1..(n + 1) /\ admitted'[k] = Append(admitted[k], t)
    BY <2>1, <1>4, <1>6 DEF TypeOK
  <2>3. t * PerMinute \in Int
    OBVIOUS
  <2>4. CASE i = n + 1
    <3>1. admitted'[k][i] = t
      BY <2>1, <2>2, <2>4
    <3>2. (n + 1 - i + 1) * Minute = Minute
      BY <2>4, <1>1
    <3>3. Level(k, t) - Minute - t * PerMinute + Minute <= Capacity - t * PerMinute
      BY <1>1, <2>3
    <3>4. (Len(admitted'[q]) - i + 1) * Minute = Minute /\ admitted'[q][i] = t
      <4>1. Len(admitted'[q]) = n + 1
        BY <2>1, <1>6
      <4>2. admitted'[q][i] = t
        BY <3>1, <1>6
      <4> QED BY <3>2, <4>1, <4>2, SMTT(40)
    <3> QED BY <3>3, <3>4, <1>4, <1>6
  <2>5. CASE i \in 1..n
    <3>1. admitted'[k][i] = admitted[k][i] /\ admitted[k][i] \in Nat
      BY <2>1, <2>2, <2>5
    <3>2. tokens'[k] - last'[k] * PerMinute + (n - i + 1) * Minute + Minute
              <= Capacity - admitted[k][i] * PerMinute
      BY <1>3, <2>1, <2>5
    <3>3. (n + 1 - i + 1) * Minute = (n - i + 1) * Minute + Minute /\ (n - i + 1) * Minute \in Int
      BY <2>5, <1>1
    <3>4. tokens'[k] - last'[k] * PerMinute \in Int
      BY <1>1, <1>4, <2>3
    <3>5. tokens'[k] - last'[k] * PerMinute + (n + 1 - i + 1) * Minute
              <= Capacity - admitted[k][i] * PerMinute
      BY <3>2, <3>3, <3>4, <1>1
    <3>6. tokens'[k] - last'[k] * PerMinute + (Len(admitted'[k]) - i + 1) * Minute
              <= Capacity - admitted'[k][i] * PerMinute
      BY <3>1, <3>5, <2>1, <2>5
    <3> QED BY <3>6, <1>4, <1>6
  <2> QED BY <2>1, <2>2, <2>4, <2>5, SMTT(40)
<1> QED BY <1>5, <1>6

\* A refused call charges nothing and may only lose what exceeds the cap.
LEMMA RefuseKeepsCharged ==
    ASSUME TypeOK, Charged, NEW c \in Callers, Refuse(c)
    PROVE  Charged'
<1> SUFFICES ASSUME NEW k \in Keys, k = key[c], NEW t \in Nat, t = now[c] PROVE Charged'
  BY DEF TypeOK
<1>1. Level(k, t) \in Int
  BY LevelFacts
<1>2. Store(k, Level(k, t), t) /\ admitted' = admitted
  BY DEF Refuse
<1>3. \A q \in Keys : \A i \in DOMAIN admitted[q] :
         /\ q \in known'
         /\ tokens'[q] - last'[q] * PerMinute + (Len(admitted[q]) - i + 1) * Minute
                  + (IF q = k THEN 0 ELSE 0)
                <= Capacity - admitted[q][i] * PerMinute
  <2>1. Level(k, t) - Level(k, t) = 0 /\ Level(k, t) <= Level(k, t)
    BY <1>1
  <2> QED BY <2>1, <1>1, <1>2, StoreKeepsCharged, SMTT(40)
<1> SUFFICES ASSUME NEW q \in Keys, NEW i \in DOMAIN admitted[q]
             PROVE  /\ q \in known'
                    /\ tokens'[q] - last'[q] * PerMinute + (Len(admitted[q]) - i + 1) * Minute
                           <= Capacity - admitted[q][i] * PerMinute
  BY <1>2 DEF Charged
<1>4. tokens'[q] - last'[q] * PerMinute + (Len(admitted[q]) - i + 1) * Minute \in Int
  <2>1. tokens'[q] \in Int /\ last'[q] \in Nat /\ admitted[q] \in Seq(Nat) /\ i \in Nat
    BY <1>1, <1>2 DEF Store, TypeOK
  <2> QED BY <2>1, SMTT(40)
<1> QED BY <1>3, <1>4

LEMMA ChargedHolds == Spec => []Charged
<1>1. Init => Charged
  BY DEF Init, Charged
<1>2. TypeOK /\ Charged /\ [Next]_vars => Charged'
  <2> SUFFICES ASSUME TypeOK, Charged, [Next]_vars PROVE Charged'
    OBVIOUS
  <2>1. CASE Tick
    BY <2>1 DEF Tick, Charged, bucket
  <2>2. ASSUME NEW c \in Callers, NEW k \in Keys, ReadClock(c, k) PROVE Charged'
    BY <2>2 DEF ReadClock, Charged, bucket
  <2>3. CASE UNCHANGED vars
    BY <2>3 DEF vars, Charged, bucket
  <2> QED BY <2>1, <2>2, <2>3, AdmitKeepsCharged, RefuseKeepsCharged DEF Next, Finished
<1> QED BY <1>1, <1>2, TypesHold, PTL DEF Spec

-----------------------------------------------------------------------------
\* The type invariant, which says too that no bucket ever holds more than the
\* capacity, whatever clock readings are applied to it (ratelimit.py:32).
THEOREM TypeCorrect == Spec => []TypeOK
  BY TypesHold

\* When a call is admitted, the calls charged since any earlier one and the
\* new one together fit the budget, since the level covers the new one.
LEMMA OneMoreFits ==
    ASSUME TypeOK, Charged, WithinBudget, NEW c \in Callers, Admit(c)
    PROVE  WithinBudget'
<1> SUFFICES ASSUME NEW k \in Keys, k = key[c], NEW t \in Nat, t = now[c] PROVE WithinBudget'
  BY DEF TypeOK
<1>1. PICK L \in Int : L = Level(k, t) /\ L >= Minute /\ L <= Capacity
  BY LevelFacts DEF Admit
<1>2. admitted[k] \in Seq(Nat) /\ Minute \in Nat /\ Capacity \in Int /\ t * PerMinute \in Int
  BY CapacityIsNat DEF TypeOK
<1>3. PICK n \in Nat : n = Len(admitted[k]) /\ DOMAIN admitted[k] = 1..n
  BY <1>2
<1>4. /\ admitted'[k] = Append(admitted[k], t) /\ DOMAIN admitted'[k] = 1..(n + 1)
      /\ \A q \in Keys \ {k} : admitted'[q] = admitted[q]
  BY <1>2, <1>3 DEF Admit, TypeOK
<1> SUFFICES ASSUME NEW q \in Keys, NEW j \in DOMAIN admitted'[q], NEW i \in 1..j
             PROVE  (j - i + 1) * Minute <= Capacity + (admitted'[q][j] - admitted'[q][i]) * PerMinute
  BY DEF WithinBudget
<1>5. CASE q # k
  BY <1>4, <1>5 DEF WithinBudget
<1>6. CASE q = k /\ j \in 1..n
  <2>1. admitted'[k][j] = admitted[k][j] /\ admitted'[k][i] = admitted[k][i]
    BY <1>2, <1>3, <1>4, <1>6
  <2> QED BY <2>1, <1>3, <1>6 DEF WithinBudget
<1>7. q = k => j \in 1..(n + 1)
  BY <1>4
<1>8. CASE q = k /\ j = n + 1
  <2>1. admitted'[k][j] = t
    BY <1>2, <1>3, <1>4, <1>8
  <2>2. CASE i = n + 1
    <3>1. (j - i + 1) * Minute = Minute /\ (admitted'[k][j] - admitted'[k][i]) * PerMinute = 0
      BY <2>1, <2>2, <1>8
    <3>2. (j - i + 1) * Minute <= Capacity + (admitted'[k][j] - admitted'[k][i]) * PerMinute
      BY <3>1, <1>1, <1>2
    <3> QED BY <3>2, <1>8
  <2>3. CASE i \in 1..n
    <3>1. admitted'[k][i] = admitted[k][i] /\ admitted[k][i] \in Nat
      <4>1. admitted'[k] = Append(admitted[k], t) /\ i \in 1..Len(admitted[k])
        BY <1>3, <1>4, <2>3
      <4> QED BY <4>1, <1>2, SMTT(40)
    <3>2. PICK s \in Int, u \in Int, m \in Int, w \in Int :
             /\ s = admitted[k][i] * PerMinute
             /\ u = tokens[k] - last[k] * PerMinute
             /\ m = (n - i + 1) * Minute
             /\ w = t * PerMinute
      <4>1. tokens[k] - last[k] * PerMinute \in Int
        BY DEF TypeOK
      <4> QED BY <4>1, <3>1, <2>3
    <3>3. u + m <= Capacity - s /\ k \in known
      BY <3>2, <1>3, <2>3 DEF Charged
    <3>4. L - w <= u
      BY <3>2, <3>3, <1>1, LevelFacts
    <3>5. m + Minute <= Capacity + (w - s)
      BY <3>3, <3>4, <1>1, <1>2, SMTT(40)
    <3>6. (j - i + 1) * Minute = m + Minute
      BY <3>2, <1>8, <2>3
    <3>7. (t - admitted[k][i]) * PerMinute = w - s
      BY <3>1, <3>2
    <3> QED BY <3>1, <3>5, <3>6, <3>7, <2>1, <1>8
  <2> QED BY <2>2, <2>3, <1>8
<1>9. q = k => j \in 1..n \/ j = n + 1
  BY <1>7
<1> QED BY <1>5, <1>6, <1>8, <1>9

\* However late the threads apply their clock readings and however many there
\* are, no requester is ever admitted beyond the budget (ratelimit.py:27-36).
THEOREM NeverOverBudget == Spec => []WithinBudget
<1>1. Init => WithinBudget
  BY DEF Init, WithinBudget
<1>2. TypeOK /\ Charged /\ WithinBudget /\ [Next]_vars => WithinBudget'
  <2> SUFFICES ASSUME TypeOK, Charged, WithinBudget, [Next]_vars PROVE WithinBudget'
    OBVIOUS
  <2>1. CASE UNCHANGED admitted
    BY <2>1 DEF WithinBudget
  <2>2. UNCHANGED admitted \/ \E c \in Callers : Admit(c)
    BY DEF Next, Tick, ReadClock, Refuse, Finished, vars
  <2> QED BY <2>1, <2>2, OneMoreFits
<1> QED BY <1>1, <1>2, TypesHold, ChargedHolds, PTL DEF Spec

\* The level a check stores covers the time since its reading.
LEMMA StoreRepays ==
    ASSUME TypeOK, ReadBefore, SoonServedAgain, NEW c \in Callers, NEW k \in Keys, k = key[c],
           NEW v \in Int, Store(k, v, now[c]), clock' = clock,
           v = Level(k, now[c]) \/ v >= 0
    PROVE  SoonServedAgain'
<1>1. PICK t \in Nat : t = now[c] /\ t <= clock
  BY DEF TypeOK, ReadBefore
<1>2. clock \in Nat /\ clock * PerMinute \in Nat /\ t * PerMinute \in Nat /\ last[k] * PerMinute \in Int
  BY DEF TypeOK
<1>3. t * PerMinute <= clock * PerMinute
  <2>1. (clock - t) * PerMinute >= 0 /\ (clock - t) * PerMinute = clock * PerMinute - t * PerMinute
    BY <1>1, <1>2
  <2> QED BY <2>1, <1>2
<1>4. v + (clock - t) * PerMinute >= 0
  <2>1. (clock - t) * PerMinute = clock * PerMinute - t * PerMinute
    BY <1>1, <1>2
  <2>2. CASE v >= 0
    BY <2>1, <2>2, <1>2, <1>3
  <2>3. CASE v = Level(k, t) /\ Level(k, t) = Capacity
    BY <2>1, <2>3, <1>2, <1>3, CapacityIsNat
  <2>4. CASE /\ k \in known /\ v = Level(k, t)
             /\ Level(k, t) - t * PerMinute = tokens[k] - last[k] * PerMinute
    <3>1. tokens[k] + (clock - last[k]) * PerMinute >= 0
      BY <2>4 DEF SoonServedAgain
    <3>2. (clock - last[k]) * PerMinute = clock * PerMinute - last[k] * PerMinute /\ tokens[k] \in Int
      BY DEF TypeOK
    <3> QED BY <3>1, <3>2, <2>1, <2>4, <1>2
  <2> QED BY <2>2, <2>3, <2>4, <1>1, LevelFacts
<1> SUFFICES ASSUME NEW q \in known' PROVE tokens'[q] + (clock' - last'[q]) * PerMinute >= 0
  BY DEF SoonServedAgain
<1>5. CASE q = k
  BY <1>1, <1>4, <1>5 DEF Store, TypeOK
<1>6. CASE q # k
  BY <1>6 DEF Store, TypeOK, SoonServedAgain
<1> QED BY <1>5, <1>6

\* Whatever was refused and however late it was applied, the debt of a bucket
\* is at most what has been refilled since (ratelimit.py:29-36).
THEOREM DebtIsRepaid == Spec => []SoonServedAgain
<1>1. Init => ReadBefore /\ SoonServedAgain
  BY DEF Init, ReadBefore, SoonServedAgain
<1>2. TypeOK /\ ReadBefore /\ SoonServedAgain /\ [Next]_vars => ReadBefore' /\ SoonServedAgain'
  <2> SUFFICES ASSUME TypeOK, ReadBefore, SoonServedAgain, [Next]_vars
               PROVE  ReadBefore' /\ SoonServedAgain'
    OBVIOUS
  <2>1. CASE Tick
    <3>1. ReadBefore'
      BY <2>1 DEF Tick, ReadBefore, TypeOK
    <3>2. ASSUME NEW k \in known PROVE tokens[k] + (clock + 1 - last[k]) * PerMinute >= 0
      <4>1. /\ tokens[k] \in Int /\ last[k] \in Nat /\ clock \in Nat
            /\ tokens[k] + (clock - last[k]) * PerMinute >= 0
        BY DEF TypeOK, SoonServedAgain
      <4>2. (clock + 1 - last[k]) * PerMinute = (clock - last[k]) * PerMinute + PerMinute
        BY <4>1
      <4> QED BY <4>1, <4>2
    <3>3. clock' = clock + 1 /\ tokens' = tokens /\ last' = last /\ known' = known
      BY <2>1 DEF Tick, bucket
    <3>4. SoonServedAgain'
      <4> SUFFICES ASSUME NEW k \in known' PROVE tokens'[k] + (clock' - last'[k]) * PerMinute >= 0
        BY DEF SoonServedAgain
      <4>1. k \in known /\ tokens'[k] = tokens[k] /\ last'[k] = last[k] /\ clock' = clock + 1
        BY <3>3
      <4>2. clock \in Nat /\ last[k] \in Nat /\ tokens[k] \in Int
        BY <4>1 DEF TypeOK
      <4> QED BY <4>1, <4>2, <3>2
    <3> QED BY <3>1, <3>4
  <2>2. ASSUME NEW c \in Callers, NEW k \in Keys, ReadClock(c, k)
        PROVE  ReadBefore' /\ SoonServedAgain'
    BY <2>2 DEF ReadClock, ReadBefore, SoonServedAgain, TypeOK, bucket
  <2>3. ASSUME NEW c \in Callers, Refuse(c) PROVE ReadBefore' /\ SoonServedAgain'
    <3>1. key[c] \in Keys /\ now[c] \in Nat
      BY DEF TypeOK
    <3>2. Level(key[c], now[c]) \in Int
      BY <3>1, LevelFacts
    <3>3. SoonServedAgain'
      BY <2>3, <3>1, <3>2, StoreRepays DEF Refuse
    <3> QED BY <2>3, <3>3 DEF Refuse, ReadBefore
  <2>4. ASSUME NEW c \in Callers, Admit(c) PROVE ReadBefore' /\ SoonServedAgain'
    <3>1. key[c] \in Keys /\ now[c] \in Nat
      BY DEF TypeOK
    <3>2. PICK v \in Int : v = Level(key[c], now[c]) - Minute /\ v >= 0
      BY <2>4, <3>1, LevelFacts DEF Admit
    <3>3. SoonServedAgain'
      BY <2>4, <3>1, <3>2, StoreRepays DEF Admit
    <3> QED BY <2>4, <3>3 DEF Admit, ReadBefore
  <2>5. CASE UNCHANGED vars
    BY <2>5 DEF vars, bucket, ReadBefore, SoonServedAgain
  <2> QED BY <2>1, <2>2, <2>3, <2>4, <2>5 DEF Next, Finished
<1> QED BY <1>1, <1>2, TypesHold, PTL DEF Spec

-----------------------------------------------------------------------------
(* A refusal means that the last minute's calls have used up the budget.     *)

\* The admitted calls of k that read the clock after s.
After(k, s) == {i \in DOMAIN admitted[k] : admitted[k][i] > s}

\* What the bucket would have held at time 0 is lowered only by the admitted
\* calls and by the cap.  The calls that read the clock at s or earlier lower
\* it to -s * PerMinute at most, for none is admitted without a whole token,
\* and the cap to that of a bucket full now.
Spent(k, s) ==
    LET kept == tokens[k] - last[k] * PerMinute
        spent == Cardinality(After(k, s)) * Minute
    IN  \/ kept + spent >= -(s * PerMinute)
        \/ kept + spent >= Capacity - clock * PerMinute

OnlySpent == \A k \in Keys : \A s \in Int : Spent(k, s)

LEMMA AfterIsFinite ==
    ASSUME TypeOK, NEW k \in Keys, NEW s \in Int
    PROVE  IsFiniteSet(After(k, s)) /\ Cardinality(After(k, s)) \in Nat
<1>1. After(k, s) \subseteq 1..Len(admitted[k]) /\ Len(admitted[k]) \in Nat
  BY DEF TypeOK, After
<1>2. IsFiniteSet(1..Len(admitted[k]))
  BY <1>1, FS_Interval
<1> QED BY <1>1, <1>2, FS_Subset, FS_CardinalityType

\* One more call, which counts if it read the clock after s.
LEMMA OneMoreAfter ==
    ASSUME TypeOK, NEW k \in Keys, NEW s \in Int, NEW t \in Nat,
           admitted'[k] = Append(admitted[k], t)
    PROVE  Cardinality(After(k, s))' = Cardinality(After(k, s)) + (IF t > s THEN 1 ELSE 0)
<1>1. admitted[k] \in Seq(Nat)
  BY DEF TypeOK
<1>2. PICK n \in Nat : n = Len(admitted[k])
  BY <1>1
<1>3. /\ DOMAIN admitted[k] = 1..n /\ DOMAIN admitted'[k] = 1..(n + 1)
      /\ \A i \in 1..n : admitted'[k][i] = admitted[k][i]
      /\ admitted'[k][n + 1] = t
  BY <1>1, <1>2
<1>4. After(k, s)' = {i \in DOMAIN admitted'[k] : admitted'[k][i] > s}
  BY DEF After
<1>5. n + 1 \notin After(k, s)
  BY <1>3 DEF After
<1>6. CASE t > s
  <2>1. After(k, s)' = After(k, s) \cup {n + 1}
    BY <1>3, <1>4, <1>6 DEF After
  <2> QED BY <2>1, <1>5, <1>6, AfterIsFinite, FS_AddElement
<1>7. CASE ~(t > s)
  <2>1. After(k, s)' = After(k, s)
    BY <1>3, <1>4, <1>7 DEF After
  <2> QED BY <2>1, <1>7, AfterIsFinite
<1> QED BY <1>6, <1>7

\* A check of k keeps what is spent, if what it admits is counted.
LEMMA CheckKeepsSpent ==
    ASSUME TypeOK, ReadBefore, OnlySpent, NEW c \in Callers, Refuse(c) \/ Admit(c)
    PROVE  OnlySpent'
<1> SUFFICES ASSUME NEW q \in Keys, NEW s \in Int PROVE Spent(q, s)'
  BY DEF OnlySpent
<1>1. PICK k \in Keys : k = key[c]
  BY DEF TypeOK
<1>2. PICK t \in Nat : t = now[c] /\ t <= clock
  BY DEF TypeOK, ReadBefore
<1>3. PICK L \in Int : L = Level(k, t)
  BY LevelFacts
<1>4. CASE q # k
  <2>1. tokens'[q] = tokens[q] /\ last'[q] = last[q] /\ admitted'[q] = admitted[q] /\ clock' = clock
    BY <1>1, <1>4 DEF Refuse, Admit, Store, TypeOK
  <2>2. After(q, s)' = After(q, s)
    BY <2>1 DEF After
  <2>3. Spent(q, s)
    BY DEF OnlySpent
  <2> QED BY <2>1, <2>2, <2>3 DEF Spent
<1>5. CASE q = k
  <2>1. PICK a \in {0, 1} : /\ tokens'[k] = L - a * Minute /\ last'[k] = t
                            /\ a = 0 => admitted'[k] = admitted[k]
                            /\ a = 1 => L >= Minute /\ admitted'[k] = Append(admitted[k], t)
    <3>1. CASE Refuse(c)
      <4>1. tokens'[k] = L - 0 * Minute /\ last'[k] = t /\ admitted'[k] = admitted[k]
        BY <3>1, <1>1, <1>2, <1>3 DEF Refuse, Store, TypeOK
      <4> QED BY <4>1
    <3>2. CASE Admit(c)
      <4>1. /\ tokens'[k] = L - 1 * Minute /\ last'[k] = t /\ L >= Minute
            /\ admitted'[k] = Append(admitted[k], t)
        BY <3>2, <1>1, <1>2, <1>3 DEF Admit, Store, TypeOK
      <4> QED BY <4>1
    <3> QED BY <3>1, <3>2
  <2>2. PICK n \in Nat : n = Cardinality(After(k, s))
    BY AfterIsFinite
  <2>3. PICK e \in {0, 1} : /\ Cardinality(After(k, s))' = n + e
                            /\ e = 0 /\ a = 1 => t <= s
                            /\ e <= a
    <3>1. CASE a = 0
      <4>1. After(k, s)' = After(k, s)
        BY <2>1, <3>1 DEF After
      <4> QED BY <4>1, <2>2, <3>1
    <3>2. CASE a = 1
      BY <2>1, <2>2, <3>2, OneMoreAfter
    <3> QED BY <3>1, <3>2
  <2>4. PICK w \in Int, m \in Int, x \in Int, C \in Int, y \in Int, u \in Int :
           /\ w = t * PerMinute /\ m = n * Minute /\ x = s * PerMinute
           /\ C = clock * PerMinute /\ y = (n + e) * Minute
           /\ u = tokens[k] - last[k] * PerMinute
    <3>1. tokens[k] - last[k] * PerMinute \in Int /\ clock * PerMinute \in Int
      BY DEF TypeOK
    <3> QED BY <3>1
  <2>5. w <= C /\ (t <= s => w <= x) /\ y = m + e * Minute
    <3>1. (clock - t) * PerMinute >= 0 /\ (clock - t) * PerMinute = C - w /\ clock \in Nat
      <4>1. clock \in Nat /\ clock - t >= 0
        BY <1>2 DEF TypeOK
      <4>2. (clock - t) * PerMinute = clock * PerMinute - t * PerMinute
        BY <4>1
      <4>3. (clock - t) * PerMinute >= 0
        BY <4>1
      <4> QED BY <4>1, <4>2, <4>3, <2>4
    <3>2. t <= s => (s - t) * PerMinute >= 0 /\ (s - t) * PerMinute = x - w
      BY <2>4
    <3>3. (n + e) * Minute = n * Minute + e * Minute
      OBVIOUS
    <3> QED BY <3>1, <3>2, <3>3, <2>4
  <2>6. u + m >= -x \/ u + m >= Capacity - C
    BY <2>2, <2>4 DEF OnlySpent, Spent
  <2>7. L = Capacity \/ L - w = u
    BY <1>3, <2>4, LevelFacts
  <2>8. L - a * Minute - w + y >= -x \/ L - a * Minute - w + y >= Capacity - C
    <3>1. m >= 0 /\ Capacity \in Nat
      BY <2>4, CapacityIsNat
    <3>2. CASE a = 0
      <4>1. e = 0 /\ y = m /\ a * Minute = 0
        BY <2>3, <2>5, <3>2
      <4> QED BY <4>1, <3>1, <2>5, <2>6, <2>7
    <3>3. CASE a = 1 /\ e = 1
      <4>1. y = m + Minute /\ a * Minute = Minute
        BY <2>5, <3>3
      <4> QED BY <4>1, <3>1, <2>5, <2>6, <2>7
    <3>4. CASE a = 1 /\ e = 0
      <4>1. y = m /\ a * Minute = Minute /\ L >= Minute /\ w <= x
        BY <2>1, <2>3, <2>5, <3>4
      <4> QED BY <4>1, <3>1
    <3> QED BY <3>2, <3>3, <3>4
  <2>9. clock' = clock
    BY DEF Refuse, Admit
  <2>10. tokens'[k] - last'[k] * PerMinute = L - a * Minute - w
    BY <2>1, <2>4
  <2>11. Cardinality(After(k, s))' * Minute = y
    BY <2>3, <2>4
  <2> QED BY <2>4, <2>8, <2>9, <2>10, <2>11, <1>5 DEF Spent
<1> QED BY <1>4, <1>5

LEMMA SpentHolds == Spec => [](ReadBefore /\ OnlySpent)
<1>1. Init => ReadBefore /\ OnlySpent
  <2> SUFFICES ASSUME Init, NEW k \in Keys, NEW s \in Int PROVE Spent(k, s)
    BY DEF Init, ReadBefore, OnlySpent
  <2>1. tokens[k] - last[k] * PerMinute = Capacity /\ Capacity - clock * PerMinute = Capacity
    BY CapacityIsNat DEF Init
  <2>2. After(k, s) = {}
    BY DEF Init, After
  <2>3. Cardinality(After(k, s)) * Minute = 0
    BY <2>2, FS_EmptySet
  <2> QED BY <2>1, <2>3, CapacityIsNat DEF Spent
<1>2. TypeOK /\ ReadBefore /\ OnlySpent /\ [Next]_vars => ReadBefore' /\ OnlySpent'
  <2> SUFFICES ASSUME TypeOK, ReadBefore, OnlySpent, [Next]_vars
               PROVE  ReadBefore' /\ OnlySpent'
    OBVIOUS
  <2>1. CASE Tick
    <3>1. clock' = clock + 1 /\ UNCHANGED <<tokens, last, admitted, now>> /\ clock \in Nat
      BY <2>1 DEF Tick, bucket, TypeOK
    <3>2. ReadBefore'
      BY <3>1 DEF ReadBefore, TypeOK
    <3>3. ASSUME NEW k \in Keys, NEW s \in Int PROVE Spent(k, s)'
      <4>1. Spent(k, s) /\ After(k, s)' = After(k, s)
        BY <3>1 DEF OnlySpent, After
      <4>2. (clock + 1) * PerMinute = clock * PerMinute + PerMinute /\ clock * PerMinute \in Int
        BY <3>1
      <4>3. PICK v \in Int : v = tokens[k] - last[k] * PerMinute + Cardinality(After(k, s)) * Minute
        <5>1. Cardinality(After(k, s)) \in Nat
          BY AfterIsFinite
        <5>2. tokens[k] \in Int /\ last[k] * PerMinute \in Int
          BY DEF TypeOK
        <5> QED BY <5>1, <5>2
      <4>4. v >= -(s * PerMinute) \/ v >= Capacity - (clock + 1) * PerMinute
        BY <4>1, <4>2, <4>3, CapacityIsNat DEF Spent
      <4> QED BY <3>1, <4>1, <4>3, <4>4 DEF Spent
    <3> QED BY <3>2, <3>3 DEF OnlySpent
  <2>2. ASSUME NEW c \in Callers, NEW k \in Keys, ReadClock(c, k)
        PROVE  ReadBefore' /\ OnlySpent'
    <3>1. UNCHANGED <<clock, tokens, last, admitted>> /\ now' = [now EXCEPT ![c] = clock]
      BY <2>2 DEF ReadClock, bucket
    <3>2. ReadBefore'
      BY <3>1 DEF ReadBefore, TypeOK
    <3> QED BY <3>1, <3>2 DEF OnlySpent, Spent, After
  <2>3. ASSUME NEW c \in Callers, Refuse(c) \/ Admit(c) PROVE ReadBefore' /\ OnlySpent'
    BY <2>3, CheckKeepsSpent DEF Refuse, Admit, ReadBefore
  <2>4. CASE UNCHANGED vars
    BY <2>4 DEF vars, bucket, ReadBefore, OnlySpent, Spent, After
  <2> QED BY <2>1, <2>2, <2>3, <2>4 DEF Next, Finished
<1> QED BY <1>1, <1>2, TypesHold, PTL DEF Spec

\* With no burst beyond a minute's calls, as the service builds the limiter
\* (service.py:144), a call is refused only when those admitted in the last
\* minute have used up the budget, but for the refill of the time by which its
\* check was late for the lock (ratelimit.py:33-35).
THEOREM RefusesOnlyOverBudget ==
    ASSUME Capacity <= Minute * PerMinute
    PROVE  Spec => RefusedOverBudget
<1>1. TypeOK /\ ReadBefore /\ OnlySpent /\ [Next]_vars =>
          [\A c \in Callers : Refuse(c) =>
              Cardinality(LastMinute(key[c], now[c])) * Minute
                 + (clock - now[c]) * PerMinute > Capacity - Minute]_vars
  <2> SUFFICES ASSUME TypeOK, ReadBefore, OnlySpent, NEW c \in Callers, Refuse(c)
               PROVE  Cardinality(LastMinute(key[c], now[c])) * Minute
                         + (clock - now[c]) * PerMinute > Capacity - Minute
    OBVIOUS
  <2>1. PICK k \in Keys : k = key[c]
    BY DEF TypeOK
  <2>2. PICK t \in Nat : t = now[c] /\ t <= clock
    BY DEF TypeOK, ReadBefore
  <2>3. LastMinute(k, t) = After(k, t - Minute) /\ t - Minute \in Int
    BY DEF LastMinute, After
  <2>4. PICK n \in Nat : n = Cardinality(LastMinute(k, t))
    BY <2>3, AfterIsFinite
  <2>5. PICK w \in Int, m \in Int, C \in Int, u \in Int, b \in Int, L \in Int :
           /\ w = t * PerMinute /\ m = n * Minute /\ C = clock * PerMinute
           /\ u = tokens[k] - last[k] * PerMinute
           /\ b = Minute * PerMinute /\ L = Level(k, t)
    <3>1. tokens[k] - last[k] * PerMinute \in Int /\ clock * PerMinute \in Int
      BY DEF TypeOK
    <3>2. Level(k, t) \in Int
      BY LevelFacts
    <3> QED BY <3>1, <3>2
  <2>6. (t - Minute) * PerMinute = w - b /\ (clock - t) * PerMinute = C - w /\ w <= C
    <3>1. (clock - t) * PerMinute >= 0 /\ clock \in Nat
      BY <2>2 DEF TypeOK
    <3>2. (clock - t) * PerMinute = C - w /\ (t - Minute) * PerMinute = w - b
      BY <3>1, <2>5
    <3> QED BY <3>1, <3>2
  <2>7. u + m >= -(w - b) \/ u + m >= Capacity - C
    BY <2>3, <2>4, <2>5, <2>6 DEF OnlySpent, Spent
  <2>8. L < Minute /\ L - w = u
    <3>1. L < Minute
      BY <2>1, <2>2, <2>5 DEF Refuse
    <3> QED BY <3>1, <2>5, CapacityIsNat, LevelFacts
  <2>9. Capacity <= b /\ Capacity \in Nat
    BY <2>5, CapacityIsNat
  <2>10. m + (C - w) > Capacity - Minute
    BY <2>6, <2>7, <2>8, <2>9
  <2> QED BY <2>1, <2>2, <2>4, <2>5, <2>6, <2>10
<1> QED BY <1>1, TypesHold, SpentHolds, PTL DEF Spec, RefusedOverBudget
=============================================================================
