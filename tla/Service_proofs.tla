--------------------------- MODULE Service_proofs ---------------------------
(***************************************************************************)
(* Theorems about Directory and about Service, which extends it, for any    *)
(* number of threads and any edits of users.json.  Every step of the wrapper*)
(* is a step of the directory or leaves it alone, so what is shown of the   *)
(* directory alone holds under any traffic; and no record cites a snapshot  *)
(* newer than the one that decided its call.                                *)
(***************************************************************************)
EXTENDS Service, TLAPS

USE DirectoryAssumption, ServiceAssumption

-----------------------------------------------------------------------------
(* The inductive invariant.                                                 *)

\* Clock readings, edits and stamps follow one another.
Ordered ==
    /\ checkedAt <= clock
    /\ \A t \in Threads : now[t] <= clock
    /\ \A k \in Snapshots : at[k] <= clock
    /\ \A j, k \in Snapshots : j <= k => stamp[j] <= stamp[k]

\* What is in force is at least as new as _mtime says.
Cached ==
    /\ mtime <= stamp[users]
    /\ mtime <= stamp[version]
    /\ version <= users

\* Snapshot s takes over every edit made before reading c.
Covers(s, c) == \A k \in Snapshots : at[k] < c => stamp[k] <= stamp[s]

\* What the thread inside the lock knows.
Loading(t) ==
    /\ load[t] \in InLock => checkedAt = now[t]
    /\ load[t] \in {"read", "users", "version"} => mtime <= seen[t]
    /\ load[t] = "read" => seen[t] <= stamp[edits]
    /\ load[t] \in {"users", "version"} =>
          /\ seen[t] <= stamp[got[t]]
          /\ users <= got[t]
          /\ Covers(got[t], now[t])
    /\ load[t] = "version" => users = got[t]

\* With the lock free, the last check took over what it had to, or raised.
Settled == lock = None => Covers(users, checkedAt) \/ checkedAt \in failed

\* A thread that leaves _load is up to date, or the load it passed by is still
\* under way, or it raised.
Passed(t) ==
    load[t] = "done" =>
        FreshFor(t) \/ RaisedLately(t) \/ (lock # None /\ checkedAt + Ttl > now[t])

Loads == \A t \in Threads : Loading(t)
Passes == \A t \in Threads : Passed(t)
DirInv == DirTypeOK /\ Ordered /\ Cached /\ Loads /\ Settled /\ Passes

-----------------------------------------------------------------------------
(* Types.                                                                   *)

LEMMA TypesInit == DirInit => DirTypeOK
  BY DEF DirInit, DirTypeOK, Snapshots, LoadLabels, InLock

\* The thread that moves is the only one whose label and locals change.
LEMMA TypesKept == ASSUME DirTypeOK, [DirNext]_dirVars PROVE DirTypeOK'
<1> USE DEF DirTypeOK, GoTo, contents, snapshot, local, raised
<1>1. CASE Tick
  <2>1. clock' \in 0..MaxTime
    BY <1>1 DEF Tick
  <2> QED
    BY <1>1, <2>1 DEF Tick, Snapshots
<1>2. ASSUME NEW callers \in SUBSET Callers, NEW m \in 0..MaxEdits, Sync(callers, m)
      PROVE  DirTypeOK'
  <2>1. edits' \in 1..MaxEdits /\ edits' = edits + 1 /\ Snapshots \subseteq Snapshots' /\ m \in Nat
    BY <1>2 DEF Sync, Snapshots
  <2>2. /\ members' \in [1..MaxEdits -> SUBSET Callers]
        /\ stamp' \in [1..MaxEdits -> Nat] /\ at' \in [1..MaxEdits -> Nat]
    BY <1>2, <2>1, SMTT(40) DEF Sync
  <2>3. users' \in Snapshots' /\ version' \in Snapshots' /\ got' \in [Threads -> Snapshots']
    BY <1>2, <2>1 DEF Sync
  <2> QED
    BY <1>2, <2>1, <2>2, <2>3 DEF Sync
<1>3. ASSUME NEW t \in Threads, ReadClock(t) PROVE DirTypeOK'
  BY <1>3, SMTT(40) DEF ReadClock, LoadLabels, InLock, Snapshots
<1>4. ASSUME NEW t \in Threads, Check(t) PROVE DirTypeOK'
  BY <1>4 DEF Check, LoadLabels, InLock, Snapshots
<1>5. ASSUME NEW t \in Threads, Acquire(t) PROVE DirTypeOK'
  BY <1>5 DEF Acquire, LoadLabels, InLock, Snapshots
<1>6. ASSUME NEW t \in Threads, Stat(t) PROVE DirTypeOK'
  <2>1. stamp[edits] \in Nat
    OBVIOUS
  <2>2. lock = t /\ \A q \in Threads \ {t} : load[q] \notin InLock
    BY <1>6, DirectoryAssumption DEF Stat, InLock
  <2>3. \/ lock' = None /\ load' = [load EXCEPT ![t] = "done"]
        \/ lock' = lock /\ load' = [load EXCEPT ![t] = "read"]
    BY <1>6 DEF Stat
  <2>4. \A q \in Threads : load'[q] \in InLock <=> lock' = q
    <3>1. CASE lock' = None /\ load' = [load EXCEPT ![t] = "done"]
      BY <2>2, <3>1, DirectoryAssumption DEF InLock
    <3>2. CASE lock' = lock /\ load' = [load EXCEPT ![t] = "read"]
      BY <2>2, <3>2 DEF InLock
    <3> QED
      BY <2>3, <3>1, <3>2
  <2>5. load' \in [Threads -> LoadLabels] /\ lock' \in Threads \cup {None}
    BY <2>2, <2>3 DEF LoadLabels
  <2> QED
    BY <1>6, <2>1, <2>4, <2>5 DEF Stat, Snapshots
<1>7. ASSUME NEW t \in Threads, Read(t) PROVE DirTypeOK'
  BY <1>7, SMTT(40) DEF Read, LoadLabels, InLock, Snapshots
<1>8. ASSUME NEW t \in Threads, SetUsers(t) PROVE DirTypeOK'
  BY <1>8 DEF SetUsers, LoadLabels, InLock, Snapshots
<1>9. ASSUME NEW t \in Threads, SetVersion(t) PROVE DirTypeOK'
  BY <1>9 DEF SetVersion, LoadLabels, InLock, Snapshots
<1>10. ASSUME NEW t \in Threads, LoadFails(t) PROVE DirTypeOK'
  <2>1. failed' = failed \cup {now[t]} /\ now[t] \in Nat /\ faults' \in 0..MaxFaults
    BY <1>10 DEF LoadFails
  <2>2. lock = t /\ \A q \in Threads \ {t} : load[q] \notin InLock
    BY <1>10, DirectoryAssumption DEF LoadFails, InLock
  <2>3. lock' = None /\ load' = [load EXCEPT ![t] = "failed"]
    BY <1>10 DEF LoadFails
  <2>4. \A q \in Threads : load'[q] \in InLock <=> lock' = q
    BY <2>2, <2>3, DirectoryAssumption DEF InLock
  <2>5. load' \in [Threads -> LoadLabels]
    BY <2>3 DEF LoadLabels
  <2> QED
    BY <1>10, <2>1, <2>3, <2>4, <2>5 DEF LoadFails, Snapshots
<1>11. ASSUME NEW t \in Threads, Leave(t) PROVE DirTypeOK'
  <2>1. got' \in [Threads -> Snapshots']
    BY <1>11 DEF Leave, Snapshots
  <2>2. \A q \in Threads : load'[q] \in InLock <=> load[q] \in InLock
    BY <1>11 DEF Leave, InLock
  <2> QED
    BY <1>11, <2>1, <2>2 DEF Leave, LoadLabels, Snapshots
<1>12. CASE UNCHANGED dirVars
  BY <1>12 DEF dirVars, Snapshots
<1> QED
  BY <1>1, <1>2, <1>3, <1>4, <1>5, <1>6, <1>7, <1>8, <1>9, <1>10, <1>11, <1>12
  DEF DirNext, World, LoadStep

\* The type invariant, for any threads and any edits.
THEOREM DirTypeCorrect == DirSpec => []DirTypeOK
  BY TypesInit, TypesKept, PTL DEF DirSpec

-----------------------------------------------------------------------------
(* The other parts of the invariant, one action at a time.                  *)

\* An edit leaves the earlier contents alone.
LEMMA EditFrame ==
    ASSUME DirTypeOK, Ordered, NEW callers \in SUBSET Callers, NEW m \in 0..MaxEdits, Sync(callers, m)
    PROVE  /\ edits' = edits + 1 /\ edits \in Nat /\ edits + 1 \in 1..MaxEdits
           /\ \A k \in Snapshots : stamp'[k] = stamp[k] /\ at'[k] = at[k] /\ stamp[k] <= m
           /\ stamp'[edits + 1] = m /\ at'[edits + 1] = clock
           /\ UNCHANGED <<clock, snapshot, lock, local, raised>>
<1>1. edits' = edits + 1 /\ edits \in 1..MaxEdits /\ edits + 1 \in 1..MaxEdits
  BY DEF Sync, DirTypeOK
<1>2. \A k \in Snapshots : stamp'[k] = stamp[k] /\ at'[k] = at[k]
  BY <1>1, SMTT(40) DEF Sync, DirTypeOK, Snapshots
<1>3. \A k \in Snapshots : stamp[k] <= m
  <2>1. stamp[edits] <= m
    BY <1>1 DEF Sync, DirTypeOK
  <2>2. ASSUME NEW k \in Snapshots PROVE stamp[k] <= m
    <3>1. stamp[k] <= stamp[edits] /\ stamp[k] \in Nat /\ stamp[edits] \in Nat
      BY <1>1 DEF Ordered, DirTypeOK, Snapshots
    <3> QED
      BY <2>1, <3>1
  <2> QED
    BY <2>2
<1>4. stamp'[edits + 1] = m /\ at'[edits + 1] = clock
  BY <1>1 DEF Sync, DirTypeOK
<1> QED
  BY <1>1, <1>2, <1>3, <1>4 DEF Sync

\* A thread's step leaves the file, the clock and the other threads alone.
ThreadStep(t) == ReadClock(t) \/ LoadStep(t) \/ LoadFails(t) \/ Leave(t)

LEMMA StepFrame ==
    ASSUME DirTypeOK, NEW t \in Threads, ThreadStep(t)
    PROVE  /\ UNCHANGED <<clock, edits, stamp, at>>
           /\ \A q \in Threads \ {t} : /\ load'[q] = load[q] /\ now'[q] = now[q]
                                        /\ seen'[q] = seen[q] /\ got'[q] = got[q]
<1> USE DEF DirTypeOK, GoTo, contents, snapshot
<1>1. CASE ReadClock(t)
  BY <1>1 DEF ReadClock
<1>2. CASE Check(t)
  BY <1>2 DEF Check
<1>3. CASE Acquire(t)
  BY <1>3 DEF Acquire
<1>4. CASE Stat(t)
  <2>1. \E label \in {"done", "read"} : load' = [load EXCEPT ![t] = label]
    BY <1>4 DEF Stat
  <2> QED
    BY <1>4, <2>1 DEF Stat
<1>5. CASE Read(t)
  BY <1>5 DEF Read
<1>6. CASE SetUsers(t)
  BY <1>6 DEF SetUsers
<1>7. CASE SetVersion(t)
  BY <1>7 DEF SetVersion
<1>8. CASE LoadFails(t)
  BY <1>8 DEF LoadFails
<1>9. CASE Leave(t)
  BY <1>9 DEF Leave
<1> QED
  BY <1>1, <1>2, <1>3, <1>4, <1>5, <1>6, <1>7, <1>8, <1>9 DEF ThreadStep, LoadStep

\* Every content so far has a stamp, and the one in the file is the last.
LEMMA ContentsTyped ==
    ASSUME DirTypeOK
    PROVE  /\ edits \in Snapshots /\ users \in Snapshots /\ version \in Snapshots
           /\ \A k \in Snapshots : k \in Nat /\ k <= edits /\ stamp[k] \in Nat /\ at[k] \in Nat
<1>1. edits \in 1..MaxEdits /\ Snapshots \subseteq 1..MaxEdits
  BY DEF DirTypeOK, Snapshots
<1> QED
  BY <1>1 DEF DirTypeOK, Snapshots

\* Later contents carry later stamps, so a snapshot with the stamp of the file
\* covers every edit.
LEMMA NewestCovers ==
    ASSUME DirTypeOK, Ordered, NEW s \in Snapshots, NEW c \in Nat, stamp[edits] <= stamp[s]
    PROVE  Covers(s, c)
<1> SUFFICES ASSUME NEW k \in Snapshots PROVE stamp[k] <= stamp[s]
  BY DEF Covers
<1>1. edits \in Snapshots /\ k <= edits
  BY DEF DirTypeOK, Snapshots
<1>2. stamp[k] <= stamp[edits]
  BY <1>1 DEF Ordered
<1>3. stamp[k] \in Nat /\ stamp[edits] \in Nat /\ stamp[s] \in Nat
  BY <1>1 DEF DirTypeOK, Snapshots
<1> QED
  BY <1>2, <1>3

\* Fresh when what was in the file before c is taken over, and c is within Ttl.
LEMMA CoversIsFresh ==
    ASSUME DirTypeOK, NEW t \in Threads, NEW c \in Nat, Covers(users, c), c + Ttl > now[t]
    PROVE  FreshFor(t)
<1> SUFFICES ASSUME NEW k \in Snapshots, at[k] + Ttl <= now[t] PROVE at[k] < c
  BY DEF FreshFor, Covers
<1>1. at[k] \in Nat /\ now[t] \in Nat /\ Ttl \in Nat
  BY DirectoryAssumption DEF DirTypeOK, Snapshots
<1> QED
  BY <1>1

-----------------------------------------------------------------------------
(* The steps of a thread.                                                    *)

\* The thread inside the lock sees no other thread change the snapshot.
LEMMA OthersLoad ==
    ASSUME DirInv, NEW t \in Threads, ThreadStep(t), NEW q \in Threads \ {t}
    PROVE  Loading(q)'
<1>1. /\ UNCHANGED <<clock, edits, stamp, at>>
      /\ load'[q] = load[q] /\ now'[q] = now[q] /\ seen'[q] = seen[q] /\ got'[q] = got[q]
  BY StepFrame DEF DirInv
<1>2. CASE load[q] \notin InLock
  BY <1>1, <1>2 DEF Loading, InLock
<1>3. CASE load[q] \in InLock
  <2>1. lock = q /\ load[t] \notin InLock /\ lock # None
    BY <1>3, DirectoryAssumption DEF DirInv, DirTypeOK
  <2>2. UNCHANGED <<users, version, mtime, checkedAt>>
    BY <2>1 DEF ThreadStep, LoadStep, ReadClock, Check, Acquire, Stat, Read, SetUsers,
                SetVersion, LoadFails, Leave, InLock, snapshot
  <2>3. Loading(q)
    BY DEF DirInv, Loads
  <2> QED
    BY <1>1, <2>2, <2>3 DEF Loading, Covers, Snapshots
<1> QED
  BY <1>2, <1>3

\* No step puts an older snapshot in force.
LEMMA UsersAdvance ==
    ASSUME DirInv, NEW t \in Threads, ThreadStep(t)
    PROVE  users <= users' /\ stamp[users] <= stamp[users']
<1>1. users \in Nat /\ stamp[users] \in Nat
  BY DEF DirInv, DirTypeOK, Snapshots
<1>2. CASE SetUsers(t)
  <2>1. users' = got[t] /\ users <= got[t] /\ got[t] \in Snapshots /\ users \in Snapshots
    BY <1>2 DEF SetUsers, DirInv, DirTypeOK, Loads, Loading
  <2> QED
    BY <2>1 DEF DirInv, Ordered
<1>3. CASE ~SetUsers(t)
  <2>1. users' = users
    BY <1>3 DEF ThreadStep, LoadStep, ReadClock, Check, Acquire, Stat, Read,
                SetVersion, LoadFails, Leave, snapshot
  <2> QED
    BY <1>1, <2>1
<1> QED
  BY <1>2, <1>3

\* What was fresh for a thread that does not move stays so.
LEMMA FreshStays ==
    ASSUME DirInv, NEW t \in Threads, ThreadStep(t), NEW q \in Threads \ {t}, FreshFor(q), DirTypeOK'
    PROVE  FreshFor(q)'
<1>1. UNCHANGED <<edits, stamp, at>> /\ now'[q] = now[q]
  BY StepFrame DEF DirInv
<1>2. SUFFICES ASSUME NEW k \in Snapshots, at[k] < now[q], at[k] + Ttl <= now[q]
               PROVE  stamp[k] <= stamp[users']
  BY <1>1 DEF FreshFor, Snapshots
<1>3. stamp[k] <= stamp[users] /\ stamp[users] <= stamp[users']
  BY <1>2, UsersAdvance DEF FreshFor
<1>4. k \in 1..MaxEdits /\ users \in 1..MaxEdits /\ users' \in 1..MaxEdits
  <2>1. edits \in 1..MaxEdits /\ users \in 1..edits /\ k \in 1..edits
    BY DEF DirInv, DirTypeOK, Snapshots
  <2>2. users' \in 1..edits
    BY <1>1 DEF DirTypeOK, Snapshots
  <2> QED
    BY <2>1, <2>2
<1>5. stamp[k] \in Nat /\ stamp[users] \in Nat /\ stamp[users'] \in Nat
  BY <1>4 DEF DirInv, DirTypeOK
<1> QED
  BY <1>3, <1>5

\* A load that raised stays on record.
LEMMA RaisedStays ==
    ASSUME DirTypeOK, NEW t \in Threads, ThreadStep(t), NEW q \in Threads \ {t}, RaisedLately(q)
    PROVE  RaisedLately(q)'
<1>1. now'[q] = now[q]
  BY StepFrame
<1>2. failed \subseteq failed'
  BY DEF ThreadStep, LoadStep, ReadClock, Check, Acquire, Stat, Read, SetUsers, SetVersion,
         LoadFails, Leave, raised
<1> QED
  BY <1>1, <1>2 DEF RaisedLately

\* Readings of the clock stay in its past.
LEMMA OrderedStays == ASSUME DirInv, NEW t \in Threads, ThreadStep(t) PROVE Ordered'
<1>1. UNCHANGED <<clock, edits, stamp, at>>
  BY StepFrame DEF DirInv
<1>2. checkedAt' \in {checkedAt, now[t]} /\ now'[t] \in {now[t], clock, 0}
  BY DEF ThreadStep, LoadStep, ReadClock, Check, Acquire, Stat, Read, SetUsers, SetVersion,
         LoadFails, Leave, snapshot, DirInv, DirTypeOK
<1>3. \A q \in Threads : now'[q] <= clock
  <2>1. now'[t] <= clock
    BY <1>2 DEF DirInv, DirTypeOK, Ordered
  <2>2. \A q \in Threads \ {t} : now'[q] = now[q]
    BY StepFrame DEF DirInv
  <2> QED
    BY <2>1, <2>2 DEF DirInv, Ordered
<1>4. checkedAt' <= clock
  BY <1>2 DEF DirInv, Ordered
<1> QED
  BY <1>1, <1>3, <1>4 DEF DirInv, Ordered, Snapshots

LEMMA OutsideKept ==
    ASSUME DirInv, DirTypeOK', NEW t \in Threads, ReadClock(t) \/ Leave(t)
    PROVE  Cached' /\ Loads' /\ Settled' /\ Passes'
<1>1. ThreadStep(t)
  BY DEF ThreadStep
<1>2. UNCHANGED <<edits, stamp, at, users, version, mtime, checkedAt, lock, failed>>
  BY DEF ReadClock, Leave, contents, snapshot, raised
<1>3. load'[t] \in {"check", "off"}
  BY DEF ReadClock, Leave, GoTo, DirInv, DirTypeOK
<1>4. Cached' /\ Settled'
  BY <1>2 DEF DirInv, Cached, Settled, Covers, Snapshots
<1>5. ASSUME NEW q \in Threads PROVE Loading(q)'
  BY <1>1, <1>3, OthersLoad DEF Loading, InLock
<1>6. ASSUME NEW q \in Threads PROVE Passed(q)'
  <2>1. CASE q = t
    BY <1>3, <2>1 DEF Passed
  <2>2. CASE q # t
    <3>1. load'[q] = load[q] /\ now'[q] = now[q]
      BY <1>1, <2>2, StepFrame DEF DirInv
    <3>2. Passed(q)
      BY DEF DirInv, Passes
    <3> QED
      BY <1>2, <3>1, <3>2 DEF Passed, FreshFor, RaisedLately, Snapshots
  <2> QED
    BY <2>1, <2>2
<1> QED
  BY <1>4, <1>5, <1>6 DEF Loads, Passes

\* Line 50: a thread that finds the last check recent enough goes on without
\* the lock.
LEMMA CheckKept ==
    ASSUME DirInv, DirTypeOK', NEW t \in Threads, Check(t)
    PROVE  Cached' /\ Loads' /\ Settled' /\ Passes'
<1>1. ThreadStep(t)
  BY DEF ThreadStep, LoadStep
<1>2. UNCHANGED <<edits, stamp, at, users, version, mtime, checkedAt, lock, failed, now>>
  BY DEF Check, contents, snapshot, raised
<1>3. load'[t] \in {"lock", "done"} /\ (load'[t] = "done" => ~Due(t))
  BY DEF Check, GoTo, DirInv, DirTypeOK
<1>4. Cached' /\ Settled'
  BY <1>2 DEF DirInv, Cached, Settled, Covers, Snapshots
<1>5. ASSUME NEW q \in Threads PROVE Loading(q)'
  BY <1>1, <1>3, OthersLoad DEF Loading, InLock
<1>6. ASSUME load'[t] = "done" PROVE FreshFor(t) \/ RaisedLately(t) \/ (lock # None /\ checkedAt + Ttl > now[t])
  <2>1. checkedAt + Ttl > now[t] /\ checkedAt \in Nat
    <3>1. checkedAt \in Nat /\ now[t] \in Nat /\ Ttl \in Nat
      BY DirectoryAssumption DEF DirInv, DirTypeOK
    <3> QED
      BY <1>3, <1>6, <3>1 DEF Due
  <2>2. CASE lock # None
    BY <2>1, <2>2
  <2>3. CASE lock = None /\ checkedAt \in failed
    BY <2>1, <2>3 DEF RaisedLately
  <2>4. CASE lock = None /\ Covers(users, checkedAt)
    BY <2>1, <2>4, CoversIsFresh DEF DirInv
  <2> QED
    BY <2>2, <2>3, <2>4 DEF DirInv, Settled
<1>7. ASSUME NEW q \in Threads PROVE Passed(q)'
  <2>1. CASE q = t
    BY <1>2, <1>6, <2>1 DEF Passed, FreshFor, RaisedLately, Snapshots
  <2>2. CASE q # t
    <3>1. load'[q] = load[q]
      BY <1>1, <2>2, StepFrame DEF DirInv
    <3>2. Passed(q)
      BY DEF DirInv, Passes
    <3> QED
      BY <1>2, <3>1, <3>2 DEF Passed, FreshFor, RaisedLately, Snapshots
  <2> QED
    BY <2>1, <2>2
<1> QED
  BY <1>4, <1>5, <1>7 DEF Loads, Passes

\* A thread that passed by a load under way is up to date once the load ends.
LEMMA PassedStays ==
    ASSUME DirInv, DirTypeOK', NEW t \in Threads, ThreadStep(t), NEW q \in Threads \ {t},
           load[q] = "done" /\ lock # None /\ checkedAt + Ttl > now[q] =>
               FreshFor(q)' \/ RaisedLately(q)' \/ (lock' # None /\ checkedAt' = checkedAt)
    PROVE  Passed(q)'
<1>1. load'[q] = load[q] /\ now'[q] = now[q]
  BY StepFrame DEF DirInv
<1>2. Passed(q)
  BY DEF DirInv, Passes
<1> QED
  BY <1>1, <1>2, FreshStays, RaisedStays DEF Passed, DirInv

LEMMA AcquireKept ==
    ASSUME DirInv, DirTypeOK', NEW t \in Threads, Acquire(t)
    PROVE  Cached' /\ Loads' /\ Settled' /\ Passes'
<1>1. ThreadStep(t)
  BY DEF ThreadStep, LoadStep
<1>2. UNCHANGED <<edits, stamp, users, version, mtime, now>> /\ checkedAt' = now[t]
  BY DEF Acquire, contents
<1>3. lock = None /\ lock' = t /\ load'[t] = "stat"
  BY DEF Acquire, GoTo, DirInv, DirTypeOK
<1>4. Cached'
  BY <1>2 DEF DirInv, Cached
<1>5. Settled'
  BY <1>3, DirectoryAssumption DEF Settled
<1>6. ASSUME NEW q \in Threads PROVE Loading(q)'
  BY <1>1, <1>2, <1>3, OthersLoad DEF Loading, InLock
<1>7. ASSUME NEW q \in Threads PROVE Passed(q)'
  <2>1. CASE q = t
    BY <1>3, <2>1 DEF Passed
  <2>2. CASE q # t
    BY <1>1, <1>3, <2>2, PassedStays
  <2> QED
    BY <2>1, <2>2
<1> QED
  BY <1>4, <1>5, <1>6, <1>7 DEF Loads, Passes

LEMMA StatKept ==
    ASSUME DirInv, DirTypeOK', NEW t \in Threads, Stat(t)
    PROVE  Cached' /\ Loads' /\ Settled' /\ Passes'
<1>1. ThreadStep(t)
  BY DEF ThreadStep, LoadStep
<1>2. /\ UNCHANGED <<edits, stamp, at, users, version, mtime, checkedAt, failed, now>>
      /\ load[t] = "stat" /\ seen'[t] = stamp[edits]
  BY DEF Stat, contents, snapshot, raised, DirInv, DirTypeOK
<1>3. Cached'
  BY <1>2 DEF DirInv, Cached
<1>4. checkedAt = now[t] /\ checkedAt \in Nat /\ lock = t
  BY <1>2 DEF DirInv, Loads, Loading, InLock, DirTypeOK
<1>5. users \in Snapshots /\ edits \in Snapshots /\ mtime <= stamp[edits]
  <2>1. users \in Snapshots /\ edits \in Snapshots /\ users <= edits
    BY DEF DirInv, DirTypeOK, Snapshots
  <2>2. stamp[users] <= stamp[edits] /\ mtime <= stamp[users]
    BY <2>1 DEF DirInv, Ordered, Cached
  <2>3. mtime \in Nat /\ stamp[users] \in Nat /\ stamp[edits] \in Nat
    BY ContentsTyped DEF DirInv, DirTypeOK
  <2> QED
    BY <2>1, <2>2, <2>3
<1>6. CASE stamp[edits] = mtime
  <2>1. lock' = None /\ load'[t] = "done"
    BY <1>6 DEF Stat, GoTo, DirInv, DirTypeOK
  <2>2. stamp[edits] <= stamp[users]
    BY <1>6 DEF DirInv, Cached
  <2>3. \A c \in Nat : Covers(users, c)
    BY <1>5, <2>2, NewestCovers DEF DirInv
  <2>4. Settled'
    BY <1>2, <1>4, <2>3 DEF Settled, Covers, Snapshots
  <2>5. \A q \in Threads : FreshFor(q)'
    <3>1. \A q \in Threads : Covers(users, now[q]) /\ now'[q] = now[q]
      BY <1>2, <2>3 DEF DirInv, DirTypeOK
    <3> QED
      BY <1>2, <3>1 DEF FreshFor, Covers, Snapshots
  <2>6. Passes'
    BY <2>5 DEF Passes, Passed
  <2>7. Loads'
    BY <1>1, <2>1, OthersLoad DEF Loads, Loading, InLock
  <2> QED
    BY <1>3, <2>4, <2>6, <2>7
<1>7. CASE stamp[edits] # mtime
  <2>1. lock' = t /\ load'[t] = "read"
    BY <1>4, <1>7 DEF Stat, GoTo, DirInv, DirTypeOK
  <2>2. Settled'
    BY <2>1, DirectoryAssumption DEF Settled
  <2>3. Loading(t)'
    BY <1>2, <1>4, <1>5, <2>1 DEF Loading, InLock, DirInv, DirTypeOK, Snapshots
  <2>4. Loads'
    BY <1>1, <2>3, OthersLoad DEF Loads
  <2>5. ASSUME NEW q \in Threads PROVE Passed(q)'
    <3>1. CASE q = t
      BY <2>1, <3>1 DEF Passed
    <3>2. CASE q # t
      BY <1>1, <1>2, <2>1, <3>2, PassedStays, DirectoryAssumption
    <3> QED
      BY <3>1, <3>2
  <2> QED
    BY <1>3, <2>2, <2>4, <2>5 DEF Passes
<1> QED
  BY <1>6, <1>7

LEMMA ReadKept ==
    ASSUME DirInv, DirTypeOK', NEW t \in Threads, Read(t)
    PROVE  Cached' /\ Loads' /\ Settled' /\ Passes'
<1>1. ThreadStep(t)
  BY DEF ThreadStep, LoadStep
<1>2. /\ UNCHANGED <<edits, stamp, at, users, version, mtime, checkedAt, lock, now, seen>>
      /\ load[t] = "read" /\ load'[t] = "users" /\ got'[t] = edits
  BY DEF Read, GoTo, contents, snapshot, DirInv, DirTypeOK
<1>3. Cached'
  BY <1>2 DEF DirInv, Cached
<1>4. lock = t /\ Settled'
  BY <1>2, DirectoryAssumption DEF DirInv, DirTypeOK, Settled, InLock
<1>5. Loading(t)'
  <2>1. checkedAt = now[t] /\ mtime <= seen[t] /\ seen[t] <= stamp[edits]
    BY <1>2 DEF DirInv, Loads, Loading, InLock
  <2>2. users <= edits /\ Covers(edits, now[t])
    <3>1. edits \in Snapshots /\ users <= edits /\ stamp[edits] \in Nat
      BY ContentsTyped DEF DirInv
    <3>2. now[t] \in Nat
      BY DEF DirInv, DirTypeOK
    <3> QED
      BY <3>1, <3>2, NewestCovers DEF DirInv
  <2> QED
    BY <1>2, <2>1, <2>2 DEF Loading, Covers, Snapshots, InLock
<1>6. Loads'
  BY <1>1, <1>5, OthersLoad DEF Loads
<1>7. ASSUME NEW q \in Threads PROVE Passed(q)'
  BY <1>1, <1>2, <1>4, PassedStays, DirectoryAssumption DEF Passed
<1> QED
  BY <1>3, <1>4, <1>6, <1>7 DEF Passes

LEMMA SetUsersKept ==
    ASSUME DirInv, DirTypeOK', NEW t \in Threads, SetUsers(t)
    PROVE  Cached' /\ Loads' /\ Settled' /\ Passes'
<1>1. ThreadStep(t)
  BY DEF ThreadStep, LoadStep
<1>2. /\ UNCHANGED <<edits, stamp, at, version, mtime, checkedAt, lock, now, seen, got>>
      /\ load[t] = "users" /\ load'[t] = "version" /\ users' = got[t]
  BY DEF SetUsers, GoTo, contents, DirInv, DirTypeOK
<1>3. /\ checkedAt = now[t] /\ mtime <= seen[t] /\ seen[t] <= stamp[got[t]]
      /\ users <= got[t] /\ Covers(got[t], now[t])
  BY <1>2 DEF DirInv, Loads, Loading, InLock
<1>4. Cached'
  <2>1. /\ mtime \in Nat /\ seen[t] \in Nat /\ got[t] \in Snapshots /\ stamp[got[t]] \in Nat
        /\ users \in Nat /\ version \in Nat /\ got[t] \in Nat
    BY ContentsTyped DEF DirInv, DirTypeOK
  <2>2. mtime <= stamp[got[t]] /\ version <= got[t]
    BY <1>3, <2>1 DEF DirInv, Cached
  <2> QED
    BY <1>2, <2>2 DEF DirInv, Cached
<1>5. lock = t /\ Settled'
  BY <1>2, DirectoryAssumption DEF DirInv, DirTypeOK, Settled, InLock
<1>6. Loading(t)'
  <2>1. got[t] \in Snapshots
    BY DEF DirInv, DirTypeOK
  <2>2. got[t] \in Nat
    BY <2>1, ContentsTyped DEF DirInv
  <2> QED
    BY <1>2, <1>3, <2>2 DEF Loading, Covers, Snapshots, InLock
<1>7. Loads'
  BY <1>1, <1>6, OthersLoad DEF Loads
<1>8. ASSUME NEW q \in Threads PROVE Passed(q)'
  BY <1>1, <1>2, <1>5, PassedStays, DirectoryAssumption DEF Passed
<1> QED
  BY <1>4, <1>5, <1>7, <1>8 DEF Passes

LEMMA SetVersionKept ==
    ASSUME DirInv, DirTypeOK', NEW t \in Threads, SetVersion(t)
    PROVE  Cached' /\ Loads' /\ Settled' /\ Passes'
<1>1. ThreadStep(t)
  BY DEF ThreadStep, LoadStep
<1>2. /\ UNCHANGED <<edits, stamp, at, users, checkedAt, now, failed>>
      /\ load[t] = "version" /\ load'[t] = "done" /\ lock' = None
      /\ version' = got[t] /\ mtime' = seen[t]
  BY DEF SetVersion, GoTo, contents, raised, DirInv, DirTypeOK
<1>3. /\ checkedAt = now[t] /\ seen[t] <= stamp[got[t]]
      /\ users = got[t] /\ Covers(users, checkedAt)
  BY <1>2 DEF DirInv, Loads, Loading, InLock
<1>4. users \in Nat /\ checkedAt \in Nat
  BY ContentsTyped DEF DirInv, DirTypeOK
<1>5. Cached'
  BY <1>2, <1>3, <1>4 DEF Cached
<1>6. Settled'
  BY <1>2, <1>3 DEF Settled, Covers, Snapshots
<1>7. Loads'
  BY <1>1, <1>2, OthersLoad DEF Loads, Loading, InLock
<1>8. ASSUME NEW q \in Threads, FreshFor(q) PROVE FreshFor(q)'
  BY <1>2, <1>8 DEF FreshFor, Snapshots
<1>9. ASSUME NEW q \in Threads PROVE Passed(q)'
  <2>1. CASE q = t
    <3>1. FreshFor(t)
      BY <1>3 DEF Covers, FreshFor
    <3> QED
      BY <1>8, <2>1, <3>1 DEF Passed
  <2>2. CASE q # t
    BY <1>1, <1>3, <1>4, <1>8, <2>2, PassedStays, CoversIsFresh DEF DirInv
  <2> QED
    BY <2>1, <2>2
<1> QED
  BY <1>5, <1>6, <1>7, <1>9 DEF Passes

LEMMA FailsKept ==
    ASSUME DirInv, DirTypeOK', NEW t \in Threads, LoadFails(t)
    PROVE  Cached' /\ Loads' /\ Settled' /\ Passes'
<1>1. ThreadStep(t)
  BY DEF ThreadStep
<1>2. /\ UNCHANGED <<edits, stamp, at, users, version, mtime, checkedAt, now>>
      /\ load[t] \in {"stat", "read"} /\ load'[t] = "failed"
      /\ failed' = failed \cup {now[t]}
  BY DEF LoadFails, GoTo, contents, snapshot, DirInv, DirTypeOK
<1>3. checkedAt = now[t]
  BY <1>2 DEF DirInv, Loads, Loading, InLock
<1>4. Cached' /\ Settled'
  BY <1>2, <1>3 DEF DirInv, Cached, Settled
<1>5. Loads'
  BY <1>1, <1>2, OthersLoad DEF Loads, Loading, InLock
<1>6. ASSUME NEW q \in Threads PROVE Passed(q)'
  <2>1. CASE q = t
    BY <1>2, <2>1 DEF Passed
  <2>2. CASE q # t
    <3>1. checkedAt + Ttl > now[q] => RaisedLately(q)'
      BY <1>2, <1>3 DEF RaisedLately
    <3> QED
      BY <1>1, <2>2, <3>1, PassedStays
  <2> QED
    BY <2>1, <2>2
<1> QED
  BY <1>4, <1>5, <1>6 DEF Passes

-----------------------------------------------------------------------------
(* The steps of the world.                                                   *)

LEMMA TickKept ==
    ASSUME DirInv, Tick
    PROVE  Ordered' /\ Cached' /\ Loads' /\ Settled' /\ Passes'
<1>1. /\ clock' = clock + 1 /\ clock \in Nat
      /\ UNCHANGED <<edits, stamp, at, users, version, mtime, checkedAt, lock, failed>>
      /\ UNCHANGED <<load, now, seen, got>>
  BY DEF Tick, contents, snapshot, local, raised, DirInv, DirTypeOK
<1>2. Ordered'
  <2>1. /\ checkedAt \in Nat /\ \A t \in Threads : now[t] \in Nat
        /\ \A k \in Snapshots : at[k] \in Nat
    BY ContentsTyped DEF DirInv, DirTypeOK
  <2> QED
    BY <1>1, <2>1 DEF DirInv, Ordered, Snapshots
<1>3. Cached' /\ Settled'
  BY <1>1 DEF DirInv, Cached, Settled, Covers, Snapshots
<1>4. Loads'
  BY <1>1 DEF DirInv, Loads, Loading, Covers, Snapshots
<1>5. Passes'
  BY <1>1 DEF DirInv, Passes, Passed, FreshFor, RaisedLately, Snapshots
<1> QED
  BY <1>2, <1>3, <1>4, <1>5

LEMMA SyncKept ==
    ASSUME DirInv, NEW callers \in SUBSET Callers, NEW m \in 0..MaxEdits, Sync(callers, m)
    PROVE  Ordered' /\ Cached' /\ Loads' /\ Settled' /\ Passes'
<1>1. /\ edits' = edits + 1 /\ edits \in Nat
      /\ \A k \in Snapshots : stamp'[k] = stamp[k] /\ at'[k] = at[k] /\ stamp[k] <= m
      /\ stamp'[edits + 1] = m /\ at'[edits + 1] = clock
      /\ UNCHANGED <<clock, users, version, mtime, checkedAt, lock, load, now, seen, got, failed>>
  BY EditFrame DEF DirInv, snapshot, local, raised
<1>2. /\ \A k \in Snapshots' : k \in Snapshots \/ k = edits + 1
      /\ \A k \in Snapshots : k \in Snapshots' /\ k <= edits
  BY <1>1 DEF Snapshots
<1>3. clock \in Nat /\ m \in Nat
  BY DEF DirInv, DirTypeOK
<1>4. \A s \in Snapshots, c \in Nat : c <= clock /\ Covers(s, c) => Covers(s, c)'
  <2> SUFFICES ASSUME NEW s \in Snapshots, NEW c \in Nat, c <= clock, Covers(s, c),
                      NEW k \in Snapshots', at'[k] < c
               PROVE  stamp'[k] <= stamp'[s]
    BY DEF Covers
  <2>1. k \in Snapshots
    BY <1>1, <1>2, <1>3
  <2> QED
    BY <1>1, <2>1 DEF Covers
<1>5. Ordered'
  <2>1. \A k \in Snapshots' : at'[k] <= clock
    BY <1>1, <1>2, <1>3 DEF DirInv, Ordered
  <2>2. ASSUME NEW j \in Snapshots', NEW k \in Snapshots', j <= k PROVE stamp'[j] <= stamp'[k]
    <3>1. CASE k \in Snapshots
      <4>1. j \in Snapshots
        BY <1>1, <1>2, <2>2, <3>1 DEF Snapshots
      <4> QED
        BY <1>1, <2>2, <3>1, <4>1 DEF DirInv, Ordered
    <3>2. CASE k = edits + 1
      BY <1>1, <1>2, <1>3, <3>2
    <3> QED
      BY <1>2, <3>1, <3>2
  <2> QED
    BY <1>1, <2>1, <2>2 DEF DirInv, Ordered
<1>6. users \in Snapshots /\ version \in Snapshots /\ \A t \in Threads : got[t] \in Snapshots
  BY DEF DirInv, DirTypeOK
<1>7. Cached'
  BY <1>1, <1>6 DEF DirInv, Cached
<1>8. checkedAt \in Nat /\ \A t \in Threads : now[t] \in Nat /\ seen[t] \in Nat
  BY DEF DirInv, DirTypeOK
<1>9. Settled'
  BY <1>1, <1>4, <1>6, <1>8 DEF DirInv, Ordered, Settled
<1>10. ASSUME NEW t \in Threads PROVE Loading(t)'
  <2>1. Loading(t) /\ now[t] <= clock
    BY DEF DirInv, Loads, Ordered
  <2>2. load[t] = "read" => seen[t] <= stamp'[edits']
    <3>1. edits \in Snapshots /\ stamp[edits] <= m /\ stamp[edits] \in Nat
      BY <1>1, ContentsTyped DEF DirInv
    <3> QED
      BY <1>1, <1>3, <1>8, <2>1, <3>1 DEF Loading
  <2>3. load[t] \in {"users", "version"} => Covers(got[t], now[t])'
    BY <1>1, <1>4, <1>6, <1>8, <2>1 DEF Loading, Covers
  <2> QED
    BY <1>1, <1>6, <2>1, <2>2, <2>3 DEF Loading
<1>11. ASSUME NEW t \in Threads PROVE Passed(t)'
  <2>1. FreshFor(t) => FreshFor(t)'
    <3> SUFFICES ASSUME FreshFor(t), NEW k \in Snapshots', at'[k] < now[t], at'[k] + Ttl <= now[t]
                 PROVE  stamp'[k] <= stamp'[users]
      BY <1>1 DEF FreshFor
    <3>1. k \in Snapshots
      BY <1>1, <1>2, <1>3, <1>8 DEF DirInv, Ordered
    <3> QED
      BY <1>1, <1>6, <3>1 DEF FreshFor
  <2>2. Passed(t)
    BY DEF DirInv, Passes
  <2> QED
    BY <1>1, <2>1, <2>2 DEF Passed, RaisedLately
<1> QED
  BY <1>5, <1>7, <1>9, <1>10, <1>11 DEF Loads, Passes

-----------------------------------------------------------------------------
(* The theorems.                                                             *)

LEMMA InvInit == DirInit => DirInv
<1> SUFFICES ASSUME DirInit PROVE DirInv
  OBVIOUS
<1>1. DirTypeOK
  BY TypesInit
<1>2. Snapshots = {1} /\ stamp[1] = 0 /\ at[1] = 0 /\ clock = 0 /\ 1 \in 1..MaxEdits
  BY DirectoryAssumption DEF DirInit, Snapshots
<1>3. Ordered /\ Cached
  BY <1>2 DEF DirInit, Ordered, Cached
<1>4. Settled
  BY <1>2 DEF DirInit, Settled, Covers
<1>5. Loads /\ Passes
  BY DEF DirInit, Loads, Loading, Passes, Passed, InLock
<1> QED
  BY <1>1, <1>3, <1>4, <1>5 DEF DirInv

LEMMA InvKept == ASSUME DirInv, [DirNext]_dirVars PROVE DirInv'
<1>1. DirTypeOK'
  BY TypesKept DEF DirInv
<1>2. CASE Tick
  BY <1>1, <1>2, TickKept DEF DirInv
<1>3. CASE \E callers \in SUBSET Callers, m \in 0..MaxEdits : Sync(callers, m)
  BY <1>1, <1>3, SyncKept DEF DirInv
<1>4. ASSUME NEW t \in Threads, ThreadStep(t) PROVE DirInv'
  <2>1. Cached' /\ Loads' /\ Settled' /\ Passes'
    BY <1>1, <1>4, OutsideKept, CheckKept, AcquireKept, StatKept, ReadKept, SetUsersKept,
       SetVersionKept, FailsKept DEF ThreadStep, LoadStep
  <2> QED
    BY <1>1, <1>4, <2>1, OrderedStays DEF DirInv
<1>5. CASE UNCHANGED dirVars
  BY <1>1, <1>5 DEF dirVars, contents, snapshot, local, raised, DirInv, Ordered, Cached, Loads,
     Loading, Settled, Passes, Passed, Covers, FreshFor, RaisedLately, Snapshots
<1> QED
  BY <1>2, <1>3, <1>4, <1>5 DEF DirNext, World, ThreadStep

LEMMA InvHolds == DirSpec => []DirInv
  BY InvInit, InvKept, PTL DEF DirSpec

\* With the lock free, no stamp lies between _mtime, users and version.
LEMMA InvSkipsNothing == DirInv => NoEditSkipped
<1> SUFFICES ASSUME DirInv, mtime = stamp[edits] PROVE stamp[users] = mtime /\ stamp[version] = mtime
  BY DEF NoEditSkipped
<1>1. /\ stamp[users] <= stamp[edits] /\ stamp[version] <= stamp[edits]
      /\ stamp[users] \in Nat /\ stamp[version] \in Nat /\ stamp[edits] \in Nat
  BY ContentsTyped DEF DirInv, Ordered
<1> QED
  BY <1>1 DEF DirInv, Cached

\* _load misses no edit for good, whatever the sync job does between its stat
\* and its read and whatever other threads read meanwhile.
THEOREM EditsAreNotSkipped == DirSpec => []NoEditSkipped
  BY InvHolds, InvSkipsNothing, PTL

\* A thread that comes out of _load with no load under way uses what was in
\* users.json one window earlier, unless a load raised within the window.
THEOREM DeactivationsApply == DirSpec => []FreshUnlessLoading
<1>1. DirInv => FreshUnlessLoading
  BY DEF DirInv, Passes, Passed, FreshUnlessLoading
<1> QED
  BY <1>1, InvHolds, PTL

-----------------------------------------------------------------------------
(* The wrapper.                                                              *)

LEMMA StepsAreDirectorySteps == [Next]_vars => [DirNext]_dirVars
<1>1. ASSUME NEW t \in Threads, NEW c \in Callers, Call(t, c) PROVE DirNext
  BY <1>1 DEF Call, DirNext
<1>2. ASSUME NEW t \in Threads, Load(t) PROVE DirNext
  BY <1>2 DEF Load, DirNext
<1>3. ASSUME NEW t \in Threads, Cite(t) \/ VersionRaises(t) \/ Resolve(t) \/ Authorise(t) \/ ResolveRaises(t)
      PROVE  DirNext
  BY <1>3 DEF Cite, VersionRaises, Resolve, Authorise, ResolveRaises, DirNext
<1>4. ASSUME NEW t \in Threads,
             RateLimited(t) \/ BodyReturns(t) \/ BodyRaises(t) \/ Record(t) \/ RecordRaises(t)
      PROVE  UNCHANGED dirVars
  BY <1>4 DEF RateLimited, BodyReturns, BodyRaises, Record, RecordRaises
<1>5. Around => DirNext
  BY DEF Around, DirNext
<1> QED
  BY <1>1, <1>2, <1>3, <1>4, <1>5 DEF Next, CallStep, vars

LEMMA DirectoryUnderCalls == Spec => DirSpec
  BY StepsAreDirectorySteps, PTL DEF Spec, DirSpec, Init

\* Whatever the calls do, no edit of users.json is missed for good.
THEOREM CallsSkipNoEdit == Spec => []NoEditSkipped
  BY DirectoryUnderCalls, EditsAreNotSkipped, PTL

\* Whatever the calls do, deactivations apply within the window unless a load
\* is under way or raised.
THEOREM CallsAreFresh == Spec => []FreshUnlessLoading
  BY DirectoryUnderCalls, DeactivationsApply, PTL

-----------------------------------------------------------------------------
(* Types.                                                                    *)

\* A thread is inside _load only between its two calls of it.
Inside == \A t \in Threads : load[t] # "off" => pc[t] \in {"version", "lookup"}

\* The wrapper's own variables.
CallTypes ==
    /\ pc \in [Threads -> {"idle", "version", "resolve", "lookup", "body", "record"}]
    /\ call \in [Threads -> 0..calls]
    /\ caller \in [Threads -> Callers \cup {None}]
    /\ cited \in [Threads -> Nat]
    /\ basis \in [Threads -> Nat]
    /\ outcome \in [Threads -> Outcomes]
    /\ calls \in 0..MaxCalls
    /\ drafts \subseteq 1..calls /\ broken \subseteq 1..calls
    /\ records \in Seq(RecordType)
    /\ answers \subseteq [call : Nat, outcome : Outcomes]

\* From its first label on, a thread has a call.
HasCall == \A t \in Threads : pc[t] # "idle" => call[t] \in 1..calls

LEMMA TypeParts == TypeOK <=> DirTypeOK /\ CallTypes /\ Inside
  BY DEF TypeOK, CallTypes, Inside

LEMMA EntryTyped ==
    ASSUME CallTypes, NEW t \in Threads
    PROVE  /\ Entry(t) \in RecordType /\ Entry(t).call = call[t] /\ Entry(t).outcome = outcome[t]
           /\ Append(records, Entry(t)) \in Seq(RecordType)
           /\ [call |-> call[t], outcome |-> outcome[t]] \in [call : Nat, outcome : Outcomes]
<1>1. call[t] \in Nat /\ outcome[t] \in Outcomes /\ cited[t] \in Nat /\ basis[t] \in Nat
  BY DEF CallTypes
<1>2. Entry(t) \in RecordType
  BY <1>1 DEF Entry, RecordType
<1> QED
  BY <1>1, <1>2 DEF CallTypes, Entry

LEMMA CallTypesKept == ASSUME TypeOK, HasCall, [Next]_vars PROVE CallTypes' /\ HasCall'
<1> USE TypeParts DEF CallTypes, HasCall, Step, Return, Conclude, frame, results, Outcomes
<1>1. ASSUME NEW t \in Threads, NEW c \in Callers, Call(t, c) PROVE CallTypes' /\ HasCall'
  BY <1>1 DEF Call
<1>2. ASSUME NEW t \in Threads, Cite(t) PROVE CallTypes' /\ HasCall'
  <2>1. version \in Nat
    BY DEF DirTypeOK, Snapshots
  <2> QED
    BY <1>2, <2>1 DEF Cite
<1>3. ASSUME NEW t \in Threads, VersionRaises(t) PROVE CallTypes' /\ HasCall'
  BY <1>3 DEF VersionRaises
<1>4. ASSUME NEW t \in Threads, Resolve(t) PROVE CallTypes' /\ HasCall'
  BY <1>4 DEF Resolve
<1>5. ASSUME NEW t \in Threads, Authorise(t) PROVE CallTypes' /\ HasCall'
  <2>1. users \in Nat
    BY DEF DirTypeOK, Snapshots
  <2> QED
    BY <1>5, <2>1 DEF Authorise
<1>6. ASSUME NEW t \in Threads, ResolveRaises(t) PROVE CallTypes' /\ HasCall'
  BY <1>6 DEF ResolveRaises
<1>7. ASSUME NEW t \in Threads, RateLimited(t) \/ BodyRaises(t) PROVE CallTypes' /\ HasCall'
  BY <1>7 DEF RateLimited, BodyRaises
<1>8. ASSUME NEW t \in Threads, BodyReturns(t) PROVE CallTypes' /\ HasCall'
  <2>1. drafts' \subseteq 1..calls
    BY <1>8 DEF BodyReturns
  <2> QED
    BY <1>8, <2>1 DEF BodyReturns
<1>9. ASSUME NEW t \in Threads, Record(t) PROVE CallTypes' /\ HasCall'
  <2>1. records' \in Seq(RecordType) /\ answers' \subseteq [call : Nat, outcome : Outcomes]
    BY <1>9, EntryTyped DEF Record, Answer
  <2> QED
    BY <1>9, <2>1 DEF Record
<1>10. ASSUME NEW t \in Threads, RecordRaises(t) PROVE CallTypes' /\ HasCall'
  <2>1. records' \in Seq(RecordType)
    BY <1>10, EntryTyped DEF RecordRaises
  <2>2. broken' \subseteq 1..calls
    BY <1>10 DEF RecordRaises
  <2>3. CASE outcome[t] = "ok"
    BY <1>10, <2>1, <2>2, <2>3 DEF RecordRaises
  <2>4. CASE outcome[t] # "ok"
    <3>1. Return(t) /\ UNCHANGED <<calls, drafts, answers>>
      BY <1>10, <2>4 DEF RecordRaises
    <3> QED
      BY <2>1, <2>2, <3>1
  <2> QED
    BY <2>3, <2>4
<1>11. ASSUME NEW t \in Threads, Load(t) PROVE CallTypes' /\ HasCall'
  BY <1>11 DEF Load
<1>12. CASE Around \/ UNCHANGED vars
  BY <1>12 DEF Around, vars
<1> QED
  BY <1>1, <1>2, <1>3, <1>4, <1>5, <1>6, <1>7, <1>8, <1>9, <1>10, <1>11, <1>12 DEF Next, CallStep

LEMMA InsideKept == ASSUME TypeOK, [Next]_vars PROVE Inside'
<1> USE TypeParts DEF Inside, CallTypes, DirTypeOK, Step, Return, Conclude, GoTo
<1>1. ASSUME NEW t \in Threads, NEW c \in Callers, Call(t, c) PROVE Inside'
  BY <1>1 DEF Call, ReadClock
<1>2. ASSUME NEW t \in Threads, Resolve(t) PROVE Inside'
  BY <1>2 DEF Resolve, ReadClock
<1>3. ASSUME NEW t \in Threads, Cite(t) \/ VersionRaises(t) \/ Authorise(t) \/ ResolveRaises(t)
      PROVE  Inside'
  <2>1. \A q \in Threads : load'[q] # "off" => load[q] # "off" /\ q # t
    BY <1>3 DEF Cite, VersionRaises, Authorise, ResolveRaises, Leave
  <2>2. \A q \in Threads \ {t} : pc'[q] = pc[q]
    BY <1>3 DEF Cite, VersionRaises, Authorise, ResolveRaises
  <2> QED
    BY <2>1, <2>2
<1>4. ASSUME NEW t \in Threads,
             RateLimited(t) \/ BodyReturns(t) \/ BodyRaises(t) \/ Record(t) \/ RecordRaises(t)
      PROVE  Inside'
  <2>1. load' = load /\ load[t] = "off"
    BY <1>4 DEF RateLimited, BodyReturns, BodyRaises, Record, RecordRaises, dirVars, local
  <2>2. \A q \in Threads \ {t} : pc'[q] = pc[q]
    BY <1>4 DEF RateLimited, BodyReturns, BodyRaises, Record, RecordRaises
  <2> QED
    BY <2>1, <2>2
<1>5. ASSUME NEW t \in Threads, Load(t) PROVE Inside'
  <2>1. load[t] # "off" /\ ThreadStep(t) /\ pc' = pc
    BY <1>5 DEF Load, LoadStep, Check, Acquire, Stat, Read, SetUsers, SetVersion, LoadFails, ThreadStep
  <2>2. \A q \in Threads \ {t} : load'[q] = load[q]
    BY <2>1, StepFrame, TypeParts
  <2> QED
    BY <2>1, <2>2, TypeParts
<1>6. CASE Around \/ UNCHANGED vars
  BY <1>6 DEF Around, World, Tick, Sync, vars, dirVars, local
<1> QED
  BY <1>1, <1>2, <1>3, <1>4, <1>5, <1>6 DEF Next, CallStep

LEMMA CallTypesInit == Init => TypeOK /\ HasCall
<1>1. <<>> \in Seq(RecordType)
  OBVIOUS
<1>2. Init => DirTypeOK /\ Inside /\ HasCall
  BY TypesInit DEF Init, DirInit, Inside, HasCall
<1> QED
  BY <1>1, <1>2, TypeParts DEF Init, CallTypes, Outcomes

LEMMA CallsAreTyped == Spec => [](TypeOK /\ HasCall)
<1>1. TypeOK /\ HasCall /\ [Next]_vars => TypeOK' /\ HasCall'
  <2> SUFFICES ASSUME TypeOK, HasCall, [Next]_vars PROVE TypeOK' /\ HasCall'
    OBVIOUS
  <2>1. DirTypeOK'
    BY StepsAreDirectorySteps, TypesKept, TypeParts
  <2>2. CallTypes' /\ HasCall' /\ Inside'
    BY CallTypesKept, InsideKept
  <2> QED
    BY <2>1, <2>2 DEF TypeOK, CallTypes, Inside
<1> QED
  BY <1>1, CallTypesInit, PTL DEF Spec

\* The type invariant of wrapper and directory, for any threads and calls.
THEOREM TypeCorrect == Spec => []TypeOK
  BY CallsAreTyped, PTL

-----------------------------------------------------------------------------
(* The cited version.                                                        *)

\* Until the lookup the version bound at line 87 is not newer than the users in
\* force; from then on, not newer than those the caller was looked up in.
Bound ==
    \A t \in Threads :
        /\ pc[t] \in {"idle", "version", "resolve", "lookup"} => basis[t] = 0
        /\ pc[t] \in {"resolve", "lookup"} => cited[t] <= users
        /\ basis[t] # 0 => cited[t] <= basis[t]

\* No step of a thread or of the world goes back to an older snapshot.
LEMMA UsersNeverGoBack == ASSUME DirInv, [DirNext]_dirVars PROVE users <= users' /\ users \in Nat /\ users' \in Nat
<1>1. users \in Nat /\ users' \in Nat
  <2>1. DirTypeOK /\ DirTypeOK'
    BY TypesKept DEF DirInv
  <2> QED
    BY <2>1 DEF DirTypeOK, Snapshots
<1>2. CASE \E t \in Threads : ThreadStep(t)
  <2>1. \A t \in Threads : ThreadStep(t) => users <= users'
    BY UsersAdvance
  <2> QED
    BY <1>1, <1>2, <2>1
<1>3. CASE World \/ UNCHANGED dirVars
  BY <1>1, <1>3 DEF World, Tick, Sync, dirVars, snapshot
<1> QED
  BY <1>1, <1>2, <1>3 DEF DirNext, ThreadStep

LEMMA BoundKept ==
    ASSUME TypeOK, DirInv, Bound, [Next]_vars
    PROVE  Bound'
<1>1. users <= users' /\ users \in Nat /\ users' \in Nat
  BY UsersNeverGoBack, StepsAreDirectorySteps
<1>2. /\ pc \in [Threads -> {"idle", "version", "resolve", "lookup", "body", "record"}]
      /\ cited \in [Threads -> Nat] /\ basis \in [Threads -> Nat]
  BY DEF TypeOK
<1>3. ASSUME NEW t \in Threads,
             \A q \in Threads \ {t} : pc'[q] = pc[q] /\ cited'[q] = cited[q] /\ basis'[q] = basis[q],
             /\ pc'[t] \in {"idle", "version", "resolve", "lookup"} => basis'[t] = 0
             /\ pc'[t] \in {"resolve", "lookup"} => cited'[t] <= users'
             /\ basis'[t] # 0 => cited'[t] <= basis'[t]
      PROVE  Bound'
  BY <1>1, <1>2, <1>3 DEF Bound
<1> USE DEF Bound, Step, Return, Conclude
<1>4. ASSUME NEW t \in Threads, NEW c \in Callers, Call(t, c) PROVE Bound'
  BY <1>2, <1>3, <1>4 DEF Call
<1>5. ASSUME NEW t \in Threads, Cite(t) PROVE Bound'
  <2>1. version <= users /\ users' = users
    BY <1>5 DEF DirInv, Cached, Cite, Leave, snapshot
  <2> QED
    BY <1>2, <1>3, <1>5, <2>1 DEF Cite
<1>6. ASSUME NEW t \in Threads, VersionRaises(t) PROVE Bound'
  BY <1>2, <1>3, <1>6 DEF VersionRaises, results
<1>7. ASSUME NEW t \in Threads, Resolve(t) PROVE Bound'
  BY <1>1, <1>2, <1>3, <1>7 DEF Resolve, frame
<1>8. ASSUME NEW t \in Threads, Authorise(t) PROVE Bound'
  <2>1. /\ pc[t] = "lookup" /\ basis' = [basis EXCEPT ![t] = users] /\ cited' = cited
        /\ \E label \in {"body", "record"} : pc' = [pc EXCEPT ![t] = label]
    BY <1>8 DEF Authorise
  <2> QED
    BY <1>2, <1>3, <2>1
<1>9. ASSUME NEW t \in Threads, ResolveRaises(t) PROVE Bound'
  BY <1>2, <1>3, <1>9 DEF ResolveRaises
<1>10. ASSUME NEW t \in Threads, RateLimited(t) \/ BodyReturns(t) \/ BodyRaises(t) PROVE Bound'
  BY <1>2, <1>3, <1>10 DEF RateLimited, BodyReturns, BodyRaises
<1>11. ASSUME NEW t \in Threads, Record(t) \/ RecordRaises(t) PROVE Bound'
  <2>1. CASE Return(t)
    BY <1>2, <1>3, <2>1
  <2>2. CASE pc[t] = "record" /\ Conclude(t, "error") /\ UNCHANGED <<cited, basis>>
    BY <1>2, <1>3, <2>2
  <2> QED
    BY <1>11, <2>1, <2>2 DEF Record, RecordRaises
<1>12. CASE Around \/ (\E t \in Threads : Load(t)) \/ UNCHANGED vars
  <2>1. UNCHANGED <<pc, cited, basis>>
    BY <1>12 DEF Around, Load, vars, frame
  <2> QED
    BY <1>1, <1>2, <2>1
<1> QED
  BY <1>4, <1>5, <1>6, <1>7, <1>8, <1>9, <1>10, <1>11, <1>12 DEF Next, CallStep

LEMMA CitesKept ==
    ASSUME TypeOK, Bound, CitesNoNewerSnapshot, [Next]_vars
    PROVE  CitesNoNewerSnapshot'
<1>1. ASSUME NEW t \in Threads, records' = Append(records, Entry(t)) PROVE CitesNoNewerSnapshot'
  <2>1. records \in Seq(RecordType) /\ Entry(t).cited = cited[t] /\ Entry(t).basis = basis[t]
    BY DEF TypeOK, Entry
  <2>2. ASSUME NEW i \in DOMAIN records' PROVE records'[i] = Entry(t) \/ (i \in DOMAIN records /\ records'[i] = records[i])
    BY <1>1, <2>1
  <2> QED
    BY <2>1, <2>2 DEF Bound, CitesNoNewerSnapshot
<1>2. CASE UNCHANGED records
  BY <1>2 DEF CitesNoNewerSnapshot
<1>3. UNCHANGED records \/ \E t \in Threads : records' = Append(records, Entry(t))
  BY DEF Next, CallStep, Around, Call, Load, Cite, VersionRaises, Resolve, Authorise, ResolveRaises,
         RateLimited, BodyReturns, BodyRaises, Record, RecordRaises, results, vars
<1> QED
  BY <1>1, <1>2, <1>3

\* No record cites a newer snapshot than the one that decided the call
\* (directory.py:10-11), whatever is reloaded between line 87 and the lookup.
THEOREM CitesTheDecidingSnapshotOrOlder == Spec => []CitesNoNewerSnapshot
<1>1. Init => Bound /\ CitesNoNewerSnapshot
  BY DEF Init, Bound, CitesNoNewerSnapshot
<1>2. TypeOK /\ DirInv /\ Bound /\ CitesNoNewerSnapshot /\ [Next]_vars => Bound' /\ CitesNoNewerSnapshot'
  BY BoundKept, CitesKept
<1>3. Spec => []DirInv
  BY DirectoryUnderCalls, InvHolds, PTL
<1> QED
  BY <1>1, <1>2, <1>3, TypeCorrect, PTL DEF Spec

-----------------------------------------------------------------------------
(* The records of a call.                                                    *)

\* A thread serves one call at a time, and no other thread serves it.
OwnCalls ==
    \A t \in Threads : /\ call[t] = 0 <=> pc[t] = "idle"
                       /\ \A u \in Threads : call[t] # 0 /\ call[u] = call[t] => t = u

\* A call under way is not answered; before its first attempt to write a record
\* it has none, and has committed at most before that; after one that raised it
\* has none or "ok", and is about to write "error".
Underway(t) ==
    call[t] # 0 =>
        /\ \A a \in answers : a.call # call[t]
        /\ call[t] \in drafts \ broken => pc[t] = "record" /\ outcome[t] = "ok"
        /\ call[t] \notin broken => Places(call[t]) = {}
        /\ call[t] \in broken =>
              /\ pc[t] = "record" /\ outcome[t] = "error"
              /\ Places(call[t]) = {} \/ RecordedAs(call[t], "ok")

\* Nothing is known of calls that have not been made.
NoneAhead ==
    /\ \A i \in DOMAIN records : records[i].call \in 1..calls
    /\ \A a \in answers : a.call \in 1..calls

RecordInv ==
    /\ TypeOK /\ HasCall /\ OwnCalls /\ NoneAhead
    /\ \A t \in Threads : Underway(t)
    /\ AnswersAreRecorded /\ DraftsAreRecorded

\* An append adds its place to those of its call.
LEMMA Appended ==
    ASSUME records \in Seq(RecordType), NEW e \in RecordType, records' = Append(records, e)
    PROVE  /\ DOMAIN records' = DOMAIN records \cup {Len(records) + 1}
           /\ Len(records) + 1 \notin DOMAIN records
           /\ \A i \in DOMAIN records : records'[i] = records[i] /\ i < Len(records) + 1
           /\ records'[Len(records) + 1] = e
BY SMTT(40) DEF RecordType

LEMMA OthersKeepPlaces ==
    ASSUME records \in Seq(RecordType), NEW e \in RecordType, records' = Append(records, e),
           NEW k, k # e.call
    PROVE  /\ Places(k)' = Places(k)
           /\ \A o : RecordedAs(k, o) => RecordedAs(k, o)'
           /\ RecordedTwice(k) => RecordedTwice(k)'
<1>1. Places(k)' = Places(k)
  BY Appended DEF Places
<1> QED
  BY <1>1, Appended DEF RecordedAs, RecordedTwice

LEMMA OwnPlace ==
    ASSUME records \in Seq(RecordType), NEW e \in RecordType, records' = Append(records, e)
    PROVE  /\ Places(e.call) = {} => RecordedAs(e.call, e.outcome)'
           /\ RecordedAs(e.call, "ok") /\ e.outcome = "error" => RecordedTwice(e.call)'
<1> DEFINE n == Len(records) + 1
<1>1. Places(e.call)' = Places(e.call) \cup {n}
  BY Appended DEF Places
<1>2. ASSUME Places(e.call) = {} PROVE RecordedAs(e.call, e.outcome)'
  <2>1. Places(e.call)' = {n} /\ n \in DOMAIN records' /\ records'[n].outcome = e.outcome
    BY <1>1, <1>2, Appended
  <2> QED
    BY <2>1 DEF RecordedAs
<1>3. ASSUME RecordedAs(e.call, "ok"), e.outcome = "error" PROVE RecordedTwice(e.call)'
  <2>1. PICK i \in DOMAIN records : Places(e.call) = {i} /\ records[i].outcome = "ok"
    BY <1>3 DEF RecordedAs
  <2>2. /\ Places(e.call)' = {i, n} /\ i \in DOMAIN records' /\ n \in DOMAIN records' /\ i < n
        /\ records'[i].outcome = "ok" /\ records'[n].outcome = "error"
    BY <1>1, <1>3, <2>1, Appended
  <2> QED
    BY <2>2 DEF RecordedTwice
<1> QED
  BY <1>2, <1>3

\* A step inside a call that neither records nor commits anything.
LEMMA QuietKept ==
    ASSUME RecordInv, (TypeOK /\ HasCall)',
           UNCHANGED <<calls, drafts, records, answers, broken, call>>,
           \A t \in Threads : \/ UNCHANGED <<pc[t], outcome[t]>>
                              \/ pc[t] \notin {"idle", "record"} /\ pc'[t] # "idle"
    PROVE  RecordInv'
<1> USE DEF RecordInv
<1>1. OwnCalls' /\ NoneAhead' /\ AnswersAreRecorded' /\ DraftsAreRecorded'
  BY DEF OwnCalls, NoneAhead, AnswersAreRecorded, DraftsAreRecorded, Finished, RecordedAs, RecordedTwice, Places
<1>2. ASSUME NEW t \in Threads PROVE Underway(t)'
  <2>1. Places(call[t])' = Places(call[t]) /\ (RecordedAs(call[t], "ok"))' = RecordedAs(call[t], "ok")
    BY DEF Places, RecordedAs
  <2> QED
    BY <2>1 DEF Underway
<1> QED
  BY <1>1, <1>2

LEMMA CallKept ==
    ASSUME RecordInv, (TypeOK /\ HasCall)', NEW t \in Threads, NEW c \in Callers, Call(t, c)
    PROVE  RecordInv'
<1> USE DEF RecordInv
<1>1. /\ UNCHANGED <<outcome, drafts, records, answers, broken>>
      /\ calls' = calls + 1 /\ calls \in Nat /\ call[t] = 0 /\ call'[t] = calls + 1 /\ pc'[t] = "version"
      /\ \A u \in Threads \ {t} : call'[u] = call[u] /\ pc'[u] = pc[u]
      /\ \A u \in Threads : call[u] \in 0..calls
      /\ drafts \subseteq 1..calls /\ broken \subseteq 1..calls
  BY DEF Call, TypeOK, Step, OwnCalls
<1>2. OwnCalls' /\ NoneAhead'
  BY <1>1 DEF OwnCalls, NoneAhead
<1>3. AnswersAreRecorded'
  BY <1>1 DEF AnswersAreRecorded, RecordedAs, RecordedTwice, Places
<1>4. DraftsAreRecorded'
  BY <1>1 DEF DraftsAreRecorded, Finished, RecordedAs, Places
<1>5. ASSUME NEW u \in Threads \ {t} PROVE Underway(u)'
  <2>1. Places(call[u])' = Places(call[u]) /\ (RecordedAs(call[u], "ok"))' = RecordedAs(call[u], "ok")
    BY <1>1 DEF Places, RecordedAs
  <2> QED
    BY <1>1, <2>1 DEF Underway, Places, RecordedAs
<1>6. Underway(t)'
  BY <1>1 DEF Underway, NoneAhead, Places
<1> QED
  BY <1>2, <1>3, <1>4, <1>5, <1>6

LEMMA VersionRaisesKept ==
    ASSUME RecordInv, (TypeOK /\ HasCall)', NEW t \in Threads, VersionRaises(t)
    PROVE  RecordInv'
<1> USE DEF RecordInv
<1>1. /\ UNCHANGED <<calls, drafts, records, answers, broken>>
      /\ pc[t] = "version" /\ call'[t] = 0 /\ pc'[t] = "idle"
      /\ \A u \in Threads \ {t} : call'[u] = call[u] /\ pc'[u] = pc[u] /\ outcome'[u] = outcome[u]
  BY DEF VersionRaises, TypeOK, Step, Return, results
<1>2. OwnCalls' /\ NoneAhead'
  BY <1>1 DEF OwnCalls, NoneAhead
<1>3. AnswersAreRecorded'
  BY <1>1 DEF AnswersAreRecorded, RecordedAs, RecordedTwice, Places
<1>4. call[t] \notin drafts \ broken
  BY <1>1 DEF Underway, OwnCalls
<1>5. DraftsAreRecorded'
  BY <1>1, <1>4 DEF DraftsAreRecorded, Finished, RecordedAs, Places
<1>6. ASSUME NEW u \in Threads PROVE Underway(u)'
  BY <1>1 DEF Underway, Places, RecordedAs
<1> QED
  BY <1>2, <1>3, <1>5, <1>6

LEMMA BodyReturnsKept ==
    ASSUME RecordInv, (TypeOK /\ HasCall)', NEW t \in Threads, BodyReturns(t)
    PROVE  RecordInv'
<1> USE DEF RecordInv
<1>1. /\ UNCHANGED <<calls, call, records, answers, broken>>
      /\ drafts \subseteq drafts' /\ drafts' \subseteq drafts \cup {call[t]}
      /\ pc[t] = "body" /\ pc'[t] = "record" /\ outcome'[t] = "ok"
      /\ \A u \in Threads \ {t} : pc'[u] = pc[u] /\ outcome'[u] = outcome[u]
  BY DEF BodyReturns, TypeOK, Step, Conclude
<1>2. OwnCalls' /\ NoneAhead'
  BY <1>1 DEF OwnCalls, NoneAhead
<1>3. AnswersAreRecorded'
  BY <1>1 DEF AnswersAreRecorded, RecordedAs, RecordedTwice, Places
<1>4. DraftsAreRecorded'
  BY <1>1 DEF DraftsAreRecorded, Finished, RecordedAs, Places
<1>5. ASSUME NEW u \in Threads PROVE Underway(u)'
  <2>1. u # t => call[u] = 0 \/ call[u] # call[t]
    BY DEF OwnCalls
  <2> QED
    BY <1>1, <2>1 DEF Underway, Places, RecordedAs
<1> QED
  BY <1>2, <1>3, <1>4, <1>5

\* What the record of a call leaves as it was for the others.
LEMMA OthersRecorded ==
    ASSUME RecordInv, NEW t \in Threads, records' \in {records, Append(records, Entry(t))},
           NEW k, k # call[t]
    PROVE  /\ Places(k)' = Places(k)
           /\ \A o : RecordedAs(k, o) => RecordedAs(k, o)'
           /\ RecordedTwice(k) => RecordedTwice(k)'
<1>1. CASE records' = records
  BY <1>1 DEF Places, RecordedAs, RecordedTwice
<1>2. CASE records' = Append(records, Entry(t))
  <2>1. PICK e \in RecordType : e = Entry(t) /\ e.call = call[t]
    BY EntryTyped, TypeParts DEF RecordInv
  <2>2. records \in Seq(RecordType) /\ records' = Append(records, e) /\ k # e.call
    BY <1>2, <2>1 DEF RecordInv, TypeOK
  <2> QED
    BY <2>2, OthersKeepPlaces
<1> QED
  BY <1>1, <1>2

LEMMA OthersUnderway ==
    ASSUME RecordInv, NEW t \in Threads, call[t] # 0, records' \in {records, Append(records, Entry(t))},
           UNCHANGED drafts,
           broken \subseteq broken', broken' \subseteq broken \cup {call[t]},
           \A a \in answers' : a \in answers \/ a.call = call[t],
           NEW u \in Threads \ {t},
           call'[u] = call[u], pc'[u] = pc[u], outcome'[u] = outcome[u]
    PROVE  Underway(u)'
<1>1. PICK k : k = call[u]
  OBVIOUS
<1>2. CASE k = 0
  BY <1>1, <1>2 DEF Underway
<1>3. CASE k # 0
  <2>1. k # call[t] /\ Underway(u)
    BY <1>1, <1>3 DEF RecordInv, OwnCalls
  <2>2. Places(k)' = Places(k) /\ (RecordedAs(k, "ok") => RecordedAs(k, "ok")')
    BY <2>1, OthersRecorded
  <2>3. (k \in broken' <=> k \in broken) /\ \A a \in answers' : a.call = k => a \in answers
    BY <2>1
  <2>4. call'[u] = k
    BY <1>1
  <2> QED
    BY <1>1, <1>3, <2>1, <2>2, <2>3, <2>4 DEF Underway, Places, RecordedAs
<1> QED
  BY <1>2, <1>3

\* The chain after the record of a call was appended.
LEMMA OwnRecord ==
    ASSUME RecordInv, NEW t \in Threads, records' = Append(records, Entry(t)),
           NEW k, k = call[t], NEW o, o = outcome[t]
    PROVE  /\ Places(k) = {} => RecordedAs(k, o)'
           /\ RecordedAs(k, "ok") /\ o = "error" => RecordedTwice(k)'
<1>1. PICK e \in RecordType : e = Entry(t) /\ e.call = k /\ e.outcome = o
  BY EntryTyped, TypeParts DEF RecordInv
<1>2. records \in Seq(RecordType) /\ records' = Append(records, e)
  BY <1>1 DEF RecordInv, TypeOK
<1>3. /\ Places(e.call) = {} => RecordedAs(e.call, e.outcome)'
      /\ RecordedAs(e.call, "ok") /\ e.outcome = "error" => RecordedTwice(e.call)'
  BY <1>2, OwnPlace
<1> QED
  BY <1>1, <1>3

LEMMA NoneAheadKept ==
    ASSUME RecordInv, NEW t \in Threads, call[t] \in 1..calls, calls' = calls,
           records' \in {records, Append(records, Entry(t))},
           \A a \in answers' : a \in answers \/ a.call = call[t]
    PROVE  NoneAhead'
<1>1. ASSUME NEW i \in DOMAIN records' PROVE records'[i].call \in 1..calls
  <2>1. CASE records' = records
    BY <1>1, <2>1 DEF RecordInv, NoneAhead
  <2>2. CASE records' = Append(records, Entry(t))
    <3>1. PICK e \in RecordType : e = Entry(t) /\ e.call = call[t]
      BY EntryTyped, TypeParts DEF RecordInv
    <3>2. records \in Seq(RecordType) /\ records' = Append(records, e)
      BY <2>2, <3>1 DEF RecordInv, TypeOK
    <3> QED
      BY <1>1, <3>1, <3>2, Appended DEF RecordInv, NoneAhead
  <2> QED
    BY <2>1, <2>2
<1> QED
  BY <1>1 DEF RecordInv, NoneAhead

LEMMA RecordKept ==
    ASSUME RecordInv, (TypeOK /\ HasCall)', NEW t \in Threads, Record(t)
    PROVE  RecordInv'
<1>1. PICK k, o : k = call[t] /\ o = outcome[t]
  OBVIOUS
<1>2. /\ UNCHANGED <<calls, drafts, broken>>
      /\ records' = Append(records, Entry(t))
      /\ answers' = answers \cup {[call |-> k, outcome |-> o]}
      /\ pc[t] = "record" /\ call'[t] = 0 /\ pc'[t] = "idle"
      /\ \A u \in Threads \ {t} : call'[u] = call[u] /\ pc'[u] = pc[u] /\ outcome'[u] = outcome[u]
  BY <1>1 DEF Record, Answer, TypeOK, Step, Return, RecordInv
<1>3. k \in 1..calls /\ k # 0 /\ Underway(t)
  BY <1>1, <1>2 DEF RecordInv, HasCall, OwnCalls, TypeOK
<1>4. \/ k \notin broken /\ RecordedAs(k, o)'
      \/ k \in broken /\ o = "error" /\ (RecordedAs(k, o)' \/ RecordedTwice(k)')
  BY <1>1, <1>2, <1>3, OwnRecord DEF Underway
<1>5. OwnCalls' /\ NoneAhead'
  BY <1>1, <1>2, <1>3, NoneAheadKept DEF RecordInv, OwnCalls
<1>6. ASSUME NEW u \in Threads PROVE Underway(u)'
  <2>1. CASE u = t
    BY <1>2, <2>1 DEF Underway
  <2>2. CASE u # t
    BY <1>1, <1>2, <1>3, <2>2, OthersUnderway
  <2> QED
    BY <2>1, <2>2
<1>7. AnswersAreRecorded'
  <2>1. ASSUME NEW a \in answers'
        PROVE  RecordedAs(a.call, a.outcome)' \/ (a.outcome = "error" /\ a.call \in broken /\ RecordedTwice(a.call)')
    <3>1. CASE a = [call |-> k, outcome |-> o]
      BY <1>4, <3>1
    <3>2. CASE a \in answers
      <4>1. a.call # k
        BY <1>1, <1>3, <3>2 DEF Underway
      <4>2. RecordedAs(a.call, a.outcome) \/ (a.outcome = "error" /\ a.call \in broken /\ RecordedTwice(a.call))
        BY <3>2 DEF RecordInv, AnswersAreRecorded
      <4> QED
        BY <1>1, <1>2, <4>1, <4>2, OthersRecorded
    <3> QED
      BY <1>2, <3>1, <3>2
  <2> QED
    BY <1>2, <2>1 DEF AnswersAreRecorded
<1>8. DraftsAreRecorded'
  <2>1. ASSUME NEW d \in drafts, Finished(d)', d \notin broken PROVE RecordedAs(d, "ok")'
    <3>1. CASE d = k
      BY <1>1, <1>3, <1>4, <2>1, <3>1 DEF Underway
    <3>2. CASE d # k
      <4>1. Finished(d)
        BY <1>1, <1>2, <2>1, <3>2 DEF Finished
      <4>2. RecordedAs(d, "ok")
        BY <2>1, <4>1 DEF RecordInv, DraftsAreRecorded
      <4> QED
        BY <1>1, <1>2, <3>2, <4>2, OthersRecorded
    <3> QED
      BY <3>1, <3>2
  <2> QED
    BY <1>2, <2>1 DEF DraftsAreRecorded
<1> QED
  BY <1>5, <1>6, <1>7, <1>8 DEF RecordInv

LEMMA RecordRaisesKept ==
    ASSUME RecordInv, (TypeOK /\ HasCall)', NEW t \in Threads, RecordRaises(t)
    PROVE  RecordInv'
<1>1. PICK k, o : k = call[t] /\ o = outcome[t]
  OBVIOUS
<1>2. /\ UNCHANGED <<calls, drafts, answers>>
      /\ records' \in {records, Append(records, Entry(t))}
      /\ broken' = broken \cup {k}
      /\ pc[t] = "record"
      /\ \A u \in Threads \ {t} : call'[u] = call[u] /\ pc'[u] = pc[u] /\ outcome'[u] = outcome[u]
      /\ \/ o = "ok" /\ call'[t] = k /\ pc'[t] = "record" /\ outcome'[t] = "error"
         \/ o # "ok" /\ call'[t] = 0 /\ pc'[t] = "idle"
  BY <1>1 DEF RecordRaises, TypeOK, Step, Return, Conclude, RecordInv
<1>3. k \in 1..calls /\ k # 0 /\ Underway(t)
  BY <1>1, <1>2 DEF RecordInv, HasCall, OwnCalls, TypeOK
<1>4. OwnCalls' /\ NoneAhead'
  BY <1>1, <1>2, <1>3, NoneAheadKept DEF RecordInv, OwnCalls
<1>5. ASSUME NEW u \in Threads \ {t} PROVE Underway(u)'
  BY <1>1, <1>2, <1>3, OthersUnderway
<1>6. Underway(t)'
  <2>1. CASE o # "ok"
    BY <1>2, <2>1 DEF Underway
  <2>2. CASE o = "ok"
    <3>1. k \notin broken /\ Places(k) = {} /\ \A a \in answers : a.call # k
      BY <1>1, <1>3, <2>2 DEF Underway
    <3>2. Places(k)' = {} \/ RecordedAs(k, "ok")'
      <4>1. CASE records' = records
        BY <3>1, <4>1 DEF Places
      <4>2. CASE records' = Append(records, Entry(t))
        BY <1>1, <2>2, <3>1, <4>2, OwnRecord
      <4> QED
        BY <1>2, <4>1, <4>2
    <3>3. call'[t] = k /\ pc'[t] = "record" /\ outcome'[t] = "error" /\ answers' = answers
      BY <1>2, <2>2
    <3> QED
      BY <1>2, <3>1, <3>2, <3>3 DEF Underway, Places, RecordedAs
  <2> QED
    BY <2>1, <2>2
<1>7. AnswersAreRecorded'
  <2>1. ASSUME NEW a \in answers
        PROVE  RecordedAs(a.call, a.outcome)' \/ (a.outcome = "error" /\ a.call \in broken' /\ RecordedTwice(a.call)')
    <3>1. a.call # call[t]
      BY <1>1, <1>3 DEF Underway
    <3>2. RecordedAs(a.call, a.outcome) \/ (a.outcome = "error" /\ a.call \in broken /\ RecordedTwice(a.call))
      BY DEF RecordInv, AnswersAreRecorded
    <3> QED
      BY <1>2, <3>1, <3>2, OthersRecorded
  <2> QED
    BY <1>2, <2>1 DEF AnswersAreRecorded
<1>8. DraftsAreRecorded'
  <2>1. ASSUME NEW d \in drafts, Finished(d)', d \notin broken' PROVE RecordedAs(d, "ok")'
    <3>1. d # k /\ d \notin broken
      BY <1>2, <2>1
    <3>2. Finished(d)
      BY <1>1, <1>2, <2>1, <3>1 DEF Finished
    <3>3. RecordedAs(d, "ok")
      BY <2>1, <3>1, <3>2 DEF RecordInv, DraftsAreRecorded
    <3> QED
      BY <1>1, <1>2, <3>1, <3>3, OthersRecorded
  <2> QED
    BY <1>2, <2>1 DEF DraftsAreRecorded
<1> QED
  BY <1>4, <1>5, <1>6, <1>7, <1>8 DEF RecordInv

LEMMA RecordInvInit == Init => RecordInv
  BY CallTypesInit DEF Init, RecordInv, OwnCalls, NoneAhead, Underway, AnswersAreRecorded, DraftsAreRecorded

LEMMA RecordInvKept ==
    ASSUME RecordInv, (TypeOK /\ HasCall)', [Next]_vars
    PROVE  RecordInv'
<1>1. ASSUME NEW t \in Threads, NEW c \in Callers, Call(t, c) PROVE RecordInv'
  BY <1>1, CallKept
<1>2. ASSUME NEW t \in Threads, VersionRaises(t) PROVE RecordInv'
  BY <1>2, VersionRaisesKept
<1>3. ASSUME NEW t \in Threads, BodyReturns(t) PROVE RecordInv'
  BY <1>3, BodyReturnsKept
<1>4. ASSUME NEW t \in Threads, Record(t) PROVE RecordInv'
  BY <1>4, RecordKept
<1>5. ASSUME NEW t \in Threads, RecordRaises(t) PROVE RecordInv'
  BY <1>5, RecordRaisesKept
<1>6. ASSUME NEW t \in Threads,
             Cite(t) \/ Resolve(t) \/ Authorise(t) \/ ResolveRaises(t) \/ RateLimited(t) \/ BodyRaises(t)
      PROVE  RecordInv'
  <2>1. UNCHANGED <<calls, drafts, records, answers, broken, call>>
    BY <1>6 DEF Cite, Resolve, Authorise, ResolveRaises, RateLimited, BodyRaises, frame, results
  <2>2. pc[t] \notin {"idle", "record"}
    BY <1>6 DEF Cite, Resolve, Authorise, ResolveRaises, RateLimited, BodyRaises
  <2>3. pc'[t] # "idle" /\ \A u \in Threads \ {t} : pc'[u] = pc[u] /\ outcome'[u] = outcome[u]
    <3>1. CASE Cite(t) \/ Resolve(t)
      BY <3>1 DEF Cite, Resolve, Step, frame, RecordInv, TypeOK
    <3>2. CASE Authorise(t)
      BY <3>2 DEF Authorise, Step, Conclude, RecordInv, TypeOK
    <3>3. CASE ResolveRaises(t) \/ RateLimited(t) \/ BodyRaises(t)
      BY <3>3 DEF ResolveRaises, RateLimited, BodyRaises, Step, Conclude, RecordInv, TypeOK
    <3> QED
      BY <1>6, <3>1, <3>2, <3>3
  <2> QED
    BY <2>1, <2>2, <2>3, QuietKept
<1>7. CASE Around \/ (\E t \in Threads : Load(t)) \/ UNCHANGED vars
  <2>1. UNCHANGED <<calls, drafts, records, answers, broken, call, pc, outcome>>
    BY <1>7 DEF Around, Load, frame, results, vars
  <2> QED
    BY <2>1, QuietKept
<1> QED
  BY <1>1, <1>2, <1>3, <1>4, <1>5, <1>6, <1>7 DEF Next, CallStep

LEMMA RecordsHold == Spec => []RecordInv
<1>1. RecordInv /\ TypeOK' /\ HasCall' /\ [Next]_vars => RecordInv'
  BY RecordInvKept
<1> QED
  BY <1>1, RecordInvInit, CallsAreTyped, PTL DEF Spec

\* What a caller was answered is in the chain with that outcome, whatever the
\* other threads do between its decision and its record, and whichever writes
\* raise (service.py:4-5).
THEOREM AnswersRecorded == Spec => []AnswersAreRecorded
  BY RecordsHold, PTL DEF RecordInv

\* No draft is left behind by a call that the chain does not show as "ok",
\* unless its audit write raised.
THEOREM DraftsRecorded == Spec => []DraftsAreRecorded
  BY RecordsHold, PTL DEF RecordInv
=============================================================================
