----------------------------- MODULE Directory -----------------------------
(***************************************************************************)
(* The cached user directory of directory.py.  Every resolve and every      *)
(* reading of version starts with _load: it compares the clock with         *)
(* _checked_at without the lock, and under the lock stats users.json and    *)
(* re-reads it when its mtime changed.  users and version are assigned one  *)
(* after the other and read without the lock.                               *)
(*                                                                          *)
(* The contents users.json has had are numbered; a snapshot is the number   *)
(* of one.  A content lists the callers it lets use a tool.                 *)
(***************************************************************************)
EXTENDS Integers

CONSTANTS
    Threads,    \* worker threads of the server
    Callers,    \* requesters
    Ttl,        \* ttl_seconds, in clock ticks
    None,       \* no thread
    MaxTime,    \* bound: the clock stops here
    MaxEdits,   \* bound: contents users.json has had
    MaxFaults   \* bound: loads that raise

ASSUME DirectoryAssumption ==
    /\ None \notin Threads
    /\ Ttl \in Nat
    /\ MaxTime \in Nat /\ MaxEdits \in Nat \ {0} /\ MaxFaults \in Nat

VARIABLES
    clock,      \* time.monotonic()
    edits,      \* the content in users.json, the last of 1..edits
    members,    \* members[k]: the callers content k lets use a tool
    stamp,      \* stamp[k]: the mtime it was written with
    at,         \* at[k]: when it was written
    users,      \* _users: the snapshot it was built from
    version,    \* _version: the snapshot it was hashed from
    mtime,      \* _mtime
    checkedAt,  \* _checked_at
    lock,       \* holder of _lock
    load,       \* where a thread is in _load; "off" outside
    now,        \* _load's now
    seen,       \* _load's mtime
    got,        \* the content _load read
    failed,     \* the readings of the loads that raised
    faults      \* loads that raised so far

contents == <<edits, members, stamp, at>>
snapshot == <<users, version, mtime, checkedAt>>
local == <<load, now, seen, got>>
raised == <<failed, faults>>
dirVars == <<clock, contents, snapshot, lock, local, raised>>

Snapshots == 1..edits
GoTo(t, label) == load' = [load EXCEPT ![t] = label]

-----------------------------------------------------------------------------
(* The world: time passes, and the sync job replaces users.json.  Two       *)
(* contents may carry one mtime, as stamps are coarser than writes.         *)

Tick ==
    /\ clock < MaxTime
    /\ clock' = clock + 1
    /\ UNCHANGED <<contents, snapshot, lock, local, raised>>

Sync(callers, m) ==
    /\ edits < MaxEdits
    /\ m \in {stamp[edits], stamp[edits] + 1}
    /\ edits' = edits + 1
    /\ members' = [members EXCEPT ![edits + 1] = callers]
    /\ stamp' = [stamp EXCEPT ![edits + 1] = m]
    /\ at' = [at EXCEPT ![edits + 1] = clock]
    /\ UNCHANGED <<clock, snapshot, lock, local, raised>>

-----------------------------------------------------------------------------
(* _load, statement by statement.                                           *)

ReadClock(t) ==
    /\ load[t] = "off"
    /\ now' = [now EXCEPT ![t] = clock]
    /\ GoTo(t, "check")
    /\ UNCHANGED <<clock, contents, snapshot, lock, seen, got, raised>>

MutantDue(t) == now[t] - checkedAt > Ttl
\* _checked_at may have moved past now: another thread read the clock later.
Due(t) == now[t] - checkedAt >= Ttl

Check(t) ==
    /\ load[t] = "check"
    /\ GoTo(t, IF Due(t) THEN "lock" ELSE "done")
    /\ UNCHANGED <<clock, contents, snapshot, lock, now, seen, got, raised>>

Acquire(t) ==
    /\ load[t] = "lock"
    /\ lock = None
    /\ lock' = t
    /\ checkedAt' = now[t]
    /\ GoTo(t, "stat")
    /\ UNCHANGED <<clock, contents, users, version, mtime, now, seen, got, raised>>

Stat(t) ==
    /\ load[t] = "stat"
    /\ seen' = [seen EXCEPT ![t] = stamp[edits]]
    /\ IF stamp[edits] = mtime
         THEN lock' = None /\ GoTo(t, "done")
         ELSE lock' = lock /\ GoTo(t, "read")
    /\ UNCHANGED <<clock, contents, snapshot, now, got, raised>>

Read(t) ==
    /\ load[t] = "read"
    /\ got' = [got EXCEPT ![t] = edits]
    /\ GoTo(t, "users")
    /\ UNCHANGED <<clock, contents, snapshot, lock, now, seen, raised>>

SetUsers(t) ==
    /\ load[t] = "users"
    /\ users' = got[t]
    /\ GoTo(t, "version")
    /\ UNCHANGED <<clock, contents, version, mtime, checkedAt, lock, now, seen, got, raised>>

MutantStatLast(t) ==
    /\ load[t] = "version"
    /\ version' = got[t]
    /\ mtime' = stamp[edits]
    /\ lock' = None
    /\ GoTo(t, "done")
    /\ UNCHANGED <<clock, contents, users, checkedAt, now, seen, got, raised>>

SetVersion(t) ==
    /\ load[t] = "version"
    /\ version' = got[t]
    /\ mtime' = seen[t]
    /\ lock' = None
    /\ GoTo(t, "done")
    /\ UNCHANGED <<clock, contents, users, checkedAt, now, seen, got, raised>>

\* stat, read_bytes, json.loads or model_validate raises: the file is missing,
\* or the sync job has written half of it.
LoadFails(t) ==
    /\ load[t] \in {"stat", "read"}
    /\ faults < MaxFaults
    /\ faults' = faults + 1
    /\ failed' = failed \cup {now[t]}
    /\ lock' = None
    /\ GoTo(t, "failed")
    /\ UNCHANGED <<clock, contents, snapshot, now, seen, got>>

\* The caller of _load goes on with what is in force, or with the exception;
\* the locals are gone.
Leave(t) ==
    /\ load[t] \in {"done", "failed"}
    /\ GoTo(t, "off")
    /\ now' = [now EXCEPT ![t] = 0]
    /\ seen' = [seen EXCEPT ![t] = 0]
    /\ got' = [got EXCEPT ![t] = 1]
    /\ UNCHANGED <<clock, contents, snapshot, lock, raised>>

-----------------------------------------------------------------------------
\* __init__ has loaded the file with force=True.
DirInit ==
    /\ clock = 0
    /\ edits = 1
    /\ members = [k \in 1..MaxEdits |-> Callers]
    /\ stamp = [k \in 1..MaxEdits |-> 0]
    /\ at = [k \in 1..MaxEdits |-> 0]
    /\ users = 1
    /\ version = 1
    /\ mtime = 0
    /\ checkedAt = 0
    /\ lock = None
    /\ load = [t \in Threads |-> "off"]
    /\ now = [t \in Threads |-> 0]
    /\ seen = [t \in Threads |-> 0]
    /\ got = [t \in Threads |-> 1]
    /\ failed = {}
    /\ faults = 0

LoadStep(t) ==
    \/ Check(t)
    \/ Acquire(t)
    \/ Stat(t)
    \/ Read(t)
    \/ SetUsers(t)
    \/ SetVersion(t)

World == Tick \/ \E callers \in SUBSET Callers, m \in 0..MaxEdits : Sync(callers, m)

DirNext ==
    \/ World
    \/ \E t \in Threads : ReadClock(t) \/ LoadStep(t) \/ LoadFails(t) \/ Leave(t)

DirSpec == DirInit /\ [][DirNext]_dirVars

-----------------------------------------------------------------------------
LoadLabels == {"off", "check", "lock", "stat", "read", "users", "version", "done", "failed"}
InLock == {"stat", "read", "users", "version"}

DirTypeOK ==
    /\ clock \in 0..MaxTime
    /\ edits \in 1..MaxEdits
    /\ members \in [1..MaxEdits -> SUBSET Callers]
    /\ stamp \in [1..MaxEdits -> Nat]
    /\ at \in [1..MaxEdits -> Nat]
    /\ users \in Snapshots /\ version \in Snapshots
    /\ mtime \in Nat /\ checkedAt \in Nat
    /\ lock \in Threads \cup {None}
    /\ load \in [Threads -> LoadLabels]
    /\ now \in [Threads -> Nat]
    /\ seen \in [Threads -> Nat]
    /\ got \in [Threads -> Snapshots]
    /\ failed \subseteq Nat
    /\ faults \in 0..MaxFaults
    /\ \A t \in Threads : load[t] \in InLock <=> lock = t

\* An edit is never missed for good: when _mtime says the file is loaded, so
\* that no later check re-reads it, users and version come from a content with
\* that mtime, whatever the sync job did between the stat and the read.
NoEditSkipped ==
    lock = None /\ mtime = stamp[edits] =>
        stamp[users] = mtime /\ stamp[version] = mtime

\* Every content that was in the file Ttl before the clock reading of a thread
\* that comes out of _load has been taken over, unless a load is still under way
\* or one raised within the window ("Deactivations take effect within this
\* window", settings.py:108).
FreshFor(t) ==
    \A k \in Snapshots :
        at[k] < now[t] /\ at[k] + Ttl <= now[t] => stamp[k] <= stamp[users]
RaisedLately(t) == \E r \in failed : r + Ttl > now[t]

FreshUnlessLoading ==
    \A t \in Threads : load[t] = "done" /\ lock = None => FreshFor(t) \/ RaisedLately(t)
=============================================================================
