--------------------------- MODULE AuditLog_proofs ---------------------------
(***************************************************************************)
(* Theorems of AuditLog for every number of threads, processes, writes and  *)
(* crashes, and every value of rotate_bytes and anchor_every.               *)
(***************************************************************************)
EXTENDS AuditLog, SequenceTheorems, TLAPS

USE ConstantsAssumption DEF GENESIS, NoFile

-----------------------------------------------------------------------------
(* Facts about sequences.                                                    *)

LEMMA Extend ==
    ASSUME NEW S, NEW s \in Seq(S), NEW e \in S
    PROVE  /\ Append(s, e) \in Seq(S)
           /\ Len(Append(s, e)) = Len(s) + 1
           /\ \A i \in 1..Len(s) : Append(s, e)[i] = s[i]
           /\ Append(s, e)[Len(s) + 1] = e
  BY AppendProperties

\* A sequence of inodes remains one when inodes are added.
LEMMA WiderSeq ==
    ASSUME NEW m \in Nat, NEW n \in Nat, m <= n,
           NEW s \in Seq(1..m \cup {0})
    PROVE  s \in Seq(1..n \cup {0})
<1>1. 1..m \cup {0} \subseteq 1..n \cup {0}
  OBVIOUS
<1> QED BY <1>1, SeqMonotonic

\* An update outside the domain is no update.
LEMMA UpdateSeq ==
    ASSUME NEW S, NEW s \in Seq(S), NEW i, NEW e, i \in 1..Len(s) => e \in S
    PROVE  [s EXCEPT ![i] = e] \in Seq(S) /\ Len([s EXCEPT ![i] = e]) = Len(s)
<1>1. CASE i \in 1..Len(s)
  BY <1>1, ExceptSeq
<1>2. CASE i \notin 1..Len(s)
  <2>1. [s EXCEPT ![i] = e] = s
    BY <1>2
  <2> QED BY <2>1
<1> QED BY <1>1, <1>2

LEMMA TailTypes ==
    ASSUME NEW s \in Seq(Record)
    PROVE  TailHash(s) \in Nat /\ TailSeq(s) \in Nat
<1>1. CASE s = <<>>
  BY <1>1 DEF TailHash, TailSeq
<1>2. CASE s # <<>>
  <2>1. Len(s) \in 1..Len(s)
    BY <1>2, EmptySeq
  <2>2. s[Len(s)] \in Record
    BY <2>1, ElementOfSeq
  <2> QED BY <1>2, <2>2 DEF TailHash, TailSeq, Record
<1> QED BY <1>1, <1>2

-----------------------------------------------------------------------------
(* Type correctness, crashes included.                                       *)

LEMMA TypeInit == Init => TypeOK
<1> SUFFICES ASSUME Init PROVE TypeOK
  OBVIOUS
<1>1. /\ <<>> \in Seq(Record) /\ <<>> \in Seq(Item)
      /\ content \in Seq(Seq(Record)) /\ Len(content) = 1
      /\ lock \in Seq(Threads \cup {None}) /\ Len(lock) = 1
  BY DEF Init
<1>2. DiskOK
  BY <1>1 DEF Init, DiskOK, Inodes
<1>3. LocksOK /\ ThreadsOK /\ CountsOK
  BY <1>1 DEF Init, LocksOK, ThreadsOK, CountsOK, PC, Inodes
<1>4. OneNamePerFile
  BY DEF Init, OneNamePerFile
<1> QED BY <1>2, <1>3, <1>4 DEF TypeOK

\* What OpenOrCreate does to the files.
LEMMA OpenTypes ==
    ASSUME TypeOK, OpenOrCreate, UNCHANGED <<rotated, torn, threadLock>>
    PROVE  /\ DiskOK' /\ LocksOK' /\ OneNamePerFile'
           /\ Inodes \subseteq Inodes' /\ active' \in Inodes'
<1> USE DEF TypeOK, DiskOK, LocksOK, Inodes
<1>1. CASE active # NoFile
  BY <1>1 DEF OpenOrCreate, OneNamePerFile
<1>2. CASE active = NoFile
  <2>1. /\ content' = Append(content, <<>>)
        /\ lock' = Append(lock, None)
        /\ active' = Len(content) + 1
    BY <1>2 DEF OpenOrCreate
  <2>2. content' \in Seq(Seq(Record)) /\ Len(content') = Len(content) + 1
    <3>1. <<>> \in Seq(Record)
      BY EmptySeq
    <3> QED BY <2>1, <3>1, Extend
  <2>3. lock' \in Seq(Threads \cup {None}) /\ Len(lock') = Len(lock) + 1
    BY <2>1, Extend
  <2>4. Len(content) \in Nat
    BY LenProperties
  <2>5. rotated' \in Seq(Inodes' \cup {NoFile})
    BY <2>2, <2>4, WiderSeq
  <2>6. OneNamePerFile'
    <3>1. \A s \in DOMAIN rotated : rotated[s] \in 1..Len(content) \cup {0}
      BY ElementOfSeq, LenProperties
    <3> QED BY <3>1, <2>1, <2>4 DEF OneNamePerFile
  <2> QED BY <2>1, <2>2, <2>3, <2>4, <2>5, <2>6
<1> QED BY <1>1, <1>2

\* An exception changes only the state of the thread that raises it.
LEMMA RaiseTypes ==
    ASSUME TypeOK, NEW t \in Threads, Raise(t)
    PROVE  TypeOK'
<1>1. Len(lock) \in Nat /\ lock \in [1..Len(lock) -> Threads \cup {None}]
  BY LenProperties DEF TypeOK, LocksOK
<1>2. lock' \in Seq(Threads \cup {None}) /\ Len(lock') = Len(lock)
  <2>1. lock' \in [1..Len(lock) -> Threads \cup {None}]
    BY <1>1 DEF Raise
  <2> QED BY <1>1, <2>1
<1>3. DiskOK' /\ OneNamePerFile' /\ CountsOK'
  BY DEF TypeOK, Raise, DiskOK, OneNamePerFile, CountsOK, Inodes
<1>4. LocksOK'
  BY <1>2 DEF TypeOK, Raise, Leave, LocksOK
<1>5. ThreadsOK'
  BY DEF TypeOK, Raise, Leave, Forget, ThreadsOK, Inodes, PC
<1> QED BY <1>3, <1>4, <1>5 DEF TypeOK

LEMMA WriteTypes ==
    ASSUME TypeOK, NEW t \in Threads,
           \/ Call(t) \/ Acquire(t) \/ Open(t) \/ Flock(t) \/ ReadTail(t) \/ TailTorn(t) \/ AppendRecord(t)
    PROVE  TypeOK'
<1>1. CASE Acquire(t)
  BY <1>1 DEF TypeOK, DiskOK, LocksOK, ThreadsOK, CountsOK, OneNamePerFile, Acquire, Inodes, PC, locals
<1>2. CASE Open(t)
  <2>1. DiskOK' /\ LocksOK' /\ OneNamePerFile' /\ Inodes \subseteq Inodes' /\ active' \in Inodes'
    BY <1>2, OpenTypes DEF Open
  <2>2. ThreadsOK'
    BY <1>2, <2>1 DEF TypeOK, ThreadsOK, Open, PC, Inodes
  <2> QED BY <1>2, <2>1, <2>2 DEF TypeOK, CountsOK, Open
<1>3. CASE Flock(t)
  <2>1. lock' \in Seq(Threads \cup {None}) /\ Len(lock') = Len(lock)
    BY <1>3, UpdateSeq DEF Flock, TypeOK, LocksOK
  <2> QED BY <1>3, <2>1 DEF TypeOK, DiskOK, LocksOK, ThreadsOK, CountsOK, OneNamePerFile, Flock, Inodes, PC, locals
<1>4. CASE ReadTail(t)
  <2>1. /\ TailHash(content[fh[t]]) \in Nat /\ TailSeq(content[fh[t]]) \in Nat
    <3>1. content[fh[t]] \in Seq(Record)
      BY <1>4, ElementOfSeq DEF ReadTail, TypeOK, DiskOK, ThreadsOK, Inodes
    <3> QED BY <3>1, TailTypes
  <2>2. ThreadsOK'
    BY <1>4, <2>1 DEF TypeOK, ThreadsOK, ReadTail, Inodes, PC
  <2> QED BY <1>4, <2>2 DEF TypeOK, DiskOK, LocksOK, CountsOK, OneNamePerFile, ReadTail, Inodes
<1>5. CASE TailTorn(t)
  BY <1>5, RaiseTypes DEF TailTorn
<1>6. CASE AppendRecord(t)
  <2> DEFINE f == fh[t]
             r == [id |-> lastId + 1, prev |-> prev[t], seq |-> seq[t], by |-> ProcOf[t]]
  <2>1. r \in Record
    BY DEF TypeOK, ThreadsOK, CountsOK, Record
  <2>2. f \in 1..Len(content) => Append(content[f], r) \in Seq(Record)
    BY <2>1, Extend, ElementOfSeq DEF TypeOK, DiskOK
  <2>3. content' \in Seq(Seq(Record)) /\ Len(content') = Len(content)
    <3>1. content' = [content EXCEPT ![f] = Append(content[f], r)]
      BY <1>6 DEF AppendRecord
    <3> HIDE DEF f, r
    <3> QED BY <3>1, <2>2, UpdateSeq DEF TypeOK, DiskOK
  <2>4. lock' \in Seq(Threads \cup {None}) /\ Len(lock') = Len(lock)
    <3>1. lock' = [lock EXCEPT ![f] = None]
      BY <1>6 DEF AppendRecord
    <3> HIDE DEF f
    <3> QED BY <3>1, UpdateSeq, ConstantsAssumption DEF TypeOK, LocksOK
  <2>5. Inodes' = Inodes
    BY <2>3 DEF Inodes
  <2>6. ThreadsOK' /\ threadLock' \in [Procs -> Threads \cup {None}]
    <3>1. /\ fh' = [fh EXCEPT ![t] = NoFile] /\ own' = [own EXCEPT ![t] = lastId + 1]
          /\ UNCHANGED <<prev, seq, slot>>
          /\ \/ pc' = [pc EXCEPT ![t] = "head"] /\ UNCHANGED threadLock
             \/ Leave(t, "enqueue")
      BY <1>6 DEF AppendRecord
    <3>2. threadLock' \in [Procs -> Threads \cup {None}]
      BY <3>1 DEF TypeOK, LocksOK, Leave
    <3>3. \E next \in {"head", "enqueue"} : pc' = [pc EXCEPT ![t] = next]
      BY <3>1 DEF Leave
    <3>4. ThreadsOK'
      BY <3>1, <3>3, <2>5 DEF TypeOK, ThreadsOK, CountsOK, PC
    <3> QED BY <3>2, <3>4
  <2> QED BY <1>6, <2>3, <2>4, <2>5, <2>6 DEF TypeOK, DiskOK, LocksOK, CountsOK, OneNamePerFile, AppendRecord
<1>7. CASE Call(t)
  BY <1>7 DEF TypeOK, DiskOK, LocksOK, ThreadsOK, CountsOK, OneNamePerFile, Call, Inodes, PC, locals
<1> QED BY <1>1, <1>2, <1>3, <1>4, <1>5, <1>6, <1>7

LEMMA RotateTypes ==
    ASSUME TypeOK, NEW t \in Threads,
           \/ RotateHead(t) \/ RotateReplace(t) \/ RotateFails(t)
           \/ RotateTouch(t) \/ RotateTruncate(t) \/ RotateMarker(t)
    PROVE  TypeOK'
<1>1. CASE RotateHead(t)
  <2>1. rotated' \in Seq(Inodes \cup {NoFile}) /\ OneNamePerFile'
    <3>1. /\ Append(rotated, NoFile) \in Seq(Inodes \cup {NoFile})
          /\ DOMAIN rotated = 1..Len(rotated)
          /\ DOMAIN Append(rotated, NoFile) = 1..(Len(rotated) + 1)
          /\ \A i \in 1..Len(rotated) : Append(rotated, NoFile)[i] = rotated[i]
          /\ Append(rotated, NoFile)[Len(rotated) + 1] = NoFile
          /\ Len(rotated) \in Nat
      BY Extend, LenProperties DEF TypeOK, DiskOK
    <3> QED BY <1>1, <3>1 DEF TypeOK, OneNamePerFile, RotateHead
  <2>2. TailHash(content[active]) \in Nat
    <3>1. content[active] \in Seq(Record)
      BY <1>1, ElementOfSeq DEF RotateHead, TypeOK, DiskOK, Inodes
    <3> QED BY <3>1, TailTypes
  <2>3. Len(rotated) + 1 \in Nat
    BY LenProperties DEF TypeOK, DiskOK
  <2>4. ThreadsOK'
    BY <1>1, <2>2, <2>3 DEF TypeOK, ThreadsOK, RotateHead, PC, Inodes
  <2> QED BY <1>1, <2>1, <2>4 DEF TypeOK, DiskOK, LocksOK, CountsOK, RotateHead, Inodes
<1>2. CASE RotateReplace(t)
  <2>1. rotated' \in Seq(Inodes \cup {NoFile})
    BY <1>2, UpdateSeq DEF RotateReplace, TypeOK, DiskOK
  <2>2. OneNamePerFile'
    BY <1>2 DEF RotateReplace, TypeOK, OneNamePerFile
  <2> QED BY <1>2, <2>1, <2>2 DEF TypeOK, DiskOK, LocksOK, ThreadsOK, CountsOK, RotateReplace, Inodes, PC, locals
<1>3. CASE RotateFails(t)
  BY <1>3, RaiseTypes DEF RotateFails
<1>4. CASE RotateTouch(t)
  <2>1. DiskOK' /\ LocksOK' /\ OneNamePerFile' /\ Inodes \subseteq Inodes'
    BY <1>4, OpenTypes DEF RotateTouch
  <2>2. ThreadsOK'
    BY <1>4, <2>1 DEF TypeOK, ThreadsOK, RotateTouch, PC, locals
  <2> QED BY <1>4, <2>1, <2>2 DEF TypeOK, CountsOK, RotateTouch
<1>5. CASE RotateTruncate(t)
  <2>1. CASE active = NoFile
    <3>1. OpenOrCreate
      BY <1>5, <2>1 DEF RotateTruncate, OpenOrCreate
    <3>2. torn' = torn
      BY <1>5, <2>1 DEF RotateTruncate, TypeOK, DiskOK, Inodes
    <3>3. DiskOK' /\ LocksOK' /\ OneNamePerFile' /\ Inodes \subseteq Inodes' /\ active' \in Inodes'
      BY <1>5, <3>1, <3>2, OpenTypes DEF RotateTruncate
    <3>4. ThreadsOK'
      BY <1>5, <3>3 DEF TypeOK, ThreadsOK, RotateTruncate, PC, Inodes
    <3> QED BY <1>5, <3>3, <3>4 DEF TypeOK, CountsOK, RotateTruncate
  <2>2. CASE active # NoFile
    <3>1. content' \in Seq(Seq(Record)) /\ Len(content') = Len(content)
      BY <1>5, <2>2, UpdateSeq, EmptySeq DEF RotateTruncate, TypeOK, DiskOK
    <3>2. Inodes' = Inodes /\ active' = active /\ active \in Inodes
      BY <1>5, <2>2, <3>1 DEF RotateTruncate, Inodes, TypeOK, DiskOK
    <3>3. ThreadsOK'
      BY <1>5, <3>2 DEF TypeOK, ThreadsOK, RotateTruncate, PC, Inodes
    <3>4. DiskOK' /\ LocksOK'
      BY <1>5, <2>2, <3>1, <3>2 DEF TypeOK, DiskOK, LocksOK, RotateTruncate
    <3> QED BY <1>5, <3>2, <3>3, <3>4 DEF TypeOK, CountsOK, OneNamePerFile, RotateTruncate
  <2> QED BY <2>1, <2>2
<1>6. CASE RotateMarker(t)
  <2> DEFINE f == fh[t]
             r == [id |-> lastId + 1, prev |-> prev[t], seq |-> 0, by |-> ProcOf[t]]
             s == IF content[f] = <<>> THEN <<r>> ELSE [content[f] EXCEPT ![1] = r]
  <2>1. r \in Record
    BY DEF TypeOK, ThreadsOK, CountsOK, Record
  <2>2. f \in 1..Len(content) => s \in Seq(Record)
    <3>1. f \in 1..Len(content) => content[f] \in Seq(Record)
      BY ElementOfSeq DEF TypeOK, DiskOK
    <3>2. <<r>> \in Seq(Record)
      BY <2>1
    <3> HIDE DEF r, f
    <3> QED BY <2>1, <3>1, <3>2, UpdateSeq
  <2>3. content' = [content EXCEPT ![f] = s]
    BY <1>6 DEF RotateMarker
  <2>4. content' \in Seq(Seq(Record)) /\ Len(content') = Len(content)
    <3> HIDE DEF f, s
    <3>1. content \in Seq(Seq(Record))
      BY DEF TypeOK, DiskOK
    <3> QED BY <2>2, <2>3, <3>1, UpdateSeq
  <2>5. Inodes' = Inodes
    BY <2>4 DEF Inodes
  <2>6. ThreadsOK' /\ LocksOK'
    <3>1. /\ fh' = [fh EXCEPT ![t] = NoFile] /\ Leave(t, "enqueue")
          /\ UNCHANGED <<prev, seq, own, slot, lock>>
      BY <1>6 DEF RotateMarker
    <3>2. LocksOK'
      BY <3>1, <2>4 DEF TypeOK, LocksOK, Leave
    <3>3. ThreadsOK'
      BY <3>1, <2>5 DEF TypeOK, ThreadsOK, Leave, PC
    <3> QED BY <3>2, <3>3
  <2>7. lastId' \in Nat /\ UNCHANGED <<active, rotated, torn, spool, writes, up, crashes>>
    BY <1>6 DEF RotateMarker, TypeOK, CountsOK
  <2> QED BY <2>4, <2>5, <2>6, <2>7 DEF TypeOK, DiskOK, CountsOK, OneNamePerFile
<1> QED BY <1>1, <1>2, <1>3, <1>4, <1>5, <1>6

LEMMA ReturnTypes ==
    ASSUME TypeOK, NEW t \in Threads, Enqueue(t) \/ Anchor(t) \/ NoForwarder(t)
    PROVE  TypeOK'
<1>1. ASSUME NEW kind \in {"record", "anchor"}, Publish(kind, t) PROVE spool' \in Seq(Item)
  <2>1. [kind |-> kind, id |-> own[t]] \in Item
    BY DEF TypeOK, ThreadsOK, Item
  <2> QED BY <1>1, <2>1, Extend DEF Publish, TypeOK, CountsOK
<1>2. spool' \in Seq(Item)
  BY <1>1 DEF Enqueue, Anchor, NoForwarder, TypeOK, CountsOK
<1>3. \/ pc' = [pc EXCEPT ![t] = "anchor"] /\ UNCHANGED locals
      \/ Return(t)
  BY DEF Enqueue, Anchor, NoForwarder
<1>4. UNCHANGED <<content, active, rotated, torn, lock, threadLock, lastId, writes, up, crashes>>
  BY DEF Enqueue, Anchor, NoForwarder
<1>5. ThreadsOK'
  <2>1. CASE pc' = [pc EXCEPT ![t] = "anchor"] /\ UNCHANGED locals
    BY <2>1, <1>4 DEF TypeOK, ThreadsOK, locals, PC, Inodes
  <2>2. CASE Return(t)
    BY <2>2, <1>4 DEF TypeOK, ThreadsOK, Return, Forget, PC, Inodes
  <2> QED BY <1>3, <2>1, <2>2
<1> QED BY <1>2, <1>4, <1>5 DEF TypeOK, DiskOK, LocksOK, CountsOK, OneNamePerFile, Inodes

LEMMA CrashTypes ==
    ASSUME TypeOK, NEW p \in Procs, Crash(p) \/ Restart(p)
    PROVE  TypeOK'
<1>1. CASE Crash(p)
  <2>1. /\ UNCHANGED <<content, active, rotated, lastId, spool, writes>>
        /\ up' = up \ {p} /\ crashes' = crashes + 1
        /\ threadLock' = [threadLock EXCEPT ![p] = None]
        /\ Forget({t \in Threads : ProcOf[t] = p})
        /\ pc' = [t \in Threads |-> IF t \in {u \in Threads : ProcOf[u] = p} THEN "idle" ELSE pc[t]]
        /\ lock' = [i \in DOMAIN lock |-> IF lock[i] \in {u \in Threads : ProcOf[u] = p} THEN None ELSE lock[i]]
    BY <1>1 DEF Crash
  <2>2. torn' \subseteq Inodes
    <3>1. \A t \in Threads : pc[t] \in {"append", "marker"} => fh[t] \in Inodes
      BY DEF TypeOK, ThreadsOK
    <3> QED BY <1>1, <3>1 DEF Crash, TypeOK, DiskOK
  <2>3. lock' \in Seq(Threads \cup {None}) /\ Len(lock') = Len(lock)
    <3>1. Len(lock) \in Nat /\ lock \in [1..Len(lock) -> Threads \cup {None}]
      BY LenProperties DEF TypeOK, LocksOK
    <3>2. lock' \in [1..Len(lock) -> Threads \cup {None}]
      BY <2>1, <3>1
    <3> QED BY <3>1, <3>2
  <2>4. ThreadsOK'
    BY <2>1 DEF TypeOK, ThreadsOK, Forget, PC, Inodes
  <2>5. LocksOK'
    BY <2>1, <2>3 DEF TypeOK, LocksOK
  <2> QED BY <2>1, <2>2, <2>4, <2>5 DEF TypeOK, DiskOK, CountsOK, OneNamePerFile, Inodes
<1>2. CASE Restart(p)
  <2>1. DiskOK' /\ LocksOK' /\ OneNamePerFile' /\ Inodes \subseteq Inodes'
    BY <1>2, OpenTypes DEF Restart
  <2>2. ThreadsOK'
    BY <1>2, <2>1 DEF TypeOK, ThreadsOK, Restart, locals
  <2> QED BY <1>2, <2>1, <2>2 DEF TypeOK, CountsOK, Restart
<1> QED BY <1>1, <1>2

LEMMA TypeStep == TypeOK /\ [CrashNext]_vars => TypeOK'
<1> SUFFICES ASSUME TypeOK, [CrashNext]_vars PROVE TypeOK'
  OBVIOUS
<1>1. CASE UNCHANGED vars
  BY <1>1 DEF vars, TypeOK, DiskOK, LocksOK, ThreadsOK, CountsOK, OneNamePerFile, Inodes
<1>2. ASSUME NEW t \in Threads, Call(t) \/ Step(t) PROVE TypeOK'
  BY <1>2, WriteTypes, RotateTypes, ReturnTypes DEF Step
<1>3. ASSUME NEW p \in Procs, Crash(p) \/ Restart(p) PROVE TypeOK'
  BY <1>3, CrashTypes
<1> QED BY <1>1, <1>2, <1>3 DEF CrashNext, Next, Finished

\* In every behaviour of the log, crashes and restarts included, whatever the
\* number of threads and processes, the state is well formed and no rename
\* leaves two names on one file (audit.py:204).
THEOREM TypeCorrect == CrashSpec => []TypeOK
<1> QED BY TypeInit, TypeStep, PTL DEF CrashSpec

-----------------------------------------------------------------------------
(* One instance: every step leaves the records as they are or adds one that  *)
(* cites the head.                                                           *)

Same == OnDisk' = OnDisk /\ lastId' = lastId
Grew == \E r \in Record :
            /\ r.id = lastId + 1 /\ r.prev = lastId
            /\ OnDisk' = OnDisk \cup {r} /\ lastId' = lastId + 1

\* The thread inside the with-block is the only one there.
LEMMA Alone ==
    ASSUME SingleInstance, TypeOK, ChainInv, NEW t \in Threads, pc[t] \in Locked
    PROVE  \A u \in Threads \ {t} : pc[u] \notin Locked
  BY DEF SingleInstance, TypeOK, LocksOK, ChainInv, LockHeld

\* Only the state of the moving thread matters after its step.
LEMMA OthersKnow ==
    ASSUME SingleInstance, TypeOK, ChainInv, NEW t \in Threads, pc[t] \in Locked,
           NEW next, pc' = [pc EXCEPT ![t] = next],
           \/ UNCHANGED threadLock
           \/ next \notin Locked /\ threadLock' = [threadLock EXCEPT ![ProcOf[t]] = None]
    PROVE  LockHeld' /\ (Knows(t)' => \A u \in Threads : Knows(u)') /\ pc'[t] = next
<1>1. pc'[t] = next /\ \A u \in Threads \ {t} : pc'[u] = pc[u]
  BY DEF TypeOK, ThreadsOK
<1>2. \A u \in Threads \ {t} : pc'[u] \notin Locked
  BY <1>1, Alone
<1>3. LockHeld'
  BY <1>1, <1>2 DEF ChainInv, LockHeld
<1>4. \A u \in Threads \ {t} : Knows(u)'
  BY <1>2 DEF Knows, Locked
<1> QED BY <1>1, <1>3, <1>4

\* Records on disk, by place, before and after a step.
Placed(r) == \E i \in Inodes : \E k \in 1..Len(content[i]) : r = content[i][k]

LEMMA OnDiskPlaces ==
    /\ \A r : r \in OnDisk <=> Placed(r)
    /\ \A r : r \in OnDisk' <=> Placed(r)'
  BY DEF OnDisk, Placed

LEMMA GrowFile ==
    ASSUME TypeOK, NEW i \in Inodes, NEW r \in Record,
           content' = [content EXCEPT ![i] = Append(content[i], r)]
    PROVE  OnDisk' = OnDisk \cup {r} /\ Inodes' = Inodes /\ content'[i] # <<>>
           /\ TailHash(content'[i]) = r.id
           /\ \A j \in Inodes \ {i} : content'[j] = content[j]
<1>1. content \in Seq(Seq(Record)) /\ Len(content) \in Nat /\ DOMAIN content = 1..Len(content)
  BY LenProperties DEF TypeOK, DiskOK
<1>2. content[i] \in Seq(Record)
  BY <1>1, ElementOfSeq DEF Inodes
<1>3. /\ content'[i] = Append(content[i], r)
      /\ \A j \in Inodes \ {i} : content'[j] = content[j]
  BY <1>1 DEF Inodes
<1>4. Inodes' = Inodes
  <2>1. Append(content[i], r) \in Seq(Record)
    BY <1>2, Extend
  <2> QED BY <1>1, <2>1, UpdateSeq DEF Inodes
<1>5. /\ Len(content'[i]) = Len(content[i]) + 1 /\ Len(content[i]) \in Nat
      /\ \A k \in 1..Len(content[i]) : content'[i][k] = content[i][k]
      /\ content'[i][Len(content[i]) + 1] = r
      /\ content'[i] \in Seq(Record)
  BY <1>2, <1>3, Extend, LenProperties
<1>6. {content'[i][k] : k \in 1..Len(content'[i])} = {content[i][k] : k \in 1..Len(content[i])} \cup {r}
  BY <1>5, SMTT(40)
<1>7. OnDisk' = OnDisk \cup {r}
  BY <1>3, <1>4, <1>6 DEF OnDisk
<1>8. content'[i] # <<>> /\ TailHash(content'[i]) = r.id
  BY <1>5, EmptySeq DEF TailHash
<1> QED BY <1>3, <1>4, <1>7, <1>8

LEMMA NewFile ==
    ASSUME TypeOK, content' = Append(content, <<>>)
    PROVE  OnDisk' = OnDisk /\ Inodes' = Inodes \cup {Len(content) + 1} /\ Len(content) \in Nat
           /\ content'[Len(content) + 1] = <<>>
           /\ \A j \in Inodes : content'[j] = content[j]
<1>1. content \in Seq(Seq(Record)) /\ <<>> \in Seq(Record) /\ Len(content) \in Nat
  BY EmptySeq, LenProperties DEF TypeOK, DiskOK
<1>2. /\ Len(content') = Len(content) + 1
      /\ content'[Len(content) + 1] = <<>>
      /\ \A j \in Inodes : content'[j] = content[j]
  BY <1>1, Extend DEF Inodes
<1>3. Inodes' = Inodes \cup {Len(content) + 1}
  BY <1>1, <1>2 DEF Inodes
<1>4. \A k : k \notin 1..Len(content'[Len(content) + 1])
  BY <1>2, EmptySeq
<1>5. OnDisk' = OnDisk
  <2>1. ASSUME NEW r \in OnDisk PROVE r \in OnDisk'
    <3>1. PICK i \in Inodes : \E k \in 1..Len(content[i]) : r = content[i][k]
      BY <2>1, OnDiskPlaces DEF Placed
    <3>2. i \in Inodes' /\ \E k \in 1..Len(content'[i]) : r = content'[i][k]
      BY <3>1, <1>2, <1>3
    <3> QED BY <3>2, OnDiskPlaces DEF Placed
  <2>2. ASSUME NEW r \in OnDisk' PROVE r \in OnDisk
    <3>1. PICK i \in Inodes' : \E k \in 1..Len(content'[i]) : r = content'[i][k]
      <4>1. Placed(r)'
        BY <2>2, OnDiskPlaces
      <4> QED BY <4>1 DEF Placed
    <3>2. i # Len(content) + 1
      BY <3>1, <1>4
    <3>3. i \in Inodes
      BY <3>1, <3>2, <1>3
    <3> QED BY <3>1, <3>3, <1>2, OnDiskPlaces DEF Placed
  <2> QED BY <2>1, <2>2
<1> QED BY <1>1, <1>2, <1>3, <1>5

LEMMA SameFiles ==
    ASSUME UNCHANGED <<content, active, rotated>>
    PROVE  ChainHead' = ChainHead /\ OnDisk' = OnDisk /\ Inodes' = Inodes
  BY DEF ChainHead, OnDisk, Inodes, TailHash

\* A thread inside the with-block, but not at the statements named, finds the
\* active path and, in an empty active file, the beginning of the chain.
LEMMA PathFound ==
    ASSUME SingleInstance, TypeOK, ChainInv, NEW t \in Threads, pc[t] \in Locked
    PROVE  /\ pc[t] # "touch" => active \in Inodes
           /\ pc[t] \notin {"touch", "truncate", "marker"} /\ content[active] = <<>> => rotated = <<>>
<1>1. \A u \in Threads \ {t} : pc[u] \notin Locked
  BY Alone
<1>2. pc[t] # "touch" => active # NoFile
  BY <1>1 DEF ChainInv, PathMissing, Locked
<1>3. active # NoFile => active \in Inodes
  BY DEF TypeOK, DiskOK
<1> QED BY <1>1, <1>2, <1>3 DEF ChainInv, FreshFile, Locked

\* The hash a writer reads under both locks is the last one issued.
LEMMA TailIsLast ==
    ASSUME SingleInstance, TypeOK, ChainInv, NEW t \in Threads, pc[t] \in {"tail", "head"}
    PROVE  TailHash(content[active]) = lastId
<1>1. active # NoFile /\ (content[active] = <<>> => rotated = <<>>)
  BY PathFound DEF Locked, Inodes
<1>2. ChainHead = lastId
  BY DEF ChainInv, HeadIsLast
<1>3. CASE content[active] = <<>>
  BY <1>1, <1>2, <1>3 DEF ChainHead, TailHash
<1>4. CASE content[active] # <<>>
  BY <1>1, <1>2, <1>4 DEF ChainHead
<1> QED BY <1>3, <1>4

LEMMA CallChain ==
    ASSUME TypeOK, ChainInv, NEW t \in Threads, Call(t)
    PROVE  ChainInv' /\ Same
<1>1. ChainHead' = ChainHead /\ OnDisk' = OnDisk
  BY SameFiles DEF Call
<1>2. /\ UNCHANGED <<content, active, rotated, torn, up, lastId, threadLock, fh, prev, slot>>
      /\ pc[t] = "idle" /\ pc' = [pc EXCEPT ![t] = "acquire"]
  BY DEF Call, locals
<1>3. pc'[t] = "acquire" /\ \A u \in Threads \ {t} : pc'[u] = pc[u]
  BY <1>2 DEF TypeOK, ThreadsOK
<1>4. LockHeld' /\ PathMissing' /\ FreshFile'
  BY <1>2, <1>3 DEF ChainInv, LockHeld, PathMissing, FreshFile, Locked
<1>5. \A u \in Threads : Knows(u)'
  BY <1>2, <1>3 DEF ChainInv, Knows
<1> QED BY <1>1, <1>2, <1>4, <1>5 DEF ChainInv, HeadIsLast, IdsIssued, Same

LEMMA AcquireChain ==
    ASSUME SingleInstance, TypeOK, ChainInv, NEW t \in Threads, Acquire(t)
    PROVE  ChainInv' /\ Same
<1>1. \A u \in Threads : pc[u] \notin Locked
  BY DEF SingleInstance, TypeOK, LocksOK, ChainInv, LockHeld, Acquire
<1>2. ChainHead' = ChainHead /\ OnDisk' = OnDisk /\ UNCHANGED <<torn, up, lastId, active, content, rotated>>
  BY SameFiles DEF Acquire
<1>3. pc' = [pc EXCEPT ![t] = "open"] /\ threadLock' = [threadLock EXCEPT ![ProcOf[t]] = t]
  BY DEF Acquire
<1>4. \A u \in Threads : (pc'[u] = "open" /\ u = t) \/ pc'[u] \notin Locked
  BY <1>1, <1>3 DEF TypeOK, ThreadsOK
<1>5. LockHeld'
  BY <1>3, <1>4 DEF LockHeld, TypeOK, LocksOK
<1>6. PathMissing' /\ FreshFile'
  BY <1>1, <1>2 DEF ChainInv, PathMissing, FreshFile, Locked
<1>7. \A u \in Threads : Knows(u)'
  BY <1>4 DEF Knows, Locked
<1> QED BY <1>2, <1>5, <1>6, <1>7 DEF ChainInv, HeadIsLast, IdsIssued, Same

\* Steps up to the append, which leave the files alone.
LEMMA BeforeAppendChain ==
    ASSUME SingleInstance, TypeOK, ChainInv, NEW t \in Threads,
           Open(t) \/ Flock(t) \/ ReadTail(t) \/ TailTorn(t)
    PROVE  ChainInv' /\ Same
<1>1. pc[t] \in Locked /\ ~TailTorn(t)
  BY DEF Open, Flock, ReadTail, TailTorn, Locked, ChainInv
<1>2. active \in Inodes /\ (content[active] = <<>> => rotated = <<>>)
  BY <1>1, PathFound DEF Open, Flock, ReadTail
<1>3. UNCHANGED <<content, active, rotated, torn, up, lastId, threadLock>>
  BY <1>1, <1>2 DEF Open, OpenOrCreate, Flock, ReadTail, Inodes
<1>4. ChainHead' = ChainHead /\ OnDisk' = OnDisk
  BY <1>3, SameFiles
<1>5. PICK next \in {"flock", "tail", "append"} : pc' = [pc EXCEPT ![t] = next]
  BY <1>1 DEF Open, Flock, ReadTail
<1>6. LockHeld' /\ pc'[t] = next /\ (Knows(t)' => \A u \in Threads : Knows(u)')
  BY <1>1, <1>3, <1>5, OthersKnow
<1>7. Knows(t)'
  <2>1. CASE Open(t)
    BY <2>1, <1>3, <1>6 DEF Open, Knows, TypeOK, ThreadsOK
  <2>2. CASE Flock(t)
    BY <2>2, <1>3, <1>6 DEF Flock, Knows, TypeOK, ThreadsOK, ChainInv, locals
  <2>3. CASE ReadTail(t)
    <3>1. fh[t] = active /\ TailHash(content[active]) = lastId
      BY <2>3, TailIsLast DEF ReadTail, ChainInv, Knows
    <3> QED BY <2>3, <3>1, <1>3, <1>6 DEF ReadTail, Knows, TypeOK, ThreadsOK
  <2> QED BY <1>1, <2>1, <2>2, <2>3
<1>8. PathMissing' /\ FreshFile'
  BY <1>2, <1>3 DEF PathMissing, FreshFile, Inodes
<1> QED BY <1>3, <1>4, <1>6, <1>7, <1>8 DEF ChainInv, HeadIsLast, IdsIssued, Same

\* The new record cites the head and becomes it.
LEMMA AppendChain ==
    ASSUME SingleInstance, TypeOK, ChainInv, NEW t \in Threads, AppendRecord(t)
    PROVE  ChainInv' /\ Grew
<1> DEFINE r == [id |-> lastId + 1, prev |-> prev[t], seq |-> seq[t], by |-> ProcOf[t]]
<1>1. pc[t] \in Locked /\ fh[t] = active /\ prev[t] = lastId /\ active \in Inodes
  BY PathFound DEF AppendRecord, Locked, ChainInv, Knows
<1>2. r \in Record /\ r.id = lastId + 1 /\ r.prev = lastId
  BY <1>1 DEF Record, TypeOK, ThreadsOK, CountsOK
<1>3. content' = [content EXCEPT ![active] = Append(content[active], r)]
  BY <1>1 DEF AppendRecord
<1>4. UNCHANGED <<active, rotated, torn, up>> /\ lastId' = lastId + 1
  BY DEF AppendRecord
<1>5. /\ OnDisk' = OnDisk \cup {r} /\ content'[active] # <<>>
      /\ TailHash(content'[active]) = r.id
  <2> HIDE DEF r
  <2> QED BY <1>1, <1>2, <1>3, GrowFile, ZenonT(40)
<1>6. ChainHead' = lastId'
  BY <1>1, <1>2, <1>4, <1>5 DEF ChainHead, Inodes, TailHash
<1>7. IdsIssued'
  BY <1>2, <1>4, <1>5 DEF IdsIssued, ChainInv, TypeOK, CountsOK
<1>8. PathMissing' /\ FreshFile'
  BY <1>1, <1>4, <1>5 DEF PathMissing, FreshFile, Inodes
<1>9. LockHeld' /\ \A u \in Threads : Knows(u)'
  <2>1. \/ pc' = [pc EXCEPT ![t] = "head"] /\ UNCHANGED threadLock
        \/ pc' = [pc EXCEPT ![t] = "enqueue"] /\ threadLock' = [threadLock EXCEPT ![ProcOf[t]] = None]
    BY DEF AppendRecord, Leave
  <2>2. pc'[t] \in {"head", "enqueue"} => Knows(t)'
    BY <1>1, <1>4, <1>5 DEF Knows, Inodes
  <2> QED BY <1>1, <2>1, <2>2, OthersKnow DEF Locked
<1> QED BY <1>2, <1>4, <1>5, <1>6, <1>7, <1>8, <1>9 DEF ChainInv, HeadIsLast, Grew

LEMMA RotateHeadChain ==
    ASSUME SingleInstance, TypeOK, ChainInv, NEW t \in Threads, RotateHead(t)
    PROVE  ChainInv' /\ Same
<1>1. pc[t] \in Locked /\ active \in Inodes /\ content[active] # <<>> /\ TailHash(content[active]) = lastId
  BY PathFound, TailIsLast DEF RotateHead, Locked, ChainInv, Knows
<1>2. /\ UNCHANGED <<content, active, torn, up, lastId, threadLock>>
      /\ pc' = [pc EXCEPT ![t] = "replace"]
      /\ prev' = [prev EXCEPT ![t] = lastId]
      /\ slot' = [slot EXCEPT ![t] = Len(rotated) + 1]
      /\ rotated' = Append(rotated, NoFile)
  BY <1>1 DEF RotateHead
<1>3. ChainHead' = lastId /\ OnDisk' = OnDisk
  BY <1>1, <1>2 DEF ChainHead, OnDisk, Inodes, TailHash
<1>4. Len(rotated') = Len(rotated) + 1 /\ rotated' # <<>>
  <2>1. /\ rotated' \in Seq(Inodes \cup {NoFile}) /\ Len(rotated') = Len(rotated) + 1
        /\ Len(rotated) \in Nat
    BY <1>2, Extend, LenProperties DEF TypeOK, DiskOK
  <2> QED BY <2>1, EmptySeq
<1>5. Knows(t)'
  BY <1>1, <1>2, <1>4 DEF Knows, TypeOK, ThreadsOK, Inodes
<1>6. LockHeld' /\ \A u \in Threads : Knows(u)'
  BY <1>1, <1>2, <1>5, OthersKnow
<1>7. PathMissing' /\ FreshFile'
  BY <1>1, <1>2 DEF PathMissing, FreshFile, Inodes
<1> QED BY <1>2, <1>3, <1>6, <1>7 DEF ChainInv, HeadIsLast, IdsIssued, Same

\* The rename keeps the old head at the end of the newest rotated file.
LEMMA RotateReplaceChain ==
    ASSUME SingleInstance, TypeOK, ChainInv, NEW t \in Threads, RotateReplace(t)
    PROVE  ChainInv' /\ Same
<1>1. /\ pc[t] \in Locked /\ active \in Inodes /\ content[active] # <<>>
      /\ slot[t] = Len(rotated) /\ rotated # <<>> /\ prev[t] = lastId
  BY PathFound DEF RotateReplace, Locked, ChainInv, Knows
<1>2. /\ UNCHANGED <<content, torn, up, lastId, threadLock, prev>>
      /\ pc' = [pc EXCEPT ![t] = "touch"]
      /\ active' = NoFile
      /\ rotated' = [rotated EXCEPT ![Len(rotated)] = active]
  BY <1>1 DEF RotateReplace, locals
<1>3. Len(rotated') = Len(rotated) /\ rotated'[Len(rotated)] = active /\ rotated' # <<>>
  <2>1. rotated \in Seq(Inodes \cup {NoFile}) /\ Len(rotated) \in 1..Len(rotated)
    BY <1>1, EmptySeq DEF TypeOK, DiskOK
  <2>2. Len(rotated') = Len(rotated) /\ rotated'[Len(rotated)] = active /\ rotated' \in Seq(Inodes \cup {NoFile})
    BY <1>1, <1>2, <2>1, ExceptSeq
  <2> QED BY <2>1, <2>2, EmptySeq
<1>4. ChainHead = TailHash(content[active]) /\ ChainHead = lastId
  BY <1>1 DEF ChainHead, Inodes, ChainInv, HeadIsLast
<1>5. ChainHead' = lastId /\ OnDisk' = OnDisk
  BY <1>1, <1>2, <1>3, <1>4 DEF ChainHead, OnDisk, Inodes, TailHash
<1>6. Knows(t)'
  BY <1>1, <1>2 DEF Knows, TypeOK, ThreadsOK
<1>7. LockHeld' /\ \A u \in Threads : Knows(u)'
  BY <1>1, <1>2, <1>6, OthersKnow
<1>8. PathMissing' /\ FreshFile'
  BY <1>2 DEF PathMissing, FreshFile, TypeOK, ThreadsOK
<1> QED BY <1>2, <1>5, <1>7, <1>8 DEF ChainInv, HeadIsLast, IdsIssued, Same

LEMMA RotateTouchChain ==
    ASSUME SingleInstance, TypeOK, ChainInv, NEW t \in Threads, RotateTouch(t)
    PROVE  ChainInv' /\ Same
<1>1. pc[t] \in Locked /\ active = NoFile /\ prev[t] = lastId
  BY DEF RotateTouch, Locked, ChainInv, Knows
<1>2. /\ UNCHANGED <<rotated, torn, up, lastId, threadLock, prev>>
      /\ pc' = [pc EXCEPT ![t] = "truncate"]
      /\ content' = Append(content, <<>>) /\ active' = Len(content) + 1
  BY <1>1 DEF RotateTouch, OpenOrCreate, locals
<1>3. /\ OnDisk' = OnDisk /\ content'[active'] = <<>> /\ active' # NoFile
      /\ \A j \in Inodes : content'[j] = content[j]
  <2>1. /\ OnDisk' = OnDisk /\ content'[Len(content) + 1] = <<>> /\ Len(content) \in Nat
        /\ \A j \in Inodes : content'[j] = content[j]
    BY <1>2, NewFile
  <2>2. active' = Len(content) + 1
    BY <1>2
  <2> QED BY <2>1, <2>2
<1>4. ChainHead' = lastId
  <2>1. ChainHead = lastId
    BY DEF ChainInv, HeadIsLast
  <2>2. rotated # <<>> => rotated[Len(rotated)] \in Inodes \cup {NoFile}
    BY EmptySeq, ElementOfSeq DEF TypeOK, DiskOK
  <2> QED BY <1>1, <1>2, <1>3, <2>1, <2>2 DEF ChainHead, TailHash
<1>5. Knows(t)'
  BY <1>1, <1>2, <1>3 DEF Knows, TypeOK, ThreadsOK
<1>6. LockHeld' /\ \A u \in Threads : Knows(u)'
  BY <1>1, <1>2, <1>5, OthersKnow
<1>7. PathMissing' /\ FreshFile'
  BY <1>2, <1>3 DEF PathMissing, FreshFile, TypeOK, ThreadsOK
<1> QED BY <1>2, <1>3, <1>4, <1>6, <1>7 DEF ChainInv, HeadIsLast, IdsIssued, Same

\* write_text empties a file that is empty already.
LEMMA RotateTruncateChain ==
    ASSUME SingleInstance, TypeOK, ChainInv, NEW t \in Threads, RotateTruncate(t)
    PROVE  ChainInv' /\ Same
<1>1. pc[t] \in Locked /\ active \in Inodes /\ content[active] = <<>> /\ prev[t] = lastId
  BY PathFound DEF RotateTruncate, Locked, ChainInv, Knows
<1>2. /\ UNCHANGED <<active, rotated, up, lastId, threadLock, prev>>
      /\ pc' = [pc EXCEPT ![t] = "marker"] /\ fh' = [fh EXCEPT ![t] = active]
      /\ content' = [content EXCEPT ![active] = <<>>] /\ torn' = {}
  <2>1. active # NoFile
    BY <1>1 DEF Inodes
  <2>2. torn = {} /\ torn' = torn \ {active}
    BY DEF RotateTruncate, ChainInv
  <2>3. torn' = {}
    BY <2>2
  <2> QED BY <2>1, <2>3 DEF RotateTruncate
<1>3. content' = content
  <2>1. content \in Seq(Seq(Record)) /\ content \in [1..Len(content) -> Seq(Record)]
    BY LenProperties DEF TypeOK, DiskOK
  <2> QED BY <1>1, <1>2, <2>1 DEF Inodes
<1>4. ChainHead' = ChainHead /\ OnDisk' = OnDisk
  BY <1>2, <1>3, SameFiles
<1>5. Knows(t)'
  BY <1>1, <1>2, <1>3 DEF Knows, TypeOK, ThreadsOK, Inodes
<1>6. LockHeld' /\ \A u \in Threads : Knows(u)'
  BY <1>1, <1>2, <1>5, OthersKnow
<1>7. PathMissing' /\ FreshFile'
  BY <1>1, <1>2 DEF PathMissing, FreshFile, TypeOK, ThreadsOK, Inodes
<1> QED BY <1>2, <1>4, <1>6, <1>7 DEF ChainInv, HeadIsLast, IdsIssued, Same

\* The marker cites the old head and begins the new file.
LEMMA RotateMarkerChain ==
    ASSUME SingleInstance, TypeOK, ChainInv, NEW t \in Threads, RotateMarker(t)
    PROVE  ChainInv' /\ Grew
<1> DEFINE r == [id |-> lastId + 1, prev |-> prev[t], seq |-> 0, by |-> ProcOf[t]]
<1>1. pc[t] \in Locked /\ fh[t] = active /\ prev[t] = lastId /\ active \in Inodes /\ content[active] = <<>>
  BY PathFound DEF RotateMarker, Locked, ChainInv, Knows
<1>2. r \in Record /\ r.id = lastId + 1 /\ r.prev = lastId
  BY <1>1 DEF Record, TypeOK, ThreadsOK, CountsOK
<1>3. content' = [content EXCEPT ![active] = Append(content[active], r)]
  <2>1. content' = [content EXCEPT ![active] = <<r>>]
    BY <1>1 DEF RotateMarker
  <2>2. <<r>> = Append(<<>>, r)
    OBVIOUS
  <2> QED BY <1>1, <2>1, <2>2
<1>4. /\ UNCHANGED <<active, rotated, torn, up>> /\ lastId' = lastId + 1
      /\ pc' = [pc EXCEPT ![t] = "enqueue"] /\ threadLock' = [threadLock EXCEPT ![ProcOf[t]] = None]
  BY DEF RotateMarker, Leave
<1>5. /\ OnDisk' = OnDisk \cup {r} /\ content'[active] # <<>>
      /\ TailHash(content'[active]) = r.id
  <2> HIDE DEF r
  <2> QED BY <1>1, <1>2, <1>3, GrowFile
<1>6. ChainHead' = lastId'
  BY <1>1, <1>2, <1>4, <1>5 DEF ChainHead, Inodes, TailHash
<1>7. IdsIssued'
  BY <1>2, <1>4, <1>5 DEF IdsIssued, ChainInv, TypeOK, CountsOK
<1>8. PathMissing' /\ FreshFile'
  BY <1>1, <1>4, <1>5 DEF PathMissing, FreshFile, Inodes
<1>9. LockHeld' /\ \A u \in Threads : Knows(u)'
  <2>1. pc'[t] = "enqueue" => Knows(t)'
    BY DEF Knows
  <2> QED BY <1>1, <1>4, <2>1, OthersKnow DEF Locked
<1> QED BY <1>2, <1>4, <1>5, <1>6, <1>7, <1>8, <1>9 DEF ChainInv, HeadIsLast, Grew

LEMMA ReturnChain ==
    ASSUME SingleInstance, TypeOK, ChainInv, NEW t \in Threads,
           Enqueue(t) \/ Anchor(t) \/ NoForwarder(t)
    PROVE  ChainInv' /\ Same
<1>1. PICK next \in {"anchor", "idle"} : pc' = [pc EXCEPT ![t] = next]
  BY DEF Enqueue, Anchor, NoForwarder, Return
<1>2. UNCHANGED <<content, active, rotated, torn, up, lastId, threadLock>> /\ pc[t] \notin Locked
  BY DEF Enqueue, Anchor, NoForwarder, Locked
<1>3. \A u \in Threads \ {t} : UNCHANGED <<pc[u], fh[u], prev[u], slot[u]>>
  BY <1>1 DEF Enqueue, Anchor, NoForwarder, Return, Forget, locals, TypeOK, ThreadsOK
<1>4. ChainHead' = ChainHead /\ OnDisk' = OnDisk
  BY <1>2, SameFiles
<1>5. pc'[t] = next
  BY <1>1 DEF TypeOK, ThreadsOK
<1>6. \A u \in Threads : Knows(u)'
  BY <1>2, <1>3, <1>5 DEF ChainInv, Knows
<1>7. LockHeld'
  BY <1>2, <1>3, <1>5 DEF ChainInv, LockHeld, Locked
<1>8. PathMissing' /\ FreshFile'
  BY <1>2, <1>3 DEF ChainInv, PathMissing, FreshFile, Locked
<1> QED BY <1>2, <1>4, <1>6, <1>7, <1>8 DEF ChainInv, HeadIsLast, IdsIssued, Same

LEMMA ChainStep ==
    ASSUME SingleInstance, TypeOK, ChainInv, [Next]_vars
    PROVE  ChainInv' /\ (Same \/ Grew)
<1>1. CASE UNCHANGED vars
  <2>1. ChainHead' = ChainHead /\ OnDisk' = OnDisk /\ UNCHANGED vars
    BY <1>1, SameFiles DEF vars
  <2> QED BY <2>1 DEF vars, ChainInv, LockHeld, HeadIsLast, IdsIssued, PathMissing, FreshFile, Knows, Same
<1>2. ASSUME NEW t \in Threads, Call(t) \/ Step(t) PROVE ChainInv' /\ (Same \/ Grew)
  <2>1. ~RotateFails(t)
    <3>1. pc[t] \in {"head", "replace"} => active # NoFile /\ torn = {}
      BY DEF ChainInv, Knows
    <3> QED BY <3>1 DEF RotateFails
  <2> QED BY <1>2, <2>1, CallChain, AcquireChain, BeforeAppendChain, AppendChain, RotateHeadChain,
             RotateReplaceChain, RotateTouchChain, RotateTruncateChain, RotateMarkerChain,
             ReturnChain DEF Step
<1> QED BY <1>1, <1>2 DEF Next, Finished

LEMMA ChainInit == Init => ChainInv
<1> SUFFICES ASSUME Init PROVE ChainInv
  OBVIOUS
<1>1. content[1] = <<>> /\ active = 1 /\ rotated = <<>> /\ Inodes = 1..1
  BY DEF Init, Inodes
<1>2. OnDisk = {}
  BY <1>1, EmptySeq DEF OnDisk
<1>3. \A t \in Threads : pc[t] = "idle"
  BY DEF Init
<1> QED BY <1>1, <1>2, <1>3 DEF Init, ChainInv, LockHeld, HeadIsLast, ChainHead, TailHash,
           IdsIssued, PathMissing, FreshFile, Knows, Locked

\* What holds of one instance as long as no process has died.
UntilCrash == TypeOK /\ (crashes = 0 => ChainInv)

LEMMA NextKeepsCrashes == [Next]_vars => crashes' = crashes
<1>1. ASSUME NEW t \in Threads, Call(t) \/ Step(t) PROVE crashes' = crashes
  BY <1>1 DEF Call, Step, Acquire, Open, Flock, ReadTail, TailTorn, AppendRecord, RotateHead,
              RotateReplace, RotateFails, RotateTouch, RotateTruncate, RotateMarker, Enqueue,
              Anchor, NoForwarder, Raise
<1> QED BY <1>1 DEF Next, Finished, vars

\* A step that leaves no crash behind is a step of a living instance.
LEMMA NoCrashStep ==
    ASSUME UntilCrash, [CrashNext]_vars, crashes' = 0
    PROVE  ChainInv /\ [Next]_vars
<1>1. crashes \in Nat
  BY DEF UntilCrash, TypeOK, CountsOK
<1>2. CASE UNCHANGED vars
  BY <1>2 DEF UntilCrash, vars
<1>4. CASE Next
  BY <1>4, NextKeepsCrashes DEF UntilCrash
<1>5. ASSUME NEW p \in Procs, Crash(p) PROVE FALSE
  BY <1>1, <1>5 DEF Crash
<1>6. ASSUME NEW p \in Procs, Restart(p) PROVE FALSE
  BY <1>6 DEF Restart, UntilCrash, ChainInv
<1> QED BY <1>2, <1>4, <1>5, <1>6 DEF CrashNext

LEMMA OneInstance ==
    ASSUME SingleInstance
    PROVE  CrashSpec => []UntilCrash
<1>1. UntilCrash /\ [CrashNext]_vars => UntilCrash'
  <2> SUFFICES ASSUME UntilCrash, [CrashNext]_vars PROVE UntilCrash'
    OBVIOUS
  <2>1. TypeOK'
    BY TypeStep DEF UntilCrash
  <2>2. crashes' = 0 => ChainInv'
    BY NoCrashStep, ChainStep DEF UntilCrash
  <2> QED BY <2>1, <2>2 DEF UntilCrash
<1>2. Init => UntilCrash
  BY TypeInit, ChainInit DEF UntilCrash
<1> QED BY <1>1, <1>2, PTL DEF CrashSpec

LEMMA StepImplementsChain ==
    ASSUME SingleInstance, TypeOK, ChainInv, [Next]_vars
    PROVE  [Chain!AppendToHead]_(Chain!chainVars)
<1>1. ChainHead = lastId /\ ChainHead' = lastId'
  BY ChainStep DEF ChainInv, HeadIsLast
<1>2. CASE Same
  BY <1>1, <1>2 DEF Same, Links, Chain!chainVars
<1>3. CASE Grew
  <2>1. PICK r \in Record : /\ r.id = lastId + 1 /\ r.prev = lastId
                            /\ OnDisk' = OnDisk \cup {r} /\ lastId' = lastId + 1
    BY <1>3 DEF Grew
  <2> DEFINE new == [id |-> r.id, prev |-> r.prev]
  <2>2. Links' = Links \cup {new}
    BY <2>1 DEF Links
  <2>3. new.id \notin {s.id : s \in Links} \cup {0}
    <3>1. \A s \in Links : s.id \in 1..lastId
      BY DEF ChainInv, IdsIssued, Links
    <3> QED BY <2>1, <3>1 DEF TypeOK, CountsOK
  <2>4. new \in Links' /\ new.prev = ChainHead /\ ChainHead' = new.id
    BY <1>1, <2>1, <2>2
  <2> HIDE DEF new
  <2>5. Chain!AppendToHead
    BY <2>2, <2>3, <2>4 DEF Chain!AppendToHead, Chain!Ids
  <2> QED BY <2>5
<1> QED BY <1>2, <1>3, ChainStep

LEMMA LogBegins == Init => Chain!ChainInit
<1> SUFFICES ASSUME Init PROVE OnDisk = {} /\ ChainHead = 0
  BY DEF Links, Chain!ChainInit
<1>1. content[1] = <<>> /\ active = 1 /\ rotated = <<>> /\ Inodes = 1..1
  BY DEF Init, Inodes
<1> QED BY <1>1, EmptySeq DEF OnDisk, ChainHead

\* One AuditLog instance, with any number of threads, implements the abstract
\* chain as long as it is not killed: rotation, markers and files included, each
\* record cites the head (audit.py:16-18, audit.py:192-197).
THEOREM OneInstanceImplementsChain ==
    ASSUME SingleInstance
    PROVE  CrashSpec => ImplementsChain
<1>1. UntilCrash /\ [CrashNext]_vars =>
          [crashes' = 0 => [Chain!AppendToHead]_(Chain!chainVars)]_vars
  BY NoCrashStep, StepImplementsChain DEF UntilCrash
<1> QED BY LogBegins, <1>1, OneInstance, PTL DEF CrashSpec, ImplementsChain

-----------------------------------------------------------------------------
(* One instance, killed at any statement: no record is lost, and none is     *)
(* handed over that is not on disk.                                          *)

LEMMA AloneInside ==
    ASSUME SingleInstance, TypeOK, RotationInv, NEW t \in Threads, pc[t] \in Locked
    PROVE  \A u \in Threads \ {t} : pc[u] \notin Locked
  BY DEF SingleInstance, TypeOK, LocksOK, RotationInv, LockHeld

\* Only the state of the moving thread matters after its step, inside ...
LEMMA OthersOutside ==
    ASSUME SingleInstance, TypeOK, RotationInv, NEW t \in Threads, pc[t] \in Locked,
           NEW next, pc' = [pc EXCEPT ![t] = next], up' = up,
           \/ UNCHANGED threadLock
           \/ next \notin Locked /\ threadLock' = [threadLock EXCEPT ![ProcOf[t]] = None],
           OwnFile(t)'
    PROVE  RotationInv'
<1>1. pc'[t] = next /\ \A u \in Threads \ {t} : pc'[u] = pc[u] /\ pc'[u] \notin Locked
  BY AloneInside DEF TypeOK, ThreadsOK
<1>2. LockHeld'
  BY <1>1 DEF RotationInv, LockHeld
<1>3. \A u \in Threads \ {t} : OwnFile(u)'
  BY <1>1 DEF OwnFile, Locked
<1>4. \A u \in Threads : pc'[u] # "idle" => ProcOf[u] \in up'
  BY <1>1 DEF RotationInv, Locked
<1> QED BY <1>2, <1>3, <1>4 DEF RotationInv

\* ... and before and after the with-block.
LEMMA InsideUndisturbed ==
    ASSUME TypeOK, RotationInv, NEW t \in Threads, pc[t] \notin Locked,
           NEW next, next \notin Locked, pc' = [pc EXCEPT ![t] = next], ProcOf[t] \in up,
           \A u \in Threads \ {t} : fh'[u] = fh[u],
           UNCHANGED <<content, active, threadLock, up>>
    PROVE  RotationInv'
<1>1. pc'[t] = next /\ \A u \in Threads \ {t} : pc'[u] = pc[u]
  BY DEF TypeOK, ThreadsOK
<1> QED BY <1>1 DEF RotationInv, LockHeld, OwnFile, Locked

LEMMA CallRotation ==
    ASSUME SingleInstance, TypeOK, RotationInv, NEW t \in Threads,
           Call(t) \/ Acquire(t) \/ Enqueue(t) \/ Anchor(t) \/ NoForwarder(t)
    PROVE  RotationInv' /\ content' = content
<1>1. CASE Call(t)
  BY <1>1, InsideUndisturbed DEF Call, Locked, locals
<1>2. CASE Acquire(t)
  <2>1. \A u \in Threads : pc[u] \notin Locked
    BY <1>2 DEF Acquire, SingleInstance, RotationInv, LockHeld
  <2>2. pc'[t] = "open" /\ \A u \in Threads \ {t} : pc'[u] = pc[u]
    BY <1>2 DEF Acquire, TypeOK, ThreadsOK
  <2>3. LockHeld'
    BY <1>2, <2>1, <2>2 DEF Acquire, LockHeld, TypeOK, LocksOK
  <2>4. \A u \in Threads : OwnFile(u)' /\ (pc'[u] # "idle" => ProcOf[u] \in up')
    BY <1>2, <2>1, <2>2 DEF Acquire, OwnFile, Locked, RotationInv
  <2> QED BY <1>2, <2>3, <2>4 DEF RotationInv, Acquire
<1>3. CASE Enqueue(t) \/ Anchor(t) \/ NoForwarder(t)
  <2>1. pc[t] \in {"enqueue", "anchor"} /\ ProcOf[t] \in up
    BY <1>3 DEF Enqueue, Anchor, NoForwarder, RotationInv
  <2>2. \A u \in Threads \ {t} : fh'[u] = fh[u]
    BY <1>3 DEF Enqueue, Anchor, NoForwarder, Return, Forget, locals
  <2>3. \E next \in {"idle", "anchor"} : pc' = [pc EXCEPT ![t] = next]
    BY <1>3 DEF Enqueue, Anchor, NoForwarder, Return
  <2>4. UNCHANGED <<content, active, threadLock, up>>
    BY <1>3 DEF Enqueue, Anchor, NoForwarder
  <2> QED BY <2>1, <2>2, <2>3, <2>4, InsideUndisturbed DEF Locked
<1> QED BY <1>1, <1>2, <1>3

\* Opening a path adds an empty file or none.
LEMMA OpenKeeps ==
    ASSUME TypeOK, OpenOrCreate
    PROVE  OnDisk' = OnDisk
<1>1. CASE active # NoFile
  BY <1>1 DEF OpenOrCreate, OnDisk, Inodes
<1>2. CASE active = NoFile
  BY <1>2, NewFile DEF OpenOrCreate
<1> QED BY <1>1, <1>2

LEMMA NewRecord ==
    ASSUME TypeOK, NEW t \in Threads, AppendRecord(t)
    PROVE  \E r \in Record : r.id = own'[t] /\ r.by = ProcOf[t] /\ OnDisk' = OnDisk \cup {r}
<1> DEFINE r == [id |-> lastId + 1, prev |-> prev[t], seq |-> seq[t], by |-> ProcOf[t]]
<1>1. r \in Record /\ r.id = lastId + 1 /\ r.by = ProcOf[t]
  BY DEF Record, TypeOK, ThreadsOK, CountsOK
<1>2. fh[t] \in Inodes
  BY DEF AppendRecord, TypeOK, ThreadsOK
<1>3. content' = [content EXCEPT ![fh[t]] = Append(content[fh[t]], r)]
  BY <1>2 DEF AppendRecord
<1>4. own'[t] = lastId + 1
  BY DEF AppendRecord, TypeOK, ThreadsOK
<1> HIDE DEF r
<1>5. OnDisk' = OnDisk \cup {r}
  BY <1>1, <1>2, <1>3, GrowFile
<1> QED BY <1>1, <1>4, <1>5

LEMMA AppendedRecord ==
    ASSUME TypeOK, NEW t \in Threads, AppendRecord(t)
    PROVE  OnDisk \subseteq OnDisk' /\ own'[t] \in IdsOnDisk'
  BY NewRecord DEF IdsOnDisk

LEMMA WriteRotation ==
    ASSUME SingleInstance, TypeOK, RotationInv, NEW t \in Threads,
           Open(t) \/ Flock(t) \/ ReadTail(t) \/ AppendRecord(t)
    PROVE  RotationInv' /\ OnDisk \subseteq OnDisk'
<1>1. CASE Open(t)
  <2>1. pc'[t] = "flock"
    BY <1>1 DEF Open, TypeOK, ThreadsOK
  <2>2. OwnFile(t)'
    BY <2>1 DEF OwnFile
  <2>3. RotationInv'
    BY <1>1, <2>2, OthersOutside DEF Open, Locked
  <2> QED BY <1>1, <2>3, OpenKeeps DEF Open
<1>2. CASE Flock(t) \/ ReadTail(t)
  <2>1. pc'[t] \in {"tail", "append"}
    BY <1>2 DEF Flock, ReadTail, TypeOK, ThreadsOK
  <2>2. OwnFile(t)'
    BY <2>1 DEF OwnFile
  <2> QED BY <1>2, <2>2, OthersOutside, SMTT(40) DEF Flock, ReadTail, Locked, OnDisk, Inodes
<1>3. CASE AppendRecord(t)
  <2>1. \E next \in {"head", "enqueue"} :
            /\ pc' = [pc EXCEPT ![t] = next]
            /\ \/ UNCHANGED threadLock
               \/ next \notin Locked /\ threadLock' = [threadLock EXCEPT ![ProcOf[t]] = None]
    BY <1>3 DEF AppendRecord, Leave, Locked
  <2>2. pc'[t] \in {"head", "enqueue"}
    BY <2>1 DEF TypeOK, ThreadsOK
  <2>3. OwnFile(t)'
    BY <2>2 DEF OwnFile
  <2>4. RotationInv'
    BY <1>3, <2>1, <2>3, OthersOutside DEF AppendRecord, Locked
  <2>5. OnDisk \subseteq OnDisk'
    BY <1>3, AppendedRecord
  <2> QED BY <2>4, <2>5
<1> QED BY <1>1, <1>2, <1>3

LEMMA RaiseRotation ==
    ASSUME SingleInstance, TypeOK, RotationInv, NEW t \in Threads, TailTorn(t) \/ RotateFails(t)
    PROVE  RotationInv' /\ content' = content
<1>1. pc[t] \in Locked /\ Raise(t)
  BY DEF TailTorn, RotateFails, Locked
<1>2. pc'[t] = "idle"
  BY <1>1 DEF Raise, Leave, TypeOK, ThreadsOK
<1>3. OwnFile(t)'
  BY <1>2 DEF OwnFile
<1> QED BY <1>1, <1>3, OthersOutside DEF Raise, Leave, Locked

LEMMA RotateRotation ==
    ASSUME SingleInstance, TypeOK, RotationInv, NEW t \in Threads,
           \/ RotateHead(t) \/ RotateReplace(t) \/ RotateTouch(t) \/ RotateTruncate(t)
           \/ RotateMarker(t)
    PROVE  RotationInv' /\ OnDisk \subseteq OnDisk'
<1>1. CASE RotateHead(t)
  <2>1. pc'[t] = "replace" /\ content' = content
    BY <1>1 DEF RotateHead, TypeOK, ThreadsOK
  <2>2. OwnFile(t)'
    BY <2>1 DEF OwnFile
  <2>3. RotationInv'
    BY <1>1, <2>2, OthersOutside DEF RotateHead, Locked
  <2> QED BY <2>1, <2>3 DEF OnDisk, Inodes
<1>2. CASE RotateReplace(t)
  <2>1. pc'[t] = "touch" /\ content' = content /\ active' = NoFile
    BY <1>2 DEF RotateReplace, TypeOK, ThreadsOK
  <2>2. OwnFile(t)'
    BY <2>1 DEF OwnFile
  <2>3. RotationInv'
    BY <1>2, <2>2, OthersOutside DEF RotateReplace, Locked
  <2> QED BY <2>1, <2>3 DEF OnDisk, Inodes
<1>3. CASE RotateTouch(t)
  <2>1. active = NoFile /\ pc'[t] = "truncate"
    BY <1>3 DEF RotateTouch, RotationInv, OwnFile, TypeOK, ThreadsOK
  <2>2. active' # NoFile /\ content'[active'] = <<>>
    BY <1>3, <2>1, NewFile DEF RotateTouch, OpenOrCreate
  <2>3. OwnFile(t)'
    BY <2>1, <2>2 DEF OwnFile
  <2> QED BY <1>3, <2>3, OthersOutside, OpenKeeps DEF RotateTouch, Locked
<1>4. CASE RotateTruncate(t)
  <2>1. active \in Inodes /\ active # NoFile /\ content[active] = <<>> /\ pc'[t] = "marker"
    BY <1>4 DEF RotateTruncate, RotationInv, OwnFile, TypeOK, ThreadsOK, DiskOK
  <2>2. content' = content /\ fh'[t] = active
    <3>1. content' = [content EXCEPT ![active] = <<>>]
      BY <1>4, <2>1 DEF RotateTruncate
    <3>2. content' = content
      <4>1. content \in [Inodes -> Seq(Record)]
        BY LenProperties DEF TypeOK, DiskOK, Inodes
      <4> QED BY <3>1, <2>1, <4>1
    <3> QED BY <1>4, <2>1, <3>2 DEF RotateTruncate, TypeOK, ThreadsOK
  <2>3. OwnFile(t)'
    BY <2>1, <2>2 DEF OwnFile
  <2>4. RotationInv'
    BY <1>4, <2>3, OthersOutside DEF RotateTruncate, Locked
  <2> QED BY <2>2, <2>4 DEF OnDisk, Inodes
<1>5. CASE RotateMarker(t)
  <2> DEFINE r == [id |-> lastId + 1, prev |-> prev[t], seq |-> 0, by |-> ProcOf[t]]
  <2>1. r \in Record
    BY DEF Record, TypeOK, ThreadsOK, CountsOK
  <2>2. fh[t] \in Inodes /\ content[fh[t]] = <<>>
    BY <1>5 DEF RotateMarker, RotationInv, OwnFile, TypeOK, ThreadsOK
  <2>3. content' = [content EXCEPT ![fh[t]] = Append(content[fh[t]], r)]
    <3>1. content' = [content EXCEPT ![fh[t]] = <<r>>]
      BY <1>5, <2>2 DEF RotateMarker
    <3>2. <<r>> = Append(<<>>, r)
      OBVIOUS
    <3> QED BY <2>2, <3>1, <3>2
  <2>4. OnDisk \subseteq OnDisk'
    <3> HIDE DEF r
    <3> QED BY <2>1, <2>2, <2>3, GrowFile
  <2>5. pc'[t] = "enqueue"
    BY <1>5 DEF RotateMarker, Leave, TypeOK, ThreadsOK
  <2>6. OwnFile(t)'
    BY <2>5 DEF OwnFile
  <2>7. RotationInv'
    BY <1>5, <2>6, OthersOutside DEF RotateMarker, Leave, Locked
  <2> QED BY <2>4, <2>7
<1> QED BY <1>1, <1>2, <1>3, <1>4, <1>5

LEMMA CrashRotation ==
    ASSUME SingleInstance, TypeOK, RotationInv, NEW p \in Procs, Crash(p) \/ Restart(p)
    PROVE  RotationInv' /\ OnDisk \subseteq OnDisk'
<1>1. \A t \in Threads : pc'[t] = "idle"
  BY DEF Crash, Restart, SingleInstance, RotationInv, TypeOK, ThreadsOK
<1>2. RotationInv'
  BY <1>1 DEF RotationInv, LockHeld, OwnFile, Locked
<1>3. content' = content \/ OpenOrCreate
  BY DEF Crash, Restart
<1>4. content' = content => OnDisk' = OnDisk
  BY DEF OnDisk, Inodes
<1> QED BY <1>2, <1>3, <1>4, OpenKeeps

LEMMA RotationStep ==
    ASSUME SingleInstance, TypeOK, RotationInv, [CrashNext]_vars
    PROVE  RotationInv' /\ OnDisk \subseteq OnDisk'
<1>1. CASE UNCHANGED vars
  BY <1>1 DEF vars, RotationInv, LockHeld, OwnFile, OnDisk, Inodes
<1>2. ASSUME NEW t \in Threads, Call(t) \/ Step(t) PROVE RotationInv' /\ OnDisk \subseteq OnDisk'
  <2>1. content' = content => OnDisk' = OnDisk
    BY DEF OnDisk, Inodes
  <2>2. CASE Call(t) \/ Acquire(t) \/ Enqueue(t) \/ Anchor(t) \/ NoForwarder(t)
    BY <2>1, <2>2, CallRotation
  <2>3. CASE TailTorn(t) \/ RotateFails(t)
    BY <2>1, <2>3, RaiseRotation
  <2>4. CASE Open(t) \/ Flock(t) \/ ReadTail(t) \/ AppendRecord(t)
    BY <2>4, WriteRotation
  <2>5. CASE \/ RotateHead(t) \/ RotateReplace(t) \/ RotateTouch(t) \/ RotateTruncate(t)
             \/ RotateMarker(t)
    BY <2>5, RotateRotation
  <2> QED BY <1>2, <2>2, <2>3, <2>4, <2>5 DEF Step
<1> QED BY <1>1, <1>2, CrashRotation DEF CrashNext, Next, Finished

LEMMA RotationAlways ==
    ASSUME SingleInstance
    PROVE  CrashSpec => [](TypeOK /\ RotationInv)
<1>1. Init => RotationInv
  BY DEF Init, RotationInv, LockHeld, OwnFile, Locked
<1>2. TypeOK /\ RotationInv /\ [CrashNext]_vars => (TypeOK /\ RotationInv)'
  BY TypeStep, RotationStep
<1> QED BY <1>1, <1>2, TypeInit, PTL DEF CrashSpec

\* No step of one instance, and no crash of it, removes a record that is on
\* disk: a rotation empties only the file it has made itself (audit.py:204-223).
THEOREM OneInstanceKeepsRecords ==
    ASSUME SingleInstance
    PROVE  CrashSpec => RecordsPersist
<1>1. TypeOK /\ RotationInv /\ [CrashNext]_vars => [IdsOnDisk \subseteq IdsOnDisk']_vars
  <2> SUFFICES ASSUME TypeOK, RotationInv, [CrashNext]_vars PROVE IdsOnDisk \subseteq IdsOnDisk'
    OBVIOUS
  <2> QED BY RotationStep DEF IdsOnDisk
<1> QED BY <1>1, RotationAlways, PTL DEF CrashSpec, RecordsPersist

\* The records a step can hand over are on disk when it does.
LEMMA SpoolStep ==
    ASSUME TypeOK, SpoolInv, [CrashNext]_vars, OnDisk \subseteq OnDisk'
    PROVE  SpoolInv'
<1>1. IdsOnDisk \subseteq IdsOnDisk'
  BY DEF IdsOnDisk
<1>2. ASSUME UNCHANGED spool PROVE ForwardedIsDurable'
  BY <1>1, <1>2 DEF SpoolInv, ForwardedIsDurable, Spooled
<1>4. CASE UNCHANGED vars
  BY <1>2, <1>4 DEF vars, SpoolInv, IdsOnDisk, OnDisk, Inodes
<1>5. ASSUME NEW t \in Threads,
             \/ Call(t) \/ Acquire(t) \/ Open(t) \/ Flock(t) \/ ReadTail(t)
             \/ RotateHead(t) \/ RotateReplace(t) \/ RotateTouch(t) \/ RotateTruncate(t)
             \/ RotateMarker(t)
      PROVE  SpoolInv'
  <2>1. UNCHANGED <<spool, own>>
    BY <1>5 DEF Call, Acquire, Open, Flock, ReadTail, RotateHead, RotateReplace, RotateTouch,
                RotateTruncate, RotateMarker, locals
  <2>2. \A u \in Threads : pc'[u] \in Written => pc[u] \in Written
    BY <1>5 DEF Call, Acquire, Open, Flock, ReadTail, RotateHead, RotateReplace, RotateTouch,
                RotateTruncate, RotateMarker, Leave, Written, TypeOK, ThreadsOK
  <2> QED BY <1>1, <1>2, <2>1, <2>2 DEF SpoolInv
<1>6. ASSUME NEW t \in Threads, AppendRecord(t) PROVE SpoolInv'
  <2>1. own'[t] \in IdsOnDisk' /\ UNCHANGED spool
    BY <1>6, AppendedRecord DEF AppendRecord
  <2>2. \A u \in Threads \ {t} : own'[u] = own[u] /\ pc'[u] = pc[u]
    BY <1>6 DEF AppendRecord, Leave, TypeOK, ThreadsOK
  <2> QED BY <1>1, <1>2, <2>1, <2>2 DEF SpoolInv
<1>7. ASSUME NEW t \in Threads, Raise(t) PROVE SpoolInv'
  <2>1. pc'[t] = "idle" /\ \A u \in Threads \ {t} : own'[u] = own[u] /\ pc'[u] = pc[u]
    BY <1>7 DEF Raise, Leave, Forget, TypeOK, ThreadsOK
  <2>2. UNCHANGED spool
    BY <1>7 DEF Raise
  <2> QED BY <1>1, <1>2, <2>1, <2>2 DEF SpoolInv, Written
<1>8. ASSUME NEW t \in Threads, Enqueue(t) \/ Anchor(t) \/ NoForwarder(t) PROVE SpoolInv'
  <2>1. own[t] \in IdsOnDisk
    BY <1>8 DEF Enqueue, Anchor, NoForwarder, SpoolInv, Written
  <2>2. \A k \in DOMAIN spool' : (k \in DOMAIN spool /\ spool'[k] = spool[k]) \/ spool'[k].id = own[t]
    <3>1. CASE NoForwarder(t)
      BY <3>1 DEF NoForwarder
    <3>2. CASE \E kind \in {"record", "anchor"} : Publish(kind, t)
      <4>1. PICK kind \in {"record", "anchor"} : spool' = Append(spool, [kind |-> kind, id |-> own[t]])
        BY <3>2 DEF Publish
      <4>2. spool \in Seq(Item) /\ [kind |-> kind, id |-> own[t]] \in Item
        BY DEF TypeOK, CountsOK, ThreadsOK, Item
      <4>3. /\ DOMAIN spool = 1..Len(spool) /\ DOMAIN spool' = 1..(Len(spool) + 1)
            /\ Len(spool) \in Nat
            /\ \A k \in 1..Len(spool) : spool'[k] = spool[k]
            /\ spool'[Len(spool) + 1] = [kind |-> kind, id |-> own[t]]
        BY <4>1, <4>2, Extend, LenProperties
      <4> QED BY <4>3
    <3> QED BY <1>8, <3>1, <3>2 DEF Enqueue, Anchor
  <2>3. ForwardedIsDurable'
    BY <1>1, <2>1, <2>2 DEF SpoolInv, ForwardedIsDurable, Spooled
  <2>4. /\ pc'[t] = "idle" \/ own'[t] = own[t]
        /\ \A u \in Threads \ {t} : own'[u] = own[u] /\ pc'[u] = pc[u]
    BY <1>8 DEF Enqueue, Anchor, NoForwarder, Return, Forget, locals, TypeOK, ThreadsOK
  <2> QED BY <1>1, <2>1, <2>3, <2>4 DEF SpoolInv, Written
<1>9. ASSUME NEW p \in Procs, Crash(p) \/ Restart(p) PROVE SpoolInv'
  <2>1. UNCHANGED spool /\ \A u \in Threads : pc'[u] = "idle" \/ (own'[u] = own[u] /\ pc'[u] = pc[u])
    <3>1. CASE Crash(p)
      <4>1. /\ pc' = [u \in Threads |-> IF ProcOf[u] = p THEN "idle" ELSE pc[u]]
            /\ own' = [u \in Threads |-> IF ProcOf[u] = p THEN 0 ELSE own[u]]
        BY <3>1 DEF Crash, Forget
      <4> QED BY <3>1, <4>1 DEF Crash
    <3>2. CASE Restart(p)
      BY <3>2 DEF Restart, locals
    <3> QED BY <1>9, <3>1, <3>2
  <2> QED BY <1>1, <1>2, <2>1 DEF SpoolInv, Written
<1> QED BY <1>4, <1>5, <1>6, <1>7, <1>8, <1>9 DEF CrashNext, Next, Finished, Step, TailTorn, RotateFails

\* Whatever statement the instance is killed at, no record reaches the spool
\* before it is on disk (audit.py:165-169, audit.py:187-190).
THEOREM OneInstanceForwardsDurably ==
    ASSUME SingleInstance
    PROVE  CrashSpec => []ForwardedIsDurable
<1>1. Init => SpoolInv
  BY DEF Init, SpoolInv, Written, ForwardedIsDurable, Spooled
<1>2. TypeOK /\ RotationInv /\ SpoolInv /\ [CrashNext]_vars => SpoolInv'
  BY RotationStep, SpoolStep
<1>3. SpoolInv => ForwardedIsDurable
  BY DEF SpoolInv
<1> QED BY <1>1, <1>2, <1>3, RotationAlways, PTL DEF CrashSpec

-----------------------------------------------------------------------------
(* One instance that is not killed hands over all it writes.                 *)

LEMMA NewMarker ==
    ASSUME TypeOK, NEW t \in Threads, RotateMarker(t), content[fh[t]] = <<>>
    PROVE  \E r \in Record : IsMarker(r) /\ OnDisk' = OnDisk \cup {r}
<1> DEFINE r == [id |-> lastId + 1, prev |-> prev[t], seq |-> 0, by |-> ProcOf[t]]
<1>1. r \in Record /\ IsMarker(r)
  BY DEF Record, IsMarker, TypeOK, ThreadsOK, CountsOK
<1>2. fh[t] \in Inodes
  BY DEF RotateMarker, TypeOK, ThreadsOK
<1>3. content' = [content EXCEPT ![fh[t]] = Append(content[fh[t]], r)]
  <2>1. content' = [content EXCEPT ![fh[t]] = <<r>>]
    BY <1>2 DEF RotateMarker
  <2>2. <<r>> = Append(<<>>, r)
    OBVIOUS
  <2> QED BY <1>2, <2>1, <2>2
<1> HIDE DEF r
<1> QED BY <1>1, <1>2, <1>3, GrowFile

\* The spool only grows: what a thread publishes is in it.
LEMMA PublishGrows ==
    ASSUME TypeOK, NEW t \in Threads, NEW kind \in {"record", "anchor"}, Publish(kind, t)
    PROVE  /\ Spooled("record") \subseteq Spooled("record")'
           /\ kind = "record" => own[t] \in Spooled("record")'
           /\ Spooled("anchor") \subseteq Spooled("anchor")'
           /\ kind = "anchor" => own[t] \in Spooled("anchor")'
<1> DEFINE item == [kind |-> kind, id |-> own[t]]
<1>1. spool \in Seq(Item) /\ item \in Item
  BY DEF TypeOK, CountsOK, ThreadsOK, Item
<1>2. /\ DOMAIN spool = 1..Len(spool) /\ DOMAIN spool' = 1..(Len(spool) + 1)
      /\ Len(spool) \in Nat
      /\ \A k \in 1..Len(spool) : spool'[k] = spool[k]
      /\ spool'[Len(spool) + 1] = item
  BY <1>1, Extend, LenProperties DEF Publish
<1>3. item.kind = kind /\ item.id = own[t]
  OBVIOUS
<1> HIDE DEF item
<1> QED BY <1>2, <1>3 DEF Spooled

\* Threads that stay in the call keep their record.
LEMMA OthersHandOver ==
    ASSUME HandOverInv, OnDisk' = OnDisk, Spooled("record") \subseteq Spooled("record")',
           NEW T \in SUBSET Threads,
           \A u \in Threads \ T : own'[u] = own[u] /\ (pc[u] \in Written => pc'[u] \in Written),
           \A u \in T : pc[u] \in Written /\ ProcOf[u] \in Forwarding => own[u] \in Spooled("record")',
           \A u \in Threads : pc'[u] = "anchor" => own'[u] \in Spooled("record")'
    PROVE  HandOverInv'
<1> SUFFICES ASSUME NEW r \in OnDisk, r.by \in Forwarding, ~IsMarker(r)
             PROVE  HandedOver(r)'
  BY DEF HandOverInv
<1>1. HandedOver(r)
  BY DEF HandOverInv
<1> QED BY <1>1 DEF HandedOver

LEMMA HandOverStep ==
    ASSUME SingleInstance, TypeOK, ChainInv, HandOverInv, [Next]_vars
    PROVE  HandOverInv'
<1>1. CASE UNCHANGED vars
  BY <1>1 DEF vars, HandOverInv, HandedOver, Spooled, OnDisk, Inodes
<1>2. ASSUME NEW t \in Threads,
             \/ Call(t) \/ Acquire(t) \/ Open(t) \/ Flock(t) \/ ReadTail(t)
             \/ RotateHead(t) \/ RotateReplace(t) \/ RotateTouch(t) \/ RotateTruncate(t)
      PROVE  HandOverInv'
  <2>1. UNCHANGED <<spool, own>>
    BY <1>2 DEF Call, Acquire, Open, Flock, ReadTail, RotateHead, RotateReplace, RotateTouch,
                RotateTruncate, locals
  <2>2. \A u \in Threads : (pc[u] \in Written => pc'[u] \in Written) /\ (pc'[u] = "anchor" => pc[u] = "anchor")
    BY <1>2 DEF Call, Acquire, Open, Flock, ReadTail, RotateHead, RotateReplace, RotateTouch,
                RotateTruncate, Written, TypeOK, ThreadsOK
  <2>3. OnDisk' = OnDisk
    BY <1>2, CallChain, AcquireChain, BeforeAppendChain, RotateHeadChain, RotateReplaceChain,
       RotateTouchChain, RotateTruncateChain DEF Same
  <2>4. Spooled("record")' = Spooled("record")
    BY <2>1 DEF Spooled
  <2>5. \A u \in Threads : pc'[u] = "anchor" => own'[u] \in Spooled("record")'
    BY <2>1, <2>2, <2>4 DEF HandOverInv
  <2> DEFINE none == {}
  <2>6. /\ none \in SUBSET Threads
        /\ \A u \in Threads \ none : own'[u] = own[u] /\ (pc[u] \in Written => pc'[u] \in Written)
        /\ \A u \in none : pc[u] \in Written /\ ProcOf[u] \in Forwarding => own[u] \in Spooled("record")'
    BY <2>1, <2>2
  <2> HIDE DEF none
  <2> QED BY <2>3, <2>4, <2>5, <2>6, OthersHandOver
<1>3. ASSUME NEW t \in Threads, TailTorn(t) PROVE HandOverInv'
  BY <1>3 DEF TailTorn, ChainInv
<1>4. ASSUME NEW t \in Threads, RotateFails(t) PROVE HandOverInv'
  BY <1>4 DEF RotateFails, ChainInv, Knows
<1>5. ASSUME NEW t \in Threads, AppendRecord(t) PROVE HandOverInv'
  <2>1. PICK r \in Record : r.id = own'[t] /\ r.by = ProcOf[t] /\ OnDisk' = OnDisk \cup {r}
    BY <1>5, NewRecord
  <2>2. pc[t] = "append" /\ pc'[t] \in {"head", "enqueue"} /\ UNCHANGED spool
    BY <1>5 DEF AppendRecord, Leave, TypeOK, ThreadsOK
  <2>3. \A u \in Threads \ {t} : own'[u] = own[u] /\ pc'[u] = pc[u]
    BY <1>5 DEF AppendRecord, Leave, TypeOK, ThreadsOK
  <2>4. Spooled("record")' = Spooled("record")
    BY <2>2 DEF Spooled
  <2>5. HandedOver(r)'
    BY <2>1, <2>2 DEF HandedOver, Written
  <2>6. \A s \in OnDisk : HandedOver(s) => HandedOver(s)'
    BY <2>2, <2>3, <2>4 DEF HandedOver, Written
  <2> QED BY <2>1, <2>2, <2>3, <2>4, <2>5, <2>6 DEF HandOverInv
<1>6. ASSUME NEW t \in Threads, RotateMarker(t) PROVE HandOverInv'
  <2>1. content[fh[t]] = <<>>
    BY <1>6 DEF RotateMarker, ChainInv, Knows
  <2>2. PICK r \in Record : IsMarker(r) /\ OnDisk' = OnDisk \cup {r}
    BY <1>6, <2>1, NewMarker
  <2>3. pc'[t] = "enqueue" /\ \A u \in Threads \ {t} : pc'[u] = pc[u]
    BY <1>6 DEF RotateMarker, Leave, TypeOK, ThreadsOK
  <2>4. own' = own /\ Spooled("record")' = Spooled("record")
    BY <1>6 DEF RotateMarker, Spooled
  <2>5. \A s \in OnDisk : HandedOver(s) => HandedOver(s)'
    BY <2>3, <2>4 DEF HandedOver, Written
  <2> QED BY <2>2, <2>3, <2>4, <2>5 DEF HandOverInv
<1>7. ASSUME NEW t \in Threads, Enqueue(t) \/ Anchor(t) \/ NoForwarder(t) PROVE HandOverInv'
  <2>1. OnDisk' = OnDisk
    BY <1>7, ReturnChain DEF Same
  <2>2. Spooled("record") \subseteq Spooled("record")'
    <3>1. CASE NoForwarder(t)
      BY <3>1 DEF NoForwarder, Spooled
    <3> QED BY <1>7, <3>1, PublishGrows DEF Enqueue, Anchor
  <2>3. ProcOf[t] \in Forwarding => own[t] \in Spooled("record")'
    <3>1. CASE Enqueue(t)
      BY <3>1, PublishGrows DEF Enqueue
    <3>2. CASE Anchor(t)
      BY <3>2, <2>2 DEF Anchor, HandOverInv
    <3> QED BY <1>7, <3>1, <3>2 DEF NoForwarder
  <2>4. \A u \in Threads \ {t} : own'[u] = own[u] /\ pc'[u] = pc[u]
    BY <1>7 DEF Enqueue, Anchor, NoForwarder, Return, Forget, locals, TypeOK, ThreadsOK
  <2>5. pc'[t] = "anchor" => own'[t] = own[t] /\ ProcOf[t] \in Forwarding
    BY <1>7 DEF Enqueue, Anchor, NoForwarder, Return, locals, TypeOK, ThreadsOK
  <2>6. \A u \in Threads : pc'[u] = "anchor" => own'[u] \in Spooled("record")'
    BY <2>2, <2>3, <2>4, <2>5 DEF HandOverInv
  <2> DEFINE moving == {t}
  <2>7. /\ moving \in SUBSET Threads
        /\ \A u \in Threads \ moving : own'[u] = own[u] /\ (pc[u] \in Written => pc'[u] \in Written)
        /\ \A u \in moving : pc[u] \in Written /\ ProcOf[u] \in Forwarding => own[u] \in Spooled("record")'
    BY <2>3, <2>4
  <2> HIDE DEF moving
  <2> QED BY <2>1, <2>2, <2>6, <2>7, OthersHandOver
<1> QED BY <1>1, <1>2, <1>3, <1>4, <1>5, <1>6, <1>7 DEF Next, Finished, Step

\* As long as the instance is not killed, every record but a rotation marker is
\* in the spool or with a thread on its way there (audit.py:23-24).
THEOREM OneInstanceForwardsAll ==
    ASSUME SingleInstance
    PROVE  CrashSpec => []EveryRecordForwarded
<1> DEFINE I == crashes = 0 => HandOverInv
<1>1. Init => I
  BY TypeInit, ChainInit DEF Init, HandOverInv, OnDisk, Inodes
<1>2. UntilCrash /\ I /\ [CrashNext]_vars => I'
  <2> SUFFICES ASSUME UntilCrash, I, [CrashNext]_vars, crashes' = 0 PROVE HandOverInv'
    OBVIOUS
  <2>1. ChainInv /\ [Next]_vars
    BY NoCrashStep
  <2>2. crashes = 0
    BY <2>1, NextKeepsCrashes
  <2> QED BY <2>1, <2>2, HandOverStep DEF UntilCrash
<1>3. I => EveryRecordForwarded
  BY DEF HandOverInv, HandedOver, EveryRecordForwarded
<1> QED BY <1>1, <1>2, <1>3, OneInstance, PTL DEF CrashSpec

-----------------------------------------------------------------------------
(* AuditChain keeps its records in one line, and so does the log.            *)

\* One append keeps the line a line.
LEMMA AppendKeepsLine ==
    ASSUME Chain!OneLine, Chain!AppendToHead
    PROVE  Chain!OneLine'
<1>1. PICK r \in Links' : /\ r.prev = ChainHead
                          /\ r.id \notin Chain!Ids \cup {GENESIS}
                          /\ Links' = Links \cup {r}
                          /\ ChainHead' = r.id
  BY DEF Chain!AppendToHead
<1>2. Chain!Ids' = Chain!Ids \cup {r.id}
  BY <1>1 DEF Chain!Ids
<1>3. ChainHead \in Chain!Ids \cup {GENESIS} /\ r.id # ChainHead
  BY <1>1 DEF Chain!OneLine, Chain!HeadIsNewest
<1>4. \A s \in Links : s.id \in Chain!Ids
  BY DEF Chain!Ids
<1>5. Chain!DistinctIds'
  BY <1>1, <1>4 DEF Chain!OneLine, Chain!DistinctIds
<1>6. Chain!NoFork'
  BY <1>1 DEF Chain!OneLine, Chain!NoFork, Chain!HeadIsNewest
<1>7. Chain!NoGap'
  BY <1>1, <1>2, <1>3 DEF Chain!OneLine, Chain!NoGap
<1>8. Chain!HeadIsNewest'
  <2>1. ChainHead' \in Chain!Ids' \cup {GENESIS} /\ ChainHead' # GENESIS
    BY <1>1, <1>2
  <2>2. ASSUME NEW s \in Links' PROVE s.id # GENESIS /\ s.prev # ChainHead'
    <3>1. CASE s = r
      BY <3>1, <1>1, <1>3
    <3>2. CASE s \in Links
      BY <3>2, <1>1 DEF Chain!OneLine, Chain!NoGap, Chain!HeadIsNewest
    <3> QED BY <3>1, <3>2, <1>1
  <2> QED BY <2>1, <2>2 DEF Chain!HeadIsNewest
<1> QED BY <1>5, <1>6, <1>7, <1>8 DEF Chain!OneLine

LEMMA LineBegins == Chain!ChainInit => Chain!OneLine
  BY DEF Chain!ChainInit, Chain!OneLine, Chain!DistinctIds, Chain!NoFork, Chain!NoGap,
         Chain!HeadIsNewest, Chain!Ids

LEMMA LineStep == Chain!OneLine /\ [Chain!AppendToHead]_(Chain!chainVars) => Chain!OneLine'
<1> SUFFICES ASSUME Chain!OneLine, UNCHANGED Chain!chainVars PROVE Chain!OneLine'
  BY AppendKeepsLine
<1> QED BY DEF Chain!chainVars, Chain!OneLine, Chain!DistinctIds, Chain!NoFork, Chain!NoGap,
               Chain!HeadIsNewest, Chain!Ids

\* The abstract audit log is one unforked, gapless line ending at its head,
\* whatever number of records is appended (audit.py:9-10).
THEOREM ChainIsOneLine == Chain!ChainSpec => []Chain!OneLine
  BY LineBegins, LineStep, PTL DEF Chain!ChainSpec

\* The records of one instance that has not been killed are such a line: no two
\* cite the same record, none cites a missing one, the head is the newest
\* (audit.py:16-18).
THEOREM OneInstanceKeepsOneLine ==
    ASSUME SingleInstance
    PROVE  CrashSpec => [](crashes = 0 => Chain!OneLine)
<1> DEFINE I == crashes = 0 => Chain!OneLine
<1>1. Init => I
  BY LogBegins, LineBegins
<1>2. UntilCrash /\ I /\ [CrashNext]_vars => I'
  <2> SUFFICES ASSUME UntilCrash, I, [CrashNext]_vars, crashes' = 0 PROVE Chain!OneLine'
    OBVIOUS
  <2>1. ChainInv /\ [Next]_vars /\ crashes = 0
    BY NoCrashStep, NextKeepsCrashes
  <2> QED BY <2>1, StepImplementsChain, LineStep DEF UntilCrash
<1> QED BY <1>1, <1>2, OneInstance, PTL DEF CrashSpec
=============================================================================
