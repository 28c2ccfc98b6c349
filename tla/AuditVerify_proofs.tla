------------------------- MODULE AuditVerify_proofs -------------------------
(***************************************************************************)
(* Theorems of AuditVerify and AuditReader for every number of threads,     *)
(* writes and crashes, and every value of rotate_bytes and anchor_every:    *)
(* what verify finds in the files of the log.                               *)
(***************************************************************************)
EXTENDS AuditReader, AuditLog_proofs, FiniteSetTheorems

USE ConstantsAssumption DEF GENESIS, NoFile

-----------------------------------------------------------------------------
(* The files of one instance: what a step does to them.                      *)

LEMMA FileTypes ==
    ASSUME TypeOK
    PROVE  /\ Len(content) \in Nat /\ DOMAIN content = Inodes
           /\ \A i \in Inodes : /\ content[i] \in Seq(Record) /\ Len(content[i]) \in Nat
                                /\ DOMAIN content[i] = 1..Len(content[i])
           /\ Len(rotated) \in Nat /\ DOMAIN rotated = 1..Len(rotated)
           /\ \A s \in DOMAIN rotated : rotated[s] \in Inodes \cup {NoFile}
           /\ active \in Inodes \cup {NoFile}
  BY ElementOfSeq, LenProperties DEF TypeOK, DiskOK, Inodes

FilesKept == UNCHANGED <<content, active, rotated, lastId>>

FileBegun ==
    /\ active = NoFile
    /\ content' = Append(content, <<>>) /\ active' = Len(content) + 1
    /\ UNCHANGED <<rotated, lastId>>

NameStamped == rotated' = Append(rotated, NoFile) /\ UNCHANGED <<content, active, lastId>>

FileRenamed ==
    /\ active # NoFile /\ content[active] # <<>>
    /\ rotated # <<>> /\ rotated[Len(rotated)] = NoFile
    /\ rotated' = [rotated EXCEPT ![Len(rotated)] = active]
    /\ active' = NoFile
    /\ UNCHANGED <<content, lastId>>

\* A record that cites what stands before it, or starts over.
FileGrown(r) ==
    /\ active # NoFile
    /\ content' = [content EXCEPT ![active] = Append(content[active], r)]
    /\ r.id = lastId + 1 /\ lastId' = lastId + 1
    /\ ChainInv => r.prev = lastId
    /\ \/ r.prev = TailHash(content[active]) /\ r.seq = TailSeq(content[active]) + 1
       \/ content[active] = <<>> /\ r.prev = Base(active)
    /\ UNCHANGED <<active, rotated>>

FileStep ==
    FilesKept \/ FileBegun \/ NameStamped \/ FileRenamed \/ \E r \in Record : FileGrown(r)

LEMMA OpenFiles ==
    ASSUME OpenOrCreate, UNCHANGED <<rotated, lastId>>
    PROVE  FilesKept \/ FileBegun
  BY DEF OpenOrCreate, FilesKept, FileBegun

LEMMA MarkerFiles ==
    ASSUME TypeOK, OrderInv, NEW t \in Threads, RotateMarker(t)
    PROVE  \E r \in Record : FileGrown(r)
<1> DEFINE r == [id |-> lastId + 1, prev |-> prev[t], seq |-> 0, by |-> ProcOf[t]]
<1>1. r \in Record /\ r.prev = prev[t] /\ r.id = lastId + 1
  BY DEF Record, TypeOK, ThreadsOK, CountsOK
<1>2. pc[t] = "marker" /\ UNCHANGED <<active, rotated>> /\ lastId' = lastId + 1
  BY DEF RotateMarker
<1>3. fh[t] = active /\ active # NoFile /\ content[active] = <<>> /\ prev[t] = Base(active)
  BY <1>2 DEF OrderInv, KnowsFiles
<1>4. ChainInv => prev[t] = lastId
  BY <1>2 DEF ChainInv, Knows
<1>5. content' = [content EXCEPT ![active] = Append(content[active], r)]
  <2>1. content' = [content EXCEPT ![active] = <<r>>]
    BY <1>3 DEF RotateMarker
  <2>2. <<r>> = Append(<<>>, r)
    OBVIOUS
  <2> QED BY <1>3, <2>1, <2>2
<1> HIDE DEF r
<1> QED BY <1>1, <1>2, <1>3, <1>4, <1>5 DEF FileGrown

LEMMA AppendFiles ==
    ASSUME TypeOK, OrderInv, NEW t \in Threads, AppendRecord(t)
    PROVE  \E r \in Record : FileGrown(r)
<1> DEFINE r == [id |-> lastId + 1, prev |-> prev[t], seq |-> seq[t], by |-> ProcOf[t]]
<1>1. r \in Record /\ r.prev = prev[t] /\ r.id = lastId + 1 /\ r.seq = seq[t]
  BY DEF Record, TypeOK, ThreadsOK, CountsOK
<1>2. pc[t] = "append" /\ UNCHANGED <<active, rotated>> /\ lastId' = lastId + 1
  BY DEF AppendRecord
<1>3. /\ fh[t] = active /\ active # NoFile
      /\ prev[t] = TailHash(content[active]) /\ seq[t] = TailSeq(content[active]) + 1
  BY <1>2 DEF OrderInv, KnowsFiles, TypeOK, ThreadsOK
<1>4. ChainInv => prev[t] = lastId
  BY <1>2 DEF ChainInv, Knows
<1>5. content' = [content EXCEPT ![active] = Append(content[active], r)]
  BY <1>3 DEF AppendRecord
<1> HIDE DEF r
<1> QED BY <1>1, <1>2, <1>3, <1>4, <1>5 DEF FileGrown

\* write_text empties a file that is empty already.
LEMMA TruncateFiles ==
    ASSUME TypeOK, OrderInv, NEW t \in Threads, RotateTruncate(t)
    PROVE  FilesKept /\ active # NoFile /\ content[active] = <<>> /\ prev[t] = Base(active)
<1>1. /\ active # NoFile /\ content[active] = <<>> /\ active \in Inodes
      /\ prev[t] = Base(active)
  BY DEF RotateTruncate, OrderInv, KnowsFiles, TypeOK, DiskOK
<1>2. content' = [content EXCEPT ![active] = <<>>]
  BY <1>1 DEF RotateTruncate
<1>3. content' = content
  <2>1. content \in [Inodes -> Seq(Record)]
    BY LenProperties DEF TypeOK, DiskOK, Inodes
  <2> QED BY <2>1, <1>1, <1>2
<1> QED BY <1>1, <1>3 DEF RotateTruncate, FilesKept

LEMMA RotateFiles ==
    ASSUME TypeOK, RotationInv, OrderInv, NEW t \in Threads,
           RotateHead(t) \/ RotateReplace(t) \/ RotateTouch(t) \/ RotateTruncate(t)
    PROVE  FileStep
<1>1. CASE RotateHead(t)
  BY <1>1 DEF RotateHead, FileStep, NameStamped
<1>2. CASE RotateReplace(t)
  <2>1. /\ active # NoFile /\ content[active] # <<>>
        /\ rotated # <<>> /\ slot[t] = Len(rotated) /\ rotated[Len(rotated)] = NoFile
    BY <1>2 DEF RotateReplace, OrderInv, KnowsFiles
  <2> QED BY <1>2, <2>1 DEF RotateReplace, FileStep, FileRenamed
<1>3. CASE RotateTouch(t)
  BY <1>3, OpenFiles DEF RotateTouch, FileStep
<1>4. CASE RotateTruncate(t)
  BY <1>4, TruncateFiles DEF FileStep
<1> QED BY <1>1, <1>2, <1>3, <1>4

\* A step of one instance, a crash and a restart included, leaves the files,
\* begins or extends the newest, or names it.
LEMMA EveryFileStep ==
    ASSUME TypeOK, RotationInv, OrderInv, [CrashNext]_vars
    PROVE  FileStep
<1>1. CASE UNCHANGED vars
  BY <1>1 DEF vars, FileStep, FilesKept
<1>2. ASSUME NEW t \in Threads, Call(t) \/ Step(t) PROVE FileStep
  <2>1. CASE \/ Call(t) \/ Acquire(t) \/ Flock(t) \/ ReadTail(t) \/ TailTorn(t) \/ RotateFails(t)
             \/ Enqueue(t) \/ Anchor(t) \/ NoForwarder(t)
    BY <2>1 DEF Call, Acquire, Flock, ReadTail, TailTorn, RotateFails, Raise, Enqueue, Anchor,
                NoForwarder, FileStep, FilesKept
  <2>2. CASE Open(t)
    BY <2>2, OpenFiles DEF Open, FileStep
  <2>3. CASE AppendRecord(t) \/ RotateMarker(t)
    BY <2>3, AppendFiles, MarkerFiles DEF FileStep
  <2>4. CASE RotateHead(t) \/ RotateReplace(t) \/ RotateTouch(t) \/ RotateTruncate(t)
    BY <2>4, RotateFiles
  <2> QED BY <1>2, <2>1, <2>2, <2>3, <2>4 DEF Step
<1>3. ASSUME NEW p \in Procs, Crash(p) \/ Restart(p) PROVE FileStep
  BY <1>3, OpenFiles DEF Crash, Restart, FileStep, FilesKept
<1> QED BY <1>1, <1>2, <1>3 DEF CrashNext, Next, Finished

\* What each kind of step leaves of the files that are there.
LEMMA FilesAfter ==
    ASSUME TypeOK, FileStep
    PROVE  /\ Inodes \subseteq Inodes' /\ Len(content') \in Nat
           /\ \A i \in Inodes \ {active} : content'[i] = content[i]
           /\ Inodes' = IF FileBegun THEN Inodes \cup {Len(content) + 1} ELSE Inodes
           /\ FileBegun => content'[Len(content) + 1] = <<>>
           /\ (\A r \in Record : ~FileGrown(r)) => \A i \in Inodes : content'[i] = content[i]
           /\ Len(content') = IF FileBegun THEN Len(content) + 1 ELSE Len(content)
<1>1. Len(content) \in Nat
  BY FileTypes
<1>2. CASE UNCHANGED <<content, active>>
  BY <1>1, <1>2 DEF Inodes, FileBegun
<1>3. CASE FileRenamed
  BY <1>1, <1>3 DEF Inodes, FileBegun, FileRenamed
<1>4. CASE FileBegun
  <2>1. /\ Inodes' = Inodes \cup {Len(content) + 1} /\ content'[Len(content) + 1] = <<>>
        /\ \A j \in Inodes : content'[j] = content[j]
    BY <1>4, NewFile DEF FileBegun
  <2>2. Len(content') = Len(content) + 1
    <3>1. content \in Seq(Seq(Record)) /\ <<>> \in Seq(Record)
      BY EmptySeq DEF TypeOK, DiskOK
    <3> QED BY <1>4, <3>1, Extend DEF FileBegun
  <2> QED BY <1>1, <1>4, <2>1, <2>2
<1>5. ASSUME NEW r \in Record, FileGrown(r)
      PROVE  /\ Len(content') = Len(content) /\ ~FileBegun
             /\ \A i \in Inodes \ {active} : content'[i] = content[i]
  <2>1. active \in Inodes /\ content' = [content EXCEPT ![active] = Append(content[active], r)]
    BY <1>5, FileTypes DEF FileGrown
  <2>2. content \in Seq(Seq(Record)) /\ Append(content[active], r) \in Seq(Record)
    <3>1. content[active] \in Seq(Record)
      BY <2>1, FileTypes
    <3> QED BY <3>1, Extend DEF TypeOK, DiskOK
  <2>3. Len(content') = Len(content)
    BY <2>1, <2>2, UpdateSeq
  <2> QED BY <1>5, <2>1, <2>3, FileTypes DEF FileGrown, FileBegun
<1>6. CASE \E r \in Record : FileGrown(r)
  BY <1>1, <1>5, <1>6 DEF Inodes
<1> QED BY <1>2, <1>3, <1>4, <1>6 DEF FileStep, FilesKept, NameStamped

\* The file that grows.
LEMMA GrownFile ==
    ASSUME TypeOK, NEW r \in Record, FileGrown(r)
    PROVE  /\ active \in Inodes /\ Len(content[active]) \in Nat
           /\ Len(content'[active]) = Len(content[active]) + 1 /\ content'[active] # <<>>
           /\ \A k \in 1..Len(content[active]) : content'[active][k] = content[active][k]
           /\ content'[active][Len(content[active]) + 1] = r
<1>1. active \in Inodes
  BY FileTypes DEF FileGrown
<1>2. content[active] \in Seq(Record) /\ Len(content[active]) \in Nat
  BY <1>1, FileTypes
<1>3. content'[active] = Append(content[active], r)
  BY <1>1, FileTypes DEF FileGrown
<1>4. /\ Append(content[active], r) \in Seq(Record)
      /\ Len(Append(content[active], r)) = Len(content[active]) + 1
      /\ \A k \in 1..Len(content[active]) : Append(content[active], r)[k] = content[active][k]
      /\ Append(content[active], r)[Len(content[active]) + 1] = r
  BY <1>2, Extend
<1>5. content'[active] # <<>>
  BY <1>2, <1>3, <1>4, EmptySeq
<1> QED BY <1>1, <1>2, <1>3, <1>4, <1>5

\* Where a file has to begin does not change once the file is there.
LEMMA BaseStays ==
    ASSUME TypeOK, FilesInOrder, FileStep
    PROVE  /\ \A i \in Inodes : Base(i)' = Base(i)
           /\ \A n : n = Len(content) + 1 /\ (\A r \in Record : ~FileGrown(r)) => Base(n)' = Base(n)
<1>1. \A i \in Inodes \ {active} : content'[i] = content[i]
  BY FilesAfter
<1>2. Len(content) \in Nat /\ Inodes = 1..Len(content) /\ active \in {0, Len(content)}
  BY FileTypes DEF FilesInOrder, Inodes
<1>3. \A i \in Inodes : i # 1 => i - 1 \in Inodes \ {active}
  BY <1>2
<1>4. \A i \in Inodes : Base(i)' = Base(i)
  BY <1>1, <1>3 DEF Base, TailHash
<1>5. ASSUME NEW n, n = Len(content) + 1, \A r \in Record : ~FileGrown(r) PROVE Base(n)' = Base(n)
  <2>1. \A i \in Inodes : content'[i] = content[i]
    BY <1>5, FilesAfter
  <2>2. n # 1 => n - 1 \in Inodes
    BY <1>2, <1>5
  <2> QED BY <2>1, <2>2 DEF Base, TailHash
<1> QED BY <1>4, <1>5

\* Files are made, filled and named one after the other.
LEMMA FilesStayInOrder ==
    ASSUME TypeOK, FilesInOrder, FileStep
    PROVE  FilesInOrder'
<1>1. /\ Len(content) \in Nat /\ Inodes = 1..Len(content) /\ active \in {0, Len(content)}
      /\ Len(rotated) \in Nat /\ DOMAIN rotated = 1..Len(rotated)
      /\ \A s \in DOMAIN rotated : rotated[s] \in Inodes \cup {0}
  BY FileTypes DEF FilesInOrder, Inodes
<1>2. CASE FilesKept
  BY <1>2 DEF FilesKept, FilesInOrder, Inodes
<1>3. CASE FileBegun
  <2>1. /\ Inodes' = Inodes \cup {Len(content) + 1} /\ Len(content') = Len(content) + 1
        /\ \A i \in Inodes : content'[i] = content[i]
    BY <1>3, FilesAfter, NewFile DEF FileBegun
  <2>2. active = 0 /\ active' = Len(content) + 1 /\ rotated' = rotated
    BY <1>3 DEF FileBegun
  <2>3. \A i \in Inodes' \ {active'} : i \in Inodes \ {active} /\ content'[i] = content[i]
    BY <1>1, <2>1, <2>2
  <2> QED BY <2>1, <2>2, <2>3 DEF FilesInOrder
<1>4. CASE NameStamped
  <2>1. /\ DOMAIN rotated' = 1..(Len(rotated) + 1) /\ UNCHANGED <<content, active>>
        /\ \A s \in DOMAIN rotated : rotated'[s] = rotated[s]
        /\ rotated'[Len(rotated) + 1] = 0
    <3>1. rotated \in Seq(Inodes \cup {0}) /\ 0 \in Inodes \cup {0}
      BY DEF TypeOK, DiskOK
    <3>2. /\ Append(rotated, 0) \in Seq(Inodes \cup {0})
          /\ Len(Append(rotated, 0)) = Len(rotated) + 1
          /\ \A s \in 1..Len(rotated) : Append(rotated, 0)[s] = rotated[s]
          /\ Append(rotated, 0)[Len(rotated) + 1] = 0
      BY <3>1, Extend
    <3> QED BY <1>1, <1>4, <3>2, LenProperties DEF NameStamped
  <2>2. \A s \in DOMAIN rotated' : s \in DOMAIN rotated \/ rotated'[s] = 0
    BY <1>1, <2>1
  <2> QED BY <1>1, <2>1, <2>2 DEF FilesInOrder, Inodes
<1>5. CASE FileRenamed
  <2>1. /\ DOMAIN rotated' = DOMAIN rotated /\ Len(rotated) \in DOMAIN rotated
        /\ rotated'[Len(rotated)] = active /\ rotated[Len(rotated)] = 0
        /\ \A s \in DOMAIN rotated : s # Len(rotated) => rotated'[s] = rotated[s]
        /\ active = Len(content) /\ active # 0 /\ content[active] # <<>>
        /\ active' = 0 /\ content' = content
    <3>1. rotated # <<>> => Len(rotated) \in DOMAIN rotated
      BY <1>1, EmptySeq DEF TypeOK, DiskOK
    <3> QED BY <1>1, <1>5, <3>1 DEF FileRenamed
  <2>2. \A s \in DOMAIN rotated : rotated[s] # active
    BY <2>1 DEF TypeOK, OneNamePerFile
  <2>3. \A s \in DOMAIN rotated : rotated[s] < active
    BY <1>1, <2>1, <2>2
  <2>4. ASSUME NEW s \in DOMAIN rotated', NEW u \in DOMAIN rotated',
               s < u, rotated'[s] # 0, rotated'[u] # 0
        PROVE  rotated'[s] < rotated'[u]
    <3>1. s # Len(rotated) /\ rotated'[s] = rotated[s]
      BY <1>1, <2>1, <2>4
    <3>2. CASE u = Len(rotated)
      BY <2>1, <2>3, <3>1, <3>2
    <3>3. CASE u # Len(rotated)
      BY <2>1, <2>4, <3>1, <3>3 DEF FilesInOrder
    <3> QED BY <3>2, <3>3
  <2>5. ASSUME NEW i \in Inodes' \ {active'}
        PROVE  content'[i] # <<>> /\ \E s \in DOMAIN rotated' : rotated'[s] = i
    <3>1. i \in Inodes /\ i # 0
      BY <1>1, <2>1, <2>5 DEF Inodes
    <3>2. CASE i = active
      BY <2>1, <3>2
    <3>3. CASE i # active
      <4>1. PICK s \in DOMAIN rotated : rotated[s] = i
        BY <3>1, <3>3 DEF FilesInOrder
      <4>2. s # Len(rotated)
        BY <2>1, <3>1, <4>1
      <4> QED BY <2>1, <3>1, <3>3, <4>1, <4>2 DEF FilesInOrder
    <3> QED BY <3>2, <3>3
  <2> QED BY <2>1, <2>4, <2>5 DEF FilesInOrder
<1>6. ASSUME NEW r \in Record, FileGrown(r) PROVE FilesInOrder'
  <2>1. /\ UNCHANGED <<active, rotated>> /\ active # 0
        /\ \A i \in Inodes \ {active} : content'[i] = content[i]
        /\ Len(content') = Len(content) /\ Inodes' = Inodes
    BY <1>6, FilesAfter DEF FileGrown, FileBegun
  <2> QED BY <2>1 DEF FilesInOrder
<1> QED BY <1>2, <1>3, <1>4, <1>5, <1>6 DEF FileStep

\* Which lines are new.
LEMMA LinesAfter ==
    ASSUME TypeOK, FilesInOrder, FileStep,
           NEW i \in Inodes', NEW k \in 1..Len(content'[i])
    PROVE  /\ i \in Inodes /\ Base(i)' = Base(i)
           /\ \/ /\ k \in 1..Len(content[i]) /\ content'[i][k] = content[i][k]
                 /\ \A h : Cited(content'[i], k, h) = Cited(content[i], k, h)
              \/ /\ FileGrown(content'[i][k]) /\ i = active /\ k = Len(content[i]) + 1
                 /\ Len(content[i]) \in Nat
                 /\ \A h : Cited(content'[i], k, h) = IF content[i] = <<>> THEN h ELSE TailHash(content[i])
<1>1. i \in Inodes
  <2>1. FileBegun => content'[Len(content) + 1] = <<>>
    BY FilesAfter
  <2>2. i \in Inodes \/ (FileBegun /\ i = Len(content) + 1)
    BY FilesAfter
  <2> QED BY <2>1, <2>2
<1>2. Base(i)' = Base(i)
  BY <1>1, BaseStays
<1>3. CASE content'[i] = content[i]
  BY <1>1, <1>2, <1>3 DEF Cited
<1>4. CASE content'[i] # content[i]
  <2>1. i = active /\ \E r \in Record : FileGrown(r)
    BY <1>1, <1>4, FilesAfter
  <2>2. PICK r \in Record : FileGrown(r)
    BY <2>1
  <2>3. /\ Len(content[i]) \in Nat /\ Len(content'[i]) = Len(content[i]) + 1
        /\ \A j \in 1..Len(content[i]) : content'[i][j] = content[i][j]
        /\ content'[i][Len(content[i]) + 1] = r
    BY <2>1, <2>2, GrownFile
  <2>4. CASE k \in 1..Len(content[i])
    <3>1. k # 1 => k - 1 \in 1..Len(content[i])
      BY <2>3, <2>4
    <3> QED BY <1>1, <1>2, <2>3, <2>4, <3>1 DEF Cited
  <2>5. CASE k = Len(content[i]) + 1
    <3>1. content[i] = <<>> <=> Len(content[i]) = 0
      BY <1>1, FileTypes, EmptySeq
    <3>2. content[i] # <<>> => k # 1 /\ k - 1 = Len(content[i]) /\ k - 1 \in 1..Len(content[i])
      BY <2>3, <2>5, <3>1
    <3>3. content[i] = <<>> => k = 1
      BY <2>5, <3>1
    <3> QED BY <1>1, <1>2, <2>1, <2>2, <2>3, <2>5, <3>2, <3>3 DEF Cited, TailHash
  <2> QED BY <2>3, <2>4, <2>5
<1> QED BY <1>3, <1>4

\* A new record cites the one before it, or starts over.
LEMMA LinksStay ==
    ASSUME TypeOK, FilesInOrder, LinkedByOrder, FileStep
    PROVE  LinkedByOrder'
<1> SUFFICES ASSUME NEW i \in Inodes', NEW k \in 1..Len(content'[i])
             PROVE  \/ content'[i][k].prev = Cited(content'[i], k, Base(i)')
                    \/ content'[i][k].prev = GENESIS /\ content'[i][k].seq = 1
  BY DEF LinkedByOrder, Cited
<1>1. i \in Inodes /\ Base(i)' = Base(i)
  BY LinesAfter
<1>2. CASE /\ k \in 1..Len(content[i]) /\ content'[i][k] = content[i][k]
           /\ \A h : Cited(content'[i], k, h) = Cited(content[i], k, h)
  BY <1>1, <1>2 DEF LinkedByOrder
<1>3. CASE /\ FileGrown(content'[i][k]) /\ i = active
           /\ \A h : Cited(content'[i], k, h) = IF content[i] = <<>> THEN h ELSE TailHash(content[i])
  BY <1>1, <1>3 DEF FileGrown, TailHash, TailSeq
<1> QED BY <1>2, <1>3, LinesAfter

\* A place in the files numbers the record, and so does the head.
HeadNumbered ==
    active # NoFile => lastId = Base(active) + Len(content[active])

LEMMA ConsecutiveStays ==
    ASSUME TypeOK, FilesInOrder, FileStep, ChainInv, Consecutive, HeadNumbered
    PROVE  Consecutive'
<1> SUFFICES ASSUME NEW i \in Inodes', NEW k \in 1..Len(content'[i])
             PROVE  content'[i][k].id = Base(i)' + k /\ content'[i][k].prev = Base(i)' + k - 1
  BY DEF Consecutive
<1>1. i \in Inodes /\ Base(i)' = Base(i)
  BY LinesAfter
<1>2. CASE k \in 1..Len(content[i]) /\ content'[i][k] = content[i][k]
  BY <1>1, <1>2 DEF Consecutive
<1>3. CASE FileGrown(content'[i][k]) /\ i = active /\ k = Len(content[i]) + 1 /\ Len(content[i]) \in Nat
  <2>1. Base(i) \in Nat
    <3>1. i # 1 => i - 1 \in Inodes
      BY <1>1, FileTypes DEF Inodes
    <3>2. i # 1 => content[i - 1] \in Seq(Record)
      BY <3>1, FileTypes
    <3> QED BY <3>2, TailTypes DEF Base
  <2>2. content'[i][k].id = lastId + 1 /\ content'[i][k].prev = lastId /\ active # NoFile
    BY <1>3 DEF FileGrown
  <2>3. lastId = Base(i) + Len(content[i])
    BY <1>3, <2>2 DEF HeadNumbered
  <2> QED BY <1>1, <1>3, <2>1, <2>2, <2>3
<1> QED BY <1>2, <1>3, LinesAfter

\* The head is the last record of the newest file that has one.
LEMMA HeadIsNumbered ==
    ASSUME SingleInstance, TypeOK, ChainInv, OrderInv, Consecutive
    PROVE  HeadNumbered
<1> SUFFICES ASSUME active # NoFile PROVE lastId = Base(active) + Len(content[active])
  BY DEF HeadNumbered
<1>1. /\ active \in Inodes /\ content[active] \in Seq(Record) /\ Len(content[active]) \in Nat
      /\ active = Len(content) /\ Len(content) \in Nat /\ Inodes = 1..Len(content)
  BY FileTypes DEF OrderInv, FilesInOrder, Inodes
<1>2. CASE content[active] # <<>>
  <2>1. lastId = content[active][Len(content[active])].id
    BY <1>2 DEF ChainInv, HeadIsLast, ChainHead, TailHash
  <2>2. Len(content[active]) \in 1..Len(content[active])
    BY <1>1, <1>2, EmptySeq
  <2> QED BY <1>1, <2>1, <2>2 DEF Consecutive
<1>3. CASE content[active] = <<>>
  <2>1. Len(content[active]) = 0
    BY <1>3, EmptySeq
  <2>2. CASE \E t \in Threads : pc[t] \in {"truncate", "marker"}
    <3>1. PICK t \in Threads : pc[t] \in {"truncate", "marker"}
      BY <2>2
    <3>2. prev[t] = lastId /\ prev[t] = Base(active)
      BY <3>1 DEF ChainInv, Knows, OrderInv, KnowsFiles
    <3> QED BY <2>1, <3>2 DEF TypeOK, CountsOK
  <2>3. CASE rotated = <<>>
    <3>1. DOMAIN rotated = {}
      BY <2>3
    <3>2. \A i \in Inodes : i = active
      BY <3>1 DEF OrderInv, FilesInOrder
    <3>3. active = 1
      BY <1>1, <3>2
    <3>4. lastId = GENESIS
      BY <1>3, <2>3 DEF ChainInv, HeadIsLast, ChainHead
    <3> QED BY <2>1, <3>3, <3>4 DEF Base
  <2> QED BY <1>3, <2>2, <2>3 DEF ChainInv, FreshFile
<1> QED BY <1>2, <1>3

-----------------------------------------------------------------------------
(* The thread inside the with-block knows the files.                         *)

LEMMA OnlyMovingKnows ==
    ASSUME SingleInstance, TypeOK, RotationInv, NEW t \in Threads, pc[t] \in Locked,
           NEW next, pc' = [pc EXCEPT ![t] = next], pc'[t] = next => KnowsFiles(t)'
    PROVE  \A u \in Threads : KnowsFiles(u)'
<1>1. pc'[t] = next /\ \A u \in Threads \ {t} : pc'[u] = pc[u] /\ pc'[u] \notin Locked
  BY AloneInside DEF TypeOK, ThreadsOK
<1>2. \A u \in Threads \ {t} : KnowsFiles(u)'
  BY <1>1 DEF KnowsFiles, Locked
<1> QED BY <1>1, <1>2

LEMMA OutsideKnows ==
    ASSUME SingleInstance, TypeOK, RotationInv, OrderInv, NEW t \in Threads,
           Call(t) \/ Acquire(t) \/ Enqueue(t) \/ Anchor(t) \/ NoForwarder(t)
    PROVE  \A u \in Threads : KnowsFiles(u)'
<1>1. pc'[t] \in {"acquire", "open", "anchor", "idle"}
  BY DEF Call, Acquire, Enqueue, Anchor, NoForwarder, Return, TypeOK, ThreadsOK
<1>2. KnowsFiles(t)'
  BY <1>1 DEF KnowsFiles
<1>3. UNCHANGED <<content, active, rotated>>
  BY DEF Call, Acquire, Enqueue, Anchor, NoForwarder
<1>4. \A u \in Threads \ {t} : UNCHANGED <<pc[u], fh[u], prev[u], seq[u], slot[u]>>
  BY DEF Call, Acquire, Enqueue, Anchor, NoForwarder, Return, Forget, locals, TypeOK, ThreadsOK
<1>5. \A u \in Threads \ {t} : KnowsFiles(u)'
  BY <1>3, <1>4 DEF OrderInv, KnowsFiles, Base, TailHash, TailSeq
<1> QED BY <1>2, <1>5

LEMMA WriteKnows ==
    ASSUME SingleInstance, TypeOK, RotationInv, OrderInv, NEW t \in Threads,
           Open(t) \/ Flock(t) \/ ReadTail(t) \/ AppendRecord(t)
    PROVE  \A u \in Threads : KnowsFiles(u)'
<1>1. pc[t] \in Locked
  BY DEF Open, Flock, ReadTail, AppendRecord, Locked
<1>2. CASE Open(t)
  <2>1. pc'[t] = "flock" => KnowsFiles(t)'
    BY <1>2 DEF Open, KnowsFiles, TypeOK, ThreadsOK
  <2> QED BY <1>1, <1>2, <2>1, OnlyMovingKnows DEF Open
<1>3. CASE Flock(t)
  <2>1. pc'[t] = "tail" => KnowsFiles(t)'
    BY <1>3 DEF Flock, KnowsFiles, OrderInv, locals
  <2> QED BY <1>1, <1>3, <2>1, OnlyMovingKnows DEF Flock
<1>4. CASE ReadTail(t)
  <2>1. fh[t] = active /\ UNCHANGED <<content, active, fh>>
    BY <1>4 DEF ReadTail, KnowsFiles, OrderInv
  <2>2. prev'[t] = TailHash(content[active]) /\ seq'[t] = TailSeq(content[active]) + 1
    BY <1>4, <2>1 DEF ReadTail, TypeOK, ThreadsOK
  <2>3. pc'[t] = "append" => KnowsFiles(t)'
    BY <2>1, <2>2 DEF KnowsFiles, TailHash, TailSeq
  <2> QED BY <1>1, <1>4, <2>3, OnlyMovingKnows DEF ReadTail
<1>5. CASE AppendRecord(t)
  <2>1. PICK r \in Record : FileGrown(r)
    BY <1>5, AppendFiles
  <2>2. content'[active] # <<>> /\ active # NoFile /\ active' = active
    BY <2>1, GrownFile DEF FileGrown
  <2>3. pc'[t] = "head" => KnowsFiles(t)'
    BY <2>2 DEF KnowsFiles
  <2>4. pc'[t] = "enqueue" => KnowsFiles(t)'
    BY DEF KnowsFiles
  <2>5. pc' = [pc EXCEPT ![t] = "head"] \/ pc' = [pc EXCEPT ![t] = "enqueue"]
    BY <1>5 DEF AppendRecord, Leave
  <2> QED BY <1>1, <2>3, <2>4, <2>5, OnlyMovingKnows
<1> QED BY <1>2, <1>3, <1>4, <1>5

LEMMA RaiseKnows ==
    ASSUME SingleInstance, TypeOK, RotationInv, NEW t \in Threads, TailTorn(t) \/ RotateFails(t)
    PROVE  \A u \in Threads : KnowsFiles(u)'
<1>1. pc[t] \in Locked /\ pc' = [pc EXCEPT ![t] = "idle"]
  BY DEF TailTorn, RotateFails, Raise, Leave, Locked
<1>2. pc'[t] = "idle" => KnowsFiles(t)'
  BY DEF KnowsFiles
<1> QED BY <1>1, <1>2, OnlyMovingKnows

LEMMA RotateKnows ==
    ASSUME SingleInstance, TypeOK, RotationInv, OrderInv, NEW t \in Threads,
           \/ RotateHead(t) \/ RotateReplace(t) \/ RotateTouch(t) \/ RotateTruncate(t)
           \/ RotateMarker(t)
    PROVE  \A u \in Threads : KnowsFiles(u)'
<1>1. /\ pc[t] \in Locked /\ active \in {NoFile, Len(content)} /\ Len(content) \in Nat
      /\ Len(rotated) \in Nat
  BY FileTypes DEF RotateHead, RotateReplace, RotateTouch, RotateTruncate, RotateMarker, Locked,
                   OrderInv, FilesInOrder
<1>2. CASE RotateHead(t)
  <2>1. active # NoFile /\ content[active] # <<>> /\ UNCHANGED <<content, active>>
    BY <1>2 DEF RotateHead, OrderInv, KnowsFiles
  <2>2. prev'[t] = TailHash(content[active]) /\ slot'[t] = Len(rotated) + 1
    BY <1>2 DEF RotateHead, TypeOK, ThreadsOK
  <2>3. rotated' # <<>> /\ Len(rotated') = Len(rotated) + 1 /\ rotated'[Len(rotated) + 1] = NoFile
    <3>1. rotated \in Seq(Inodes \cup {NoFile}) /\ NoFile \in Inodes \cup {NoFile}
      BY DEF TypeOK, DiskOK
    <3>2. rotated' = Append(rotated, NoFile)
      BY <1>2 DEF RotateHead
    <3>3. /\ rotated' \in Seq(Inodes \cup {NoFile}) /\ Len(rotated') = Len(rotated) + 1
          /\ rotated'[Len(rotated) + 1] = NoFile
      BY <3>1, <3>2, Extend
    <3> QED BY <1>1, <3>3, EmptySeq
  <2>4. pc'[t] = "replace" => KnowsFiles(t)'
    BY <2>1, <2>2, <2>3 DEF KnowsFiles, TailHash
  <2> QED BY <1>1, <1>2, <2>4, OnlyMovingKnows DEF RotateHead
<1>3. CASE RotateReplace(t)
  <2>1. active # NoFile /\ prev[t] = TailHash(content[active])
    BY <1>3 DEF RotateReplace, OrderInv, KnowsFiles
  <2>2. active = Len(content) /\ Len(content) + 1 # 1 /\ (Len(content) + 1) - 1 = Len(content)
    BY <1>1, <2>1
  <2>3. active' = NoFile /\ content' = content /\ prev' = prev
    BY <1>3 DEF RotateReplace, locals
  <2>4. pc'[t] = "touch" => KnowsFiles(t)'
    BY <2>1, <2>2, <2>3 DEF KnowsFiles, Base, TailHash
  <2> QED BY <1>1, <1>3, <2>4, OnlyMovingKnows DEF RotateReplace
<1>4. CASE RotateTouch(t)
  <2>1. active = NoFile /\ prev[t] = Base(Len(content) + 1) /\ prev' = prev /\ FileBegun
    <3>1. UNCHANGED <<rotated, prev, lastId>>
      BY <1>4 DEF RotateTouch, locals
    <3> QED BY <1>4, <3>1 DEF RotateTouch, OrderInv, KnowsFiles, OpenOrCreate, FileBegun
  <2>2. active' = Len(content) + 1 /\ active' # NoFile /\ content'[Len(content) + 1] = <<>>
    BY <1>1, <2>1, FilesAfter DEF FileStep, FileBegun
  <2>3. \A r \in Record : ~FileGrown(r)
    BY <2>1 DEF FileGrown
  <2>4. \A n : n = Len(content) + 1 => Base(n)' = Base(n)
    BY <2>1, <2>3, BaseStays DEF FileStep, OrderInv
  <2>5. prev'[t] = Base(active)'
    BY <2>1, <2>2, <2>4 DEF Base
  <2>6. pc'[t] = "truncate" => KnowsFiles(t)'
    BY <2>2, <2>5 DEF KnowsFiles
  <2> QED BY <1>1, <1>4, <2>6, OnlyMovingKnows DEF RotateTouch
<1>5. CASE RotateTruncate(t)
  <2>1. FilesKept /\ active # NoFile /\ content[active] = <<>> /\ prev[t] = Base(active)
    BY <1>5, TruncateFiles
  <2>2. content' = content /\ active' = active /\ fh'[t] = active /\ prev' = prev
    BY <1>5, <2>1 DEF RotateTruncate, FilesKept, TypeOK, ThreadsOK
  <2>3. pc'[t] = "marker" => KnowsFiles(t)'
    BY <2>1, <2>2 DEF KnowsFiles, Base, TailHash
  <2> QED BY <1>1, <1>5, <2>3, OnlyMovingKnows DEF RotateTruncate
<1>6. CASE RotateMarker(t)
  <2>1. pc'[t] = "enqueue" => KnowsFiles(t)'
    BY DEF KnowsFiles
  <2> QED BY <1>1, <1>6, <2>1, OnlyMovingKnows DEF RotateMarker, Leave
<1> QED BY <1>2, <1>3, <1>4, <1>5, <1>6

LEMMA CrashKnows ==
    ASSUME SingleInstance, TypeOK, RotationInv, NEW p \in Procs, Crash(p) \/ Restart(p)
    PROVE  \A u \in Threads : KnowsFiles(u)'
<1>1. \A t \in Threads : pc'[t] = "idle"
  BY DEF Crash, Restart, SingleInstance, RotationInv, TypeOK, ThreadsOK
<1> QED BY <1>1 DEF KnowsFiles

LEMMA OrderStep ==
    ASSUME SingleInstance, TypeOK, RotationInv, OrderInv, [CrashNext]_vars
    PROVE  OrderInv'
<1>1. FileStep
  BY EveryFileStep
<1>2. FilesInOrder' /\ LinkedByOrder'
  BY <1>1, FilesStayInOrder, LinksStay DEF OrderInv
<1>3. CASE UNCHANGED vars
  BY <1>3 DEF vars, OrderInv, KnowsFiles, FilesInOrder, LinkedByOrder, Base, TailHash, TailSeq, Cited, Inodes
<1>4. ASSUME NEW t \in Threads, Call(t) \/ Step(t) PROVE \A u \in Threads : KnowsFiles(u)'
  BY <1>4, OutsideKnows, WriteKnows, RaiseKnows, RotateKnows DEF Step
<1>5. ASSUME NEW p \in Procs, Crash(p) \/ Restart(p) PROVE \A u \in Threads : KnowsFiles(u)'
  BY <1>5, CrashKnows
<1> QED BY <1>2, <1>3, <1>4, <1>5 DEF OrderInv, CrashNext, Next, Finished

LEMMA OrderBegins == Init => OrderInv
<1> SUFFICES ASSUME Init PROVE OrderInv
  OBVIOUS
<1>1. content = << <<>> >> /\ active = 1 /\ rotated = <<>> /\ Inodes = 1..1 /\ Len(content) = 1
  BY DEF Init, Inodes
<1>2. content[1] = <<>> /\ \A k : k \notin 1..Len(content[1])
  BY <1>1, EmptySeq
<1>3. FilesInOrder /\ LinkedByOrder
  BY <1>1, <1>2 DEF FilesInOrder, LinkedByOrder
<1>4. \A t \in Threads : KnowsFiles(t)
  BY DEF Init, KnowsFiles
<1> QED BY <1>3, <1>4 DEF OrderInv

LEMMA OrderAlways ==
    ASSUME SingleInstance
    PROVE  CrashSpec => [](TypeOK /\ RotationInv /\ OrderInv)
<1>1. TypeOK /\ RotationInv /\ OrderInv /\ [CrashNext]_vars => OrderInv'
  BY OrderStep
<1> QED BY <1>1, OrderBegins, RotationAlways, PTL DEF CrashSpec

-----------------------------------------------------------------------------
(* verify comes to the files in the order they were made.                    *)

LEMMA MaxIs ==
    ASSUME NEW S \in SUBSET Nat, NEW m \in S, \A x \in S : x <= m
    PROVE  Max(S) = m
<1>1. \A x \in S : m >= x
  OBVIOUS
<1>2. \E n \in S : \A x \in S : n >= x
  BY <1>1
<1>3. Max(S) \in S /\ \A x \in S : Max(S) >= x
  BY <1>2, Zenon DEF Max
<1>4. Max(S) \in Nat /\ m \in Nat /\ Max(S) >= m /\ Max(S) <= m
  BY <1>3
<1> QED BY <1>4

LEMMA PlaceTypes ==
    ASSUME TypeOK
    PROVE  /\ Places \subseteq Nat /\ Len(rotated) + 1 \in Places /\ DOMAIN rotated \subseteq Places
           /\ FileAt(Len(rotated) + 1) = active
           /\ \A s \in DOMAIN rotated : FileAt(s) = rotated[s]
           /\ \A s \in Places : s \in DOMAIN rotated \/ s = Len(rotated) + 1
           /\ \A s \in Places : FileAt(s) \in Inodes \cup {NoFile}
           /\ \A s \in Places : Lines(s) # <<>> => FileAt(s) \in Inodes
           /\ \A s \in Places : FileAt(s) \in Inodes => Lines(s) = content[FileAt(s)]
<1>1. /\ Len(rotated) \in Nat /\ DOMAIN rotated = 1..Len(rotated)
      /\ \A s \in DOMAIN rotated : rotated[s] \in Inodes \cup {NoFile}
      /\ active \in Inodes \cup {NoFile} /\ NoFile \notin Inodes
  BY FileTypes DEF Inodes
<1> QED BY <1>1 DEF Places, FileAt, Lines

LEMMA PlacesInOrder ==
    ASSUME TypeOK, FilesInOrder, NEW u \in Places, NEW v \in Places, u < v,
           FileAt(u) # NoFile, FileAt(v) # NoFile
    PROVE  FileAt(u) < FileAt(v)
<1>1. Len(rotated) \in Nat /\ DOMAIN rotated = 1..Len(rotated)
  BY FileTypes
<1>2. u \in DOMAIN rotated /\ FileAt(u) = rotated[u]
  BY <1>1, PlaceTypes DEF Places
<1>3. CASE v \in DOMAIN rotated
  BY <1>2, <1>3, PlaceTypes DEF FilesInOrder
<1>4. CASE v = Len(rotated) + 1
  <2>1. FileAt(v) = active /\ active = Len(content) /\ Len(content) \in Nat
    BY <1>4, PlaceTypes, FileTypes DEF FilesInOrder
  <2>2. rotated[u] # active /\ rotated[u] \in 1..Len(content)
    BY <1>2, PlaceTypes DEF TypeOK, OneNamePerFile, Inodes
  <2> QED BY <1>2, <2>1, <2>2
<1> QED BY <1>3, <1>4, PlaceTypes

LEMMA EveryFilePlaced ==
    ASSUME TypeOK, FilesInOrder, NEW i \in Inodes
    PROVE  \E s \in Places : FileAt(s) = i
<1>1. CASE i = active
  BY <1>1, PlaceTypes
<1>2. CASE i # active
  BY <1>2, PlaceTypes DEF FilesInOrder
<1> QED BY <1>1, <1>2

\* prev is the hash of the last line of inode n when that is the newest of the
\* files walked.
LEMMA PrevByOrder ==
    ASSUME TypeOK, FilesInOrder, NEW s \in Nat, NEW n \in 0..Len(content),
           \A u \in Places : u < s /\ Lines(u) # <<>> => FileAt(u) <= n,
           n # 0 => content[n] # <<>> /\ \E u \in Places : u < s /\ FileAt(u) = n
    PROVE  PrevAt(s) = Base(n + 1)
<1>1. CASE n = 0
  <2>1. \A i \in Inodes : ~(i <= n)
    BY <1>1, FileTypes DEF Inodes
  <2>2. Before(s) = {}
    BY <2>1, PlaceTypes DEF Before
  <2> QED BY <1>1, <2>2 DEF PrevAt, Base
<1>2. CASE n # 0
  <2>1. n \in Inodes /\ n + 1 # 1 /\ (n + 1) - 1 = n
    BY <1>2, FileTypes DEF Inodes
  <2>2. PICK u \in Places : u < s /\ FileAt(u) = n
    BY <1>2
  <2>3. Lines(u) = content[n] /\ u \in Before(s) /\ Before(s) \in SUBSET Nat
    BY <1>2, <2>1, <2>2, PlaceTypes DEF Before
  <2>4. ASSUME NEW v \in Before(s) PROVE v <= u
    <3>1. v \in Places /\ v < s /\ FileAt(v) \in Inodes /\ FileAt(v) <= n
      BY <2>4, PlaceTypes DEF Before
    <3>2. ~(u < v)
      <4>1. FileAt(u) # NoFile /\ FileAt(v) # NoFile /\ FileAt(v) \in Nat
        BY <1>2, <2>2, <3>1, FileTypes DEF Inodes
      <4> QED BY <2>2, <3>1, <4>1, PlacesInOrder
    <3> QED BY <2>3, <3>1, <3>2
  <2>5. Max(Before(s)) = u
    BY <2>3, <2>4, MaxIs
  <2>6. PrevAt(s) = Through(content[n], GENESIS)
    BY <2>3, <2>5 DEF PrevAt
  <2>7. Len(content[n]) \in Nat \ {0}
    BY <1>2, <2>1, FileTypes, EmptySeq
  <2> QED BY <1>2, <2>1, <2>6, <2>7 DEF Through, Cited, Base, TailHash
<1> QED BY <1>1, <1>2

\* verify comes to a file with the last hash of the one made before it.
LEMMA PrevIsBase ==
    ASSUME TypeOK, FilesInOrder, NEW s \in Places, FileAt(s) # NoFile
    PROVE  FileAt(s) \in Inodes /\ PrevAt(s) = Base(FileAt(s))
<1> DEFINE i == FileAt(s)
           n == i - 1
<1>1. i \in Inodes /\ Len(content) \in Nat /\ Inodes = 1..Len(content) /\ s \in Nat
  BY PlaceTypes, FileTypes DEF Inodes
<1>2. n \in 0..Len(content) /\ n + 1 = i /\ (n # 0 => n \in Inodes /\ n # Len(content))
  BY <1>1
<1>3. ASSUME NEW u \in Places, u < s, Lines(u) # <<>> PROVE FileAt(u) <= n
  <2>1. FileAt(u) \in Inodes /\ FileAt(u) # NoFile
    BY <1>1, <1>3, PlaceTypes
  <2>2. FileAt(u) < FileAt(s)
    BY <1>3, <2>1, PlacesInOrder
  <2> QED BY <1>1, <2>1, <2>2
<1>4. ASSUME n # 0 PROVE content[n] # <<>> /\ \E u \in Places : u < s /\ FileAt(u) = n
  <2>1. n \in Inodes \ {active}
    BY <1>1, <1>2, <1>4 DEF FilesInOrder
  <2>2. PICK u \in Places : FileAt(u) = n
    BY <2>1, EveryFilePlaced
  <2>3. u # s /\ ~(s < u)
    <3>1. FileAt(u) # NoFile /\ ~(i < n) /\ n # i
      BY <1>1, <1>4, <2>2
    <3> QED BY <2>2, <3>1, PlacesInOrder
  <2>4. u \in Nat
    BY PlaceTypes
  <2> QED BY <1>1, <2>1, <2>2, <2>3, <2>4 DEF FilesInOrder
<1> HIDE DEF n
<1>5. PrevAt(s) = Base(n + 1)
  BY <1>1, <1>2, <1>3, <1>4, PrevByOrder
<1> QED BY <1>1, <1>2, <1>5

LEMMA OnlyRestarts == TypeOK /\ OrderInv => OnlyRestartsBreakLinks
<1> SUFFICES ASSUME TypeOK, OrderInv, NEW s \in Places, NEW k \in DOMAIN Lines(s)
             PROVE  \/ Lines(s)[k].prev = Cited(Lines(s), k, PrevAt(s))
                    \/ Lines(s)[k].prev = GENESIS /\ Lines(s)[k].seq = 1
  BY DEF OnlyRestartsBreakLinks
<1>1. FileAt(s) # NoFile
  BY DEF Lines
<1>2. FileAt(s) \in Inodes /\ PrevAt(s) = Base(FileAt(s)) /\ Lines(s) = content[FileAt(s)]
  BY <1>1, PrevIsBase DEF OrderInv, Lines
<1>3. k \in 1..Len(content[FileAt(s)])
  BY <1>2, FileTypes
<1> QED BY <1>2, <1>3 DEF OrderInv, LinkedByOrder

\* Wherever the one instance is killed and whenever it is started again, the
\* only link verify can find broken is the first record of a file that starts
\* over from GENESIS (audit.py:192-223, audit.py:344-345).
THEOREM OneInstanceOnlyRestarts ==
    ASSUME SingleInstance
    PROVE  CrashSpec => []OnlyRestartsBreakLinks
  BY OrderAlways, OnlyRestarts, PTL

-----------------------------------------------------------------------------
(* Without a crash verify succeeds.                                          *)

\* What holds as long as the instance has not been killed.
OrderUntilCrash == UntilCrash /\ RotationInv /\ OrderInv /\ (crashes = 0 => Consecutive)

LEMMA OrderUntilCrashStep ==
    ASSUME SingleInstance, OrderUntilCrash, [CrashNext]_vars
    PROVE  OrderUntilCrash'
<1> USE DEF OrderUntilCrash
<1>1. TypeOK' /\ RotationInv' /\ OrderInv'
  BY TypeStep, RotationStep, OrderStep DEF UntilCrash
<1>2. ASSUME crashes' = 0 PROVE ChainInv' /\ Consecutive'
  <2>1. ChainInv /\ [Next]_vars /\ crashes = 0
    BY <1>2, NoCrashStep, NextKeepsCrashes
  <2>2. FileStep /\ HeadNumbered
    BY <2>1, EveryFileStep, HeadIsNumbered DEF UntilCrash
  <2> QED BY <2>1, <2>2, ChainStep, ConsecutiveStays DEF UntilCrash, OrderInv
<1> QED BY <1>1, <1>2 DEF UntilCrash

LEMMA OrderUntilCrashBegins == Init => OrderUntilCrash
<1> SUFFICES ASSUME Init PROVE OrderUntilCrash
  OBVIOUS
<1>1. Consecutive
  <2>1. content[1] = <<>> /\ Inodes = 1..1
    BY DEF Init, Inodes
  <2> QED BY <2>1, EmptySeq DEF Consecutive
<1>2. RotationInv
  BY DEF Init, RotationInv, LockHeld, OwnFile, Locked
<1> QED BY <1>1, <1>2, TypeInit, ChainInit, OrderBegins DEF OrderUntilCrash, UntilCrash

LEMMA OrderUntilCrashAlways ==
    ASSUME SingleInstance
    PROVE  CrashSpec => []OrderUntilCrash
<1>1. OrderUntilCrash /\ [CrashNext]_vars => OrderUntilCrash'
  BY OrderUntilCrashStep
<1> QED BY <1>1, OrderUntilCrashBegins, PTL DEF CrashSpec

\* The lines of one file, numbered through.
LEMMA NumberedLines ==
    ASSUME TypeOK, Consecutive, NEW i \in Inodes
    PROVE  /\ Base(i) \in Nat /\ Len(content[i]) \in Nat
           /\ Linked(content[i], Base(i))
           /\ Through(content[i], Base(i)) = Base(i) + Len(content[i])
           /\ content[i] # <<>> => TailHash(content[i]) = Base(i) + Len(content[i])
<1>1. content[i] \in Seq(Record) /\ Len(content[i]) \in Nat /\ DOMAIN content[i] = 1..Len(content[i])
  BY FileTypes
<1>2. Base(i) \in Nat
  <2>1. i # 1 => content[i - 1] \in Seq(Record)
    <3>1. i # 1 => i - 1 \in Inodes
      BY FileTypes DEF Inodes
    <3> QED BY <3>1, FileTypes
  <2> QED BY <2>1, TailTypes DEF Base
<1>3. \A k \in 1..Len(content[i]) : content[i][k].id = Base(i) + k /\ content[i][k].prev = Base(i) + k - 1
  BY DEF Consecutive
<1>4. Linked(content[i], Base(i))
  <2> SUFFICES ASSUME NEW k \in 1..Len(content[i]) PROVE content[i][k].prev = Cited(content[i], k, Base(i))
    BY <1>1 DEF Linked
  <2>1. CASE k = 1
    BY <1>2, <1>3, <2>1 DEF Cited
  <2>2. CASE k # 1
    <3>1. k - 1 \in 1..Len(content[i])
      BY <1>1, <2>2
    <3> QED BY <1>2, <1>3, <2>2, <3>1 DEF Cited
  <2> QED BY <2>1, <2>2
<1>5. CASE content[i] = <<>>
  <2>1. Len(content[i]) = 0
    BY <1>5, EmptySeq
  <2> QED BY <1>1, <1>2, <1>4, <1>5, <2>1 DEF Through, Cited
<1>6. CASE content[i] # <<>>
  <2>1. Len(content[i]) \in 1..Len(content[i])
    BY <1>1, <1>6, EmptySeq
  <2>2. Len(content[i]) + 1 # 1 /\ (Len(content[i]) + 1) - 1 = Len(content[i])
    BY <2>1
  <2> QED BY <1>1, <1>2, <1>3, <1>4, <1>6, <2>1, <2>2 DEF Through, Cited, TailHash
<1> QED BY <1>5, <1>6

\* The head is where the newest file with a record ends.
LEMMA HeadByOrder ==
    ASSUME SingleInstance, TypeOK, ChainInv, OrderInv, Consecutive
    PROVE  /\ active = NoFile => lastId = Base(Len(content) + 1)
           /\ active # NoFile /\ content[active] = <<>> => lastId = Base(active)
           /\ active # NoFile /\ content[active] # <<>> => lastId = Base(active + 1)
<1>1. CASE active = NoFile
  <2>1. PICK t \in Threads : pc[t] = "touch"
    BY <1>1 DEF ChainInv, PathMissing
  <2> QED BY <1>1, <2>1 DEF ChainInv, Knows, OrderInv, KnowsFiles
<1>2. CASE active # NoFile
  <2>1. active \in Inodes /\ active # 0
    BY <1>2, FileTypes
  <2>2. active + 1 # 1 /\ (active + 1) - 1 = active
    BY <2>1, FileTypes DEF Inodes
  <2>3. lastId = Base(active) + Len(content[active])
    BY <1>2, HeadIsNumbered DEF HeadNumbered
  <2>4. content[active] = <<>> => Len(content[active]) = 0
    BY EmptySeq
  <2> QED BY <1>2, <2>1, <2>2, <2>3, <2>4, NumberedLines DEF Base
<1> QED BY <1>1, <1>2

LEMMA VerifySucceeds ==
    ASSUME SingleInstance, TypeOK, ChainInv, OrderInv, Consecutive
    PROVE  VerifyOk /\ VerifyHead = ChainHead
<1>1. Readable
  BY DEF ChainInv, Readable
<1>2. LinksUnbroken
  <2> SUFFICES ASSUME NEW s \in Places PROVE Linked(Lines(s), PrevAt(s))
    BY DEF LinksUnbroken
  <2>1. CASE FileAt(s) = NoFile
    BY <2>1 DEF Lines, Linked
  <2>2. CASE FileAt(s) # NoFile
    BY <2>2, PrevIsBase, NumberedLines DEF Lines, OrderInv
  <2> QED BY <2>1, <2>2
<1>3. VerifyHead = lastId
  <2> DEFINE n == IF active = NoFile THEN Len(content)
                  ELSE IF content[active] = <<>> THEN active - 1 ELSE active
             s == Len(rotated) + 2
  <2>1. /\ Len(content) \in Nat /\ Inodes = 1..Len(content) /\ active \in {0, Len(content)}
        /\ s \in Nat /\ \A u \in Places : u < s
    <3>1. Len(rotated) \in Nat /\ Len(content) \in Nat
      BY FileTypes
    <3>2. s \in Nat /\ \A u \in Places : u < s
      BY <3>1 DEF Places
    <3> QED BY <3>1, <3>2 DEF OrderInv, FilesInOrder, Inodes
  <2>2. n \in 0..Len(content) /\ (active # NoFile /\ content[active] = <<>> => n + 1 = active)
    BY <2>1
  <2>3. \A i \in Inodes : content[i] # <<>> => i <= n
    BY <2>1 DEF OrderInv, FilesInOrder
  <2>4. n # 0 => n \in Inodes /\ content[n] # <<>>
    BY <2>1 DEF OrderInv, FilesInOrder
  <2>5. Base(n + 1) = lastId
    BY <2>2, HeadByOrder
  <2> HIDE DEF n, s
  <2>6. \A u \in Places : Lines(u) # <<>> => FileAt(u) <= n
    BY <2>3, PlaceTypes
  <2>7. n # 0 => content[n] # <<>> /\ \E u \in Places : u < s /\ FileAt(u) = n
    BY <2>1, <2>4, EveryFilePlaced DEF OrderInv
  <2>8. PrevAt(s) = Base(n + 1)
    BY <2>1, <2>2, <2>6, <2>7, PrevByOrder DEF OrderInv
  <2> QED BY <2>5, <2>8 DEF VerifyHead, s
<1> QED BY <1>1, <1>2, <1>3 DEF VerifyOk, ChainInv, HeadIsLast

\* At every moment of a living instance, inside a rotation too, verify succeeds
\* and reports the head the writers see (audit.py:16-18, audit.py:332-356).
THEOREM OneInstanceVerifies ==
    ASSUME SingleInstance
    PROVE  CrashSpec => []VerifiesAlways
<1>1. OrderUntilCrash => VerifiesAlways
  BY VerifySucceeds DEF OrderUntilCrash, UntilCrash, VerifiesAlways
<1> QED BY <1>1, OrderUntilCrashAlways, PTL

-----------------------------------------------------------------------------
(* A verification beside the writers.                                        *)

LEMMA RotationTypes ==
    ASSUME TypeOK, FilesInOrder
    PROVE  /\ Rotations \in Nat /\ 1..Rotations = Inodes \ {active}
           /\ active # NoFile => active = Rotations + 1 /\ active \in Inodes
           /\ active = NoFile => Rotations = Len(content)
           /\ \A c \in 1..Rotations : content[c] # <<>> /\ \E s \in DOMAIN rotated : rotated[s] = c
           /\ \A s \in DOMAIN rotated : rotated[s] \in 0..Rotations
<1>1. /\ Len(content) \in Nat /\ Inodes = 1..Len(content) /\ active \in Inodes \cup {0}
      /\ active \in {0, Len(content)}
  BY FileTypes DEF FilesInOrder, Inodes
<1>2. Rotations \in Nat /\ 1..Rotations = Inodes \ {active}
  BY <1>1 DEF Rotations
<1>3. active # NoFile => active = Rotations + 1 /\ active \in Inodes
  BY <1>1 DEF Rotations
<1>4. \A s \in DOMAIN rotated : rotated[s] \in (Inodes \ {active}) \cup {0}
  BY FileTypes DEF TypeOK, OneNamePerFile
<1>5. \A s \in DOMAIN rotated : rotated[s] \in 0..Rotations
  BY <1>2, <1>4
<1>6. \A c \in 1..Rotations : content[c] # <<>> /\ \E s \in DOMAIN rotated : rotated[s] = c
  BY <1>2 DEF FilesInOrder
<1> QED BY <1>2, <1>3, <1>5, <1>6 DEF Rotations

\* What is left to walk stays the same unless a file is renamed.
LEMMA RestStays ==
    ASSUME TypeOK, FilesInOrder, FileStep, ~FileRenamed, UNCHANGED <<todo, due>>,
           NEW c \in 0..Rotations
    PROVE  /\ Rotations' = Rotations /\ Base(c + 1)' = Base(c + 1)
           /\ Rest(c) => Rest(c)'
           /\ Named' = Named
<1>1. Rotations \in Nat /\ Len(content) \in Nat /\ Inodes = 1..Len(content) /\ active \in {0, Len(content)}
  BY RotationTypes, FileTypes DEF FilesInOrder, Inodes
<1>2. Len(content') = IF FileBegun THEN Len(content) + 1 ELSE Len(content)
  BY FilesAfter
<1>3. /\ FileBegun => active = 0 /\ active' = Len(content) + 1
      /\ ~FileBegun => active' = active
  BY DEF FileStep, FileBegun, FilesKept, NameStamped, FileGrown
<1>4. Rotations' = Rotations
  BY <1>1, <1>2, <1>3 DEF Rotations
<1>5. \A n \in 0..Rotations : Base(n + 1)' = Base(n + 1)
  <2> SUFFICES ASSUME NEW n \in 0..Rotations PROVE Base(n + 1)' = Base(n + 1)
    OBVIOUS
  <2>1. CASE n + 1 \in Inodes
    BY <2>1, BaseStays
  <2>2. CASE n + 1 \notin Inodes
    <3>1. active = 0 /\ n + 1 = Len(content) + 1
      BY <1>1, <2>2 DEF Rotations
    <3>2. \A r \in Record : ~FileGrown(r)
      BY <3>1 DEF FileGrown
    <3> QED BY <3>1, <3>2, BaseStays
  <2> QED BY <2>1, <2>2
<1>6. \/ rotated' = rotated
      \/ /\ DOMAIN rotated' = DOMAIN rotated \cup {Len(rotated) + 1}
         /\ \A s \in DOMAIN rotated : rotated'[s] = rotated[s]
         /\ rotated'[Len(rotated) + 1] = 0
  <2>1. CASE NameStamped
    <3>1. /\ rotated \in Seq(Inodes \cup {0}) /\ 0 \in Inodes \cup {0}
          /\ Len(rotated) \in Nat /\ DOMAIN rotated = 1..Len(rotated)
      BY FileTypes DEF TypeOK, DiskOK
    <3>2. /\ Append(rotated, 0) \in Seq(Inodes \cup {0})
          /\ Len(Append(rotated, 0)) = Len(rotated) + 1
          /\ \A s \in 1..Len(rotated) : Append(rotated, 0)[s] = rotated[s]
          /\ Append(rotated, 0)[Len(rotated) + 1] = 0
      BY <3>1, Extend
    <3>3. DOMAIN Append(rotated, 0) = 1..(Len(rotated) + 1)
      BY <3>2, LenProperties
    <3>4. 1..(Len(rotated) + 1) = 1..Len(rotated) \cup {Len(rotated) + 1}
      BY <3>1
    <3>5. rotated' = Append(rotated, 0)
      BY <2>1 DEF NameStamped
    <3> HIDE DEF NoFile
    <3> QED BY <3>1, <3>2, <3>3, <3>4, <3>5
  <2> QED BY <2>1 DEF FileStep, FileBegun, FilesKept, FileGrown
<1>7. Named' = Named
  BY <1>6 DEF Named
<1>8. {s \in DOMAIN rotated : rotated[s] > c}' = {s \in DOMAIN rotated : rotated[s] > c}
  BY <1>1, <1>6
<1>9. active # 0 => active' # 0
  BY <1>3
<1>10. Base(Rotations + 1)' = Base(Rotations + 1)
  <2>1. \A n \in 0..Rotations : n = Rotations => Base(n + 1)' = Base(Rotations + 1)
    BY <1>5
  <2> QED BY <1>1, <1>4, <2>1 DEF Base
<1> QED BY <1>4, <1>5, <1>7, <1>8, <1>9, <1>10 DEF Rest

\* The files of an instance that has not been killed.
Whole == SingleInstance /\ TypeOK /\ ChainInv /\ OrderInv /\ Consecutive

LEMMA NothingOverlooked ==
    ASSUME Whole, ReaderInv
    PROVE  /\ active = NoFile => due \subseteq 1..Base(Rotations + 1)
           /\ active # NoFile => due \subseteq 1..(Base(active) + Len(content[active]))
<1>1. due \subseteq 1..lastId
  BY DEF ReaderInv
<1>2. active = NoFile => lastId = Base(Rotations + 1)
  BY HeadByOrder, RotationTypes DEF Whole, OrderInv
<1>3. active # NoFile => lastId = Base(active) + Len(content[active])
  BY HeadIsNumbered DEF HeadNumbered, Whole
<1> QED BY <1>1, <1>2, <1>3

\* Beside a step of the log.
LEMMA LogBesideReader ==
    ASSUME Whole, FileStep, ReaderInv, ~renamed',
           renamed' = (renamed \/ (Exposed /\ active # NoFile /\ active' = NoFile)),
           UNCHANGED <<vpc, todo, vfile, vprev, vcount, verdict, due>>
    PROVE  ReaderInv'
<1> USE DEF Whole
<1>1. FilesInOrder /\ TypeOK
  BY DEF OrderInv
<1>2. Exposed => ~FileRenamed
  BY DEF FileRenamed
<1>3. due' \subseteq 1..lastId'
  <2>1. lastId \in Nat /\ lastId' \in Nat /\ lastId <= lastId'
    BY DEF FileStep, FilesKept, FileBegun, NameStamped, FileRenamed, FileGrown, TypeOK, CountsOK
  <2> QED BY <2>1 DEF ReaderInv
<1>4. vpc = "exists" => todo' = Named'
  <2>1. 0 \in 0..Rotations
    BY <1>1, RotationTypes
  <2> QED BY <1>1, <1>2, <2>1, RestStays DEF Exposed, ReaderInv
<1>5. ASSUME vpc = "open", todo # {}
      PROVE  \E c \in 0..Rotations' : vprev' = Base(c + 1)' /\ Rest(c)'
  <2>1. PICK c \in 0..Rotations : vprev = Base(c + 1) /\ Rest(c)
    BY <1>5 DEF ReaderInv
  <2>2. Rotations' = Rotations /\ Base(c + 1)' = Base(c + 1) /\ Rest(c)'
    BY <1>1, <1>2, <1>5, <2>1, RestStays DEF Exposed
  <2> QED BY <2>1, <2>2
<1>6. ASSUME vpc = "walk"
      PROVE  /\ vfile' \in Inodes' /\ vprev' = Base(vfile)'
             /\ IF todo = {} THEN due' \subseteq 1..(Base(vfile)' + Len(content'[vfile]))
                ELSE vfile' \in 1..Rotations' /\ Rest(vfile)'
  <2>1. vfile \in Inodes /\ vprev = Base(vfile)
    BY <1>6 DEF ReaderInv
  <2>2. vfile' = vfile /\ vfile \in Inodes' /\ Base(vfile)' = Base(vfile)
    <3>1. \A i \in Inodes : Base(i)' = Base(i)
      BY <1>1, BaseStays
    <3> QED BY <1>1, <2>1, <3>1, FilesAfter DEF Base
  <2>3. CASE todo = {}
    <3>1. due \subseteq 1..(Base(vfile) + Len(content[vfile]))
      BY <1>6, <2>3 DEF ReaderInv
    <3>2. /\ Base(vfile) \in Nat /\ Len(content[vfile]) \in Nat /\ Len(content'[vfile]) \in Nat
          /\ Len(content[vfile]) <= Len(content'[vfile])
      <4>1. CASE content'[vfile] = content[vfile]
        BY <2>1, <4>1, NumberedLines
      <4>2. CASE content'[vfile] # content[vfile]
        <5>1. PICK r \in Record : FileGrown(r)
          BY <2>1, <4>2, FilesAfter
        <5>2. vfile = active
          BY <2>1, <4>2, FilesAfter
        <5> QED BY <2>1, <5>1, <5>2, GrownFile, NumberedLines
      <4> QED BY <4>1, <4>2
    <3> QED BY <2>1, <2>2, <2>3, <3>1, <3>2
  <2>4. CASE todo # {}
    <3>1. vfile \in 1..Rotations /\ Rest(vfile) /\ vfile \in 0..Rotations
      BY <1>1, <1>6, <2>4, RotationTypes DEF ReaderInv
    <3>2. Rotations' = Rotations
      BY <1>1, <1>2, <1>6, <2>4, <3>1, RestStays DEF Exposed
    <3>3. \A c \in 0..Rotations : Rest(c) => Rest(c)'
      BY <1>1, <1>2, <1>6, <2>4, RestStays DEF Exposed
    <3> QED BY <2>1, <2>2, <2>4, <3>1, <3>2, <3>3 DEF Rest
  <2> QED BY <2>3, <2>4
<1>7. vpc = "done" => verdict' = "ok" /\ due' \subseteq 1..vcount'
  BY DEF ReaderInv
<1> QED BY <1>3, <1>4, <1>5, <1>6, <1>7 DEF ReaderInv, Base

\* The listing, and the look for the active path.
LEMMA ListReader ==
    ASSUME Whole, ReaderInv, ListRotated \/ LookForActive, UNCHANGED vars
    PROVE  ReaderInv'
<1> USE DEF Whole
<1>1. CASE ListRotated
  <2>1. due' \subseteq 1..lastId'
    BY <1>1 DEF ListRotated, ChainInv, IdsIssued, IdsOnDisk, vars
  <2>2. todo' = Named' /\ vprev' = 0 /\ vcount' = vprev' /\ vpc' = "exists"
    BY <1>1 DEF ListRotated, ReaderInv, Named, vars
  <2> QED BY <2>1, <2>2 DEF ReaderInv
<1>2. CASE LookForActive
  <2>1. /\ vpc' = "open" /\ vprev' = 0 /\ vcount' = 0 /\ due' = due /\ todo = Named
        /\ todo' = IF active = NoFile THEN Named ELSE Named \cup {0}
    BY <1>2 DEF LookForActive, ReaderInv, ActivePath
  <2>2. /\ UNCHANGED <<content, active, rotated, lastId>>
        /\ Rotations' = Rotations /\ \A i : Base(i)' = Base(i)
    BY DEF vars, Rotations, Base, TailHash
  <2>3. /\ FilesInOrder /\ Rotations \in Nat /\ 0 \in 0..Rotations /\ 0 \notin DOMAIN rotated
        /\ \A s \in DOMAIN rotated : rotated[s] \in Nat /\ (rotated[s] # 0 <=> rotated[s] > 0)
    BY RotationTypes, FileTypes DEF OrderInv
  <2>4. Base(0 + 1) = 0
    BY DEF Base
  <2>5. CASE todo' = {}
    <3>1. active = NoFile /\ Named = {}
      BY <2>1, <2>5
    <3>2. Rotations = 0
      <4>1. \A c \in 1..Rotations : \E s \in DOMAIN rotated : rotated[s] = c
        BY <2>3, RotationTypes
      <4>2. 1 \notin 1..Rotations
        BY <3>1, <4>1 DEF Named
      <4> QED BY <2>3, <4>2
    <3>3. due \subseteq 1..0
      BY <2>4, <3>1, <3>2, NothingOverlooked
    <3> QED BY <2>1, <2>2, <2>5, <3>3 DEF ReaderInv
  <2>6. CASE todo' # {}
    <3>1. todo' \ {0} = {s \in DOMAIN rotated : rotated[s] > 0}
      BY <2>1, <2>3 DEF Named
    <3>2. IF 0 \in todo' THEN active # NoFile ELSE due \subseteq 1..Base(Rotations + 1)
      BY <2>1, <2>3, NothingOverlooked DEF Named
    <3>3. Rest(0)'
      BY <2>1, <2>2, <3>1, <3>2 DEF Rest, ActivePath
    <3>4. \E c \in 0..Rotations' : vprev' = Base(c + 1)' /\ Rest(c)'
      BY <2>1, <2>2, <2>3, <2>4, <3>3
    <3> QED BY <2>1, <2>2, <2>6, <3>4 DEF ReaderInv
  <2> QED BY <2>5, <2>6
<1> QED BY <1>1, <1>2

\* The next file in the order of the names is the next that was made.
LEMMA OpenReader ==
    ASSUME Whole, ReaderInv, OpenNext, UNCHANGED vars
    PROVE  ReaderInv'
<1> USE DEF Whole
<1>1. PICK name \in todo :
          /\ \A other \in todo : NotAfter(name, other)
          /\ IF Path(name) = NoFile
             THEN Ends("FileNotFound")
             ELSE /\ vfile' = Path(name)
                  /\ todo' = todo \ {name}
                  /\ vpc' = "walk"
                  /\ UNCHANGED verdict
  BY DEF OpenNext
<1>2. vpc = "open" /\ UNCHANGED <<vprev, vcount, due>>
  BY DEF OpenNext
<1>3. PICK c \in 0..Rotations : vprev = Base(c + 1) /\ Rest(c)
  BY <1>1, <1>2 DEF ReaderInv
<1>4. /\ FilesInOrder /\ Rotations \in Nat /\ 1..Rotations = Inodes \ {active} /\ 0 \notin DOMAIN rotated
      /\ \A s \in DOMAIN rotated : s \in Nat /\ rotated[s] \in 0..Rotations
      /\ \A i \in 1..Rotations : \E s \in DOMAIN rotated : rotated[s] = i
  BY RotationTypes, FileTypes DEF OrderInv
<1>5. todo \ {0} = {s \in DOMAIN rotated : rotated[s] > c}
  BY <1>3 DEF Rest, ActivePath
<1>6. /\ UNCHANGED <<content, active, rotated, lastId>> /\ Inodes' = Inodes
      /\ Rotations' = Rotations /\ \A i : Base(i)' = Base(i)
  BY DEF vars, Rotations, Base, TailHash, Inodes
<1>7. CASE name = 0
  <2>1. \A other \in todo : other = 0
    BY <1>1, <1>7 DEF NotAfter, ActivePath
  <2>2. c = Rotations
    <3>1. c + 1 \notin 1..Rotations
      <4>1. \A s \in DOMAIN rotated : ~(rotated[s] > c)
        BY <1>4, <1>5, <2>1
      <4>2. \A s \in DOMAIN rotated : rotated[s] # c + 1
        BY <1>4, <4>1
      <4> QED BY <1>4, <4>2
    <3> QED BY <1>3, <1>4, <3>1
  <2>3. active # NoFile /\ active = Rotations + 1 /\ active \in Inodes
    <3>1. active # NoFile
      BY <1>1, <1>3, <1>7 DEF Rest, ActivePath
    <3> QED BY <1>4, <3>1, RotationTypes
  <2>4. vfile' = active /\ todo' = {} /\ vpc' = "walk"
    BY <1>1, <1>7, <2>1, <2>3 DEF Path, ActivePath
  <2>5. due \subseteq 1..(Base(active) + Len(content[active]))
    BY <2>3, NothingOverlooked
  <2> QED BY <1>2, <1>3, <1>6, <2>2, <2>3, <2>4, <2>5 DEF ReaderInv
<1>8. CASE name # 0
  <2>1. name \in DOMAIN rotated /\ rotated[name] > c /\ rotated[name] \in 0..Rotations
    BY <1>4, <1>5, <1>8
  <2>2. rotated[name] = c + 1 /\ c + 1 \in 1..Rotations
    <3>1. c + 1 \in 1..Rotations
      BY <1>3, <1>4, <2>1
    <3>2. PICK u \in DOMAIN rotated : rotated[u] = c + 1
      BY <1>4, <3>1
    <3>3. u \in todo /\ u # 0
      BY <1>3, <1>4, <1>5, <3>2
    <3>4. name <= u
      BY <1>1, <1>8, <3>3 DEF NotAfter, ActivePath
    <3>5. CASE name = u
      BY <3>1, <3>2, <3>5
    <3>6. CASE name # u
      <4>1. name < u /\ rotated[name] # 0 /\ rotated[u] # 0
        BY <1>3, <1>4, <2>1, <3>2, <3>4, <3>6
      <4>2. rotated[name] < rotated[u]
        BY <1>4, <2>1, <3>2, <4>1 DEF FilesInOrder
      <4> QED BY <1>3, <2>1, <3>2, <4>2
    <3> QED BY <3>1, <3>5, <3>6
  <2>3. vfile' = c + 1 /\ todo' = todo \ {name} /\ vpc' = "walk" /\ c + 1 \in Inodes
    BY <1>1, <1>4, <1>8, <2>2 DEF Path, ActivePath
  <2>4. todo' \ {0} = {s \in DOMAIN rotated : rotated[s] > c + 1}
    <3>1. \A s \in DOMAIN rotated : s # name => rotated[s] # c + 1
      BY <2>1, <2>2 DEF TypeOK, OneNamePerFile
    <3>2. \A s \in DOMAIN rotated : rotated[s] > c + 1 <=> (rotated[s] > c /\ s # name)
      BY <1>3, <1>4, <2>2, <3>1
    <3> QED BY <1>4, <1>5, <2>3, <3>2
  <2>5. IF 0 \in todo' THEN active # NoFile ELSE due \subseteq 1..Base(Rotations + 1)
    BY <1>3, <1>8, <2>3 DEF Rest, ActivePath
  <2>6. Rest(c + 1)'
    BY <1>2, <1>6, <2>4, <2>5 DEF Rest, ActivePath
  <2>7. ASSUME todo' = {} PROVE due \subseteq 1..(Base(c + 1) + Len(content[c + 1]))
    <3>1. c + 1 = Rotations
      <4>1. \A s \in DOMAIN rotated : ~(rotated[s] > c + 1)
        BY <2>4, <2>7
      <4>2. c + 2 \notin 1..Rotations
        BY <1>3, <1>4, <4>1
      <4> QED BY <1>3, <1>4, <2>2, <4>2
    <3>2. due \subseteq 1..Base(Rotations + 1)
      BY <2>5, <2>7
    <3>3. Base(Rotations + 1) = TailHash(content[c + 1])
      BY <1>3, <1>4, <3>1 DEF Base
    <3>4. content[c + 1] # <<>>
      BY <1>4, <2>2, RotationTypes
    <3>5. TailHash(content[c + 1]) = Base(c + 1) + Len(content[c + 1])
      BY <2>3, <3>4, NumberedLines
    <3> QED BY <3>2, <3>3, <3>5
  <2> HIDE DEF Whole
  <2>8. vfile' \in Inodes' /\ vprev' = Base(vfile)' /\ vfile' \in 1..Rotations' /\ Rest(vfile)'
    BY <1>2, <1>3, <1>6, <2>2, <2>3, <2>6 DEF Rest, Base
  <2> QED BY <1>2, <1>6, <2>3, <2>7, <2>8 DEF ReaderInv, Base
<1> QED BY <1>7, <1>8

\* A file that is walked is whole and linked to the one before it.
LEMMA WalkReader ==
    ASSUME Whole, ReaderInv, WalkFile, UNCHANGED vars
    PROVE  ReaderInv'
<1> USE DEF Whole
<1>1. /\ vpc = "walk" /\ vfile \in Inodes /\ vprev = Base(vfile) /\ vcount = vprev
      /\ due \subseteq 1..lastId /\ due' = due
  BY DEF WalkFile, ReaderInv
<1>2. vfile \notin torn /\ Linked(content[vfile], vprev)
  BY <1>1, NumberedLines DEF ChainInv
<1>3. /\ vpc' = "open" /\ todo' = todo
      /\ vcount' = vcount + Len(content[vfile]) /\ vprev' = Through(content[vfile], vprev)
  BY <1>2 DEF WalkFile
<1>4. vprev' = Base(vfile) + Len(content[vfile]) /\ vcount' = vprev' /\ vcount' \in Nat
  BY <1>1, <1>3, NumberedLines
<1>5. /\ UNCHANGED <<content, active, rotated, lastId>> /\ Inodes' = Inodes
      /\ Rotations' = Rotations /\ \A i : Base(i)' = Base(i)
  BY DEF vars, Rotations, Base, TailHash, Inodes
<1>6. CASE todo = {}
  <2>1. due \subseteq 1..vprev'
    BY <1>1, <1>4, <1>6 DEF ReaderInv
  <2> QED BY <1>1, <1>3, <1>4, <1>5, <1>6, <2>1 DEF ReaderInv
<1>7. CASE todo # {}
  <2>1. FilesInOrder /\ vfile \in 1..Rotations /\ Rest(vfile) /\ Rotations \in Nat
    BY <1>1, <1>7, RotationTypes DEF ReaderInv, OrderInv
  <2>2. content[vfile] # <<>>
    BY <2>1, RotationTypes
  <2>3. vprev' = Base(vfile + 1)
    <3>1. TailHash(content[vfile]) = Base(vfile) + Len(content[vfile])
      BY <1>1, <2>2, NumberedLines
    <3> QED BY <1>4, <2>1, <3>1 DEF Base
  <2>4. \A c : c = vfile => Rest(c)'
    BY <1>1, <1>3, <1>5, <2>1 DEF Rest
  <2>5. \E c \in 0..Rotations' : vprev' = Base(c + 1)' /\ Rest(c)'
    BY <1>5, <2>1, <2>3, <2>4
  <2> QED BY <1>1, <1>3, <1>4, <1>5, <1>7, <2>5 DEF ReaderInv
<1> QED BY <1>6, <1>7

LEMMA EndReader ==
    ASSUME ReaderInv, VerifyEnds, UNCHANGED vars
    PROVE  ReaderInv'
  BY DEF ReaderInv, VerifyEnds, Ends, vars

\* A verification that nothing has disturbed so far.
ReaderUntilCrash == OrderUntilCrash /\ Undisturbed

LEMMA ReaderStep ==
    ASSUME SingleInstance, ReaderUntilCrash, [Beside \/ Verifier]_readerVars
    PROVE  ReaderUntilCrash'
<1>1. OrderUntilCrash' /\ [CrashNext]_vars
  <2>1. [CrashNext]_vars
    BY DEF Beside, Verifier, readerVars
  <2> QED BY <2>1, OrderUntilCrashStep DEF ReaderUntilCrash
<1>2. ASSUME crashes' = 0, ~renamed' PROVE ReaderInv'
  <2>1. ChainInv /\ crashes = 0
    BY <1>1, <1>2, NoCrashStep, NextKeepsCrashes DEF ReaderUntilCrash, OrderUntilCrash
  <2>2. ~renamed
    BY <1>2 DEF Beside, Verifier, ListRotated, LookForActive, OpenNext, WalkFile, VerifyEnds,
                readerVars, verifierVars
  <2>3. Whole /\ ReaderInv
    BY <2>1, <2>2 DEF Whole, ReaderUntilCrash, Undisturbed, OrderUntilCrash, UntilCrash
  <2>4. CASE Beside
    <3>1. FileStep
      BY <1>1, EveryFileStep DEF ReaderUntilCrash, OrderUntilCrash, UntilCrash
    <3> QED BY <1>2, <2>3, <2>4, <3>1, LogBesideReader DEF Beside
  <2>5. CASE Verifier
    BY <2>3, <2>5, ListReader, OpenReader, WalkReader, EndReader DEF Verifier
  <2>6. CASE UNCHANGED readerVars
    <3>1. UNCHANGED <<content, active, rotated, lastId>> /\ UNCHANGED verifierVars
      BY <2>6 DEF readerVars, vars
    <3> QED BY <2>3, <3>1 DEF verifierVars, ReaderInv, Inodes, Rotations, Rest, Base, TailHash, Named
  <2> QED BY <2>4, <2>5, <2>6
<1> QED BY <1>1, <1>2 DEF ReaderUntilCrash, Undisturbed

\* As long as no rotation takes the active file from under it, a verification
\* beside the writers succeeds and counts every record that was on disk when it
\* began (audit.py:326-356).
THEOREM VerdictIsRight ==
    ASSUME SingleInstance
    PROVE  ReaderSpec => []VerdictStands
<1>1. Init /\ VerifierInit => ReaderUntilCrash
  BY OrderUntilCrashBegins DEF VerifierInit, ReaderUntilCrash, Undisturbed, ReaderInv
<1>2. ReaderUntilCrash /\ [Beside \/ Verifier]_readerVars => ReaderUntilCrash'
  BY ReaderStep
<1>3. ReaderUntilCrash => VerdictStands
  <2> SUFFICES ASSUME ReaderUntilCrash, vpc = "done", crashes = 0, ~renamed
               PROVE  verdict = "ok" /\ vcount >= Cardinality(due)
    BY DEF VerdictStands
  <2>1. verdict = "ok" /\ due \subseteq 1..vcount
    BY DEF ReaderUntilCrash, Undisturbed, ReaderInv
  <2>2. vcount \in Nat
    BY DEF ReaderUntilCrash, Undisturbed, ReaderInv
  <2>3. IsFiniteSet(1..vcount) /\ Cardinality(1..vcount) = vcount
    BY <2>2, FS_Interval
  <2>4. Cardinality(due) <= Cardinality(1..vcount)
    BY <2>1, <2>3, FS_Subset
  <2>5. Cardinality(due) \in Nat
    BY <2>1, <2>3, FS_Subset, FS_CardinalityType
  <2> QED BY <2>1, <2>2, <2>3, <2>4, <2>5
<1> QED BY <1>1, <1>2, <1>3, PTL DEF ReaderSpec

-----------------------------------------------------------------------------
(* The first file, whatever the number of processes, and whoever dies.       *)

Stays(u) == pc'[u] = pc[u] /\ fh'[u] = fh[u] /\ prev'[u] = prev[u] /\ seq'[u] = seq[u]

\* Threads that do not move know what they knew.
LEMMA FirstKept ==
    ASSUME FirstFileInv, 1 \in Inodes', content'[1] = content[1],
           rotated' = <<>> => rotated = <<>> /\ active' = active /\ Len(content') = Len(content),
           active' = 1 => active = 1,
           NEW T \in SUBSET Threads,
           \A u \in Threads \ T : Stays(u) /\ (lock[1] = u => lock'[1] = u),
           \A u \in T : AtFirst(u)'
    PROVE  FirstFileInv'
<1>1. FirstLines'
  BY DEF FirstFileInv, FirstLines, Cited
<1>2. ASSUME NEW u \in Threads \ T PROVE AtFirst(u)'
  <2>1. AtFirst(u)
    BY DEF FirstFileInv
  <2>2. Stays(u) /\ (lock[1] = u => lock'[1] = u)
    OBVIOUS
  <2>3. rotated # <<>> => rotated' # <<>>
    OBVIOUS
  <2> QED BY <2>1, <2>2, <2>3 DEF Stays, AtFirst, TailHash, TailSeq
<1> QED BY <1>1, <1>2 DEF FirstFileInv

\* One thread moves.
LEMMA FirstKeptBy ==
    ASSUME FirstFileInv, 1 \in Inodes', content'[1] = content[1],
           rotated' = <<>> => rotated = <<>> /\ active' = active /\ Len(content') = Len(content),
           active' = 1 => active = 1,
           NEW t \in Threads, AtFirst(t)',
           \A u \in Threads \ {t} : Stays(u),
           \A u \in Threads \ {t} : lock[1] = u => lock'[1] = u
    PROVE  FirstFileInv'
<1> DEFINE T == {t}
<1>1. /\ T \in SUBSET Threads /\ \A u \in T : AtFirst(u)'
      /\ \A u \in Threads \ T : Stays(u) /\ (lock[1] = u => lock'[1] = u)
  OBVIOUS
<1> HIDE DEF T
<1> QED BY <1>1, FirstKept

LEMMA LockTypes ==
    ASSUME TypeOK
    PROVE  /\ DOMAIN lock = Inodes /\ \A i \in Inodes : lock[i] \in Threads \cup {None}
           /\ lock \in Seq(Threads \cup {None}) /\ Len(lock) = Len(content)
  BY ElementOfSeq, LenProperties DEF TypeOK, LocksOK, Inodes

\* Steps of a thread that do not touch the files.
LEMMA AsideFirst ==
    ASSUME TypeOK, FirstFileInv, NEW t \in Threads,
           \/ Call(t) \/ Acquire(t) \/ Flock(t) \/ ReadTail(t)
           \/ Enqueue(t) \/ Anchor(t) \/ NoForwarder(t)
    PROVE  FirstFileInv'
<1>1. UNCHANGED <<content, active, rotated>> /\ 1 \in Inodes'
  BY DEF Call, Acquire, Flock, ReadTail, Enqueue, Anchor, NoForwarder, FirstFileInv, Inodes
<1>2. \A u \in Threads \ {t} : Stays(u)
  BY DEF Call, Acquire, Flock, ReadTail, Enqueue, Anchor, NoForwarder, Return, Forget, locals,
         TypeOK, ThreadsOK, Stays
<1>3. CASE Flock(t)
  <2>1. pc'[t] = "tail" /\ fh'[t] = fh[t] /\ fh[t] \in Inodes
    BY <1>3 DEF Flock, locals, TypeOK, ThreadsOK
  <2>2. lock' = [lock EXCEPT ![fh[t]] = t] /\ lock[fh[t]] = None
    BY <1>3 DEF Flock, FlockFree
  <2>3. 1 \in DOMAIN lock
    BY LockTypes DEF FirstFileInv
  <2>4. AtFirst(t)'
    BY <2>1, <2>2, <2>3 DEF AtFirst
  <2>5. \A u \in Threads \ {t} : lock[1] = u => lock'[1] = u
    BY <2>1, <2>2, <2>3
  <2> QED BY <1>1, <1>2, <2>4, <2>5, FirstKeptBy
<1>4. CASE ReadTail(t)
  <2>1. pc[t] = "tail" /\ pc'[t] = "append" /\ fh'[t] = fh[t] /\ lock' = lock
    BY <1>4 DEF ReadTail, TypeOK, ThreadsOK
  <2>2. prev'[t] = TailHash(content[fh[t]]) /\ seq'[t] = TailSeq(content[fh[t]]) + 1
    BY <1>4 DEF ReadTail, TypeOK, ThreadsOK
  <2>3. AtFirst(t)'
    BY <1>1, <2>1, <2>2 DEF AtFirst, FirstFileInv, TailHash, TailSeq
  <2> QED BY <1>1, <1>2, <2>1, <2>3, FirstKeptBy
<1>5. CASE Call(t) \/ Acquire(t) \/ Enqueue(t) \/ Anchor(t) \/ NoForwarder(t)
  <2>1. pc'[t] \in {"acquire", "open", "idle", "anchor"}
    BY <1>5 DEF Call, Acquire, Enqueue, Anchor, NoForwarder, Return, TypeOK, ThreadsOK
  <2>2. AtFirst(t)'
    BY <2>1 DEF AtFirst
  <2>3. lock' = lock
    BY <1>5 DEF Call, Acquire, Enqueue, Anchor, NoForwarder
  <2> QED BY <1>1, <1>2, <2>2, <2>3, FirstKeptBy
<1> QED BY <1>3, <1>4, <1>5

\* A path that is opened is that of the first file only if it was before.
LEMMA OpenFirst ==
    ASSUME TypeOK, FirstFileInv, OpenOrCreate
    PROVE  /\ 1 \in Inodes' /\ content'[1] = content[1] /\ lock'[1] = lock[1]
           /\ active' = 1 => active = 1
           /\ rotated = <<>> => active' = active /\ Len(content') = Len(content)
<1>1. CASE active # NoFile
  BY <1>1 DEF OpenOrCreate, FirstFileInv, Inodes
<1>2. CASE active = NoFile
  <2>1. /\ Inodes' = Inodes \cup {Len(content) + 1} /\ Len(content) \in Nat
        /\ \A j \in Inodes : content'[j] = content[j]
    BY <1>2, NewFile DEF OpenOrCreate
  <2>2. 1 \in Inodes /\ active' = Len(content) + 1 /\ active' # 1
    BY <1>2, <2>1 DEF OpenOrCreate, FirstFileInv, Inodes
  <2>3. lock'[1] = lock[1]
    <3>1. lock' = Append(lock, None)
      BY <1>2 DEF OpenOrCreate
    <3>2. \A i \in 1..Len(lock) : Append(lock, None)[i] = lock[i]
      BY LockTypes, Extend
    <3> QED BY <2>2, <3>1, <3>2, LockTypes DEF Inodes
  <2> QED BY <1>2, <2>1, <2>2, <2>3 DEF FirstFileInv
<1> QED BY <1>1, <1>2

LEMMA OpeningFirst ==
    ASSUME TypeOK, FirstFileInv, NEW t \in Threads, Open(t) \/ RotateTouch(t)
    PROVE  FirstFileInv'
<1>1. OpenOrCreate /\ rotated' = rotated
  BY DEF Open, RotateTouch
<1>2. \A u \in Threads \ {t} : Stays(u)
  BY DEF Open, RotateTouch, locals, TypeOK, ThreadsOK, Stays
<1>3. CASE Open(t)
  <2>1. pc'[t] = "flock"
    BY <1>3 DEF Open, TypeOK, ThreadsOK
  <2>2. AtFirst(t)'
    BY <2>1 DEF AtFirst
  <2> QED BY <1>1, <1>2, <2>2, OpenFirst, FirstKeptBy
<1>4. CASE RotateTouch(t)
  <2>1. pc[t] = "touch" /\ pc'[t] = "truncate"
    BY <1>4 DEF RotateTouch, TypeOK, ThreadsOK
  <2>2. AtFirst(t)'
    BY <1>1, <2>1, OpenFirst DEF AtFirst, FirstFileInv
  <2> QED BY <1>1, <1>2, <2>2, OpenFirst, FirstKeptBy
<1> QED BY <1>3, <1>4

\* A record is appended to the first file under its flock only.
LEMMA AppendFirst ==
    ASSUME TypeOK, FirstFileInv, NEW t \in Threads, AppendRecord(t)
    PROVE  /\ FirstFileInv'
           /\ fh[t] # 1 => content'[1] = content[1]
           /\ fh[t] = 1 =>
                /\ Len(content[1]) \in Nat /\ Len(content'[1]) = Len(content[1]) + 1
                /\ \A k \in 1..Len(content[1]) : content'[1][k] = content[1][k]
                /\ content'[1][Len(content[1]) + 1] =
                      [id |-> lastId + 1, prev |-> prev[t], seq |-> seq[t], by |-> ProcOf[t]]
                /\ seq[t] = Len(content[1]) + 1
<1> DEFINE r == [id |-> lastId + 1, prev |-> prev[t], seq |-> seq[t], by |-> ProcOf[t]]
           f == fh[t]
<1>1. /\ r \in Record /\ r.prev = prev[t] /\ r.seq = seq[t]
      /\ f \in Inodes /\ 1 \in Inodes /\ pc[t] = "append"
  BY DEF Record, TypeOK, ThreadsOK, CountsOK, AppendRecord, FirstFileInv
<1>2. /\ content' = [content EXCEPT ![f] = Append(content[f], r)]
      /\ lock' = [lock EXCEPT ![f] = None] /\ UNCHANGED <<active, rotated>>
  BY DEF AppendRecord
<1>3. \A u \in Threads \ {t} : Stays(u)
  BY DEF AppendRecord, Leave, TypeOK, ThreadsOK, Stays
<1>4. AtFirst(t)'
  <2>1. pc'[t] \in {"head", "enqueue"}
    BY DEF AppendRecord, Leave, TypeOK, ThreadsOK
  <2> QED BY <2>1 DEF AtFirst
<1>5. /\ content[1] \in Seq(Record) /\ Len(content[1]) \in Nat
      /\ 1 \in DOMAIN content /\ 1 \in DOMAIN lock /\ DOMAIN content = Inodes
  BY <1>1, FileTypes, LockTypes
<1> HIDE DEF r, f
<1>6. Inodes' = Inodes /\ Len(content') = Len(content)
  <2>1. content \in Seq(Seq(Record)) /\ Append(content[f], r) \in Seq(Record)
    <3>1. content[f] \in Seq(Record)
      BY <1>1, FileTypes
    <3> QED BY <1>1, <3>1, Extend DEF TypeOK, DiskOK
  <2> QED BY <1>2, <2>1, UpdateSeq DEF Inodes
<1>7. CASE f # 1
  <2>1. content'[1] = content[1] /\ lock'[1] = lock[1]
    BY <1>2, <1>5, <1>7
  <2>2. FirstFileInv'
    BY <1>1, <1>2, <1>3, <1>4, <1>6, <2>1, FirstKeptBy
  <2> QED BY <1>7, <2>1, <2>2 DEF f
<1>8. CASE f = 1
  <2>1. /\ lock[1] = t /\ prev[t] = TailHash(content[1]) /\ seq[t] = TailSeq(content[1]) + 1
    BY <1>1, <1>8 DEF f, FirstFileInv, AtFirst
  <2>2. content'[1] = Append(content[1], r)
    BY <1>2, <1>5, <1>8
  <2>3. /\ Len(content'[1]) = Len(content[1]) + 1
        /\ \A k \in 1..Len(content[1]) : content'[1][k] = content[1][k]
        /\ content'[1][Len(content[1]) + 1] = r
    BY <1>1, <1>5, <2>2, Extend
  <2>4. content[1] = <<>> <=> Len(content[1]) = 0
    BY <1>5, EmptySeq
  <2>5. TailSeq(content[1]) = Len(content[1])
    <3>1. CASE content[1] = <<>>
      BY <2>4, <3>1 DEF TailSeq
    <3>2. CASE content[1] # <<>>
      <4>1. Len(content[1]) \in 1..Len(content[1])
        BY <1>5, <2>4, <3>2
      <4> QED BY <3>2, <4>1 DEF TailSeq, FirstFileInv, FirstLines
    <3> QED BY <3>1, <3>2
  <2>6. ASSUME NEW k \in 1..Len(content'[1])
        PROVE  content'[1][k].prev = Cited(content'[1], k, GENESIS) /\ content'[1][k].seq = k
    <3>1. CASE k \in 1..Len(content[1])
      <4>1. k # 1 => k - 1 \in 1..Len(content[1])
        BY <1>5, <3>1
      <4> QED BY <2>3, <3>1, <4>1 DEF FirstFileInv, FirstLines, Cited
    <3>2. CASE k = Len(content[1]) + 1
      <4>1. content[1] = <<>> => k = 1
        BY <2>4, <3>2
      <4>2. content[1] # <<>> => k # 1 /\ k - 1 = Len(content[1]) /\ k - 1 \in 1..Len(content[1])
        BY <1>5, <2>4, <3>2
      <4> QED BY <1>1, <2>1, <2>3, <2>5, <3>2, <4>1, <4>2 DEF Cited, TailHash
    <3> QED BY <1>5, <2>3, <3>1, <3>2
  <2>7. FirstLines'
    BY <2>6 DEF FirstLines, Cited
  <2>8. ASSUME NEW u \in Threads \ {t} PROVE AtFirst(u)'
    <3>1. AtFirst(u) /\ lock[1] # u
      BY <2>1 DEF FirstFileInv
    <3>2. Stays(u)
      BY <1>3
    <3> QED BY <1>2, <3>1, <3>2 DEF AtFirst, Stays
  <2>9. FirstFileInv'
    BY <1>1, <1>2, <1>4, <1>6, <2>7, <2>8 DEF FirstFileInv
  <2> QED BY <1>5, <1>8, <2>1, <2>3, <2>5, <2>9 DEF f, r
<1> QED BY <1>7, <1>8

\* The other steps leave the first file as it is.
LEMMA RaiseFirst ==
    ASSUME TypeOK, FirstFileInv, NEW t \in Threads, TailTorn(t) \/ RotateFails(t)
    PROVE  FirstFileInv'
<1>1. Raise(t)
  BY DEF TailTorn, RotateFails
<1>2. pc'[t] = "idle" /\ UNCHANGED <<content, active, rotated>> /\ 1 \in Inodes'
  BY <1>1 DEF Raise, Leave, TypeOK, ThreadsOK, FirstFileInv, Inodes
<1>3. \A u \in Threads \ {t} : Stays(u)
  BY <1>1 DEF Raise, Leave, Forget, TypeOK, ThreadsOK, Stays
<1>4. lock' = [i \in DOMAIN lock |-> IF lock[i] = t THEN None ELSE lock[i]]
  BY <1>1, LenProperties DEF Raise, TypeOK, LocksOK
<1>5. \A u \in Threads \ {t} : lock[1] = u => lock'[1] = u
  BY <1>4, LockTypes DEF FirstFileInv
<1>6. AtFirst(t)'
  BY <1>2 DEF AtFirst
<1> QED BY <1>2, <1>3, <1>5, <1>6, FirstKeptBy

LEMMA RotateFirst ==
    ASSUME TypeOK, FirstFileInv, NEW t \in Threads,
           RotateHead(t) \/ RotateReplace(t) \/ RotateTruncate(t) \/ RotateMarker(t)
    PROVE  FirstFileInv' /\ content'[1] = content[1] /\ (rotated' = <<>> => rotated = <<>>)
<1>1. \A u \in Threads \ {t} : Stays(u)
  BY DEF RotateHead, RotateReplace, RotateTruncate, RotateMarker, Leave, locals, TypeOK, ThreadsOK, Stays
<1>2. 1 \in Inodes /\ AtFirst(t) /\ Len(rotated) \in Nat /\ Len(content) \in Nat
  BY FileTypes DEF FirstFileInv
<1>3. CASE RotateHead(t)
  <2>1. rotated' # <<>>
    <3>1. rotated \in Seq(Inodes \cup {NoFile}) /\ NoFile \in Inodes \cup {NoFile}
      BY DEF TypeOK, DiskOK
    <3>2. rotated' = Append(rotated, NoFile)
      BY <1>3 DEF RotateHead
    <3>3. rotated' \in Seq(Inodes \cup {NoFile}) /\ Len(rotated') = Len(rotated) + 1
      BY <3>1, <3>2, Extend
    <3> QED BY <1>2, <3>3, EmptySeq
  <2>2. pc'[t] = "replace" /\ UNCHANGED <<content, active, lock>>
    BY <1>3 DEF RotateHead, TypeOK, ThreadsOK
  <2>3. AtFirst(t)'
    BY <2>1, <2>2 DEF AtFirst
  <2> QED BY <1>1, <1>2, <2>1, <2>2, <2>3, FirstKeptBy DEF Inodes
<1>4. CASE RotateReplace(t)
  <2>1. pc[t] = "replace" /\ pc'[t] = "touch" /\ active' = NoFile /\ UNCHANGED <<content, lock>>
    BY <1>4 DEF RotateReplace, TypeOK, ThreadsOK
  <2>2. rotated' # <<>>
    <3>1. rotated # <<>> /\ rotated \in Seq(Inodes \cup {NoFile})
      BY <1>2, <2>1 DEF AtFirst, TypeOK, DiskOK
    <3>2. rotated' = [rotated EXCEPT ![slot[t]] = active] /\ active \in Inodes \cup {NoFile}
      BY <1>4 DEF RotateReplace, TypeOK, DiskOK
    <3>3. rotated' \in Seq(Inodes \cup {NoFile}) /\ Len(rotated') = Len(rotated)
      BY <3>1, <3>2, UpdateSeq
    <3> QED BY <3>1, <3>3, EmptySeq
  <2>3. AtFirst(t)'
    BY <2>1, <2>2 DEF AtFirst
  <2> QED BY <1>1, <1>2, <2>1, <2>2, <2>3, FirstKeptBy DEF Inodes
<1>5. CASE RotateTruncate(t)
  <2>1. pc[t] = "truncate" /\ pc'[t] = "marker" /\ active # 1 /\ fh'[t] = active' /\ rotated' = rotated
    BY <1>2, <1>5 DEF RotateTruncate, AtFirst, TypeOK, ThreadsOK
  <2>2. /\ 1 \in Inodes' /\ content'[1] = content[1] /\ lock'[1] = lock[1] /\ active' # 1
    <3>1. CASE active = NoFile
      <4>1. OpenOrCreate
        BY <1>5, <3>1 DEF RotateTruncate, OpenOrCreate
      <4> QED BY <2>1, <4>1, OpenFirst
    <3>2. CASE active # NoFile
      <4>1. content' = [content EXCEPT ![active] = <<>>] /\ UNCHANGED <<active, lock>>
        BY <1>5, <3>2 DEF RotateTruncate
      <4>2. Len(content') = Len(content)
        BY <4>1, UpdateSeq, EmptySeq DEF TypeOK, DiskOK
      <4> QED BY <1>2, <2>1, <4>1, <4>2, FileTypes DEF Inodes
    <3> QED BY <3>1, <3>2
  <2>3. rotated' # <<>>
    BY <1>2, <2>1 DEF AtFirst
  <2>4. AtFirst(t)'
    BY <2>1, <2>2, <2>3 DEF AtFirst
  <2> QED BY <1>1, <2>2, <2>3, <2>4, FirstKeptBy
<1>6. CASE RotateMarker(t)
  <2> DEFINE r == [id |-> lastId + 1, prev |-> prev[t], seq |-> 0, by |-> ProcOf[t]]
             f == fh[t]
             lines == IF content[f] = <<>> THEN <<r>> ELSE [content[f] EXCEPT ![1] = r]
  <2>1. pc[t] = "marker" /\ f # 1 /\ rotated # <<>> /\ f \in Inodes
    BY <1>2, <1>6 DEF RotateMarker, AtFirst, TypeOK, ThreadsOK
  <2>2. content' = [content EXCEPT ![f] = lines] /\ UNCHANGED <<active, rotated, lock>>
    BY <1>6 DEF RotateMarker
  <2>3. pc'[t] = "enqueue"
    BY <1>6 DEF RotateMarker, Leave, TypeOK, ThreadsOK
  <2> HIDE DEF f, lines
  <2>4. content'[1] = content[1]
    BY <1>2, <2>1, <2>2, FileTypes
  <2>5. 1 \in Inodes'
    <3>1. TypeOK'
      BY <1>6, RotateTypes
    <3>2. DOMAIN content' = DOMAIN content
      BY <2>2
    <3> QED BY <1>2, <3>1, <3>2, FileTypes, LenProperties DEF Inodes, TypeOK, DiskOK
  <2>6. AtFirst(t)'
    BY <2>3 DEF AtFirst
  <2> QED BY <1>1, <2>1, <2>2, <2>4, <2>5, <2>6, FirstKeptBy
<1> QED BY <1>3, <1>4, <1>5, <1>6

LEMMA CrashFirst ==
    ASSUME TypeOK, FirstFileInv, NEW p \in Procs, Crash(p)
    PROVE  FirstFileInv'
<1> DEFINE mine == {t \in Threads : ProcOf[t] = p}
<1>1. /\ UNCHANGED <<content, active, rotated>> /\ 1 \in Inodes'
      /\ lock' = [i \in 1..Len(lock) |-> IF lock[i] \in mine THEN None ELSE lock[i]]
      /\ \A u \in mine : pc'[u] = "idle"
  BY DEF Crash, FirstFileInv, Inodes
<1>2. \A u \in Threads \ mine : Stays(u)
  BY DEF Crash, Forget, Stays
<1>3. 1 \in 1..Len(lock)
  BY LockTypes DEF FirstFileInv, Inodes
<1>4. \A u \in Threads \ mine : Stays(u) /\ (lock[1] = u => lock'[1] = u)
  BY <1>1, <1>2, <1>3
<1>5. \A u \in mine : AtFirst(u)'
  BY <1>1 DEF AtFirst
<1>6. mine \in SUBSET Threads
  OBVIOUS
<1> HIDE DEF mine
<1> QED BY <1>1, <1>4, <1>5, <1>6, FirstKept

LEMMA RestartFirst ==
    ASSUME TypeOK, FirstFileInv, NEW p \in Procs, Restart(p)
    PROVE  FirstFileInv' /\ content'[1] = content[1]
<1> DEFINE none == {}
<1>1. OpenOrCreate /\ rotated' = rotated
  BY DEF Restart
<1>2. lock'[1] = lock[1]
  BY <1>1, OpenFirst
<1>3. /\ none \in SUBSET Threads /\ \A u \in none : AtFirst(u)'
      /\ \A u \in Threads \ none : Stays(u) /\ (lock[1] = u => lock'[1] = u)
  BY <1>2 DEF Restart, locals, Stays
<1> HIDE DEF none
<1> QED BY <1>1, <1>3, OpenFirst, FirstKept

LEMMA FirstStep ==
    ASSUME TypeOK, FirstFileInv, [CrashNext]_vars
    PROVE  FirstFileInv'
<1>1. CASE UNCHANGED vars
  BY <1>1 DEF vars, FirstFileInv, FirstLines, AtFirst, Inodes, Cited, TailHash, TailSeq
<1>2. ASSUME NEW t \in Threads, Call(t) \/ Step(t) PROVE FirstFileInv'
  BY <1>2, AsideFirst, OpeningFirst, AppendFirst, RaiseFirst, RotateFirst DEF Step
<1>3. ASSUME NEW p \in Procs, Crash(p) \/ Restart(p) PROVE FirstFileInv'
  BY <1>3, CrashFirst, RestartFirst
<1> QED BY <1>1, <1>2, <1>3 DEF CrashNext, Next, Finished

LEMMA FirstBegins == Init => FirstFileInv
<1> SUFFICES ASSUME Init PROVE FirstFileInv
  OBVIOUS
<1>1. content[1] = <<>> /\ active = 1 /\ Inodes = 1..1 /\ Len(content) = 1
  BY DEF Init, Inodes
<1>2. FirstLines
  BY <1>1, EmptySeq DEF FirstLines
<1> QED BY <1>1, <1>2 DEF Init, FirstFileInv, AtFirst

LEMMA FirstAlways == CrashSpec => [](TypeOK /\ FirstFileInv)
<1>1. TypeOK /\ FirstFileInv /\ [CrashNext]_vars => (TypeOK /\ FirstFileInv)'
  BY TypeStep, FirstStep
<1> QED BY <1>1, TypeInit, FirstBegins, PTL DEF CrashSpec

\* Before the first rotation the only file is the first one, which verify walks
\* from GENESIS to its last line.
LEMMA FirstFileVerifies ==
    ASSUME TypeOK, FirstFileInv, rotated = <<>>, torn = {}
    PROVE  VerifyOk /\ VerifyHead = ChainHead
<1> DEFINE first == content[1]
<1>1. /\ active = 1 /\ Len(rotated) = 0 /\ DOMAIN rotated = {} /\ FirstLines
      /\ Len(first) \in Nat /\ DOMAIN first = 1..Len(first)
      /\ first = <<>> <=> Len(first) = 0
  BY FileTypes, EmptySeq DEF FirstFileInv
<1>2. Places = {1} /\ FileAt(1) = 1 /\ Lines(1) = first
  BY <1>1 DEF Places, FileAt, Lines
<1>3. Before(1) = {} /\ PrevAt(1) = GENESIS
  BY <1>2 DEF Before, PrevAt
<1> HIDE DEF first
<1>4. Linked(first, GENESIS)
  BY <1>1 DEF first, Linked, FirstLines
<1>5. VerifyOk
  BY <1>2, <1>3, <1>4 DEF VerifyOk, Readable, LinksUnbroken
<1>6. ChainHead = TailHash(first)
  BY <1>1 DEF ChainHead, TailHash, first
<1>7. CASE first = <<>>
  <2>1. Before(2) = {}
    BY <1>2, <1>7 DEF Before
  <2> QED BY <1>1, <1>5, <1>6, <1>7, <2>1 DEF VerifyHead, PrevAt, TailHash
<1>8. CASE first # <<>>
  <2>1. Before(2) = {1}
    BY <1>2, <1>8 DEF Before
  <2>2. Max(Before(2)) = 1
    <3>1. {1} \in SUBSET Nat /\ 1 \in {1} /\ \A x \in {1} : x <= 1
      OBVIOUS
    <3> QED BY <2>1, <3>1, MaxIs
  <2>3. PrevAt(2) = Through(first, GENESIS)
    BY <1>2, <2>1, <2>2 DEF PrevAt
  <2>4. Through(first, GENESIS) = TailHash(first)
    BY <1>1, <1>8 DEF Through, Cited, TailHash
  <2> QED BY <1>1, <1>5, <1>6, <2>3, <2>4 DEF VerifyHead
<1> QED BY <1>7, <1>8

\* Any number of processes share one chain until a rotation begins or a record is
\* cut short: the flock alone keeps the appends apart (audit.py:20-21).
THEOREM ProcessesShareChain == CrashSpec => []VerifiesBelowRotation
<1>1. TypeOK /\ FirstFileInv => VerifiesBelowRotation
  BY FirstFileVerifies DEF VerifiesBelowRotation
<1> QED BY <1>1, FirstAlways, PTL

-----------------------------------------------------------------------------
(* The anchors of the first file, whatever the number of processes.          *)

\* The call of u may have a record to anchor.
Due(u) == pc[u] \in {"enqueue", "anchor"}

LEMMA SomeMultiple ==
    ASSUME NEW A \in Nat \ {0}, NEW k \in Nat
    PROVE  \E j \in k..(k + A - 1) : j % A = 0
<1> DEFINE r == (k + A - 1) % A
           q == (k + A - 1) \div A
           j == q * A
<1>1. k + A - 1 = A * q + r /\ 0 <= r /\ r < A /\ q \in Int
  OBVIOUS
<1>2. j % A = 0
  <2>1. q \in Int
    BY <1>1
  <2> HIDE DEF q
  <2> QED BY <2>1
<1>3. j \in k..(k + A - 1)
  <2>1. q \in Int /\ j = A * q /\ r \in Int
    BY <1>1
  <2>2. j \in Int
    BY <2>1
  <2> HIDE DEF q, r, j
  <2> QED BY <1>1, <2>1, <2>2
<1> QED BY <1>2, <1>3

\* An anchor stays due until it is spooled.
LEMMA AnchorKept ==
    ASSUME AnchorInv, content'[1] = content[1], Spooled("anchor") \subseteq Spooled("anchor")',
           \A u \in Threads : Due(u) =>
               \/ Due(u)' /\ own'[u] = own[u] /\ seq'[u] = seq[u]
               \/ ProcOf[u] \notin Forwarding \/ seq[u] % AnchorEvery # 0
               \/ own[u] \in Spooled("anchor")'
    PROVE  AnchorInv'
<1> SUFFICES ASSUME NEW j \in Unrotated, content[1][j].by \in Forwarding, j % AnchorEvery = 0
             PROVE  Anchored(j)'
  BY DEF AnchorInv, Unrotated
<1>1. Anchored(j)
  BY DEF AnchorInv
<1> QED BY <1>1 DEF Anchored, Due

\* Steps before the record is written.
LEMMA BeforeAnchor ==
    ASSUME TypeOK, FirstFileInv, AnchorInv, NEW t \in Threads,
           \/ Call(t) \/ Acquire(t) \/ Open(t) \/ Flock(t) \/ ReadTail(t) \/ TailTorn(t)
           \/ RotateHead(t) \/ RotateReplace(t) \/ RotateFails(t) \/ RotateTouch(t)
           \/ RotateTruncate(t) \/ RotateMarker(t)
    PROVE  AnchorInv'
<1>1. content'[1] = content[1]
  <2>1. CASE Open(t) \/ RotateTouch(t)
    BY <2>1, OpenFirst DEF Open, RotateTouch
  <2>2. CASE RotateHead(t) \/ RotateReplace(t) \/ RotateTruncate(t) \/ RotateMarker(t)
    BY <2>2, RotateFirst
  <2>3. CASE Call(t) \/ Acquire(t) \/ Flock(t) \/ ReadTail(t) \/ TailTorn(t) \/ RotateFails(t)
    BY <2>3 DEF Call, Acquire, Flock, ReadTail, TailTorn, RotateFails, Raise
  <2> QED BY <2>1, <2>2, <2>3
<1>2. spool' = spool
  BY DEF Call, Acquire, Open, Flock, ReadTail, TailTorn, RotateHead, RotateReplace, RotateFails,
         RotateTouch, RotateTruncate, RotateMarker, Raise
<1>3. ~Due(t)
  BY DEF Call, Acquire, Open, Flock, ReadTail, TailTorn, RotateHead, RotateReplace, RotateFails,
         RotateTouch, RotateTruncate, RotateMarker, Due
<1>4. \A u \in Threads \ {t} : pc'[u] = pc[u] /\ own'[u] = own[u] /\ seq'[u] = seq[u]
  <2>1. CASE TailTorn(t) \/ RotateFails(t)
    BY <2>1 DEF TailTorn, RotateFails, Raise, Leave, Forget, TypeOK, ThreadsOK
  <2>2. CASE ~(TailTorn(t) \/ RotateFails(t))
    BY <2>2 DEF Call, Acquire, Open, Flock, ReadTail, RotateHead, RotateReplace, RotateTouch,
           RotateTruncate, RotateMarker, Leave, locals, TypeOK, ThreadsOK
  <2> QED BY <2>1, <2>2
<1>5. \A u \in Threads : Due(u) => Due(u)' /\ own'[u] = own[u] /\ seq'[u] = seq[u]
  BY <1>3, <1>4 DEF Due
<1> QED BY <1>1, <1>2, <1>5, AnchorKept DEF Spooled

\* The record that is due for an anchor is with the thread that wrote it.
LEMMA AppendAnchor ==
    ASSUME TypeOK, FirstFileInv, AnchorInv, NEW t \in Threads, AppendRecord(t)
    PROVE  AnchorInv'
<1>1. spool' = spool /\ pc[t] = "append"
  BY DEF AppendRecord
<1>2. \A u \in Threads \ {t} : pc'[u] = pc[u] /\ own'[u] = own[u] /\ seq'[u] = seq[u]
  BY DEF AppendRecord, Leave, TypeOK, ThreadsOK
<1>3. ~Due(t)
  BY <1>1 DEF Due
<1>4. CASE fh[t] # 1
  <2>1. content'[1] = content[1]
    BY <1>4, AppendFirst
  <2>2. \A u \in Threads : Due(u) => Due(u)' /\ own'[u] = own[u] /\ seq'[u] = seq[u]
    BY <1>2, <1>3 DEF Due
  <2> QED BY <1>1, <2>1, <2>2, AnchorKept DEF Spooled
<1>5. CASE fh[t] = 1
  <2> DEFINE n == Len(content[1]) + 1
             r == [id |-> lastId + 1, prev |-> prev[t], seq |-> seq[t], by |-> ProcOf[t]]
  <2>1. /\ Len(content[1]) \in Nat /\ Len(content'[1]) = n
        /\ \A k \in 1..Len(content[1]) : content'[1][k] = content[1][k]
        /\ content'[1][n] = r /\ seq[t] = n
    BY <1>5, AppendFirst
  <2>2. r.id = lastId + 1 /\ r.by = ProcOf[t]
    OBVIOUS
  <2>3. own'[t] = lastId + 1 /\ seq'[t] = seq[t] /\ (n < RotateAt => pc'[t] = "enqueue")
    BY <1>5, <2>1 DEF AppendRecord, Leave, TypeOK, ThreadsOK
  <2>4. DOMAIN content[1] = 1..Len(content[1]) /\ DOMAIN content'[1] = 1..n
    <3>1. TypeOK'
      BY WriteTypes
    <3>2. FirstFileInv'
      BY AppendFirst
    <3> QED BY <2>1, <3>1, <3>2, FileTypes DEF FirstFileInv, TypeOK, DiskOK, Inodes
  <2> HIDE DEF n, r
  <2> SUFFICES ASSUME NEW j \in Unrotated', content'[1][j].by \in Forwarding, j % AnchorEvery = 0
               PROVE  Anchored(j)'
    BY DEF AnchorInv
  <2>5. CASE j = n
    <3>1. n < RotateAt
      BY <2>5 DEF Unrotated
    <3> QED BY <2>1, <2>2, <2>3, <2>5, <3>1 DEF Anchored
  <2>6. CASE j # n
    <3>1. j \in 1..Len(content[1]) /\ j < RotateAt
      BY <2>1, <2>4, <2>6 DEF Unrotated, n
    <3>2. j \in Unrotated /\ content'[1][j] = content[1][j]
      BY <2>1, <2>4, <3>1 DEF Unrotated
    <3>3. Anchored(j)
      BY <3>2 DEF AnchorInv
    <3> QED BY <1>1, <1>2, <3>2, <3>3 DEF Anchored, Spooled
  <2> QED BY <2>5, <2>6
<1> QED BY <1>4, <1>5

\* A call that hands over sends the anchor its record is due for.
LEMMA ReturnAnchor ==
    ASSUME TypeOK, FirstFileInv, AnchorInv, NEW t \in Threads,
           Enqueue(t) \/ Anchor(t) \/ NoForwarder(t)
    PROVE  AnchorInv'
<1>1. content' = content
  BY DEF Enqueue, Anchor, NoForwarder
<1>2. Spooled("anchor") \subseteq Spooled("anchor")'
  <2>1. CASE NoForwarder(t)
    BY <2>1 DEF NoForwarder, Spooled
  <2>2. CASE Enqueue(t) \/ Anchor(t)
    BY <2>2, PublishGrows DEF Enqueue, Anchor
  <2> QED BY <2>1, <2>2
<1>3. \A u \in Threads \ {t} : pc'[u] = pc[u] /\ own'[u] = own[u] /\ seq'[u] = seq[u]
  BY DEF Enqueue, Anchor, NoForwarder, Return, Forget, locals, TypeOK, ThreadsOK
<1>4. \/ Due(t)' /\ own'[t] = own[t] /\ seq'[t] = seq[t]
      \/ ProcOf[t] \notin Forwarding \/ seq[t] % AnchorEvery # 0
      \/ own[t] \in Spooled("anchor")'
  <2>1. CASE NoForwarder(t)
    BY <2>1 DEF NoForwarder
  <2>2. CASE Anchor(t)
    BY <2>2, PublishGrows DEF Anchor
  <2>3. CASE Enqueue(t) /\ seq[t] % AnchorEvery = 0
    BY <2>3 DEF Enqueue, Due, locals, TypeOK, ThreadsOK
  <2> QED BY <2>1, <2>2, <2>3
<1>5. \A u \in Threads : Due(u) =>
          \/ Due(u)' /\ own'[u] = own[u] /\ seq'[u] = seq[u]
          \/ ProcOf[u] \notin Forwarding \/ seq[u] % AnchorEvery # 0
          \/ own[u] \in Spooled("anchor")'
  BY <1>3, <1>4 DEF Due
<1> QED BY <1>1, <1>2, <1>5, AnchorKept

AnchoredUntilCrash == TypeOK /\ FirstFileInv /\ (crashes = 0 => AnchorInv)

LEMMA AnchorStep ==
    ASSUME AnchoredUntilCrash, [CrashNext]_vars
    PROVE  AnchoredUntilCrash'
<1>1. TypeOK' /\ FirstFileInv'
  BY TypeStep, FirstStep DEF AnchoredUntilCrash
<1>2. CASE UNCHANGED vars
  BY <1>1, <1>2 DEF vars, AnchoredUntilCrash, AnchorInv, Unrotated, Anchored, Spooled
<1>3. ASSUME NEW t \in Threads, Call(t) \/ Step(t) PROVE crashes' = crashes /\ (AnchorInv => AnchorInv')
  <2>1. crashes' = crashes
    BY <1>3, NextKeepsCrashes DEF Next
  <2>2. AnchorInv => AnchorInv'
    BY <1>3, BeforeAnchor, AppendAnchor, ReturnAnchor DEF Step, AnchoredUntilCrash
  <2> QED BY <2>1, <2>2
<1>4. ASSUME NEW p \in Procs, Crash(p) PROVE crashes' # 0
  BY <1>4 DEF Crash, AnchoredUntilCrash, TypeOK, CountsOK
<1>5. ASSUME NEW p \in Procs, Restart(p) PROVE crashes' = crashes /\ (AnchorInv => AnchorInv')
  <2>1. /\ UNCHANGED <<pc, own, seq, spool, crashes>> /\ content'[1] = content[1]
    BY <1>5, RestartFirst DEF Restart, locals, AnchoredUntilCrash
  <2> QED BY <2>1 DEF AnchorInv, Unrotated, Anchored, Spooled
<1> QED BY <1>1, <1>2, <1>3, <1>4, <1>5 DEF CrashNext, Next, Finished, AnchoredUntilCrash

\* A window of anchor_every records holds one whose anchor is due.
LEMMA AnchorsInWindows == AnchoredUntilCrash => AnchorCadence
<1> SUFFICES ASSUME TypeOK, FirstFileInv, AnchorInv, Quiet,
                    NEW k \in Unrotated, k + AnchorEvery - 1 \in Unrotated,
                    \A j \in k..(k + AnchorEvery - 1) : content[1][j].by \in Forwarding
             PROVE  \E j \in k..(k + AnchorEvery - 1) : content[1][j].id \in Spooled("anchor")
  BY DEF AnchoredUntilCrash, AnchorCadence
<1>1. DOMAIN content[1] = 1..Len(content[1]) /\ Len(content[1]) \in Nat
  BY FileTypes DEF FirstFileInv
<1>2. k \in Nat /\ k >= 1
  BY <1>1 DEF Unrotated
<1>3. PICK j \in k..(k + AnchorEvery - 1) : j % AnchorEvery = 0
  BY <1>2, SomeMultiple
<1>4. j \in Unrotated
  BY <1>1, <1>2 DEF Unrotated
<1>5. Anchored(j)
  BY <1>3, <1>4 DEF AnchorInv
<1>6. content[1][j].id \in Spooled("anchor")
  BY <1>5 DEF Anchored, Quiet
<1> QED BY <1>6

\* Whatever the processes that write the first file, among any anchor_every of
\* its records there is an anchor in the spool once their calls have returned
\* (audit.py:14-15).
THEOREM AnchorsKeepCadence == CrashSpec => []AnchorCadence
<1>1. Init => AnchoredUntilCrash
  <2> SUFFICES ASSUME Init PROVE AnchorInv
    BY TypeInit, FirstBegins DEF AnchoredUntilCrash
  <2>1. DOMAIN content[1] = {}
    BY EmptySeq DEF Init
  <2> QED BY <2>1 DEF AnchorInv, Unrotated
<1>2. AnchoredUntilCrash /\ [CrashNext]_vars => AnchoredUntilCrash'
  BY AnchorStep
<1> QED BY <1>1, <1>2, AnchorsInWindows, PTL DEF CrashSpec

-----------------------------------------------------------------------------
(* Until the first rotation, any number of processes implement AuditChain.   *)

FirstGrown ==
    \E r \in Record :
        /\ r.id = lastId + 1 /\ lastId' = lastId + 1
        /\ r.prev = TailHash(content[1]) /\ content'[1] = Append(content[1], r)

\* The first file is kept, or grows by a record that cites its last one.
LEMMA FirstGrows ==
    ASSUME TypeOK, FirstFileInv, [CrashNext]_vars
    PROVE  /\ rotated' = <<>> => rotated = <<>>
           /\ \/ content'[1] = content[1] /\ lastId' \in Nat /\ lastId <= lastId'
              \/ FirstGrown
<1> DEFINE Kept == content'[1] = content[1] /\ lastId' \in Nat /\ lastId <= lastId'
           Result == (rotated' = <<>> => rotated = <<>>) /\ (Kept \/ FirstGrown)
<1>0. lastId \in Nat
  BY DEF TypeOK, CountsOK
<1>1. CASE UNCHANGED vars
  BY <1>0, <1>1 DEF vars
<1>2. ASSUME NEW t \in Threads,
             \/ Call(t) \/ Acquire(t) \/ Flock(t) \/ ReadTail(t) \/ TailTorn(t) \/ RotateFails(t)
             \/ Enqueue(t) \/ Anchor(t) \/ NoForwarder(t)
      PROVE  Result
  BY <1>0, <1>2 DEF Call, Acquire, Flock, ReadTail, TailTorn, RotateFails, Raise, Enqueue, Anchor, NoForwarder
<1>3. ASSUME NEW t \in Threads, Open(t) \/ RotateTouch(t) PROVE Result
  BY <1>0, <1>3, OpenFirst DEF Open, RotateTouch
<1>4. ASSUME NEW t \in Threads,
             RotateHead(t) \/ RotateReplace(t) \/ RotateTruncate(t) \/ RotateMarker(t)
      PROVE  Result
  <2>1. lastId' = lastId \/ lastId' = lastId + 1
    BY <1>4 DEF RotateHead, RotateReplace, RotateTruncate, RotateMarker
  <2> QED BY <1>0, <1>4, <2>1, RotateFirst
<1>5. ASSUME NEW t \in Threads, AppendRecord(t) PROVE Result
  <2> DEFINE r == [id |-> lastId + 1, prev |-> prev[t], seq |-> seq[t], by |-> ProcOf[t]]
  <2>1. r \in Record /\ r.id = lastId + 1 /\ r.prev = prev[t]
    BY DEF Record, TypeOK, ThreadsOK, CountsOK
  <2>2. /\ rotated' = rotated /\ lastId' = lastId + 1 /\ pc[t] = "append"
        /\ content' = [content EXCEPT ![fh[t]] = Append(content[fh[t]], r)]
    BY <1>5 DEF AppendRecord
  <2>3. 1 \in DOMAIN content
    BY FileTypes DEF FirstFileInv
  <2> HIDE DEF r
  <2>4. CASE fh[t] = 1
    <3>1. prev[t] = TailHash(content[1])
      BY <2>2, <2>4 DEF FirstFileInv, AtFirst
    <3> QED BY <2>1, <2>2, <2>3, <2>4, <3>1 DEF FirstGrown
  <2>5. CASE fh[t] # 1
    BY <1>0, <2>2, <2>3, <2>5
  <2> QED BY <2>4, <2>5
<1>6. ASSUME NEW p \in Procs, Crash(p) \/ Restart(p) PROVE Result
  <2>1. CASE Crash(p)
    BY <1>0, <2>1 DEF Crash
  <2>2. CASE Restart(p)
    BY <1>0, <2>2, RestartFirst DEF Restart
  <2> QED BY <1>6, <2>1, <2>2
<1> QED BY <1>1, <1>2, <1>3, <1>4, <1>5, <1>6 DEF CrashNext, Next, Step, Finished

\* Identities are issued before they are written.
FirstIssued == \A k \in 1..Len(content[1]) : content[1][k].id \in 1..lastId

FirstGrowing == TypeOK /\ FirstFileInv /\ FirstIssued

LEMMA FirstGrowingAlways == CrashSpec => []FirstGrowing
<1>1. Init => FirstGrowing
  <2> SUFFICES ASSUME Init PROVE FirstIssued
    BY TypeInit, FirstBegins DEF FirstGrowing
  <2> QED BY EmptySeq DEF Init, FirstIssued
<1>2. FirstGrowing /\ [CrashNext]_vars => FirstGrowing'
  <2> SUFFICES ASSUME FirstGrowing, [CrashNext]_vars PROVE FirstIssued'
    BY TypeStep, FirstStep DEF FirstGrowing
  <2>1. lastId \in Nat /\ content[1] \in Seq(Record) /\ Len(content[1]) \in Nat
    BY FileTypes DEF FirstGrowing, FirstFileInv, TypeOK, CountsOK
  <2>2. CASE content'[1] = content[1] /\ lastId' \in Nat /\ lastId <= lastId'
    BY <2>1, <2>2 DEF FirstGrowing, FirstIssued
  <2>3. CASE FirstGrown
    <3>1. PICK r \in Record : /\ r.id = lastId + 1 /\ lastId' = lastId + 1
                              /\ content'[1] = Append(content[1], r)
      BY <2>3 DEF FirstGrown
    <3>2. /\ Len(content'[1]) = Len(content[1]) + 1 /\ content'[1][Len(content[1]) + 1] = r
          /\ \A k \in 1..Len(content[1]) : content'[1][k] = content[1][k]
      BY <2>1, <3>1, Extend
    <3> QED BY <2>1, <3>1, <3>2 DEF FirstGrowing, FirstIssued
  <2> QED BY <2>2, <2>3, FirstGrows DEF FirstGrowing
<1> QED BY <1>1, <1>2, PTL DEF CrashSpec

\* Without a rotation, what is on disk is the first file.
OnlyFirst ==
    /\ OnDisk = {content[1][k] : k \in 1..Len(content[1])}
    /\ ChainHead = TailHash(content[1])

FirstIsAll == FirstGrowing /\ (rotated = <<>> => OnlyFirst)

LEMMA FirstIsAllAlways == CrashSpec => []FirstIsAll
<1>1. FirstGrowing /\ rotated = <<>> => OnlyFirst
  <2> SUFFICES ASSUME FirstGrowing, rotated = <<>> PROVE OnlyFirst
    OBVIOUS
  <2>1. active = 1 /\ Len(content) = 1 /\ 1..1 = {1}
    BY DEF FirstGrowing, FirstFileInv
  <2>2. Inodes = {1}
    BY <2>1 DEF Inodes
  <2>3. OnDisk = {content[1][k] : k \in 1..Len(content[1])}
    BY <2>2 DEF OnDisk
  <2> QED BY <2>1, <2>3 DEF OnlyFirst, ChainHead, TailHash
<1> QED BY <1>1, FirstGrowingAlways, PTL DEF FirstIsAll

LEMMA BelowRotationStep ==
    ASSUME FirstIsAll, FirstIsAll', [CrashNext]_vars, rotated' = <<>>
    PROVE  [Chain!AppendToHead]_(Chain!chainVars)
<1>1. OnlyFirst /\ OnlyFirst'
  BY FirstGrows DEF FirstIsAll, FirstGrowing
<1>2. lastId \in Nat /\ content[1] \in Seq(Record) /\ Len(content[1]) \in Nat
  BY FileTypes DEF FirstIsAll, FirstGrowing, FirstFileInv, TypeOK, CountsOK
<1>3. CASE content'[1] = content[1]
  <2>1. OnDisk' = OnDisk /\ ChainHead' = ChainHead
    BY <1>1, <1>3 DEF OnlyFirst, TailHash
  <2> QED BY <2>1 DEF Links, Chain!chainVars
<1>4. CASE FirstGrown
  <2>1. PICK r \in Record : /\ r.id = lastId + 1 /\ r.prev = TailHash(content[1])
                            /\ content'[1] = Append(content[1], r)
    BY <1>4 DEF FirstGrown
  <2>2. /\ Len(content'[1]) = Len(content[1]) + 1 /\ content'[1][Len(content[1]) + 1] = r
        /\ \A k \in 1..Len(content[1]) : content'[1][k] = content[1][k]
        /\ content'[1] \in Seq(Record)
    BY <1>2, <2>1, Extend
  <2>3. {content'[1][k] : k \in 1..Len(content'[1])} = {content[1][k] : k \in 1..Len(content[1])} \cup {r}
    BY <1>2, <2>2, SMTT(40)
  <2>4. OnDisk' = OnDisk \cup {r}
    BY <1>1, <2>3 DEF OnlyFirst
  <2>5. ChainHead' = r.id
    <3>1. content'[1] # <<>>
      BY <1>2, <2>2, EmptySeq
    <3> QED BY <1>1, <2>2, <3>1 DEF OnlyFirst, TailHash
  <2> DEFINE new == [id |-> r.id, prev |-> r.prev]
  <2>6. Links' = Links \cup {new}
    BY <2>4 DEF Links
  <2>7. new.id \notin {s.id : s \in Links} \cup {0}
    <3>1. \A s \in Links : s.id \in 1..lastId
      BY <1>1 DEF OnlyFirst, FirstIsAll, FirstGrowing, FirstIssued, Links
    <3> QED BY <1>2, <2>1, <3>1
  <2>8. new \in Links' /\ new.prev = ChainHead /\ ChainHead' = new.id
    BY <1>1, <2>1, <2>5, <2>6 DEF OnlyFirst
  <2> HIDE DEF new
  <2>9. Chain!AppendToHead
    BY <2>6, <2>7, <2>8 DEF Chain!AppendToHead, Chain!Ids
  <2> QED BY <2>9
<1> QED BY <1>3, <1>4, FirstGrows DEF FirstIsAll, FirstGrowing

\* Any number of processes, killed and restarted at any statement, implement the
\* abstract chain until one of them begins a rotation: every append of each is at
\* the head all share (audit.py:20-21).
THEOREM ProcessesImplementChain ==
    CrashSpec => /\ Chain!ChainInit
                 /\ [][rotated' = <<>> => [Chain!AppendToHead]_(Chain!chainVars)]_vars
<1>1. FirstIsAll /\ FirstIsAll' /\ [CrashNext]_vars =>
          [rotated' = <<>> => [Chain!AppendToHead]_(Chain!chainVars)]_vars
  BY BelowRotationStep
<1> QED BY <1>1, LogBegins, FirstIsAllAlways, PTL DEF CrashSpec

\* Until then their records are one line, without fork or gap.
THEOREM ProcessesKeepOneLine == CrashSpec => [](rotated = <<>> => Chain!OneLine)
<1> DEFINE I == rotated = <<>> => Chain!OneLine
<1>1. Init => I
  BY LogBegins, LineBegins
<1>2. FirstIsAll /\ FirstIsAll' /\ I /\ [CrashNext]_vars => I'
  <2> SUFFICES ASSUME FirstIsAll, FirstIsAll', I, [CrashNext]_vars, rotated' = <<>>
               PROVE  Chain!OneLine'
    OBVIOUS
  <2>1. rotated = <<>>
    BY FirstGrows DEF FirstIsAll, FirstGrowing
  <2> QED BY <2>1, BelowRotationStep, LineStep
<1> QED BY <1>1, <1>2, FirstIsAllAlways, PTL DEF CrashSpec
=============================================================================
