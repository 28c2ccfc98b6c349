------------------------------ MODULE AuditLog ------------------------------
(***************************************************************************)
(* The hash-chained audit log of audit.py: AuditLog.write, AuditLog._rotate *)
(* and the hand-over to Forwarder.enqueue, executed by several threads of   *)
(* several processes over one directory.                                    *)
(*                                                                          *)
(* A file is an inode (a sequence of records); the active path and each     *)
(* rotated name refer to at most one inode.  A process is one AuditLog      *)
(* instance: the MCP server, the review CLI, the purge command.  Every      *)
(* system call that another process can observe is a step of its own.       *)
(*                                                                          *)
(* A record is its identity, the identity it cites in prev_hash, its seq    *)
(* and the process that wrote it (agent_id). SHA-256 is taken to be collision free, so a hash is the identity   *)
(* of the record it was computed from and GENESIS is the identity 0 of no   *)
(* record.  Sizes are counted in records.                                   *)
(***************************************************************************)
EXTENDS Naturals, Sequences

CONSTANTS
    Threads,      \* threads that call write()
    Procs,        \* processes: one AuditLog instance each
    ProcOf,       \* ProcOf[t]: the process thread t belongs to
    Forwarding,   \* the processes built with a forwarder (server.build_service)
    RotateAt,     \* rotate_bytes, in records
    AnchorEvery,  \* anchor_every
    MaxWrites,    \* bound: calls of write() in one behaviour
    MaxCrashes,   \* bound: process crashes in one behaviour (CrashSpec)
    None          \* no thread

ASSUME ConstantsAssumption ==
    /\ ProcOf \in [Threads -> Procs]
    /\ Forwarding \subseteq Procs
    /\ RotateAt \in Nat \ {0}
    /\ AnchorEvery \in Nat \ {0}
    /\ MaxWrites \in Nat
    /\ MaxCrashes \in Nat
    /\ None \notin Threads

GENESIS == 0
NoFile == 0

VARIABLES
    content,     \* content[i]: the records of inode i, in file order
    active,      \* the inode the active path names, or NoFile
    rotated,     \* rotated[s]: the inode named with the s-th stamp, or NoFile
    torn,        \* the inodes whose last line is incomplete
    lock,        \* lock[i]: the thread holding the flock of inode i, or None
    threadLock,  \* threadLock[p]: the thread holding _thread_lock, or None
    pc,          \* the statement each thread is about to execute
    fh,          \* fh[t]: the inode of the file thread t has open, or NoFile
    prev,        \* prev[t]: prev_hash in write(), head in _rotate()
    seq,         \* seq[t]: seq of the record being written
    own,         \* own[t]: the identity of the record written, 0 before
    slot,        \* slot[t]: the stamp of the rotation
    lastId,      \* the number of records built so far
    spool,       \* what enqueue published, in publication order
    writes,      \* calls of write() so far
    up,          \* the processes that run
    crashes      \* crashes so far

disk == <<content, active, rotated, torn>>
locals == <<fh, prev, seq, own, slot>>
vars == <<content, active, rotated, torn, lock, threadLock, pc, fh, prev, seq, own, slot,
          lastId, spool, writes, up, crashes>>

Record == [id : Nat, prev : Nat, seq : Nat, by : Procs]
Item == [kind : {"record", "anchor"}, id : Nat]

\* The rotation marker carries seq 0; every other record has a positive seq.
IsMarker(r) == r.seq = 0

\* Operators named Mutant... are plausible bugs; no other definition uses them.
MutantFirstRecord(s) == IF s = <<>> THEN GENESIS ELSE s[1].id
MutantSeqNotRead(s) == 0

\* What _tail_record finds in a file without an incomplete line.
TailHash(s) == IF s = <<>> THEN GENESIS ELSE s[Len(s)].id
TailSeq(s) == IF s = <<>> THEN 0 ELSE s[Len(s)].seq

-----------------------------------------------------------------------------
(* Steps of write().                                                        *)

MutantLeaveLocked(t, next) ==
    /\ UNCHANGED threadLock
    /\ pc' = [pc EXCEPT ![t] = next]

\* The with-block of _thread_lock is left and the thread goes on to next.
Leave(t, next) ==
    /\ threadLock' = [threadLock EXCEPT ![ProcOf[t]] = None]
    /\ pc' = [pc EXCEPT ![t] = next]

\* The local variables of the threads in ts go out of scope.
Forget(ts) ==
    /\ fh' = [t \in Threads |-> IF t \in ts THEN NoFile ELSE fh[t]]
    /\ prev' = [t \in Threads |-> IF t \in ts THEN GENESIS ELSE prev[t]]
    /\ seq' = [t \in Threads |-> IF t \in ts THEN 0 ELSE seq[t]]
    /\ own' = [t \in Threads |-> IF t \in ts THEN 0 ELSE own[t]]
    /\ slot' = [t \in Threads |-> IF t \in ts THEN 0 ELSE slot[t]]

\* An exception leaves both with-blocks and write() itself.
Raise(t) ==
    /\ Leave(t, "idle")
    /\ Forget({t})
    /\ lock' = [i \in 1..Len(lock) |-> IF lock[i] = t THEN None ELSE lock[i]]
    /\ UNCHANGED <<content, active, rotated, torn, lastId, spool, writes, up, crashes>>

\* Opening the active path in a mode that creates it: path, inode count.
OpenOrCreate ==
    IF active # NoFile
    THEN UNCHANGED <<content, active, lock>>
    ELSE /\ content' = Append(content, <<>>)
         /\ lock' = Append(lock, None)
         /\ active' = Len(content) + 1

Call(t) ==
    /\ pc[t] = "idle" /\ ProcOf[t] \in up
    /\ writes < MaxWrites
    /\ writes' = writes + 1
    /\ pc' = [pc EXCEPT ![t] = "acquire"]
    /\ UNCHANGED <<content, active, rotated, torn, lock, threadLock, locals, lastId, spool, up, crashes>>

Acquire(t) ==
    /\ pc[t] = "acquire"
    /\ threadLock[ProcOf[t]] = None
    /\ threadLock' = [threadLock EXCEPT ![ProcOf[t]] = t]
    /\ pc' = [pc EXCEPT ![t] = "open"]
    /\ UNCHANGED <<content, active, rotated, torn, lock, locals, lastId, spool, writes, up, crashes>>

Open(t) ==
    /\ pc[t] = "open"
    /\ OpenOrCreate
    /\ fh' = [fh EXCEPT ![t] = active']
    /\ pc' = [pc EXCEPT ![t] = "flock"]
    /\ UNCHANGED <<rotated, torn, threadLock, prev, seq, own, slot, lastId, spool, writes, up, crashes>>

MutantFlockShared(t) == TRUE
FlockFree(t) == lock[fh[t]] = None

Flock(t) ==
    /\ pc[t] = "flock"
    /\ FlockFree(t)
    /\ lock' = [lock EXCEPT ![fh[t]] = t]
    /\ pc' = [pc EXCEPT ![t] = "tail"]
    /\ UNCHANGED <<content, active, rotated, torn, threadLock, locals, lastId, spool, writes, up, crashes>>

ReadTail(t) ==
    /\ pc[t] = "tail"
    /\ fh[t] \notin torn
    /\ prev' = [prev EXCEPT ![t] = TailHash(content[fh[t]])]
    /\ seq' = [seq EXCEPT ![t] = TailSeq(content[fh[t]]) + 1]
    /\ pc' = [pc EXCEPT ![t] = "append"]
    /\ UNCHANGED <<content, active, rotated, torn, lock, threadLock, fh, own, slot, lastId, spool, writes, up, crashes>>

\* json.loads of an incomplete last line raises.
TailTorn(t) ==
    /\ pc[t] = "tail"
    /\ fh[t] \in torn
    /\ Raise(t)

\* The record is built, written, fsynced and the flock released; the size
\* seen under the lock decides whether to rotate after it.
AppendRecord(t) ==
    /\ pc[t] = "append"
    /\ LET f == fh[t]
           r == [id |-> lastId + 1, prev |-> prev[t], seq |-> seq[t], by |-> ProcOf[t]]
       IN  /\ content' = [content EXCEPT ![f] = Append(@, r)]
           /\ lock' = [lock EXCEPT ![f] = None]
           /\ fh' = [fh EXCEPT ![t] = NoFile]
           /\ own' = [own EXCEPT ![t] = lastId + 1]
           /\ IF Len(content[f]) + 1 >= RotateAt
              THEN pc' = [pc EXCEPT ![t] = "head"] /\ UNCHANGED threadLock
              ELSE Leave(t, "enqueue")
    /\ lastId' = lastId + 1
    /\ UNCHANGED <<active, rotated, torn, prev, seq, slot, spool, writes, up, crashes>>

-----------------------------------------------------------------------------
(* Steps of _rotate(), with the thread lock held and no flock.               *)

\* head() and the stamp of the new name.  Stamps are distinct and sort in the
\* order they are read.
RotateHead(t) ==
    /\ pc[t] = "head"
    /\ active # NoFile /\ active \notin torn
    /\ rotated' = Append(rotated, NoFile)
    /\ prev' = [prev EXCEPT ![t] = TailHash(content[active])]
    /\ slot' = [slot EXCEPT ![t] = Len(rotated) + 1]
    /\ pc' = [pc EXCEPT ![t] = "replace"]
    /\ UNCHANGED <<content, active, torn, lock, threadLock, fh, seq, own, lastId, spool, writes, up, crashes>>

\* A second name instead of a rename: the marker then empties the old file.
MutantRotateLink(t) ==
    /\ pc[t] = "replace"
    /\ active # NoFile
    /\ rotated' = [rotated EXCEPT ![slot[t]] = active]
    /\ pc' = [pc EXCEPT ![t] = "touch"]
    /\ UNCHANGED <<content, active, torn, lock, threadLock, locals, lastId, spool, writes, up, crashes>>

RotateReplace(t) ==
    /\ pc[t] = "replace"
    /\ active # NoFile
    /\ rotated' = [rotated EXCEPT ![slot[t]] = active]
    /\ active' = NoFile
    /\ pc' = [pc EXCEPT ![t] = "touch"]
    /\ UNCHANGED <<content, torn, lock, threadLock, locals, lastId, spool, writes, up, crashes>>

\* head() or os.replace finds no file at the active path, or head() an
\* incomplete last line.
RotateFails(t) ==
    /\ \/ pc[t] \in {"head", "replace"} /\ active = NoFile
       \/ pc[t] = "head" /\ active \in torn
    /\ Raise(t)

RotateTouch(t) ==
    /\ pc[t] = "touch"
    /\ OpenOrCreate
    /\ pc' = [pc EXCEPT ![t] = "truncate"]
    /\ UNCHANGED <<rotated, torn, threadLock, locals, lastId, spool, writes, up, crashes>>

\* write_text opens the active path for writing, which empties it ...
RotateTruncate(t) ==
    /\ pc[t] = "truncate"
    /\ active' = IF active = NoFile THEN Len(content) + 1 ELSE active
    /\ content' = IF active = NoFile THEN Append(content, <<>>) ELSE [content EXCEPT ![active] = <<>>]
    /\ lock' = IF active = NoFile THEN Append(lock, None) ELSE lock
    /\ torn' = torn \ {active}
    /\ fh' = [fh EXCEPT ![t] = active']
    /\ pc' = [pc EXCEPT ![t] = "marker"]
    /\ UNCHANGED <<rotated, threadLock, prev, seq, own, slot, lastId, spool, writes, up, crashes>>

\* ... and writes the marker at offset 0 of the file it opened: over the first
\* record of another process, if one was appended since (lines of one length).
RotateMarker(t) ==
    /\ pc[t] = "marker"
    /\ LET f == fh[t]
           r == [id |-> lastId + 1, prev |-> prev[t], seq |-> 0, by |-> ProcOf[t]]
       IN  content' = [content EXCEPT ![f] = IF @ = <<>> THEN <<r>> ELSE [@ EXCEPT ![1] = r]]
    /\ lastId' = lastId + 1
    /\ fh' = [fh EXCEPT ![t] = NoFile]
    /\ Leave(t, "enqueue")
    /\ UNCHANGED <<active, rotated, torn, lock, prev, seq, own, slot, spool, writes, up, crashes>>

-----------------------------------------------------------------------------
(* The end of write(), outside both locks.                                   *)

Publish(kind, t) == spool' = Append(spool, [kind |-> kind, id |-> own[t]])

Return(t) ==
    /\ pc' = [pc EXCEPT ![t] = "idle"]
    /\ Forget({t})

\* The anchor sent instead of the record it is due with.
MutantEnqueueOr(t) ==
    /\ pc[t] = "enqueue" /\ ProcOf[t] \in Forwarding
    /\ Publish(IF seq[t] % AnchorEvery = 0 THEN "anchor" ELSE "record", t)
    /\ Return(t)
    /\ UNCHANGED <<content, active, rotated, torn, lock, threadLock, lastId, writes, up, crashes>>

Enqueue(t) ==
    /\ pc[t] = "enqueue" /\ ProcOf[t] \in Forwarding
    /\ Publish("record", t)
    /\ IF seq[t] % AnchorEvery = 0
       THEN pc' = [pc EXCEPT ![t] = "anchor"] /\ UNCHANGED locals
       ELSE Return(t)
    /\ UNCHANGED <<content, active, rotated, torn, lock, threadLock, lastId, writes, up, crashes>>

Anchor(t) ==
    /\ pc[t] = "anchor"
    /\ Publish("anchor", t)
    /\ Return(t)
    /\ UNCHANGED <<content, active, rotated, torn, lock, threadLock, lastId, writes, up, crashes>>

NoForwarder(t) ==
    /\ pc[t] = "enqueue" /\ ProcOf[t] \notin Forwarding
    /\ Return(t)
    /\ UNCHANGED <<content, active, rotated, torn, lock, threadLock, lastId, spool, writes, up, crashes>>

-----------------------------------------------------------------------------
(* A process is killed, or the machine fails, and is started again.          *)

\* Both kinds of lock die with the process.  A record being written may be
\* left incomplete on disk.
Crash(p) ==
    /\ p \in up /\ crashes < MaxCrashes
    /\ up' = up \ {p}
    /\ crashes' = crashes + 1
    /\ LET mine == {t \in Threads : ProcOf[t] = p}
           writing == {fh[t] : t \in {u \in mine : pc[u] \in {"append", "marker"}}}
       IN  /\ \E cut \in SUBSET writing : torn' = torn \cup cut
           /\ pc' = [t \in Threads |-> IF t \in mine THEN "idle" ELSE pc[t]]
           /\ Forget(mine)
           /\ lock' = [i \in 1..Len(lock) |-> IF lock[i] \in mine THEN None ELSE lock[i]]
    /\ threadLock' = [threadLock EXCEPT ![p] = None]
    /\ UNCHANGED <<content, active, rotated, lastId, spool, writes>>

\* AuditLog.__init__ of the new process touches the active path.
Restart(p) ==
    /\ p \notin up
    /\ up' = up \cup {p}
    /\ OpenOrCreate
    /\ UNCHANGED <<rotated, torn, threadLock, pc, locals, lastId, spool, writes, crashes>>

-----------------------------------------------------------------------------
\* Every process has been constructed once: an empty active file exists.
Init ==
    /\ content = << <<>> >> /\ active = 1
    /\ rotated = <<>> /\ torn = {}
    /\ lock = <<None>>
    /\ threadLock = [p \in Procs |-> None]
    /\ pc = [t \in Threads |-> "idle"]
    /\ fh = [t \in Threads |-> NoFile]
    /\ prev = [t \in Threads |-> GENESIS] /\ seq = [t \in Threads |-> 0]
    /\ own = [t \in Threads |-> 0] /\ slot = [t \in Threads |-> 0]
    /\ lastId = 0 /\ spool = <<>> /\ writes = 0
    /\ up = Procs /\ crashes = 0

\* One statement of a call of write() that has begun.
Step(t) ==
    \/ Acquire(t) \/ Open(t) \/ Flock(t) \/ ReadTail(t) \/ TailTorn(t) \/ AppendRecord(t)
    \/ RotateHead(t) \/ RotateReplace(t) \/ RotateFails(t) \/ RotateTouch(t)
    \/ RotateTruncate(t) \/ RotateMarker(t)
    \/ Enqueue(t) \/ Anchor(t) \/ NoForwarder(t)

\* The callers have made all their calls.
Finished ==
    /\ \A t \in Threads : pc[t] = "idle"
    /\ writes = MaxWrites
    /\ UNCHANGED vars

Next == (\E t \in Threads : Call(t) \/ Step(t)) \/ Finished

CrashNext == Next \/ \E p \in Procs : Crash(p) \/ Restart(p)

Spec == Init /\ [][Next]_vars
CrashSpec == Init /\ [][CrashNext]_vars

\* The scheduler runs every thread, and a process that died is started again.
\* Nothing makes a caller call.
Fairness == \A t \in Threads : WF_vars(Step(t))
FairSpec == Spec /\ Fairness
FairCrashSpec == CrashSpec /\ Fairness /\ \A p \in Procs : WF_vars(Restart(p))

-----------------------------------------------------------------------------
(* Properties.                                                               *)

Inodes == 1..Len(content)
OnDisk == UNION {{content[i][k] : k \in 1..Len(content[i])} : i \in Inodes}
IdsOnDisk == {r.id : r \in OnDisk}
Spooled(kind) == {spool[k].id : k \in {j \in DOMAIN spool : spool[j].kind = kind}}

PC == {"idle", "acquire", "open", "flock", "tail", "append", "head", "replace", "touch",
       "truncate", "marker", "enqueue", "anchor"}

\* A file has at most one name.
OneNamePerFile ==
    /\ \A s \in DOMAIN rotated : rotated[s] # NoFile => rotated[s] # active
    /\ \A s, u \in DOMAIN rotated : rotated[s] # NoFile /\ rotated[s] = rotated[u] => s = u

DiskOK ==
    /\ content \in Seq(Seq(Record))
    /\ active \in Inodes \cup {NoFile}
    /\ rotated \in Seq(Inodes \cup {NoFile})
    /\ torn \subseteq Inodes

LocksOK ==
    /\ lock \in Seq(Threads \cup {None}) /\ Len(lock) = Len(content)
    /\ threadLock \in [Procs -> Threads \cup {None}]

ThreadsOK ==
    /\ pc \in [Threads -> PC]
    /\ fh \in [Threads -> Inodes \cup {NoFile}]
    /\ prev \in [Threads -> Nat] /\ seq \in [Threads -> Nat]
    /\ own \in [Threads -> Nat] /\ slot \in [Threads -> Nat]
    /\ \A t \in Threads : pc[t] \in {"flock", "tail", "append", "marker"} => fh[t] # NoFile

CountsOK ==
    /\ lastId \in Nat /\ writes \in Nat /\ crashes \in Nat
    /\ spool \in Seq(Item)
    /\ up \subseteq Procs

\* Types of the state, and one name per file: a rename never leaves the active
\* path on a rotated file (audit.py:204).
TypeOK == DiskOK /\ LocksOK /\ ThreadsOK /\ CountsOK /\ OneNamePerFile

\* The head of the chain as the files show it: the last record of the newest
\* file that has one.
ChainHead ==
    IF active # NoFile /\ content[active] # <<>> THEN TailHash(content[active])
    ELSE IF rotated # <<>> /\ rotated[Len(rotated)] # NoFile
         THEN TailHash(content[rotated[Len(rotated)]])
         ELSE GENESIS

Links == {[id |-> r.id, prev |-> r.prev] : r \in OnDisk}

Chain == INSTANCE AuditChain WITH log <- Links, head <- ChainHead

\* One audit log, appended at its head: across threads, files and rotations
\* the program implements AuditChain, until a crash (audit.py:16-21).
ImplementsChain ==
    Chain!ChainInit /\ [][crashes' = 0 => [Chain!AppendToHead]_(Chain!chainVars)]_vars

\* Rotation and truncation never remove a record that was fsynced
\* (audit.py:192, "the next append starts a new file chained to the old head").
RecordsPersist == [][IdsOnDisk \subseteq IdsOnDisk']_vars

\* write() fsyncs before it forwards: what reaches the spool is on disk, also
\* after a crash, so the sink never knows a record the chain does not.
ForwardedIsDurable == Spooled("record") \cup Spooled("anchor") \subseteq IdsOnDisk

\* Every record of write() in a process with a forwarder is spooled, or its
\* thread is still on the way to enqueue (audit.py:23-24).  Rotation markers
\* are not: _rotate never enqueues.  A crash in between loses the hand-over.
EveryRecordForwarded ==
    crashes = 0 => \A r \in OnDisk : r.by \in Forwarding /\ ~IsMarker(r) =>
        r.id \in Spooled("record") \/ \E t \in Threads : own[t] = r.id

\* Every call of write() returns or raises, whatever the other threads and
\* processes hold: the two locks and the rotation between them never deadlock.
WriteReturns == \A t \in Threads : (pc[t] # "idle") ~> (pc[t] = "idle")

-----------------------------------------------------------------------------
(* The inductive invariant of one instance that does not crash.              *)

SingleInstance == \A p, q \in Procs : p = q

Locked == {"open", "flock", "tail", "append", "head", "replace", "touch", "truncate", "marker"}

LockHeld == \A t \in Threads : pc[t] \in Locked => threadLock[ProcOf[t]] = t

\* Identities are issued in chain order, so the head is the last one issued.
HeadIsLast == ChainHead = lastId
IdsIssued == \A r \in OnDisk : r.id \in 1..lastId

\* The active path is missing, and a new active file is empty, only inside a
\* rotation.
PathMissing == active = NoFile => \E t \in Threads : pc[t] = "touch"
FreshFile ==
    active # NoFile /\ content[active] = <<>> =>
        rotated = <<>> \/ \E t \in Threads : pc[t] \in {"truncate", "marker"}

\* What a thread inside the with-block knows about the files.
Knows(t) ==
    /\ pc[t] \in {"flock", "tail", "append", "marker"} => fh[t] = active
    /\ pc[t] \in {"append", "replace", "touch", "truncate", "marker"} => prev[t] = lastId
    /\ pc[t] \in {"head", "replace"} => active # NoFile /\ content[active] # <<>>
    /\ pc[t] = "replace" => rotated # <<>> /\ slot[t] = Len(rotated)
    /\ pc[t] = "touch" => active = NoFile
    /\ pc[t] \in {"truncate", "marker"} => active # NoFile /\ content[active] = <<>>

ChainInv ==
    /\ torn = {} /\ up = Procs
    /\ LockHeld /\ HeadIsLast /\ IdsIssued /\ PathMissing /\ FreshFile
    /\ \A t \in Threads : Knows(t)

-----------------------------------------------------------------------------
(* The inductive invariant of one instance that is killed and restarted.     *)

\* A rotation empties and writes only the file it has just made.
OwnFile(t) ==
    /\ pc[t] = "touch" => active = NoFile
    /\ pc[t] = "truncate" => active # NoFile /\ content[active] = <<>>
    /\ pc[t] = "marker" => content[fh[t]] = <<>>

RotationInv ==
    /\ LockHeld
    /\ \A t \in Threads : OwnFile(t) /\ (pc[t] # "idle" => ProcOf[t] \in up)

Written == {"head", "replace", "touch", "truncate", "marker", "enqueue", "anchor"}

\* The record of a call stays on disk until the call has handed it over.
SpoolInv ==
    /\ \A t \in Threads : pc[t] \in Written => own[t] \in IdsOnDisk
    /\ ForwardedIsDurable

\* Without a crash, who still has to hand over a record.
HandedOver(r) ==
    \/ r.id \in Spooled("record")
    \/ \E t \in Threads : own[t] = r.id /\ ProcOf[t] = r.by /\ pc[t] \in Written

HandOverInv ==
    /\ \A r \in OnDisk : r.by \in Forwarding /\ ~IsMarker(r) => HandedOver(r)
    /\ \A t \in Threads : pc[t] = "anchor" => own[t] \in Spooled("record")
=============================================================================
