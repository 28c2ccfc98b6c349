---------------------------- MODULE AuditVerify ----------------------------
(***************************************************************************)
(* audit.chain_files and audit.verify over the files of AuditLog, and the   *)
(* properties stated with what they return.                                 *)
(***************************************************************************)
EXTENDS AuditLog, FiniteSetsExt

\* The places of chain_files in the order of their names: a stamp, and after the
\* last one the active path.  A stamp no file has been renamed to, and an active
\* path that is missing, hold no lines.
Places == 1..(Len(rotated) + 1)
FileAt(s) == IF s \in DOMAIN rotated THEN rotated[s] ELSE active
Lines(s) == IF FileAt(s) = NoFile THEN <<>> ELSE content[FileAt(s)]

\* What the k-th line of a file has to cite when verify comes to the file with h,
\* and the hash it leaves the file with.
Cited(lines, k, h) == IF k = 1 THEN h ELSE lines[k - 1].id
Through(lines, h) == Cited(lines, Len(lines) + 1, h)
Linked(lines, h) == \A k \in DOMAIN lines : lines[k].prev = Cited(lines, k, h)

\* prev as verify comes to place s: the hash of the last line before it.
Before(s) == {u \in Places : u < s /\ Lines(u) # <<>>}
PrevAt(s) == IF Before(s) = {} THEN GENESIS ELSE Through(Lines(Max(Before(s))), GENESIS)

\* json.loads raises on an incomplete line.
Readable == \A s \in Places : FileAt(s) \notin torn

\* Every link verify checks.
LinksUnbroken == \A s \in Places : Linked(Lines(s), PrevAt(s))

\* VerifyResult.ok.
VerifyOk == Readable /\ LinksUnbroken

VerifyHead == PrevAt(Len(rotated) + 2)

-----------------------------------------------------------------------------
\* Without a crash, verify succeeds on the files as they are at any moment, and
\* reports the head the writers see (audit.py:16-18, tests/test_audit.py:49-57).
VerifiesAlways == crashes = 0 => VerifyOk /\ VerifyHead = ChainHead

Quiet == \A t \in Threads : pc[t] = "idle"

\* verify succeeds once the writers are done (audit.py:16-21, one chain for the
\* server and the CLI, unbroken across files).
VerifiesAtRest == Quiet => VerifyOk

\* Two processes keep one chain as long as no rotation has begun and no record
\* was cut short (audit.py:20-21, "the server and the review CLI share one
\* chain").
VerifiesBelowRotation ==
    rotated = <<>> /\ torn = {} => VerifyOk /\ VerifyHead = ChainHead

\* Among any anchor_every consecutive records of processes with a forwarder one
\* is anchored (audit.py:14-15, "Every anchor_every records the current head
\* hash is forwarded"): in the first file, as long as no rotation is due.  Later
\* files start over after seq 0, and a rotation that raises keeps its record
\* from the spool.
Unrotated == {j \in DOMAIN content[1] : j < RotateAt}
AnchorCadence ==
    Quiet /\ crashes = 0 =>
        \A k \in Unrotated : k + AnchorEvery - 1 \in Unrotated =>
            LET window == {content[1][j] : j \in k..(k + AnchorEvery - 1)}
            IN  (\A r \in window : r.by \in Forwarding)
                    => \E r \in window : r.id \in Spooled("anchor")

\* Whatever a crash of the only instance interrupts, the chain is damaged in
\* one way: a file that starts over from GENESIS with seq 1 (a rotation that
\* died before its marker).  Every other link holds.
OnlyRestartsBreakLinks ==
    \A s \in Places : \A k \in DOMAIN Lines(s) :
        LET r == Lines(s)[k]
        IN  r.prev = Cited(Lines(s), k, PrevAt(s)) \/ (r.prev = GENESIS /\ r.seq = 1)

\* A write finds a tail record it can read ("Last complete record of an open
\* binary file", audit.py:117).
TailReadable == \A t \in Threads : pc[t] = "tail" => fh[t] \notin torn
-----------------------------------------------------------------------------
(* The inductive invariant of the files of one instance: they are named in  *)
(* the order they were made, and each begins where the one made before it   *)
(* ends.                                                                    *)

\* The hash of the last line of the file made before inode i.
Base(i) == IF i = 1 THEN GENESIS ELSE TailHash(content[i - 1])

FilesInOrder ==
    /\ active \in {NoFile, Len(content)}
    /\ \A s, u \in DOMAIN rotated :
          s < u /\ rotated[s] # NoFile /\ rotated[u] # NoFile => rotated[s] < rotated[u]
    /\ \A i \in Inodes \ {active} : content[i] # <<>> /\ \E s \in DOMAIN rotated : rotated[s] = i

\* What a thread inside the with-block knows of them, crashes included.
KnowsFiles(t) ==
    /\ pc[t] \in {"flock", "tail", "append", "marker"} => fh[t] = active
    /\ pc[t] = "append" => /\ prev[t] = TailHash(content[active])
                           /\ seq[t] = TailSeq(content[active]) + 1
    /\ pc[t] \in {"head", "replace"} => active # NoFile /\ content[active] # <<>>
    /\ pc[t] = "replace" => /\ prev[t] = TailHash(content[active])
                            /\ rotated # <<>> /\ slot[t] = Len(rotated)
                            /\ rotated[Len(rotated)] = NoFile
    /\ pc[t] = "touch" => active = NoFile /\ prev[t] = Base(Len(content) + 1)
    /\ pc[t] \in {"truncate", "marker"} =>
          active # NoFile /\ content[active] = <<>> /\ prev[t] = Base(active)

LinkedByOrder ==
    \A i \in Inodes : \A k \in 1..Len(content[i]) :
        LET r == content[i][k]
        IN  r.prev = Cited(content[i], k, Base(i)) \/ (r.prev = GENESIS /\ r.seq = 1)

OrderInv == FilesInOrder /\ LinkedByOrder /\ \A t \in Threads : KnowsFiles(t)

\* Without a crash nothing starts over: the records are numbered through.
Consecutive ==
    \A i \in Inodes : \A k \in 1..Len(content[i]) :
        content[i][k].id = Base(i) + k /\ content[i][k].prev = Base(i) + k - 1

-----------------------------------------------------------------------------
(* The inductive invariant of the first file, whatever the processes: it is *)
(* appended to under its flock, and no rotation empties or overwrites it.    *)

FirstLines ==
    \A k \in 1..Len(content[1]) :
        content[1][k].prev = Cited(content[1], k, GENESIS) /\ content[1][k].seq = k

AtFirst(t) ==
    /\ pc[t] \in {"tail", "append"} /\ fh[t] = 1 => lock[1] = t
    /\ pc[t] = "append" /\ fh[t] = 1 =>
          prev[t] = TailHash(content[1]) /\ seq[t] = TailSeq(content[1]) + 1
    /\ pc[t] \in {"touch", "truncate", "marker"} => active # 1
    /\ pc[t] = "marker" => fh[t] # 1
    /\ pc[t] \in {"replace", "touch", "truncate", "marker"} => rotated # <<>>

FirstFileInv ==
    /\ 1 \in Inodes /\ FirstLines
    /\ rotated = <<>> => active = 1 /\ Len(content) = 1
    /\ \A t \in Threads : AtFirst(t)

\* Without a crash: an anchor that is due is spooled, or with the thread that
\* wrote its record.
Anchored(j) ==
    \/ content[1][j].id \in Spooled("anchor")
    \/ \E t \in Threads : /\ ProcOf[t] = content[1][j].by /\ own[t] = content[1][j].id
                          /\ seq[t] = j /\ pc[t] \in {"enqueue", "anchor"}

AnchorInv ==
    \A j \in Unrotated : content[1][j].by \in Forwarding /\ j % AnchorEvery = 0 => Anchored(j)
=============================================================================
