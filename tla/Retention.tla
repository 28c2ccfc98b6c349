----------------------------- MODULE Retention -----------------------------
(***************************************************************************)
(* What the purge command (admin_cli.py) deletes: rows of the drafts table  *)
(* and rotated files of the audit log, beside the writers of both.          *)
(*                                                                          *)
(* Here a file of the log is the set of the decisions it records and the    *)
(* time of its last append; other records only make it younger (AuditLog    *)
(* models the append itself and the chain).  The log has several writers,   *)
(* processes that exclude one another only while they append: one of them   *)
(* may have opened a file that another has renamed, or purged, since.  Time *)
(* is a counter of parts of a second: files keep it whole, decision_at and  *)
(* cutoff_iso are cut to the second.  Keep is --older-than-days.            *)
(***************************************************************************)
EXTENDS Naturals, Sequences

CONSTANTS
    Drafts,    \* draft ids
    Keep,      \* the retention period
    LockWait,  \* how long decide may wait for the write lock
    Second,    \* Second[t]: the second of t
    MaxTime,   \* bound: the clock
    MaxFiles,  \* bound: rotations
    MaxPurges, \* bound: purge commands
    None       \* no draft

ASSUME RetentionAssumption ==
    /\ Keep \in Nat /\ LockWait \in Nat
    /\ MaxTime \in Nat /\ MaxFiles \in Nat /\ MaxPurges \in Nat
    /\ Second \in [0..(MaxTime + Keep) -> Nat]
    /\ \A t, u \in 0..(MaxTime + Keep) : t <= u => Second[t] <= Second[u]
    /\ None \notin Drafts

VARIABLES
    now,         \* the clock
    status,      \* the drafts table; a deleted row is "purged"
    decisionAt,  \* decision_at of the decided drafts
    committedAt, \* when the decision was committed (history)
    owed,        \* decided drafts whose command has not written its record yet
    before,      \* before[d]: the files renamed before d was decided, if owed
    files,       \* the stamps taken for rotated files, in the order of the names
    active,      \* the active file
    unmarked,    \* rotations that have renamed a file and not written their marker
    raced,       \* decisions recorded in a file that was listed, deleted or emptied
                 \* beside the writer (history)
    ppc,         \* the statement of the purge command
    asOf,        \* the clock when its cutoff was computed
    doomed,      \* the rotated files it listed and has not deleted yet
    purges,      \* how many so far
    began        \* when they computed their cutoffs (history)

draftsTable == <<status, decisionAt, committedAt, owed, before>>
logVars == <<files, active, unmarked, raced>>
purgeVars == <<ppc, asOf, doomed, purges, began>>
retentionVars == <<now, draftsTable, logVars, purgeVars>>

Decided == {"approved", "rejected"}
LogFile == [decisions : SUBSET Drafts, mtime : Nat]
\* A stamp is taken before the file is renamed to it.  Late: appended to after
\* it was renamed, or renamed after a file with a later stamp.
RotatedFile == [decisions : SUBSET Drafts, mtime : Nat,
                state : {"stamped", "kept", "deleted"}, late : BOOLEAN]

NewStamp == [decisions |-> {}, mtime |-> 0, state |-> "stamped", late |-> FALSE]

Renamed == {k \in DOMAIN files : files[k].state # "stamped"}
Kept == {k \in DOMAIN files : files[k].state = "kept"}

\* The decisions whose records are still on disk.
Recorded == active.decisions \cup UNION {files[k].decisions : k \in Kept}

Grown(k, decisions) ==
    [files EXCEPT ![k] = [decisions |-> files[k].decisions \cup decisions, mtime |-> now,
                          state |-> files[k].state, late |-> TRUE]]

\* The writer goes on to rotate if what it appended to has reached the size: it
\* takes the stamp of the new name.
MayRotate(after) ==
    \/ files' = after
    \/ Len(files) < MaxFiles /\ files' = Append(after, NewStamp)

\* AuditLog.write appends to the file it opened, before it waited for the flock:
\* the active one, or one of opened, which has been renamed since.
Log(decisions, opened) ==
    /\ \/ /\ active' = [decisions |-> active.decisions \cup decisions, mtime |-> now]
          /\ MayRotate(files)
          /\ UNCHANGED raced
       \/ \E k \in opened :
             /\ MayRotate(Grown(k, decisions))
             /\ raced' = IF k \in doomed \/ k \notin Kept THEN raced \cup decisions ELSE raced
             /\ UNCHANGED active
    /\ UNCHANGED unmarked

\* AuditLog._rotate, outside the flock: the active path is renamed to the k-th
\* stamp, whatever it holds by now, and touched (a rotation that finds no file
\* there, or dies, leaves its stamp unused) ...
Rename(k) ==
    /\ files[k].state = "stamped"
    /\ files' = [files EXCEPT ![k] = [decisions |-> active.decisions, mtime |-> active.mtime,
                                     state |-> "kept", late |-> \E j \in Renamed : k < j]]
    /\ active' = [decisions |-> {}, mtime |-> now]
    /\ unmarked' = unmarked + 1
    /\ UNCHANGED <<now, draftsTable, raced, purgeVars>>

\* ... and write_text empties the active path to write the marker.
Mark ==
    /\ unmarked > 0
    /\ unmarked' = unmarked - 1
    /\ active' = [decisions |-> {}, mtime |-> now]
    /\ raced' = raced \cup active.decisions
    /\ UNCHANGED <<now, draftsTable, files, purgeVars>>

Tick ==
    /\ now < MaxTime
    /\ now' = now + 1
    /\ UNCHANGED <<draftsTable, logVars, purgeVars>>

-----------------------------------------------------------------------------
(* The drafts table.                                                        *)

\* draft_create inserts the row; its record follows (Service studies what
\* happens in between).
Insert(d) ==
    /\ status[d] = "absent"
    /\ status' = [status EXCEPT ![d] = "pending"]
    /\ Log({}, Renamed)
    /\ UNCHANGED <<now, decisionAt, committedAt, owed, before, purgeVars>>

\* A review command commits its decision, stamped before it waited for the
\* write lock ...
Decide(d, verdict, at) ==
    /\ status[d] = "pending"
    /\ at <= now /\ now <= at + LockWait
    /\ status' = [status EXCEPT ![d] = verdict]
    /\ decisionAt' = [decisionAt EXCEPT ![d] = at]
    /\ committedAt' = [committedAt EXCEPT ![d] = now]
    /\ owed' = owed \cup {d}
    /\ before' = [before EXCEPT ![d] = Renamed]
    /\ UNCHANGED <<now, logVars, purgeVars>>

\* ... and records it, in the file that has become active by then (DraftReview
\* studies commands that die in between).
RecordDecision(d) ==
    /\ d \in owed
    /\ owed' = owed \ {d}
    /\ before' = [before EXCEPT ![d] = {}]
    /\ Log({d}, Renamed \ before[d])
    /\ UNCHANGED <<now, status, decisionAt, committedAt, purgeVars>>

-----------------------------------------------------------------------------
(* compliance-admin purge --apply.                                          *)

\* decision_at < cutoff_iso, both cut to the second ...
OldRow(d) == Second[decisionAt[d] + Keep] < Second[asOf]

\* ... and st_mtime < cutoff, which is not.
OldFile(k) == files[k].mtime + Keep < asOf

StartPurge ==
    /\ ppc = "idle" /\ purges < MaxPurges
    /\ purges' = purges + 1
    /\ asOf' = now
    /\ began' = began \cup {now}
    /\ ppc' = "rows"
    /\ UNCHANGED <<now, draftsTable, logVars, doomed>>

MutantKeepsRejected ==
    /\ ppc = "rows"
    /\ status' = [d \in Drafts |->
                    IF status[d] = "approved" /\ OldRow(d) THEN "purged" ELSE status[d]]
    /\ ppc' = "list"
    /\ UNCHANGED <<now, decisionAt, committedAt, owed, before, logVars, asOf, doomed, purges, began>>

DeleteRows ==
    /\ ppc = "rows"
    /\ status' = [d \in Drafts |->
                    IF status[d] \in Decided /\ OldRow(d) THEN "purged" ELSE status[d]]
    /\ ppc' = "list"
    /\ UNCHANGED <<now, decisionAt, committedAt, owed, before, logVars, asOf, doomed, purges, began>>

\* chain_files ends with the active path, which the purge leaves out; while a
\* rotation has renamed it the last rotated file is left out in its place.
ListFiles ==
    /\ ppc = "list"
    /\ \E missing \in BOOLEAN :
          /\ missing => unmarked > 0
          /\ doomed' = {k \in Kept : OldFile(k) /\ (missing => \E j \in Kept : k < j)}
    /\ ppc' = "unlink"
    /\ UNCHANGED <<now, draftsTable, logVars, asOf, purges, began>>

MutantUnlinkAny(k) ==
    /\ ppc = "unlink"
    /\ k \in doomed
    /\ files' = [files EXCEPT ![k].state = "deleted"]
    /\ doomed' = doomed \ {k}
    /\ UNCHANGED <<now, draftsTable, active, unmarked, raced, ppc, asOf, purges, began>>

\* In the order of chain_files, the oldest first.
Unlink(k) ==
    /\ ppc = "unlink"
    /\ k \in doomed /\ \A j \in doomed : k <= j
    /\ files' = [files EXCEPT ![k].state = "deleted"]
    /\ doomed' = doomed \ {k}
    /\ UNCHANGED <<now, draftsTable, active, unmarked, raced, ppc, asOf, purges, began>>

PurgeEnds ==
    /\ ppc' = "idle" /\ asOf' = 0 /\ doomed' = {}
    /\ UNCHANGED <<purges, began>>

RecordPurge ==
    /\ ppc = "unlink" /\ doomed = {}
    /\ Log({}, Renamed)
    /\ PurgeEnds
    /\ UNCHANGED <<now, draftsTable>>

\* The command is killed, or raises.
PurgeDies ==
    /\ ppc # "idle"
    /\ PurgeEnds
    /\ UNCHANGED <<now, draftsTable, logVars>>

-----------------------------------------------------------------------------
RetentionInit ==
    /\ now = 0
    /\ status = [d \in Drafts |-> "absent"]
    /\ decisionAt = [d \in Drafts |-> 0]
    /\ committedAt = [d \in Drafts |-> 0]
    /\ owed = {} /\ before = [d \in Drafts |-> {}]
    /\ files = <<>> /\ unmarked = 0 /\ raced = {}
    /\ active = [decisions |-> {}, mtime |-> 0]
    /\ ppc = "idle" /\ asOf = 0 /\ doomed = {} /\ purges = 0 /\ began = {}

\* All steps but the filing of a draft and the records of other commands.
RetentionNext ==
    \/ Tick
    \/ \E d \in Drafts, v \in Decided, at \in 0..MaxTime : Decide(d, v, at)
    \/ \E d \in Drafts : RecordDecision(d)
    \/ StartPurge \/ DeleteRows \/ ListFiles \/ RecordPurge \/ PurgeDies
    \/ \E k \in DOMAIN files : Rename(k) \/ Unlink(k)
    \/ Mark

RetentionTypeOK ==
    /\ now \in 0..MaxTime
    /\ status \in [Drafts -> {"absent", "pending", "purged"} \cup Decided]
    /\ decisionAt \in [Drafts -> 0..MaxTime] /\ committedAt \in [Drafts -> 0..MaxTime]
    /\ owed \subseteq Drafts /\ before \in [Drafts -> SUBSET Nat]
    /\ files \in Seq(RotatedFile)
    /\ active \in LogFile
    /\ unmarked \in Nat /\ raced \subseteq Drafts
    /\ ppc \in {"idle", "rows", "list", "unlink"}
    /\ asOf \in 0..MaxTime /\ purges \in Nat /\ began \subseteq 0..MaxTime
    /\ doomed \subseteq Kept

-----------------------------------------------------------------------------
\* The record of a decided draft is on disk once its command has written it,
\* unless it was decided in the very second of a purge's cutoff (then the row
\* counts as young and the file as old), or its record met another process: it
\* went to a file the purge had listed, or into the active path before a marker
\* was written over it.  Otherwise the purge never takes a file that holds the
\* decision of a draft it keeps, whoever decides, appends and rotates meanwhile and
\* wherever it dies (admin_cli.py:34-45; decision_at is read before the lock, the
\* lock before the record, and a file is as young as its last record).
RecordsOutliveRows ==
    \A d \in Drafts : status[d] \in Decided =>
        \/ d \in owed \/ d \in Recorded \/ d \in raced
        \/ \E b \in began : Second[decisionAt[d] + Keep] = Second[b]

\* The purge leaves no file behind that is older by name than one it deleted, but
\* late ones: files that another process appended to after they were renamed, or
\* renamed after one with a later name.  So, wherever it is killed and whatever is
\* written and rotated between its listing and its unlinks, it makes no gap in the
\* log that was not made by the race of two writers (admin_cli.py:10-11 and 42-45,
\* "the chain stays verifiable up to the purge point").
PurgedAreOldest ==
    \A j, k \in DOMAIN files :
        j < k /\ files[k].state = "deleted" /\ files[j].state = "kept" => files[j].late

-----------------------------------------------------------------------------
(* The inductive invariant.                                                  *)

\* A file is at least as young as the decisions it records, and these are of
\* drafts that have been decided.
Tells(decisions, mtime) ==
    \A d \in decisions :
        committedAt[d] <= mtime /\ status[d] \in Decided \cup {"purged"}

FilesInv ==
    /\ Tells(active.decisions, active.mtime)
    /\ \A k \in DOMAIN files : Tells(files[k].decisions, files[k].mtime)

ClockInv ==
    /\ asOf <= now
    /\ ppc # "idle" => asOf \in began
    /\ \A d \in Drafts : decisionAt[d] <= committedAt[d] /\ committedAt[d] <= now
    /\ \A d \in owed : status[d] \in Decided \cup {"purged"}

\* Behind DeleteRows the table keeps only decisions of young rows or committed
\* since, and a listed file holds only old decisions and those appended since.
PurgeInv ==
    /\ ppc \in {"list", "unlink"} =>
          \A d \in Drafts : status[d] \in Decided => ~OldRow(d) \/ asOf <= committedAt[d]
    /\ \A k \in doomed : \A d \in files[k].decisions : d \in raced \/ committedAt[d] + Keep < asOf
    /\ doomed # {} => ppc = "unlink"

RetentionInv == FilesInv /\ ClockInv /\ PurgeInv /\ RecordsOutliveRows

\* But for late files, a file with a later name is not older, nor is the active
\* one; below a listed file every file left is listed.
AgeInv ==
    /\ active.mtime <= now /\ \A k \in Renamed : files[k].mtime <= now
    /\ \A j \in Renamed : ~files[j].late =>
          /\ files[j].mtime <= active.mtime
          /\ \A k \in Renamed : j < k => files[j].mtime <= files[k].mtime
    /\ \A k \in doomed : \A j \in Kept : j < k /\ ~files[j].late => j \in doomed
=============================================================================
