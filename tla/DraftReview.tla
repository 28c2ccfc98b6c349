---------------------------- MODULE DraftReview ----------------------------
(***************************************************************************)
(* The review queue: DraftStore.create and decide (drafts.py) and the       *)
(* approve, reject and export commands of the review CLI (review_cli.py),   *)
(* run by several people at once over one SQLite file.                      *)
(*                                                                          *)
(* A process runs one command at a time.  Every statement another process   *)
(* can observe is a step: reading the directory, reading the draft, taking  *)
(* SQLite's write lock, the conditional UPDATE, COMMIT, the audit record.   *)
(* The audit chain is a set of numbered records here (AuditChain and        *)
(* AuditLog say what an append does).                                       *)
(***************************************************************************)
EXTENDS Naturals

CONSTANTS
    Persons,      \* the people of users.json
    Approvers,    \* those of the approver group
    Names,        \* UPNs
    FirstName,    \* FirstName[p]: the UPN of p in the first users.json
    Drafts,       \* draft ids
    Indexes,      \* the drafts of kind evidence_pack_index
    Processes,    \* terminals the review CLI is started from
    MaxAttempts,  \* bound: commands in one behaviour
    MaxRenames,   \* bound: UPN changes in users.json
    MaxDeaths,    \* bound: commands that die half-way
    None

ASSUME ReviewAssumption ==
    /\ Approvers \subseteq Persons
    /\ FirstName \in [Persons -> Names]
    /\ Indexes \subseteq Drafts
    /\ MaxAttempts \in Nat /\ MaxRenames \in Nat /\ MaxDeaths \in Nat
    /\ None \notin Names \cup Persons \cup Processes \cup Drafts

VARIABLES
    upn,        \* upn[p]: the UPN of p in users.json
    status, requester, decidedBy,  \* the drafts table, as committed
    author,     \* author[d]: the person who filed d (history)
    decider,    \* decider[d]: the person who decided d (history)
    writer,     \* the process that holds SQLite's write lock, or None
    pc,         \* the statement each process is about to execute
    presented,  \* presented[r]: the name on the command line or in the token
    person,     \* person[r]: whom line 103 resolved it to
    draft,      \* draft[r]: the draft_id argument
    verdict,    \* verdict[r]: the decision asked for
    seen,       \* seen[r]: draft.status as the export read it
    attempt,    \* attempt[r]: the number of the command
    audit,      \* records in the audit chain
    exported,   \* the drafts a pack was written for
    attempts, renames, deaths      \* how many so far

table == <<status, requester, decidedBy>>
history == <<author, decider>>
command == <<presented, person, draft, verdict, seen, attempt>>
counts == <<attempts, renames, deaths>>
vars == <<upn, table, history, writer, pc, command, audit, exported, counts>>

Decided == {"approved", "rejected"}
AuditRecord == [attempt : Nat, tool : Decided \cup {"export"}, draft : Drafts,
                by : Names \cup {None}, outcome : {"ok", "denied"}]

Goto(r, label) == pc' = [pc EXCEPT ![r] = label]

\* The command ends and its local variables with it.
Exit(r) ==
    /\ Goto(r, "idle")
    /\ presented' = [presented EXCEPT ![r] = None]
    /\ person' = [person EXCEPT ![r] = None]
    /\ draft' = [draft EXCEPT ![r] = None]
    /\ verdict' = [verdict EXCEPT ![r] = None]
    /\ seen' = [seen EXCEPT ![r] = None]
    /\ attempt' = [attempt EXCEPT ![r] = 0]

\* Whom the directory resolves a name to: at most one person.
Resolved(n) == {p \in Persons : upn[p] = n}

-----------------------------------------------------------------------------
(* The server: draft_create, after authorisation and content checks.        *)

CreateDraft(d, p) ==
    /\ status[d] = "absent"
    /\ writer = None
    /\ status' = [status EXCEPT ![d] = "pending"]
    /\ requester' = [requester EXCEPT ![d] = upn[p]]
    /\ author' = [author EXCEPT ![d] = p]
    /\ UNCHANGED <<upn, decidedBy, decider, writer, pc, command, audit, exported, counts>>

\* The directory administrators give p the name n, which nobody has.
Rename(p, n) ==
    /\ renames < MaxRenames
    /\ Resolved(n) = {}
    /\ upn' = [upn EXCEPT ![p] = n]
    /\ renames' = renames + 1
    /\ UNCHANGED <<table, history, writer, pc, command, audit, exported, attempts, deaths>>

-----------------------------------------------------------------------------
(* compliance-review approve and reject.                                    *)

StartReview(r, n, d, v) ==
    /\ pc[r] = "idle"
    /\ attempts < MaxAttempts
    /\ attempts' = attempts + 1
    /\ attempt' = [attempt EXCEPT ![r] = attempts + 1]
    /\ presented' = [presented EXCEPT ![r] = n]
    /\ draft' = [draft EXCEPT ![r] = d]
    /\ verdict' = [verdict EXCEPT ![r] = v]
    /\ Goto(r, "resolve")
    /\ UNCHANGED <<upn, table, history, writer, person, seen, audit, exported, renames, deaths>>

\* Line 103: AccessDenied unless the name is that of an approver.
Resolve(r) ==
    /\ pc[r] = "resolve"
    /\ \/ \E p \in Resolved(presented[r]) \cap Approvers :
             /\ person' = [person EXCEPT ![r] = p]
             /\ Goto(r, "get")
       \/ /\ Resolved(presented[r]) \cap Approvers = {}
          /\ Goto(r, "refuse")
          /\ UNCHANGED person
    /\ UNCHANGED <<upn, table, history, writer, presented, draft, verdict, seen, attempt, audit,
                   exported, counts>>

MutantNoFourEyes(r) == status[draft[r]] # "absent"

\* Lines 104 to 108: the draft exists and its requester is not the approver.
MayDecide(r) ==
    /\ status[draft[r]] # "absent"
    /\ requester[draft[r]] # presented[r]

GetDraft(r) ==
    /\ pc[r] = "get"
    /\ Goto(r, IF MayDecide(r) THEN "begin" ELSE "refuse")
    /\ UNCHANGED <<upn, table, history, writer, command, audit, exported, counts>>

MutantBeginShared(r) ==
    /\ pc[r] = "begin"
    /\ writer' = r
    /\ Goto(r, "update")
    /\ UNCHANGED <<upn, table, history, command, audit, exported, counts>>

\* BEGIN IMMEDIATE waits for SQLite's write lock ...
Begin(r) ==
    /\ pc[r] = "begin"
    /\ writer = None
    /\ writer' = r
    /\ Goto(r, "update")
    /\ UNCHANGED <<upn, table, history, command, audit, exported, counts>>

\* ... and gives up after the connection's timeout: "database is locked" is
\* not among the exceptions main catches.
Locked(r) ==
    /\ pc[r] = "begin"
    /\ writer \notin {None, r}
    /\ Exit(r)
    /\ UNCHANGED <<upn, table, history, writer, audit, exported, counts>>

MutantUnconditional(r) ==
    /\ pc[r] = "update"
    /\ Goto(r, "commit")
    /\ UNCHANGED <<upn, table, history, writer, command, audit, exported, counts>>

\* The UPDATE finds the draft pending, or the transaction is rolled back.
Update(r) ==
    /\ pc[r] = "update"
    /\ \/ /\ status[draft[r]] = "pending"
          /\ Goto(r, "commit")
          /\ UNCHANGED writer
       \/ /\ status[draft[r]] # "pending"
          /\ writer' = None
          /\ Goto(r, "refuse")
    /\ UNCHANGED <<upn, table, history, command, audit, exported, counts>>

Commit(r) ==
    /\ pc[r] = "commit"
    /\ status' = [status EXCEPT ![draft[r]] = verdict[r]]
    /\ decidedBy' = [decidedBy EXCEPT ![draft[r]] = presented[r]]
    /\ decider' = [decider EXCEPT ![draft[r]] = person[r]]
    /\ writer' = None
    /\ Goto(r, "record")
    /\ UNCHANGED <<upn, requester, author, command, audit, exported, counts>>

MutantRecordApproval(r) ==
    /\ pc[r] = "record"
    /\ audit' = IF verdict[r] = "rejected" THEN audit
                ELSE audit \cup {[attempt |-> attempt[r], tool |-> verdict[r], draft |-> draft[r],
                                  by |-> presented[r], outcome |-> "ok"]}
    /\ Exit(r)
    /\ UNCHANGED <<upn, table, history, writer, exported, counts>>

\* Lines 110 to 119, or 152 to 161 for an export.
RecordOk(r) ==
    /\ pc[r] = "record"
    /\ audit' = audit \cup {[attempt |-> attempt[r], tool |-> verdict[r], draft |-> draft[r],
                             by |-> presented[r], outcome |-> "ok"]}
    /\ Exit(r)
    /\ UNCHANGED <<upn, table, history, writer, exported, counts>>

\* Lines 120 to 130, or 162 to 172 for an export.
RecordDenied(r) ==
    /\ pc[r] = "refuse"
    /\ audit' = audit \cup {[attempt |-> attempt[r], tool |-> verdict[r], draft |-> draft[r],
                             by |-> presented[r], outcome |-> "denied"]}
    /\ Exit(r)
    /\ UNCHANGED <<upn, table, history, writer, exported, counts>>

-----------------------------------------------------------------------------
(* compliance-review export.                                                *)

StartExport(r, d) ==
    /\ pc[r] = "idle"
    /\ attempts < MaxAttempts
    /\ attempts' = attempts + 1
    /\ attempt' = [attempt EXCEPT ![r] = attempts + 1]
    /\ draft' = [draft EXCEPT ![r] = d]
    /\ verdict' = [verdict EXCEPT ![r] = "export"]
    /\ Goto(r, "read")
    /\ UNCHANGED <<upn, table, history, writer, presented, person, seen, audit, exported, renames, deaths>>

ReadDraft(r) ==
    /\ pc[r] = "read"
    /\ seen' = [seen EXCEPT ![r] = status[draft[r]]]
    /\ Goto(r, "pack")
    /\ UNCHANGED <<upn, table, history, writer, presented, person, draft, verdict, attempt, audit,
                   exported, counts>>

\* build_pack refuses what is not an approved index; the zip is written before
\* it is recorded.
BuildPack(r) ==
    /\ pc[r] = "pack"
    /\ \/ /\ draft[r] \in Indexes /\ seen[r] = "approved"
          /\ exported' = exported \cup {draft[r]}
          /\ Goto(r, "record")
       \/ /\ draft[r] \notin Indexes \/ seen[r] # "approved"
          /\ Goto(r, "refuse")
          /\ UNCHANGED exported
    /\ UNCHANGED <<upn, table, history, writer, command, audit, counts>>

-----------------------------------------------------------------------------
\* The process is killed, or an exception main does not catch ends it (the
\* directory or the audit log cannot be read or written).  SQLite rolls an
\* open transaction back.
Die(r) ==
    /\ pc[r] # "idle"
    /\ deaths < MaxDeaths
    /\ deaths' = deaths + 1
    /\ writer' = IF writer = r THEN None ELSE writer
    /\ Exit(r)
    /\ UNCHANGED <<upn, table, history, audit, exported, attempts, renames>>

Finished ==
    /\ attempts = MaxAttempts
    /\ \A r \in Processes : pc[r] = "idle"
    /\ UNCHANGED vars

Init ==
    /\ upn = FirstName
    /\ status = [d \in Drafts |-> "absent"]
    /\ requester = [d \in Drafts |-> None]
    /\ decidedBy = [d \in Drafts |-> None]
    /\ author = [d \in Drafts |-> None]
    /\ decider = [d \in Drafts |-> None]
    /\ writer = None
    /\ pc = [r \in Processes |-> "idle"]
    /\ presented = [r \in Processes |-> None]
    /\ person = [r \in Processes |-> None]
    /\ draft = [r \in Processes |-> None]
    /\ verdict = [r \in Processes |-> None]
    /\ seen = [r \in Processes |-> None]
    /\ attempt = [r \in Processes |-> 0]
    /\ audit = {}
    /\ exported = {}
    /\ attempts = 0 /\ renames = 0 /\ deaths = 0

ReviewStep(r) ==
    \/ Resolve(r) \/ GetDraft(r) \/ Begin(r) \/ Locked(r) \/ Update(r) \/ Commit(r)
    \/ RecordOk(r) \/ RecordDenied(r)

Next ==
    \/ \E d \in Drafts, p \in Persons : CreateDraft(d, p)
    \/ \E p \in Persons, n \in Names : Rename(p, n)
    \/ \E r \in Processes :
          \/ \E n \in Names, d \in Drafts, v \in Decided : StartReview(r, n, d, v)
          \/ \E d \in Drafts : StartExport(r, d)
          \/ ReviewStep(r) \/ ReadDraft(r) \/ BuildPack(r) \/ Die(r)
    \/ Finished

Spec == Init /\ [][Next]_vars

-----------------------------------------------------------------------------
Labels == {"idle", "resolve", "get", "begin", "update", "commit", "record", "refuse", "read", "pack"}

TypeOK ==
    /\ upn \in [Persons -> Names]
    /\ status \in [Drafts -> {"absent", "pending"} \cup Decided]
    /\ requester \in [Drafts -> Names \cup {None}]
    /\ decidedBy \in [Drafts -> Names \cup {None}]
    /\ author \in [Drafts -> Persons \cup {None}]
    /\ decider \in [Drafts -> Persons \cup {None}]
    /\ writer \in Processes \cup {None}
    /\ pc \in [Processes -> Labels]
    /\ presented \in [Processes -> Names \cup {None}]
    /\ person \in [Processes -> Persons \cup {None}]
    /\ draft \in [Processes -> Drafts \cup {None}]
    /\ verdict \in [Processes -> Decided \cup {"export", None}]
    /\ seen \in [Processes -> {"absent", "pending", None} \cup Decided]
    /\ attempt \in [Processes -> Nat]
    /\ audit \subseteq AuditRecord
    /\ exported \subseteq Drafts
    /\ attempts \in Nat /\ renames \in Nat /\ deaths \in Nat

Lifecycle == INSTANCE DraftLifecycle

\* Whatever the processes race for, die of or are refused, every change of the
\* drafts table is one the review queue promises: filed once, decided once and
\* under another name than it was filed under (drafts.py:110-131).
ImplementsLifecycle == Lifecycle!LifecycleSpec

\* The decisions in the audit chain are those in the drafts table: no decision
\* is recorded that was not taken, is recorded twice, or is recorded for
\* somebody else (review_cli.py:109-117).
RecordsAreTrue ==
    \A a \in {x \in audit : x.outcome = "ok" /\ x.tool \in Decided} :
        /\ status[a.draft] = a.tool
        /\ decidedBy[a.draft] = a.by
        /\ \A b \in audit : b.outcome = "ok" /\ b.tool \in Decided /\ b.draft = a.draft => a = b

\* What left the system as a pack is an approved index and stays one, although
\* the export reads the draft long before it writes (review_cli.py:139-151).
ExportedStaysApproved ==
    \A d \in exported : d \in Indexes /\ status[d] = "approved"

\* Who decides a draft is an approver and not the person who filed it
\* (review_cli.py:15-16, 103-108).
FourEyes ==
    \A d \in Drafts : status[d] \in Decided => decider[d] \in Approvers \ {author[d]}

\* When no command is under way, every decision is in the audit chain: "Every
\* decision, and every refused attempt, is written to the same audit chain"
\* (review_cli.py:17).
EveryDecisionRecorded ==
    (\A r \in Processes : pc[r] = "idle") =>
        \A d \in Drafts : status[d] \in Decided =>
            \E a \in audit : a.outcome = "ok" /\ a.draft = d /\ a.tool = status[d]

\* Only a renamed person can decide their own draft: the stored requester and
\* the approver's UPN of today then differ (review_cli.py:107).
FourEyesUnlessRenamed == renames = 0 => FourEyes

\* Only a command that ends between COMMIT and its record can leave a decision
\* out of the audit chain (review_cli.py:109-110).
RecordedUnlessDied == deaths = 0 => EveryDecisionRecorded
=============================================================================
