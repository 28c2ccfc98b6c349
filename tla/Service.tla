------------------------------ MODULE Service ------------------------------
(***************************************************************************)
(* The audited wrapper of service.py around every tool: read the directory  *)
(* version, resolve and authorise the caller, charge the rate limiter, run  *)
(* the body, write the audit record, answer.  Worker threads run it at the  *)
(* same time over one Directory.                                            *)
(*                                                                          *)
(* AuditLog and RateLimiter have modules of their own.  Here a record is    *)
(* appended, or the write raises before or after it was; the limiter        *)
(* admits or refuses.  The body of draft_create commits a draft.            *)
(***************************************************************************)
EXTENDS Directory, Sequences, FiniteSets

CONSTANTS
    MaxCalls,       \* bound: calls in one behaviour
    MaxWriteFaults  \* bound: audit writes that raise

ASSUME ServiceAssumption == MaxCalls \in Nat /\ MaxWriteFaults \in Nat

VARIABLES
    pc,        \* where a thread is in wrapper
    call,      \* the number of its call
    caller,    \* who called
    cited,     \* directory_version bound into record
    basis,     \* the snapshot resolve looked the caller up in
    outcome,   \* the outcome it is about to record
    calls,     \* calls so far
    drafts,    \* calls that committed a draft
    records,   \* the audit chain
    answers,   \* what the calls returned
    broken     \* calls in which audit.write raised

frame == <<call, caller, cited, basis, outcome>>
results == <<calls, drafts, records, answers, broken>>
vars == <<dirVars, pc, frame, results>>

Step(t, label) == pc' = [pc EXCEPT ![t] = label]
\* The wrapper returns or raises; its locals are gone.
Return(t) ==
    /\ Step(t, "idle")
    /\ call' = [call EXCEPT ![t] = 0]
    /\ cited' = [cited EXCEPT ![t] = 0]
    /\ basis' = [basis EXCEPT ![t] = 0]
    /\ outcome' = [outcome EXCEPT ![t] = "error"]
    /\ caller' = [caller EXCEPT ![t] = None]
Conclude(t, o) == outcome' = [outcome EXCEPT ![t] = o] /\ Step(t, "record")

-----------------------------------------------------------------------------
\* A tool call arrives; line 87 reads directory.version first.
Call(t, c) ==
    /\ pc[t] = "idle"
    /\ calls < MaxCalls
    /\ ReadClock(t)
    /\ calls' = calls + 1
    /\ call' = [call EXCEPT ![t] = calls + 1]
    /\ caller' = [caller EXCEPT ![t] = c]
    /\ Step(t, "version")
    /\ UNCHANGED <<cited, basis, outcome, drafts, records, answers, broken>>

Cite(t) ==
    /\ pc[t] = "version"
    /\ load[t] = "done"
    /\ cited' = [cited EXCEPT ![t] = version]
    /\ Leave(t)
    /\ Step(t, "resolve")
    /\ UNCHANGED <<call, caller, basis, outcome, results>>

\* Line 87 is outside the try: the exception leaves the wrapper, unrecorded.
VersionRaises(t) ==
    /\ pc[t] = "version"
    /\ load[t] = "failed"
    /\ Leave(t)
    /\ Return(t)
    /\ UNCHANGED results

\* resolve loads once more, then looks the caller up.
Resolve(t) ==
    /\ pc[t] = "resolve"
    /\ ReadClock(t)
    /\ Step(t, "lookup")
    /\ UNCHANGED <<frame, results>>

Authorise(t) ==
    /\ pc[t] = "lookup"
    /\ load[t] = "done"
    /\ basis' = [basis EXCEPT ![t] = users]
    /\ Leave(t)
    /\ IF caller[t] \in members[users]
         THEN Step(t, "body") /\ UNCHANGED outcome
         ELSE Conclude(t, "denied")
    /\ UNCHANGED <<call, caller, cited, results>>

ResolveRaises(t) ==
    /\ pc[t] = "lookup"
    /\ load[t] = "failed"
    /\ Leave(t)
    /\ Conclude(t, "error")
    /\ UNCHANGED <<call, caller, cited, basis, results>>

MutantLimitLate(t) ==
    /\ pc[t] = "body"
    /\ \/ drafts' = drafts
       \/ drafts' = drafts \cup {call[t]}
    /\ Conclude(t, "denied")
    /\ UNCHANGED <<dirVars, call, caller, cited, basis, calls, records, answers, broken>>

RateLimited(t) ==
    /\ pc[t] = "body"
    /\ Conclude(t, "denied")
    /\ UNCHANGED <<dirVars, call, caller, cited, basis, results>>

\* A read tool, or draft_create whose INSERT has committed.
BodyReturns(t) ==
    /\ pc[t] = "body"
    /\ \/ drafts' = drafts
       \/ drafts' = drafts \cup {call[t]}
    /\ Conclude(t, "ok")
    /\ UNCHANGED <<dirVars, call, caller, cited, basis, calls, records, answers, broken>>

\* InvalidInput, NotFound, DraftRejected or any other exception of a body: all
\* of them leave before the INSERT or roll it back.
BodyRaises(t) ==
    /\ pc[t] = "body"
    /\ Conclude(t, "error")
    /\ UNCHANGED <<dirVars, call, caller, cited, basis, results>>

-----------------------------------------------------------------------------
MutantEntryLate(t) == [call |-> call[t], outcome |-> outcome[t], cited |-> version, basis |-> basis[t]]
\* What audit.write is given; basis is not part of the record.
Entry(t) == [call |-> call[t], outcome |-> outcome[t], cited |-> cited[t], basis |-> basis[t]]
Answer(t) == answers' = answers \cup {[call |-> call[t], outcome |-> outcome[t]]}

Record(t) ==
    /\ pc[t] = "record"
    /\ records' = Append(records, Entry(t))
    /\ Answer(t)
    /\ Return(t)
    /\ UNCHANGED <<dirVars, calls, drafts, broken>>

MutantSwallow(t) ==
    /\ pc[t] = "record"
    /\ Cardinality(broken) < MaxWriteFaults
    /\ broken' = broken \cup {call[t]}
    /\ records' \in {records, Append(records, Entry(t))}
    /\ Answer(t)
    /\ Return(t)
    /\ UNCHANGED <<dirVars, calls, drafts>>

\* audit.write raises, before the line is written (a full disk, a torn tail) or
\* after (the rotation, the spool).  The record of a body that returned is in
\* the try, so a second record, "error", is attempted; another one is not.
RecordRaises(t) ==
    /\ pc[t] = "record"
    /\ Cardinality(broken) < MaxWriteFaults
    /\ broken' = broken \cup {call[t]}
    /\ records' \in {records, Append(records, Entry(t))}
    /\ IF outcome[t] = "ok"
         THEN Conclude(t, "error") /\ UNCHANGED <<call, caller, cited, basis>>
         ELSE Return(t)
    /\ UNCHANGED <<dirVars, calls, drafts, answers>>

-----------------------------------------------------------------------------
Load(t) ==
    /\ LoadStep(t) \/ LoadFails(t)
    /\ UNCHANGED <<pc, frame, results>>

Around ==
    /\ World
    /\ UNCHANGED <<pc, frame, results>>

Init ==
    /\ DirInit
    /\ pc = [t \in Threads |-> "idle"]
    /\ call = [t \in Threads |-> 0]
    /\ caller = [t \in Threads |-> None]
    /\ cited = [t \in Threads |-> 0]
    /\ basis = [t \in Threads |-> 0]
    /\ outcome = [t \in Threads |-> "error"]
    /\ calls = 0
    /\ drafts = {}
    /\ records = <<>>
    /\ answers = {}
    /\ broken = {}

CallStep(t) ==
    \/ Cite(t) \/ VersionRaises(t)
    \/ Resolve(t) \/ Authorise(t) \/ ResolveRaises(t)
    \/ RateLimited(t) \/ BodyReturns(t) \/ BodyRaises(t)
    \/ Record(t) \/ RecordRaises(t)

Next ==
    \/ Around
    \/ \E t \in Threads : (\E c \in Callers : Call(t, c)) \/ Load(t) \/ CallStep(t)

Spec == Init /\ [][Next]_vars

-----------------------------------------------------------------------------
Outcomes == {"ok", "denied", "error"}
RecordType == [call : Nat, outcome : Outcomes, cited : Nat, basis : Nat]

TypeOK ==
    /\ DirTypeOK
    /\ pc \in [Threads -> {"idle", "version", "resolve", "lookup", "body", "record"}]
    /\ call \in [Threads -> 0..calls]
    /\ caller \in [Threads -> Callers \cup {None}]
    /\ cited \in [Threads -> Nat]
    /\ basis \in [Threads -> Nat]
    /\ outcome \in [Threads -> Outcomes]
    /\ calls \in 0..MaxCalls
    /\ drafts \subseteq 1..calls /\ broken \subseteq 1..calls
    /\ records \in Seq(RecordType)
    /\ answers \subseteq [call : Nat, outcome : Outcomes]
    /\ \A t \in Threads : load[t] # "off" => pc[t] \in {"version", "lookup"}

\* Where the chain has a record of call k.
Places(k) == {i \in DOMAIN records : records[i].call = k}
RecordedAs(k, o) == \E i \in DOMAIN records : Places(k) = {i} /\ records[i].outcome = o
RecordedTwice(k) ==
    \E i, j \in DOMAIN records :
        /\ Places(k) = {i, j} /\ i < j
        /\ records[i].outcome = "ok" /\ records[j].outcome = "error"

Finished(k) == k \in 1..calls /\ \A t \in Threads : call[t] # k

\* A record never names a snapshot newer than the one that decided the call
\* (directory.py:10-11); after a reload between line 87 and the lookup it may
\* name an older one.
CitesNoNewerSnapshot ==
    \A i \in DOMAIN records : records[i].basis # 0 => records[i].cited <= records[i].basis

\* What a caller was answered is in the chain: one record with that outcome,
\* the last of its call, after at most one "ok" whose write raised once the line
\* was written (service.py:4-5).
AnswersAreRecorded ==
    \A a \in answers :
        \/ RecordedAs(a.call, a.outcome)
        \/ a.outcome = "error" /\ a.call \in broken /\ RecordedTwice(a.call)

\* A draft a call committed is recorded as "ok" once the call is over, unless
\* its audit write raised; a call that was refused or failed left none.
DraftsAreRecorded ==
    \A k \in drafts : Finished(k) /\ k \notin broken => RecordedAs(k, "ok")
=============================================================================
