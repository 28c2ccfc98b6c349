------------------------- MODULE DraftReview_proofs -------------------------
(***************************************************************************)
(* For any numbers of people, drafts, terminals and commands, and whatever  *)
(* the processes die of: the drafts table changes only as DraftLifecycle    *)
(* says, and the audit chain never claims a decision that is not in it.     *)
(***************************************************************************)
EXTENDS DraftReview, TLAPS

USE ReviewAssumption

\* What a process has established by the time it reaches a statement.
Arguments ==
    \A r \in Processes : pc[r] # "idle" =>
        /\ draft[r] \in Drafts
        /\ verdict[r] \in Decided \cup {"export"}
        /\ pc[r] \in {"resolve", "get", "begin", "update", "commit"} =>
               verdict[r] \in Decided /\ presented[r] \in Names
        /\ pc[r] \in {"read", "pack"} => verdict[r] = "export"

\* From the check of line 107 on, the process decides a filed draft under
\* another name than its requester's.
Vetted ==
    \A r \in Processes : pc[r] \in {"begin", "update", "commit"} =>
        /\ status[draft[r]] # "absent"
        /\ requester[draft[r]] # presented[r]

\* Inside the transaction the write lock is held, and nothing has decided the
\* draft since the UPDATE found it pending.
InTransaction ==
    \A r \in Processes :
        /\ pc[r] \in {"update", "commit"} => writer = r
        /\ pc[r] = "commit" => status[draft[r]] = "pending"

ReviewInv == TypeOK /\ Arguments /\ Vetted /\ InTransaction

-----------------------------------------------------------------------------
LEMMA TypesKept == ASSUME TypeOK, Arguments, [Next]_vars PROVE TypeOK'
<1> USE DEF TypeOK, Goto, Exit, table, history, command, counts, Labels
<1>1. ASSUME NEW d \in Drafts, NEW p \in Persons, CreateDraft(d, p) PROVE TypeOK'
  BY <1>1 DEF CreateDraft
<1>2. ASSUME NEW p \in Persons, NEW n \in Names, Rename(p, n) PROVE TypeOK'
  BY <1>2 DEF Rename
<1>3. ASSUME NEW r \in Processes, NEW n \in Names, NEW d \in Drafts, NEW v \in Decided, StartReview(r, n, d, v)
      PROVE  TypeOK'
  BY <1>3 DEF StartReview
<1>4. ASSUME NEW r \in Processes, NEW d \in Drafts, StartExport(r, d) PROVE TypeOK'
  BY <1>4 DEF StartExport
<1>5. ASSUME NEW r \in Processes, Resolve(r) PROVE TypeOK'
  BY <1>5 DEF Resolve, Resolved
<1>6. ASSUME NEW r \in Processes, GetDraft(r) \/ Begin(r) \/ Locked(r) \/ Update(r) PROVE TypeOK'
  BY <1>6 DEF GetDraft, Begin, Locked, Update
<1>7. ASSUME NEW r \in Processes, Commit(r) PROVE TypeOK'
  BY <1>7 DEF Commit, Arguments
<1>8. ASSUME NEW r \in Processes, RecordOk(r) \/ RecordDenied(r) PROVE TypeOK'
  <2>1. \A o \in {"ok", "denied"} :
           pc[r] # "idle" => [attempt |-> attempt[r], tool |-> verdict[r], draft |-> draft[r],
                              by |-> presented[r], outcome |-> o] \in AuditRecord
    BY DEF Arguments, AuditRecord
  <2>2. audit' \subseteq AuditRecord
    BY <1>8, <2>1 DEF RecordOk, RecordDenied
  <2> QED BY <1>8, <2>2, SMTT(40) DEF RecordOk, RecordDenied
<1>9. ASSUME NEW r \in Processes, ReadDraft(r) \/ BuildPack(r) \/ Die(r) PROVE TypeOK'
  BY <1>9 DEF ReadDraft, BuildPack, Die, Arguments
<1>10. CASE UNCHANGED vars
  BY <1>10 DEF vars
<1> QED BY <1>1, <1>2, <1>3, <1>4, <1>5, <1>6, <1>7, <1>8, <1>9, <1>10 DEF Next, ReviewStep, Finished

LEMMA ArgumentsKept == ASSUME TypeOK, Arguments, [Next]_vars PROVE Arguments'
<1> USE DEF TypeOK, Arguments, Goto, Exit, table, history, command, counts
<1>1. ASSUME NEW d \in Drafts, NEW p \in Persons, CreateDraft(d, p) PROVE Arguments'
  BY <1>1 DEF CreateDraft
<1>2. ASSUME NEW p \in Persons, NEW n \in Names, Rename(p, n) PROVE Arguments'
  BY <1>2 DEF Rename
<1>3. ASSUME NEW r \in Processes, NEW n \in Names, NEW d \in Drafts, NEW v \in Decided, StartReview(r, n, d, v)
      PROVE  Arguments'
  BY <1>3 DEF StartReview
<1>4. ASSUME NEW r \in Processes, NEW d \in Drafts, StartExport(r, d) PROVE Arguments'
  BY <1>4 DEF StartExport
<1>5. ASSUME NEW r \in Processes, Resolve(r) PROVE Arguments'
  BY <1>5 DEF Resolve
<1>6. ASSUME NEW r \in Processes, GetDraft(r) \/ Begin(r) \/ Locked(r) \/ Update(r) \/ Commit(r)
      PROVE  Arguments'
  BY <1>6 DEF GetDraft, Begin, Locked, Update, Commit
<1>7. ASSUME NEW r \in Processes, RecordOk(r) \/ RecordDenied(r) \/ ReadDraft(r) \/ BuildPack(r) \/ Die(r)
      PROVE  Arguments'
  BY <1>7 DEF RecordOk, RecordDenied, ReadDraft, BuildPack, Die
<1>8. CASE UNCHANGED vars
  BY <1>8 DEF vars
<1> QED BY <1>1, <1>2, <1>3, <1>4, <1>5, <1>6, <1>7, <1>8 DEF Next, ReviewStep, Finished

\* A filed draft keeps its requester and is never "absent" again.
LEMMA DraftsStayFiled ==
    ASSUME ReviewInv, [Next]_vars, NEW d \in Drafts, status[d] # "absent"
    PROVE  status'[d] # "absent" /\ requester'[d] = requester[d]
<1>1. ASSUME NEW r \in Processes, Commit(r) PROVE status'[d] # "absent" /\ requester'[d] = requester[d]
  BY <1>1 DEF Commit, ReviewInv, TypeOK, Arguments, Decided
<1>2. CASE UNCHANGED <<status, requester>>
  BY <1>2
<1>3. ASSUME NEW e \in Drafts, NEW p \in Persons, CreateDraft(e, p)
      PROVE  status'[d] # "absent" /\ requester'[d] = requester[d]
  BY <1>3 DEF CreateDraft, ReviewInv, TypeOK
<1>4. \/ UNCHANGED <<status, requester>>
      \/ \E r \in Processes : Commit(r)
      \/ \E e \in Drafts, p \in Persons : CreateDraft(e, p)
  BY DEF Next, ReviewStep, Rename, StartReview, StartExport, Resolve, GetDraft, Begin, Locked, Update,
         RecordOk, RecordDenied, ReadDraft, BuildPack, Die, Finished, vars, table
<1> QED BY <1>1, <1>2, <1>3, <1>4

LEMMA VettedKept == ASSUME ReviewInv, [Next]_vars PROVE Vetted'
<1> SUFFICES ASSUME NEW r \in Processes, pc'[r] \in {"begin", "update", "commit"}
             PROVE  status'[draft'[r]] # "absent" /\ requester'[draft'[r]] # presented'[r]
  BY DEF Vetted
<1>1. pc[r] \in {"get", "begin", "update", "commit"} /\ draft'[r] = draft[r] /\ presented'[r] = presented[r]
  BY DEF ReviewInv, TypeOK, Goto, Exit, command, Next, ReviewStep, CreateDraft, Rename, StartReview, StartExport,
         Resolve, GetDraft, Begin, Locked, Update, Commit, RecordOk, RecordDenied, ReadDraft, BuildPack, Die,
         Finished, vars
<1>2. draft[r] \in Drafts
  BY <1>1 DEF ReviewInv, Arguments
<1>3. status[draft[r]] # "absent" /\ requester[draft[r]] # presented[r]
  <2>1. CASE pc[r] # "get"
    BY <2>1, <1>1 DEF ReviewInv, Vetted
  <2>2. CASE pc[r] = "get"
    <3>1. GetDraft(r)
      BY <2>2 DEF ReviewInv, TypeOK, Goto, Exit, Next, ReviewStep, CreateDraft, Rename, StartReview,
             StartExport, Resolve, GetDraft, Begin, Locked, Update, Commit, RecordOk, RecordDenied, ReadDraft,
             BuildPack, Die, Finished, vars
    <3> QED BY <2>2, <3>1 DEF GetDraft, MayDecide, Goto, ReviewInv, TypeOK
  <2> QED BY <2>1, <2>2
<1> QED BY <1>1, <1>2, <1>3, DraftsStayFiled

LEMMA TransactionKept == ASSUME ReviewInv, [Next]_vars PROVE InTransaction'
<1> USE DEF ReviewInv, TypeOK, InTransaction, Goto, Exit, table, history, command, counts
<1>1. ASSUME NEW d \in Drafts, NEW p \in Persons, CreateDraft(d, p) PROVE InTransaction'
  BY <1>1 DEF CreateDraft
<1>2. ASSUME NEW r \in Processes, Begin(r) \/ Update(r) \/ Locked(r) \/ GetDraft(r) \/ Resolve(r)
      PROVE  InTransaction'
  BY <1>2 DEF Begin, Update, Locked, GetDraft, Resolve
<1>3. ASSUME NEW r \in Processes, Commit(r) PROVE InTransaction'
  BY <1>3 DEF Commit
<1>4. ASSUME NEW r \in Processes, RecordOk(r) \/ RecordDenied(r) \/ ReadDraft(r) \/ BuildPack(r) \/ Die(r)
      PROVE  InTransaction'
  BY <1>4 DEF RecordOk, RecordDenied, ReadDraft, BuildPack, Die
<1>5. ASSUME NEW r \in Processes, NEW d \in Drafts, NEW n \in Names, NEW v \in Decided, StartReview(r, n, d, v)
      PROVE  InTransaction'
  BY <1>5 DEF StartReview
<1>6. ASSUME NEW p \in Persons, NEW n \in Names, Rename(p, n) PROVE InTransaction'
  BY <1>6 DEF Rename
<1>7. CASE UNCHANGED vars
  BY <1>7 DEF vars
<1>8. ASSUME NEW r \in Processes, NEW d \in Drafts, StartExport(r, d) PROVE InTransaction'
  BY <1>8 DEF StartExport
<1> QED BY <1>1, <1>2, <1>3, <1>4, <1>5, <1>6, <1>7, <1>8 DEF Next, ReviewStep, Finished

LEMMA InvHolds == Spec => []ReviewInv
<1>1. Init => ReviewInv
  BY DEF Init, ReviewInv, TypeOK, Arguments, Vetted, InTransaction, Labels, Decided
<1>2. ReviewInv /\ [Next]_vars => ReviewInv'
  <2> SUFFICES ASSUME ReviewInv, [Next]_vars PROVE ReviewInv'
    OBVIOUS
  <2>1. TypeOK' /\ Arguments'
    BY TypesKept, ArgumentsKept DEF ReviewInv
  <2>2. Vetted' /\ InTransaction'
    BY VettedKept, TransactionKept
  <2> QED BY <2>1, <2>2 DEF ReviewInv
<1> QED BY <1>1, <1>2, PTL DEF Spec

-----------------------------------------------------------------------------
\* The type invariant, for any numbers of people, drafts and terminals.
THEOREM TypeCorrect == Spec => []TypeOK
<1>1. ReviewInv => TypeOK
  BY DEF ReviewInv
<1> QED BY <1>1, InvHolds, PTL

LEMMA StepIsLifecycleStep ==
    ASSUME ReviewInv, [Next]_vars
    PROVE  [Lifecycle!LifecycleNext]_(Lifecycle!draftVars)
<1> USE DEF Lifecycle!draftVars
<1>1. ASSUME NEW d \in Drafts, NEW p \in Persons, CreateDraft(d, p) PROVE Lifecycle!LifecycleNext
  <2>1. upn[p] \in Names
    BY DEF ReviewInv, TypeOK
  <2>2. Lifecycle!File(d, upn[p])
    BY <1>1 DEF CreateDraft, Lifecycle!File
  <2> QED BY <2>1, <2>2 DEF Lifecycle!LifecycleNext
<1>2. ASSUME NEW r \in Processes, Commit(r) PROVE Lifecycle!LifecycleNext
  <2>1. draft[r] \in Drafts /\ verdict[r] \in Lifecycle!Decided /\ presented[r] \in Names
    BY <1>2 DEF Commit, ReviewInv, Arguments, Decided, Lifecycle!Decided
  <2>2. Lifecycle!Decide(draft[r], verdict[r], presented[r])
    BY <1>2 DEF Commit, ReviewInv, Vetted, InTransaction, Lifecycle!Decide
  <2> QED BY <2>1, <2>2 DEF Lifecycle!LifecycleNext
<1>3. \/ UNCHANGED <<status, requester, decidedBy>>
      \/ \E r \in Processes : Commit(r)
      \/ \E d \in Drafts, p \in Persons : CreateDraft(d, p)
  BY DEF Next, ReviewStep, Rename, StartReview, StartExport, Resolve, GetDraft, Begin, Locked, Update,
         RecordOk, RecordDenied, ReadDraft, BuildPack, Die, Finished, vars, table
<1> QED BY <1>1, <1>2, <1>3

\* The queue promises what drafts.py:8-9 says, whoever races, whatever the
\* processes die of and whoever is renamed meanwhile.
THEOREM ReviewImplementsLifecycle == Spec => ImplementsLifecycle
<1>1. Init => Lifecycle!LifecycleInit
  BY DEF Init, Lifecycle!LifecycleInit
<1>2. ReviewInv /\ [Next]_vars => [Lifecycle!LifecycleNext]_(Lifecycle!draftVars)
  BY StepIsLifecycleStep
<1> QED BY <1>1, <1>2, InvHolds, PTL DEF Spec, ImplementsLifecycle, Lifecycle!LifecycleSpec

-----------------------------------------------------------------------------
\* A record in the audit chain that claims a decision.
Claims(a) == a.outcome = "ok" /\ a.tool \in Decided

\* A process about to record its decision is the only one with a claim on it.
AboutToRecord ==
    \A r \in Processes : pc[r] = "record" /\ verdict[r] \in Decided =>
        /\ status[draft[r]] = verdict[r] /\ decidedBy[draft[r]] = presented[r]
        /\ \A a \in audit : Claims(a) => a.draft # draft[r]
        /\ \A q \in Processes \ {r} : pc[q] = "record" /\ verdict[q] \in Decided => draft[q] # draft[r]

\* RecordsAreTrue as a fact about single records.
ClaimsHold ==
    /\ \A a \in audit : Claims(a) => status[a.draft] = a.tool /\ decidedBy[a.draft] = a.by
    /\ \A a, b \in audit : Claims(a) /\ Claims(b) /\ a.draft = b.draft => a = b

LEMMA DecisionsStay ==
    ASSUME ReviewInv, [Next]_vars, NEW d \in Drafts, status[d] \in Decided
    PROVE  status'[d] = status[d] /\ decidedBy'[d] = decidedBy[d]
<1>1. [Lifecycle!LifecycleNext]_(Lifecycle!draftVars)
  BY StepIsLifecycleStep
<1> QED BY <1>1 DEF Lifecycle!LifecycleNext, Lifecycle!draftVars, Lifecycle!File, Lifecycle!Decide,
                    Decided, ReviewInv, TypeOK

LEMMA RecordKeepsClaims ==
    ASSUME ReviewInv, AboutToRecord, ClaimsHold, NEW r \in Processes, RecordOk(r)
    PROVE  AboutToRecord' /\ ClaimsHold'
<1> USE DEF ReviewInv, TypeOK, table
<1>1. PICK rec : /\ audit' = audit \cup {rec}
                 /\ rec = [attempt |-> attempt[r], tool |-> verdict[r], draft |-> draft[r],
                           by |-> presented[r], outcome |-> "ok"]
  BY DEF RecordOk
<1>2. Claims(rec) <=> verdict[r] \in Decided
  BY <1>1 DEF Claims
<1>3. /\ UNCHANGED <<status, decidedBy>> /\ pc[r] = "record"
      /\ \A q \in Processes \ {r} : /\ pc'[q] = pc[q] /\ draft'[q] = draft[q]
                                    /\ verdict'[q] = verdict[q] /\ presented'[q] = presented[q]
      /\ pc'[r] = "idle"
  BY DEF RecordOk, Exit, Goto
<1>4. ClaimsHold'
  <2>1. ASSUME NEW a \in audit', Claims(a) PROVE status'[a.draft] = a.tool /\ decidedBy'[a.draft] = a.by
    BY <2>1, <1>1, <1>2, <1>3 DEF ClaimsHold, AboutToRecord
  <2>2. ASSUME NEW a \in audit', NEW b \in audit', Claims(a), Claims(b), a.draft = b.draft PROVE a = b
    BY <2>2, <1>1, <1>2, <1>3 DEF ClaimsHold, AboutToRecord
  <2> QED BY <2>1, <2>2 DEF ClaimsHold, Claims
<1>5. AboutToRecord'
  <2> SUFFICES ASSUME NEW q \in Processes, pc'[q] = "record", verdict'[q] \in Decided
               PROVE  /\ status'[draft'[q]] = verdict'[q] /\ decidedBy'[draft'[q]] = presented'[q]
                      /\ \A a \in audit' : Claims(a) => a.draft # draft'[q]
                      /\ \A p \in Processes \ {q} :
                             pc'[p] = "record" /\ verdict'[p] \in Decided => draft'[p] # draft'[q]
    BY DEF AboutToRecord, Claims
  <2>1. q # r
    BY <1>3
  <2>2. \A a \in audit' : Claims(a) => a.draft # draft[q]
    BY <1>1, <1>2, <1>3, <2>1 DEF AboutToRecord
  <2> QED BY <1>3, <2>1, <2>2 DEF AboutToRecord
<1> QED BY <1>4, <1>5

\* Steps that neither append a claim nor decide keep what was claimed.
LEMMA OthersKeepClaims ==
    ASSUME ReviewInv, AboutToRecord, ClaimsHold, [Next]_vars,
           \A a \in audit' \ audit : ~Claims(a), audit \subseteq audit',
           \A r \in Processes : pc'[r] = "record" /\ verdict'[r] \in Decided =>
               /\ pc[r] = "record" /\ verdict[r] \in Decided
               /\ draft'[r] = draft[r] /\ verdict'[r] = verdict[r] /\ presented'[r] = presented[r]
    PROVE  AboutToRecord' /\ ClaimsHold'
<1>1. \A d \in Drafts : status[d] \in Decided => status'[d] = status[d] /\ decidedBy'[d] = decidedBy[d]
  BY DecisionsStay
<1>2. \A a \in audit : a.draft \in Drafts
  BY DEF ReviewInv, TypeOK, AuditRecord
<1>3. \A a \in audit' : Claims(a) => a \in audit /\ a.tool \in Decided
  BY DEF Claims
<1>4. ClaimsHold'
  <2>1. ASSUME NEW a \in audit', Claims(a) PROVE status'[a.draft] = a.tool /\ decidedBy'[a.draft] = a.by
    BY <2>1, <1>1, <1>2, <1>3 DEF ClaimsHold
  <2>2. ASSUME NEW a \in audit', NEW b \in audit', Claims(a), Claims(b), a.draft = b.draft PROVE a = b
    BY <2>2, <1>3 DEF ClaimsHold
  <2> QED BY <2>1, <2>2 DEF ClaimsHold, Claims
<1>5. AboutToRecord'
  <2> SUFFICES ASSUME NEW q \in Processes, pc'[q] = "record", verdict'[q] \in Decided
               PROVE  /\ status'[draft'[q]] = verdict'[q] /\ decidedBy'[draft'[q]] = presented'[q]
                      /\ \A a \in audit' : Claims(a) => a.draft # draft'[q]
                      /\ \A p \in Processes \ {q} :
                             pc'[p] = "record" /\ verdict'[p] \in Decided => draft'[p] # draft'[q]
    BY DEF AboutToRecord, Claims
  <2>1. /\ pc[q] = "record" /\ verdict[q] \in Decided /\ draft[q] \in Drafts
        /\ draft'[q] = draft[q] /\ verdict'[q] = verdict[q] /\ presented'[q] = presented[q]
    BY DEF ReviewInv, Arguments
  <2>2. status[draft[q]] = verdict[q] /\ decidedBy[draft[q]] = presented[q]
    BY <2>1 DEF AboutToRecord
  <2>3. status'[draft'[q]] = verdict'[q] /\ decidedBy'[draft'[q]] = presented'[q]
    BY <1>1, <2>1, <2>2
  <2>4. \A a \in audit' : Claims(a) => a.draft # draft'[q]
    BY <1>3, <2>1 DEF AboutToRecord
  <2>5. \A p \in Processes \ {q} : pc'[p] = "record" /\ verdict'[p] \in Decided => draft'[p] # draft'[q]
    BY <2>1 DEF AboutToRecord
  <2> QED BY <2>3, <2>4, <2>5
<1> QED BY <1>4, <1>5

LEMMA CommitClaims ==
    ASSUME ReviewInv, AboutToRecord, ClaimsHold, NEW r \in Processes, Commit(r)
    PROVE  AboutToRecord' /\ ClaimsHold'
<1> USE DEF ReviewInv, TypeOK
<1>1. /\ draft[r] \in Drafts /\ verdict[r] \in Decided /\ pc[r] = "commit"
      /\ status[draft[r]] = "pending"
  BY DEF Commit, Arguments, InTransaction
<1>2. /\ \A q \in Processes : draft'[q] = draft[q] /\ verdict'[q] = verdict[q] /\ presented'[q] = presented[q]
      /\ \A q \in Processes \ {r} : pc'[q] = pc[q]
      /\ audit' = audit
      /\ status'[draft[r]] = verdict[r] /\ decidedBy'[draft[r]] = presented[r]
      /\ \A d \in Drafts \ {draft[r]} : status'[d] = status[d] /\ decidedBy'[d] = decidedBy[d]
  BY <1>1 DEF Commit, Goto, command
<1>3. \A a \in audit : Claims(a) => a.draft \in Drafts \ {draft[r]}
  BY <1>1 DEF ClaimsHold, Claims, Decided, AuditRecord
<1>4. \A q \in Processes : pc[q] = "record" /\ verdict[q] \in Decided => draft[q] \in Drafts \ {draft[r]}
  BY <1>1 DEF AboutToRecord, Decided, Arguments
<1>5. ClaimsHold'
  <2>1. ASSUME NEW a \in audit', Claims(a) PROVE status'[a.draft] = a.tool /\ decidedBy'[a.draft] = a.by
    BY <2>1, <1>2, <1>3 DEF ClaimsHold
  <2> QED BY <2>1, <1>2 DEF ClaimsHold, Claims
<1>6. AboutToRecord'
  <2> SUFFICES ASSUME NEW q \in Processes, pc'[q] = "record", verdict'[q] \in Decided
               PROVE  /\ status'[draft'[q]] = verdict'[q] /\ decidedBy'[draft'[q]] = presented'[q]
                      /\ \A a \in audit' : Claims(a) => a.draft # draft'[q]
                      /\ \A p \in Processes \ {q} :
                             pc'[p] = "record" /\ verdict'[p] \in Decided => draft'[p] # draft'[q]
    BY DEF AboutToRecord, Claims
  <2>1. CASE q = r
    BY <2>1, <1>2, <1>3, <1>4
  <2>2. CASE q # r
    <3>1. /\ pc[q] = "record" /\ verdict[q] \in Decided /\ draft[q] \in Drafts \ {draft[r]}
      BY <2>2, <1>2, <1>4
    <3>2. status'[draft'[q]] = verdict'[q] /\ decidedBy'[draft'[q]] = presented'[q]
      BY <3>1, <1>2 DEF AboutToRecord
    <3>3. \A a \in audit' : Claims(a) => a.draft # draft'[q]
      BY <3>1, <1>2 DEF AboutToRecord
    <3>4. \A p \in Processes \ {q} : pc'[p] = "record" /\ verdict'[p] \in Decided => draft'[p] # draft'[q]
      BY <3>1, <1>2 DEF AboutToRecord
    <3> QED BY <3>2, <3>3, <3>4
  <2> QED BY <2>1, <2>2
<1> QED BY <1>5, <1>6

\* Whoever races and dies, the audit chain claims only decisions that were
\* taken, for whom they were taken, and each once (review_cli.py:109-117).
THEOREM ChainClaimsAreTrue == Spec => []RecordsAreTrue
<1>1. Init => AboutToRecord /\ ClaimsHold
  BY DEF Init, AboutToRecord, ClaimsHold
<1>2. ReviewInv /\ AboutToRecord /\ ClaimsHold /\ [Next]_vars => AboutToRecord' /\ ClaimsHold'
  <2> SUFFICES ASSUME ReviewInv, AboutToRecord, ClaimsHold, [Next]_vars
               PROVE  AboutToRecord' /\ ClaimsHold'
    OBVIOUS
  <2> DEFINE NoNewClaim ==
        /\ \A a \in audit' \ audit : ~Claims(a)
        /\ audit \subseteq audit'
        /\ \A r \in Processes : pc'[r] = "record" /\ verdict'[r] \in Decided =>
               /\ pc[r] = "record" /\ verdict[r] \in Decided
               /\ draft'[r] = draft[r] /\ verdict'[r] = verdict[r] /\ presented'[r] = presented[r]
  <2> USE DEF ReviewInv, TypeOK, Goto, Exit, table, history, command, counts
  <2>1. ASSUME NEW r \in Processes, Resolve(r) \/ GetDraft(r) \/ Begin(r) \/ Locked(r) \/ Update(r) PROVE NoNewClaim
    BY <2>1 DEF Resolve, GetDraft, Begin, Locked, Update
  <2>2. ASSUME NEW r \in Processes, RecordDenied(r) PROVE NoNewClaim
    BY <2>2 DEF RecordDenied, Claims
  <2>3. ASSUME NEW r \in Processes, ReadDraft(r) \/ BuildPack(r) \/ Die(r) PROVE NoNewClaim
    BY <2>3 DEF ReadDraft, BuildPack, Die, Arguments, Decided
  <2>4. ASSUME NEW r \in Processes, NEW n \in Names, NEW d \in Drafts, NEW v \in Decided, StartReview(r, n, d, v)
        PROVE  NoNewClaim
    BY <2>4 DEF StartReview
  <2>5. ASSUME NEW r \in Processes, NEW d \in Drafts, StartExport(r, d) PROVE NoNewClaim
    BY <2>5 DEF StartExport
  <2>6. ASSUME NEW d \in Drafts, NEW p \in Persons, CreateDraft(d, p) PROVE NoNewClaim
    BY <2>6 DEF CreateDraft
  <2>7. ASSUME NEW p \in Persons, NEW n \in Names, Rename(p, n) PROVE NoNewClaim
    BY <2>7 DEF Rename
  <2>8. CASE UNCHANGED vars
    <3>1. UNCHANGED <<audit, pc, verdict, draft, presented, status, decidedBy>>
      BY <2>8 DEF vars
    <3> QED BY <3>1, Zenon DEF AboutToRecord, ClaimsHold, Claims
  <2>9. CASE NoNewClaim
    BY <2>9, OthersKeepClaims
  <2> QED BY <2>1, <2>2, <2>3, <2>4, <2>5, <2>6, <2>7, <2>8, <2>9, CommitClaims, RecordKeepsClaims
          DEF Next, ReviewStep, Finished
<1>3. ClaimsHold => RecordsAreTrue
  BY DEF ClaimsHold, RecordsAreTrue, Claims
<1> QED BY <1>1, <1>2, <1>3, InvHolds, PTL DEF Spec

-----------------------------------------------------------------------------
\* While nobody is renamed, the names in the drafts table stand for people.
NamesStand ==
    /\ upn = FirstName
    /\ \A d \in Drafts : status[d] # "absent" =>
           author[d] \in Persons /\ requester[d] = FirstName[author[d]]
    /\ \A r \in Processes : pc[r] \in {"get", "begin", "update", "commit"} /\ verdict[r] \in Decided =>
           person[r] \in Approvers /\ presented[r] = FirstName[person[r]]

LEMMA NamesStandKept ==
    ASSUME ReviewInv, NamesStand, FourEyes, [Next]_vars, renames' = renames
    PROVE  NamesStand' /\ FourEyes'
<1> USE DEF ReviewInv, TypeOK, Goto, Exit, table, history, command, counts, NamesStand, FourEyes
<1>1. ASSUME NEW d \in Drafts, NEW p \in Persons, CreateDraft(d, p) PROVE NamesStand' /\ FourEyes'
  BY <1>1 DEF CreateDraft, Decided
<1>2. ASSUME NEW r \in Processes, Commit(r) PROVE NamesStand' /\ FourEyes'
  <2>1. /\ draft[r] \in Drafts /\ verdict[r] \in Decided /\ person[r] \in Approvers
        /\ requester[draft[r]] = FirstName[author[draft[r]]] /\ author[draft[r]] \in Persons
        /\ presented[r] = FirstName[person[r]] /\ presented[r] # requester[draft[r]]
    BY <1>2 DEF Commit, Arguments, Vetted
  <2>2. person[r] \in Approvers \ {author[draft[r]]}
    BY <2>1
  <2> QED BY <1>2, <2>1, <2>2 DEF Commit, Decided
<1>3. ASSUME NEW r \in Processes, Resolve(r) PROVE NamesStand' /\ FourEyes'
  BY <1>3 DEF Resolve, Resolved
<1>4. ASSUME NEW r \in Processes, GetDraft(r) \/ Begin(r) \/ Locked(r) \/ Update(r) PROVE NamesStand' /\ FourEyes'
  BY <1>4 DEF GetDraft, Begin, Locked, Update
<1>5. ASSUME NEW r \in Processes, RecordOk(r) \/ RecordDenied(r) \/ ReadDraft(r) \/ BuildPack(r) \/ Die(r)
      PROVE  NamesStand' /\ FourEyes'
  BY <1>5 DEF RecordOk, RecordDenied, ReadDraft, BuildPack, Die
<1>6. ASSUME NEW r \in Processes, NEW n \in Names, NEW d \in Drafts, NEW v \in Decided, StartReview(r, n, d, v)
      PROVE  NamesStand' /\ FourEyes'
  BY <1>6 DEF StartReview
<1>7. ASSUME NEW r \in Processes, NEW d \in Drafts, StartExport(r, d) PROVE NamesStand' /\ FourEyes'
  BY <1>7 DEF StartExport
<1>8. ASSUME NEW p \in Persons, NEW n \in Names, Rename(p, n) PROVE FALSE
  BY <1>8 DEF Rename
<1>9. CASE UNCHANGED vars
  BY <1>9 DEF vars
<1> QED BY <1>1, <1>2, <1>3, <1>4, <1>5, <1>6, <1>7, <1>8, <1>9 DEF Next, ReviewStep, Finished

\* Renames and deaths are only counted up.
LEMMA Counted ==
    ASSUME ReviewInv, [Next]_vars
    PROVE  /\ renames' = 0 => renames = 0 /\ renames' = renames
           /\ deaths' = 0 => deaths = 0 /\ deaths' = deaths
<1>1. /\ renames' = renames \/ renames' = renames + 1
      /\ deaths' = deaths \/ deaths' = deaths + 1
  BY DEF Next, ReviewStep, CreateDraft, Rename, StartReview, StartExport, Resolve, GetDraft,
       Begin, Locked, Update, Commit, RecordOk, RecordDenied, ReadDraft, BuildPack, Die, Finished, vars, counts
<1> QED BY <1>1 DEF ReviewInv, TypeOK

\* As long as users.json renames nobody, every draft is decided by an approver
\* who did not file it, whoever races and dies (review_cli.py:103-109).
THEOREM FourEyesWithoutRenames == Spec => []FourEyesUnlessRenamed
<1> DEFINE Inv == renames = 0 => NamesStand /\ FourEyes
<1>1. Init => Inv
  BY DEF Init, NamesStand, FourEyes, Decided
<1>2. ReviewInv /\ Inv /\ [Next]_vars => Inv'
  BY NamesStandKept, Counted
<1>3. Inv => FourEyesUnlessRenamed
  BY DEF FourEyesUnlessRenamed
<1> QED BY <1>1, <1>2, <1>3, InvHolds, PTL DEF Spec

-----------------------------------------------------------------------------
\* A decided draft is in the audit chain, or the command that decided it is
\* about to record it.
OnTheWay ==
    \A d \in Drafts : status[d] \in Decided =>
        \/ \E a \in audit : a.outcome = "ok" /\ a.draft = d /\ a.tool = status[d]
        \/ \E r \in Processes : pc[r] = "record" /\ draft[r] = d /\ verdict[r] = status[d]

LEMMA OnTheWayKept ==
    ASSUME ReviewInv, OnTheWay, [Next]_vars, deaths' = deaths
    PROVE  OnTheWay'
<1> SUFFICES ASSUME NEW d \in Drafts, status'[d] \in Decided
             PROVE  \/ \E a \in audit' : a.outcome = "ok" /\ a.draft = d /\ a.tool = status'[d]
                    \/ \E r \in Processes : pc'[r] = "record" /\ draft'[r] = d /\ verdict'[r] = status'[d]
  BY DEF OnTheWay
<1> DEFINE Keeps(r) == /\ pc'[r] = pc[r] /\ draft'[r] = draft[r] /\ verdict'[r] = verdict[r]
<1>1. ASSUME NEW r \in Processes, Commit(r)
      PROVE  \/ \E a \in audit' : a.outcome = "ok" /\ a.draft = d /\ a.tool = status'[d]
             \/ \E q \in Processes : pc'[q] = "record" /\ draft'[q] = d /\ verdict'[q] = status'[d]
  <2>1. /\ pc'[r] = "record" /\ draft'[r] = draft[r] /\ verdict'[r] = verdict[r] /\ audit' = audit
        /\ \A q \in Processes \ {r} : Keeps(q)
    BY <1>1 DEF Commit, Goto, command, ReviewInv, TypeOK
  <2>2. CASE d = draft[r]
    <3>1. status'[d] = verdict[r]
      BY <1>1, <2>2 DEF Commit, ReviewInv, TypeOK
    <3> QED BY <2>1, <2>2, <3>1
  <2>3. CASE d # draft[r]
    <3>1. status'[d] = status[d] /\ pc[r] = "commit"
      BY <1>1, <2>3 DEF Commit, ReviewInv, TypeOK
    <3> QED BY <2>1, <3>1 DEF OnTheWay
  <2> QED BY <2>2, <2>3
<1>2. ASSUME NEW r \in Processes, RecordOk(r)
      PROVE  \/ \E a \in audit' : a.outcome = "ok" /\ a.draft = d /\ a.tool = status'[d]
             \/ \E q \in Processes : pc'[q] = "record" /\ draft'[q] = d /\ verdict'[q] = status'[d]
  <2> DEFINE own == [attempt |-> attempt[r], tool |-> verdict[r], draft |-> draft[r],
                     by |-> presented[r], outcome |-> "ok"]
  <2>1. /\ audit' = audit \cup {own} /\ status' = status
        /\ \A q \in Processes \ {r} : Keeps(q)
    BY <1>2 DEF RecordOk, Exit, Goto, table, ReviewInv, TypeOK
  <2>2. own.outcome = "ok" /\ own.draft = draft[r] /\ own.tool = verdict[r]
    OBVIOUS
  <2> HIDE DEF own
  <2>3. CASE draft[r] = d /\ verdict[r] = status[d]
    BY <2>1, <2>2, <2>3
  <2>4. CASE ~(draft[r] = d /\ verdict[r] = status[d])
    BY <2>1, <2>4 DEF OnTheWay
  <2> QED BY <2>3, <2>4
<1>3. ASSUME NEW e \in Drafts, NEW p \in Persons, CreateDraft(e, p)
      PROVE  /\ status'[d] = status[d] /\ audit' = audit
             /\ \A r \in Processes : pc[r] = "record" => Keeps(r)
  BY <1>3 DEF CreateDraft, command, Decided, ReviewInv, TypeOK
<1>4. ASSUME NEW r \in Processes,
             \/ Resolve(r) \/ GetDraft(r) \/ Begin(r) \/ Locked(r) \/ Update(r) \/ RecordDenied(r)
             \/ ReadDraft(r) \/ BuildPack(r)
      PROVE  /\ status'[d] = status[d] /\ audit \subseteq audit'
             /\ \A q \in Processes : pc[q] = "record" => Keeps(q)
  <2>1. status' = status /\ audit \subseteq audit' /\ pc[r] # "record"
    BY <1>4 DEF Resolve, GetDraft, Begin, Locked, Update, RecordDenied, ReadDraft, BuildPack, table
  <2>2. \A q \in Processes \ {r} : Keeps(q)
    BY <1>4 DEF Resolve, GetDraft, Begin, Locked, Update, RecordDenied, ReadDraft, BuildPack, Exit, Goto,
       command, ReviewInv, TypeOK
  <2> QED BY <2>1, <2>2
<1>5. ASSUME NEW r \in Processes, NEW n \in Names, NEW e \in Drafts, NEW v \in Decided,
             StartReview(r, n, e, v)
      PROVE  /\ status'[d] = status[d] /\ audit' = audit
             /\ \A q \in Processes : pc[q] = "record" => Keeps(q)
  <2>1. status' = status /\ audit' = audit /\ pc[r] # "record"
    BY <1>5 DEF StartReview, table
  <2>2. \A q \in Processes \ {r} : Keeps(q)
    BY <1>5 DEF StartReview, Goto, ReviewInv, TypeOK
  <2> QED BY <2>1, <2>2
<1>6. ASSUME NEW r \in Processes, NEW e \in Drafts, StartExport(r, e)
      PROVE  /\ status'[d] = status[d] /\ audit' = audit
             /\ \A q \in Processes : pc[q] = "record" => Keeps(q)
  <2>1. status' = status /\ audit' = audit /\ pc[r] # "record"
    BY <1>6 DEF StartExport, table
  <2>2. \A q \in Processes \ {r} : Keeps(q)
    BY <1>6 DEF StartExport, Goto, ReviewInv, TypeOK
  <2> QED BY <2>1, <2>2
<1>7. ASSUME NEW r \in Processes, Die(r) PROVE FALSE
  BY <1>7 DEF Die, ReviewInv, TypeOK
<1>8. ASSUME (\E p \in Persons, n \in Names : Rename(p, n)) \/ UNCHANGED vars
      PROVE  /\ status'[d] = status[d] /\ audit' = audit
             /\ \A r \in Processes : pc[r] = "record" => Keeps(r)
  BY <1>8 DEF Rename, vars, table, command
<1>9. ASSUME status'[d] = status[d], audit \subseteq audit',
             \A r \in Processes : pc[r] = "record" => Keeps(r)
      PROVE  \/ \E a \in audit' : a.outcome = "ok" /\ a.draft = d /\ a.tool = status'[d]
             \/ \E r \in Processes : pc'[r] = "record" /\ draft'[r] = d /\ verdict'[r] = status'[d]
  BY <1>9 DEF OnTheWay
<1> HIDE DEF Keeps
<1> QED BY <1>1, <1>2, <1>3, <1>4, <1>5, <1>6, <1>7, <1>8, <1>9 DEF Next, ReviewStep, Finished

\* No command that runs to its end leaves a decision out of the audit chain
\* (review_cli.py:109-119).
THEOREM DecisionsAreRecorded == Spec => []RecordedUnlessDied
<1> DEFINE Inv == deaths = 0 => OnTheWay
<1>1. Init => Inv
  BY DEF Init, OnTheWay, Decided
<1>2. ReviewInv /\ Inv /\ [Next]_vars => Inv'
  BY OnTheWayKept, Counted
<1>3. Inv => RecordedUnlessDied
  BY DEF RecordedUnlessDied, EveryDecisionRecorded, OnTheWay
<1> QED BY <1>1, <1>2, <1>3, InvHolds, PTL DEF Spec

-----------------------------------------------------------------------------
\* What an export has read as approved is approved when it packs it and stays so.
Packing ==
    /\ \A r \in Processes : pc[r] = "pack" /\ seen[r] = "approved" => status[draft[r]] = "approved"
    /\ \A d \in exported : d \in Indexes /\ status[d] = "approved"

LEMMA PackingKept == ASSUME ReviewInv, Packing, [Next]_vars PROVE Packing'
<1> USE DEF ReviewInv, TypeOK, Arguments, Goto, Exit, table, command, history, counts
<1>1. \A d \in Drafts : status[d] = "approved" => status'[d] = "approved"
  BY DecisionsStay DEF Decided
<1>2. ASSUME NEW r \in Processes, ReadDraft(r) PROVE Packing'
  BY <1>2 DEF ReadDraft, Packing
<1>3. ASSUME NEW r \in Processes, BuildPack(r) PROVE Packing'
  BY <1>3 DEF BuildPack, Packing
<1>4. ASSUME exported' = exported,
             \A r \in Processes : pc'[r] = "pack" =>
                 pc[r] = "pack" /\ seen'[r] = seen[r] /\ draft'[r] = draft[r]
      PROVE  Packing'
  BY <1>1, <1>4 DEF Packing
<1>5. ASSUME NEW r \in Processes,
             \/ \E n \in Names, d \in Drafts, v \in Decided : StartReview(r, n, d, v)
             \/ \E d \in Drafts : StartExport(r, d)
             \/ ReviewStep(r) \/ Die(r)
      PROVE  Packing'
  BY <1>4, <1>5 DEF StartReview, StartExport, ReviewStep, Resolve, GetDraft, Begin, Locked, Update,
                    Commit, RecordOk, RecordDenied, Die
<1>6. ASSUME (\E d \in Drafts, p \in Persons : CreateDraft(d, p))
                 \/ (\E p \in Persons, n \in Names : Rename(p, n)) \/ UNCHANGED vars
      PROVE  Packing'
  BY <1>4, <1>6 DEF CreateDraft, Rename, vars
<1> QED BY <1>2, <1>3, <1>5, <1>6 DEF Next, Finished

\* For any number of terminals a pack is written only of an approved index, which
\* no later decision can change (review_cli.py:139-151, drafts.py:121-127).
THEOREM PacksAreApproved == Spec => []ExportedStaysApproved
<1>1. Init => Packing
  BY DEF Init, Packing
<1>2. ReviewInv /\ Packing /\ [Next]_vars => Packing'
  BY PackingKept
<1>3. Packing => ExportedStaysApproved
  BY DEF Packing, ExportedStaysApproved
<1> QED BY <1>1, <1>2, <1>3, InvHolds, PTL DEF Spec
=============================================================================
