----------------------------- MODULE AuditChain -----------------------------
(***************************************************************************)
(* What the audit log promises, whatever its files: one chain of records    *)
(* that only ever grows at its head.  A record is known by its identity and *)
(* by the identity it cites as its predecessor.                             *)
(***************************************************************************)
EXTENDS Naturals

CONSTANT GENESIS  \* what the first record cites

VARIABLES
    log,   \* the records written so far
    head   \* the identity of the newest, GENESIS when there is none

chainVars == <<log, head>>

Ids == {r.id : r \in log}

ChainInit == log = {} /\ head = GENESIS

\* One new record, citing the head, becomes the head.  The record is read off
\* the next state, so the action says which steps are allowed without
\* enumerating identities.
AppendToHead ==
    \E r \in log' :
        /\ r.prev = head
        /\ r.id \notin Ids \cup {GENESIS}
        /\ log' = log \cup {r}
        /\ head' = r.id

ChainSpec == ChainInit /\ [][AppendToHead]_chainVars

(***************************************************************************)
(* The records form one line: identities are distinct, no two records cite  *)
(* the same predecessor (no fork), every record cites an existing one or    *)
(* GENESIS (nothing removed), and nothing cites the head.                   *)
(***************************************************************************)
DistinctIds == \A r, s \in log : r.id = s.id => r = s
NoFork == \A r, s \in log : r.prev = s.prev => r = s
NoGap == \A r \in log : r.prev \in Ids \cup {GENESIS}
HeadIsNewest ==
    /\ head \in Ids \cup {GENESIS}
    /\ head = GENESIS => log = {}
    /\ \A r \in log : r.id # GENESIS /\ r.prev # head

OneLine == DistinctIds /\ NoFork /\ NoGap /\ HeadIsNewest
=============================================================================
