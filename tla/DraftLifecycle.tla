--------------------------- MODULE DraftLifecycle ---------------------------
(***************************************************************************)
(* What the review queue promises (drafts.py:8-9, 121-128): a draft is      *)
(* filed as pending, and decided once, by somebody other than the name that *)
(* filed it.  There is no way back and no second decision.  (That a row is  *)
(* never deleted is not promised here: the purge of Retention deletes it.)  *)
(***************************************************************************)
CONSTANTS Drafts, Names, None

VARIABLES
    status,      \* status[d]: "absent" until d is filed
    requester,   \* requester[d]: the name that filed d
    decidedBy    \* decidedBy[d]: the name that decided d

draftVars == <<status, requester, decidedBy>>

Decided == {"approved", "rejected"}

LifecycleInit ==
    /\ status = [d \in Drafts |-> "absent"]
    /\ requester = [d \in Drafts |-> None]
    /\ decidedBy = [d \in Drafts |-> None]

File(d, n) ==
    /\ status[d] = "absent"
    /\ status' = [status EXCEPT ![d] = "pending"]
    /\ requester' = [requester EXCEPT ![d] = n]
    /\ UNCHANGED decidedBy

Decide(d, verdict, n) ==
    /\ status[d] = "pending"
    /\ n # requester[d]
    /\ status' = [status EXCEPT ![d] = verdict]
    /\ decidedBy' = [decidedBy EXCEPT ![d] = n]
    /\ UNCHANGED requester

LifecycleNext ==
    \E d \in Drafts, n \in Names :
        \/ File(d, n)
        \/ \E verdict \in Decided : Decide(d, verdict, n)

LifecycleSpec == LifecycleInit /\ [][LifecycleNext]_draftVars
=============================================================================
