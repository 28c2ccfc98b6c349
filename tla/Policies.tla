------------------------------ MODULE Policies -------------------------------
(***************************************************************************)
(* The version files of one policy, in the order of their names, and what   *)
(* PolicyRepository answers from them (store.py).  Files appear as drafts   *)
(* or approved, are approved, and are retired; nobody changes an effective  *)
(* date.  Policies do not meet: current() and version_as_of() look at the   *)
(* files of one policy id.                                                  *)
(***************************************************************************)
EXTENDS Naturals

CONSTANTS
    NVersions,  \* files of the policy, numbered in the order of their names
    MaxDay      \* bound: days

ASSUME PolicyAssumption == NVersions \in Nat /\ MaxDay \in Nat \ {0}

VARIABLES
    docs,      \* docs[i]: the front matter of file i
    today,     \* date.today()
    inForce,   \* inForce[d]: the version in force when day d ended (history)
    altered    \* the days whose answer was changed after they ended (history)

policyVars == <<docs, inForce, altered>>  \* and today, which the feed shares

Files == 1..NVersions
Days == 1..MaxDay
NoVersion == 0

Statuses == {"absent", "draft", "approved", "retired"}
Doc == [status : Statuses, effective : Days]
NoDoc == [status |-> "absent", effective |-> 1]

Approved(ds) == {i \in Files : ds[i].status = "approved"}

\* The approved version in force on a day: the last in the stable order of the
\* effective dates that are not after it.
MutantAsOfAny(ds, day) ==
    IF Approved(ds) = {} THEN NoVersion
    ELSE CHOOSE i \in Approved(ds) :
            \A j \in Approved(ds) :
                  \/ ds[j].effective < ds[i].effective
                  \/ ds[j].effective = ds[i].effective /\ j <= i

version_as_of(ds, day) ==
    IF \A i \in Approved(ds) : ds[i].effective > day THEN NoVersion
    ELSE CHOOSE i \in Approved(ds) :
            /\ ds[i].effective <= day
            /\ \A j \in Approved(ds) : ds[j].effective <= day =>
                  \/ ds[j].effective < ds[i].effective
                  \/ ds[j].effective = ds[i].effective /\ j <= i

MutantCurrentLast(ds) ==
    IF Approved(ds) = {} THEN NoVersion
    ELSE CHOOSE i \in Approved(ds) : \A j \in Approved(ds) :
            \/ ds[j].effective < ds[i].effective
            \/ ds[j].effective = ds[i].effective /\ j <= i

\* The approved version with the latest effective date, whether or not it has
\* come: the first such file.
current(ds) ==
    IF Approved(ds) = {} THEN NoVersion
    ELSE CHOOSE i \in Approved(ds) : \A j \in Approved(ds) :
            \/ ds[j].effective < ds[i].effective
            \/ ds[j].effective = ds[i].effective /\ i <= j

MutantListedStarted(ds, start, end) ==
    {i \in Approved(ds) : ds[i].effective \in start..end}

\* The versions a manifest lists for a period: also those replaced before it.
ListedVersions(ds, start, end) == {i \in Approved(ds) : ds[i].effective <= end}

-----------------------------------------------------------------------------
(* The owners of the policy.                                                 *)

Change(i, doc) ==
    /\ docs' = [docs EXCEPT ![i] = doc]
    /\ UNCHANGED <<today, inForce>>

\* A change that reaches back alters the days from the effective date on.
ReachesBack(i) ==
    altered' = altered \cup {d \in 1..(today - 1) : d >= docs'[i].effective}

FileVersion(i, status, effective) ==
    /\ docs[i].status = "absent"
    /\ Change(i, [status |-> status, effective |-> effective])
    /\ IF status = "approved" THEN ReachesBack(i) ELSE UNCHANGED altered

Approve(i) ==
    /\ docs[i].status = "draft"
    /\ Change(i, [docs[i] EXCEPT !.status = "approved"])
    /\ ReachesBack(i)

\* Retiring a version takes it out of the answers about the past as well.
Retire(i) ==
    /\ docs[i].status = "approved"
    /\ Change(i, [docs[i] EXCEPT !.status = "retired"])
    /\ altered' = altered \cup {d \in 1..(today - 1) : inForce[d] = i}

DayEnds ==
    /\ today < MaxDay
    /\ inForce' = [inForce EXCEPT ![today] = version_as_of(docs, today)]
    /\ today' = today + 1
    /\ UNCHANGED <<docs, altered>>

PolicyInit ==
    /\ docs = [i \in Files |-> NoDoc]
    /\ today = 1
    /\ inForce = [d \in Days |-> NoVersion]
    /\ altered = {}

PolicyTypeOK ==
    /\ docs \in [Files -> Doc]
    /\ today \in Days
    /\ inForce \in [Days -> Files \cup {NoVersion}]
    /\ altered \subseteq Days
=============================================================================
