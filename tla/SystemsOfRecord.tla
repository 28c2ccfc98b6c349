--------------------------- MODULE SystemsOfRecord ---------------------------
(***************************************************************************)
(* The governed systems of record behind one server: the versions of a      *)
(* policy, the test results of a control, and the releases of a regulator   *)
(* (store.py, service.py), with what changes them from outside: their       *)
(* owners, the feed fetcher (feed_fetcher.py) and the scheduled intake run  *)
(* (scripts/setup-cron.sh).  The server reads everything once, at start, and*)
(* answers from that until it is started again.                             *)
(*                                                                          *)
(* A day is a calendar day of the policies, the feed and the schedule; test *)
(* results carry a month.  What happens inside a start or a fetch is in     *)
(* Evidence and FeedCache; here each is one step.                           *)
(***************************************************************************)
EXTENDS Policies, Sequences, FiniteSets

CONSTANTS
    Items,       \* what the regulator publishes
    Undated,     \* the items without a date of their own
    Weekend,     \* the days without a scheduled run
    Months,      \* the months of test results and of periods
    MaxTests,    \* bound: test results
    MaxChanges   \* bound: changes of policies, results and the feed

ASSUME RecordsAssumption ==
    /\ Undated \subseteq Items
    /\ Weekend \subseteq Days
    /\ Months \subseteq Nat \ {0}
    /\ MaxTests \in Nat /\ MaxChanges \in Nat

VARIABLES
    tests,     \* the months of the control's test results
    shown,     \* shown[x]: the day item x was published, 0 before
    cache,     \* the releases in the cache file
    loaded,    \* what the server read at its start
    loadedOn,  \* the day of its start
    ran,       \* the intake has run today
    filed,     \* the mappings the intake has filed
    changes    \* changes so far

feedVars == <<shown, cache>>
serverVars == <<loaded, loadedOn>>
intakeVars == <<ran, filed>>
vars == <<policyVars, today, tests, feedVars, serverVars, intakeVars, changes>>

Release == [item : Items, published : Days]
Mapping == [release : Release, run : Days]

Changes ==
    /\ changes < MaxChanges
    /\ changes' = changes + 1
    /\ UNCHANGED <<serverVars, intakeVars>>

\* The owners of the policy change one of its files.
PolicyChanges ==
    /\ \E i \in Files :
          \/ \E status \in {"draft", "approved"}, day \in Days : FileVersion(i, status, day)
          \/ Approve(i) \/ Retire(i)
    /\ Changes
    /\ UNCHANGED <<tests, feedVars>>

\* The GRC platform gets a result, for any month.
TestRecorded(month) ==
    /\ Len(tests) < MaxTests
    /\ tests' = Append(tests, month)
    /\ Changes
    /\ UNCHANGED <<policyVars, today, feedVars>>

Publish(x) ==
    /\ shown[x] = 0
    /\ shown' = [shown EXCEPT ![x] = today]
    /\ Changes
    /\ UNCHANGED <<policyVars, today, tests, cache>>

-----------------------------------------------------------------------------
(* The fetcher.                                                              *)

MutantDayOfFetch(x) == today
MutantNoDefault(x) == IF x \in Undated THEN 0 ELSE shown[x]

\* An item without a date gets the day of the fetch, and with it another
\* release id every day.
_iso_date(x) == IF x \in Undated THEN today ELSE shown[x]

\* The feed shows some of what was published; unknown releases are added.
Fetch(xs) ==
    /\ \A x \in xs : shown[x] # 0
    /\ cache' = cache \cup {[item |-> x, published |-> _iso_date(x)] : x \in xs}
    /\ UNCHANGED <<policyVars, today, tests, shown, serverVars, intakeVars, changes>>

-----------------------------------------------------------------------------
(* The server.                                                               *)

Restart ==
    /\ loaded' = [docs |-> docs, tests |-> tests, cache |-> cache]
    /\ loadedOn' = today
    /\ UNCHANGED <<policyVars, today, tests, feedVars, intakeVars, changes>>

\* policy_get, without as_of and with it.
PolicyGet == current(loaded.docs)
PolicyGetAsOf(day) == version_as_of(loaded.docs, day)

\* The results of a control in a period.
results(start, end) == {k \in DOMAIN loaded.tests : loaded.tests[k] \in start..end}

\* The months between two tests of each frequency.
Cadence == [monthly |-> 1, quarterly |-> 3, annual |-> 12]

months_inclusive(start, end) == IF start <= end THEN end - start + 1 ELSE 1

MutantNeededRoundedDown(frequency, start, end) ==
    months_inclusive(start, end) \div Cadence[frequency]

\* ceil(months * tests per month)
Needed(frequency, start, end) ==
    (months_inclusive(start, end) + Cadence[frequency] - 1) \div Cadence[frequency]

\* The finding of too few tests.  (The others repeat the results that are not
\* a pass, one by one.)
TooFew(frequency, start, end) ==
    Cardinality(results(start, end)) < Needed(frequency, start, end)

\* regulatory_releases
since(day) == {r \in loaded.cache : r.published >= day}

-----------------------------------------------------------------------------
(* The scheduled jobs.                                                       *)

\* Weekdays at 7am: a mapping for every release published since yesterday.
Intake ==
    /\ today \notin Weekend /\ ~ran
    /\ ran' = TRUE
    /\ filed' = filed \cup {[release |-> r, run |-> today] : r \in since(today - 1)}
    /\ UNCHANGED <<policyVars, today, tests, feedVars, serverVars, changes>>

\* Midnight; the run may have been left out.
NextDay ==
    /\ DayEnds
    /\ ran' = FALSE
    /\ UNCHANGED <<tests, feedVars, serverVars, filed, changes>>

Init ==
    /\ PolicyInit
    /\ tests = <<>>
    /\ shown = [x \in Items |-> 0] /\ cache = {}
    /\ loaded = [docs |-> docs, tests |-> tests, cache |-> cache]
    /\ loadedOn = 1
    /\ ran = FALSE /\ filed = {}
    /\ changes = 0

Next ==
    \/ PolicyChanges
    \/ \E month \in Months : TestRecorded(month)
    \/ \E x \in Items : Publish(x)
    \/ \E xs \in SUBSET Items : Fetch(xs)
    \/ Restart \/ Intake \/ NextDay

Spec == Init /\ [][Next]_vars

-----------------------------------------------------------------------------
(* Properties.                                                               *)

TypeOK ==
    /\ PolicyTypeOK
    /\ tests \in Seq(Months)
    /\ shown \in [Items -> Days \cup {0}]
    /\ cache \subseteq Release
    /\ loaded \in [docs : [Files -> Doc], tests : Seq(Months), cache : SUBSET Release]
    /\ loadedOn \in 1..today
    /\ ran \in BOOLEAN /\ filed \subseteq Mapping
    /\ changes \in Nat

\* policy_get without as_of and with today's date name the same version, unless
\* a version is approved ahead of its date, or two share the latest date
\* (store.py:102, "The latest approved version"; store.py:115, "in force").
CurrentIsInForce ==
    LET A == Approved(loaded.docs)
        e(i) == loaded.docs[i].effective
        newest == {i \in A : \A j \in A : e(j) <= e(i)}
    IN  PolicyGet = PolicyGetAsOf(today)
            <=> (\A i \in A : e(i) <= today) /\ Cardinality(newest) <= 1

\* The answer about a past day is the version that was in force then, whatever
\* is filed, approved and retired later, unless a change reached back to that
\* day, and whenever the server was started, if the day was over by then or the
\* files are still the ones it read (store.py:114-117).
PastAnswersStand ==
    \A d \in 1..(today - 1) :
        d \notin altered /\ (d < loadedOn \/ loaded.docs = docs) =>
            PolicyGetAsOf(d) = inForce[d]

\* A manifest lists every version that was in force on a day of its period, and
\* the one that policy_get names for the end of the period
\* (service.py:249-253, evidence-pack/SKILL.md:18-21).
ManifestCoversPeriod ==
    \A start, end \in 1..(loadedOn - 1) : start <= end =>
        LET listed == ListedVersions(loaded.docs, start, end)
        IN  /\ PolicyGetAsOf(end) \in listed \cup {NoVersion}
            /\ \A d \in start..end : d \in altered \/ inForce[d] \in listed \cup {NoVersion}

\* Calendar periods of a cadence that lie inside a range of months, and those it
\* meets.
Inside(p, start, end) == {k \in 0..end : start <= k * p + 1 /\ (k + 1) * p <= end}
Met(p, start, end) == {k \in 0..end : k * p + 1 <= end /\ start <= (k + 1) * p}

\* Fewer results than the months, quarters or years inside the period are always
\* a finding, and one result for each that the period meets never is; from the
\* beginning of a quarter or year on, also a part of one wants its result
\* (service.py:329-330, 335).
GapFloorIsSound ==
    \A frequency \in DOMAIN Cadence, start, end \in Months : start <= end =>
        LET n == Cardinality(results(start, end))
            p == Cadence[frequency]
            tooFew == TooFew(frequency, start, end)
        IN  /\ n < Cardinality(Inside(p, start, end)) => tooFew
            /\ n >= Cardinality(Met(p, start, end)) => ~tooFew
            /\ start % p = 1 % p /\ n < Cardinality(Met(p, start, end)) => tooFew

\* However often the feed is fetched and whenever the server is started, the
\* daily run files a dated release at most twice: its windows overlap by a day
\* (setup-cron.sh:15-17, regulatory-intake/SKILL.md:17).
FiledAtMostTwice ==
    \A x \in Items \ Undated : Cardinality({f \in filed : f.release.item = x}) <= 2
=============================================================================
