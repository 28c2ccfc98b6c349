# Verification of the compliance MCP server

This directory holds TLA+ models of `src/mcp/src/compliance_mcp`, the governed data
service an external agent (Hermes) calls on behalf of people, and the command lines
and the scheduled job around it. The models are checked with TLC on small instances; the most important
results are proved with TLAPS for every value of the constants. File names below are
relative to `src/mcp/src/compliance_mcp/` unless they start with `src/`.

Contents: [the system](#the-system) · [modules](#modules) · [runs](#runs-and-what-they-show) ·
[disagreements](#where-code-and-documentation-disagree) · [proofs](#what-is-proved) ·
[abstractions](#abstractions-bounds-and-fairness) · [not modelled](#not-modelled) · [plan](#plan)

## The system

One long-lived server process answers tool calls in worker threads; short-lived command
lines (review, admin, audit, feed) run beside it. They share files, not messages:
`users.json`, the audit log with its rotated files, the forwarder's spool directory, the
SQLite drafts table, and the caches of the systems of record.

```
 agent ─► server.py ─► service.py wrapper ─┬─► directory.py   users.json (written by a sync job)
                                           ├─► ratelimit.py   buckets in memory
                                           ├─► tool body ─► store.py (read once at start), drafts.py
                                           └─► audit.py AuditLog ─► files ─► verify
                                                       └─► Forwarder ─► spool/ ─► HTTPS sink
 people ─► review_cli.py ─► directory.py, drafts.py, audit.py (own instance), evidence_export.py
 operators ─► admin_cli.py (purge), feed_fetcher.py, audit.py main (verify, tail, spool)
```

| Component | State | Operations | What is hard | What makes it correct |
|---|---|---|---|---|
| Audit log writer, `audit.py:92-224` | active file, rotated files, `_thread_lock`, flock | `write`, `_rotate`, `head` | threads and processes append and rotate at once; death at any statement | one unbroken chain over all files; no record lost; only durable records forwarded; no lock kept |
| Verifier, `audit.py:326-356` | none | `chain_files`, `verify` | file order; files that are renamed and grow while it walks them | succeeds on what the writers wrote, unless a rotation took a file from under it |
| Forwarder, `audit.py:232-309` | spool directory, `_wake`, backoff | `enqueue`, `_run`, `_send` | a wake-up between two statements, lost replies, two senders, restarts | nothing dropped, everything delivered, no lost wake-up, duplicates only where explained |
| Rate limiter, `ratelimit.py` | bucket per requester | `check` | clock read before the lock | never over budget, debt repaid, refuses only who is over budget |
| Directory, `directory.py` | `_users`, `_version`, `_mtime`, `_checked_at`, lock | `_load`, `version`, `resolve` | unlocked reads during a reload, edits between stat and read, loads that raise | no edit missed for good; deactivation within the window; version not ahead of the users |
| Audited wrapper, `service.py:61-117` | none | the wrapper of every tool | a failure at each step, some after the body has committed | what was answered and committed is in the chain |
| Draft store, `drafts.py` | SQLite table | `create`, `decide`, `get`, `list` | two deciders; lock timeouts | decided at most once, never changed afterwards |
| Review CLI, `review_cli.py` | none | `approve`, `reject`, `export` | several terminals, death between COMMIT and the audit record, renames | four eyes; the chain claims what happened; packs only of approved drafts |
| Evidence export and draft checks | none | `build_pack`, `audit_lines_for`, `check_draft` | data recomputed later than approved | the pack is what was approved |
| Feed fetcher, `feed_fetcher.py` | cache file per source | `merge_into_cache` | two fetchers | no release lost |
| Systems of record, `store.py`; gap detection, `service.py:318-339` | what was read at start | `current`, `version_as_of`, `results`, `since`, `_detect_gaps` | versions approved ahead or back, retired, tied; data that changes after the start; boundaries of periods | answers about the past stand; a manifest covers its period; the floor of tests is a floor |
| Daily intake, `src/scripts/setup-cron.sh` | filed mappings | the agent's `regulatory-intake` run | windows of days beside fetches, restarts and weekends | a dated release is filed at most twice |
| Admin CLI, `admin_cli.py` | none | `purge` | deletes part of the chain | verify still works; the purge is recorded |
| Caller identity, `server.py:87-104`; OIDC, `oidc.py` | none | `_caller_identity`, `username` | header against parameter | the header wins or the call is denied |

`PROJECT.json` lists every component with its status and every hazard at its line.

## Modules

| Module | What it models |
|---|---|
| `AuditChain` | The promise of the audit log: a set of records that grows by one record that cites the head. |
| `AuditLog` | `AuditLog.write` and `_rotate` statement by statement, for any threads of any processes. Files are inodes, so a file that is open keeps its records when it is renamed. `Spec` runs without crashes, `CrashSpec` adds `Crash` (in the middle of an append too, which leaves a torn line) and `Restart`. |
| `AuditVerify` | `chain_files` and `verify` as operators on the files: the `Places` in the order of their names, what each line has to cite (`Cited`), the hash `verify` comes to a place with (`PrevAt`) and ends with (`VerifyHead`); and the properties stated with them. |
| `AuditReader` | `verify` as a process beside the writers (it extends `AuditVerify`): `ListRotated`, `LookForActive`, then `OpenNext` (the name sorted first of those left in `todo`) and `WalkFile` for each file, `VerifyEnds`; the log moves between any two of them. |
| `Forwarder` | `enqueue` (choose a name, publish, wake) and the sender thread (`Wait`, `Clear`, `ListNothing`/`ListOldest`, `Read`, the sink's answer, `Unlink`), for any number of processes over one spool. |
| `RateLimiter` | `TokenBucketLimiter.check`: `ReadClock` outside the lock; `Refuse` or `Admit` under it. |
| `Directory` | `Directory._load`: `ReadClock`, `Check`, `Acquire`, `Stat`, `Read`, `SetUsers`, `SetVersion`, `LoadFails`; `Sync` is the job that replaces `users.json`. |
| `Service` | The audited wrapper over `Directory` (it extends it and conjoins its actions): `Call`, `Cite`, `Resolve`, `Authorise`, `RateLimited`, `BodyReturns`, `BodyRaises`, `Record`, and the exceptions `VersionRaises`, `ResolveRaises`, `RecordRaises`. |
| `DraftLifecycle` | The promise of the drafts table: filed once, decided once, under another name than it was filed under. |
| `DraftReview` | `DraftStore.create`/`decide` with SQLite's write lock, and the commands `approve`, `reject` and `export` of several terminals, each of which may `Die` at any statement; `Rename` is an edit of `users.json`. |
| `FeedCache` | `merge_into_cache` of overlapping runs of the fetch command: `ReadCache`, `OpenTmp`, `WriteTmp`, `Replace`, the ways each fails, and `FetchDies`. A run writes through its handle to the file it opened, whatever that file is called by then. |
| `Retention` | `purge --apply`: `StartPurge` (the cutoff), `DeleteRows`, `ListFiles`, `Unlink`, `RecordPurge`, `PurgeDies`, beside decisions and the records that follow them. A file of the log is the decisions it records and the time of its last append. Several processes write it: a writer appends to the active file or to one renamed since it was opened (`Log`), and a rotation takes its stamp, renames whatever is active by then (`Rename`) and empties the active path for its marker (`Mark`) in steps of their own. |
| `Evidence` | From the data to the pack (it extends `FeedCache` and `Retention` and interleaves them): `Edit` of a data file, the server's start file by file (`ServerReads`, `ServerStarts`), `Bundle`, the checks of `draft_create` (`CreateIndex`, `CreateMapping`, `Reject`), and `export` (`StartExport`, `ExportReads`, `ExportChecks`, `PackPolicy`, `WritePack`, `RecordExport`). |
| `Policies` | The version files of a policy, as their owners file, approve and retire them, and what `current`, `version_as_of` and a manifest make of them. |
| `SystemsOfRecord` | One server's answers about policies, tests and releases (it extends `Policies`): `Restart` reads everything, `PolicyGet`, `TooFew` and `since` answer from that; `Publish` and `Fetch` are the regulator and the fetcher, `Intake` the scheduled run, `NextDay` midnight. |
| `MC*` | Instances for TLC. |
| `*_proofs` | Theorems about the module they are named after; `Service_proofs` has those of `Directory` too, `AuditLog_proofs` those of `AuditChain`, `AuditVerify_proofs` those of `AuditReader`. |

How the modules compose: `AuditLog` implements `AuditChain`, `DraftReview` implements
`DraftLifecycle` (`INSTANCE`, the abstract specification as a property), `Service`
extends `Directory`, `SystemsOfRecord` extends `Policies`, `AuditReader` extends the log, and `Evidence` extends `FeedCache` and `Retention`, which share no
variable: filing a draft is a step of `Evidence` that contains `Retention`'s `Insert`. The audit log, the limiter and the forwarder appear in other modules
by their outcomes: an append is atomic or raises, a call is admitted or refused, and
`AuditLog`'s `spool` ends at what `enqueue` publishes, which is where `Forwarder` begins.

Actions carry the names of the functions and statements they stand for; `PROJECT.json`
("map") gives the lines. Definitions whose names start with `Mutant` are deliberately wrong
variants of the definition below them; they are used in no specification, and each
property is known to fail when one of them replaces the definition it belongs to.

## Runs and what they show

Runs that pass:

| Run | Instance | Properties |
|---|---|---|
| `audit_threads` | one process, 2 threads, 4 writes, rotation at 2 records, one death at any statement, one verification beside them | `TypeOK`; until the death: `VerifiesAlways` (`verify` of the files as they stand succeeds and reports the head), `EveryRecordForwarded`, `ImplementsChain`; whatever dies: `RecordsPersist` (no step loses a record), `ForwardedIsDurable`, `OnlyRestartsBreakLinks` (the one damage a death does is a file that starts over from GENESIS), `WriteReturns`; `VerdictStands`: a verification that runs beside the writers is right and complete, unless a rotation took the active file away behind its listing |
| `audit_two_processes` | server and CLI, 5 writes, rotation at 4 records, one death | `VerifiesBelowRotation`: one verifiable chain until a rotation begins or a death cuts a record short; `AnchorCadence`: one anchor among any `anchor_every` forwarded records of the first file; `WriteReturns`: no deadlock, a rotation whose file another process took away raises and lets go |
| `rate_threads` | 2 threads, one requester, 7 calls in 7 ticks, 4 ticks a minute, 2 calls a minute | `WithinBudget`: admitted calls fit bucket and refill in every window; `SoonServedAgain`: the debt of a late reading is repaid by the time that passed; `RefusedOverBudget`: a refusal means the last minute's budget is used, but for the refill of the time by which the check was late |
| `review_commands` | 2 terminals, 3 people, 1 draft, 3 commands, 1 rename, 1 death | `RecordsAreTrue`; `ExportedStaysApproved`; `FourEyesUnlessRenamed`; `RecordedUnlessDied`; `ImplementsLifecycle` |
| `forward_spool` | server with one writing thread and an export process on one spool, 2 records, 1 exit, 1 lost reply | `NothingLost`; `SleepsOnlyWithoutWork`; `FewCopies`; `DeliveredUnlessSenderDied` |
| `calls` | 2 threads, 2 calls, 3 contents of `users.json`, one load and one audit write that raise | `NoEditSkipped`; `FreshUnlessLoading`; `CitesNoNewerSnapshot`; `AnswersAreRecorded`; `DraftsAreRecorded` |
| `evidence` | 1 draft, 1 release, 2 fetches, one policy and one other data file, 2 edits, 1 restart, 1 export, 2 rotations, 1 purge, 2 ticks; 4 of these events in any run, where the second fetch counts as two | `PackMatchesManifest`: a pack holds the policy versions of its manifest; `PackNotOlderThanIndex`: the manifest is not older, in any file, than the one the index cites; `QuotedReleasesStay`: what a filed mapping quotes stays cached until fetches overlap; `RecordsOutliveRows`: a decided draft is in the table only with the record of its decision, but in the second of a cutoff or when its record met another writer or the purge; `PurgedAreOldest`: wherever the purge dies, it leaves nothing behind a file it deleted but files that two writers made younger than their name |
| `records` | 3 version files, 2 test results, a dated and an undated release, 3 days of which one is a weekend; 3 changes from outside, any number of fetches and restarts | `TypeOK`; `CurrentIsInForce`: exactly when `policy_get` with and without today's date agree; `PastAnswersStand`: the answer about a past day is what was in force then, unless a change reached back to it; `ManifestCoversPeriod`; `GapFloorIsSound`; `FiledAtMostTwice` |

`TypeOK` of the other modules is proved (below) and not spent a run on.

Runs that end in a violation are the disagreements of the next section:
`audit_rotation_race_verify`, `audit_crash_append`, `review_unrecorded`,
`forward_two_senders`.

## Where code and documentation disagree

1. **Two processes and rotation break the chain** (`audit_rotation_race_verify`).
   `write` opens the path before it takes the flock (`audit.py:154`), and `_rotate` runs
   after the flock is released (`audit.py:184`). A writer may append to a file that has
   just been renamed, start a new file from GENESIS, or lose its record under the marker's
   `write_text`. `audit.py:18-21` promises one chain, unbroken across files, for the server
   and the review CLI. Within one process, and for two processes below the rotation
   threshold, the promise holds (`audit_threads`, `audit_two_processes`; both are proved, for one
   process over all its files and for any number of processes before the first rotation).
2. **A torn tail stops the log** (`audit_crash_append`). `_tail_record` parses the last
   non-empty line whatever it is (`audit.py:132`; its docstring says "last complete
   record"), so after a crash inside an append every write raises.
3. **A decision without a record** (`review_unrecorded`). `decide` commits before
   `audit.write` (`review_cli.py:109-110`); a command that ends in between leaves a decided
   draft in no record, and the retry is refused (`review_cli.py:17`: "Every decision ... is
   written").
4. **A second sender ends the first** (`forward_two_senders`). `export` builds the service
   and with it a second Forwarder on the same spool (`review_cli.py:145`, `server.py:73`). The
   file one sender listed may be gone when it reads it; `FileNotFoundError` is not an
   `httpx.HTTPError` (`audit.py:285-290`), so the thread ends and later records stay in the
   spool until a restart (`audit.py:236-237`: "never drop a record; the spool is the retry
   queue").

Smaller divergences, visible in the models and stated as what does hold instead:

- After a crash between `os.replace` and the marker the next file starts over from GENESIS
  (`OnlyRestartsBreakLinks`).
- The rotation marker resets `seq`, so the anchor cadence holds within a file and not across
  rotations; and a rotation that raises ends `write` before `enqueue` (`audit.py:184`), so
  that record is neither anchored nor forwarded (`AnchorCadence` speaks of the first file
  below the threshold). A number the CLI takes is not anchored either, whatever it is: its instances
  have no forwarder (`review_cli.py:95`, `admin_cli.py:46`), so `AnchorCadence` speaks of consecutive
  records of processes that have one, and is silent where records of the CLI lie between.
- `drafts.py:8-9` says "no delete; a rejected draft stays as the record of a decision", but `purge
  --apply` deletes decided rows (`admin_cli.py:40`). `DraftLifecycle` promises the transitions and not
  that rows stay; what remains of a purged draft is its record, as long as the file that holds it.
- After a rename the four-eyes check compares different names of one person
  (`FourEyesUnlessRenamed`).
- `verify` takes no lock: one that runs beside a rotation may miss the file just renamed and report
  a broken chain, or raise `FileNotFoundError`, on a log that is whole (`VerdictStands`;
  `audit.py:329-338`).
- The version in a record is bound before the caller is resolved and may be older than the
  snapshot that authorised the call (`CitesNoNewerSnapshot`; `directory.py:10-11` says it is
  that one).
- A load that raises or is under way delays a deactivation beyond the window
  (`FreshUnlessLoading`; `settings.py:108`), and an edit with the mtime of the file it replaces
  is not seen at all (`directory.py:55`; both directory properties therefore speak of stamps).
- An exception at `service.py:87` leaves no record, and one after an "ok" record leaves two
  (`AnswersAreRecorded`; `service.py:4-5` says exactly one).
- Two fetches of one source that overlap may lose releases, and as they share one temporary
  file the cache may be replaced by one that is empty or half written; if its writer is then
  killed, no later fetch, server start or export can load it (`QuotedReleasesStay` holds
  until runs overlap; `feed_fetcher.py:11-13`: "Existing releases are kept").
- `decision_at` and the purge's cutoff are cut to the second and a file's mtime is not
  (`admin_cli.py:38-42`), so in the second of a cutoff a decided draft stays and the file with
  its decision goes (the exception in `RecordsOutliveRows`).
- Once rotated files are purged, the first record left cites a deleted one, and `verify`, which
  starts at GENESIS, fails (`audit.py:333-344`; `admin_cli.py:10-11`: "so the chain stays
  verifiable up to the purge point"). This follows from the code as it is; no run is spent on it.
  Nor do the files left always follow one another without a gap: a writer that opened a file before
  another renamed it makes that file younger than the ones behind it (`audit.py:154-155`, finding 1),
  and so does a rotation that renames after one with a later stamp (`audit.py:199-204`); a cutoff
  between them deletes the later file. What does hold is that only such late files are left behind
  (`PurgedAreOldest`); while a single process writes there are none.
- A decision that is recorded in a file the purge has listed, or in the active path before another
  rotation writes its marker over it, is lost (`audit.py:154-155`, `audit.py:223`, `admin_cli.py:42-45`).
  `RecordsOutliveRows` leaves these out (`raced`); it is a claim about the purge, not about the log.
- The manifest of a pack is recomputed and not compared with the hash the index cites: it may
  be newer (`PackNotOlderThanIndex`). The audit excerpt reads the active file only
  (`evidence_export.py:85`), so after a rotation a pack lacks the older records.

- `policy_get` without a date names the approved version with the latest effective date, even if
  that has not come, and of two with one date the first file; with today's date it names the version
  in force, and the last file (`CurrentIsInForce`; `store.py:107`, `store.py:116`).
- Retiring a version takes it out of the answers about the time when it was in force, and one
  approved with a date in the past enters them (`PastAnswersStand`); a manifest lists every approved
  version up to the end of the period, those replaced before its start included, and none that was
  retired since (`service.py:252`; `evidence-pack/SKILL.md:18` speaks of versions in force).
- The server never reads its data again: until somebody restarts it, new policies, results and
  releases are in no answer (`service.py:139-143`).
- The intake's windows overlap by a day, so a release may be filed twice (`FiledAtMostTwice`;
  `src/scripts/setup-cron.sh:16` asks for one draft per release); one published after Friday's run or
  on Saturday is in nobody's window, as Monday's run begins with Sunday; and an undated release gets
  the day of each fetch for a date, and so another id every day (`feed_fetcher.py:63-64`).

## What is proved

TLC checks small instances; the theorems below hold for every value of the constants
(any number of threads, processes, records, drafts, edits). The `*_proofs` modules rest
only on the constants' assumptions, which the runs evaluate.

| Theorem | Statement | Argument |
|---|---|---|
| `AuditLog_proofs!ChainIsOneLine` | the abstract chain has distinct identities, no fork, no gap, and ends at its head | `OneLine` is inductive |
| `AuditLog_proofs!TypeCorrect` | the type invariant under `CrashSpec`: crashes and restarts included | inductive as it stands |
| `AuditLog_proofs!OneInstanceImplementsChain` | one instance implements `AuditChain` until it is killed | `ChainInv`, see below |
| `AuditLog_proofs!OneInstanceKeepsRecords` | no step of one instance, death and restart included, removes a record from disk | `RotationInv`: a rotation truncates only the file it has made itself, before anyone appends to it |
| `AuditLog_proofs!OneInstanceForwardsDurably` | whenever it is killed, nothing is in the spool that is not on disk | `SpoolInv`: the record of a thread past its append is on disk |
| `AuditLog_proofs!OneInstanceForwardsAll` | one instance that is not killed forwards every record | `HandOverInv`: a record on disk is in the spool, or its thread is on the way to put it there |
| `AuditLog_proofs!OneInstanceKeepsOneLine` | until it is killed, its records are one line | `OneLine` is kept by every step that implements `AuditChain` |
| `AuditVerify_proofs!OneInstanceVerifies` | until it is killed, `verify` of the files of one instance succeeds at any moment and reports the head | `OrderInv` and `Consecutive`, see below |
| `AuditVerify_proofs!OneInstanceOnlyRestarts` | however often one instance is killed, the only damage is a file that starts over | `OrderInv` |
| `AuditVerify_proofs!VerdictIsRight` | a verification beside the writers of one instance is right and complete, unless a rotation took the active file from behind its listing | `ReaderInv`, see below |
| `AuditVerify_proofs!ProcessesShareChain` | any processes, killed at any statement: the files verify until a rotation begins or a record is cut short | `FirstFileInv`, see below |
| `AuditVerify_proofs!ProcessesImplementChain`, `ProcessesKeepOneLine` | until a rotation begins, any processes implement `AuditChain`, and their records are one line | `FirstFileInv`; identities are issued before they are written |
| `AuditVerify_proofs!AnchorsKeepCadence` | for any processes, any `rotate_bytes` and any `anchor_every`, the anchors of the first file are not further apart than `anchor_every` | `AnchorInv`: a record whose seq is a multiple is anchored, or the thread that wrote it is about to; any `anchor_every` consecutive numbers hold a multiple |
| `RateLimiter_proofs!NeverOverBudget` | in every window, admitted calls fit the bucket and what refilled | a potential, see below |
| `RateLimiter_proofs!DebtIsRepaid` | a bucket's debt never exceeds what the elapsed time repays | each clock reading is at most the clock |
| `RateLimiter_proofs!RefusesOnlyOverBudget` | a refusal means that the last minute's budget is used, but for the refill of the time by which the check was late; assumed is `Capacity <= Minute * PerMinute`, as the service builds the limiter without a burst of its own (`service.py:144`) | `OnlySpent`: for every moment `s`, the bucket's potential is at least what it may have fallen to by `s`, less a token for each call admitted since |
| `DraftReview_proofs!ReviewImplementsLifecycle` | the drafts table implements `DraftLifecycle` | `ReviewInv`: a terminal inside the transaction holds the write lock, and the row its UPDATE found pending is still pending; from the four-eyes check on, presented name and requester differ |
| `DraftReview_proofs!ChainClaimsAreTrue` | the chain claims only decisions that were taken, by whom they were taken, each once | `AboutToRecord`: what a terminal is about to record is in the table; decisions are never changed |
| `DraftReview_proofs!FourEyesWithoutRenames` | nobody decides the draft they filed, while nobody is renamed | `NamesStand`: the name a terminal holds is its person's |
| `DraftReview_proofs!DecisionsAreRecorded` | while no command dies, a decision is in the chain or its terminal is on the way to record it | `OnTheWay` |
| `DraftReview_proofs!PacksAreApproved` | no pack leaves for a draft that does not stay approved | `Packing`: what an export read as approved is so for good |
| `Forwarder_proofs!NeverDrops` | a published record is in the spool or with the sink, whatever ends or is lost | `Delivered`: a sender about to unlink has its 2xx |
| `Forwarder_proofs!NoLostWakeUp` | where one supervised process does all the enqueueing, its sender does not sleep on a file whose writer has set `_wake` | `Prompt`: the event is cleared before the listing, never after it |
| `Forwarder_proofs!SendsFewCopies` | a record reaches the sink at most once for each process of the spool, each lost reply and each exit | `CopiesAreDue`: while the file is there, a copy is that of a lost reply, an exit or a sender about to unlink; once it is gone, at most the senders that had read it still post it; assumed is that the processes are finitely many |
| `Service_proofs!CallsSkipNoEdit` | no edit of `users.json` is missed for good | `DirInv`, see below |
| `Service_proofs!CallsAreFresh` | outside a load and a failed window, edits apply within `ttl_seconds` | `DirInv` |
| `Service_proofs!CitesTheDecidingSnapshotOrOlder` | no record cites a newer snapshot than the one that decided the call | `Bound`: until the lookup the bound version is at most the users in force, which never go back |
| `Service_proofs!AnswersRecorded`, `DraftsRecorded` | every answer is in the chain with its outcome, every draft of a finished call as "ok" unless its write raised | `RecordInv`, see below |
| `Evidence_proofs!PacksMatch` | a pack holds the policy versions its manifest lists, whatever is edited meanwhile | `ExportInv`: what is packed so far equals the manifest so far |
| `Evidence_proofs!PacksAreCurrent` | no file of a pack's manifest is older than in the manifest its index cites | `CitesInv` and `ExportInv`: what an index cites was on disk, and contents only get newer |
| `Evidence_proofs!QuotesStay` | until fetches overlap, quoted releases stay cached, whatever is killed | `Alone`: what the only run will write holds what is cached |
| `Evidence_proofs!RowsAreRecorded` | a decided draft is in the table only with its record, or was decided in a cutoff's second, or its record met another writer or the purge | see below |
| `Evidence_proofs!NoGapIsPurged` | a purge leaves nothing behind a file it deleted but late files, wherever it dies and whoever writes | `AgeInv`, see below |
| `SystemsOfRecord_proofs!CurrentAgrees` | for any files, `policy_get` and the version in force agree exactly where the property says | least and last elements of the finite set of candidates |
| `SystemsOfRecord_proofs!PastAnswers` | answers about past days stand but where a change reached back | `AnswersInv`, see below |
| `SystemsOfRecord_proofs!ManifestsCover` | a manifest lists what was in force on every day of its period | from `AnswersInv`: what was in force was approved by then |
| `SystemsOfRecord_proofs!FloorIsSound` | the floor of tests lies between the calendar periods inside the period and those it meets | integer division by 1, 3 and 12; the two counts are intervals |
| `SystemsOfRecord_proofs!FiledTwiceAtMost` | at most two runs file a dated release | `FiledInv`: a cached dated release has the day it was published, and is filed on that day or the next |

`RateLimiter`, `DraftReview`, `Forwarder`, `Directory` (`DirTypeCorrect`), `Service`, `Evidence` and
`SystemsOfRecord` have a type theorem of their own too. The two directory properties are proved of
`Directory` alone (`EditsAreNotSkipped`, `DeactivationsApply`); every step of the wrapper is a step
of `Directory` or leaves it alone, which carries them over to any traffic.

**The audit chain.** `ImplementsChain` is not inductive: it speaks about what is appended,
and nothing in it says why the value in `prev` is still the head. `ChainInv` adds that the
thread that holds `_thread_lock` is the only one between open and marker; that its `fh` is
the active file; that `prev` and `seq`, once read, are the head's; that identities are
issued in chain order; and that the active path is missing, or the active file empty, only
at the statements of a rotation that make it so. `SingleInstance` (one process) enters at
one place: two threads of one process exclude each other by `_thread_lock`. With two
processes only the flock does, it is on the inode and not held during a rotation, and the
property fails (`audit_rotation_race_verify`).

A death leaves `ChainInv` false (the file may start over), so what is claimed with deaths rests on
weaker invariants that survive them: `RotationInv` (the file a rotation truncates is its own and
still empty) and `SpoolInv`. `UntilCrash` says that `ChainInv` holds until the first death.

**The files and `verify`.** `verify` orders files by name, the writers link each file to the one
made before it; the two agree because of `OrderInv`: names are given in the order the files are
made, only the active file and stamps not yet used are missing, and each file begins where the one before it ends
(`Base`), or starts over. From it follows, without induction over the files, that `verify` comes to
each file with its `Base`: the newest non-empty file named before it is the one made before it.
`OrderInv` survives deaths; `Consecutive` (the records are numbered through) holds until the first.

**The reader.** `ReaderInv` says that the files a verification has walked are those made first, `1` to
some `c`, that its `prev` is the `Base` of the next, and that what it has left names the others (`Rest`).
A rotation that begins behind the listing renames the active file: it stays the last of the inodes
walked, or `renamed` is set. Records are numbered through, so `count` equals the identity of the last
record walked, and what was due is an initial segment of the identities.

**Several processes.** With more than one process the flock is all there is. `FirstFileInv` says that
it is enough for the first file: who has read its tail still holds its lock, and a thread that empties or
overwrites a file has another one open, as a rotation is under way by then. The first stamp ends it:
the next file may be opened before its marker and locked after it (finding 1).

**The wrapper.** `RecordInv` says, for the call of each thread, what the chain holds of it: nothing
until the first attempt to record it; after one that raised, nothing or one "ok", and the thread is
about to write "error" (`Underway`). Calls are numbered, one thread has each (`OwnCalls`), and no
record or answer is of a call not yet made (`NoneAhead`), so a step of one thread leaves the places of
all other calls alone.

**Answers about the past.** `FilesAnswer` says that the files of today answer for each past day
what was in force when it ended, unless the day was altered. A change that does not reach back to a
day leaves the candidates for that day, or takes away one that was not the last. The answer of
the server follows when it has read the present files, and otherwise from the moment of its start:
the days over by then were answered then, and `inForce` is never rewritten.

**The limiter.** For each key, `tokens - last * PerMinute` is a potential: an admission
lowers it by one token, a refill leaves it alone or, at the cap, lowers it. Every admission
therefore leaves a mark that later admissions lie below (`Charged`), and the budget of any
window follows by comparing its two ends. The clock is read before the lock, so
readings reach the bucket out of order; the potential does not depend on the order.

**The directory.** What a thread sees when it leaves `_load` depends on loads of other
threads. `DirInv` says, at each statement, what the thread inside the lock has covered: after
the read, its content carries every stamp written before its clock reading, at least the stamp
it saw, and no older users than those in force. With the lock free (`Settled`), the last check
covered everything before `_checked_at`, or raised. A thread that passes by because of a
recent `_checked_at` (`Passed`) is therefore up to date within the window, or a load is under
way, or one raised; this clause has to survive every later step of the other threads.
`_checked_at` may go back, when a thread with an older reading takes the lock later;
nothing in the argument needs it to grow.

**The purge.** `RetentionInv` orders five clock readings: the stamp of a decision (taken before
the lock), its commit, the last append of the file that records it, the cutoff, and now. A file is
at least as young as every decision in it (`FilesInv`); behind `DeleteRows` a decided row is
young, or was committed after the cutoff was computed; and a listed file holds only decisions committed
before the cutoff, but for those that came in after the listing (`PurgeInv`). A row that stays
therefore has a younger file, but when stamp and cutoff share their second. The time a decision may
wait for the lock does not enter, as a late commit makes the file younger still; nor do late
appends, which do the same. That a purge leaves only late files behind (`PurgedAreOldest`) rests on
`AgeInv`: a file that is not late was renamed before all files with later names and has not
been touched since, so neither they nor the active file are older. Below a listed file every file
left is therefore listed or late, and the lowest goes first.

Every safety property of the passing runs is stated by a theorem. Only model-checked, on the bounds of
the runs, are the liveness properties (`WriteReturns`, `DeliveredUnlessSenderDied`): fairness and
`ENABLED` are outside the proof system's reach. Of the chain that several instances write beyond
the first rotation nothing is claimed but `TypeOK` and `WriteReturns`, as it breaks there (finding 1).
What a purge does to the files of several instances is claimed by `RecordsOutliveRows` and
`PurgedAreOldest`, which name that race as their exception.

## Abstractions, bounds and fairness

**Audit log.** A record's hash is its identity: SHA-256 and HMAC are taken to be
injective, so `prev` either names a record or is GENESIS. File sizes are counted in
records. Stamps of rotated files increase: the names carry nanoseconds, and the
two clock readings a stamp is made of (`audit.py:202`) are taken to fall in one second. `Retention` numbers its files likewise. `write_text` of the
rotation marker truncates and writes in two steps (`truncate`, `marker`). A crash inside an
append leaves an incomplete line (`torn`); what was fsynced stays. Bounds: `MaxWrites` 4
with `RotateAt` 2 gives two rotations, with the other thread at every statement of a write, and a
death at any of them with the writes after the restart. A verification takes the lines of a file
in one step: while one instance writes, a file only grows under its inode. It may see
both rotations, one of them behind its listing.

**Limiter.** Tokens are counted in `Minute`-ths so that the refill is an integer. Four
ticks a minute and two calls a minute give a refill that needs more than one tick, and
seven ticks cover a full window with late readings on both sides.

**Drafts and review.** A draft is a model value and its body is not represented; a person has
a current name, and `Rename` gives them another one. The audit chain is the set of records
with their places: `AuditLog` is where writing it is modelled. The retention purge, which
removes rows, is in `Retention`. Two terminals are what the table can tell apart: SQLite admits one
writer, so a third terminal only waits with the second. `MaxAttempts` 3 allows a retry after
a death.

**Forwarder.** Records are numbered in the order of their file names (a clock reading and
a counter). Backoff counts up to `MaxBackoff` 2, which has the doubling and the cap. One
exit and one lost reply, with two processes on the spool, produce every way a file can be sent
twice or vanish under a sender.

**Directory and service.** The contents that `users.json` has had are numbered; two
successive contents may carry one mtime, and mtimes do not go back. Group and kind checks are one membership.
The threads are interchangeable, hence the symmetry; no property of that run is temporal.
One caller is enough, as callers never meet except in the limiter. The limiter admits or refuses
and the audit write succeeds or raises without a reason, which allows more than the real
ones do. Three contents, two ticks and a window of one tick give edits before, inside and
after a load, and a reading older than a later check. One load and one audit write raise.

**Evidence, feed and retention.** The contents a data file has had are numbered, and a manifest
is the sequence of the contents it was computed from: its hash is taken to be injective. A release
is its id, which `parse_feed` derives from its text. One tick is half a second in the run
(`HalfSeconds`), so that what is cut to the second and what is not differ. `MaxEvents` bounds what
comes from outside, and as fetches share nothing with the log a second one counts as two. Four are enough for what the properties are about: two fetches that
overlap, one of them killed; an edit, a restart, an edit and an export; and two ticks, a
rotation and a purge, or one tick, two rotations that cross and a purge that dies between its unlinks.
A late append is no such event: it is free in every state, and the gap of the previous section occurs
in the run. In `Retention` a stamp is taken in the step of the append that made it due: stamps that are
taken later give the same files in the same order. Append and truncation of the marker are one step, and
the active path may be missing to `ListFiles` as long as a rotation has not written its marker. A
record of no decision may go to any file renamed so far, that of a decision only to one renamed after
its commit (`before`), since the command opens the file after it. One draft serves as index or mapping, since packs and quotes
concern one draft at a time, and one release suffices because a merge treats each alike. For every
other number the theorems hold. Policies come first in the reading order, as `ComplianceService` reads them.

**Systems of record.** One policy, one control and one source: the answers look at one at a time. A
file keeps its effective date, a day is a number, and results carry the number of their month. A start
of the server and a fetch are one step each (`Evidence` and `FeedCache` have their statements);
fetches show any part of what was published. `inForce`, `altered` and `loadedOn` are history: they
say what the properties compare with. Three files are the version in force, its successor and one
more that ties with or overtakes it; three days are yesterday, today and a day ahead; months 1, 4 and
12 give a year, a quarter and parts of both. `ceil` of a float product is the integer ceiling: the
two agree for every period up to two hundred years.

**Deadlock** is checked except in `forward_*` (when both senders have ended and no exits are
left, nothing moves), `calls`, `evidence` and `records` (the bounds on what comes from outside are all
used up). In the audit,
limiter and review runs the idle state at the bounds is an explicit step or stays enabled.

**Fairness.** `AuditLog`: weak fairness for the steps of a write that has begun (the
operating system schedules every thread) and for `Restart` (the supervisor restarts
a process that died); none for `Call`, as nobody has to write. `Forwarder`: weak fairness
for writers and sender and for the supervisor's `Start`, and strong fairness for
`Accepted`: a sink that is asked again and again accepts in the end. Nothing is assumed
about exits, rejected attempts or lost replies. The verification of `AuditReader`
is under no fairness: nobody has to wait for it. `RateLimiter`, `DraftReview`, `Service`, `Evidence` and
`SystemsOfRecord` are checked for safety only and state no fairness.

## Not modelled

- `Forwarder.flush_once`, `pending`, `stop`: called by tests only.
- Hashes and MACs of records: `verify` finds no altered record here, because none is altered.
- The names of rotated files: seconds and nanoseconds come from two readings (`audit.py:202`), so two
  rotations around the turn of a second may sort the wrong way; the models number files in order.
- Searches over policies, controls, tickets and drafts, reconciliation and attestations: filters and
  joins over what was read at start.
- The extraction of quotes from a draft's text, drafts of kinds that pass no check, and the cover
  and audit excerpt of a pack.
- Parsing, the allowlist and HTTP of a fetch; the dry run of a purge; the gap findings that repeat one
  result each.
- Deletion of a data file, and an export that dies (`DraftReview` has the latter).
- `_caller_identity` (`server.py:87-104`): a stateless choice between header and parameter;
  `oidc.py`, settings, record types and logging: library calls and constants.
- Command lines that only print (`verify`'s wrapper, `tail`, `spool`, `list`, `show`).
- The weekly reminders, the evaluation harness, the scenario scripts, prompts and documentation.
- `src/hermes/lazy-packages`: third-party packages vendored for the agent (aiohttp, attrs, idna, yarl and
  others), by far the larger part of the Python lines of the repository. The program's own code is the
  2,700 lines of `src/mcp/src/compliance_mcp`; nothing in it calls those packages.

## Plan

Done are the audit log with its verifier, limiter, review, forwarder, directory, service, feed cache,
retention, evidence and the systems of record. What would add most next:

1. **Proofs**: a death inside the first file of several processes (what a torn line stops, and that it
   stops nothing else); that a purge leaves what `verify` finds whole from its first record on.
2. **The audit excerpt**: `audit_lines_for` over the files of `Retention`.
3. **AuditPipeline**: `AuditLog` and `Forwarder` composed: what is on disk and what the
   sink holds, across deaths; the stamps of rotated files.
4. **Caller identity**: header against parameter, as an operator with a state machine of
   successive calls in one session.
