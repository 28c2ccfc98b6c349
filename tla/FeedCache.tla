----------------------------- MODULE FeedCache ------------------------------
(***************************************************************************)
(* The cache file of one regulator feed and the fetch command that merges   *)
(* new releases into it (feed_fetcher.py).  The command is a scheduled job: *)
(* a run may still be busy when the next one starts.                        *)
(*                                                                          *)
(* A release is its release_id, which parse_feed derives from its text, so  *)
(* a text that the regulator changes is another release.  Sources have a    *)
(* cache file each and do not meet.                                         *)
(***************************************************************************)
EXTENDS Naturals

CONSTANTS
    Releases,    \* the releases a feed may show
    Fetchers,    \* processes of the fetch command
    MaxFetches   \* bound: runs of the command

ASSUME FeedAssumption == MaxFetches \in Nat

VARIABLES
    cache,      \* the file <source>.json
    tmp,        \* the file <source>.tmp
    fpc,        \* the statement each fetcher is about to execute
    parsed,     \* parsed[f]: the releases of the feed it fetched
    merged,     \* merged[f]: the payload it will write
    target,     \* target[f]: the name of the file it has open
    fetches,    \* runs so far
    overlapped  \* two runs have been busy at once (history)

feedVars == <<cache, tmp, fpc, parsed, merged, target, fetches, overlapped>>

\* What a file holds: a whole document, or nothing yet, or part of one.
File == [state : {"missing", "empty", "whole", "torn"}, releases : SUBSET Releases]
Missing == [state |-> "missing", releases |-> {}]
Empty == [state |-> "empty", releases |-> {}]
Torn == [state |-> "torn", releases |-> {}]
Whole(rs) == [state |-> "whole", releases |-> rs]

\* json.loads succeeds, or there is nothing to load.
Loadable(file) == file.state \in {"missing", "whole"}

Busy(f) == fpc[f] # "idle"

FetchEnds(f) ==
    /\ fpc' = [fpc EXCEPT ![f] = "idle"]
    /\ parsed' = [parsed EXCEPT ![f] = {}]
    /\ merged' = [merged EXCEPT ![f] = {}]

-----------------------------------------------------------------------------
\* The command has fetched and parsed a feed that shows rs.
StartFetch(f, rs) ==
    /\ ~Busy(f) /\ fetches < MaxFetches
    /\ fetches' = fetches + 1
    /\ parsed' = [parsed EXCEPT ![f] = rs]
    /\ fpc' = [fpc EXCEPT ![f] = "read"]
    /\ overlapped' = (overlapped \/ \E g \in Fetchers : Busy(g))
    /\ UNCHANGED <<cache, tmp, merged, target>>

MutantMergeNewOnly(f) == parsed[f]

\* existing + added: what is cached stays, unknown releases are appended.
Merge(f) == cache.releases \cup parsed[f]

ReadCache(f) ==
    /\ fpc[f] = "read"
    /\ Loadable(cache)
    /\ merged' = [merged EXCEPT ![f] = Merge(f)]
    /\ fpc' = [fpc EXCEPT ![f] = "open"]
    /\ UNCHANGED <<cache, tmp, parsed, target, fetches, overlapped>>

\* json.loads raises on a file that is not a whole document.
ReadFails(f) ==
    /\ fpc[f] = "read"
    /\ ~Loadable(cache)
    /\ FetchEnds(f)
    /\ UNCHANGED <<cache, tmp, target, fetches, overlapped>>

\* write_text creates or empties the temporary file ...
OpenTmp(f) ==
    /\ fpc[f] = "open"
    /\ tmp' = Empty
    /\ target' = [target EXCEPT ![f] = "tmp"]
    /\ fpc' = [fpc EXCEPT ![f] = "write"]
    /\ UNCHANGED <<cache, parsed, merged, fetches, overlapped>>

\* What the file holds after f wrote from its start: over the text of another
\* run, the rest of a longer text may remain.
Overwritten(file, f) == {Whole(merged[f])} \cup IF file = Empty THEN {} ELSE {Torn}

\* ... and fills the file it opened, whatever that file is called by now.
WriteTmp(f) ==
    /\ fpc[f] = "write"
    /\ \/ target[f] = "tmp" /\ tmp' \in Overwritten(tmp, f) /\ UNCHANGED cache
       \/ target[f] = "cache" /\ cache' \in Overwritten(cache, f) /\ UNCHANGED tmp
       \/ target[f] = "none" /\ UNCHANGED <<cache, tmp>>
    /\ target' = [target EXCEPT ![f] = "none"]
    /\ fpc' = [fpc EXCEPT ![f] = "replace"]
    /\ UNCHANGED <<parsed, merged, fetches, overlapped>>

\* The temporary file becomes the cache; files open elsewhere follow.
Replace(f) ==
    /\ fpc[f] = "replace"
    /\ tmp # Missing
    /\ cache' = tmp
    /\ tmp' = Missing
    /\ target' = [g \in Fetchers |-> IF target[g] = "tmp" THEN "cache" ELSE "none"]
    /\ FetchEnds(f)
    /\ UNCHANGED <<fetches, overlapped>>

\* Another run has taken the temporary file away: FileNotFoundError.
ReplaceFails(f) ==
    /\ fpc[f] = "replace"
    /\ tmp = Missing
    /\ FetchEnds(f)
    /\ UNCHANGED <<cache, tmp, target, fetches, overlapped>>

\* The job is killed.  Inside write_text the file it has open may hold a part
\* of the payload.
FetchDies(f) ==
    /\ Busy(f)
    /\ \/ UNCHANGED <<cache, tmp>>
       \/ target[f] = "tmp" /\ tmp' = Torn /\ UNCHANGED cache
       \/ target[f] = "cache" /\ cache' = Torn /\ UNCHANGED tmp
    /\ target' = [target EXCEPT ![f] = "none"]
    /\ FetchEnds(f)
    /\ UNCHANGED <<fetches, overlapped>>

-----------------------------------------------------------------------------
FeedInit ==
    /\ cache = Missing /\ tmp = Missing
    /\ fpc = [f \in Fetchers |-> "idle"]
    /\ parsed = [f \in Fetchers |-> {}]
    /\ merged = [f \in Fetchers |-> {}]
    /\ target = [f \in Fetchers |-> "none"]
    /\ fetches = 0 /\ overlapped = FALSE

FeedNext == \E f \in Fetchers :
    \/ \E rs \in SUBSET Releases : StartFetch(f, rs)
    \/ ReadCache(f) \/ ReadFails(f) \/ OpenTmp(f) \/ WriteTmp(f)
    \/ Replace(f) \/ ReplaceFails(f) \/ FetchDies(f)

FeedTypeOK ==
    /\ cache \in File /\ tmp \in File
    /\ fpc \in [Fetchers -> {"idle", "read", "open", "write", "replace"}]
    /\ parsed \in [Fetchers -> SUBSET Releases]
    /\ merged \in [Fetchers -> SUBSET Releases]
    /\ target \in [Fetchers -> {"none", "tmp", "cache"}]
    /\ fetches \in Nat /\ overlapped \in BOOLEAN
    /\ \A f \in Fetchers : target[f] # "none" => fpc[f] = "write"

-----------------------------------------------------------------------------
\* While runs have not overlapped: at most one is busy, what it will write
\* holds what is cached, and the cache is a whole document.
Alone ==
    /\ \A f, g \in Fetchers : Busy(f) /\ Busy(g) => f = g
    /\ Loadable(cache)
    /\ \A f \in Fetchers :
          /\ fpc[f] \in {"open", "write", "replace"} => cache.releases \subseteq merged[f]
          /\ fpc[f] = "write" => target[f] = "tmp" /\ tmp = Empty
          /\ fpc[f] = "replace" => tmp = Whole(merged[f])

FeedInv == overlapped \/ Alone
=============================================================================
