------------------------------ MODULE Evidence ------------------------------
(***************************************************************************)
(* From the data to the evidence pack: the files of the systems of record   *)
(* (store.py), the service that reads them once at start, the checks of     *)
(* draft_create (draft_checks.py), and the export command, which builds a   *)
(* service of its own and packs the policy files (evidence_export.py).      *)
(* Releases come from FeedCache; drafts, their decisions and the audit      *)
(* files from Retention.                                                    *)
(*                                                                          *)
(* The contents a data file has had are numbered.  A manifest is the        *)
(* sequence of the contents it was computed from, and its hash is itself.   *)
(***************************************************************************)
EXTENDS FeedCache, Retention

CONSTANTS
    NPolicies,  \* number of policy documents
    NFiles,     \* data files: the policies, then controls.json and tickets.json
    MaxEdits,   \* bound: edits of data files
    MaxStops,   \* bound: restarts of the server
    MaxExports, \* bound: export commands
    MaxEvents   \* bound: fetches, edits, restarts, exports, ticks, purges and rotations

ASSUME EvidenceAssumption ==
    /\ NPolicies \in Nat /\ NFiles \in Nat /\ NPolicies <= NFiles
    /\ MaxEdits \in Nat /\ MaxStops \in Nat /\ MaxExports \in Nat /\ MaxEvents \in Nat

VARIABLES
    data,      \* data[i]: the content of file i
    loaded,    \* the contents the server has read, in file order
    up,        \* the server has read everything and answers
    known,     \* the releases it has read
    bundle,    \* the manifest of the last evidence_bundle call
    kind,      \* the kind of the drafts filed
    cited,     \* cited[d]: the manifest whose hash the body of index d cites
    quoted,    \* quoted[d]: the releases mapping d quotes
    epc,       \* the statement of the export command
    subject,   \* its draft
    seen,      \* the status the export read
    fresh,     \* the contents its own service has read
    packed,    \* the policies it has packed so far
    packs,     \* the packs written
    edits, stops, exports  \* how many so far

serverVars == <<loaded, up, known>>
draftVars == <<bundle, kind, cited, quoted>>
exportVars == <<epc, subject, seen, fresh, packed, packs, exports>>
evidenceVars == <<data, serverVars, draftVars, exportVars, edits, stops>>
vars == <<feedVars, retentionVars, evidenceVars>>

DataFiles == 1..NFiles
Policies == 1..NPolicies
NoManifest == <<>>

Edit(i) ==
    /\ edits < MaxEdits
    /\ edits' = edits + 1
    /\ data' = [data EXCEPT ![i] = @ + 1]
    /\ UNCHANGED <<feedVars, retentionVars, serverVars, draftVars, exportVars, stops>>

-----------------------------------------------------------------------------
(* The server: build_service, then the tools.                               *)

\* The next data file in reading order.
NextContent(read) == data[Len(read) + 1]

ServerReads ==
    /\ ~up /\ Len(loaded) < NFiles
    /\ loaded' = Append(loaded, NextContent(loaded))
    /\ UNCHANGED <<feedVars, retentionVars, data, up, known, draftVars, exportVars, edits, stops>>

\* RegulatoryFeed is read after them; a cache that does not load ends the start.
ServerStarts ==
    /\ ~up /\ Len(loaded) = NFiles
    /\ \/ /\ Loadable(cache)
          /\ up' = TRUE /\ known' = cache.releases
          /\ UNCHANGED loaded
       \/ /\ ~Loadable(cache)
          /\ loaded' = <<>>
          /\ UNCHANGED <<up, known>>
    /\ UNCHANGED <<feedVars, retentionVars, data, draftVars, exportVars, edits, stops>>

ServerStops ==
    /\ up /\ stops < MaxStops
    /\ stops' = stops + 1
    /\ up' = FALSE /\ loaded' = <<>> /\ known' = {}
    /\ UNCHANGED <<feedVars, retentionVars, data, draftVars, exportVars, edits>>

\* The audit record of a call that changes no row.
LogCall == Log({}, Renamed) /\ UNCHANGED <<now, draftsTable, purgeVars>>

\* evidence_bundle: the agent keeps the hash of what the server computed.
Bundle ==
    /\ up
    /\ bundle' = loaded
    /\ LogCall
    /\ UNCHANGED <<feedVars, data, serverVars, kind, cited, quoted, exportVars, edits, stops>>

MutantIndexOk(hash) == hash = NoManifest \/ hash = loaded

\* check_evidence_pack_index: the hash cited is the one computed now.
IndexOk(hash) == hash # NoManifest /\ hash = loaded

\* check_policy_mapping: every quote is in the text of a related release the
\* server knows.
MappingOk(related, quotes) ==
    LET corpus == related \cap known
    IN  quotes # {} /\ corpus # {} /\ quotes \subseteq corpus

\* draft_create with an index that cites hash.
CreateIndex(d, hash) ==
    /\ up
    /\ IndexOk(hash)
    /\ Insert(d)
    /\ kind' = [kind EXCEPT ![d] = "evidence_pack_index"]
    /\ cited' = [cited EXCEPT ![d] = hash]
    /\ UNCHANGED <<feedVars, data, serverVars, bundle, quoted, exportVars, edits, stops>>

\* draft_create with a mapping that quotes releases.  (The other kinds pass no
\* check and cannot be exported; they are left out.)
CreateMapping(d, related, quotes) ==
    /\ up
    /\ MappingOk(related, quotes)
    /\ Insert(d)
    /\ kind' = [kind EXCEPT ![d] = "policy_mapping"]
    /\ quoted' = [quoted EXCEPT ![d] = quotes]
    /\ UNCHANGED <<feedVars, data, serverVars, bundle, cited, exportVars, edits, stops>>

\* DraftRejected, of an index or of a mapping without quotes: only the audit
\* record remains.
Reject ==
    /\ up
    /\ LogCall
    /\ UNCHANGED <<feedVars, evidenceVars>>

-----------------------------------------------------------------------------
(* compliance-review export.                                                *)

\* The draft is read.  A missing row is refused, and a title that names no
\* control and period, which an index has and a mapping may have.
StartExport(d) ==
    /\ epc = "idle" /\ exports < MaxExports
    /\ exports' = exports + 1
    /\ subject' = d
    /\ seen' = status[d]
    /\ \/ epc' = "load" /\ status[d] \notin {"absent", "purged"}
       \/ epc' = "refuse" /\ (status[d] \in {"absent", "purged"} \/ kind[d] = "policy_mapping")
    /\ UNCHANGED <<feedVars, retentionVars, data, serverVars, draftVars, fresh, packed, packs,
                   edits, stops>>

ExportReads ==
    /\ epc = "load" /\ Len(fresh) < NFiles
    /\ fresh' = Append(fresh, NextContent(fresh))
    /\ UNCHANGED <<feedVars, retentionVars, data, serverVars, draftVars, epc, subject, seen, packed,
                   packs, exports, edits, stops>>

ExportEnds ==
    /\ epc' = "idle" /\ subject' = None /\ seen' = "absent"
    /\ fresh' = <<>> /\ packed' = <<>>

\* The feed cache is read with the rest: the command fails if it does not load.
ExportFails ==
    /\ epc = "load" /\ Len(fresh) = NFiles
    /\ ~Loadable(cache)
    /\ ExportEnds
    /\ UNCHANGED <<feedVars, retentionVars, data, serverVars, draftVars, packs, exports,
                   edits, stops>>

\* The manifest is computed and build_pack looks at the draft as it was read.
Exportable == kind[subject] = "evidence_pack_index" /\ seen = "approved"

ExportChecks ==
    /\ epc = "load" /\ Len(fresh) = NFiles
    /\ Loadable(cache)
    /\ epc' = IF Exportable THEN "pack" ELSE "refuse"
    /\ UNCHANGED <<feedVars, retentionVars, data, serverVars, draftVars, subject, seen, fresh,
                   packed, packs, exports, edits, stops>>

MutantPackAny ==
    /\ epc = "pack" /\ Len(packed) < NPolicies
    /\ packed' = Append(packed, NextContent(packed))
    /\ UNCHANGED <<feedVars, retentionVars, data, serverVars, draftVars, epc, subject, seen, fresh,
                   packs, exports, edits, stops>>

\* A policy is read again and its hash compared with the manifest's.
PackPolicy ==
    /\ epc = "pack" /\ Len(packed) < NPolicies
    /\ IF NextContent(packed) = fresh[Len(packed) + 1]
       THEN packed' = Append(packed, NextContent(packed)) /\ UNCHANGED epc
       ELSE epc' = "refuse" /\ UNCHANGED packed
    /\ UNCHANGED <<feedVars, retentionVars, data, serverVars, draftVars, subject, seen, fresh,
                   packs, exports, edits, stops>>

\* The zip is written, then recorded.
WritePack ==
    /\ epc = "pack" /\ Len(packed) = NPolicies
    /\ packs' = packs \cup {[draft |-> subject, manifest |-> fresh, policies |-> packed]}
    /\ epc' = "record"
    /\ UNCHANGED <<feedVars, retentionVars, data, serverVars, draftVars, subject, seen, fresh,
                   packed, exports, edits, stops>>

RecordExport ==
    /\ epc \in {"record", "refuse"}
    /\ LogCall
    /\ ExportEnds
    /\ UNCHANGED <<feedVars, data, serverVars, draftVars, packs, exports, edits, stops>>

-----------------------------------------------------------------------------
Init ==
    /\ FeedInit /\ RetentionInit
    /\ data = [i \in DataFiles |-> 0]
    /\ loaded = <<>> /\ up = FALSE /\ known = {}
    /\ bundle = NoManifest
    /\ kind = [d \in Drafts |-> "none"]
    /\ cited = [d \in Drafts |-> NoManifest]
    /\ quoted = [d \in Drafts |-> {}]
    /\ epc = "idle" /\ subject = None /\ seen = "absent"
    /\ fresh = <<>> /\ packed = <<>> /\ packs = {}
    /\ edits = 0 /\ stops = 0 /\ exports = 0

EvidenceNext ==
    \/ \E i \in DataFiles : Edit(i)
    \/ ServerReads \/ ServerStarts \/ ServerStops \/ Bundle \/ Reject
    \/ \E d \in Drafts : CreateIndex(d, bundle)
    \/ \E d \in Drafts, related, quotes \in SUBSET Releases : CreateMapping(d, related, quotes)
    \/ \E d \in Drafts : StartExport(d)
    \/ ExportReads \/ ExportFails \/ ExportChecks \/ PackPolicy \/ WritePack \/ RecordExport

\* What has come from outside so far; the second fetch counts twice, the third
\* three times.
Events == (fetches * (fetches + 1)) \div 2
          + edits + stops + exports + now + purges + Len(files)

Next ==
    /\ \/ EvidenceNext
       \/ FeedNext /\ UNCHANGED <<retentionVars, evidenceVars>>
       \/ RetentionNext /\ UNCHANGED <<feedVars, evidenceVars>>
    /\ Events' <= MaxEvents

Spec == Init /\ [][Next]_vars

-----------------------------------------------------------------------------
(* Properties.                                                               *)

\* The contents read from a prefix of the data files.
IsReading(read) == read \in Seq(Nat) /\ Len(read) <= NFiles

ServerTypeOK ==
    /\ data \in [DataFiles -> Nat]
    /\ IsReading(loaded)
    /\ up \in BOOLEAN /\ (up => Len(loaded) = NFiles)
    /\ known \subseteq Releases

DraftsTypeOK ==
    /\ IsReading(bundle)
    /\ kind \in [Drafts -> {"none", "evidence_pack_index", "policy_mapping"}]
    /\ cited \in [Drafts -> Seq(Nat)] /\ \A d \in Drafts : Len(cited[d]) <= NFiles
    /\ quoted \in [Drafts -> SUBSET Releases]

ExportTypeOK ==
    /\ epc \in {"idle", "load", "pack", "record", "refuse"}
    /\ subject \in Drafts \cup {None}
    /\ seen \in {"absent", "pending", "purged"} \cup Decided
    /\ IsReading(fresh) /\ IsReading(packed)
    /\ \A p \in packs : /\ p.draft \in Drafts
                       /\ IsReading(p.manifest) /\ Len(p.manifest) = NFiles
                       /\ IsReading(p.policies) /\ Len(p.policies) = NPolicies
    /\ edits \in Nat /\ stops \in Nat /\ exports \in Nat

\* Types; a pack holds every policy of its manifest (evidence_export.py:49-54).
TypeOK == FeedTypeOK /\ RetentionTypeOK /\ ServerTypeOK /\ DraftsTypeOK /\ ExportTypeOK

\* Whatever is edited between the two readings of a policy, a pack holds the
\* versions its manifest lists (evidence_export.py:4-6, "every policy document
\* version it references").
PackMatchesManifest ==
    \A p \in packs : \A i \in Policies : p.policies[i] = p.manifest[i]

\* The manifest of a pack is never older, in any file, than the one its index
\* cites: the export reads the data again, and restarts and rejections
\* keep an index from citing what the server did not read (draft_checks.py:13-15).
\* It may be newer: build_pack does not compare the two.
PackNotOlderThanIndex ==
    \A p \in packs : \A i \in DataFiles :
        i \in DOMAIN cited[p.draft] /\ cited[p.draft][i] <= p.manifest[i]

\* What a filed mapping quotes stays in the feed cache with its text, across
\* fetches and restarts, unless two fetches have overlapped
\* (feed_fetcher.py:11-13).
QuotedReleasesStay ==
    overlapped \/ \A d \in Drafts : quoted[d] \subseteq cache.releases

-----------------------------------------------------------------------------
(* The inductive invariants.                                                 *)

\* read is not newer than the data, file by file.
NotNewer(read, than) == \A i \in 1..Len(read) : read[i] <= than[i]

\* What the server serves is on disk, or was.
ServerInv ==
    /\ NotNewer(loaded, data)
    /\ overlapped \/ known \subseteq cache.releases

\* An index cites a whole manifest, of data that is not newer than today's.
CitesInv ==
    /\ NotNewer(bundle, data)
    /\ \A d \in Drafts :
          /\ NotNewer(cited[d], data)
          /\ kind[d] = "evidence_pack_index" => status[d] # "absent" /\ Len(cited[d]) = NFiles

\* What the export command has read so far.
ExportInv ==
    /\ epc = "idle" => fresh = <<>> /\ packed = <<>>
    /\ epc = "load" => packed = <<>>
    /\ epc \in {"load", "pack"} =>
          /\ subject \in Drafts /\ status[subject] # "absent"
          /\ kind[subject] = "evidence_pack_index" =>
                \A i \in 1..Len(fresh) : cited[subject][i] <= fresh[i]
    /\ epc = "pack" =>
          /\ kind[subject] = "evidence_pack_index" /\ Len(fresh) = NFiles
          /\ Len(packed) <= NPolicies
          /\ \A i \in 1..Len(packed) : packed[i] = fresh[i]

PacksInv == \A p \in packs : kind[p.draft] = "evidence_pack_index"

EvidenceInv == ServerInv /\ CitesInv /\ ExportInv /\ PacksInv
=============================================================================
