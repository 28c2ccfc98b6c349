-------------------------- MODULE Evidence_proofs ---------------------------
(***************************************************************************)
(* What a mapping quotes stays in the feed cache while fetches do not       *)
(* overlap; a pack holds the policies of its manifest and is not older than *)
(* its index; the purge takes the record of no draft it keeps, and of the   *)
(* log the oldest files, whatever several writers do to it meanwhile.       *)
(***************************************************************************)
EXTENDS Evidence, TLAPS

LEMMA Bounds == MaxTime \in Nat /\ Keep \in Nat /\ None \notin Drafts
BY RetentionAssumption

USE Bounds, FeedAssumption, EvidenceAssumption

-----------------------------------------------------------------------------
(* The feed cache.                                                           *)

LEMMA FeedTypes == FeedTypeOK /\ [FeedNext]_feedVars => FeedTypeOK'
<1> SUFFICES ASSUME FeedTypeOK, [FeedNext]_feedVars PROVE FeedTypeOK'
  OBVIOUS
<1> USE DEF FeedTypeOK, FetchEnds, Busy, File, Whole, Missing, Empty, Torn
<1>1. ASSUME NEW f \in Fetchers, NEW rs \in SUBSET Releases, StartFetch(f, rs) PROVE FeedTypeOK'
  BY <1>1 DEF StartFetch
<1>2. ASSUME NEW f \in Fetchers, ReadCache(f) PROVE FeedTypeOK'
  BY <1>2 DEF ReadCache, Merge
<1>3. ASSUME NEW f \in Fetchers, ReadFails(f) PROVE FeedTypeOK'
  BY <1>3 DEF ReadFails
<1>4. ASSUME NEW f \in Fetchers, OpenTmp(f) PROVE FeedTypeOK'
  BY <1>4 DEF OpenTmp
<1>5. ASSUME NEW f \in Fetchers, WriteTmp(f) PROVE FeedTypeOK'
  <2>1. \A file : Overwritten(file, f) \subseteq File
    BY DEF Overwritten
  <2> QED
    BY <1>5, <2>1 DEF WriteTmp
<1>6. ASSUME NEW f \in Fetchers, Replace(f) PROVE FeedTypeOK'
  <2>1. \A g \in Fetchers : target[g] = "tmp" => fpc[g] = "write" /\ g # f
    BY <1>6 DEF Replace
  <2> QED
    BY <1>6, <2>1 DEF Replace
<1>7. ASSUME NEW f \in Fetchers, ReplaceFails(f) PROVE FeedTypeOK'
  BY <1>7 DEF ReplaceFails
<1>8. ASSUME NEW f \in Fetchers, FetchDies(f) PROVE FeedTypeOK'
  BY <1>8 DEF FetchDies
<1>9. CASE UNCHANGED feedVars
  BY <1>9 DEF feedVars
<1> QED
  BY <1>1, <1>2, <1>3, <1>4, <1>5, <1>6, <1>7, <1>8, <1>9 DEF FeedNext

\* A step of a fetch keeps what is cached, while no two have overlapped.
CacheGrows == overlapped' \/ cache.releases \subseteq cache'.releases

LEMMA FeedSteps == FeedTypeOK /\ FeedInv /\ [FeedNext]_feedVars => FeedInv' /\ CacheGrows
<1> SUFFICES ASSUME FeedTypeOK, FeedInv, [FeedNext]_feedVars PROVE FeedInv' /\ CacheGrows
  OBVIOUS
<1>0. ASSUME overlapped PROVE overlapped'
  BY <1>0 DEF FeedNext, feedVars, StartFetch, ReadCache, ReadFails, OpenTmp, WriteTmp, Replace,
              ReplaceFails, FetchDies
<1> SUFFICES ASSUME ~overlapped, Alone PROVE FeedInv' /\ CacheGrows
  BY <1>0 DEF FeedInv, CacheGrows
<1> USE DEF FeedTypeOK, FeedInv, Alone, CacheGrows, Busy, FetchEnds
<1>1. ASSUME NEW f \in Fetchers, NEW rs \in SUBSET Releases, StartFetch(f, rs) PROVE FeedInv' /\ CacheGrows
  BY <1>1 DEF StartFetch
<1>2. ASSUME NEW f \in Fetchers, ReadCache(f) PROVE FeedInv' /\ CacheGrows
  BY <1>2 DEF ReadCache, Merge
<1>3. ASSUME NEW f \in Fetchers, ReadFails(f) PROVE FALSE
  BY <1>3 DEF ReadFails
<1>4. ASSUME NEW f \in Fetchers, OpenTmp(f) PROVE FeedInv' /\ CacheGrows
  BY <1>4 DEF OpenTmp
<1>5. ASSUME NEW f \in Fetchers, WriteTmp(f) PROVE FeedInv' /\ CacheGrows
  <2>1. target[f] = "tmp" /\ tmp = Empty
    BY <1>5 DEF WriteTmp
  <2>2. tmp' = Whole(merged[f]) /\ UNCHANGED cache
    BY <1>5, <2>1 DEF WriteTmp, Overwritten
  <2> QED
    BY <1>5, <2>2 DEF WriteTmp
<1>6. ASSUME NEW f \in Fetchers, Replace(f) PROVE FeedInv' /\ CacheGrows
  <2>1. cache' = Whole(merged[f]) /\ cache.releases \subseteq merged[f]
    BY <1>6 DEF Replace
  <2>2. \A g \in Fetchers : fpc'[g] = "idle"
    BY <1>6 DEF Replace
  <2> QED
    BY <1>6, <2>1, <2>2 DEF Replace, Whole, Loadable
<1>7. ASSUME NEW f \in Fetchers, ReplaceFails(f) PROVE FALSE
  BY <1>7 DEF ReplaceFails, Whole, Missing
<1>8. ASSUME NEW f \in Fetchers, FetchDies(f) PROVE FeedInv' /\ CacheGrows
  <2>1. UNCHANGED cache
    BY <1>8 DEF FetchDies
  <2>2. \A g \in Fetchers : fpc'[g] = "idle"
    BY <1>8 DEF FetchDies
  <2> QED
    BY <1>8, <2>1, <2>2 DEF FetchDies
<1>9. CASE UNCHANGED feedVars
  BY <1>9 DEF feedVars
<1> QED
  BY <1>1, <1>2, <1>3, <1>4, <1>5, <1>6, <1>7, <1>8, <1>9 DEF FeedNext

-----------------------------------------------------------------------------
(* The purge.                                                                *)

\* What the files hold.
LEMMA FileTypes ==
  ASSUME RetentionTypeOK
  PROVE  /\ active.decisions \in SUBSET Drafts /\ active.mtime \in Nat /\ now \in Nat
         /\ \A k \in DOMAIN files :
               /\ files[k] \in RotatedFile
               /\ files[k].decisions \in SUBSET Drafts /\ files[k].mtime \in Nat
               /\ files[k].state \in {"stamped", "kept", "deleted"} /\ files[k].late \in BOOLEAN
<1>1. active \in LogFile /\ files \in Seq(RotatedFile)
  BY DEF RetentionTypeOK
<1>2. \A k \in DOMAIN files : files[k] \in RotatedFile
  BY <1>1
<1> QED
  BY <1>1, <1>2 DEF LogFile, RotatedFile, RetentionTypeOK

\* What a change of one file leaves of the others.
LEMMA OneFile ==
  ASSUME NEW fs \in Seq(RotatedFile), NEW k \in DOMAIN fs, NEW file \in RotatedFile
  PROVE  LET changed == [fs EXCEPT ![k] = file]
         IN  /\ changed \in Seq(RotatedFile) /\ DOMAIN changed = DOMAIN fs
             /\ changed[k] = file
             /\ \A j \in DOMAIN fs \ {k} : changed[j] = fs[j]
OBVIOUS

\* What a writer that may go on to rotate leaves of the files it has changed.
LEMMA RotateAdds ==
  ASSUME NEW after \in Seq(RotatedFile), MayRotate(after)
  PROVE  /\ files' \in Seq(RotatedFile) /\ DOMAIN after \subseteq DOMAIN files'
         /\ \A k \in DOMAIN after : files'[k] = after[k]
         /\ \A k \in DOMAIN files' \ DOMAIN after : files'[k] = NewStamp
<1>1. NewStamp \in RotatedFile
  BY DEF NewStamp, RotatedFile
<1>2. CASE files' = after
  BY <1>2
<1>3. CASE files' = Append(after, NewStamp)
  BY <1>1, <1>3
<1> QED
  BY <1>2, <1>3 DEF MayRotate

\* What a write of ds does to a file that has been renamed.
LateGrowth(k, ds) ==
    /\ files'[k].decisions = files[k].decisions \cup ds
    /\ files'[k].mtime = now /\ files'[k].late
    /\ k \in Renamed
    /\ k \in doomed \/ k \notin Kept => ds \subseteq raced'

\* What a write that records the decisions ds does to the files.
LEMMA LogGrows ==
  ASSUME RetentionTypeOK, NEW ds \in SUBSET Drafts, NEW opened \in SUBSET Renamed, Log(ds, opened)
  PROVE  /\ files' \in Seq(RotatedFile) /\ active' \in LogFile /\ unmarked' \in Nat
         /\ raced \subseteq raced' /\ raced' \subseteq Drafts
         /\ DOMAIN files \subseteq DOMAIN files'
         /\ \A k \in DOMAIN files : /\ files'[k].state = files[k].state
                                    /\ files'[k] = files[k] \/ LateGrowth(k, ds)
         /\ \A k \in DOMAIN files' \ DOMAIN files : files'[k] = NewStamp
         /\ \/ active' = active
            \/ active'.decisions = active.decisions \cup ds /\ active'.mtime = now
         /\ Recorded \subseteq Recorded' /\ ds \subseteq Recorded' \cup raced'
<1>1. /\ files \in Seq(RotatedFile) /\ active \in LogFile /\ unmarked' \in Nat
      /\ raced \subseteq Drafts /\ now \in Nat
  BY DEF RetentionTypeOK, Log
<1>2. CASE /\ active' = [decisions |-> active.decisions \cup ds, mtime |-> now]
           /\ MayRotate(files) /\ UNCHANGED raced
  <2>1. active' \in LogFile /\ active'.decisions = active.decisions \cup ds /\ active'.mtime = now
    BY <1>1, <1>2 DEF LogFile
  <2>2. /\ files' \in Seq(RotatedFile) /\ DOMAIN files \subseteq DOMAIN files'
        /\ \A k \in DOMAIN files : files'[k] = files[k]
        /\ \A k \in DOMAIN files' \ DOMAIN files : files'[k] = NewStamp
    BY <1>1, <1>2, RotateAdds
  <2>3. Recorded \subseteq Recorded' /\ ds \subseteq Recorded'
    BY <2>1, <2>2 DEF Recorded, Kept
  <2> QED
    BY <1>1, <1>2, <2>1, <2>2, <2>3
<1>3. ASSUME NEW k \in opened, MayRotate(Grown(k, ds)), UNCHANGED active,
             raced' = IF k \in doomed \/ k \notin Kept THEN raced \cup ds ELSE raced
      PROVE  /\ files' \in Seq(RotatedFile) /\ DOMAIN files \subseteq DOMAIN files'
             /\ \A j \in DOMAIN files : /\ files'[j].state = files[j].state
                                        /\ files'[j] = files[j] \/ LateGrowth(j, ds)
             /\ \A j \in DOMAIN files' \ DOMAIN files : files'[j] = NewStamp
             /\ Recorded \subseteq Recorded' /\ ds \subseteq Recorded' \cup raced'
  <2> DEFINE file == [decisions |-> files[k].decisions \cup ds, mtime |-> now,
                      state |-> files[k].state, late |-> TRUE]
  <2>1. k \in DOMAIN files /\ k \in Renamed /\ Grown(k, ds) = [files EXCEPT ![k] = file]
    BY <1>3 DEF Renamed, Grown
  <2>2. file \in RotatedFile
    BY <1>1, <2>1, FileTypes DEF RotatedFile
  <2>3. /\ file.decisions = files[k].decisions \cup ds /\ file.mtime = now
        /\ file.state = files[k].state /\ file.late
    OBVIOUS
  <2> HIDE DEF file
  <2>4. /\ Grown(k, ds) \in Seq(RotatedFile) /\ DOMAIN Grown(k, ds) = DOMAIN files
        /\ Grown(k, ds)[k] = file
        /\ \A j \in DOMAIN files \ {k} : Grown(k, ds)[j] = files[j]
    BY <1>1, <2>1, <2>2, OneFile
  <2>5. /\ files' \in Seq(RotatedFile) /\ DOMAIN files \subseteq DOMAIN files'
        /\ files'[k] = file
        /\ \A j \in DOMAIN files \ {k} : files'[j] = files[j]
        /\ \A j \in DOMAIN files' \ DOMAIN files : files'[j] = NewStamp
    BY <1>3, <2>1, <2>4, RotateAdds
  <2>6. LateGrowth(k, ds)
    BY <1>3, <2>1, <2>3, <2>5 DEF LateGrowth
  <2>7. \A j \in DOMAIN files : /\ files'[j].state = files[j].state
                                /\ files'[j] = files[j] \/ LateGrowth(j, ds)
    BY <2>3, <2>5, <2>6
  <2>8. /\ \A j \in Kept : j \in Kept' /\ files[j].decisions \subseteq files'[j].decisions
        /\ k \in Kept => ds \subseteq files'[k].decisions
    BY <2>3, <2>5, <2>7 DEF Kept
  <2>9. Recorded \subseteq Recorded' /\ (k \in Kept => ds \subseteq Recorded')
    BY <1>3, <2>8 DEF Recorded
  <2> QED
    BY <1>3, <2>5, <2>7, <2>9
<1>4. CASE \E k \in opened : /\ MayRotate(Grown(k, ds))
                             /\ raced' = IF k \in doomed \/ k \notin Kept THEN raced \cup ds ELSE raced
                             /\ UNCHANGED active
  <2>1. raced \subseteq raced' /\ raced' \subseteq Drafts /\ active' \in LogFile /\ active' = active
    BY <1>1, <1>4
  <2> QED
    BY <1>1, <1>3, <1>4, <2>1
<1> QED
  BY <1>2, <1>4 DEF Log

\* What a rotation does to the file it renames.
LEMMA RenameMoves ==
  ASSUME RetentionTypeOK, NEW k \in DOMAIN files, Rename(k)
  PROVE  /\ files' \in Seq(RotatedFile) /\ DOMAIN files' = DOMAIN files
         /\ files'[k].decisions = active.decisions /\ files'[k].mtime = active.mtime
         /\ files'[k].state = "kept" /\ (files'[k].late <=> \E j \in Renamed : k < j)
         /\ \A j \in DOMAIN files \ {k} : files'[j] = files[j]
         /\ active' \in LogFile /\ active'.decisions = {} /\ active'.mtime = now
         /\ k \notin Renamed /\ Renamed' = Renamed \cup {k} /\ Kept' = Kept \cup {k}
<1> DEFINE file == [decisions |-> active.decisions, mtime |-> active.mtime,
                    state |-> "kept", late |-> \E j \in Renamed : k < j]
<1>1. files \in Seq(RotatedFile) /\ files' = [files EXCEPT ![k] = file] /\ files[k].state = "stamped"
  BY DEF Rename, RetentionTypeOK
<1>2. file \in RotatedFile
  BY FileTypes DEF RotatedFile
<1>3. /\ file.decisions = active.decisions /\ file.mtime = active.mtime
      /\ file.state = "kept" /\ (file.late <=> \E j \in Renamed : k < j)
  OBVIOUS
<1> HIDE DEF file
<1>4. /\ files' \in Seq(RotatedFile) /\ DOMAIN files' = DOMAIN files
      /\ files'[k] = file /\ \A j \in DOMAIN files \ {k} : files'[j] = files[j]
  BY <1>1, <1>2, OneFile
<1>5. active' \in LogFile /\ active'.decisions = {} /\ active'.mtime = now
  BY FileTypes DEF Rename, LogFile
<1>6. k \notin Renamed /\ Renamed' = Renamed \cup {k} /\ Kept' = Kept \cup {k}
  BY <1>1, <1>3, <1>4 DEF Renamed, Kept
<1> QED
  BY <1>3, <1>4, <1>5, <1>6

\* What the purge does to the file it deletes.
LEMMA UnlinkDeletes ==
  ASSUME RetentionTypeOK, NEW k \in DOMAIN files, Unlink(k)
  PROVE  /\ files' \in Seq(RotatedFile) /\ DOMAIN files' = DOMAIN files
         /\ files'[k].decisions = files[k].decisions /\ files'[k].mtime = files[k].mtime
         /\ files'[k].state = "deleted" /\ files'[k].late = files[k].late
         /\ \A j \in DOMAIN files \ {k} : files'[j] = files[j]
         /\ k \in Kept /\ Renamed' = Renamed /\ Kept' = Kept \ {k}
<1> DEFINE file == [files[k] EXCEPT !.state = "deleted"]
<1>1. files \in Seq(RotatedFile) /\ files' = [files EXCEPT ![k] = file] /\ k \in Kept
  BY DEF Unlink, RetentionTypeOK
<1>2. /\ file \in RotatedFile /\ file.decisions = files[k].decisions /\ file.mtime = files[k].mtime
      /\ file.state = "deleted" /\ file.late = files[k].late
  BY FileTypes DEF RotatedFile
<1> HIDE DEF file
<1>3. /\ files' \in Seq(RotatedFile) /\ DOMAIN files' = DOMAIN files
      /\ files'[k] = file /\ \A j \in DOMAIN files \ {k} : files'[j] = files[j]
  BY <1>1, <1>2, OneFile
<1>4. Renamed' = Renamed /\ Kept' = Kept \ {k}
  BY <1>1, <1>2, <1>3 DEF Renamed, Kept
<1> QED
  BY <1>1, <1>2, <1>3, <1>4

\* A step on the files and the table: a write with nothing else, or one of
\* Retention's own.
RetentionStep ==
    \/ RetentionNext
    \/ \E d \in Drafts : Insert(d)
    \/ LogCall
    \/ UNCHANGED retentionVars

LEMMA RetentionTypes == RetentionTypeOK /\ RetentionStep => RetentionTypeOK'
<1> SUFFICES ASSUME RetentionTypeOK, RetentionStep PROVE RetentionTypeOK'
  OBVIOUS
<1> USE DEF RetentionTypeOK, Decided, draftsTable, logVars, purgeVars
<1>1. ASSUME NEW ds \in SUBSET Drafts, NEW opened \in SUBSET Renamed, Log(ds, opened)
      PROVE  /\ files' \in Seq(RotatedFile) /\ active' \in LogFile
             /\ unmarked' \in Nat /\ raced' \subseteq Drafts /\ Kept \subseteq Kept'
  <2>1. /\ files' \in Seq(RotatedFile) /\ active' \in LogFile
        /\ unmarked' \in Nat /\ raced' \subseteq Drafts
        /\ DOMAIN files \subseteq DOMAIN files'
        /\ \A k \in DOMAIN files : files'[k].state = files[k].state
    BY <1>1, LogGrows
  <2> QED
    BY <2>1 DEF Kept
<1>a. Renamed \in SUBSET Nat
  BY DEF Renamed
<1>2. ASSUME NEW d \in Drafts, Insert(d) PROVE RetentionTypeOK'
  <2>1. Log({}, Renamed)
    BY <1>2 DEF Insert
  <2> QED
    BY <1>1, <1>2, <2>1 DEF Insert
<1>3. ASSUME NEW d \in Drafts, RecordDecision(d) PROVE RetentionTypeOK'
  <2>1. Log({d}, Renamed \ before[d])
    BY <1>3 DEF RecordDecision
  <2> QED
    BY <1>1, <1>3, <2>1 DEF RecordDecision
<1>4. CASE RecordPurge
  <2>1. Log({}, Renamed)
    BY <1>4 DEF RecordPurge
  <2>2. /\ ppc' = "idle" /\ asOf' = 0 /\ doomed' = {}
        /\ UNCHANGED <<now, status, decisionAt, committedAt, owed, before, purges, began>>
    BY <1>4 DEF RecordPurge, PurgeEnds
  <2>3. /\ files' \in Seq(RotatedFile) /\ active' \in LogFile
        /\ unmarked' \in Nat /\ raced' \subseteq Drafts
    BY <1>1, <2>1
  <2> QED
    BY <2>2, <2>3
<1>5. CASE LogCall
  <2>1. Log({}, Renamed)
    BY <1>5 DEF LogCall
  <2> QED
    BY <1>1, <1>5, <2>1 DEF LogCall
<1>6. ASSUME NEW d \in Drafts, NEW v \in Decided, NEW at \in 0..MaxTime, Decide(d, v, at)
      PROVE  RetentionTypeOK'
  BY <1>6, <1>a DEF Decide, Kept
<1>7. CASE Tick \/ StartPurge \/ ListFiles \/ PurgeDies
  <2>1. CASE Tick
    BY <2>1 DEF Tick, Kept
  <2>2. CASE StartPurge
    BY <2>2 DEF StartPurge, Kept
  <2>3. CASE ListFiles
    BY <2>3 DEF ListFiles, Kept
  <2>4. CASE PurgeDies
    BY <2>4 DEF PurgeDies, PurgeEnds, Kept
  <2> QED
    BY <1>7, <2>1, <2>2, <2>3, <2>4
<1>8. CASE DeleteRows
  BY <1>8 DEF DeleteRows, Kept
<1>9. ASSUME NEW k \in DOMAIN files, Unlink(k) PROVE RetentionTypeOK'
  BY <1>9, UnlinkDeletes DEF Unlink
<1>12. ASSUME NEW k \in DOMAIN files, Rename(k) PROVE RetentionTypeOK'
  <2>1. /\ files' \in Seq(RotatedFile) /\ active' \in LogFile /\ Kept' = Kept \cup {k}
    BY <1>12, RenameMoves
  <2>2. /\ unmarked' = unmarked + 1
        /\ UNCHANGED <<now, draftsTable, raced, purgeVars>>
    BY <1>12 DEF Rename
  <2> QED
    BY <2>1, <2>2
<1>13. CASE Mark
  <2>1. active' \in LogFile /\ active.decisions \subseteq Drafts
    BY <1>13, FileTypes DEF Mark, LogFile
  <2> QED
    BY <1>13, <2>1 DEF Mark, Kept
<1>10. CASE UNCHANGED retentionVars
  BY <1>10 DEF retentionVars, Kept
<1>11. CASE RetentionNext
  <2>1. CASE \E d \in Drafts, v \in Decided, at \in 0..MaxTime : Decide(d, v, at)
    BY <1>6, <2>1
  <2>2. CASE \E d \in Drafts : RecordDecision(d)
    BY <1>3, <2>2
  <2>3. CASE \E k \in DOMAIN files : Rename(k) \/ Unlink(k)
    BY <1>9, <1>12, <2>3
  <2> QED
    BY <1>4, <1>7, <1>8, <1>11, <1>13, <2>1, <2>2, <2>3 DEF RetentionNext
<1> QED
  BY <1>2, <1>5, <1>10, <1>11 DEF RetentionStep

Settled(d) == status[d] \in Decided \cup {"purged"}

\* A write of ds keeps FilesInv, if ds have been decided.
LEMMA LogKeeps ==
  ASSUME RetentionTypeOK, FilesInv, ClockInv,
         NEW ds \in SUBSET Drafts, NEW opened \in SUBSET Renamed, Log(ds, opened),
         UNCHANGED <<now, committedAt>>,
         \A d \in Drafts : Settled(d) => Settled(d)',
         \A d \in ds : Settled(d)
  PROVE  FilesInv'
<1>1. active.decisions \in SUBSET Drafts /\ \A k \in DOMAIN files : files[k].decisions \in SUBSET Drafts
  BY FileTypes
<1>2. ASSUME NEW d \in Drafts, Settled(d) PROVE committedAt'[d] <= now /\ Settled(d)'
  BY <1>2 DEF ClockInv
<1>3. ASSUME NEW decisions \in SUBSET Drafts, \A d \in decisions : Settled(d)
      PROVE  Tells(decisions, now)'
  BY <1>2, <1>3 DEF Tells, Settled
<1>4. ASSUME NEW decisions \in SUBSET Drafts, NEW mtime, Tells(decisions, mtime)
      PROVE  /\ \A d \in decisions : Settled(d)
             /\ \A d \in decisions : committedAt'[d] <= mtime /\ Settled(d)'
  BY <1>4 DEF Tells, Settled
<1>5. Tells(active.decisions, active.mtime)'
  <2>1. Tells(active.decisions, active.mtime)
    BY DEF FilesInv
  <2>2. CASE active' = active
    BY <1>1, <1>4, <2>1, <2>2 DEF Tells, Settled
  <2>3. CASE active'.decisions = active.decisions \cup ds /\ active'.mtime = now
    <3>1. \A d \in active.decisions \cup ds : committedAt'[d] <= now /\ Settled(d)'
      BY <1>1, <1>2, <1>4, <2>1
    <3> QED
      BY <2>3, <3>1 DEF Tells, Settled
  <2> QED
    BY <2>2, <2>3, LogGrows
<1>6. ASSUME NEW k \in DOMAIN files PROVE Tells(files[k].decisions, files[k].mtime)'
  <2>1. Tells(files[k].decisions, files[k].mtime)
    BY DEF FilesInv
  <2>2. CASE files'[k] = files[k]
    BY <1>1, <1>4, <2>1, <2>2 DEF Tells, Settled
  <2>3. CASE LateGrowth(k, ds)
    <3>1. \A d \in files[k].decisions \cup ds : committedAt'[d] <= now /\ Settled(d)'
      BY <1>1, <1>2, <1>4, <2>1
    <3> QED
      BY <2>3, <3>1 DEF LateGrowth, Tells, Settled
  <2> QED
    BY <2>2, <2>3, LogGrows
<1>7. ASSUME NEW k \in DOMAIN files' \ DOMAIN files PROVE Tells(files[k].decisions, files[k].mtime)'
  <2>1. files'[k] = NewStamp
    BY <1>7, LogGrows
  <2>2. files'[k].decisions = {}
    BY <2>1 DEF NewStamp
  <2> QED
    BY <2>2 DEF Tells
<1> QED
  BY <1>5, <1>6, <1>7 DEF FilesInv

\* What a purge has listed.
Listed == \A k \in doomed : \A d \in files[k].decisions : d \in raced \/ committedAt[d] + Keep < asOf

LEMMA RetentionSteps == RetentionTypeOK /\ RetentionInv /\ RetentionStep => RetentionInv'
<1> SUFFICES ASSUME RetentionTypeOK, RetentionInv, RetentionStep PROVE RetentionInv'
  OBVIOUS
<1> USE DEF Decided, draftsTable, logVars, purgeVars
<1>0. doomed \subseteq Kept /\ Kept \subseteq DOMAIN files
  BY DEF RetentionTypeOK, Kept
<1>1. ASSUME NEW ds \in SUBSET Drafts, NEW opened \in SUBSET Renamed, Log(ds, opened),
             UNCHANGED <<now, committedAt>>,
             \A d \in Drafts : Settled(d) => Settled(d)',
             \A d \in ds : Settled(d)
      PROVE  /\ FilesInv'
             /\ Recorded \subseteq Recorded' /\ raced \subseteq raced'
             /\ ds \subseteq Recorded' \cup raced'
             /\ \A k \in doomed : \A d \in files'[k].decisions :
                   d \in raced' \/ committedAt'[d] + Keep < asOf
  <2>1. FilesInv'
    BY <1>1, LogKeeps DEF RetentionInv
  <2>2. Recorded \subseteq Recorded' /\ raced \subseteq raced' /\ ds \subseteq Recorded' \cup raced'
    BY <1>1, LogGrows
  <2>3. ASSUME NEW k \in doomed, NEW d \in files'[k].decisions
        PROVE  d \in raced' \/ committedAt'[d] + Keep < asOf
    <3>1. CASE d \in files[k].decisions
      BY <1>1, <2>2, <2>3, <3>1 DEF RetentionInv, PurgeInv
    <3>2. CASE d \notin files[k].decisions
      <4>1. k \in DOMAIN files /\ files'[k] # files[k]
        BY <1>0, <2>3, <3>2
      <4>2. LateGrowth(k, ds)
        BY <1>1, <4>1, LogGrows
      <4> QED
        BY <2>3, <3>2, <4>2 DEF LateGrowth
    <3> QED
      BY <3>1, <3>2
  <2> QED
    BY <2>1, <2>2, <2>3
<1>2. ASSUME NEW d \in Drafts, Insert(d) PROVE RetentionInv'
  <2>1. Log({}, Renamed) /\ UNCHANGED <<now, decisionAt, committedAt, owed, ppc, asOf, doomed, began>>
    BY <1>2 DEF Insert
  <2>2. \A e \in Drafts : status'[e] = IF e = d THEN "pending" ELSE status[e]
    BY <1>2 DEF Insert, RetentionTypeOK
  <2>3. status[d] = "absent"
    BY <1>2 DEF Insert
  <2>4. \A e \in Drafts : Settled(e) => Settled(e)'
    BY <2>2, <2>3 DEF Settled
  <2>5. /\ FilesInv' /\ Recorded \subseteq Recorded' /\ raced \subseteq raced'
        /\ \A k \in doomed : \A e \in files'[k].decisions : e \in raced' \/ committedAt'[e] + Keep < asOf
    <3>1. {} \in SUBSET Drafts /\ Renamed \in SUBSET Renamed /\ \A e \in {} : Settled(e)
      OBVIOUS
    <3>2. UNCHANGED <<now, committedAt, asOf>>
      BY <2>1
    <3> QED
      BY <1>1, <2>1, <2>4, <3>1, <3>2
  <2>6. ClockInv'
    BY <2>1, <2>2, <2>3 DEF RetentionInv, ClockInv, RetentionTypeOK
  <2>7. PurgeInv'
    BY <2>1, <2>2, <2>5 DEF RetentionInv, PurgeInv, OldRow
  <2>8. RecordsOutliveRows'
    BY <2>1, <2>2, <2>5 DEF RetentionInv, RecordsOutliveRows
  <2> QED
    BY <2>5, <2>6, <2>7, <2>8 DEF RetentionInv
<1>3. ASSUME NEW d \in Drafts, RecordDecision(d) PROVE RetentionInv'
  <2>1. /\ Log({d}, Renamed \ before[d]) /\ owed' = owed \ {d}
        /\ UNCHANGED <<now, status, decisionAt, committedAt, ppc, asOf, doomed, began>>
    BY <1>3 DEF RecordDecision
  <2>2. Settled(d)
    BY <1>3 DEF RecordDecision, RetentionInv, ClockInv, Settled
  <2>3. \A e \in Drafts : Settled(e) => Settled(e)'
    BY <2>1 DEF Settled
  <2>4. /\ FilesInv' /\ Recorded \subseteq Recorded' /\ raced \subseteq raced'
        /\ d \in Recorded' \cup raced'
        /\ \A k \in doomed : \A e \in files'[k].decisions : e \in raced' \/ committedAt'[e] + Keep < asOf
    BY <1>1, <1>3, <2>1, <2>2, <2>3
  <2>5. ClockInv'
    BY <2>1 DEF RetentionInv, ClockInv
  <2>6. PurgeInv'
    BY <2>1, <2>4 DEF RetentionInv, PurgeInv, OldRow
  <2>7. RecordsOutliveRows'
    BY <2>1, <2>4 DEF RetentionInv, RecordsOutliveRows
  <2> QED
    BY <2>4, <2>5, <2>6, <2>7 DEF RetentionInv
<1>4. CASE RecordPurge \/ LogCall
  <2>1. Log({}, Renamed) /\ UNCHANGED <<now, status, decisionAt, committedAt, owed, began>>
    BY <1>4 DEF RecordPurge, LogCall, PurgeEnds
  <2>2. \/ UNCHANGED <<ppc, asOf, doomed>>
        \/ ppc' = "idle" /\ asOf' = 0 /\ doomed' = {}
    BY <1>4 DEF RecordPurge, LogCall, PurgeEnds
  <2>3. \A d \in Drafts : Settled(d) => Settled(d)'
    BY <2>1 DEF Settled
  <2>4. /\ FilesInv' /\ Recorded \subseteq Recorded' /\ raced \subseteq raced'
        /\ \A k \in doomed : \A e \in files'[k].decisions : e \in raced' \/ committedAt'[e] + Keep < asOf
    BY <1>1, <2>1, <2>3
  <2>5. ClockInv'
    BY <2>1, <2>2 DEF RetentionInv, ClockInv, RetentionTypeOK
  <2>6. PurgeInv'
    BY <2>1, <2>2, <2>4 DEF RetentionInv, PurgeInv, OldRow
  <2>7. RecordsOutliveRows'
    BY <2>1, <2>4 DEF RetentionInv, RecordsOutliveRows
  <2> QED
    BY <2>4, <2>5, <2>6, <2>7 DEF RetentionInv
<1>5. ASSUME NEW d \in Drafts, NEW v \in Decided, NEW at \in 0..MaxTime, Decide(d, v, at)
      PROVE  RetentionInv'
  <2>1. /\ status[d] = "pending" /\ owed' = owed \cup {d} /\ at <= now
        /\ \A e \in Drafts : status'[e] = (IF e = d THEN v ELSE status[e])
        /\ \A e \in Drafts : decisionAt'[e] = (IF e = d THEN at ELSE decisionAt[e])
        /\ \A e \in Drafts : committedAt'[e] = (IF e = d THEN now ELSE committedAt[e])
        /\ UNCHANGED <<now, files, active, raced, ppc, asOf, doomed, began>>
    BY <1>5 DEF Decide, RetentionTypeOK
  <2>2. ASSUME NEW ds \in SUBSET Drafts, NEW mtime \in Nat, Tells(ds, mtime)
        PROVE  /\ d \notin ds
               /\ \A e \in ds : committedAt'[e] <= mtime /\ status'[e] \in Decided \cup {"purged"}
    <3>1. d \notin ds
      BY <2>1, <2>2 DEF Tells
    <3> QED
      BY <2>1, <2>2, <3>1 DEF Tells
  <2>3. FilesInv' /\ \A k \in DOMAIN files : d \notin files[k].decisions
    <3>1. Tells(active.decisions, active.mtime)'
      BY <2>1, <2>2, FileTypes DEF RetentionInv, FilesInv, Tells
    <3>2. ASSUME NEW k \in DOMAIN files
          PROVE  Tells(files[k].decisions, files[k].mtime)' /\ d \notin files[k].decisions
      <4>1. files[k].decisions \in SUBSET Drafts /\ files[k].mtime \in Nat
        BY FileTypes
      <4>2. Tells(files[k].decisions, files[k].mtime)
        BY DEF RetentionInv, FilesInv
      <4> QED
        BY <2>1, <2>2, <4>1, <4>2 DEF Tells
    <3> QED
      BY <2>1, <3>1, <3>2 DEF FilesInv
  <2>4. ClockInv'
    <3>1. \A e \in Drafts : decisionAt'[e] <= committedAt'[e] /\ committedAt'[e] <= now
      <4>1. ASSUME NEW e \in Drafts, e # d PROVE decisionAt'[e] <= committedAt'[e] /\ committedAt'[e] <= now
        BY <2>1, <4>1 DEF RetentionInv, ClockInv
      <4>2. decisionAt'[d] = at /\ committedAt'[d] = now /\ at <= now /\ now \in 0..MaxTime
        BY <1>5, <2>1 DEF RetentionTypeOK
      <4>3. now <= now
        BY <4>2
      <4> QED
        BY <4>1, <4>2, <4>3
    <3>2. \A e \in owed' : status'[e] \in Decided \cup {"purged"}
      BY <1>5, <2>1 DEF RetentionInv, ClockInv, RetentionTypeOK
    <3> QED
      BY <2>1, <3>1, <3>2 DEF RetentionInv, ClockInv
  <2>5. PurgeInv'
    <3>1. Listed'
      BY <1>0, <2>1, <2>3, FileTypes DEF RetentionInv, PurgeInv, Listed
    <3>2. ppc \in {"list", "unlink"} =>
             \A e \in Drafts : status'[e] \in Decided => ~OldRow(e)' \/ asOf <= committedAt'[e]
      BY <1>5, <2>1 DEF RetentionInv, PurgeInv, ClockInv, OldRow
    <3> QED
      BY <2>1, <3>1, <3>2 DEF RetentionInv, PurgeInv, Listed
  <2>6. RecordsOutliveRows'
    BY <2>1 DEF RetentionInv, RecordsOutliveRows, Recorded, Kept
  <2> QED
    BY <2>3, <2>4, <2>5, <2>6 DEF RetentionInv
<1>6. CASE Tick \/ StartPurge \/ PurgeDies
  <2>1. UNCHANGED <<status, decisionAt, committedAt, owed, files, active, raced>> /\ began \subseteq began'
    BY <1>6 DEF Tick, StartPurge, PurgeDies, PurgeEnds
  <2>2. FilesInv' /\ RecordsOutliveRows'
    BY <2>1 DEF RetentionInv, FilesInv, Tells, RecordsOutliveRows, Recorded, Kept
  <2>3. ClockInv'
    BY <1>6, <2>1 DEF RetentionInv, ClockInv, Tick, StartPurge, PurgeDies, PurgeEnds, RetentionTypeOK
  <2>4. PurgeInv'
    BY <1>6, <2>1 DEF RetentionInv, PurgeInv, Tick, StartPurge, PurgeDies, PurgeEnds, OldRow
  <2> QED
    BY <2>2, <2>3, <2>4 DEF RetentionInv
<1>7. CASE DeleteRows
  <2>1. /\ \A d \in Drafts : status'[d] = IF status[d] \in Decided /\ OldRow(d) THEN "purged" ELSE status[d]
        /\ UNCHANGED <<now, decisionAt, committedAt, owed, files, active, raced, asOf, doomed, began>>
        /\ ppc = "rows" /\ ppc' = "list"
    BY <1>7 DEF DeleteRows
  <2>2. \A d \in Drafts : Settled(d) => Settled(d)'
    BY <2>1 DEF Settled
  <2>3. FilesInv'
    BY <2>1, <2>2, FileTypes DEF RetentionInv, FilesInv, Tells, Settled
  <2>4. ClockInv'
    BY <2>1, <2>2 DEF RetentionInv, ClockInv, Settled, RetentionTypeOK
  <2>5. PurgeInv'
    BY <2>1 DEF RetentionInv, PurgeInv, OldRow
  <2>6. RecordsOutliveRows'
    BY <2>1 DEF RetentionInv, RecordsOutliveRows, Recorded, Kept
  <2> QED
    BY <2>3, <2>4, <2>5, <2>6 DEF RetentionInv
<1>8. CASE ListFiles
  <2>1. UNCHANGED <<now, status, decisionAt, committedAt, owed, files, active, raced, asOf, began>>
    BY <1>8 DEF ListFiles
  <2>2. FilesInv' /\ RecordsOutliveRows'
    BY <2>1 DEF RetentionInv, FilesInv, Tells, RecordsOutliveRows, Recorded, Kept
  <2>3. ClockInv'
    BY <1>8, <2>1 DEF RetentionInv, ClockInv, ListFiles
  \* What an old file holds is old.
  <2>4. Listed'
    <3>1. SUFFICES ASSUME NEW k \in doomed', NEW d \in files[k].decisions
                   PROVE  committedAt[d] + Keep < asOf
      BY <2>1 DEF Listed
    <3>2. k \in DOMAIN files /\ files[k].mtime + Keep < asOf
      BY <1>8, <3>1 DEF ListFiles, OldFile, Kept
    <3>3. d \in Drafts /\ committedAt[d] <= files[k].mtime
      BY <3>1, <3>2, FileTypes DEF RetentionInv, FilesInv, Tells
    <3>4. committedAt[d] \in Nat /\ files[k].mtime \in Nat /\ asOf \in Nat
      BY <3>2, <3>3, FileTypes DEF RetentionTypeOK
    <3> QED
      BY <3>2, <3>3, <3>4
  <2>5. PurgeInv'
    BY <1>8, <2>1, <2>4 DEF RetentionInv, PurgeInv, ListFiles, OldRow, Listed
  <2> QED
    BY <2>2, <2>3, <2>5 DEF RetentionInv
<1>9. ASSUME NEW k \in DOMAIN files, Unlink(k) PROVE RetentionInv'
  <2>1. /\ DOMAIN files' = DOMAIN files
        /\ \A j \in DOMAIN files : files'[j].decisions = files[j].decisions /\ files'[j].mtime = files[j].mtime
        /\ \A j \in DOMAIN files \ {k} : files'[j] = files[j]
        /\ Kept' = Kept \ {k}
        /\ UNCHANGED <<now, status, decisionAt, committedAt, owed, active, raced, ppc, asOf, began>>
        /\ ppc = "unlink" /\ k \in doomed /\ doomed' = doomed \ {k}
    BY <1>9, UnlinkDeletes DEF Unlink
  <2>2. FilesInv'
    BY <2>1 DEF RetentionInv, FilesInv, Tells
  <2>3. ClockInv'
    BY <2>1 DEF RetentionInv, ClockInv
  <2>4. PurgeInv'
    <3>1. Listed'
      BY <1>0, <2>1 DEF RetentionInv, PurgeInv, Listed
    <3> QED
      BY <2>1, <3>1 DEF RetentionInv, PurgeInv, OldRow, Listed
  \* The file goes, and with it the record of d, only in the second of the cutoff.
  <2>5. ASSUME NEW d \in Drafts, status[d] \in Decided, d \in Recorded
        PROVE  \/ d \in Recorded' \cup raced'
               \/ \E b \in began : Second[decisionAt[d] + Keep] = Second[b]
    <3>1. CASE d \in files[k].decisions /\ d \notin raced
      <4>1. committedAt[d] + Keep < asOf /\ (~OldRow(d) \/ asOf <= committedAt[d])
        BY <2>1, <2>5, <3>1 DEF RetentionInv, PurgeInv
      <4>2. /\ decisionAt[d] \in Nat /\ committedAt[d] \in Nat
            /\ asOf \in 0..MaxTime /\ decisionAt[d] <= committedAt[d] /\ asOf \in began
        BY <2>1 DEF RetentionTypeOK, RetentionInv, ClockInv
      <4>3. decisionAt[d] + Keep <= asOf /\ ~OldRow(d)
        BY <4>1, <4>2
      <4>4. decisionAt[d] + Keep \in 0..(MaxTime + Keep) /\ asOf \in 0..(MaxTime + Keep)
        BY <4>2, <4>3
      <4>5. Second[decisionAt[d] + Keep] <= Second[asOf]
        BY <4>3, <4>4, RetentionAssumption
      <4>6. Second[decisionAt[d] + Keep] \in Nat /\ Second[asOf] \in Nat
        BY <4>4, RetentionAssumption
      <4> QED
        BY <4>2, <4>3, <4>5, <4>6 DEF OldRow
    <3>2. CASE d \in raced
      BY <2>1, <3>2
    <3>3. CASE d \notin files[k].decisions
      BY <1>0, <2>1, <2>5, <3>3 DEF Recorded
    <3> QED
      BY <3>1, <3>2, <3>3
  <2>6. RecordsOutliveRows'
    BY <2>1, <2>5 DEF RetentionInv, RecordsOutliveRows
  <2> QED
    BY <2>2, <2>3, <2>4, <2>6 DEF RetentionInv
<1>12. ASSUME NEW k \in DOMAIN files, Rename(k) PROVE RetentionInv'
  <2>1. /\ DOMAIN files' = DOMAIN files /\ k \notin doomed
        /\ files'[k].decisions = active.decisions /\ files'[k].mtime = active.mtime
        /\ \A j \in DOMAIN files \ {k} : files'[j] = files[j]
        /\ Kept' = Kept \cup {k} /\ k \notin Kept /\ active'.decisions = {}
        /\ UNCHANGED <<now, status, decisionAt, committedAt, owed, raced, ppc, asOf, doomed, began>>
    BY <1>0, <1>12, RenameMoves DEF Rename, Renamed, Kept
  <2>2. FilesInv'
    BY <2>1 DEF RetentionInv, FilesInv, Tells
  <2>3. ClockInv'
    BY <2>1 DEF RetentionInv, ClockInv
  <2>4. PurgeInv'
    <3>1. Listed'
      BY <1>0, <2>1 DEF RetentionInv, PurgeInv, Listed
    <3> QED
      BY <2>1, <3>1 DEF RetentionInv, PurgeInv, OldRow, Listed
  <2>5. Recorded \subseteq Recorded'
    BY <1>0, <2>1 DEF Recorded
  <2>6. RecordsOutliveRows'
    BY <2>1, <2>5 DEF RetentionInv, RecordsOutliveRows
  <2> QED
    BY <2>2, <2>3, <2>4, <2>6 DEF RetentionInv
<1>13. CASE Mark
  <2>1. /\ active'.decisions = {} /\ raced' = raced \cup active.decisions
        /\ UNCHANGED <<now, status, decisionAt, committedAt, owed, files, ppc, asOf, doomed, began>>
    BY <1>13 DEF Mark
  <2>2. FilesInv' /\ ClockInv' /\ PurgeInv'
    BY <2>1 DEF RetentionInv, FilesInv, Tells, ClockInv, PurgeInv, OldRow
  <2>3. Recorded \subseteq Recorded' \cup raced'
    BY <2>1 DEF Recorded, Kept
  <2>4. RecordsOutliveRows'
    BY <2>1, <2>3 DEF RetentionInv, RecordsOutliveRows
  <2> QED
    BY <2>2, <2>4 DEF RetentionInv
<1>10. CASE UNCHANGED retentionVars
  BY <1>10 DEF retentionVars, RetentionInv, FilesInv, Tells, ClockInv, PurgeInv, RecordsOutliveRows,
               Recorded, Kept, OldRow
<1>11. CASE RetentionNext
  <2>1. CASE \E d \in Drafts, v \in Decided, at \in 0..MaxTime : Decide(d, v, at)
    BY <1>5, <2>1
  <2>2. CASE \E d \in Drafts : RecordDecision(d)
    BY <1>3, <2>2
  <2>3. CASE \E k \in DOMAIN files : Rename(k) \/ Unlink(k)
    BY <1>9, <1>12, <2>3
  <2> QED
    BY <1>4, <1>6, <1>7, <1>8, <1>11, <1>13, <2>1, <2>2, <2>3 DEF RetentionNext
<1> QED
  BY <1>2, <1>4, <1>10, <1>11 DEF RetentionStep

OldestInv == AgeInv /\ PurgedAreOldest

\* A write changes no file but a late one and the active one, both then as old as
\* now: it keeps the order of the log.
LEMMA OldestGrows ==
  ASSUME RetentionTypeOK, OldestInv, NEW ds \in SUBSET Drafts, NEW opened \in SUBSET Renamed,
         Log(ds, opened), now' = now, doomed' \in {doomed, {}}
  PROVE  OldestInv'
<1>1. /\ \A k \in DOMAIN files : files'[k].state = files[k].state
      /\ \A k \in Renamed : \/ files'[k] = files[k]
                            \/ files'[k].late /\ files'[k].mtime = now
  BY LogGrows DEF LateGrowth, Renamed
<1>2. Renamed' = Renamed /\ Kept' = Kept /\ Renamed \subseteq DOMAIN files
  <2>1. /\ DOMAIN files \subseteq DOMAIN files'
        /\ \A k \in DOMAIN files' \ DOMAIN files : files'[k] = NewStamp
    BY LogGrows
  <2>2. NewStamp.state = "stamped"
    BY DEF NewStamp
  <2> QED
    BY <1>1, <2>1, <2>2 DEF Renamed, Kept
<1>3. now \in Nat /\ (active'.mtime = active.mtime \/ active'.mtime = now)
  BY LogGrows, FileTypes
<1>4. /\ active.mtime \in Nat /\ \A k \in Renamed : files[k].mtime \in Nat /\ files[k].mtime <= now
  BY <1>2, FileTypes DEF OldestInv, AgeInv
<1>5. AgeInv'
  <2>1. active'.mtime <= now /\ \A k \in Renamed : files'[k].mtime <= now
    BY <1>1, <1>3, <1>4 DEF OldestInv, AgeInv
  <2>2. ASSUME NEW j \in Renamed, ~files'[j].late
        PROVE  /\ files'[j].mtime <= active'.mtime
               /\ \A k \in Renamed : j < k => files'[j].mtime <= files'[k].mtime
    <3>1. files'[j] = files[j] /\ ~files[j].late
      BY <1>1, <2>2
    <3>2. files[j].mtime <= active'.mtime
      BY <1>3, <1>4, <2>2, <3>1 DEF OldestInv, AgeInv
    <3>3. \A k \in Renamed : j < k => files[j].mtime <= files'[k].mtime
      BY <1>1, <1>4, <2>2, <3>1 DEF OldestInv, AgeInv
    <3> QED
      BY <3>1, <3>2, <3>3
  <2>3. \A k \in doomed : \A j \in Kept : j < k /\ ~files'[j].late => j \in doomed
    <3>1. Kept \subseteq Renamed
      BY DEF Kept, Renamed
    <3> QED
      BY <1>1, <3>1 DEF OldestInv, AgeInv
  <2> QED
    BY <1>2, <2>1, <2>2, <2>3 DEF AgeInv
<1>6. PurgedAreOldest'
  <2>1. SUFFICES ASSUME NEW j \in DOMAIN files', NEW k \in DOMAIN files', j < k,
                        files'[k].state = "deleted", files'[j].state = "kept"
                 PROVE  files'[j].late
    BY DEF PurgedAreOldest
  <2>2. j \in Renamed /\ k \in Renamed
    BY <1>2, <2>1 DEF Renamed
  <2>3. files[j].late
    BY <1>1, <1>2, <2>1, <2>2 DEF OldestInv, PurgedAreOldest
  <2> QED
    BY <1>1, <2>2, <2>3
<1> QED
  BY <1>5, <1>6 DEF OldestInv

LEMMA OldestSteps == RetentionTypeOK /\ OldestInv /\ RetentionStep => OldestInv'
<1> SUFFICES ASSUME RetentionTypeOK, OldestInv, RetentionStep PROVE OldestInv'
  OBVIOUS
<1> USE DEF draftsTable, logVars, purgeVars
<1>0. Kept \subseteq Renamed /\ Renamed \subseteq DOMAIN files /\ DOMAIN files \subseteq Nat
      /\ doomed \subseteq Kept
  BY DEF Kept, Renamed, RetentionTypeOK
<1>1. ASSUME NEW d \in Drafts, Insert(d) \/ RecordDecision(d) PROVE OldestInv'
  <2>1. CASE Insert(d)
    BY <2>1, OldestGrows DEF Insert
  <2>2. CASE RecordDecision(d)
    BY <2>2, OldestGrows DEF RecordDecision
  <2> QED
    BY <1>1, <2>1, <2>2
<1>2. CASE RecordPurge \/ LogCall
  BY <1>2, OldestGrows DEF RecordPurge, LogCall, PurgeEnds
<1>3. CASE /\ UNCHANGED files /\ doomed' \in {doomed, {}}
           /\ now' = now \/ now' = now + 1
           /\ active' = active \/ (active'.mtime = now /\ now' = now)
  <2>1. /\ now \in Nat /\ active.mtime \in Nat /\ \A k \in DOMAIN files : files[k].mtime \in Nat
        /\ Renamed' = Renamed /\ Kept' = Kept
    BY <1>3, FileTypes DEF Renamed, Kept
  <2>2. active'.mtime <= now' /\ active.mtime <= active'.mtime
    BY <1>3, <2>1 DEF OldestInv, AgeInv
  <2>3. \A k \in Renamed : files[k].mtime <= now'
    BY <1>0, <1>3, <2>1 DEF OldestInv, AgeInv
  <2>4. \A j \in Renamed : ~files[j].late => files[j].mtime <= active'.mtime
    <3>1. active'.mtime \in Nat
      BY <1>3, <2>1
    <3> QED
      BY <1>0, <2>1, <2>2, <3>1 DEF OldestInv, AgeInv
  <2> QED
    BY <1>3, <2>1, <2>2, <2>3, <2>4 DEF OldestInv, AgeInv, PurgedAreOldest
<1>4. CASE Tick \/ StartPurge \/ DeleteRows \/ PurgeDies \/ UNCHANGED retentionVars
  BY <1>3, <1>4 DEF Tick, StartPurge, DeleteRows, PurgeDies, PurgeEnds, retentionVars
<1>5. ASSUME NEW d \in Drafts, NEW v \in Decided, NEW at \in 0..MaxTime, Decide(d, v, at)
      PROVE  OldestInv'
  BY <1>3, <1>5 DEF Decide
<1>8. CASE Mark
  BY <1>3, <1>8 DEF Mark
<1>6. CASE ListFiles
  <2>1. UNCHANGED <<now, files, active>> /\ Renamed' = Renamed /\ Kept' = Kept
    BY <1>6 DEF ListFiles, Renamed, Kept
  <2>2. PICK missing \in BOOLEAN :
           doomed' = {k \in Kept : OldFile(k) /\ (missing => \E j \in Kept : k < j)}
    BY <1>6 DEF ListFiles
  <2>3. ASSUME NEW k \in doomed', NEW j \in Kept, j < k, ~files[j].late PROVE j \in doomed'
    <3>1. k \in Kept /\ files[k].mtime + Keep < asOf /\ files[j].mtime <= files[k].mtime
      BY <1>0, <2>2, <2>3 DEF OldFile, OldestInv, AgeInv
    <3>2. files[k].mtime \in Nat /\ files[j].mtime \in Nat /\ asOf \in Nat
      BY <1>0, <3>1, FileTypes DEF RetentionTypeOK
    <3>3. OldFile(j)
      BY <3>1, <3>2 DEF OldFile
    <3> QED
      BY <2>2, <2>3, <3>1, <3>3
  <2> QED
    BY <2>1, <2>3 DEF OldestInv, AgeInv, PurgedAreOldest
<1>7. ASSUME NEW k \in DOMAIN files, Unlink(k) PROVE OldestInv'
  <2>1. /\ DOMAIN files' = DOMAIN files /\ UNCHANGED <<now, active>>
        /\ files'[k].state = "deleted"
        /\ \A j \in DOMAIN files : files'[j].mtime = files[j].mtime /\ files'[j].late = files[j].late
        /\ \A j \in DOMAIN files \ {k} : files'[j] = files[j]
        /\ Renamed' = Renamed /\ Kept' = Kept \ {k}
    BY <1>7, UnlinkDeletes DEF Unlink
  <2>2. k \in doomed /\ doomed' = doomed \ {k} /\ \A j \in doomed : k <= j
    BY <1>7 DEF Unlink
  \* What is below the file that goes has gone before, or is late.
  <2>3. \A j \in Kept : j < k => files[j].late
    <3>1. SUFFICES ASSUME NEW j \in Kept, j < k, ~files[j].late PROVE FALSE
      OBVIOUS
    <3>2. j \in doomed
      BY <2>2, <3>1 DEF OldestInv, AgeInv
    <3>3. j \in Nat /\ k \in Nat
      BY <1>0, <1>7
    <3> QED
      BY <2>2, <3>1, <3>2, <3>3
  <2>4. AgeInv'
    BY <1>0, <2>1, <2>2 DEF OldestInv, AgeInv
  <2>5. PurgedAreOldest'
    <3>1. SUFFICES ASSUME NEW j \in DOMAIN files, NEW i \in DOMAIN files, j < i,
                          files'[i].state = "deleted", files'[j].state = "kept"
                   PROVE  files'[j].late
      BY <2>1 DEF PurgedAreOldest
    <3>2. j # k /\ files[j].state = "kept" /\ j \in Kept
      BY <2>1, <3>1 DEF Kept
    <3>3. CASE i = k
      BY <2>1, <2>3, <3>1, <3>2, <3>3
    <3>4. CASE i # k
      BY <2>1, <3>1, <3>2, <3>4 DEF OldestInv, PurgedAreOldest
    <3> QED
      BY <3>3, <3>4
  <2> QED
    BY <2>4, <2>5 DEF OldestInv
<1>9. ASSUME NEW k \in DOMAIN files, Rename(k) PROVE OldestInv'
  <2>1. /\ DOMAIN files' = DOMAIN files /\ UNCHANGED <<now, doomed>>
        /\ files'[k].mtime = active.mtime /\ files'[k].state = "kept"
        /\ (files'[k].late <=> \E j \in Renamed : k < j)
        /\ \A j \in DOMAIN files \ {k} : files'[j] = files[j]
        /\ active'.mtime = now
        /\ k \notin Renamed /\ Renamed' = Renamed \cup {k} /\ Kept' = Kept \cup {k}
    BY <1>9, RenameMoves DEF Rename
  <2>2. /\ now \in Nat /\ active.mtime \in Nat /\ active.mtime <= now
        /\ \A j \in Renamed : files[j].mtime \in Nat /\ files[j].mtime <= now /\ files'[j] = files[j]
    BY <1>0, <2>1, FileTypes DEF OldestInv, AgeInv
  <2>3. ASSUME NEW j \in Renamed', ~files'[j].late
        PROVE  /\ files'[j].mtime <= now
               /\ \A i \in Renamed' : j < i => files'[j].mtime <= files'[i].mtime
    <3>1. CASE j = k
      BY <1>9, <1>0, <2>1, <2>2, <2>3, <3>1
    <3>2. CASE j # k
      <4>1. j \in Renamed /\ files'[j] = files[j] /\ files[j].mtime <= active.mtime
        BY <2>1, <2>2, <2>3, <3>2 DEF OldestInv, AgeInv
      <4>2. \A i \in Renamed : j < i => files[j].mtime <= files[i].mtime
        BY <2>3, <4>1 DEF OldestInv, AgeInv
      <4> QED
        BY <2>1, <2>2, <4>1, <4>2
    <3> QED
      BY <3>1, <3>2
  <2>4. AgeInv'
    <3>1. active'.mtime <= now' /\ \A j \in Renamed' : files'[j].mtime <= now'
      BY <2>1, <2>2
    <3>2. ASSUME NEW i \in doomed, NEW j \in Kept', j < i, ~files'[j].late PROVE j \in doomed
      <4>1. j # k
        BY <1>0, <2>1, <3>2
      <4>2. j \in Kept /\ files'[j] = files[j]
        BY <1>0, <2>1, <3>2, <4>1
      <4> QED
        BY <3>2, <4>2 DEF OldestInv, AgeInv
    <3> QED
      BY <2>1, <2>3, <3>1, <3>2 DEF AgeInv
  <2>5. PurgedAreOldest'
    <3>1. SUFFICES ASSUME NEW j \in DOMAIN files, NEW i \in DOMAIN files, j < i,
                          files'[i].state = "deleted", files'[j].state = "kept"
                   PROVE  files'[j].late
      BY <2>1 DEF PurgedAreOldest
    <3>2. i # k /\ files[i].state = "deleted" /\ i \in Renamed
      BY <2>1, <3>1 DEF Renamed
    <3>3. CASE j = k
      BY <2>1, <3>1, <3>2, <3>3
    <3>4. CASE j # k
      BY <2>1, <3>1, <3>2, <3>4 DEF OldestInv, PurgedAreOldest
    <3> QED
      BY <3>3, <3>4
  <2> QED
    BY <2>4, <2>5 DEF OldestInv
<1> QED
  BY <1>1, <1>2, <1>4, <1>5, <1>6, <1>7, <1>8, <1>9 DEF RetentionStep, RetentionNext

-----------------------------------------------------------------------------
(* The three modules together.                                               *)

LEMMA StepParts ==
  ASSUME [Next]_vars
  PROVE  [FeedNext]_feedVars /\ RetentionStep
<1>1. CASE EvidenceNext
  <2> USE DEF RetentionStep
  <2>1. CASE (\E i \in DataFiles : Edit(i)) \/ ServerReads \/ ServerStarts \/ ServerStops
    BY <2>1 DEF Edit, ServerReads, ServerStarts, ServerStops
  <2>2. CASE Bundle \/ Reject
    BY <2>2 DEF Bundle, Reject
  <2>3. CASE \E d \in Drafts : CreateIndex(d, bundle)
    BY <2>3 DEF CreateIndex
  <2>4. CASE \E d \in Drafts, related, quotes \in SUBSET Releases : CreateMapping(d, related, quotes)
    BY <2>4 DEF CreateMapping
  <2>5. CASE (\E d \in Drafts : StartExport(d)) \/ ExportReads \/ ExportFails \/ ExportChecks
             \/ PackPolicy \/ WritePack
    BY <2>5 DEF StartExport, ExportReads, ExportFails, ExportChecks, PackPolicy, WritePack
  <2>6. CASE RecordExport
    BY <2>6 DEF RecordExport
  <2> QED
    BY <1>1, <2>1, <2>2, <2>3, <2>4, <2>5, <2>6 DEF EvidenceNext
<1>2. CASE FeedNext /\ UNCHANGED <<retentionVars, evidenceVars>>
  BY <1>2 DEF RetentionStep
<1>3. CASE RetentionNext /\ UNCHANGED <<feedVars, evidenceVars>>
  BY <1>3 DEF RetentionStep
<1>4. CASE UNCHANGED vars
  BY <1>4 DEF vars, RetentionStep
<1> QED
  BY <1>1, <1>2, <1>3, <1>4 DEF Next

\* A row that exists never becomes absent again.
LEMMA RowsStay ==
  ASSUME RetentionTypeOK, RetentionStep, NEW d \in Drafts, status[d] # "absent"
  PROVE  status'[d] # "absent"
<1> USE DEF RetentionTypeOK
<1>1. CASE RetentionNext
  <2>1. CASE \E e \in Drafts, v \in Decided, at \in 0..MaxTime : Decide(e, v, at)
    BY <2>1 DEF Decide, Decided
  <2>2. CASE DeleteRows
    BY <2>2 DEF DeleteRows
  <2>3. CASE UNCHANGED status
    BY <2>3
  <2> QED
    BY <1>1, <2>1, <2>2, <2>3 DEF RetentionNext, Tick, RecordDecision, StartPurge, ListFiles,
       RecordPurge, PurgeDies, Unlink, Rename, Mark, draftsTable
<1>2. CASE \E e \in Drafts : Insert(e)
  BY <1>2 DEF Insert
<1>3. CASE UNCHANGED status
  BY <1>3
<1> QED
  BY <1>1, <1>2, <1>3 DEF RetentionStep, LogCall, retentionVars, draftsTable

LEMMA OverlapStays ==
  ASSUME [FeedNext]_feedVars, overlapped
  PROVE  overlapped'
BY DEF FeedNext, feedVars, StartFetch, ReadCache, ReadFails, OpenTmp, WriteTmp, Replace,
       ReplaceFails, FetchDies

\* A draft that is filed keeps its kind and what it cites.
LEMMA DraftsStay ==
  ASSUME [Next]_vars, DraftsTypeOK, NEW d \in Drafts, status[d] # "absent"
  PROVE  kind'[d] = kind[d] /\ cited'[d] = cited[d]
<1>1. ASSUME NEW e \in Drafts, CreateIndex(e, bundle) PROVE kind'[d] = kind[d] /\ cited'[d] = cited[d]
  BY <1>1 DEF CreateIndex, Insert, DraftsTypeOK
<1>2. ASSUME NEW e \in Drafts, NEW related \in SUBSET Releases, NEW quotes \in SUBSET Releases,
             CreateMapping(e, related, quotes)
      PROVE  kind'[d] = kind[d] /\ cited'[d] = cited[d]
  BY <1>2 DEF CreateMapping, Insert, DraftsTypeOK
<1>3. CASE UNCHANGED <<kind, cited>>
  BY <1>3
<1> QED
  BY <1>1, <1>2, <1>3 DEF Next, vars, evidenceVars, draftVars, EvidenceNext, Edit, ServerReads,
     ServerStarts, ServerStops, Bundle, Reject, StartExport, ExportReads, ExportFails, ExportChecks,
     PackPolicy, WritePack, RecordExport

-----------------------------------------------------------------------------
(* The server.                                                               *)

\* What is not newer than the data stays so while the data grows.
LEMMA WholeReading ==
  ASSUME NEW read \in Seq(Nat), Len(read) <= NFiles, NotNewer(read, data),
         data \in [DataFiles -> Nat], NEW after \in [DataFiles -> Nat],
         \A i \in DataFiles : data[i] <= after[i]
  PROVE  NotNewer(read, after)
<1>1. ASSUME NEW i \in 1..Len(read) PROVE read[i] <= after[i]
  <2>1. i \in DataFiles
    BY DEF DataFiles
  <2>2. read[i] <= data[i] /\ data[i] <= after[i]
    BY <2>1 DEF NotNewer
  <2>3. read[i] \in Nat /\ data[i] \in Nat /\ after[i] \in Nat
    BY <2>1
  <2> QED
    BY <2>2, <2>3
<1> QED
  BY <1>1 DEF NotNewer

LEMMA ServerSteps ==
  ASSUME [Next]_vars, FeedTypeOK, CacheGrows, [FeedNext]_feedVars, ServerTypeOK, ServerInv
  PROVE  /\ ServerTypeOK' /\ ServerInv'
         /\ data' \in [DataFiles -> Nat] /\ \A i \in DataFiles : data[i] <= data'[i]
<1> USE DEF ServerTypeOK, IsReading, ServerInv, NotNewer, DataFiles
<1>0. IsReading(<<>>) /\ NotNewer(<<>>, data')
  OBVIOUS
<1>1. (overlapped \/ known \subseteq cache.releases) =>
      overlapped' \/ known \subseteq cache'.releases
  BY OverlapStays DEF CacheGrows
<1>2. ASSUME NEW i \in DataFiles, Edit(i)
      PROVE  /\ ServerTypeOK' /\ ServerInv'
             /\ data' \in [DataFiles -> Nat] /\ \A j \in DataFiles : data[j] <= data'[j]
  <2>1. data' = [data EXCEPT ![i] = data[i] + 1] /\ UNCHANGED serverVars
    BY <1>2 DEF Edit
  <2>2. \A j \in DataFiles : data'[j] = IF j = i THEN data[j] + 1 ELSE data[j]
    BY <2>1
  <2>3. \A j \in DataFiles : data[j] \in Nat /\ data[j] <= data'[j]
    <3>1. ASSUME NEW j \in DataFiles PROVE data[j] \in Nat /\ data[j] <= data'[j]
      <4>1. data[j] \in Nat
        OBVIOUS
      <4> QED
        BY <2>2, <4>1
    <3> QED
      BY <3>1
  <2>4. data' \in [DataFiles -> Nat]
    BY <2>1
  <2>5. NotNewer(loaded, data')
    BY <2>3, <2>4, WholeReading
  <2>6. UNCHANGED <<loaded, up, known, cache, overlapped>>
    BY <1>2 DEF Edit, serverVars, feedVars
  <2> QED
    BY <2>3, <2>4, <2>5, <2>6
<1>3. CASE ServerReads
  <2>1. UNCHANGED <<data, known, up>> /\ ~up /\ Len(loaded) < NFiles
        /\ loaded' = Append(loaded, data[Len(loaded) + 1])
    BY <1>3 DEF ServerReads, NextContent
  <2>2. data[Len(loaded) + 1] \in Nat
    BY <2>1
  <2>3. loaded' \in Seq(Nat) /\ Len(loaded') = Len(loaded) + 1
        /\ \A j \in 1..Len(loaded') : loaded'[j] = IF j <= Len(loaded) THEN loaded[j] ELSE data[j]
    BY <2>1, <2>2
  <2>4. NotNewer(loaded', data')
    BY <2>1, <2>3
  <2> QED
    BY <1>1, <2>1, <2>3, <2>4
<1>4. CASE ServerStarts
  <2>1. UNCHANGED <<data, cache, overlapped>> /\ ~up
        /\ \/ loaded' = loaded /\ Len(loaded) = NFiles /\ up' = TRUE /\ known' = cache.releases
           \/ loaded' = <<>> /\ up' = FALSE /\ UNCHANGED known
    BY <1>4 DEF ServerStarts, feedVars
  <2>2. cache.releases \subseteq Releases
    BY DEF FeedTypeOK, File
  <2>3. IsReading(loaded') /\ NotNewer(loaded', data')
    BY <1>0, <2>1
  <2>4. up' \in BOOLEAN /\ (up' => Len(loaded') = NFiles) /\ known' \subseteq Releases
        /\ (overlapped \/ known' \subseteq cache.releases)
    BY <2>1, <2>2
  <2>5. data' \in [DataFiles -> Nat] /\ \A i \in DataFiles : data[i] <= data'[i]
    BY <2>1
  <2> QED
    BY <2>1, <2>3, <2>4, <2>5
<1>5. CASE ServerStops
  <2>1. UNCHANGED data /\ up' = FALSE /\ loaded' = <<>> /\ known' = {}
    BY <1>5 DEF ServerStops
  <2>2. IsReading(loaded') /\ NotNewer(loaded', data')
    BY <1>0, <2>1
  <2>3. data' \in [DataFiles -> Nat] /\ \A i \in DataFiles : data[i] <= data'[i]
    BY <2>1
  <2> QED
    BY <2>1, <2>2, <2>3
<1>6. CASE UNCHANGED <<data, serverVars>>
  BY <1>1, <1>6 DEF serverVars
<1> QED
  BY <1>2, <1>3, <1>4, <1>5, <1>6 DEF Next, vars, evidenceVars, EvidenceNext, Bundle, Reject,
     CreateIndex, CreateMapping, StartExport, ExportReads, ExportFails, ExportChecks, PackPolicy,
     WritePack, RecordExport

-----------------------------------------------------------------------------
(* The drafts.                                                               *)

LEMMA DraftSteps ==
  ASSUME [Next]_vars, RetentionTypeOK, ServerTypeOK, ServerInv, DraftsTypeOK, CitesInv,
         QuotedReleasesStay, RetentionStep, [FeedNext]_feedVars, CacheGrows,
         \A i \in DataFiles : data[i] <= data'[i], data' \in [DataFiles -> Nat]
  PROVE  DraftsTypeOK' /\ CitesInv' /\ QuotedReleasesStay'
<1> USE DEF DraftsTypeOK, IsReading
<1>1. ASSUME NEW d \in Drafts, overlapped \/ quoted[d] \subseteq cache.releases
      PROVE  overlapped' \/ quoted[d] \subseteq cache'.releases
  BY <1>1, OverlapStays DEF CacheGrows
<1>2. \A d \in Drafts : status[d] # "absent" => status'[d] # "absent"
  BY RowsStay
<1>3. ASSUME NEW read \in Seq(Nat), Len(read) <= NFiles, NotNewer(read, data)
      PROVE  NotNewer(read, data')
  BY <1>3, WholeReading DEF ServerTypeOK
<1>4. CASE UNCHANGED draftVars
  BY <1>1, <1>2, <1>3, <1>4 DEF draftVars, CitesInv, QuotedReleasesStay
<1>5. CASE Bundle
  BY <1>1, <1>2, <1>3, <1>5 DEF Bundle, CitesInv, QuotedReleasesStay, ServerTypeOK, ServerInv
<1>6. ASSUME NEW d \in Drafts, CreateIndex(d, bundle)
      PROVE  DraftsTypeOK' /\ CitesInv' /\ QuotedReleasesStay'
  <2>1. /\ up /\ bundle = loaded /\ UNCHANGED <<data, bundle, quoted>>
        /\ kind' = [kind EXCEPT ![d] = "evidence_pack_index"]
        /\ cited' = [cited EXCEPT ![d] = loaded]
        /\ status'[d] = "pending"
    BY <1>6 DEF CreateIndex, IndexOk, Insert, RetentionTypeOK
  <2>2. loaded \in Seq(Nat) /\ Len(loaded) = NFiles /\ NotNewer(loaded, data)
    BY <2>1 DEF ServerTypeOK, ServerInv
  <2>3. DraftsTypeOK'
    BY <2>1, <2>2
  <2>4. CitesInv'
    BY <1>2, <2>1, <2>2 DEF CitesInv
  <2>5. QuotedReleasesStay'
    BY <1>1, <2>1 DEF QuotedReleasesStay
  <2> QED
    BY <2>3, <2>4, <2>5
<1>7. ASSUME NEW d \in Drafts, NEW related \in SUBSET Releases, NEW quotes \in SUBSET Releases,
             CreateMapping(d, related, quotes)
      PROVE  DraftsTypeOK' /\ CitesInv' /\ QuotedReleasesStay'
  <2>1. /\ quotes \subseteq known /\ UNCHANGED <<data, bundle, cited>>
        /\ kind' = [kind EXCEPT ![d] = "policy_mapping"]
        /\ quoted' = [quoted EXCEPT ![d] = quotes]
    BY <1>7 DEF CreateMapping, MappingOk
  <2>2. DraftsTypeOK'
    BY <2>1
  <2>3. CitesInv'
    BY <1>2, <2>1 DEF CitesInv
  <2>4. UNCHANGED <<cache, overlapped>>
    BY <1>7 DEF CreateMapping, feedVars
  <2>5. QuotedReleasesStay'
    BY <2>1, <2>4 DEF QuotedReleasesStay, ServerInv
  <2> QED
    BY <2>2, <2>3, <2>5
<1> QED
  BY <1>4, <1>5, <1>6, <1>7 DEF Next, vars, evidenceVars, EvidenceNext, Edit, ServerReads,
     ServerStarts, ServerStops, Reject, StartExport, ExportReads, ExportFails, ExportChecks,
     PackPolicy, WritePack, RecordExport

-----------------------------------------------------------------------------
(* The export command.                                                       *)

ExportPart == ExportTypeOK /\ ExportInv /\ PacksInv /\ PackNotOlderThanIndex /\ PackMatchesManifest

\* What it leaves alone stays right.
LEMMA ExportKeeps ==
  ASSUME ExportTypeOK, ExportInv, PacksInv, PackNotOlderThanIndex, PackMatchesManifest,
         \A d \in Drafts : kind[d] = "evidence_pack_index" => status[d] # "absent",
         \A d \in Drafts : status[d] # "absent" =>
            status'[d] # "absent" /\ kind'[d] = kind[d] /\ cited'[d] = cited[d],
         UNCHANGED <<epc, subject, seen, fresh, packed, packs>>,
         edits' \in Nat /\ stops' \in Nat /\ exports' \in Nat
  PROVE  ExportPart'
<1>1. ExportTypeOK' /\ PackMatchesManifest'
  BY DEF ExportTypeOK, IsReading, PackMatchesManifest
<1>2. ExportInv'
  BY DEF ExportInv
<1>3. PacksInv' /\ PackNotOlderThanIndex'
  BY DEF PacksInv, PackNotOlderThanIndex, ExportTypeOK
<1> QED
  BY <1>1, <1>2, <1>3 DEF ExportPart

LEMMA ExportSteps ==
  ASSUME [Next]_vars, RetentionTypeOK, DraftsTypeOK, ServerTypeOK, CitesInv,
         ExportTypeOK, ExportInv, PacksInv, PackNotOlderThanIndex, PackMatchesManifest
  PROVE  ExportPart'
<1>0. \A d \in Drafts : kind[d] = "evidence_pack_index" => status[d] # "absent"
  BY DEF CitesInv
<1>1. \A d \in Drafts : status[d] # "absent" =>
         status'[d] # "absent" /\ kind'[d] = kind[d] /\ cited'[d] = cited[d]
  BY StepParts, RowsStay, DraftsStay
<1>2. fresh \in Seq(Nat) /\ Len(fresh) \in Nat /\ packed \in Seq(Nat) /\ Len(packed) \in Nat
  BY DEF ExportTypeOK, IsReading
<1>3. ASSUME UNCHANGED <<packs, kind, cited>> PROVE PacksInv' /\ PackNotOlderThanIndex' /\ PackMatchesManifest'
  BY <1>3 DEF PacksInv, PackNotOlderThanIndex, PackMatchesManifest
<1>4. ASSUME NEW d \in Drafts, StartExport(d) PROVE ExportPart'
  <2>1. /\ epc = "idle" /\ UNCHANGED <<packs, kind, cited, fresh, packed, edits, stops>>
        /\ subject' = d /\ seen' = status[d] /\ exports' = exports + 1
        /\ UNCHANGED status
        /\ \/ epc' = "load" /\ status[d] # "absent"
           \/ epc' = "refuse"
    BY <1>4 DEF StartExport, draftVars, retentionVars, draftsTable
  <2>2. ExportTypeOK'
    BY <2>1 DEF ExportTypeOK, IsReading, RetentionTypeOK
  <2>3. fresh' = <<>> /\ packed' = <<>> /\ Len(<<>>) = 0
    BY <2>1 DEF ExportInv
  <2>4. ExportInv'
    BY <2>1, <2>3 DEF ExportInv
  <2> QED
    BY <1>3, <2>1, <2>2, <2>4 DEF ExportPart
<1>5. CASE ExportReads
  <2>1. /\ epc = "load" /\ Len(fresh) < NFiles /\ fresh' = Append(fresh, data[Len(fresh) + 1])
        /\ UNCHANGED <<packs, kind, cited, status, epc, subject, seen, packed, edits, stops, exports>>
    BY <1>5 DEF ExportReads, NextContent, draftVars, retentionVars, draftsTable
  <2>2. Len(fresh) + 1 \in DataFiles /\ data[Len(fresh) + 1] \in Nat
    BY <1>2, <2>1 DEF DataFiles, ServerTypeOK
  <2>3. /\ fresh' \in Seq(Nat) /\ Len(fresh') = Len(fresh) + 1
        /\ \A i \in 1..Len(fresh) : fresh'[i] = fresh[i]
        /\ fresh'[Len(fresh) + 1] = data[Len(fresh) + 1]
    BY <1>2, <2>1, <2>2
  <2>4. ExportTypeOK'
    BY <1>2, <2>1, <2>3 DEF ExportTypeOK, IsReading
  <2>5. /\ subject \in Drafts /\ status[subject] # "absent" /\ packed = <<>>
        /\ kind[subject] = "evidence_pack_index" =>
              \A i \in 1..Len(fresh) : cited[subject][i] <= fresh[i]
    BY <2>1 DEF ExportInv
  <2>6. ASSUME kind[subject] = "evidence_pack_index"
        PROVE  \A i \in 1..Len(fresh') : cited[subject][i] <= fresh'[i]
    <3>1. Len(cited[subject]) = NFiles /\ NotNewer(cited[subject], data)
      BY <2>5, <2>6 DEF CitesInv
    <3>2. cited[subject][Len(fresh) + 1] <= data[Len(fresh) + 1]
      BY <2>2, <3>1 DEF NotNewer, DataFiles
    <3>3. \A i \in 1..Len(fresh') : i \in 1..Len(fresh) \/ i = Len(fresh) + 1
      BY <1>2, <2>3
    <3> QED
      BY <2>3, <2>5, <2>6, <3>2, <3>3
  <2>7. ExportInv'
    BY <2>1, <2>5, <2>6 DEF ExportInv
  <2> QED
    BY <1>3, <2>1, <2>4, <2>7 DEF ExportPart
<1>6. CASE ExportFails \/ RecordExport
  <2>1. /\ epc' = "idle" /\ subject' = None /\ seen' = "absent" /\ fresh' = <<>> /\ packed' = <<>>
        /\ UNCHANGED <<packs, kind, cited, edits, stops, exports>>
    BY <1>6 DEF ExportFails, RecordExport, ExportEnds, draftVars
  <2>2. IsReading(<<>>)
    BY DEF IsReading
  <2>3. ExportTypeOK'
    BY <2>1, <2>2 DEF ExportTypeOK, IsReading
  <2>4. ExportInv'
    BY <2>1 DEF ExportInv
  <2> QED
    BY <1>3, <2>1, <2>3, <2>4 DEF ExportPart
<1>7. CASE ExportChecks
  <2>1. /\ epc = "load" /\ Len(fresh) = NFiles /\ epc' \in {"pack", "refuse"}
        /\ epc' = "pack" => kind[subject] = "evidence_pack_index"
        /\ UNCHANGED <<packs, kind, cited, status, subject, seen, fresh, packed, edits, stops, exports>>
    BY <1>7 DEF ExportChecks, Exportable, draftVars, retentionVars, draftsTable
  <2>2. ExportTypeOK'
    BY <2>1 DEF ExportTypeOK, IsReading
  <2>3. ExportInv'
    BY <2>1 DEF ExportInv
  <2> QED
    BY <1>3, <2>1, <2>2, <2>3 DEF ExportPart
<1>8. CASE PackPolicy
  <2>1. /\ epc = "pack" /\ Len(packed) < NPolicies
        /\ UNCHANGED <<packs, kind, cited, status, subject, seen, fresh, edits, stops, exports>>
        /\ \/ packed' = Append(packed, data[Len(packed) + 1]) /\ epc' = epc
              /\ data[Len(packed) + 1] = fresh[Len(packed) + 1]
           \/ epc' = "refuse" /\ packed' = packed
    BY <1>8 DEF PackPolicy, NextContent, draftVars, retentionVars, draftsTable
  <2>2. CASE epc' = "refuse" /\ packed' = packed
    BY <1>3, <2>1, <2>2 DEF ExportTypeOK, IsReading, ExportInv, ExportPart
  <2>3. CASE packed' = Append(packed, data[Len(packed) + 1]) /\ epc' = epc
             /\ data[Len(packed) + 1] = fresh[Len(packed) + 1]
    <3>1. Len(packed) + 1 \in DataFiles /\ data[Len(packed) + 1] \in Nat
      BY <1>2, <2>1 DEF DataFiles, ServerTypeOK
    <3>2. /\ packed' \in Seq(Nat) /\ Len(packed') = Len(packed) + 1 /\ Len(packed') <= NPolicies
          /\ \A i \in 1..Len(packed) : packed'[i] = packed[i]
          /\ packed'[Len(packed) + 1] = fresh[Len(packed) + 1]
      BY <1>2, <2>1, <2>3, <3>1
    <3>3. ExportTypeOK'
      BY <1>2, <2>1, <2>3, <3>2 DEF ExportTypeOK, IsReading
    <3>4. \A i \in 1..Len(packed') : packed'[i] = fresh[i]
      <4>1. \A i \in 1..Len(packed) : packed[i] = fresh[i]
        BY <2>1 DEF ExportInv
      <4>2. \A i \in 1..Len(packed') : i \in 1..Len(packed) \/ i = Len(packed) + 1
        BY <1>2, <3>2
      <4> QED
        BY <3>2, <4>1, <4>2
    <3>5. ExportInv'
      BY <2>1, <2>3, <3>2, <3>4 DEF ExportInv
    <3> QED
      BY <1>3, <2>1, <3>3, <3>5 DEF ExportPart
  <2> QED
    BY <2>1, <2>2, <2>3
<1>9. CASE WritePack
  <2> DEFINE pack == [draft |-> subject, manifest |-> fresh, policies |-> packed]
  <2>1. /\ epc = "pack" /\ Len(packed) = NPolicies /\ epc' = "record" /\ packs' = packs \cup {pack}
        /\ UNCHANGED <<kind, cited, subject, seen, fresh, packed, edits, stops, exports>>
    BY <1>9 DEF WritePack, draftVars
  <2>2. /\ Len(fresh) = NFiles /\ subject \in Drafts /\ kind[subject] = "evidence_pack_index"
        /\ \A i \in 1..Len(fresh) : cited[subject][i] <= fresh[i]
        /\ \A i \in 1..Len(packed) : packed[i] = fresh[i]
    BY <2>1 DEF ExportInv
  <2>3. pack.draft = subject /\ pack.manifest = fresh /\ pack.policies = packed
    OBVIOUS
  <2> HIDE DEF pack
  <2>4. ExportTypeOK'
    BY <2>1, <2>2, <2>3 DEF ExportTypeOK, IsReading
  <2>5. ExportInv' /\ PacksInv'
    BY <2>1, <2>2, <2>3 DEF ExportInv, PacksInv
  <2>6. cited[subject] \in Seq(Nat) /\ Len(cited[subject]) = NFiles
    BY <2>2 DEF CitesInv, DraftsTypeOK
  <2>7. PackNotOlderThanIndex'
    BY <2>1, <2>2, <2>3, <2>6 DEF PackNotOlderThanIndex, DataFiles
  <2>8. PackMatchesManifest'
    BY <2>1, <2>2, <2>3 DEF PackMatchesManifest, Policies
  <2> QED
    BY <2>4, <2>5, <2>7, <2>8 DEF ExportPart
<1>10. ASSUME UNCHANGED <<epc, subject, seen, fresh, packed, packs>>,
              edits' \in Nat /\ stops' \in Nat /\ exports' \in Nat
       PROVE  ExportPart'
  BY <1>0, <1>1, <1>10, ExportKeeps
<1>11. edits \in Nat /\ stops \in Nat /\ exports \in Nat
  BY DEF ExportTypeOK
<1>12. ASSUME NEW i \in DataFiles, Edit(i) PROVE ExportPart'
  BY <1>10, <1>11, <1>12 DEF Edit, exportVars
<1>13. CASE ServerStops
  BY <1>10, <1>11, <1>13 DEF ServerStops, exportVars
<1>14. CASE UNCHANGED <<exportVars, edits, stops>>
  BY <1>10, <1>11, <1>14 DEF exportVars
<1> QED
  <2>1. CASE EvidenceNext
    <3>1. CASE \/ ServerReads \/ ServerStarts \/ Bundle \/ Reject
               \/ \E d \in Drafts : CreateIndex(d, bundle)
               \/ \E d \in Drafts, related, quotes \in SUBSET Releases : CreateMapping(d, related, quotes)
      <4>1. UNCHANGED <<exportVars, edits, stops>>
        BY <3>1 DEF ServerReads, ServerStarts, Bundle, Reject, CreateIndex, CreateMapping, evidenceVars
      <4> QED
        BY <1>14, <4>1
    <3>2. CASE \E d \in Drafts : StartExport(d)
      BY <1>4, <3>2
    <3>3. CASE \E i \in DataFiles : Edit(i)
      BY <1>12, <3>3
    <3> QED
      BY <1>5, <1>6, <1>7, <1>8, <1>9, <1>13, <2>1, <3>1, <3>2, <3>3 DEF EvidenceNext
  <2>2. CASE UNCHANGED evidenceVars
    BY <1>14, <2>2 DEF evidenceVars
  <2> QED
    BY <2>1, <2>2 DEF Next, vars

-----------------------------------------------------------------------------
(* The invariant and what follows from it.                                   *)

Inv == /\ TypeOK
       /\ FeedInv /\ RetentionInv /\ OldestInv /\ EvidenceInv
       /\ QuotedReleasesStay /\ PackNotOlderThanIndex /\ PackMatchesManifest

LEMMA InitInv == Init => Inv
<1> SUFFICES ASSUME Init PROVE Inv
  OBVIOUS
<1> USE DEF Init
<1>0. IsReading(<<>>) /\ \A than : NotNewer(<<>>, than)
  BY DEF IsReading, NotNewer
<1>1. FeedTypeOK /\ FeedInv
  BY DEF FeedInit, FeedTypeOK, FeedInv, Alone, Busy, File, Missing, Loadable
<1>2. RetentionTypeOK
  BY DEF RetentionInit, RetentionTypeOK, LogFile, Decided
<1>3. RetentionInv
  BY DEF RetentionInit, RetentionInv, FilesInv, ClockInv, PurgeInv, RecordsOutliveRows, Tells, Decided
<1>7. OldestInv
  <2>1. DOMAIN files = {} /\ now = 0 /\ active.mtime = 0 /\ doomed = {}
    BY DEF RetentionInit
  <2>2. Renamed = {} /\ Kept = {}
    BY <2>1 DEF Renamed, Kept
  <2> QED
    BY <2>1, <2>2 DEF OldestInv, AgeInv, PurgedAreOldest
<1>4. ServerTypeOK /\ DraftsTypeOK /\ ExportTypeOK
  BY <1>0 DEF ServerTypeOK, DraftsTypeOK, ExportTypeOK, NoManifest, IsReading
<1>5. EvidenceInv
  BY <1>0 DEF EvidenceInv, ServerInv, CitesInv, ExportInv, PacksInv, NoManifest
<1>6. QuotedReleasesStay /\ PackNotOlderThanIndex /\ PackMatchesManifest
  BY DEF QuotedReleasesStay, PackNotOlderThanIndex, PackMatchesManifest
<1> QED
  BY <1>1, <1>2, <1>3, <1>4, <1>5, <1>6, <1>7 DEF Inv, TypeOK

LEMMA NextInv == Inv /\ [Next]_vars => Inv'
<1> SUFFICES ASSUME Inv, [Next]_vars PROVE Inv'
  OBVIOUS
<1>1. [FeedNext]_feedVars /\ RetentionStep
  BY StepParts
<1>2. FeedTypeOK' /\ FeedInv' /\ CacheGrows
  BY <1>1, FeedTypes, FeedSteps DEF Inv, TypeOK
<1>3. RetentionTypeOK' /\ RetentionInv' /\ OldestInv'
  BY <1>1, RetentionTypes, RetentionSteps, OldestSteps DEF Inv, TypeOK
<1>4. ServerTypeOK' /\ ServerInv' /\ data' \in [DataFiles -> Nat]
      /\ \A i \in DataFiles : data[i] <= data'[i]
  BY <1>1, <1>2, ServerSteps DEF Inv, TypeOK, EvidenceInv
<1>5. DraftsTypeOK' /\ CitesInv' /\ QuotedReleasesStay'
  BY <1>1, <1>2, <1>4, DraftSteps DEF Inv, TypeOK, EvidenceInv
<1>6. ExportPart'
  BY ExportSteps DEF ExportPart, Inv, TypeOK, EvidenceInv
<1> QED
  BY <1>2, <1>3, <1>4, <1>5, <1>6 DEF ExportPart, Inv, TypeOK, EvidenceInv

LEMMA SpecInv == Spec => []Inv
BY InitInv, NextInv, PTL DEF Spec

\* Every variable keeps its type, and a pack holds every policy of its manifest
\* (evidence_export.py:49-54).
THEOREM TypeCorrect == Spec => []TypeOK
<1>1. Inv => TypeOK
  BY DEF Inv
<1> QED
  BY <1>1, SpecInv, PTL

\* While fetches do not overlap, what a filed mapping quotes is in the feed cache
\* with its text: of any number of drafts and releases, across any number of
\* fetches that are killed at any statement (feed_fetcher.py:114-123).
THEOREM QuotesStay == Spec => []QuotedReleasesStay
<1>1. Inv => QuotedReleasesStay
  BY DEF Inv
<1> QED
  BY <1>1, SpecInv, PTL

\* Whatever is edited while the export runs, a pack holds the policy versions of
\* its manifest, of any number of policies (evidence_export.py:51-53).
THEOREM PacksMatch == Spec => []PackMatchesManifest
<1>1. Inv => PackMatchesManifest
  BY DEF Inv
<1> QED
  BY <1>1, SpecInv, PTL

\* No file of a pack's manifest is older than in the manifest its index cites
\* (draft_checks.py:54-65, review_cli.py:142-146).
THEOREM PacksAreCurrent == Spec => []PackNotOlderThanIndex
<1>1. Inv => PackNotOlderThanIndex
  BY DEF Inv
<1> QED
  BY <1>1, SpecInv, PTL

\* For every retention period and wait for the lock, and any number of processes
\* that append and rotate, the record of a decided draft is on disk once its command
\* has written it, unless it was decided in the second of a purge's cutoff or its
\* record went to a file that was listed, deleted or emptied meanwhile
\* (admin_cli.py:34-45).
THEOREM RowsAreRecorded == Spec => []RecordsOutliveRows
<1>1. Inv => RecordsOutliveRows
  BY DEF Inv, RetentionInv
<1> QED
  BY <1>1, SpecInv, PTL

\* Of any number of rotated files, and wherever any number of purges is killed, the
\* purge leaves nothing behind a file it deleted but late files, which another
\* process appended to after they were renamed or renamed out of turn
\* (admin_cli.py:42-45, audit.py:154-155 and 199-204).
THEOREM NoGapIsPurged == Spec => []PurgedAreOldest
<1>1. Inv => PurgedAreOldest
  BY DEF Inv, OldestInv
<1> QED
  BY <1>1, SpecInv, PTL
=============================================================================
