----------------------------- MODULE AuditReader -----------------------------
(***************************************************************************)
(* audit.verify as a process of its own beside the writers: compliance-audit*)
(* verify, or the evidence of an examiner, while the server runs.  It takes *)
(* no lock.  It lists the rotated files, looks for the active path, and     *)
(* then opens and walks one file after the other; the writers go on between *)
(* any two of these steps.                                                  *)
(*                                                                          *)
(* A file only grows under its inode while one instance writes, so the      *)
(* lines walked are those of the moment the end of the file is reached.     *)
(***************************************************************************)
EXTENDS AuditVerify

VARIABLES
    vpc,      \* the statement verify is about to execute
    todo,     \* the names left to walk: stamps, and ActivePath
    vfile,    \* the inode of the file it has open, or NoFile
    vprev,    \* prev
    vcount,   \* count
    verdict,  \* how it ended
    due,      \* the records on disk when it began (history)
    renamed   \* a rotation took the active file away after the listing (history)

verifierVars == <<vpc, todo, vfile, vprev, vcount, verdict, due, renamed>>
readerVars == <<vars, verifierVars>>

ActivePath == 0

Path(name) == IF name = ActivePath THEN active ELSE rotated[name]

MutantUnsorted(n, m) == TRUE

\* sorted(...) + [active]: by stamp, and the active path last.
NotAfter(n, m) == m = ActivePath \/ (n # ActivePath /\ n <= m)

Ends(v) ==
    /\ vpc' = "done" /\ verdict' = v
    /\ todo' = {} /\ vfile' = NoFile

\* The rotated names there are now.
ListRotated ==
    /\ vpc = "idle"
    /\ due' = IdsOnDisk
    /\ todo' = {s \in DOMAIN rotated : rotated[s] # NoFile}
    /\ vpc' = "exists"
    /\ UNCHANGED <<vfile, vprev, vcount, verdict, renamed>>

\* active.exists()
LookForActive ==
    /\ vpc = "exists"
    /\ todo' = IF active = NoFile THEN todo ELSE todo \cup {ActivePath}
    /\ vpc' = "open"
    /\ UNCHANGED <<vfile, vprev, vcount, verdict, due, renamed>>

\* path.open, of the active path perhaps of another file than the one that was
\* there, or of none.
OpenNext ==
    /\ vpc = "open"
    /\ \E name \in todo :
          /\ \A other \in todo : NotAfter(name, other)
          /\ IF Path(name) = NoFile
             THEN Ends("FileNotFound")
             ELSE /\ vfile' = Path(name)
                  /\ todo' = todo \ {name}
                  /\ vpc' = "walk"
                  /\ UNCHANGED verdict
    /\ UNCHANGED <<vprev, vcount, due, renamed>>

\* The lines of one file, linked to where the file before it ended.  json.loads
\* raises on an incomplete one.
WalkFile ==
    /\ vpc = "walk"
    /\ LET lines == content[vfile]
       IN  IF vfile \in torn THEN Ends("JSONDecodeError") /\ UNCHANGED <<vprev, vcount>>
           ELSE IF ~Linked(lines, vprev) THEN Ends("broken") /\ UNCHANGED <<vprev, vcount>>
           ELSE /\ vpc' = "open" /\ vfile' = NoFile
                /\ vcount' = vcount + Len(lines)
                /\ vprev' = Through(lines, vprev)
                /\ UNCHANGED <<todo, verdict>>
    /\ UNCHANGED <<due, renamed>>

VerifyEnds ==
    /\ vpc = "open" /\ todo = {}
    /\ Ends("ok")
    /\ UNCHANGED <<vprev, vcount, due, renamed>>

VerifierInit ==
    /\ vpc = "idle" /\ todo = {} /\ vfile = NoFile
    /\ vprev = GENESIS /\ vcount = 0 /\ verdict = "none"
    /\ due = {} /\ renamed = FALSE

Verifier ==
    /\ ListRotated \/ LookForActive \/ OpenNext \/ WalkFile \/ VerifyEnds
    /\ UNCHANGED vars

\* Between the listing and the opening of the active path, which comes last.
Exposed == vpc = "exists" \/ (vpc \in {"open", "walk"} /\ todo # {})

\* A step of the log, beside the verifier.
Beside ==
    /\ CrashNext
    /\ renamed' = (renamed \/ (Exposed /\ active # NoFile /\ active' = NoFile))
    /\ UNCHANGED <<vpc, todo, vfile, vprev, vcount, verdict, due>>

ReaderSpec ==
    /\ Init /\ VerifierInit
    /\ [][Beside \/ Verifier]_readerVars
    /\ Fairness /\ \A p \in Procs : WF_vars(Restart(p))

-----------------------------------------------------------------------------
\* A verification that ran beside the writers of one instance fails, or passes
\* without every record that was on disk when it began, only if a rotation took
\* the active file away after its listing (audit.py:334-356; the tool says the
\* chain is broken, or raises, on a log that is whole).
VerdictStands ==
    vpc = "done" /\ crashes = 0 /\ ~renamed =>
        verdict = "ok" /\ vcount >= Cardinality(due)
-----------------------------------------------------------------------------
(* The inductive invariant of a verification that no rotation and no crash  *)
(* disturbs: the inodes from 1 up, in the order they were made, are the     *)
(* files it has walked.                                                     *)

Named == {s \in DOMAIN rotated : rotated[s] # NoFile}
Rotations == IF active = NoFile THEN Len(content) ELSE Len(content) - 1

\* What is left when inodes 1..c are walked or being walked.
Rest(c) ==
    /\ todo \ {ActivePath} = {s \in DOMAIN rotated : rotated[s] > c}
    /\ IF ActivePath \in todo THEN active # NoFile ELSE due \subseteq 1..Base(Rotations + 1)

ReaderInv ==
    /\ due \subseteq 1..lastId /\ vcount \in Nat /\ vcount = vprev
    /\ vpc \in {"idle", "exists"} => vprev = 0
    /\ vpc = "exists" => todo = Named
    /\ vpc = "open" => IF todo = {} THEN due \subseteq 1..vprev
                       ELSE \E c \in 0..Rotations : vprev = Base(c + 1) /\ Rest(c)
    /\ vpc = "walk" => /\ vfile \in Inodes /\ vprev = Base(vfile)
                       /\ IF todo = {} THEN due \subseteq 1..(Base(vfile) + Len(content[vfile]))
                          ELSE vfile \in 1..Rotations /\ Rest(vfile)
    /\ vpc = "done" => verdict = "ok" /\ due \subseteq 1..vcount

Undisturbed == crashes = 0 /\ ~renamed => ReaderInv
=============================================================================
