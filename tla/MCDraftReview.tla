--------------------------- MODULE MCDraftReview ---------------------------
(* Instances of DraftReview for TLC: ann files and may approve, bea may     *)
(* approve, cy may only file.                                               *)
EXTENDS DraftReview, TLC

CONSTANTS ann, bea, cy, nameA, nameB, nameC, nameD, d1, t1, t2

Staff == {ann, bea, cy}
ApproverGroup == {ann, bea}
StaffNames == {nameA, nameB, nameC}
AllNames == StaffNames \cup {nameD}
FirstNames == ann :> nameA @@ bea :> nameB @@ cy :> nameC
OneDraft == {d1}
TwoTerminals == {t1, t2}
TerminalSymmetry == Permutations(TwoTerminals)
=============================================================================
