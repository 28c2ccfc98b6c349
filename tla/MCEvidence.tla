----------------------------- MODULE MCEvidence -----------------------------
(* Instances of Evidence for TLC.                                           *)
EXTENDS Evidence, TLC
CONSTANTS d1, r1, f1, f2
OneDraft == {d1}
OneRelease == {r1}
TwoFetchers == {f1, f2}
HalfSeconds == [t \in 0..(MaxTime + Keep) |-> t \div 2]
FetcherSymmetry == Permutations(TwoFetchers)
=============================================================================
