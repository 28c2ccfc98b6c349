----------------------------- MODULE MCService -----------------------------
(* Instances of Service for TLC.                                            *)
EXTENDS Service, TLC

CONSTANTS t1, t2, ann

TwoThreads == {t1, t2}
OneCaller == {ann}
ThreadSymmetry == Permutations(TwoThreads)
=============================================================================
