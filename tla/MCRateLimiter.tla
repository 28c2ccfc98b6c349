--------------------------- MODULE MCRateLimiter ---------------------------
(* Instances of RateLimiter for TLC. *)
EXTENDS RateLimiter, TLC

CONSTANTS c1, c2, k1, k2

OneCaller == {c1}
TwoCallers == {c1, c2}
OneKey == {k1}
TwoKeys == {k1, k2}
CallerSymmetry == Permutations(TwoCallers)
KeySymmetry == Permutations(TwoKeys)
=============================================================================
