-------------------------- MODULE MCSystemsOfRecord --------------------------
(***************************************************************************)
(* Values of SystemsOfRecord's constants for TLC.                           *)
(***************************************************************************)
EXTENDS SystemsOfRecord

CONSTANTS dated, undated

TwoItems == {dated, undated}
\* A year and its last month, a quarter and a month, alone and together.
SomeMonths == {1, 4, 12}
=============================================================================
