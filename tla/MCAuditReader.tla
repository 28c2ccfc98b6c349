--------------------------- MODULE MCAuditReader ----------------------------
(***************************************************************************)
(* Values of AuditReader's constants for TLC: the server alone, a verifier  *)
(* beside it.                                                               *)
(***************************************************************************)
EXTENDS AuditReader

CONSTANTS t1, t2, server

OneInstance == [t \in {t1, t2} |-> server]
=============================================================================
