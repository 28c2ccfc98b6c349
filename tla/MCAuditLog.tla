----------------------------- MODULE MCAuditLog -----------------------------
(***************************************************************************)
(* Values of AuditLog's constants for TLC: one AuditLog instance with one   *)
(* thread, or two instances (server and review CLI).                        *)
(***************************************************************************)
EXTENDS AuditVerify, TLC

CONSTANTS t1, t3, server, cli

OneThread == [t \in {t1} |-> server]
OneThreadEach == (t1 :> server) @@ (t3 :> cli)
=============================================================================
