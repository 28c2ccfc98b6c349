---------------------------- MODULE MCForwarder -----------------------------
(* Instances of Forwarder: the server with a writing thread, beside the      *)
(* review CLI's export process on the same spool.                            *)
EXTENDS Forwarder

CONSTANTS server, export, w1

OneThread == {w1}
OneAtServer == [w \in OneThread |-> server]
Alone == {server}
Both == {server, export}
=============================================================================
