----------------------------- MODULE MCWsServer -----------------------------
(* Small instances of WsServer; handles, identities and threads are         *)
(* interchangeable where a run checks safety only.                          *)
EXTENDS WsServer, TLC

Symmetry == Permutations(Hdls) \cup Permutations(Identities) \cup Permutations(Threads)
=============================================================================
