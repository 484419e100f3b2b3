----------------------------- MODULE MCWsClient -----------------------------
(* Small instances of WsClient; the requesting threads are interchangeable  *)
(* where a run checks safety only.                                          *)
EXTENDS WsClient, TLC

Symmetry == Permutations(Threads)
=============================================================================
