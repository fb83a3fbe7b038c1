----------------------------- MODULE MCRealtime -----------------------------
(***************************************************************************)
(* Realtime with interchangeable executions and sockets.                   *)
(***************************************************************************)
EXTENDS Realtime, TLC

Interchangeable == Permutations(Exec) \cup Permutations(Socket)
=============================================================================
