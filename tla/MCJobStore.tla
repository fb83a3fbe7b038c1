----------------------------- MODULE MCJobStore -----------------------------
(***************************************************************************)
(* Instances of JobStore for TLC.                                          *)
(***************************************************************************)
EXTENDS JobStore, TLC

\* The tokens are interchangeable UUIDs.
Tokens == Permutations(Token)
=============================================================================
