----------------------------- MODULE MCPipeline -----------------------------
(***************************************************************************)
(* Instances of Pipeline for TLC.                                          *)
(***************************************************************************)
EXTENDS Pipeline, TLC

\* Lease tokens, dispatch tokens and slots are interchangeable.
Interchangeable ==
    Permutations(Token) \cup Permutations(DispatchToken) \cup Permutations(Worker)
=============================================================================
