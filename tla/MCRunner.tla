------------------------------ MODULE MCRunner ------------------------------
(***************************************************************************)
(* Runner with interchangeable calls, each for an attempt of its own.      *)
(***************************************************************************)
EXTENDS Runner, TLC

OwnAttempt == [c \in Call |-> c]

Calls == Permutations(Call)
=============================================================================
