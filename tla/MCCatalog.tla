----------------------------- MODULE MCCatalog -----------------------------
(***************************************************************************)
(* The catalogue with requests and rows that only differ by their names.   *)
(***************************************************************************)
EXTENDS Catalog

Interchangeable ==
    Permutations(Request) \cup Permutations(Problem) \cup Permutations(Competition)
=============================================================================
