----------------------------- MODULE MCAccounts -----------------------------
(***************************************************************************)
(* Accounts with requests, and accounts that are no administrators at the  *)
(* start, that only differ by their names.                                 *)
(***************************************************************************)
EXTENDS Accounts

Interchangeable == Permutations(Request) \cup Permutations(User \ Admin)
=============================================================================
