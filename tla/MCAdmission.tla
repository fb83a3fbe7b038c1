---------------------------- MODULE MCAdmission ----------------------------
(***************************************************************************)
(* Admission with requests, owners, keys, payloads and addresses that can  *)
(* be told apart only by being different.                                  *)
(***************************************************************************)
EXTENDS Admission, TLC

Interchangeable ==
    Permutations(Request) \cup Permutations(User) \cup Permutations(Key)
        \cup Permutations(Hash) \cup Permutations(Ip)
=============================================================================
