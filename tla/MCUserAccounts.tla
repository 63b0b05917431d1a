---------------------------- MODULE MCUserAccounts ----------------------------
(* Small instances of UserAccounts for TLC. *)
EXTENDS UserAccounts, TLC

CONSTANTS a1, a2, b1, s1, s2

(* Two accounts in one store, one in another. *)
MCHome == (a1 :> s1) @@ (a2 :> s1) @@ (b1 :> s2)
Interchangeable ==
  Permutations(Emails) \cup Permutations(Passwords) \cup Permutations(Requests)
    \cup Permutations({a1, a2})
=============================================================================
