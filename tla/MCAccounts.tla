----------------------------- MODULE MCAccounts -----------------------------
(* Accounts on a small instance. *)
EXTENDS Accounts, TLC

Symmetry == Permutations(Tasks) \cup Permutations(SessionIds) \cup Permutations(Users)
                \cup Permutations(Passwords)
=============================================================================
