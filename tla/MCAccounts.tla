----------------------------- MODULE MCAccounts ------------------------------
(* Small instances of Accounts for TLC. *)
EXTENDS Accounts, TLC

CONSTANTS r1, r2, r3, p1, p2, p3

Symmetry == Permutations(Requests) \cup Permutations(People)
=============================================================================
