------------------------------ MODULE MCPosting ------------------------------
(* Small instances of Posting for TLC. *)
EXTENDS Posting, TLC

CONSTANTS rent, fund, b1, b2, b3, dividend, loan, house, car, r1, r2, r3, june, july

\* The rent and the saving into a fund exist at the start.
MCOpening == {rent, fund}

Symmetry ==
  Permutations(Requests) \cup Permutations(Bills \ MCOpening) \cup Permutations(Names)
=============================================================================
