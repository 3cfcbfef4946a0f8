------------------------------ MODULE MCRoadmap ------------------------------
(* Small instances of Roadmap for TLC. *)
EXTENDS Roadmap, TLC

CONSTANTS r1, r2, r3, r4

Symmetry == Permutations(Requests)
=============================================================================
