----------------------------- MODULE MCSortOrder -----------------------------
(***************************************************************************)
(* SortOrder for TLC: three rows to begin with.  The backfill has put the  *)
(* one of stock b between the two of stock a.                              *)
(***************************************************************************)
EXTENDS SortOrder

CONSTANTS r1, r2, r3, a, b, a2

Start == <<a, b, a2>>
Stock == [i \in {a, b, a2} |-> IF i = b THEN b ELSE a]
=============================================================================
