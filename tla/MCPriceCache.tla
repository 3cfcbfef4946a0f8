----------------------------- MODULE MCPriceCache -----------------------------
(* PriceCache for TLC: one symbol at two exchanges, the dollar and one      *)
(* dividend history.                                                       *)
EXTENDS PriceCache, TLC

CONSTANTS r1, r2, r3, here, abroad, symbol, dollar, history

OneSymbol == [k \in Stored |-> symbol]

Symmetry == Permutations(Requests) \cup Permutations(Stored)
=============================================================================
