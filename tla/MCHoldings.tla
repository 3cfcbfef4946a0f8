----------------------------- MODULE MCHoldings -----------------------------
(* Small instances of Holdings for TLC. *)
EXTENDS Holdings, TLC

CONSTANTS s1, s2, s3, r1, r2, r3, husband, wife

MCLots == Requests \cup Stocks

\* s1 and s3 are held at the start, s2 is an identifier not yet used.
Opening == s1 :> 2 @@ s2 :> 0 @@ s3 :> 1

\* s1 and s2 are rows of one dollar ticker (each member of the couple may
\* have one), s3 is a Korean share.
Currencies == s1 :> "USD" @@ s2 :> "USD" @@ s3 :> "KRW"
Symbols == s1 :> "VOO" @@ s2 :> "VOO" @@ s3 :> "KOREAN"

Symmetry == Permutations(Requests)
=============================================================================
