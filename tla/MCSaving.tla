------------------------------ MODULE MCSaving ------------------------------
(* Small instances of Saving for TLC. *)
EXTENDS Saving, TLC

CONSTANTS s1, s2, a1, a2, a3, r1, x1, x2, husband

MCLots == Requests \cup Stocks \cup Savers

\* s1 and a1 exist at the start; the others are identifiers not yet used,
\* as many as the requests of an instance can ask for.
Opening == [s \in Stocks |-> IF s = s1 THEN 1 ELSE 0]
OpeningMoney == [a \in Assets |-> IF a = a1 THEN 1 ELSE 0]

Dollars == [s \in Stocks |-> "USD"]
OneSymbol == [s \in Stocks |-> "VOO"]
=============================================================================
