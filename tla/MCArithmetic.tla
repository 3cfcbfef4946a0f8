----------------------------- MODULE MCArithmetic ----------------------------
(* Small instances of Tax and of Projection for TLC, which share nothing: a  *)
(* behaviour is either trades and years or the drawing of one plan line.     *)
EXTENDS Tax, Projection

CONSTANTS f1, f2, d1, p1, p2

Symmetry == Permutations(People) \cup Permutations(Foreign)

Payer(amount, growth, months, raise, base) ==
  [amount |-> amount, growth |-> growth, months |-> months, raise |-> raise, base |-> base]

\* Quarterly and monthly payers raised at the start, in the middle and at the
\* end of a year, last paid up to a year before; and two at once.
Dividends ==
  {<<>>, <<Payer(1, 2, {3, 6, 9, 12}, 12, 21), Payer(2, 1, {1}, 1, 12)>>} \cup
  {<<Payer(1, 2, months, raise, base)>> :
     months \in {{3, 6, 9, 12}, 1..12}, raise \in {1, 3, 11, 12},
     base \in {10, 11, 20, 21, 22, 23, 24}}

\* Drawn at the turn of year 1 to year 2, for up to four months, with a line of
\* the schedule that is never reached.
MCInputs ==
  {i \in [anchor : {22, 23, 24}, end : {22, 23, 25, 26}, stocks : {0, 3}, other : {-2, 1},
           target : {1, 7, 40, 300}, dividends : Dividends,
           schedule : {<<>>, <<[year |-> 1, monthly |-> 1], [year |-> 2, monthly |-> 2],
                               [year |-> 2, monthly |-> 5]>>}] :
     \A k \in DOMAIN i.dividends : i.dividends[k].base <= i.anchor}

\* No trade and no year is left.
TaxIdle ==
  /\ \E u \in People :
       holding = [h \in Stocks |-> [user |-> u, shares |-> 0, avg |-> 0, krw |-> 0]]
  /\ paid = [h \in Foreign |-> 0]
  /\ gains = [y \in Years |-> [u \in People |-> [h \in Stocks |-> 0]]]
  /\ year = MaxYear /\ early = FALSE /\ trades = MaxTrades

\* No plan line is asked for.
ProjectionIdle ==
  /\ step = "idle"
  /\ input = CHOOSE i \in Inputs : TRUE
  /\ lo = LoGrowth /\ hi = HiGrowth /\ halved = 0 /\ plan = NoPlan

Init == (TaxInit /\ ProjectionIdle) \/ (TaxIdle /\ ProjectionInit)

Next ==
  \/ TaxNext /\ UNCHANGED planVars
  \/ ProjectionNext /\ UNCHANGED taxVars

Spec == Init /\ [][Next]_<<taxVars, planVars>>
=============================================================================
