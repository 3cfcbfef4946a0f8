--------------------------------- MODULE Tax ---------------------------------
(***************************************************************************)
(* The capital gains tax of a couple (internal/service/tax_service.go): the *)
(* won cost basis that purchases blend and sales use (handler.go buyStock,  *)
(* sellStock), the tax of a year's sales (annualTax) and the tax that       *)
(* selling everything now would add (portfolio).                            *)
(*                                                                          *)
(* A sale and a purchase are one step here; Holdings takes them apart into  *)
(* statements that interleave and fail.  Amounts are whole: a purchase      *)
(* whose averages would not be is left out, and a tax is counted in         *)
(* hundredths of a won, so that the rate is a whole number too.             *)
(***************************************************************************)
EXTENDS Integers, FiniteSetsExt, Sums

CONSTANTS
  People,      \* the couple
  Foreign,     \* holdings in dollars
  Domestic,    \* holdings in won
  Deduction,   \* BasicDeduction, what a person may gain in a year untaxed
  Rate,        \* CapitalGainsTaxRate in percent
  MinRate,     \* minPlausibleUSDKRW
  MaxRate,     \* maxPlausibleUSDKRW
  Prices,      \* bound on prices per share, in the holding's currency
  Opening,     \* bound on the average prices at first
  Rates,       \* bound on won per dollar
  MaxShares,   \* bound on the shares of a holding
  MaxTrades,   \* bound on sales and purchases
  MaxYear      \* bound on years that begin

ASSUME TaxAssumption ==
  /\ Foreign \cap Domestic = {}
  /\ Deduction \in Nat /\ Rate \in Nat
  /\ MinRate \in Nat /\ MinRate > 1 /\ MaxRate \in Nat
  /\ Opening \cup Prices \subseteq Nat \ {0} /\ Rates \subseteq Nat \ {0}
  /\ MaxShares \in Nat /\ MaxTrades \in Nat /\ MaxYear \in Nat

VARIABLES
  holding,   \* stock_assets; a holding without shares has no row
  paid,      \* history: the won that the shares of a foreign holding cost
  gains,     \* stock_transactions: realised gains by year, person and holding
  year,      \* the server's year, in the zone the Dockerfile sets
  early,     \* it is still last year in UTC
  trades     \* sales and purchases so far

taxVars == <<holding, paid, gains, year, early, trades>>

----------------------------------------------------------------------------
Stocks == Foreign \cup Domestic
Years == 0..MaxYear
Holding == [user : People, shares : 0..MaxShares, avg : Nat, krw : Nat]

\* avg is the average price in the holding's currency and krw that in won; no
\* won average is 0, and a damaged one implies a rate that never was.
ValidateKRWCostBasis(h) ==
  h.krw > 0 /\ h.avg > 0 /\ MinRate * h.avg <= h.krw /\ h.krw <= MaxRate * h.avg

\* What the shares cost in won: today's rate fx stands in for a bad basis.
KRWCostBasis(h, fx) ==
  IF ValidateKRWCostBasis(h) THEN h.shares * h.krw ELSE h.shares * h.avg * fx

Blended(h, n, a, b) == (h.shares * a + n * b) \div (h.shares + n)
Whole(h, n, a, b) == (h.shares * a + n * b) % (h.shares + n) = 0

\* Faulty: a won average that is unknown or damaged is blended like any other.
BlendKRWCostBasisUnchecked(h, n, p, rate) == Blended(h, n, h.krw, p * rate)

BlendKRWCostBasis(h, n, p, rate) ==
  IF h.shares > 0 /\ ~ValidateKRWCostBasis(h) THEN 0
  ELSE Blended(h, n, h.krw, p * rate)

----------------------------------------------------------------------------
\* A loss uses up no deduction and costs no tax.
CapitalGainsTax(gain) ==
  LET deduction == IF gain > 0 THEN Min({gain, Deduction}) ELSE 0
  IN Max({0, gain - deduction}) * Rate

\* Faulty: what was realised this year is left out of account.
LiquidationTaxAlone(realized, unrealized) == CapitalGainsTax(unrealized)

\* What selling everything adds to the tax of a person and year.
LiquidationTax(realized, unrealized) ==
  CapitalGainsTax(realized + unrealized) - CapitalGainsTax(realized)

\* AnnualGainsByUser: the sales of every holding.
AnnualGains(y, u) == SumOf(gains[y][u], Stocks)

\* annualTax: each person's gains and losses are netted, then deducted from.
AnnualTax(y) == SumOf([u \in People |-> CapitalGainsTax(AnnualGains(y, u))], People)

\* No rate of the market has left the plausible range.
MarketRates == Rates \cap MinRate..MaxRate

\* What FetchPrice and FetchUSDKRW answer.
Market == [price : [Foreign -> Prices], fx : MarketRates]

\* The gain of a holding in won, and a person's foreign holdings.
ProfitLossKRW(h, m) ==
  holding[h].shares * m.price[h] * m.fx - KRWCostBasis(holding[h], m.fx)
ForeignOf(u) == {h \in Foreign : holding[h].user = u /\ holding[h].shares > 0}

\* portfolio: the tax of selling everything now, for who has foreign holdings.
Unrealized(m, u) == SumOf([h \in Foreign |-> ProfitLossKRW(h, m)], ForeignOf(u))

EstimatedTax(m) ==
  SumOf([u \in People |-> LiquidationTax(AnnualGains(year, u), Unrealized(m, u))],
        {u \in People : ForeignOf(u) # {}})

----------------------------------------------------------------------------
\* sellStock.  The gain is in won, and its date in UTC.
SellStock(h, n, p, rate) ==
  LET x == holding[h]
      gain == IF h \in Foreign THEN (p * rate - x.krw) * n ELSE (p - x.avg) * n
      dated == IF early THEN year - 1 ELSE year
  IN /\ trades < MaxTrades
     /\ n <= x.shares
     /\ h \in Foreign => ValidateKRWCostBasis(x)
     /\ gains' = [gains EXCEPT ![dated][x.user][h] = @ + gain]
     /\ holding' = [holding EXCEPT ![h].shares = @ - n]
     /\ paid' = IF h \in Foreign THEN [paid EXCEPT ![h] = @ - n * x.krw] ELSE paid
     /\ trades' = trades + 1
     /\ UNCHANGED <<year, early>>

Bought(x, n, avg, krw) ==
  [user |-> x.user, shares |-> x.shares + n, avg |-> avg, krw |-> krw]

\* buyStock, of a holding in dollars; the rate is what the client typed.
BuyForeign(h, n, p, rate) ==
  LET x == holding[h]
  IN /\ trades < MaxTrades
     /\ x.shares > 0 /\ x.shares + n <= MaxShares
     /\ Whole(x, n, x.avg, p) /\ Whole(x, n, x.krw, p * rate)
     /\ holding' = [holding EXCEPT ![h] =
          Bought(x, n, Blended(x, n, x.avg, p), BlendKRWCostBasis(x, n, p, rate))]
     /\ paid' = [paid EXCEPT ![h] = @ + n * p * rate]
     /\ trades' = trades + 1
     /\ UNCHANGED <<gains, year, early>>

BuyDomestic(h, n, p) ==
  LET x == holding[h]
      avg == Blended(x, n, x.avg, p)
  IN /\ trades < MaxTrades
     /\ x.shares > 0 /\ x.shares + n <= MaxShares
     /\ Whole(x, n, x.avg, p)
     /\ holding' = [holding EXCEPT ![h] = Bought(x, n, avg, avg)]
     /\ trades' = trades + 1
     /\ UNCHANGED <<paid, gains, year, early>>

\* Midnight in Seoul, when UTC has nine hours of the old year left.
NewYear ==
  /\ year < MaxYear
  /\ year' = year + 1
  /\ early' = TRUE
  /\ UNCHANGED <<holding, paid, gains, trades>>

NewYearInUTC ==
  /\ early
  /\ early' = FALSE
  /\ UNCHANGED <<holding, paid, gains, year, trades>>

AtFirst == [user : People, shares : 1..MaxShares, avg : Opening, krw : {0}]

\* A foreign holding has the basis it was bought at, none, or a damaged one
\* that takes the dollar average for won; a domestic one starts with none.
TaxInit ==
  /\ \E opening \in [Stocks -> AtFirst], rate \in [Foreign -> MarketRates],
        basis \in [Foreign -> {"bought", "none", "dollars"}] :
       /\ holding = [h \in Stocks |->
            IF h \in Domestic \/ basis[h] = "none" THEN opening[h]
            ELSE [opening[h] EXCEPT
                    !.krw = opening[h].avg * (IF basis[h] = "bought" THEN rate[h] ELSE 1)]]
       /\ paid = [h \in Foreign |-> opening[h].shares * opening[h].avg * rate[h]]
  /\ gains = [y \in Years |-> [u \in People |-> [h \in Stocks |-> 0]]]
  /\ year = 0 /\ early = FALSE /\ trades = 0

TaxNext ==
  \/ \E n \in 1..MaxShares, p \in Prices :
       \/ \E h \in Stocks, rate \in Rates : SellStock(h, n, p, rate)
       \/ \E h \in Foreign, rate \in Rates : BuyForeign(h, n, p, rate)
       \/ \E h \in Domestic : BuyDomestic(h, n, p)
  \/ NewYear
  \/ NewYearInUTC

TaxSpec == TaxInit /\ [][TaxNext]_taxVars

----------------------------------------------------------------------------
\* A foreign holding that may be sold has, per share, the won basis its
\* shares were paid for, through any purchases and sales: an unknown or
\* damaged basis never becomes one that passes the check.
SellableAsPaid ==
  \A h \in Foreign :
    ValidateKRWCostBasis(holding[h]) =>
      holding[h].shares * holding[h].krw = paid[h]

Total(m) == SumOf([y \in Years |-> AnnualTax(y)], Years) + EstimatedTax(m)

\* The tax that portfolio announces is the tax that annualTax bills: selling a
\* foreign holding at today's price and rate moves tax from one to the other
\* and adds none, whoever sells how much of what after which sales.  Not in
\* the hours when a sale is still dated in the old year.
SaleKeepsTotal ==
  [][\A m \in Market, h \in Foreign, n \in 1..MaxShares :
       SellStock(h, n, m.price[h], m.fx) /\ ~early => Total(m)' = Total(m)]_taxVars

\* Domestic stock is not subject to the tax: a person is billed for foreign
\* sales only.
DomesticUntaxed ==
  \A y \in Years :
    AnnualTax(y) =
      SumOf([u \in People |-> CapitalGainsTax(SumOf(gains[y][u], Foreign))], People)
=============================================================================
