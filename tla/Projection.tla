------------------------------ MODULE Projection -----------------------------
(***************************************************************************)
(* The arithmetic of a plan line (internal/service/roadmap_service.go): the *)
(* trajectory of the net worth month by month with its contributions and    *)
(* dividends (Project), and the search for the growth that reaches the      *)
(* target (SolveRequiredGrowth), as NewBaseline runs them one after the     *)
(* other on what the market and the goal gave it.                           *)
(*                                                                          *)
(* Amounts are whole.  A rate of growth is the whole factor of one month,   *)
(* a raise the whole factor of one payment; the search halves a range of    *)
(* whole factors where the code halves a range of floats.                   *)
(***************************************************************************)
EXTENDS Integers, FiniteSets, SequencesExt, Sums

CONSTANTS
  Inputs,     \* the calls of NewBaseline
  LoGrowth,   \* the least growth the search answers
  HiGrowth,   \* the greatest
  Halvings    \* how often it halves the range: 60 in the code

\* A dividend is what all shares of one symbol pay at a time, after tax and in
\* won; base is the month of the payment that amount is from.
Dividend == [amount : Int, growth : Nat, months : SUBSET (1..12), raise : 1..12, base : Int]

\* A line of the schedule of contributions.
Contribution == [year : Int, monthly : Int]

\* What NewBaseline is called with: two months, the net worth, the goal's target
\* and the plan.
IsInput(a) ==
  /\ a.anchor \in Nat /\ a.end \in Nat
  /\ a.stocks \in Int /\ a.other \in Int /\ a.target \in Int
  /\ a.dividends \in Seq(Dividend) /\ a.schedule \in Seq(Contribution)

ASSUME ProjectionAssumption ==
  /\ LoGrowth \in Nat /\ HiGrowth \in Nat /\ LoGrowth <= HiGrowth
  /\ Halvings \in Nat /\ Power(2, Halvings) >= HiGrowth - LoGrowth
  /\ \A a \in Inputs : IsInput(a)

VARIABLES
  input,    \* what NewBaseline was called with
  step,     \* what the search does next
  lo, hi,   \* the range it has left
  halved,   \* how often it has been halved
  plan      \* the baseline it returns

planVars == <<input, step, lo, hi, halved, plan>>

----------------------------------------------------------------------------
\* Months are counted from January of year 0.
Year(m) == m \div 12
MonthOf(m) == (m % 12) + 1

IsPaymentMonth(d, m) == MonthOf(m) \in d.months

\* Faulty: the raise of the base month counts once more.
RaisesSinceBaseAgain(d, m) ==
  Max({0, Year(m) - Year(d.base) + (IF MonthOf(m) >= d.raise THEN 1 ELSE 0)
            - (IF MonthOf(d.base) > d.raise THEN 1 ELSE 0)})

RaisesSinceBase(d, m) ==
  Max({0, Year(m) - Year(d.base) + (IF MonthOf(m) >= d.raise THEN 1 ELSE 0)
            - (IF MonthOf(d.base) >= d.raise THEN 1 ELSE 0)})

DividendAt(d, m) ==
  IF IsPaymentMonth(d, m) THEN d.amount * Power(d.growth, RaisesSinceBase(d, m)) ELSE 0

DividendAfterTax(a, m) ==
  SumOf([k \in DOMAIN a.dividends |-> DividendAt(a.dividends[k], m)],
        DOMAIN a.dividends)

\* The first line of the schedule that names the year.
MonthlyContribution(a, m) ==
  LET named == {i \in DOMAIN a.schedule : a.schedule[i].year = Year(m)}
  IN IF named = {} THEN 0 ELSE a.schedule[Min(named)].monthly

\* Faulty: the month of the anchor is rolled again.
MonthsToRollFromAnchor(a) ==
  [i \in 1..Max({0, a.end - a.anchor + 1}) |-> a.anchor + i - 1]

\* The anchor's month is in the net worth already: NewBaseline starts on its
\* second day, and nextMonthStart passes over a month that has begun.
MonthsToRoll(a) == [i \in 1..Max({0, a.end - a.anchor}) |-> a.anchor + i]

----------------------------------------------------------------------------
\* What a month adds to the row of its year, and where it leaves the net worth.
Gathered(row, contribution, dividend, worth) ==
  [row EXCEPT !.contributed = @ + contribution, !.dividend = @ + dividend, !.worth = worth]

\* The contribution and the dividend of a month grow with the rest of it; the
\* first month of a year adds a row.
RollMonth(a, g, s, m) ==
  LET contribution == MonthlyContribution(a, m)
      dividend == DividendAfterTax(a, m)
      existing == s.existing * g
      pool == (s.pool + contribution + dividend) * g
      worth == existing + pool + a.other
      newRow == [year |-> Year(m), contributed |-> 0, dividend |-> 0, worth |-> 0]
  IN [existing |-> existing, pool |-> pool,
      rows |-> IF s.rows # <<>> /\ Last(s.rows).year = Year(m)
               THEN [s.rows EXCEPT ![Len(s.rows)] = Gathered(@, contribution, dividend, worth)]
               ELSE Append(s.rows, Gathered(newRow, contribution, dividend, worth)),
      months |-> Append(s.months, [month |-> m, contribution |-> contribution,
                                   dividend |-> dividend, worth |-> worth])]

Project(a, g) ==
  LET n == Len(MonthsToRoll(a))
      rolled[k \in 0..n] ==
        IF k = 0 THEN [existing |-> a.stocks, pool |-> 0, rows |-> <<>>, months |-> <<>>]
                 ELSE RollMonth(a, g, rolled[k - 1], MonthsToRoll(a)[k])
  IN rolled[n]

\* Where a growth ends; nowhere, when there is no month left to roll.
Final(a, g) == LET rows == Project(a, g).rows IN IF rows = <<>> THEN 0 ELSE Last(rows).worth

----------------------------------------------------------------------------
TryHigh ==
  /\ step = "high"
  /\ IF Final(input, hi) < input.target THEN step' = "project" /\ lo' = hi
                                        ELSE step' = "low" /\ lo' = lo
  /\ UNCHANGED <<input, hi, halved, plan>>

TryLow ==
  /\ step = "low"
  /\ IF Final(input, lo) > input.target THEN step' = "project" /\ hi' = lo
                                        ELSE step' = "halve" /\ hi' = hi
  /\ UNCHANGED <<input, lo, halved, plan>>

Mid == (lo + hi) \div 2

\* Faulty: the half that cannot hold the growth is kept.
HalveOtherWay ==
  /\ step = "halve" /\ halved < Halvings
  /\ IF Final(input, Mid) < input.target THEN hi' = Mid /\ lo' = lo ELSE lo' = Mid /\ hi' = hi
  /\ halved' = halved + 1
  /\ UNCHANGED <<input, step, plan>>

Halve ==
  /\ step = "halve" /\ halved < Halvings
  /\ IF Final(input, Mid) < input.target THEN lo' = Mid /\ hi' = hi ELSE hi' = Mid /\ lo' = lo
  /\ halved' = halved + 1
  /\ UNCHANGED <<input, step, plan>>

\* The search answers the middle of what is left, and the plan line is drawn
\* with it; roadmapProjection shows it behind the point of the anchor.
NewBaseline ==
  /\ step = "project" \/ (step = "halve" /\ halved = Halvings)
  /\ step' = "done"
  /\ plan' = [growth |-> Mid, worth |-> input.stocks + input.other,
              years |-> Project(input, Mid).rows, months |-> Project(input, Mid).months]
  /\ UNCHANGED <<input, lo, hi, halved>>

NoPlan == [growth |-> LoGrowth, worth |-> 0, years |-> <<>>, months |-> <<>>]

ProjectionInit ==
  /\ input \in Inputs
  /\ step = "high"
  /\ lo = LoGrowth /\ hi = HiGrowth
  /\ halved = 0
  /\ plan = NoPlan

ProjectionNext == TryHigh \/ TryLow \/ Halve \/ NewBaseline

ProjectionSpec == ProjectionInit /\ [][ProjectionNext]_planVars

----------------------------------------------------------------------------
\* planFromBaseline: the chart starts with the point of the anchor.
Chart ==
  <<[month |-> input.anchor, contribution |-> 0, dividend |-> 0, worth |-> plan.worth]>>
    \o plan.months

\* The chart has every month from the anchor to the target once; the table has
\* every year of the months after the anchor once, in order, with what the
\* chart shows for the months of that year and the net worth of the last one.
TableMatchesChart ==
  step = "done" =>
    LET last == Max({input.anchor, input.end})
        Points(y) == {i \in 2..Len(Chart) : Year(Chart[i].month) = y}
    IN /\ [i \in DOMAIN Chart |-> Chart[i].month] =
            [i \in 1..(last - input.anchor + 1) |-> input.anchor + i - 1]
       /\ {plan.years[i].year : i \in DOMAIN plan.years} =
            {Year(m) : m \in input.anchor + 1..last}
       /\ \A i, j \in DOMAIN plan.years :
            i < j => plan.years[i].year < plan.years[j].year
       /\ \A i \in DOMAIN plan.years :
            LET row == plan.years[i]
                points == Points(row.year)
            IN /\ row.contributed = SumOf([p \in points |-> Chart[p].contribution], points)
               /\ row.dividend = SumOf([p \in points |-> Chart[p].dividend], points)
               /\ row.worth = Chart[Max(points)].worth

\* Every payment of the plan line is the base payment raised once for each
\* raise month that has come after the base month, however the base, the raise
\* and the end of a year fall.
RaisesCounted ==
  step = "done" =>
    \A i \in DOMAIN plan.months :
      LET m == plan.months[i].month
          Raises(d) == Cardinality({n \in d.base + 1..m : MonthOf(n) = d.raise})
          Payment(d) == d.amount * Power(d.growth, Raises(d))
          paying == {k \in DOMAIN input.dividends : MonthOf(m) \in input.dividends[k].months}
      IN plan.months[i].dividend =
           SumOf([k \in paying |-> Payment(input.dividends[k])], paying)

\* The plan line ends at the target, as close as the search can tell growths
\* apart, unless the target is out of its reach; then the growth is the bound
\* it is beyond.  With no month left the growth means nothing.
PlanReachesTarget ==
  step = "done" /\ plan.months # <<>> =>
    LET g == plan.growth
        end == Last(Chart).worth
    IN \/ g = HiGrowth /\ end < input.target
       \/ g = LoGrowth /\ end > input.target
       \/ end <= input.target /\ (end = input.target \/ Final(input, g + 1) >= input.target)
=============================================================================
