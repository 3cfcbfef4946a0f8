------------------------------ MODULE Holdings ------------------------------
(***************************************************************************)
(* The stock holdings of a couple: the table stock_assets, the append-only *)
(* log stock_transactions, and the HTTP handlers that create, patch, buy,  *)
(* sell and delete a holding (internal/handler/handler.go).                *)
(*                                                                         *)
(* Each request runs in a goroutine of its own and issues one SQL          *)
(* statement at a time, with no transaction around them: a handler reads a *)
(* row, computes in memory, and writes the whole row back.  Every          *)
(* statement is one action, so other requests may run between two of them. *)
(*                                                                         *)
(* Prices are abstracted to where they come from.  An average price is the *)
(* set of the purchases ("lots") it was blended from: a request that       *)
(* bought, or the identifier of the holding for what it opened with.  The  *)
(* won cost basis avg_krw_price is such a set too, {} standing for the 0   *)
(* that means "unknown".  A quantity is a number of whole shares.          *)
(***************************************************************************)
EXTENDS Integers, FiniteSets, FiniteSetsExt, Sums

CONSTANTS
  Stocks,           \* identifiers that uuid.NewString can hand out
  Requests,         \* HTTP requests on holdings, each sent at most once
  Lots,             \* the purchases an average can be blended from
  Users,            \* the two members of the couple
  Quantities,       \* the share counts a request may carry
  OpeningQuantity,  \* shares of a holding at the start, 0: identifier unused
  OpeningExact,     \* holdings that start with a won cost basis on file
  Currency,         \* "USD" or "KRW", for each holding
  Symbol,           \* ticker of each holding
  MaxInFlight,      \* bound on requests being served at once
  MaxFaults         \* bound on failed statements and process crashes

ASSUME HoldingsAssumption ==
  /\ Requests \cup Stocks \subseteq Lots
  /\ Stocks # {}
  /\ Users # {}
  /\ Quantities \subseteq Nat \ {0}
  /\ OpeningQuantity \in [Stocks -> Nat]
  /\ Currency \in [Stocks -> {"USD", "KRW"}]
  /\ MaxInFlight \in Nat
  /\ MaxFaults \in Nat

VARIABLES
  stocks,   \* the rows present in stock_assets, by identifier
  issued,   \* identifiers handed out so far: a uuid is never reused
  log,      \* the rows of stock_transactions
  req,      \* what each handler goroutine holds
  faults    \* failures so far

vars == <<stocks, issued, log, req, faults>>

----------------------------------------------------------------------------
(* The records. *)

Row == [user : Users, quantity : Nat, avg : SUBSET Lots, krw : SUBSET Lots]

LogEntry == [req : Lots, stock : Stocks, type : {"buy", "sell"},
             quantity : Nat, user : Users, exact : BOOLEAN]

\* The optional parts of a request body or query.
Options == {"rate", "average", "force"}

Request == [pc : {"idle", "check", "log", "write", "ok", "error", "lost"},
            op : {"none", "create", "update", "delete", "buy", "sell"},
            stock : Stocks, quantity : Nat, opts : SUBSET Options, row : Row]

Blank == [user |-> CHOOSE u \in Users : TRUE, quantity |-> 0,
          avg |-> {}, krw |-> {}]

InFlight == {r \in Requests : req[r].pc \in {"check", "log", "write"}}

----------------------------------------------------------------------------
(* Statements of the repositories. *)

Ok == UNCHANGED faults
Fault == faults < MaxFaults /\ faults' = faults + 1

Insert(s, row) ==
  /\ s \notin issued
  /\ issued' = issued \cup {s}
  /\ stocks' = [t \in DOMAIN stocks \cup {s} |->
                  IF t = s THEN row ELSE stocks[t]]

\* Faulty variants of a definition carry its name and what is wrong with it;
\* no specification uses them.
UpdateUpserts(s, row) ==
  stocks' = [t \in DOMAIN stocks \cup {s} |-> IF t = s THEN row ELSE stocks[t]]

UpdateWithoutBasis(s, row) ==
  /\ s \in DOMAIN stocks
  /\ stocks' = [stocks EXCEPT ![s] = [row EXCEPT !.user = stocks[s].user,
                                                 !.krw = stocks[s].krw]]

UpdateIncrements(s, row) ==
  /\ s \in DOMAIN stocks
  /\ stocks' = [stocks EXCEPT ![s] = [row EXCEPT !.quantity = @ + stocks[s].quantity]]

\* The UPDATE names every column of the row except the owner.
Update(s, row) ==
  /\ s \in DOMAIN stocks
  /\ stocks' = [stocks EXCEPT ![s] = [row EXCEPT !.user = stocks[s].user]]

Delete(s) ==
  /\ s \in DOMAIN stocks
  /\ stocks' = [t \in DOMAIN stocks \ {s} |-> stocks[t]]

Append(entry) == log' = log \cup {entry}

HasSellInYear(s) ==
  \E l \in log : l.type = "sell" /\ Symbol[l.stock] = Symbol[s]

----------------------------------------------------------------------------
(* The won cost basis. *)

\* ValidateKRWCostBasis compares the rate implied by the two averages with
\* 700..2500.  An unknown basis fails; whether another one passes depends on
\* prices this module leaves out.
ValidateKRWCostBasis(row) == IF row.krw = {} THEN {FALSE} ELSE BOOLEAN

BlendKRWCostBasisUnchecked(row, lot) == {row.krw \cup {lot}}

\* A purchase is blended into a basis that validates, else the result is 0.
BlendKRWCostBasis(row, lot) ==
  {IF valid THEN row.krw \cup {lot} ELSE {} : valid \in ValidateKRWCostBasis(row)}

----------------------------------------------------------------------------
(* Handlers.  A request that its handler refuses before it has written     *)
(* anything (bad body, unknown identifier, missing rate) changes nothing   *)
(* and is no action.                                                       *)

Open(r, local) ==
  /\ req[r].pc = "idle"
  /\ Cardinality(InFlight) < MaxInFlight
  /\ req' = [req EXCEPT ![r] = local]

Goto(r, pc) == req' = [req EXCEPT ![r].pc = pc]

\* The reply ends the goroutine and its copy of the row.
Reply(r, pc) == req' = [req EXCEPT ![r].pc = pc, ![r].row = Blank]

Serving(r, op, pc) == req[r].op = op /\ req[r].pc = pc

\* An UPDATE of a row that is gone affects no row, which is an error.
WriteFails(r) ==
  /\ \/ req[r].stock \notin DOMAIN stocks /\ Ok
     \/ Fault
  /\ Reply(r, "error")
  /\ UNCHANGED stocks

\* POST /api/stocks: one INSERT, without a won cost basis.
CreateStock(r) ==
  \E s \in Stocks, q \in Quantities, u \in Users :
    /\ Insert(s, [user |-> u, quantity |-> q, avg |-> {r}, krw |-> {}])
    /\ Open(r, [pc |-> "ok", op |-> "create", stock |-> s, quantity |-> q,
                opts |-> {}, row |-> Blank])
    /\ UNCHANGED log
    /\ Ok

\* PUT /api/stocks/{id}: read the row and patch the copy.  Quantity 0 stands
\* for a body without a quantity.
UpdateStockRead(r) ==
  \E s \in DOMAIN stocks, q \in Quantities \cup {0}, u \in Users,
     opts \in SUBSET {"average"} :
    /\ Open(r, [pc |-> "write", op |-> "update", stock |-> s, quantity |-> q,
                opts |-> opts,
                row |-> [user |-> u,
                         quantity |-> IF q = 0 THEN stocks[s].quantity ELSE q,
                         avg |-> IF "average" \in opts THEN {r} ELSE stocks[s].avg,
                         krw |-> stocks[s].krw]])
    /\ UNCHANGED <<stocks, issued, log>>
    /\ Ok

UpdateStockWrite(r) ==
  /\ Serving(r, "update", "write")
  /\ \/ Update(req[r].stock, req[r].row) /\ Ok /\ Reply(r, "ok")
     \/ WriteFails(r)
  /\ UNCHANGED <<issued, log>>

\* DELETE /api/stocks/{id}?force=true: no check.
DeleteStockForced(r) ==
  \E s \in DOMAIN stocks :
    /\ Delete(s)
    /\ Open(r, [pc |-> "ok", op |-> "delete", stock |-> s, quantity |-> 0,
                opts |-> {"force"}, row |-> Blank])
    /\ UNCHANGED <<issued, log>>
    /\ Ok

\* Without force the row is read for its symbol ...
DeleteStockRead(r) ==
  \E s \in DOMAIN stocks :
    /\ Open(r, [pc |-> "check", op |-> "delete", stock |-> s, quantity |-> 0,
                opts |-> {}, row |-> stocks[s]])
    /\ UNCHANGED <<stocks, issued, log>>
    /\ Ok

\* ... a sale this year answers 409; an error of the query counts as no sale ...
DeleteStockCheck(r) ==
  /\ Serving(r, "delete", "check")
  /\ \/ HasSellInYear(req[r].stock) /\ Ok /\ Reply(r, "error")
     \/ ~HasSellInYear(req[r].stock) /\ Ok /\ Goto(r, "write")
     \/ Fault /\ Goto(r, "write")
  /\ UNCHANGED <<stocks, issued, log>>

\* ... and then the row is deleted.
DeleteStockWrite(r) ==
  /\ Serving(r, "delete", "write")
  /\ \/ Delete(req[r].stock) /\ Ok /\ Reply(r, "ok")
     \/ WriteFails(r)
  /\ UNCHANGED <<issued, log>>

\* POST /api/stocks/{id}/buy: read the row, add the lot to both averages.
BuyStockRead(r) ==
  \E s \in DOMAIN stocks, q \in Quantities, opts \in SUBSET {"rate"} :
    LET old == stocks[s]
        avg == old.avg \cup {r}
    IN /\ Currency[s] = "USD" => "rate" \in opts
       /\ \E krw \in IF Currency[s] = "USD" THEN BlendKRWCostBasis(old, r) ELSE {avg} :
            Open(r, [pc |-> "write", op |-> "buy", stock |-> s, quantity |-> q,
                     opts |-> opts,
                     row |-> [user |-> old.user, quantity |-> old.quantity + q,
                              avg |-> avg, krw |-> krw]])
       /\ UNCHANGED <<stocks, issued, log>>
       /\ Ok

BuyStockWrite(r) ==
  /\ Serving(r, "buy", "write")
  /\ \/ Update(req[r].stock, req[r].row) /\ Ok /\ Goto(r, "log")
     \/ WriteFails(r)
  /\ UNCHANGED <<issued, log>>

EntryOfWholeRow(r, type) ==
  [req |-> r, stock |-> req[r].stock, type |-> type,
   quantity |-> req[r].row.quantity, user |-> req[r].row.user,
   exact |-> req[r].row.krw = req[r].row.avg]

Entry(r, type) ==
  [req |-> r, stock |-> req[r].stock, type |-> type,
   quantity |-> req[r].quantity, user |-> req[r].row.user,
   exact |-> req[r].row.krw = req[r].row.avg]

\* A log statement that fails is only warned about.
LogOrWarn(r, type) ==
  \/ Append(Entry(r, type)) /\ Ok
  \/ Fault /\ UNCHANGED log

BuyStockLog(r) ==
  /\ Serving(r, "buy", "log")
  /\ LogOrWarn(r, "buy")
  /\ Reply(r, "ok")
  /\ UNCHANGED <<stocks, issued>>

SellStockReadUnchecked(r) ==
  \E s \in DOMAIN stocks, q \in Quantities, opts \in SUBSET {"rate"} :
    /\ Open(r, [pc |-> "log", op |-> "sell", stock |-> s, quantity |-> q,
                opts |-> opts, row |-> stocks[s]])
    /\ UNCHANGED <<stocks, issued, log>>
    /\ Ok

\* POST /api/stocks/{id}/sell: read the row and check it.
SellStockRead(r) ==
  \E s \in DOMAIN stocks, q \in Quantities, opts \in SUBSET {"rate"} :
    /\ q <= stocks[s].quantity
    /\ Currency[s] = "USD" =>
         "rate" \in opts /\ TRUE \in ValidateKRWCostBasis(stocks[s])
    /\ Open(r, [pc |-> "log", op |-> "sell", stock |-> s, quantity |-> q,
                opts |-> opts, row |-> stocks[s]])
    /\ UNCHANGED <<stocks, issued, log>>
    /\ Ok

\* The sale is logged before the holding changes ...
SellStockLog(r) ==
  /\ Serving(r, "sell", "log")
  /\ LogOrWarn(r, "sell")
  /\ Goto(r, "write")
  /\ UNCHANGED <<stocks, issued>>

SellStockWriteUnchanged(r) ==
  /\ Serving(r, "sell", "write")
  /\ Update(req[r].stock, req[r].row)
  /\ Ok
  /\ Reply(r, "ok")
  /\ UNCHANGED <<issued, log>>

\* ... then what is left of the row as it was read is written, or the row
\* deleted when nothing is left of it.
SellStockWrite(r) ==
  LET s == req[r].stock
      left == req[r].row.quantity - req[r].quantity
  IN /\ Serving(r, "sell", "write")
     /\ \/ left = 0 /\ Delete(s) /\ Ok /\ Reply(r, "ok")
        \/ /\ left # 0
           /\ Update(s, [req[r].row EXCEPT !.quantity = left])
           /\ Ok
           /\ Reply(r, "ok")
        \/ WriteFails(r)
     /\ UNCHANGED <<issued, log>>

\* The process stops: what the goroutines held is lost, the tables stay.
Lost(rs) == [r \in Requests |->
               IF r \in rs THEN [req[r] EXCEPT !.pc = "lost", !.row = Blank]
                           ELSE req[r]]

Crash ==
  /\ InFlight # {}
  /\ Fault
  /\ req' = Lost(InFlight)
  /\ UNCHANGED <<stocks, issued, log>>

\* Every request has been answered: the model, not the server, stops.
Finished ==
  /\ \A r \in Requests : req[r].pc \in {"ok", "error", "lost"}
  /\ UNCHANGED vars

----------------------------------------------------------------------------
Init ==
  /\ issued = {s \in Stocks : OpeningQuantity[s] > 0}
  /\ stocks = [s \in issued |->
                 [user |-> CHOOSE u \in Users : TRUE,
                  quantity |-> OpeningQuantity[s], avg |-> {s},
                  krw |-> IF s \in OpeningExact THEN {s} ELSE {}]]
  /\ log = {}
  /\ req = [r \in Requests |->
              [pc |-> "idle", op |-> "none", stock |-> CHOOSE s \in Stocks : TRUE,
               quantity |-> 0, opts |-> {}, row |-> Blank]]
  /\ faults = 0

Serve(r) ==
  \/ CreateStock(r)
  \/ UpdateStockRead(r) \/ UpdateStockWrite(r)
  \/ DeleteStockForced(r)
  \/ DeleteStockRead(r) \/ DeleteStockCheck(r) \/ DeleteStockWrite(r)
  \/ BuyStockRead(r) \/ BuyStockWrite(r) \/ BuyStockLog(r)
  \/ SellStockRead(r) \/ SellStockLog(r) \/ SellStockWrite(r)

Next == (\E r \in Requests : Serve(r)) \/ Crash \/ Finished

Spec == Init /\ [][Next]_vars
----------------------------------------------------------------------------
(* Properties that hold however requests interleave and fail. *)

\* Rows, log entries and the copies the goroutines hold are well formed, a
\* row in the table has shares, and a copy about to be written would leave
\* shares or, for a sale, none.
TypeOK ==
  /\ issued \subseteq Stocks
  /\ DOMAIN stocks \subseteq issued
  /\ stocks \in [DOMAIN stocks -> Row]
  /\ \A s \in DOMAIN stocks : stocks[s].quantity > 0
  /\ log \subseteq LogEntry
  /\ req \in [Requests -> Request]
  /\ \A r \in InFlight : req[r].row.quantity > 0
  /\ \A r \in InFlight : req[r].op = "sell" =>
       req[r].quantity \in 1..req[r].row.quantity
  /\ faults \in 0..MaxFaults

\* Holdings in dollars that entered the table without a won cost basis: the
\* API cannot enter one, so these are also all the dollar holdings it creates.
Unknown(s) == Currency[s] = "USD" /\ s \notin OpeningExact

\* A dollar holding whose won cost basis is unknown is never sold, whatever
\* purchases, patches and failures come between: each purchase keeps it
\* unknown (BlendKRWCostBasis), and no stale copy of a row brings one back.
UnknownBasisNeverSold ==
  \A l \in log : Unknown(l.stock) => l.type # "sell"

\* Some patch has carried an average price for this holding.
AverageTyped(s) ==
  \E r \in Requests : /\ req[r].op = "update"
                      /\ req[r].stock = s
                      /\ "average" \in req[r].opts

\* As long as nobody types an average price, the won cost basis of a holding
\* is unknown or blended from the very purchases its average was, and so is
\* the one a dollar sale computed its gain with: lost updates lose a purchase
\* from both averages, never from one.
BasisCoversAverage ==
  /\ \A s \in DOMAIN stocks :
       ~AverageTyped(s) => stocks[s].krw \in {{}, stocks[s].avg}
  /\ \A l \in log :
       l.type = "sell" /\ Currency[l.stock] = "USD" /\ ~AverageTyped(l.stock)
         => l.exact

\* A holding that was sold out or deleted stays gone: a goroutine that still
\* holds its row writes nothing back.
GoneStaysGone ==
  [][\A s \in issued \ DOMAIN stocks : s \notin DOMAIN stocks']_vars

\* The shares each request carries.
Carried == [r \in Requests |-> req[r].quantity]

\* The shares of all requests of one kind on a holding that may have reached
\* the table.
Reached(op, s) ==
  {r \in Requests : /\ req[r].op = op
                    /\ req[r].stock = s
                    /\ req[r].pc \in {"log", "ok", "lost"}}

Applied(op, s) == SumOf(Carried, Reached(op, s))

\* The shares a holding entered the table with.
Initial(s) == OpeningQuantity[s] + Applied("create", s)

\* No patch has carried a quantity for this holding.
QuantityNotTyped(s) ==
  \A r \in Requests :
    req[r].op = "update" /\ req[r].stock = s => req[r].quantity = 0

\* Shares come from nowhere but purchases: a lost update can undo a sale or
\* lose a purchase, it never counts a purchase twice.
NoSharesFromNowhere ==
  \A s \in DOMAIN stocks :
    QuantityNotTyped(s) => stocks[s].quantity <= Initial(s) + Applied("buy", s)

----------------------------------------------------------------------------
(* Properties of requests served one at a time without failures.  The code *)
(* says them of every execution; with two requests in flight, or after a   *)
(* failed statement, they are violated.                                    *)

Trades(type, s) == {l \in log : l.type = type /\ l.stock = s}

Logged(type, s) == SumOf([l \in log |-> l.quantity], Trades(type, s))

\* Once nothing is in flight, the shares of a holding are those it entered
\* the table with, plus the purchases and minus the sales of the log: the log
\* is the audit trail the tax is computed from.
QuantityMatchesLog ==
  InFlight = {} =>
    \A s \in DOMAIN stocks :
      QuantityNotTyped(s) =>
        stocks[s].quantity = Initial(s) + Logged("buy", s) - Logged("sell", s)

\* The log never sells more shares of a holding than it ever had.
NeverOversold ==
  \A s \in issued :
    QuantityNotTyped(s) => Logged("sell", s) <= Initial(s) + Applied("buy", s)

\* Holding and log agree: the log accounts for every share of a holding, and
\* sells none that the holding did not have.
HoldingMatchesLog == QuantityMatchesLog /\ NeverOversold

----------------------------------------------------------------------------
(* Refinement of Position.  A purchase takes effect when its row is        *)
(* written, a sale when it is logged; the other half of each is owed.      *)

\* Shares that requests standing between the two halves of a trade owe.
Owing(op, pc, s) == {r \in Requests : Serving(r, op, pc) /\ req[r].stock = s}

Owed(op, pc, s) == SumOf(Carried, Owing(op, pc, s))

Edited(r, s) ==
  /\ req[r].op \in {"create", "update", "delete"}
  /\ req[r].stock = s
  /\ req[r].pc = "ok"

HeldNow ==
  [s \in Stocks |->
     (IF s \in DOMAIN stocks THEN stocks[s].quantity ELSE 0) - Owed("sell", "write", s)]

BookNow ==
  [s \in Stocks |-> Logged("buy", s) - Logged("sell", s) + Owed("buy", "log", s)]

EditsNow == [s \in Stocks |-> Cardinality({r \in Requests : Edited(r, s)})]

\* More shares than this no holding can have.
MostShares == SumOf(OpeningQuantity, Stocks) + Cardinality(Requests) * Max(Quantities)

Abstract == INSTANCE Position WITH
  Shares <- 1..MostShares, held <- HeldNow, book <- BookNow, edits <- EditsNow

\* Requests served one at a time without failures trade as Position says:
\* every purchase and sale moves the holding and the log by the same shares.
TradesAsOne == Abstract!Spec
=============================================================================
