------------------------------- MODULE Posting -------------------------------
(***************************************************************************)
(* What posts entries to the ledger on its own: fixed expenses ("bills"),  *)
(* applied to a month together, and dividends, applied one at a time       *)
(* (internal/handler/handler.go).  Both first look whether the entry is    *)
(* there and then insert it, in separate statements with nothing locked    *)
(* and no unique key on the table.  Loans create bills the same way, and   *)
(* know a bill of theirs by nothing but its title.                         *)
(*                                                                         *)
(* A bill is its identifier, whether it is active and whose loan's title   *)
(* it bears; a loan is its name; an entry is the month it is dated in and  *)
(* the bill it is linked to.  Amounts and the owner who pays are left out. *)
(* The order in which a request applies its bills is left open.            *)
(***************************************************************************)
EXTENDS Integers, FiniteSets

CONSTANTS
  Bills, Dividends, Loans,   \* identifiers that uuid.NewString can hand out
  Names,            \* what a loan may be called
  Savings,          \* bills of kind saving: they are posted by ApplySaving
  Opening,          \* bills and dividends that exist at the start, unapplied
  Months,           \* year and month
  Requests,         \* HTTP requests, each sent at most once
  None,
  MaxInFlight,      \* bound on requests being served at once
  MaxFaults         \* bound on failed statements and process crashes

Items == Bills \cup Dividends \cup Loans

\* A bill's title, by the name of the loan that makes it: None makes no loan's.
Titles == Names \cup {None}

ASSUME PostingAssumption ==
  /\ None \notin Items
  /\ Bills \cap Dividends = {}
  /\ Savings \subseteq Bills
  /\ Opening \subseteq Bills \cup Dividends
  /\ Months # {}
  /\ MaxInFlight \in Nat
  /\ MaxFaults \in Nat

VARIABLES
  bills,      \* rows of fixed_expenses: identifier to is_active and title
  dividends,  \* rows of dividends: identifier to is_applied
  loans,      \* loans among the rows of other_assets: identifier to name
  issued,     \* identifiers handed out so far
  ledger,     \* entries of transactions, named by request and item
  req,        \* what each handler goroutine holds
  faults      \* failures so far

vars == <<bills, dividends, loans, issued, ledger, req, faults>>

----------------------------------------------------------------------------
Answered == {"ok", "error", "lost"}

Working == {"month", "post", "credit", "entry", "mark", "look", "bill", "write"}

Bill == [active : BOOLEAN, title : Titles]

\* row is what it writes to a bill, or the bill of the loan by the name it read
\* or gives it.  todo holds the bills still to be posted.  The rest is history:
\* the active bills the request listed, or the one it links an entry to; the
\* items it posted, or the bill it made for its loan; whether it marked its
\* dividend; and the requests that had been answered when it began.
Request == [pc : Working \cup {"idle"} \cup Answered,
            op : {"none", "apply", "bill", "dividend", "loan", "asset", "edit"},
            new : BOOLEAN, item : Items \cup {None}, month : Months,
            row : Bill, todo : SUBSET Bills,
            listed : SUBSET Bills, posted : SUBSET Items, marked : BOOLEAN,
            before : SUBSET Requests]

\* A bill is created active.
NewBill(title) == [active |-> TRUE, title |-> title]

Fresh == [pc |-> "idle", op |-> "none", new |-> FALSE, item |-> None,
          month |-> CHOOSE m \in Months : TRUE, row |-> NewBill(None), todo |-> {},
          listed |-> {}, posted |-> {}, marked |-> FALSE, before |-> {}]

Entry == [month : Months, link : Bills \cup {None}]

InFlight == {r \in Requests : req[r].pc \in Working}

Ok == UNCHANGED faults
Fault == faults < MaxFaults /\ faults' = faults + 1

\* The request begins, with what its path and body say.
Begin(r, pc, op, new, item, month, row, listed) ==
  /\ req[r].pc = "idle"
  /\ Cardinality(InFlight) < MaxInFlight
  /\ req' = [req EXCEPT ![r] =
               [pc |-> pc, op |-> op, new |-> new, item |-> item, month |-> month,
                row |-> row, todo |-> {}, listed |-> listed, posted |-> {},
                marked |-> FALSE, before |-> {q \in Requests : req[q].pc \in Answered}]]

Open(r, pc, op, new, item) == Begin(r, pc, op, new, item, Fresh.month, Fresh.row, {})

\* A request about a loan, with its name.
OpenLoan(r, pc, op, new, l, name) ==
  Begin(r, pc, op, new, l, Fresh.month, NewBill(name), {})

\* What the goroutine holds next.
Held(r, pc, item, todo, posted, marked) ==
  [pc |-> pc, op |-> req[r].op, new |-> req[r].new, item |-> item,
   month |-> req[r].month, row |-> req[r].row, todo |-> todo,
   listed |-> req[r].listed, posted |-> posted, marked |-> marked,
   before |-> req[r].before]

Ended(r, pc) == Held(r, pc, req[r].item, {}, req[r].posted, req[r].marked)

Go(r, held) == req' = [req EXCEPT ![r] = held]

Reply(r, pc) == Go(r, Ended(r, pc))

\* createDividend and createAsset answer 201 whatever becomes of what follows
\* the insertion.
Failure(r) == IF req[r].new THEN "ok" ELSE "error"

At(r, op, pc) == req[r].op = op /\ req[r].pc = pc

Put(table, key, value) ==
  [k \in DOMAIN table \cup {key} |-> IF k = key THEN value ELSE table[k]]

Drop(table, key) == [k \in DOMAIN table \ {key} |-> table[k]]

InsertEntry(r, item, month, link) ==
  ledger' = Put(ledger, <<r, item>>, [month |-> month, link |-> link])

\* An item is posted: the request goes on, about that item or about none.
Posted(r, pc, b, item) ==
  Go(r, Held(r, pc, item, req[r].todo \ {b}, req[r].posted \cup {b}, FALSE))

----------------------------------------------------------------------------
(* POST /api/fixed-expenses/apply. *)

\* The bills are listed ...
ApplyList(r) ==
  \E m \in Months :
    /\ Begin(r, "month", "apply", FALSE, None, m, Fresh.row,
             {b \in DOMAIN bills : bills[b].active})
    /\ UNCHANGED <<bills, dividends, loans, issued, ledger>>
    /\ Ok

\* Faulty: every active bill is applied.
ApplyMonthUnfiltered(r) ==
  /\ At(r, "apply", "month")
  /\ Go(r, Held(r, "post", None, req[r].listed, {}, FALSE))
  /\ Ok
  /\ UNCHANGED <<bills, dividends, loans, issued, ledger>>

\* ... then the entries of the month, and those that have one are skipped.
ApplyMonth(r) ==
  LET applied == {ledger[e].link :
                    e \in {f \in DOMAIN ledger : ledger[f].month = req[r].month}}
  IN /\ At(r, "apply", "month")
     /\ \/ Go(r, Held(r, "post", None, req[r].listed \ applied, {}, FALSE)) /\ Ok
        \/ Reply(r, "error") /\ Fault
     /\ UNCHANGED <<bills, dividends, loans, issued, ledger>>

\* Faulty: a posted bill stays to be done.
PostKeeps(r) ==
  \E b \in req[r].todo \ Savings :
    /\ At(r, "apply", "post")
    /\ InsertEntry(r, b, req[r].month, b)
    /\ Go(r, Held(r, "post", None, req[r].todo, req[r].posted \cup {b}, FALSE))
    /\ Ok
    /\ UNCHANGED <<bills, dividends, loans, issued>>

\* Faulty: a bill whose statement fails is passed over.
PostPassesOver(r) ==
  \E b \in req[r].todo \ Savings :
    /\ At(r, "apply", "post")
    /\ \/ InsertEntry(r, b, req[r].month, b) /\ Posted(r, "post", b, None) /\ Ok
       \/ /\ Go(r, Held(r, "post", None, req[r].todo \ {b}, req[r].posted, FALSE))
          /\ Fault
          /\ UNCHANGED ledger
    /\ UNCHANGED <<bills, dividends, loans, issued>>

\* One statement for each bill; the first that fails ends the request.
Post(r) ==
  \E b \in req[r].todo \ Savings :
    /\ At(r, "apply", "post")
    /\ \/ InsertEntry(r, b, req[r].month, b) /\ Posted(r, "post", b, None) /\ Ok
       \/ Reply(r, "error") /\ Fault /\ UNCHANGED ledger
    /\ UNCHANGED <<bills, dividends, loans, issued>>

\* ApplySaving as Saving has it: the entry, visible to others at once ...
PostSaving(r) ==
  \E b \in req[r].todo \cap Savings :
    /\ At(r, "apply", "post")
    /\ \/ InsertEntry(r, b, req[r].month, b) /\ Posted(r, "credit", b, b) /\ Ok
       \/ Reply(r, "error") /\ Fault /\ UNCHANGED ledger
    /\ UNCHANGED <<bills, dividends, loans, issued>>

\* ... then the asset; if it cannot be credited the entry is deleted, and if
\* that fails it stays.
CreditSaving(r) ==
  LET b == req[r].item
  IN /\ At(r, "apply", "credit")
     /\ \/ /\ Go(r, Held(r, "post", None, req[r].todo, req[r].posted, FALSE))
           /\ Ok
           /\ UNCHANGED ledger
        \/ /\ ledger' = Drop(ledger, <<r, b>>)
           /\ Go(r, Held(r, "error", None, {}, req[r].posted \ {b}, FALSE))
           /\ Ok
        \/ Reply(r, "error") /\ Fault /\ UNCHANGED ledger
     /\ UNCHANGED <<bills, dividends, loans, issued>>

ApplyDone(r) ==
  /\ At(r, "apply", "post")
  /\ req[r].todo = {}
  /\ Reply(r, "ok")
  /\ Ok
  /\ UNCHANGED <<bills, dividends, loans, issued, ledger>>

----------------------------------------------------------------------------
(* Bills, and the loans that make them. *)

InsertBill(b, row) ==
  /\ b \notin issued
  /\ bills' = Put(bills, b, row)
  /\ issued' = issued \cup {b}

\* A bill made by hand may bear a loan's title as well.
CreateBill(r) ==
  \E b \in Bills, title \in Titles :
    /\ InsertBill(b, NewBill(title))
    /\ Open(r, "ok", "bill", TRUE, b)
    /\ UNCHANGED <<dividends, loans, ledger>>
    /\ Ok

\* PUT /api/fixed-expenses/{id}: read, patch, write the whole row.
UpdateBillRead(r) ==
  \E b \in DOMAIN bills, row \in Bill :
    /\ Begin(r, "write", "bill", FALSE, b, Fresh.month, row, {})
    /\ UNCHANGED <<bills, dividends, loans, issued, ledger>>
    /\ Ok

UpdateBillWrite(r) ==
  LET b == req[r].item
  IN /\ At(r, "bill", "write")
     /\ \/ /\ b \in DOMAIN bills
           /\ bills' = Put(bills, b, req[r].row)
           /\ Reply(r, "ok")
           /\ Ok
        \/ /\ (b \notin DOMAIN bills /\ Ok) \/ Fault
           /\ Reply(r, "error")
           /\ UNCHANGED bills
     /\ UNCHANGED <<dividends, loans, issued, ledger>>

\* The entries of a deleted bill stay.
DeleteBill(r) ==
  \E b \in DOMAIN bills :
    /\ bills' = Drop(bills, b)
    /\ Open(r, "ok", "bill", FALSE, b)
    /\ UNCHANGED <<dividends, loans, issued, ledger>>
    /\ Ok

\* POST /api/assets with a loan; with a payment day it gets a bill next.
CreateLoan(r) ==
  \E l \in Loans \ issued, name \in Names, pc \in {"bill", "ok"} :
    /\ loans' = Put(loans, l, name)
    /\ issued' = issued \cup {l}
    /\ OpenLoan(r, pc, "loan", TRUE, l, name)
    /\ UNCHANGED <<bills, dividends, ledger>>
    /\ Ok

\* PUT /api/assets/{id} as for bills: the loan gets the name of the body, or
\* the one that was read back.
UpdateLoanRead(r) ==
  \E l \in DOMAIN loans, name \in Names :
    /\ OpenLoan(r, "write", "asset", FALSE, l, name)
    /\ UNCHANGED <<bills, dividends, loans, issued, ledger>>
    /\ Ok

UpdateLoanWrite(r) ==
  LET l == req[r].item
  IN /\ At(r, "asset", "write")
     /\ \/ /\ l \in DOMAIN loans
           /\ loans' = Put(loans, l, req[r].row.title)
           /\ Reply(r, "ok")
           /\ Ok
        \/ /\ (l \notin DOMAIN loans /\ Ok) \/ Fault
           /\ Reply(r, "error")
           /\ UNCHANGED loans
     /\ UNCHANGED <<bills, dividends, issued, ledger>>

\* The bill of a deleted loan stays.
DeleteLoan(r) ==
  \E l \in DOMAIN loans :
    /\ loans' = Drop(loans, l)
    /\ Open(r, "ok", "edit", FALSE, l)
    /\ UNCHANGED <<bills, dividends, issued, ledger>>
    /\ Ok

\* POST /api/assets/{id}/loan-expense: the loan is read ...
BillLoan(r) ==
  \E l \in DOMAIN loans :
    /\ OpenLoan(r, "look", "loan", FALSE, l, loans[l])
    /\ UNCHANGED <<bills, dividends, loans, issued, ledger>>
    /\ Ok

\* ... then the bills: one with the title the name makes, whosever it is,
\* answers 409; an error of the query counts as no bill.
FindLoanBill(r) ==
  /\ At(r, "loan", "look")
  /\ \/ /\ (\A b \in DOMAIN bills : bills[b].title # req[r].row.title) /\ Ok
        /\ Go(r, Held(r, "bill", req[r].item, {}, {}, FALSE))
     \/ /\ Fault
        /\ Go(r, Held(r, "bill", req[r].item, {}, {}, FALSE))
     \/ /\ \E b \in DOMAIN bills : bills[b].title = req[r].row.title
        /\ Reply(r, "error")
        /\ Ok
  /\ UNCHANGED <<bills, dividends, loans, issued, ledger>>

\* createAsset ignores a failure.
InsertLoanBill(r) ==
  /\ At(r, "loan", "bill")
  /\ \/ \E b \in Bills :
          /\ InsertBill(b, req[r].row)
          /\ Go(r, Held(r, "ok", req[r].item, {}, {b}, FALSE))
          /\ Ok
     \/ /\ Fault
        /\ Reply(r, Failure(r))
        /\ UNCHANGED <<bills, issued>>
  /\ UNCHANGED <<dividends, loans, ledger>>

----------------------------------------------------------------------------
(* Dividends. *)

\* POST /api/dividends: the row, then applyDividendToLedger.
CreateDividend(r) ==
  \E d \in Dividends \ issued :
    /\ dividends' = Put(dividends, d, FALSE)
    /\ issued' = issued \cup {d}
    /\ Open(r, "entry", "dividend", TRUE, d)
    /\ UNCHANGED <<bills, loans, ledger>>
    /\ Ok

\* Faulty: no look at is_applied.
ApplyDividendUnchecked(r) ==
  \E d \in DOMAIN dividends :
    /\ Open(r, "entry", "dividend", FALSE, d)
    /\ UNCHANGED <<bills, dividends, loans, issued, ledger>>
    /\ Ok

\* POST /api/dividends/{id}/apply, refused for an applied dividend.
ApplyDividend(r) ==
  \E d \in DOMAIN dividends :
    /\ ~dividends[d]
    /\ Open(r, "entry", "dividend", FALSE, d)
    /\ UNCHANGED <<bills, dividends, loans, issued, ledger>>
    /\ Ok

\* applyDividendToLedger: the entry ...
InsertIncome(r) ==
  /\ At(r, "dividend", "entry")
  /\ \/ /\ InsertEntry(r, req[r].item, req[r].month, None)
        /\ Posted(r, "mark", req[r].item, req[r].item)
        /\ Ok
     \/ Reply(r, Failure(r)) /\ Fault /\ UNCHANGED ledger
  /\ UNCHANGED <<bills, dividends, loans, issued>>

\* ... then the mark.
MarkApplied(r) ==
  LET d == req[r].item
  IN /\ At(r, "dividend", "mark")
     /\ \/ /\ d \in DOMAIN dividends
           /\ dividends' = Put(dividends, d, TRUE)
           /\ Go(r, Held(r, "ok", d, {}, req[r].posted, TRUE))
           /\ Ok
        \/ /\ (d \notin DOMAIN dividends /\ Ok) \/ Fault
           /\ Reply(r, Failure(r))
           /\ UNCHANGED dividends
     /\ UNCHANGED <<bills, loans, issued, ledger>>

\* The entry of a deleted dividend stays.
DeleteDividend(r) ==
  \E d \in DOMAIN dividends :
    /\ dividends' = Drop(dividends, d)
    /\ Open(r, "ok", "edit", FALSE, d)
    /\ UNCHANGED <<bills, loans, issued, ledger>>
    /\ Ok

----------------------------------------------------------------------------
(* The ledger, by hand. *)

\* PUT /api/transactions/{id} stores the body as it is: another month, and
\* whatever bill the body names, or none.
UpdateEntry(r) ==
  \E e \in DOMAIN ledger, m \in Months, link \in Bills \cup {None} :
    /\ ledger' = Put(ledger, e, [month |-> m, link |-> link])
    /\ Begin(r, "ok", "edit", FALSE, e[2], Fresh.month, Fresh.row, {link} \cap Bills)
    /\ UNCHANGED <<bills, dividends, loans, issued>>
    /\ Ok

DeleteEntry(r) ==
  \E e \in DOMAIN ledger :
    /\ ledger' = Drop(ledger, e)
    /\ Open(r, "ok", "edit", FALSE, e[2])
    /\ UNCHANGED <<bills, dividends, loans, issued>>
    /\ Ok

----------------------------------------------------------------------------
Crash ==
  /\ InFlight # {}
  /\ Fault
  /\ req' = [r \in Requests |->
               IF r \in InFlight THEN Ended(r, "lost") ELSE req[r]]
  /\ UNCHANGED <<bills, dividends, loans, issued, ledger>>

\* Every request has been answered: the model, not the server, stops.
Finished ==
  /\ \A r \in Requests : req[r].pc \in Answered
  /\ UNCHANGED vars

Init ==
  /\ bills = [b \in Opening \cap Bills |-> NewBill(None)]
  /\ dividends = [d \in Opening \cap Dividends |-> FALSE]
  /\ loans = [l \in {} |-> None]
  /\ issued = Opening
  /\ ledger = [e \in {} |-> Fresh]
  /\ req = [r \in Requests |-> Fresh]
  /\ faults = 0

Serve(r) ==
  \/ ApplyList(r) \/ ApplyMonth(r) \/ Post(r) \/ PostSaving(r) \/ CreditSaving(r)
  \/ ApplyDone(r)
  \/ CreateBill(r) \/ UpdateBillRead(r) \/ UpdateBillWrite(r) \/ DeleteBill(r)
  \/ CreateLoan(r) \/ UpdateLoanRead(r) \/ UpdateLoanWrite(r) \/ DeleteLoan(r)
  \/ BillLoan(r) \/ FindLoanBill(r) \/ InsertLoanBill(r)
  \/ CreateDividend(r) \/ ApplyDividend(r) \/ InsertIncome(r) \/ MarkApplied(r)
  \/ DeleteDividend(r)
  \/ UpdateEntry(r) \/ DeleteEntry(r)

Next == (\E r \in Requests : Serve(r)) \/ Crash \/ Finished

Spec == Init /\ [][Next]_vars

----------------------------------------------------------------------------
\* Rows are well formed, every entry names the request and the item it came
\* from, and what a request has posted is no longer to be done.
TypeOK ==
  /\ issued \subseteq Items
  /\ DOMAIN bills \subseteq issued \cap Bills
  /\ bills \in [DOMAIN bills -> Bill]
  /\ DOMAIN dividends \subseteq issued \cap Dividends
  /\ dividends \in [DOMAIN dividends -> BOOLEAN]
  /\ DOMAIN loans \subseteq issued \cap Loans
  /\ loans \in [DOMAIN loans -> Names]
  /\ DOMAIN ledger \subseteq Requests \X (Bills \cup Dividends)
  /\ ledger \in [DOMAIN ledger -> Entry]
  /\ req \in [Requests -> Request]
  /\ \A e \in DOMAIN ledger : e[2] \in req[e[1]].posted
  /\ \A r \in Requests : req[r].todo \cap req[r].posted = {}
  /\ faults \in 0..MaxFaults

\* Nobody has changed or deleted an entry of this item by hand, nor linked one
\* to it.
Untouched(item) ==
  \A r \in Requests :
    req[r].op = "edit" => req[r].item # item /\ item \notin req[r].listed

\* Applying a month again posts nothing twice, also when the first request
\* failed half way, lost its client or was cut off by a crash: two entries of
\* one bill in one month come from requests that overlapped.
RepeatPostsOnce ==
  \A e, f \in DOMAIN ledger :
    /\ e[2] = f[2]
    /\ e[2] \in Bills
    /\ Untouched(e[2])
    /\ ledger[e].month = ledger[f].month
    => e[1] \notin req[f[1]].before

\* An answer that a month was applied is true: each active bill it listed has
\* an entry there.  (Bills of kind saving excepted: the entry another request
\* was rolling back may have been taken for theirs.)
AnswerIsComplete ==
  \A r \in Requests :
    At(r, "apply", "ok") =>
      \A b \in req[r].listed \ Savings :
        Untouched(b) =>
          \E e \in DOMAIN ledger :
            ledger[e] = [month |-> req[r].month, link |-> b]

\* A dividend marked as applied has been posted: no failure between the two
\* statements leaves a mark without income.
AppliedIsPosted ==
  \A d \in DOMAIN dividends :
    dividends[d] => \E r \in Requests : d \in req[r].posted

\* Once a request has marked a dividend, no later request posts it again; a
\* retry after a failed mark does.
MarkedNotRepeated ==
  \A q, r \in Requests :
    req[q].marked /\ q \in req[r].before => req[q].item \notin req[r].posted

\* No request gives this bill or loan another title or name than this one.
KeepsTitle(item, title) ==
  \A r \in Requests :
    req[r].op \in {"bill", "asset"} /\ req[r].item = item => req[r].row.title = title

\* While the bill that a request made for a loan is there, and neither of the
\* two is renamed, no later request makes the loan another one, unless a
\* statement failed.
LoanBilledOnce ==
  faults = 0 =>
    \A q, r \in Requests :
      /\ {req[q].op, req[r].op} = {"loan"}
      /\ req[q].item = req[r].item
      /\ req[q].posted \cap DOMAIN bills # {}
      /\ req[r].posted # {}
      /\ \A i \in {req[q].item} \cup req[q].posted : KeepsTitle(i, req[q].row.title)
      => q \notin req[r].before

\* Income is posted with its mark and not again after it.
DividendsOnce == AppliedIsPosted /\ MarkedNotRepeated

\* What repeats a posting is overlap, or a new name: neither a month applied
\* again nor a loan billed again as it was bills anything twice.
BillsOnce == RepeatPostsOnce /\ LoanBilledOnce
=============================================================================
