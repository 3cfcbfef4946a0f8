---------------------------- MODULE PostingProofs ----------------------------
(***************************************************************************)
(* Proofs about Posting, for every set of bills, dividends, loans, months  *)
(* and requests and any number of failures.  Nothing keeps two requests    *)
(* that overlap from posting the same bill: what is proved is that nothing *)
(* else does.  A request that applies a month has skipped every bill whose *)
(* entry was there when it looked, and whoever posts one later was not     *)
(* answered before it began.                                               *)
(***************************************************************************)
EXTENDS Posting, TLAPS

\* What a goroutine holds fits its operation and step.
LocalOK(r) ==
  /\ req[r].pc = "idle" => req[r] = Fresh
  /\ req[r].op = "none" => req[r].pc = "idle"
  /\ req[r].op = "apply" => req[r].pc \in {"month", "post", "credit"} \cup Answered
  /\ req[r].op = "bill" => req[r].pc \in {"write"} \cup Answered
  /\ req[r].op = "loan" => req[r].pc \in {"look", "bill"} \cup Answered
  /\ req[r].op = "asset" => req[r].pc \in {"write"} \cup Answered
  /\ req[r].op = "dividend" => req[r].pc \in {"entry", "mark"} \cup Answered
  /\ req[r].op = "edit" => req[r].pc \in Answered

\* Only requests that have been answered began before it.
BeforeOK(r) == \A q \in req[r].before : q # r /\ req[q].pc \in Answered

\* What it holds fits what it has posted: only bills that were listed, or the
\* one dividend, and a mark only after the entry.
HoldsOK(r) ==
  /\ req[r].pc \notin {"post", "credit"} => req[r].todo = {}
  /\ req[r].op = "apply" => req[r].posted \subseteq Bills
  /\ req[r].op = "dividend" =>
       req[r].item \in Dividends \cap issued /\ req[r].posted \subseteq {req[r].item}
  /\ req[r].op = "loan" =>
       /\ req[r].item \in Loans \cap issued /\ req[r].row.title \in Names
       /\ req[r].posted \subseteq Bills \cap issued
  /\ req[r].op \notin {"apply", "dividend", "loan"} => req[r].posted = {}
  /\ req[r].pc \in {"month", "entry", "look", "bill"} => req[r].posted = {}
  /\ req[r].pc = "mark" => req[r].item \in req[r].posted
  /\ req[r].pc = "credit" => req[r].item \in req[r].posted \cap Savings
  /\ req[r].op = "bill" => req[r].item \in Bills
  /\ req[r].op = "asset" => req[r].item \in Loans /\ req[r].row.title \in Names
  /\ req[r].marked =>
       /\ req[r].op = "dividend" /\ req[r].pc = "ok"
       /\ req[r].item \in DOMAIN dividends => dividends[req[r].item]

\* An entry is linked to the bill it was posted for and to no other, until
\* somebody edits an entry of the bill or links one to it.
Links ==
  \A e \in DOMAIN ledger, b \in Bills :
    Untouched(b) => (ledger[e].link = b <=> e[2] = b)

\* A bill that is still to be posted has no entry there that an earlier
\* request has posted.
TodoOK(r) ==
  \A e \in DOMAIN ledger :
    /\ e[2] \in req[r].todo
    /\ Untouched(e[2])
    /\ ledger[e].month = req[r].month
    => e[1] \notin req[r].before

\* The bill b has an entry in the month m.
HasEntry(b, m) == \E e \in DOMAIN ledger : ledger[e] = [month |-> m, link |-> b]

\* A bill that was listed is still to be posted, or has its entry.
ListedOK(r) ==
  req[r].op = "apply" /\ req[r].pc \in {"post", "credit", "ok"} =>
    \A b \in req[r].listed \ Savings :
      b \in req[r].todo \/ (Untouched(b) => HasEntry(b, req[r].month))

\* A dividend that was marked before a request began is not its dividend.
MarkedOK(r) ==
  req[r].op = "dividend" =>
    \A q \in req[r].before : req[q].marked => req[q].item # req[r].item

\* A loan has the name that a request knew it by, and a bill made for it the
\* title, until somebody gives it another.
Named(r) ==
  req[r].op = "loan" =>
    /\ req[r].item \in DOMAIN loans /\ KeepsTitle(req[r].item, req[r].row.title) =>
         loans[req[r].item] = req[r].row.title
    /\ \A b \in req[r].posted \cap DOMAIN bills :
         KeepsTitle(b, req[r].row.title) => bills[b].title = req[r].row.title

\* Before r began q made a bill for its loan, which stands as it was made.
BillStands(q, r) ==
  /\ q \in req[r].before /\ req[q].op = "loan" /\ req[r].op = "loan"
  /\ req[q].item = req[r].item
  /\ req[q].posted \cap DOMAIN bills # {}
  /\ \A i \in {req[q].item} \cup req[q].posted : KeepsTitle(i, req[q].row.title)

\* Then r looks for that title, and makes no bill.
LoanOK(r) ==
  \A q \in Requests :
    BillStands(q, r) =>
      req[r].row.title = req[q].row.title /\ req[r].pc # "bill" /\ req[r].posted = {}

\* The inductive invariant.
PostingInv ==
  /\ TypeOK
  /\ \A r \in Requests : LocalOK(r) /\ BeforeOK(r)
  /\ \A r \in Requests : HoldsOK(r)
  /\ \A r \in Requests : Named(r)
  /\ Links
  /\ RepeatPostsOnce /\ \A r \in Requests : TodoOK(r)
  /\ \A r \in Requests : ListedOK(r)
  /\ AppliedIsPosted /\ \A r \in Requests : MarkedOK(r)
  /\ faults = 0 => \A r \in Requests : LoanOK(r)

----------------------------------------------------------------------------
Done == {q \in Requests : req[q].pc \in Answered}

\* r begins, and has posted nothing.
Begins(r) ==
  /\ req' \in [Requests -> Request]
  /\ \A x \in Requests : x # r => req'[x] = req[x]
  /\ req[r].pc = "idle" /\ req'[r].pc # "idle" /\ req'[r].op # "none"
  /\ req'[r].before = Done /\ req'[r].todo = {} /\ req'[r].posted = {}
  /\ req'[r].marked = FALSE

\* r goes on, to another step or to its answer.
Moves(r) ==
  /\ req' \in [Requests -> Request]
  /\ \A x \in Requests : x # r => req'[x] = req[x]
  /\ req[r].pc \in Working /\ req'[r].pc \in Working \cup Answered
  /\ req'[r].op = req[r].op /\ req'[r].before = req[r].before
  /\ req'[r].month = req[r].month /\ req'[r].listed = req[r].listed
  /\ req'[r].row = req[r].row
  /\ req[r].op # "apply" => req'[r].item = req[r].item

\* A request that has not begun holds nothing.
LEMMA FreshFits ==
  /\ Fresh \in Request /\ Fresh.pc = "idle" /\ Fresh.op = "none" /\ Fresh.todo = {}
  /\ Fresh.posted = {} /\ Fresh.marked = FALSE /\ Fresh.before = {}
  /\ Fresh.row \in Bill /\ Fresh.month \in Months
<1>1. (CHOOSE m \in Months : TRUE) \in Months
  BY PostingAssumption
<1>2. NewBill(None) \in Bill
  BY DEF NewBill, Bill, Titles
<1> QED
  BY <1>1, <1>2 DEF Fresh, Request

\* A request begins with what its path and body say.
LEMMA BeginFields ==
  ASSUME TypeOK, NEW r \in Requests, NEW pc \in Working \cup Answered,
         NEW op \in {"apply", "bill", "dividend", "loan", "asset", "edit"},
         NEW new \in BOOLEAN, NEW item \in Items \cup {None}, NEW month \in Months,
         NEW row \in Bill, NEW listed \in SUBSET Bills,
         Begin(r, pc, op, new, item, month, row, listed)
  PROVE  /\ Begins(r) /\ req'[r].pc = pc /\ req'[r].op = op /\ req'[r].item = item
         /\ req'[r].month = month /\ req'[r].listed = listed /\ req'[r].row = row
<1>1. req \in [Requests -> Request] /\ Done \in SUBSET Requests
  BY DEF TypeOK, Done
<1> DEFINE held == [pc |-> pc, op |-> op, new |-> new, item |-> item, month |-> month,
                    row |-> row, todo |-> {}, listed |-> listed, posted |-> {},
                    marked |-> FALSE, before |-> Done]
<1>2. /\ held \in Request /\ held.pc = pc /\ held.op = op /\ held.item = item
      /\ held.month = month /\ held.listed = listed /\ held.before = Done
      /\ held.row = row
      /\ held.todo = {} /\ held.posted = {} /\ held.marked = FALSE
  BY <1>1 DEF Request
<1>3. req' = [req EXCEPT ![r] = held] /\ req[r].pc = "idle"
  BY DEF Begin, Done
<1>4. pc # "idle" /\ op # "none"
  BY DEF Working, Answered
<1> HIDE DEF held
<1> QED
  BY <1>1, <1>2, <1>3, <1>4 DEF Begins

\* Most requests hold an item and nothing else.
LEMMA OpenFields ==
  ASSUME TypeOK, NEW r \in Requests, NEW pc \in Working \cup Answered,
         NEW op \in {"apply", "bill", "dividend", "loan", "asset", "edit"},
         NEW new \in BOOLEAN, NEW item \in Items \cup {None}, Open(r, pc, op, new, item)
  PROVE  /\ Begins(r) /\ req'[r].pc = pc /\ req'[r].op = op /\ req'[r].item = item
         /\ req'[r].listed = {}
<1> DEFINE month == Fresh.month
           row == Fresh.row
           none == {}
<1>1. month \in Months /\ none \in SUBSET Bills /\ row \in Bill
  BY FreshFits
<1>2. Begin(r, pc, op, new, item, month, row, none)
  BY DEF Open
<1>3. none = {}
  OBVIOUS
<1> HIDE DEF month, row, none
<1> QED
  BY <1>1, <1>2, <1>3, BeginFields

\* A request about a loan knows its name.
LEMMA OpenLoanFields ==
  ASSUME TypeOK, NEW r \in Requests, NEW pc \in Working \cup Answered,
         NEW op \in {"loan", "asset"}, NEW new \in BOOLEAN, NEW l \in Loans,
         NEW name \in Names, OpenLoan(r, pc, op, new, l, name)
  PROVE  /\ Begins(r) /\ req'[r].pc = pc /\ req'[r].op = op /\ req'[r].item = l
         /\ req'[r].row.title = name
<1> DEFINE month == Fresh.month
           row == NewBill(name)
           none == {}
<1>1. month \in Months /\ none \in SUBSET Bills /\ row \in Bill /\ row.title = name
  BY FreshFits DEF NewBill, Bill, Titles
<1>2. Begin(r, pc, op, new, l, month, row, none) /\ l \in Items \cup {None}
  BY DEF OpenLoan, Items
<1> HIDE DEF month, row, none
<1> QED
  BY <1>1, <1>2, BeginFields

\* A request goes on with what it holds next.
LEMMA GoFields ==
  ASSUME TypeOK, NEW r \in Requests, req[r].pc \in Working,
         NEW pc \in Working \cup Answered, NEW item \in Items \cup {None},
         NEW todo \in SUBSET Bills, NEW posted \in SUBSET Items, NEW marked \in BOOLEAN,
         Go(r, Held(r, pc, item, todo, posted, marked)),
         req[r].op # "apply" => item = req[r].item
  PROVE  /\ Moves(r) /\ req'[r].pc = pc /\ req'[r].item = item /\ req'[r].todo = todo
         /\ req'[r].posted = posted /\ req'[r].marked = marked
<1>1. req \in [Requests -> Request] /\ req[r] \in Request
  BY DEF TypeOK
<1> DEFINE held == Held(r, pc, item, todo, posted, marked)
<1>2. /\ held \in Request /\ held.pc = pc /\ held.op = req[r].op /\ held.item = item
      /\ held.month = req[r].month /\ held.listed = req[r].listed
      /\ held.row = req[r].row
      /\ held.before = req[r].before /\ held.todo = todo /\ held.posted = posted
      /\ held.marked = marked
  BY <1>1 DEF Held, Request
<1>3. req' = [req EXCEPT ![r] = held]
  BY DEF Go
<1> HIDE DEF held
<1> QED
  BY <1>1, <1>2, <1>3 DEF Moves

\* An answer drops what was to be done and keeps the rest.
LEMMA ReplyFields ==
  ASSUME TypeOK, NEW r \in Requests, req[r].pc \in Working, NEW pc \in Answered,
         Reply(r, pc)
  PROVE  /\ Moves(r) /\ req'[r].pc = pc /\ req'[r].item = req[r].item
         /\ req'[r].todo = {} /\ req'[r].posted = req[r].posted
         /\ req'[r].marked = req[r].marked
<1>1. /\ req[r].item \in Items \cup {None} /\ req[r].posted \in SUBSET Items
      /\ req[r].marked \in BOOLEAN
  BY DEF TypeOK, Request
<1> QED
  BY <1>1, GoFields DEF Reply, Ended

\* Before it is answered nothing of a dividend or bill is marked.
LEMMA GoOn ==
  ASSUME TypeOK, NEW r \in Requests, req[r].pc \in Working,
         NEW pc \in Working \cup Answered, NEW item \in Items \cup {None},
         NEW todo \in SUBSET Bills, NEW posted \in SUBSET Items,
         Go(r, Held(r, pc, item, todo, posted, FALSE)),
         req[r].op # "apply" => item = req[r].item
  PROVE  /\ Moves(r) /\ req'[r].pc = pc /\ req'[r].item = item /\ req'[r].todo = todo
         /\ req'[r].posted = posted /\ req'[r].marked = FALSE
<1> DEFINE marked == FALSE
<1>1. marked \in BOOLEAN /\ Go(r, Held(r, pc, item, todo, posted, marked))
  OBVIOUS
<1>2. marked = FALSE
  OBVIOUS
<1> HIDE DEF marked
<1> QED
  BY <1>1, <1>2, GoFields

----------------------------------------------------------------------------
\* What a step may do to a bill or a loan: a row is patched as the request
\* says, or made under an identifier nobody had.
BillRows(r) ==
  \A b \in DOMAIN bills' :
    \/ b \in DOMAIN bills /\ bills'[b] = bills[b]
    \/ /\ b \in DOMAIN bills /\ bills'[b] = req'[r].row
       /\ req'[r].op = "bill" /\ req'[r].item = b
    \/ b \notin issued /\ (b \in req'[r].posted => bills'[b] = req'[r].row)

LoanRows(r) ==
  \A l \in DOMAIN loans' :
    \/ l \in DOMAIN loans /\ loans'[l] = loans[l]
    \/ /\ l \in DOMAIN loans /\ loans'[l] = req'[r].row.title
       /\ req'[r].op = "asset" /\ req'[r].item = l
    \/ /\ l \notin issued /\ loans'[l] = req'[r].row.title
       /\ req'[r].op = "loan" /\ req'[r].item = l

\* What a step may do to the rows: an identifier that was handed out comes
\* back nowhere, a mark is not taken back, and comes after its entry.
Rows(r) ==
  /\ issued \subseteq issued' /\ issued' \subseteq Items
  /\ DOMAIN bills' \subseteq issued' \cap Bills /\ bills' \in [DOMAIN bills' -> Bill]
  /\ DOMAIN dividends' \subseteq issued' \cap Dividends
  /\ dividends' \in [DOMAIN dividends' -> BOOLEAN]
  /\ DOMAIN loans' \subseteq issued' \cap Loans /\ loans' \in [DOMAIN loans' -> Names]
  /\ BillRows(r) /\ LoanRows(r)
  /\ \A d \in DOMAIN dividends' :
       d \in issued => d \in DOMAIN dividends /\ (dividends[d] => dividends'[d])
  /\ \A d \in DOMAIN dividends' :
       dividends'[d] => \/ d \in DOMAIN dividends /\ dividends[d]
                        \/ d \in req'[r].posted
  /\ faults' \in 0..MaxFaults /\ (faults' = 0 => faults = 0)

\* The entry e is inserted by r.
Inserted(r, e) ==
  /\ e \notin DOMAIN ledger /\ e[1] = r /\ e[2] \in req[r].todo \cup Dividends
  /\ ledger'[e].link \in {e[2], None}
  /\ e[2] \in Bills => ledger'[e].link = e[2] /\ ledger'[e].month = req[r].month

\* What it may do to the ledger: only an entry of a saving is rolled back.
Entries(r) ==
  /\ DOMAIN ledger' \subseteq Requests \X (Bills \cup Dividends)
  /\ ledger' \in [DOMAIN ledger' -> Entry]
  /\ \A e \in DOMAIN ledger' :
       \/ e \in DOMAIN ledger /\ ledger'[e] = ledger[e]
       \/ /\ e \in DOMAIN ledger /\ ~Untouched(e[2])'
          /\ \A b \in Bills : Untouched(b)' => ledger'[e].link # b
       \/ Inserted(r, e)
  /\ \A e \in DOMAIN ledger :
       \/ e \in DOMAIN ledger' /\ ledger'[e] = ledger[e]
       \/ ~Untouched(e[2])' \/ e[2] \in Savings
  /\ \A e \in DOMAIN ledger' : e[1] = r => e[2] \in req'[r].posted

\* What a request about a loan may do: read the name, then find no bill of that
\* title, then make one.
LoanStep(r) ==
  req'[r].op = "loan" =>
    /\ Begins(r) =>
         \/ req'[r].item \notin issued
         \/ /\ req'[r].item \in DOMAIN loans /\ req'[r].pc = "look"
            /\ req'[r].row.title = loans[req'[r].item]
    /\ Moves(r) =>
         \/ req'[r].posted = req[r].posted /\ req'[r].pc # "bill"
         \/ /\ req[r].pc = "bill" /\ req'[r].pc # "bill"
            /\ req'[r].posted \cap issued = {}
         \/ /\ req'[r].posted = {}
            /\ faults' = 0 => \A b \in DOMAIN bills : bills[b].title # req[r].row.title

\* What r holds afterwards.
Holds(r) ==
  /\ LocalOK(r)' /\ HoldsOK(r)' /\ LoanStep(r)
  /\ req'[r].todo \cap req'[r].posted = {}
  /\ req[r].posted \cap Dividends \subseteq req'[r].posted
  /\ \A e \in DOMAIN ledger :
       /\ e[2] \in req'[r].todo /\ Untouched(e[2])
       /\ ledger[e].month = req'[r].month
       => e[1] \notin req'[r].before
  /\ req'[r].op = "apply" /\ req'[r].pc \in {"post", "credit", "ok"} =>
       \A b \in req'[r].listed \ Savings :
         \/ b \in req'[r].todo
         \/ Untouched(b) => HasEntry(b, req'[r].month)
         \/ HasEntry(b, req[r].month)'
  /\ Begins(r) /\ req'[r].op = "dividend" =>
       \/ req'[r].item \notin issued
       \/ req'[r].item \in DOMAIN dividends /\ ~dividends[req'[r].item]

Step(r) == (Begins(r) \/ Moves(r)) /\ Rows(r) /\ Entries(r) /\ Holds(r)

\* What a step leaves as it is.
LEMMA StepFacts ==
  ASSUME PostingInv, NEW r \in Requests, Begins(r) \/ Moves(r)
  PROVE  /\ TypeOK /\ req \in [Requests -> Request] /\ req' \in [Requests -> Request]
         /\ \A x \in Requests : x # r => req'[x] = req[x]
         /\ \A x \in Requests : req[x].op # "none" =>
              req'[x].op = req[x].op /\ req'[x].before = req[x].before
         /\ \A x \in Requests : r \notin req[x].before /\ r \notin req'[x].before
         /\ \A x \in Requests : BeforeOK(x)'
         /\ \A x \in Requests : req[x].before \subseteq Requests
         /\ \A x \in Requests : req'[x].before \subseteq Requests
         /\ \A b \in Items : Untouched(b)' => Untouched(b)
         /\ \A i \in Items : \A t \in Titles : KeepsTitle(i, t)' => KeepsTitle(i, t)
<1>1. /\ TypeOK /\ req \in [Requests -> Request] /\ req' \in [Requests -> Request]
      /\ \A x \in Requests : x # r => req'[x] = req[x]
      /\ \A x \in Requests : req[x].before \subseteq Requests
      /\ \A x \in Requests : req'[x].before \subseteq Requests
  BY DEF PostingInv, TypeOK, Begins, Moves, Request
<1>2. req[r].pc \notin Answered
  BY DEF Begins, Moves, Answered, Working
<1>3. req[r].pc = "idle" => req[r].op = "none"
  BY FreshFits DEF PostingInv, LocalOK
<1>4. \A x \in Requests : req[x].op # "none" =>
        req'[x].op = req[x].op /\ req'[x].before = req[x].before
  BY <1>1, <1>3 DEF Begins, Moves
<1>5. \A x \in Requests : r \notin req[x].before
  BY <1>2 DEF PostingInv, BeforeOK
<1>6. \A x \in Requests : r \notin req'[x].before
  BY <1>1, <1>2, <1>5 DEF Begins, Moves, Done
<1>7. ASSUME NEW x \in Requests, NEW q \in req'[x].before
      PROVE  q # x /\ req'[q].pc \in Answered
  <2>1. q # r /\ q \in Requests /\ req'[q] = req[q]
    BY <1>1, <1>6, <1>7
  <2>2. CASE req'[x].before = req[x].before
    BY <1>7, <2>1, <2>2 DEF PostingInv, BeforeOK
  <2>3. CASE req'[x].before = Done /\ x = r
    BY <1>7, <2>1, <2>3 DEF Done
  <2> QED
    BY <1>1, <2>2, <2>3 DEF Begins, Moves
<1>8. ASSUME NEW b \in Items, Untouched(b)' PROVE Untouched(b)
  <2> SUFFICES ASSUME NEW x \in Requests, req[x].op = "edit",
                      req[x].item = b \/ b \in req[x].listed
               PROVE  FALSE
    BY DEF Untouched
  <2>1. req[x].pc \in Answered
    BY DEF PostingInv, LocalOK
  <2>2. x # r
    BY <2>1, <1>2
  <2> QED
    BY <1>1, <1>8, <2>2 DEF Untouched
<1>9. ASSUME NEW i \in Items, NEW t \in Titles, KeepsTitle(i, t)' PROVE KeepsTitle(i, t)
  <2> SUFFICES ASSUME NEW x \in Requests, req[x].op \in {"bill", "asset"}, req[x].item = i
               PROVE  req[x].row.title = t
    BY DEF KeepsTitle
  <2>1. /\ req'[x].op = req[x].op /\ req'[x].row = req[x].row
        /\ req'[x].item = req[x].item
    BY <1>1, <1>3 DEF Begins, Moves
  <2> QED
    BY <1>9, <2>1 DEF KeepsTitle
<1> QED
  BY <1>1, <1>4, <1>5, <1>6, <1>7, <1>8, <1>9 DEF BeforeOK

\* The rows, and what the goroutines hold.
LEMMA StepRows ==
  ASSUME PostingInv, NEW r \in Requests, Step(r)
  PROVE  TypeOK' /\ \A x \in Requests : LocalOK(x)' /\ HoldsOK(x)'
<1>1. /\ TypeOK /\ req' \in [Requests -> Request]
      /\ \A x \in Requests : x # r => req'[x] = req[x]
  BY StepFacts DEF Step
<1>2. Rows(r) /\ Entries(r) /\ LocalOK(r)' /\ HoldsOK(r)'
      /\ req'[r].todo \cap req'[r].posted = {}
  BY DEF Step, Holds
<1>3. ASSUME NEW e \in DOMAIN ledger' PROVE e[2] \in req'[e[1]].posted
  <2>1. e[1] \in Requests
    BY <1>2, <1>3 DEF Entries
  <2>2. CASE e[1] = r
    BY <1>2, <1>3, <2>2 DEF Entries
  <2>3. CASE e[1] # r
    <3>1. e \in DOMAIN ledger
      BY <1>2, <1>3, <2>3 DEF Entries, Inserted
    <3> QED
      BY <3>1, <2>1, <2>3, <1>1 DEF TypeOK
  <2> QED
    BY <2>2, <2>3
<1>4. \A x \in Requests : req'[x].todo \cap req'[x].posted = {}
  BY <1>1, <1>2 DEF TypeOK
<1>5. TypeOK'
  BY <1>1, <1>2, <1>3, <1>4 DEF TypeOK, Rows, Entries
<1>6. ASSUME NEW x \in Requests, x # r PROVE LocalOK(x)' /\ HoldsOK(x)'
  <2>1. LocalOK(x) /\ HoldsOK(x) /\ req'[x] = req[x]
    BY <1>1, <1>6 DEF PostingInv
  <2>2. LocalOK(x)'
    BY <2>1 DEF LocalOK
  <2>3. HoldsOK(x)'
    <3>1. req[x].marked =>
            /\ req[x].op = "dividend" /\ req[x].pc = "ok"
            /\ req[x].item \in DOMAIN dividends' => dividends'[req[x].item]
      <4> SUFFICES ASSUME req[x].marked, req[x].item \in DOMAIN dividends'
                   PROVE  dividends'[req[x].item]
        BY <2>1 DEF HoldsOK
      <4>1. req[x].item \in issued
        BY <2>1 DEF HoldsOK
      <4>2. req[x].item \in DOMAIN dividends /\ dividends[req[x].item]
        BY <4>1, <2>1, <1>2 DEF Rows, HoldsOK
      <4> QED
        BY <4>1, <4>2, <1>2 DEF Rows
    <3> QED
      BY <2>1, <3>1, <1>2 DEF HoldsOK, Rows
  <2> QED
    BY <2>2, <2>3
<1> QED
  BY <1>2, <1>5, <1>6

\* The entries: whoever posts a bill has not seen an earlier entry of it.
LEMMA StepEntries ==
  ASSUME PostingInv, NEW r \in Requests, Step(r)
  PROVE  /\ Links' /\ RepeatPostsOnce'
         /\ \A x \in Requests : TodoOK(x)' /\ ListedOK(x)'
<1>1. /\ TypeOK /\ req \in [Requests -> Request] /\ req' \in [Requests -> Request]
      /\ \A x \in Requests : x # r => req'[x] = req[x]
      /\ \A x \in Requests : req[x].op # "none" =>
           req'[x].op = req[x].op /\ req'[x].before = req[x].before
      /\ \A x \in Requests : r \notin req[x].before /\ r \notin req'[x].before
      /\ \A b \in Items : Untouched(b)' => Untouched(b)
  BY StepFacts DEF Step
<1>2. Entries(r) /\ Holds(r)
  BY DEF Step
<1>3. /\ \A e \in DOMAIN ledger : e[1] \in Requests /\ e[2] \in Items
      /\ \A e \in DOMAIN ledger' : e[1] \in Requests /\ e[2] \in Items
  BY <1>1, <1>2 DEF TypeOK, Entries, Items
<1>4. \A e \in DOMAIN ledger' : e[2] \in Bills /\ Untouched(e[2])' =>
        \/ e \in DOMAIN ledger /\ ledger'[e] = ledger[e] /\ Untouched(e[2])
        \/ Inserted(r, e)
  BY <1>1, <1>2, <1>3 DEF Entries
<1>5. \A e \in DOMAIN ledger : req[e[1]].op # "none"
  <2> SUFFICES ASSUME NEW e \in DOMAIN ledger, req[e[1]].op = "none" PROVE FALSE
    OBVIOUS
  <2>1. LocalOK(e[1]) /\ e[2] \in req[e[1]].posted
    BY <1>1, <1>3 DEF PostingInv, TypeOK
  <2>2. req[e[1]].posted = {}
    BY <2>1, FreshFits DEF LocalOK
  <2> QED
    BY <2>1, <2>2
<1>6. Links'
  <2> SUFFICES ASSUME NEW e \in DOMAIN ledger', NEW b \in Bills, Untouched(b)'
               PROVE  ledger'[e].link = b <=> e[2] = b
    BY DEF Links, Untouched
  <2>1. Untouched(b) /\ b # None
    BY <1>1, PostingAssumption DEF Items
  <2>2. CASE e \in DOMAIN ledger /\ ledger'[e] = ledger[e]
    BY <2>1, <2>2 DEF PostingInv, Links
  <2>3. CASE /\ ~Untouched(e[2])'
             /\ \A c \in Bills : Untouched(c)' => ledger'[e].link # c
    <3>1. e[2] # b
      BY <2>3 DEF Untouched
    <3> QED
      BY <2>3, <3>1
  <2>4. CASE Inserted(r, e)
    BY <2>1, <2>4 DEF Inserted
  <2> QED
    BY <1>2, <2>2, <2>3, <2>4 DEF Entries
<1>7. ASSUME NEW b \in Bills, NEW e \in DOMAIN ledger', NEW f \in DOMAIN ledger',
             e[2] = b, f[2] = b, Untouched(b)', ledger'[e].month = ledger'[f].month
      PROVE  e[1] \notin req'[f[1]].before
  <2>1. CASE Inserted(r, e)
    BY <2>1, <1>1, <1>3 DEF Inserted
  <2>2. CASE /\ e \in DOMAIN ledger /\ ledger'[e] = ledger[e] /\ Untouched(b)
             /\ f \in DOMAIN ledger /\ ledger'[f] = ledger[f]
    <3>1. e[1] \notin req[f[1]].before
      BY <1>7, <2>2 DEF PostingInv, RepeatPostsOnce
    <3> QED
      BY <2>2, <3>1, <1>1, <1>3, <1>5
  <2>3. CASE /\ e \in DOMAIN ledger /\ ledger'[e] = ledger[e] /\ Untouched(b)
             /\ Inserted(r, f)
    <3>1. /\ f[1] = r /\ b \in req[r].todo /\ ledger[e].month = req[r].month
          /\ b \notin Dividends
      BY <1>7, <2>3, PostingAssumption DEF Inserted
    <3>2. e[1] \notin req[r].before
      BY <1>7, <2>3, <3>1 DEF PostingInv, TodoOK
    <3>3. req[r].op # "none"
      BY <3>1, <1>1, FreshFits DEF PostingInv, LocalOK
    <3> QED
      BY <3>1, <3>2, <3>3, <1>1
  <2> QED
    BY <1>4, <1>7, <2>1, <2>2, <2>3
<1>8. RepeatPostsOnce'
  BY <1>7 DEF RepeatPostsOnce, Untouched
<1>9. ASSUME NEW x \in Requests PROVE TodoOK(x)'
  <2> SUFFICES ASSUME NEW e \in DOMAIN ledger', e[2] \in req'[x].todo, Untouched(e[2])',
                      ledger'[e].month = req'[x].month
               PROVE  e[1] \notin req'[x].before
    BY DEF TodoOK, Untouched
  <2>1. e[2] \in Bills
    BY <1>1 DEF Request
  <2>2. CASE Inserted(r, e)
    BY <2>2, <1>1 DEF Inserted
  <2>3. CASE e \in DOMAIN ledger /\ ledger'[e] = ledger[e] /\ Untouched(e[2])
    <3>1. CASE x = r
      BY <2>3, <3>1, <1>2 DEF Holds
    <3>2. CASE x # r
      BY <2>3, <3>2, <1>1 DEF PostingInv, TodoOK
    <3> QED
      BY <3>1, <3>2
  <2> QED
    BY <2>1, <2>2, <2>3, <1>4
<1>10. ASSUME NEW b \in Bills \ Savings, NEW m, Untouched(b)', HasEntry(b, m)
       PROVE  \E e \in DOMAIN ledger' : ledger'[e] = [month |-> m, link |-> b]
  <2>1. PICK e \in DOMAIN ledger : ledger[e] = [month |-> m, link |-> b]
    BY <1>10 DEF HasEntry
  <2>2. e[2] = b
    <3>1. ledger[e].link = b /\ Untouched(b)
      BY <2>1, <1>1, <1>10 DEF Items
    <3> QED
      BY <3>1 DEF PostingInv, Links
  <2>3. e \in DOMAIN ledger' /\ ledger'[e] = ledger[e]
    BY <1>2, <1>10, <2>2 DEF Entries
  <2> QED
    BY <2>1, <2>3
<1>11. ASSUME NEW x \in Requests PROVE ListedOK(x)'
  <2> SUFFICES ASSUME req'[x].op = "apply", req'[x].pc \in {"post", "credit", "ok"},
                      NEW b \in req'[x].listed \ Savings, b \notin req'[x].todo,
                      Untouched(b)'
               PROVE  \E e \in DOMAIN ledger' :
                        ledger'[e] = [month |-> req'[x].month, link |-> b]
    BY DEF ListedOK, HasEntry, Untouched
  <2>1. b \in Bills \ Savings /\ b \in Items
    BY <1>1 DEF Request, Items
  <2>2. Untouched(b)
    BY <2>1, <1>1
  <2>3. CASE x = r
    <3>1. (Untouched(b) => HasEntry(b, req'[r].month)) \/ HasEntry(b, req[r].month)'
      BY <2>3, <1>2 DEF Holds
    <3> QED
      BY <3>1, <2>1, <2>2, <2>3, <1>10 DEF HasEntry
  <2>4. CASE x # r
    <3>1. HasEntry(b, req[x].month) /\ req'[x] = req[x]
      BY <2>2, <2>4, <1>1 DEF PostingInv, ListedOK
    <3> QED
      BY <3>1, <2>1, <1>10
  <2> QED
    BY <2>3, <2>4
<1> QED
  BY <1>6, <1>8, <1>9, <1>11

\* The dividends: a mark comes after its entry, and is never taken back.
LEMMA StepDividends ==
  ASSUME PostingInv, NEW r \in Requests, Step(r)
  PROVE  AppliedIsPosted' /\ \A x \in Requests : MarkedOK(x)'
<1>1. /\ TypeOK /\ req \in [Requests -> Request] /\ req' \in [Requests -> Request]
      /\ \A x \in Requests : x # r => req'[x] = req[x]
      /\ \A x \in Requests : req[x].op # "none" =>
           req'[x].op = req[x].op /\ req'[x].before = req[x].before
      /\ \A x \in Requests : r \notin req[x].before /\ r \notin req'[x].before
      /\ \A x \in Requests : req'[x].before \subseteq Requests
      /\ Begins(r) \/ Moves(r)
  BY StepFacts DEF Step
<1>2. Rows(r) /\ Holds(r)
  BY DEF Step
<1>3. AppliedIsPosted'
  <2> SUFFICES ASSUME NEW d \in DOMAIN dividends', dividends'[d]
               PROVE  \E x \in Requests : d \in req'[x].posted
    BY DEF AppliedIsPosted
  <2>1. d \in Dividends
    BY <1>2 DEF Rows
  <2>2. CASE d \in DOMAIN dividends /\ dividends[d]
    <3>1. PICK x \in Requests : d \in req[x].posted
      BY <2>2 DEF PostingInv, AppliedIsPosted
    <3>2. d \in req'[x].posted
      BY <3>1, <2>1, <1>1, <1>2 DEF Holds
    <3> QED
      BY <3>2
  <2> QED
    BY <2>2, <1>2 DEF Rows
<1>4. ASSUME NEW x \in Requests PROVE MarkedOK(x)'
  <2> SUFFICES ASSUME req'[x].op = "dividend", NEW q \in req'[x].before, req'[q].marked
               PROVE  req'[q].item # req'[x].item
    BY DEF MarkedOK
  <2>1. q \in Requests /\ q # r /\ req'[q] = req[q] /\ req[q].marked
    BY <1>1
  <2>2. CASE x # r \/ Moves(r)
    <3>1. req[x].op # "none" /\ req[x].op = "dividend" /\ req'[x].item = req[x].item
      BY <2>2, <1>1 DEF Moves
    <3>2. q \in req[x].before
      BY <3>1, <1>1
    <3> QED
      BY <3>1, <3>2, <2>1 DEF PostingInv, MarkedOK
  <2>3. CASE x = r /\ Begins(r)
    <3>1. /\ req[q].item \in issued
          /\ req[q].item \in DOMAIN dividends => dividends[req[q].item]
      BY <2>1 DEF PostingInv, HoldsOK
    <3>2. \/ req'[r].item \notin issued
          \/ req'[r].item \in DOMAIN dividends /\ ~dividends[req'[r].item]
      BY <2>3, <1>2 DEF Holds
    <3> QED
      BY <3>1, <3>2, <2>1, <2>3
  <2> QED
    BY <2>2, <2>3, <1>1
<1> QED
  BY <1>3, <1>4

\* The loans: their names and the titles of their bills change as requests say.
LEMMA StepNamed ==
  ASSUME PostingInv, NEW r \in Requests, Step(r)
  PROVE  \A x \in Requests : Named(x)'
<1>1. /\ TypeOK /\ req \in [Requests -> Request] /\ req' \in [Requests -> Request]
      /\ \A x \in Requests : x # r => req'[x] = req[x]
      /\ \A i \in Items : \A t \in Titles : KeepsTitle(i, t)' => KeepsTitle(i, t)
      /\ Begins(r) \/ Moves(r)
  BY StepFacts DEF Step
<1>2. /\ LoanRows(r) /\ BillRows(r) /\ LoanStep(r) /\ HoldsOK(r)'
      /\ DOMAIN bills' \subseteq Bills
  BY DEF Step, Rows, Holds
<1>3. ASSUME NEW x \in Requests PROVE Named(x)'
  <2> SUFFICES ASSUME req'[x].op = "loan" PROVE Named(x)'
    BY DEF Named
  <2>1. CASE x # r \/ Moves(r)
    <3>1. /\ req[x].op = "loan" /\ req'[x].item = req[x].item /\ req'[x].row = req[x].row
      BY <2>1, <1>1 DEF Moves
    <3>0. PICK l \in Items, t \in Titles : l = req[x].item /\ t = req[x].row.title
      BY <3>1 DEF PostingInv, HoldsOK, Items, Titles
    <3>2. l \in issued /\ Named(x) /\ req[x].posted \subseteq issued
      BY <3>0, <3>1 DEF PostingInv, HoldsOK
    <3>3. ASSUME l \in DOMAIN loans', KeepsTitle(l, t)' PROVE loans'[l] = t
      <4>1. KeepsTitle(l, t)
        BY <1>1, <3>2, <3>3
      <4>2. CASE l \in DOMAIN loans /\ loans'[l] = loans[l]
        BY <3>0, <3>1, <3>2, <4>1, <4>2 DEF Named
      <4>3. CASE /\ loans'[l] = req'[r].row.title /\ req'[r].op = "asset"
                 /\ req'[r].item = l
        BY <3>3, <4>3 DEF KeepsTitle
      <4> QED
        BY <1>2, <3>2, <3>3, <4>2, <4>3 DEF LoanRows
    <3>4. ASSUME NEW b \in req'[x].posted, b \in DOMAIN bills', KeepsTitle(b, t)'
          PROVE  bills'[b].title = t
      <4>1. KeepsTitle(b, t)
        BY <1>1, <1>2, <3>2, <3>4 DEF Items
      <4>2. CASE b \in req[x].posted
        <5>1. CASE b \in DOMAIN bills /\ bills'[b] = bills[b]
          BY <3>0, <3>1, <3>2, <4>1, <4>2, <5>1 DEF Named
        <5>2. CASE bills'[b] = req'[r].row /\ req'[r].op = "bill" /\ req'[r].item = b
          BY <3>4, <5>2 DEF KeepsTitle
        <5> QED
          BY <1>2, <3>2, <3>4, <4>2, <5>1, <5>2 DEF BillRows
      <4>3. CASE b \notin req[x].posted
        <5>1. x = r /\ b \notin issued
          BY <2>1, <1>1, <1>2, <3>4, <4>3 DEF LoanStep
        <5>2. bills'[b] = req'[r].row
          BY <5>1, <1>2, <1>1, <3>4 DEF BillRows, TypeOK
        <5> QED
          BY <5>1, <5>2, <3>0, <3>1
      <4> QED
        BY <4>2, <4>3
    <3> QED
      BY <3>0, <3>1, <3>3, <3>4 DEF Named, KeepsTitle
  <2>2. CASE x = r /\ Begins(r)
    <3> DEFINE l == req'[r].item
    <3>1. req'[r].posted = {}
      BY <2>2 DEF Begins
    <3>2. ASSUME l \in DOMAIN loans' PROVE loans'[l] = req'[r].row.title
      <4>1. CASE l \notin issued
        BY <1>1, <1>2, <3>2, <4>1 DEF LoanRows, TypeOK
      <4>2. CASE l \in DOMAIN loans /\ req'[r].row.title = loans[l]
        BY <1>1, <1>2, <2>2, <3>2, <4>2 DEF LoanRows, TypeOK
      <4> QED
        BY <1>2, <2>2, <4>1, <4>2 DEF LoanStep
    <3> QED
      BY <2>2, <3>1, <3>2 DEF Named
  <2> QED
    BY <2>1, <2>2, <1>1
<1> QED
  BY <1>3

\* Without failures a request that looks for a standing bill finds it.
LEMMA StepLoans ==
  ASSUME PostingInv, NEW r \in Requests, Step(r), faults' = 0
  PROVE  \A x \in Requests : LoanOK(x)'
<1>1. /\ TypeOK /\ req \in [Requests -> Request] /\ req' \in [Requests -> Request]
      /\ \A x \in Requests : x # r => req'[x] = req[x]
      /\ \A x \in Requests : req[x].op # "none" =>
           req'[x].op = req[x].op /\ req'[x].before = req[x].before
      /\ \A x \in Requests : r \notin req[x].before /\ r \notin req'[x].before
      /\ \A i \in Items : \A t \in Titles : KeepsTitle(i, t)' => KeepsTitle(i, t)
      /\ Begins(r) \/ Moves(r)
  BY StepFacts DEF Step
<1>2. /\ Rows(r) /\ BillRows(r) /\ LoanStep(r) /\ faults = 0
      /\ DOMAIN bills \subseteq issued /\ DOMAIN bills' \subseteq Bills
  BY <1>1 DEF Step, Rows, Holds, TypeOK
<1>3. SUFFICES ASSUME NEW x \in Requests, NEW q \in Requests, BillStands(q, x)'
               PROVE  /\ req'[x].row.title = req'[q].row.title
                      /\ req'[x].pc # "bill" /\ req'[x].posted = {}
  BY DEF LoanOK, BillStands, KeepsTitle
<1>4. /\ q \in req'[x].before /\ req'[q].op = "loan" /\ req'[x].op = "loan"
      /\ req'[q].item = req'[x].item /\ req'[q].posted \cap DOMAIN bills' # {}
  BY <1>3 DEF BillStands
<1>5. q # r /\ req'[q] = req[q]
  BY <1>1, <1>4
<1>6. /\ HoldsOK(q) /\ Named(q) /\ req[q].op = "loan" /\ req[q].item \in issued
      /\ req[q].item \in Items /\ req[q].posted \subseteq Bills \cap issued
      /\ req[q].row.title \in Titles
  BY <1>4, <1>5 DEF PostingInv, HoldsOK, Items, Titles
<1>7. PICK b \in req[q].posted : b \in DOMAIN bills'
  BY <1>4, <1>5
<1>8. b \in DOMAIN bills
  BY <1>2, <1>6, <1>7 DEF BillRows
<1>9. \A i \in {req[q].item} \cup req[q].posted : KeepsTitle(i, req[q].row.title)
  <2> SUFFICES ASSUME NEW i \in {req[q].item} \cup req[q].posted
               PROVE  KeepsTitle(i, req[q].row.title)
    OBVIOUS
  <2>1. PICK t \in Titles : t = req[q].row.title
    BY <1>6
  <2>2. i \in Items
    BY <1>6 DEF Items
  <2>3. KeepsTitle(i, t)'
    BY <1>3, <1>5, <2>1 DEF BillStands, KeepsTitle
  <2> QED
    BY <2>1, <2>2, <2>3, <1>1
<1>10. CASE x # r \/ Moves(r)
  <2>1. /\ req[x].op = "loan" /\ req'[x].item = req[x].item /\ req'[x].row = req[x].row
        /\ req'[x].before = req[x].before
    BY <1>10, <1>1, <1>4 DEF Moves
  <2>2. BillStands(q, x)
    BY <2>1, <1>4, <1>5, <1>6, <1>7, <1>8, <1>9 DEF BillStands
  <2>3. /\ req[x].row.title = req[q].row.title /\ req[x].pc # "bill"
        /\ req[x].posted = {}
    BY <2>2, <1>2 DEF PostingInv, LoanOK
  <2>4. CASE x # r
    BY <2>1, <2>3, <2>4, <1>1, <1>5
  <2>5. CASE x = r
    <3>1. bills[b].title = req[q].row.title
      BY <1>6, <1>7, <1>8, <1>9 DEF Named
    <3>2. req'[r].posted = req[r].posted /\ req'[r].pc # "bill"
      BY <2>3, <2>5, <3>1, <1>2, <1>4, <1>8, <1>10 DEF LoanStep
    <3> QED
      BY <2>1, <2>3, <2>5, <3>2, <1>5
  <2> QED
    BY <2>4, <2>5
<1>11. CASE x = r /\ Begins(r)
  <2>1. req'[r].item = req[q].item /\ req'[r].posted = {}
    BY <1>4, <1>5, <1>11 DEF Begins
  <2>2. /\ req'[r].item \in DOMAIN loans /\ req'[r].pc = "look"
        /\ req'[r].row.title = loans[req'[r].item]
    BY <2>1, <1>2, <1>4, <1>6, <1>11 DEF LoanStep
  <2>3. loans[req[q].item] = req[q].row.title
    BY <2>1, <2>2, <1>6, <1>9 DEF Named
  <2> QED
    BY <2>1, <2>2, <2>3, <1>5, <1>11
<1> QED
  BY <1>1, <1>10, <1>11

\* A step of this kind keeps the invariant.
LEMMA StepKeeps ==
  ASSUME PostingInv, NEW r \in Requests, Step(r)
  PROVE  PostingInv'
<1>1. \A x \in Requests : BeforeOK(x)'
  BY StepFacts DEF Step
<1> QED
  BY <1>1, StepRows, StepEntries, StepDividends, StepNamed, StepLoans
  DEF PostingInv, Step, Rows

----------------------------------------------------------------------------
\* A statement that succeeds or fails without touching a row.
LEMMA RowsStay ==
  ASSUME PostingInv, NEW r \in Requests, Ok \/ Fault,
         UNCHANGED <<bills, dividends, loans, issued>>
  PROVE  Rows(r)
<1>1. TypeOK
  BY DEF PostingInv
<1>2. faults' \in 0..MaxFaults /\ (faults' = 0 => faults = 0)
  BY <1>1, PostingAssumption DEF TypeOK, Ok, Fault
<1>3. BillRows(r) /\ LoanRows(r)
  BY DEF BillRows, LoanRows
<1> QED
  BY <1>1, <1>2, <1>3 DEF TypeOK, Rows

\* A step that does not touch the ledger.
LEMMA LedgerStays ==
  ASSUME PostingInv, NEW r \in Requests, ledger' = ledger,
         Begins(r) \/ (Moves(r) /\ req[r].posted \subseteq req'[r].posted)
  PROVE  Entries(r)
<1>1. TypeOK /\ LocalOK(r) /\ req \in [Requests -> Request]
  BY DEF PostingInv, TypeOK
<1>2. \A e \in DOMAIN ledger : e[1] = r => e[2] \in req'[r].posted
  <2>1. \A e \in DOMAIN ledger : e[1] = r => e[2] \in req[r].posted
    BY <1>1 DEF TypeOK
  <2>2. Begins(r) => req[r].posted = {}
    BY <1>1, FreshFits DEF Begins, LocalOK
  <2> QED
    BY <2>1, <2>2
<1> QED
  BY <1>1, <1>2 DEF TypeOK, Entries

\* What has to be checked of a request that begins.
LEMMA BeginKeeps ==
  ASSUME PostingInv, NEW r \in Requests, Begins(r), Rows(r), Entries(r), LocalOK(r)',
         req'[r].pc \in {"month", "write", "look", "bill", "entry", "ok"},
         req'[r].op = "apply" => req'[r].pc = "month",
         req'[r].op = "bill" => req'[r].item \in Bills,
         req'[r].op = "dividend" =>
           /\ req'[r].item \in Dividends \cap issued'
           /\ \/ req'[r].item \notin issued
              \/ req'[r].item \in DOMAIN dividends /\ ~dividends[req'[r].item],
         req'[r].op \in {"loan", "asset"} =>
           req'[r].item \in Loans /\ req'[r].row.title \in Names,
         req'[r].op = "loan" => req'[r].item \in issued' /\ LoanStep(r)
  PROVE  PostingInv'
<1>1. LocalOK(r) /\ ~Moves(r)
  BY DEF PostingInv, Begins, Moves, Working
<1>2. req[r].posted = {}
  BY <1>1, FreshFits DEF Begins, LocalOK
<1>3. req'[r].todo = {} /\ req'[r].posted = {} /\ req'[r].marked = FALSE
  BY DEF Begins
<1>4. HoldsOK(r)'
  BY <1>3 DEF HoldsOK
<1>5. LoanStep(r)
  BY DEF LoanStep
<1>6. Holds(r)
  BY <1>1, <1>2, <1>3, <1>4, <1>5 DEF Holds
<1> QED
  BY <1>6, StepKeeps DEF Step

\* A month is applied: nothing is looked at yet but the bills.
LEMMA ApplyListKeeps ==
  ASSUME PostingInv, NEW r \in Requests, ApplyList(r)
  PROVE  PostingInv'
<1>1. PICK m \in Months : Begin(r, "month", "apply", FALSE, None, m, Fresh.row,
                                {b \in DOMAIN bills : bills[b].active})
  BY DEF ApplyList
<1>2. TypeOK /\ Ok /\ UNCHANGED <<bills, dividends, loans, issued, ledger>>
  BY DEF PostingInv, ApplyList
<1> DEFINE listed == {b \in DOMAIN bills : bills[b].active}
           new == FALSE
           row == Fresh.row
<1>3. /\ listed \in SUBSET Bills /\ new \in BOOLEAN /\ row \in Bill
      /\ "month" \in Working /\ Begin(r, "month", "apply", new, None, m, row, listed)
  BY <1>1, <1>2, FreshFits DEF TypeOK, Working
<1> HIDE DEF listed, new, row
<1>4. Begins(r) /\ req'[r].pc = "month" /\ req'[r].op = "apply"
  BY <1>2, <1>3, BeginFields
<1>5. LocalOK(r)'
  BY <1>4 DEF LocalOK
<1>6. Rows(r) /\ Entries(r)
  BY <1>2, <1>4, RowsStay, LedgerStays
<1> QED
  BY <1>4, <1>5, <1>6, BeginKeeps

\* The patch of a bill is written next.
LEMMA UpdateBillReadKeeps ==
  ASSUME PostingInv, NEW r \in Requests, UpdateBillRead(r)
  PROVE  PostingInv'
<1>1. PICK b \in DOMAIN bills, row \in Bill :
        Begin(r, "write", "bill", FALSE, b, Fresh.month, row, {})
  BY DEF UpdateBillRead
<1>2. TypeOK /\ Ok /\ UNCHANGED <<bills, dividends, loans, issued, ledger>>
  BY DEF PostingInv, UpdateBillRead
<1> DEFINE listed == {}
           new == FALSE
           month == Fresh.month
<1>3. /\ listed \in SUBSET Bills /\ new \in BOOLEAN /\ "write" \in Working
      /\ b \in Bills /\ b \in Items \cup {None} /\ month \in Months
      /\ Begin(r, "write", "bill", new, b, month, row, listed)
  BY <1>1, <1>2, FreshFits DEF TypeOK, Working, Items
<1> HIDE DEF listed, new, month
<1>4. Begins(r) /\ req'[r].pc = "write" /\ req'[r].op = "bill" /\ req'[r].item = b
  BY <1>2, <1>3, BeginFields
<1>5. LocalOK(r)'
  BY <1>4 DEF LocalOK
<1>6. Rows(r) /\ Entries(r)
  BY <1>2, <1>4, RowsStay, LedgerStays
<1> QED
  BY <1>3, <1>4, <1>5, <1>6, BeginKeeps

\* The new name of a loan is written next.
LEMMA UpdateLoanReadKeeps ==
  ASSUME PostingInv, NEW r \in Requests, UpdateLoanRead(r)
  PROVE  PostingInv'
<1>1. PICK l \in DOMAIN loans, name \in Names :
        OpenLoan(r, "write", "asset", FALSE, l, name)
  BY DEF UpdateLoanRead
<1>2. TypeOK /\ Ok /\ UNCHANGED <<bills, dividends, loans, issued, ledger>>
  BY DEF PostingInv, UpdateLoanRead
<1> DEFINE new == FALSE
<1>3. /\ new \in BOOLEAN /\ "write" \in Working /\ l \in Loans
      /\ OpenLoan(r, "write", "asset", new, l, name)
  BY <1>1, <1>2 DEF TypeOK, Working
<1> HIDE DEF new
<1>4. /\ Begins(r) /\ req'[r].pc = "write" /\ req'[r].op = "asset" /\ req'[r].item = l
      /\ req'[r].row.title = name
  BY <1>2, <1>3, OpenLoanFields
<1>5. LocalOK(r)'
  BY <1>4 DEF LocalOK
<1>6. Rows(r) /\ Entries(r)
  BY <1>2, <1>4, RowsStay, LedgerStays
<1> QED
  BY <1>3, <1>4, <1>5, <1>6, BeginKeeps

\* The loan's name is read, and not yet looked for.
LEMMA BillLoanKeeps ==
  ASSUME PostingInv, NEW r \in Requests, BillLoan(r)
  PROVE  PostingInv'
<1>1. PICK l \in DOMAIN loans : OpenLoan(r, "look", "loan", FALSE, l, loans[l])
  BY DEF BillLoan
<1>2. TypeOK /\ Ok /\ UNCHANGED <<bills, dividends, loans, issued, ledger>>
  BY DEF PostingInv, BillLoan
<1> DEFINE new == FALSE
<1>3. PICK name \in Names : name = loans[l]
  BY <1>2 DEF TypeOK
<1>4. /\ new \in BOOLEAN /\ "look" \in Working /\ l \in Loans \cap issued'
      /\ OpenLoan(r, "look", "loan", new, l, name)
  BY <1>1, <1>2, <1>3 DEF TypeOK, Working
<1> HIDE DEF new
<1>5. /\ Begins(r) /\ req'[r].pc = "look" /\ req'[r].op = "loan" /\ req'[r].item = l
      /\ req'[r].row.title = name
  BY <1>2, <1>4, OpenLoanFields
<1>6. LocalOK(r)'
  BY <1>5 DEF LocalOK
<1>7. Rows(r) /\ Entries(r)
  BY <1>2, <1>5, RowsStay, LedgerStays
<1>8. LoanStep(r)
  BY <1>1, <1>3, <1>5 DEF LoanStep, Begins, Moves, Working
<1> QED
  BY <1>4, <1>5, <1>6, <1>7, <1>8, BeginKeeps

\* Only a dividend that is not marked is applied.
LEMMA ApplyDividendKeeps ==
  ASSUME PostingInv, NEW r \in Requests, ApplyDividend(r)
  PROVE  PostingInv'
<1>1. PICK d \in DOMAIN dividends :
        ~dividends[d] /\ Open(r, "entry", "dividend", FALSE, d)
  BY DEF ApplyDividend
<1>2. TypeOK /\ Ok /\ UNCHANGED <<bills, dividends, loans, issued, ledger>>
  BY DEF PostingInv, ApplyDividend
<1> DEFINE new == FALSE
<1>3. /\ new \in BOOLEAN /\ "entry" \in Working /\ d \in Items \cup {None}
      /\ d \in Dividends \cap issued' /\ Open(r, "entry", "dividend", new, d)
  BY <1>1, <1>2 DEF TypeOK, Working, Items
<1> HIDE DEF new
<1>4. Begins(r) /\ req'[r].pc = "entry" /\ req'[r].op = "dividend" /\ req'[r].item = d
  BY <1>2, <1>3, OpenFields
<1>5. LocalOK(r)'
  BY <1>4 DEF LocalOK
<1>6. Rows(r) /\ Entries(r)
  BY <1>2, <1>4, RowsStay, LedgerStays
<1> QED
  BY <1>1, <1>3, <1>4, <1>5, <1>6, BeginKeeps

\* A bill is inserted under an identifier nobody has used.
LEMMA InsertBillRows ==
  ASSUME PostingInv, NEW r \in Requests, NEW b \in Bills, NEW row \in Bill,
         InsertBill(b, row), Ok, UNCHANGED <<dividends, loans>>,
         b \in req'[r].posted => row = req'[r].row
  PROVE  Rows(r)
<1>1. /\ TypeOK /\ b \notin issued /\ b \in Items
      /\ bills' = Put(bills, b, row) /\ issued' = issued \cup {b}
      /\ dividends' = dividends /\ loans' = loans /\ faults' = faults
  BY DEF PostingInv, InsertBill, Items, Ok
<1>2. /\ DOMAIN bills' = DOMAIN bills \cup {b} /\ bills' \in [DOMAIN bills' -> Bill]
      /\ bills'[b] = row /\ \A c \in DOMAIN bills : c # b => bills'[c] = bills[c]
  BY <1>1 DEF Put, TypeOK
<1>3. b \notin DOMAIN bills
  BY <1>1 DEF TypeOK
<1>4. BillRows(r) /\ LoanRows(r)
  BY <1>1, <1>2, <1>3 DEF BillRows, LoanRows
<1> QED
  BY <1>1, <1>2, <1>4 DEF TypeOK, Rows

\* A bill typed by hand is answered with its insertion.
LEMMA CreateBillKeeps ==
  ASSUME PostingInv, NEW r \in Requests, CreateBill(r)
  PROVE  PostingInv'
<1>1. PICK b \in Bills, title \in Titles :
        InsertBill(b, NewBill(title)) /\ Open(r, "ok", "bill", TRUE, b)
  BY DEF CreateBill
<1>2. TypeOK /\ Ok /\ UNCHANGED <<dividends, loans, ledger>>
  BY DEF PostingInv, CreateBill
<1> DEFINE new == TRUE
           row == NewBill(title)
<1>3. /\ new \in BOOLEAN /\ "ok" \in Answered /\ b \in Items \cup {None}
      /\ Open(r, "ok", "bill", new, b) /\ InsertBill(b, row) /\ row \in Bill
  BY <1>1 DEF Answered, Items, NewBill, Bill
<1> HIDE DEF new, row
<1>4. Begins(r) /\ req'[r].pc = "ok" /\ req'[r].op = "bill" /\ req'[r].item = b
  BY <1>2, <1>3, OpenFields
<1>5. LocalOK(r)'
  BY <1>3, <1>4 DEF LocalOK
<1>6. Rows(r) /\ Entries(r)
  BY <1>2, <1>3, <1>4, InsertBillRows, LedgerStays DEF Begins
<1> QED
  BY <1>4, <1>5, <1>6, BeginKeeps

\* A bill is deleted; its entries stay.
LEMMA DeleteBillKeeps ==
  ASSUME PostingInv, NEW r \in Requests, DeleteBill(r)
  PROVE  PostingInv'
<1>1. PICK b \in DOMAIN bills : bills' = Drop(bills, b) /\ Open(r, "ok", "bill", FALSE, b)
  BY DEF DeleteBill
<1>2. TypeOK /\ Ok /\ UNCHANGED <<dividends, loans, issued, ledger>>
  BY DEF PostingInv, DeleteBill
<1> DEFINE new == FALSE
<1>3. /\ new \in BOOLEAN /\ "ok" \in Answered /\ b \in Bills /\ b \in Items \cup {None}
      /\ Open(r, "ok", "bill", new, b)
  BY <1>1, <1>2 DEF Answered, Items, TypeOK
<1> HIDE DEF new
<1>4. Begins(r) /\ req'[r].pc = "ok" /\ req'[r].op = "bill" /\ req'[r].item = b
  BY <1>2, <1>3, OpenFields
<1>5. LocalOK(r)'
  BY <1>3, <1>4 DEF LocalOK
<1>6. /\ DOMAIN bills' = DOMAIN bills \ {b} /\ bills' \in [DOMAIN bills' -> Bill]
      /\ \A c \in DOMAIN bills' : bills'[c] = bills[c]
  BY <1>1, <1>2 DEF Drop, TypeOK
<1>7. Rows(r)
  <2>1. BillRows(r) /\ LoanRows(r)
    BY <1>2, <1>6 DEF BillRows, LoanRows
  <2> QED
    BY <1>2, <1>6, <2>1 DEF Rows, TypeOK, Ok
<1>8. Entries(r)
  BY <1>2, <1>4, LedgerStays
<1> QED
  BY <1>3, <1>4, <1>5, <1>7, <1>8, BeginKeeps

\* A loan is inserted under an identifier nobody has used.
LEMMA CreateLoanKeeps ==
  ASSUME PostingInv, NEW r \in Requests, CreateLoan(r)
  PROVE  PostingInv'
<1>1. PICK l \in Loans \ issued, name \in Names, pc \in {"bill", "ok"} :
        /\ loans' = Put(loans, l, name) /\ issued' = issued \cup {l}
        /\ OpenLoan(r, pc, "loan", TRUE, l, name)
  BY DEF CreateLoan
<1>2. TypeOK /\ Ok /\ UNCHANGED <<bills, dividends, ledger>>
  BY DEF PostingInv, CreateLoan
<1> DEFINE new == TRUE
<1>3. /\ new \in BOOLEAN /\ pc \in Working \cup Answered /\ l \in Loans
      /\ OpenLoan(r, pc, "loan", new, l, name)
  BY <1>1 DEF Working, Answered
<1> HIDE DEF new
<1>4. /\ Begins(r) /\ req'[r].pc = pc /\ req'[r].op = "loan" /\ req'[r].item = l
      /\ req'[r].row.title = name
  BY <1>2, <1>3, OpenLoanFields
<1>5. LocalOK(r)'
  BY <1>4, <1>1 DEF LocalOK, Answered
<1>6. /\ DOMAIN loans' = DOMAIN loans \cup {l} /\ loans' \in [DOMAIN loans' -> Names]
      /\ loans'[l] = name /\ \A c \in DOMAIN loans : c # l => loans'[c] = loans[c]
  BY <1>1, <1>2 DEF Put, TypeOK
<1>7. Rows(r)
  <2>1. BillRows(r) /\ LoanRows(r)
    BY <1>1, <1>2, <1>4, <1>6 DEF BillRows, LoanRows
  <2> QED
    BY <1>1, <1>2, <1>6, <2>1 DEF Rows, TypeOK, Ok, Items
<1>8. Entries(r)
  BY <1>2, <1>4, LedgerStays
<1>9. LoanStep(r)
  BY <1>1, <1>4 DEF LoanStep, Begins, Moves, Working
<1> QED
  BY <1>1, <1>4, <1>5, <1>7, <1>8, <1>9, BeginKeeps

\* A loan is deleted; its bill stays.
LEMMA DeleteLoanKeeps ==
  ASSUME PostingInv, NEW r \in Requests, DeleteLoan(r)
  PROVE  PostingInv'
<1>1. PICK l \in DOMAIN loans : loans' = Drop(loans, l) /\ Open(r, "ok", "edit", FALSE, l)
  BY DEF DeleteLoan
<1>2. TypeOK /\ Ok /\ UNCHANGED <<bills, dividends, issued, ledger>>
  BY DEF PostingInv, DeleteLoan
<1> DEFINE new == FALSE
<1>3. /\ new \in BOOLEAN /\ "ok" \in Answered /\ l \in Items \cup {None}
      /\ Open(r, "ok", "edit", new, l)
  BY <1>1, <1>2 DEF Answered, Items, TypeOK
<1> HIDE DEF new
<1>4. Begins(r) /\ req'[r].pc = "ok" /\ req'[r].op = "edit" /\ req'[r].item = l
  BY <1>2, <1>3, OpenFields
<1>5. LocalOK(r)'
  BY <1>3, <1>4 DEF LocalOK
<1>6. /\ DOMAIN loans' = DOMAIN loans \ {l} /\ loans' \in [DOMAIN loans' -> Names]
      /\ \A c \in DOMAIN loans' : loans'[c] = loans[c]
  BY <1>1, <1>2 DEF Drop, TypeOK
<1>7. Rows(r)
  <2>1. BillRows(r) /\ LoanRows(r)
    BY <1>2, <1>6 DEF BillRows, LoanRows
  <2> QED
    BY <1>2, <1>6, <2>1 DEF Rows, TypeOK, Ok
<1>8. Entries(r)
  BY <1>2, <1>4, LedgerStays
<1> QED
  BY <1>4, <1>5, <1>7, <1>8, BeginKeeps

\* A dividend is inserted unmarked, under an identifier nobody has used.
LEMMA CreateDividendKeeps ==
  ASSUME PostingInv, NEW r \in Requests, CreateDividend(r)
  PROVE  PostingInv'
<1>1. PICK d \in Dividends \ issued :
        /\ dividends' = Put(dividends, d, FALSE) /\ issued' = issued \cup {d}
        /\ Open(r, "entry", "dividend", TRUE, d)
  BY DEF CreateDividend
<1>2. TypeOK /\ Ok /\ UNCHANGED <<bills, loans, ledger>>
  BY DEF PostingInv, CreateDividend
<1> DEFINE new == TRUE
<1>3. /\ new \in BOOLEAN /\ "entry" \in Working /\ d \in Items \cup {None}
      /\ Open(r, "entry", "dividend", new, d)
  BY <1>1 DEF Working, Items
<1> HIDE DEF new
<1>4. Begins(r) /\ req'[r].pc = "entry" /\ req'[r].op = "dividend" /\ req'[r].item = d
  BY <1>2, <1>3, OpenFields
<1>5. LocalOK(r)'
  BY <1>4 DEF LocalOK
<1>6. /\ DOMAIN dividends' = DOMAIN dividends \cup {d}
      /\ dividends' \in [DOMAIN dividends' -> BOOLEAN] /\ ~dividends'[d]
      /\ \A c \in DOMAIN dividends : c # d => dividends'[c] = dividends[c]
  BY <1>1, <1>2 DEF Put, TypeOK
<1>7. Rows(r)
  <2>1. BillRows(r) /\ LoanRows(r)
    BY <1>2 DEF BillRows, LoanRows
  <2> QED
    BY <1>1, <1>2, <1>6, <2>1 DEF Rows, TypeOK, Ok, Items
<1>8. Entries(r)
  BY <1>2, <1>4, LedgerStays
<1> QED
  BY <1>1, <1>4, <1>5, <1>7, <1>8, BeginKeeps

\* A dividend is deleted; its entry stays.
LEMMA DeleteDividendKeeps ==
  ASSUME PostingInv, NEW r \in Requests, DeleteDividend(r)
  PROVE  PostingInv'
<1>1. PICK d \in DOMAIN dividends :
        dividends' = Drop(dividends, d) /\ Open(r, "ok", "edit", FALSE, d)
  BY DEF DeleteDividend
<1>2. TypeOK /\ Ok /\ UNCHANGED <<bills, loans, issued, ledger>>
  BY DEF PostingInv, DeleteDividend
<1> DEFINE new == FALSE
<1>3. /\ new \in BOOLEAN /\ "ok" \in Answered /\ d \in Items \cup {None}
      /\ Open(r, "ok", "edit", new, d)
  BY <1>1, <1>2 DEF Answered, Items, TypeOK
<1> HIDE DEF new
<1>4. Begins(r) /\ req'[r].pc = "ok" /\ req'[r].op = "edit" /\ req'[r].item = d
  BY <1>2, <1>3, OpenFields
<1>5. LocalOK(r)'
  BY <1>3, <1>4 DEF LocalOK
<1>6. /\ DOMAIN dividends' = DOMAIN dividends \ {d}
      /\ dividends' \in [DOMAIN dividends' -> BOOLEAN]
      /\ \A c \in DOMAIN dividends' : dividends'[c] = dividends[c]
  BY <1>1, <1>2 DEF Drop, TypeOK
<1>7. Rows(r)
  <2>1. BillRows(r) /\ LoanRows(r)
    BY <1>2 DEF BillRows, LoanRows
  <2> QED
    BY <1>2, <1>6, <2>1 DEF Rows, TypeOK, Ok
<1>8. Entries(r)
  BY <1>2, <1>4, LedgerStays
<1> QED
  BY <1>4, <1>5, <1>7, <1>8, BeginKeeps

\* An entry that is edited is not what was posted any more, and the bill it is
\* linked to is not as its request left it.
LEMMA EditKeeps ==
  ASSUME PostingInv, NEW r \in Requests, NEW e \in DOMAIN ledger,
         Begins(r), req'[r].pc = "ok", req'[r].op = "edit", req'[r].item = e[2], Ok,
         UNCHANGED <<bills, dividends, loans, issued>>,
         DOMAIN ledger' \subseteq DOMAIN ledger, ledger' \in [DOMAIN ledger' -> Entry],
         e \in DOMAIN ledger' =>
           ledger'[e].link = None \/ ledger'[e].link \in req'[r].listed,
         \A f \in DOMAIN ledger : f # e => f \in DOMAIN ledger' /\ ledger'[f] = ledger[f]
  PROVE  PostingInv'
<1>1. TypeOK /\ req \in [Requests -> Request] /\ LocalOK(r)
  BY DEF PostingInv, TypeOK
<1>2. LocalOK(r)'
  BY DEF LocalOK, Answered
<1>3. ~Untouched(e[2])'
  BY DEF Untouched
<1>4. e \in DOMAIN ledger' => \A b \in Bills : Untouched(b)' => ledger'[e].link # b
  BY PostingAssumption DEF Untouched, Items
<1>5. \A f \in DOMAIN ledger : f[1] # r
  <2>1. req[r].posted = {}
    BY <1>1, FreshFits DEF Begins, LocalOK
  <2> QED
    BY <1>1, <2>1 DEF TypeOK
<1>6. Entries(r)
  <2>1. DOMAIN ledger' \subseteq Requests \X (Bills \cup Dividends)
    BY <1>1 DEF TypeOK
  <2>2. ASSUME NEW f \in DOMAIN ledger'
        PROVE  \/ f \in DOMAIN ledger /\ ledger'[f] = ledger[f]
               \/ /\ f \in DOMAIN ledger /\ ~Untouched(f[2])'
                  /\ \A b \in Bills : Untouched(b)' => ledger'[f].link # b
    BY <1>3, <1>4
  <2>3. ASSUME NEW f \in DOMAIN ledger
        PROVE  \/ f \in DOMAIN ledger' /\ ledger'[f] = ledger[f]
               \/ ~Untouched(f[2])'
    BY <1>3
  <2> QED
    BY <1>5, <2>1, <2>2, <2>3 DEF Entries
<1>7. Rows(r)
  BY RowsStay
<1> QED
  BY <1>2, <1>6, <1>7, BeginKeeps

\* The ledger by hand.
LEMMA EditsKeep ==
  ASSUME PostingInv, NEW r \in Requests, UpdateEntry(r) \/ DeleteEntry(r)
  PROVE  PostingInv'
<1>1. /\ TypeOK /\ ledger \in [DOMAIN ledger -> Entry]
      /\ UNCHANGED <<bills, dividends, loans, issued>> /\ Ok
  BY DEF PostingInv, TypeOK, UpdateEntry, DeleteEntry
<1> DEFINE new == FALSE
<1>2. /\ "ok" \in Answered /\ new \in BOOLEAN
      /\ \A e \in DOMAIN ledger : e[2] \in Items \cup {None}
  BY <1>1 DEF Answered, TypeOK, Items
<1>3. CASE UpdateEntry(r)
  <2>1. PICK e \in DOMAIN ledger, m \in Months, link \in Bills \cup {None} :
          /\ ledger' = Put(ledger, e, [month |-> m, link |-> link])
          /\ Begin(r, "ok", "edit", new, e[2], Fresh.month, Fresh.row, {link} \cap Bills)
    BY <1>3 DEF UpdateEntry
  <2> DEFINE value == [month |-> m, link |-> link]
             month == Fresh.month
             row == Fresh.row
             listed == {link} \cap Bills
             item == e[2]
  <2>2. value \in Entry /\ value.link = link
    BY DEF Entry
  <2>3. /\ ledger' = Put(ledger, e, value) /\ Begin(r, "ok", "edit", new, item, month, row, listed)
        /\ month \in Months /\ row \in Bill /\ listed \in SUBSET Bills
        /\ item \in Items \cup {None} /\ item = e[2]
        /\ link = None \/ link \in listed
    BY <1>2, <2>1, FreshFits
  <2> HIDE DEF new, value, month, row, listed, item
  <2>4. /\ DOMAIN ledger' = DOMAIN ledger /\ ledger'[e] = value
        /\ \A f \in DOMAIN ledger : f # e => ledger'[f] = ledger[f]
    BY <2>3 DEF Put
  <2>5. ledger' \in [DOMAIN ledger' -> Entry]
    BY <1>1, <2>2, <2>3 DEF Put
  <2>6. /\ Begins(r) /\ req'[r].pc = "ok" /\ req'[r].op = "edit" /\ req'[r].item = e[2]
        /\ req'[r].listed = listed
    BY <1>1, <1>2, <2>3, BeginFields
  <2>7. ledger'[e].link = None \/ ledger'[e].link \in req'[r].listed
    BY <2>2, <2>3, <2>4, <2>6
  <2> QED
    BY <1>1, <2>4, <2>5, <2>6, <2>7, EditKeeps
<1>4. CASE DeleteEntry(r)
  <2>1. PICK e \in DOMAIN ledger :
          ledger' = Drop(ledger, e) /\ Open(r, "ok", "edit", new, e[2])
    BY <1>4 DEF DeleteEntry
  <2> DEFINE item == e[2]
  <2>2. item \in Items \cup {None} /\ item = e[2] /\ Open(r, "ok", "edit", new, item)
    BY <1>2, <2>1
  <2> HIDE DEF new, item
  <2>3. /\ DOMAIN ledger' = DOMAIN ledger \ {e} /\ ledger' \in [DOMAIN ledger' -> Entry]
        /\ \A f \in DOMAIN ledger : f # e => ledger'[f] = ledger[f]
    BY <1>1, <2>1 DEF Drop
  <2>4. Begins(r) /\ req'[r].pc = "ok" /\ req'[r].op = "edit" /\ req'[r].item = e[2]
    BY <1>1, <1>2, <2>2, OpenFields
  <2> QED
    BY <1>1, <2>3, <2>4, EditKeeps
<1> QED
  BY <1>3, <1>4

----------------------------------------------------------------------------
\* What has to be checked of a request that goes on.
LEMMA MoveKeeps ==
  ASSUME PostingInv, NEW r \in Requests, Moves(r), Rows(r), Entries(r),
         LocalOK(r)', HoldsOK(r)',
         req'[r].todo \subseteq req[r].todo, req'[r].todo \cap req'[r].posted = {},
         req[r].posted \cap Dividends \subseteq req'[r].posted,
         req'[r].op = "apply" /\ req'[r].pc \in {"post", "credit", "ok"} =>
           \A b \in req'[r].listed \ Savings :
             \/ b \in req'[r].todo
             \/ Untouched(b) => HasEntry(b, req'[r].month)
             \/ HasEntry(b, req[r].month)',
         req'[r].op = "loan" => LoanStep(r)
  PROVE  PostingInv'
<1>1. ~Begins(r)
  BY DEF Begins, Moves, Working
<1>2. req'[r].before = req[r].before /\ req'[r].month = req[r].month
  BY DEF Moves
<1>3. \A e \in DOMAIN ledger :
        /\ e[2] \in req'[r].todo /\ Untouched(e[2])
        /\ ledger[e].month = req'[r].month
        => e[1] \notin req'[r].before
  BY <1>2 DEF PostingInv, TodoOK
<1>4. LoanStep(r)
  BY DEF LoanStep
<1>5. Holds(r)
  BY <1>1, <1>3, <1>4 DEF Holds
<1> QED
  BY <1>5, StepKeeps DEF Step

\* An answer changes nothing; that all is done is only said when it is.
LEMMA ReplyKeeps ==
  ASSUME PostingInv, NEW r \in Requests, req[r].pc \in Working, NEW pc \in {"ok", "error"},
         Reply(r, pc), Ok \/ Fault, UNCHANGED <<bills, dividends, loans, issued, ledger>>,
         req[r].op = "apply" => pc = "error" \/ (req[r].pc = "post" /\ req[r].todo = {})
  PROVE  PostingInv'
<1>1. /\ TypeOK /\ LocalOK(r) /\ HoldsOK(r) /\ ListedOK(r)
      /\ pc \in Answered
  BY DEF PostingInv, Answered
<1>2. /\ Moves(r) /\ req'[r].pc = pc /\ req'[r].item = req[r].item
      /\ req'[r].todo = {} /\ req'[r].posted = req[r].posted
      /\ req'[r].marked = req[r].marked
  BY <1>1, ReplyFields
<1>3. /\ req'[r].op = req[r].op /\ req'[r].listed = req[r].listed
      /\ req'[r].month = req[r].month /\ req[r].op # "none" /\ req'[r].row = req[r].row
      /\ ~Begins(r) /\ issued' = issued
  BY <1>1, <1>2 DEF Begins, Moves, LocalOK, Working
<1>4. LocalOK(r)'
  BY <1>1, <1>2, <1>3 DEF LocalOK
<1>5. HoldsOK(r)'
  BY <1>1, <1>2, <1>3 DEF HoldsOK, Working
<1>6. LoanStep(r)
  BY <1>2, <1>3 DEF LoanStep
<1>7. Rows(r) /\ Entries(r)
  BY <1>2, RowsStay, LedgerStays
<1>8. ASSUME req'[r].op = "apply", req'[r].pc \in {"post", "credit", "ok"},
             NEW b \in req'[r].listed \ Savings
      PROVE  Untouched(b) => HasEntry(b, req'[r].month)
  BY <1>1, <1>2, <1>3, <1>8 DEF ListedOK
<1> QED
  BY <1>2, <1>4, <1>5, <1>6, <1>7, <1>8, MoveKeeps

\* An entry is inserted under a name of its own.
LEMMA InsertEntries ==
  ASSUME PostingInv, NEW r \in Requests, Moves(r), NEW b \in Bills \cup Dividends,
         NEW m \in Months, NEW link \in {b, None} \cap (Bills \cup {None}),
         InsertEntry(r, b, m, link),
         b \notin req[r].posted, req'[r].posted = req[r].posted \cup {b},
         b \in Bills => b \in req[r].todo /\ link = b /\ m = req[r].month
  PROVE  /\ Entries(r)
         /\ link = b => \E e \in DOMAIN ledger' : ledger'[e] = [month |-> m, link |-> b]
<1> DEFINE n == <<r, b>>
           row == [month |-> m, link |-> link]
<1>1. /\ DOMAIN ledger \subseteq Requests \X (Bills \cup Dividends)
      /\ ledger \in [DOMAIN ledger -> Entry]
      /\ \A e \in DOMAIN ledger : e[2] \in req[e[1]].posted
  BY DEF PostingInv, TypeOK
<1>2. n \notin DOMAIN ledger /\ n[1] = r /\ n[2] = b /\ n \in Requests \X (Bills \cup Dividends)
  BY <1>1
<1>3. row \in Entry /\ row.link = link /\ row.month = m
  BY DEF Entry
<1>4. ledger' = Put(ledger, n, row)
  BY DEF InsertEntry
<1> HIDE DEF n
<1>5. link = b => row = [month |-> m, link |-> b]
  OBVIOUS
<1> HIDE DEF row
<1>6. /\ DOMAIN ledger' = DOMAIN ledger \cup {n} /\ ledger'[n] = row
      /\ \A e \in DOMAIN ledger : ledger'[e] = ledger[e]
      /\ ledger' \in [DOMAIN ledger' -> Entry]
  BY <1>1, <1>2, <1>3, <1>4 DEF Put
<1>7. Inserted(r, n)
  BY <1>2, <1>3, <1>6 DEF Inserted
<1>8. \A e \in DOMAIN ledger' : e[1] = r => e[2] \in req'[r].posted
  BY <1>1, <1>2, <1>6
<1>9. Entries(r)
  BY <1>1, <1>2, <1>6, <1>7, <1>8 DEF Entries
<1>10. link = b => \E e \in DOMAIN ledger' : ledger'[e] = [month |-> m, link |-> b]
  BY <1>5, <1>6
<1> QED
  BY <1>9, <1>10

\* Bills that have an entry of the month are skipped.
LEMMA ApplyMonthKeeps ==
  ASSUME PostingInv, NEW r \in Requests, ApplyMonth(r)
  PROVE  PostingInv'
<1> DEFINE m == req[r].month
           applied == {ledger[e].link : e \in {f \in DOMAIN ledger : ledger[f].month = m}}
           todo == req[r].listed \ applied
           none == {}
<1>1. /\ TypeOK /\ LocalOK(r) /\ HoldsOK(r) /\ req[r].op = "apply" /\ req[r].pc = "month"
      /\ req[r].pc \in Working /\ "post" \in Working /\ req[r] \in Request
      /\ UNCHANGED <<bills, dividends, loans, issued, ledger>>
  BY DEF PostingInv, TypeOK, ApplyMonth, At, Working
<1>2. CASE Go(r, Held(r, "post", None, todo, none, FALSE)) /\ Ok
  <2>1. /\ todo \in SUBSET Bills /\ none \in SUBSET Items /\ none = {}
        /\ todo \subseteq req[r].listed /\ req[r].listed \subseteq Bills
    BY <1>1 DEF Request
  <2>2. ASSUME NEW e \in DOMAIN ledger, ledger[e].month = m PROVE ledger[e].link \notin todo
    BY <2>2
  <2>3. ASSUME NEW b \in req[r].listed, b \notin todo PROVE HasEntry(b, m)
    <3>1. PICK e \in DOMAIN ledger : ledger[e].month = m /\ ledger[e].link = b
      BY <2>3
    <3>2. ledger[e] \in Entry
      BY <1>1 DEF TypeOK
    <3>3. ledger[e] = [month |-> m, link |-> b]
      BY <3>1, <3>2 DEF Entry
    <3> QED
      BY <3>3 DEF HasEntry
  <2> HIDE DEF m, todo, none
  <2>4. /\ Moves(r) /\ req'[r].pc = "post" /\ req'[r].item = None /\ req'[r].todo = todo
        /\ req'[r].posted = {} /\ req'[r].marked = FALSE
    BY <1>1, <1>2, <2>1, GoOn
  <2>5. /\ req'[r].op = "apply" /\ req'[r].listed = req[r].listed
        /\ req'[r].month = m /\ ~Begins(r)
    BY <1>1, <2>4 DEF Moves, Begins, m
  <2>6. Rows(r) /\ Entries(r)
    <3>1. req[r].posted = {}
      BY <1>1 DEF HoldsOK
    <3> QED
      BY <1>1, <1>2, <2>4, <3>1, RowsStay, LedgerStays
  <2>7. LocalOK(r)' /\ HoldsOK(r)' /\ LoanStep(r)
    BY <2>4, <2>5 DEF LocalOK, HoldsOK, LoanStep
  <2>8. ASSUME NEW e \in DOMAIN ledger, e[2] \in todo, Untouched(e[2]), ledger[e].month = m
        PROVE  FALSE
    <3>1. ledger[e].link = e[2]
      <4>1. e[2] \in Bills
        BY <2>1, <2>8
      <4> QED
        BY <2>8, <4>1 DEF PostingInv, Links
    <3> QED
      BY <2>2, <2>8, <3>1
  <2>9. req[r].posted \cap Dividends \subseteq req'[r].posted
    BY <1>1, <2>4 DEF HoldsOK
  <2>10. Holds(r)
    BY <2>3, <2>4, <2>5, <2>7, <2>8, <2>9 DEF Holds
  <2> QED
    BY <2>4, <2>6, <2>10, StepKeeps DEF Step
<1>3. CASE Reply(r, "error") /\ Fault
  BY <1>1, <1>3, ReplyKeeps
<1> QED
  BY <1>2, <1>3, Zenon DEF ApplyMonth

\* A bill that is posted has its entry; the others are as they were.
LEMMA PostedKeeps ==
  ASSUME PostingInv, NEW r \in Requests, NEW b \in req[r].todo, At(r, "apply", "post"),
         InsertEntry(r, b, req[r].month, b), Ok, UNCHANGED <<bills, dividends, loans, issued>>,
         NEW pc, NEW item, Posted(r, pc, b, item),
         \/ pc = "post" /\ item = None
         \/ pc = "credit" /\ item = b /\ b \in Savings
  PROVE  PostingInv'
<1> DEFINE todo == req[r].todo \ {b}
           posted == req[r].posted \cup {b}
<1>1. /\ TypeOK /\ LocalOK(r) /\ HoldsOK(r) /\ ListedOK(r) /\ req[r].op = "apply"
      /\ req[r].pc = "post" /\ req[r].pc \in Working /\ pc \in Working
      /\ req[r] \in Request /\ req[r].todo \cap req[r].posted = {}
  BY DEF PostingInv, TypeOK, At, Working
<1>2. /\ b \in Bills /\ b \in Items /\ item \in Items \cup {None} /\ todo \in SUBSET Bills
      /\ posted \in SUBSET Items /\ todo \cap posted = {} /\ b \notin req[r].posted
      /\ posted \subseteq Bills /\ req[r].month \in Months /\ b \notin Dividends
  BY <1>1, PostingAssumption DEF Request, Items, HoldsOK
<1>3. Go(r, Held(r, pc, item, todo, posted, FALSE))
  BY DEF Posted
<1>4. \A c : c \in req[r].todo => c \in todo \/ c = b
  OBVIOUS
<1>5. b \in posted /\ req[r].posted \subseteq posted /\ todo \subseteq req[r].todo
  OBVIOUS
<1> HIDE DEF todo
<1>6. /\ Moves(r) /\ req'[r].pc = pc /\ req'[r].item = item /\ req'[r].todo = todo
      /\ req'[r].posted = posted /\ req'[r].marked = FALSE
  <2> HIDE DEF posted
  <2> QED
    BY <1>1, <1>2, <1>3, GoOn
<1>7. /\ req'[r].op = "apply" /\ req'[r].listed = req[r].listed
      /\ req'[r].month = req[r].month
  BY <1>1, <1>6 DEF Moves
<1>8. Entries(r) /\ HasEntry(b, req[r].month)'
  <2> DEFINE m == req[r].month
  <2>1. m \in Months /\ m = req[r].month /\ InsertEntry(r, b, m, b)
    BY <1>2
  <2>2. req'[r].posted = req[r].posted \cup {b} /\ b \in {b, None} \cap (Bills \cup {None})
        /\ b \in Bills \cup Dividends
    BY <1>2, <1>6
  <2> HIDE DEF m
  <2>3. Entries(r) /\ \E e \in DOMAIN ledger' : ledger'[e] = [month |-> m, link |-> b]
    BY <1>2, <1>6, <2>1, <2>2, InsertEntries
  <2> QED
    BY <1>7, <2>1, <2>3 DEF HasEntry
<1> HIDE DEF posted
<1>9. Rows(r)
  BY RowsStay
<1>10. LocalOK(r)'
  BY <1>6, <1>7 DEF LocalOK
<1>11. HoldsOK(r)'
  BY <1>2, <1>5, <1>6, <1>7 DEF HoldsOK
<1>12. ASSUME NEW c \in req'[r].listed \ Savings
       PROVE  \/ c \in req'[r].todo
              \/ Untouched(c) => HasEntry(c, req'[r].month)
              \/ HasEntry(c, req[r].month)'
  BY <1>1, <1>4, <1>6, <1>7, <1>8, <1>12 DEF ListedOK
<1> QED
  BY <1>2, <1>5, <1>6, <1>7, <1>8, <1>9, <1>10, <1>11, <1>12, MoveKeeps

\* A bill is posted, or the request fails.
LEMMA PostKeepsInv ==
  ASSUME PostingInv, NEW r \in Requests, Post(r) \/ PostSaving(r)
  PROVE  PostingInv'
<1>1. /\ At(r, "apply", "post") /\ req[r].pc \in Working /\ req[r].op = "apply"
      /\ UNCHANGED <<bills, dividends, loans, issued>>
  BY DEF Post, PostSaving, At, Working
<1>2. CASE Reply(r, "error") /\ Fault /\ UNCHANGED ledger
  BY <1>1, <1>2, ReplyKeeps
<1>3. CASE \E b \in req[r].todo :
             InsertEntry(r, b, req[r].month, b) /\ Posted(r, "post", b, None) /\ Ok
  BY <1>1, <1>3, PostedKeeps
<1>4. CASE \E b \in req[r].todo \cap Savings :
             InsertEntry(r, b, req[r].month, b) /\ Posted(r, "credit", b, b) /\ Ok
  BY <1>1, <1>4, PostedKeeps
<1> QED
  BY <1>2, <1>3, <1>4, Zenon DEF Post, PostSaving

\* All is done.
LEMMA ApplyDoneKeeps ==
  ASSUME PostingInv, NEW r \in Requests, ApplyDone(r)
  PROVE  PostingInv'
<1>1. req[r].pc \in Working /\ req[r].pc = "post" /\ req[r].todo = {}
  BY DEF ApplyDone, At, Working
<1> QED
  BY <1>1, ReplyKeeps DEF ApplyDone

\* The entry of a saving is deleted again: nobody relies on it.
LEMMA RollBackKeeps ==
  ASSUME PostingInv, NEW r \in Requests, At(r, "apply", "credit"), NEW b, b = req[r].item,
         ledger' = Drop(ledger, <<r, b>>),
         Go(r, Held(r, "error", None, {}, req[r].posted \ {b}, FALSE)),
         Ok, UNCHANGED <<bills, dividends, loans, issued>>
  PROVE  PostingInv'
<1> DEFINE posted == req[r].posted \ {b}
           none == {}
           n == <<r, b>>
<1>1. /\ TypeOK /\ LocalOK(r) /\ HoldsOK(r) /\ req[r].op = "apply"
      /\ req[r].pc = "credit" /\ req[r].pc \in Working /\ "error" \in Answered
      /\ req[r] \in Request
  BY DEF PostingInv, TypeOK, At, Working, Answered
<1>2. /\ b \in Savings /\ b \in Bills /\ b \notin Dividends /\ none = {}
      /\ none \in SUBSET Bills /\ posted \in SUBSET Items /\ posted \subseteq Bills
      /\ Bills \cap Dividends = {}
  BY <1>1, PostingAssumption DEF HoldsOK, Request
<1>3. req[r].posted \cap Dividends = {} /\ \A i \in req[r].posted : i # b => i \in posted
  BY <1>1, <1>2 DEF HoldsOK
<1> HIDE DEF posted, none
<1>4. Go(r, Held(r, "error", None, none, posted, FALSE))
  BY DEF posted, none
<1>5. /\ Moves(r) /\ req'[r].pc = "error" /\ req'[r].item = None /\ req'[r].todo = {}
      /\ req'[r].posted = posted /\ req'[r].marked = FALSE
  BY <1>1, <1>2, <1>4, GoOn
<1>6. req'[r].op = "apply"
  BY <1>1, <1>5 DEF Moves
<1>7. LocalOK(r)' /\ HoldsOK(r)'
  BY <1>1, <1>2, <1>5, <1>6 DEF LocalOK, HoldsOK
<1>8. Rows(r)
  BY RowsStay
<1>9. Entries(r)
  <2>1. \A e \in DOMAIN ledger : e \in Requests \X (Bills \cup Dividends)
    BY <1>1 DEF TypeOK
  <2>2. \A e \in DOMAIN ledger : e # n /\ e[1] = r => e[2] # b
    BY <2>1
  <2>3. n[2] = b
    OBVIOUS
  <2>4. \A e \in DOMAIN ledger : e[1] = r => e[2] \in req[r].posted
    BY <1>1 DEF TypeOK
  <2> HIDE DEF n
  <2>5. /\ DOMAIN ledger' = DOMAIN ledger \ {n} /\ ledger' \in [DOMAIN ledger' -> Entry]
        /\ \A e \in DOMAIN ledger' : ledger'[e] = ledger[e]
    BY <1>1 DEF Drop, TypeOK, n
  <2>6. \A e \in DOMAIN ledger' : e[1] = r => e[2] \in req'[r].posted
    BY <1>3, <1>5, <2>2, <2>4, <2>5
  <2>7. DOMAIN ledger' \subseteq Requests \X (Bills \cup Dividends)
    BY <2>1, <2>5
  <2>8. /\ \A e \in DOMAIN ledger' : e \in DOMAIN ledger /\ ledger'[e] = ledger[e]
        /\ \A e \in DOMAIN ledger :
             \/ e \in DOMAIN ledger' /\ ledger'[e] = ledger[e]
             \/ e[2] \in Savings
    BY <1>2, <2>3, <2>5
  <2> QED
    BY <2>5, <2>6, <2>7, <2>8, Zenon DEF Entries
<1> QED
  BY <1>2, <1>3, <1>5, <1>6, <1>7, <1>8, <1>9, MoveKeeps

\* The asset is credited, or the entry is deleted, or both fail.
LEMMA CreditSavingKeeps ==
  ASSUME PostingInv, NEW r \in Requests, CreditSaving(r)
  PROVE  PostingInv'
<1>1. /\ TypeOK /\ LocalOK(r) /\ HoldsOK(r) /\ ListedOK(r) /\ req[r].op = "apply"
      /\ req[r].pc = "credit" /\ req[r].pc \in Working /\ "post" \in Working
      /\ At(r, "apply", "credit") /\ req[r] \in Request
      /\ UNCHANGED <<bills, dividends, loans, issued>>
  BY DEF PostingInv, TypeOK, CreditSaving, At, Working
<1>2. CASE /\ Go(r, Held(r, "post", None, req[r].todo, req[r].posted, FALSE))
           /\ Ok /\ UNCHANGED ledger
  <2>1. /\ req[r].todo \in SUBSET Bills /\ req[r].posted \in SUBSET Items
        /\ req[r].todo \cap req[r].posted = {}
        /\ req[r].op # "apply" => None = req[r].item
    BY <1>1 DEF Request, TypeOK
  <2>2. /\ Moves(r) /\ req'[r].pc = "post" /\ req'[r].item = None /\ req'[r].todo = req[r].todo
        /\ req'[r].posted = req[r].posted /\ req'[r].marked = FALSE
    BY <1>1, <1>2, <2>1, GoOn
  <2>3. /\ req'[r].op = "apply" /\ req'[r].listed = req[r].listed
        /\ req'[r].month = req[r].month
    BY <1>1, <2>2 DEF Moves
  <2>4. LocalOK(r)' /\ HoldsOK(r)'
    BY <1>1, <2>1, <2>2, <2>3 DEF LocalOK, HoldsOK
  <2>5. Rows(r) /\ Entries(r)
    BY <1>1, <1>2, <2>1, <2>2, RowsStay, LedgerStays
  <2>6. ASSUME NEW c \in req'[r].listed \ Savings
        PROVE  c \in req'[r].todo \/ (Untouched(c) => HasEntry(c, req'[r].month))
    BY <1>1, <2>1, <2>2, <2>3, <2>6 DEF ListedOK
  <2> QED
    BY <2>1, <2>2, <2>3, <2>4, <2>5, <2>6, MoveKeeps
<1>3. CASE /\ ledger' = Drop(ledger, <<r, req[r].item>>)
           /\ Go(r, Held(r, "error", None, {}, req[r].posted \ {req[r].item}, FALSE)) /\ Ok
  BY <1>1, <1>3, RollBackKeeps
<1>4. CASE Reply(r, "error") /\ Fault /\ UNCHANGED ledger
  BY <1>1, <1>4, ReplyKeeps
<1> QED
  BY <1>2, <1>3, <1>4, Zenon DEF CreditSaving

\* The patched bill is written, if it is still there.
LEMMA UpdateBillWriteKeeps ==
  ASSUME PostingInv, NEW r \in Requests, UpdateBillWrite(r)
  PROVE  PostingInv'
<1> DEFINE b == req[r].item
<1>1. /\ TypeOK /\ LocalOK(r) /\ HoldsOK(r) /\ req[r].op = "bill"
      /\ req[r].pc = "write" /\ req[r].pc \in Working /\ "ok" \in Answered
      /\ req[r] \in Request /\ UNCHANGED <<dividends, loans, issued, ledger>>
  BY DEF PostingInv, TypeOK, UpdateBillWrite, At, Working, Answered
<1>2. CASE /\ b \in DOMAIN bills /\ bills' = Put(bills, b, req[r].row)
           /\ Reply(r, "ok") /\ Ok
  <2>1. /\ Moves(r) /\ req'[r].pc = "ok" /\ req'[r].item = req[r].item
        /\ req'[r].todo = {} /\ req'[r].posted = req[r].posted
        /\ req'[r].marked = req[r].marked
    BY <1>1, <1>2, ReplyFields
  <2>2. req'[r].op = "bill" /\ req'[r].row = req[r].row /\ req'[r].item = b
    BY <1>1, <2>1 DEF Moves
  <2>3. LocalOK(r)' /\ HoldsOK(r)'
    BY <1>1, <2>1, <2>2 DEF LocalOK, HoldsOK
  <2>4. req[r].row \in Bill
    BY <1>1 DEF Request
  <2> HIDE DEF b
  <2>5. /\ DOMAIN bills' = DOMAIN bills /\ bills' \in [DOMAIN bills' -> Bill]
        /\ bills'[b] = req[r].row /\ \A c \in DOMAIN bills : c # b => bills'[c] = bills[c]
    BY <1>1, <1>2, <2>4 DEF Put, TypeOK
  <2>6. Rows(r)
    <3>1. BillRows(r) /\ LoanRows(r)
      BY <1>1, <2>2, <2>5 DEF BillRows, LoanRows
    <3> QED
      BY <1>1, <1>2, <2>5, <3>1 DEF Rows, TypeOK, Ok
  <2>7. Entries(r)
    BY <1>1, <2>1, LedgerStays
  <2> QED
    BY <2>1, <2>2, <2>3, <2>6, <2>7, MoveKeeps
<1>3. CASE Reply(r, "error") /\ (Ok \/ Fault) /\ UNCHANGED bills
  BY <1>1, <1>3, ReplyKeeps
<1> QED
  BY <1>2, <1>3, Zenon DEF UpdateBillWrite

\* The new name of a loan is written, if the loan is still there.
LEMMA UpdateLoanWriteKeeps ==
  ASSUME PostingInv, NEW r \in Requests, UpdateLoanWrite(r)
  PROVE  PostingInv'
<1> DEFINE l == req[r].item
           name == req[r].row.title
<1>1. /\ TypeOK /\ LocalOK(r) /\ HoldsOK(r) /\ req[r].op = "asset"
      /\ req[r].pc = "write" /\ req[r].pc \in Working /\ "ok" \in Answered
      /\ name \in Names /\ UNCHANGED <<bills, dividends, issued, ledger>>
  BY DEF PostingInv, TypeOK, UpdateLoanWrite, At, Working, Answered, HoldsOK
<1>2. CASE /\ l \in DOMAIN loans /\ loans' = Put(loans, l, name)
           /\ Reply(r, "ok") /\ Ok
  <2>1. /\ Moves(r) /\ req'[r].pc = "ok" /\ req'[r].item = req[r].item
        /\ req'[r].todo = {} /\ req'[r].posted = req[r].posted
        /\ req'[r].marked = req[r].marked
    BY <1>1, <1>2, ReplyFields
  <2>2. req'[r].op = "asset" /\ req'[r].row.title = name /\ req'[r].item = l
    BY <1>1, <2>1 DEF Moves
  <2>3. LocalOK(r)' /\ HoldsOK(r)'
    BY <1>1, <2>1, <2>2 DEF LocalOK, HoldsOK
  <2> HIDE DEF l, name
  <2>4. /\ DOMAIN loans' = DOMAIN loans /\ loans' \in [DOMAIN loans' -> Names]
        /\ loans'[l] = name /\ \A c \in DOMAIN loans : c # l => loans'[c] = loans[c]
    BY <1>1, <1>2 DEF Put, TypeOK
  <2>5. Rows(r)
    <3>1. BillRows(r) /\ LoanRows(r)
      BY <1>1, <2>2, <2>4 DEF BillRows, LoanRows
    <3> QED
      BY <1>1, <1>2, <2>4, <3>1 DEF Rows, TypeOK, Ok
  <2>6. Entries(r)
    BY <1>1, <2>1, LedgerStays
  <2> QED
    BY <2>1, <2>2, <2>3, <2>5, <2>6, MoveKeeps
<1>3. CASE Reply(r, "error") /\ (Ok \/ Fault) /\ UNCHANGED loans
  BY <1>1, <1>3, ReplyKeeps
<1> QED
  BY <1>2, <1>3, Zenon DEF UpdateLoanWrite

\* No bill has the title of the loan, or the query has failed; or one has.
LEMMA FindLoanBillKeeps ==
  ASSUME PostingInv, NEW r \in Requests, FindLoanBill(r)
  PROVE  PostingInv'
<1>1. /\ TypeOK /\ LocalOK(r) /\ HoldsOK(r) /\ req[r].op = "loan"
      /\ req[r].pc = "look" /\ req[r].pc \in Working /\ "bill" \in Working
      /\ req[r] \in Request /\ UNCHANGED <<bills, dividends, loans, issued, ledger>>
  BY DEF PostingInv, TypeOK, FindLoanBill, At, Working
<1>2. ASSUME Go(r, Held(r, "bill", req[r].item, {}, {}, FALSE)), Ok \/ Fault,
             faults' = 0 => \A b \in DOMAIN bills : bills[b].title # req[r].row.title
      PROVE  PostingInv'
  <2> DEFINE none == {}
             item == req[r].item
  <2>1. /\ none \in SUBSET Bills /\ none \in SUBSET Items /\ item \in Items \cup {None}
        /\ Go(r, Held(r, "bill", item, none, none, FALSE))
        /\ req[r].op # "apply" => item = req[r].item
    BY <1>1, <1>2 DEF Request
  <2>0. none = {} /\ item = req[r].item
    OBVIOUS
  <2> HIDE DEF none, item
  <2>2. /\ Moves(r) /\ req'[r].pc = "bill" /\ req'[r].item = item
        /\ req'[r].todo = none /\ req'[r].posted = none /\ req'[r].marked = FALSE
    <3>1. TypeOK /\ req[r].pc \in Working /\ "bill" \in Working \cup Answered
      BY <1>1
    <3> QED
      BY <2>1, <3>1, GoOn
  <2>3. /\ req'[r].op = "loan" /\ req'[r].row = req[r].row /\ ~Begins(r)
        /\ req'[r].todo = {} /\ req'[r].posted = {}
    BY <1>1, <2>0, <2>1, <2>2 DEF Moves, Begins, Working
  <2>4. LocalOK(r)' /\ HoldsOK(r)'
    BY <1>1, <2>0, <2>2, <2>3 DEF LocalOK, HoldsOK
  <2>5. Rows(r)
    BY <1>1, <1>2, RowsStay
  <2>6. req[r].posted = {}
    BY <1>1 DEF HoldsOK
  <2>7. Entries(r)
    BY <1>1, <2>2, <2>6, LedgerStays
  <2>8. LoanStep(r)
    BY <1>2, <2>3 DEF LoanStep
  <2> QED
    BY <2>0, <2>2, <2>3, <2>4, <2>5, <2>6, <2>7, <2>8, MoveKeeps
<1>3. CASE /\ \A b \in DOMAIN bills : bills[b].title # req[r].row.title
           /\ Go(r, Held(r, "bill", req[r].item, {}, {}, FALSE)) /\ Ok
  BY <1>2, <1>3
<1>4. CASE Fault /\ Go(r, Held(r, "bill", req[r].item, {}, {}, FALSE))
  <2>1. faults' # 0
    BY <1>1, <1>4 DEF Fault, TypeOK
  <2> QED
    BY <1>2, <1>4, <2>1
<1>5. CASE Reply(r, "error") /\ Ok
  BY <1>1, <1>5, ReplyKeeps
<1> QED
  BY <1>3, <1>4, <1>5, Zenon DEF FindLoanBill

\* The loan's bill is inserted, under the title that was looked for.
LEMMA InsertLoanBillKeeps ==
  ASSUME PostingInv, NEW r \in Requests, InsertLoanBill(r)
  PROVE  PostingInv'
<1>1. /\ TypeOK /\ LocalOK(r) /\ HoldsOK(r) /\ req[r].op = "loan"
      /\ req[r].pc = "bill" /\ req[r].pc \in Working /\ "ok" \in Answered
      /\ req[r] \in Request /\ UNCHANGED <<dividends, loans, ledger>>
  BY DEF PostingInv, TypeOK, InsertLoanBill, At, Working, Answered
<1>2. ASSUME NEW b \in Bills, InsertBill(b, req[r].row),
             Go(r, Held(r, "ok", req[r].item, {}, {b}, FALSE)), Ok
      PROVE  PostingInv'
  <2> DEFINE none == {}
             made == {b}
             item == req[r].item
  <2>1. /\ none \in SUBSET Bills /\ made \in SUBSET Items /\ item \in Items \cup {None}
        /\ Go(r, Held(r, "ok", item, none, made, FALSE))
        /\ req[r].op # "apply" => item = req[r].item
    BY <1>1, <1>2 DEF Items, Request
  <2>0. none = {} /\ made = {b} /\ item = req[r].item /\ req[r].row \in Bill
    BY <1>1 DEF Request
  <2> HIDE DEF none, made, item
  <2>2. /\ Moves(r) /\ req'[r].pc = "ok" /\ req'[r].item = item
        /\ req'[r].todo = none /\ req'[r].posted = made /\ req'[r].marked = FALSE
    <3>1. TypeOK /\ req[r].pc \in Working /\ "ok" \in Working \cup Answered
      BY <1>1
    <3> QED
      BY <2>1, <3>1, GoOn
  <2>3. /\ req'[r].op = "loan" /\ req'[r].row = req[r].row /\ req[r].posted = {}
        /\ ~Begins(r)
    BY <1>1, <2>2 DEF Moves, HoldsOK, Begins, Working
  <2>4. b \notin issued /\ issued' = issued \cup {b}
    BY <1>2 DEF InsertBill
  <2>5. LocalOK(r)' /\ HoldsOK(r)'
    BY <1>1, <2>0, <2>2, <2>3, <2>4 DEF LocalOK, HoldsOK
  <2>6. LoanStep(r)
    BY <1>1, <2>0, <2>2, <2>3, <2>4 DEF LoanStep
  <2>7. Rows(r)
    BY <1>1, <1>2, <2>0, <2>3, InsertBillRows
  <2>8. Entries(r)
    BY <1>1, <2>2, <2>3, LedgerStays
  <2> QED
    BY <2>0, <2>2, <2>3, <2>5, <2>6, <2>7, <2>8, MoveKeeps
<1>3. CASE Reply(r, Failure(r)) /\ Fault /\ UNCHANGED <<bills, issued>>
  <2>1. Failure(r) \in {"ok", "error"}
    BY DEF Failure
  <2> QED
    BY <1>1, <1>3, <2>1, ReplyKeeps
<1> QED
  BY <1>2, <1>3, Zenon DEF InsertLoanBill

\* The income of a dividend is posted.
LEMMA InsertIncomeKeeps ==
  ASSUME PostingInv, NEW r \in Requests, InsertIncome(r)
  PROVE  PostingInv'
<1>1. /\ TypeOK /\ LocalOK(r) /\ HoldsOK(r) /\ req[r].op = "dividend"
      /\ req[r].pc = "entry" /\ req[r].pc \in Working /\ "mark" \in Working
      /\ req[r] \in Request /\ UNCHANGED <<bills, dividends, loans, issued>>
  BY DEF PostingInv, TypeOK, InsertIncome, At, Working
<1>2. CASE /\ InsertEntry(r, req[r].item, req[r].month, None)
           /\ Posted(r, "mark", req[r].item, req[r].item) /\ Ok
  <2> DEFINE d == req[r].item
             m == req[r].month
  <2>1. /\ d \in Dividends \cap issued /\ d \notin Bills /\ req[r].posted = {}
        /\ d \in Items /\ d \in Bills \cup Dividends
        /\ req[r].todo = {} /\ d = req[r].item /\ m \in Months
        /\ None \in {d, None} \cap (Bills \cup {None})
    BY <1>1, PostingAssumption DEF HoldsOK, Request, Items
  <2>2. /\ InsertEntry(r, d, m, None)
        /\ Go(r, Held(r, "mark", d, req[r].todo \ {d}, req[r].posted \cup {d}, FALSE))
    BY <1>2 DEF Posted
  <2>0. /\ req[r].todo \ {d} \in SUBSET Bills /\ req[r].posted \cup {d} \in SUBSET Items
        /\ d \in Items \cup {None}
    BY <2>1
  <2>3. /\ Moves(r) /\ req'[r].pc = "mark" /\ req'[r].item = d
        /\ req'[r].todo = req[r].todo \ {d} /\ req'[r].posted = req[r].posted \cup {d}
        /\ req'[r].marked = FALSE
    <3> DEFINE todo == req[r].todo \ {d}
               posted == req[r].posted \cup {d}
    <3>1. todo \in SUBSET Bills /\ posted \in SUBSET Items
      BY <2>0
    <3>2. Go(r, Held(r, "mark", d, todo, posted, FALSE))
      BY <2>2
    <3> HIDE DEF todo, posted
    <3>3. /\ Moves(r) /\ req'[r].pc = "mark" /\ req'[r].item = d /\ req'[r].todo = todo
          /\ req'[r].posted = posted /\ req'[r].marked = FALSE
      BY <1>1, <2>0, <3>1, <3>2, GoOn
    <3> QED
      BY <3>3 DEF todo, posted
  <2> HIDE DEF d, m
  <2>4. req'[r].op = "dividend"
    BY <1>1, <2>3 DEF Moves
  <2>5. d \notin req[r].posted /\ req'[r].posted = req[r].posted \cup {d}
    BY <2>1, <2>3
  <2>6. Entries(r)
    BY <2>1, <2>2, <2>3, <2>5, InsertEntries
  <2>7. Rows(r)
    BY <1>1, <1>2, RowsStay
  <2>8. LocalOK(r)' /\ HoldsOK(r)'
    BY <1>1, <2>1, <2>3, <2>4 DEF LocalOK, HoldsOK
  <2> QED
    BY <2>1, <2>3, <2>4, <2>6, <2>7, <2>8, MoveKeeps
<1>3. CASE Reply(r, Failure(r)) /\ Fault /\ UNCHANGED ledger
  <2>1. Failure(r) \in {"ok", "error"}
    BY DEF Failure
  <2> QED
    BY <1>1, <1>3, <2>1, ReplyKeeps
<1> QED
  BY <1>2, <1>3, Zenon DEF InsertIncome

\* The dividend is marked, if it is still there: its entry has been posted.
LEMMA MarkAppliedKeeps ==
  ASSUME PostingInv, NEW r \in Requests, MarkApplied(r)
  PROVE  PostingInv'
<1> DEFINE d == req[r].item
<1>1. /\ TypeOK /\ LocalOK(r) /\ HoldsOK(r) /\ req[r].op = "dividend"
      /\ req[r].pc = "mark" /\ req[r].pc \in Working /\ "ok" \in Answered
      /\ req[r] \in Request /\ UNCHANGED <<bills, loans, issued, ledger>>
  BY DEF PostingInv, TypeOK, MarkApplied, At, Working, Answered
<1>2. CASE /\ d \in DOMAIN dividends /\ dividends' = Put(dividends, d, TRUE)
           /\ Go(r, Held(r, "ok", d, {}, req[r].posted, TRUE)) /\ Ok
  <2> DEFINE none == {}
             new == TRUE
  <2>1. /\ none \in SUBSET Bills /\ req[r].posted \in SUBSET Items /\ new \in BOOLEAN
        /\ d \in Items \cup {None}
        /\ Go(r, Held(r, "ok", d, none, req[r].posted, new))
    BY <1>1, <1>2 DEF Request
  <2>0. none = {} /\ new = TRUE /\ d = req[r].item
    OBVIOUS
  <2>2. /\ d \in Dividends \cap issued /\ req[r].posted \subseteq {d} /\ d \in req[r].posted
    BY <1>1 DEF HoldsOK
  <2> HIDE DEF none, new
  <2>9. /\ Moves(r) /\ req'[r].pc = "ok" /\ req'[r].item = d /\ req'[r].todo = none
        /\ req'[r].posted = req[r].posted /\ req'[r].marked = new
    BY <1>1, <2>1, GoFields
  <2> HIDE DEF d
  <2>3. /\ Moves(r) /\ req'[r].pc = "ok" /\ req'[r].item = d /\ req'[r].todo = {}
        /\ req'[r].posted = req[r].posted /\ req'[r].marked = TRUE
    BY <2>0, <2>9
  <2>4. req'[r].op = "dividend"
    BY <1>1, <2>3 DEF Moves
  <2>5. /\ DOMAIN dividends' = DOMAIN dividends /\ dividends' \in [DOMAIN dividends' -> BOOLEAN]
        /\ dividends'[d]
        /\ \A c \in DOMAIN dividends : c # d => dividends'[c] = dividends[c]
    BY <1>1, <1>2 DEF Put, TypeOK
  <2>6. Rows(r)
    <3>1. BillRows(r) /\ LoanRows(r)
      BY <1>1 DEF BillRows, LoanRows
    <3> QED
      BY <1>1, <1>2, <2>2, <2>3, <2>5, <3>1 DEF Rows, TypeOK, Ok
  <2>7. Entries(r)
    BY <1>1, <2>3, LedgerStays
  <2>8. LocalOK(r)' /\ HoldsOK(r)'
    BY <1>1, <2>2, <2>3, <2>4, <2>5 DEF LocalOK, HoldsOK
  <2> QED
    BY <1>1, <2>2, <2>3, <2>4, <2>6, <2>7, <2>8, MoveKeeps DEF TypeOK
<1>3. CASE (Ok \/ Fault) /\ Reply(r, Failure(r)) /\ UNCHANGED dividends
  <2>1. Failure(r) \in {"ok", "error"}
    BY DEF Failure
  <2> QED
    BY <1>1, <1>3, <2>1, ReplyKeeps
<1> QED
  BY <1>2, <1>3, Zenon DEF MarkApplied

----------------------------------------------------------------------------
\* Requests may be cut off, and nothing else happens.
CutOff ==
  /\ req' \in [Requests -> Request]
  /\ \A x \in Requests :
       /\ req'[x].op = req[x].op /\ req'[x].before = req[x].before
       /\ req'[x].item = req[x].item /\ req'[x].posted = req[x].posted
       /\ req'[x].marked = req[x].marked /\ req'[x].month = req[x].month
       /\ req'[x].listed = req[x].listed /\ req'[x].row = req[x].row
       /\ \/ req'[x] = req[x]
          \/ req[x].pc \in Working /\ req'[x].pc = "lost" /\ req'[x].todo = {}

\* What was posted stays posted.
LEMMA CutOffKeeps ==
  ASSUME PostingInv, CutOff, UNCHANGED <<bills, dividends, loans, issued, ledger>>,
         faults' \in 0..MaxFaults, faults' = 0 => faults = 0
  PROVE  PostingInv'
<1>1. /\ TypeOK /\ req' \in [Requests -> Request]
      /\ bills' = bills /\ dividends' = dividends /\ loans' = loans
      /\ issued' = issued /\ ledger' = ledger
      /\ \A x \in Requests : req[x].before \subseteq Requests
  BY DEF PostingInv, CutOff, TypeOK, Request
<1>2. \A x \in Requests :
        /\ req'[x].op = req[x].op /\ req'[x].before = req[x].before
        /\ req'[x].item = req[x].item /\ req'[x].posted = req[x].posted
        /\ req'[x].marked = req[x].marked /\ req'[x].month = req[x].month
        /\ req'[x].listed = req[x].listed /\ req'[x].row = req[x].row
  BY DEF CutOff
<1>3. \A x \in Requests :
        \/ req'[x].pc = req[x].pc /\ req'[x].todo = req[x].todo
           /\ (req[x].pc = "idle" => req'[x] = req[x])
        \/ req[x].pc \in Working /\ req'[x].pc = "lost" /\ req'[x].todo = {}
  BY DEF CutOff
<1>4. /\ \A b : Untouched(b)' <=> Untouched(b)
      /\ \A i, t : KeepsTitle(i, t)' <=> KeepsTitle(i, t)
  BY <1>2 DEF Untouched, KeepsTitle
<1>5. TypeOK'
  <2>1. \A e \in DOMAIN ledger : e[2] \in req'[e[1]].posted
    BY <1>1, <1>2 DEF TypeOK
  <2>2. \A x \in Requests : req'[x].todo \cap req'[x].posted = {}
    BY <1>1, <1>2, <1>3 DEF TypeOK
  <2> QED
    BY <1>1, <2>1, <2>2 DEF TypeOK
<1>6. ASSUME NEW x \in Requests
      PROVE  LocalOK(x)' /\ BeforeOK(x)' /\ HoldsOK(x)' /\ Named(x)'
  <2>1. LocalOK(x) /\ BeforeOK(x) /\ HoldsOK(x) /\ Named(x)
    BY DEF PostingInv
  <2>2. LocalOK(x)'
    BY <2>1, <1>2, <1>3 DEF LocalOK, Answered, Working
  <2>3. BeforeOK(x)'
    <3>1. \A q \in req[x].before : q \in Requests
      BY <1>1
    <3> QED
      BY <2>1, <3>1, <1>2, <1>3 DEF BeforeOK, Answered, Working
  <2>4. HoldsOK(x)'
    BY <2>1, <1>1, <1>2, <1>3 DEF HoldsOK, Working
  <2>5. Named(x)'
    BY <2>1, <1>1, <1>2, <1>4 DEF Named
  <2> QED
    BY <2>2, <2>3, <2>4, <2>5
<1>7. Links'
  BY <1>1, <1>4 DEF PostingInv, Links
<1>8. RepeatPostsOnce'
  <2>1. \A f \in DOMAIN ledger : f[1] \in Requests
    BY <1>1 DEF TypeOK
  <2> QED
    BY <2>1, <1>1, <1>2, <1>4 DEF PostingInv, RepeatPostsOnce
<1>9. ASSUME NEW x \in Requests PROVE TodoOK(x)'
  BY <1>1, <1>2, <1>3, <1>4 DEF PostingInv, TodoOK
<1>10. ASSUME NEW x \in Requests PROVE ListedOK(x)'
  BY <1>1, <1>2, <1>3, <1>4 DEF PostingInv, ListedOK, HasEntry
<1>11. AppliedIsPosted'
  BY <1>1, <1>2 DEF PostingInv, AppliedIsPosted
<1>12. ASSUME NEW x \in Requests PROVE MarkedOK(x)'
  BY <1>1, <1>2 DEF PostingInv, MarkedOK
<1>13. ASSUME faults' = 0, NEW x \in Requests PROVE LoanOK(x)'
  <2>1. LoanOK(x)
    BY <1>13 DEF PostingInv
  <2>2. req'[x].pc = "bill" => req[x].pc = "bill"
    BY <1>3
  <2>3. \A q \in Requests : BillStands(q, x)' => BillStands(q, x)
    BY <1>1, <1>2, <1>4 DEF BillStands
  <2>4. SUFFICES ASSUME NEW q \in Requests, BillStands(q, x)'
                 PROVE  /\ req'[x].row.title = req'[q].row.title
                        /\ req'[x].pc # "bill" /\ req'[x].posted = {}
    BY DEF LoanOK, BillStands, KeepsTitle
  <2> QED
    BY <2>1, <2>2, <2>3, <2>4, <1>2 DEF LoanOK
<1> QED
  BY <1>1, <1>5, <1>6, <1>7, <1>8, <1>9, <1>10, <1>11, <1>12, <1>13 DEF PostingInv

\* The process dies.
LEMMA CrashKeeps ==
  ASSUME PostingInv, Crash
  PROVE  PostingInv'
<1>1. TypeOK /\ req \in [Requests -> Request] /\ Fault
  BY DEF PostingInv, TypeOK, Crash
<1>2. ASSUME NEW x \in Requests
      PROVE  /\ req'[x] \in Request
             /\ req'[x].op = req[x].op /\ req'[x].before = req[x].before
             /\ req'[x].item = req[x].item /\ req'[x].posted = req[x].posted
             /\ req'[x].marked = req[x].marked /\ req'[x].month = req[x].month
             /\ req'[x].listed = req[x].listed /\ req'[x].row = req[x].row
             /\ \/ req'[x] = req[x]
                \/ req[x].pc \in Working /\ req'[x].pc = "lost" /\ req'[x].todo = {}
  <2>1. req[x] \in Request
    BY <1>1
  <2>2. CASE x \in InFlight
    <3>1. req'[x] = Ended(x, "lost") /\ req[x].pc \in Working
      BY <2>2 DEF Crash, InFlight
    <3> QED
      BY <2>1, <3>1 DEF Ended, Held, Request, Answered
  <2>3. CASE x \notin InFlight
    BY <2>1, <2>3 DEF Crash
  <2> QED
    BY <2>2, <2>3
<1>3. CutOff
  <2>1. req' \in [Requests -> Request]
    BY <1>2 DEF Crash
  <2> QED
    BY <2>1, <1>2 DEF CutOff
<1>4. faults' \in 0..MaxFaults /\ (faults' = 0 => faults = 0)
  BY <1>1, PostingAssumption DEF TypeOK, Fault
<1> QED
  BY <1>3, <1>4, CutOffKeeps DEF Crash

\* At the start there are bills and dividends, and nothing has been posted.
LEMMA InitPosting == Init => PostingInv
<1> SUFFICES ASSUME Init PROVE PostingInv
  OBVIOUS
<1>1. /\ issued = Opening /\ faults = 0
      /\ DOMAIN loans = {} /\ loans \in [DOMAIN loans -> Names]
      /\ DOMAIN bills = Opening \cap Bills /\ bills \in [DOMAIN bills -> Bill]
      /\ DOMAIN dividends = Opening \cap Dividends
      /\ \A d \in DOMAIN dividends : dividends[d] = FALSE
      /\ DOMAIN ledger = {} /\ ledger \in [DOMAIN ledger -> Entry]
      /\ \A r \in Requests : req[r] = Fresh
  BY DEF Init, NewBill, Bill, Titles
<1>2. req \in [Requests -> Request]
  BY FreshFits DEF Init
<1>3. dividends \in [DOMAIN dividends -> BOOLEAN]
  BY DEF Init
<1>4. TypeOK
  BY <1>1, <1>2, <1>3, FreshFits, PostingAssumption DEF TypeOK, Items
<1>5. \A r \in Requests : req[r].pc = "idle" /\ req[r].op = "none" /\ req[r].todo = {}
                          /\ req[r].posted = {} /\ req[r].marked = FALSE
                          /\ req[r].before = {} /\ req[r] = Fresh
  BY <1>1, FreshFits
<1>6. \A r \in Requests : LocalOK(r) /\ BeforeOK(r) /\ HoldsOK(r) /\ Named(r)
  BY <1>5 DEF LocalOK, BeforeOK, HoldsOK, Named
<1>7. \A r \in Requests : TodoOK(r) /\ ListedOK(r) /\ MarkedOK(r) /\ LoanOK(r)
  BY <1>1, <1>5 DEF TodoOK, ListedOK, MarkedOK, LoanOK, BillStands
<1>8. Links /\ RepeatPostsOnce /\ AppliedIsPosted
  BY <1>1 DEF Links, RepeatPostsOnce, AppliedIsPosted
<1> QED
  BY <1>1, <1>4, <1>6, <1>7, <1>8 DEF PostingInv

\* Every step keeps the invariant.
LEMMA StepPosting == PostingInv /\ [Next]_vars => PostingInv'
<1> SUFFICES ASSUME PostingInv, [Next]_vars PROVE PostingInv'
  OBVIOUS
<1>1. ASSUME NEW r \in Requests, Serve(r) PROVE PostingInv'
  <2>1. CASE ApplyList(r) \/ ApplyMonth(r) \/ Post(r) \/ PostSaving(r) \/ CreditSaving(r)
             \/ ApplyDone(r)
    BY <2>1, ApplyListKeeps, ApplyMonthKeeps, PostKeepsInv, CreditSavingKeeps, ApplyDoneKeeps
  <2>2. CASE CreateBill(r) \/ UpdateBillRead(r) \/ UpdateBillWrite(r) \/ DeleteBill(r)
    BY <2>2, CreateBillKeeps, UpdateBillReadKeeps, UpdateBillWriteKeeps, DeleteBillKeeps
  <2>3. CASE CreateDividend(r) \/ ApplyDividend(r) \/ InsertIncome(r) \/ MarkApplied(r)
             \/ DeleteDividend(r)
    BY <2>3, CreateDividendKeeps, ApplyDividendKeeps, InsertIncomeKeeps, MarkAppliedKeeps,
       DeleteDividendKeeps
  <2>4. CASE UpdateEntry(r) \/ DeleteEntry(r)
    BY <2>4, EditsKeep
  <2>5. CASE CreateLoan(r) \/ UpdateLoanRead(r) \/ UpdateLoanWrite(r) \/ DeleteLoan(r)
             \/ BillLoan(r) \/ FindLoanBill(r) \/ InsertLoanBill(r)
    BY <2>5, CreateLoanKeeps, UpdateLoanReadKeeps, UpdateLoanWriteKeeps, DeleteLoanKeeps,
       BillLoanKeeps, FindLoanBillKeeps, InsertLoanBillKeeps
  <2> QED
    BY <1>1, <2>1, <2>2, <2>3, <2>4, <2>5 DEF Serve
<1>2. CASE UNCHANGED vars
  <2>1. CutOff /\ faults' \in 0..MaxFaults /\ (faults' = 0 => faults = 0)
    BY <1>2 DEF vars, CutOff, PostingInv, TypeOK
  <2> QED
    BY <1>2, <2>1, CutOffKeeps DEF vars
<1>3. CASE Crash
  BY <1>3, CrashKeeps
<1>4. CASE Finished
  BY <1>2, <1>4 DEF Finished
<1> QED
  BY <1>1, <1>2, <1>3, <1>4 DEF Next

----------------------------------------------------------------------------
\* The inductive invariant holds throughout.
THEOREM PostingInvariant == Spec => []PostingInv
<1> QED
  BY InitPosting, StepPosting, PTL DEF Spec

\* Rows are well formed, every entry names the request and the item it came
\* from, and what has been posted is no longer to be done.
THEOREM PostingTypeCorrect == Spec => []TypeOK
<1>1. PostingInv => TypeOK
  BY DEF PostingInv
<1> QED
  BY <1>1, PostingInvariant, PTL

\* Applying a month again posts no bill twice unless the requests overlapped;
\* and while the bill made for a loan stands and neither is renamed, the loan
\* gets another only from a request that overlapped or failed: for any number
\* of bills, loans and requests, failed statements, crashes and edits.
THEOREM BillsPostedOnce == Spec => []BillsOnce
<1>1. ASSUME PostingInv PROVE BillsOnce
  <2>1. RepeatPostsOnce
    BY <1>1 DEF PostingInv
  <2>2. LoanBilledOnce
    <3> SUFFICES ASSUME faults = 0, NEW q \in Requests, NEW r \in Requests,
                        BillStands(q, r), req[r].posted # {}
                 PROVE  FALSE
      BY DEF LoanBilledOnce, BillStands
    <3> QED
      BY <1>1 DEF PostingInv, LoanOK
  <2> QED
    BY <2>1, <2>2 DEF BillsOnce
<1> QED
  BY <1>1, PostingInvariant, PTL

\* An answer that a month was applied is true: each active bill it listed has
\* an entry in that month, whatever else was going on.
THEOREM AnswersAreComplete == Spec => []AnswerIsComplete
<1>1. ASSUME PostingInv PROVE AnswerIsComplete
  <2> SUFFICES ASSUME NEW r \in Requests, At(r, "apply", "ok"),
                      NEW b \in req[r].listed \ Savings, Untouched(b)
               PROVE  HasEntry(b, req[r].month)
    BY DEF AnswerIsComplete, HasEntry
  <2>1. ListedOK(r) /\ HoldsOK(r)
    BY <1>1 DEF PostingInv
  <2> QED
    BY <2>1 DEF ListedOK, HoldsOK, At
<1> QED
  BY <1>1, PostingInvariant, PTL

\* Income is posted before its dividend is marked as applied, and once it is
\* marked no later request posts it again.
THEOREM DividendsPostedOnce == Spec => []DividendsOnce
<1>1. ASSUME PostingInv PROVE DividendsOnce
  <2>1. AppliedIsPosted /\ TypeOK /\ Bills \cap Dividends = {}
    BY <1>1, PostingAssumption DEF PostingInv
  <2>2. MarkedNotRepeated
    <3> SUFFICES ASSUME NEW q \in Requests, NEW r \in Requests, req[q].marked,
                        q \in req[r].before, req[q].item \in req[r].posted
                 PROVE  FALSE
      BY DEF MarkedNotRepeated
    <3>1. /\ HoldsOK(q) /\ HoldsOK(r) /\ MarkedOK(r)
          /\ req[q].item \in Dividends
      BY <1>1 DEF PostingInv, HoldsOK
    <3>2. req[r].op = "dividend"
      BY <3>1, <2>1 DEF HoldsOK
    <3> QED
      BY <3>1, <3>2 DEF HoldsOK, MarkedOK
  <2> QED
    BY <2>1, <2>2 DEF DividendsOnce
<1> QED
  BY <1>1, PostingInvariant, PTL
=============================================================================
