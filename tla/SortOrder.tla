------------------------------ MODULE SortOrder ------------------------------
(***************************************************************************)
(* The manual order of stock_assets and other_assets (pg_stocks.go,        *)
(* pg_assets.go): sort_order is given by the INSERT and rewritten by       *)
(* Reorder, the one operation that runs in a transaction, with one UPDATE  *)
(* per row.  PostgreSQL at READ COMMITTED locks each row from its UPDATE   *)
(* until the end of the transaction and shows what was written only then.  *)
(*                                                                         *)
(* Both tables are one here: rows of a stock form a group, and a row of    *)
(* other_assets is a group by itself.  A row, and a stock held for the     *)
(* first time, are named after the request that inserts it.                *)
(***************************************************************************)
EXTENDS Integers, Sequences, FiniteSets

CONSTANTS
  Requests,    \* HTTP requests, each sent at most once
  Initial,     \* rows there are at the start, in order
  StockOf,     \* the group of each of them, named after one of its rows
  None,
  MaxFaults    \* bound on failed statements and process crashes

ASSUME SortOrderAssumption ==
  /\ Initial \in Seq({Initial[k] : k \in DOMAIN Initial} \ (Requests \cup {None}))
  /\ \A j, k \in DOMAIN Initial : Initial[j] = Initial[k] => j = k
  /\ \A k \in DOMAIN Initial : StockOf[Initial[k]] \in {Initial[j] : j \in DOMAIN Initial}
  /\ None \notin Requests
  /\ MaxFaults \in Nat

VARIABLES
  rows,     \* committed rows: group and position
  lock,     \* the transaction that locks each locked row
  req,      \* what each handler goroutine holds
  inTurn,   \* no two requests that place rows have overlapped
  faults    \* failures so far

vars == <<rows, lock, req, inTurn, faults>>

----------------------------------------------------------------------------
Ids == {Initial[k] : k \in DOMAIN Initial} \cup Requests

Answered == {"ok", "error", "lost"}

Working == {"update", "insert", "delete"}

\* list is the order a client asks for, or the one row it deletes; at is the
\* next UPDATE; row is what an INSERT will make visible.
Request == [pc : Working \cup {"idle", "listed"} \cup Answered,
            op : {"none", "reorder", "create", "delete"},
            list : Seq(Ids), at : Nat \ {0},
            row : [group : Ids, pos : Nat] \cup {None}]

Holding(pc, op, list, at, row) ==
  [pc |-> pc, op |-> op, list |-> list, at |-> at, row |-> row]

Fresh == Holding("idle", "none", <<>>, 1, None)

Ok == UNCHANGED faults
Fault == faults < MaxFaults /\ faults' = faults + 1

\* Requests that will place rows, from the moment their client looks.
Placing == {r \in Requests : req[r].op \in {"create", "reorder"}
                              /\ req[r].pc \in Working \cup {"listed"}}

Open(r, pc, op, list, row) ==
  /\ req[r].pc = "idle"
  /\ req' = [req EXCEPT ![r] = Holding(pc, op, list, 1, row)]

Alone == inTurn' = (inTurn /\ Placing = {})

\* r goes on with its list, or is answered and keeps the row it inserted.
Moved(r, at) == Holding("update", req[r].op, req[r].list, at, req[r].row)
Done(r, pc) == Holding(pc, req[r].op, <<>>, 1, req[r].row)

GoOn(r, at) == req' = [req EXCEPT ![r] = Moved(r, at)]

Answer(r, pc) == req' = [req EXCEPT ![r] = Done(r, pc)]

At(r, op, pc) == req[r].op = op /\ req[r].pc = pc

Groups == {rows[i].group : i \in DOMAIN rows}

\* The position of row i in the list r asks for.
Place(r, i) == (CHOOSE k \in DOMAIN req[r].list : req[r].list[k] = i) - 1

Placed(r, i) == [group |-> rows[i].group, pos |-> Place(r, i)]

Listed(r) == {req[r].list[k] : k \in DOMAIN req[r].list}

\* Rows that the transaction of r has locked, and written.
Held(r) == {i \in DOMAIN lock : lock[i] = r}

Unlock(r) == lock' = [i \in DOMAIN lock \ Held(r) |-> lock[i]]

----------------------------------------------------------------------------
(* PATCH /api/stocks/reorder and /api/assets/reorder. *)

\* The client keeps the rows of a group together.
Grouped(list) ==
  \A i, j, k \in DOMAIN list :
    i < j /\ j < k /\ rows[list[i]].group = rows[list[k]].group
      => rows[list[j]].group = rows[list[i]].group

Orders ==
  {list \in [1..Cardinality(DOMAIN rows) -> DOMAIN rows] :
     /\ \A i, j \in DOMAIN list : list[i] = list[j] => i = j
     /\ Grouped(list)}

\* The client shows the rows there are and the user drags them about.  An
\* empty list is answered at once and changes nothing.
List(r) ==
  /\ req[r].pc = "idle"
  /\ rows # [i \in {} |-> None]
  /\ \E list \in Orders : Open(r, "listed", "reorder", list, None)
  /\ Ok
  /\ Alone
  /\ UNCHANGED <<rows, lock>>

\* The request arrives, maybe much later.
Begin(r) ==
  /\ req[r].pc = "listed"
  /\ GoOn(r, req[r].at)
  /\ Ok
  /\ UNCHANGED <<rows, lock, inTurn>>

\* The row of the next UPDATE, if there is one.
NextRow(r) ==
  IF At(r, "reorder", "update") /\ req[r].at \in DOMAIN req[r].list
  THEN req[r].list[req[r].at] ELSE None

\* Faulty: every UPDATE commits by itself.
UpdateRowAtOnce(r) ==
  LET i == NextRow(r)
  IN /\ i # None
     /\ rows' = [j \in DOMAIN rows |->
                   IF j = i THEN Placed(r, i) ELSE rows[j]]
     /\ GoOn(r, req[r].at + 1)
     /\ Ok
     /\ UNCHANGED <<lock, inTurn>>

\* Waits while another transaction has the row, passes over one that is gone.
UpdateRow(r) ==
  LET i == NextRow(r)
  IN /\ i # None
     /\ \/ /\ i \in DOMAIN rows
           /\ i \notin DOMAIN lock
           /\ lock' = [j \in DOMAIN lock \cup {i} |-> IF j = i THEN r ELSE lock[j]]
        \/ i \notin DOMAIN rows /\ UNCHANGED lock
     /\ GoOn(r, req[r].at + 1)
     /\ Ok
     /\ UNCHANGED <<rows, inTurn>>

\* Everything r wrote becomes visible.
Written(r) ==
  [i \in DOMAIN rows |->
     IF i \in Held(r) THEN Placed(r, i) ELSE rows[i]]

\* An error of COMMIT may come before or after it took effect.
Commit(r) ==
  /\ At(r, "reorder", "update")
  /\ req[r].at \notin DOMAIN req[r].list
  /\ \/ rows' = Written(r) /\ Answer(r, "ok") /\ Ok
     \/ rows' \in {rows, Written(r)} /\ Answer(r, "error") /\ Fault
  /\ Unlock(r)
  /\ UNCHANGED inTurn

\* Faulty: no deferred rollback.
AbortWithoutRollback(r) ==
  /\ Answer(r, "error")
  /\ UNCHANGED <<rows, lock, inTurn>>

\* The deferred Rollback after an error.
Abort(r) ==
  /\ Answer(r, "error")
  /\ Unlock(r)
  /\ UNCHANGED <<rows, inTurn>>

\* An UPDATE fails, or the client goes away while it waits.
UpdateFails(r) ==
  /\ At(r, "reorder", "update")
  /\ Fault
  /\ Abort(r)

\* The transaction that r waits for.
Blocker(r) == IF NextRow(r) \in DOMAIN lock THEN lock[NextRow(r)] ELSE None

\* PostgreSQL ends one of the transactions that wait for each other in a ring.
Deadlock(r) ==
  /\ Blocker(r) # None
  /\ \E ring \in SUBSET Requests :
       r \in ring /\ {Blocker(q) : q \in ring} = ring
  /\ Ok
  /\ Abort(r)

----------------------------------------------------------------------------
(* The INSERT of Create, which reads the positions as they are committed   *)
(* when it starts.                                                         *)

Positions(G) == {rows[i].pos : i \in {j \in DOMAIN rows : rows[j].group \in G}}

Least(S) == CHOOSE p \in S : \A q \in S : p <= q
Greatest(S) == CHOOSE p \in S : \A q \in S : q <= p

\* Faulty: always at the end.
NewPositionAtEnd(group) ==
  IF rows = [i \in {} |-> None] THEN 0 ELSE Greatest(Positions(Groups)) + 1

NewPosition(group) ==
  IF group \in Groups THEN Least(Positions({group}))
  ELSE IF Groups = {} THEN 0
  ELSE Greatest(Positions(Groups)) + 1

\* A stock in the portfolio, or in a request, or one that is new.
Stocks(r) ==
  Groups \cup {r} \cup {req[q].row.group : q \in {p \in Requests : req[p].op = "create"}}

Insert(r) ==
  /\ \E group \in Stocks(r) :
       Open(r, "insert", "create", <<>>, [group |-> group, pos |-> NewPosition(group)])
  /\ Ok
  /\ Alone
  /\ UNCHANGED <<rows, lock>>

InsertCommit(r) ==
  /\ At(r, "create", "insert")
  /\ \/ /\ rows' = [i \in DOMAIN rows \cup {r} |->
                      IF i = r THEN req[r].row ELSE rows[i]]
        /\ Answer(r, "ok")
        /\ Ok
     \/ Answer(r, "error") /\ Fault /\ UNCHANGED rows
  /\ UNCHANGED <<lock, inTurn>>

----------------------------------------------------------------------------
(* The DELETE of a row, which waits for its lock too. *)

Delete(r) ==
  /\ \E i \in DOMAIN rows : Open(r, "delete", "delete", <<i>>, None)
  /\ Ok
  /\ UNCHANGED <<rows, lock, inTurn>>

DeleteRow(r) ==
  LET i == req[r].list[1]
  IN /\ At(r, "delete", "delete")
     /\ \/ /\ i \in DOMAIN rows \ DOMAIN lock
           /\ rows' = [j \in DOMAIN rows \ {i} |-> rows[j]]
           /\ Answer(r, "ok")
           /\ Ok
        \/ i \notin DOMAIN rows /\ Answer(r, "error") /\ Ok /\ UNCHANGED rows
        \/ Answer(r, "error") /\ Fault /\ UNCHANGED rows
     /\ UNCHANGED <<lock, inTurn>>

----------------------------------------------------------------------------
\* The process stops: its connections end, and with them its transactions.
Crash ==
  /\ \E r \in Requests : req[r].pc \in Working
  /\ Fault
  /\ req' = [r \in Requests |->
               IF req[r].pc \in Working THEN Done(r, "lost") ELSE req[r]]
  /\ lock' = [i \in {} |-> None]
  /\ UNCHANGED <<rows, inTurn>>

\* Every request has been answered: the model, not the server, stops.
Finished ==
  /\ \A r \in Requests : req[r].pc \in Answered
  /\ UNCHANGED vars

\* The one-time backfill numbers the rows of a couple from 0, by their age and
\* whatever their stock, so it may leave a stock on both sides of another.
Init ==
  /\ rows = [i \in Ids \ Requests |->
              [group |-> StockOf[i],
               pos |-> (CHOOSE k \in DOMAIN Initial : Initial[k] = i) - 1]]
  /\ lock = [i \in {} |-> None]
  /\ req = [r \in Requests |-> Fresh]
  /\ inTurn = TRUE
  /\ faults = 0

\* What the server and the database do once a request has arrived.
Serve(r) ==
  \/ UpdateRow(r) \/ Commit(r) \/ Deadlock(r) \/ InsertCommit(r) \/ DeleteRow(r)

Next ==
  \/ \E r \in Requests :
       \/ List(r) \/ Begin(r) \/ Insert(r) \/ Delete(r)
       \/ UpdateFails(r) \/ Serve(r)
  \/ Crash
  \/ Finished

Spec == Init /\ [][Next]_vars

\* Statements end, a row goes to those who wait for it when it is free, and
\* PostgreSQL looks for deadlocks.
FairSpec == Spec /\ \A r \in Requests : WF_vars(Serve(r))

----------------------------------------------------------------------------
\* Rows are well formed, and a locked row exists and is locked by a request
\* that is still rewriting the order it is in.
TypeOK ==
  /\ DOMAIN rows \subseteq Ids
  /\ \A i \in DOMAIN rows :
       rows[i] \in [group : Ids, pos : Nat]
  /\ req \in [Requests -> Request]
  /\ inTurn \in BOOLEAN
  /\ faults \in 0..MaxFaults
  /\ DOMAIN lock \subseteq DOMAIN rows
  /\ \A i \in DOMAIN lock :
       /\ lock[i] \in Requests
       /\ At(lock[i], "reorder", "update")
       /\ \E k \in 1..req[lock[i]].at - 1 : req[lock[i]].list[k] = i

\* Two groups come to the same position only by requests that overlapped,
\* whatever is deleted or fails meanwhile.
TiesNeedOverlap ==
  inTurn => \A i, j \in DOMAIN rows :
              rows[i].pos = rows[j].pos => rows[i].group = rows[j].group

\* The backfill has put a row of h between two of g.
ApartAtStart(g, h) ==
  \E i, j, k \in DOMAIN Initial :
    /\ i < j /\ j < k
    /\ StockOf[Initial[i]] = g /\ StockOf[Initial[j]] = h /\ StockOf[Initial[k]] = g

Reordered == \E r \in Requests : At(r, "reorder", "ok")

LeftApart(g, h) == ApartAtStart(g, h) /\ ~Reordered

\* Another stock stands between two rows of one only after requests that
\* overlapped, or where the backfill has left them so, and there no longer
\* than until somebody reorders.
SplitsNeedOverlap ==
  inTurn => \A i, j, k \in DOMAIN rows :
              /\ rows[i].group = rows[k].group
              /\ rows[i].pos < rows[j].pos /\ rows[j].pos < rows[k].pos
              => \/ rows[j].group = rows[i].group
                 \/ LeftApart(rows[i].group, rows[j].group)

\* Stocks have positions of their own, and the rows of each stay or come
\* together, unless requests overlapped.
DisorderNeedsOverlap == TiesNeedOverlap /\ SplitsNeedOverlap

\* Reordering is all or nothing, although it is one UPDATE per row and other
\* requests run between them: SortOrder implements ManualOrder.
Order ==
  INSTANCE ManualOrder WITH
    Clients <- Requests,
    position <- [i \in DOMAIN rows |-> rows[i].pos],
    asked <- [r \in Requests |-> IF req[r].op = "reorder" THEN req[r].list ELSE <<>>]

ReorderAsOne == Order!Spec

\* Every request that arrived is answered or lost with the process, also when
\* transactions wait for each other in a ring.
EveryRequestEnds ==
  \A r \in Requests : (req[r].pc \in Working) ~> (req[r].pc \in Answered)
=============================================================================
