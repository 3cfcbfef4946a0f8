------------------------------ MODULE Position ------------------------------
(***************************************************************************)
(* What the holdings promise, free of rows, goroutines and statements: the *)
(* shares held of each stock, the balance of its trade log, and how often  *)
(* it was edited by hand.  A trade moves shares and log together; nothing  *)
(* else moves either, except an edit, which moves the shares alone.        *)
(***************************************************************************)
EXTENDS Integers

CONSTANTS Stocks, Shares

VARIABLES
  held,    \* shares held of each stock, 0 when it is not in the portfolio
  book,    \* shares bought minus shares sold, by the log
  edits    \* times a stock was created, patched or deleted

vars == <<held, book, edits>>

Init ==
  /\ held \in [Stocks -> Shares \cup {0}]
  /\ book = [s \in Stocks |-> 0]
  /\ edits = [s \in Stocks |-> 0]

\* Move q shares of s, in the holding and in the log.
Trade(s, q) ==
  /\ held' = [held EXCEPT ![s] = @ + q]
  /\ book' = [book EXCEPT ![s] = @ + q]
  /\ UNCHANGED edits

Buy(s, q) == held[s] > 0 /\ Trade(s, q)

Sell(s, q) == q <= held[s] /\ Trade(s, -q)

Edit(s, q) ==
  /\ held' = [held EXCEPT ![s] = q]
  /\ edits' = [edits EXCEPT ![s] = @ + 1]
  /\ UNCHANGED book

Next ==
  \E s \in Stocks :
    \/ \E q \in Shares : Buy(s, q) \/ Sell(s, q)
    \/ \E q \in Shares \cup {0} : Edit(s, q)

Spec == Init /\ [][Next]_vars
=============================================================================
