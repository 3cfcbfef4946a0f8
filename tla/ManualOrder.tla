----------------------------- MODULE ManualOrder -----------------------------
(***************************************************************************)
(* What reordering promises, free of statements, transactions and locks:   *)
(* the position of each row of a list, and the lists that clients asked    *)
(* for.  An order that was asked for is applied whole and once, or not at  *)
(* all.                                                                    *)
(***************************************************************************)
EXTENDS Integers, Sequences

CONSTANTS Clients

VARIABLES
  position,  \* position of each row there is
  asked      \* the order each client asks for, or <<>>

vars == <<position, asked>>

Place(list, row) == (CHOOSE k \in DOMAIN list : list[k] = row) - 1

Listed(list) == {list[k] : k \in DOMAIN list}

Init == asked = [c \in Clients |-> <<>>]

OthersAsk(c) == \A d \in Clients \ {c} : asked'[d] = asked[d]

\* A client decides on an order.
Ask(c) ==
  /\ asked[c] = <<>>
  /\ OthersAsk(c)
  /\ UNCHANGED position

\* Requests end in an error, or with the process.
GiveUp ==
  /\ \A c \in Clients : asked'[c] \in {asked[c], <<>>}
  /\ UNCHANGED position

\* Rows that are gone are passed over, rows not listed stay where they are.
Arrange(c) ==
  /\ position' = [row \in DOMAIN position |->
                    IF row \in Listed(asked[c]) THEN Place(asked[c], row)
                                                ELSE position[row]]
  /\ asked'[c] = <<>>
  /\ OthersAsk(c)

\* A row comes or goes and moves no other.
AddOrRemove ==
  /\ DOMAIN position \subseteq DOMAIN position' \/ DOMAIN position' \subseteq DOMAIN position
  /\ \A row \in DOMAIN position \cap DOMAIN position' : position'[row] = position[row]
  /\ UNCHANGED asked

Next == AddOrRemove \/ GiveUp \/ \E c \in Clients : Ask(c) \/ Arrange(c)

Spec == Init /\ [][Next]_vars
=============================================================================
