----------------------------- MODULE StockPromise -----------------------------
(***************************************************************************)
(* What the stock of a warehouse promises, whatever keeps the books: each  *)
(* holder owns the units it was allotted until it returns or takes them,   *)
(* and there is always enough on hand for everybody at once.               *)
(*                                                                         *)
(* The code keeps one reserved counter per product instead of an account   *)
(* per holder; that it honours these accounts all the same is what the     *)
(* refinement from SalesFloor checks.                                      *)
(***************************************************************************)
EXTENDS Integers, Functions

CONSTANTS Products, Holders

VARIABLES
  onhand,     \* units in the warehouse
  allotted    \* units each holder owns

Promised(p) == SumFunction([h \in Holders |-> allotted[h][p]])

Covered == \A p \in Products : Promised(p) <= onhand[p]

PromiseInit ==
  /\ onhand = [p \in Products |-> 0]
  /\ allotted = [h \in Holders |-> [p \in Products |-> 0]]

OnlyOf(h) == \A g \in Holders \ {h} : allotted'[g] = allotted[g]

\* A holder is promised more, out of what nobody owns.
Allot(h) ==
  /\ OnlyOf(h)
  /\ \A p \in Products : allotted'[h][p] >= allotted[h][p]
  /\ UNCHANGED onhand
  /\ Covered'

\* A holder returns some of its own units.
Return(h) ==
  /\ OnlyOf(h)
  /\ \A p \in Products : allotted'[h][p] <= allotted[h][p]
  /\ UNCHANGED onhand

\* A holder takes its own units away.
Deliver(h) ==
  /\ OnlyOf(h)
  /\ \A p \in Products :
       /\ allotted'[h][p] <= allotted[h][p]
       /\ onhand[p] - onhand'[p] = allotted[h][p] - allotted'[h][p]

\* Units come and go, but never the ones somebody owns.
Rebalance == UNCHANGED allotted /\ Covered'

PromiseNext ==
  \/ \E h \in Holders : Allot(h) \/ Return(h) \/ Deliver(h)
  \/ Rebalance

PromiseSpec == PromiseInit /\ [][PromiseNext]_<<onhand, allotted>>
=============================================================================
