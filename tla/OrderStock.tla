------------------------------ MODULE OrderStock ------------------------------
(***************************************************************************)
(* The stock rows of one warehouse and the primitives that move them:      *)
(* OrderStockService (reserve, consume, release), which every order and    *)
(* apartado handler calls inside its own transaction.                      *)
(*                                                                         *)
(* A primitive locks the stock row (SELECT ... FOR UPDATE) before it reads *)
(* it and keeps the lock until the caller commits, and the caller holds    *)
(* the row of its order or apartado too: what one transaction does to      *)
(* these rows is one step here.  A product without a stock row is a row    *)
(* with nothing in it: every primitive treats the two alike.               *)
(*                                                                         *)
(* A "need" is a function from products to units: what the lines of one    *)
(* order, or of one apartado, ask for, 0 where there is no line.           *)
(***************************************************************************)
EXTENDS Integers

CONSTANTS
  Products,    \* products of the warehouse
  Holders      \* what a stock movement refers to: orders, apartados, manual

VARIABLES
  stock,       \* commercial.stock: units on hand and units reserved
  held,        \* history: units each holder reserved and has not given up
  frozen       \* an open inventory count froze the warehouse

stockVars == <<stock, held>>

StockRow == [quantity : Nat, reserved : Nat]

Need == [Products -> Nat]

StockTypeOK ==
  /\ stock \in [Products -> StockRow]
  /\ held \in [Holders -> Need]
  /\ frozen \in BOOLEAN

StockInit ==
  /\ stock = [p \in Products |-> [quantity |-> 0, reserved |-> 0]]
  /\ held = [h \in Holders |-> [p \in Products |-> 0]]
  /\ frozen = FALSE

Lesser(a, b) == IF a < b THEN a ELSE b

\* A need for n units of p and nothing else: the call for a single line.
JustUnits(p, n) == [q \in Products |-> IF q = p THEN n ELSE 0]

\* Mistake: the units somebody reserved count as free.
AvailableIgnoringReserved(p) == stock[p].quantity

Available(p) == stock[p].quantity - stock[p].reserved

-----------------------------------------------------------------------------
(* assertNotFrozen: only a call that moves some product reaches it.        *)
NotFrozen(need) == (\E p \in Products : need[p] > 0) => ~frozen

(* reserve: all the lines or none, for a missing unit aborts the caller.   *)
MayReserve(need) ==
  /\ NotFrozen(need)
  /\ \A p \in Products : need[p] > 0 => Available(p) >= need[p]

Reserve(h, need) ==
  /\ MayReserve(need)
  /\ stock' = [p \in Products |->
                 [quantity |-> stock[p].quantity,
                  reserved |-> stock[p].reserved + need[p]]]
  /\ held' = [held EXCEPT ![h] = [p \in Products |-> held[h][p] + need[p]]]

\* Mistake: release only when the counter covers the whole request.
ReleaseAllOrNothing(p, n) == IF stock[p].reserved >= n THEN n ELSE 0

(* How much of a request for n comes off the reserved counter of p: what   *)
(* the whole product has reserved, not what the caller has.                *)
ReleaseQty(p, n) == Lesser(stock[p].reserved, n)

(* What the holder itself still had in the counter for p.                  *)
KeptAfter(h, need) == [p \in Products |-> held[h][p] - Lesser(held[h][p], need[p])]

(* release: gives units back to the available stock.                       *)
GiveBack(h, need) ==
  /\ stock' = [p \in Products |->
                 [quantity |-> stock[p].quantity,
                  reserved |-> stock[p].reserved - ReleaseQty(p, need[p])]]
  /\ held' = [held EXCEPT ![h] = KeptAfter(h, need)]

Release(h, need) == NotFrozen(need) /\ GiveBack(h, need)

\* Mistake: the shelf is not checked before the units leave.
ConsumeUnchecked(h, need) ==
  /\ NotFrozen(need)
  /\ stock' = [p \in Products |->
                 [quantity |-> stock[p].quantity - need[p],
                  reserved |-> stock[p].reserved - ReleaseQty(p, need[p])]]
  /\ held' = [held EXCEPT ![h] = KeptAfter(h, need)]

\* Mistake: the units leave and their reserve stays.
ConsumeKeepingReserve(h, need) ==
  /\ NotFrozen(need)
  /\ \A p \in Products : need[p] > 0 => stock[p].quantity >= need[p]
  /\ stock' = [p \in Products |->
                 [quantity |-> stock[p].quantity - need[p],
                  reserved |-> stock[p].reserved]]
  /\ held' = [held EXCEPT ![h] = KeptAfter(h, need)]

\* Mistake: only what was reserved is taken off the shelf.
ConsumeOnlyReserved(h, need) ==
  /\ NotFrozen(need)
  /\ \A p \in Products : need[p] > 0 => stock[p].quantity >= need[p]
  /\ stock' = [p \in Products |->
                 [quantity |-> stock[p].quantity - ReleaseQty(p, need[p]),
                  reserved |-> stock[p].reserved - ReleaseQty(p, need[p])]]
  /\ held' = [held EXCEPT ![h] = KeptAfter(h, need)]

(* consume: units leave the warehouse; the reserve goes with them.         *)
Consume(h, need) ==
  /\ NotFrozen(need)
  /\ \A p \in Products : need[p] > 0 => stock[p].quantity >= need[p]
  /\ stock' = [p \in Products |->
                 [quantity |-> stock[p].quantity - need[p],
                  reserved |-> stock[p].reserved - ReleaseQty(p, need[p])]]
  /\ held' = [held EXCEPT ![h] = KeptAfter(h, need)]

(* reserve then consume in the same transaction (deliverNow on a draft):   *)
(* the reserve comes and goes, the units leave.                            *)
ReserveAndConsume(need) ==
  /\ MayReserve(need)
  /\ stock' = [p \in Products |->
                 [quantity |-> stock[p].quantity - need[p],
                  reserved |-> stock[p].reserved]]
  /\ UNCHANGED held

-----------------------------------------------------------------------------
(***************************************************************************)
(* The CHECK constraints of commercial.stock: quantity >= 0,               *)
(* reserved_quantity >= 0 and quantity >= reserved_quantity.  The guards   *)
(* and the min() of the primitives must keep every handler inside them,    *)
(* in any order of handlers: one that trips a CHECK dies with a 500.       *)
(***************************************************************************)
StockSound ==
  \A p \in Products :
    /\ stock[p].reserved >= 0
    /\ stock[p].quantity >= stock[p].reserved
=============================================================================
