-------------------------- MODULE CommercialInventory --------------------------
(***************************************************************************)
(* CommercialInventoryService: the stock movements an operator, a          *)
(* receiving voucher or an import records.  Each locks the stock row       *)
(* before it reads it, so each is one step.  Lots are left out: a trigger  *)
(* keeps their sum equal to the row.                                       *)
(***************************************************************************)
EXTENDS OrderStock

CONSTANTS
  Manual,       \* holder of what recordMovement reserves, in nobody's name
  HandKinds,    \* kinds of movement the operators of this instance record
  MaxStock      \* bound: units of a product on hand

ASSUME InventoryAssumption ==
  /\ Manual \in Holders
  /\ HandKinds \subseteq {"in", "out", "adjust", "reserve", "release", "sale"}
  /\ MaxStock \in Nat

VARIABLE intake   \* history: net units movements other than orders brought in

InventoryTypeOK == intake \in [Products -> Int]
InventoryInit == intake = [p \in Products |-> 0]

\* A movement of one product: new balances, and what it changes in the books.
Move(p, quantity, reserved) ==
  /\ ~frozen
  /\ quantity <= MaxStock
  /\ stock' = [stock EXCEPT ![p] = [quantity |-> quantity, reserved |-> reserved]]
  /\ held' = [held EXCEPT ![Manual] =
                [held[Manual] EXCEPT ![p] =
                   IF reserved >= stock[p].reserved
                     THEN @ + (reserved - stock[p].reserved)
                     ELSE @ - Lesser(@, stock[p].reserved - reserved)]]
  /\ intake' = [intake EXCEPT ![p] = @ + (quantity - stock[p].quantity)]

\* 'in', and 'adjust' with its positive quantity.
MoveIn(p, n) == Move(p, stock[p].quantity + n, stock[p].reserved)

\* Mistake: 'out' may take what somebody reserved.
MoveOutReserved(p, n) ==
  /\ stock[p].quantity >= n
  /\ Move(p, stock[p].quantity - n, stock[p].reserved)

\* 'out': only what nobody reserved.
MoveOut(p, n) ==
  /\ Available(p) >= n
  /\ Move(p, stock[p].quantity - n, stock[p].reserved)

\* 'reserve', 'release' and 'sale' recorded by hand.
MoveReserve(p, n) ==
  /\ Available(p) >= n
  /\ Move(p, stock[p].quantity, stock[p].reserved + n)

MoveRelease(p, n) ==
  /\ stock[p].reserved >= n
  /\ Move(p, stock[p].quantity, stock[p].reserved - n)

MoveSale(p, n) ==
  /\ stock[p].reserved >= n
  /\ Move(p, stock[p].quantity - n, stock[p].reserved - n)

\* adjustStock: the balance a person counted.
AdjustStock(p, n) ==
  /\ n # stock[p].quantity
  /\ n >= stock[p].reserved
  /\ Move(p, n, stock[p].reserved)

RecordMovement(kind, p, n) ==
  /\ kind \in HandKinds
  /\ \/ kind = "in" /\ MoveIn(p, n)
     \/ kind = "out" /\ MoveOut(p, n)
     \/ kind = "reserve" /\ MoveReserve(p, n)
     \/ kind = "release" /\ MoveRelease(p, n)
     \/ kind = "sale" /\ MoveSale(p, n)
     \/ kind = "adjust" /\ AdjustStock(p, n - 1)

InventoryNext ==
  \E kind \in HandKinds, p \in Products, n \in 1..(MaxStock + 1) : RecordMovement(kind, p, n)
=============================================================================
