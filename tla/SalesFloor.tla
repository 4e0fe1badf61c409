------------------------------ MODULE SalesFloor ------------------------------
(***************************************************************************)
(* The warehouse with everybody who moves its stock: orders, apartados and *)
(* their cron, and the movements recorded by hand.  They meet in the stock *)
(* rows and in the freeze, which an inventory count raises when it opens   *)
(* and lowers when it is reconciled or cancelled (InventoryCount has the   *)
(* life of the count itself).                                              *)
(***************************************************************************)
EXTENDS CommercialOrders, StockReservation, CommercialInventory, FiniteSets, Functions

ASSUME HoldersAssumption ==
  /\ IsFiniteSet(Holders)
  /\ Orders \cap Reservations = {}
  /\ Manual \notin Orders \union Reservations

vars == <<stockVars, frozen, orderVars, holdVars, intake>>

TypeOK ==
  /\ StockTypeOK
  /\ OrdersTypeOK
  /\ ReservationTypeOK
  /\ InventoryTypeOK

Init == StockInit /\ OrdersInit /\ ReservationInit /\ InventoryInit

OrdersStep == OrdersNext /\ UNCHANGED <<holdVars, intake, frozen>>
ReservationStep == ReservationNext /\ UNCHANGED <<orderVars, intake, frozen>>
InventoryStep == InventoryNext /\ UNCHANGED <<orderVars, holdVars, frozen>>

Freeze == ~frozen /\ frozen' = TRUE /\ UNCHANGED <<stockVars, orderVars, holdVars, intake>>
Thaw == frozen /\ frozen' = FALSE /\ UNCHANGED <<stockVars, orderVars, holdVars, intake>>

Next == OrdersStep \/ ReservationStep \/ InventoryStep \/ Freeze \/ Thaw

Spec == Init /\ [][Next]_vars

FairSpec == Spec /\ CronFairness

-----------------------------------------------------------------------------
HeldTotal(p) == SumFunction([h \in Holders |-> held[h][p]])
SoldTotal(p) == SumFunction([o \in Orders |-> sold[o][p]])

\* What the accepted orders and the open apartados ask for.
ClaimedTotal(p) ==
  SumFunction([o \in Orders |-> IF Active(o) THEN line[o][p] ELSE 0])
    + SumFunction([r \in Reservations |-> IF hold[r] = "active" THEN wanted[r][p] ELSE 0])

(***************************************************************************)
(* Every unit is accounted for: what is on the shelf is what came in less  *)
(* what the delivered orders took, each exactly once.                      *)
(***************************************************************************)
UnitsConserved ==
  \A p \in Products : stock[p].quantity = intake[p] - SoldTotal(p)

(***************************************************************************)
(* No unit is locked away for nobody: the reserved counter never exceeds   *)
(* what the accepted orders, the open apartados and the operators have in  *)
(* it, so when the last of them closes the whole stock is available again. *)
(***************************************************************************)
NoStrandedReserve ==
  \A p \in Products : stock[p].reserved <= ClaimedTotal(p) + held[Manual][p]

(***************************************************************************)
(* The reserved counter is the sum of what its holders reserved and have   *)
(* not given up: nobody's handler takes off it what somebody else put in.  *)
(* (Where every order reserves when it is accepted and no cron competes    *)
(* with a release or with another cron.)                                   *)
(***************************************************************************)
ReserveExact ==
  \A p \in Products : stock[p].reserved = HeldTotal(p)

(***************************************************************************)
(* Every accepted order and every open apartado can be delivered, all of   *)
(* them at once, from what is on the shelf.  (Same setting.)               *)
(***************************************************************************)
NoOverselling ==
  \A p \in Products : ClaimedTotal(p) <= stock[p].quantity

(***************************************************************************)
(* SalesFloor implements StockPromise: the shelf is the quantity, and each *)
(* holder's account is what it reserved.  (Same setting.)                  *)
(***************************************************************************)
Promise == INSTANCE StockPromise WITH
             onhand <- [p \in Products |-> stock[p].quantity],
             allotted <- held

HonoursPromise == Promise!PromiseSpec

-----------------------------------------------------------------------------
(* What the code says of itself, and does not do. *)

(***************************************************************************)
(* cancel: "libera reservas (stock se reserva en el confirm del cliente,   *)
(* sigue reservado hasta cancel o fulfill)".  What an accepted order       *)
(* reserved stays reserved until that order is cancelled or delivered.     *)
(***************************************************************************)
ReservedUntilClosed ==
  \A o \in Orders : Active(o) =>
    \A p \in Products : held[o][p] <= stock[p].reserved
=============================================================================
