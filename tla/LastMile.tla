------------------------------- MODULE LastMile -------------------------------
(***************************************************************************)
(* Riders deliver and collect, the office records and reverses payments    *)
(* and edits orders, and the day of the rider is closed, all on the same   *)
(* rows.                                                                   *)
(***************************************************************************)
EXTENDS HomeDelivery, RiderLiquidation

vars == <<moneyVars, deliveryVars, cutVars>>

Init == MoneyInit /\ DeliveryInit /\ CutInit

Next ==
  \/ MoneyNext /\ UNCHANGED <<deliveryVars, cutVars>>
  \/ DeliveryNext /\ UNCHANGED cutVars
  \/ CutNext /\ UNCHANGED deliveryVars

Spec == Init /\ [][Next]_vars

LastMileTypeOK == DeliveryTypeOK /\ CutTypeOK
=============================================================================
