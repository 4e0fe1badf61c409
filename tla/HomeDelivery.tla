----------------------------- MODULE HomeDelivery -----------------------------
(***************************************************************************)
(* HomeDispatchService and CommercialHomeDeliveryService: a stop of a      *)
(* rider for an order or for a ticket of the shop, and how it ended.       *)
(*                                                                         *)
(* recordDeliveryOutcome is not one transaction: it reads the stop, then   *)
(* delivers and collects, then marks the stop; or marks it, then cancels   *)
(* the order.  A call may die between any two of them, and the rider who   *)
(* gets no answer sends it again.                                          *)
(***************************************************************************)
EXTENDS OrderPayments

CONSTANTS
  Attempts,  \* bound: calls of recordDeliveryOutcome under way at once
  Price      \* what is collected for a ticket

ASSUME DeliveryAssumption == Price \in 1..MaxTotal /\ IsFiniteSet(Attempts)

VARIABLES
  stop,     \* home_deliveries.status, "none" before the dispatch
  collect,  \* home_deliveries.amount_to_collect
  dispatch, \* dispatches under way: an order, and the amount read from it
  call,     \* calls of recordDeliveryOutcome
  unsold    \* history: orders delivered when they were not confirmed

stopVars == <<stop, collect>>
deliveryVars == <<stopVars, dispatch, call, unsold>>

Stops == Orders \union Folios
Nothing == [method |-> "none", ref |-> NoRef]
NoCall == [step |-> "none", stop |-> NoRef, pays |-> Nothing]
Calls == [step : {"none", "deliver", "insert", "mark", "reject", "absent", "cancel"},
          stop : Stops \union {NoRef},
          pays : Means \union {Nothing}]

DeliveryTypeOK ==
  /\ MoneyTypeOK
  /\ stop \in [Stops -> {"none", "pendiente", "entregado", "rechazado", "no_entregado"}]
  /\ collect \in [Stops -> Int] /\ dispatch \subseteq Orders \X Int
  /\ call \in [Attempts -> Calls] /\ unsold \subseteq Orders

DeliveryInit ==
  /\ stop = [s \in Stops |-> "none"]
  /\ collect = [s \in Stops |-> 0] /\ dispatch = {}
  /\ call = [a \in Attempts |-> NoCall]
  /\ unsold = {}

At(a, step) == call[a].step = step
Go(a, step) == call' = [call EXCEPT ![a].step = step]
Paid(a) == call' = [call EXCEPT ![a] = [@ EXCEPT !.step = "mark", !.pays = Nothing]]
End(a) == call' = [call EXCEPT ![a] = NoCall]

\* The amount is the balance, or the total if nothing is left, and stays.
DispatchOrder(o) ==
  /\ ostatus[o] \in {"confirmed", "pending_approval"} /\ stop[o] = "none"
  /\ dispatch' = dispatch \union {<<o, IF balance[o] # 0 THEN balance[o] ELSE total[o]>>}
  /\ UNCHANGED <<moneyVars, stopVars, call, unsold>>

\* Nothing was locked: the order may be paid, delivered or cancelled by now.  An
\* index of the table refuses the other dispatches of it.
CreateDelivery(o, amount) ==
  /\ <<o, amount>> \in dispatch
  /\ stop' = [stop EXCEPT ![o] = "pendiente"]
  /\ collect' = [collect EXCEPT ![o] = amount]
  /\ dispatch' = {d \in dispatch : d[1] # o}
  /\ UNCHANGED <<moneyVars, call, unsold>>

\* A ticket is read from the shop's own system, and an index refuses a second stop.
DispatchFromKepler(k) ==
  /\ stop[k] = "none"
  /\ stop' = [stop EXCEPT ![k] = "pendiente"]
  /\ collect' = [collect EXCEPT ![k] = Price]
  /\ UNCHANGED <<moneyVars, dispatch, call, unsold>>

\* The call reads the stop; only a stop that is delivered ends it here.
BeginOutcome(a, s, outcome, pays) ==
  /\ At(a, "none") /\ stop[s] \notin {"none", "entregado"}
  /\ outcome = "deliver" \/ pays = Nothing
  /\ call' = [call EXCEPT ![a] = [step |-> outcome, stop |-> s, pays |-> pays]]
  /\ UNCHANGED <<moneyVars, stopVars, dispatch, unsold>>

\* deliverAndCollect, one transaction: it fails as a whole if nothing is due or
\* less than the amount of the stop.
DeliverAndCollect(a) ==
  LET o == call[a].stop
  IN /\ At(a, "deliver") /\ o \in Orders
     /\ \/ call[a].pays = Nothing /\ UNCHANGED <<pay, paid, balance>>
        \/ call[a].pays # Nothing /\ Known(o, call[a].pays)
        \/ call[a].pays # Nothing /\ Collect(o, collect[o], call[a].pays, TRUE)
     /\ ostatus' = [ostatus EXCEPT ![o] = FulfilledStatus(o)]
     /\ unsold' = IF FulfilledStatus(o) = "fulfilled" THEN unsold ELSE unsold \union {o}
     /\ Paid(a)
     /\ UNCHANGED <<total, edited, stopVars, dispatch>>

\* Mistake: nobody looks for the reference.
KeplerCheckNothing(a, k) ==
  /\ At(a, "deliver") /\ call[a].stop = k
  /\ IF call[a].pays = Nothing THEN Paid(a) ELSE Go(a, "insert")
  /\ UNCHANGED <<moneyVars, stopVars, dispatch, unsold>>

\* Of a ticket there is no row to lock: a call looks for the reference and, later,
\* inserts.
KeplerCheck(a, k) ==
  /\ At(a, "deliver") /\ call[a].stop = k
  /\ IF call[a].pays = Nothing \/ LiveAs(k, call[a].pays.ref) # {} THEN Paid(a) ELSE Go(a, "insert")
  /\ UNCHANGED <<moneyVars, stopVars, dispatch, unsold>>

KeplerInsert(a, k) ==
  /\ At(a, "insert") /\ call[a].stop = k
  /\ InsertKepler(k, collect[k], call[a].pays)
  /\ Paid(a)
  /\ UNCHANGED <<stopVars, dispatch, unsold>>

MarkStop(s, status) == stop' = [stop EXCEPT ![s] = status] /\ UNCHANGED collect

MarkDelivered(a) ==
  /\ At(a, "mark") /\ MarkStop(call[a].stop, "entregado") /\ End(a)
  /\ UNCHANGED <<moneyVars, dispatch, unsold>>

\* An incident is written over whatever the stop is by now.
MarkAbsent(a) ==
  /\ At(a, "absent") /\ MarkStop(call[a].stop, "no_entregado") /\ End(a)
  /\ UNCHANGED <<moneyVars, dispatch, unsold>>

MarkRejected(a) ==
  /\ At(a, "reject") /\ MarkStop(call[a].stop, "rechazado")
  /\ IF call[a].stop \in Orders THEN Go(a, "cancel") ELSE End(a)
  /\ UNCHANGED <<moneyVars, dispatch, unsold>>

CancelRejected(a) ==
  /\ At(a, "cancel") /\ Cancel(call[a].stop) /\ End(a)
  /\ UNCHANGED <<stopVars, dispatch, unsold>>

\* The call is refused, fails or dies, and whatever it committed stays.
GiveUp(a) ==
  /\ ~At(a, "none") /\ End(a)
  /\ UNCHANGED <<moneyVars, stopVars, dispatch, unsold>>

DeliveryNext ==
  \/ \E o \in Orders : DispatchOrder(o)
  \/ \E d \in dispatch : CreateDelivery(d[1], d[2])
  \/ \E k \in Folios : DispatchFromKepler(k)
  \/ \E a \in Attempts :
       \/ \E s \in Stops, outcome \in {"deliver", "reject", "absent"}, pays \in Means \union {Nothing} :
            BeginOutcome(a, s, outcome, pays)
       \/ \E k \in Folios : KeplerCheck(a, k) \/ KeplerInsert(a, k)
       \/ DeliverAndCollect(a) \/ MarkDelivered(a) \/ MarkAbsent(a)
       \/ MarkRejected(a) \/ CancelRejected(a) \/ GiveUp(a)

DeliveryStart == MoneyInit /\ DeliveryInit

DeliverySpec ==
  /\ DeliveryStart
  /\ [][(MoneyNext /\ UNCHANGED deliveryVars) \/ DeliveryNext]_<<moneyVars, deliveryVars>>

-----------------------------------------------------------------------------
(* Properties. *)

\* Nothing is locked for a ticket: it may be collected once for every call that
\* overlapped, but a reference that one of them finds recorded ends the rest.
CopiesAreOverlaps ==
  \A k \in Folios, ref \in References : Cardinality(LiveAs(k, ref)) <= Cardinality(Attempts)

\* What a stop that is delivered says of its order: it has left the stock.
DeliveredIsSold == \A o \in Orders : stop[o] = "entregado" => ostatus[o] = "fulfilled"

\* The same, for orders that were confirmed when the rider delivered: neither a
\* call that dies nor a rejection that arrives late takes the sale back.
ConfirmedIsSold == \A o \in Orders \ unsold : stop[o] = "entregado" => ostatus[o] = "fulfilled"
=============================================================================
