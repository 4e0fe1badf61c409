---------------------------- MODULE OrderPayments ----------------------------
(***************************************************************************)
(* CommercialPaymentsService: what an order costs, what was paid for it    *)
(* and what is left, and the payments on tickets of the shop's own system  *)
(* (folios of Kepler), which have no order.                                *)
(*                                                                         *)
(* Recording and reversing lock the row of the order: one step each.  A    *)
(* payment on a folio locks nothing: it looks for one with the same        *)
(* reference, and inserts later.  Of an order only what the money needs is *)
(* here; amounts are whole units, so the tolerance of a cent is left out.  *)
(***************************************************************************)
EXTENDS Integers, FiniteSets, Functions

CONSTANTS
  Orders,      \* orders of commercial.orders
  Folios,      \* tickets of Kepler
  References,  \* references a transfer or a card may carry
  Means,       \* how one pays: a method and a reference; cash carries none
  MaxTotal,    \* bound: the total of an order
  MaxPayments  \* bound: payments recorded

NoRef == "no reference"

ASSUME PaymentAssumption ==
  /\ Orders \intersect Folios = {} /\ NoRef \notin References
  /\ Means \subseteq [method : {"cash"}, ref : {NoRef}]
               \union [method : {"transfer"}, ref : References \union {NoRef}]
  /\ MaxTotal \in Nat \ {0} /\ MaxPayments \in Nat

VARIABLES
  ostatus,  \* orders.status
  total,    \* orders.total
  paid,     \* orders.paid_amount
  balance,  \* orders.balance_due
  pay,      \* commercial.payments
  edited    \* history: orders whose lines changed when something was paid

orderVars == <<ostatus, total, paid, balance>>
moneyVars == <<orderVars, pay, edited>>

PayIds == 1..MaxPayments
Payment == [status : {"none", "received", "verified", "reversed"},
            of : Orders \union Folios \union {NoRef},
            amount : Nat,
            method : {"cash", "transfer"},
            ref : References \union {NoRef},
            rider : BOOLEAN,   \* received_by is the rider
            cut : BOOLEAN]     \* liquidation_id is set
NoPayment == [status |-> "none", of |-> NoRef, amount |-> 0, method |-> "cash",
              ref |-> NoRef, rider |-> FALSE, cut |-> FALSE]

MoneyTypeOK ==
  /\ ostatus \in [Orders -> {"draft", "pending_approval", "confirmed", "fulfilled", "cancelled"}]
  /\ total \in [Orders -> 0..MaxTotal] /\ paid \in [Orders -> Nat] /\ balance \in [Orders -> Int]
  /\ pay \in [PayIds -> Payment] /\ edited \subseteq Orders

MoneyInit ==
  /\ ostatus = [o \in Orders |-> "draft"]
  /\ total = [o \in Orders |-> 0] /\ paid = total /\ balance = total
  /\ pay = [i \in PayIds |-> NoPayment]
  /\ edited = {}

Live(i) == pay[i].status \in {"received", "verified"}
LiveOf(x) == {i \in PayIds : Live(i) /\ pay[i].of = x}
LiveAs(x, ref) == {i \in LiveOf(x) : ref # NoRef /\ pay[i].ref = ref}
Amounts == [i \in PayIds |-> pay[i].amount]

-----------------------------------------------------------------------------
(* The order, as far as money depends on it. *)

\* recalcOrderTotals, at the end of every edit of the lines: the balance is
\* the new total, whatever was paid.
EditLines(o, t) ==
  /\ ostatus[o] \in {"draft", "pending_approval"}
  /\ total' = [total EXCEPT ![o] = t]
  /\ balance' = [balance EXCEPT ![o] = t]
  /\ edited' = IF paid[o] = 0 THEN edited ELSE edited \union {o}
  /\ UNCHANGED <<ostatus, paid, pay>>

\* place, confirm and approve.
Accept(o, s) ==
  /\ \/ ostatus[o] = "draft" /\ total[o] > 0
     \/ ostatus[o] = "pending_approval" /\ s = "confirmed"
  /\ ostatus' = [ostatus EXCEPT ![o] = s]
  /\ UNCHANGED <<total, paid, balance, pay, edited>>

\* The office, a shipment or a sale on the truck delivers the order, and nobody
\* asks what was paid; the truck's confirms it on the way.
FulfillOrder(o) ==
  /\ ostatus[o] \in {"draft", "pending_approval", "confirmed"} /\ total[o] > 0
  /\ ostatus' = [ostatus EXCEPT ![o] = "fulfilled"]
  /\ UNCHANGED <<total, paid, balance, pay, edited>>

\* Mistake: an order that was delivered may be cancelled.
CancellableFulfilled(o) == ostatus[o] # "cancelled"

Cancellable(o) == ostatus[o] \notin {"cancelled", "fulfilled"}
Cancel(o) ==
  /\ Cancellable(o)
  /\ ostatus' = [ostatus EXCEPT ![o] = "cancelled"]
  /\ UNCHANGED <<total, paid, balance, pay, edited>>

\* fulfillInTransaction does nothing to an order that is not confirmed.
FulfilledStatus(o) == IF ostatus[o] = "confirmed" THEN "fulfilled" ELSE ostatus[o]

-----------------------------------------------------------------------------
(* Payments. *)

\* The next row of the table.
NextPay(i) == pay[i].status = "none" /\ \A j \in 1..(i - 1) : pay[j].status # "none"

NewPayment(x, amount, by, rider) ==
  [status |-> "received", of |-> x, amount |-> amount, method |-> by.method, ref |-> by.ref,
   rider |-> rider, cut |-> FALSE]

\* Mistakes: nobody looks for the reference, and the balance forgets former
\* payments.
CollectAgain(o, amount, by, rider) ==
  /\ amount > 0 /\ balance[o] > 0 /\ amount <= balance[o]
  /\ \E i \in PayIds : NextPay(i) /\ pay' = [pay EXCEPT ![i] = NewPayment(o, amount, by, rider)]
  /\ paid' = [paid EXCEPT ![o] = @ + amount]
  /\ balance' = [balance EXCEPT ![o] = total[o] - (paid[o] + amount)]

CollectFromTotal(o, amount, by, rider) ==
  /\ LiveAs(o, by.ref) = {}
  /\ amount > 0 /\ balance[o] > 0 /\ amount <= balance[o]
  /\ \E i \in PayIds : NextPay(i) /\ pay' = [pay EXCEPT ![i] = NewPayment(o, amount, by, rider)]
  /\ paid' = [paid EXCEPT ![o] = @ + amount]
  /\ balance' = [balance EXCEPT ![o] = total[o] - amount]

\* insertPayment, with the order locked: the balance is what is left of the total.
Collect(o, amount, by, rider) ==
  /\ LiveAs(o, by.ref) = {}
  /\ amount > 0 /\ balance[o] > 0 /\ amount <= balance[o]
  /\ \E i \in PayIds : NextPay(i) /\ pay' = [pay EXCEPT ![i] = NewPayment(o, amount, by, rider)]
  /\ paid' = [paid EXCEPT ![o] = @ + amount]
  /\ balance' = [balance EXCEPT ![o] = total[o] - (paid[o] + amount)]

\* ... which only returns the payment that has the reference already.
Known(o, by) == LiveAs(o, by.ref) # {} /\ UNCHANGED <<pay, paid, balance>>

RecordPayment(o, amount, by, rider) ==
  /\ Collect(o, amount, by, rider)
  /\ UNCHANGED <<ostatus, total, edited>>

\* recordKeplerPayment, once it has found no payment with the reference.
InsertKepler(k, amount, by) ==
  /\ \E i \in PayIds : NextPay(i) /\ pay' = [pay EXCEPT ![i] = NewPayment(k, amount, by, TRUE)]
  /\ UNCHANGED <<orderVars, edited>>

VerifyTransfer(i) ==
  /\ Live(i) /\ pay[i].method = "transfer"
  /\ pay' = [pay EXCEPT ![i].status = "verified"]
  /\ UNCHANGED <<orderVars, edited>>

\* Mistake: the payment is marked, and the order left as it is.
ReverseMarkOnly(i) ==
  /\ Live(i)
  /\ pay' = [pay EXCEPT ![i].status = "reversed"]
  /\ UNCHANGED <<orderVars, edited>>

\* The balance is computed from the amount paid before that is cut off at 0.
ReversePayment(i) ==
  LET o == pay[i].of
      left == paid[o] - pay[i].amount
  IN /\ Live(i)
     /\ pay' = [pay EXCEPT ![i].status = "reversed"]
     /\ IF o \in Orders
          THEN /\ paid' = [paid EXCEPT ![o] = IF left < 0 THEN 0 ELSE left]
               /\ balance' = [balance EXCEPT ![o] = total[o] - left]
          ELSE UNCHANGED <<paid, balance>>
     /\ UNCHANGED <<ostatus, total, edited>>

MoneyNext ==
  \/ \E o \in Orders :
       \/ \E t \in 1..MaxTotal : EditLines(o, t)
       \/ \E s \in {"pending_approval", "confirmed"} : Accept(o, s)
       \/ Cancel(o) \/ FulfillOrder(o)
       \/ \E amount \in 1..MaxTotal, by \in Means : RecordPayment(o, amount, by, FALSE)
  \/ \E i \in PayIds : VerifyTransfer(i) \/ ReversePayment(i)

-----------------------------------------------------------------------------
(* Properties. *)

\* What an order says was paid is what its payments that stand add up to.
PaidIsLedger == \A o \in Orders : paid[o] = SumFunctionOnSet(Amounts, LiveOf(o))

\* What is left is the total less what was paid, and nobody pays more than the
\* total, unless the lines were changed when something was paid.
BalanceIsRest ==
  \A o \in Orders \ edited : balance[o] = total[o] - paid[o] /\ paid[o] <= total[o]

\* However often a collection is sent and however its copies overlap, one
\* payment stands for an order and a reference.
OnePerReference == \A o \in Orders, ref \in References : Cardinality(LiveAs(o, ref)) <= 1
=============================================================================
