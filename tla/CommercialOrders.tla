--------------------------- MODULE CommercialOrders ---------------------------
(***************************************************************************)
(* CommercialOrdersService: the life of an order                           *)
(*                                                                         *)
(*   draft -> pending_approval -> confirmed -> fulfilled,  or cancelled    *)
(*                                                                         *)
(* and what each transition does to the stock rows.  An order that carries *)
(* a requested_delivery_date when it is confirmed is a "preventa": it      *)
(* reserves nothing and is taken from the shelf when it is delivered.      *)
(*                                                                         *)
(* Every handler but two locks the order row before it reads it and keeps  *)
(* the lock until it commits, so it is one step.  updateDraft and          *)
(* reschedule read the status without a lock and write afterwards: they    *)
(* are two steps, and other handlers run between them.                     *)
(*                                                                         *)
(* An order holds at most one line per product (addLine merges), so its    *)
(* lines are a need.  Prices, totals, alerts and notifications are left    *)
(* out: nothing here depends on them.                                      *)
(***************************************************************************)
EXTENDS OrderStock

CONSTANTS
  Orders,        \* orders of the warehouse
  DatedOrders,   \* the ones whose requests may carry a delivery date
  MaxLine        \* bound: units in one line

ASSUME OrdersAssumption ==
  /\ Orders \subseteq Holders
  /\ DatedOrders \subseteq Orders
  /\ MaxLine \in Nat \ {0}

VARIABLES
  status,      \* commercial.orders.status, "none" before the order exists
  dated,       \* requested_delivery_date is set
  line,        \* order_lines.quantity
  requested,   \* order_lines.requested_quantity
  sold,        \* the order's 'sale' rows in commercial.stock_movements
  edits        \* header edits that passed their status check, not yet written

orderVars == <<status, dated, line, requested, sold, edits>>

Statuses == {"none", "draft", "pending_approval", "confirmed", "fulfilled", "cancelled"}
Edits == Orders \X {"updateDraft", "reschedule"}

NoLines == [p \in Products |-> 0]
Dates(o) == IF o \in DatedOrders THEN BOOLEAN ELSE {FALSE}

OrdersTypeOK ==
  /\ status \in [Orders -> Statuses]
  /\ dated \in [Orders -> BOOLEAN]
  /\ line \in [Orders -> Need]
  /\ requested \in [Orders -> Need]
  /\ sold \in [Orders -> Need]
  /\ edits \subseteq Edits

OrdersInit ==
  /\ status = [o \in Orders |-> "none"]
  /\ dated = [o \in Orders |-> FALSE]
  /\ line = [o \in Orders |-> NoLines]
  /\ requested = [o \in Orders |-> NoLines]
  /\ sold = [o \in Orders |-> NoLines]
  /\ edits = {}

Active(o) == status[o] \in {"pending_approval", "confirmed"}
HasLines(o) == \E p \in Products : line[o][p] > 0

SetStatus(o, s) == status' = [status EXCEPT ![o] = s]
SetUnits(f, o, p, n) == [f EXCEPT ![o] = [f[o] EXCEPT ![p] = n]]

-----------------------------------------------------------------------------
(* The cart. *)

\* createDraft: a retry with the same client_uuid gets the order back.
CreateDraft(o, d) ==
  /\ status[o] = "none"
  /\ SetStatus(o, "draft")
  /\ dated' = [dated EXCEPT ![o] = d]
  /\ UNCHANGED <<line, requested, sold, edits, stockVars>>

\* addLine: a product already in the cart grows, and so does what was asked.
AddLine(o, p, n) ==
  /\ status[o] = "draft"
  /\ line[o][p] + n <= MaxLine
  /\ line' = SetUnits(line, o, p, line[o][p] + n)
  /\ requested' = SetUnits(requested, o, p, line[o][p] + n)
  /\ UNCHANGED <<status, dated, sold, edits, stockVars>>

\* replaceLines: the whole cart at once.
ReplaceLines(o, need) ==
  /\ status[o] = "draft"
  /\ line' = [line EXCEPT ![o] = need]
  /\ requested' = [requested EXCEPT ![o] = need]
  /\ UNCHANGED <<status, dated, sold, edits, stockVars>>

\* updateLine on a draft: the customer is still composing.
UpdateDraftLine(o, p, n) ==
  /\ status[o] = "draft"
  /\ line[o][p] > 0
  /\ line' = SetUnits(line, o, p, n)
  /\ requested' = SetUnits(requested, o, p, n)
  /\ UNCHANGED <<status, dated, sold, edits, stockVars>>

\* Mistake: the seller may approve more than the customer asked for.
UpdateAboveRequest(o, p, n) ==
  /\ status[o] = "pending_approval"
  /\ line[o][p] > 0
  /\ \/ n > line[o][p] /\ Reserve(o, JustUnits(p, n - line[o][p]))
     \/ n < line[o][p] /\ Release(o, JustUnits(p, line[o][p] - n))
  /\ line' = SetUnits(line, o, p, n)
  /\ UNCHANGED <<status, dated, requested, sold, edits>>

\* Mistake: a smaller line keeps the reserve of the larger one.
UpdateKeepingReserve(o, p, n) ==
  /\ status[o] = "pending_approval"
  /\ line[o][p] > 0
  /\ n <= requested[o][p]
  /\ \/ n > line[o][p] /\ Reserve(o, JustUnits(p, n - line[o][p]))
     \/ n < line[o][p] /\ UNCHANGED stockVars
  /\ line' = SetUnits(line, o, p, n)
  /\ UNCHANGED <<status, dated, requested, sold, edits>>

\* updateLine while the seller reviews: never above what was asked, and the
\* reserve follows the difference, whether or not the order ever reserved.
UpdatePendingLine(o, p, n) ==
  /\ status[o] = "pending_approval"
  /\ line[o][p] > 0
  /\ n <= requested[o][p]
  /\ \/ n > line[o][p] /\ Reserve(o, JustUnits(p, n - line[o][p]))
     \/ n < line[o][p] /\ Release(o, JustUnits(p, line[o][p] - n))
  /\ line' = SetUnits(line, o, p, n)
  /\ UNCHANGED <<status, dated, requested, sold, edits>>

\* removeLine: in review the line's units are released before it is deleted.
RemoveLine(o, p) ==
  /\ line[o][p] > 0
  /\ \/ status[o] = "draft" /\ UNCHANGED stockVars
     \/ status[o] = "pending_approval" /\ Release(o, JustUnits(p, line[o][p]))
  /\ line' = SetUnits(line, o, p, 0)
  /\ requested' = SetUnits(requested, o, p, 0)
  /\ UNCHANGED <<status, dated, sold, edits>>

-----------------------------------------------------------------------------
(* The transitions. *)

\* What confirm and place do to the stock: nothing for a preventa.
ReserveUnlessPreventa(o, isPreventa) ==
  \/ isPreventa /\ UNCHANGED stockVars
  \/ ~isPreventa /\ Reserve(o, line[o])

\* confirm: the customer sends the order for review.
Confirm(o) ==
  /\ status[o] = "draft"
  /\ HasLines(o)
  /\ ReserveUnlessPreventa(o, dated[o])
  /\ SetStatus(o, "pending_approval")
  /\ UNCHANGED <<dated, line, requested, sold, edits>>

\* approve: the seller accepts it; the stock does not move.
Approve(o) ==
  /\ status[o] = "pending_approval"
  /\ SetStatus(o, "confirmed")
  /\ UNCHANGED <<dated, line, requested, sold, edits, stockVars>>

\* place: the seller takes a draft in the field, with a date or without.
PlaceDraft(o, d) ==
  /\ status[o] = "draft"
  /\ HasLines(o)
  /\ dated' = [dated EXCEPT ![o] = d]
  /\ ReserveUnlessPreventa(o, d)
  /\ SetStatus(o, "confirmed")
  /\ UNCHANGED <<line, requested, sold, edits>>

\* place on an order under review: it only advances.
PlacePending(o) ==
  /\ status[o] = "pending_approval"
  /\ HasLines(o)
  /\ SetStatus(o, "confirmed")
  /\ UNCHANGED <<dated, line, requested, sold, edits, stockVars>>

RecordSale(o) == sold' = [sold EXCEPT ![o] = [p \in Products |-> sold[o][p] + line[o][p]]]

\* Mistake: a second caller delivers a delivered order again.
FulfillTwice(o) ==
  /\ status[o] \in {"confirmed", "fulfilled"}
  /\ Consume(o, line[o])
  /\ RecordSale(o)
  /\ SetStatus(o, "fulfilled")
  /\ UNCHANGED <<dated, line, requested, edits>>

\* fulfillInTransaction: from fulfill, from the close of the last shipment
\* and from deliverAndCollect; a no-op unless the locked row is confirmed.
Fulfill(o) ==
  /\ status[o] = "confirmed"
  /\ Consume(o, line[o])
  /\ RecordSale(o)
  /\ SetStatus(o, "fulfilled")
  /\ UNCHANGED <<dated, line, requested, edits>>

\* deliverNow on a draft: it reserves even with a date, then delivers.
DeliverDraft(o) ==
  /\ status[o] = "draft"
  /\ HasLines(o)
  /\ ReserveAndConsume(line[o])
  /\ RecordSale(o)
  /\ SetStatus(o, "fulfilled")
  /\ UNCHANGED <<dated, line, requested, edits>>

\* deliverNow on an accepted order.
DeliverActive(o) ==
  /\ Active(o)
  /\ Consume(o, line[o])
  /\ RecordSale(o)
  /\ SetStatus(o, "fulfilled")
  /\ UNCHANGED <<dated, line, requested, edits>>

\* Mistake: it gives back what was asked for, not what was approved.
CancelRequested(o) ==
  /\ \/ status[o] = "draft" /\ UNCHANGED stockVars
     \/ Active(o) /\ Release(o, requested[o])
  /\ SetStatus(o, "cancelled")
  /\ UNCHANGED <<dated, line, requested, sold, edits>>

\* cancel: an accepted order gives back the units of every line.
Cancel(o) ==
  /\ \/ status[o] = "draft" /\ UNCHANGED stockVars
     \/ Active(o) /\ Release(o, line[o])
  /\ SetStatus(o, "cancelled")
  /\ UNCHANGED <<dated, line, requested, sold, edits>>

-----------------------------------------------------------------------------
(* The header edits: a check without a lock, later a write. *)

MayEdit(o, kind) ==
  \/ kind = "updateDraft" /\ status[o] = "draft"
  \/ kind = "reschedule" /\ Active(o)

CheckEdit(o, kind) ==
  /\ MayEdit(o, kind)
  /\ edits' = edits \union {<<o, kind>>}
  /\ UNCHANGED <<status, dated, line, requested, sold, stockVars>>

\* updateDraft may set or clear the date, reschedule only sets it.
WriteEdit(o, kind, d) ==
  /\ <<o, kind>> \in edits
  /\ kind = "reschedule" => d
  /\ dated' = [dated EXCEPT ![o] = d]
  /\ edits' = edits \ {<<o, kind>>}
  /\ UNCHANGED <<status, line, requested, sold, stockVars>>

-----------------------------------------------------------------------------
CartStep(o) ==
  \/ \E d \in Dates(o) : CreateDraft(o, d)
  \/ \E p \in Products, n \in 1..MaxLine : AddLine(o, p, n)
  \/ \E need \in [Products -> 0..MaxLine] : ReplaceLines(o, need)
  \/ \E p \in Products, n \in 1..MaxLine : UpdateDraftLine(o, p, n)
  \/ \E p \in Products, n \in 1..MaxLine : UpdatePendingLine(o, p, n)
  \/ \E p \in Products : RemoveLine(o, p)

Transition(o) ==
  \/ Confirm(o)
  \/ Approve(o)
  \/ \E d \in Dates(o) : PlaceDraft(o, d)
  \/ PlacePending(o)
  \/ Fulfill(o)
  \/ DeliverDraft(o)
  \/ DeliverActive(o)
  \/ Cancel(o)

HeaderEdit(o) ==
  /\ o \in DatedOrders
  /\ \E kind \in {"updateDraft", "reschedule"} :
       \/ CheckEdit(o, kind)
       \/ \E d \in BOOLEAN : WriteEdit(o, kind, d)

OrdersNext ==
  \E o \in Orders : CartStep(o) \/ Transition(o) \/ HeaderEdit(o)

-----------------------------------------------------------------------------
(* Correctness. *)

(***************************************************************************)
(* An order leaves the warehouse exactly once: its 'sale' movements are    *)
(* its lines if it was delivered and nothing otherwise, whichever of       *)
(* fulfill, deliverNow, a shipment's close or a collection on delivery     *)
(* came first and however many of them came.                               *)
(***************************************************************************)
SoldExactlyOnce ==
  \A o \in Orders :
    sold[o] = IF status[o] = "fulfilled" THEN line[o] ELSE NoLines

(***************************************************************************)
(* What the seller approves is at most what the customer asked for, from   *)
(* the moment the order leaves the cart.                                   *)
(***************************************************************************)
ApprovedWithinRequested ==
  \A o \in Orders, p \in Products : line[o][p] <= requested[o][p]

(***************************************************************************)
(* No order closes with units still reserved in its name, and an accepted  *)
(* order has no more in its name than its lines ask for, after any run of  *)
(* edits by the seller.                                                    *)
(***************************************************************************)
HeldWithinLines ==
  \A o \in Orders, p \in Products :
    held[o][p] <= IF Active(o) THEN line[o][p] ELSE 0
=============================================================================
