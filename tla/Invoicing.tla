------------------------------- MODULE Invoicing -------------------------------
(***************************************************************************)
(* The invoices (CFDI) of delivered orders: what CommercialOrdersService   *)
(* asks of EmisionService when an order is delivered, when someone asks    *)
(* for it, when the cron tries again, and for the day as a whole.          *)
(*                                                                         *)
(* A call reads the order, has the certification provider (PAC) stamp the  *)
(* CFDI, stores it in fiscal.cfdis, and writes its uuid in the order.      *)
(* These are transactions of their own, with the network in between, and   *)
(* nothing is locked: other calls go on, and each may fail or die with     *)
(* what it has done.  A stamped CFDI is an invoice, whoever knows of it.   *)
(*                                                                         *)
(* Time is the order of the deliveries, and how many of them are older     *)
(* than the days the cron looks back.  Cancelling a CFDI is left out:      *)
(* nothing clears the uuid of the order.                                   *)
(***************************************************************************)
EXTENDS Integers, FiniteSets

CONSTANTS
  Orders,       \* orders of one day
  Customers,
  CustomerOf,   \* orders.customer_id
  Lineless,     \* orders that lost all their lines before they were delivered
  Calls,        \* bound: calls under way at once
  MaxAttempts,  \* maxAttempts of retryPendingInvoices
  Limit,        \* limit of retryPendingInvoices, as the cron has it
  CronEnabled,  \* ENABLE_INVOICE_RETRY
  MaxCfdis,     \* bound: CFDI stamped
  MaxFaults     \* bound: calls that die, and writes that fail

ASSUME InvoicingAssumption ==
  /\ CustomerOf \in [Orders -> Customers] /\ Lineless \subseteq Orders
  /\ IsFiniteSet(Orders) /\ IsFiniteSet(Calls) /\ Calls # {}
  /\ MaxAttempts \in Nat \ {0} /\ Limit \in Nat \ {0} /\ CronEnabled \in BOOLEAN
  /\ MaxCfdis \in Nat /\ MaxFaults \in Nat

VARIABLES
  fulfilledAt,  \* orders.fulfilled_at: the how many-th delivery, 0 for none
  horizon,      \* deliveries that are older than the days of the cron
  fiscal,       \* the fiscal data of a customer
  cfdi,         \* orders.cfdi_uuid, 0 for none
  attempts,     \* orders.cfdi_attempts
  covers,       \* the PAC: the orders of every CFDI it stamped, {} for none
  books,        \* fiscal.cfdis
  call,         \* calls under way
  faults        \* history: faults so far

orderVars == <<fulfilledAt, horizon, fiscal, cfdi, attempts>>
vars == <<orderVars, covers, books, call, faults>>

Cfdis == 1..MaxCfdis
NoCall == [step |-> "none", todo |-> {}, orders |-> {}, cfdi |-> 0, auto |-> FALSE]

\* Columns that are null, that are there but empty, or that hold the data.
FiscalData == {"missing", "blank", "complete"}

TypeOK ==
  /\ fulfilledAt \in [Orders -> Nat] /\ horizon \in Nat
  /\ fiscal \in [Customers -> FiscalData]
  /\ cfdi \in [Orders -> 0..MaxCfdis] /\ attempts \in [Orders -> Nat]
  /\ covers \in [Cfdis -> SUBSET Orders] /\ books \subseteq Cfdis
  /\ call \in [Calls -> [step : {"none", "fulfil", "read", "stamp", "persist", "write", "failed"},
                         todo : SUBSET Orders,    \* still to invoice
                         orders : SUBSET Orders,  \* of the CFDI it is at
                         cfdi : 0..MaxCfdis,      \* which was stamped
                         auto : BOOLEAN]]         \* failures are counted
  /\ faults \in 0..MaxFaults

Init ==
  /\ fulfilledAt = [o \in Orders |-> 0] /\ horizon = 0
  /\ fiscal \in [Customers -> FiscalData]
  /\ cfdi = [o \in Orders |-> 0] /\ attempts = [o \in Orders |-> 0]
  /\ covers = [n \in Cfdis |-> {}] /\ books = {}
  /\ call = [c \in Calls |-> NoCall]
  /\ faults = 0

At(c, step) == call[c].step = step
Go(c, step) == call' = [call EXCEPT ![c].step = step]
Begin(c, S, auto) ==
  /\ At(c, "none")
  /\ call' = [call EXCEPT ![c] = [NoCall EXCEPT !.step = "read", !.todo = S, !.auto = auto]]

\* The call goes on with the next order of its list, or ends.
Continue(c) ==
  call' = [call EXCEPT ![c] =
    IF call[c].todo = {} THEN NoCall ELSE [NoCall EXCEPT !.step = "read", !.todo = call[c].todo,
                                                         !.auto = call[c].auto]]

Fulfilled == {o \in Orders : fulfilledAt[o] # 0}
Uninvoiced == {o \in Fulfilled : cfdi[o] = 0}

\* The two tests of the fiscal data: of SQL, IS NOT NULL, and of the code.
Nominal(o) == fiscal[CustomerOf[o]] # "missing"
HasInput(o) == fiscal[CustomerOf[o]] = "complete" /\ o \notin Lineless

-----------------------------------------------------------------------------
(* What starts a call. *)

Deliver(o) == fulfilledAt' = [fulfilledAt EXCEPT ![o] = Cardinality(Fulfilled) + 1]

\* fulfill looks at the order before it locks it.
CheckFulfill(c, o) ==
  /\ o \notin Fulfilled /\ At(c, "none")
  /\ call' = [call EXCEPT ![c] = [NoCall EXCEPT !.step = "fulfil", !.todo = {o}, !.auto = TRUE]]
  /\ UNCHANGED <<orderVars, covers, books, faults>>

\* An order that was delivered meanwhile is left as it is, and invoiced all the same.
CommitFulfill(c) ==
  /\ At(c, "fulfil") /\ Go(c, "read")
  /\ \/ \E o \in call[c].todo \ Fulfilled : Deliver(o)
     \/ call[c].todo \subseteq Fulfilled /\ UNCHANGED fulfilledAt
  /\ UNCHANGED <<horizon, fiscal, cfdi, attempts, covers, books, faults>>

\* There is no stock, or the order was cancelled.
RefuseFulfill(c) ==
  /\ At(c, "fulfil") /\ call' = [call EXCEPT ![c] = NoCall]
  /\ UNCHANGED <<orderVars, covers, books, faults>>

\* The sale on the spot locks the order first.
DeliverNow(c, o) ==
  /\ o \notin Fulfilled /\ Deliver(o)
  /\ Begin(c, {o}, TRUE)
  /\ UNCHANGED <<horizon, fiscal, cfdi, attempts, covers, books, faults>>

\* A rider or a shipment that delivers the order does not invoice it.
FulfillInTransaction(o) ==
  /\ o \notin Fulfilled /\ Deliver(o)
  /\ UNCHANGED <<horizon, fiscal, cfdi, attempts, covers, books, call, faults>>

\* The oldest delivery leaves the days of the cron.
Age ==
  /\ horizon < Cardinality(Fulfilled) /\ horizon' = horizon + 1
  /\ UNCHANGED <<fulfilledAt, fiscal, cfdi, attempts, covers, books, call, faults>>

\* Mistake: the attempts of an order are not looked at.
DueForEver(o) == o \in Uninvoiced /\ Nominal(o)

\* What retryPendingInvoices asks of an order, its age apart.
Due(o) == o \in Uninvoiced /\ Nominal(o) /\ attempts[o] < MaxAttempts

Older(o, p) == fulfilledAt[o] < fulfilledAt[p]
DueSince(since) == {o \in Orders : Due(o) /\ fulfilledAt[o] > since}

\* Mistake: the newest first.
ListedNewest(since, limit) ==
  {o \in DueSince(since) : Cardinality({p \in DueSince(since) : Older(o, p)}) < limit}

\* The list of retryPendingInvoices, read once: the oldest first, up to the limit.
Listed(since, limit) ==
  {o \in DueSince(since) : Cardinality({p \in DueSince(since) : Older(p, o)}) < limit}

RetryPendingInvoices(c, since, limit) ==
  /\ Listed(since, limit) # {}
  /\ Begin(c, Listed(since, limit), TRUE)
  /\ UNCHANGED <<orderVars, covers, books, faults>>

\* The cron is off unless the environment switches it on.
Scheduled(c) == CronEnabled /\ RetryPendingInvoices(c, horizon, Limit)

\* The endpoint takes days and limit from who asks.
RetryInvoices(c) ==
  \E since \in 0..Cardinality(Orders), limit \in 1..Cardinality(Orders) :
    RetryPendingInvoices(c, since, limit)

IssueForOrder(c, o) ==
  /\ o \in Uninvoiced
  /\ Begin(c, {o}, FALSE)
  /\ UNCHANGED <<orderVars, covers, books, faults>>

\* The customer may give fiscal data first, and nothing given makes a column null.
SelfInvoiceOrder(c, o) ==
  /\ o \in Uninvoiced
  /\ \E data \in {fiscal[CustomerOf[o]], "blank", "complete"} :
       fiscal' = [fiscal EXCEPT ![CustomerOf[o]] = data]
  /\ Begin(c, {o}, FALSE)
  /\ UNCHANGED <<fulfilledAt, horizon, cfdi, attempts, covers, books, faults>>

\* Mistake: what was invoiced before is taken again.
ForGlobalAgain == {o \in Fulfilled : ~Nominal(o)}

\* The orders of the day whose customers lack fiscal data.
ForGlobal == {o \in Uninvoiced : ~Nominal(o)}

\* One CFDI for them all, if they have lines at all.
IssueDailyGlobal(c) ==
  /\ ~(ForGlobal \subseteq Lineless)
  /\ At(c, "none")
  /\ call' = [call EXCEPT ![c] = [NoCall EXCEPT !.step = "stamp", !.orders = ForGlobal]]
  /\ UNCHANGED <<orderVars, covers, books, faults>>

\* The customers' service.
EditCustomer(k) ==
  /\ \E data \in FiscalData \ {fiscal[k]} : fiscal' = [fiscal EXCEPT ![k] = data]
  /\ UNCHANGED <<fulfilledAt, horizon, cfdi, attempts, covers, books, call, faults>>

-----------------------------------------------------------------------------
(* The steps of a call. *)

Invoiceable(o) == o \in Uninvoiced /\ HasInput(o)

\* The call leaves order o of its list: the next one, or the end.
Skip(c, o) ==
  call' = [call EXCEPT ![c] =
    IF call[c].todo = {o} THEN NoCall ELSE [call[c] EXCEPT !.todo = @ \ {o}]]

\* buildInvoiceInput for an order of the list; without input it is no failure.
BuildInvoiceInput(c) ==
  /\ At(c, "read")
  /\ \E o \in call[c].todo :
       \/ ~Invoiceable(o) /\ Skip(c, o)
       \/ /\ Invoiceable(o)
          /\ call' = [call EXCEPT ![c].step = "stamp", ![c].todo = @ \ {o}, ![c].orders = {o}]
  /\ UNCHANGED <<orderVars, covers, books, faults>>

\* An exception counts as no input, if the call was made by the system itself.
FailRead(c) ==
  /\ At(c, "read") /\ faults < MaxFaults /\ faults' = faults + 1
  /\ call[c].auto /\ \E o \in call[c].todo : Skip(c, o)
  /\ UNCHANGED <<orderVars, covers, books>>

Stamp(c) ==
  /\ At(c, "stamp")
  /\ \E n \in Cfdis :
       /\ covers[n] = {} /\ \A m \in 1..(n - 1) : covers[m] # {}
       /\ covers' = [covers EXCEPT ![n] = call[c].orders]
       /\ call' = [call EXCEPT ![c].step = "persist", ![c].cfdi = n]
  /\ UNCHANGED <<orderVars, books, faults>>

\* A call that fails counts it, if it was made by the system itself.
Fails(c) == IF call[c].auto THEN Go(c, "failed") ELSE call' = [call EXCEPT ![c] = NoCall]

\* The PAC, or what is done before it is asked, refuses.
Refuse(c) ==
  /\ At(c, "stamp") /\ Fails(c)
  /\ UNCHANGED <<orderVars, covers, books, faults>>

Persist(c) ==
  /\ At(c, "persist") /\ books' = books \union {call[c].cfdi}
  /\ Go(c, "write")
  /\ UNCHANGED <<orderVars, covers, faults>>

\* Mistake: the global invoice marks what lacks an invoice by now.
WriteUuidToPending(c) ==
  /\ At(c, "write")
  /\ cfdi' = [o \in Orders |-> IF o \in call[c].orders \union ForGlobal THEN call[c].cfdi ELSE cfdi[o]]
  /\ Continue(c)
  /\ UNCHANGED <<fulfilledAt, horizon, fiscal, attempts, covers, books, faults>>

\* The uuid is written by id, over whatever another call wrote.
WriteUuid(c) ==
  /\ At(c, "write")
  /\ cfdi' = [o \in Orders |-> IF o \in call[c].orders THEN call[c].cfdi ELSE cfdi[o]]
  /\ Continue(c)
  /\ UNCHANGED <<fulfilledAt, horizon, fiscal, attempts, covers, books, faults>>

RecordFailure(c) ==
  /\ At(c, "failed")
  /\ attempts' = [o \in Orders |-> IF o \in call[c].orders THEN attempts[o] + 1 ELSE attempts[o]]
  /\ Continue(c)
  /\ UNCHANGED <<fulfilledAt, horizon, fiscal, cfdi, covers, books, faults>>

\* The answer of the PAC is lost, or a write after it fails.
LoseStamp(c) ==
  /\ At(c, "persist") \/ At(c, "write")
  /\ faults < MaxFaults /\ faults' = faults + 1
  /\ Fails(c)
  /\ UNCHANGED <<orderVars, covers, books>>

\* The PAC answers without a uuid: nothing is written, and no failure counted.
NoUuid(c) ==
  /\ At(c, "write")
  /\ faults < MaxFaults /\ faults' = faults + 1
  /\ Continue(c)
  /\ UNCHANGED <<orderVars, covers, books>>

\* The process dies, or the failure cannot be written.
Die(c) ==
  /\ ~At(c, "none")
  /\ faults < MaxFaults /\ faults' = faults + 1
  /\ IF At(c, "failed") THEN Continue(c) ELSE call' = [call EXCEPT ![c] = NoCall]
  /\ UNCHANGED <<orderVars, covers, books>>

CallStep(c) ==
  \/ CommitFulfill(c) \/ RefuseFulfill(c)
  \/ BuildInvoiceInput(c) \/ Stamp(c) \/ Refuse(c) \/ Persist(c) \/ WriteUuid(c)
  \/ RecordFailure(c)

Fault(c) == FailRead(c) \/ LoseStamp(c) \/ NoUuid(c) \/ Die(c)

Next ==
  \/ \E o \in Orders : FulfillInTransaction(o)
  \/ Age
  \/ \E k \in Customers : EditCustomer(k)
  \/ \E c \in Calls :
       \/ \E o \in Orders :
            CheckFulfill(c, o) \/ DeliverNow(c, o) \/ IssueForOrder(c, o) \/ SelfInvoiceOrder(c, o)
       \/ Scheduled(c) \/ RetryInvoices(c) \/ IssueDailyGlobal(c)
       \/ CallStep(c) \/ Fault(c)

Spec == Init /\ [][Next]_vars

\* A call goes on, and the cron comes every hour where it is switched on.
FairSpec ==
  /\ Spec
  /\ \A c \in Calls : WF_vars(CallStep(c))
  /\ SF_vars(\E c \in Calls : Scheduled(c))

-----------------------------------------------------------------------------
(* Properties. *)

Copies(o) == {n \in Cfdis : o \in covers[n]}

\* The uuid in an order is the one thing that keeps it from being invoiced
\* again: an order has one CFDI, and one more at most for every other call that
\* runs at the same time and for every call that dies or fails after the stamp.
CopiesWithinFaults == \A o \in Orders : Cardinality(Copies(o)) <= Cardinality(Calls) + faults

\* The uuid in an order is of a CFDI of that order that is in the books.
InvoicedIsCovered ==
  \A o \in Orders : cfdi[o] # 0 => cfdi[o] \in Copies(o) /\ cfdi[o] \in books

\* The list of a retry grows old while it is worked through: an order is tried
\* maxAttempts times, and once more at most for every other call.
AttemptsWithinCalls == \A o \in Orders : attempts[o] < MaxAttempts + Cardinality(Calls)

\* As many orders without input as the list holds come before order o.
Behind(o) ==
  Cardinality({p \in DueSince(horizon) : Older(p, o) /\ ~HasInput(p)}) >= Limit

\* Where the cron is on, an order that is due in the days it looks back is
\* invoiced in the end, whoever delivered it, or its attempts are used up: unless
\* those days are over first, it loses its input, or orders without input, which
\* count no attempts and stay at the head of every list, keep it off the list.
NobodyIsForgotten ==
  \A o \in Orders :
    (CronEnabled /\ o \in DueSince(horizon)) ~>
      \/ cfdi[o] # 0 \/ attempts[o] >= MaxAttempts
      \/ fulfilledAt[o] <= horizon \/ ~HasInput(o) \/ Behind(o)
=============================================================================
