---------------------------- MODULE InvoicingProofs ----------------------------
(***************************************************************************)
(* The safety of invoicing for any orders, customers, calls and faults.    *)
(***************************************************************************)
EXTENDS Invoicing, FiniteSetTheorems, TLAPS

\* A call has what its step needs: an order is on its list or in its CFDI,
\* and the CFDI it was given is stamped for what it asked.
CallSound(c) ==
  LET k == call[c] IN
    /\ k.step = "none" => k = NoCall
    /\ k.step = "fulfil" => k.auto /\ \E o \in Orders : k.todo = {o}
    /\ k.step \in {"fulfil", "read"} => k.orders = {}
    /\ k.step \notin {"none", "fulfil", "read"} => k.orders # {} /\ k.orders \intersect k.todo = {}
    /\ k.step \in {"persist", "write"} => k.cfdi \in Cfdis /\ covers[k.cfdi] = k.orders
    /\ k.step = "write" => k.cfdi \in books
    /\ k.step = "failed" => k.auto
    /\ k.step # "fulfil" => k.todo \union k.orders \subseteq Fulfilled

\* Calls that may still have an order stamped, that have it in hand, and that
\* may still count a failure of it.
Stamping(o) == {c \in Calls : o \in call[c].orders /\ call[c].step = "stamp"}
Working(o) ==
  {c \in Calls : o \in call[c].orders /\ call[c].step \in {"stamp", "persist", "write"}}
Counting(o) == {c \in Calls : call[c].auto /\ o \in call[c].todo \union call[c].orders}

\* While an order has no uuid every copy is in somebody's hands or was lost;
\* later no call takes it any more.
Covered(o) ==
  /\ cfdi[o] = 0 =>
       Cardinality(Copies(o)) + Cardinality(Stamping(o)) <= Cardinality(Working(o)) + faults
  /\ Cardinality(Copies(o)) + Cardinality(Stamping(o)) <= Cardinality(Calls) + faults

\* A list only holds orders that had attempts left when it was made.
Tried(o) ==
  /\ o \notin Fulfilled => attempts[o] = 0
  /\ attempts[o] + Cardinality(Counting(o)) <= MaxAttempts - 1 + Cardinality(Calls)

InvoicingInv ==
  /\ TypeOK
  /\ \A c \in Calls : CallSound(c)
  /\ InvoicedIsCovered
  /\ \A o \in Orders : Covered(o) /\ Tried(o)

CallType == [step : {"none", "fulfil", "read", "stamp", "persist", "write", "failed"},
             todo : SUBSET Orders, orders : SUBSET Orders, cfdi : 0..MaxCfdis, auto : BOOLEAN]

Bit(b) == IF b THEN 1 ELSE 0

-----------------------------------------------------------------------------
(* Lemmas. *)

\* Two sets that differ in c at most.
LEMMA DifferInOne ==
  ASSUME NEW C, IsFiniteSet(C), NEW X \in SUBSET C, NEW Y \in SUBSET C, NEW c, X \ {c} = Y \ {c}
  PROVE  /\ Cardinality(X) \in Nat /\ Cardinality(Y) \in Nat
         /\ Cardinality(X) <= Cardinality(C) /\ Cardinality(Y) <= Cardinality(C)
         /\ Cardinality(Y) - Bit(c \in Y) = Cardinality(X) - Bit(c \in X)
<1>1. \A Z \in SUBSET C : /\ IsFiniteSet(Z) /\ Cardinality(Z) \in Nat
                          /\ Cardinality(Z) <= Cardinality(C)
  BY FS_Subset, FS_CardinalityType
<1>2. ASSUME NEW Z \in SUBSET C PROVE Cardinality(Z \ {c}) = Cardinality(Z) - Bit(c \in Z)
  <2>1. IsFiniteSet(Z) /\ Cardinality(Z) \in Nat
    BY <1>1
  <2>2. Cardinality(Z \ {c}) = IF c \in Z THEN Cardinality(Z) - 1 ELSE Cardinality(Z)
    BY <2>1, FS_RemoveElement
  <2>3. CASE c \in Z
    <3>1. Bit(c \in Z) = 1 /\ Cardinality(Z \ {c}) = Cardinality(Z) - 1
      BY <2>2, <2>3 DEF Bit
    <3> QED BY <3>1
  <2>4. CASE c \notin Z
    <3>1. Bit(c \in Z) = 0 /\ Cardinality(Z \ {c}) = Cardinality(Z)
      BY <2>2, <2>4 DEF Bit
    <3> QED BY <2>1, <3>1
  <2> QED BY <2>3, <2>4
<1>3. Cardinality(X \ {c}) = Cardinality(Y \ {c})
  OBVIOUS
<1> QED BY <1>1, <1>2, <1>3

\* A step of call c moves only c in and out of the sets that are counted.
LEMMA Moves ==
  ASSUME NEW c \in Calls, NEW o \in Orders, \A d \in Calls : d # c => call'[d] = call[d]
  PROVE  /\ Cardinality(Calls) \in Nat
         /\ Cardinality(Stamping(o)) \in Nat /\ Cardinality(Stamping(o)') \in Nat
         /\ Cardinality(Working(o)) \in Nat /\ Cardinality(Working(o)') \in Nat
         /\ Cardinality(Working(o)') <= Cardinality(Calls)
         /\ Cardinality(Counting(o)) \in Nat /\ Cardinality(Counting(o)') \in Nat
         /\ Cardinality(Counting(o)') <= Cardinality(Calls)
         /\ Cardinality(Stamping(o)') - Bit(c \in Stamping(o)')
              = Cardinality(Stamping(o)) - Bit(c \in Stamping(o))
         /\ Cardinality(Working(o)') - Bit(c \in Working(o)')
              = Cardinality(Working(o)) - Bit(c \in Working(o))
         /\ Cardinality(Counting(o)') - Bit(c \in Counting(o)')
              = Cardinality(Counting(o)) - Bit(c \in Counting(o))
<1>1. IsFiniteSet(Calls) /\ Cardinality(Calls) \in Nat
  BY InvoicingAssumption, FS_CardinalityType
<1>2. /\ Stamping(o) \in SUBSET Calls /\ Stamping(o)' \in SUBSET Calls
      /\ Stamping(o) \ {c} = Stamping(o)' \ {c}
  BY DEF Stamping
<1>3. /\ Working(o) \in SUBSET Calls /\ Working(o)' \in SUBSET Calls
      /\ Working(o) \ {c} = Working(o)' \ {c}
  BY DEF Working
<1>4. /\ Counting(o) \in SUBSET Calls /\ Counting(o)' \in SUBSET Calls
      /\ Counting(o) \ {c} = Counting(o)' \ {c}
  BY DEF Counting
<1>5. /\ Cardinality(Stamping(o)) \in Nat /\ Cardinality(Stamping(o)') \in Nat
      /\ Cardinality(Stamping(o)') - Bit(c \in Stamping(o)')
           = Cardinality(Stamping(o)) - Bit(c \in Stamping(o))
  BY <1>1, <1>2, DifferInOne
<1>6. /\ Cardinality(Working(o)) \in Nat /\ Cardinality(Working(o)') \in Nat
      /\ Cardinality(Working(o)') <= Cardinality(Calls)
      /\ Cardinality(Working(o)') - Bit(c \in Working(o)')
           = Cardinality(Working(o)) - Bit(c \in Working(o))
  BY <1>1, <1>3, DifferInOne
<1>7. /\ Cardinality(Counting(o)) \in Nat /\ Cardinality(Counting(o)') \in Nat
      /\ Cardinality(Counting(o)') <= Cardinality(Calls)
      /\ Cardinality(Counting(o)') - Bit(c \in Counting(o)')
           = Cardinality(Counting(o)) - Bit(c \in Counting(o))
  BY <1>1, <1>4, DifferInOne
<1> QED BY <1>1, <1>5, <1>6, <1>7

\* Copies are finitely many.
LEMMA CopiesFinite ==
  ASSUME TypeOK, NEW o \in Orders
  PROVE  IsFiniteSet(Copies(o)) /\ Cardinality(Copies(o)) \in Nat
<1>1. IsFiniteSet(Cfdis) /\ Copies(o) \subseteq Cfdis
  BY FS_Interval, InvoicingAssumption DEF Cfdis, Copies
<1> QED BY <1>1, FS_Subset, FS_CardinalityType

\* Numbers.
LEMMA Figures ==
  ASSUME TypeOK, NEW o \in Orders
  PROVE  /\ cfdi[o] \in 0..MaxCfdis /\ attempts[o] \in Nat /\ faults \in Nat
         /\ MaxAttempts \in Nat \ {0} /\ MaxCfdis \in Nat
  BY InvoicingAssumption DEF TypeOK

\* A step that stamps nothing, writes no uuid and counts no failure: c may enter
\* the sets only with orders that have no uuid, or attempts left.
LEMMA QuietStep ==
  ASSUME InvoicingInv, TypeOK', NEW c \in Calls,
         \A d \in Calls : d # c => call'[d] = call[d],
         CallSound(c)',
         covers' = covers, cfdi' = cfdi, attempts' = attempts, books \subseteq books',
         Fulfilled \subseteq Fulfilled', faults' >= faults,
         \A o \in Orders : c \in Stamping(o)' /\ c \notin Stamping(o) => cfdi[o] = 0,
         \A o \in Orders : c \in Stamping(o)' => c \in Working(o)',
         \A o \in Orders : c \in Working(o) /\ c \notin Working(o)' =>
           c \in Stamping(o) \/ faults' >= faults + 1,
         \A o \in Orders : c \in Stamping(o)' /\ c \notin Stamping(o) => c \notin Working(o),
         \A o \in Orders : c \in Stamping(o) => c \notin Working(o)' \/ c \in Stamping(o)',
         \A o \in Orders : c \in Counting(o)' /\ c \notin Counting(o) => attempts[o] < MaxAttempts
  PROVE  InvoicingInv'
<1> USE DEF InvoicingInv
<1>1. ASSUME NEW d \in Calls PROVE CallSound(d)'
  BY <1>1 DEF CallSound
<1>2. InvoicedIsCovered'
  BY DEF InvoicedIsCovered, Copies
<1>3. ASSUME NEW o \in Orders PROVE Covered(o)' /\ Tried(o)'
  <2>1. Copies(o)' = Copies(o) /\ Cardinality(Copies(o)) \in Nat
    BY CopiesFinite DEF Copies
  <2>2. faults' \in Nat
    BY InvoicingAssumption DEF TypeOK
  <2>3. Covered(o)'
    <3>1. Covered(o) /\ cfdi'[o] = cfdi[o]
      OBVIOUS
    <3> DEFINE in(S) == Bit(c \in S)
    <3>2. /\ in(Stamping(o)) \in {0, 1} /\ in(Stamping(o)') \in {0, 1}
          /\ in(Working(o)) \in {0, 1} /\ in(Working(o)') \in {0, 1}
      BY DEF Bit
    <3>3. cfdi[o] = 0 => in(Stamping(o)') - in(Stamping(o)) <=
                           in(Working(o)') - in(Working(o)) + faults' - faults
      BY <2>2, Figures DEF Bit
    <3>4. cfdi[o] # 0 => in(Stamping(o)') <= in(Stamping(o))
      BY DEF Bit
    <3>5. /\ Cardinality(Calls) \in Nat
          /\ Cardinality(Stamping(o)) \in Nat /\ Cardinality(Stamping(o)') \in Nat
          /\ Cardinality(Working(o)) \in Nat /\ Cardinality(Working(o)') \in Nat
          /\ Cardinality(Working(o)') <= Cardinality(Calls)
          /\ Cardinality(Stamping(o)') - in(Stamping(o)')
               = Cardinality(Stamping(o)) - in(Stamping(o))
          /\ Cardinality(Working(o)') - in(Working(o)')
               = Cardinality(Working(o)) - in(Working(o))
      BY Moves
    <3>6. faults \in Nat /\ faults' >= faults
      BY Figures
    <3> HIDE DEF in
    <3>7. CASE cfdi[o] = 0
      BY <2>1, <2>2, <3>1, <3>2, <3>3, <3>5, <3>6, <3>7 DEF Covered
    <3>8. CASE cfdi[o] # 0
      BY <2>1, <2>2, <3>1, <3>2, <3>4, <3>5, <3>6, <3>8 DEF Covered
    <3> QED BY <3>7, <3>8
  <2>4. Tried(o)'
    BY Moves, Figures DEF Tried, Bit
  <2> QED BY <2>3, <2>4
<1> QED BY <1>1, <1>2, <1>3

-----------------------------------------------------------------------------
(* The types of what a step writes. *)

LEMMA NoCallType == NoCall \in CallType
  BY InvoicingAssumption DEF NoCall, CallType

LEMMA DeliverType ==
  ASSUME TypeOK, NEW o \in Orders, Deliver(o)
  PROVE  /\ fulfilledAt' \in [Orders -> Nat] /\ Fulfilled' = Fulfilled \union {o}
<1>1. IsFiniteSet(Fulfilled)
  BY InvoicingAssumption, FS_Subset DEF Fulfilled
<1>2. Cardinality(Fulfilled) \in Nat
  BY <1>1, FS_CardinalityType
<1>3. Cardinality(Fulfilled) + 1 \in Nat \ {0}
  BY <1>2
<1>4. fulfilledAt' = [fulfilledAt EXCEPT ![o] = Cardinality(Fulfilled) + 1]
  BY DEF Deliver
<1>5. fulfilledAt \in [Orders -> Nat]
  BY DEF TypeOK
<1> HIDE DEF Fulfilled
<1>6. PICK n \in Nat \ {0} : n = Cardinality(Fulfilled) + 1
  BY <1>3
<1>7. fulfilledAt' = [fulfilledAt EXCEPT ![o] = n]
  BY <1>4, <1>6
<1>8. fulfilledAt' \in [Orders -> Nat]
  BY <1>5, <1>7
<1>9. \A p \in Orders : fulfilledAt'[p] = IF p = o THEN n ELSE fulfilledAt[p]
  BY <1>5, <1>7
<1>10. Fulfilled' = Fulfilled \union {o}
  BY <1>9 DEF Fulfilled
<1> QED BY <1>8, <1>10

LEMMA TypeStep ==
  ASSUME TypeOK, \A c \in Calls : CallSound(c), [Next]_vars
  PROVE  TypeOK'
<1> USE InvoicingAssumption
<1>1. call \in [Calls -> CallType] /\ NoCall \in CallType
  BY NoCallType DEF TypeOK, CallType
<1>2. Uninvoiced \subseteq Orders /\ ForGlobal \subseteq Orders
  BY DEF TypeOK, Uninvoiced, ForGlobal, Fulfilled
<1>3. CASE UNCHANGED vars
  BY <1>3 DEF TypeOK, vars, orderVars
<1>4. CASE \E o \in Orders : FulfillInTransaction(o)
  BY <1>4, DeliverType DEF TypeOK, FulfillInTransaction
<1>5. CASE Age \/ \E k \in Customers : EditCustomer(k)
  <2>1. fiscal' \in [Customers -> FiscalData] /\ horizon' \in Nat
    BY <1>5 DEF EditCustomer, Age, TypeOK
  <2> QED BY <1>5, <2>1 DEF TypeOK, EditCustomer, Age
<1>6. ASSUME NEW c \in Calls,
             \/ \E o \in Orders : CheckFulfill(c, o) \/ DeliverNow(c, o) \/ IssueForOrder(c, o)
                                 \/ SelfInvoiceOrder(c, o)
             \/ Scheduled(c) \/ RetryInvoices(c) \/ IssueDailyGlobal(c)
             \/ CallStep(c) \/ Fault(c)
      PROVE  TypeOK'
  <2>1. ASSUME NEW S \in SUBSET Orders, NEW a \in BOOLEAN, Begin(c, S, a)
        PROVE  call' \in [Calls -> CallType]
    BY <1>1, <2>1 DEF Begin, CallType, NoCall
  <2>2. ASSUME Continue(c) PROVE call' \in [Calls -> CallType]
    <3>1. call[c].todo \in SUBSET Orders /\ call[c].auto \in BOOLEAN
      BY <1>1 DEF CallType
    <3>2. [NoCall EXCEPT !.step = "read", !.todo = call[c].todo, !.auto = call[c].auto] \in CallType
      BY <1>1, <3>1 DEF CallType, NoCall
    <3> QED BY <1>1, <2>2, <3>2 DEF Continue
  <2>3. ASSUME Fails(c) PROVE call' \in [Calls -> CallType]
    BY <1>1, <2>3 DEF Fails, Go, CallType
  <2>4. ASSUME NEW s \in {"read", "persist", "write"}, Go(c, s) PROVE call' \in [Calls -> CallType]
    BY <1>1, <2>4 DEF Go, CallType
  <2>5. ASSUME NEW o \in Orders, CheckFulfill(c, o) PROVE TypeOK'
    <3>1. call' \in [Calls -> CallType]
      BY <1>1, <2>5 DEF CheckFulfill, CallType, NoCall
    <3> QED BY <2>5, <3>1 DEF TypeOK, CallType, CheckFulfill, orderVars
  <2>6. ASSUME NEW o \in Orders, IssueForOrder(c, o) PROVE TypeOK'
    BY <2>1, <2>6 DEF TypeOK, CallType, IssueForOrder, orderVars
  <2>7. ASSUME NEW o \in Orders, SelfInvoiceOrder(c, o) PROVE TypeOK'
    <3>1. fiscal' \in [Customers -> FiscalData]
      BY <2>7 DEF SelfInvoiceOrder, TypeOK, FiscalData
    <3> QED BY <2>1, <2>7, <3>1 DEF TypeOK, CallType, SelfInvoiceOrder
  <2>8. ASSUME NEW since, NEW limit, RetryPendingInvoices(c, since, limit) PROVE TypeOK'
    <3>1. Listed(since, limit) \in SUBSET Orders
      BY DEF Listed, DueSince
    <3> QED BY <2>1, <2>8, <3>1 DEF TypeOK, CallType, RetryPendingInvoices, orderVars
  <2>9. CASE IssueDailyGlobal(c)
    <3>1. call' \in [Calls -> CallType]
      BY <1>1, <1>2, <2>9 DEF IssueDailyGlobal, CallType, NoCall
    <3> QED BY <2>9, <3>1 DEF TypeOK, CallType, IssueDailyGlobal, orderVars
  <2>17. ASSUME NEW o \in Orders, Skip(c, o) PROVE call' \in [Calls -> CallType]
    <3>1. [call[c] EXCEPT !.todo = call[c].todo \ {o}] \in CallType
      BY <1>1 DEF CallType
    <3> QED BY <1>1, <2>17, <3>1 DEF Skip
  <2>10. CASE BuildInvoiceInput(c)
    <3>1. PICK o \in call[c].todo :
            Skip(c, o) \/ call' = [call EXCEPT ![c].step = "stamp", ![c].todo = @ \ {o},
                                               ![c].orders = {o}]
      BY <2>10 DEF BuildInvoiceInput
    <3>2. call[c] \in CallType /\ o \in Orders
      BY <1>1 DEF CallType
    <3>3. Skip(c, o) => call' \in [Calls -> CallType]
      BY <2>17, <3>2
    <3>4. ASSUME call' = [call EXCEPT ![c].step = "stamp", ![c].todo = @ \ {o}, ![c].orders = {o}]
          PROVE  call' \in [Calls -> CallType]
      <4>1. [call[c] EXCEPT !.step = "stamp", !.todo = call[c].todo \ {o}, !.orders = {o}] \in CallType
        BY <3>2 DEF CallType
      <4>2. call' = [call EXCEPT ![c] =
              [call[c] EXCEPT !.step = "stamp", !.todo = call[c].todo \ {o}, !.orders = {o}]]
        BY <1>1, <3>4 DEF CallType
      <4> QED BY <1>1, <4>1, <4>2
    <3>5. call' \in [Calls -> CallType]
      BY <3>1, <3>3, <3>4
    <3> QED BY <2>10, <3>5 DEF TypeOK, CallType, BuildInvoiceInput, orderVars
  <2>11. CASE Stamp(c)
    <3>1. PICK n \in Cfdis : /\ covers' = [covers EXCEPT ![n] = call[c].orders]
                             /\ call' = [call EXCEPT ![c].step = "persist", ![c].cfdi = n]
      BY <2>11 DEF Stamp
    <3>2. call' \in [Calls -> CallType]
      <4>1. n \in 0..MaxCfdis
        BY DEF Cfdis
      <4>2. [call[c] EXCEPT !.step = "persist", !.cfdi = n] \in CallType
        BY <1>1, <4>1 DEF CallType
      <4>3. call' = [call EXCEPT ![c] = [call[c] EXCEPT !.step = "persist", !.cfdi = n]]
        BY <1>1, <3>1 DEF CallType
      <4> QED BY <1>1, <4>2, <4>3
    <3>3. covers' \in [Cfdis -> SUBSET Orders]
      BY <1>1, <3>1 DEF TypeOK, CallType
    <3> QED BY <2>11, <3>2, <3>3 DEF TypeOK, CallType, Stamp, orderVars
  <2>12. CASE Refuse(c)
    BY <2>3, <2>12 DEF TypeOK, CallType, Refuse, orderVars
  <2>13. CASE Die(c)
    <3>1. call' \in [Calls -> CallType]
      BY <1>1, <2>2, <2>13 DEF Die
    <3> QED BY <2>13, <3>1 DEF TypeOK, CallType, Die, orderVars
  <2>14. CASE LoseStamp(c)
    BY <2>3, <2>14 DEF TypeOK, CallType, LoseStamp, orderVars
  <2>15. CASE RecordFailure(c)
    <3>1. attempts' \in [Orders -> Nat]
      BY <2>15 DEF RecordFailure, TypeOK
    <3> QED BY <2>2, <2>15, <3>1 DEF TypeOK, CallType, RecordFailure
  <2>16. CASE WriteUuid(c)
    <3>1. cfdi' \in [Orders -> 0..MaxCfdis]
      BY <1>1, <2>16 DEF WriteUuid, TypeOK, CallType
    <3> QED BY <2>2, <2>16, <3>1 DEF TypeOK, CallType, WriteUuid
  <2> QED
    <3>1. CASE Persist(c)
      <4>1. call' \in [Calls -> CallType]
        BY <2>4, <3>1 DEF Persist
      <4>2. books' \subseteq Cfdis
        BY <3>1 DEF Persist, TypeOK, CallSound, At
      <4> QED BY <3>1, <4>1, <4>2 DEF TypeOK, CallType, Persist, orderVars
    <3>2. CASE CommitFulfill(c)
      <4>1. fulfilledAt' \in [Orders -> Nat]
        BY <1>1, <3>2, DeliverType DEF CommitFulfill, TypeOK, CallType
      <4> QED BY <2>4, <3>2, <4>1 DEF TypeOK, CallType, CommitFulfill
    <3>3. CASE RefuseFulfill(c)
      BY <1>1, <3>3 DEF TypeOK, CallType, RefuseFulfill, orderVars
    <3>4. ASSUME NEW o \in Orders, DeliverNow(c, o) PROVE TypeOK'
      BY <2>1, <3>4, DeliverType DEF TypeOK, CallType, DeliverNow
    <3>5. CASE FailRead(c)
      <4>1. PICK o \in Orders : Skip(c, o)
        BY <1>1, <3>5 DEF FailRead, CallType
      <4> QED BY <2>17, <3>5, <4>1 DEF TypeOK, CallType, FailRead, orderVars
    <3>6. CASE NoUuid(c)
      BY <2>2, <3>6 DEF TypeOK, CallType, NoUuid, orderVars
    <3> QED BY <1>6, <2>5, <2>6, <2>7, <2>8, <2>9, <2>10, <2>11, <2>12, <2>13, <2>14, <2>15,
               <2>16, <3>1, <3>2, <3>3, <3>4, <3>5, <3>6
            DEF CallStep, Fault, Scheduled, RetryInvoices
<1> QED BY <1>3, <1>4, <1>5, <1>6 DEF Next

-----------------------------------------------------------------------------
(* Every step keeps the invariant. *)

\* A call that goes on, or ends, has no order in hand and the same list.
LEMMA ContinueKeepsList ==
  ASSUME TypeOK, NEW c \in Calls, Continue(c)
  PROVE  /\ \A d \in Calls : d # c => call'[d] = call[d]
         /\ call'[c].step \in {"none", "read"} /\ call'[c].orders = {}
         /\ call'[c].todo = call[c].todo
         /\ call'[c].auto => call[c].auto
         /\ call'[c].step = "none" => call'[c] = NoCall
<1>1. call \in [Calls -> CallType]
  BY DEF TypeOK, CallType
<1>2. CASE call[c].todo = {}
  BY <1>1, <1>2 DEF Continue, NoCall
<1>3. CASE call[c].todo # {}
  BY <1>1, <1>3 DEF Continue, NoCall
<1> QED BY <1>2, <1>3

\* A call begins with a list of orders.
LEMMA BeginStep ==
  ASSUME InvoicingInv, TypeOK', NEW c \in Calls, NEW S \in SUBSET Orders, NEW a \in BOOLEAN,
         Begin(c, S, a), S \subseteq Fulfilled',
         a => \A o \in S : attempts[o] < MaxAttempts,
         covers' = covers, cfdi' = cfdi, attempts' = attempts, books' = books,
         Fulfilled \subseteq Fulfilled', faults' = faults
  PROVE  InvoicingInv'
<1>1. /\ \A d \in Calls : d # c => call'[d] = call[d]
      /\ call[c].step = "none"
      /\ call'[c] = [NoCall EXCEPT !.step = "read", !.todo = S, !.auto = a]
  <2>1. call \in [Calls -> CallType]
    BY DEF InvoicingInv, TypeOK, CallType
  <2>2. call[c].step = "none"
    BY DEF Begin, At
  <2>3. call' = [call EXCEPT ![c] = [NoCall EXCEPT !.step = "read", !.todo = S, !.auto = a]]
    BY DEF Begin
  <2>4. \A d \in Calls : d # c => call'[d] = call[d]
    BY <2>1, <2>3
  <2>5. call'[c] = [NoCall EXCEPT !.step = "read", !.todo = S, !.auto = a]
    BY <2>1, <2>3, Zenon
  <2> QED BY <2>2, <2>4, <2>5
<1>2. call'[c] = [step |-> "read", todo |-> S, orders |-> {}, cfdi |-> 0, auto |-> a]
  BY <1>1 DEF NoCall
<1>3. CallSound(c)'
  BY <1>2 DEF CallSound
<1>4. ASSUME NEW o \in Orders
      PROVE  /\ c \notin Stamping(o)' /\ c \notin Stamping(o) /\ c \notin Working(o)
             /\ c \in Counting(o)' => attempts[o] < MaxAttempts
  BY <1>1, <1>2 DEF Stamping, Working, Counting
<1>5. faults' >= faults
  BY DEF InvoicingInv, TypeOK
<1> QED BY <1>1, <1>3, <1>4, <1>5, QuietStep

\* An order that leaves the hands of c without a copy, or with a copy lost.
LEMMA LeaveStep ==
  ASSUME InvoicingInv, TypeOK', NEW c \in Calls,
         \A d \in Calls : d # c => call'[d] = call[d],
         CallSound(c)', call'[c].step \in {"none", "read", "failed"},
         call'[c].step = "failed" => call'[c].orders = call[c].orders,
         call'[c].step # "failed" => call'[c].orders = {},
         call'[c].todo \subseteq call[c].todo, call'[c].auto => call[c].auto,
         UNCHANGED <<orderVars, covers, books>>,
         faults' >= faults,
         call[c].step \in {"persist", "write"} => faults' >= faults + 1
  PROVE  InvoicingInv'
<1>1. ASSUME NEW o \in Orders
      PROVE  /\ c \notin Stamping(o)' /\ c \notin Working(o)'
             /\ c \in Working(o) => c \in Stamping(o) \/ faults' >= faults + 1
             /\ c \in Counting(o)' => c \in Counting(o)
  BY DEF Stamping, Working, Counting
<1> QED BY <1>1, QuietStep DEF orderVars, Fulfilled

LEMMA FailsStep ==
  ASSUME InvoicingInv, TypeOK', NEW c \in Calls, Fails(c),
         call[c].step \in {"stamp", "persist", "write"},
         UNCHANGED <<orderVars, covers, books>>,
         faults' >= faults,
         call[c].step \in {"persist", "write"} => faults' >= faults + 1
  PROVE  InvoicingInv'
<1>1. call \in [Calls -> CallType] /\ CallSound(c)
  BY DEF InvoicingInv, TypeOK, CallType
<1>2. CASE call[c].auto
  <2>1. call' = [call EXCEPT ![c] = [call[c] EXCEPT !.step = "failed"]]
    BY <1>1, <1>2 DEF Fails, Go, CallType
  <2>2. /\ call'[c].step = "failed" /\ call'[c].orders = call[c].orders
        /\ call'[c].todo = call[c].todo /\ call'[c].auto = call[c].auto
    BY <1>1, <2>1 DEF CallType
  <2>3. CallSound(c)'
    BY <1>1, <1>2, <2>2 DEF CallSound, orderVars, Fulfilled
  <2>4. \A d \in Calls : d # c => call'[d] = call[d]
    BY <1>1, <2>1
  <2> QED BY <2>2, <2>3, <2>4, LeaveStep
<1>3. CASE ~call[c].auto
  <2>1. call'[c] = NoCall /\ \A d \in Calls : d # c => call'[d] = call[d]
    BY <1>1, <1>3 DEF Fails
  <2>2. CallSound(c)'
    BY <2>1 DEF CallSound, NoCall
  <2> QED BY <2>1, <2>2, LeaveStep DEF NoCall
<1> QED BY <1>2, <1>3

LEMMA DieStep ==
  ASSUME InvoicingInv, TypeOK', NEW c \in Calls, Die(c)
  PROVE  InvoicingInv'
<1>1. call \in [Calls -> CallType] /\ CallSound(c) /\ TypeOK
  BY DEF InvoicingInv, TypeOK, CallType
<1>2. faults' >= faults /\ faults' >= faults + 1
  BY InvoicingAssumption DEF InvoicingInv, TypeOK, Die
<1>3. UNCHANGED <<orderVars, covers, books>>
  BY DEF Die
<1>4. CASE call[c].step = "failed"
  <2>1. Continue(c)
    BY <1>4 DEF Die, At
  <2>2. CallSound(c)'
    BY <1>1, <1>3, <1>4, <2>1, ContinueKeepsList DEF CallSound, NoCall, orderVars, Fulfilled
  <2> QED BY <1>1, <1>2, <1>3, <2>1, <2>2, ContinueKeepsList, LeaveStep
<1>5. CASE call[c].step # "failed"
  <2>1. call'[c] = NoCall /\ \A d \in Calls : d # c => call'[d] = call[d]
    BY <1>1, <1>5 DEF Die, At
  <2>2. CallSound(c)'
    BY <2>1 DEF CallSound, NoCall
  <2> QED BY <1>2, <1>3, <2>1, <2>2, LeaveStep DEF NoCall
<1> QED BY <1>4, <1>5

LEMMA GlobalStep ==
  ASSUME InvoicingInv, TypeOK', NEW c \in Calls, IssueDailyGlobal(c)
  PROVE  InvoicingInv'
<1>1. call \in [Calls -> CallType] /\ TypeOK
  BY DEF InvoicingInv, TypeOK, CallType
<1>2. call'[c] = [step |-> "stamp", todo |-> {}, orders |-> ForGlobal, cfdi |-> 0, auto |-> FALSE]
  BY <1>1 DEF IssueDailyGlobal, NoCall
<1>3. /\ \A d \in Calls : d # c => call'[d] = call[d]
      /\ call[c].step = "none" /\ ForGlobal # {}
      /\ UNCHANGED <<orderVars, covers, books, faults>>
  BY <1>1 DEF IssueDailyGlobal, At
<1>4. CallSound(c)'
  BY <1>2, <1>3 DEF CallSound, ForGlobal, Uninvoiced, orderVars, Fulfilled
<1>5. ASSUME NEW o \in Orders
      PROVE  /\ c \in Stamping(o)' => cfdi[o] = 0 /\ c \in Working(o)'
             /\ c \notin Stamping(o) /\ c \notin Working(o) /\ c \notin Counting(o)'
  BY <1>2, <1>3 DEF Stamping, Working, Counting, ForGlobal, Uninvoiced
<1>6. faults' >= faults
  BY <1>1, <1>3 DEF TypeOK
<1> QED BY <1>3, <1>4, <1>5, <1>6, QuietStep DEF orderVars, Fulfilled

\* An order that is passed over.
LEMMA SkipStep ==
  ASSUME InvoicingInv, TypeOK', NEW c \in Calls, call[c].step = "read",
         NEW o \in call[c].todo, Skip(c, o),
         UNCHANGED <<orderVars, covers, books>>, faults' >= faults
  PROVE  InvoicingInv'
<1>1. call \in [Calls -> CallType] /\ CallSound(c)
  BY DEF InvoicingInv, TypeOK, CallType
<1>2. \A d \in Calls : d # c => call'[d] = call[d]
  BY <1>1 DEF Skip
<1>3. CASE call[c].todo = {o}
  <2>1. call'[c] = NoCall
    BY <1>1, <1>3 DEF Skip
  <2>2. CallSound(c)'
    BY <2>1 DEF CallSound, NoCall
  <2> QED BY <1>2, <2>1, <2>2, LeaveStep DEF NoCall
<1>4. CASE call[c].todo # {o}
  <2>1. /\ call'[c].step = "read" /\ call'[c].todo = call[c].todo \ {o}
        /\ call'[c].orders = {} /\ call'[c].auto = call[c].auto
    BY <1>1, <1>4 DEF Skip, CallType, CallSound
  <2>2. CallSound(c)'
    BY <1>1, <2>1 DEF CallSound, orderVars, Fulfilled
  <2> QED BY <1>2, <2>1, <2>2, LeaveStep
<1> QED BY <1>3, <1>4

\* fulfill takes an order in hand, which nobody has tried before.
LEMMA CheckFulfillStep ==
  ASSUME InvoicingInv, TypeOK', NEW c \in Calls, NEW o \in Orders, CheckFulfill(c, o)
  PROVE  InvoicingInv'
<1>1. call \in [Calls -> CallType] /\ TypeOK
  BY DEF InvoicingInv, TypeOK, CallType
<1>2. call'[c] = [step |-> "fulfil", todo |-> {o}, orders |-> {}, cfdi |-> 0, auto |-> TRUE]
  BY <1>1 DEF CheckFulfill, NoCall
<1>3. /\ \A d \in Calls : d # c => call'[d] = call[d]
      /\ call[c].step = "none" /\ attempts[o] < MaxAttempts
      /\ UNCHANGED <<orderVars, covers, books, faults>>
  BY <1>1, InvoicingAssumption DEF CheckFulfill, At, InvoicingInv, Tried
<1>4. CallSound(c)'
  BY <1>2 DEF CallSound
<1>5. ASSUME NEW p \in Orders
      PROVE  /\ c \notin Stamping(p)' /\ c \notin Stamping(p) /\ c \notin Working(p)
             /\ c \in Counting(p)' => attempts[p] < MaxAttempts
  BY <1>2, <1>3 DEF Stamping, Working, Counting
<1>6. faults' >= faults
  BY <1>1, <1>3 DEF TypeOK
<1> QED BY <1>3, <1>4, <1>5, <1>6, QuietStep DEF orderVars, Fulfilled

\* The order is delivered, or was: in both cases it is in hand to be invoiced.
LEMMA CommitFulfillStep ==
  ASSUME InvoicingInv, TypeOK', NEW c \in Calls, CommitFulfill(c)
  PROVE  InvoicingInv'
<1>1. call \in [Calls -> CallType] /\ TypeOK /\ CallSound(c)
  BY DEF InvoicingInv, TypeOK, CallType
<1>2. /\ call[c].step = "fulfil" /\ UNCHANGED <<cfdi, attempts, covers, books, faults>>
      /\ \A d \in Calls : d # c => call'[d] = call[d]
  BY <1>1 DEF CommitFulfill, At, Go
<1>3. /\ call'[c].step = "read" /\ call'[c].todo = call[c].todo
      /\ call'[c].orders = call[c].orders /\ call'[c].auto = call[c].auto
  BY <1>1 DEF CommitFulfill, Go, CallType
<1>4. PICK o \in Orders : call[c].todo = {o}
  BY <1>1, <1>2 DEF CallSound
<1>5. Fulfilled' = Fulfilled \union {o}
  <2>1. CASE Deliver(o)
    BY <1>1, <2>1, DeliverType
  <2>2. CASE o \in Fulfilled /\ UNCHANGED fulfilledAt
    BY <2>2 DEF Fulfilled
  <2> QED BY <1>4, <2>1, <2>2 DEF CommitFulfill
<1>6. CallSound(c)'
  BY <1>1, <1>2, <1>3, <1>4, <1>5 DEF CallSound
<1>7. ASSUME NEW p \in Orders
      PROVE  /\ c \notin Stamping(p)' /\ c \notin Stamping(p) /\ c \notin Working(p)
             /\ c \in Counting(p)' => c \in Counting(p)
  BY <1>2, <1>3 DEF Stamping, Working, Counting
<1>8. faults' >= faults
  BY <1>1, <1>2 DEF TypeOK
<1> QED BY <1>2, <1>5, <1>6, <1>7, <1>8, QuietStep

\* What ends before anything is delivered or stamped.
LEMMA RefuseFulfillStep ==
  ASSUME InvoicingInv, TypeOK', NEW c \in Calls, RefuseFulfill(c)
  PROVE  InvoicingInv'
<1>1. call \in [Calls -> CallType] /\ TypeOK
  BY DEF InvoicingInv, TypeOK, CallType
<1>2. /\ call[c].step = "fulfil" /\ UNCHANGED <<orderVars, covers, books, faults>>
      /\ call'[c] = NoCall /\ \A d \in Calls : d # c => call'[d] = call[d]
  BY <1>1 DEF RefuseFulfill, At
<1>3. CallSound(c)'
  BY <1>2 DEF CallSound, NoCall
<1>4. faults' >= faults
  BY <1>1, <1>2 DEF TypeOK
<1> QED BY <1>2, <1>3, <1>4, LeaveStep DEF NoCall

\* No uuid came: the CFDI is lost to the order, and the call goes on.
LEMMA NoUuidStep ==
  ASSUME InvoicingInv, TypeOK', NEW c \in Calls, NoUuid(c)
  PROVE  InvoicingInv'
<1>1. call \in [Calls -> CallType] /\ TypeOK /\ CallSound(c)
  BY DEF InvoicingInv, TypeOK, CallType
<1>2. /\ call[c].step = "write" /\ Continue(c) /\ faults' = faults + 1
      /\ UNCHANGED <<orderVars, covers, books>>
  BY DEF NoUuid, At
<1>3. faults' >= faults /\ faults' >= faults + 1
  BY <1>1, <1>2, InvoicingAssumption DEF TypeOK
<1>4. CallSound(c)'
  BY <1>1, <1>2, ContinueKeepsList DEF CallSound, NoCall, orderVars, Fulfilled
<1> QED BY <1>1, <1>2, <1>3, <1>4, ContinueKeepsList, LeaveStep

LEMMA BuildStep ==
  ASSUME InvoicingInv, TypeOK', NEW c \in Calls, BuildInvoiceInput(c)
  PROVE  InvoicingInv'
<1>1. call \in [Calls -> CallType] /\ TypeOK /\ CallSound(c)
  BY DEF InvoicingInv, TypeOK, CallType
<1>2. UNCHANGED <<orderVars, covers, books, faults>> /\ call[c].step = "read" /\ call[c].orders = {}
  BY <1>1 DEF BuildInvoiceInput, At, CallSound
<1>3. PICK o \in call[c].todo :
        \/ ~Invoiceable(o) /\ Skip(c, o)
        \/ /\ Invoiceable(o)
           /\ call' = [call EXCEPT ![c].step = "stamp", ![c].todo = @ \ {o}, ![c].orders = {o}]
  BY DEF BuildInvoiceInput
<1>4. \A d \in Calls : d # c => call'[d] = call[d]
  BY <1>1, <1>3 DEF Skip
<1>5. o \in Fulfilled /\ o \in Orders
  BY <1>1, <1>2 DEF CallSound, Fulfilled
<1>6. faults' >= faults
  BY <1>1, <1>2 DEF TypeOK
<1>7. CASE Invoiceable(o)
  <2>1. /\ call'[c].step = "stamp" /\ call'[c].todo = call[c].todo \ {o}
        /\ call'[c].orders = {o} /\ call'[c].auto = call[c].auto
    BY <1>1, <1>3, <1>7 DEF CallType
  <2>2. CallSound(c)'
    BY <1>1, <1>2, <1>5, <2>1 DEF CallSound, orderVars, Fulfilled
  <2>3. ASSUME NEW p \in Orders
        PROVE  /\ c \in Stamping(p)' => cfdi[p] = 0 /\ c \in Working(p)'
               /\ c \notin Stamping(p) /\ c \notin Working(p)
               /\ c \in Counting(p)' => c \in Counting(p)
    BY <1>2, <1>7, <2>1 DEF Stamping, Working, Counting, Invoiceable, Uninvoiced
  <2> QED BY <1>2, <1>4, <1>6, <2>2, <2>3, QuietStep DEF orderVars, Fulfilled
<1>8. CASE ~Invoiceable(o)
  <2>1. Skip(c, o)
    BY <1>3, <1>8
  <2> QED BY <1>2, <1>6, <2>1, SkipStep
<1> QED BY <1>7, <1>8

LEMMA PersistStep ==
  ASSUME InvoicingInv, TypeOK', NEW c \in Calls, Persist(c)
  PROVE  InvoicingInv'
<1>1. call \in [Calls -> CallType] /\ TypeOK /\ CallSound(c)
  BY DEF InvoicingInv, TypeOK, CallType
<1>2. /\ call[c].step = "persist" /\ books' = books \union {call[c].cfdi}
      /\ UNCHANGED <<orderVars, covers, faults>>
      /\ \A d \in Calls : d # c => call'[d] = call[d]
  BY <1>1 DEF Persist, At, Go
<1>3. /\ call'[c].step = "write" /\ call'[c].todo = call[c].todo
      /\ call'[c].orders = call[c].orders /\ call'[c].auto = call[c].auto
      /\ call'[c].cfdi = call[c].cfdi
  BY <1>1 DEF Persist, Go, CallType
<1>4. CallSound(c)'
  BY <1>1, <1>2, <1>3 DEF CallSound, orderVars, Fulfilled
<1>5. ASSUME NEW o \in Orders
      PROVE  /\ c \notin Stamping(o)' /\ c \notin Stamping(o)
             /\ c \in Working(o) => c \in Working(o)'
             /\ c \in Counting(o)' => c \in Counting(o)
  BY <1>2, <1>3 DEF Stamping, Working, Counting
<1>6. faults' >= faults
  BY <1>1, <1>2 DEF TypeOK
<1> QED BY <1>2, <1>4, <1>5, <1>6, QuietStep DEF orderVars, Fulfilled

\* The PAC stamps: one copy more of its orders, which no longer wait for one.
LEMMA StampStep ==
  ASSUME InvoicingInv, TypeOK', NEW c \in Calls, Stamp(c)
  PROVE  InvoicingInv'
<1>1. call \in [Calls -> CallType] /\ TypeOK /\ CallSound(c)
  BY DEF InvoicingInv, TypeOK, CallType
<1>2. call[c].step = "stamp" /\ UNCHANGED <<orderVars, books, faults>>
  BY DEF Stamp, At
<1>3. PICK n \in Cfdis : /\ covers[n] = {} /\ covers' = [covers EXCEPT ![n] = call[c].orders]
                         /\ call' = [call EXCEPT ![c].step = "persist", ![c].cfdi = n]
  BY DEF Stamp
<1>4. /\ call'[c].step = "persist" /\ call'[c].todo = call[c].todo /\ call'[c].cfdi = n
      /\ call'[c].orders = call[c].orders /\ call'[c].auto = call[c].auto
      /\ \A d \in Calls : d # c => call'[d] = call[d]
  BY <1>1, <1>3 DEF CallType
<1>5. /\ covers'[n] = call[c].orders
      /\ \A m \in Cfdis : m # n => covers'[m] = covers[m]
  BY <1>1, <1>3 DEF TypeOK
<1>6. ASSUME NEW d \in Calls PROVE CallSound(d)'
  <2>1. CASE d = c
    BY <1>1, <1>2, <1>4, <1>5, <2>1 DEF CallSound, orderVars, Fulfilled
  <2>2. CASE d # c
    <3>1. CallSound(d) /\ call'[d] = call[d]
      BY <1>4, <2>2 DEF InvoicingInv
    <3>2. call[d].step \in {"persist", "write"} => covers'[call[d].cfdi] = covers[call[d].cfdi]
      BY <1>3, <1>5, <3>1 DEF CallSound
    <3> QED BY <1>2, <3>1, <3>2 DEF CallSound, orderVars, Fulfilled
  <2> QED BY <2>1, <2>2
<1>7. \A o \in Orders : Copies(o)' = Copies(o) \union (IF o \in call[c].orders THEN {n} ELSE {})
  BY <1>3, <1>5 DEF Copies
<1>8. InvoicedIsCovered'
  BY <1>2, <1>7 DEF InvoicingInv, InvoicedIsCovered, orderVars, Fulfilled
<1>9. ASSUME NEW o \in Orders PROVE Covered(o)' /\ Tried(o)'
  <2>1. /\ Covered(o) /\ Tried(o) /\ cfdi' = cfdi /\ faults' = faults /\ attempts' = attempts
        /\ Fulfilled' = Fulfilled
    BY <1>2 DEF InvoicingInv, orderVars, Fulfilled
  <2>2. Cardinality(Counting(o)') = Cardinality(Counting(o))
    <3>1. Counting(o)' = Counting(o)
      BY <1>4 DEF Counting
    <3> QED BY <3>1
  <2>3. Tried(o)'
    BY <2>1, <2>2 DEF Tried
  <2>4. IsFiniteSet(Copies(o)) /\ Cardinality(Copies(o)) \in Nat /\ n \notin Copies(o)
    BY <1>1, <1>3, CopiesFinite DEF Copies
  <2>5. Working(o)' = Working(o)
    BY <1>2, <1>4 DEF Working
  <2>6. CASE o \in call[c].orders
    <3>1. Cardinality(Copies(o)') = Cardinality(Copies(o)) + 1
      BY <1>7, <2>4, <2>6, FS_AddElement
    <3>2. Bit(c \in Stamping(o)) = 1 /\ Bit(c \in Stamping(o)') = 0
      BY <1>2, <1>4, <2>6 DEF Stamping, Bit
    <3>3. /\ Cardinality(Stamping(o)) \in Nat /\ Cardinality(Stamping(o)') \in Nat
          /\ Cardinality(Stamping(o)') = Cardinality(Stamping(o)) - 1
      BY <1>4, <3>2, Moves
    <3>4. /\ Cardinality(Working(o)) \in Nat /\ Cardinality(Calls) \in Nat /\ faults \in Nat
      BY <1>1, <1>4, Moves, Figures
    <3>5. Covered(o)'
      BY <2>1, <2>4, <2>5, <3>1, <3>3, <3>4 DEF Covered
    <3> QED BY <2>3, <3>5
  <2>7. CASE o \notin call[c].orders
    <3>1. Copies(o)' = Copies(o) /\ Stamping(o)' = Stamping(o)
      BY <1>4, <1>7, <2>7 DEF Stamping
    <3>2. Covered(o)'
      BY <2>1, <2>5, <3>1 DEF Covered
    <3> QED BY <2>3, <3>2
  <2> QED BY <2>6, <2>7
<1> QED BY <1>6, <1>8, <1>9 DEF InvoicingInv

\* The uuid is written: from here on no call takes the order.
LEMMA WriteStep ==
  ASSUME InvoicingInv, TypeOK', NEW c \in Calls, WriteUuid(c)
  PROVE  InvoicingInv'
<1>1. call \in [Calls -> CallType] /\ TypeOK /\ CallSound(c)
  BY DEF InvoicingInv, TypeOK, CallType
<1>2. /\ call[c].step = "write" /\ Continue(c)
      /\ UNCHANGED <<fulfilledAt, horizon, fiscal, attempts, covers, books, faults>>
      /\ Fulfilled' = Fulfilled
  BY DEF WriteUuid, At, Fulfilled
<1>3. \A o \in Orders : cfdi'[o] = IF o \in call[c].orders THEN call[c].cfdi ELSE cfdi[o]
  BY DEF WriteUuid
<1>4. /\ \A d \in Calls : d # c => call'[d] = call[d]
      /\ call'[c].step \in {"none", "read"} /\ call'[c].orders = {}
      /\ call'[c].todo = call[c].todo
      /\ call'[c].auto => call[c].auto
      /\ call'[c].step = "none" => call'[c] = NoCall
  BY <1>1, <1>2, ContinueKeepsList
<1>5. ASSUME NEW d \in Calls PROVE CallSound(d)'
  <2>1. CASE d = c
    BY <1>1, <1>2, <1>4, <2>1 DEF CallSound
  <2>2. CASE d # c
    BY <1>2, <1>4, <2>2 DEF CallSound, InvoicingInv
  <2> QED BY <2>1, <2>2
<1>6. \A o \in Orders : Copies(o)' = Copies(o)
  BY <1>2 DEF Copies
<1>7. InvoicedIsCovered'
  BY <1>1, <1>2, <1>3, <1>6 DEF InvoicedIsCovered, InvoicingInv, CallSound, Copies
<1>8. ASSUME NEW o \in Orders PROVE Covered(o)' /\ Tried(o)'
  <2>1. Covered(o) /\ Tried(o)
    BY DEF InvoicingInv
  <2>2. Stamping(o)' = Stamping(o)
    BY <1>2, <1>4 DEF Stamping
  <2>3. CASE o \in call[c].orders
    <3>1. cfdi'[o] # 0
      BY <1>1, <1>2, <1>3, <2>3 DEF CallSound, Cfdis
    <3>2. Covered(o)'
      BY <1>2, <1>6, <2>1, <2>2, <3>1 DEF Covered
    <3>3. Bit(c \in Counting(o)') \in {0, 1} /\ Bit(c \in Counting(o)) \in {0, 1}
          /\ Bit(c \in Counting(o)') <= Bit(c \in Counting(o))
      BY <1>4 DEF Counting, Bit
    <3>4. Tried(o)'
      BY <1>1, <1>2, <1>4, <2>1, <3>3, Moves, Figures DEF Tried
    <3> QED BY <3>2, <3>4
  <2>4. CASE o \notin call[c].orders
    <3>1. Working(o)' = Working(o) /\ cfdi'[o] = cfdi[o]
      BY <1>3, <1>4, <2>4 DEF Working
    <3>2. Covered(o)'
      BY <1>2, <1>6, <2>1, <2>2, <3>1 DEF Covered
    <3>3. Bit(c \in Counting(o)') \in {0, 1} /\ Bit(c \in Counting(o)) \in {0, 1}
          /\ Bit(c \in Counting(o)') <= Bit(c \in Counting(o))
      BY <1>4 DEF Counting, Bit
    <3>4. Tried(o)'
      BY <1>1, <1>2, <1>4, <2>1, <3>3, Moves, Figures DEF Tried
    <3> QED BY <3>2, <3>4
  <2> QED BY <2>3, <2>4
<1> QED BY <1>5, <1>7, <1>8 DEF InvoicingInv

\* A failure is counted, and the call that counts it leaves the order.
LEMMA RecordStep ==
  ASSUME InvoicingInv, TypeOK', NEW c \in Calls, RecordFailure(c)
  PROVE  InvoicingInv'
<1>1. call \in [Calls -> CallType] /\ TypeOK /\ CallSound(c)
  BY DEF InvoicingInv, TypeOK, CallType
<1>2. /\ call[c].step = "failed" /\ Continue(c)
      /\ UNCHANGED <<fulfilledAt, horizon, fiscal, cfdi, covers, books, faults>>
      /\ Fulfilled' = Fulfilled
  BY DEF RecordFailure, At, Fulfilled
<1>3. \A o \in Orders : attempts'[o] = IF o \in call[c].orders THEN attempts[o] + 1 ELSE attempts[o]
  BY DEF RecordFailure
<1>4. /\ \A d \in Calls : d # c => call'[d] = call[d]
      /\ call'[c].step \in {"none", "read"} /\ call'[c].orders = {}
      /\ call'[c].todo = call[c].todo
      /\ call'[c].auto => call[c].auto
      /\ call'[c].step = "none" => call'[c] = NoCall
  BY <1>1, <1>2, ContinueKeepsList
<1>5. ASSUME NEW d \in Calls PROVE CallSound(d)'
  <2>1. CASE d = c
    BY <1>1, <1>2, <1>4, <2>1 DEF CallSound
  <2>2. CASE d # c
    BY <1>2, <1>4, <2>2 DEF CallSound, InvoicingInv
  <2> QED BY <2>1, <2>2
<1>6. InvoicedIsCovered'
  BY <1>2 DEF InvoicedIsCovered, InvoicingInv, Copies
<1>7. ASSUME NEW o \in Orders PROVE Covered(o)' /\ Tried(o)'
  <2>1. Covered(o) /\ Tried(o)
    BY DEF InvoicingInv
  <2>2. /\ Stamping(o)' = Stamping(o) /\ Working(o)' = Working(o) /\ Copies(o)' = Copies(o)
    BY <1>2, <1>4 DEF Stamping, Working, Copies
  <2>3. Covered(o)'
    BY <1>2, <2>1, <2>2 DEF Covered
  <2>4. CASE o \in call[c].orders
    <3>1. Bit(c \in Counting(o)) = 1 /\ Bit(c \in Counting(o)') = 0
      BY <1>1, <1>2, <1>4, <2>4 DEF Counting, Bit, CallSound
    <3>2. o \in Fulfilled
      BY <1>1, <2>4 DEF CallSound
    <3>3. Cardinality(Counting(o)') = Cardinality(Counting(o)) - 1
      BY <1>4, <3>1, Moves
    <3>4. Cardinality(Counting(o)) \in Nat /\ Cardinality(Calls) \in Nat
      BY <1>4, Moves
    <3>5. attempts'[o] = attempts[o] + 1 /\ attempts[o] \in Nat /\ MaxAttempts \in Nat
      BY <1>1, <1>3, <2>4, Figures
    <3>6. Tried(o)'
      BY <1>2, <2>1, <3>2, <3>3, <3>4, <3>5 DEF Tried
    <3> QED BY <2>3, <3>6
  <2>5. CASE o \notin call[c].orders
    <3>1. Bit(c \in Counting(o)') \in {0, 1} /\ Bit(c \in Counting(o)) \in {0, 1}
          /\ Bit(c \in Counting(o)') <= Bit(c \in Counting(o))
      BY <1>4 DEF Counting, Bit
    <3>2. attempts'[o] = attempts[o]
      BY <1>3, <2>5
    <3>3. Tried(o)'
      BY <1>1, <1>2, <1>4, <2>1, <3>1, <3>2, Moves, Figures DEF Tried
    <3> QED BY <2>3, <3>3
  <2> QED BY <2>4, <2>5
<1> QED BY <1>5, <1>6, <1>7 DEF InvoicingInv

LEMMA InvoicingInit == Init => InvoicingInv
<1> SUFFICES ASSUME Init PROVE InvoicingInv
  OBVIOUS
<1> USE InvoicingAssumption
<1>1. TypeOK
  BY NoCallType DEF Init, TypeOK, CallType, Cfdis
<1>2. \A c \in Calls : CallSound(c)
  BY DEF Init, CallSound, NoCall
<1>3. InvoicedIsCovered
  BY DEF Init, InvoicedIsCovered
<1>4. ASSUME NEW o \in Orders PROVE Covered(o) /\ Tried(o)
  <2>1. Copies(o) = {} /\ Stamping(o) = {} /\ Working(o) = {} /\ Counting(o) = {}
    BY DEF Init, Copies, Stamping, Working, Counting, NoCall
  <2>2. Cardinality({}) = 0 /\ Cardinality(Calls) \in Nat
    BY FS_EmptySet, FS_CardinalityType
  <2>3. attempts[o] = 0 /\ faults = 0
    BY DEF Init
  <2> QED BY <2>1, <2>2, <2>3 DEF Covered, Tried
<1> QED BY <1>1, <1>2, <1>3, <1>4 DEF InvoicingInv

\* No call moves: orders are delivered, customers edited.
LEMMA AsideStep ==
  ASSUME InvoicingInv, TypeOK', Fulfilled \subseteq Fulfilled',
         UNCHANGED <<cfdi, attempts, covers, books, call, faults>>
  PROVE  InvoicingInv'
<1>1. ASSUME NEW c \in Calls PROVE CallSound(c)'
  BY DEF InvoicingInv, CallSound
<1>2. InvoicedIsCovered'
  BY DEF InvoicingInv, InvoicedIsCovered, Copies
<1>3. ASSUME NEW o \in Orders PROVE Covered(o)' /\ Tried(o)'
  <2>1. /\ Copies(o)' = Copies(o) /\ Stamping(o)' = Stamping(o)
        /\ Working(o)' = Working(o) /\ Counting(o)' = Counting(o)
    BY DEF Copies, Stamping, Working, Counting
  <2>2. Covered(o) /\ Tried(o)
    BY DEF InvoicingInv
  <2> QED BY <2>1, <2>2 DEF Covered, Tried
<1> QED BY <1>1, <1>2, <1>3 DEF InvoicingInv

LEMMA InvoicingNext ==
  ASSUME InvoicingInv, [Next]_vars
  PROVE  InvoicingInv'
<1> USE InvoicingAssumption
<1>1. TypeOK' /\ TypeOK /\ faults \in Nat
  BY TypeStep DEF InvoicingInv, TypeOK
<1>2. CASE UNCHANGED vars
  BY <1>1, <1>2, AsideStep DEF vars, orderVars, Fulfilled
<1>3. ASSUME NEW o \in Orders, FulfillInTransaction(o) PROVE InvoicingInv'
  <2>1. Fulfilled \subseteq Fulfilled'
    BY <1>1, <1>3, DeliverType DEF FulfillInTransaction
  <2> QED BY <1>1, <1>3, <2>1, AsideStep DEF FulfillInTransaction
<1>4. CASE Age \/ \E k \in Customers : EditCustomer(k)
  <2>1. Fulfilled \subseteq Fulfilled'
    BY <1>4 DEF Age, EditCustomer, Fulfilled
  <2> QED BY <1>1, <1>4, <2>1, AsideStep DEF Age, EditCustomer
<1>5. ASSUME NEW c \in Calls, NEW o \in Orders, DeliverNow(c, o) PROVE InvoicingInv'
  <2>1. attempts[o] < MaxAttempts
    BY <1>5 DEF DeliverNow, InvoicingInv, Tried
  <2>2. Fulfilled' = Fulfilled \union {o}
    BY <1>1, <1>5, DeliverType DEF DeliverNow
  <2> QED BY <1>1, <1>5, <2>1, <2>2, BeginStep DEF DeliverNow
<1>6. ASSUME NEW c \in Calls, NEW o \in Orders, IssueForOrder(c, o) PROVE InvoicingInv'
  <2>1. Begin(c, {o}, FALSE) /\ {o} \subseteq Fulfilled' /\ UNCHANGED <<orderVars, covers, books, faults>>
    BY <1>6 DEF IssueForOrder, Uninvoiced, orderVars, Fulfilled
  <2> QED BY <1>1, <2>1, BeginStep, Zenon DEF orderVars, Fulfilled
<1>7. ASSUME NEW c \in Calls, NEW o \in Orders, SelfInvoiceOrder(c, o) PROVE InvoicingInv'
  <2>1. /\ Begin(c, {o}, FALSE) /\ {o} \subseteq Fulfilled' /\ Fulfilled' = Fulfilled
        /\ UNCHANGED <<cfdi, attempts, covers, books, faults>>
    BY <1>7 DEF SelfInvoiceOrder, Uninvoiced, Fulfilled
  <2>2. /\ covers' = covers /\ cfdi' = cfdi /\ attempts' = attempts /\ books' = books
        /\ faults' = faults /\ {o} \in SUBSET Orders /\ FALSE \in BOOLEAN
        /\ Fulfilled \subseteq Fulfilled'
    BY <2>1
  <2> QED BY <1>1, <2>1, <2>2, BeginStep, Zenon
<1>8. ASSUME NEW c \in Calls, NEW since, NEW limit, RetryPendingInvoices(c, since, limit)
      PROVE  InvoicingInv'
  <2>1. /\ Listed(since, limit) \in SUBSET Orders /\ Listed(since, limit) \subseteq Fulfilled
        /\ \A o \in Listed(since, limit) : attempts[o] < MaxAttempts
    BY DEF Listed, DueSince, Due, Uninvoiced
  <2>2. /\ Begin(c, Listed(since, limit), TRUE) /\ Fulfilled' = Fulfilled
        /\ UNCHANGED <<cfdi, attempts, covers, books, faults>>
    BY <1>8 DEF RetryPendingInvoices, orderVars, Fulfilled
  <2> QED BY <1>1, <2>1, <2>2, BeginStep
<1>9. ASSUME NEW c \in Calls, Refuse(c) PROVE InvoicingInv'
  BY <1>1, <1>9, FailsStep DEF Refuse, At
<1>10. ASSUME NEW c \in Calls, LoseStamp(c) PROVE InvoicingInv'
  BY <1>1, <1>10, FailsStep DEF LoseStamp, At
<1>11. ASSUME NEW c \in Calls, FailRead(c) PROVE InvoicingInv'
  <2>1. PICK o \in call[c].todo : Skip(c, o)
    BY <1>11 DEF FailRead
  <2>2. /\ call[c].step = "read" /\ UNCHANGED <<orderVars, covers, books>>
        /\ faults' >= faults
    BY <1>1, <1>11 DEF FailRead, At
  <2> QED BY <1>1, <2>1, <2>2, SkipStep
<1> QED BY <1>1, <1>2, <1>3, <1>4, <1>5, <1>6, <1>7, <1>8, <1>9, <1>10, <1>11, CheckFulfillStep,
           CommitFulfillStep, RefuseFulfillStep, NoUuidStep, GlobalStep, BuildStep, StampStep,
           PersistStep, WriteStep, RecordStep, DieStep
        DEF Next, CallStep, Fault, Scheduled, RetryInvoices

-----------------------------------------------------------------------------
(* Theorems. *)

\* An order without uuid has no more CFDI than calls that have it in hand and
\* faults; with a uuid nobody takes it any more.
THEOREM InvoicingInvariant == Spec => []InvoicingInv
<1>1. InvoicingInv /\ [Next]_vars => InvoicingInv'
  BY InvoicingNext
<1> QED BY InvoicingInit, <1>1, PTL DEF Spec

\* Types.
THEOREM InvoicingTypeCorrect == Spec => []TypeOK
<1>1. InvoicingInv => TypeOK
  BY DEF InvoicingInv
<1> QED BY InvoicingInvariant, <1>1, PTL

\* The invoices of an order (tryAutoInvoice, issueForOrder, selfInvoiceOrder and
\* issueDailyGlobal, which no lock keeps apart) are as many as the calls that run
\* at once and the faults, at most.
THEOREM InvoicesWithinFaults == Spec => []CopiesWithinFaults
<1>1. InvoicingInv => CopiesWithinFaults
  <2> SUFFICES ASSUME InvoicingInv, NEW o \in Orders
               PROVE  Cardinality(Copies(o)) <= Cardinality(Calls) + faults
    BY DEF CopiesWithinFaults
  <2>1. TypeOK /\ Covered(o)
    BY DEF InvoicingInv
  <2>2. IsFiniteSet(Stamping(o)) /\ IsFiniteSet(Calls)
    BY InvoicingAssumption, FS_Subset DEF Stamping
  <2>3. Cardinality(Stamping(o)) \in Nat /\ Cardinality(Calls) \in Nat /\ faults \in Nat
    BY <2>1, <2>2, FS_CardinalityType, Figures
  <2> QED BY <2>1, <2>3, CopiesFinite DEF Covered
<1> QED BY InvoicingInvariant, <1>1, PTL

\* cfdi_uuid is of a CFDI of the order that is in fiscal.cfdis.
THEOREM UuidIsInTheBooks == Spec => []InvoicedIsCovered
<1>1. InvoicingInv => InvoicedIsCovered
  BY DEF InvoicingInv
<1> QED BY InvoicingInvariant, <1>1, PTL

\* An old list of the cron makes no more attempts than there are calls.
THEOREM AttemptsAreBounded == Spec => []AttemptsWithinCalls
<1>1. InvoicingInv => AttemptsWithinCalls
  <2> SUFFICES ASSUME InvoicingInv, NEW o \in Orders
               PROVE  attempts[o] < MaxAttempts + Cardinality(Calls)
    BY DEF AttemptsWithinCalls
  <2>1. TypeOK /\ Tried(o)
    BY DEF InvoicingInv
  <2>2. IsFiniteSet(Counting(o)) /\ IsFiniteSet(Calls)
    BY InvoicingAssumption, FS_Subset DEF Counting
  <2>3. Cardinality(Counting(o)) \in Nat /\ Cardinality(Calls) \in Nat
    BY <2>2, FS_CardinalityType
  <2> QED BY <2>1, <2>3, Figures DEF Tried
<1> QED BY InvoicingInvariant, <1>1, PTL
=============================================================================
