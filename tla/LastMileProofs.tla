--------------------------- MODULE LastMileProofs ---------------------------
(***************************************************************************)
(* The last mile for any orders, tickets, references and calls: who is     *)
(* paid once and what was sold; then the ledger, where paid_amount is the  *)
(* sum of the payments that stand; then the cut, whose rows nobody changes *)
(* between the sum and the stamp.                                          *)
(***************************************************************************)
EXTENDS LastMile, SumLemmas

\* A call knows its stop; what it inserts is for a ticket, and an order it is
\* about to mark as delivered was sold, or could not be.
CallSound(a) ==
  LET c == call[a] IN
    /\ c.step # "none" => c.stop \in Stops
    /\ c.step = "insert" => c.stop \in Folios /\ c.pays \in Means
    /\ c.step = "cancel" => c.stop \in Orders
    /\ c.step = "mark" /\ c.stop \in Orders \ unsold => ostatus[c.stop] = "fulfilled"

\* A ticket is collected for what it costs.
PriceSound == \A k \in Folios : collect[k] \in Nat

\* The payments of an order that carry a reference are one at most.
OneOf(o, ref) == \A i, j \in LiveAs(o, ref) : i = j

\* Calls that looked for a payment of a ticket with the reference and found none.
Inserting(k, ref) ==
  {a \in Attempts : call[a].step = "insert" /\ call[a].stop = k /\ call[a].pays.ref = ref}

Overlapping(k, ref) ==
  Cardinality(LiveAs(k, ref)) + Cardinality(Inserting(k, ref)) <= Cardinality(Attempts)

LastMileInv ==
  /\ DeliveryTypeOK
  /\ PriceSound
  /\ \A a \in Attempts : CallSound(a)
  /\ ConfirmedIsSold
  /\ \A o \in Orders, ref \in References : OneOf(o, ref)
  /\ \A k \in Folios, ref \in References : Overlapping(k, ref)

-----------------------------------------------------------------------------
(* Lemmas about payments and calls. *)

LEMMA LiveFinite ==
  ASSUME NEW x, NEW ref
  PROVE  IsFiniteSet(LiveAs(x, ref)) /\ Cardinality(LiveAs(x, ref)) \in Nat
<1>1. IsFiniteSet(PayIds) /\ LiveAs(x, ref) \subseteq PayIds
  BY FS_Interval, PaymentAssumption DEF PayIds, LiveAs, LiveOf
<1> QED BY <1>1, FS_Subset, FS_CardinalityType

LEMMA InsertingFinite ==
  ASSUME NEW k, NEW ref
  PROVE  /\ IsFiniteSet(Inserting(k, ref)) /\ Cardinality(Inserting(k, ref)) \in Nat
         /\ Cardinality(Inserting(k, ref)) <= Cardinality(Attempts)
         /\ Cardinality(Attempts) \in Nat
<1>1. IsFiniteSet(Attempts) /\ Inserting(k, ref) \subseteq Attempts
  BY DeliveryAssumption DEF Inserting
<1> QED BY <1>1, FS_Subset, FS_CardinalityType

\* A row of commercial.payments is new.
New(row, x, by) ==
  row \in Payment /\ row.status = "received" /\ row.of = x /\ row.ref = by.ref

Inserted(i, row) == NextPay(i) /\ pay' = [pay EXCEPT ![i] = row]

LEMMA NewPaymentIsNew ==
  ASSUME NEW x \in Stops, NEW amount \in Nat, NEW by \in Means, NEW rider \in BOOLEAN
  PROVE  New(NewPayment(x, amount, by, rider), x, by)
<1>1. by.method \in {"cash", "transfer"} /\ by.ref \in References \union {NoRef}
  BY PaymentAssumption
<1> QED BY <1>1 DEF New, NewPayment, Payment, Stops

LEMMA Added ==
  ASSUME NEW y \in Stops, NEW ref \in References,
         NEW i \in PayIds, NEW x \in Stops, NEW by \in Means, NEW row,
         MoneyTypeOK, New(row, x, by), Inserted(i, row)
  PROVE  /\ i \notin LiveAs(y, ref)
         /\ y = x /\ ref = by.ref => LiveAs(y, ref)' = LiveAs(y, ref) \union {i}
         /\ ~(y = x /\ ref = by.ref) => LiveAs(y, ref)' = LiveAs(y, ref)
<1>1. NoRef \notin References
  BY PaymentAssumption
<1>2. /\ pay'[i].status = "received" /\ pay'[i].of = x /\ pay'[i].ref = by.ref
      /\ \A j \in PayIds : j # i => pay'[j] = pay[j]
      /\ ~Live(i) /\ Live(i)'
  BY DEF New, MoneyTypeOK, NextPay, Live, Inserted
<1>3. i \notin LiveAs(y, ref)
  BY <1>2 DEF LiveAs, LiveOf
<1>4. \A j \in PayIds : j # i => (j \in LiveAs(y, ref)' <=> j \in LiveAs(y, ref))
  BY <1>2 DEF LiveAs, LiveOf, Live
<1>5. i \in LiveAs(y, ref)' <=> y = x /\ ref = by.ref
  BY <1>1, <1>2 DEF LiveAs, LiveOf
<1>6. LiveAs(y, ref) \subseteq PayIds /\ LiveAs(y, ref)' \subseteq PayIds
  BY DEF LiveAs, LiveOf, PayIds
<1> QED BY <1>3, <1>4, <1>5, <1>6

LEMMA AddedType ==
  ASSUME NEW i \in PayIds, NEW x \in Stops, NEW by \in Means, NEW row,
         MoneyTypeOK, New(row, x, by), Inserted(i, row)
  PROVE  pay' \in [PayIds -> Payment]
  BY DEF MoneyTypeOK, New, Inserted

\* Payments are verified, reversed or stamped with a cut.
LEMMA NoneAdded ==
  ASSUME \A j \in PayIds : /\ pay'[j].of = pay[j].of /\ pay'[j].ref = pay[j].ref
                           /\ Live(j)' => Live(j)
  PROVE  \A y \in Stops, ref \in References : LiveAs(y, ref)' \subseteq LiveAs(y, ref)
  BY DEF LiveAs, LiveOf, PayIds

LEMMA OverlapsShrink ==
  ASSUME NEW k \in Folios, NEW ref \in References, Overlapping(k, ref),
         LiveAs(k, ref)' \subseteq LiveAs(k, ref), Inserting(k, ref)' \subseteq Inserting(k, ref)
  PROVE  Overlapping(k, ref)'
<1>1. /\ Cardinality(LiveAs(k, ref)') \in Nat
      /\ Cardinality(LiveAs(k, ref)') <= Cardinality(LiveAs(k, ref))
  BY LiveFinite, FS_Subset, FS_CardinalityType
<1>2. /\ Cardinality(Inserting(k, ref)') \in Nat
      /\ Cardinality(Inserting(k, ref)') <= Cardinality(Inserting(k, ref))
  BY InsertingFinite, FS_Subset, FS_CardinalityType
<1>3. /\ Cardinality(LiveAs(k, ref)) \in Nat /\ Cardinality(Inserting(k, ref)) \in Nat
      /\ Cardinality(Attempts) \in Nat
  BY LiveFinite, InsertingFinite
<1> QED BY <1>1, <1>2, <1>3 DEF Overlapping

\* A step after which no reference has a payment more, and no call inserts more.
LEMMA StillStep ==
  ASSUME LastMileInv, DeliveryTypeOK', PriceSound', \A a \in Attempts : CallSound(a)',
         ConfirmedIsSold',
         \A y \in Stops, ref \in References : LiveAs(y, ref)' \subseteq LiveAs(y, ref),
         \A k \in Folios, ref \in References : Inserting(k, ref)' \subseteq Inserting(k, ref)
  PROVE  LastMileInv'
<1>1. \A o \in Orders, ref \in References : OneOf(o, ref)'
  BY DEF LastMileInv, OneOf, Stops
<1>2. ASSUME NEW k \in Folios, NEW ref \in References PROVE Overlapping(k, ref)'
  BY OverlapsShrink DEF LastMileInv, Stops
<1> QED BY <1>1, <1>2 DEF LastMileInv

\* A payment of an order is recorded, whose reference no other one carries.
LEMMA CollectStep ==
  ASSUME LastMileInv, DeliveryTypeOK', PriceSound', \A a \in Attempts : CallSound(a)',
         ConfirmedIsSold',
         NEW o \in Orders, NEW amount \in Int, NEW by \in Means, NEW rider \in BOOLEAN,
         Collect(o, amount, by, rider),
         \A k \in Folios, ref \in References : Inserting(k, ref)' \subseteq Inserting(k, ref)
  PROVE  LastMileInv'
<1>1. MoneyTypeOK /\ o \in Stops /\ amount \in Nat
  BY DEF LastMileInv, DeliveryTypeOK, Stops, Collect
<1>2. PICK i \in PayIds, row \in Payment :
        New(row, o, by) /\ Inserted(i, row)
  <2>1. PICK i \in PayIds :
          Inserted(i, NewPayment(o, amount, by, rider))
    BY DEF Collect, Inserted
  <2>2. New(NewPayment(o, amount, by, rider), o, by)
    BY <1>1, NewPaymentIsNew, Zenon
  <2>3. NewPayment(o, amount, by, rider) \in Payment
    BY <2>2 DEF New
  <2> QED BY <2>1, <2>2, <2>3, Zenon
<1>3. ASSUME NEW y \in Stops, NEW ref \in References
      PROVE  /\ y = o /\ ref = by.ref => LiveAs(y, ref)' = LiveAs(y, ref) \union {i}
             /\ ~(y = o /\ ref = by.ref) => LiveAs(y, ref)' = LiveAs(y, ref)
  BY <1>1, <1>2, Added
<1>4. LiveAs(o, by.ref) = {}
  BY DEF Collect
<1>5. ASSUME NEW p \in Orders, NEW ref \in References PROVE OneOf(p, ref)'
  <2>1. p \in Stops /\ OneOf(p, ref)
    BY DEF Stops, LastMileInv
  <2>2. /\ p = o /\ ref = by.ref => LiveAs(p, ref)' = LiveAs(p, ref) \union {i}
        /\ ~(p = o /\ ref = by.ref) => LiveAs(p, ref)' = LiveAs(p, ref)
    BY <1>3, <2>1
  <2> QED BY <1>4, <2>1, <2>2 DEF OneOf
<1>6. ASSUME NEW k \in Folios, NEW ref \in References PROVE Overlapping(k, ref)'
  <2>1. k \in Stops /\ k # o
    BY PaymentAssumption DEF Stops
  <2>2. LiveAs(k, ref)' \subseteq LiveAs(k, ref)
    BY <1>3, <2>1
  <2> QED BY <2>2, OverlapsShrink DEF LastMileInv
<1> QED BY <1>5, <1>6 DEF LastMileInv

-----------------------------------------------------------------------------
(* The office: orders and payments. *)

\* Nobody takes a sale back.
SalesStand == \A o \in Orders : ostatus[o] = "fulfilled" => ostatus'[o] = "fulfilled"

LEMMA RidersAside ==
  ASSUME LastMileInv, MoneyTypeOK', UNCHANGED deliveryVars, SalesStand
  PROVE  /\ DeliveryTypeOK' /\ PriceSound' /\ (\A a \in Attempts : CallSound(a)')
         /\ ConfirmedIsSold'
         /\ \A k \in Folios, ref \in References : Inserting(k, ref)' \subseteq Inserting(k, ref)
<1>1. call' = call /\ stop' = stop /\ collect' = collect /\ unsold' = unsold /\ dispatch' = dispatch
  BY DEF deliveryVars, stopVars
<1>2. DeliveryTypeOK'
  BY <1>1 DEF LastMileInv, DeliveryTypeOK
<1>3. PriceSound' /\ ConfirmedIsSold'
  BY <1>1 DEF LastMileInv, PriceSound, ConfirmedIsSold, SalesStand
<1>4. ASSUME NEW a \in Attempts PROVE CallSound(a)'
  BY <1>1 DEF LastMileInv, CallSound, SalesStand
<1>5. \A k \in Folios, ref \in References : Inserting(k, ref)' \subseteq Inserting(k, ref)
  BY <1>1 DEF Inserting
<1> QED BY <1>2, <1>3, <1>4, <1>5

\* Steps of the office that record no payment.
LEMMA OfficeStep ==
  ASSUME LastMileInv, MoneyTypeOK', UNCHANGED deliveryVars, SalesStand,
         \A j \in PayIds : /\ pay'[j].of = pay[j].of /\ pay'[j].ref = pay[j].ref
                           /\ Live(j)' => Live(j)
  PROVE  LastMileInv'
<1>1. \A y \in Stops, ref \in References : LiveAs(y, ref)' \subseteq LiveAs(y, ref)
  BY NoneAdded
<1> QED BY <1>1, RidersAside, StillStep

LEMMA CollectType ==
  ASSUME MoneyTypeOK, NEW o \in Orders, NEW amount \in Int, NEW by \in Means,
         NEW rider \in BOOLEAN, Collect(o, amount, by, rider)
  PROVE  /\ pay' \in [PayIds -> Payment] /\ paid' \in [Orders -> Nat]
         /\ balance' \in [Orders -> Int]
<1>1. o \in Stops /\ amount \in Nat
  BY DEF Stops, Collect
<1>2. PICK i \in PayIds : Inserted(i, NewPayment(o, amount, by, rider))
  BY DEF Collect, Inserted
<1>3. New(NewPayment(o, amount, by, rider), o, by)
  BY <1>1, NewPaymentIsNew, Zenon
<1>4. pay' \in [PayIds -> Payment]
  BY <1>1, <1>2, <1>3, AddedType, Zenon
<1>5. paid' = [paid EXCEPT ![o] = @ + amount]
      /\ balance' = [balance EXCEPT ![o] = total[o] - (paid[o] + amount)]
  BY DEF Collect
<1>6. paid' \in [Orders -> Nat] /\ balance' \in [Orders -> Int]
  BY <1>1, <1>5 DEF MoneyTypeOK
<1> QED BY <1>4, <1>6

LEMMA MoneyStep ==
  ASSUME LastMileInv, MoneyNext, UNCHANGED deliveryVars
  PROVE  LastMileInv'
<1>1. MoneyTypeOK /\ MaxTotal \in Nat
  BY PaymentAssumption DEF LastMileInv, DeliveryTypeOK
<1>2. ASSUME NEW o \in Orders, NEW t \in 1..MaxTotal, EditLines(o, t) PROVE LastMileInv'
  <2>1. MoneyTypeOK'
    BY <1>1, <1>2 DEF MoneyTypeOK, EditLines
  <2>2. SalesStand /\ pay' = pay
    BY <1>2 DEF EditLines, SalesStand
  <2> QED BY <2>1, <2>2, OfficeStep DEF Live
<1>3. ASSUME NEW o \in Orders, NEW s \in {"pending_approval", "confirmed"}, Accept(o, s)
      PROVE  LastMileInv'
  <2>1. MoneyTypeOK'
    BY <1>1, <1>3 DEF MoneyTypeOK, Accept
  <2>2. SalesStand /\ pay' = pay
    BY <1>1, <1>3 DEF Accept, SalesStand, MoneyTypeOK
  <2> QED BY <2>1, <2>2, OfficeStep DEF Live
<1>4. ASSUME NEW o \in Orders, Cancel(o) PROVE LastMileInv'
  <2>1. MoneyTypeOK'
    BY <1>1, <1>4 DEF MoneyTypeOK, Cancel
  <2>2. SalesStand /\ pay' = pay
    BY <1>1, <1>4 DEF Cancel, Cancellable, SalesStand, MoneyTypeOK
  <2> QED BY <2>1, <2>2, OfficeStep DEF Live
<1>5. ASSUME NEW o \in Orders, NEW amount \in 1..MaxTotal, NEW by \in Means,
             RecordPayment(o, amount, by, FALSE)
      PROVE  LastMileInv'
  <2>1. Collect(o, amount, by, FALSE) /\ UNCHANGED <<ostatus, total, edited>> /\ amount \in Int
    <3>1. amount \in Int
      BY <1>1
    <3>2. Collect(o, amount, by, FALSE) /\ UNCHANGED <<ostatus, total, edited>>
      BY <1>5, Zenon DEF RecordPayment
    <3> QED BY <3>1, <3>2, Zenon
  <2>2. /\ pay' \in [PayIds -> Payment] /\ paid' \in [Orders -> Nat]
        /\ balance' \in [Orders -> Int]
    BY <1>1, <2>1, CollectType
  <2>3. MoneyTypeOK' /\ SalesStand
    BY <1>1, <2>1, <2>2 DEF MoneyTypeOK, SalesStand
  <2>4. /\ DeliveryTypeOK' /\ PriceSound' /\ (\A a \in Attempts : CallSound(a)')
        /\ ConfirmedIsSold'
        /\ \A k \in Folios, ref \in References : Inserting(k, ref)' \subseteq Inserting(k, ref)
    BY <2>3, RidersAside
  <2> QED BY <2>1, <2>4, CollectStep
<1>6. ASSUME NEW i \in PayIds, VerifyTransfer(i) PROVE LastMileInv'
  <2>1. MoneyTypeOK' /\ SalesStand
    BY <1>1, <1>6 DEF MoneyTypeOK, VerifyTransfer, Payment, orderVars, SalesStand
  <2>2. \A j \in PayIds : /\ pay'[j].of = pay[j].of /\ pay'[j].ref = pay[j].ref
                          /\ Live(j)' => Live(j)
    BY <1>1, <1>6 DEF MoneyTypeOK, VerifyTransfer, Payment, Live
  <2> QED BY <2>1, <2>2, OfficeStep
<1>7. ASSUME NEW i \in PayIds, ReversePayment(i) PROVE LastMileInv'
  <2>1. pay' = [pay EXCEPT ![i].status = "reversed"] /\ pay[i].amount \in Nat
        /\ UNCHANGED <<ostatus, total, edited>>
    BY <1>1, <1>7 DEF ReversePayment, MoneyTypeOK, Payment
  <2>2. pay' \in [PayIds -> Payment]
    BY <1>1, <2>1 DEF MoneyTypeOK, Payment
  <2>3. paid' \in [Orders -> Nat] /\ balance' \in [Orders -> Int]
    <3>1. CASE pay[i].of \in Orders
      <4> DEFINE o == pay[i].of
      <4>1. /\ paid[o] - pay[i].amount \in Int /\ total[o] - (paid[o] - pay[i].amount) \in Int
            /\ (IF paid[o] - pay[i].amount < 0 THEN 0 ELSE paid[o] - pay[i].amount) \in Nat
        BY <1>1, <2>1, <3>1 DEF MoneyTypeOK
      <4>2. /\ paid' = [paid EXCEPT ![o] = IF paid[o] - pay[i].amount < 0 THEN 0 ELSE paid[o] - pay[i].amount]
            /\ balance' = [balance EXCEPT ![o] = total[o] - (paid[o] - pay[i].amount)]
        BY <1>7, <3>1 DEF ReversePayment
      <4> QED BY <1>1, <4>1, <4>2 DEF MoneyTypeOK
    <3>2. CASE pay[i].of \notin Orders
      BY <1>1, <1>7, <3>2 DEF ReversePayment, MoneyTypeOK
    <3> QED BY <3>1, <3>2
  <2>4. MoneyTypeOK' /\ SalesStand
    BY <1>1, <2>1, <2>2, <2>3 DEF MoneyTypeOK, SalesStand
  <2>5. \A j \in PayIds : /\ pay'[j].of = pay[j].of /\ pay'[j].ref = pay[j].ref
                          /\ Live(j)' => Live(j)
    BY <1>1, <2>1 DEF MoneyTypeOK, Payment, Live
  <2> QED BY <2>4, <2>5, OfficeStep
<1>8. ASSUME NEW o \in Orders, FulfillOrder(o) PROVE LastMileInv'
  <2>1. MoneyTypeOK'
    BY <1>1, <1>8 DEF MoneyTypeOK, FulfillOrder
  <2>2. SalesStand /\ pay' = pay
    BY <1>1, <1>8 DEF FulfillOrder, SalesStand, MoneyTypeOK
  <2> QED BY <2>1, <2>2, OfficeStep DEF Live
<1> QED BY <1>2, <1>3, <1>4, <1>5, <1>6, <1>7, <1>8 DEF MoneyNext

\* The cut stamps payments, and does nothing else to them.
LEMMA CutStep ==
  ASSUME LastMileInv, CutNext, UNCHANGED deliveryVars
  PROVE  LastMileInv'
<1>1. MoneyTypeOK
  BY DEF LastMileInv, DeliveryTypeOK
<1>2. /\ UNCHANGED <<orderVars, edited>>
      /\ \/ pay' = pay
         \/ pay' = [i \in PayIds |-> IF i \in OfRider THEN [pay[i] EXCEPT !.cut = TRUE] ELSE pay[i]]
  BY DEF CutNext, OpenCut, ComputeTotals, CloseCut, AbortClose, Reconcile, moneyVars
<1>3. CASE pay' = pay
  BY <1>1, <1>2, <1>3, OfficeStep DEF MoneyTypeOK, orderVars, SalesStand, Live
<1>4. CASE pay' = [i \in PayIds |-> IF i \in OfRider THEN [pay[i] EXCEPT !.cut = TRUE] ELSE pay[i]]
  <2>1. ASSUME NEW j \in PayIds
        PROVE  /\ pay'[j] \in Payment /\ pay'[j].of = pay[j].of /\ pay'[j].ref = pay[j].ref
               /\ pay'[j].status = pay[j].status
    BY <1>1, <1>4 DEF MoneyTypeOK, Payment
  <2>2. pay' \in [PayIds -> Payment]
    BY <1>4, <2>1
  <2>3. MoneyTypeOK' /\ SalesStand
    BY <1>1, <1>2, <2>2 DEF MoneyTypeOK, orderVars, SalesStand
  <2> QED BY <2>1, <2>3, OfficeStep DEF Live
<1> QED BY <1>2, <1>3, <1>4

-----------------------------------------------------------------------------
(* Dispatch, and the calls of the riders. *)

LEMMA CallsType ==
  NoCall \in Calls /\ \A v \in Calls, step \in {"insert", "mark", "cancel"} :
    [v EXCEPT !.step = step] \in Calls /\ [v EXCEPT !.step = "mark", !.pays = Nothing] \in Calls
  BY DEF NoCall, Calls, Nothing

\* A call goes on to step v and touches at most the stops.
LEMMA CallStep ==
  ASSUME LastMileInv, NEW a \in Attempts, NEW v \in Calls, call' = [call EXCEPT ![a] = v],
         UNCHANGED <<moneyVars, collect, dispatch, unsold>>,
         stop' \in [Stops -> {"none", "pendiente", "entregado", "rechazado", "no_entregado"}],
         v.step # "none" => v.stop \in Stops,
         v.step = "insert" => v.stop \in Folios /\ v.pays \in Means,
         v.step = "cancel" => v.stop \in Orders,
         v.step = "mark" /\ v.stop \in Orders \ unsold => ostatus[v.stop] = "fulfilled",
         \A o \in Orders \ unsold :
           stop'[o] = "entregado" => stop[o] = "entregado" \/ ostatus[o] = "fulfilled",
         v.step = "insert" => LiveAs(v.stop, v.pays.ref) = {}
  PROVE  LastMileInv'
<1>1. DeliveryTypeOK /\ call \in [Attempts -> Calls]
  BY DEF LastMileInv, DeliveryTypeOK
<1>2. call'[a] = v /\ (\A b \in Attempts : b # a => call'[b] = call[b]) /\ call' \in [Attempts -> Calls]
  BY <1>1
<1>3. /\ pay' = pay /\ ostatus' = ostatus /\ collect' = collect /\ unsold' = unsold
      /\ total' = total /\ paid' = paid /\ balance' = balance /\ edited' = edited
  BY DEF moneyVars, orderVars
<1>4. DeliveryTypeOK'
  BY <1>1, <1>2, <1>3 DEF DeliveryTypeOK, MoneyTypeOK
<1>5. PriceSound' /\ ConfirmedIsSold'
  BY <1>3 DEF LastMileInv, PriceSound, ConfirmedIsSold
<1>6. ASSUME NEW b \in Attempts PROVE CallSound(b)'
  BY <1>2, <1>3 DEF LastMileInv, CallSound
<1>7. \A y \in Stops, ref \in References : LiveAs(y, ref)' = LiveAs(y, ref)
  BY <1>3 DEF LiveAs, LiveOf, Live
<1>8. ASSUME NEW k \in Folios, NEW ref \in References PROVE Overlapping(k, ref)'
  <2>1. k \in Stops /\ LiveAs(k, ref)' = LiveAs(k, ref)
    BY <1>7 DEF Stops
  <2>2. CASE v.step = "insert" /\ v.stop = k /\ v.pays.ref = ref
    <3>1. LiveAs(k, ref)' = {}
      BY <2>1, <2>2
    <3>2. Cardinality(LiveAs(k, ref)') = 0
      BY <3>1, FS_EmptySet
    <3>3. /\ Cardinality(Inserting(k, ref)') \in Nat
          /\ Cardinality(Inserting(k, ref)') <= Cardinality(Attempts)
      <4>1. IsFiniteSet(Attempts) /\ Inserting(k, ref)' \subseteq Attempts
        BY DeliveryAssumption DEF Inserting
      <4> QED BY <4>1, FS_Subset, FS_CardinalityType
    <3>4. Cardinality(Attempts) \in Nat
      BY InsertingFinite
    <3> QED BY <3>2, <3>3, <3>4 DEF Overlapping
  <2>3. CASE ~(v.step = "insert" /\ v.stop = k /\ v.pays.ref = ref)
    <3>1. Inserting(k, ref)' \subseteq Inserting(k, ref)
      BY <1>2, <2>3 DEF Inserting
    <3> QED BY <2>1, <3>1, OverlapsShrink DEF LastMileInv
  <2> QED BY <2>2, <2>3
<1>9. \A o \in Orders, ref \in References : OneOf(o, ref)'
  BY <1>7 DEF LastMileInv, OneOf, Stops
<1> QED BY <1>4, <1>5, <1>6, <1>8, <1>9 DEF LastMileInv

LEMMA ReadStep ==
  ASSUME LastMileInv, NEW o \in Orders, DispatchOrder(o) PROVE LastMileInv'
<1>1. DeliveryTypeOK /\ MoneyTypeOK
  BY DEF LastMileInv, DeliveryTypeOK
<1>2. (IF balance[o] # 0 THEN balance[o] ELSE total[o]) \in Int
  BY <1>1 DEF MoneyTypeOK
<1>3. dispatch' \subseteq Orders \X Int
  BY <1>1, <1>2 DEF DispatchOrder, DeliveryTypeOK
<1>4. /\ pay' = pay /\ ostatus' = ostatus /\ call' = call /\ unsold' = unsold /\ stop' = stop
      /\ collect' = collect /\ total' = total /\ paid' = paid /\ balance' = balance
      /\ edited' = edited
  BY DEF DispatchOrder, moneyVars, orderVars, stopVars
<1>5. DeliveryTypeOK' /\ PriceSound' /\ ConfirmedIsSold' /\ \A a \in Attempts : CallSound(a)'
  BY <1>1, <1>3, <1>4 DEF LastMileInv, DeliveryTypeOK, MoneyTypeOK, PriceSound, ConfirmedIsSold,
     CallSound
<1>6. \A y \in Stops, ref \in References : LiveAs(y, ref)' \subseteq LiveAs(y, ref)
  BY <1>4 DEF LiveAs, LiveOf, Live
<1>7. \A k \in Folios, ref \in References : Inserting(k, ref)' \subseteq Inserting(k, ref)
  BY <1>4 DEF Inserting
<1> QED BY <1>5, <1>6, <1>7, StillStep

LEMMA DispatchStep ==
  ASSUME LastMileInv, \/ \E d \in dispatch : CreateDelivery(d[1], d[2])
                      \/ \E k \in Folios : DispatchFromKepler(k)
  PROVE  LastMileInv'
<1>1. /\ DeliveryTypeOK /\ MoneyTypeOK /\ Price \in Nat
      /\ Orders \intersect Folios = {} /\ Orders \subseteq Stops /\ Folios \subseteq Stops
  BY PaymentAssumption, DeliveryAssumption DEF LastMileInv, DeliveryTypeOK, Stops
<1>2. /\ UNCHANGED <<moneyVars, call, unsold>>
      /\ \E s \in Stops : stop' = [stop EXCEPT ![s] = "pendiente"]
      /\ collect' \in [Stops -> Int] /\ \A k \in Folios : collect'[k] \in Nat
      /\ dispatch' \subseteq dispatch
  <2>1. ASSUME NEW d \in dispatch, CreateDelivery(d[1], d[2])
        PROVE  /\ collect' \in [Stops -> Int] /\ \A k \in Folios : collect'[k] \in Nat
               /\ \E s \in Stops : stop' = [stop EXCEPT ![s] = "pendiente"]
    <3>1. d[1] \in Orders /\ d[2] \in Int
      BY <1>1 DEF DeliveryTypeOK
    <3> QED BY <1>1, <2>1, <3>1 DEF CreateDelivery, DeliveryTypeOK, LastMileInv, PriceSound
  <2>2. ASSUME NEW k \in Folios, DispatchFromKepler(k)
        PROVE  collect' \in [Stops -> Int] /\ \A l \in Folios : collect'[l] \in Nat
    BY <1>1, <2>2 DEF DispatchFromKepler, DeliveryTypeOK, LastMileInv, PriceSound
  <2> QED BY <1>1, <2>1, <2>2 DEF CreateDelivery, DispatchFromKepler
<1>3. /\ pay' = pay /\ ostatus' = ostatus /\ call' = call /\ unsold' = unsold
      /\ total' = total /\ paid' = paid /\ balance' = balance /\ edited' = edited
  BY <1>2 DEF moneyVars, orderVars
<1>4. /\ stop' \in [Stops -> {"none", "pendiente", "entregado", "rechazado", "no_entregado"}]
      /\ \A o \in Orders : stop'[o] = "entregado" => stop[o] = "entregado"
  BY <1>1, <1>2 DEF DeliveryTypeOK
<1>5. DeliveryTypeOK' /\ PriceSound' /\ ConfirmedIsSold'
  BY <1>1, <1>2, <1>3, <1>4 DEF LastMileInv, DeliveryTypeOK, MoneyTypeOK, PriceSound, ConfirmedIsSold
<1>6. \A a \in Attempts : CallSound(a)'
  BY <1>3 DEF LastMileInv, CallSound
<1>7. \A y \in Stops, ref \in References : LiveAs(y, ref)' \subseteq LiveAs(y, ref)
  BY <1>3 DEF LiveAs, LiveOf, Live
<1>8. \A k \in Folios, ref \in References : Inserting(k, ref)' \subseteq Inserting(k, ref)
  BY <1>3 DEF Inserting
<1> QED BY <1>5, <1>6, <1>7, <1>8, StillStep

\* The sale and the payment of an order are one transaction.
LEMMA DeliverStep ==
  ASSUME LastMileInv, NEW a \in Attempts, DeliverAndCollect(a)
  PROVE  LastMileInv'
<1> DEFINE o == call[a].stop
           v == [call[a] EXCEPT !.step = "mark", !.pays = Nothing]
<1>1. /\ DeliveryTypeOK /\ MoneyTypeOK /\ call \in [Attempts -> Calls] /\ o \in Orders
      /\ o \in Stops /\ collect[o] \in Int
  BY DEF LastMileInv, DeliveryTypeOK, DeliverAndCollect, Stops
<1>2. /\ call' = [call EXCEPT ![a] = v] /\ UNCHANGED <<total, edited, stop, collect, dispatch>>
      /\ ostatus' = [ostatus EXCEPT ![o] = FulfilledStatus(o)]
      /\ unsold' = IF FulfilledStatus(o) = "fulfilled" THEN unsold ELSE unsold \union {o}
  BY DEF DeliverAndCollect, Paid, stopVars
<1>3. v \in Calls /\ v.step = "mark" /\ v.stop = o
  <2>1. call[a] \in Calls
    BY <1>1
  <2> QED BY <2>1, CallsType DEF Calls
<1>4. call'[a] = v /\ (\A b \in Attempts : b # a => call'[b] = call[b]) /\ call' \in [Attempts -> Calls]
  BY <1>1, <1>2, <1>3
<1>5. /\ SalesStand /\ ostatus'[o] = FulfilledStatus(o) /\ unsold \subseteq unsold'
      /\ o \in unsold' \/ ostatus'[o] = "fulfilled"
      /\ unsold' \subseteq Orders
      /\ ostatus' \in [Orders -> {"draft", "pending_approval", "confirmed", "fulfilled", "cancelled"}]
  BY <1>1, <1>2 DEF SalesStand, FulfilledStatus, DeliveryTypeOK, MoneyTypeOK
<1>6. /\ pay' \in [PayIds -> Payment] /\ paid' \in [Orders -> Nat] /\ balance' \in [Orders -> Int]
  <2>1. CASE Collect(o, collect[o], call[a].pays, TRUE) /\ call[a].pays # Nothing
    <3>1. call[a].pays \in Means
      BY <1>1, <2>1 DEF Calls
    <3> QED BY <1>1, <2>1, <3>1, CollectType
  <2>2. CASE UNCHANGED <<pay, paid, balance>>
    BY <1>1, <2>2 DEF MoneyTypeOK
  <2> QED BY <2>1, <2>2 DEF DeliverAndCollect, Known
<1>7. DeliveryTypeOK' /\ PriceSound' /\ ConfirmedIsSold'
  <2>1. DeliveryTypeOK'
    BY <1>1, <1>2, <1>4, <1>5, <1>6 DEF DeliveryTypeOK, MoneyTypeOK
  <2>2. PriceSound' /\ ConfirmedIsSold'
    BY <1>2, <1>5 DEF LastMileInv, PriceSound, ConfirmedIsSold, SalesStand
  <2> QED BY <2>1, <2>2
<1>8. ASSUME NEW b \in Attempts PROVE CallSound(b)'
  <2>1. CASE b = a
    BY <1>1, <1>3, <1>4, <1>5, <2>1 DEF CallSound
  <2>2. CASE b # a
    BY <1>4, <1>5, <2>2 DEF LastMileInv, CallSound, SalesStand
  <2> QED BY <2>1, <2>2
<1>9. \A k \in Folios, ref \in References : Inserting(k, ref)' \subseteq Inserting(k, ref)
  BY <1>3, <1>4 DEF Inserting
<1>10. CASE Collect(o, collect[o], call[a].pays, TRUE) /\ call[a].pays # Nothing
  <2>1. call[a].pays \in Means
    BY <1>1, <1>10 DEF Calls
  <2> QED BY <1>1, <1>7, <1>8, <1>9, <1>10, <2>1, CollectStep
<1>11. CASE UNCHANGED <<pay, paid, balance>>
  <2>1. \A y \in Stops, ref \in References : LiveAs(y, ref)' \subseteq LiveAs(y, ref)
    BY <1>11 DEF LiveAs, LiveOf, Live
  <2> QED BY <1>7, <1>8, <1>9, <2>1, StillStep
<1> QED BY <1>10, <1>11 DEF DeliverAndCollect, Known

\* The payment of a ticket is inserted by a call that no longer looks.
LEMMA KeplerInsertStep ==
  ASSUME LastMileInv, NEW a \in Attempts, NEW k \in Folios, KeplerInsert(a, k)
  PROVE  LastMileInv'
<1> DEFINE by == call[a].pays
           v == [call[a] EXCEPT !.step = "mark", !.pays = Nothing]
<1>1. /\ DeliveryTypeOK /\ MoneyTypeOK /\ call \in [Attempts -> Calls] /\ CallSound(a)
      /\ call[a].step = "insert" /\ call[a].stop = k
  BY DEF LastMileInv, DeliveryTypeOK, KeplerInsert, At
<1>2. k \in Folios /\ k \in Stops /\ by \in Means /\ collect[k] \in Nat
  BY <1>1 DEF CallSound, LastMileInv, PriceSound, Stops
<1>3. PICK i \in PayIds : Inserted(i, NewPayment(k, collect[k], by, TRUE))
  BY DEF KeplerInsert, InsertKepler, Inserted
<1>4. New(NewPayment(k, collect[k], by, TRUE), k, by)
  BY <1>2, NewPaymentIsNew
<1>5. PICK row : New(row, k, by) /\ Inserted(i, row)
  BY <1>3, <1>4, Zenon
<1>6. /\ call' = [call EXCEPT ![a] = v]
      /\ ostatus' = ostatus /\ total' = total /\ paid' = paid /\ balance' = balance
      /\ edited' = edited /\ stop' = stop /\ collect' = collect /\ unsold' = unsold
      /\ dispatch' = dispatch
  BY DEF KeplerInsert, InsertKepler, Paid, stopVars, orderVars
<1>7. v \in Calls /\ v.step = "mark" /\ v.stop = k /\ v.pays = Nothing
  BY <1>1, CallsType DEF Calls
<1>8. call'[a] = v /\ (\A b \in Attempts : b # a => call'[b] = call[b]) /\ call' \in [Attempts -> Calls]
  BY <1>1, <1>6, <1>7
<1>9. DeliveryTypeOK' /\ PriceSound' /\ ConfirmedIsSold'
  <2>1. pay' \in [PayIds -> Payment]
    BY <1>1, <1>2, <1>5, AddedType
  <2> QED BY <1>1, <1>6, <1>8, <2>1
          DEF LastMileInv, DeliveryTypeOK, MoneyTypeOK, PriceSound, ConfirmedIsSold
<1>10. ASSUME NEW b \in Attempts PROVE CallSound(b)'
  <2>1. CASE b = a
    <3>1. k \notin Orders
      BY <1>2, PaymentAssumption
    <3> QED BY <1>2, <1>7, <1>8, <2>1, <3>1 DEF CallSound
  <2>2. CASE b # a
    BY <1>6, <1>8, <2>2 DEF LastMileInv, CallSound
  <2> QED BY <2>1, <2>2
<1>11. ASSUME NEW y \in Stops, NEW ref \in References
       PROVE  /\ i \notin LiveAs(y, ref)
              /\ y = k /\ ref = by.ref => LiveAs(y, ref)' = LiveAs(y, ref) \union {i}
              /\ ~(y = k /\ ref = by.ref) => LiveAs(y, ref)' = LiveAs(y, ref)
  BY <1>1, <1>2, <1>5, Added
<1>12. ASSUME NEW o \in Orders, NEW ref \in References PROVE OneOf(o, ref)'
  <2>1. o \in Stops /\ o # k
    BY <1>2, PaymentAssumption DEF Stops
  <2>2. LiveAs(o, ref)' = LiveAs(o, ref)
    BY <1>11, <2>1
  <2> QED BY <2>2 DEF LastMileInv, OneOf
<1>13. ASSUME NEW l \in Folios, NEW ref \in References PROVE Overlapping(l, ref)'
  <2>1. l \in Stops /\ Inserting(l, ref)' = Inserting(l, ref) \ {a}
    BY <1>7, <1>8 DEF Stops, Inserting
  <2>2. CASE l = k /\ ref = by.ref
    <3>1. a \in Inserting(l, ref)
      BY <1>1, <2>2 DEF Inserting
    <3>2. i \notin LiveAs(l, ref) /\ LiveAs(l, ref)' = LiveAs(l, ref) \union {i}
      BY <1>11, <2>1, <2>2
    <3>3. Cardinality(LiveAs(l, ref)') = Cardinality(LiveAs(l, ref)) + 1
      BY <3>2, LiveFinite, FS_AddElement
    <3>4. Cardinality(Inserting(l, ref)') = Cardinality(Inserting(l, ref)) - 1
      BY <2>1, <3>1, InsertingFinite, FS_RemoveElement
    <3>5. /\ Cardinality(LiveAs(l, ref)) \in Nat /\ Cardinality(Inserting(l, ref)) \in Nat
          /\ Cardinality(Attempts) \in Nat
      BY LiveFinite, InsertingFinite
    <3> QED BY <3>3, <3>4, <3>5 DEF LastMileInv, Overlapping
  <2>3. CASE ~(l = k /\ ref = by.ref)
    <3>1. LiveAs(l, ref)' = LiveAs(l, ref)
      BY <1>11, <2>1, <2>3
    <3> QED BY <2>1, <3>1, OverlapsShrink DEF LastMileInv
  <2> QED BY <2>2, <2>3
<1> QED BY <1>9, <1>10, <1>12, <1>13 DEF LastMileInv

LEMMA DeliveryStep ==
  ASSUME LastMileInv, DeliveryNext
  PROVE  LastMileInv'
<1>1. /\ call \in [Attempts -> Calls] /\ NoCall \in Calls
      /\ stop \in [Stops -> {"none", "pendiente", "entregado", "rechazado", "no_entregado"}]
  BY CallsType DEF LastMileInv, DeliveryTypeOK
<1>2. CASE \/ \E o \in Orders : DispatchOrder(o)
           \/ \E d \in dispatch : CreateDelivery(d[1], d[2])
           \/ \E k \in Folios : DispatchFromKepler(k)
  BY <1>2, ReadStep, DispatchStep
<1>3. ASSUME NEW a \in Attempts, NEW s \in Stops, NEW outcome \in {"deliver", "reject", "absent"},
             NEW pays \in Means \union {Nothing}, BeginOutcome(a, s, outcome, pays)
      PROVE  LastMileInv'
  <2> DEFINE v == [step |-> outcome, stop |-> s, pays |-> pays]
  <2>1. v \in Calls /\ v.step = outcome /\ v.stop = s
    BY DEF Calls
  <2>2. call' = [call EXCEPT ![a] = v] /\ UNCHANGED <<moneyVars, stop, collect, dispatch, unsold>>
    BY <1>3 DEF BeginOutcome, stopVars
  <2> HIDE DEF v
  <2> QED BY <1>1, <2>1, <2>2, CallStep
<1>4. ASSUME NEW a \in Attempts, NEW k \in Folios, KeplerCheck(a, k) PROVE LastMileInv'
  <2>1. /\ UNCHANGED <<moneyVars, stop, collect, dispatch, unsold>> /\ CallSound(a) /\ call[a] \in Calls
        /\ call[a].stop \in Folios
    BY <1>1, <1>4 DEF KeplerCheck, stopVars, LastMileInv
  <2>2. CASE Paid(a)
    <3> DEFINE v == [call[a] EXCEPT !.step = "mark", !.pays = Nothing]
    <3>1. v \in Calls /\ v.step = "mark" /\ v.stop = call[a].stop
      BY <2>1, CallsType DEF Calls
    <3>2. call' = [call EXCEPT ![a] = v] /\ v.stop \notin Orders /\ v.stop \in Stops
      BY <2>1, <2>2, <3>1, PaymentAssumption DEF Paid, Stops
    <3> HIDE DEF v
    <3> QED BY <1>1, <2>1, <3>1, <3>2, CallStep
  <2>3. CASE Go(a, "insert") /\ call[a].pays # Nothing /\ LiveAs(call[a].stop, call[a].pays.ref) = {}
    <3> DEFINE v == [call[a] EXCEPT !.step = "insert"]
    <3>1. /\ v \in Calls /\ v.step = "insert" /\ v.stop = call[a].stop /\ v.pays = call[a].pays
          /\ call[a].pays \in Means
      BY <2>1, <2>3, CallsType DEF Calls
    <3>2. call' = [call EXCEPT ![a] = v] /\ v.stop \in Stops
      BY <1>1, <2>1, <2>3, <3>1 DEF Go, Stops
    <3> HIDE DEF v
    <3> QED BY <1>1, <2>1, <2>3, <3>1, <3>2, CallStep
  <2> QED BY <1>4, <2>2, <2>3 DEF KeplerCheck
<1>5. ASSUME NEW a \in Attempts,
             \/ MarkDelivered(a)
             \/ MarkAbsent(a)
             \/ MarkRejected(a) /\ call[a].stop \notin Orders
      PROVE  LastMileInv'
  <2>1. /\ call' = [call EXCEPT ![a] = NoCall] /\ UNCHANGED <<moneyVars, collect, dispatch, unsold>>
        /\ CallSound(a)
    BY <1>5 DEF MarkDelivered, MarkAbsent, MarkRejected, MarkStop, End, LastMileInv
  <2>2. /\ stop' \in [Stops -> {"none", "pendiente", "entregado", "rechazado", "no_entregado"}]
        /\ \A o \in Orders \ unsold :
             stop'[o] = "entregado" => stop[o] = "entregado" \/ ostatus[o] = "fulfilled"
    <3>1. CASE MarkDelivered(a)
      BY <1>1, <2>1, <3>1 DEF MarkDelivered, MarkStop, At, CallSound, Stops
    <3>2. CASE MarkAbsent(a) \/ MarkRejected(a)
      BY <1>1, <3>2 DEF MarkAbsent, MarkRejected, MarkStop, Stops
    <3> QED BY <1>5, <3>1, <3>2
  <2>3. NoCall.step = "none"
    BY DEF NoCall
  <2> QED BY <1>1, <2>1, <2>2, <2>3, CallStep
<1>6. ASSUME NEW a \in Attempts, MarkRejected(a), call[a].stop \in Orders PROVE LastMileInv'
  <2> DEFINE v == [call[a] EXCEPT !.step = "cancel"]
  <2>1. /\ call' = [call EXCEPT ![a] = v] /\ UNCHANGED <<moneyVars, collect, dispatch, unsold>>
        /\ call[a] \in Calls
    BY <1>1, <1>6 DEF MarkRejected, MarkStop, Go
  <2>2. v \in Calls /\ v.step = "cancel" /\ v.stop = call[a].stop
    BY <2>1, CallsType DEF Calls
  <2>3. /\ stop' \in [Stops -> {"none", "pendiente", "entregado", "rechazado", "no_entregado"}]
        /\ \A o \in Orders : stop'[o] = "entregado" => stop[o] = "entregado"
    BY <1>1, <1>6 DEF MarkRejected, MarkStop, Stops
  <2>4. v.stop \in Orders /\ v.stop \in Stops
    BY <1>6, <2>2 DEF Stops
  <2> HIDE DEF v
  <2> QED BY <2>1, <2>2, <2>3, <2>4, CallStep
<1>7. ASSUME NEW a \in Attempts, GiveUp(a) PROVE LastMileInv'
  <2>1. /\ call' = [call EXCEPT ![a] = NoCall] /\ UNCHANGED <<moneyVars, stop, collect, dispatch, unsold>>
        /\ NoCall.step = "none"
    BY <1>7 DEF GiveUp, End, stopVars, NoCall
  <2> QED BY <1>1, <2>1, CallStep
<1>8. ASSUME NEW a \in Attempts, CancelRejected(a) PROVE LastMileInv'
  <2>1. /\ call[a].stop \in Orders /\ Cancel(call[a].stop) /\ End(a)
        /\ UNCHANGED <<stop, collect, dispatch, unsold>> /\ pay' = pay
    BY <1>8 DEF CancelRejected, CallSound, At, stopVars, Cancel, LastMileInv
  <2>2. MoneyTypeOK' /\ SalesStand
    BY <2>1 DEF LastMileInv, DeliveryTypeOK, MoneyTypeOK, Cancel, Cancellable, SalesStand
  <2>3. /\ call'[a] = NoCall /\ (\A b \in Attempts : b # a => call'[b] = call[b])
        /\ call' \in [Attempts -> Calls]
    BY <1>1, <2>1 DEF End
  <2>4. DeliveryTypeOK' /\ PriceSound' /\ ConfirmedIsSold'
    BY <2>1, <2>2, <2>3
       DEF LastMileInv, DeliveryTypeOK, PriceSound, ConfirmedIsSold, SalesStand
  <2>5. ASSUME NEW b \in Attempts PROVE CallSound(b)'
    BY <2>1, <2>2, <2>3 DEF LastMileInv, CallSound, NoCall, SalesStand
  <2>6. \A y \in Stops, ref \in References : LiveAs(y, ref)' \subseteq LiveAs(y, ref)
    BY <2>1 DEF LiveAs, LiveOf, Live
  <2>7. \A k \in Folios, ref \in References : Inserting(k, ref)' \subseteq Inserting(k, ref)
    BY <2>3 DEF Inserting, NoCall
  <2> QED BY <2>4, <2>5, <2>6, <2>7, StillStep
<1>9. ASSUME NEW a \in Attempts,
             \/ \E k \in Folios : KeplerCheck(a, k) \/ KeplerInsert(a, k)
             \/ DeliverAndCollect(a) \/ MarkDelivered(a) \/ MarkAbsent(a)
             \/ MarkRejected(a) \/ CancelRejected(a) \/ GiveUp(a)
      PROVE  LastMileInv'
  <2>1. CASE DeliverAndCollect(a) \/ \E k \in Folios : KeplerInsert(a, k)
    BY <2>1, DeliverStep, KeplerInsertStep
  <2>2. CASE MarkDelivered(a) \/ MarkAbsent(a)
    BY <1>5, <2>2
  <2>3. CASE MarkRejected(a) /\ call[a].stop \notin Orders
    BY <1>5, <2>3
  <2>4. CASE MarkRejected(a) /\ call[a].stop \in Orders
    BY <1>6, <2>4
  <2> QED BY <1>4, <1>7, <1>8, <1>9, <2>1, <2>2, <2>3, <2>4
<1> QED BY <1>2, <1>3, <1>9 DEF DeliveryNext

LEMMA LastMileInit == Init => LastMileInv
<1> SUFFICES ASSUME Init PROVE LastMileInv
  OBVIOUS
<1>1. MoneyTypeOK
  <2>1. NoPayment \in Payment
    BY DEF NoPayment, Payment
  <2> QED BY <2>1, PaymentAssumption DEF Init, MoneyInit, MoneyTypeOK
<1>2. DeliveryTypeOK
  <2>1. call \in [Attempts -> Calls]
    BY CallsType DEF Init, DeliveryInit
  <2> QED BY <1>1, <2>1 DEF Init, DeliveryInit, DeliveryTypeOK
<1>3. PriceSound /\ ConfirmedIsSold /\ \A a \in Attempts : CallSound(a)
  BY DEF Init, DeliveryInit, PriceSound, ConfirmedIsSold, CallSound, NoCall, Stops
<1>4. \A x, ref : LiveAs(x, ref) = {}
  BY DEF Init, MoneyInit, LiveAs, LiveOf, Live, NoPayment
<1>5. \A k \in Folios, ref \in References : Inserting(k, ref) = {}
  BY DEF Init, DeliveryInit, Inserting, NoCall
<1>6. Cardinality({}) = 0 /\ Cardinality(Attempts) \in Nat
  BY FS_EmptySet, FS_CardinalityType, DeliveryAssumption
<1>7. \A o \in Orders, ref \in References : OneOf(o, ref)
  BY <1>4 DEF OneOf
<1>8. \A k \in Folios, ref \in References : Overlapping(k, ref)
  BY <1>4, <1>5, <1>6 DEF Overlapping
<1> QED BY <1>2, <1>3, <1>7, <1>8 DEF LastMileInv

LEMMA LastMileNext ==
  ASSUME LastMileInv, [Next]_vars
  PROVE  LastMileInv'
<1>1. CASE MoneyNext /\ UNCHANGED <<deliveryVars, cutVars>>
  BY <1>1, MoneyStep
<1>2. CASE DeliveryNext /\ UNCHANGED cutVars
  BY <1>2, DeliveryStep
<1>3. CASE CutNext /\ UNCHANGED deliveryVars
  BY <1>3, CutStep
<1>4. CASE UNCHANGED vars
  BY <1>4, OfficeStep DEF vars, moneyVars, orderVars, LastMileInv, DeliveryTypeOK, MoneyTypeOK,
                          SalesStand, Live
<1> QED BY <1>1, <1>2, <1>3, <1>4 DEF Next

-----------------------------------------------------------------------------
(* Theorems. *)

\* A reference has one payment in an order, and in a ticket no more than calls
\* that looked for it and found none; what is about to be marked was sold.
THEOREM LastMileInvariant == Spec => []LastMileInv
<1>1. LastMileInv /\ [Next]_vars => LastMileInv'
  BY LastMileNext
<1> QED BY LastMileInit, <1>1, PTL DEF Spec

\* Types of orders, payments, stops and calls.
THEOREM LastMileTypeCorrect == Spec => []DeliveryTypeOK
<1>1. LastMileInv => DeliveryTypeOK
  BY DEF LastMileInv
<1> QED BY LastMileInvariant, <1>1, PTL

\* insertPayment finds the reference with the order locked: a collection that is
\* sent again, or twice at once, is one payment.
THEOREM OnePaymentPerReference == Spec => []OnePerReference
<1>1. LastMileInv => OnePerReference
  <2> SUFFICES ASSUME LastMileInv, NEW o \in Orders, NEW ref \in References
               PROVE  Cardinality(LiveAs(o, ref)) <= 1
    BY DEF OnePerReference
  <2>1. OneOf(o, ref)
    BY DEF LastMileInv
  <2>2. CASE LiveAs(o, ref) = {}
    BY <2>2, FS_EmptySet
  <2>3. CASE LiveAs(o, ref) # {}
    <3>1. PICK i : LiveAs(o, ref) = {i}
      BY <2>1, <2>3 DEF OneOf
    <3> QED BY <3>1, FS_Singleton
  <2> QED BY <2>2, <2>3
<1> QED BY LastMileInvariant, <1>1, PTL

\* recordKeplerPayment looks without a lock: copies are calls that overlapped.
THEOREM CopiesOverlapped == Spec => []CopiesAreOverlaps
<1>1. LastMileInv => CopiesAreOverlaps
  <2> SUFFICES ASSUME LastMileInv, NEW k \in Folios, NEW ref \in References
               PROVE  Cardinality(LiveAs(k, ref)) <= Cardinality(Attempts)
    BY DEF CopiesAreOverlaps
  <2>1. Overlapping(k, ref)
    BY DEF LastMileInv
  <2> QED BY <2>1, LiveFinite, InsertingFinite DEF Overlapping
<1> QED BY LastMileInvariant, <1>1, PTL

\* recordDeliveryOutcome delivers before it marks, and nothing undoes a sale.
THEOREM DeliveredWasSold == Spec => []ConfirmedIsSold
<1>1. LastMileInv => ConfirmedIsSold
  BY DEF LastMileInv
<1> QED BY LastMileInvariant, <1>1, PTL

-----------------------------------------------------------------------------
(* The ledger: what the rows of commercial.payments add up to.               *)

\* What a step may do to the rows and to the sums kept in the orders.
RowsAside == UNCHANGED <<total, paid, balance, pay, edited>>

CollectOf(o) ==
  /\ \E amount \in Nat, by \in Means, rider \in BOOLEAN : Collect(o, amount, by, rider)
  /\ UNCHANGED <<total, edited>>

LEMMA LedgerSteps ==
  ASSUME LastMileInv, [Next]_vars
  PROVE  \/ RowsAside
         \/ \E o \in Orders, t \in 1..MaxTotal : EditLines(o, t)
         \/ \E o \in Orders : CollectOf(o)
         \/ \E k \in Folios, amount \in Nat, by \in Means : InsertKepler(k, amount, by)
         \/ \E i \in PayIds : VerifyTransfer(i) \/ ReversePayment(i)
         \/ CloseCut
<1>1. CASE MoneyNext
  <2>1. ASSUME NEW o \in Orders, NEW amount \in 1..MaxTotal, NEW by \in Means,
               RecordPayment(o, amount, by, FALSE)
        PROVE  CollectOf(o)
    <3>1. amount \in Nat /\ FALSE \in BOOLEAN
      BY PaymentAssumption
    <3>2. Collect(o, amount, by, FALSE) /\ UNCHANGED <<total, edited>>
      BY <2>1 DEF RecordPayment
    <3> QED BY <3>1, <3>2, Zenon DEF CollectOf
  <2>2. ASSUME NEW o \in Orders,
               \/ Cancel(o) \/ FulfillOrder(o)
               \/ \E s \in {"pending_approval", "confirmed"} : Accept(o, s)
        PROVE  RowsAside
    BY <2>2 DEF Cancel, FulfillOrder, Accept, RowsAside
  <2> QED BY <1>1, <2>1, <2>2 DEF MoneyNext
<1>2. CASE DeliveryNext
  <2>1. ASSUME NEW a \in Attempts, DeliverAndCollect(a)
        PROVE  RowsAside \/ \E o \in Orders : CollectOf(o)
    <3> DEFINE o == call[a].stop
    <3>1. /\ call[a] \in Calls /\ o \in Orders /\ UNCHANGED <<total, edited>>
          /\ collect \in [Stops -> Int]
      BY <2>1 DEF DeliverAndCollect, LastMileInv, DeliveryTypeOK
    <3>2. CASE call[a].pays # Nothing /\ Collect(o, collect[o], call[a].pays, TRUE)
      <4>1. call[a].pays \in Means
        BY <3>1, <3>2 DEF Calls
      <4>2. collect[o] \in Nat
        BY <3>1, <3>2 DEF Collect, Stops
      <4>3. TRUE \in BOOLEAN
        OBVIOUS
      <4> QED BY <3>1, <3>2, <4>1, <4>2, <4>3, Zenon DEF CollectOf
    <3>3. CASE UNCHANGED <<pay, paid, balance>>
      BY <3>1, <3>3 DEF RowsAside
    <3> QED BY <2>1, <3>2, <3>3 DEF DeliverAndCollect, Known
  <2>2. ASSUME NEW a \in Attempts, NEW k \in Folios, KeplerInsert(a, k)
        PROVE  \E amount \in Nat, by \in Means : InsertKepler(k, amount, by)
    BY <2>2 DEF KeplerInsert, LastMileInv, PriceSound, CallSound, At
  <2>3. ASSUME \/ \E o \in Orders : DispatchOrder(o)
               \/ \E d \in dispatch : CreateDelivery(d[1], d[2])
               \/ \E k \in Folios : DispatchFromKepler(k)
               \/ \E a \in Attempts :
                    \/ \E s \in Stops, outcome \in {"deliver", "reject", "absent"},
                          pays \in Means \union {Nothing} : BeginOutcome(a, s, outcome, pays)
                    \/ \E k \in Folios : KeplerCheck(a, k)
                    \/ MarkDelivered(a) \/ MarkAbsent(a) \/ MarkRejected(a)
                    \/ CancelRejected(a) \/ GiveUp(a)
        PROVE  RowsAside
    BY <2>3 DEF DispatchOrder, CreateDelivery, DispatchFromKepler, BeginOutcome, KeplerCheck, MarkDelivered,
       MarkAbsent, MarkRejected, CancelRejected, Cancel, GiveUp, moneyVars, orderVars, RowsAside
  <2> QED BY <1>2, <2>1, <2>2, <2>3 DEF DeliveryNext
<1>3. CASE CutNext
  BY <1>3 DEF CutNext, OpenCut, ComputeTotals, AbortClose, Reconcile, moneyVars, orderVars, RowsAside
<1>4. CASE UNCHANGED vars
  BY <1>4 DEF vars, moneyVars, orderVars, RowsAside
<1> QED BY <1>1, <1>2, <1>3, <1>4 DEF Next

\* The payments of an order are finitely many, each of an amount.
LEMMA LedgerTyped ==
  ASSUME MoneyTypeOK, NEW S \in SUBSET PayIds
  PROVE  /\ IsFiniteSet(S)
         /\ \A i \in S : Amounts[i] \in Nat /\ Amounts[i] = pay[i].amount
         /\ SumFunctionOnSet(Amounts, S) \in Nat
         /\ \A i \in S : Amounts[i] <= SumFunctionOnSet(Amounts, S)
<1>1. IsFiniteSet(S)
  <2>1. IsFiniteSet(PayIds)
    BY FS_Interval, PaymentAssumption DEF PayIds
  <2> QED BY <2>1, FS_Subset
<1>2. \A i \in S : Amounts[i] \in Nat /\ Amounts[i] = pay[i].amount
  BY DEF MoneyTypeOK, Payment, Amounts
<1> QED BY <1>1, <1>2, SumOfNaturals

\* Rows that keep their amounts keep their sum.
LEMMA SameRowsSameSum ==
  ASSUME MoneyTypeOK, NEW S \in SUBSET PayIds, \A i \in S : pay'[i].amount = pay[i].amount
  PROVE  SumFunctionOnSet(Amounts', S) = SumFunctionOnSet(Amounts, S)
<1> DEFINE e == Amounts'
<1>1. ASSUME NEW i \in S PROVE Amounts[i] \in Int /\ e[i] = Amounts[i]
  <2>1. i \in PayIds /\ Amounts[i] \in Nat /\ Amounts[i] = pay[i].amount
    BY LedgerTyped
  <2>2. e[i] = pay'[i].amount
    BY <2>1 DEF Amounts
  <2> QED BY <2>1, <2>2
<1> HIDE DEF e
<1>2. SumFunctionOnSet(e, S) = SumFunctionOnSet(Amounts, S)
  BY <1>1, LedgerTyped, SumCongruent
<1> QED BY <1>2 DEF e

\* A row is added to the table: the sums of its order grow by its amount, and
\* no other does.
LEMMA RowAddsUp ==
  ASSUME MoneyTypeOK, NEW i \in PayIds, NextPay(i), NEW row, row.status = "received",
         row.amount \in Nat, pay' = [pay EXCEPT ![i] = row], NEW o \in Orders
  PROVE  SumFunctionOnSet(Amounts', LiveOf(o)')
           = SumFunctionOnSet(Amounts, LiveOf(o)) + IF row.of = o THEN row.amount ELSE 0
<1>1. /\ pay'[i] = row
      /\ \A j \in PayIds \ {i} : pay'[j] = pay[j]
      /\ i \notin LiveOf(o)
  BY DEF MoneyTypeOK, NextPay, LiveOf, Live
<1>2. \A j \in LiveOf(o) : pay'[j].amount = pay[j].amount
  BY <1>1 DEF LiveOf
<1>3. LiveOf(o) \in SUBSET PayIds
  BY DEF LiveOf
<1>4. SumFunctionOnSet(Amounts', LiveOf(o)) = SumFunctionOnSet(Amounts, LiveOf(o))
  BY <1>2, <1>3, SameRowsSameSum
<1>5. SumFunctionOnSet(Amounts, LiveOf(o)) \in Nat
  BY <1>3, LedgerTyped
<1>6. CASE row.of = o
  <2>1. LiveOf(o)' = LiveOf(o) \union {i}
    BY <1>1, <1>6 DEF LiveOf, Live, PayIds
  <2> DEFINE e == Amounts'
  <2>2. e[i] = row.amount /\ \A j \in LiveOf(o) : e[j] \in Int
    <3>1. \A j \in PayIds : e[j] = pay'[j].amount
      BY DEF Amounts
    <3>2. \A j \in LiveOf(o) : pay[j].amount \in Nat
      BY <1>3, LedgerTyped
    <3> HIDE DEF e
    <3> QED BY <1>1, <1>2, <1>3, <3>1, <3>2
  <2> HIDE DEF e
  <2>3. SumFunctionOnSet(e, LiveOf(o) \union {i}) = e[i] + SumFunctionOnSet(e, LiveOf(o))
    BY <1>1, <1>3, <2>2, LedgerTyped, SumAdd
  <2>4. SumFunctionOnSet(e, LiveOf(o)) = SumFunctionOnSet(Amounts, LiveOf(o))
    BY <1>4 DEF e
  <2>5. SumFunctionOnSet(Amounts', LiveOf(o)') = SumFunctionOnSet(e, LiveOf(o) \union {i})
    BY <2>1, Zenon DEF e
  <2> QED BY <1>5, <1>6, <2>2, <2>3, <2>4, <2>5
<1>7. CASE row.of # o
  <2>1. LiveOf(o)' = LiveOf(o)
    BY <1>1, <1>7 DEF LiveOf, Live, PayIds
  <2>2. SumFunctionOnSet(Amounts', LiveOf(o)') = SumFunctionOnSet(Amounts, LiveOf(o))
    BY <1>4, <2>1, Zenon
  <2> QED BY <1>5, <1>7, <2>2
<1> QED BY <1>6, <1>7

\* Rows that stand, of the same orders and amounts, keep the sums.
LEMMA SumsStand ==
  ASSUME MoneyTypeOK, NEW o \in Orders,
         \A j \in PayIds : /\ pay'[j].of = pay[j].of /\ pay'[j].amount = pay[j].amount
                           /\ Live(j)' <=> Live(j)
  PROVE  SumFunctionOnSet(Amounts', LiveOf(o)') = SumFunctionOnSet(Amounts, LiveOf(o))
<1>1. LiveOf(o)' = LiveOf(o)
  BY DEF LiveOf, PayIds
<1>2. SumFunctionOnSet(Amounts', LiveOf(o)) = SumFunctionOnSet(Amounts, LiveOf(o))
  <2>1. LiveOf(o) \in SUBSET PayIds
    BY DEF LiveOf
  <2> QED BY <2>1, SameRowsSameSum
<1> QED BY <1>1, <1>2, Zenon

\* A payment is reversed: its order loses what it had brought.
LEMMA ReversalTakesOut ==
  ASSUME MoneyTypeOK, NEW i \in PayIds, Live(i), pay' = [pay EXCEPT ![i].status = "reversed"],
         NEW o \in Orders
  PROVE  SumFunctionOnSet(Amounts', LiveOf(o)')
           = SumFunctionOnSet(Amounts, LiveOf(o)) - IF pay[i].of = o THEN pay[i].amount ELSE 0
<1>1. \A j \in PayIds : /\ pay'[j].of = pay[j].of /\ pay'[j].amount = pay[j].amount
                        /\ j # i => pay'[j] = pay[j]
  BY DEF MoneyTypeOK, Payment
<1>2. pay'[i].status = "reversed"
  BY DEF MoneyTypeOK, Payment
<1>3. LiveOf(o) \in SUBSET PayIds /\ LiveOf(o)' = LiveOf(o) \ {i}
  BY <1>1, <1>2 DEF LiveOf, Live, PayIds
<1>4. SumFunctionOnSet(Amounts', LiveOf(o)') = SumFunctionOnSet(Amounts, LiveOf(o) \ {i})
  <2>1. LiveOf(o) \ {i} \in SUBSET PayIds /\ \A j \in LiveOf(o) \ {i} : pay'[j].amount = pay[j].amount
    BY <1>1, <1>3
  <2>2. SumFunctionOnSet(Amounts', LiveOf(o) \ {i}) = SumFunctionOnSet(Amounts, LiveOf(o) \ {i})
    BY <2>1, SameRowsSameSum
  <2> QED BY <1>3, <2>2, Zenon
<1>5. SumFunctionOnSet(Amounts, LiveOf(o)) \in Nat /\ SumFunctionOnSet(Amounts, LiveOf(o) \ {i}) \in Nat
  <2>1. LiveOf(o) \ {i} \in SUBSET PayIds
    BY <1>3
  <2> QED BY <1>3, <2>1, LedgerTyped
<1>6. CASE pay[i].of = o
  <2>1. i \in LiveOf(o) /\ Amounts[i] = pay[i].amount /\ Amounts[i] \in Nat
    BY <1>3, <1>6, LedgerTyped DEF LiveOf
  <2>2. \A j \in LiveOf(o) : Amounts[j] \in Int
    BY <1>3, LedgerTyped
  <2>3. SumFunctionOnSet(Amounts, LiveOf(o)) = Amounts[i] + SumFunctionOnSet(Amounts, LiveOf(o) \ {i})
    BY <1>3, <2>1, <2>2, LedgerTyped, SumRemove
  <2> QED BY <1>4, <1>5, <1>6, <2>1, <2>3
<1>7. CASE pay[i].of # o
  <2>1. LiveOf(o) \ {i} = LiveOf(o)
    BY <1>7 DEF LiveOf
  <2>2. SumFunctionOnSet(Amounts', LiveOf(o)') = SumFunctionOnSet(Amounts, LiveOf(o))
    BY <1>4, <2>1, Zenon
  <2> QED BY <1>5, <1>7, <2>2
<1> QED BY <1>6, <1>7

Ledger(o) == paid[o] = SumFunctionOnSet(Amounts, LiveOf(o))
Rest(o) == o \notin edited => balance[o] = total[o] - paid[o] /\ paid[o] <= total[o]

LedgerInv == \A o \in Orders : Ledger(o) /\ Rest(o)

LEMMA LedgerIsSums == LedgerInv <=> PaidIsLedger /\ BalanceIsRest
BY DEF LedgerInv, Ledger, Rest, PaidIsLedger, BalanceIsRest

LEMMA LedgerInit == Init => LedgerInv
<1> SUFFICES ASSUME Init, NEW o \in Orders PROVE Ledger(o) /\ Rest(o)
  BY DEF LedgerInv
<1>1. paid[o] = 0 /\ balance[o] = 0 /\ total[o] = 0
  BY DEF Init, MoneyInit
<1>2. \A i \in PayIds : ~Live(i)
  BY DEF Init, MoneyInit, NoPayment, Live
<1>3. LiveOf(o) = {}
  BY <1>2 DEF LiveOf
<1>4. SumFunctionOnSet(Amounts, {}) = 0
  BY FS_EmptySet, SumType
<1>5. Ledger(o)
  BY <1>1, <1>3, <1>4, Zenon DEF Ledger
<1> QED BY <1>1, <1>5 DEF Rest

\* An order and its rows that a step leaves alone.
LEMMA OrderAside ==
  ASSUME NEW o \in Orders, Ledger(o), Rest(o),
         UNCHANGED <<paid[o], balance[o], total[o]>>, o \notin edited' => o \notin edited,
         SumFunctionOnSet(Amounts', LiveOf(o)') = SumFunctionOnSet(Amounts, LiveOf(o))
  PROVE  Ledger(o)' /\ Rest(o)'
<1>1. Ledger(o)'
  BY Zenon DEF Ledger
<1>2. Rest(o)'
  BY DEF Rest
<1> QED BY <1>1, <1>2

LEMMA LedgerNext ==
  ASSUME LastMileInv, LedgerInv, [Next]_vars
  PROVE  LedgerInv'
<1> SUFFICES ASSUME NEW o \in Orders PROVE Ledger(o)' /\ Rest(o)'
  BY DEF LedgerInv
<1> DEFINE sum == SumFunctionOnSet(Amounts, LiveOf(o))
<1>1. MoneyTypeOK /\ Ledger(o) /\ Rest(o)
  BY DEF LastMileInv, DeliveryTypeOK, LedgerInv
<1>2. total[o] \in Nat /\ paid[o] \in Nat /\ balance[o] \in Int
  BY <1>1, PaymentAssumption DEF MoneyTypeOK
<1>3. paid[o] = sum
  BY <1>1 DEF Ledger
<1> HIDE DEF sum
<1>4. CASE RowsAside
  <2>1. SumFunctionOnSet(Amounts', LiveOf(o)') = SumFunctionOnSet(Amounts, LiveOf(o))
    BY <1>1, <1>4, SumsStand DEF RowsAside, Live
  <2>2. UNCHANGED <<paid[o], balance[o], total[o], edited>>
    BY <1>4 DEF RowsAside
  <2> QED BY <1>1, <2>1, <2>2, OrderAside
<1>5. CASE \E x \in Orders, t \in 1..MaxTotal : EditLines(x, t)
  <2>1. PICK x \in Orders, t \in 1..MaxTotal : EditLines(x, t)
    BY <1>5
  <2>2. SumFunctionOnSet(Amounts', LiveOf(o)') = SumFunctionOnSet(Amounts, LiveOf(o))
    BY <1>1, <2>1, SumsStand DEF EditLines, Live
  <2>3. paid'[o] = paid[o] /\ (o \notin edited' => o \notin edited)
    BY <2>1 DEF EditLines
  <2>4. CASE x = o
    <3>1. Ledger(o)'
      BY <1>1, <2>2, <2>3, Zenon DEF Ledger
    <3>2. t \in Nat /\ total'[o] = t /\ balance'[o] = t
      BY <1>1, <2>1, <2>4, PaymentAssumption DEF EditLines, MoneyTypeOK
    <3>3. o \notin edited' => paid[o] = 0
      BY <2>1, <2>4 DEF EditLines
    <3>4. Rest(o)'
      BY <2>3, <3>2, <3>3 DEF Rest
    <3> QED BY <3>1, <3>4
  <2>5. CASE x # o
    <3>1. UNCHANGED <<paid[o], balance[o], total[o]>>
      BY <1>1, <2>1, <2>5 DEF EditLines, MoneyTypeOK
    <3> QED BY <1>1, <2>2, <2>3, <3>1, OrderAside
  <2> QED BY <2>4, <2>5
<1>6. CASE \E x \in Orders : CollectOf(x)
  <2>1. PICK x \in Orders, amount \in Nat, by \in Means, rider \in BOOLEAN :
          Collect(x, amount, by, rider) /\ UNCHANGED <<total, edited>>
    BY <1>6 DEF CollectOf
  <2>2. PICK i \in PayIds : NextPay(i) /\ pay' = [pay EXCEPT ![i] = NewPayment(x, amount, by, rider)]
    BY <2>1 DEF Collect
  <2> DEFINE row == NewPayment(x, amount, by, rider)
  <2>3. row.status = "received" /\ row.amount = amount /\ row.of = x
    BY DEF NewPayment
  <2>4. NextPay(i) /\ pay' = [pay EXCEPT ![i] = row]
    BY <2>2
  <2> HIDE DEF row
  <2>5. SumFunctionOnSet(Amounts', LiveOf(o)') = sum + IF row.of = o THEN row.amount ELSE 0
    BY <1>1, <2>1, <2>3, <2>4, RowAddsUp DEF sum
  <2>6. CASE x = o
    <3>1. /\ paid'[o] = paid[o] + amount /\ balance'[o] = total[o] - (paid[o] + amount)
          /\ total'[o] = total[o] /\ edited' = edited /\ amount <= balance[o]
      BY <1>1, <2>1, <2>6 DEF Collect, MoneyTypeOK
    <3>2. SumFunctionOnSet(Amounts', LiveOf(o)') = sum + amount
      BY <2>3, <2>5, <2>6
    <3>3. Ledger(o)'
      BY <1>3, <3>1, <3>2 DEF Ledger
    <3>4. Rest(o)'
      BY <1>1, <1>2, <2>1, <3>1 DEF Rest
    <3> QED BY <3>3, <3>4
  <2>7. CASE x # o
    <3>1. UNCHANGED <<paid[o], balance[o], total[o], edited>>
      BY <1>1, <2>1, <2>7 DEF Collect, MoneyTypeOK
    <3>2. SumFunctionOnSet(Amounts', LiveOf(o)') = sum
      BY <1>2, <1>3, <2>3, <2>5, <2>7
    <3> QED BY <1>1, <3>1, <3>2, OrderAside DEF sum
  <2> QED BY <2>6, <2>7
<1>7. CASE \E k \in Folios, amount \in Nat, by \in Means : InsertKepler(k, amount, by)
  <2>1. PICK k \in Folios, amount \in Nat, by \in Means : InsertKepler(k, amount, by)
    BY <1>7
  <2>2. PICK i \in PayIds : NextPay(i) /\ pay' = [pay EXCEPT ![i] = NewPayment(k, amount, by, TRUE)]
    BY <2>1 DEF InsertKepler
  <2> DEFINE row == NewPayment(k, amount, by, TRUE)
  <2>3. row.status = "received" /\ row.amount = amount /\ row.of # o
    BY PaymentAssumption DEF NewPayment
  <2>4. NextPay(i) /\ pay' = [pay EXCEPT ![i] = row]
    BY <2>2
  <2> HIDE DEF row
  <2>5. SumFunctionOnSet(Amounts', LiveOf(o)') = sum + IF row.of = o THEN row.amount ELSE 0
    BY <1>1, <2>1, <2>3, <2>4, RowAddsUp DEF sum
  <2>6. SumFunctionOnSet(Amounts', LiveOf(o)') = sum
    BY <1>2, <1>3, <2>3, <2>5
  <2>7. UNCHANGED <<paid[o], balance[o], total[o], edited>>
    BY <2>1 DEF InsertKepler, orderVars
  <2> QED BY <1>1, <2>6, <2>7, OrderAside DEF sum
<1>8. CASE \E i \in PayIds : VerifyTransfer(i)
  <2>1. PICK i \in PayIds : VerifyTransfer(i)
    BY <1>8
  <2>2. \A j \in PayIds : /\ pay'[j].of = pay[j].of /\ pay'[j].amount = pay[j].amount
                          /\ Live(j)' <=> Live(j)
    BY <1>1, <2>1 DEF VerifyTransfer, MoneyTypeOK, Payment, Live
  <2>3. SumFunctionOnSet(Amounts', LiveOf(o)') = SumFunctionOnSet(Amounts, LiveOf(o))
    BY <1>1, <2>2, SumsStand
  <2>4. UNCHANGED <<paid[o], balance[o], total[o], edited>>
    BY <2>1 DEF VerifyTransfer, orderVars
  <2> QED BY <1>1, <2>3, <2>4, OrderAside
<1>9. CASE \E i \in PayIds : ReversePayment(i)
  <2>1. PICK i \in PayIds : ReversePayment(i)
    BY <1>9
  <2>2. Live(i) /\ pay' = [pay EXCEPT ![i].status = "reversed"] /\ UNCHANGED <<total, edited>>
    BY <2>1 DEF ReversePayment
  <2>3. SumFunctionOnSet(Amounts', LiveOf(o)') = sum - IF pay[i].of = o THEN pay[i].amount ELSE 0
    BY <1>1, <2>2, ReversalTakesOut DEF sum
  <2>4. CASE pay[i].of = o
    <3>1. pay[i].amount \in Nat /\ pay[i].amount <= sum
      <4>1. i \in LiveOf(o) /\ LiveOf(o) \in SUBSET PayIds
        BY <2>2, <2>4 DEF LiveOf
      <4> QED BY <1>1, <4>1, LedgerTyped DEF sum
    <3>2. /\ paid'[o] = IF paid[o] - pay[i].amount < 0 THEN 0 ELSE paid[o] - pay[i].amount
          /\ balance'[o] = total[o] - (paid[o] - pay[i].amount)
      BY <1>1, <2>1, <2>4 DEF ReversePayment, MoneyTypeOK
    <3>3. paid'[o] = paid[o] - pay[i].amount
      BY <1>2, <1>3, <3>1, <3>2
    <3>4. SumFunctionOnSet(Amounts', LiveOf(o)') = sum - pay[i].amount
      BY <2>3, <2>4
    <3>5. Ledger(o)'
      BY <1>3, <3>3, <3>4 DEF Ledger
    <3>6. Rest(o)'
      BY <1>1, <1>2, <2>2, <3>1, <3>2, <3>3 DEF Rest
    <3> QED BY <3>5, <3>6
  <2>5. CASE pay[i].of # o
    <3>1. UNCHANGED <<paid[o], balance[o], total[o], edited>>
      BY <1>1, <2>1, <2>5 DEF ReversePayment, MoneyTypeOK
    <3>2. SumFunctionOnSet(Amounts', LiveOf(o)') = sum
      BY <1>2, <1>3, <2>3, <2>5
    <3> QED BY <1>1, <3>1, <3>2, OrderAside DEF sum
  <2> QED BY <2>4, <2>5
<1>10. CASE CloseCut
  <2>1. \A j \in PayIds : /\ pay'[j].of = pay[j].of /\ pay'[j].amount = pay[j].amount
                          /\ Live(j)' <=> Live(j)
    BY <1>1, <1>10 DEF CloseCut, MoneyTypeOK, Payment, Live
  <2>2. SumFunctionOnSet(Amounts', LiveOf(o)') = SumFunctionOnSet(Amounts, LiveOf(o))
    BY <1>1, <2>1, SumsStand
  <2>3. UNCHANGED <<paid[o], balance[o], total[o], edited>>
    BY <1>10 DEF CloseCut, orderVars
  <2> QED BY <1>1, <2>2, <2>3, OrderAside
<1> QED BY <1>4, <1>5, <1>6, <1>7, <1>8, <1>9, <1>10, LedgerSteps

LEMMA LedgerStands == Spec => []LedgerInv
<1>1. LastMileInv /\ LedgerInv /\ [Next]_vars => LedgerInv'
  BY LedgerNext
<1> QED BY LedgerInit, LastMileInvariant, <1>1, PTL DEF Spec

\* insertPayment and the reversal keep paid_amount in step with the rows they
\* write, and no correction at 0 is ever needed: an order says it was paid what
\* its payments that stand add up to.
THEOREM PaidIsTheLedger == Spec => []PaidIsLedger
<1>1. LedgerInv => PaidIsLedger
  BY LedgerIsSums
<1> QED BY LedgerStands, <1>1, PTL

\* While nobody edits an order that was paid, what is left of it is the total
\* less what was paid, and nobody pays too much.
THEOREM BalanceIsTheRest == Spec => []BalanceIsRest
<1>1. LedgerInv => BalanceIsRest
  BY LedgerIsSums
<1> QED BY LedgerStands, <1>1, PTL

-----------------------------------------------------------------------------
(* The cut: what a closing counted, and what it stamped.                    *)

\* What was added up is of the rider, and stays so: rows are never taken back.
CutInv ==
  /\ CutTypeOK
  /\ totals \subseteq OfRider /\ counted \subseteq OfRider
  /\ CountedIsStamped

\* A row once recorded is of the same payment for ever, and keeps its stamp.
RowStands(i) ==
  pay[i].status # "none" =>
    /\ pay'[i].status # "none"
    /\ pay'[i].rider = pay[i].rider /\ pay'[i].method = pay[i].method
    /\ pay'[i].amount = pay[i].amount
    /\ pay[i].cut => pay'[i].cut

LEMMA RowsStand ==
  ASSUME LastMileInv, [Next]_vars, NEW i \in PayIds
  PROVE  RowStands(i)
<1>1. MoneyTypeOK /\ pay[i] \in Payment
  BY DEF LastMileInv, DeliveryTypeOK, MoneyTypeOK
<1>2. ASSUME NEW j \in PayIds, NEW row, NextPay(j), pay' = [pay EXCEPT ![j] = row]
      PROVE  RowStands(i)
  BY <1>1, <1>2 DEF NextPay, RowStands, MoneyTypeOK
<1>3. CASE RowsAside \/ \E o \in Orders, t \in 1..MaxTotal : EditLines(o, t)
  BY <1>3 DEF RowsAside, EditLines, RowStands
<1>4. CASE \E o \in Orders : CollectOf(o)
  <2>1. PICK o \in Orders, amount \in Nat, by \in Means, rider \in BOOLEAN :
          Collect(o, amount, by, rider)
    BY <1>4 DEF CollectOf
  <2> QED BY <1>2, <2>1 DEF Collect
<1>5. CASE \E k \in Folios, amount \in Nat, by \in Means : InsertKepler(k, amount, by)
  <2>1. PICK k \in Folios, amount \in Nat, by \in Means : InsertKepler(k, amount, by)
    BY <1>5
  <2> QED BY <1>2, <2>1 DEF InsertKepler
<1>6. CASE \E j \in PayIds : VerifyTransfer(j) \/ ReversePayment(j)
  <2>1. PICK j \in PayIds : VerifyTransfer(j) \/ ReversePayment(j)
    BY <1>6
  <2>2. PICK s \in {"verified", "reversed"} : pay' = [pay EXCEPT ![j].status = s]
    BY <2>1 DEF VerifyTransfer, ReversePayment
  <2> QED BY <1>1, <2>2 DEF MoneyTypeOK, Payment, RowStands
<1>7. CASE CloseCut
  BY <1>1, <1>7 DEF CloseCut, MoneyTypeOK, Payment, RowStands
<1> QED BY <1>3, <1>4, <1>5, <1>6, <1>7, LedgerSteps

\* The cash of rows that stand.
LEMMA CashStands ==
  ASSUME MoneyTypeOK, NEW S \in SUBSET OfRider, \A i \in PayIds : RowStands(i)
  PROVE  /\ S \subseteq OfRider'
         /\ SumFunctionOnSet(Amounts', {i \in S : pay'[i].method = "cash"}) = Cash(S)
         /\ Cash(S) \in Nat
<1>1. \A i \in S : /\ i \in PayIds /\ pay[i].status # "none" /\ pay[i].rider
  BY DEF OfRider
<1>2. \A i \in S : /\ pay'[i].status # "none" /\ pay'[i].rider
                   /\ pay'[i].method = pay[i].method /\ pay'[i].amount = pay[i].amount
  BY <1>1 DEF RowStands
<1>3. S \subseteq OfRider'
  BY <1>1, <1>2 DEF OfRider, PayIds
<1> DEFINE C == {i \in S : pay[i].method = "cash"}
<1>4. {i \in S : pay'[i].method = "cash"} = C
  BY <1>2
<1>5. C \in SUBSET PayIds /\ \A i \in C : pay'[i].amount = pay[i].amount
  BY <1>1, <1>2
<1>6. Cash(S) = SumFunctionOnSet(Amounts, C)
  BY DEF Cash
<1> HIDE DEF C
<1>7. SumFunctionOnSet(Amounts', C) = SumFunctionOnSet(Amounts, C) /\ SumFunctionOnSet(Amounts, C) \in Nat
  BY <1>5, LedgerTyped, SameRowsSameSum
<1>8. SumFunctionOnSet(Amounts', {i \in S : pay'[i].method = "cash"}) = Cash(S)
  BY <1>4, <1>6, <1>7, Zenon
<1> QED BY <1>3, <1>6, <1>7, <1>8

LEMMA CutStarts ==
  Init => CutInv
<1> SUFFICES ASSUME Init PROVE CutInv
  OBVIOUS
<1>1. cut = "none" /\ expected = 0 /\ totals = {} /\ closing = FALSE /\ counted = {}
  BY DEF Init, CutInit
<1>2. SumFunctionOnSet(Amounts, {}) = 0
  BY FS_EmptySet, SumType
<1>3. Cash(counted) = SumFunctionOnSet(Amounts, {})
  <2>1. {i \in counted : pay[i].method = "cash"} = {}
    BY <1>1
  <2> QED BY <2>1, Zenon DEF Cash
<1> QED BY <1>1, <1>2, <1>3 DEF CutInv, CutTypeOK, CountedIsStamped

\* A step that does not count anew.
LEMMA CountedAside ==
  ASSUME MoneyTypeOK, CutInv, \A i \in PayIds : RowStands(i),
         UNCHANGED <<expected, counted>>
  PROVE  counted' \subseteq OfRider' /\ CountedIsStamped'
<1>1. counted \in SUBSET OfRider /\ counted \in SUBSET PayIds
  BY DEF CutInv, CutTypeOK
<1>2. \A i \in counted : pay'[i].cut
  BY <1>1 DEF CutInv, CountedIsStamped, OfRider, RowStands
<1>3. counted \subseteq OfRider' /\ Cash(counted)' = Cash(counted)
  <2>1. Cash(counted)' = SumFunctionOnSet(Amounts', {i \in counted : pay'[i].method = "cash"})
    BY Zenon DEF Cash
  <2> QED BY <1>1, <2>1, CashStands
<1>4. expected' = Cash(counted)'
  BY <1>3 DEF CutInv, CountedIsStamped
<1> QED BY <1>2, <1>3, <1>4 DEF CountedIsStamped

LEMMA CutNextKeeps ==
  ASSUME LastMileInv, CutInv, [Next]_vars
  PROVE  CutInv'
<1>1. MoneyTypeOK /\ \A i \in PayIds : RowStands(i)
  BY RowsStand DEF LastMileInv, DeliveryTypeOK
<1>2. totals \in SUBSET OfRider /\ totals \in SUBSET PayIds
  BY DEF CutInv, CutTypeOK
<1>3. totals \subseteq OfRider' /\ Cash(totals) \in Nat
  BY <1>1, <1>2, CashStands
<1>4. CASE UNCHANGED cutVars
  <2>1. CutTypeOK' /\ totals' \subseteq OfRider'
    BY <1>3, <1>4 DEF CutInv, CutTypeOK, cutVars, PayIds
  <2>2. UNCHANGED <<expected, counted>>
    BY <1>4 DEF cutVars
  <2> QED BY <1>1, <2>1, <2>2, CountedAside DEF CutInv
<1>5. CASE OpenCut \/ ComputeTotals \/ AbortClose \/ Reconcile
  <2>1. UNCHANGED <<expected, counted>>
    BY <1>5 DEF OpenCut, ComputeTotals, AbortClose, Reconcile
  <2>2. CutTypeOK'
    BY <1>5 DEF OpenCut, ComputeTotals, AbortClose, Reconcile, CutInv, CutTypeOK, PayIds, OfRider
  <2>3. totals' \subseteq OfRider'
    <3>1. CASE OpenCut \/ AbortClose \/ Reconcile
      BY <1>3, <3>1 DEF OpenCut, AbortClose, Reconcile
    <3>2. CASE ComputeTotals
      BY <3>2 DEF ComputeTotals, OfRider, moneyVars
    <3> QED BY <1>5, <3>1, <3>2
  <2> QED BY <1>1, <2>1, <2>2, <2>3, CountedAside DEF CutInv
<1>6. CASE CloseCut
  <2>1. /\ cut' = "closed" /\ closing' = FALSE /\ totals' = {}
        /\ counted' = totals /\ expected' = Cash(totals)
    BY <1>6 DEF CloseCut
  <2>2. CutTypeOK'
    BY <1>2, <1>3, <2>1 DEF CutTypeOK, PayIds
  <2>3. \A i \in totals : pay'[i].cut
    BY <1>1, <1>2, <1>6 DEF CloseCut, MoneyTypeOK, Payment
  <2>4. Cash(counted)' = Cash(totals)
    <3>1. Cash(counted)' = SumFunctionOnSet(Amounts', {i \in totals : pay'[i].method = "cash"})
      BY <2>1, Zenon DEF Cash
    <3> QED BY <1>1, <1>2, <3>1, CashStands
  <2> QED BY <1>3, <2>1, <2>2, <2>3, <2>4 DEF CutInv, CountedIsStamped
<1>7. UNCHANGED cutVars \/ OpenCut \/ ComputeTotals \/ AbortClose \/ Reconcile \/ CloseCut
  BY DEF Next, CutNext, vars
<1> QED BY <1>4, <1>5, <1>6, <1>7

LEMMA CutStands == Spec => []CutInv
<1>1. LastMileInv /\ CutInv /\ [Next]_vars => CutInv'
  BY CutNextKeeps
<1> QED BY CutStarts, LastMileInvariant, <1>1, PTL DEF Spec

\* A closing adds up before it stamps, and payments are reversed and recorded in
\* between: what it counted carries its stamp all the same, and is what the
\* rider is held to have.
THEOREM WhatIsCountedIsStamped == Spec => []CountedIsStamped
<1>1. CutInv => CountedIsStamped
  BY DEF CutInv
<1> QED BY CutStands, <1>1, PTL

\* Types of the whole last mile, the cut included: what a rider is held to have
\* is never negative.
THEOREM LastMileTyped == Spec => []LastMileTypeOK
<1>1. CutInv => CutTypeOK
  BY DEF CutInv
<1>2. DeliveryTypeOK /\ CutTypeOK => LastMileTypeOK
  BY DEF LastMileTypeOK
<1> QED BY CutStands, LastMileTypeCorrect, <1>1, <1>2, PTL
=============================================================================
