--------------------------- MODULE SalesFloorProofs ---------------------------
(***************************************************************************)
(* The safety of the warehouse for any number of products, orders,         *)
(* apartados and instances of the API, and for any bounds.                 *)
(*                                                                         *)
(* The conjunction of the invariants is inductive, and none of them is by  *)
(* itself: a reserve is bounded by the lines because a draft has nothing   *)
(* in its name, and a delivery is recorded once because only an open order *)
(* delivers.  Each component keeps its part under its own steps, and the   *)
(* part of another because a step touches the account of its own holder    *)
(* only.                                                                   *)
(*                                                                         *)
(* On top of them: the books of units and of reserves, for everybody; and  *)
(* where every order reserves and nobody competes with a release, the      *)
(* counter as the sum of the accounts and the promise it implements.       *)
(***************************************************************************)
EXTENDS SalesFloor, SumLemmas

-----------------------------------------------------------------------------
(* What each stock primitive preserves, for any warehouse, holder and need.  *)
(* The proofs of the components cite these facts and never look inside a     *)
(* primitive again.                                                          *)

\* Stock rows and accounts stay well formed and inside the CHECKs of the table.
Rows == stock \in [Products -> StockRow] /\ held \in [Holders -> Need] /\ StockSound

\* The lesser of two amounts is an amount, and neither is below it.
LEMMA LesserFacts ==
  ASSUME NEW a \in Nat, NEW b \in Nat
  PROVE  /\ Lesser(a, b) \in Nat
         /\ Lesser(a, b) <= a
         /\ Lesser(a, b) <= b
         /\ Lesser(a, b) = a \/ Lesser(a, b) = b
BY DEF Lesser

\* A need for one line is a need.
LEMMA JustUnitsIsNeed ==
  ASSUME NEW p \in Products, NEW n \in Nat
  PROVE  /\ JustUnits(p, n) \in Need
         /\ JustUnits(p, n)[p] = n
         /\ \A q \in Products \ {p} : JustUnits(p, n)[q] = 0
BY DEF JustUnits, Need

\* reserve keeps the rows sound and adds to its holder's account only.
LEMMA ReserveKeepsRows ==
  ASSUME Rows, NEW h \in Holders, NEW need \in Need, Reserve(h, need)
  PROVE  /\ Rows'
         /\ \A g \in Holders \ {h} : held'[g] = held[g]
         /\ \A p \in Products : held'[h][p] = held[h][p] + need[p]
<1>1. stock' \in [Products -> StockRow]
  BY DEF Rows, Reserve, StockRow, Need
<1>2. \A p \in Products : held[h][p] + need[p] \in Nat
  BY DEF Rows, Need
<1>3. [p \in Products |-> held[h][p] + need[p]] \in Need
  BY <1>2 DEF Need
<1>4. held' = [held EXCEPT ![h] = [p \in Products |-> held[h][p] + need[p]]]
  BY DEF Reserve
<1>5. held' \in [Holders -> Need]
  BY <1>3, <1>4 DEF Rows
<1>6. StockSound'
  BY DEF Rows, Reserve, MayReserve, Available, StockSound, StockRow, Need
<1>7. \A g \in Holders \ {h} : held'[g] = held[g]
  BY <1>4 DEF Rows
<1>8. \A p \in Products : held'[h][p] = held[h][p] + need[p]
  BY <1>4 DEF Rows
<1> QED BY <1>1, <1>5, <1>6, <1>7, <1>8 DEF Rows

\* What a holder keeps is an account, never more than it had.
LEMMA KeptAfterIsNeed ==
  ASSUME Rows, NEW h \in Holders, NEW need \in Need
  PROVE  /\ KeptAfter(h, need) \in Need
         /\ \A p \in Products :
              KeptAfter(h, need)[p] = IF held[h][p] < need[p] THEN 0 ELSE held[h][p] - need[p]
BY DEF Rows, KeptAfter, Need, Lesser

\* The account of the one holder that gives back.
LEMMA AccountAfter ==
  ASSUME Rows, NEW h \in Holders, NEW need \in Need,
         held' = [held EXCEPT ![h] = KeptAfter(h, need)]
  PROVE  /\ held' \in [Holders -> Need]
         /\ \A g \in Holders \ {h} : held'[g] = held[g]
         /\ \A p \in Products :
              held'[h][p] = IF held[h][p] < need[p] THEN 0 ELSE held[h][p] - need[p]
BY KeptAfterIsNeed DEF Rows

\* release keeps the rows sound, whoever it takes the units from.
LEMMA GiveBackKeepsRows ==
  ASSUME Rows, NEW h \in Holders, NEW need \in Need, GiveBack(h, need)
  PROVE  /\ Rows'
         /\ \A g \in Holders \ {h} : held'[g] = held[g]
         /\ \A p \in Products :
              held'[h][p] = IF held[h][p] < need[p] THEN 0 ELSE held[h][p] - need[p]
<1>1. \A p \in Products :
        /\ stock[p].reserved \in Nat
        /\ stock[p].quantity \in Nat
        /\ need[p] \in Nat
        /\ stock[p].quantity >= stock[p].reserved
  BY DEF Rows, StockRow, Need, StockSound
<1>2. \A p \in Products : stock[p].reserved - ReleaseQty(p, need[p]) \in 0..stock[p].reserved
  <2>1. TAKE p \in Products
  <2>2. ReleaseQty(p, need[p]) \in 0..stock[p].reserved
    BY <1>1, LesserFacts DEF ReleaseQty
  <2> QED BY <1>1, <2>2
<1>3. stock' = [p \in Products |->
                 [quantity |-> stock[p].quantity,
                  reserved |-> stock[p].reserved - ReleaseQty(p, need[p])]]
  BY DEF GiveBack
<1>4. stock' \in [Products -> StockRow]
  BY <1>1, <1>2, <1>3 DEF StockRow
<1>5. StockSound'
  BY <1>1, <1>2, <1>3 DEF StockSound
<1>6. held' = [held EXCEPT ![h] = KeptAfter(h, need)]
  BY DEF GiveBack
<1> QED BY <1>4, <1>5, <1>6, AccountAfter DEF Rows

\* consume keeps the rows sound even when it takes units nobody reserved.
LEMMA ConsumeKeepsRows ==
  ASSUME Rows, NEW h \in Holders, NEW need \in Need, Consume(h, need)
  PROVE  /\ Rows'
         /\ \A g \in Holders \ {h} : held'[g] = held[g]
         /\ \A p \in Products :
              held'[h][p] = IF held[h][p] < need[p] THEN 0 ELSE held[h][p] - need[p]
<1>1. \A p \in Products :
        /\ stock[p].reserved \in Nat
        /\ stock[p].quantity \in Nat
        /\ need[p] \in Nat
        /\ stock[p].quantity >= stock[p].reserved
  BY DEF Rows, StockRow, Need, StockSound
<1>2. \A p \in Products : need[p] <= stock[p].quantity
  BY <1>1 DEF Consume
<1>3. \A p \in Products :
        /\ stock[p].reserved - ReleaseQty(p, need[p]) \in Nat
        /\ stock[p].quantity - need[p] \in Nat
        /\ stock[p].quantity - need[p] >= stock[p].reserved - ReleaseQty(p, need[p])
  <2>1. TAKE p \in Products
  <2>2. ReleaseQty(p, need[p]) \in {stock[p].reserved, need[p]}
    BY <1>1, LesserFacts DEF ReleaseQty
  <2>3. ReleaseQty(p, need[p]) <= stock[p].reserved
    BY <1>1, LesserFacts DEF ReleaseQty
  <2> QED BY <1>1, <1>2, <2>2, <2>3
<1>4. stock' = [p \in Products |->
                 [quantity |-> stock[p].quantity - need[p],
                  reserved |-> stock[p].reserved - ReleaseQty(p, need[p])]]
  BY DEF Consume
<1>5. stock' \in [Products -> StockRow]
  BY <1>3, <1>4 DEF StockRow
<1>6. StockSound'
  BY <1>3, <1>4 DEF StockSound
<1>7. held' = [held EXCEPT ![h] = KeptAfter(h, need)]
  BY DEF Consume
<1> QED BY <1>5, <1>6, <1>7, AccountAfter DEF Rows

\* A delivery on the spot takes only units that were free.
LEMMA ReserveAndConsumeKeepsRows ==
  ASSUME Rows, NEW need \in Need, ReserveAndConsume(need)
  PROVE  Rows' /\ held' = held
<1>1. \A p \in Products :
        /\ stock[p].reserved \in Nat
        /\ stock[p].quantity \in Nat
        /\ need[p] \in Nat
        /\ stock[p].quantity >= stock[p].reserved
  BY DEF Rows, StockRow, Need, StockSound
<1>2. \A p \in Products : stock[p].quantity - need[p] >= stock[p].reserved
  BY <1>1 DEF ReserveAndConsume, MayReserve, Available
<1>3. stock' = [p \in Products |->
                 [quantity |-> stock[p].quantity - need[p],
                  reserved |-> stock[p].reserved]]
  BY DEF ReserveAndConsume
<1>4. stock' \in [Products -> StockRow]
  BY <1>1, <1>2, <1>3 DEF StockRow
<1>5. StockSound'
  BY <1>1, <1>2, <1>3 DEF StockSound
<1>6. held' = held
  BY DEF ReserveAndConsume
<1> QED BY <1>4, <1>5, <1>6 DEF Rows

-----------------------------------------------------------------------------
(* The invariant. *)

\* What must be true of one order.
OrderSound(o) ==
  /\ sold[o] = IF status[o] = "fulfilled" THEN line[o] ELSE NoLines
  /\ \A p \in Products : line[o][p] <= requested[o][p]
  /\ \A p \in Products : held[o][p] <= IF Active(o) THEN line[o][p] ELSE 0

OrdersInv == OrdersTypeOK /\ \A o \in Orders : OrderSound(o)
HoldsInv == ReservationTypeOK /\ HoldKeepsItsUnits

IInv == Rows /\ frozen \in BOOLEAN /\ OrdersInv /\ HoldsInv /\ InventoryTypeOK

-----------------------------------------------------------------------------
(* Facts about the operators of CommercialOrders. *)

\* Setting the units of one line leaves the others alone.
LEMMA SetUnitsFacts ==
  ASSUME NEW f \in [Orders -> Need], NEW o \in Orders, NEW p \in Products, NEW n \in Nat
  PROVE  /\ SetUnits(f, o, p, n) \in [Orders -> Need]
         /\ SetUnits(f, o, p, n)[o][p] = n
         /\ \A q \in Products \ {p} : SetUnits(f, o, p, n)[o][q] = f[o][q]
         /\ \A x \in Orders \ {o} : SetUnits(f, o, p, n)[x] = f[x]
<1>1. [f[o] EXCEPT ![p] = n] \in Need
  BY DEF Need
<1> QED BY <1>1 DEF SetUnits, Need

\* Setting a line and what was asked for to the same amount keeps the line
\* within it.
LEMMA SetBoth ==
  ASSUME OrdersInv, NEW o \in Orders, NEW p \in Products, NEW n \in Nat,
         line' = SetUnits(line, o, p, n), requested' = SetUnits(requested, o, p, n)
  PROVE  /\ line' \in [Orders -> Need] /\ requested' \in [Orders -> Need]
         /\ line'[o][p] = n
         /\ \A q \in Products \ {p} : line'[o][q] = line[o][q]
         /\ \A q \in Products : line'[o][q] <= requested'[o][q]
         /\ \A x \in Orders \ {o} : line'[x] = line[x] /\ requested'[x] = requested[x]
<1>1. line \in [Orders -> Need] /\ requested \in [Orders -> Need]
  BY DEF OrdersInv, OrdersTypeOK
<1>2. /\ line' \in [Orders -> Need] /\ requested' \in [Orders -> Need]
      /\ line'[o][p] = n /\ requested'[o][p] = n
      /\ \A q \in Products \ {p} : line'[o][q] = line[o][q] /\ requested'[o][q] = requested[o][q]
      /\ \A x \in Orders \ {o} : line'[x] = line[x] /\ requested'[x] = requested[x]
  BY <1>1, SetUnitsFacts
<1>3. \A q \in Products : line[o][q] <= requested[o][q]
  BY DEF OrdersInv, OrderSound
<1>4. \A q \in Products : line'[o][q] <= requested'[o][q]
  BY <1>2, <1>3
<1> QED BY <1>2, <1>4

\* What another holder's step cannot disturb: an order it does not mention.
LEMMA OtherOrder ==
  ASSUME NEW x \in Orders, OrderSound(x),
         status'[x] = status[x], line'[x] = line[x], requested'[x] = requested[x],
         sold'[x] = sold[x], held'[x] = held[x]
  PROVE  OrderSound(x)'
BY DEF OrderSound, Active

\* ... and the apartados, when no account of theirs moves.
LEMMA OtherHolds ==
  ASSUME HoldsInv, UNCHANGED holdVars, \A r \in Reservations : held'[r] = held[r]
  PROVE  HoldsInv'
BY DEF HoldsInv, ReservationTypeOK, HoldKeepsItsUnits, holdVars

-----------------------------------------------------------------------------
(* The steps of the orders. *)

\* The steps of the cart that leave the stock alone.
LEMMA DraftEdits ==
  ASSUME Rows, OrdersInv, NEW o \in Orders,
         \/ \E d \in Dates(o) : CreateDraft(o, d)
         \/ \E p \in Products, n \in 1..MaxLine : AddLine(o, p, n)
         \/ \E need \in [Products -> 0..MaxLine] : ReplaceLines(o, need)
         \/ \E p \in Products, n \in 1..MaxLine : UpdateDraftLine(o, p, n)
  PROVE  OrdersInv' /\ UNCHANGED stockVars
<1> USE OrdersAssumption
<1>1. CASE \E d \in Dates(o) : CreateDraft(o, d)
  <2>1. PICK d \in Dates(o) : CreateDraft(o, d)
    BY <1>1
  <2>2. d \in BOOLEAN
    BY DEF Dates
  <2>3. OrdersTypeOK'
    BY <2>1, <2>2 DEF CreateDraft, SetStatus, OrdersInv, OrdersTypeOK, Statuses
  <2>4. OrderSound(o)'
    BY <2>1 DEF CreateDraft, SetStatus, OrdersInv, OrdersTypeOK, OrderSound, Active, stockVars
  <2>5. \A x \in Orders \ {o} : OrderSound(x)'
    BY <2>1, OtherOrder DEF CreateDraft, SetStatus, OrdersInv, OrdersTypeOK, stockVars
  <2> QED BY <2>1, <2>3, <2>4, <2>5 DEF OrdersInv, CreateDraft
<1>2. CASE \E p \in Products, n \in 1..MaxLine : AddLine(o, p, n)
  <2>1. PICK p \in Products, n \in 1..MaxLine : AddLine(o, p, n)
    BY <1>2
  <2> DEFINE m == line[o][p] + n
  <2>2. m \in Nat
    BY DEF OrdersInv, OrdersTypeOK, Need
  <2>3. line' = SetUnits(line, o, p, m) /\ requested' = SetUnits(requested, o, p, m)
    BY <2>1 DEF AddLine
  <2> HIDE DEF m
  <2>4. OrdersTypeOK'
    BY <2>1, <2>2, <2>3, SetBoth DEF AddLine, OrdersInv, OrdersTypeOK
  <2>5. \A q \in Products : line'[o][q] <= requested'[o][q]
    BY <2>2, <2>3, SetBoth
  <2>6. OrderSound(o)'
    BY <2>1, <2>5 DEF AddLine, OrdersInv, OrdersTypeOK, OrderSound, Active, stockVars
  <2>7. \A x \in Orders \ {o} : line'[x] = line[x] /\ requested'[x] = requested[x]
    BY <2>2, <2>3, SetBoth
  <2>8. \A x \in Orders \ {o} : OrderSound(x)'
    BY <2>1, <2>7, OtherOrder DEF AddLine, OrdersInv, stockVars
  <2> QED BY <2>1, <2>4, <2>6, <2>8 DEF OrdersInv, AddLine
<1>3. CASE \E need \in [Products -> 0..MaxLine] : ReplaceLines(o, need)
  <2>1. PICK need \in [Products -> 0..MaxLine] : ReplaceLines(o, need)
    BY <1>3
  <2>2. need \in Need
    BY DEF Need
  <2>3. OrdersTypeOK'
    BY <2>1, <2>2 DEF ReplaceLines, OrdersInv, OrdersTypeOK
  <2>4. OrderSound(o)'
    <3>1. line'[o] = need /\ requested'[o] = need
      BY <2>1 DEF ReplaceLines, OrdersInv, OrdersTypeOK
    <3>2. \A q \in Products : line'[o][q] <= requested'[o][q]
      BY <2>2, <3>1 DEF Need
    <3> QED BY <2>1, <3>2 DEF ReplaceLines, OrdersInv, OrdersTypeOK, OrderSound, Active, stockVars
  <2>5. \A x \in Orders \ {o} : OrderSound(x)'
    BY <2>1, OtherOrder DEF ReplaceLines, OrdersInv, OrdersTypeOK, stockVars
  <2> QED BY <2>1, <2>3, <2>4, <2>5 DEF OrdersInv, ReplaceLines
<1>4. CASE \E p \in Products, n \in 1..MaxLine : UpdateDraftLine(o, p, n)
  <2>1. PICK p \in Products, n \in 1..MaxLine : UpdateDraftLine(o, p, n)
    BY <1>4
  <2>2. n \in Nat
    OBVIOUS
  <2>3. line' = SetUnits(line, o, p, n) /\ requested' = SetUnits(requested, o, p, n)
    BY <2>1 DEF UpdateDraftLine
  <2>4. OrdersTypeOK'
    BY <2>1, <2>2, <2>3, SetBoth DEF UpdateDraftLine, OrdersInv, OrdersTypeOK
  <2>5. \A q \in Products : line'[o][q] <= requested'[o][q]
    BY <2>2, <2>3, SetBoth
  <2>6. OrderSound(o)'
    BY <2>1, <2>5 DEF UpdateDraftLine, OrdersInv, OrdersTypeOK, OrderSound, Active, stockVars
  <2>7. \A x \in Orders \ {o} : line'[x] = line[x] /\ requested'[x] = requested[x]
    BY <2>2, <2>3, SetBoth
  <2>8. \A x \in Orders \ {o} : OrderSound(x)'
    BY <2>1, <2>7, OtherOrder DEF UpdateDraftLine, OrdersInv, stockVars
  <2> QED BY <2>1, <2>4, <2>6, <2>8 DEF OrdersInv, UpdateDraftLine
<1> QED BY <1>1, <1>2, <1>3, <1>4

\* Nobody's account moves but the holder's.
Only(h) == \A g \in Holders \ {h} : held'[g] = held[g]

\* The seller's edits under review: the reserve follows the line.
LEMMA ReviewEdits ==
  ASSUME Rows, OrdersInv, NEW o \in Orders,
         \/ \E p \in Products, n \in 1..MaxLine : UpdatePendingLine(o, p, n)
         \/ \E p \in Products : RemoveLine(o, p)
  PROVE  OrdersInv' /\ Rows' /\ Only(o)
<1> USE OrdersAssumption
<1>0. o \in Holders
  OBVIOUS
<1>1. CASE \E p \in Products, n \in 1..MaxLine : UpdatePendingLine(o, p, n)
  <2>1. PICK p \in Products, n \in 1..MaxLine : UpdatePendingLine(o, p, n)
    BY <1>1
  <2>2. /\ n \in Nat /\ line[o][p] \in Nat
        /\ line \in [Orders -> Need] /\ held[o] \in Need
    BY <1>0 DEF OrdersInv, OrdersTypeOK, Need, Rows
  <2>3. /\ line' \in [Orders -> Need]
        /\ line'[o][p] = n
        /\ \A q \in Products \ {p} : line'[o][q] = line[o][q]
        /\ \A x \in Orders \ {o} : line'[x] = line[x]
    BY <2>1, <2>2, SetUnitsFacts DEF UpdatePendingLine
  <2>4. \A q \in Products : line[o][q] <= requested[o][q] /\ held[o][q] <= line[o][q]
    BY <2>1 DEF UpdatePendingLine, OrdersInv, OrderSound, Active
  <2>5. Rows' /\ Only(o) /\ \A q \in Products : held'[o][q] <= line'[o][q]
    <3>1. CASE n > line[o][p] /\ Reserve(o, JustUnits(p, n - line[o][p]))
      <4>1. n - line[o][p] \in Nat
        BY <2>2, <3>1
      <4>2. /\ JustUnits(p, n - line[o][p]) \in Need
            /\ JustUnits(p, n - line[o][p])[p] = n - line[o][p]
            /\ \A q \in Products \ {p} : JustUnits(p, n - line[o][p])[q] = 0
        BY <4>1, JustUnitsIsNeed
      <4>3. /\ Rows' /\ Only(o)
            /\ \A q \in Products : held'[o][q] = held[o][q] + JustUnits(p, n - line[o][p])[q]
        BY <1>0, <3>1, <4>2, ReserveKeepsRows DEF Only
      <4> QED BY <2>2, <2>3, <2>4, <4>2, <4>3 DEF Need
    <3>2. CASE n < line[o][p] /\ Release(o, JustUnits(p, line[o][p] - n))
      <4>1. line[o][p] - n \in Nat
        BY <2>2, <3>2
      <4>2. /\ JustUnits(p, line[o][p] - n) \in Need
            /\ JustUnits(p, line[o][p] - n)[p] = line[o][p] - n
            /\ \A q \in Products \ {p} : JustUnits(p, line[o][p] - n)[q] = 0
        BY <4>1, JustUnitsIsNeed
      <4>3. /\ Rows' /\ Only(o)
            /\ \A q \in Products :
                 held'[o][q] = IF held[o][q] < JustUnits(p, line[o][p] - n)[q] THEN 0
                               ELSE held[o][q] - JustUnits(p, line[o][p] - n)[q]
        BY <1>0, <3>2, <4>2, GiveBackKeepsRows DEF Only, Release
      <4> QED BY <2>2, <2>3, <2>4, <4>2, <4>3 DEF Need
    <3> QED BY <2>1, <3>1, <3>2 DEF UpdatePendingLine
  <2>6. OrdersTypeOK'
    BY <2>1, <2>3 DEF UpdatePendingLine, OrdersInv, OrdersTypeOK
  <2>7. \A q \in Products : line'[o][q] <= requested'[o][q]
    BY <2>1, <2>3, <2>4 DEF UpdatePendingLine
  <2>8. OrderSound(o)'
    BY <2>1, <2>5, <2>7 DEF UpdatePendingLine, OrdersInv, OrderSound, Active
  <2>9. \A x \in Orders \ {o} : OrderSound(x)'
    BY <2>1, <2>3, <2>5, OtherOrder DEF UpdatePendingLine, OrdersInv, Only
  <2> QED BY <2>5, <2>6, <2>8, <2>9 DEF OrdersInv
<1>2. CASE \E p \in Products : RemoveLine(o, p)
  <2>1. PICK p \in Products : RemoveLine(o, p)
    BY <1>2
  <2>2. line[o] \in Need /\ line[o][p] \in Nat /\ held[o] \in Need
    BY <1>0 DEF OrdersInv, OrdersTypeOK, Need, Rows
  <2>3. line' = SetUnits(line, o, p, 0) /\ requested' = SetUnits(requested, o, p, 0)
    BY <2>1 DEF RemoveLine
  <2>4. /\ line'[o][p] = 0
        /\ \A q \in Products \ {p} : line'[o][q] = line[o][q]
        /\ \A q \in Products : line'[o][q] <= requested'[o][q]
        /\ \A x \in Orders \ {o} : line'[x] = line[x] /\ requested'[x] = requested[x]
    BY <2>3, SetBoth
  <2>5. OrdersTypeOK'
    BY <2>1, <2>3, SetBoth DEF RemoveLine, OrdersInv, OrdersTypeOK
  <2>6. /\ Rows' /\ Only(o)
        /\ \A q \in Products : held'[o][q] <= IF Active(o) THEN line'[o][q] ELSE 0
    <3>1. \A q \in Products : held[o][q] <= IF Active(o) THEN line[o][q] ELSE 0
      BY DEF OrdersInv, OrderSound
    <3>2. CASE status[o] = "draft" /\ UNCHANGED stockVars
      BY <3>1, <3>2 DEF Rows, StockSound, Only, Active, stockVars
    <3>3. CASE status[o] = "pending_approval" /\ Release(o, JustUnits(p, line[o][p]))
      <4>1. /\ JustUnits(p, line[o][p]) \in Need
            /\ JustUnits(p, line[o][p])[p] = line[o][p]
            /\ \A q \in Products \ {p} : JustUnits(p, line[o][p])[q] = 0
        BY <2>2, JustUnitsIsNeed
      <4>2. /\ Rows' /\ Only(o)
            /\ \A q \in Products :
                 held'[o][q] = IF held[o][q] < JustUnits(p, line[o][p])[q] THEN 0
                               ELSE held[o][q] - JustUnits(p, line[o][p])[q]
        BY <1>0, <3>3, <4>1, GiveBackKeepsRows DEF Only, Release
      <4>3. \A q \in Products : held[o][q] <= line[o][q]
        BY <3>1, <3>3 DEF Active
      <4>4. \A q \in Products : held'[o][q] <= line'[o][q]
        BY <2>2, <2>4, <4>1, <4>2, <4>3 DEF Need
      <4> QED BY <3>3, <4>2, <4>4 DEF Active
    <3> QED BY <2>1, <3>2, <3>3 DEF RemoveLine
  <2>7. OrderSound(o)'
    BY <2>1, <2>4, <2>6 DEF RemoveLine, OrdersInv, OrderSound, Active
  <2>8. \A x \in Orders \ {o} : OrderSound(x)'
    BY <2>1, <2>4, <2>6, OtherOrder DEF RemoveLine, OrdersInv, Only
  <2> QED BY <2>5, <2>6, <2>7, <2>8 DEF OrdersInv
<1> QED BY <1>1, <1>2

\* confirm, approve and place: what was free is reserved, or nothing moves.
LEMMA Acceptances ==
  ASSUME Rows, OrdersInv, NEW o \in Orders,
         \/ Confirm(o)
         \/ Approve(o)
         \/ \E d \in Dates(o) : PlaceDraft(o, d)
         \/ PlacePending(o)
  PROVE  OrdersInv' /\ Rows' /\ Only(o)
<1> USE OrdersAssumption
<1>1. o \in Holders /\ line[o] \in Need /\ held[o] \in Need
  BY DEF OrdersInv, OrdersTypeOK, Rows
<1>2. \A q \in Products : held[o][q] <= IF Active(o) THEN line[o][q] ELSE 0
  BY DEF OrdersInv, OrderSound
<1>3. ASSUME NEW isPreventa \in BOOLEAN, status[o] = "draft", ReserveUnlessPreventa(o, isPreventa)
      PROVE  Rows' /\ Only(o) /\ \A q \in Products : held'[o][q] <= line[o][q]
  <2>1. \A q \in Products : held[o][q] <= 0
    BY <1>2, <1>3 DEF Active
  <2>2. CASE isPreventa /\ UNCHANGED stockVars
    BY <1>1, <2>1, <2>2 DEF Rows, StockSound, Only, stockVars, Need
  <2>3. CASE Reserve(o, line[o])
    <3>1. /\ Rows' /\ Only(o)
          /\ \A q \in Products : held'[o][q] = held[o][q] + line[o][q]
      BY <1>1, <2>3, ReserveKeepsRows DEF Only
    <3> QED BY <1>1, <2>1, <3>1 DEF Need
  <2> QED BY <1>3, <2>2, <2>3 DEF ReserveUnlessPreventa
<1>4. CASE Confirm(o)
  <2>1. Rows' /\ Only(o) /\ \A q \in Products : held'[o][q] <= line[o][q]
    <3>1. dated[o] \in BOOLEAN
      BY DEF OrdersInv, OrdersTypeOK
    <3> QED BY <1>3, <1>4, <3>1 DEF Confirm
  <2>2. OrdersTypeOK'
    BY <1>4 DEF Confirm, SetStatus, OrdersInv, OrdersTypeOK, Statuses
  <2>3. OrderSound(o)'
    BY <1>4, <2>1 DEF Confirm, SetStatus, OrdersInv, OrdersTypeOK, OrderSound, Active
  <2>4. \A x \in Orders \ {o} : OrderSound(x)'
    BY <1>4, <2>1, OtherOrder DEF Confirm, SetStatus, OrdersInv, OrdersTypeOK, Only
  <2> QED BY <2>1, <2>2, <2>3, <2>4 DEF OrdersInv
<1>5. CASE Approve(o)
  <2>1. Rows' /\ Only(o) /\ held' = held
    BY <1>5 DEF Approve, Rows, StockSound, Only, stockVars
  <2>2. OrdersTypeOK'
    BY <1>5 DEF Approve, SetStatus, OrdersInv, OrdersTypeOK, Statuses
  <2>3. OrderSound(o)'
    BY <1>5, <2>1 DEF Approve, SetStatus, OrdersInv, OrdersTypeOK, OrderSound, Active
  <2>4. \A x \in Orders \ {o} : OrderSound(x)'
    BY <1>5, <2>1, OtherOrder DEF Approve, SetStatus, OrdersInv, OrdersTypeOK
  <2> QED BY <2>1, <2>2, <2>3, <2>4 DEF OrdersInv
<1>6. CASE \E d \in Dates(o) : PlaceDraft(o, d)
  <2>1. PICK d \in BOOLEAN : PlaceDraft(o, d)
    BY <1>6 DEF Dates
  <2>2. Rows' /\ Only(o) /\ \A q \in Products : held'[o][q] <= line[o][q]
    BY <1>3, <2>1 DEF PlaceDraft
  <2>3. OrdersTypeOK'
    BY <2>1 DEF PlaceDraft, SetStatus, OrdersInv, OrdersTypeOK, Statuses
  <2>4. OrderSound(o)'
    BY <2>1, <2>2 DEF PlaceDraft, SetStatus, OrdersInv, OrdersTypeOK, OrderSound, Active
  <2>5. \A x \in Orders \ {o} : OrderSound(x)'
    BY <2>1, <2>2, OtherOrder DEF PlaceDraft, SetStatus, OrdersInv, OrdersTypeOK, Only
  <2> QED BY <2>2, <2>3, <2>4, <2>5 DEF OrdersInv
<1>7. CASE PlacePending(o)
  <2>1. Rows' /\ Only(o) /\ held' = held
    BY <1>7 DEF PlacePending, Rows, StockSound, Only, stockVars
  <2>2. OrdersTypeOK'
    BY <1>7 DEF PlacePending, SetStatus, OrdersInv, OrdersTypeOK, Statuses
  <2>3. OrderSound(o)'
    BY <1>7, <2>1 DEF PlacePending, SetStatus, OrdersInv, OrdersTypeOK, OrderSound, Active
  <2>4. \A x \in Orders \ {o} : OrderSound(x)'
    BY <1>7, <2>1, OtherOrder DEF PlacePending, SetStatus, OrdersInv, OrdersTypeOK
  <2> QED BY <2>1, <2>2, <2>3, <2>4 DEF OrdersInv
<1> QED BY <1>4, <1>5, <1>6, <1>7

\* Recording the sale of an order that never recorded one.
LEMMA SaleIsTheLines ==
  ASSUME OrdersInv, NEW o \in Orders, status[o] # "fulfilled", RecordSale(o)
  PROVE  /\ sold' \in [Orders -> Need]
         /\ sold'[o] = line[o]
         /\ \A x \in Orders \ {o} : sold'[x] = sold[x]
<1>1. sold[o] = NoLines /\ line[o] \in Need /\ sold \in [Orders -> Need]
  BY DEF OrdersInv, OrdersTypeOK, OrderSound
<1>2. [p \in Products |-> sold[o][p] + line[o][p]] = line[o]
  <2>1. \A p \in Products : sold[o][p] + line[o][p] = line[o][p]
    <3>1. TAKE p \in Products
    <3>2. sold[o][p] = 0
      BY <1>1 DEF NoLines
    <3>3. line[o][p] \in Nat
      BY <1>1 DEF Need
    <3> QED BY <3>2, <3>3
  <2>2. line[o] = [p \in Products |-> line[o][p]]
    BY <1>1 DEF Need
  <2> QED BY <2>1, <2>2
<1> QED BY <1>1, <1>2 DEF RecordSale

\* The deliveries: the units leave, the sale is recorded, nothing is owed.
LEMMA Deliveries ==
  ASSUME Rows, OrdersInv, NEW o \in Orders,
         Fulfill(o) \/ DeliverDraft(o) \/ DeliverActive(o)
  PROVE  OrdersInv' /\ Rows' /\ Only(o)
<1> USE OrdersAssumption
<1>1. o \in Holders /\ line[o] \in Need /\ held[o] \in Need
  BY DEF OrdersInv, OrdersTypeOK, Rows
<1>2. \A q \in Products : held[o][q] <= IF Active(o) THEN line[o][q] ELSE 0
  BY DEF OrdersInv, OrderSound
<1>3. /\ Active(o) \/ status[o] = "draft"
      /\ RecordSale(o)
      /\ SetStatus(o, "fulfilled")
      /\ UNCHANGED <<dated, line, requested, edits>>
  BY DEF Fulfill, DeliverDraft, DeliverActive, Active
<1>4. Rows' /\ Only(o) /\ \A q \in Products : held'[o][q] <= 0
  <2>1. CASE Active(o) /\ Consume(o, line[o])
    <3>1. /\ Rows' /\ Only(o)
          /\ \A q \in Products :
               held'[o][q] = IF held[o][q] < line[o][q] THEN 0 ELSE held[o][q] - line[o][q]
      BY <1>1, <2>1, ConsumeKeepsRows DEF Only
    <3> QED BY <1>1, <1>2, <2>1, <3>1 DEF Need
  <2>2. CASE status[o] = "draft" /\ ReserveAndConsume(line[o])
    <3>1. Rows' /\ held' = held
      BY <1>1, <2>2, ReserveAndConsumeKeepsRows
    <3> QED BY <1>2, <2>2, <3>1 DEF Only, Active
  <2> QED BY <2>1, <2>2 DEF Fulfill, DeliverDraft, DeliverActive, Active
<1>5. /\ sold' \in [Orders -> Need]
      /\ sold'[o] = line[o]
      /\ \A x \in Orders \ {o} : sold'[x] = sold[x]
  BY <1>3, SaleIsTheLines DEF Active
<1>6. OrdersTypeOK'
  BY <1>3, <1>5 DEF SetStatus, OrdersInv, OrdersTypeOK, Statuses
<1>7. OrderSound(o)'
  BY <1>3, <1>4, <1>5 DEF SetStatus, OrdersInv, OrdersTypeOK, OrderSound, Active
<1>8. \A x \in Orders \ {o} : OrderSound(x)'
  BY <1>3, <1>4, <1>5, OtherOrder DEF SetStatus, OrdersInv, OrdersTypeOK, Only
<1> QED BY <1>4, <1>6, <1>7, <1>8 DEF OrdersInv

\* A cancelled order keeps nothing in its name.
LEMMA Cancellation ==
  ASSUME Rows, OrdersInv, NEW o \in Orders, Cancel(o)
  PROVE  OrdersInv' /\ Rows' /\ Only(o)
<1> USE OrdersAssumption
<1>1. o \in Holders /\ line[o] \in Need /\ held[o] \in Need
  BY DEF OrdersInv, OrdersTypeOK, Rows
<1>2. \A q \in Products : held[o][q] <= IF Active(o) THEN line[o][q] ELSE 0
  BY DEF OrdersInv, OrderSound
<1>3. Rows' /\ Only(o) /\ \A q \in Products : held'[o][q] <= 0
  <2>1. CASE status[o] = "draft" /\ UNCHANGED stockVars
    BY <1>2, <2>1 DEF Rows, StockSound, Only, stockVars, Active
  <2>2. CASE Active(o) /\ Release(o, line[o])
    <3>1. /\ Rows' /\ Only(o)
          /\ \A q \in Products :
               held'[o][q] = IF held[o][q] < line[o][q] THEN 0 ELSE held[o][q] - line[o][q]
      BY <1>1, <2>2, GiveBackKeepsRows DEF Only, Release
    <3> QED BY <1>1, <1>2, <2>2, <3>1 DEF Need
  <2> QED BY <2>1, <2>2 DEF Cancel
<1>4. OrdersTypeOK'
  BY DEF Cancel, SetStatus, OrdersInv, OrdersTypeOK, Statuses
<1>5. status[o] # "fulfilled"
  BY DEF Cancel, Active
<1>6. OrderSound(o)'
  BY <1>3, <1>5 DEF Cancel, SetStatus, OrdersInv, OrdersTypeOK, OrderSound, Active
<1>7. \A x \in Orders \ {o} : OrderSound(x)'
  BY <1>3, OtherOrder DEF Cancel, SetStatus, OrdersInv, OrdersTypeOK, Only
<1> QED BY <1>3, <1>4, <1>6, <1>7 DEF OrdersInv

\* A header edit moves neither stock nor status.
LEMMA HeaderEdits ==
  ASSUME Rows, OrdersInv, NEW o \in Orders, HeaderEdit(o)
  PROVE  OrdersInv' /\ Rows' /\ Only(o)
<1>1. PICK kind \in {"updateDraft", "reschedule"} :
        CheckEdit(o, kind) \/ \E d \in BOOLEAN : WriteEdit(o, kind, d)
  BY DEF HeaderEdit
<1>2. /\ UNCHANGED <<status, line, requested, sold, stockVars>>
      /\ dated' \in [Orders -> BOOLEAN]
      /\ edits' \subseteq Edits
  BY <1>1 DEF CheckEdit, WriteEdit, OrdersInv, OrdersTypeOK, Edits
<1>3. Rows' /\ Only(o)
  BY <1>2 DEF Rows, StockSound, Only, stockVars
<1>4. \A x \in Orders : OrderSound(x)'
  BY <1>2, OtherOrder DEF OrdersInv, stockVars
<1>5. OrdersTypeOK'
  BY <1>2 DEF OrdersInv, OrdersTypeOK
<1> QED BY <1>3, <1>4, <1>5 DEF OrdersInv

\* Every step of an order.
LEMMA OrderSteps ==
  ASSUME Rows, OrdersInv, NEW o \in Orders, CartStep(o) \/ Transition(o) \/ HeaderEdit(o)
  PROVE  OrdersInv' /\ Rows' /\ Only(o)
<1>1. CASE /\ CartStep(o)
           /\ \/ \E p \in Products, n \in 1..MaxLine : UpdatePendingLine(o, p, n)
              \/ \E p \in Products : RemoveLine(o, p)
  BY <1>1, ReviewEdits
<1>2. CASE /\ CartStep(o)
           /\ \/ \E d \in Dates(o) : CreateDraft(o, d)
              \/ \E p \in Products, n \in 1..MaxLine : AddLine(o, p, n)
              \/ \E need \in [Products -> 0..MaxLine] : ReplaceLines(o, need)
              \/ \E p \in Products, n \in 1..MaxLine : UpdateDraftLine(o, p, n)
  <2>1. OrdersInv' /\ UNCHANGED stockVars
    BY <1>2, DraftEdits
  <2> QED BY <2>1 DEF Rows, StockSound, Only, stockVars
<1>3. CASE Transition(o)
  BY <1>3, Acceptances, Deliveries, Cancellation DEF Transition
<1>4. CASE HeaderEdit(o)
  BY <1>4, HeaderEdits
<1> QED BY <1>1, <1>2, <1>3, <1>4 DEF CartStep

-----------------------------------------------------------------------------
(* The steps of the apartados and of the cron. *)

\* A customer opens an apartado or releases one.
LEMMA CustomerSteps ==
  ASSUME Rows, HoldsInv, NEW r \in Reservations, CustomerStep(r)
  PROVE  HoldsInv' /\ Rows' /\ Only(r)
<1> USE ReservationsAssumption
<1>1. /\ r \in Holders /\ wanted[r] \in Need /\ held[r] \in Need
      /\ \A p \in Products : held[r][p] = IF hold[r] = "active" THEN wanted[r][p] ELSE 0
  BY DEF HoldsInv, ReservationTypeOK, HoldKeepsItsUnits, Rows
<1>2. CASE \E need \in [Products -> 0..MaxHold] : Apartar(r, need)
  <2>1. PICK need \in [Products -> 0..MaxHold] : Apartar(r, need)
    BY <1>2
  <2>2. need \in Need
    BY DEF Need
  <2>3. /\ Rows' /\ Only(r)
        /\ \A p \in Products : held'[r][p] = held[r][p] + need[p]
    BY <1>1, <2>1, <2>2, ReserveKeepsRows DEF Apartar, Only
  <2>4. \A p \in Products : held'[r][p] = need[p]
    <3>1. TAKE p \in Products
    <3>2. held[r][p] = 0
      BY <1>1, <2>1 DEF Apartar
    <3>3. need[p] \in Nat
      BY <2>2 DEF Need
    <3> QED BY <2>3, <3>2, <3>3
  <2>5. ReservationTypeOK'
    BY <2>1, <2>2 DEF Apartar, HoldsInv, ReservationTypeOK, HoldStates
  <2>6. HoldKeepsItsUnits'
    BY <2>1, <2>3, <2>4 DEF Apartar, HoldsInv, ReservationTypeOK, HoldKeepsItsUnits, Only
  <2> QED BY <2>3, <2>5, <2>6 DEF HoldsInv
<1>3. CASE FinishRelease(r)
  <2>1. /\ Rows' /\ Only(r)
        /\ \A p \in Products :
             held'[r][p] = IF held[r][p] < wanted[r][p] THEN 0 ELSE held[r][p] - wanted[r][p]
    BY <1>1, <1>3, GiveBackKeepsRows DEF FinishRelease, Release, Only
  <2>2. \A p \in Products : held'[r][p] = 0
    BY <1>1, <1>3, <2>1 DEF FinishRelease, Need
  <2>3. ReservationTypeOK'
    BY <1>3 DEF FinishRelease, HoldsInv, ReservationTypeOK, HoldStates
  <2>4. HoldKeepsItsUnits'
    BY <1>3, <2>1, <2>2 DEF FinishRelease, HoldsInv, ReservationTypeOK, HoldKeepsItsUnits, Only
  <2> QED BY <2>1, <2>3, <2>4 DEF HoldsInv
<1>4. CASE Expire(r) \/ BeginRelease(r) \/ RefuseRelease(r)
  <2>1. UNCHANGED <<hold, wanted, stockVars>> /\ ReservationTypeOK'
    BY <1>4 DEF Expire, BeginRelease, RefuseRelease, HoldsInv, ReservationTypeOK
  <2>2. Rows' /\ Only(r)
    BY <2>1 DEF Rows, StockSound, Only, stockVars
  <2>3. HoldKeepsItsUnits'
    BY <2>1 DEF HoldsInv, HoldKeepsItsUnits, stockVars
  <2> QED BY <2>1, <2>2, <2>3 DEF HoldsInv
<1> QED BY <1>2, <1>3, <1>4 DEF CustomerStep

\* The cron gives back once: after the first time nothing is in the name of
\* the apartado, whatever the reserved counter loses.
LEMMA CronSteps ==
  ASSUME Rows, HoldsInv, NEW i \in Instances, CronStep(i)
  PROVE  HoldsInv' /\ Rows' /\ \A g \in Holders \ Reservations : held'[g] = held[g]
<1> USE ReservationsAssumption
<1>1. CASE \E r \in Reservations : CronRelease(i, r)
  <2>1. PICK r \in Reservations : CronRelease(i, r)
    BY <1>1
  <2>2. /\ r \in Holders /\ wanted[r] \in Need /\ held[r] \in Need
        /\ \A p \in Products : held[r][p] = IF hold[r] = "active" THEN wanted[r][p] ELSE 0
    BY DEF HoldsInv, ReservationTypeOK, HoldKeepsItsUnits, Rows
  <2>3. /\ Rows'
        /\ \A g \in Holders \ {r} : held'[g] = held[g]
        /\ \A p \in Products :
             held'[r][p] = IF held[r][p] < wanted[r][p] THEN 0 ELSE held[r][p] - wanted[r][p]
    BY <2>1, <2>2, GiveBackKeepsRows DEF CronRelease
  <2>4. \A p \in Products : held'[r][p] = 0
    BY <2>2, <2>3 DEF Need
  <2>5. hold'[r] # "active"
    BY <2>1 DEF CronRelease, HoldsInv, ReservationTypeOK
  <2>6. ReservationTypeOK'
    BY <2>1 DEF CronRelease, HoldsInv, ReservationTypeOK, HoldStates
  <2>7. HoldKeepsItsUnits'
    BY <2>1, <2>3, <2>4, <2>5 DEF CronRelease, HoldsInv, ReservationTypeOK, HoldKeepsItsUnits
  <2> QED BY <2>3, <2>6, <2>7 DEF HoldsInv
<1>2. CASE CronSelect(i) \/ CronFinish(i) \/ CronAbort(i)
  <2>1. UNCHANGED <<hold, wanted, stockVars>> /\ ReservationTypeOK'
    BY <1>2 DEF CronSelect, CronFinish, CronAbort, HoldsInv, ReservationTypeOK
  <2>2. Rows' /\ held' = held
    BY <2>1 DEF Rows, StockSound, stockVars
  <2>3. HoldKeepsItsUnits'
    BY <2>1, <2>2 DEF HoldsInv, HoldKeepsItsUnits
  <2> QED BY <2>1, <2>2, <2>3 DEF HoldsInv
<1> QED BY <1>1, <1>2 DEF CronStep

-----------------------------------------------------------------------------
(* The movements recorded by hand. *)

\* A movement between sound balances touches no account but the manual one.
LEMMA MoveKeepsRows ==
  ASSUME Rows, InventoryTypeOK, NEW p \in Products, NEW quantity \in Nat, NEW reserved \in Nat,
         quantity >= reserved, Move(p, quantity, reserved)
  PROVE  Rows' /\ InventoryTypeOK' /\ Only(Manual)
<1> USE InventoryAssumption
<1>1. stock[p].quantity \in Nat /\ stock[p].reserved \in Nat /\ held[Manual] \in Need
  BY DEF Rows, StockRow
<1>2. stock' \in [Products -> StockRow] /\ StockSound'
  BY DEF Move, Rows, StockRow, StockSound
<1> DEFINE kept == IF reserved >= stock[p].reserved
                     THEN held[Manual][p] + (reserved - stock[p].reserved)
                     ELSE held[Manual][p] - Lesser(held[Manual][p], stock[p].reserved - reserved)
<1>3. kept \in Nat
  <2>1. held[Manual][p] \in Nat
    BY <1>1 DEF Need
  <2>2. CASE reserved >= stock[p].reserved
    BY <1>1, <2>1, <2>2
  <2>3. CASE reserved < stock[p].reserved
    <3>1. stock[p].reserved - reserved \in Nat
      BY <1>1, <2>3
    <3>2. /\ Lesser(held[Manual][p], stock[p].reserved - reserved) \in Nat
          /\ Lesser(held[Manual][p], stock[p].reserved - reserved) <= held[Manual][p]
      BY <2>1, <3>1, LesserFacts
    <3> QED BY <1>1, <2>1, <2>3, <3>2
  <2> QED BY <1>1, <2>2, <2>3
<1>4. held' = [held EXCEPT ![Manual] = [held[Manual] EXCEPT ![p] = kept]]
  BY <1>1 DEF Move, Need, Rows
<1> HIDE DEF kept
<1>5. [held[Manual] EXCEPT ![p] = kept] \in Need
  BY <1>1, <1>3 DEF Need
<1>6. held' \in [Holders -> Need] /\ Only(Manual)
  BY <1>4, <1>5 DEF Rows, Only
<1>7. InventoryTypeOK'
  BY <1>1 DEF Move, InventoryTypeOK
<1> QED BY <1>2, <1>6, <1>7 DEF Rows

\* Every kind of movement asks for sound balances, and only a release or a
\* sale by hand lowers what is reserved.
LEMMA InventoryMoves ==
  ASSUME Rows, InventoryNext
  PROVE  \E p \in Products, quantity \in Nat, reserved \in Nat :
           /\ Move(p, quantity, reserved)
           /\ quantity >= reserved
           /\ HandKinds \cap {"release", "sale"} = {} => reserved >= stock[p].reserved
           /\ reserved > stock[p].reserved => quantity = stock[p].quantity
<1>1. PICK kind \in HandKinds, p \in Products, n \in 1..(MaxStock + 1) : RecordMovement(kind, p, n)
  BY DEF InventoryNext
<1>2. /\ stock[p].quantity \in Nat /\ stock[p].reserved \in Nat
      /\ stock[p].quantity >= stock[p].reserved
  BY DEF Rows, StockRow, StockSound
<1>3. n \in Nat /\ n - 1 \in Nat
  BY InventoryAssumption
<1>4. CASE MoveIn(p, n)
  <2>1. stock[p].quantity + n \in Nat /\ stock[p].quantity + n >= stock[p].reserved
    BY <1>2, <1>3
  <2> QED BY <1>2, <1>4, <2>1 DEF MoveIn
<1>5. CASE MoveOut(p, n)
  <2>1. stock[p].quantity - n \in Nat /\ stock[p].quantity - n >= stock[p].reserved
    BY <1>2, <1>3, <1>5 DEF MoveOut, Available
  <2> QED BY <1>2, <1>5, <2>1 DEF MoveOut
<1>6. CASE MoveReserve(p, n)
  <2>1. /\ stock[p].reserved + n \in Nat /\ stock[p].quantity >= stock[p].reserved + n
        /\ stock[p].reserved + n >= stock[p].reserved
    BY <1>2, <1>3, <1>6 DEF MoveReserve, Available
  <2> QED BY <1>2, <1>6, <2>1 DEF MoveReserve
<1>7. CASE kind = "release" /\ MoveRelease(p, n)
  <2>1. stock[p].reserved - n \in Nat /\ stock[p].quantity >= stock[p].reserved - n
    BY <1>2, <1>3, <1>7 DEF MoveRelease
  <2> QED BY <1>2, <1>7, <2>1 DEF MoveRelease
<1>8. CASE kind = "sale" /\ MoveSale(p, n)
  <2>1. /\ stock[p].reserved - n \in Nat /\ stock[p].quantity - n \in Nat
        /\ stock[p].quantity - n >= stock[p].reserved - n
        /\ ~(stock[p].reserved - n > stock[p].reserved)
    BY <1>2, <1>3, <1>8 DEF MoveSale
  <2> QED BY <1>8, <2>1 DEF MoveSale
<1>9. CASE AdjustStock(p, n - 1)
  BY <1>2, <1>3, <1>9 DEF AdjustStock
<1> QED BY <1>1, <1>4, <1>5, <1>6, <1>7, <1>8, <1>9 DEF RecordMovement

\* A movement by hand leaves everything in order.
LEMMA InventorySteps ==
  ASSUME Rows, InventoryTypeOK, InventoryNext
  PROVE  Rows' /\ InventoryTypeOK' /\ Only(Manual)
BY InventoryMoves, MoveKeepsRows

\* What a movement by hand changes: the shelf by what came in, and the
\* counter by no more than the manual account, by as much when it grows.
LEMMA MoveBalances ==
  ASSUME Rows, InventoryTypeOK, NEW p \in Products, NEW quantity \in Nat, NEW reserved \in Nat,
         Move(p, quantity, reserved), NEW q \in Products
  PROVE  /\ stock'[q].quantity - intake'[q] = stock[q].quantity - intake[q]
         /\ stock'[q].reserved - held'[Manual][q] <= stock[q].reserved - held[Manual][q]
         /\ reserved >= stock[p].reserved =>
              stock'[q].reserved - held'[Manual][q] = stock[q].reserved - held[Manual][q]
<1> USE InventoryAssumption
<1>1. /\ stock[q].quantity \in Nat /\ stock[q].reserved \in Nat /\ held[Manual] \in Need
      /\ held[Manual][q] \in Nat /\ intake[q] \in Int
  BY DEF Rows, StockRow, Need, InventoryTypeOK
<1>2. CASE q # p
  <2>1. stock'[q] = stock[q] /\ held'[Manual][q] = held[Manual][q] /\ intake'[q] = intake[q]
    BY <1>1, <1>2 DEF Move, Rows, InventoryTypeOK, Need
  <2> QED BY <1>1, <2>1
<1>3. CASE q = p
  <2>1. /\ stock'[p].quantity = quantity /\ stock'[p].reserved = reserved
        /\ intake'[p] = intake[p] + (quantity - stock[p].quantity)
        /\ held'[Manual][p] = IF reserved >= stock[p].reserved
                                THEN held[Manual][p] + (reserved - stock[p].reserved)
                                ELSE held[Manual][p] - Lesser(held[Manual][p], stock[p].reserved - reserved)
    BY <1>1, <1>3 DEF Move, Rows, InventoryTypeOK, Need
  <2>2. reserved < stock[p].reserved =>
          Lesser(held[Manual][p], stock[p].reserved - reserved) <= stock[p].reserved - reserved
          /\ Lesser(held[Manual][p], stock[p].reserved - reserved) \in Nat
    <3>1. reserved < stock[p].reserved => stock[p].reserved - reserved \in Nat
      BY <1>1, <1>3
    <3> QED BY <1>1, <1>3, <3>1, LesserFacts
  <2> QED BY <1>1, <1>3, <2>1, <2>2
<1> QED BY <1>2, <1>3

-----------------------------------------------------------------------------
(* The warehouse. *)

\* An empty warehouse is in order.
LEMMA InitInv == Init => IInv
<1> SUFFICES ASSUME Init PROVE IInv
  OBVIOUS
<1>1. Rows /\ frozen \in BOOLEAN
  <2>1. stock \in [Products -> StockRow] /\ frozen \in BOOLEAN
    BY DEF Init, StockInit, StockRow
  <2>2. held \in [Holders -> Need]
    <3>1. [p \in Products |-> 0] \in Need
      BY DEF Need
    <3> QED BY <3>1 DEF Init, StockInit
  <2>3. StockSound
    <3>1. SUFFICES ASSUME NEW p \in Products
                   PROVE  stock[p].reserved >= 0 /\ stock[p].quantity >= stock[p].reserved
      BY DEF StockSound
    <3>2. stock[p].reserved = 0 /\ stock[p].quantity = 0
      BY DEF Init, StockInit
    <3> QED BY <3>2
  <2> QED BY <2>1, <2>2, <2>3 DEF Rows
<1>2. OrdersTypeOK
  BY DEF Init, OrdersInit, OrdersTypeOK, Statuses, NoLines, Need, Edits
<1>3. \A o \in Orders : OrderSound(o)
  BY OrdersAssumption DEF Init, StockInit, OrdersInit, OrderSound, Active, NoLines
<1>4. ReservationTypeOK
  BY DEF Init, ReservationInit, ReservationTypeOK, HoldStates, Need
<1>5. HoldKeepsItsUnits
  BY ReservationsAssumption DEF Init, StockInit, ReservationInit, HoldKeepsItsUnits
<1>6. InventoryTypeOK
  BY DEF Init, InventoryInit, InventoryTypeOK
<1> QED BY <1>1, <1>2, <1>3, <1>4, <1>5, <1>6 DEF IInv, OrdersInv, HoldsInv

\* Orders stay in order while no account of theirs moves.
LEMMA OtherOrders ==
  ASSUME OrdersInv, UNCHANGED orderVars, \A o \in Orders : held'[o] = held[o]
  PROVE  OrdersInv'
<1>1. \A o \in Orders : OrderSound(o)'
  BY OtherOrder DEF OrdersInv, orderVars
<1> QED BY <1>1 DEF OrdersInv, OrdersTypeOK, orderVars

\* The invariant is inductive.
LEMMA NextInv == IInv /\ [Next]_vars => IInv'
<1> SUFFICES ASSUME IInv, [Next]_vars PROVE IInv'
  OBVIOUS
<1> USE OrdersAssumption, ReservationsAssumption, InventoryAssumption, HoldersAssumption
<1>1. Rows /\ frozen \in BOOLEAN /\ OrdersInv /\ HoldsInv /\ InventoryTypeOK
  BY DEF IInv
<1>2. CASE OrdersStep
  <2>1. PICK o \in Orders : CartStep(o) \/ Transition(o) \/ HeaderEdit(o)
    BY <1>2 DEF OrdersStep, OrdersNext
  <2>2. OrdersInv' /\ Rows' /\ Only(o)
    BY <1>1, <2>1, OrderSteps
  <2>3. HoldsInv'
    BY <1>1, <1>2, <2>2, OtherHolds DEF OrdersStep, Only
  <2>4. InventoryTypeOK' /\ frozen' \in BOOLEAN
    BY <1>1, <1>2 DEF OrdersStep, InventoryTypeOK
  <2> QED BY <2>2, <2>3, <2>4 DEF IInv
<1>3. CASE ReservationStep
  <2>1. HoldsInv' /\ Rows' /\ \A g \in Holders \ Reservations : held'[g] = held[g]
    BY <1>1, <1>3, CustomerSteps, CronSteps DEF ReservationStep, ReservationNext, Only
  <2>2. OrdersInv'
    BY <1>1, <1>3, <2>1, OtherOrders DEF ReservationStep
  <2>3. InventoryTypeOK' /\ frozen' \in BOOLEAN
    BY <1>1, <1>3 DEF ReservationStep, InventoryTypeOK
  <2> QED BY <2>1, <2>2, <2>3 DEF IInv
<1>4. CASE InventoryStep
  <2>1. Rows' /\ InventoryTypeOK' /\ Only(Manual)
    BY <1>1, <1>4, InventorySteps DEF InventoryStep
  <2>2. OrdersInv'
    BY <1>1, <1>4, <2>1, OtherOrders DEF InventoryStep, Only
  <2>3. HoldsInv'
    BY <1>1, <1>4, <2>1, OtherHolds DEF InventoryStep, Only
  <2> QED BY <1>1, <1>4, <2>1, <2>2, <2>3 DEF IInv, InventoryStep
<1>5. CASE Freeze \/ Thaw \/ UNCHANGED vars
  <2>1. UNCHANGED <<stockVars, orderVars, holdVars, intake>> /\ frozen' \in BOOLEAN
    BY <1>1, <1>5 DEF Freeze, Thaw, vars
  <2>2. Rows' /\ held' = held /\ InventoryTypeOK'
    BY <1>1, <2>1 DEF Rows, StockSound, InventoryTypeOK, stockVars
  <2>3. OrdersInv' /\ HoldsInv'
    BY <1>1, <2>1, <2>2, OtherOrders, OtherHolds
  <2> QED BY <2>1, <2>2, <2>3 DEF IInv
<1> QED BY <1>2, <1>3, <1>4, <1>5 DEF Next

\* The invariant holds in every reachable state.
THEOREM Inductive == Spec => []IInv
<1> QED BY InitInv, NextInv, PTL DEF Spec

\* Every variable keeps its type under every handler.
THEOREM TypeCorrect == Spec => []TypeOK
<1>1. IInv => StockTypeOK
  BY DEF IInv, Rows, StockTypeOK
<1>2. IInv => OrdersTypeOK /\ ReservationTypeOK /\ InventoryTypeOK
  BY DEF IInv, OrdersInv, HoldsInv
<1>3. IInv => TypeOK
  BY <1>1, <1>2 DEF TypeOK
<1> QED BY <1>3, Inductive, PTL

\* No order of handlers trips a CHECK of commercial.stock.
THEOREM StockIsSound == Spec => []StockSound
<1>1. IInv => StockSound
  BY DEF IInv, Rows
<1> QED BY <1>1, Inductive, PTL

\* fulfill, deliverNow and their callers deliver an order exactly once.
THEOREM DeliveredExactlyOnce == Spec => []SoldExactlyOnce
<1>1. IInv => SoldExactlyOnce
  BY DEF IInv, OrdersInv, OrderSound, SoldExactlyOnce
<1> QED BY <1>1, Inductive, PTL

\* What the seller approves stays within what the customer asked for.
THEOREM NeverAboveRequest == Spec => []ApprovedWithinRequested
<1>1. IInv => ApprovedWithinRequested
  BY DEF IInv, OrdersInv, OrderSound, ApprovedWithinRequested
<1> QED BY <1>1, Inductive, PTL

\* No run of edits leaves an order with more in its name than its lines.
THEOREM HeldIsWithinLines == Spec => []HeldWithinLines
<1>1. IInv => HeldWithinLines
  BY DEF IInv, OrdersInv, OrderSound, HeldWithinLines
<1> QED BY <1>1, Inductive, PTL

\* An apartado's account is its lines while it is open and empty afterwards.
THEOREM HoldsAreExact == Spec => []HoldKeepsItsUnits
<1>1. IInv => HoldKeepsItsUnits
  BY DEF IInv, HoldsInv
<1> QED BY <1>1, Inductive, PTL

-----------------------------------------------------------------------------
(* What a handler asks of the stock, in one shape: the units its holder      *)
(* claims before and after, the units it delivers, and the one primitive it  *)
(* calls for them.                                                           *)

\* The units an order claims while it is accepted, an apartado while open.
OrderClaims(o) == [p \in Products |-> IF Active(o) THEN line[o][p] ELSE 0]
HoldClaims(r) == [p \in Products |-> IF hold[r] = "active" THEN wanted[r][p] ELSE 0]

\* A step records the sale of those units and of no others.
Sells(o, units) == \A p \in Products : sold'[o][p] = sold[o][p] + units[p]

\* h claimed before, claims after, and delivers the units given.
Call(h, before, after, units) ==
  \E need \in Need :
    \/ /\ Reserve(h, need)
       /\ \A p \in Products : after[p] = before[p] + need[p] /\ units[p] = 0
    \/ /\ GiveBack(h, need)
       /\ \A p \in Products : after[p] = before[p] - need[p] /\ units[p] = 0
    \/ /\ Consume(h, need)
       /\ \A p \in Products : after[p] = before[p] - need[p] /\ units[p] = need[p]
    \/ /\ ReserveAndConsume(need)
       /\ \A p \in Products : after[p] = before[p] /\ units[p] = need[p]
    \/ /\ UNCHANGED stockVars
       /\ \A p \in Products : after[p] = before[p] /\ units[p] = 0

\* A preventa is accepted: it claims units and reserves none.
Preventa(before, after, units) ==
  /\ UNCHANGED stockVars
  /\ \A p \in Products : after[p] >= before[p] /\ units[p] = 0

\* The cron gives back for an apartado that somebody closed before.
LateRelease(h, before, after) ==
  /\ \E need \in Need : GiveBack(h, need)
  /\ \A p \in Products : after[p] = before[p]

\* The books of a product after such a call: the shelf loses what is
\* delivered, and the counter grows by no more than the claim does.
Books(p, before, after, units) ==
  /\ stock'[p].quantity = stock[p].quantity - units[p]
  /\ \/ stock'[p].reserved = 0
     \/ stock'[p].reserved <= stock[p].reserved + (after[p] - before[p])

\* A primitive on the row of one product.
LEMMA PrimitiveOnRow ==
  ASSUME Rows, NEW h \in Holders, NEW need \in Need, NEW p \in Products
  PROVE  /\ stock[p].quantity \in Nat /\ stock[p].reserved \in Nat /\ need[p] \in Nat
         /\ stock[p].reserved <= stock[p].quantity
         /\ Reserve(h, need) =>
              /\ stock'[p].quantity = stock[p].quantity
              /\ stock'[p].reserved = stock[p].reserved + need[p]
         /\ GiveBack(h, need) =>
              /\ stock'[p].quantity = stock[p].quantity
              /\ stock'[p].reserved = IF stock[p].reserved < need[p] THEN 0
                                      ELSE stock[p].reserved - need[p]
         /\ Consume(h, need) =>
              /\ stock'[p].quantity = stock[p].quantity - need[p]
              /\ stock'[p].reserved = IF stock[p].reserved < need[p] THEN 0
                                      ELSE stock[p].reserved - need[p]
         /\ ReserveAndConsume(need) =>
              /\ stock'[p].quantity = stock[p].quantity - need[p]
              /\ stock'[p].reserved = stock[p].reserved
<1>1. /\ stock[p].quantity \in Nat /\ stock[p].reserved \in Nat /\ need[p] \in Nat
      /\ stock[p].reserved <= stock[p].quantity
  BY DEF Rows, StockRow, StockSound, Need
<1>2. stock[p].reserved - ReleaseQty(p, need[p])
        = IF stock[p].reserved < need[p] THEN 0 ELSE stock[p].reserved - need[p]
  BY <1>1 DEF ReleaseQty, Lesser
<1>3. Reserve(h, need) =>
        /\ stock'[p].quantity = stock[p].quantity
        /\ stock'[p].reserved = stock[p].reserved + need[p]
  BY DEF Reserve
<1>4. GiveBack(h, need) =>
        /\ stock'[p].quantity = stock[p].quantity
        /\ stock'[p].reserved = stock[p].reserved - ReleaseQty(p, need[p])
  BY DEF GiveBack
<1>5. Consume(h, need) =>
        /\ stock'[p].quantity = stock[p].quantity - need[p]
        /\ stock'[p].reserved = stock[p].reserved - ReleaseQty(p, need[p])
  BY DEF Consume
<1>6. ReserveAndConsume(need) =>
        /\ stock'[p].quantity = stock[p].quantity - need[p]
        /\ stock'[p].reserved = stock[p].reserved
  BY DEF ReserveAndConsume
<1> QED BY <1>1, <1>2, <1>3, <1>4, <1>5, <1>6

\* Whatever a handler calls, the books of every product balance.
LEMMA CallBooks ==
  ASSUME Rows, NEW h \in Holders, NEW before \in Need, NEW after \in Need,
         NEW units, NEW p \in Products,
         \/ Call(h, before, after, units)
         \/ Preventa(before, after, units)
         \/ LateRelease(h, before, after) /\ units[p] = 0
  PROVE  Books(p, before, after, units)
<1>1. /\ stock[p].quantity \in Nat /\ stock[p].reserved \in Nat
      /\ before[p] \in Nat /\ after[p] \in Nat
  BY DEF Rows, StockRow, Need
<1>2. CASE UNCHANGED stockVars /\ after[p] >= before[p] /\ units[p] = 0
  BY <1>1, <1>2 DEF Books, stockVars
<1>3. ASSUME NEW need \in Need,
             \/ Reserve(h, need) /\ after[p] = before[p] + need[p] /\ units[p] = 0
             \/ GiveBack(h, need) /\ after[p] = before[p] - need[p] /\ units[p] = 0
             \/ Consume(h, need) /\ after[p] = before[p] - need[p] /\ units[p] = need[p]
             \/ ReserveAndConsume(need) /\ after[p] = before[p] /\ units[p] = need[p]
             \/ GiveBack(h, need) /\ after[p] = before[p] /\ units[p] = 0
      PROVE  Books(p, before, after, units)
  BY <1>1, <1>3, PrimitiveOnRow DEF Books
<1> QED BY <1>1, <1>2, <1>3 DEF Call, Preventa, LateRelease

-----------------------------------------------------------------------------
(* What each handler of an order asks of the stock. *)

\* The step of order o is one call for its claims, or a preventa; the other
\* orders keep their claims and their sales.
OrderAsks(o) ==
  /\ \E units \in Need :
       /\ Sells(o, units)
       /\ \/ Call(o, OrderClaims(o), OrderClaims(o)', units)
          \/ /\ Preventa(OrderClaims(o), OrderClaims(o)', units)
             /\ dated[o] \/ o \in DatedOrders
  /\ \A x \in Orders \ {o} : sold'[x] = sold[x] /\ OrderClaims(x)' = OrderClaims(x)

\* Claims are needs.
LEMMA ClaimsAreNeeds ==
  ASSUME OrdersTypeOK, NEW o \in Orders
  PROVE  /\ OrderClaims(o) \in Need
         /\ \A p \in Products : OrderClaims(o)[p] = IF Active(o) THEN line[o][p] ELSE 0
BY DEF OrdersTypeOK, OrderClaims, Need

\* An order whose status and lines stay keeps its claims.
LEMMA SameClaims ==
  ASSUME NEW x, status'[x] = status[x], line'[x] = line[x]
  PROVE  OrderClaims(x)' = OrderClaims(x)
BY DEF OrderClaims, Active

\* A step that moves no stock and changes no claim.
LEMMA AsksNothing ==
  ASSUME OrdersInv, NEW o \in Orders, UNCHANGED stockVars, sold' = sold,
         \A x \in Orders \ {o} : OrderClaims(x)' = OrderClaims(x),
         \A p \in Products : OrderClaims(o)'[p] = OrderClaims(o)[p]
  PROVE  OrderAsks(o)
<1>1. NoLines \in Need /\ \A p \in Products : NoLines[p] = 0
  BY DEF NoLines, Need
<1>2. Sells(o, NoLines)
  BY <1>1 DEF Sells, OrdersInv, OrdersTypeOK, Need
<1>3. Call(o, OrderClaims(o), OrderClaims(o)', NoLines)
  BY <1>1 DEF Call
<1> QED BY <1>1, <1>2, <1>3 DEF OrderAsks

\* A step that reserves, or gives back, what the claim grows or shrinks by.
LEMMA AsksOnce ==
  ASSUME OrdersInv, NEW o \in Orders, sold' = sold, NEW need \in Need,
         \A x \in Orders \ {o} : OrderClaims(x)' = OrderClaims(x),
         \/ /\ Reserve(o, need)
            /\ \A p \in Products : OrderClaims(o)'[p] = OrderClaims(o)[p] + need[p]
         \/ /\ GiveBack(o, need)
            /\ \A p \in Products : OrderClaims(o)'[p] = OrderClaims(o)[p] - need[p]
  PROVE  OrderAsks(o)
<1>1. NoLines \in Need /\ \A p \in Products : NoLines[p] = 0
  BY DEF NoLines, Need
<1>2. Sells(o, NoLines)
  BY <1>1 DEF Sells, OrdersInv, OrdersTypeOK, Need
<1>3. Call(o, OrderClaims(o), OrderClaims(o)', NoLines)
  BY <1>1 DEF Call
<1> QED BY <1>1, <1>2, <1>3 DEF OrderAsks

\* The cart asks for nothing while it is a draft.
LEMMA DraftAsks ==
  ASSUME OrdersInv, NEW o \in Orders,
         \/ \E d \in Dates(o) : CreateDraft(o, d)
         \/ \E p \in Products, n \in 1..MaxLine : AddLine(o, p, n)
         \/ \E need \in [Products -> 0..MaxLine] : ReplaceLines(o, need)
         \/ \E p \in Products, n \in 1..MaxLine : UpdateDraftLine(o, p, n)
  PROVE  OrderAsks(o)
<1>1. /\ UNCHANGED stockVars /\ sold' = sold
      /\ ~Active(o) /\ ~Active(o)'
      /\ \A x \in Orders \ {o} : status'[x] = status[x] /\ line'[x] = line[x]
  BY DEF CreateDraft, AddLine, ReplaceLines, UpdateDraftLine, SetStatus, SetUnits, Active,
         OrdersInv, OrdersTypeOK
<1>2. \A x \in Orders \ {o} : OrderClaims(x)' = OrderClaims(x)
  BY <1>1, SameClaims
<1>3. \A p \in Products : OrderClaims(o)'[p] = OrderClaims(o)[p]
  BY <1>1 DEF OrderClaims
<1> QED BY <1>1, <1>2, <1>3, AsksNothing

\* The seller's edits reserve or give back the difference of one line.
LEMMA ReviewAsks ==
  ASSUME OrdersInv, OrdersInv', NEW o \in Orders,
         \/ \E p \in Products, n \in 1..MaxLine : UpdatePendingLine(o, p, n)
         \/ \E p \in Products : RemoveLine(o, p)
  PROVE  OrderAsks(o)
<1>1. PICK p \in Products :
        \/ \E n \in 1..MaxLine : UpdatePendingLine(o, p, n)
        \/ RemoveLine(o, p)
  OBVIOUS
<1>2. PICK n \in Nat :
        /\ line' = SetUnits(line, o, p, n) /\ status' = status /\ sold' = sold
        /\ \/ n > line[o][p] /\ status[o] = "pending_approval" /\ Reserve(o, JustUnits(p, n - line[o][p]))
           \/ n < line[o][p] /\ status[o] = "pending_approval" /\ Release(o, JustUnits(p, line[o][p] - n))
           \/ status[o] = "draft" /\ UNCHANGED stockVars
  <2>1. ASSUME NEW n \in 1..MaxLine, UpdatePendingLine(o, p, n)
        PROVE  /\ n \in Nat
               /\ line' = SetUnits(line, o, p, n) /\ status' = status /\ sold' = sold
               /\ \/ n > line[o][p] /\ status[o] = "pending_approval" /\ Reserve(o, JustUnits(p, n - line[o][p]))
                  \/ n < line[o][p] /\ status[o] = "pending_approval" /\ Release(o, JustUnits(p, line[o][p] - n))
    BY <2>1 DEF UpdatePendingLine
  <2>2. line[o][p] \in Nat
    BY DEF OrdersInv, OrdersTypeOK, Need
  <2>3. ASSUME RemoveLine(o, p)
        PROVE  /\ line' = SetUnits(line, o, p, 0) /\ status' = status /\ sold' = sold
               /\ \/ 0 < line[o][p] /\ status[o] = "pending_approval" /\ Release(o, JustUnits(p, line[o][p] - 0))
                  \/ status[o] = "draft" /\ UNCHANGED stockVars
    <3>1. line[o][p] - 0 = line[o][p]
      BY <2>2
    <3> QED BY <2>3, <3>1 DEF RemoveLine
  <2> QED BY <1>1, <2>1, <2>3
<1>3. line[o] \in Need /\ line \in [Orders -> Need]
  BY DEF OrdersInv, OrdersTypeOK
<1>4. /\ line'[o][p] = n
      /\ \A q \in Products \ {p} : line'[o][q] = line[o][q]
      /\ \A x \in Orders \ {o} : line'[x] = line[x]
  BY <1>2, <1>3, SetUnitsFacts
<1>5. \A x \in Orders \ {o} : OrderClaims(x)' = OrderClaims(x)
  BY <1>2, <1>4, SameClaims
<1>6. CASE status[o] = "draft" /\ UNCHANGED stockVars
  <2>1. \A q \in Products : OrderClaims(o)'[q] = OrderClaims(o)[q]
    BY <1>2, <1>6 DEF OrderClaims, Active
  <2> QED BY <1>2, <1>5, <1>6, <2>1, AsksNothing
<1>7. ASSUME status[o] = "pending_approval"
      PROVE  \A q \in Products : OrderClaims(o)[q] = line[o][q] /\ OrderClaims(o)'[q] = line'[o][q]
  BY <1>2, <1>7 DEF OrderClaims, Active
<1>8. CASE n > line[o][p] /\ status[o] = "pending_approval" /\ Reserve(o, JustUnits(p, n - line[o][p]))
  <2>1. n - line[o][p] \in Nat
    BY <1>3, <1>8 DEF Need
  <2>2. /\ JustUnits(p, n - line[o][p]) \in Need
        /\ JustUnits(p, n - line[o][p])[p] = n - line[o][p]
        /\ \A q \in Products \ {p} : JustUnits(p, n - line[o][p])[q] = 0
    BY <2>1, JustUnitsIsNeed
  <2>3. \A q \in Products : OrderClaims(o)'[q] = OrderClaims(o)[q] + JustUnits(p, n - line[o][p])[q]
    BY <1>3, <1>4, <1>7, <1>8, <2>2 DEF Need
  <2> QED BY <1>2, <1>5, <1>8, <2>2, <2>3, AsksOnce
<1>9. CASE n < line[o][p] /\ status[o] = "pending_approval" /\ Release(o, JustUnits(p, line[o][p] - n))
  <2>1. line[o][p] - n \in Nat
    BY <1>3, <1>9 DEF Need
  <2>2. /\ JustUnits(p, line[o][p] - n) \in Need
        /\ JustUnits(p, line[o][p] - n)[p] = line[o][p] - n
        /\ \A q \in Products \ {p} : JustUnits(p, line[o][p] - n)[q] = 0
    BY <2>1, JustUnitsIsNeed
  <2>3. \A q \in Products : OrderClaims(o)'[q] = OrderClaims(o)[q] - JustUnits(p, line[o][p] - n)[q]
    BY <1>3, <1>4, <1>7, <1>9, <2>2 DEF Need
  <2>4. GiveBack(o, JustUnits(p, line[o][p] - n))
    BY <1>9 DEF Release
  <2> QED BY <1>2, <1>5, <2>2, <2>3, <2>4, AsksOnce
<1> QED BY <1>2, <1>6, <1>8, <1>9

\* An order accepted from the cart reserves its lines, unless it is a preventa.
LEMMA AcceptanceAsks ==
  ASSUME OrdersInv, OrdersInv', NEW o \in Orders,
         Confirm(o) \/ Approve(o) \/ (\E d \in Dates(o) : PlaceDraft(o, d)) \/ PlacePending(o)
  PROVE  OrderAsks(o)
<1>1. /\ sold' = sold /\ line' = line /\ Active(o)'
      /\ \A x \in Orders \ {o} : status'[x] = status[x] /\ line'[x] = line[x]
  BY DEF Confirm, Approve, PlaceDraft, PlacePending, SetStatus, Active, OrdersInv, OrdersTypeOK
<1>2. \A x \in Orders \ {o} : OrderClaims(x)' = OrderClaims(x)
  BY <1>1, SameClaims
<1>3. line[o] \in Need /\ \A p \in Products : OrderClaims(o)'[p] = line[o][p]
  BY <1>1 DEF OrderClaims, OrdersInv, OrdersTypeOK
<1>4. CASE Approve(o) \/ PlacePending(o)
  <2>1. Active(o) /\ UNCHANGED stockVars
    BY <1>4 DEF Approve, PlacePending, Active
  <2>2. \A p \in Products : OrderClaims(o)'[p] = OrderClaims(o)[p]
    BY <1>3, <2>1 DEF OrderClaims
  <2> QED BY <1>1, <1>2, <2>1, <2>2, AsksNothing
<1>5. CASE Confirm(o) \/ \E d \in Dates(o) : PlaceDraft(o, d)
  <2>1. /\ ~Active(o)
        /\ \/ Reserve(o, line[o])
           \/ UNCHANGED stockVars /\ (dated[o] \/ o \in DatedOrders)
    BY <1>5 DEF Confirm, PlaceDraft, ReserveUnlessPreventa, Active, Dates
  <2>2. \A p \in Products : OrderClaims(o)[p] = 0
    BY <2>1 DEF OrderClaims
  <2>3. CASE Reserve(o, line[o])
    <3>1. \A p \in Products : OrderClaims(o)'[p] = OrderClaims(o)[p] + line[o][p]
      BY <1>3, <2>2 DEF Need
    <3> QED BY <1>1, <1>2, <1>3, <2>3, <3>1, AsksOnce
  <2>4. CASE UNCHANGED stockVars /\ (dated[o] \/ o \in DatedOrders)
    <3>1. NoLines \in Need /\ \A p \in Products : NoLines[p] = 0
      BY DEF NoLines, Need
    <3>2. Sells(o, NoLines)
      BY <1>1, <3>1 DEF Sells, OrdersInv, OrdersTypeOK, Need
    <3>3. Preventa(OrderClaims(o), OrderClaims(o)', NoLines)
      BY <1>3, <2>2, <2>4, <3>1 DEF Preventa, Need
    <3> QED BY <1>1, <1>2, <2>4, <3>1, <3>2, <3>3 DEF OrderAsks
  <2> QED BY <2>1, <2>3, <2>4
<1> QED BY <1>4, <1>5

\* A delivery gives up the whole claim and sells the lines.
LEMMA DeliveryAsks ==
  ASSUME OrdersInv, OrdersInv', NEW o \in Orders,
         Fulfill(o) \/ DeliverDraft(o) \/ DeliverActive(o)
  PROVE  OrderAsks(o)
<1>1. /\ line' = line /\ ~Active(o)' /\ RecordSale(o) /\ status[o] # "fulfilled"
      /\ \A x \in Orders \ {o} : status'[x] = status[x] /\ line'[x] = line[x]
      /\ \/ Active(o) /\ Consume(o, line[o])
         \/ ~Active(o) /\ ReserveAndConsume(line[o])
  BY DEF Fulfill, DeliverDraft, DeliverActive, SetStatus, Active, OrdersInv, OrdersTypeOK
<1>2. \A x \in Orders \ {o} : OrderClaims(x)' = OrderClaims(x)
  BY <1>1, SameClaims
<1>3. /\ sold'[o] = line[o]
      /\ \A x \in Orders \ {o} : sold'[x] = sold[x]
  BY <1>1, SaleIsTheLines
<1>4. line[o] \in Need /\ \A p \in Products : sold[o][p] = 0 /\ OrderClaims(o)'[p] = 0
  BY <1>1 DEF OrderClaims, OrdersInv, OrdersTypeOK, OrderSound, NoLines
<1>5. Sells(o, line[o])
  BY <1>3, <1>4 DEF Sells, Need
<1>6. CASE Active(o) /\ Consume(o, line[o])
  <2>1. \A p \in Products : OrderClaims(o)'[p] = OrderClaims(o)[p] - line[o][p]
    BY <1>4, <1>6 DEF OrderClaims, Need
  <2>2. Call(o, OrderClaims(o), OrderClaims(o)', line[o])
    BY <1>4, <1>6, <2>1 DEF Call
  <2> QED BY <1>2, <1>3, <1>4, <1>5, <2>2 DEF OrderAsks
<1>7. CASE ~Active(o) /\ ReserveAndConsume(line[o])
  <2>1. \A p \in Products : OrderClaims(o)'[p] = OrderClaims(o)[p]
    BY <1>4, <1>7 DEF OrderClaims
  <2>2. Call(o, OrderClaims(o), OrderClaims(o)', line[o])
    BY <1>4, <1>7, <2>1 DEF Call
  <2> QED BY <1>2, <1>3, <1>4, <1>5, <2>2 DEF OrderAsks
<1> QED BY <1>1, <1>6, <1>7

\* A cancelled order gives its lines back; a cart has nothing to give.
LEMMA CancellationAsks ==
  ASSUME OrdersInv, OrdersInv', NEW o \in Orders, Cancel(o)
  PROVE  OrderAsks(o)
<1>1. /\ sold' = sold /\ line' = line /\ ~Active(o)'
      /\ \A x \in Orders \ {o} : status'[x] = status[x] /\ line'[x] = line[x]
      /\ \/ ~Active(o) /\ UNCHANGED stockVars
         \/ Active(o) /\ GiveBack(o, line[o])
  BY DEF Cancel, Release, SetStatus, Active, OrdersInv, OrdersTypeOK
<1>2. \A x \in Orders \ {o} : OrderClaims(x)' = OrderClaims(x)
  BY <1>1, SameClaims
<1>3. line[o] \in Need /\ \A p \in Products : OrderClaims(o)'[p] = 0
  BY <1>1 DEF OrderClaims, OrdersInv, OrdersTypeOK
<1>4. CASE ~Active(o) /\ UNCHANGED stockVars
  <2>1. \A p \in Products : OrderClaims(o)'[p] = OrderClaims(o)[p]
    BY <1>3, <1>4 DEF OrderClaims
  <2> QED BY <1>1, <1>2, <1>4, <2>1, AsksNothing
<1>5. CASE Active(o) /\ GiveBack(o, line[o])
  <2>1. \A p \in Products : OrderClaims(o)'[p] = OrderClaims(o)[p] - line[o][p]
    BY <1>3, <1>5 DEF OrderClaims, Need
  <2> QED BY <1>1, <1>2, <1>3, <1>5, <2>1, AsksOnce
<1> QED BY <1>1, <1>4, <1>5

\* Every step of an order.
LEMMA OrderStepAsks ==
  ASSUME Rows, OrdersInv, NEW o \in Orders, CartStep(o) \/ Transition(o) \/ HeaderEdit(o)
  PROVE  OrderAsks(o)
<1>1. OrdersInv'
  BY OrderSteps
<1>2. CASE CartStep(o)
  BY <1>1, <1>2, DraftAsks, ReviewAsks DEF CartStep
<1>3. CASE Transition(o)
  BY <1>1, <1>3, AcceptanceAsks, DeliveryAsks, CancellationAsks DEF Transition
<1>4. CASE HeaderEdit(o)
  <2>1. UNCHANGED <<status, line, sold, stockVars>>
    BY <1>4 DEF HeaderEdit, CheckEdit, WriteEdit
  <2>2. \A x \in Orders : OrderClaims(x)' = OrderClaims(x)
    BY <2>1, SameClaims
  <2> QED BY <2>1, <2>2, AsksNothing
<1> QED BY <1>2, <1>3, <1>4

-----------------------------------------------------------------------------
(* What the apartados ask of the stock. *)

\* The step of apartado r is one call for its claims, or a late release by
\* the cron; the other apartados keep their claims.
HoldAsks(r) ==
  /\ \/ Call(r, HoldClaims(r), HoldClaims(r)', NoLines)
     \/ LateRelease(r, HoldClaims(r), HoldClaims(r)') /\ Instances # {}
  /\ \A x \in Reservations \ {r} : HoldClaims(x)' = HoldClaims(x)

\* An apartado that keeps its state and its lines keeps its claims.
LEMMA SameHoldClaims ==
  ASSUME NEW x, hold'[x] = hold[x], wanted'[x] = wanted[x]
  PROVE  HoldClaims(x)' = HoldClaims(x)
BY DEF HoldClaims

\* The claims of an apartado are a need, and what it holds.
LEMMA HoldClaimsAreNeeds ==
  ASSUME HoldsInv, NEW r \in Reservations
  PROVE  /\ HoldClaims(r) \in Need
         /\ \A p \in Products : held[r][p] = HoldClaims(r)[p]
BY DEF HoldsInv, ReservationTypeOK, HoldKeepsItsUnits, HoldClaims, Need

\* A customer's step.
LEMMA CustomerAsks ==
  ASSUME HoldsInv, NEW r \in Reservations, CustomerStep(r)
  PROVE  HoldAsks(r)
<1>1. \A p \in Products : NoLines[p] = 0
  BY DEF NoLines
<1>2. wanted[r] \in Need /\ NoLines \in Need
  BY DEF HoldsInv, ReservationTypeOK, NoLines, Need
<1>3. \A x \in Reservations \ {r} : HoldClaims(x)' = HoldClaims(x)
  <2>1. \A x \in Reservations \ {r} : hold'[x] = hold[x] /\ wanted'[x] = wanted[x]
    BY DEF CustomerStep, Apartar, Expire, BeginRelease, FinishRelease, RefuseRelease,
           HoldsInv, ReservationTypeOK
  <2> QED BY <2>1, SameHoldClaims
<1>4. CASE \E need \in [Products -> 0..MaxHold] : Apartar(r, need)
  <2>1. PICK need \in [Products -> 0..MaxHold] : Apartar(r, need)
    BY <1>4
  <2>2. need \in Need
    BY DEF Need
  <2>3. \A p \in Products : HoldClaims(r)[p] = 0 /\ HoldClaims(r)'[p] = need[p]
    BY <2>1 DEF Apartar, HoldClaims, HoldsInv, ReservationTypeOK
  <2>4. \A p \in Products : HoldClaims(r)'[p] = HoldClaims(r)[p] + need[p]
    BY <2>2, <2>3 DEF Need
  <2>5. Reserve(r, need)
    BY <2>1 DEF Apartar
  <2> QED BY <1>1, <1>3, <2>2, <2>4, <2>5 DEF HoldAsks, Call
<1>5. CASE FinishRelease(r)
  <2>1. \A p \in Products : HoldClaims(r)[p] = wanted[r][p] /\ HoldClaims(r)'[p] = 0
    BY <1>5 DEF FinishRelease, HoldClaims, HoldsInv, ReservationTypeOK
  <2>2. \A p \in Products : HoldClaims(r)'[p] = HoldClaims(r)[p] - wanted[r][p]
    BY <1>2, <2>1 DEF Need
  <2>3. GiveBack(r, wanted[r])
    BY <1>5 DEF FinishRelease, Release
  <2> QED BY <1>1, <1>2, <1>3, <2>2, <2>3 DEF HoldAsks, Call
<1>6. CASE Expire(r) \/ BeginRelease(r) \/ RefuseRelease(r)
  <2>1. UNCHANGED <<hold, wanted, stockVars>>
    BY <1>6 DEF Expire, BeginRelease, RefuseRelease
  <2>2. HoldClaims(r)' = HoldClaims(r)
    BY <2>1, SameHoldClaims
  <2>3. \A p \in Products : HoldClaims(r)'[p] = HoldClaims(r)[p]
    BY <2>2
  <2> QED BY <1>1, <1>2, <1>3, <2>1, <2>3 DEF HoldAsks, Call
<1> QED BY <1>4, <1>5, <1>6 DEF CustomerStep

\* A step of the cron: of one apartado, or of none.
LEMMA CronAsks ==
  ASSUME HoldsInv, NEW i \in Instances, CronStep(i)
  PROVE  \/ \E r \in Reservations : HoldAsks(r)
         \/ UNCHANGED <<hold, wanted, stockVars>>
<1>1. CASE \E r \in Reservations : CronRelease(i, r)
  <2>1. PICK r \in Reservations : CronRelease(i, r)
    BY <1>1
  <2>2. wanted[r] \in Need /\ GiveBack(r, wanted[r])
    BY <2>1 DEF CronRelease, HoldsInv, ReservationTypeOK
  <2>3. \A x \in Reservations \ {r} : HoldClaims(x)' = HoldClaims(x)
    <3>1. \A x \in Reservations \ {r} : hold'[x] = hold[x] /\ wanted'[x] = wanted[x]
      BY <2>1 DEF CronRelease, HoldsInv, ReservationTypeOK
    <3> QED BY <3>1, SameHoldClaims
  <2>4. \A p \in Products : HoldClaims(r)'[p] = 0
    BY <2>1 DEF CronRelease, HoldClaims, HoldsInv, ReservationTypeOK
  <2>5. CASE hold[r] = "active"
    <3>1. \A p \in Products : HoldClaims(r)'[p] = HoldClaims(r)[p] - wanted[r][p]
      BY <2>2, <2>4, <2>5 DEF HoldClaims, Need
    <3>2. \A p \in Products : NoLines[p] = 0
      BY DEF NoLines
    <3> QED BY <2>2, <2>3, <3>1, <3>2 DEF HoldAsks, Call
  <2>6. CASE hold[r] # "active"
    <3>1. \A p \in Products : HoldClaims(r)'[p] = HoldClaims(r)[p]
      BY <2>4, <2>6 DEF HoldClaims
    <3> QED BY <2>2, <2>3, <3>1 DEF HoldAsks, LateRelease
  <2> QED BY <2>5, <2>6
<1>2. CASE CronSelect(i) \/ CronFinish(i) \/ CronAbort(i)
  BY <1>2 DEF CronSelect, CronFinish, CronAbort
<1> QED BY <1>1, <1>2 DEF CronStep

-----------------------------------------------------------------------------
(* The totals, and what a step makes of them. *)

OrdersTotal(p) == SumFunction([o \in Orders |-> OrderClaims(o)[p]])
HoldsTotal(p) == SumFunction([r \in Reservations |-> HoldClaims(r)[p]])

\* What is claimed is the sum of the claims.
LEMMA ClaimedIsClaims ==
  ASSUME NEW p \in Products
  PROVE  /\ ClaimedTotal(p) = OrdersTotal(p) + HoldsTotal(p)
         /\ ClaimedTotal(p)' = OrdersTotal(p)' + HoldsTotal(p)'
<1>1. /\ \A o : OrderClaims(o)[p] = IF Active(o) THEN line[o][p] ELSE 0
      /\ \A o : OrderClaims(o)'[p] = IF Active(o)' THEN line'[o][p] ELSE 0
  BY DEF OrderClaims
<1>2. /\ \A r : HoldClaims(r)[p] = IF hold[r] = "active" THEN wanted[r][p] ELSE 0
      /\ \A r : HoldClaims(r)'[p] = IF hold'[r] = "active" THEN wanted'[r][p] ELSE 0
  BY DEF HoldClaims
<1>3. /\ [o \in Orders |-> OrderClaims(o)[p]]
           = [o \in Orders |-> IF Active(o) THEN line[o][p] ELSE 0]
      /\ [o \in Orders |-> OrderClaims(o)'[p]]
           = [o \in Orders |-> IF Active(o)' THEN line'[o][p] ELSE 0]
  BY <1>1
<1>4. /\ [r \in Reservations |-> HoldClaims(r)[p]]
           = [r \in Reservations |-> IF hold[r] = "active" THEN wanted[r][p] ELSE 0]
      /\ [r \in Reservations |-> HoldClaims(r)'[p]]
           = [r \in Reservations |-> IF hold'[r] = "active" THEN wanted'[r][p] ELSE 0]
  BY <1>2
<1> QED BY <1>3, <1>4, Zenon DEF ClaimedTotal, OrdersTotal, HoldsTotal

\* The holders are finitely many.
LEMMA FiniteHolders ==
  IsFiniteSet(Holders) /\ IsFiniteSet(Orders) /\ IsFiniteSet(Reservations)
BY HoldersAssumption, OrdersAssumption, ReservationsAssumption, FS_Subset

\* Claims and sales add up to amounts.
LEMMA TotalsType ==
  ASSUME OrdersInv, HoldsInv, NEW p \in Products
  PROVE  /\ SoldTotal(p) \in Int
         /\ OrdersTotal(p) \in Int /\ OrdersTotal(p) >= 0
         /\ HoldsTotal(p) \in Int /\ HoldsTotal(p) >= 0
<1>1. [o \in Orders |-> sold[o][p]] \in [Orders -> Int]
  BY DEF OrdersInv, OrdersTypeOK, Need
<1>2. \A o \in Orders : OrderClaims(o)[p] \in Nat
  BY ClaimsAreNeeds DEF OrdersInv, Need
<1>3. \A r \in Reservations : HoldClaims(r)[p] \in Nat
  BY HoldClaimsAreNeeds DEF Need
<1> DEFINE claims == [o \in Orders |-> OrderClaims(o)[p]]
           holds == [r \in Reservations |-> HoldClaims(r)[p]]
<1>4. claims \in [Orders -> Int] /\ \A o \in Orders : claims[o] >= 0
  BY <1>2
<1>5. holds \in [Reservations -> Int] /\ \A r \in Reservations : holds[r] >= 0
  BY <1>3
<1> HIDE DEF claims, holds
<1>6. SumFunction(claims) \in Int /\ SumFunction(claims) >= 0
  BY <1>4, FiniteHolders, SumFunctionFacts
<1>7. SumFunction(holds) \in Int /\ SumFunction(holds) >= 0
  BY <1>5, FiniteHolders, SumFunctionFacts
<1>8. SoldTotal(p) \in Int
  BY <1>1, FiniteHolders, SumFunctionFacts DEF SoldTotal
<1> QED BY <1>6, <1>7, <1>8 DEF OrdersTotal, HoldsTotal, claims, holds

\* The same, of the state a step leads to.
LEMMA TotalsTypeAfter ==
  ASSUME OrdersInv', HoldsInv', NEW p \in Products
  PROVE  /\ OrdersTotal(p)' \in Int /\ OrdersTotal(p)' >= 0
         /\ HoldsTotal(p)' \in Int /\ HoldsTotal(p)' >= 0
<1>1. \A o \in Orders : OrderClaims(o)'[p] \in Nat
  BY DEF OrderClaims, Active, OrdersInv, OrdersTypeOK, Need
<1>2. \A r \in Reservations : HoldClaims(r)'[p] \in Nat
  BY DEF HoldClaims, HoldsInv, ReservationTypeOK, Need
<1> DEFINE claims == [o \in Orders |-> OrderClaims(o)'[p]]
           holds == [r \in Reservations |-> HoldClaims(r)'[p]]
<1>3. claims \in [Orders -> Int] /\ \A o \in Orders : claims[o] >= 0
  BY <1>1
<1>4. holds \in [Reservations -> Int] /\ \A r \in Reservations : holds[r] >= 0
  BY <1>2
<1>5. OrdersTotal(p)' = SumFunction(claims) /\ HoldsTotal(p)' = SumFunction(holds)
  BY DEF OrdersTotal, HoldsTotal
<1> HIDE DEF claims, holds
<1>6. SumFunction(claims) \in Int /\ SumFunction(claims) >= 0
  BY <1>3, FiniteHolders, SumFunctionFacts
<1>7. SumFunction(holds) \in Int /\ SumFunction(holds) >= 0
  BY <1>4, FiniteHolders, SumFunctionFacts
<1> QED BY <1>5, <1>6, <1>7

\* The step of one order moves the totals by what it changes.
LEMMA OrderMovesTotals ==
  ASSUME OrdersInv, OrdersInv', NEW o \in Orders, OrderAsks(o), NEW p \in Products
  PROVE  /\ SoldTotal(p)' = SoldTotal(p) + (sold'[o][p] - sold[o][p])
         /\ OrdersTotal(p)' = OrdersTotal(p) + (OrderClaims(o)'[p] - OrderClaims(o)[p])
<1> DEFINE e == [x \in Orders |-> sold[x][p]]
           f == [x \in Orders |-> sold'[x][p]]
           c == [x \in Orders |-> OrderClaims(x)[p]]
           d == [x \in Orders |-> OrderClaims(x)'[p]]
<1>1. e \in [Orders -> Int] /\ f \in [Orders -> Int]
  BY DEF OrdersInv, OrdersTypeOK, Need
<1>2. \A x \in Orders : OrderClaims(x)[p] \in Nat /\ OrderClaims(x)'[p] \in Nat
  BY DEF OrderClaims, Active, OrdersInv, OrdersTypeOK, Need
<1>3. c \in [Orders -> Int] /\ d \in [Orders -> Int]
  BY <1>2
<1>4. \A x \in Orders \ {o} : f[x] = e[x] /\ d[x] = c[x]
  BY DEF OrderAsks
<1>5. e[o] = sold[o][p] /\ f[o] = sold'[o][p]
      /\ c[o] = OrderClaims(o)[p] /\ d[o] = OrderClaims(o)'[p]
  OBVIOUS
<1>6. /\ SoldTotal(p) = SumFunction(e) /\ SoldTotal(p)' = SumFunction(f)
      /\ OrdersTotal(p) = SumFunction(c) /\ OrdersTotal(p)' = SumFunction(d)
  BY DEF SoldTotal, OrdersTotal
<1> HIDE DEF e, f, c, d
<1>7. SumFunction(f) = SumFunction(e) + (f[o] - e[o])
  BY <1>1, <1>4, FiniteHolders, SumFunctionChange
<1>8. SumFunction(d) = SumFunction(c) + (d[o] - c[o])
  BY <1>3, <1>4, FiniteHolders, SumFunctionChange
<1> QED BY <1>5, <1>6, <1>7, <1>8

\* ... and so does the step of one apartado.
LEMMA HoldMovesTotals ==
  ASSUME HoldsInv, HoldsInv', NEW r \in Reservations, HoldAsks(r), NEW p \in Products
  PROVE  HoldsTotal(p)' = HoldsTotal(p) + (HoldClaims(r)'[p] - HoldClaims(r)[p])
<1> DEFINE c == [x \in Reservations |-> HoldClaims(x)[p]]
           d == [x \in Reservations |-> HoldClaims(x)'[p]]
<1>1. \A x \in Reservations : HoldClaims(x)[p] \in Nat /\ HoldClaims(x)'[p] \in Nat
  BY DEF HoldClaims, HoldsInv, ReservationTypeOK, Need
<1>2. c \in [Reservations -> Int] /\ d \in [Reservations -> Int]
  BY <1>1
<1>3. \A x \in Reservations \ {r} : d[x] = c[x]
  BY DEF HoldAsks
<1>4. c[r] = HoldClaims(r)[p] /\ d[r] = HoldClaims(r)'[p]
  OBVIOUS
<1>5. HoldsTotal(p) = SumFunction(c) /\ HoldsTotal(p)' = SumFunction(d)
  BY DEF HoldsTotal
<1> HIDE DEF c, d
<1>6. SumFunction(d) = SumFunction(c) + (d[r] - c[r])
  BY <1>2, <1>3, FiniteHolders, SumFunctionChange
<1> QED BY <1>4, <1>5, <1>6

-----------------------------------------------------------------------------
(* The books of the warehouse. *)

BooksInv == UnitsConserved /\ NoStrandedReserve

\* The books of an empty warehouse.
LEMMA InitBooks == Init => BooksInv
<1> SUFFICES ASSUME Init, NEW p \in Products
             PROVE  /\ stock[p].quantity = intake[p] - SoldTotal(p)
                    /\ stock[p].reserved <= ClaimedTotal(p) + held[Manual][p]
  BY DEF BooksInv, UnitsConserved, NoStrandedReserve
<1>1. IInv
  BY InitInv
<1>2. OrdersInv /\ HoldsInv
  BY <1>1 DEF IInv
<1>3. /\ OrdersTotal(p) \in Int /\ OrdersTotal(p) >= 0
      /\ HoldsTotal(p) \in Int /\ HoldsTotal(p) >= 0
  BY <1>2, TotalsType
<1>4. SoldTotal(p) = 0
  <2>1. [o \in Orders |-> sold[o][p]] \in [Orders -> Int]
    BY <1>2 DEF OrdersInv, OrdersTypeOK, Need
  <2>2. \A o \in Orders : [x \in Orders |-> sold[x][p]][o] = 0
    BY DEF Init, OrdersInit, NoLines
  <2> QED BY <2>1, <2>2, FiniteHolders, SumFunctionFacts DEF SoldTotal
<1>5. stock[p].quantity = 0 /\ stock[p].reserved = 0 /\ intake[p] = 0 /\ held[Manual][p] = 0
  BY InventoryAssumption DEF Init, StockInit, InventoryInit
<1> QED BY <1>3, <1>4, <1>5, ClaimedIsClaims

\* Every step keeps the books.
LEMMA NextBooks == IInv /\ IInv' /\ BooksInv /\ [Next]_vars => BooksInv'
<1> SUFFICES ASSUME IInv, IInv', BooksInv, [Next]_vars, NEW p \in Products
             PROVE  /\ stock'[p].quantity = intake'[p] - SoldTotal(p)'
                    /\ stock'[p].reserved <= ClaimedTotal(p)' + held'[Manual][p]
  BY DEF BooksInv, UnitsConserved, NoStrandedReserve
<1> USE OrdersAssumption, ReservationsAssumption, InventoryAssumption, HoldersAssumption
<1>1. /\ Rows /\ OrdersInv /\ HoldsInv /\ InventoryTypeOK
      /\ Rows' /\ OrdersInv' /\ HoldsInv' /\ InventoryTypeOK'
  BY DEF IInv
<1>2. /\ stock[p].quantity = intake[p] - SoldTotal(p)
      /\ stock[p].reserved <= OrdersTotal(p) + HoldsTotal(p) + held[Manual][p]
  BY ClaimedIsClaims DEF BooksInv, UnitsConserved, NoStrandedReserve
<1>3. /\ stock[p].quantity \in Nat /\ stock[p].reserved \in Nat
      /\ stock'[p].quantity \in Nat /\ stock'[p].reserved \in Nat
      /\ held[Manual][p] \in Nat /\ held'[Manual][p] \in Nat
      /\ intake[p] \in Int
  BY <1>1 DEF Rows, StockRow, Need, InventoryTypeOK
<1>4. /\ SoldTotal(p) \in Int
      /\ OrdersTotal(p) \in Int /\ OrdersTotal(p) >= 0
      /\ HoldsTotal(p) \in Int /\ HoldsTotal(p) >= 0
  BY <1>1, TotalsType
<1>5. SUFFICES /\ stock'[p].quantity = intake'[p] - SoldTotal(p)'
               /\ stock'[p].reserved <= OrdersTotal(p)' + HoldsTotal(p)' + held'[Manual][p]
  BY ClaimedIsClaims
<1>6. ASSUME UNCHANGED orderVars
      PROVE  SoldTotal(p)' = SoldTotal(p) /\ OrdersTotal(p)' = OrdersTotal(p)
  BY <1>6 DEF SoldTotal, OrdersTotal, OrderClaims, Active, orderVars
<1>7. ASSUME UNCHANGED <<hold, wanted>>
      PROVE  HoldsTotal(p)' = HoldsTotal(p)
  BY <1>7 DEF HoldsTotal, HoldClaims
<1>8. CASE OrdersStep
  <2>1. PICK o \in Orders : CartStep(o) \/ Transition(o) \/ HeaderEdit(o)
    BY <1>8 DEF OrdersStep, OrdersNext
  <2>2. OrderAsks(o) /\ Only(o)
    BY <1>1, <2>1, OrderStepAsks, OrderSteps
  <2>3. PICK units \in Need :
          /\ Sells(o, units)
          /\ \/ Call(o, OrderClaims(o), OrderClaims(o)', units)
             \/ Preventa(OrderClaims(o), OrderClaims(o)', units)
    BY <2>2 DEF OrderAsks
  <2>4. OrderClaims(o) \in Need /\ OrderClaims(o)' \in Need
    BY <1>1 DEF OrdersInv, OrdersTypeOK, OrderClaims, Active, Need
  <2>5. Books(p, OrderClaims(o), OrderClaims(o)', units)
    BY <1>1, <2>3, <2>4, CallBooks
  <2>6. /\ SoldTotal(p)' = SoldTotal(p) + (sold'[o][p] - sold[o][p])
        /\ OrdersTotal(p)' = OrdersTotal(p) + (OrderClaims(o)'[p] - OrderClaims(o)[p])
    BY <1>1, <2>2, OrderMovesTotals
  <2>7. /\ HoldsTotal(p)' = HoldsTotal(p) /\ intake'[p] = intake[p]
        /\ held'[Manual][p] = held[Manual][p]
    BY <1>7, <1>8, <2>2 DEF OrdersStep, holdVars, Only
  <2>8. /\ sold[o][p] \in Nat /\ units[p] \in Nat
        /\ sold'[o][p] = sold[o][p] + units[p]
        /\ OrderClaims(o)[p] \in Nat /\ OrderClaims(o)'[p] \in Nat
    BY <1>1, <2>3, <2>4 DEF Sells, OrdersInv, OrdersTypeOK, Need
  <2>9. OrdersTotal(p)' \in Int /\ OrdersTotal(p)' >= 0
    BY <1>1, TotalsTypeAfter
  <2>10. stock'[p].quantity = stock[p].quantity - units[p]
    BY <2>5 DEF Books
  <2>11. stock'[p].quantity = intake'[p] - SoldTotal(p)'
    BY <1>2, <1>3, <1>4, <2>6, <2>7, <2>8, <2>10
  <2>12. stock'[p].reserved <= OrdersTotal(p)' + HoldsTotal(p)' + held'[Manual][p]
    BY <1>2, <1>3, <1>4, <2>5, <2>6, <2>7, <2>8, <2>9 DEF Books
  <2> QED BY <2>11, <2>12
<1>9. CASE ReservationStep
  <2>1. /\ SoldTotal(p)' = SoldTotal(p) /\ OrdersTotal(p)' = OrdersTotal(p)
        /\ intake'[p] = intake[p]
    BY <1>6, <1>9 DEF ReservationStep
  <2>2. held'[Manual] = held[Manual]
    BY <1>1, <1>9, CustomerSteps, CronSteps DEF ReservationStep, ReservationNext, Only
  <2>3. CASE UNCHANGED <<hold, wanted, stockVars>>
    BY <1>2, <1>7, <2>1, <2>2, <2>3 DEF stockVars
  <2>4. CASE \E r \in Reservations : HoldAsks(r)
    <3>1. PICK r \in Reservations : HoldAsks(r)
      BY <2>4
    <3>2. HoldClaims(r) \in Need /\ HoldClaims(r)' \in Need /\ NoLines[p] = 0
      BY <1>1 DEF HoldsInv, ReservationTypeOK, HoldClaims, Need, NoLines
    <3>3. Books(p, HoldClaims(r), HoldClaims(r)', NoLines)
      BY <1>1, <3>1, <3>2, CallBooks DEF HoldAsks
    <3>4. HoldsTotal(p)' = HoldsTotal(p) + (HoldClaims(r)'[p] - HoldClaims(r)[p])
      BY <1>1, <3>1, HoldMovesTotals
    <3>5. HoldClaims(r)[p] \in Nat /\ HoldClaims(r)'[p] \in Nat
      BY <3>2 DEF Need
    <3>6. HoldsTotal(p)' \in Int /\ HoldsTotal(p)' >= 0
      BY <1>1, TotalsTypeAfter
    <3>7. stock'[p].quantity = stock[p].quantity
      BY <1>3, <3>2, <3>3 DEF Books
    <3>8. stock'[p].reserved <= OrdersTotal(p)' + HoldsTotal(p)' + held'[Manual][p]
      BY <1>2, <1>3, <1>4, <2>1, <2>2, <3>3, <3>4, <3>5, <3>6 DEF Books
    <3> QED BY <1>2, <2>1, <3>7, <3>8
  <2> QED BY <1>1, <1>9, <2>3, <2>4, CustomerAsks, CronAsks DEF ReservationStep, ReservationNext
<1>10. CASE InventoryStep
  <2>1. /\ SoldTotal(p)' = SoldTotal(p) /\ OrdersTotal(p)' = OrdersTotal(p)
        /\ HoldsTotal(p)' = HoldsTotal(p)
    BY <1>6, <1>7, <1>10 DEF InventoryStep, holdVars
  <2>2. /\ stock'[p].quantity - intake'[p] = stock[p].quantity - intake[p]
        /\ stock'[p].reserved - held'[Manual][p] <= stock[p].reserved - held[Manual][p]
    BY <1>1, <1>10, InventoryMoves, MoveBalances DEF InventoryStep
  <2>3. intake'[p] \in Int
    BY <1>1 DEF InventoryTypeOK
  <2> QED BY <1>2, <1>3, <1>4, <2>1, <2>2, <2>3
<1>11. CASE Freeze \/ Thaw \/ UNCHANGED vars
  <2>1. UNCHANGED <<stockVars, orderVars, hold, wanted, intake>>
    BY <1>11 DEF Freeze, Thaw, vars, holdVars
  <2> QED BY <1>2, <1>6, <1>7, <2>1 DEF stockVars
<1> QED BY <1>8, <1>9, <1>10, <1>11 DEF Next

\* Every unit on the shelf came in, and every unit that left was sold once.
THEOREM UnitsAreConserved == Spec => []UnitsConserved
<1>1. BooksInv => UnitsConserved
  BY DEF BooksInv
<1> QED BY <1>1, Inductive, InitBooks, NextBooks, PTL DEF Spec

\* The counter never holds units for nobody, whoever gave back and however
\* late: with every order and apartado closed only the operators reserve.
THEOREM NothingIsStranded == Spec => []NoStrandedReserve
<1>1. BooksInv => NoStrandedReserve
  BY DEF BooksInv
<1> QED BY <1>1, Inductive, InitBooks, NextBooks, PTL DEF Spec

-----------------------------------------------------------------------------
(* The setting in which the counter is exact: every order reserves when it   *)
(* is accepted, no cron competes with a release, and the operators give back *)
(* nothing by hand.                                                          *)

ExactSetting ==
  /\ DatedOrders = {}
  /\ Instances = {}
  /\ HandKinds \cap {"release", "sale"} = {}

\* Nobody holds more or less than it claims, and the counter is the sum.
ExactInv ==
  /\ \A o \in Orders : ~dated[o]
  /\ \A o \in Orders, p \in Products : held[o][p] = OrderClaims(o)[p]
  /\ ReserveExact

\* h moves its own units: the counter follows its account, and the shelf
\* loses units of its account or none.
Honest(h) ==
  /\ Only(h)
  /\ \A p \in Products : stock'[p].reserved - stock[p].reserved = held'[h][p] - held[h][p]
  /\ \/ \A p \in Products :
          stock'[p].quantity = stock[p].quantity /\ held'[h][p] >= held[h][p]
     \/ \A p \in Products :
          stock'[p].quantity = stock[p].quantity /\ held'[h][p] <= held[h][p]
     \/ \A p \in Products :
          /\ held'[h][p] <= held[h][p]
          /\ stock[p].quantity - stock'[p].quantity = held[h][p] - held'[h][p]
     \/ held' = held

\* A call by a holder that holds what it claims takes from the counter what
\* is its own.
LEMMA CallIsHonest ==
  ASSUME Rows, NEW h \in Holders, NEW before \in Need, NEW after \in Need, NEW units,
         Call(h, before, after, units),
         \A p \in Products : held[h][p] = before[p] /\ before[p] <= stock[p].reserved
  PROVE  Honest(h) /\ \A p \in Products : held'[h][p] = after[p]
<1>1. \A p \in Products : before[p] \in Nat /\ after[p] \in Nat
  BY DEF Need
<1>2. ASSUME NEW need \in Need, Reserve(h, need),
             \A p \in Products : after[p] = before[p] + need[p]
      PROVE  Honest(h) /\ \A p \in Products : held'[h][p] = after[p]
  <2>1. Only(h) /\ \A p \in Products : held'[h][p] = held[h][p] + need[p]
    BY <1>2, ReserveKeepsRows DEF Only
  <2>2. \A p \in Products :
          /\ need[p] \in Nat /\ stock[p].reserved \in Nat
          /\ stock'[p].quantity = stock[p].quantity
          /\ stock'[p].reserved = stock[p].reserved + need[p]
    BY <1>2, PrimitiveOnRow
  <2>3. \A p \in Products :
          /\ held'[h][p] = after[p]
          /\ stock'[p].reserved - stock[p].reserved = held'[h][p] - held[h][p]
          /\ stock'[p].quantity = stock[p].quantity /\ held'[h][p] >= held[h][p]
    BY <1>1, <1>2, <2>1, <2>2
  <2> QED BY <2>1, <2>3 DEF Honest
<1>3. ASSUME NEW need \in Need, GiveBack(h, need),
             \A p \in Products : after[p] = before[p] - need[p]
      PROVE  Honest(h) /\ \A p \in Products : held'[h][p] = after[p]
  <2>1. /\ Only(h)
        /\ \A p \in Products :
             held'[h][p] = IF held[h][p] < need[p] THEN 0 ELSE held[h][p] - need[p]
    BY <1>3, GiveBackKeepsRows DEF Only
  <2>2. \A p \in Products :
          /\ need[p] \in Nat /\ stock[p].reserved \in Nat
          /\ stock'[p].quantity = stock[p].quantity
          /\ stock'[p].reserved = IF stock[p].reserved < need[p] THEN 0
                                  ELSE stock[p].reserved - need[p]
    BY <1>3, PrimitiveOnRow
  <2>3. \A p \in Products :
          /\ held'[h][p] = after[p]
          /\ stock'[p].reserved - stock[p].reserved = held'[h][p] - held[h][p]
          /\ stock'[p].quantity = stock[p].quantity /\ held'[h][p] <= held[h][p]
    BY <1>1, <1>3, <2>1, <2>2
  <2> QED BY <2>1, <2>3 DEF Honest
<1>4. ASSUME NEW need \in Need, Consume(h, need),
             \A p \in Products : after[p] = before[p] - need[p]
      PROVE  Honest(h) /\ \A p \in Products : held'[h][p] = after[p]
  <2>1. /\ Only(h)
        /\ \A p \in Products :
             held'[h][p] = IF held[h][p] < need[p] THEN 0 ELSE held[h][p] - need[p]
    BY <1>4, ConsumeKeepsRows DEF Only
  <2>2. \A p \in Products :
          /\ need[p] \in Nat /\ stock[p].reserved \in Nat /\ stock[p].quantity \in Nat
          /\ stock'[p].quantity = stock[p].quantity - need[p]
          /\ stock'[p].reserved = IF stock[p].reserved < need[p] THEN 0
                                  ELSE stock[p].reserved - need[p]
    BY <1>4, PrimitiveOnRow
  <2>3. \A p \in Products :
          /\ held'[h][p] = after[p]
          /\ stock'[p].reserved - stock[p].reserved = held'[h][p] - held[h][p]
          /\ held'[h][p] <= held[h][p]
          /\ stock[p].quantity - stock'[p].quantity = held[h][p] - held'[h][p]
    BY <1>1, <1>4, <2>1, <2>2
  <2> QED BY <2>1, <2>3 DEF Honest
<1>5. ASSUME NEW need \in Need, ReserveAndConsume(need),
             \A p \in Products : after[p] = before[p]
      PROVE  Honest(h) /\ \A p \in Products : held'[h][p] = after[p]
  <2>1. held' = held
    BY <1>5 DEF ReserveAndConsume
  <2>2. \A p \in Products : stock[p].reserved \in Nat /\ stock'[p].reserved = stock[p].reserved
    BY <1>5, PrimitiveOnRow
  <2>3. \A p \in Products :
          /\ held'[h][p] = after[p]
          /\ stock'[p].reserved - stock[p].reserved = held'[h][p] - held[h][p]
    BY <1>1, <1>5, <2>1, <2>2
  <2> QED BY <2>1, <2>3 DEF Honest, Only
<1>6. ASSUME UNCHANGED stockVars, \A p \in Products : after[p] = before[p]
      PROVE  Honest(h) /\ \A p \in Products : held'[h][p] = after[p]
  <2>1. held' = held /\ stock' = stock
    BY <1>6 DEF stockVars
  <2>2. \A p \in Products :
          /\ held'[h][p] = after[p]
          /\ stock'[p].reserved - stock[p].reserved = held'[h][p] - held[h][p]
    BY <1>1, <1>6, <2>1 DEF Rows, StockRow
  <2> QED BY <2>1, <2>2 DEF Honest, Only
<1> QED BY <1>2, <1>3, <1>4, <1>5, <1>6 DEF Call

\* An account of a warehouse whose counter is exact is covered by it.
LEMMA AccountWithinCounter ==
  ASSUME Rows, ReserveExact, NEW h \in Holders, NEW p \in Products
  PROVE  held[h][p] <= stock[p].reserved
<1> DEFINE accounts == [g \in Holders |-> held[g][p]]
<1>1. accounts \in [Holders -> Int] /\ \A g \in Holders : accounts[g] >= 0
  BY DEF Rows, Need
<1>2. accounts[h] = held[h][p] /\ stock[p].reserved = SumFunction(accounts)
  BY DEF ReserveExact, HeldTotal
<1> HIDE DEF accounts
<1> QED BY <1>1, <1>2, FiniteHolders, SumFunctionFacts

\* An honest step leaves the counter exact.
LEMMA HonestKeepsExact ==
  ASSUME Rows, Rows', ReserveExact, NEW h \in Holders, Honest(h)
  PROVE  ReserveExact'
<1> SUFFICES ASSUME NEW p \in Products PROVE stock'[p].reserved = HeldTotal(p)'
  BY DEF ReserveExact
<1> DEFINE e == [g \in Holders |-> held[g][p]]
           f == [g \in Holders |-> held'[g][p]]
<1>1. e \in [Holders -> Int] /\ f \in [Holders -> Int]
  BY DEF Rows, Need
<1>2. \A g \in Holders \ {h} : f[g] = e[g]
  BY DEF Honest, Only
<1>3. e[h] = held[h][p] /\ f[h] = held'[h][p]
  OBVIOUS
<1>4. stock[p].reserved = SumFunction(e) /\ HeldTotal(p)' = SumFunction(f)
  BY DEF ReserveExact, HeldTotal
<1>5. stock[p].reserved \in Int /\ stock'[p].reserved \in Int
  BY DEF Rows, StockRow
<1> HIDE DEF e, f
<1>6. SumFunction(f) = SumFunction(e) + (f[h] - e[h])
  BY <1>1, <1>2, FiniteHolders, SumFunctionChange
<1>7. stock'[p].reserved - stock[p].reserved = held'[h][p] - held[h][p]
  BY DEF Honest
<1>8. e[h] \in Int /\ f[h] \in Int
  BY <1>1
<1> QED BY <1>3, <1>4, <1>5, <1>6, <1>7, <1>8

\* A movement by hand that lowers no counter is honest.
LEMMA MoveIsHonest ==
  ASSUME Rows, InventoryTypeOK, NEW p \in Products, NEW quantity \in Nat, NEW reserved \in Nat,
         quantity >= reserved, Move(p, quantity, reserved), reserved >= stock[p].reserved,
         reserved > stock[p].reserved => quantity = stock[p].quantity
  PROVE  Honest(Manual)
<1> USE InventoryAssumption
<1>1. /\ \A q \in Products : stock[q].reserved \in Nat /\ stock'[q].reserved \in Nat
      /\ \A q \in Products : held[Manual][q] \in Nat /\ held'[Manual][q] \in Nat
      /\ Only(Manual)
  BY MoveKeepsRows DEF Rows, StockRow, Need
<1>2. \A q \in Products :
        stock'[q].reserved - held'[Manual][q] = stock[q].reserved - held[Manual][q]
  BY MoveBalances
<1>3. \A q \in Products :
        stock'[q].reserved - stock[q].reserved = held'[Manual][q] - held[Manual][q]
  BY <1>1, <1>2
<1>4. CASE reserved = stock[p].reserved
  <2>1. held' = [held EXCEPT ![Manual] = [held[Manual] EXCEPT ![p] = @ + 0]]
    <3>1. reserved >= stock[p].reserved /\ reserved - stock[p].reserved = 0
      BY <1>1, <1>4
    <3> QED BY <3>1 DEF Move, Rows, Need
  <2>2. held[Manual][p] + 0 = held[Manual][p]
    BY <1>1
  <2>3. held' = held
    BY <2>1, <2>2 DEF Rows, Need
  <2> QED BY <1>1, <1>3, <2>3 DEF Honest
<1>5. CASE reserved > stock[p].reserved
  <2>1. \A q \in Products : stock'[q].quantity = stock[q].quantity
    BY <1>5 DEF Move, Rows, StockRow
  <2>2. \A q \in Products : stock'[q].reserved >= stock[q].reserved
    BY <1>1, <1>5 DEF Move, Rows, StockRow
  <2>3. \A q \in Products : held'[Manual][q] >= held[Manual][q]
    BY <1>1, <1>3, <2>2
  <2> QED BY <1>1, <1>3, <2>1, <2>3 DEF Honest
<1> QED BY <1>1, <1>4, <1>5

\* In the exact setting every step is honest and leaves every holder with
\* what it claims.
LEMMA StepsAreHonest ==
  ASSUME ExactSetting, IInv, IInv', ExactInv, [Next]_vars
  PROVE  ExactInv' /\ \E h \in Holders : Honest(h)
<1> USE OrdersAssumption, ReservationsAssumption, InventoryAssumption, HoldersAssumption
<1>1. /\ Rows /\ OrdersInv /\ HoldsInv /\ InventoryTypeOK
      /\ Rows' /\ OrdersInv' /\ HoldsInv'
  BY DEF IInv
<1>2. /\ \A o \in Orders : ~dated[o]
      /\ \A o \in Orders, p \in Products : held[o][p] = OrderClaims(o)[p]
      /\ ReserveExact
  BY DEF ExactInv
<1>3. SUFFICES /\ \A o \in Orders : ~dated'[o]
               /\ \A o \in Orders, p \in Products : held'[o][p] = OrderClaims(o)'[p]
               /\ \E h \in Holders : Honest(h)
  BY <1>1, <1>2, HonestKeepsExact DEF ExactInv
<1>4. ASSUME UNCHANGED orderVars, \A o \in Orders : held'[o] = held[o]
      PROVE  /\ \A o \in Orders : ~dated'[o]
             /\ \A o \in Orders, p \in Products : held'[o][p] = OrderClaims(o)'[p]
  <2>1. \A o \in Orders : OrderClaims(o)' = OrderClaims(o)
    BY <1>4, SameClaims DEF orderVars
  <2> QED BY <1>2, <1>4, <2>1 DEF orderVars
<1>5. CASE OrdersStep
  <2>1. PICK o \in Orders : CartStep(o) \/ Transition(o) \/ HeaderEdit(o)
    BY <1>5 DEF OrdersStep, OrdersNext
  <2>2. OrderAsks(o) /\ Only(o)
    BY <1>1, <2>1, OrderStepAsks, OrderSteps
  <2>3. PICK units \in Need : Call(o, OrderClaims(o), OrderClaims(o)', units)
    BY <1>2, <2>2 DEF OrderAsks, ExactSetting
  <2>4. OrderClaims(o) \in Need /\ OrderClaims(o)' \in Need
    BY <1>1 DEF OrdersInv, OrdersTypeOK, OrderClaims, Active, Need
  <2>5. \A p \in Products :
          held[o][p] = OrderClaims(o)[p] /\ OrderClaims(o)[p] <= stock[p].reserved
    BY <1>1, <1>2, AccountWithinCounter
  <2>6. Honest(o) /\ \A p \in Products : held'[o][p] = OrderClaims(o)'[p]
    BY <1>1, <2>3, <2>4, <2>5, CallIsHonest
  <2>7. \A x \in Orders \ {o} : held'[x] = held[x] /\ OrderClaims(x)' = OrderClaims(x)
    BY <2>2 DEF Only, OrderAsks
  <2>8. \A x \in Orders, p \in Products : held'[x][p] = OrderClaims(x)'[p]
    BY <1>2, <2>6, <2>7
  <2>9. \A x \in Orders : ~dated'[x]
    BY <1>1, <1>2, <2>1 DEF CartStep, Transition, HeaderEdit, CreateDraft, AddLine, ReplaceLines,
       UpdateDraftLine, UpdatePendingLine, RemoveLine, Confirm, Approve, PlaceDraft, PlacePending,
       Fulfill, DeliverDraft, DeliverActive, Cancel, Dates, ExactSetting, OrdersInv, OrdersTypeOK
  <2> QED BY <2>6, <2>8, <2>9
<1>6. CASE ReservationStep
  <2>1. PICK r \in Reservations : CustomerStep(r)
    BY <1>6 DEF ReservationStep, ReservationNext, ExactSetting
  <2>2. HoldAsks(r) /\ Only(r)
    BY <1>1, <2>1, CustomerAsks, CustomerSteps
  <2>3. Call(r, HoldClaims(r), HoldClaims(r)', NoLines)
    BY <2>2 DEF HoldAsks, ExactSetting
  <2>4. HoldClaims(r) \in Need /\ HoldClaims(r)' \in Need
    BY <1>1 DEF HoldsInv, ReservationTypeOK, HoldClaims, Need
  <2>5. \A p \in Products :
          held[r][p] = HoldClaims(r)[p] /\ HoldClaims(r)[p] <= stock[p].reserved
    BY <1>1, <1>2, HoldClaimsAreNeeds, AccountWithinCounter
  <2>6. Honest(r)
    BY <1>1, <2>3, <2>4, <2>5, CallIsHonest
  <2>7. \A o \in Orders : held'[o] = held[o]
    BY <2>2 DEF Only
  <2> QED BY <1>4, <1>6, <2>6, <2>7 DEF ReservationStep
<1>7. CASE InventoryStep
  <2>1. Honest(Manual)
    BY <1>1, <1>7, InventoryMoves, MoveIsHonest DEF InventoryStep, ExactSetting
  <2>2. \A o \in Orders : held'[o] = held[o]
    BY <2>1 DEF Honest, Only
  <2> QED BY <1>4, <1>7, <2>1, <2>2 DEF InventoryStep
<1>8. CASE Freeze \/ Thaw \/ UNCHANGED vars
  <2>1. UNCHANGED <<stock, held>> /\ UNCHANGED orderVars
    BY <1>8 DEF Freeze, Thaw, vars, stockVars
  <2>2. Honest(Manual)
    <3>1. \A p \in Products : stock[p].reserved \in Int /\ held[Manual][p] \in Int
      BY <1>1 DEF Rows, StockRow, Need
    <3>2. \A p \in Products :
            stock'[p].reserved - stock[p].reserved = held'[Manual][p] - held[Manual][p]
      BY <2>1, <3>1
    <3> QED BY <2>1, <3>2 DEF Honest, Only
  <2> QED BY <1>4, <2>1, <2>2
<1> QED BY <1>5, <1>6, <1>7, <1>8 DEF Next

-----------------------------------------------------------------------------
(* What holds in that setting. *)

\* In an empty warehouse nobody claims, nobody holds.
LEMMA InitExact == Init => ExactInv
<1> SUFFICES ASSUME Init PROVE ExactInv
  OBVIOUS
<1>1. IInv
  BY InitInv
<1>2. \A o \in Orders : ~dated[o] /\ ~Active(o)
  BY DEF Init, OrdersInit, Active
<1>3. \A o \in Orders, p \in Products : held[o][p] = OrderClaims(o)[p]
  BY <1>2, OrdersAssumption DEF Init, StockInit, OrderClaims
<1>4. ASSUME NEW p \in Products PROVE stock[p].reserved = HeldTotal(p)
  <2>1. [h \in Holders |-> held[h][p]] \in [Holders -> Int]
    BY <1>1 DEF IInv, Rows, Need
  <2>2. \A h \in Holders : [g \in Holders |-> held[g][p]][h] = 0
    BY DEF Init, StockInit
  <2>3. HeldTotal(p) = 0
    BY <2>1, <2>2, FiniteHolders, SumFunctionFacts DEF HeldTotal
  <2> QED BY <2>3 DEF Init, StockInit
<1> QED BY <1>2, <1>3, <1>4 DEF ExactInv, ReserveExact

\* The exact books hold in every reachable state of the setting.
THEOREM ExactInductive ==
  ASSUME ExactSetting
  PROVE  Spec => [](IInv /\ ExactInv)
<1>1. Init => IInv /\ ExactInv
  BY InitInv, InitExact
<1>2. IInv /\ ExactInv /\ [Next]_vars => (IInv /\ ExactInv)'
  BY NextInv, StepsAreHonest
<1> QED BY <1>1, <1>2, PTL DEF Spec

\* Where every order reserves and nobody competes with a release, the one
\* counter per product is the sum of the accounts of its holders.
THEOREM ReserveIsExact ==
  ASSUME ExactSetting
  PROVE  Spec => []ReserveExact
<1>1. IInv /\ ExactInv => ReserveExact
  BY DEF ExactInv
<1> QED BY <1>1, ExactInductive, PTL

\* What orders and apartados claim is part of what is held.
LEMMA ClaimsWithinHeld ==
  ASSUME IInv, ExactInv, NEW p \in Products
  PROVE  ClaimedTotal(p) <= HeldTotal(p)
<1> DEFINE accounts == [h \in Holders |-> held[h][p]]
           claims == [o \in Orders |-> OrderClaims(o)[p]]
           holds == [r \in Reservations |-> HoldClaims(r)[p]]
<1>1. Rows /\ HoldsInv /\ \A o \in Orders : held[o][p] = OrderClaims(o)[p]
  BY DEF IInv, ExactInv
<1>2. \A h \in Holders : accounts[h] \in Nat
  BY <1>1 DEF Rows, Need
<1>3. \A o \in Orders : claims[o] = accounts[o]
  BY <1>1, OrdersAssumption
<1>4. \A r \in Reservations : holds[r] = accounts[r]
  BY <1>1, HoldClaimsAreNeeds, ReservationsAssumption
<1>5. /\ HeldTotal(p) = SumFunctionOnSet(accounts, Holders)
      /\ OrdersTotal(p) = SumFunctionOnSet(claims, Orders)
      /\ HoldsTotal(p) = SumFunctionOnSet(holds, Reservations)
  BY DEF HeldTotal, OrdersTotal, HoldsTotal, SumFunction
<1>6. Orders \subseteq Holders /\ Reservations \subseteq Holders /\ Orders \cap Reservations = {}
  BY OrdersAssumption, ReservationsAssumption, HoldersAssumption
<1> HIDE DEF accounts, claims, holds
<1>7. SumFunctionOnSet(claims, Orders) = SumFunctionOnSet(accounts, Orders)
  <2>1. \A o \in Orders : accounts[o] \in Int /\ claims[o] = accounts[o]
    BY <1>2, <1>3, <1>6
  <2> QED BY <2>1, FiniteHolders, SumCongruent
<1>8. SumFunctionOnSet(holds, Reservations) = SumFunctionOnSet(accounts, Reservations)
  <2>1. \A r \in Reservations : accounts[r] \in Int /\ holds[r] = accounts[r]
    BY <1>2, <1>4, <1>6
  <2> QED BY <2>1, FiniteHolders, SumCongruent
<1>9. SumFunctionOnSet(accounts, Orders \union Reservations)
        = SumFunctionOnSet(accounts, Orders) + SumFunctionOnSet(accounts, Reservations)
  <2>1. \A x \in Orders \union Reservations : accounts[x] \in Int
    BY <1>2, <1>6
  <2> QED BY <1>6, <2>1, FiniteHolders, SumUnion
<1>10. SumFunctionOnSet(accounts, Orders \union Reservations) <= SumFunctionOnSet(accounts, Holders)
  <2>1. Orders \union Reservations \in SUBSET Holders
    BY <1>6
  <2> QED BY <1>2, <2>1, FiniteHolders, SumPart
<1>11. ClaimedTotal(p) = SumFunctionOnSet(accounts, Orders \union Reservations)
  BY <1>5, <1>7, <1>8, <1>9, ClaimedIsClaims, Zenon
<1> QED BY <1>5, <1>10, <1>11, Zenon

\* Every accepted order and open apartado can be delivered, all at once.
THEOREM NeverOversold ==
  ASSUME ExactSetting
  PROVE  Spec => []NoOverselling
<1>1. ASSUME IInv, ExactInv PROVE NoOverselling
  <2>1. SUFFICES ASSUME NEW p \in Products PROVE ClaimedTotal(p) <= stock[p].quantity
    BY DEF NoOverselling
  <2>2. ClaimedTotal(p) <= stock[p].reserved
    BY <1>1, ClaimsWithinHeld DEF ExactInv, ReserveExact
  <2>3. /\ stock[p].reserved \in Int /\ stock[p].quantity \in Int
        /\ stock[p].reserved <= stock[p].quantity
    BY <1>1 DEF IInv, Rows, StockRow, StockSound
  <2>4. ClaimedTotal(p) \in Int
    BY <1>1, TotalsType, ClaimedIsClaims DEF IInv
  <2> QED BY <2>2, <2>3, <2>4
<1> QED BY <1>1, ExactInductive, PTL

-----------------------------------------------------------------------------
(* The refinement. *)

\* The shelf covers the accounts.
LEMMA ExactIsCovered ==
  ASSUME IInv', ExactInv'
  PROVE  Promise!Covered'
<1>1. SUFFICES ASSUME NEW p \in Products
               PROVE  Promise!Promised(p)' <= [q \in Products |-> stock'[q].quantity][p]
  BY DEF Promise!Covered
<1>2. Promise!Promised(p)' = HeldTotal(p)'
  BY DEF Promise!Promised, HeldTotal, SumFunction, SumFunctionOnSet, FoldFunctionOnSet,
         MapThenFoldSet, Promise!SumFunction, Promise!SumFunctionOnSet,
         Promise!FoldFunctionOnSet, Promise!MapThenFoldSet
<1>3. stock'[p].reserved = HeldTotal(p)' /\ stock'[p].quantity >= stock'[p].reserved
      /\ stock'[p].reserved \in Int /\ stock'[p].quantity \in Int
  BY DEF IInv, Rows, StockRow, StockSound, ExactInv, ReserveExact
<1> QED BY <1>2, <1>3

\* An honest step into a covered state is a step of the promise.
LEMMA HonestHonours ==
  ASSUME NEW h \in Holders, Honest(h), Promise!Covered'
  PROVE  Promise!PromiseNext
<1> DEFINE shelf == [p \in Products |-> stock[p].quantity]
<1>1. Promise!OnlyOf(h)
  BY DEF Honest, Only, Promise!OnlyOf
<1>2. CASE \A p \in Products :
             stock'[p].quantity = stock[p].quantity /\ held'[h][p] >= held[h][p]
  <2>1. shelf' = shelf
    BY <1>2
  <2> QED BY <1>1, <1>2, <2>1 DEF Promise!Allot, Promise!PromiseNext
<1>3. CASE \A p \in Products :
             stock'[p].quantity = stock[p].quantity /\ held'[h][p] <= held[h][p]
  <2>1. shelf' = shelf
    BY <1>3
  <2> QED BY <1>1, <1>3, <2>1 DEF Promise!Return, Promise!PromiseNext
<1>4. CASE \A p \in Products :
             /\ held'[h][p] <= held[h][p]
             /\ stock[p].quantity - stock'[p].quantity = held[h][p] - held'[h][p]
  <2>1. \A p \in Products : shelf[p] - shelf'[p] = held[h][p] - held'[h][p]
    BY <1>4
  <2> QED BY <1>1, <1>4, <2>1 DEF Promise!Deliver, Promise!PromiseNext
<1>5. CASE held' = held
  BY <1>5 DEF Promise!Rebalance, Promise!PromiseNext
<1> QED BY <1>2, <1>3, <1>4, <1>5 DEF Honest

\* One counter per product keeps the promise of an account per holder: every
\* handler allots, returns, delivers or rebalances.
THEOREM KeepsThePromise ==
  ASSUME ExactSetting
  PROVE  Spec => HonoursPromise
<1>1. Init => Promise!PromiseInit
  BY DEF Init, StockInit, Promise!PromiseInit
<1>2. ASSUME IInv, ExactInv, IInv', ExactInv', [Next]_vars
      PROVE  Promise!PromiseNext
  BY <1>2, StepsAreHonest, ExactIsCovered, HonestHonours
<1>3. IInv /\ ExactInv /\ (IInv /\ ExactInv)' /\ [Next]_vars
        => [Promise!PromiseNext]_<<[p \in Products |-> stock[p].quantity], held>>
  BY <1>2
<1> QED BY <1>1, <1>3, ExactInductive, PTL DEF Spec, HonoursPromise, Promise!PromiseSpec
=============================================================================
