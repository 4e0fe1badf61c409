------------------------- MODULE InventoryCountProofs -------------------------
(***************************************************************************)
(* The safety of a count for any products, people, settings and bounds.    *)
(***************************************************************************)
EXTENDS InventoryCount, TLAPS

\* What every reachable state satisfies, whatever the settings.
Books == CountTypeOK /\ BookCoversReserve

\* Two different people said that there are q units.
SaidByTwo(sayings, q) ==
  \E u, v \in Users : u # v /\ {<<u, q>>, <<v, q>>} \subseteq sayings

\* The counts of an item are what somebody said, each slot somebody else.
Signed(i, sayings) ==
  /\ \A n \in Slots : i.count[n] # Null =>
       i.by[n] \in Users /\ <<i.by[n], i.count[n]>> \in sayings
  /\ \A m, n \in Slots : m # n /\ i.by[m] # Nobody => i.by[m] # i.by[n]

\* The second slot is written in the second pass, the third after both.
InOrder(i) ==
  /\ i.by[2] # Nobody => pass = 2
  /\ i.by[3] # Nobody => status \notin {"none", "counting"}

\* A value that no supervisor decided was said by two people ...
Witnessed(i, sayings) ==
  blind /\ i.final # Null /\ i.resolver = Nobody => SaidByTwo(sayings, i.final)

\* ... and so was one that a computation is about to write.
Foreseen(v, sayings) ==
  blind /\ v.kind = "resolved" => SaidByTwo(sayings, v.final)

ItemSound(i, sayings) == Signed(i, sayings) /\ InOrder(i) /\ Witnessed(i, sayings)

Watched ==
  /\ status = "none" => verdict = {}
  /\ \A s \in Skus :
       /\ ItemSound(item[s], said[s])
       /\ \A v \in verdict : Foreseen(v[s], said[s])

-----------------------------------------------------------------------------
(* Types. *)

LEMMA NoItemIsItem ==
  /\ NoItem \in Items
  /\ \A q \in Quantities : [NoItem EXCEPT !.expected = q, !.status = "pending"] \in Items
  /\ [NoItem EXCEPT !.expected = 0] \in Items
<1>1. /\ Null \in Quantities \union {Null} /\ Nobody \in Users \union {Nobody}
      /\ 0 \in Quantities
  BY CountAssumption DEF Quantities
<1>2. NoItem \in Items
  BY <1>1 DEF NoItem, Items
<1> QED BY <1>1, <1>2 DEF Items

\* What a count found of an item, and what it left of it.
Found(s) == IF s \in Listed THEN item[s] ELSE [NoItem EXCEPT !.expected = 0]

\* The item after u counted q units of it.
AfterCount(i, u, q, slot, now) ==
  [i EXCEPT !.count[slot] = q,
            !.by[slot] = u,
            !.book = IF slot = 1 /\ ~freeze /\ @ = Null THEN now ELSE @,
            !.status = "counted"]

LEMMA AfterCountFacts ==
  ASSUME NEW i \in Items, NEW u \in Users, NEW q \in Quantities, NEW slot \in Slots,
         NEW now \in Quantities, NEW j, j = AfterCount(i, u, q, slot, now)
  PROVE  /\ j \in Items
         /\ j.count[slot] = q /\ j.by[slot] = u
         /\ \A n \in Slots \ {slot} : j.count[n] = i.count[n] /\ j.by[n] = i.by[n]
         /\ j.final = i.final /\ j.resolver = i.resolver /\ j.expected = i.expected
         /\ j.book = IF slot = 1 /\ ~freeze /\ i.book = Null THEN now ELSE i.book
         /\ j.status = "counted"
BY DEF AfterCount, Items

LEMMA FoundIsItem ==
  ASSUME CountTypeOK, NEW s \in Skus
  PROVE  Found(s) \in Items
BY NoItemIsItem DEF Found, CountTypeOK

LEMMA SlotIsSlot ==
  ASSUME CountTypeOK, NEW capture \in Captures, NEW recount \in BOOLEAN
  PROVE  SlotFor(capture, recount) \in Slots
<1>1. pass \in 1..2
  BY DEF CountTypeOK
<1> QED BY <1>1 DEF SlotFor, Captures, Slots, Null

LEMMA VerdictIsVerdict ==
  ASSUME NEW i \in Items
  PROVE  Verdict(i) \in Verdicts
BY DEF Verdict, Verdicts, Skip, Items, Agreed, Slots

LEMMA BooksInit == Init => Books
<1> SUFFICES ASSUME Init PROVE Books
  OBVIOUS
<1>1. 0 \in Quantities /\ \A n \in Quantities : n >= 0
  BY CountAssumption DEF Quantities
<1>2. book \in [Skus -> Quantities] /\ shelf \in [Skus -> Quantities]
  BY DEF Init
<1>3. BookCoversReserve
  BY <1>1, <1>2 DEF Init, BookCoversReserve
<1>4. item \in [Skus -> Items]
  BY NoItemIsItem DEF Init
<1>5. reserved \in [Skus -> Quantities] /\ opened = reserved /\ said \in [Skus -> SUBSET (Users \X Quantities)]
  BY <1>1 DEF Init
<1>6. freeze \in BOOLEAN /\ blind \in BOOLEAN
  BY Zenon DEF Init
<1>7. /\ inflight \subseteq Skus \X BOOLEAN /\ moved \subseteq Skus
      /\ verdict \in SUBSET [Skus -> Verdicts] /\ advancing \subseteq {"second", "review"}
      /\ decided \subseteq Users /\ reconciler \in Users \union {Nobody}
  BY Zenon DEF Init
<1>8. status \in {"none", "counting", "review", "reconciled", "cancelled"} /\ pass \in 1..2
  BY DEF Init
<1> QED BY <1>2, <1>3, <1>4, <1>5, <1>6, <1>7, <1>8, Zenon DEF Books, CountTypeOK

\* What a count is, whatever it says of where it belongs.
CountsAs(u, s, slot, q) ==
  /\ status \in {"counting", "review"}
  /\ MaySign(u, Found(s), slot)
  /\ Fresh(s, slot)
  /\ \E capture \in Captures, recount \in Flags : slot = SlotFor(capture, recount)
  /\ item' = [item EXCEPT ![s] = AfterCount(Found(s), u, q, slot, book[s])]
  /\ said' = [said EXCEPT ![s] = @ \union {<<u, q>>}]
  /\ UNCHANGED <<folioVars, stockVars, pendingVars, decided, opened, reconciler>>

LEMMA CountStep ==
  ASSUME CountTypeOK, NEW u \in Users, Count(u)
  PROVE  \E s \in Skus, slot \in Slots :
           \E q \in Observed(s) : q \in Quantities /\ CountsAs(u, s, slot, q)
<1>0. PICK s \in Skus, capture \in Captures, recount \in Flags :
        /\ Fresh(s, SlotFor(capture, recount))
        /\ \E q \in Observed(s) : SubmitCount(u, s, q, capture, recount)
  BY DEF Count
<1>1. PICK q \in Observed(s) : SubmitCount(u, s, q, capture, recount)
  BY <1>0
<1>2. q \in Quantities
  BY DEF Observed, CountTypeOK
<1>3. SlotFor(capture, recount) \in Slots
  BY SlotIsSlot DEF Flags
<1>4. item' = [item EXCEPT ![s] = AfterCount(Found(s), u, q, SlotFor(capture, recount), book[s])]
  BY <1>1 DEF SubmitCount, AfterCount, Found
<1>5. MaySign(u, Found(s), SlotFor(capture, recount))
  BY <1>1 DEF SubmitCount, Found
<1>6. CountsAs(u, s, SlotFor(capture, recount), q)
  BY <1>0, <1>1, <1>4, <1>5 DEF SubmitCount, CountsAs
<1> QED BY <1>2, <1>3, <1>6

\* The item a count leaves is an item.
LEMMA CountedItem ==
  ASSUME CountTypeOK, NEW u \in Users, NEW s \in Skus, NEW slot \in Slots, NEW q \in Quantities,
         CountsAs(u, s, slot, q)
  PROVE  /\ Found(s) \in Items
         /\ item'[s] = AfterCount(Found(s), u, q, slot, book[s])
         /\ item' \in [Skus -> Items]
         /\ book[s] \in Quantities
         /\ \A x \in Skus \ {s} : item'[x] = item[x] /\ said'[x] = said[x]
         /\ said'[s] = said[s] \union {<<u, q>>}
<1>1. book[s] \in Quantities /\ Found(s) \in Items
  BY FoundIsItem DEF CountTypeOK
<1>2. AfterCount(Found(s), u, q, slot, book[s]) \in Items
  BY <1>1, AfterCountFacts
<1> QED BY <1>1, <1>2 DEF CountsAs, CountTypeOK

LEMMA BooksCount ==
  ASSUME Books, NEW u \in Users, Count(u)
  PROVE  Books'
<1>1. CountTypeOK
  BY DEF Books
<1>2. PICK s \in Skus, slot \in Slots, q \in Quantities : CountsAs(u, s, slot, q)
  BY <1>1, CountStep
<1>3. item' \in [Skus -> Items]
  BY <1>1, <1>2, CountedItem
<1>4. said' \in [Skus -> SUBSET (Users \X Quantities)]
  BY <1>1, <1>2 DEF CountsAs, CountTypeOK
<1>5. UNCHANGED <<status, freeze, blind, pass, book, reserved, shelf, inflight, moved,
                  verdict, advancing, decided, opened, reconciler>>
  BY <1>2 DEF CountsAs, folioVars, stockVars, pendingVars
<1>6. BookCoversReserve'
  BY <1>5 DEF Books, BookCoversReserve
<1>7. CountTypeOK'
  BY <1>1, <1>3, <1>4, <1>5, Zenon DEF CountTypeOK
<1> QED BY <1>6, <1>7 DEF Books

\* Steps of the folio and of the supervisor.
LEMMA BooksOpen ==
  ASSUME Books, NEW f \in Freezes, NEW b \in Blinds, NEW listed \in SUBSET Skus,
         OpenCount(f, b, listed)
  PROVE  Books'
<1>1. CountTypeOK
  BY DEF Books
<1>2. item' \in [Skus -> Items]
  BY <1>1, NoItemIsItem DEF OpenCount, CountTypeOK
<1>3. UNCHANGED <<pass, book, reserved, shelf, inflight, moved, verdict, advancing, said,
                 decided, reconciler>>
  BY DEF OpenCount, stockVars, pendingVars
<1>4. opened' \in [Skus -> Quantities]
  BY <1>1 DEF OpenCount, CountTypeOK
<1>5. status' = "counting" /\ freeze' \in BOOLEAN /\ blind' \in BOOLEAN
  BY CountAssumption, Zenon DEF OpenCount
<1>6. CountTypeOK'
  BY <1>1, <1>2, <1>3, <1>4, <1>5, Zenon DEF CountTypeOK
<1> QED BY <1>3, <1>6 DEF Books, BookCoversReserve

LEMMA BooksCompute ==
  ASSUME Books, ComputeRead \/ ComputeWrite
  PROVE  Books'
<1>1. CountTypeOK
  BY DEF Books
<1>2. CASE ComputeRead
  <2>1. verdict' \in SUBSET [Skus -> Verdicts]
    BY <1>1, <1>2, VerdictIsVerdict DEF ComputeRead, CountTypeOK
  <2>2. UNCHANGED <<status, freeze, blind, pass, item, book, reserved, shelf, inflight, moved,
                    advancing, said, decided, opened, reconciler>>
    BY <1>2 DEF ComputeRead, folioVars, stockVars, historyVars
  <2>3. CountTypeOK'
    BY <1>1, <2>1, <2>2, Zenon DEF CountTypeOK
  <2> QED BY <2>2, <2>3 DEF Books, BookCoversReserve
<1>3. CASE ComputeWrite
  <2>1. item' \in [Skus -> Items]
    <3>1. PICK v \in verdict : item' = [s \in Skus |->
            CASE v[s].kind = "skip" -> item[s]
              [] v[s].kind = "discrepancy" -> [item[s] EXCEPT !.status = "discrepancy"]
              [] v[s].kind = "resolved" -> [item[s] EXCEPT !.status = "resolved", !.final = v[s].final]]
      BY <1>3 DEF ComputeWrite
    <3>2. \A s \in Skus : v[s] \in Verdicts /\ item[s] \in Items
      BY <1>1 DEF CountTypeOK
    <3>3. ASSUME NEW s \in Skus PROVE item'[s] \in Items
      BY <3>1, <3>2 DEF Verdicts, Items
    <3> QED BY <3>1, <3>3
  <2>2. UNCHANGED <<freeze, blind, pass, book, reserved, shelf, inflight, moved, advancing, said,
                    decided, opened, reconciler>> /\ status' = "review" /\ verdict' = {}
    BY <1>3 DEF ComputeWrite, stockVars, historyVars
  <2>3. CountTypeOK'
    BY <1>1, <2>1, <2>2, Zenon DEF CountTypeOK
  <2> QED BY <2>2, <2>3 DEF Books, BookCoversReserve
<1> QED BY <1>2, <1>3

LEMMA BooksAdvance ==
  ASSUME Books, AdvanceCheck \/ \E to \in {"second", "review"} : AdvanceWrite(to)
  PROVE  Books'
<1>1. CountTypeOK
  BY DEF Books
<1>2. UNCHANGED <<freeze, blind, item, book, reserved, shelf, inflight, moved, verdict, said,
                  decided, opened, reconciler>>
  BY DEF AdvanceCheck, AdvanceWrite, folioVars, stockVars, historyVars
<1>3. /\ status' \in {"none", "counting", "review", "reconciled", "cancelled"}
      /\ pass' \in 1..2
      /\ advancing' \subseteq {"second", "review"}
  <2>1. /\ status \in {"none", "counting", "review", "reconciled", "cancelled"}
        /\ pass \in 1..2 /\ advancing \subseteq {"second", "review"}
    BY <1>1 DEF CountTypeOK
  <2>2. CASE AdvanceCheck
    BY <2>1, <2>2 DEF AdvanceCheck, folioVars
  <2>3. CASE \E to \in {"second", "review"} : AdvanceWrite(to)
    BY <2>1, <2>3 DEF AdvanceWrite
  <2> QED BY <2>2, <2>3
<1>4. CountTypeOK'
  BY <1>1, <1>2, <1>3, Zenon DEF CountTypeOK
<1> QED BY <1>2, <1>4 DEF Books, BookCoversReserve

LEMMA BooksResolve ==
  ASSUME Books, NEW u \in Users, NEW s \in Skus, NEW q \in Quantities, NEW reason \in Reasons,
         ResolveItem(u, s, q, reason)
  PROVE  Books'
<1>1. CountTypeOK
  BY DEF Books
<1>2. item[s] \in Items /\ reason \in BOOLEAN
  BY <1>1 DEF CountTypeOK, Reasons
<1>3. [item[s] EXCEPT !.final = q, !.status = "resolved", !.resolver = u, !.reason = @ \/ reason] \in Items
  BY <1>2 DEF Items
<1>4. item' \in [Skus -> Items]
  BY <1>1, <1>3 DEF ResolveItem, CountTypeOK
<1>5. UNCHANGED <<status, freeze, blind, pass, book, reserved, shelf, inflight, moved, verdict,
                  advancing, said, opened, reconciler>> /\ decided' \subseteq Users
  BY <1>1 DEF ResolveItem, folioVars, stockVars, pendingVars, CountTypeOK
<1>6. CountTypeOK'
  BY <1>1, <1>4, <1>5, Zenon DEF CountTypeOK
<1> QED BY <1>5, <1>6 DEF Books, BookCoversReserve

\* A reconciliation posts a book that covers the reserve, or leaves it.
LEMMA BooksReconcile ==
  ASSUME Books, NEW u \in Users, Reconcile(u)
  PROVE  Books'
<1>1. CountTypeOK
  BY DEF Books
<1>2. UNCHANGED <<freeze, blind, pass, item, reserved, shelf, inflight, moved, verdict, advancing,
                  said, decided, opened>> /\ status' = "reconciled" /\ reconciler' = u
  BY DEF Reconcile, pendingVars
<1>3. ASSUME NEW s \in Skus PROVE book'[s] \in Quantities /\ book'[s] >= reserved[s]
  <2>1. /\ book[s] \in Quantities /\ reserved[s] \in Quantities /\ book[s] >= reserved[s]
        /\ MaxQty \in Nat
    BY <1>1, CountAssumption DEF Books, BookCoversReserve, CountTypeOK
  <2>2. CASE s \notin Listed
    BY <2>1, <2>2 DEF Reconcile
  <2>3. CASE s \in Listed
    <3>1. book'[s] = NewBook(s) /\ Postable(s)
      BY <2>3 DEF Reconcile
    <3>2. NewBook(s) \in Int
      <4>1. item[s] \in Items /\ \A q \in Quantities \union {Null} : q \in Int
        BY <1>1 DEF CountTypeOK, Quantities, Null
      <4>2. item[s].final \in Int /\ item[s].book \in Int /\ item[s].expected \in Int
        BY <4>1 DEF Items
      <4>3. Baseline(item[s]) \in Int
        BY <4>2 DEF Baseline
      <4> QED BY <2>1, <4>2, <4>3 DEF NewBook, Quantities
    <3> QED BY <2>1, <3>1, <3>2 DEF Postable, Quantities
  <2> QED BY <2>2, <2>3
<1>4. book' \in [Skus -> Quantities]
  BY <1>3 DEF Reconcile
<1>5. CountTypeOK'
  BY <1>1, <1>2, <1>4, Zenon DEF CountTypeOK
<1> QED BY <1>2, <1>3, <1>5 DEF Books, BookCoversReserve

LEMMA BooksCancel ==
  ASSUME Books, CancelCount
  PROVE  Books'
<1>1. UNCHANGED <<freeze, blind, pass, item, book, reserved, shelf, inflight, moved, verdict,
                  advancing, said, decided, opened, reconciler>> /\ status' = "cancelled"
  BY DEF CancelCount, stockVars, pendingVars, historyVars
<1>2. CountTypeOK'
  BY <1>1, Zenon DEF Books, CountTypeOK
<1> QED BY <1>1, <1>2 DEF Books, BookCoversReserve

\* A movement of one unit keeps the row within its CHECKs.
LEMMA BooksMove ==
  ASSUME Books, NEW s \in Skus, NEW kind \in Movers, MoveUnit(s, kind)
  PROVE  /\ book' \in [Skus -> Quantities] /\ reserved' \in [Skus -> Quantities]
         /\ shelf' \in [Skus -> Quantities]
         /\ BookCoversReserve'
<1>1. /\ book \in [Skus -> Quantities] /\ reserved \in [Skus -> Quantities]
      /\ shelf \in [Skus -> Quantities]
  BY DEF Books, CountTypeOK
<1>2. /\ book[s] \in Quantities /\ reserved[s] \in Quantities /\ shelf[s] \in Quantities
      /\ book[s] >= reserved[s] /\ MaxQty \in Nat
  BY <1>1, CountAssumption DEF Books, BookCoversReserve
<1>3. /\ book'[s] \in Quantities /\ reserved'[s] \in Quantities /\ shelf'[s] \in Quantities
      /\ book'[s] >= reserved'[s]
  BY <1>1, <1>2 DEF MoveUnit, Quantities
<1>4. \A x \in Skus \ {s} : book'[x] = book[x] /\ reserved'[x] = reserved[x] /\ shelf'[x] = shelf[x]
  BY <1>1 DEF MoveUnit
<1>5. /\ book' \in [Skus -> Quantities] /\ reserved' \in [Skus -> Quantities]
      /\ shelf' \in [Skus -> Quantities]
  BY <1>1, <1>3 DEF MoveUnit
<1>6. BookCoversReserve'
  BY <1>3, <1>4 DEF Books, BookCoversReserve
<1> QED BY <1>5, <1>6

LEMMA BooksWarehouse ==
  ASSUME Books, NEW s \in Skus, WarehouseStep(s)
  PROVE  Books'
<1>1. CountTypeOK
  BY DEF Books
<1>2. UNCHANGED <<status, freeze, blind, pass, item, verdict, advancing, said, decided, opened, reconciler>>
  BY DEF WarehouseStep, MoverCheck, MoverCommit, MoverRefused, CronRelease,
         folioVars, pendingVars, historyVars
<1>3. inflight' \subseteq Skus \X BOOLEAN /\ moved' \subseteq Skus
  <2>1. inflight \subseteq Skus \X BOOLEAN /\ moved \subseteq Skus
    BY <1>1 DEF CountTypeOK
  <2>2. Exists \in BOOLEAN
    BY DEF Exists
  <2>3. CASE MoverCheck(s)
    BY <2>1, <2>2, <2>3 DEF MoverCheck
  <2>4. CASE \E kind \in Movers, late \in BOOLEAN : MoverCommit(s, kind, late)
    BY <2>1, <2>4 DEF MoverCommit
  <2>5. CASE \E late \in BOOLEAN : MoverRefused(s, late)
    BY <2>1, <2>5 DEF MoverRefused
  <2>6. CASE CronRelease(s)
    BY <2>1, <2>6 DEF CronRelease
  <2> QED BY <2>3, <2>4, <2>5, <2>6 DEF WarehouseStep
<1>4. /\ book' \in [Skus -> Quantities] /\ reserved' \in [Skus -> Quantities]
      /\ shelf' \in [Skus -> Quantities]
      /\ BookCoversReserve'
  <2>1. CASE \E kind \in Movers, late \in BOOLEAN : MoverCommit(s, kind, late)
    BY <2>1, BooksMove DEF MoverCommit
  <2>2. CASE MoverCheck(s) \/ \E late \in BOOLEAN : MoverRefused(s, late)
    BY <1>1, <2>2 DEF MoverCheck, MoverRefused, Books, CountTypeOK, BookCoversReserve
  <2>3. CASE CronRelease(s)
    <3>1. /\ reserved \in [Skus -> Quantities] /\ book \in [Skus -> Quantities]
          /\ shelf \in [Skus -> Quantities] /\ MaxQty \in Nat
      BY <1>1, CountAssumption DEF CountTypeOK
    <3>2. /\ reserved[s] \in Quantities /\ reserved[s] > 0 /\ book' = book /\ shelf' = shelf
          /\ reserved' = [reserved EXCEPT ![s] = @ - 1]
      BY <3>1, <2>3 DEF CronRelease
    <3>3. reserved[s] - 1 \in Quantities /\ reserved[s] - 1 <= reserved[s]
      BY <3>1, <3>2 DEF Quantities
    <3>4. reserved' \in [Skus -> Quantities]
      BY <3>1, <3>2, <3>3
    <3>5. ASSUME NEW x \in Skus PROVE book'[x] >= reserved'[x]
      <4>1. book[x] >= reserved[x] /\ book[x] \in Int /\ reserved[x] \in Int
        BY <3>1 DEF Books, BookCoversReserve, Quantities
      <4> QED BY <3>1, <3>2, <4>1
    <3> QED BY <3>1, <3>2, <3>4, <3>5 DEF BookCoversReserve
  <2> QED BY <2>1, <2>2, <2>3 DEF WarehouseStep
<1>5. CountTypeOK'
  BY <1>1, <1>2, <1>3, <1>4, Zenon DEF CountTypeOK
<1> QED BY <1>4, <1>5 DEF Books

LEMMA BooksStep == Books /\ [Next]_vars => Books'
<1> SUFFICES ASSUME Books, [Next]_vars PROVE Books'
  OBVIOUS
<1>1. ASSUME NEW u \in Users, Count(u) PROVE Books'
  BY <1>1, BooksCount
<1>2. ASSUME NEW u \in Users, Supervise(u) PROVE Books'
  BY <1>2, BooksResolve, BooksReconcile DEF Supervise
<1>3. ASSUME FolioStep PROVE Books'
  BY <1>3, BooksOpen, BooksCompute, BooksAdvance, BooksCancel DEF FolioStep
<1>4. ASSUME NEW s \in Skus, WarehouseStep(s) PROVE Books'
  BY <1>4, BooksWarehouse
<1>5. CASE UNCHANGED vars
  BY <1>5 DEF vars, folioVars, stockVars, pendingVars, historyVars, Books, CountTypeOK, BookCoversReserve
<1> QED BY <1>1, <1>2, <1>3, <1>4, <1>5 DEF Next

(***************************************************************************)
(* The folio and its items stay well formed, and no reconciliation, sale,  *)
(* delivery or expiry leaves a book below what is reserved, whatever the   *)
(* settings of the folio and the honesty of the people who count.          *)
(***************************************************************************)
THEOREM BooksHold == Spec => []Books
<1>1. Init => Books
  BY BooksInit
<1>2. Books /\ [Next]_vars => Books'
  BY BooksStep
<1> QED BY <1>1, <1>2, PTL DEF Spec

\* Every reachable state of a count is well typed.
THEOREM CountTypeCorrect == Spec => []CountTypeOK
<1>1. Books => CountTypeOK
  BY DEF Books
<1> QED BY <1>1, BooksHold, PTL

\* The CHECK quantity >= reserved_quantity survives every reconciliation.
THEOREM BookAlwaysCovers == Spec => []BookCoversReserve
<1>1. Books => BookCoversReserve
  BY DEF Books
<1> QED BY <1>1, BooksHold, PTL

-----------------------------------------------------------------------------
(* An uncounted product is never posted as zero. *)

LEMMA CountedStep == Books /\ NoUncountedAsZero /\ [Next]_vars => NoUncountedAsZero'
<1> SUFFICES ASSUME Books, NoUncountedAsZero, [Next]_vars, status' = "reconciled",
                    NEW s \in Skus, s \in Listed'
             PROVE  item'[s].count[1] # Null /\ item'[s].final # Null
  BY DEF NoUncountedAsZero, Listed
<1>1. CountTypeOK
  BY DEF Books
<1>2. ASSUME item' = item, status = "reconciled" PROVE item'[s].count[1] # Null /\ item'[s].final # Null
  BY <1>2 DEF NoUncountedAsZero, Listed
<1>3. ASSUME NEW u \in Users, Count(u) PROVE FALSE
  BY <1>1, <1>3, CountStep DEF CountsAs, folioVars
<1>4. ASSUME NEW u \in Users, NEW x \in Skus, NEW q \in Quantities, NEW reason \in Reasons,
             ResolveItem(u, x, q, reason)
      PROVE  item'[s].count[1] # Null /\ item'[s].final # Null
  <2>1. status = "reconciled" /\ q # Null
    BY <1>4 DEF ResolveItem, folioVars, Quantities, Null
  <2>2. CASE s = x
    <3>1. s \in Listed /\ item[s] \in Items
      BY <1>1, <1>4, <2>2 DEF ResolveItem, CountTypeOK
    <3>2. item'[s].count = item[s].count /\ item'[s].final = q
      BY <1>1, <1>4, <2>2, <3>1 DEF ResolveItem, CountTypeOK, Items
    <3> QED BY <2>1, <3>1, <3>2 DEF NoUncountedAsZero
  <2>3. CASE s # x
    <3>1. item'[s] = item[s]
      BY <1>1, <1>4, <2>3 DEF ResolveItem, CountTypeOK
    <3> QED BY <2>1, <3>1 DEF NoUncountedAsZero, Listed
  <2> QED BY <2>2, <2>3
<1>5. ASSUME NEW u \in Users, Reconcile(u)
      PROVE  item'[s].count[1] # Null /\ item'[s].final # Null
  BY <1>5 DEF Reconcile, Settled, Listed
<1>6. ASSUME FolioStep PROVE item'[s].count[1] # Null /\ item'[s].final # Null
  <2>1. CASE \E f \in Freezes, b \in Blinds, listed \in SUBSET Skus : OpenCount(f, b, listed)
    BY <2>1 DEF OpenCount
  <2>2. CASE ComputeRead
    BY <1>2, <2>2 DEF ComputeRead, folioVars
  <2>3. CASE ComputeWrite
    BY <2>3 DEF ComputeWrite
  <2>4. CASE AdvanceCheck
    BY <1>2, <2>4 DEF AdvanceCheck, folioVars
  <2>5. CASE \E to \in {"second", "review"} : AdvanceWrite(to)
    BY <1>2, <2>5 DEF AdvanceWrite
  <2>6. CASE CancelCount
    BY <2>6 DEF CancelCount
  <2> QED BY <1>6, <2>1, <2>2, <2>3, <2>4, <2>5, <2>6 DEF FolioStep
<1>7. ASSUME NEW x \in Skus, WarehouseStep(x)
      PROVE  item'[s].count[1] # Null /\ item'[s].final # Null
  BY <1>2, <1>7 DEF WarehouseStep, MoverCheck, MoverCommit, MoverRefused, CronRelease, folioVars
<1>8. CASE UNCHANGED vars
  BY <1>2, <1>8 DEF vars, folioVars
<1> QED BY <1>3, <1>4, <1>5, <1>6, <1>7, <1>8 DEF Next, Supervise

\* No reconciled folio has an item without a first count or a final value,
\* not even one that was found on the shelf while it was being reconciled.
THEOREM NothingUncountedIsPosted == Spec => []NoUncountedAsZero
<1>1. Init => NoUncountedAsZero
  BY DEF Init, NoUncountedAsZero
<1>2. Books /\ NoUncountedAsZero /\ [Next]_vars => NoUncountedAsZero'
  BY CountedStep
<1> QED BY <1>1, <1>2, BooksHold, PTL DEF Spec

-----------------------------------------------------------------------------
(* The blind double count. *)

LEMMA SaidGrows ==
  ASSUME NEW A, NEW B, A \subseteq B, NEW q, SaidByTwo(A, q)
  PROVE  SaidByTwo(B, q)
BY DEF SaidByTwo

\* Two of the three counts agree, and two people made them.
LEMMA AgreedIsSaid ==
  ASSUME NEW i \in Items, NEW sayings, Signed(i, sayings), blind, Verdict(i).kind = "resolved"
  PROVE  SaidByTwo(sayings, Verdict(i).final)
<1>1. /\ i.count[1] # Null /\ i.count[2] # Null
      /\ Agreed(i) # Null /\ Verdict(i).final = Agreed(i)
  BY DEF Verdict, Skip
<1>2. \/ i.count[1] = i.count[2] /\ Agreed(i) = i.count[1]
      \/ i.count[3] # Null /\ i.count[3] = i.count[1] /\ Agreed(i) = i.count[3]
      \/ i.count[3] # Null /\ i.count[3] = i.count[2] /\ Agreed(i) = i.count[3]
  BY <1>1 DEF Agreed
<1>3. 1 \in Slots /\ 2 \in Slots /\ 3 \in Slots
  BY DEF Slots
<1>4. ASSUME NEW m \in Slots, NEW n \in Slots, m # n, i.count[m] # Null, i.count[m] = i.count[n]
      PROVE  SaidByTwo(sayings, i.count[m])
  <2>1. /\ i.by[m] \in Users /\ <<i.by[m], i.count[m]>> \in sayings
        /\ i.by[n] \in Users /\ <<i.by[n], i.count[m]>> \in sayings
    BY <1>4 DEF Signed
  <2>2. i.by[m] # i.by[n]
    BY <1>4, <2>1, UsersAssumption DEF Signed
  <2> QED BY <2>1, <2>2 DEF SaidByTwo
<1> QED BY <1>1, <1>2, <1>3, <1>4

\* What a count finds is sound: the item, or a new one.
LEMMA FoundIsSound ==
  ASSUME Watched, CountTypeOK, NEW s \in Skus
  PROVE  ItemSound(Found(s), said[s])
<1>1. CASE s \in Listed
  BY <1>1 DEF Watched, Found
<1>2. CASE s \notin Listed
  <2>1. /\ Found(s).final = Null
        /\ \A n \in Slots : Found(s).count[n] = Null /\ Found(s).by[n] = Nobody
    BY <1>2 DEF Found, NoItem
  <2> QED BY <2>1 DEF ItemSound, Signed, InOrder, Witnessed, Slots
<1> QED BY <1>1, <1>2

\* Online, the slot of a count follows the phase the folio is in.
LEMMA OnlineSlot ==
  ASSUME ~Offline, ~RecountFlag, NEW capture \in Captures, NEW recount \in Flags
  PROVE  SlotFor(capture, recount) = IF status = "review" THEN 3 ELSE pass
BY DEF Captures, Flags, SlotFor

LEMMA WatchedCount ==
  ASSUME ~Offline, ~RecountFlag, Watched, CountTypeOK, NEW u \in Users, Count(u)
  PROVE  Watched'
<1>1. PICK s \in Skus, slot \in Slots, q \in Quantities : CountsAs(u, s, slot, q)
  BY CountStep
<1>2. /\ status \in {"counting", "review"}
      /\ MaySign(u, Found(s), slot)
      /\ slot = IF status = "review" THEN 3 ELSE pass
      /\ UNCHANGED <<status, freeze, blind, pass, verdict>>
  BY <1>1, OnlineSlot DEF CountsAs, folioVars, pendingVars
<1>3. /\ Found(s) \in Items
      /\ item'[s] = AfterCount(Found(s), u, q, slot, book[s])
      /\ book[s] \in Quantities
      /\ \A x \in Skus \ {s} : item'[x] = item[x] /\ said'[x] = said[x]
      /\ said'[s] = said[s] \union {<<u, q>>}
  BY <1>1, CountedItem
<1>4. /\ item'[s].count[slot] = q /\ item'[s].by[slot] = u
      /\ \A n \in Slots \ {slot} : /\ item'[s].count[n] = Found(s).count[n]
                                   /\ item'[s].by[n] = Found(s).by[n]
      /\ item'[s].final = Found(s).final /\ item'[s].resolver = Found(s).resolver
  BY <1>3, AfterCountFacts
<1>5. ItemSound(Found(s), said[s]) /\ u # Nobody /\ pass \in 1..2
  BY FoundIsSound, UsersAssumption DEF CountTypeOK
<1>6. \A n \in Slots \ {slot} : Found(s).by[n] # u
  BY <1>2, <1>5 DEF MaySign, ItemSound, InOrder, Slots
<1>7. Signed(item'[s], said'[s])
  BY <1>3, <1>4, <1>5, <1>6 DEF ItemSound, Signed
<1>8. InOrder(item[s])'
  BY <1>2, <1>4, <1>5 DEF ItemSound, InOrder, Slots
<1>9. Witnessed(item[s], said[s])'
  BY <1>2, <1>3, <1>4, <1>5, SaidGrows DEF ItemSound, Witnessed
<1>10. \A v \in verdict' : Foreseen(v[s], said[s])'
  BY <1>2, <1>3, SaidGrows DEF Watched, Foreseen
<1>11. ASSUME NEW x \in Skus \ {s}
       PROVE  ItemSound(item[x], said[x])' /\ \A v \in verdict' : Foreseen(v[x], said[x])'
  BY <1>2, <1>3 DEF Watched, ItemSound, Signed, InOrder, Witnessed, Foreseen
<1> QED BY <1>2, <1>7, <1>8, <1>9, <1>10, <1>11 DEF Watched, ItemSound

\* The phase moves on and nothing else does.
LEMMA WatchedPhase ==
  ASSUME Watched, UNCHANGED <<blind, item, said, verdict>>,
         pass' = pass \/ pass' = 2,
         status' = status \/ status' \notin {"none", "counting"}
  PROVE  Watched'
BY DEF Watched, ItemSound, Signed, InOrder, Witnessed, Foreseen

LEMMA WatchedOpen ==
  ASSUME Watched, NEW f \in Freezes, NEW b \in Blinds, NEW listed \in SUBSET Skus,
         OpenCount(f, b, listed)
  PROVE  Watched'
<1>1. verdict' = {} /\ status' = "counting"
  BY DEF OpenCount, Watched, pendingVars
<1>2. ASSUME NEW s \in Skus PROVE ItemSound(item[s], said[s])'
  <2>1. /\ item'[s].final = Null
        /\ \A n \in Slots : item'[s].count[n] = Null /\ item'[s].by[n] = Nobody
    BY DEF OpenCount, NoItem
  <2> QED BY <2>1 DEF ItemSound, Signed, InOrder, Witnessed, Slots
<1> QED BY <1>1, <1>2 DEF Watched

LEMMA WatchedComputeRead ==
  ASSUME Watched, CountTypeOK, ComputeRead
  PROVE  Watched'
<1>1. /\ UNCHANGED <<status, blind, pass, item, said>> /\ status # "none"
      /\ verdict' = {[s \in Skus |-> Verdict(item[s])]}
  BY DEF ComputeRead, Exists, folioVars, historyVars
<1>2. ASSUME NEW s \in Skus, NEW v \in verdict' PROVE Foreseen(v[s], said[s])
  <2>1. v[s] = Verdict(item[s]) /\ item[s] \in Items
    BY <1>1 DEF CountTypeOK
  <2>2. Signed(item[s], said[s])
    BY DEF Watched, ItemSound
  <2> QED BY <2>1, <2>2, AgreedIsSaid DEF Foreseen
<1> QED BY <1>1, <1>2 DEF Watched, ItemSound, Signed, InOrder, Witnessed, Foreseen

LEMMA WatchedComputeWrite ==
  ASSUME Watched, CountTypeOK, ComputeWrite
  PROVE  Watched'
<1>1. UNCHANGED <<blind, pass, said>> /\ verdict' = {} /\ status' = "review"
  BY DEF ComputeWrite, historyVars
<1>2. PICK v \in verdict : item' = [s \in Skus |->
        CASE v[s].kind = "skip" -> item[s]
          [] v[s].kind = "discrepancy" -> [item[s] EXCEPT !.status = "discrepancy"]
          [] v[s].kind = "resolved" -> [item[s] EXCEPT !.status = "resolved", !.final = v[s].final]]
  BY DEF ComputeWrite
<1>3. ASSUME NEW s \in Skus PROVE ItemSound(item[s], said[s])'
  <2>1. /\ item[s] \in Items /\ v[s] \in Verdicts
        /\ ItemSound(item[s], said[s]) /\ Foreseen(v[s], said[s])
    BY DEF CountTypeOK, Watched
  <2>2. /\ item'[s].count = item[s].count /\ item'[s].by = item[s].by
        /\ item'[s].resolver = item[s].resolver
        /\ item'[s].final = IF v[s].kind = "resolved" THEN v[s].final ELSE item[s].final
    BY <1>2, <2>1 DEF Items, Verdicts
  <2> QED BY <1>1, <2>1, <2>2 DEF ItemSound, Signed, InOrder, Witnessed, Foreseen
<1> QED BY <1>1, <1>3 DEF Watched

LEMMA WatchedResolve ==
  ASSUME Watched, CountTypeOK, NEW u \in Users, NEW s \in Skus, NEW q \in Quantities,
         NEW reason \in Reasons, ResolveItem(u, s, q, reason)
  PROVE  Watched'
<1>1. UNCHANGED <<status, blind, pass, said, verdict>>
  BY DEF ResolveItem, folioVars, pendingVars
<1>2. /\ item'[s].count = item[s].count /\ item'[s].by = item[s].by /\ item'[s].resolver # Nobody
      /\ \A x \in Skus \ {s} : item'[x] = item[x]
  BY UsersAssumption DEF ResolveItem, CountTypeOK, Items
<1> QED BY <1>1, <1>2 DEF Watched, ItemSound, Signed, InOrder, Witnessed, Foreseen

LEMMA WatchedStep ==
  ASSUME ~Offline, ~RecountFlag, Watched, CountTypeOK, [Next]_vars
  PROVE  Watched'
<1>1. ASSUME NEW u \in Users, Count(u) PROVE Watched'
  BY <1>1, WatchedCount
<1>2. ASSUME NEW u \in Users, Supervise(u) PROVE Watched'
  <2>1. CASE Reconcile(u)
    <3>1. UNCHANGED <<blind, item, said, verdict, pass>> /\ status' = "reconciled"
      BY <2>1 DEF Reconcile, pendingVars
    <3> QED BY <3>1, WatchedPhase
  <2> QED BY <1>2, <2>1, WatchedResolve DEF Supervise
<1>3. ASSUME FolioStep PROVE Watched'
  <2>1. CASE AdvanceCheck
    <3>1. UNCHANGED <<blind, item, said, verdict, pass, status>>
      BY <2>1 DEF AdvanceCheck, folioVars, historyVars
    <3> QED BY <3>1, WatchedPhase
  <2>2. CASE \E to \in {"second", "review"} : AdvanceWrite(to)
    <3>1. /\ UNCHANGED <<blind, item, said, verdict>>
          /\ pass' = pass \/ pass' = 2
          /\ status' = status \/ status' = "review"
      BY <2>2 DEF AdvanceWrite, historyVars
    <3> QED BY <3>1, WatchedPhase
  <2>3. CASE CancelCount
    <3>1. UNCHANGED <<blind, item, said, verdict, pass>> /\ status' = "cancelled"
      BY <2>3 DEF CancelCount, pendingVars, historyVars
    <3> QED BY <3>1, WatchedPhase
  <2> QED BY <1>3, <2>1, <2>2, <2>3, WatchedOpen, WatchedComputeRead, WatchedComputeWrite DEF FolioStep
<1>4. ASSUME NEW s \in Skus, WarehouseStep(s) PROVE Watched'
  <2>1. UNCHANGED <<blind, item, said, verdict, pass, status>>
    BY <1>4 DEF WarehouseStep, MoverCheck, MoverCommit, MoverRefused, CronRelease,
                folioVars, pendingVars, historyVars
  <2> QED BY <2>1, WatchedPhase
<1>5. CASE UNCHANGED vars
  <2>1. UNCHANGED <<blind, item, said, verdict, pass, status>>
    BY <1>5 DEF vars, folioVars, pendingVars, historyVars
  <2> QED BY <2>1, WatchedPhase
<1> QED BY <1>1, <1>2, <1>3, <1>4, <1>5 DEF Next

(***************************************************************************)
(* Where scans are sent online and nobody asks for a recount early, a      *)
(* value of a blind count that no supervisor decided was said by two       *)
(* different people, however many count, compute and advance at once.      *)
(***************************************************************************)
THEOREM TwoPeopleCounted ==
  ASSUME ~Offline, ~RecountFlag
  PROVE  Spec => []TwoObservers
<1>1. Init => Watched
  <2> SUFFICES ASSUME Init, NEW s \in Skus PROVE ItemSound(item[s], said[s])
    BY DEF Init, Watched
  <2>1. /\ item[s].final = Null
        /\ \A n \in Slots : item[s].count[n] = Null /\ item[s].by[n] = Nobody
    BY DEF Init, NoItem
  <2> QED BY <2>1 DEF ItemSound, Signed, InOrder, Witnessed, Slots
<1>2. Books /\ Watched /\ [Next]_vars => Watched'
  BY WatchedStep DEF Books
<1>3. Watched => TwoObservers
  BY DEF Watched, ItemSound, Witnessed, SaidByTwo, TwoObservers, Listed
<1> QED BY <1>1, <1>2, <1>3, BooksHold, PTL DEF Spec

-----------------------------------------------------------------------------
(* A count that freezes nothing leaves the book at the shelf. *)

\* The first count of an item is as far from the book it was compared with
\* as the shelf is from the book now, and it is the value of the item unless
\* a supervisor said otherwise.
Tracked(i, onShelf, inBook) ==
  /\ i.count[1] = Null => i.book = Null
  /\ i.count[1] # Null => /\ i.by[1] # Nobody /\ i.status # "absent" /\ i.book # Null
                          /\ i.count[1] - i.book = onShelf - inBook
  /\ i.final # Null /\ i.resolver = Nobody => i.final = i.count[1]

Unfrozen == ~freeze /\ ~blind

Tracking ==
  /\ Unfrozen
  /\ status = "none" => verdict = {}
  /\ \A s \in Skus : Tracked(item[s], shelf[s], book[s])
  /\ \A v \in verdict, s \in Skus :
       v[s].kind = "resolved" => v[s].final = item[s].count[1] /\ v[s].final # Null

\* Until somebody reconciles.
TrackedSoFar == Unfrozen /\ (reconciler = Nobody => Tracking)

LEMMA TrackedCount ==
  ASSUME Honest, ~Corrections, Tracking, CountTypeOK, NEW u \in Users, Count(u)
  PROVE  Tracking'
<1>1. PICK s \in Skus, slot \in Slots :
        \E q \in Observed(s) : q \in Quantities /\ CountsAs(u, s, slot, q)
  BY CountStep
<1>2. shelf[s] \in Quantities /\ CountsAs(u, s, slot, shelf[s])
  BY <1>1 DEF Observed
<1>3. /\ Found(s) \in Items /\ book[s] \in Quantities
      /\ item'[s] = AfterCount(Found(s), u, shelf[s], slot, book[s])
      /\ \A x \in Skus \ {s} : item'[x] = item[x]
  BY <1>2, CountedItem
<1>4. /\ item'[s].count[slot] = shelf[s] /\ item'[s].by[slot] = u
      /\ \A n \in Slots \ {slot} : /\ item'[s].count[n] = Found(s).count[n]
                                   /\ item'[s].by[n] = Found(s).by[n]
      /\ item'[s].final = Found(s).final /\ item'[s].resolver = Found(s).resolver
      /\ item'[s].book = IF slot = 1 /\ ~freeze /\ Found(s).book = Null THEN book[s] ELSE Found(s).book
      /\ item'[s].status = "counted"
  BY <1>2, <1>3, AfterCountFacts
<1>5. /\ UNCHANGED <<status, freeze, blind, verdict, shelf, book>>
      /\ item[s].by[slot] = Nobody /\ status # "none"
  BY <1>2 DEF CountsAs, Fresh, folioVars, stockVars, pendingVars
<1>6. Tracked(Found(s), shelf[s], book[s]) /\ (slot = 1 => Found(s).count[1] = Null)
      /\ Found(s).count[1] = item[s].count[1]
  <2>1. Tracked(item[s], shelf[s], book[s])
    BY DEF Tracking
  <2>2. CASE s \in Listed
    BY <1>5, <2>1, <2>2 DEF Found, Tracked
  <2>3. CASE s \notin Listed
    <3>1. /\ Found(s).count[1] = Null /\ Found(s).book = Null /\ Found(s).final = Null
      BY <2>3 DEF Found, NoItem, Slots
    <3>2. item[s].count[1] = Null
      BY <2>1, <2>3 DEF Tracked, Listed
    <3> QED BY <3>1, <3>2 DEF Tracked
  <2> QED BY <2>2, <2>3
<1>7. 1 \in Slots /\ u # Nobody /\ Null \notin Quantities /\ ~freeze
  BY UsersAssumption DEF Slots, Quantities, Null, Tracking, Unfrozen
<1>8. Tracked(item[s], shelf[s], book[s])'
  <2>1. CASE slot = 1
    <3>1. /\ item'[s].count[1] = shelf[s] /\ item'[s].by[1] = u /\ item'[s].book = book[s]
          /\ item'[s].final = Null \/ item'[s].resolver # Nobody
      BY <1>3, <1>4, <1>6, <1>7, <2>1 DEF Tracked
    <3> QED BY <1>2, <1>3, <1>4, <1>5, <1>7, <3>1 DEF Tracked
  <2>2. CASE slot # 1
    BY <1>4, <1>5, <1>6, <1>7, <2>2 DEF Tracked
  <2> QED BY <2>1, <2>2
<1>9. ASSUME NEW v \in verdict, v[s].kind = "resolved" PROVE v[s].final = item'[s].count[1]
  <2>1. v[s].final = item[s].count[1] /\ v[s].final # Null
    BY <1>9 DEF Tracking
  <2>2. slot # 1
    BY <1>6, <2>1
  <2> QED BY <1>4, <1>6, <1>7, <2>1, <2>2
<1>10. ASSUME NEW x \in Skus \ {s} PROVE Tracked(item[x], shelf[x], book[x])'
  BY <1>3, <1>5 DEF Tracking, Tracked
<1> QED BY <1>3, <1>5, <1>8, <1>9, <1>10 DEF Tracking, Unfrozen

\* Nothing that the tracking depends on changes.
LEMMA TrackedKept ==
  ASSUME Tracking, UNCHANGED <<freeze, blind, item, shelf, book, verdict>>,
         status' = status \/ status' # "none"
  PROVE  Tracking'
BY DEF Tracking, Unfrozen, Tracked

LEMMA TrackedOpen ==
  ASSUME Freezes = {FALSE}, Blinds = {FALSE}, Tracking,
         NEW f \in Freezes, NEW b \in Blinds, NEW listed \in SUBSET Skus, OpenCount(f, b, listed)
  PROVE  Tracking'
<1>1. verdict' = {} /\ status' = "counting"
  BY DEF OpenCount, Tracking, pendingVars
<1>2. ~freeze' /\ ~blind'
  BY Zenon DEF OpenCount
<1>3. ASSUME NEW s \in Skus PROVE Tracked(item[s], shelf[s], book[s])'
  <2>1. 1 \in Slots
    BY DEF Slots
  <2>2. item'[s].final = Null /\ item'[s].count[1] = Null /\ item'[s].book = Null
    BY <2>1 DEF OpenCount, NoItem
  <2> QED BY <2>2 DEF Tracked
<1> QED BY <1>1, <1>2, <1>3 DEF Tracking, Unfrozen

LEMMA TrackedCompute ==
  ASSUME Tracking, CountTypeOK, ComputeRead \/ ComputeWrite
  PROVE  Tracking'
<1>1. CASE ComputeRead
  <2>1. /\ UNCHANGED <<freeze, blind, item, shelf, book>> /\ status' # "none"
        /\ verdict' = {[s \in Skus |-> Verdict(item[s])]}
    BY <1>1 DEF ComputeRead, Exists, folioVars, stockVars
  <2>2. ASSUME NEW v \in verdict', NEW s \in Skus, v[s].kind = "resolved"
        PROVE  v[s].final = item[s].count[1] /\ v[s].final # Null
    <3>1. v[s] = Verdict(item[s]) /\ ~blind
      BY <2>1 DEF Tracking, Unfrozen
    <3> QED BY <2>2, <3>1 DEF Verdict, Skip, Agreed
  <2> QED BY <2>1, <2>2 DEF Tracking, Unfrozen, Tracked
<1>2. CASE ComputeWrite
  <2>1. UNCHANGED <<freeze, blind, shelf, book>> /\ verdict' = {} /\ status' = "review"
    BY <1>2 DEF ComputeWrite, stockVars
  <2>2. PICK v \in verdict : item' = [s \in Skus |->
          CASE v[s].kind = "skip" -> item[s]
            [] v[s].kind = "discrepancy" -> [item[s] EXCEPT !.status = "discrepancy"]
            [] v[s].kind = "resolved" -> [item[s] EXCEPT !.status = "resolved", !.final = v[s].final]]
    BY <1>2 DEF ComputeWrite
  <2>3. ASSUME NEW s \in Skus PROVE Tracked(item[s], shelf[s], book[s])'
    <3>1. /\ item[s] \in Items /\ v[s] \in Verdicts /\ Tracked(item[s], shelf[s], book[s])
          /\ v[s].kind = "resolved" => v[s].final = item[s].count[1]
      BY DEF CountTypeOK, Tracking
    <3>2. /\ item'[s].count = item[s].count /\ item'[s].by = item[s].by
          /\ item'[s].resolver = item[s].resolver /\ item'[s].book = item[s].book
          /\ item'[s].status = item[s].status \/ item'[s].status # "absent"
          /\ item'[s].final = IF v[s].kind = "resolved" THEN v[s].final ELSE item[s].final
      BY <2>2, <3>1 DEF Items, Verdicts
    <3> QED BY <2>1, <3>1, <3>2 DEF Tracked
  <2> QED BY <2>1, <2>3 DEF Tracking, Unfrozen
<1> QED BY <1>1, <1>2

LEMMA TrackedResolve ==
  ASSUME Tracking, CountTypeOK, NEW u \in Users, NEW s \in Skus, NEW q \in Quantities,
         NEW reason \in Reasons, ResolveItem(u, s, q, reason)
  PROVE  Tracking'
<1>1. UNCHANGED <<status, freeze, blind, shelf, book, verdict>>
  BY DEF ResolveItem, folioVars, stockVars, pendingVars
<1>2. /\ item'[s].count = item[s].count /\ item'[s].by = item[s].by /\ item'[s].resolver # Nobody
      /\ item'[s].book = item[s].book /\ item'[s].status # "absent"
      /\ \A x \in Skus \ {s} : item'[x] = item[x]
  BY UsersAssumption DEF ResolveItem, CountTypeOK, Items
<1> QED BY <1>1, <1>2 DEF Tracking, Unfrozen, Tracked

\* What comes, goes or is delivered moves the shelf and the book together.
LEMMA TrackedWarehouse ==
  ASSUME Tracking, CountTypeOK, NEW s \in Skus, WarehouseStep(s)
  PROVE  Tracking'
<1>1. UNCHANGED <<status, freeze, blind, item, verdict>>
  BY DEF WarehouseStep, MoverCheck, MoverCommit, MoverRefused, CronRelease, folioVars, pendingVars
<1>2. ASSUME NEW x \in Skus PROVE shelf'[x] - book'[x] = shelf[x] - book[x]
  <2>1. /\ shelf \in [Skus -> Quantities] /\ book \in [Skus -> Quantities]
        /\ \A q \in Quantities : q \in Int
    BY DEF CountTypeOK, Quantities
  <2>2. CASE UNCHANGED <<shelf, book>>
    BY <2>2
  <2>3. CASE \E kind \in Movers, late \in BOOLEAN : MoverCommit(s, kind, late)
    BY <2>1, <2>3 DEF MoverCommit, MoveUnit
  <2> QED BY <2>2, <2>3 DEF WarehouseStep, MoverCheck, MoverRefused, CronRelease
<1> QED BY <1>1, <1>2 DEF Tracking, Unfrozen, Tracked

LEMMA TrackedStep ==
  ASSUME Honest, ~Corrections, Freezes = {FALSE}, Blinds = {FALSE},
         TrackedSoFar, CountTypeOK, [Next]_vars
  PROVE  TrackedSoFar'
<1>1. Unfrozen'
  <2>1. CASE \E f \in Freezes, b \in Blinds, listed \in SUBSET Skus : OpenCount(f, b, listed)
    BY <2>1, Zenon DEF OpenCount, Unfrozen
  <2>2. CASE UNCHANGED <<freeze, blind>>
    BY <2>2 DEF TrackedSoFar, Unfrozen
  <2>3. ASSUME NEW u \in Users, Count(u) PROVE UNCHANGED <<freeze, blind>>
    BY <2>3, CountStep DEF CountsAs, folioVars
  <2> QED BY <2>1, <2>2, <2>3
          DEF Next, Supervise, ResolveItem, Reconcile, FolioStep, ComputeRead, ComputeWrite, AdvanceCheck,
              AdvanceWrite, CancelCount, WarehouseStep, MoverCheck, MoverCommit, MoverRefused,
              CronRelease, vars, folioVars
<1>2. SUFFICES ASSUME reconciler' = Nobody PROVE Tracking'
  BY <1>1 DEF TrackedSoFar
<1>3. ASSUME NEW u \in Users PROVE ~Reconcile(u)
  BY <1>2, UsersAssumption DEF Reconcile
<1>4. Tracking
  <2>1. reconciler' = reconciler
    <3>1. ASSUME NEW u \in Users, Count(u) PROVE reconciler' = reconciler
      BY <3>1, CountStep DEF CountsAs
    <3> QED BY <1>3, <3>1
            DEF Next, Supervise, ResolveItem, FolioStep, OpenCount, ComputeRead, ComputeWrite, AdvanceCheck,
                AdvanceWrite, CancelCount, WarehouseStep, MoverCheck, MoverCommit, MoverRefused,
                CronRelease, vars, historyVars
  <2> QED BY <1>2, <2>1 DEF TrackedSoFar
<1>5. ASSUME NEW u \in Users, Count(u) \/ Supervise(u) PROVE Tracking'
  BY <1>3, <1>4, <1>5, TrackedCount, TrackedResolve DEF Supervise
<1>6. ASSUME FolioStep PROVE Tracking'
  <2>1. CASE AdvanceCheck \/ (\E to \in {"second", "review"} : AdvanceWrite(to)) \/ CancelCount
    <3>1. /\ UNCHANGED <<freeze, blind, item, shelf, book, verdict>>
          /\ status' = status \/ status' # "none"
      BY <2>1 DEF AdvanceCheck, AdvanceWrite, CancelCount, folioVars, stockVars, pendingVars
    <3> QED BY <1>4, <3>1, TrackedKept
  <2> QED BY <1>4, <1>6, <2>1, TrackedOpen, TrackedCompute DEF FolioStep
<1>7. ASSUME NEW s \in Skus, WarehouseStep(s) PROVE Tracking'
  BY <1>4, <1>7, TrackedWarehouse
<1>8. CASE UNCHANGED vars
  <2>1. UNCHANGED <<freeze, blind, item, shelf, book, verdict, status>>
    BY <1>8 DEF vars, folioVars, stockVars, pendingVars
  <2> QED BY <1>4, <2>1, TrackedKept
<1> QED BY <1>5, <1>6, <1>7, <1>8 DEF Next

\* The variance is the distance of the shelf from the book at any time.
LEMMA TrackedMeets ==
  ASSUME TrackedSoFar, CountTypeOK, NEW u \in Users, Reconcile(u), reconciler = Nobody,
         NEW s \in Listed, item[s].resolver = Nobody
  PROVE  book'[s] = shelf[s]
<1>1. /\ Tracked(item[s], shelf[s], book[s]) /\ ~freeze /\ item[s] \in Items /\ s \in Skus
      /\ book[s] \in Quantities /\ shelf[s] \in Quantities
  BY DEF TrackedSoFar, Tracking, Unfrozen, CountTypeOK, Listed
<1>2. item[s].count[1] # Null /\ item[s].final # Null /\ book'[s] = NewBook(s)
  BY <1>1 DEF Reconcile, Settled
<1>3. /\ item[s].final = item[s].count[1] /\ item[s].book # Null
      /\ item[s].count[1] - item[s].book = shelf[s] - book[s]
  BY <1>1, <1>2 DEF Tracked
<1>4. NewBook(s) = book[s] + item[s].count[1] - item[s].book
  BY <1>1, <1>3 DEF NewBook, Baseline
<1>5. /\ item[s].count[1] \in Quantities \union {Null} /\ item[s].book \in Quantities \union {Null}
      /\ \A q \in Quantities \union {Null} : q \in Int
  BY <1>1 DEF Items, Slots, Quantities, Null
<1> QED BY <1>1, <1>2, <1>3, <1>4, <1>5

(***************************************************************************)
(* Where people count what they see, once, in a folio that freezes nothing *)
(* and is not counted twice, the first reconciliation puts the book of     *)
(* every product no supervisor decided at the units on the shelf, whatever *)
(* was sold, received, reserved, delivered or expired meanwhile.           *)
(***************************************************************************)
THEOREM BookEndsAtShelf ==
  ASSUME Honest, ~Corrections, Freezes = {FALSE}, Blinds = {FALSE}
  PROVE  Spec => BookMeetsShelf
<1>1. Init => TrackedSoFar
  <2> SUFFICES ASSUME Init PROVE TrackedSoFar
    OBVIOUS
  <2>1. Unfrozen /\ verdict = {}
    BY Zenon DEF Init, Unfrozen
  <2>2. ASSUME NEW s \in Skus PROVE Tracked(item[s], shelf[s], book[s])
    <3>1. item[s].final = Null /\ item[s].count[1] = Null /\ item[s].book = Null
      BY DEF Init, NoItem, Slots
    <3> QED BY <3>1 DEF Tracked
  <2> QED BY <2>1, <2>2 DEF TrackedSoFar, Tracking
<1>2. CountTypeOK /\ TrackedSoFar /\ [Next]_vars => TrackedSoFar'
  BY TrackedStep
<1>3. CountTypeOK /\ TrackedSoFar /\ [Next]_vars =>
        [\A u \in Users : Reconcile(u) /\ reconciler = Nobody =>
           \A s \in Listed : item[s].resolver = Nobody => book'[s] = shelf[s]]_vars
  BY TrackedMeets
<1> QED BY <1>1, <1>2, <1>3, CountTypeCorrect, PTL DEF Spec, BookMeetsShelf
=============================================================================
