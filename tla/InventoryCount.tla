---------------------------- MODULE InventoryCount ----------------------------
(***************************************************************************)
(* InventoryCountService: one folio of a physical count, from the snapshot *)
(* of the book to the reconciliation that sets the book to what was        *)
(* counted, in the mode that counts commercial.stock.                      *)
(*                                                                         *)
(* Counting, reconciling and cancelling lock the folio and are one step    *)
(* each.  Computing the discrepancies and advancing the pass read it       *)
(* without a lock and write later: they are two steps each, and anything   *)
(* may come between.  Resolving an item reads neither the status nor any   *)
(* other thing that its write depends on, so it is one step.               *)
(*                                                                         *)
(* Everything else that moves stock checks the freeze first and moves      *)
(* later, in the same transaction; the movement it leaves carries the time *)
(* at which that transaction began.                                        *)
(*                                                                         *)
(* A reconciliation reads the items and commits under the lock of the      *)
(* folio; what others write to the items meanwhile it neither sees nor     *)
(* undoes, which is the same as their writing it afterwards.               *)
(***************************************************************************)
EXTENDS Integers, FiniteSets

CONSTANTS
  Skus,         \* the products followed here, among those of the warehouse
  Users,        \* people who count, supervise and reconcile
  Counters,     \* users assigned as counters; {} when the folio has none
  Freezes,      \* values of freeze_movements the folio may be opened with
  Blinds,       \* values of blind_double_count
  Threshold,    \* recount_threshold_pct, 0 is off
  Offline,      \* scans carry the pass they were captured in
  RecountFlag,  \* a count may ask to be the third one at any time
  Honest,       \* people count what is on the shelf
  Corrections,  \* a count may be sent again
  Movers,       \* kinds of movement that other services make
  MaxQty        \* bound: units of a product on hand, and units counted

ASSUME CountAssumption ==
  /\ Counters \subseteq Users
  /\ Freezes \subseteq BOOLEAN
  /\ Blinds \subseteq BOOLEAN
  /\ Threshold \in 0..100
  /\ Offline \in BOOLEAN
  /\ RecountFlag \in BOOLEAN /\ Honest \in BOOLEAN /\ Corrections \in BOOLEAN
  /\ Movers \subseteq {"in", "out", "reserve", "deliver", "expire"}
  /\ MaxQty \in Nat

VARIABLES
  status,      \* inventory_counts.status, "none" before the folio exists
  freeze,      \* freeze_movements
  blind,       \* blind_double_count
  pass,        \* current_pass
  item,        \* inventory_count_items
  book,        \* commercial.stock.quantity
  reserved,    \* commercial.stock.reserved_quantity
  shelf,       \* units that are really there
  inflight,    \* movers that passed the freeze check and have not moved, and
               \* whether they began after the folio was opened
  moved,       \* products with a movement dated after a frozen folio was opened
  verdict,     \* what a computation under way found, {} when there is none
  advancing,   \* advances that passed their check and have not been written
  said,        \* history: who counted how much of what
  decided,     \* history: who resolved some item
  opened,      \* history: the book when a frozen folio was opened
  reconciler   \* reconciled_by

folioVars == <<status, freeze, blind, pass>>
stockVars == <<book, reserved, shelf, inflight, moved>>
pendingVars == <<verdict, advancing>>
historyVars == <<said, decided, opened, reconciler>>
vars == <<folioVars, item, stockVars, pendingVars, historyVars>>

Null == -1
Nobody == "nobody"

ASSUME UsersAssumption == Nobody \notin Users

Quantities == 0..MaxQty
Slots == 1..3

NoItem == [expected |-> Null, count |-> [n \in Slots |-> Null], by |-> [n \in Slots |-> Nobody],
           book |-> Null, final |-> Null, status |-> "absent", resolver |-> Nobody, reason |-> FALSE]

Items == [expected : Quantities \union {Null},
          count : [Slots -> Quantities \union {Null}],
          by : [Slots -> Users \union {Nobody}],
          book : Quantities \union {Null},
          final : Quantities \union {Null},
          status : {"absent", "pending", "counted", "discrepancy", "resolved"},
          resolver : Users \union {Nobody},
          reason : BOOLEAN]

Verdicts == [kind : {"skip", "discrepancy", "resolved"}, final : Quantities \union {Null}]

CountTypeOK ==
  /\ status \in {"none", "counting", "review", "reconciled", "cancelled"}
  /\ freeze \in BOOLEAN /\ blind \in BOOLEAN /\ pass \in 1..2
  /\ item \in [Skus -> Items]
  /\ book \in [Skus -> Quantities] /\ reserved \in [Skus -> Quantities]
  /\ shelf \in [Skus -> Quantities]
  /\ inflight \subseteq Skus \X BOOLEAN /\ moved \subseteq Skus
  /\ verdict \in SUBSET [Skus -> Verdicts]
  /\ advancing \subseteq {"second", "review"}
  /\ said \in [Skus -> SUBSET (Users \X Quantities)]
  /\ decided \subseteq Users
  /\ opened \in [Skus -> Quantities]
  /\ reconciler \in Users \union {Nobody}

Init ==
  /\ status = "none" /\ freeze = FALSE /\ blind = FALSE /\ pass = 1
  /\ item = [s \in Skus |-> NoItem]
  /\ book \in [Skus -> Quantities]
  /\ shelf \in IF Honest THEN [Skus -> Quantities] ELSE {book}
  /\ reserved = [s \in Skus |-> 0]
  /\ inflight = {} /\ moved = {}
  /\ verdict = {} /\ advancing = {}
  /\ said = [s \in Skus |-> {}] /\ decided = {} /\ opened = reserved /\ reconciler = Nobody

Exists == status # "none"
Frozen == freeze /\ status \in {"counting", "review"}
Listed == {s \in Skus : item[s].status # "absent"}

-----------------------------------------------------------------------------
(* The life of the folio. *)

\* openCount and openCycleCount: a snapshot of all the stock, or of a part
\* in which none of the products followed here need be.
OpenCount(f, b, listed) ==
  /\ status = "none"
  /\ status' = "counting" /\ freeze' = f /\ blind' = b
  /\ item' = [s \in Skus |-> IF s \in listed
                               THEN [NoItem EXCEPT !.expected = book[s], !.status = "pending"]
                               ELSE NoItem]
  /\ opened' = IF f THEN book ELSE opened
  /\ UNCHANGED <<pass, stockVars, pendingVars, said, decided, reconciler>>

\* The book a variance is measured against.
Baseline(i) == IF ~freeze /\ i.book # Null THEN i.book ELSE i.expected

Distance(a, b) == IF a < b THEN b - a ELSE a - b
OutOfTolerance(i, q) ==
  Threshold > 0 /\ Distance(q, Baseline(i)) * 100 > Baseline(i) * Threshold

MayCount(u) == Counters = {} \/ u \in Counters

\* The slot a count goes to: a scan goes to the pass it was captured in.
SlotFor(capture, recount) ==
  IF recount \/ (status = "review" /\ capture = Null) THEN 3
  ELSE IF capture = Null THEN pass ELSE capture

\* Mistake: the person who counted first may count a second time.
MaySignTwice(u, i, slot) ==
  /\ slot = 3 => u # i.by[1] /\ u # i.by[2]
  /\ slot = 2 => i.by[2] \in {Nobody, u}
  /\ slot = 1 => i.by[1] \in {Nobody, u}

\* Who may write a slot of an item.
MaySign(u, i, slot) ==
  /\ slot = 3 => u # i.by[1] /\ u # i.by[2]
  /\ slot = 2 => u # i.by[1] /\ i.by[2] \in {Nobody, u}
  /\ slot = 1 => i.by[1] \in {Nobody, u}

\* submitCount: an unlisted product becomes an item nobody expected.
SubmitCount(u, s, q, capture, recount) ==
  LET found == IF s \in Listed THEN item[s] ELSE [NoItem EXCEPT !.expected = 0]
      slot == SlotFor(capture, recount)
  IN  /\ status \in {"counting", "review"}
      /\ MayCount(u)
      /\ MaySign(u, found, slot)
      /\ item' = [item EXCEPT ![s] =
                    [found EXCEPT !.count[slot] = q,
                                  !.by[slot] = u,
                                  !.book = IF slot = 1 /\ ~freeze /\ @ = Null THEN book[s] ELSE @,
                                  !.status = "counted"]]
      /\ said' = [said EXCEPT ![s] = @ \union {<<u, q>>}]
      /\ UNCHANGED <<folioVars, stockVars, pendingVars, decided, opened, reconciler>>

\* The value the counts of an item agree on.
Agreed(i) ==
  LET c == i.count
  IN  IF ~blind THEN c[1]
      ELSE IF c[2] = Null THEN Null
      ELSE IF c[1] = c[2] THEN c[1]
      ELSE IF c[3] # Null /\ c[3] \in {c[1], c[2]} THEN c[3]
      ELSE Null

Skip == [kind |-> "skip", final |-> Null]
Verdict(i) ==
  IF i.status = "resolved" \/ i.count[1] = Null \/ (blind /\ i.count[2] = Null) THEN Skip
  ELSE IF Agreed(i) = Null \/ OutOfTolerance(i, Agreed(i)) THEN [Skip EXCEPT !.kind = "discrepancy"]
  ELSE [kind |-> "resolved", final |-> Agreed(i)]

\* computeDiscrepancies reads the items, in any state of the folio ...
ComputeRead ==
  /\ Exists
  /\ verdict = {}
  /\ verdict' = {[s \in Skus |-> Verdict(item[s])]}
  /\ UNCHANGED <<folioVars, item, stockVars, advancing, historyVars>>

\* ... and writes what it found in them, and the folio under review.
ComputeWrite ==
  /\ \E v \in verdict :
       item' = [s \in Skus |->
                  CASE v[s].kind = "skip" -> item[s]
                    [] v[s].kind = "discrepancy" -> [item[s] EXCEPT !.status = "discrepancy"]
                    [] v[s].kind = "resolved" -> [item[s] EXCEPT !.status = "resolved", !.final = v[s].final]]
  /\ status' = "review"
  /\ verdict' = {}
  /\ UNCHANGED <<freeze, blind, pass, stockVars, advancing, historyVars>>

\* resolveItem: the supervisor decides, in any state of the folio.
ResolveItem(u, s, q, reason) ==
  /\ s \in Listed
  /\ item' = [item EXCEPT ![s].final = q, ![s].status = "resolved",
                          ![s].resolver = u, ![s].reason = @ \/ reason]
  /\ decided' = decided \union {u}
  /\ UNCHANGED <<folioVars, stockVars, pendingVars, said, opened, reconciler>>

\* advancePass checks that the pass is complete ...
AdvanceCheck ==
  /\ status = "counting"
  /\ \A s \in Listed : item[s].count[pass] # Null
  /\ advancing' = advancing \union {IF pass = 1 /\ blind THEN "second" ELSE "review"}
  /\ UNCHANGED <<folioVars, item, stockVars, verdict, historyVars>>

\* Mistake: it always moves on to the next pass.
AdvanceAlways(to) ==
  /\ to \in advancing
  /\ pass' = pass + 1
  /\ \/ to = "second" /\ UNCHANGED status
     \/ to = "review" /\ status' = "review"
  /\ advancing' = advancing \ {to}
  /\ UNCHANGED <<freeze, blind, item, stockVars, verdict, historyVars>>

\* ... and writes the next one, or the review.
AdvanceWrite(to) ==
  /\ to \in advancing
  /\ \/ to = "second" /\ pass' = 2 /\ UNCHANGED status
     \/ to = "review" /\ status' = "review" /\ UNCHANGED pass
  /\ advancing' = advancing \ {to}
  /\ UNCHANGED <<freeze, blind, item, stockVars, verdict, historyVars>>

-----------------------------------------------------------------------------
(* The reconciliation. *)

Participants == UNION {{item[s].by[n] : n \in Slots} \union {item[s].resolver} : s \in Listed}

\* Mistake: every folio sets the book.
NewBookAbsolute(s) == item[s].final

\* A frozen folio sets the book; another one moves it by the variance.
NewBook(s) ==
  IF freeze THEN item[s].final ELSE book[s] + item[s].final - Baseline(item[s])

\* Mistake: the book may end below what is reserved.
FitsTheShelf(s) == NewBook(s) \in 0..MaxQty

\* The new book covers what is reserved, or does not change.
Postable(s) ==
  /\ NewBook(s) = book[s] \/ NewBook(s) >= reserved[s]
  /\ NewBook(s) <= MaxQty

\* Mistake: an item the supervisor decided counts as counted.
SettledByDecision(i) == i.status # "discrepancy" /\ i.final # Null

\* Counted, out of dispute and with a value to post.
Settled(i) == i.count[1] # Null /\ i.status # "discrepancy" /\ i.final # Null

Reconcile(u) ==
  /\ status \in {"counting", "review"}
  /\ \A s \in Listed :
       /\ Settled(item[s])
       /\ OutOfTolerance(item[s], item[s].final) => item[s].reason
       /\ freeze => s \notin moved
       /\ Postable(s)
  /\ u \notin Participants
  /\ book' = [s \in Skus |-> IF s \in Listed THEN NewBook(s) ELSE book[s]]
  /\ status' = "reconciled"
  /\ reconciler' = u
  /\ UNCHANGED <<freeze, blind, pass, item, reserved, shelf, inflight, moved, pendingVars,
                 said, decided, opened>>

\* cancel: anything but a reconciled folio.
CancelCount ==
  /\ status \notin {"none", "reconciled"}
  /\ status' = "cancelled"
  /\ UNCHANGED <<freeze, blind, pass, item, stockVars, pendingVars, historyVars>>

-----------------------------------------------------------------------------
(* The rest of the warehouse. *)

\* A movement begins: assertNotFrozen finds no frozen folio.  Of a product, one
\* from before the folio was opened and one from after may be under way (bound).
MoverCheck(s) ==
  /\ ~Frozen
  /\ <<s, Exists>> \notin inflight
  /\ inflight' = inflight \union {<<s, Exists>>}
  /\ UNCHANGED <<folioVars, item, book, reserved, shelf, moved, pendingVars, historyVars>>

\* What a movement of one unit does to the row, and to the shelf.
MoveUnit(s, kind) ==
  \/ /\ kind = "in" /\ book[s] < MaxQty /\ shelf[s] < MaxQty
     /\ book' = [book EXCEPT ![s] = @ + 1] /\ shelf' = [shelf EXCEPT ![s] = @ + 1]
     /\ UNCHANGED reserved
  \/ /\ kind = "out" /\ book[s] > reserved[s] /\ shelf[s] > 0
     /\ book' = [book EXCEPT ![s] = @ - 1] /\ shelf' = [shelf EXCEPT ![s] = @ - 1]
     /\ UNCHANGED reserved
  \/ /\ kind = "reserve" /\ book[s] > reserved[s]
     /\ reserved' = [reserved EXCEPT ![s] = @ + 1]
     /\ UNCHANGED <<book, shelf>>
  \/ /\ kind = "deliver" /\ reserved[s] > 0 /\ shelf[s] > 0
     /\ book' = [book EXCEPT ![s] = @ - 1] /\ shelf' = [shelf EXCEPT ![s] = @ - 1]
     /\ reserved' = [reserved EXCEPT ![s] = @ - 1]

\* It moves the row and commits: dated after the folio if it began after it
\* was opened, and perhaps if it began while it was being opened.
MoverCommit(s, kind, late) ==
  /\ <<s, late>> \in inflight
  /\ MoveUnit(s, kind)
  /\ moved' \in IF freeze THEN {moved \union {s}} \union {m \in {moved} : ~late} ELSE {moved}
  /\ inflight' = inflight \ {<<s, late>>}
  /\ UNCHANGED <<folioVars, item, pendingVars, historyVars>>

\* It is refused and leaves nothing behind.
MoverRefused(s, late) ==
  /\ <<s, late>> \in inflight
  /\ inflight' = inflight \ {<<s, late>>}
  /\ UNCHANGED <<folioVars, item, book, reserved, shelf, moved, pendingVars, historyVars>>

\* The cron of the apartados releases without a look at the freeze.
CronRelease(s) ==
  /\ reserved[s] > 0
  /\ reserved' = [reserved EXCEPT ![s] = @ - 1]
  /\ moved' = IF freeze THEN moved \union {s} ELSE moved
  /\ UNCHANGED <<folioVars, item, book, shelf, inflight, pendingVars, historyVars>>

-----------------------------------------------------------------------------
Captures == IF Offline THEN 1..pass ELSE {Null}
Flags == IF RecountFlag THEN BOOLEAN ELSE {FALSE}
Reasons == IF Threshold > 0 THEN BOOLEAN ELSE {FALSE}
Observed(s) == IF Honest THEN {shelf[s]} ELSE Quantities

\* Bound: without corrections a slot is written once.
Fresh(s, slot) == Corrections \/ item[s].by[slot] = Nobody

Count(u) ==
  \E s \in Skus, capture \in Captures, recount \in Flags :
    /\ Fresh(s, SlotFor(capture, recount))
    /\ \E q \in Observed(s) : SubmitCount(u, s, q, capture, recount)

Supervise(u) ==
  \/ \E s \in Skus, q \in Quantities, reason \in Reasons : ResolveItem(u, s, q, reason)
  \/ Reconcile(u)

FolioStep ==
  \/ \E f \in Freezes, b \in Blinds, listed \in SUBSET Skus : OpenCount(f, b, listed)
  \/ ComputeRead
  \/ ComputeWrite
  \/ AdvanceCheck
  \/ \E to \in {"second", "review"} : AdvanceWrite(to)
  \/ CancelCount

WarehouseStep(s) ==
  \/ Movers \ {"expire"} # {} /\ MoverCheck(s)
  \/ \E kind \in Movers, late \in BOOLEAN : MoverCommit(s, kind, late)
  \/ \E late \in BOOLEAN : MoverRefused(s, late)
  \/ "expire" \in Movers /\ CronRelease(s)

Next ==
  \/ \E u \in Users : Count(u) \/ Supervise(u)
  \/ FolioStep
  \/ \E s \in Skus : WarehouseStep(s)

Spec == Init /\ [][Next]_vars

-----------------------------------------------------------------------------
(* Correctness. *)

(***************************************************************************)
(* The blind double count: the final value of an item that no supervisor   *)
(* decided was counted by two different people, whatever the counters, the *)
(* supervisor's computations and the advances of the pass did at the same  *)
(* time.                                                                   *)
(***************************************************************************)
TwoObservers ==
  \A s \in Listed :
    blind /\ item[s].final # Null /\ item[s].resolver = Nobody =>
      \E u, v \in Users : u # v /\ {<<u, item[s].final>>, <<v, item[s].final>>} \subseteq said[s]

(***************************************************************************)
(* "Un no-contado NO se trata como cero": while a folio is reconciled every*)
(* one of its items has a first count and a final value, those found on    *)
(* the shelf while somebody was reconciling included.                      *)
(***************************************************************************)
NoUncountedAsZero ==
  status = "reconciled" =>
    \A s \in Listed : item[s].count[1] # Null /\ item[s].final # Null

(***************************************************************************)
(* The CHECK quantity >= reserved_quantity survives a reconciliation among *)
(* orders that reserve, deliver and expire while people count.             *)
(***************************************************************************)
BookCoversReserve == \A s \in Skus : book[s] >= reserved[s]

(***************************************************************************)
(* Counting without freezing: the first reconciliation leaves the book at  *)
(* what is on the shelf wherever the people who counted, and not a         *)
(* supervisor, had the last word.  What was sold, received or delivered    *)
(* between the count and the reconciliation is neither lost nor posted     *)
(* twice.                                                                  *)
(***************************************************************************)
BookMeetsShelf ==
  [][\A u \in Users : Reconcile(u) /\ reconciler = Nobody =>
       \A s \in Listed : item[s].resolver = Nobody => book'[s] = shelf[s]
    ]_vars

-----------------------------------------------------------------------------
(* What the code says of itself, and does not do. *)

(***************************************************************************)
(* "Un solo folio ABIERTO (no terminal)", "El folio ya fue reconciliado",  *)
(* "El folio fue cancelado": a closed folio is never open again.           *)
(***************************************************************************)
ClosedStaysClosed ==
  [][ (status \in {"reconciled", "cancelled"}) => (status' \notin {"counting", "review"}) ]_vars

(***************************************************************************)
(* "Segregación de funciones: quien contó o resolvió ítems del folio no    *)
(* puede autorizar la reconciliación."                                     *)
(***************************************************************************)
SegregationOfDuties ==
  [][\A u \in Users : Reconcile(u) =>
       /\ u \notin decided
       /\ \A s \in Skus, q \in Quantities : <<u, q>> \notin said[s]
    ]_vars

(***************************************************************************)
(* "El freeze guard garantiza que el saldo no se movió desde la apertura": *)
(* the book a frozen folio is the first to correct is the one it was       *)
(* opened over.                                                            *)
(***************************************************************************)
FrozenBookStands ==
  [][\A u \in Users : Reconcile(u) /\ freeze /\ reconciler = Nobody =>
       \A s \in Listed : book[s] = opened[s]
    ]_vars
=============================================================================
