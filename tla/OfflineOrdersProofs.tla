-------------------------- MODULE OfflineOrdersProofs --------------------------
(***************************************************************************)
(* The safety of the orders taken offline, for any number of orders,       *)
(* products, attempts and losses.                                          *)
(***************************************************************************)
EXTENDS OfflineOrders, TLAPS

\* An order the server has accepted once.
Accepted(o) == remote[o] \in {"confirmed", "fulfilled", "cancelled"}

\* A round is at most at one order, with attempts left, and knows what it sends.
RoundSound ==
  /\ at = NoOrder <=> step = "none"
  /\ at = NoOrder => answer = "none"
  /\ at \notin round
  /\ \A o \in Orders : o \in round \/ o = at => ~Dead(o) /\ local[o] # "building"
  /\ step = "create" => at \notin known
  /\ step \in {"lines", "place"} => at \in known

\* One request at most is waited for: the others are late, and a late place is
\* of an order whose answer was lost.
NetSound ==
  /\ \A m \in net : ~m.late => m.req = step /\ m.order = at /\ answer = "waiting"
  /\ \A m, n \in net : ~m.late /\ ~n.late => m = n
  /\ \A m \in net : m.req # "create" => m.order \in known
  /\ \A m \in net : m.late /\ m.req = "place" => m.order \in unsure

\* The device hears of an order that was placed, or its answer was lost.
Heard(o) ==
  \/ o \in unsure
  \/ local[o] \in {"synced", "discarded"}
  \/ at = o /\ step = "place" /\ answer = "ok"

ServerSound ==
  /\ \A o \in Orders : made[o] = 0 => remote[o] = "absent"
  /\ \A o \in Orders : Placed(o) => o \in known /\ Heard(o)
  /\ step = "place" /\ answer = "ok" => Accepted(at)

OfflineInv ==
  /\ TypeOK /\ RoundSound /\ NetSound /\ ServerSound
  /\ OneOrderEach /\ SyncedIsPlaced /\ DeadIsUnplaced

-----------------------------------------------------------------------------
LEMMA InvInit == Init => OfflineInv
<1> SUFFICES ASSUME Init PROVE OfflineInv
  OBVIOUS
<1>1. TypeOK
  BY OfflineAssumption DEF Init, TypeOK
<1>2. RoundSound /\ NetSound
  BY OfflineAssumption DEF Init, RoundSound, NetSound
<1>3. ServerSound /\ OneOrderEach /\ SyncedIsPlaced /\ DeadIsUnplaced
  BY DEF Init, ServerSound, Placed, OneOrderEach, SyncedIsPlaced, DeadIsUnplaced
<1> QED BY <1>1, <1>2, <1>3 DEF OfflineInv

\* What the vendor and the office do.
LEMMA PeopleKeep ==
  ASSUME OfflineInv, NEW o \in Orders,
         (\E S \in SUBSET Products : Confirm(o, S)) \/ Cancel(o) \/ Retry(o) \/ Office(o)
  PROVE  OfflineInv'
<1> USE OfflineAssumption DEF OfflineInv
<1>1. ASSUME NEW S \in SUBSET Products, Confirm(o, S) PROVE OfflineInv'
  <2> USE <1>1 DEF Confirm, roundVars, serverVars, lossVars
  <2>1. TypeOK'
    BY DEF TypeOK
  <2>2. RoundSound' /\ NetSound'
    BY DEF TypeOK, RoundSound, NetSound, Dead
  <2>3. ServerSound'
    BY DEF TypeOK, ServerSound, Placed, Heard, Accepted
  <2>4. OneOrderEach' /\ SyncedIsPlaced' /\ DeadIsUnplaced'
    BY DEF TypeOK, OneOrderEach, SyncedIsPlaced, DeadIsUnplaced, Placed, Dead
  <2> QED BY <2>1, <2>2, <2>3, <2>4
<1>2. CASE Cancel(o)
  <2> USE <1>2 DEF Cancel, roundVars, serverVars, lossVars
  <2>1. TypeOK'
    BY DEF TypeOK
  <2>2. RoundSound' /\ NetSound'
    BY DEF TypeOK, RoundSound, NetSound, Dead
  <2>3. ServerSound'
    BY DEF TypeOK, ServerSound, Placed, Heard, Accepted
  <2>4. OneOrderEach' /\ SyncedIsPlaced' /\ DeadIsUnplaced'
    BY DEF TypeOK, OneOrderEach, SyncedIsPlaced, DeadIsUnplaced, Placed, Dead
  <2> QED BY <2>1, <2>2, <2>3, <2>4
<1>3. CASE Retry(o)
  <2> USE <1>3 DEF Retry, roundVars, serverVars, lossVars
  <2>1. TypeOK'
    BY DEF TypeOK
  <2>2. RoundSound' /\ NetSound'
    BY DEF TypeOK, RoundSound, NetSound, Dead
  <2>3. ServerSound'
    BY DEF TypeOK, ServerSound, Placed, Heard, Accepted
  <2>4. OneOrderEach' /\ SyncedIsPlaced' /\ DeadIsUnplaced'
    BY DEF TypeOK, OneOrderEach, SyncedIsPlaced, DeadIsUnplaced, Placed, Dead
  <2> QED BY <2>1, <2>2, <2>3, <2>4
<1>4. CASE Office(o)
  <2> USE <1>4 DEF Office, deviceVars, roundVars, lossVars
  <2>1. TypeOK'
    BY DEF TypeOK
  <2>2. RoundSound' /\ NetSound'
    BY DEF TypeOK, RoundSound, NetSound, Dead
  <2>3. ServerSound'
    <3>1. \A p \in Orders : /\ Placed(p)' => Placed(p)
                            /\ Accepted(p) => Accepted(p)'
                            /\ remote[p] = "absent" => remote'[p] = "absent"
      BY DEF TypeOK, Placed, Accepted
    <3>2. at = NoOrder => answer = "none"
      BY DEF RoundSound
    <3> QED BY <3>1, <3>2 DEF TypeOK, ServerSound, Heard
  <2>4. OneOrderEach' /\ SyncedIsPlaced' /\ DeadIsUnplaced'
    BY DEF TypeOK, OneOrderEach, SyncedIsPlaced, DeadIsUnplaced, Placed, Dead
  <2> QED BY <2>1, <2>2, <2>3, <2>4
<1> QED BY <1>1, <1>2, <1>3, <1>4

\* A round of the device.
LEMMA RoundKeeps ==
  ASSUME OfflineInv, RoundStep PROVE OfflineInv'
<1> USE OfflineAssumption DEF OfflineInv, deviceVars, serverVars, lossVars
<1>1. CASE StartRound
  <2> USE <1>1 DEF StartRound, Queue
  <2>1. TypeOK'
    BY DEF TypeOK, RoundSound, Dead, Messages, Requests
  <2>2. RoundSound'
    BY DEF TypeOK, RoundSound, NetSound, Dead, Messages, Requests
  <2>3. NetSound'
    BY DEF TypeOK, RoundSound, NetSound, Messages
  <2>4. ServerSound'
    BY DEF TypeOK, RoundSound, NetSound, ServerSound, Placed, Heard, Accepted
  <2>5. OneOrderEach' /\ SyncedIsPlaced' /\ DeadIsUnplaced'
    BY DEF TypeOK, RoundSound, ServerSound, OneOrderEach, SyncedIsPlaced, DeadIsUnplaced,
       Placed, Dead, Heard, Accepted
  <2> QED BY <2>1, <2>2, <2>3, <2>4, <2>5
<1>2. CASE \E o \in Orders : Pick(o)
  <2> USE <1>2 DEF Pick
  <2>1. TypeOK'
    BY DEF TypeOK, RoundSound, Dead, Messages, Requests
  <2>2. RoundSound'
    BY DEF TypeOK, RoundSound, NetSound, Dead, Messages, Requests
  <2>3. NetSound'
    BY DEF TypeOK, RoundSound, NetSound, Messages
  <2>4. ServerSound'
    BY DEF TypeOK, RoundSound, NetSound, ServerSound, Placed, Heard, Accepted
  <2>5. OneOrderEach' /\ SyncedIsPlaced' /\ DeadIsUnplaced'
    BY DEF TypeOK, RoundSound, ServerSound, OneOrderEach, SyncedIsPlaced, DeadIsUnplaced,
       Placed, Dead, Heard, Accepted
  <2> QED BY <2>1, <2>2, <2>3, <2>4, <2>5
<1>3. CASE SkipEmpty
  <2> USE <1>3 DEF SkipEmpty, Write, NextOrder
  <2>1. TypeOK'
    BY DEF TypeOK, RoundSound, Dead, Messages, Requests
  <2>2. RoundSound'
    BY DEF TypeOK, RoundSound, NetSound, Dead, Messages, Requests
  <2>3. NetSound'
    BY DEF TypeOK, RoundSound, NetSound, Messages
  <2>4. ServerSound'
    BY DEF TypeOK, RoundSound, NetSound, ServerSound, Placed, Heard, Accepted
  <2>5. OneOrderEach' /\ SyncedIsPlaced' /\ DeadIsUnplaced'
    BY DEF TypeOK, RoundSound, ServerSound, OneOrderEach, SyncedIsPlaced, DeadIsUnplaced,
       Placed, Dead, Heard, Accepted
  <2> QED BY <2>1, <2>2, <2>3, <2>4, <2>5
<1>4. CASE Send
  <2> USE <1>4 DEF Send
  <2>0. Current \in Messages /\ ~Current.late /\ Current.req = step /\ Current.order = at
    BY DEF TypeOK, RoundSound, Current, Requests, Messages
  <2>1. TypeOK'
    BY <2>0 DEF TypeOK
  <2>2. RoundSound'
    BY DEF TypeOK, RoundSound, NetSound, Dead, Messages, Requests
  <2>3. NetSound'
    <3>1. \A m \in net' : m \in net \/ m = Current
      OBVIOUS
    <3>2. \A m \in net : m.late
      BY DEF NetSound
    <3>3. Current.req # "create" => at \in known
      <4>1. step # "create" => at \in known
        BY <2>0 DEF TypeOK, RoundSound, Requests, Messages
      <4> QED BY <2>0, <4>1
    <3> QED BY <2>0, <3>1, <3>2, <3>3 DEF NetSound
  <2>4. ServerSound'
    BY DEF TypeOK, RoundSound, NetSound, ServerSound, Placed, Heard, Accepted
  <2>5. OneOrderEach' /\ SyncedIsPlaced' /\ DeadIsUnplaced'
    BY DEF TypeOK, RoundSound, ServerSound, OneOrderEach, SyncedIsPlaced, DeadIsUnplaced,
       Placed, Dead, Heard, Accepted
  <2> QED BY <2>1, <2>2, <2>3, <2>4, <2>5
<1>5. CASE Answered
  <2> USE <1>5 DEF Answered, Write, NextOrder, Requests
  <2>1. TypeOK'
    BY DEF TypeOK, RoundSound, Dead, Messages, Requests
  <2>2. RoundSound'
    BY DEF TypeOK, RoundSound, NetSound, Dead, Messages, Requests
  <2>3. NetSound'
    BY DEF TypeOK, RoundSound, NetSound, Messages
  <2>4. ServerSound'
    BY DEF TypeOK, RoundSound, NetSound, ServerSound, Placed, Heard, Accepted
  <2>5. OneOrderEach' /\ SyncedIsPlaced' /\ DeadIsUnplaced'
    BY DEF TypeOK, RoundSound, ServerSound, OneOrderEach, SyncedIsPlaced, DeadIsUnplaced,
       Placed, Dead, Heard, Accepted
  <2> QED BY <2>1, <2>2, <2>3, <2>4, <2>5
<1>6. CASE Refused
  <2> USE <1>6 DEF Refused, NextOrder, Dead
  <2>1. TypeOK'
    BY DEF TypeOK, RoundSound, Dead, Messages, Requests
  <2>2. RoundSound'
    BY DEF TypeOK, RoundSound, NetSound, Dead, Messages, Requests
  <2>3. NetSound'
    BY DEF TypeOK, RoundSound, NetSound, Messages
  <2>4. ServerSound'
    BY DEF TypeOK, RoundSound, NetSound, ServerSound, Placed, Heard, Accepted
  <2>5. OneOrderEach' /\ SyncedIsPlaced' /\ DeadIsUnplaced'
    BY DEF TypeOK, RoundSound, ServerSound, OneOrderEach, SyncedIsPlaced, DeadIsUnplaced,
       Placed, Dead, Heard, Accepted
  <2> QED BY <2>1, <2>2, <2>3, <2>4, <2>5
<1> QED BY <1>1, <1>2, <1>3, <1>4, <1>5, <1>6 DEF RoundStep

\* What was under way when the device gave up is late or lost.
LEMMA LateOnly ==
  ASSUME net \subseteq Messages,
         LET left == {m \in net : m.late}
         IN  net' \in {left, left \union {[m EXCEPT !.late = TRUE] : m \in net}}
  PROVE  net' \subseteq Messages /\ \A m \in net' : m.late
<1>1. \A m \in net : [m EXCEPT !.late = TRUE] \in Messages /\ [m EXCEPT !.late = TRUE].late
  BY DEF Messages
<1> QED BY <1>1

\* The device gives up waiting, or the app is closed.
LEMMA AbandonKeeps ==
  ASSUME OfflineInv, Lose \/ CutOff PROVE OfflineInv'
<1> USE OfflineAssumption DEF OfflineInv, deviceVars, serverVars, Abandon, NextOrder
<1>1. CASE Lose
  <2> USE <1>1 DEF Lose
  <2>1. TypeOK'
    <3>1. net' \subseteq Messages
      BY LateOnly DEF TypeOK
    <3>2. unsure' \subseteq Orders
      BY DEF TypeOK, RoundSound
    <3> QED BY <3>1, <3>2 DEF TypeOK
  <2>2. RoundSound'
    BY DEF TypeOK, RoundSound, NetSound, Dead, Messages, Requests
  <2>3. NetSound'
    BY DEF TypeOK, RoundSound, NetSound, Messages
  <2>4. ServerSound'
    BY DEF TypeOK, RoundSound, NetSound, ServerSound, Placed, Heard, Accepted
  <2>5. OneOrderEach' /\ SyncedIsPlaced' /\ DeadIsUnplaced'
    BY DEF TypeOK, RoundSound, ServerSound, OneOrderEach, SyncedIsPlaced, DeadIsUnplaced,
       Placed, Dead, Heard, Accepted
  <2> QED BY <2>1, <2>2, <2>3, <2>4, <2>5
<1>2. CASE CutOff
  <2> USE <1>2 DEF CutOff
  <2>1. TypeOK'
    <3>1. net' \subseteq Messages
      <4>1. LET left == {m \in net : m.late}
            IN  net' \in {left, left \union {[m EXCEPT !.late = TRUE] : m \in net}}
        OBVIOUS
      <4>2. net \subseteq Messages
        BY DEF TypeOK
      <4> QED BY <4>1, <4>2, LateOnly
    <3>2. unsure' \subseteq Orders
      BY DEF TypeOK, RoundSound
    <3> QED BY <3>1, <3>2 DEF TypeOK
  <2>2. RoundSound'
    BY DEF TypeOK, RoundSound, NetSound, Dead, Messages, Requests
  <2>3. NetSound'
    BY DEF TypeOK, RoundSound, NetSound, Messages
  <2>4. ServerSound'
    BY DEF TypeOK, RoundSound, NetSound, ServerSound, Placed, Heard, Accepted
  <2>5. OneOrderEach' /\ SyncedIsPlaced' /\ DeadIsUnplaced'
    BY DEF TypeOK, RoundSound, ServerSound, OneOrderEach, SyncedIsPlaced, DeadIsUnplaced,
       Placed, Dead, Heard, Accepted
  <2> QED BY <2>1, <2>2, <2>3, <2>4, <2>5
<1> QED BY <1>1, <1>2

\* The server.
LEMMA ServeKeeps ==
  ASSUME OfflineInv, NEW m \in net,
         CreateDraftLook(m) \/ CreateDraftInsert(m) \/ ReplaceLines(m) \/ Place(m)
  PROVE  OfflineInv'
<1> USE OfflineAssumption DEF OfflineInv, deviceVars, serverVars, lossVars, Reply
<1>1. CASE CreateDraftLook(m)
  <2> USE <1>1 DEF CreateDraftLook, roundVars
  <2>1. TypeOK'
    BY DEF TypeOK, RoundSound, Dead, Messages, Requests
  <2>2. RoundSound'
    BY DEF TypeOK, RoundSound, NetSound, Dead, Messages, Requests
  <2>3. NetSound'
    BY DEF TypeOK, RoundSound, NetSound, Messages
  <2>4. ServerSound'
    BY DEF TypeOK, RoundSound, NetSound, ServerSound, Placed, Heard, Accepted
  <2>5. OneOrderEach' /\ SyncedIsPlaced' /\ DeadIsUnplaced'
    BY DEF TypeOK, RoundSound, ServerSound, OneOrderEach, SyncedIsPlaced, DeadIsUnplaced,
       Placed, Dead, Heard, Accepted
  <2> QED BY <2>1, <2>2, <2>3, <2>4, <2>5
<1>2. CASE CreateDraftInsert(m)
  <2> USE <1>2 DEF CreateDraftInsert, Insertable
  <2>1. TypeOK'
    BY DEF TypeOK, RoundSound, Dead, Messages, Requests
  <2>2. RoundSound'
    BY DEF TypeOK, RoundSound, NetSound, Dead, Messages, Requests
  <2>3. NetSound'
    BY DEF TypeOK, RoundSound, NetSound, Messages
  <2>4. ServerSound'
    BY DEF TypeOK, RoundSound, NetSound, ServerSound, Placed, Heard, Accepted
  <2>5. OneOrderEach' /\ SyncedIsPlaced' /\ DeadIsUnplaced'
    BY DEF TypeOK, RoundSound, ServerSound, OneOrderEach, SyncedIsPlaced, DeadIsUnplaced,
       Placed, Dead, Heard, Accepted
  <2> QED BY <2>1, <2>2, <2>3, <2>4, <2>5
<1>3. CASE ReplaceLines(m)
  <2> USE <1>3 DEF ReplaceLines
  <2>1. TypeOK'
    BY DEF TypeOK, RoundSound, Dead, Messages, Requests
  <2>2. RoundSound'
    BY DEF TypeOK, RoundSound, NetSound, Dead, Messages, Requests
  <2>3. NetSound'
    BY DEF TypeOK, RoundSound, NetSound, Messages
  <2>4. ServerSound'
    BY DEF TypeOK, RoundSound, NetSound, ServerSound, Placed, Heard, Accepted
  <2>5. OneOrderEach' /\ SyncedIsPlaced' /\ DeadIsUnplaced'
    BY DEF TypeOK, RoundSound, ServerSound, OneOrderEach, SyncedIsPlaced, DeadIsUnplaced,
       Placed, Dead, Heard, Accepted
  <2> QED BY <2>1, <2>2, <2>3, <2>4, <2>5
<1>4. CASE Place(m)
  <2> USE <1>4 DEF Place
  <2>1. TypeOK'
    BY DEF TypeOK, RoundSound, Dead, Messages, Requests
  <2>2. RoundSound'
    BY DEF TypeOK, RoundSound, NetSound, Dead, Messages, Requests
  <2>3. NetSound'
    BY DEF TypeOK, RoundSound, NetSound, Messages
  <2>4. ServerSound'
    BY DEF TypeOK, RoundSound, NetSound, ServerSound, Placed, Heard, Accepted
  <2>5. OneOrderEach' /\ SyncedIsPlaced' /\ DeadIsUnplaced'
    <3>1. m.order \in Orders
      BY DEF TypeOK, Messages
    <3>2. \A o \in Orders : Accepted(o) => Accepted(o)'
      BY <3>1 DEF TypeOK, Accepted
    <3>3. \A o \in Orders : Placed(o)' => Placed(o) \/ o = m.order
      BY <3>1 DEF TypeOK, Placed
    <3>4. Dead(m.order) => m.late /\ m.order \in unsure
      BY <3>1 DEF RoundSound, NetSound
    <3>5. OneOrderEach' /\ SyncedIsPlaced'
      BY <3>2 DEF OneOrderEach, SyncedIsPlaced, Placed, Accepted
    <3>6. DeadIsUnplaced'
      BY <3>1, <3>3, <3>4 DEF DeadIsUnplaced, Dead
    <3> QED BY <3>5, <3>6
  <2> QED BY <2>1, <2>2, <2>3, <2>4, <2>5
<1> QED BY <1>1, <1>2, <1>3, <1>4

\* No step but those of the round, the vendor, the office, the network and the
\* server changes anything.
LEMMA InvNext == OfflineInv /\ [Next]_vars => OfflineInv'
<1> SUFFICES ASSUME OfflineInv, [Next]_vars PROVE OfflineInv'
  OBVIOUS
<1>1. CASE UNCHANGED vars
  BY <1>1 DEF vars, deviceVars, roundVars, serverVars, lossVars, OfflineInv, TypeOK, RoundSound,
     NetSound, ServerSound, OneOrderEach, SyncedIsPlaced, DeadIsUnplaced, Placed, Dead, Heard,
     Accepted
<1>2. ASSUME NEW o \in Orders,
             (\E S \in SUBSET Products : Confirm(o, S)) \/ Cancel(o) \/ Retry(o) \/ Office(o)
      PROVE  OfflineInv'
  BY <1>2, PeopleKeep
<1>3. CASE RoundStep
  BY <1>3, RoundKeeps
<1>4. CASE Lose \/ CutOff
  BY <1>4, AbandonKeeps
<1>5. CASE Serve
  BY <1>5, ServeKeeps DEF Serve
<1> QED BY <1>1, <1>2, <1>3, <1>4, <1>5 DEF Next

-----------------------------------------------------------------------------
(* Theorems. *)

\* The invariant behind the other theorems: what the device, the network and
\* the server know of an order fits together.
THEOREM OfflineInvariant == Spec => []OfflineInv
<1> QED BY InvInit, InvNext, PTL DEF Spec

\* Every reachable state of device, network and server is well typed.
THEOREM OfflineTypeCorrect == Spec => []TypeOK
<1>1. OfflineInv => TypeOK
  BY DEF OfflineInv
<1> QED BY <1>1, OfflineInvariant, PTL

\* createDraft and the index on client_uuid make one order, whatever arrives
\* twice, late or in another order.
THEOREM OneOrderForEach == Spec => []OneOrderEach
<1>1. OfflineInv => OneOrderEach
  BY DEF OfflineInv
<1> QED BY <1>1, OfflineInvariant, PTL

\* sincronizarPedidosPendientes marks an order only when its place was answered.
THEOREM SyncedHasBeenPlaced == Spec => []SyncedIsPlaced
<1>1. OfflineInv => SyncedIsPlaced
  BY DEF OfflineInv
<1> QED BY <1>1, OfflineInvariant, PTL

\* An order that was placed uses up its attempts only after a lost answer.
THEOREM DeadHasNotBeenHeard == Spec => []DeadIsUnplaced
<1>1. OfflineInv => DeadIsUnplaced
  BY DEF OfflineInv
<1> QED BY <1>1, OfflineInvariant, PTL
=============================================================================
