----------------------------- MODULE OfflineOrders -----------------------------
(***************************************************************************)
(* OfflineOrderService and OfflineSyncService of the vendor's app: orders  *)
(* taken without network, and the rounds that send them when there is one. *)
(*                                                                         *)
(* A round works through the orders it found when it began, one by one,    *)
(* with three requests each: create the draft, replace its lines, place    *)
(* it.  The device gives up waiting after a minute, but the request does   *)
(* not: the server may have done it, or do it at any time later, when the  *)
(* next round has sent it again.  Such late requests are kept apart from   *)
(* the one the device waits for.                                           *)
(*                                                                         *)
(* There is one round at a time (Web Locks).  An order is placed with a    *)
(* delivery date, so that placing it reserves nothing.                     *)
(***************************************************************************)
EXTENDS Integers, FiniteSets

CONSTANTS
  Orders,    \* orders taken on the device
  Products,
  MaxRetry,  \* MAX_RETRY_ATTEMPTS
  MaxLosses  \* bound: answers that do not arrive, and rounds that are cut off

NoOrder == <<"no order">>

ASSUME OfflineAssumption ==
  /\ NoOrder \notin Orders /\ IsFiniteSet(Orders)
  /\ MaxRetry \in Nat \ {0} /\ MaxLosses \in Nat

VARIABLES
  local,   \* the order on the device
  taken,   \* the products of its lines
  known,   \* orders whose serverOrderId is saved
  tries,   \* intentos_fallidos
  round,   \* orders the round has still to send
  at,      \* the order it is at
  step,    \* the request it is at
  answer,  \* of that request
  net,     \* requests that were not answered yet
  remote,  \* orders.status on the server, "absent" before it is created
  lines,   \* its lines on the server
  made,    \* history: orders created on the server
  losses,  \* history: losses so far
  unsure   \* history: orders for which the answer of place was lost

deviceVars == <<local, taken, known, tries>>
roundVars == <<round, at, step, answer>>
serverVars == <<remote, lines, made>>
lossVars == <<losses, unsure>>
vars == <<deviceVars, roundVars, net, serverVars, lossVars>>

Requests == {"create", "lines", "place"}
Messages == [req : Requests, order : Orders, late : BOOLEAN,
             looked : BOOLEAN]  \* create has found no order of that client_uuid

TypeOK ==
  /\ local \in [Orders -> {"building", "ready", "synced", "discarded"}]
  /\ taken \in [Orders -> SUBSET Products] /\ known \subseteq Orders
  /\ tries \in [Orders -> 0..MaxRetry]
  /\ round \subseteq Orders /\ at \in Orders \union {NoOrder}
  /\ step \in Requests \union {"none"} /\ answer \in {"none", "waiting", "ok", "refused"}
  /\ net \subseteq Messages
  /\ remote \in [Orders -> {"absent", "draft", "confirmed", "fulfilled", "cancelled"}]
  /\ lines \in [Orders -> SUBSET Products] /\ made \in [Orders -> Nat]
  /\ losses \in 0..MaxLosses /\ unsure \subseteq Orders

Init ==
  /\ local = [o \in Orders |-> "building"] /\ taken = [o \in Orders |-> {}]
  /\ known = {} /\ tries = [o \in Orders |-> 0]
  /\ round = {} /\ at = NoOrder /\ step = "none" /\ answer = "none"
  /\ net = {}
  /\ remote = [o \in Orders |-> "absent"] /\ lines = [o \in Orders |-> {}]
  /\ made = [o \in Orders |-> 0]
  /\ losses = 0 /\ unsure = {}

Placed(o) == remote[o] \in {"confirmed", "fulfilled"}
Dead(o) == tries[o] >= MaxRetry

-----------------------------------------------------------------------------
(* The vendor. *)

Confirm(o, S) ==
  /\ local[o] = "building"
  /\ local' = [local EXCEPT ![o] = "ready"] /\ taken' = [taken EXCEPT ![o] = S]
  /\ UNCHANGED <<known, tries, roundVars, net, serverVars, lossVars>>

\* The order is deleted on the device, even while a round is at it.
Cancel(o) ==
  /\ local[o] \in {"building", "ready"}
  /\ local' = [local EXCEPT ![o] = "discarded"]
  /\ UNCHANGED <<taken, known, tries, roundVars, net, serverVars, lossVars>>

Retry(o) ==
  /\ local[o] = "ready" /\ Dead(o)
  /\ tries' = [tries EXCEPT ![o] = 0]
  /\ UNCHANGED <<local, taken, known, roundVars, net, serverVars, lossVars>>

-----------------------------------------------------------------------------
(* A round. *)

\* Mistake: an order the server knows of is taken for sent.
QueueOfNew == {o \in Orders : local[o] = "ready" /\ ~Dead(o) /\ o \notin known}

Queue == {o \in Orders : local[o] = "ready" /\ ~Dead(o)}

StartRound ==
  /\ round = {} /\ at = NoOrder /\ Queue # {}
  /\ round' = Queue
  /\ UNCHANGED <<deviceVars, at, step, answer, net, serverVars, lossVars>>

Pick(o) ==
  /\ at = NoOrder /\ o \in round
  /\ round' = round \ {o} /\ at' = o
  /\ step' = IF o \in known THEN "lines" ELSE "create"
  /\ UNCHANGED <<deviceVars, answer, net, serverVars, lossVars>>

NextOrder == at' = NoOrder /\ step' = "none" /\ answer' = "none"

\* Mistake: what was sent is not marked.
WriteNothing(o, s) == UNCHANGED local

\* What is deleted on the device is not written again.
Write(o, s) == local' = IF local[o] = "ready" THEN [local EXCEPT ![o] = s] ELSE local

\* An order without lines is not sent further.
SkipEmpty ==
  /\ step = "lines" /\ answer = "none" /\ taken[at] = {}
  /\ Write(at, "synced") /\ NextOrder
  /\ UNCHANGED <<taken, known, tries, round, net, serverVars, lossVars>>

Current == [req |-> step, order |-> at, late |-> FALSE, looked |-> FALSE]

Send ==
  /\ at # NoOrder /\ answer = "none" /\ (step = "lines" => taken[at] # {})
  /\ net' = net \union {Current} /\ answer' = "waiting"
  /\ UNCHANGED <<deviceVars, round, at, step, serverVars, lossVars>>

Answered ==
  /\ answer = "ok"
  /\ \/ /\ step = "create" /\ known' = known \union {at}
        /\ step' = "lines" /\ answer' = "none" /\ UNCHANGED <<local, at>>
     \/ /\ step = "lines"
        /\ step' = "place" /\ answer' = "none" /\ UNCHANGED <<local, known, at>>
     \/ /\ step = "place" /\ Write(at, "synced") /\ NextOrder /\ UNCHANGED known
  /\ UNCHANGED <<taken, tries, round, net, serverVars, lossVars>>

\* An answer that is neither a success nor a transient error.
Refused ==
  /\ answer = "refused"
  /\ tries' = IF local[at] = "ready" THEN [tries EXCEPT ![at] = @ + 1] ELSE tries
  /\ NextOrder
  /\ UNCHANGED <<local, taken, known, round, net, serverVars, lossVars>>

\* The request goes astray, or arrives when nobody waits for it.
Abandon ==
  LET left == {m \in net : m.late}
  IN /\ net' \in {left, left \union {[m EXCEPT !.late = TRUE] : m \in net}}
     /\ losses < MaxLosses /\ losses' = losses + 1
     /\ unsure' = IF step = "place" /\ answer # "none" THEN unsure \union {at} ELSE unsure
     /\ NextOrder

\* No answer in time, or a transient error: the attempt is not counted.
Lose ==
  /\ answer # "none" /\ Abandon
  /\ UNCHANGED <<deviceVars, round, serverVars>>

\* The app is closed.
CutOff ==
  /\ at # NoOrder /\ Abandon /\ round' = {}
  /\ UNCHANGED <<deviceVars, serverVars>>

-----------------------------------------------------------------------------
(* The server. *)

\* Mistake: the answer to a late copy is taken for the one that is waited for.
ReplyToAny(m, a) ==
  /\ net' = net \ {m}
  /\ answer' = IF answer = "waiting" THEN a ELSE answer
  /\ UNCHANGED <<deviceVars, round, at, step, lossVars>>

\* Only the request the device waits for is answered.
Reply(m, a) ==
  /\ net' = net \ {m}
  /\ answer' = IF m.late THEN answer ELSE a
  /\ UNCHANGED <<deviceVars, round, at, step, lossVars>>

\* createDraft: an order of that client_uuid is returned as it is.
CreateDraftLook(m) ==
  /\ m.req = "create" /\ ~m.looked
  /\ \/ /\ made[m.order] > 0 /\ Reply(m, "ok")
     \/ /\ made[m.order] = 0 /\ Reply(m, "refused")
     \/ /\ made[m.order] = 0
        /\ net' = (net \ {m}) \union {[m EXCEPT !.looked = TRUE]}
        /\ UNCHANGED <<deviceVars, roundVars, lossVars>>
  /\ UNCHANGED serverVars

\* Mistake: no index.
InsertableAgain(o) == TRUE

\* The unique index on client_uuid.
Insertable(o) == made[o] = 0

CreateDraftInsert(m) ==
  /\ m.req = "create" /\ m.looked
  /\ IF Insertable(m.order)
       THEN /\ remote' = [remote EXCEPT ![m.order] = "draft"]
            /\ made' = [made EXCEPT ![m.order] = @ + 1]
            /\ Reply(m, "ok")
       ELSE Reply(m, "refused") /\ UNCHANGED <<remote, made>>
  /\ UNCHANGED lines

\* replaceLines leaves out the products that have no price any more.
ReplaceLines(m) ==
  /\ m.req = "lines"
  /\ IF remote[m.order] = "draft"
       THEN \E S \in SUBSET taken[m.order] : lines' = [lines EXCEPT ![m.order] = S] /\ Reply(m, "ok")
       ELSE Reply(m, "refused") /\ UNCHANGED lines
  /\ UNCHANGED <<remote, made>>

Place(m) ==
  /\ m.req = "place"
  /\ \/ /\ remote[m.order] = "draft" /\ lines[m.order] # {}
        /\ remote' = [remote EXCEPT ![m.order] = "confirmed"] /\ Reply(m, "ok")
     \/ /\ remote[m.order] = "confirmed" /\ Reply(m, "ok") /\ UNCHANGED remote
     \/ /\ \/ remote[m.order] \in {"fulfilled", "cancelled"}
           \/ remote[m.order] = "draft" /\ lines[m.order] = {}
        /\ Reply(m, "refused") /\ UNCHANGED remote
  /\ UNCHANGED <<lines, made>>

Serve == \E m \in net : CreateDraftLook(m) \/ CreateDraftInsert(m) \/ ReplaceLines(m) \/ Place(m)

\* The office cancels the order or delivers it.
Office(o) ==
  /\ \/ remote[o] \in {"draft", "confirmed"} /\ remote' = [remote EXCEPT ![o] = "cancelled"]
     \/ remote[o] = "confirmed" /\ remote' = [remote EXCEPT ![o] = "fulfilled"]
  /\ UNCHANGED <<deviceVars, roundVars, net, lines, made, lossVars>>

-----------------------------------------------------------------------------
RoundStep == StartRound \/ (\E o \in Orders : Pick(o)) \/ SkipEmpty \/ Send \/ Answered \/ Refused

Next ==
  \/ \E o \in Orders :
       (\E S \in SUBSET Products : Confirm(o, S)) \/ Cancel(o) \/ Retry(o) \/ Office(o)
  \/ RoundStep \/ Lose \/ CutOff \/ Serve

Spec == Init /\ [][Next]_vars

\* Rounds come for ever while there is network, and a request that is not lost
\* is served.
FairSpec == Spec /\ WF_vars(RoundStep) /\ WF_vars(Serve)

-----------------------------------------------------------------------------
(* Properties. *)

\* However often a draft is asked for, and however its copies overlap, the
\* server has one order for each of the device.
OneOrderEach == \A o \in Orders : made[o] <= 1

\* The device forgets an order only once the server has placed it; it may have
\* been cancelled since.
SyncedIsPlaced ==
  \A o \in Orders : local[o] = "synced" => taken[o] = {} \/ Placed(o) \/ remote[o] = "cancelled"

\* The attempts of an order the server has placed are used up only if the answer
\* of place was lost.
DeadIsUnplaced == \A o \in Orders : Dead(o) /\ Placed(o) => o \in unsure

\* An order in the queue is sent in the end, or its attempts are used up, or
\* the vendor discards it.
QueueDrains == \A o \in Orders : local[o] = "ready" ~> (local[o] # "ready" \/ Dead(o))

\* What the comment on the rounds promises: the lines and the placing can be
\* sent again, so that an order the server has placed costs no attempt.
ReplayIsIdempotent == [][\A o \in Orders : remote[o] = "confirmed" => tries'[o] <= tries[o]]_vars
=============================================================================
