--------------------------- MODULE StockReservation ---------------------------
(***************************************************************************)
(* StockReservationService and StockReservationCronService: the apartados, *)
(* holds on stock that a customer opens over WhatsApp and that end when    *)
(* the customer releases them or, some time after they expire, when a run  *)
(* of the cron finds them.                                                 *)
(*                                                                         *)
(* A manual release filters expires_at > now() with the time its           *)
(* transaction started, then waits for the header row: it is two steps,    *)
(* and an apartado may expire between them.  The cron reads the list of    *)
(* expired apartados outside any transaction and releases each one later,  *)
(* in a transaction of its own that looks neither at released_at nor at    *)
(* the freeze before it moves the stock.  isRunning is a field of the      *)
(* process: two instances of the API run their crons side by side.         *)
(*                                                                         *)
(* A release of all the apartados of a phone is modelled as a release of   *)
(* each: what it does to each of them does not depend on the others.       *)
(***************************************************************************)
EXTENDS OrderStock

CONSTANTS
  Reservations,   \* apartados
  Instances,      \* processes of the API that run the cron
  MaxHold         \* bound: units of a product in one apartado

ASSUME ReservationsAssumption ==
  /\ Reservations \subseteq Holders
  /\ MaxHold \in Nat \ {0}

VARIABLES
  hold,       \* released_at and released_reason, "none" before it exists
  wanted,     \* stock_reservation_lines.quantity
  expired,    \* expires_at is in the past
  releasing,  \* manual releases that began before their apartado expired
  running,    \* isRunning of each instance
  selected    \* what is left of the list each running cron read

holdVars == <<hold, wanted, expired, releasing, running, selected>>

HoldStates == {"none", "active", "released_manual", "expired"}

ReservationTypeOK ==
  /\ hold \in [Reservations -> HoldStates]
  /\ wanted \in [Reservations -> Need]
  /\ expired \in [Reservations -> BOOLEAN]
  /\ releasing \subseteq Reservations
  /\ running \in [Instances -> BOOLEAN]
  /\ selected \in [Instances -> SUBSET Reservations]

ReservationInit ==
  /\ hold = [r \in Reservations |-> "none"]
  /\ wanted = [r \in Reservations |-> [p \in Products |-> 0]]
  /\ expired = [r \in Reservations |-> FALSE]
  /\ releasing = {}
  /\ running = [i \in Instances |-> FALSE]
  /\ selected = [i \in Instances |-> {}]

-----------------------------------------------------------------------------
\* apartar: header, reserve of every line and lines, all or nothing.
Apartar(r, need) ==
  /\ hold[r] = "none"
  /\ \E p \in Products : need[p] > 0
  /\ Reserve(r, need)
  /\ hold' = [hold EXCEPT ![r] = "active"]
  /\ wanted' = [wanted EXCEPT ![r] = need]
  /\ UNCHANGED <<expired, releasing, running, selected>>

\* The clock passes expires_at.
Expire(r) ==
  /\ hold[r] = "active"
  /\ ~expired[r]
  /\ expired' = [expired EXCEPT ![r] = TRUE]
  /\ UNCHANGED <<hold, wanted, releasing, running, selected, stockVars>>

\* release: the transaction starts while the apartado is alive ...
BeginRelease(r) ==
  /\ hold[r] = "active"
  /\ ~expired[r]
  /\ releasing' = releasing \union {r}
  /\ UNCHANGED <<hold, wanted, expired, running, selected, stockVars>>

\* ... and, with the header locked and released_at still null, gives back.
FinishRelease(r) ==
  /\ r \in releasing
  /\ hold[r] = "active"
  /\ Release(r, wanted[r])
  /\ hold' = [hold EXCEPT ![r] = "released_manual"]
  /\ releasing' = releasing \ {r}
  /\ UNCHANGED <<wanted, expired, running, selected>>

\* The header is no longer active, or the warehouse is frozen: it answers
\* with an error and nothing changes.
RefuseRelease(r) ==
  /\ r \in releasing
  /\ hold[r] # "active" \/ ~NotFrozen(wanted[r])
  /\ releasing' = releasing \ {r}
  /\ UNCHANGED <<hold, wanted, expired, running, selected, stockVars>>

-----------------------------------------------------------------------------
\* releaseExpired starts: the list, read once.
CronSelect(i) ==
  /\ ~running[i]
  /\ running' = [running EXCEPT ![i] = TRUE]
  /\ selected' = [selected EXCEPT ![i] = {r \in Reservations : hold[r] = "active" /\ expired[r]}]
  /\ UNCHANGED <<hold, wanted, expired, releasing, stockVars>>

\* Mistake: a frozen warehouse keeps the units and the header closes.
CronClosingOnly(i, r) ==
  /\ r \in selected[i]
  /\ \/ ~frozen /\ GiveBack(r, wanted[r])
     \/ frozen /\ UNCHANGED stockVars
  /\ hold' = [hold EXCEPT ![r] = IF @ = "active" THEN "expired" ELSE @]
  /\ selected' = [selected EXCEPT ![i] = @ \ {r}]
  /\ UNCHANGED <<wanted, expired, releasing, running>>

\* Mistake: the cron waits for the count of the warehouse to end.
CronWaitingForThaw(i, r) ==
  /\ r \in selected[i]
  /\ Release(r, wanted[r])
  /\ hold' = [hold EXCEPT ![r] = IF @ = "active" THEN "expired" ELSE @]
  /\ selected' = [selected EXCEPT ![i] = @ \ {r}]
  /\ UNCHANGED <<wanted, expired, releasing, running>>

\* The transaction for one apartado of the list: the stock moves, then the
\* header is closed if it is still open.
CronRelease(i, r) ==
  /\ r \in selected[i]
  /\ GiveBack(r, wanted[r])
  /\ hold' = [hold EXCEPT ![r] = IF @ = "active" THEN "expired" ELSE @]
  /\ selected' = [selected EXCEPT ![i] = @ \ {r}]
  /\ UNCHANGED <<wanted, expired, releasing, running>>

\* The run ends when its list is done.
CronFinish(i) ==
  /\ running[i]
  /\ selected[i] = {}
  /\ running' = [running EXCEPT ![i] = FALSE]
  /\ UNCHANGED <<hold, wanted, expired, releasing, selected, stockVars>>

\* An exception, or a restart of the process, drops the rest of the list.
CronAbort(i) ==
  /\ running[i]
  /\ selected[i] # {}
  /\ running' = [running EXCEPT ![i] = FALSE]
  /\ selected' = [selected EXCEPT ![i] = {}]
  /\ UNCHANGED <<hold, wanted, expired, releasing, stockVars>>

-----------------------------------------------------------------------------
CronStep(i) ==
  \/ CronSelect(i)
  \/ \E r \in Reservations : CronRelease(i, r)
  \/ CronFinish(i)
  \/ CronAbort(i)

CustomerStep(r) ==
  \/ \E need \in [Products -> 0..MaxHold] : Apartar(r, need)
  \/ Expire(r)
  \/ BeginRelease(r)
  \/ FinishRelease(r)
  \/ RefuseRelease(r)

ReservationNext ==
  \/ \E r \in Reservations : CustomerStep(r)
  \/ \E i \in Instances : CronStep(i)

(***************************************************************************)
(* Each instance starts a run every five minutes and works through its     *)
(* list; a transaction that keeps being tried commits in the end, however  *)
(* often an exception cut the run short before.                            *)
(***************************************************************************)
CronFairness ==
  \A i \in Instances :
    /\ WF_<<stockVars, holdVars>>(CronSelect(i))
    /\ WF_<<stockVars, holdVars>>(CronFinish(i))
    /\ \A r \in Reservations : SF_<<stockVars, holdVars>>(CronRelease(i, r))

-----------------------------------------------------------------------------
(* Correctness. *)

(***************************************************************************)
(* A closed apartado has nothing left in its name, and an open one has     *)
(* exactly what its lines say, whoever closed it and however many tried.   *)
(***************************************************************************)
HoldKeepsItsUnits ==
  \A r \in Reservations, p \in Products :
    held[r][p] = IF hold[r] = "active" THEN wanted[r][p] ELSE 0

(***************************************************************************)
(* "Libera las reservas con expires_at < NOW() que sigan activas           *)
(* (released_at IS NULL)": the cron takes units off the reserved counter   *)
(* only for an apartado that nobody closed before.                         *)
(***************************************************************************)
CronReleasesOnlyActive ==
  [][\A i \in Instances, r \in Reservations :
       CronRelease(i, r) => hold[r] = "active" \/ stock' = stock
    ]_<<stockVars, holdVars>>

(***************************************************************************)
(* An apartado that expires does not hold its units for ever: some run of  *)
(* the cron, or a release under way, closes it.                            *)
(***************************************************************************)
ExpiredIsClosed ==
  \A r \in Reservations :
    (hold[r] = "active" /\ expired[r]) ~> (hold[r] \in {"released_manual", "expired"})
=============================================================================
