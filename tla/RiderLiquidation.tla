--------------------------- MODULE RiderLiquidation ---------------------------
(***************************************************************************)
(* CommercialRiderLiquidationService: the cut of one rider and one day.    *)
(*                                                                         *)
(* Closing locks the cut, not the payments: it adds up those it sees, and  *)
(* then stamps those it sees.  Payments may be recorded and reversed in    *)
(* between, and after.                                                     *)
(***************************************************************************)
EXTENDS OrderPayments

VARIABLES
  cut,       \* rider_liquidations.status
  expected,  \* rider_liquidations.cash_expected
  totals,    \* the payments a closing has added up, {} when there is none
  closing,   \* a closing is under way
  counted    \* history: the payments the closed cut was computed from

cutVars == <<cut, expected, totals, closing, counted>>

CutTypeOK ==
  /\ cut \in {"none", "open", "closed", "reconciled"}
  /\ expected \in Nat
  /\ totals \subseteq PayIds /\ closing \in BOOLEAN /\ counted \subseteq PayIds

CutInit ==
  cut = "none" /\ expected = 0 /\ totals = {} /\ closing = FALSE /\ counted = {}

OfRider == {i \in PayIds : pay[i].status # "none" /\ pay[i].rider}
Cash(S) == SumFunctionOnSet(Amounts, {i \in S : pay[i].method = "cash"})

OpenCut ==
  /\ cut = "none" /\ ~closing
  /\ cut' = "open"
  /\ UNCHANGED <<moneyVars, expected, totals, closing, counted>>

\* close, or blindCloseOwn of a cut that may not exist yet.
ComputeTotals ==
  /\ cut \in {"none", "open"} /\ ~closing
  /\ closing' = TRUE
  /\ totals' = {i \in OfRider : Live(i)}
  /\ UNCHANGED <<moneyVars, cut, expected, counted>>

\* Mistake: what was reversed since it was added up is not stamped.
CloseCutLive ==
  /\ closing
  /\ pay' = [i \in PayIds |-> IF i \in OfRider /\ Live(i) THEN [pay[i] EXCEPT !.cut = TRUE] ELSE pay[i]]
  /\ cut' = "closed" /\ expected' = Cash(totals) /\ counted' = totals
  /\ closing' = FALSE /\ totals' = {}
  /\ UNCHANGED <<orderVars, edited>>

\* The sums were made when the payments were read: only the stamp is new.
CloseCut ==
  /\ closing
  /\ pay' = [i \in PayIds |-> IF i \in OfRider THEN [pay[i] EXCEPT !.cut = TRUE] ELSE pay[i]]
  /\ cut' = "closed" /\ expected' = Cash(totals) /\ counted' = totals
  /\ closing' = FALSE /\ totals' = {}
  /\ UNCHANGED <<orderVars, edited>>

AbortClose ==
  /\ closing /\ closing' = FALSE /\ totals' = {}
  /\ UNCHANGED <<moneyVars, cut, expected, counted>>

Reconcile ==
  /\ cut = "closed" /\ cut' = "reconciled"
  /\ UNCHANGED <<moneyVars, expected, totals, closing, counted>>

CutNext == OpenCut \/ ComputeTotals \/ CloseCut \/ AbortClose \/ Reconcile

-----------------------------------------------------------------------------
(* Properties. *)

\* What the rider is held to have is cash that carries the stamp of the cut:
\* no payment is counted and left out of the audit.
CountedIsStamped ==
  /\ \A i \in counted : pay[i].cut
  /\ expected = Cash(counted)
=============================================================================
