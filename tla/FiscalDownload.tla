---------------------------- MODULE FiscalDownload ----------------------------
(***************************************************************************)
(* DescargaService and DescargaOrchestratorService: one request to the tax *)
(* authority (SAT) for the invoices of a period, as jobs of JobQueue.      *)
(*                                                                         *)
(* One job asks the SAT, a chain of jobs asks whether it is ready, and one *)
(* job per package downloads it.  Every write of a handler is a            *)
(* transaction of its own, so a handler is a sequence of steps: it may     *)
(* fail or die between any two of them, and it is then run again from the  *)
(* start.  The last transaction of a package writes the package, counts    *)
(* the packages it can see and writes the request: it does not see what    *)
(* another one has not committed, hence its two steps.                     *)
(*                                                                         *)
(* What the packages contain is left out.  Two answers of the SAT to the   *)
(* same question may differ, but the packages of a finished request do not.*)
(***************************************************************************)
EXTENDS JobQueue

CONSTANTS
  Packages,  \* packages the SAT may have for the request
  PollCap    \* POLL_CAP: the last verification of the chain

Solicitud == <<"sat.solicitud">>
Verificacion(p) == <<"sat.verificacion", p>>
Paquete(k) == <<"sat.paquete", k>>
DownloadJobs ==
  {Solicitud} \union {Verificacion(p) : p \in 0..PollCap} \union {Paquete(k) : k \in Packages}

ASSUME DownloadAssumption ==
  /\ PollCap \in Nat /\ IsFiniteSet(Packages)
  /\ Jobs = DownloadJobs

VARIABLES
  estado,       \* download_requests.estado, "none" before it is created
  idSolicitud,  \* id_solicitud is set
  package,      \* download_packages.estado, "none" before it is recorded
  local,        \* what the handler of each runner is about to do
  files,        \* the SAT: the packages of the request
  lostHook      \* history: a death was not told to the orchestrator

requestVars == <<estado, idSolicitud, package>>
downloadVars == <<requestVars, local, files, lostHook>>
vars == <<jobVars, downloadVars>>

Done == {"descargado", "parseado"}
Closed == {"descargada", "error", "rechazada", "vencida"}
Open == {"nueva", "solicitada", "en_proceso", "terminada"}

\* A handler is at a step, with the packages it has still to record and the
\* package or the answer it is working on.
Step(s) == [step |-> s, todo |-> {}, what |-> "none"]
NotIn == Step("none")

DownloadInit ==
  /\ JobInit
  /\ estado = "none" /\ idSolicitud = FALSE
  /\ package = [k \in Packages |-> "none"]
  /\ local = [r \in Runners |-> NotIn]
  /\ files \in SUBSET Packages
  /\ lostHook = FALSE

DownloadTypeOK ==
  /\ JobTypeOK
  /\ estado \in {"none"} \union Open \union Closed
  /\ idSolicitud \in BOOLEAN
  /\ package \in [Packages -> {"none", "pendiente", "error"} \union Done]
  /\ local \in [Runners -> [step : {"none", "start", "ask", "answered", "first poll", "verify",
                                    "close empty", "record", "enqueue", "timeout", "next poll",
                                    "download", "count", "close", "return", "refuse", "throw"},
                            todo : SUBSET Packages,
                            what : {"none", "accepted", "refused", "busy", "skip", "open"}
                                     \union Packages \union Closed]]
  /\ files \subseteq Packages /\ lostHook \in BOOLEAN

\* Runner r, in the handler of job j, does step s.
InStep(r, j, s) == phase[r] = "handler" /\ at[r] = j /\ local[r].step = s
Go(r, next) == local' = [local EXCEPT ![r] = next]

NoEnqueue == UNCHANGED jobVars
Post(S) == status' = Enqueued(S) /\ UNCHANGED <<attempts, runnerVars, faultVars, historyVars>>

-----------------------------------------------------------------------------
(* DescargaService: the request, and then its first job. *)

Crear ==
  /\ estado = "none" /\ estado' = "nueva"
  /\ UNCHANGED <<jobVars, idSolicitud, package, local, files, lostHook>>

CrearEnqueue ==
  /\ estado # "none"
  /\ Enqueue(Solicitud)
  /\ UNCHANGED downloadVars

-----------------------------------------------------------------------------
(* sat.solicitud *)

\* A former attempt may have the id already: it is not asked for again.
SolicitudRead(r) ==
  /\ InStep(r, Solicitud, "start")
  /\ Go(r, Step(IF idSolicitud THEN "first poll" ELSE "ask"))
  /\ NoEnqueue /\ UNCHANGED <<requestVars, files, lostHook>>

\* The SAT accepts, or refuses for good or for now.
Solicita(r) ==
  /\ InStep(r, Solicitud, "ask")
  /\ \E answer \in {"accepted", "refused", "busy"} :
       Go(r, [Step("answered") EXCEPT !.what = answer])
  /\ NoEnqueue /\ UNCHANGED <<requestVars, files, lostHook>>

SolicitudWrite(r) ==
  LET answer == local[r].what IN
    /\ InStep(r, Solicitud, "answered")
    /\ idSolicitud' = (answer = "accepted")
    /\ estado' = CASE answer = "accepted" -> "solicitada"
                   [] answer = "refused" -> "error"
                   [] answer = "busy" -> "nueva"
    /\ Go(r, Step(CASE answer = "accepted" -> "first poll"
                    [] answer = "refused" -> "refuse"
                    [] answer = "busy" -> "throw"))
    /\ NoEnqueue /\ UNCHANGED <<package, files, lostHook>>

FirstPoll(r) ==
  /\ InStep(r, Solicitud, "first poll")
  /\ Post({Verificacion(0)})
  /\ Go(r, Step("return"))
  /\ UNCHANGED <<requestVars, files, lostHook>>

-----------------------------------------------------------------------------
(* sat.verificacion, the p-th poll *)

\* Mistake: a request whose packages are ready is taken for a closed one.
SkippableWhenReady == Closed \union {"terminada"}

Skippable == Closed

VerificacionRead(r, p) ==
  /\ InStep(r, Verificacion(p), "start")
  /\ Go(r, Step(CASE ~idSolicitud -> "refuse"
                  [] idSolicitud /\ estado \in Skippable -> "return"
                  [] OTHER -> "verify"))
  /\ NoEnqueue /\ UNCHANGED <<requestVars, files, lostHook>>

\* What the SAT may answer, by the state it is written as; "unknown" is an
\* answer outside the contract, which is not written.
SatStates == {"solicitada", "en_proceso", "terminada", "error", "rechazada", "vencida", "unknown"}

\* The answer and the write of it: nothing is lost if the process dies between.
Verifica(r, p) ==
  /\ InStep(r, Verificacion(p), "verify")
  /\ \E sat \in SatStates :
       /\ estado' = IF sat = "unknown" THEN estado ELSE sat
       /\ Go(r, CASE sat = "terminada" /\ files = {} -> Step("close empty")
                  [] sat = "terminada" /\ files # {} -> [Step("record") EXCEPT !.todo = files]
                  [] sat \in Closed -> Step("return")
                  [] OTHER -> Step(IF p >= PollCap THEN "timeout" ELSE "next poll"))
  /\ NoEnqueue /\ UNCHANGED <<idSolicitud, package, files, lostHook>>

CloseEmpty(r, p) ==
  /\ InStep(r, Verificacion(p), "close empty")
  /\ estado' = "descargada" /\ Go(r, Step("return"))
  /\ NoEnqueue /\ UNCHANGED <<idSolicitud, package, files, lostHook>>

\* Mistake: a state of its own, which nothing in the code knows.
PollTimeoutState(r, p) ==
  /\ InStep(r, Verificacion(p), "timeout")
  /\ estado' = "timeout" /\ Go(r, Step("return"))
  /\ NoEnqueue /\ UNCHANGED <<idSolicitud, package, files, lostHook>>

PollTimeout(r, p) ==
  /\ InStep(r, Verificacion(p), "timeout")
  /\ estado' = "error" /\ Go(r, Step("return"))
  /\ NoEnqueue /\ UNCHANGED <<idSolicitud, package, files, lostHook>>

NextPoll(r, p) ==
  /\ InStep(r, Verificacion(p), "next poll")
  /\ Post({Verificacion(p + 1)})
  /\ Go(r, Step("return"))
  /\ UNCHANGED <<requestVars, files, lostHook>>

\* A package that is recorded already is enqueued again all the same.
RecordPackage(r, p) ==
  /\ InStep(r, Verificacion(p), "record")
  /\ \E k \in local[r].todo :
       /\ package' = [package EXCEPT ![k] = IF @ = "none" THEN "pendiente" ELSE @]
       /\ Go(r, [step |-> "enqueue", todo |-> local[r].todo \ {k}, what |-> k])
  /\ NoEnqueue /\ UNCHANGED <<estado, idSolicitud, files, lostHook>>

EnqueuePackage(r, p) ==
  /\ InStep(r, Verificacion(p), "enqueue")
  /\ Post({Paquete(local[r].what)})
  /\ Go(r, IF local[r].todo = {} THEN Step("return")
                                 ELSE [Step("record") EXCEPT !.todo = local[r].todo])
  /\ UNCHANGED <<requestVars, files, lostHook>>

-----------------------------------------------------------------------------
(* sat.paquete *)

PaqueteRead(r, k) ==
  /\ InStep(r, Paquete(k), "start")
  /\ Go(r, IF package[k] \in Done THEN [Step("count") EXCEPT !.what = "skip"]
                                  ELSE Step("download"))
  /\ NoEnqueue /\ UNCHANGED <<requestVars, files, lostHook>>

\* Downloading and ingesting: its rows are keyed by the uuid of the invoice.
Descarga(r, k) ==
  /\ InStep(r, Paquete(k), "download")
  /\ Go(r, Step("count"))
  /\ NoEnqueue /\ UNCHANGED <<requestVars, files, lostHook>>

\* Mistake: the first package that is done closes the request.
VerdictOfFirst(seen) ==
  IF \E k \in Packages : seen[k] \in Done THEN "descargada" ELSE "open"

\* What reconcileRequest makes of the packages it sees.
Verdict(seen) ==
  LET recorded == {k \in Packages : seen[k] # "none"}
      done == {k \in recorded : seen[k] \in Done}
      errored == {k \in recorded : seen[k] = "error"}
  IN CASE recorded = {} \/ done \union errored # recorded -> "open"
       [] done \union errored = recorded /\ done = {} /\ recorded # {} -> "error"
       [] OTHER -> "descargada"

\* The transaction that writes package k as s: it holds the row of k from its
\* first statement on, and counts the others as committed.
CountPackages(r, k, s) ==
  /\ \A w \in Runners : at[w] = Paquete(k) => local[w].step # "close"
  /\ Go(r, [Step("close") EXCEPT !.what = Verdict([package EXCEPT ![k] = s])])
  /\ NoEnqueue /\ UNCHANGED <<requestVars, files, lostHook>>

CloseRequest(r, k, s) ==
  /\ package' = [package EXCEPT ![k] = s]
  /\ estado' = IF local[r].what = "open" THEN estado ELSE local[r].what
  /\ UNCHANGED <<idSolicitud, files, lostHook>>

PaqueteCount(r, k) ==
  /\ InStep(r, Paquete(k), "count")
  /\ CountPackages(r, k, IF local[r].what = "skip" THEN package[k] ELSE "parseado")

PaqueteClose(r, k) ==
  /\ InStep(r, Paquete(k), "close")
  /\ CloseRequest(r, k, "parseado")
  /\ Go(r, Step("return")) /\ NoEnqueue

-----------------------------------------------------------------------------
(* The hooks of jobs that went to the dead letters. *)

DeadRequest(r) ==
  /\ \E p \in 0..PollCap : at[r] \in {Solicitud, Verificacion(p)}
  /\ estado' = IF estado = "descargada" THEN estado ELSE "error"
  /\ Hook(r)
  /\ Go(r, NotIn)
  /\ UNCHANGED <<idSolicitud, package, files, lostHook>>

DeadPaqueteCount(r, k) ==
  /\ phase[r] = "hook" /\ at[r] = Paquete(k) /\ local[r].step = "start"
  /\ CountPackages(r, k, "error")

\* Mistake: the package is marked, and the request left as it is.
DeadPaqueteMarkOnly(r, k) ==
  /\ at[r] = Paquete(k) /\ local[r].step = "close"
  /\ package' = [package EXCEPT ![k] = "error"]
  /\ Hook(r)
  /\ Go(r, NotIn)
  /\ UNCHANGED <<estado, idSolicitud, files, lostHook>>

DeadPaqueteClose(r, k) ==
  /\ at[r] = Paquete(k) /\ local[r].step = "close"
  /\ CloseRequest(r, k, "error")
  /\ Hook(r)
  /\ Go(r, NotIn)

\* A hook that fails is logged and not run again.
HookFails(r) ==
  /\ Hook(r)
  /\ lostHook' = TRUE /\ Go(r, NotIn)
  /\ UNCHANGED <<requestVars, files>>

-----------------------------------------------------------------------------
(* The runner: it calls the handler and writes how it went. *)

Keep == UNCHANGED <<requestVars, files, lostHook>>

TakeJobs(r) == (\E S \in SUBSET Jobs : Reap(r, S) \/ Claim(r, S)) /\ UNCHANGED downloadVars
BeginJob(r) == (\E j \in Jobs : Start(r, j)) /\ Go(r, Step("start")) /\ Keep
EndJob(r) == local[r].step = "return" /\ Complete(r) /\ Go(r, NotIn) /\ Keep

\* Whether a failure at a step is for good: a refusal is; without an e.firma, or
\* without the service of the SAT, so is every call of it.
Permanent(s) ==
  CASE s = "refuse" -> {TRUE}
    [] s \in {"ask", "verify", "download"} -> BOOLEAN
    [] OTHER -> {FALSE}

\* A statement or a call may fail at any step.
FailJob(r) ==
  /\ \E permanent \in Permanent(local[r].step) : Fail(r, permanent)
  /\ Go(r, IF phase'[r] = "hook" THEN Step("start") ELSE NotIn)
  /\ Keep

CrashRunner(r) ==
  /\ Crash(r)
  /\ lostHook' = (lostHook \/ phase[r] = "hook")
  /\ Go(r, NotIn)
  /\ UNCHANGED <<requestVars, files>>

HandlerStep(r) ==
  \/ SolicitudRead(r) \/ Solicita(r) \/ SolicitudWrite(r) \/ FirstPoll(r)
  \/ \E p \in 0..PollCap :
       \/ VerificacionRead(r, p) \/ Verifica(r, p) \/ CloseEmpty(r, p) \/ PollTimeout(r, p)
       \/ NextPoll(r, p) \/ RecordPackage(r, p) \/ EnqueuePackage(r, p)
  \/ \E k \in Packages :
       \/ PaqueteRead(r, k) \/ Descarga(r, k) \/ PaqueteCount(r, k) \/ PaqueteClose(r, k)
       \/ DeadPaqueteCount(r, k) \/ DeadPaqueteClose(r, k)
  \/ DeadRequest(r)

RunnerStep(r) == TakeJobs(r) \/ BeginJob(r) \/ HandlerStep(r) \/ EndJob(r) \/ FailJob(r) \/ HookFails(r)

Next ==
  \/ Crear \/ CrearEnqueue
  \/ \E r \in Runners : RunnerStep(r) \/ CrashRunner(r)

Spec == DownloadInit /\ [][Next]_vars

\* The fairness of the queue; nobody but the user creates a request.
DownloadFairness ==
  /\ \A r \in Runners : WF_vars(RunnerStep(r))
  /\ SF_vars((\E r \in Runners : ReapOrphans(r)) /\ UNCHANGED downloadVars)
  /\ SF_vars((\E r \in Runners : ClaimSome(r)) /\ UNCHANGED downloadVars)

FairSpec == Spec /\ DownloadFairness

-----------------------------------------------------------------------------
(* Properties, of one process: what two of them do is in the README. *)

Unsettled == {j \in Jobs : status[j] \in {"pending", "running"}}

\* An open request has a job that will go on with it, or a hook that will close
\* it, unless a hook was lost.
NeverStuck ==
  estado \in Open /\ status[Solicitud] # "absent" =>
    lostHook \/ Unsettled # {} \/ \E r \in Runners : phase[r] = "hook"

\* A request that is said to be downloaded waits for no package it recorded.
DownloadedWaitsForNone ==
  estado = "descargada" => \A k \in Packages : package[k] # "pendiente"

\* A request whose first job is enqueued is closed in the end, whatever the
\* SAT answers and whatever fails, unless a hook was lost.
RequestSettles == status[Solicitud] = "pending" ~> [](estado \in Closed \/ lostHook)

\* What the retry of a verification is there for: a request that was closed as
\* downloaded has all the packages of the SAT, once no job is left.
DownloadedIsComplete ==
  estado = "descargada" /\ Unsettled = {} => \A k \in files : package[k] # "none"
=============================================================================
