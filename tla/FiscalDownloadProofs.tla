------------------------- MODULE FiscalDownloadProofs -------------------------
(***************************************************************************)
(* A download is a queue at work: every step of it is a step of JobQueue   *)
(* or none, so what is proved of the queue holds of the jobs of a request, *)
(* for any packages, polls and processes.  And its tables are well typed.  *)
(*                                                                         *)
(* With one process an open request always goes on: the program counter of *)
(* the handler and what each job leaves behind are in the invariant.       *)
(***************************************************************************)
EXTENDS FiscalDownload, JobQueueProofs, SumLemmas

\* What a handler remembers between two of its steps.
Remembers(r) ==
  /\ local[r].step = "answered" => local[r].what \in {"accepted", "refused", "busy"}
  /\ local[r].step = "close" => local[r].what \in {"open", "descargada", "error"}

DownloadInv ==
  /\ JobInv /\ DownloadTypeOK
  /\ \A r \in Runners : Remembers(r)

Locals == [step : {"none", "start", "ask", "answered", "first poll", "verify",
                   "close empty", "record", "enqueue", "timeout", "next poll",
                   "download", "count", "close", "return", "refuse", "throw"},
           todo : SUBSET Packages,
           what : {"none", "accepted", "refused", "busy", "skip", "open"}
                    \union Packages \union Closed]

-----------------------------------------------------------------------------
(* The steps of the queue. *)

\* A handler that enqueues one job does what Enqueue does, or nothing.
LEMMA PostIsEnqueue == ASSUME JobTypeOK, NEW x, Post({x}) PROVE [JobNext]_jobVars
<1>1. CASE x \in Jobs /\ status[x] = "absent"
  <2>1. Enqueue(x)
    BY <1>1 DEF Post, Enqueue
  <2> QED BY <1>1, <2>1 DEF JobNext
<1>2. CASE ~(x \in Jobs /\ status[x] = "absent")
  <2>1. status' = status
    BY <1>2 DEF Post, Enqueued, JobTypeOK
  <2> QED BY <2>1 DEF Post, jobVars, tableVars
<1> QED BY <1>1, <1>2

\* The steps of a handler leave the queue alone, enqueue one job or run a hook.
LEMMA HandlerIsQueue ==
  ASSUME JobTypeOK, NEW r \in Runners, HandlerStep(r) PROVE [JobNext]_jobVars
<1>1. CASE \/ SolicitudRead(r) \/ Solicita(r) \/ SolicitudWrite(r)
           \/ \E p \in 0..PollCap :
                \/ VerificacionRead(r, p) \/ Verifica(r, p) \/ CloseEmpty(r, p)
                \/ PollTimeout(r, p) \/ RecordPackage(r, p)
           \/ \E k \in Packages :
                \/ PaqueteRead(r, k) \/ Descarga(r, k) \/ PaqueteCount(r, k)
                \/ PaqueteClose(r, k) \/ DeadPaqueteCount(r, k)
  BY <1>1 DEF SolicitudRead, Solicita, SolicitudWrite, VerificacionRead, Verifica, CloseEmpty,
     PollTimeout, RecordPackage, PaqueteRead, Descarga, PaqueteCount, PaqueteClose,
     DeadPaqueteCount, CountPackages, NoEnqueue
<1>2. CASE FirstPoll(r) \/ \E p \in 0..PollCap : NextPoll(r, p) \/ EnqueuePackage(r, p)
  BY <1>2, PostIsEnqueue DEF FirstPoll, NextPoll, EnqueuePackage
<1>3. CASE DeadRequest(r) \/ \E k \in Packages : DeadPaqueteClose(r, k)
  BY <1>3 DEF DeadRequest, DeadPaqueteClose, JobNext, Tick
<1> QED BY <1>1, <1>2, <1>3 DEF HandlerStep

\* A job that fails does so for good or not.
LEMMA FailsSomehow ==
  ASSUME NEW r \in Runners, FailJob(r) PROVE \E permanent \in BOOLEAN : Fail(r, permanent)
<1>1. Permanent(local[r].step) \subseteq BOOLEAN
  BY DEF Permanent
<1>2. PICK permanent \in Permanent(local[r].step) : Fail(r, permanent)
  BY DEF FailJob
<1> QED BY <1>1, <1>2

LEMMA StepIsQueue == JobTypeOK /\ [Next]_vars => [JobNext]_jobVars
<1> SUFFICES ASSUME JobTypeOK, [Next]_vars PROVE [JobNext]_jobVars
  OBVIOUS
<1>1. CASE UNCHANGED vars
  BY <1>1 DEF vars
<1>2. CASE Crear
  BY <1>2 DEF Crear
<1>3. CASE CrearEnqueue
  <2>1. Solicitud \in Jobs
    BY DownloadAssumption DEF DownloadJobs
  <2> QED BY <1>3, <2>1 DEF CrearEnqueue, JobNext
<1>4. ASSUME NEW r \in Runners, HandlerStep(r) PROVE [JobNext]_jobVars
  BY <1>4, HandlerIsQueue
<1>5. ASSUME NEW r \in Runners, \/ TakeJobs(r) \/ BeginJob(r) \/ EndJob(r)
                                \/ HookFails(r) \/ CrashRunner(r)
      PROVE  [JobNext]_jobVars
  BY <1>5 DEF TakeJobs, BeginJob, EndJob, HookFails, CrashRunner, JobNext, Tick
<1>6. ASSUME NEW r \in Runners, FailJob(r) PROVE [JobNext]_jobVars
  <2>1. PICK permanent \in BOOLEAN : Fail(r, permanent)
    BY <1>6, FailsSomehow
  <2> QED BY <2>1 DEF JobNext, Tick
<1> QED BY <1>1, <1>2, <1>3, <1>4, <1>5, <1>6 DEF Next, RunnerStep

-----------------------------------------------------------------------------
(* Types. *)

\* A step that writes what r remembers and keeps the rest of the download.
LEMMA GoKeeps ==
  ASSUME DownloadInv, JobInv', NEW r \in Runners, NEW next \in Locals, Go(r, next),
         next.step = "answered" => next.what \in {"accepted", "refused", "busy"},
         next.step = "close" => next.what \in {"open", "descargada", "error"},
         estado' \in {"none"} \union Open \union Closed, idSolicitud' \in BOOLEAN,
         package' \in [Packages -> {"none", "pendiente", "error"} \union Done],
         files' = files, lostHook' \in BOOLEAN
  PROVE  DownloadInv'
<1>1. local' \in [Runners -> Locals] /\ local \in [Runners -> Locals]
  BY DEF DownloadInv, DownloadTypeOK, Go, Locals
<1>2. DownloadTypeOK'
  BY <1>1 DEF DownloadInv, DownloadTypeOK, JobInv, Locals
<1>3. \A q \in Runners : Remembers(q)'
  BY <1>1 DEF DownloadInv, Remembers, Go
<1> QED BY <1>2, <1>3 DEF DownloadInv

PlainSteps == {"start", "ask", "first poll", "verify", "close empty", "timeout", "next poll",
               "download", "count", "return", "refuse", "throw"}

\* A handler goes on to a step that needs to know nothing, or ends.
LEMMA GoPlain ==
  ASSUME DownloadInv, JobInv', NEW r \in Runners,
         Go(r, NotIn) \/ \E s \in PlainSteps : Go(r, Step(s)),
         estado' \in {"none"} \union Open \union Closed, idSolicitud' \in BOOLEAN,
         package' \in [Packages -> {"none", "pendiente", "error"} \union Done],
         files' = files, lostHook' \in BOOLEAN
  PROVE  DownloadInv'
<1>1. PICK s \in PlainSteps \union {"none"} : Go(r, Step(s))
  BY DEF NotIn
<1>2. Step(s) \in Locals /\ Step(s).step = s
  BY DEF Step, Locals, PlainSteps
<1>3. s # "answered" /\ s # "close"
  BY DEF PlainSteps
<1> QED BY <1>1, <1>2, <1>3, GoKeeps

\* The other ends of a step.
LEMMA StepIsLocal ==
  /\ NotIn \in Locals /\ NotIn.step = "none"
  /\ \A w \in {"accepted", "refused", "busy"} :
       LET next == [Step("answered") EXCEPT !.what = w]
       IN  next \in Locals /\ next.step = "answered" /\ next.what = w
  /\ \A w \in {"open", "descargada", "error"} :
       LET next == [Step("close") EXCEPT !.what = w]
       IN  next \in Locals /\ next.step = "close" /\ next.what = w
  /\ LET next == [Step("count") EXCEPT !.what = "skip"] IN next \in Locals /\ next.step = "count"
  /\ \A T \in SUBSET Packages :
       LET next == [Step("record") EXCEPT !.todo = T] IN next \in Locals /\ next.step = "record"
  /\ \A T \in SUBSET Packages : \A k \in Packages :
       LET next == [step |-> "enqueue", todo |-> T, what |-> k]
       IN  next \in Locals /\ next.step = "enqueue"
  BY DEF Step, NotIn, Locals, Closed

LEMMA SolicitudKeeps ==
  ASSUME DownloadInv, JobInv', NEW r \in Runners,
         SolicitudRead(r) \/ Solicita(r) \/ SolicitudWrite(r) \/ FirstPoll(r)
  PROVE  DownloadInv'
<1>0. /\ estado \in {"none"} \union Open \union Closed /\ idSolicitud \in BOOLEAN
      /\ package \in [Packages -> {"none", "pendiente", "error"} \union Done]
      /\ lostHook \in BOOLEAN
  BY DEF DownloadInv, DownloadTypeOK
<1>1. CASE SolicitudRead(r)
  BY <1>0, <1>1, GoPlain DEF PlainSteps, SolicitudRead, requestVars
<1>2. CASE Solicita(r)
  <2>1. PICK w \in {"accepted", "refused", "busy"} : Go(r, [Step("answered") EXCEPT !.what = w])
    BY <1>2 DEF Solicita
  <2>2. PICK next \in Locals : Go(r, next) /\ next.step = "answered" /\ next.what = w
    BY <2>1, StepIsLocal
  <2> QED BY <1>0, <1>2, <2>2, GoKeeps DEF Solicita, requestVars
<1>3. CASE SolicitudWrite(r)
  <2>1. local[r].what \in {"accepted", "refused", "busy"}
    BY <1>3 DEF SolicitudWrite, InStep, DownloadInv, Remembers
  <2>2. estado' \in {"none"} \union Open \union Closed /\ idSolicitud' \in BOOLEAN
    BY <1>3, <2>1 DEF SolicitudWrite, Open, Closed
  <2>3. PICK s \in {"first poll", "refuse", "throw"} : Go(r, Step(s))
    BY <1>3, <2>1 DEF SolicitudWrite
  <2> QED BY <1>0, <1>3, <2>2, <2>3, GoPlain DEF PlainSteps, SolicitudWrite
<1>4. CASE FirstPoll(r)
  BY <1>0, <1>4, GoPlain DEF PlainSteps, FirstPoll, requestVars
<1> QED BY <1>1, <1>2, <1>3, <1>4

LEMMA VerificacionKeeps ==
  ASSUME DownloadInv, JobInv', NEW r \in Runners, NEW p \in 0..PollCap,
         \/ VerificacionRead(r, p) \/ Verifica(r, p) \/ CloseEmpty(r, p) \/ PollTimeout(r, p)
         \/ NextPoll(r, p) \/ RecordPackage(r, p) \/ EnqueuePackage(r, p)
  PROVE  DownloadInv'
<1>0. /\ estado \in {"none"} \union Open \union Closed /\ idSolicitud \in BOOLEAN
      /\ package \in [Packages -> {"none", "pendiente", "error"} \union Done]
      /\ lostHook \in BOOLEAN /\ local[r] \in Locals /\ files \subseteq Packages
  BY DEF DownloadInv, DownloadTypeOK, Locals
<1>1. CASE VerificacionRead(r, p)
  <2>1. PICK s \in {"refuse", "return", "verify"} : Go(r, Step(s))
    BY <1>0, <1>1 DEF VerificacionRead
  <2> QED BY <1>0, <1>1, <2>1, GoPlain DEF PlainSteps, VerificacionRead, requestVars
<1>2. CASE Verifica(r, p)
  <2>1. PICK sat \in SatStates :
          /\ estado' = IF sat = "unknown" THEN estado ELSE sat
          /\ Go(r, CASE sat = "terminada" /\ files = {} -> Step("close empty")
                     [] sat = "terminada" /\ files # {} -> [Step("record") EXCEPT !.todo = files]
                     [] sat \in Closed -> Step("return")
                     [] OTHER -> Step(IF p >= PollCap THEN "timeout" ELSE "next poll"))
    BY <1>2 DEF Verifica
  <2>2. estado' \in {"none"} \union Open \union Closed
    BY <1>0, <2>1 DEF SatStates, Open, Closed
  <2>3. CASE Go(r, [Step("record") EXCEPT !.todo = files])
    <3>1. PICK next \in Locals : Go(r, next) /\ next.step = "record"
      BY <1>0, <2>3, StepIsLocal
    <3> QED BY <1>0, <1>2, <2>2, <3>1, GoKeeps DEF Verifica
  <2>4. CASE ~Go(r, [Step("record") EXCEPT !.todo = files])
    <3>1. PICK s \in {"close empty", "return", "timeout", "next poll"} : Go(r, Step(s))
      BY <2>1, <2>4 DEF Closed
    <3> QED BY <1>0, <1>2, <2>2, <3>1, GoPlain DEF PlainSteps, Verifica
  <2> QED BY <2>3, <2>4
<1>3. CASE CloseEmpty(r, p)
  BY <1>0, <1>3, GoPlain DEF PlainSteps, CloseEmpty, Closed
<1>4. CASE PollTimeout(r, p)
  BY <1>0, <1>4, GoPlain DEF PlainSteps, PollTimeout, Closed
<1>5. CASE NextPoll(r, p)
  BY <1>0, <1>5, GoPlain DEF PlainSteps, NextPoll, requestVars
<1>6. CASE RecordPackage(r, p)
  <2>1. PICK k \in local[r].todo :
          /\ package' = [package EXCEPT ![k] = IF @ = "none" THEN "pendiente" ELSE @]
          /\ Go(r, [step |-> "enqueue", todo |-> local[r].todo \ {k}, what |-> k])
    BY <1>6 DEF RecordPackage
  <2>2. k \in Packages /\ local[r].todo \ {k} \in SUBSET Packages
    BY <1>0 DEF Locals
  <2>3. package' \in [Packages -> {"none", "pendiente", "error"} \union Done]
    BY <1>0, <2>1, <2>2
  <2>4. PICK next \in Locals : Go(r, next) /\ next.step = "enqueue"
    <3> DEFINE todo == local[r].todo \ {k}
               next == [step |-> "enqueue", todo |-> todo, what |-> k]
    <3>1. next \in Locals /\ next.step = "enqueue"
      BY <2>2 DEF Locals
    <3> QED BY <2>1, <3>1
  <2> QED BY <1>0, <1>6, <2>3, <2>4, GoKeeps DEF RecordPackage
<1>7. CASE EnqueuePackage(r, p)
  <2>1. CASE Go(r, Step("return"))
    BY <1>0, <1>7, <2>1, GoPlain DEF PlainSteps, EnqueuePackage, requestVars
  <2>2. CASE Go(r, [Step("record") EXCEPT !.todo = local[r].todo])
    <3>1. local[r].todo \in SUBSET Packages
      BY <1>0 DEF Locals
    <3>2. PICK next \in Locals : Go(r, next) /\ next.step = "record"
      BY <2>2, <3>1, StepIsLocal
    <3> QED BY <1>0, <1>7, <3>2, GoKeeps DEF EnqueuePackage, requestVars
  <2> QED BY <1>7, <2>1, <2>2 DEF EnqueuePackage
<1> QED BY <1>1, <1>2, <1>3, <1>4, <1>5, <1>6, <1>7

\* The verdict is one of three.
LEMMA VerdictIsOne == ASSUME NEW seen PROVE Verdict(seen) \in {"open", "descargada", "error"}
  BY DEF Verdict

LEMMA CountKeeps ==
  ASSUME DownloadInv, JobInv', NEW r \in Runners, NEW k \in Packages, NEW s,
         CountPackages(r, k, s)
  PROVE  DownloadInv'
<1>1. PICK w \in {"open", "descargada", "error"} : Go(r, [Step("close") EXCEPT !.what = w])
  BY VerdictIsOne DEF CountPackages
<1>2. PICK next \in Locals : Go(r, next) /\ next.step = "close" /\ next.what = w
  BY <1>1, StepIsLocal
<1> QED BY <1>2, GoKeeps
        DEF CountPackages, DownloadInv, DownloadTypeOK, requestVars

LEMMA CloseKeeps ==
  ASSUME DownloadInv, JobInv', NEW r \in Runners, NEW k \in Packages,
         NEW s \in {"parseado", "error"}, local[r].step = "close",
         CloseRequest(r, k, s), Go(r, Step("return")) \/ Go(r, NotIn)
  PROVE  DownloadInv'
<1>1. local[r].what \in {"open", "descargada", "error"}
  BY DEF DownloadInv, Remembers
<1>2. /\ estado' \in {"none"} \union Open \union Closed
      /\ package' \in [Packages -> {"none", "pendiente", "error"} \union Done]
  BY <1>1 DEF CloseRequest, DownloadInv, DownloadTypeOK, Done, Closed
<1> QED BY <1>2, GoPlain DEF PlainSteps, CloseRequest, DownloadInv, DownloadTypeOK

LEMMA PaqueteKeeps ==
  ASSUME DownloadInv, JobInv', NEW r \in Runners, NEW k \in Packages,
         \/ PaqueteRead(r, k) \/ Descarga(r, k) \/ PaqueteCount(r, k) \/ PaqueteClose(r, k)
         \/ DeadPaqueteCount(r, k) \/ DeadPaqueteClose(r, k)
  PROVE  DownloadInv'
<1>0. /\ estado \in {"none"} \union Open \union Closed /\ idSolicitud \in BOOLEAN
      /\ package \in [Packages -> {"none", "pendiente", "error"} \union Done]
      /\ lostHook \in BOOLEAN
  BY DEF DownloadInv, DownloadTypeOK
<1>1. CASE PaqueteRead(r, k)
  <2>1. PICK next \in Locals : Go(r, next) /\ next.step \in {"count", "download"}
    <3>1. Step("download") \in Locals /\ Step("download").step = "download"
      BY DEF Step, Locals
    <3> QED BY <1>1, <3>1, StepIsLocal DEF PaqueteRead
  <2> QED BY <1>0, <1>1, <2>1, GoKeeps DEF PaqueteRead, requestVars
<1>2. CASE Descarga(r, k)
  BY <1>0, <1>2, GoPlain DEF PlainSteps, Descarga, requestVars
<1>3. CASE PaqueteCount(r, k) \/ DeadPaqueteCount(r, k)
  BY <1>3, CountKeeps DEF PaqueteCount, DeadPaqueteCount
<1>4. CASE PaqueteClose(r, k) \/ DeadPaqueteClose(r, k)
  BY <1>4, CloseKeeps DEF PaqueteClose, DeadPaqueteClose, InStep
<1> QED BY <1>1, <1>2, <1>3, <1>4

LEMMA RunnerKeeps ==
  ASSUME DownloadInv, JobInv', NEW r \in Runners,
         \/ DeadRequest(r) \/ TakeJobs(r) \/ BeginJob(r) \/ EndJob(r)
         \/ FailJob(r) \/ HookFails(r) \/ CrashRunner(r)
  PROVE  DownloadInv'
<1>0. /\ estado \in {"none"} \union Open \union Closed /\ idSolicitud \in BOOLEAN
      /\ package \in [Packages -> {"none", "pendiente", "error"} \union Done]
      /\ lostHook \in BOOLEAN
  BY DEF DownloadInv, DownloadTypeOK
<1>1. CASE DeadRequest(r)
  BY <1>0, <1>1, GoPlain DEF PlainSteps, DeadRequest, Closed
<1>2. CASE TakeJobs(r)
  BY <1>2 DEF TakeJobs, downloadVars, requestVars, DownloadInv, DownloadTypeOK, JobInv, Remembers
<1>3. CASE BeginJob(r)
  BY <1>0, <1>3, GoPlain DEF PlainSteps, BeginJob, Keep, requestVars
<1>4. CASE EndJob(r)
  BY <1>0, <1>4, GoPlain DEF PlainSteps, EndJob, Keep, requestVars
<1>5. CASE FailJob(r)
  BY <1>0, <1>5, GoPlain DEF PlainSteps, FailJob, Keep, requestVars
<1>6. CASE HookFails(r)
  BY <1>0, <1>6, GoPlain DEF PlainSteps, HookFails, requestVars
<1>7. CASE CrashRunner(r)
  BY <1>0, <1>7, GoPlain DEF PlainSteps, CrashRunner, requestVars
<1> QED BY <1>1, <1>2, <1>3, <1>4, <1>5, <1>6, <1>7

LEMMA DownloadInvInit == DownloadInit => DownloadInv
<1> SUFFICES ASSUME DownloadInit PROVE DownloadInv
  OBVIOUS
<1>1. JobInv
  BY InvInit DEF DownloadInit
<1>2. DownloadTypeOK
  BY <1>1, StepIsLocal DEF DownloadInit, DownloadTypeOK, JobInv, Locals
<1>3. \A r \in Runners : Remembers(r)
  BY StepIsLocal DEF DownloadInit, Remembers
<1> QED BY <1>1, <1>2, <1>3 DEF DownloadInv

LEMMA DownloadInvNext == DownloadInv /\ [Next]_vars => DownloadInv'
<1> SUFFICES ASSUME DownloadInv, [Next]_vars PROVE DownloadInv'
  OBVIOUS
<1>1. JobInv'
  BY StepIsQueue, InvNext DEF DownloadInv, JobInv
<1>2. CASE UNCHANGED vars \/ Crear \/ CrearEnqueue
  <2>1. /\ estado' \in {"none"} \union Open \union Closed
        /\ idSolicitud' = idSolicitud /\ package' = package /\ local' = local
        /\ files' = files /\ lostHook' = lostHook
    BY <1>2 DEF Crear, CrearEnqueue, vars, downloadVars, requestVars, DownloadInv,
       DownloadTypeOK, Open
  <2> QED BY <1>1, <2>1 DEF DownloadInv, DownloadTypeOK, JobInv, Remembers
<1>3. ASSUME NEW r \in Runners, RunnerStep(r) \/ CrashRunner(r) PROVE DownloadInv'
  BY <1>1, <1>3, SolicitudKeeps, VerificacionKeeps, PaqueteKeeps, RunnerKeeps
  DEF RunnerStep, HandlerStep
<1> QED BY <1>2, <1>3 DEF Next

-----------------------------------------------------------------------------
(* Theorems. *)

\* The invariant of a download, whatever fairness it has.
THEOREM DownloadInvariant == Spec => []DownloadInv
<1> QED BY DownloadInvInit, DownloadInvNext, PTL DEF Spec

\* The tables of a request and what its handlers remember are well typed.
THEOREM DownloadTypeCorrect == Spec => []DownloadTypeOK
<1>1. DownloadInv => DownloadTypeOK
  BY DEF DownloadInv
<1> QED BY <1>1, DownloadInvariant, PTL

\* The handlers and hooks of the orchestrator use the table of jobs only
\* through enqueue and the runner: a download implements the queue.
THEOREM DownloadImplementsQueue == Spec => JobInit /\ [][JobNext]_jobVars
<1>1. DownloadInit => JobInit
  BY DEF DownloadInit
<1>2. DownloadInv /\ [Next]_vars => [JobNext]_jobVars
  BY StepIsQueue DEF DownloadInv, JobInv
<1> QED BY <1>1, <1>2, DownloadInvariant, PTL DEF Spec

\* So the jobs of a request are charged and settled as those of the queue.
THEOREM DownloadJobsAreAccounted ==
  Spec => [](AttemptsWithinFaults /\ HandsWithinOverruns /\ DeadIsEarned)
<1>1. DownloadInv => AttemptsWithinFaults /\ HandsWithinOverruns /\ DeadIsEarned
  BY InvBounds DEF DownloadInv
<1> QED BY <1>1, DownloadInvariant, PTL

-----------------------------------------------------------------------------
(* With one process an open request goes on: where a handler is, and what    *)
(* each job leaves behind when it is done or dead.                           *)

\* Two processes lose sight of each other's packages.
OneRunner == \A r, q \in Runners : r = q

Enq(j) == status[j] # "absent"
Over == estado \in Closed \/ lostHook
Kept(k) == package[k] \in Done \union {"error"}
AllEnqueued == files # {} /\ \A k \in files : package[k] # "none" /\ Enq(Paquete(k))

\* A verification goes on to the packages or to the next one.
GoesOn(p) == Over \/ AllEnqueued \/ (p < PollCap /\ Enq(Verificacion(p + 1)))

\* What a job has done when its handler returns, and when its hook has run.
Returns(j) ==
  /\ j = Solicitud => Enq(Verificacion(0))
  /\ \A p \in 0..PollCap : j = Verificacion(p) => GoesOn(p)
  /\ \A k \in Packages : j = Paquete(k) => Kept(k)

HookRan(j) ==
  /\ (\A k \in Packages : j # Paquete(k)) => estado \in Closed
  /\ \A k \in Packages : j = Paquete(k) => Kept(k)

HookOf(j) == \E r \in Runners : phase[r] = "hook" /\ at[r] = j

Ended(j) ==
  /\ status[j] = "done" => Returns(j)
  /\ status[j] = "dead" => HookOf(j) \/ HookRan(j) \/ lostHook

\* The last package closes the request.
LastCloses == files # {} /\ (\A k \in files : Kept(k)) => Over

\* Nothing is known of the packages before the SAT has accepted, and nothing of
\* others than its own.
Recorded ==
  /\ ~idSolicitud => /\ \A p \in 0..PollCap : ~Enq(Verificacion(p))
                     /\ \A k \in Packages : package[k] = "none"
  /\ \A k \in Packages : /\ package[k] # "none" => k \in files
                         /\ Enq(Paquete(k)) => package[k] # "none"

\* No lock is lost, and a job in hand was enqueued.
Alone ==
  /\ overruns = 0
  /\ \A r \in Runners : phase[r] \in {"handler", "hook"} => at[r] \in Jobs /\ Enq(at[r])

\* What a handler at a step can rely on.
Works(r) ==
  LET s == local[r].step
      w == local[r].what
      todo == local[r].todo
  IN
    /\ s \in {"ask", "answered"} => ~idSolicitud
    /\ s = "first poll" => idSolicitud
    /\ s = "verify" => estado \notin Closed
    /\ s = "close empty" => files = {}
    /\ s \in {"record", "enqueue"} =>
         /\ estado = "terminada" /\ files # {} /\ todo \subseteq files
         /\ \A k \in files \ todo :
              package[k] # "none" /\ (Enq(Paquete(k)) \/ (s = "enqueue" /\ k = w))
    /\ s = "record" => todo # {}
    /\ s = "enqueue" => w \in files \ todo
    /\ s = "next poll" => \E p \in 0..PollCap : p < PollCap /\ at[r] = Verificacion(p)
    /\ s = "count" /\ w = "skip" => \A k \in Packages : at[r] = Paquete(k) => package[k] \in Done
    /\ s = "close" => \A k \in Packages : at[r] = Paquete(k) =>
         /\ w = "descargada" => \A x \in Packages \ {k} : package[x] # "pendiente"
         /\ (\A x \in files \ {k} : Kept(x)) => w # "open"
    /\ s = "return" => Returns(at[r])

Goes ==
  /\ Recorded /\ LastCloses /\ DownloadedWaitsForNone
  /\ \A j \in Jobs : Ended(j)

OnwardInv ==
  /\ Alone /\ Goes
  /\ \A r \in Runners : Works(r)

-----------------------------------------------------------------------------
(* Lemmas about the jobs of a download. *)

LEMMA JobNames ==
  /\ Solicitud \in Jobs
  /\ \A p \in 0..PollCap : Verificacion(p) \in Jobs /\ Verificacion(p) # Solicitud
  /\ \A k \in Packages : Paquete(k) \in Jobs /\ Paquete(k) # Solicitud
  /\ \A p \in 0..PollCap, k \in Packages : Verificacion(p) # Paquete(k)
  /\ \A p, q \in 0..PollCap : Verificacion(p) = Verificacion(q) => p = q
  /\ \A k, l \in Packages : Paquete(k) = Paquete(l) => k = l
  /\ \A j \in Jobs : \/ j = Solicitud
                     \/ \E p \in 0..PollCap : j = Verificacion(p)
                     \/ \E k \in Packages : j = Paquete(k)
  BY DownloadAssumption DEF DownloadJobs, Solicitud, Verificacion, Paquete

\* A job that was enqueued once stays in the table.
LEMMA EnqueuedStays ==
  ASSUME JobInv, [JobNext]_jobVars, NEW j \in Jobs, Enq(j)
  PROVE  Enq(j)'
<1>1. status \in [Jobs -> {"absent", "pending", "running"} \union Settled]
  BY DEF JobInv, JobTypeOK
<1>2. CASE UNCHANGED jobVars
  BY <1>2 DEF jobVars, tableVars, Enq
<1>3. CASE \E x \in Jobs : Enqueue(x)
  BY <1>3 DEF Enqueue, Enqueued, Enq
<1>4. ASSUME NEW r \in Runners, NEW S \in SUBSET Jobs, Reap(r, S) \/ Claim(r, S)
      PROVE  Enq(j)'
  BY <1>4 DEF Reap, Claim, Enq
<1>5. ASSUME NEW r \in Runners,
             Complete(r) \/ \E permanent \in BOOLEAN : Fail(r, permanent)
      PROVE  Enq(j)'
  BY <1>1, <1>5 DEF Complete, Fail, Settle, Enq
<1>6. ASSUME NEW r \in Runners, (\E x \in Jobs : Start(r, x)) \/ Hook(r) \/ Crash(r)
      PROVE  Enq(j)'
  BY <1>6 DEF Start, Hook, Crash, tableVars, Enq
<1> QED BY <1>2, <1>3, <1>4, <1>5, <1>6 DEF JobNext, Tick

\* A copy in hand was charged for.
LEMMA HeldIsEnqueued ==
  ASSUME JobInv, NEW r \in Runners, NEW j \in Jobs, Holds(r, j)
  PROVE  Enq(j)
<1>1. attempts[j] \in Nat /\ claimed[r][j] \in Nat /\ claimed[r][j] <= attempts[j]
  BY DEF JobInv, JobTypeOK, InTick
<1>2. attempts[j] # 0
  BY <1>1 DEF Holds
<1> QED BY <1>2 DEF JobInv, Accounted, Enq

\* One process finds no lock of another, and what it works on is its own.
LEMMA AloneKeeps ==
  ASSUME OneRunner, JobInv, Alone, [JobNext]_jobVars
  PROVE  Alone'
<1>1. \A j \in Jobs : Enq(j) => Enq(j)'
  BY EnqueuedStays
<1>2. overruns' = 0
  <2>1. ASSUME NEW r \in Runners, NEW S \in SUBSET Jobs, Reap(r, S) PROVE overruns' = 0
    <3>1. \A q \in Runners, j \in Jobs : claimed[q][j] = 0
      BY <2>1 DEF OneRunner, Reap, JobInv, InTick
    <3>2. {j \in S : Owned(j)} = {}
      BY <3>1 DEF Owned, Holders, Holds
    <3>3. overruns' = overruns + Cardinality({j \in S : Owned(j)})
      BY <2>1 DEF Reap
    <3> QED BY <3>2, <3>3, FS_EmptySet DEF Alone
  <2>2. CASE overruns' = overruns
    BY <2>2 DEF Alone
  <2>3. overruns' = overruns \/ \E r \in Runners, S \in SUBSET Jobs : Reap(r, S)
    BY DEF JobNext, Tick, Enqueue, Claim, Start, Complete, Fail, Hook, Crash, jobVars, faultVars
  <2> QED BY <2>1, <2>2, <2>3
<1>3. ASSUME NEW q \in Runners, phase'[q] \in {"handler", "hook"}
      PROVE  \E j \in Jobs : at'[q] = j /\ Enq(j)'
  <2>0. /\ phase \in [Runners -> {"idle", "reaped", "batch", "handler", "hook"}]
        /\ at \in [Runners -> Jobs \union {NoJob}]
    BY DEF JobInv, JobTypeOK
  <2>1. CASE phase'[q] = phase[q] /\ at'[q] = at[q]
    <3>1. PICK j \in Jobs : at[q] = j /\ Enq(j)
      BY <1>3, <2>1 DEF Alone
    <3> QED BY <1>1, <2>1, <3>1
  <2>2. ASSUME NEW j \in Jobs, Start(q, j) PROVE at'[q] = j /\ Enq(j)'
    <3>1. at'[q] = j /\ Enq(j)
      BY <2>0, <2>2, HeldIsEnqueued DEF Start
    <3> QED BY <1>1, <3>1
  <2>3. ASSUME NEW permanent \in BOOLEAN, Fail(q, permanent)
        PROVE  \E j \in Jobs : at'[q] = j /\ Enq(j)'
    <3>1. phase[q] = "handler"
      BY <2>3 DEF Fail
    <3>2. phase'[q] = "hook" /\ at' = at
      <4>1. phase'[q] \notin {"batch", "idle"}
        BY <1>3
      <4> QED BY <2>0, <2>3, <4>1 DEF Fail, Leave
    <3>3. PICK j \in Jobs : at[q] = j /\ Enq(j)
      BY <3>1 DEF Alone
    <3> QED BY <1>1, <3>2, <3>3
  <2>4. \/ phase'[q] = phase[q] /\ at'[q] = at[q]
        \/ \E j \in Jobs : Start(q, j)
        \/ \E permanent \in BOOLEAN : Fail(q, permanent)
    <3>1. ASSUME NEW r \in Runners, Tick(r) \/ Crash(r)
          PROVE  \/ phase'[q] = phase[q] /\ at'[q] = at[q]
                 \/ \E j \in Jobs : Start(q, j)
                 \/ \E permanent \in BOOLEAN : Fail(q, permanent)
      <4>1. r = q
        BY DEF OneRunner
      <4>2. ASSUME Complete(q) \/ Hook(q) \/ Crash(q) \/ \E S \in SUBSET Jobs : Reap(q, S) \/ Claim(q, S)
            PROVE  phase'[q] \in {"idle", "reaped", "batch"}
        BY <2>0, <4>2 DEF Complete, Hook, Crash, Reap, Claim, Leave
      <4> QED BY <1>3, <3>1, <4>1, <4>2 DEF Tick
    <3>2. CASE \E j \in Jobs : Enqueue(j)
      BY <3>2 DEF Enqueue, runnerVars
    <3>3. CASE UNCHANGED jobVars
      BY <3>3 DEF jobVars, runnerVars
    <3> QED BY <3>1, <3>2, <3>3 DEF JobNext
  <2> QED BY <2>1, <2>2, <2>3, <2>4
<1>4. ASSUME NEW q \in Runners, phase'[q] \in {"handler", "hook"}
      PROVE  at'[q] \in Jobs /\ Enq(at[q])'
  <2>1. PICK j \in Jobs : at'[q] = j /\ Enq(j)'
    BY <1>3, <1>4
  <2> QED BY <2>1 DEF Enq
<1> QED BY <1>2, <1>4 DEF Alone

\* Whoever is in a handler has the lock: its job is running.
LEMMA InHandIsRunning ==
  ASSUME JobInv, Alone, NEW r \in Runners, phase[r] = "handler"
  PROVE  at[r] \in Jobs /\ status[at[r]] = "running"
<1>1. at[r] \in Jobs /\ r \in Holders(at[r])
  BY DEF JobInv, InTick, Holders, Holds
<1> DEFINE j == at[r]
<1>2. j \in Jobs /\ r \in Holders(j)
  BY <1>1
<1> HIDE DEF j
<1>3. Cardinality(Holders(j)) \in Nat /\ Cardinality(Holders(j)) # 0
  BY <1>2, HandsFinite, FS_EmptySet
<1>4. Loose(j) = 0
  <2>1. Cardinality(Holders(j)) + Loose(j) <= 1 + overruns
    BY <1>2 DEF JobInv, Accounted, Handed
  <2>2. Loose(j) \in 0..1
    BY DEF Loose
  <2> QED BY <1>3, <2>1, <2>2 DEF Alone
<1>5. status[j] = "running"
  BY <1>4 DEF Loose
<1> QED BY <1>1, <1>5 DEF j

-----------------------------------------------------------------------------
(* Steps keep what was gained. *)

Onward ==
  /\ files' = files /\ (lostHook => lostHook') /\ (estado \in Closed => estado' \in Closed)
  /\ \A j \in Jobs : Enq(j) => Enq(j)'
  /\ \A k \in Packages : (package[k] # "none" => package'[k] # "none") /\ (Kept(k) => Kept(k)')

LEMMA ReturnsStand ==
  ASSUME DownloadTypeOK, Onward, NEW j, Returns(j)
  PROVE  Returns(j)'
<1>1. files \subseteq Packages
  BY DEF DownloadTypeOK
<1>2. AllEnqueued => AllEnqueued'
  BY <1>1, JobNames DEF Onward, AllEnqueued
<1>3. Over => Over'
  BY DEF Onward, Over
<1>4. ASSUME NEW p \in 0..PollCap, GoesOn(p) PROVE GoesOn(p)'
  <2>1. CASE p < PollCap /\ Enq(Verificacion(p + 1))
    <3>1. p + 1 \in 0..PollCap
      BY <2>1, DownloadAssumption
    <3>2. Enq(Verificacion(p + 1))'
      BY <2>1, <3>1, JobNames DEF Onward
    <3> QED BY <2>1, <3>2 DEF GoesOn
  <2> QED BY <1>2, <1>3, <1>4, <2>1 DEF GoesOn
<1>5. Enq(Verificacion(0)) => Enq(Verificacion(0))'
  BY JobNames, DownloadAssumption DEF Onward
<1> QED BY <1>4, <1>5 DEF Onward, Returns

\* A job that is not settled by the step.
LEMMA EndedStands ==
  ASSUME DownloadTypeOK, Onward, NEW j \in Jobs, Ended(j),
         status'[j] \in Settled => status'[j] = status[j],
         HookOf(j) => HookOf(j)' \/ HookRan(j)' \/ lostHook'
  PROVE  Ended(j)'
<1>1. status'[j] = "done" => Returns(j)'
  BY ReturnsStand DEF Ended, Settled
<1>2. HookRan(j) => HookRan(j)'
  BY DEF HookRan, Onward
<1>3. status'[j] = "dead" => status[j] = "dead"
  BY DEF Settled
<1> QED BY <1>1, <1>2, <1>3 DEF Ended, Onward

\* A step in which no handler takes part.
LEMMA WorksAside ==
  ASSUME DownloadTypeOK, Onward, NEW r \in Runners, Works(r), local'[r] = local[r], at'[r] = at[r],
         idSolicitud' = idSolicitud, package' = package,
         estado' = estado \/ (estado = "none" /\ estado' = "nueva")
  PROVE  Works(r)'
<1>1. files \subseteq Packages /\ files' = files
  BY DEF DownloadTypeOK, Onward
<1>2. \A k \in Packages : Enq(Paquete(k)) => Enq(Paquete(k))'
  BY JobNames DEF Onward
<1>3. \A k \in Packages : Kept(k)' <=> Kept(k)
  BY DEF Kept
<1> DEFINE s == local[r].step
           w == local[r].what
           todo == local[r].todo
<1>4. local'[r].step = s /\ local'[r].what = w /\ local'[r].todo = todo
  OBVIOUS
<1>5. s = "verify" => estado' \notin Closed
  BY DEF Works, Closed
<1>6. s \in {"record", "enqueue"} =>
         /\ estado' = "terminada" /\ files' # {} /\ todo \subseteq files'
         /\ \A k \in files' \ todo :
              package'[k] # "none" /\ (Enq(Paquete(k))' \/ (s = "enqueue" /\ k = w))
  BY <1>1, <1>2 DEF Works
<1>7. s = "return" => Returns(at[r])'
  <2> SUFFICES ASSUME s = "return" PROVE Returns(at[r])'
    OBVIOUS
  <2>1. PICK j : at[r] = j /\ Returns(j)
    BY DEF Works
  <2>2. Returns(j)'
    BY <2>1, ReturnsStand
  <2> QED BY <2>1, <2>2 DEF Returns
<1>8. s = "close" => \A k \in Packages : at[r] = Paquete(k) =>
         /\ w = "descargada" => \A x \in Packages \ {k} : package'[x] # "pendiente"
         /\ (\A x \in files' \ {k} : Kept(x)') => w # "open"
  BY <1>1, <1>3 DEF Works
<1> HIDE DEF s, w, todo
<1> QED BY <1>1, <1>4, <1>5, <1>6, <1>7, <1>8 DEF Works, s, w, todo

FreshSteps == {"none", "start", "download", "refuse", "throw", "timeout"}

LEMMA FreshWorks == ASSUME NEW r, local'[r].step \in FreshSteps PROVE Works(r)'
  BY DEF FreshSteps, Works

LEMMA GoSets ==
  ASSUME DownloadInv, NEW r \in Runners, NEW next, Go(r, next)
  PROVE  local'[r] = next
  BY DEF DownloadInv, DownloadTypeOK, Go

LEMMA StepFields ==
  ASSUME NEW s PROVE Step(s).step = s /\ Step(s).todo = {} /\ Step(s).what = "none"
  BY DEF Step

\* A step of a handler that only remembers.
LEMMA QuietGoes ==
  ASSUME Goes, UNCHANGED <<jobVars, requestVars, files, lostHook>> PROVE Goes'
<1>1. UNCHANGED <<status, at, phase, estado, idSolicitud, package, files, lostHook>>
  BY DEF jobVars, tableVars, runnerVars, requestVars
<1> QED BY <1>1 DEF Goes, Recorded, LastCloses, DownloadedWaitsForNone, Ended, Returns, GoesOn,
            HookRan, HookOf, AllEnqueued, Over, Kept, Enq

\* A handler that enqueues a job.
LEMMA PostGoes ==
  ASSUME Goes, DownloadTypeOK, idSolicitud, NEW x \in Jobs, Post({x}),
         UNCHANGED <<requestVars, files, lostHook>>,
         \A k \in Packages : x = Paquete(k) => package[k] # "none"
  PROVE  Goes' /\ Onward /\ at' = at /\ Enq(x)'
<1>1. /\ status' = Enqueued({x})
      /\ UNCHANGED <<at, phase, estado, idSolicitud, package, files, lostHook>>
  BY DEF Post, requestVars, runnerVars
<1>2. \A j \in Jobs : /\ status'[j] = status[j] \/ status'[j] = "pending"
                      /\ j # x => status'[j] = status[j]
                      /\ Enq(j) => Enq(j)'
  BY <1>1 DEF Enqueued, Enq
<1>3. Enq(x)'
  BY <1>1 DEF Enqueued, Enq
<1>4. Onward
  BY <1>1, <1>2 DEF Onward, Kept
<1>5. ASSUME NEW j \in Jobs PROVE Ended(j)'
  <2>1. HookOf(j) => HookOf(j)'
    BY <1>1 DEF HookOf
  <2>2. status'[j] \in Settled => status'[j] = status[j]
    BY <1>2 DEF Settled
  <2> QED BY <1>4, <2>1, <2>2, EndedStands DEF Goes
<1>6. Recorded'
  <2>1. \A k \in Packages : Enq(Paquete(k))' => package'[k] # "none"
    <3>1. \A k \in Packages : Paquete(k) # x => status'[Paquete(k)] = status[Paquete(k)]
      BY <1>2, JobNames
    <3> QED BY <1>1, <3>1 DEF Goes, Recorded, Enq
  <2> QED BY <1>1, <2>1 DEF Goes, Recorded
<1>7. LastCloses' /\ DownloadedWaitsForNone'
  BY <1>1 DEF Goes, LastCloses, DownloadedWaitsForNone, Kept, Over
<1> QED BY <1>1, <1>3, <1>4, <1>5, <1>6, <1>7 DEF Goes

\* A handler in its job.
LEMMA InHandler ==
  ASSUME DownloadInv, OnwardInv, NEW r \in Runners, NEW j, NEW s, InStep(r, j, s)
  PROVE  /\ at[r] = j /\ phase[r] = "handler" /\ local[r].step = s
         /\ j \in Jobs /\ Enq(j) /\ status[j] = "running"
         /\ Goes /\ Alone /\ Works(r) /\ DownloadTypeOK
  BY InHandIsRunning DEF InStep, OnwardInv, Alone, DownloadInv

LEMMA SolicitudGoes ==
  ASSUME DownloadInv, OnwardInv, NEW r \in Runners,
         SolicitudRead(r) \/ Solicita(r) \/ SolicitudWrite(r) \/ FirstPoll(r)
  PROVE  Goes' /\ Works(r)'
<1>1. CASE SolicitudRead(r)
  <2>1. Goes /\ UNCHANGED <<jobVars, requestVars, files, lostHook>>
    BY <1>1 DEF SolicitudRead, NoEnqueue, OnwardInv
  <2>2. local'[r] = Step(IF idSolicitud THEN "first poll" ELSE "ask")
    BY <1>1, GoSets DEF SolicitudRead
  <2>3. /\ local'[r].step = IF idSolicitud THEN "first poll" ELSE "ask"
        /\ idSolicitud' = idSolicitud
    BY <2>1, <2>2, StepFields DEF requestVars
  <2>4. Works(r)'
    <3>1. CASE idSolicitud
      BY <2>3, <3>1 DEF Works
    <3>2. CASE ~idSolicitud
      BY <2>3, <3>2 DEF Works
    <3> QED BY <3>1, <3>2
  <2> QED BY <2>1, <2>4, QuietGoes
<1>2. CASE Solicita(r)
  <2>1. Goes /\ UNCHANGED <<jobVars, requestVars, files, lostHook>>
    BY <1>2 DEF Solicita, NoEnqueue, OnwardInv
  <2>2. local'[r].step = "answered"
    <3>1. PICK answer \in {"accepted", "refused", "busy"} :
            Go(r, [Step("answered") EXCEPT !.what = answer])
      BY <1>2 DEF Solicita
    <3>2. local'[r] = [Step("answered") EXCEPT !.what = answer]
      BY <3>1, GoSets
    <3> QED BY <3>2 DEF Step
  <2>3. ~idSolicitud /\ idSolicitud' = idSolicitud
    <3>1. InStep(r, Solicitud, "ask")
      BY <1>2 DEF Solicita
    <3>2. Works(r) /\ local[r].step = "ask"
      BY <3>1, InHandler
    <3> QED BY <2>1, <3>2 DEF Works, requestVars
  <2>4. Works(r)'
    BY <2>2, <2>3 DEF Works
  <2> QED BY <2>1, <2>4, QuietGoes
<1>3. CASE SolicitudWrite(r)
  <2>1. /\ Goes /\ DownloadTypeOK /\ status[Solicitud] = "running" /\ ~idSolicitud
        /\ local[r].what \in {"accepted", "refused", "busy"}
    <3>1. InStep(r, Solicitud, "answered")
      BY <1>3 DEF SolicitudWrite
    <3>2. Works(r) /\ local[r].step = "answered"
      BY <3>1, InHandler
    <3> QED BY <3>1, <3>2, InHandler DEF Works, DownloadInv, Remembers
  <2>2. /\ UNCHANGED <<jobVars, package, files, lostHook>>
        /\ UNCHANGED <<status, at, phase>>
    BY <1>3 DEF SolicitudWrite, NoEnqueue, jobVars, tableVars, runnerVars
  <2>3. /\ \A p \in 0..PollCap : status[Verificacion(p)] = "absent"
        /\ \A k \in Packages : status[Paquete(k)] = "absent" /\ package[k] = "none"
    BY <2>1 DEF Goes, Recorded, Enq
  <2>4. Recorded' /\ DownloadedWaitsForNone'
    BY <2>2, <2>3 DEF Recorded, Enq, DownloadedWaitsForNone
  <2>5. LastCloses'
    <3>1. files \subseteq Packages /\ files' = files /\ \A k \in Packages : ~Kept(k)'
      BY <2>1, <2>2, <2>3 DEF DownloadTypeOK, Kept, Done
    <3> QED BY <3>1 DEF LastCloses
  <2>6. ASSUME NEW j \in Jobs PROVE Ended(j)'
    <3>1. status[j] \in {"running", "absent"}
      BY <2>1, <2>3, JobNames
    <3> QED BY <2>2, <3>1 DEF Ended
  <2>7. local'[r].step \in {"first poll", "refuse", "throw"}
        /\ (local'[r].step = "first poll" => idSolicitud')
    <3>1. local'[r].step = CASE local[r].what = "accepted" -> "first poll"
                             [] local[r].what = "refused" -> "refuse"
                             [] local[r].what = "busy" -> "throw"
      BY <1>3, GoSets, StepFields DEF SolicitudWrite
    <3>2. idSolicitud' = (local[r].what = "accepted")
      BY <1>3 DEF SolicitudWrite
    <3>3. CASE local[r].what = "accepted"
      BY <3>1, <3>2, <3>3
    <3>4. CASE local[r].what = "refused"
      BY <3>1, <3>4
    <3>5. CASE local[r].what = "busy"
      BY <3>1, <3>5
    <3> QED BY <2>1, <3>3, <3>4, <3>5
  <2>8. Works(r)'
    BY <2>7 DEF Works
  <2> QED BY <2>4, <2>5, <2>6, <2>8 DEF Goes
<1>4. CASE FirstPoll(r)
  <2>1. /\ Goes /\ DownloadTypeOK /\ idSolicitud /\ at[r] = Solicitud
    <3>1. InStep(r, Solicitud, "first poll")
      BY <1>4 DEF FirstPoll
    <3>2. Works(r) /\ local[r].step = "first poll"
      BY <3>1, InHandler
    <3> QED BY <3>1, <3>2, InHandler DEF Works
  <2>2. Post({Verificacion(0)}) /\ UNCHANGED <<requestVars, files, lostHook>>
    BY <1>4 DEF FirstPoll
  <2>3. Goes' /\ at' = at /\ Enq(Verificacion(0))'
    <3>1. Verificacion(0) \in Jobs /\ \A k \in Packages : Verificacion(0) # Paquete(k)
      BY JobNames, DownloadAssumption
    <3> QED BY <2>1, <2>2, <3>1, PostGoes
  <2>4. Works(r)'
    <3>1. local'[r].step = "return" /\ at'[r] = Solicitud
      BY <1>4, <2>1, <2>3, GoSets, StepFields DEF FirstPoll
    <3>2. Returns(at[r])'
      BY <2>3, <3>1, JobNames DEF Returns
    <3> QED BY <3>1, <3>2 DEF Works
  <2> QED BY <2>3, <2>4
<1> QED BY <1>1, <1>2, <1>3, <1>4

\* A handler that writes the request or a package.
LEMMA WriteGoes ==
  ASSUME Goes, DownloadTypeOK, UNCHANGED <<jobVars, idSolicitud, files, lostHook>>,
         estado \in Closed => estado' \in Closed,
         \A k \in Packages : /\ package[k] # "none" => package'[k] # "none"
                             /\ Kept(k) => Kept(k)',
         Recorded', LastCloses', DownloadedWaitsForNone'
  PROVE  Goes' /\ Onward
<1>1. UNCHANGED <<status, at, phase>>
  BY DEF jobVars, tableVars, runnerVars
<1>2. Onward
  BY <1>1 DEF Onward, Enq
<1>3. ASSUME NEW j \in Jobs PROVE Ended(j)'
  BY <1>1, <1>2, EndedStands DEF Goes, HookOf
<1> QED BY <1>2, <1>3 DEF Goes

\* Only the answer changes, or the state of the request.
LEMMA RecordedStands ==
  ASSUME Recorded, UNCHANGED <<status, idSolicitud, package, files>> PROVE Recorded'
  BY DEF Recorded, Enq

LEMMA VerificacionReturns ==
  ASSUME NEW p \in 0..PollCap PROVE GoesOn(p)' => Returns(Verificacion(p))'
<1>1. \A q \in 0..PollCap : Verificacion(p) = Verificacion(q) => p = q
  BY JobNames
<1>2. Verificacion(p) # Solicitud /\ \A k \in Packages : Verificacion(p) # Paquete(k)
  BY JobNames
<1> QED BY <1>1, <1>2 DEF Returns

LEMMA WorksToReturn ==
  ASSUME NEW r \in Runners, NEW p \in 0..PollCap, at'[r] = Verificacion(p),
         local'[r].step = "return", GoesOn(p)'
  PROVE  Works(r)'
<1>1. Returns(at[r])'
  BY VerificacionReturns DEF Returns
<1> QED BY <1>1 DEF Works

LEMMA VerificaGoes ==
  ASSUME DownloadInv, OnwardInv, NEW r \in Runners, NEW p \in 0..PollCap, Verifica(r, p)
  PROVE  Goes' /\ Works(r)'
<1>1. InStep(r, Verificacion(p), "verify")
  BY DEF Verifica
<1>2. at[r] = Verificacion(p) /\ Goes /\ Works(r) /\ DownloadTypeOK /\ local[r].step = "verify"
  BY <1>1, InHandler
<1>3. estado \notin Closed
  BY <1>2 DEF Works
<1>4. UNCHANGED <<jobVars, idSolicitud, package, files, lostHook>> /\ UNCHANGED <<status, at>>
  BY DEF Verifica, NoEnqueue, jobVars, tableVars, runnerVars
<1>5. PICK sat \in SatStates :
        /\ estado' = IF sat = "unknown" THEN estado ELSE sat
        /\ Go(r, CASE sat = "terminada" /\ files = {} -> Step("close empty")
                   [] sat = "terminada" /\ files # {} -> [Step("record") EXCEPT !.todo = files]
                   [] sat \in Closed -> Step("return")
                   [] OTHER -> Step(IF p >= PollCap THEN "timeout" ELSE "next poll"))
  BY DEF Verifica
<1>6. estado' # "descargada"
  BY <1>3, <1>5 DEF SatStates, Closed
<1>7. Goes'
  <2>1. Recorded'
    BY <1>2, <1>4, RecordedStands DEF Goes
  <2>2. LastCloses' /\ DownloadedWaitsForNone'
    BY <1>2, <1>3, <1>4, <1>6 DEF Goes, LastCloses, DownloadedWaitsForNone, Over, Kept
  <2>3. \A k \in Packages : Kept(k) => Kept(k)'
    BY <1>4 DEF Kept
  <2> QED BY <1>2, <1>3, <1>4, <2>1, <2>2, <2>3, WriteGoes
<1>8. at'[r] = Verificacion(p)
  BY <1>2, <1>4
<1>9. CASE sat = "terminada" /\ files = {}
  <2>1. Go(r, Step("close empty"))
    BY <1>5, <1>9 DEF Closed
  <2>2. local'[r].step = "close empty"
    BY <2>1, GoSets, StepFields
  <2> QED BY <1>4, <1>7, <1>9, <2>2 DEF Works
<1>10. CASE sat = "terminada" /\ files # {}
  <2>0. Go(r, [Step("record") EXCEPT !.todo = files])
    BY <1>5, <1>10 DEF Closed
  <2>1. local'[r] = [Step("record") EXCEPT !.todo = files]
    BY <2>0, GoSets
  <2>2. local'[r].step = "record" /\ local'[r].todo = files
    BY <2>1 DEF Step
  <2>3. estado' = "terminada"
    BY <1>5, <1>10
  <2> QED BY <1>4, <1>7, <1>10, <2>2, <2>3 DEF Works
<1>11. CASE sat \in Closed
  <2>1. sat # "terminada" /\ sat # "unknown"
    BY <1>11 DEF Closed
  <2>2. local'[r].step = "return" /\ estado' \in Closed
    BY <1>5, <1>11, <2>1, GoSets, StepFields
  <2>3. GoesOn(p)'
    BY <2>2 DEF GoesOn, Over
  <2> QED BY <1>7, <1>8, <2>2, <2>3, WorksToReturn
<1>12. CASE sat \notin Closed /\ sat # "terminada"
  <2>1. local'[r].step = IF p >= PollCap THEN "timeout" ELSE "next poll"
    BY <1>5, <1>12, GoSets, StepFields
  <2>2. CASE p >= PollCap
    <3>1. local'[r].step \in FreshSteps
      BY <2>1, <2>2 DEF FreshSteps
    <3> QED BY <1>7, <3>1, FreshWorks
  <2>3. CASE ~(p >= PollCap)
    <3>0. PollCap \in Nat
      BY DownloadAssumption
    <3>1. p < PollCap
      BY <2>3, <3>0
    <3>2. local'[r].step = "next poll"
      BY <2>1, <2>3, Zenon
    <3> QED BY <1>7, <1>8, <3>1, <3>2 DEF Works
  <2> QED BY <2>2, <2>3
<1> QED BY <1>9, <1>10, <1>11, <1>12

LEMMA VerificacionGoes ==
  ASSUME DownloadInv, OnwardInv, NEW r \in Runners, NEW p \in 0..PollCap,
         VerificacionRead(r, p) \/ CloseEmpty(r, p) \/ PollTimeout(r, p) \/ NextPoll(r, p)
  PROVE  Goes' /\ Works(r)'
<1>1. PICK s : InStep(r, Verificacion(p), s)
  BY DEF VerificacionRead, CloseEmpty, PollTimeout, NextPoll
<1>2. at[r] = Verificacion(p) /\ Enq(Verificacion(p)) /\ Goes /\ Works(r) /\ DownloadTypeOK
  BY <1>1, InHandler
<1>3. idSolicitud
  BY <1>2 DEF Goes, Recorded
<1>4. CASE VerificacionRead(r, p)
  <2>1. UNCHANGED <<jobVars, requestVars, files, lostHook>> /\ at' = at /\ estado' = estado
    BY <1>4 DEF VerificacionRead, NoEnqueue, jobVars, runnerVars, requestVars
  <2>2. local'[r].step = IF estado \in Closed THEN "return" ELSE "verify"
    <3>1. local'[r].step = CASE ~idSolicitud -> "refuse"
                             [] idSolicitud /\ estado \in Skippable -> "return"
                             [] OTHER -> "verify"
      BY <1>4, GoSets, StepFields DEF VerificacionRead
    <3> QED BY <1>3, <3>1 DEF Skippable
  <2>3. Goes'
    BY <1>2, <2>1, QuietGoes
  <2>4. CASE estado \in Closed
    <3>1. GoesOn(p)' /\ local'[r].step = "return" /\ at'[r] = Verificacion(p)
      BY <1>2, <2>1, <2>2, <2>4 DEF GoesOn, Over
    <3> QED BY <2>3, <3>1, WorksToReturn
  <2>5. CASE estado \notin Closed
    BY <2>1, <2>2, <2>3, <2>5 DEF Works
  <2> QED BY <2>4, <2>5
<1>5. CASE CloseEmpty(r, p)
  <2>1. UNCHANGED <<jobVars, idSolicitud, package, files, lostHook>> /\ UNCHANGED <<status, at>>
        /\ estado' = "descargada"
    BY <1>5 DEF CloseEmpty, NoEnqueue, jobVars, tableVars, runnerVars
  <2>2. files = {}
    <3>1. InStep(r, Verificacion(p), "close empty")
      BY <1>5 DEF CloseEmpty
    <3>2. local[r].step = "close empty"
      BY <3>1, InHandler
    <3> QED BY <1>2, <3>2 DEF Works
  <2>3. Recorded'
    BY <1>2, <2>1, RecordedStands DEF Goes
  <2>4. LastCloses' /\ DownloadedWaitsForNone'
    BY <1>2, <2>1, <2>2 DEF Goes, Recorded, LastCloses, DownloadedWaitsForNone
  <2>5. Goes'
    <3>1. \A k \in Packages : Kept(k) => Kept(k)'
      BY <2>1 DEF Kept
    <3> QED BY <1>2, <2>1, <2>3, <2>4, <3>1, WriteGoes DEF Closed
  <2>6. GoesOn(p)' /\ local'[r].step = "return" /\ at'[r] = Verificacion(p)
    BY <1>2, <1>5, <2>1, GoSets, StepFields DEF CloseEmpty, GoesOn, Over, Closed
  <2> QED BY <2>5, <2>6, WorksToReturn
<1>6. CASE PollTimeout(r, p)
  <2>1. UNCHANGED <<jobVars, idSolicitud, package, files, lostHook>> /\ UNCHANGED <<status, at>>
        /\ estado' = "error"
    BY <1>6 DEF PollTimeout, NoEnqueue, jobVars, tableVars, runnerVars
  <2>2. Recorded'
    BY <1>2, <2>1, RecordedStands DEF Goes
  <2>3. LastCloses' /\ DownloadedWaitsForNone'
    BY <2>1 DEF LastCloses, DownloadedWaitsForNone, Over, Closed
  <2>4. Goes'
    <3>1. \A k \in Packages : Kept(k) => Kept(k)'
      BY <2>1 DEF Kept
    <3> QED BY <1>2, <2>1, <2>2, <2>3, <3>1, WriteGoes DEF Closed
  <2>5. GoesOn(p)' /\ local'[r].step = "return" /\ at'[r] = Verificacion(p)
    BY <1>2, <1>6, <2>1, GoSets, StepFields DEF PollTimeout, GoesOn, Over, Closed
  <2> QED BY <2>4, <2>5, WorksToReturn
<1>7. CASE NextPoll(r, p)
  <2>1. p < PollCap
    <3>1. InStep(r, Verificacion(p), "next poll")
      BY <1>7 DEF NextPoll
    <3>2. local[r].step = "next poll"
      BY <3>1, InHandler
    <3>3. PICK q \in 0..PollCap : q < PollCap /\ at[r] = Verificacion(q)
      BY <1>2, <3>2 DEF Works
    <3>4. q = p
      BY <1>2, <3>3, JobNames
    <3> QED BY <3>3, <3>4
  <2>2. Post({Verificacion(p + 1)}) /\ UNCHANGED <<requestVars, files, lostHook>>
    BY <1>7 DEF NextPoll
  <2>3. Goes' /\ at' = at /\ Enq(Verificacion(p + 1))'
    <3>1. p + 1 \in 0..PollCap
      BY <2>1, DownloadAssumption
    <3>2. Verificacion(p + 1) \in Jobs /\ \A k \in Packages : Verificacion(p + 1) # Paquete(k)
      BY <3>1, JobNames
    <3> QED BY <1>2, <1>3, <2>2, <3>2, PostGoes
  <2>4. GoesOn(p)'
    BY <2>1, <2>3 DEF GoesOn
  <2>5. local'[r].step = "return" /\ at'[r] = Verificacion(p)
    BY <1>2, <1>7, <2>3, GoSets, StepFields DEF NextPoll
  <2> QED BY <2>3, <2>4, <2>5, WorksToReturn
<1> QED BY <1>4, <1>5, <1>6, <1>7

LEMMA PackagesGo ==
  ASSUME DownloadInv, OnwardInv, NEW r \in Runners, NEW p \in 0..PollCap,
         RecordPackage(r, p) \/ EnqueuePackage(r, p)
  PROVE  Goes' /\ Works(r)'
<1>1. PICK s \in {"record", "enqueue"} : InStep(r, Verificacion(p), s)
  BY DEF RecordPackage, EnqueuePackage
<1>2. /\ at[r] = Verificacion(p) /\ Enq(Verificacion(p)) /\ Goes /\ Works(r)
      /\ DownloadTypeOK /\ local[r].step = s
  BY <1>1, InHandler
<1>3. idSolicitud
  BY <1>2 DEF Goes, Recorded
<1>0. PICK todo, w : todo = local[r].todo /\ w = local[r].what
  OBVIOUS
<1>4. /\ estado = "terminada" /\ files # {} /\ todo \subseteq files
      /\ \A k \in files \ todo : package[k] # "none" /\ (Enq(Paquete(k)) \/ (s = "enqueue" /\ k = w))
      /\ s = "enqueue" => w \in files \ todo
  BY <1>0, <1>2 DEF Works
<1>5. files \subseteq Packages
  BY <1>2 DEF DownloadTypeOK
<1>6. CASE RecordPackage(r, p)
  <2>1. PICK k \in todo :
          /\ package' = [package EXCEPT ![k] = IF @ = "none" THEN "pendiente" ELSE @]
          /\ Go(r, [step |-> "enqueue", todo |-> todo \ {k}, what |-> k])
    BY <1>0, <1>6 DEF RecordPackage
  <2>2. /\ UNCHANGED <<jobVars, idSolicitud, files, lostHook>> /\ UNCHANGED <<status, at>>
        /\ estado' = estado
    BY <1>6 DEF RecordPackage, NoEnqueue, jobVars, tableVars, runnerVars
  <2>3. s = "record"
    <3>1. InStep(r, Verificacion(p), "record")
      BY <1>6 DEF RecordPackage
    <3> QED BY <1>2, <3>1, InHandler
  <2>4. /\ k \in files /\ package \in [Packages -> {"none", "pendiente", "error"} \union Done]
        /\ package'[k] = IF package[k] = "none" THEN "pendiente" ELSE package[k]
        /\ \A x \in Packages : x # k => package'[x] = package[x]
    BY <1>2, <1>4, <1>5, <2>1 DEF DownloadTypeOK
  <2>5. /\ \A x \in Packages : /\ package[x] # "none" => package'[x] # "none"
                               /\ package'[x] # "none" => x \in files
        /\ \A x \in Packages : Kept(x)' <=> Kept(x)
    BY <1>2, <1>5, <2>4 DEF Goes, Recorded, Kept, Done
  <2>6. Recorded'
    BY <1>2, <1>3, <2>2, <2>5 DEF Goes, Recorded, Enq
  <2>7. LastCloses' /\ DownloadedWaitsForNone'
    BY <1>2, <1>4, <1>5, <2>2, <2>5 DEF Goes, LastCloses, DownloadedWaitsForNone, Over
  <2>8. Goes'
    BY <1>2, <2>2, <2>5, <2>6, <2>7, WriteGoes
  <2>9. local'[r].step = "enqueue" /\ local'[r].todo = todo \ {k} /\ local'[r].what = k
    <3>1. local'[r] = [step |-> "enqueue", todo |-> todo \ {k}, what |-> k]
      BY <2>1, GoSets
    <3> QED BY <3>1
  <2>10. /\ estado' = "terminada" /\ files' # {} /\ todo \ {k} \subseteq files'
         /\ k \in files' \ (todo \ {k})
         /\ \A x \in files' \ (todo \ {k}) : package'[x] # "none" /\ (Enq(Paquete(x))' \/ x = k)
    <3>1. \A x \in files : x \notin todo => package[x] # "none" /\ Enq(Paquete(x))
      BY <1>4, <2>3
    <3>2. package'[k] # "none"
      BY <2>4
    <3> QED BY <1>4, <1>5, <2>2, <2>4, <2>5, <3>1, <3>2 DEF Enq
  <2>11. Works(r)'
    BY <2>9, <2>10 DEF Works
  <2> QED BY <2>8, <2>11
<1>7. CASE EnqueuePackage(r, p)
  <2>1. s = "enqueue" /\ w \in files /\ w \notin todo /\ package[w] # "none"
    <3>1. InStep(r, Verificacion(p), "enqueue")
      BY <1>7 DEF EnqueuePackage
    <3>2. s = "enqueue"
      BY <1>2, <3>1, InHandler
    <3> QED BY <1>4, <3>2
  <2>2. Post({Paquete(w)}) /\ UNCHANGED <<requestVars, files, lostHook>>
    BY <1>0, <1>7 DEF EnqueuePackage
  <2>3. Goes' /\ Onward /\ at' = at /\ Enq(Paquete(w))'
    <3>1. Paquete(w) \in Jobs /\ \A k \in Packages : Paquete(w) = Paquete(k) => package[k] # "none"
      BY <1>5, <2>1, JobNames
    <3> QED BY <1>2, <1>3, <2>2, <3>1, PostGoes
  <2>4. estado' = "terminada" /\ package' = package /\ files' = files
    BY <1>4, <2>2 DEF requestVars
  <2>5. \A k \in files' : k \notin todo => package'[k] # "none" /\ Enq(Paquete(k))'
    <3>1. \A k \in Packages : Enq(Paquete(k)) => Enq(Paquete(k))'
      BY <2>3, JobNames DEF Onward
    <3> QED BY <1>4, <1>5, <2>1, <2>3, <2>4, <3>1
  <2>6. Go(r, IF todo = {} THEN Step("return") ELSE [Step("record") EXCEPT !.todo = todo])
    BY <1>0, <1>7 DEF EnqueuePackage
  <2>7. CASE todo = {}
    <3>1. AllEnqueued'
      BY <1>4, <2>4, <2>5, <2>7 DEF AllEnqueued
    <3>2. local'[r].step = "return" /\ at'[r] = Verificacion(p)
      BY <1>2, <2>3, <2>6, <2>7, GoSets, StepFields
    <3>3. GoesOn(p)'
      BY <3>1 DEF GoesOn
    <3> QED BY <2>3, <3>2, <3>3, WorksToReturn
  <2>8. CASE todo # {}
    <3>1. local'[r] = [Step("record") EXCEPT !.todo = todo]
      BY <2>6, <2>8, GoSets
    <3>2. local'[r].step = "record" /\ local'[r].todo = todo
      BY <3>1 DEF Step
    <3> QED BY <1>4, <2>3, <2>4, <2>5, <2>8, <3>2 DEF Works
  <2> QED BY <2>7, <2>8
<1> QED BY <1>6, <1>7

\* What the verdict says of the packages it saw.
LEMMA VerdictSays ==
  ASSUME NEW seen, NEW k \in Packages, seen[k] \in Done \union {"error"}
  PROVE  /\ Verdict(seen) = "descargada" => \A x \in Packages : seen[x] # "pendiente"
         /\ (\A x \in Packages : seen[x] # "none" => seen[x] \in Done \union {"error"})
              => Verdict(seen) # "open"
<1> DEFINE recorded == {x \in Packages : seen[x] # "none"}
           done == {x \in recorded : seen[x] \in Done}
           errored == {x \in recorded : seen[x] = "error"}
<1>1. Verdict(seen) = CASE recorded = {} \/ done \union errored # recorded -> "open"
                        [] done \union errored = recorded /\ done = {} /\ recorded # {} -> "error"
                        [] OTHER -> "descargada"
  BY DEF Verdict
<1>2. k \in recorded
  BY DEF Done
<1>3. (\A x \in Packages : seen[x] # "none" => seen[x] \in Done \union {"error"})
        => done \union errored = recorded
  OBVIOUS
<1>4. done \union errored = recorded => \A x \in Packages : seen[x] # "pendiente"
  BY DEF Done
<1> HIDE DEF recorded, done, errored
<1> QED BY <1>1, <1>2, <1>3, <1>4

LEMMA CountGoes ==
  ASSUME DownloadInv, OnwardInv, NEW r \in Runners, NEW k \in Packages, at[r] = Paquete(k),
         NEW s \in Done \union {"error"}, CountPackages(r, k, s)
  PROVE  Goes' /\ Works(r)'
<1> DEFINE seen == [package EXCEPT ![k] = s]
<1>1. Goes' /\ UNCHANGED <<at, package, files>>
  BY QuietGoes DEF CountPackages, NoEnqueue, OnwardInv, jobVars, runnerVars, requestVars
<1>2. /\ package \in [Packages -> {"none", "pendiente", "error"} \union Done] /\ files \subseteq Packages
      /\ \A x \in Packages : package[x] # "none" => x \in files
  BY DEF DownloadInv, DownloadTypeOK, OnwardInv, Goes, Recorded
<1>3. seen[k] = s /\ \A x \in Packages \ {k} : seen[x] = package[x]
  BY <1>2
<1>4. local'[r].step = "close" /\ local'[r].what = Verdict(seen)
  <2>1. local'[r] = [Step("close") EXCEPT !.what = Verdict(seen)]
    BY GoSets DEF CountPackages
  <2> HIDE DEF seen
  <2> QED BY <2>1 DEF Step
<1> HIDE DEF seen
<1>5. Verdict(seen) = "descargada" => \A x \in Packages \ {k} : package'[x] # "pendiente"
  BY <1>1, <1>3, VerdictSays
<1>6. (\A x \in files' \ {k} : Kept(x)') => Verdict(seen) # "open"
  <2> SUFFICES ASSUME \A x \in files' \ {k} : Kept(x)' PROVE Verdict(seen) # "open"
    OBVIOUS
  <2>1. \A x \in files \ {k} : package[x] \in Done \union {"error"}
    BY <1>1 DEF Kept
  <2>2. \A x \in Packages : seen[x] # "none" => seen[x] \in Done \union {"error"}
    BY <1>2, <1>3, <2>1
  <2> QED BY <1>3, <2>2, VerdictSays
<1>7. \A x \in Packages : at'[r] = Paquete(x) => x = k
  BY <1>1, JobNames
<1>8. Works(r)'
  BY <1>4, <1>5, <1>6, <1>7 DEF Works
<1> QED BY <1>1, <1>8

\* A package is written, and the request as it was counted.
LEMMA ClosingGoes ==
  ASSUME DownloadInv, OnwardInv, NEW r \in Runners, NEW k \in Packages, at[r] = Paquete(k),
         Enq(Paquete(k)), local[r].step = "close", NEW s \in {"parseado", "error"},
         CloseRequest(r, k, s)
  PROVE  /\ estado \in Closed => estado' \in Closed
         /\ \A x \in Packages : /\ package[x] # "none" => package'[x] # "none"
                                /\ Kept(x) => Kept(x)'
         /\ Kept(k)' /\ LastCloses' /\ DownloadedWaitsForNone'
         /\ status' = status => Recorded'
<1> DEFINE w == local[r].what
<1>1. w \in {"open", "descargada", "error"}
  BY DEF DownloadInv, Remembers
<1>2. /\ w = "descargada" => \A x \in Packages \ {k} : package[x] # "pendiente"
      /\ (\A x \in files \ {k} : Kept(x)) => w # "open"
  BY DEF OnwardInv, Works
<1> HIDE DEF w
<1>3. /\ package \in [Packages -> {"none", "pendiente", "error"} \union Done] /\ files \subseteq Packages
      /\ Recorded /\ DownloadedWaitsForNone
  BY DEF DownloadInv, DownloadTypeOK, OnwardInv, Goes
<1>4. /\ package'[k] = s /\ \A x \in Packages : x # k => package'[x] = package[x]
      /\ idSolicitud' = idSolicitud /\ files' = files
      /\ estado' = IF w = "open" THEN estado ELSE w
  BY <1>3 DEF CloseRequest, w
<1>5. estado \in Closed => estado' \in Closed
  BY <1>1, <1>4 DEF Closed
<1>6. Kept(k)' /\ \A x \in Packages : x # k => (Kept(x)' <=> Kept(x))
  BY <1>4 DEF Kept, Done
<1>7. k \in files /\ package[k] # "none"
  BY <1>3 DEF Recorded
<1>8. LastCloses'
  <2> SUFFICES ASSUME \A x \in files' : Kept(x)' PROVE estado' \in Closed
    BY DEF LastCloses, Over
  <2>1. \A x \in files \ {k} : Kept(x)
    BY <1>3, <1>4, <1>6
  <2> QED BY <1>1, <1>2, <1>4, <2>1 DEF Closed
<1>9. DownloadedWaitsForNone'
  <2> SUFFICES ASSUME estado' = "descargada", NEW x \in Packages PROVE package'[x] # "pendiente"
    BY DEF DownloadedWaitsForNone
  <2>1. x # k => package[x] # "pendiente"
    BY <1>1, <1>2, <1>3, <1>4 DEF DownloadedWaitsForNone
  <2> QED BY <1>4, <2>1
<1>10. status' = status => Recorded'
  <2> SUFFICES ASSUME status' = status PROVE Recorded'
    OBVIOUS
  <2>1. idSolicitud
    BY <1>3, <1>7 DEF Recorded
  <2>2. \A x \in Packages : package'[x] # "none" => x \in files'
    BY <1>3, <1>4, <1>7 DEF Recorded
  <2>3. \A x \in Packages : Enq(Paquete(x))' => package'[x] # "none"
    BY <1>3, <1>4 DEF Recorded, Enq
  <2> QED BY <1>4, <2>1, <2>2, <2>3 DEF Recorded
<1>11. \A x \in Packages : package[x] # "none" => package'[x] # "none"
  BY <1>4
<1> QED BY <1>5, <1>6, <1>8, <1>9, <1>10, <1>11

LEMMA PaqueteGoes ==
  ASSUME OneRunner, DownloadInv, OnwardInv, NEW r \in Runners, NEW k \in Packages,
         \/ PaqueteRead(r, k) \/ Descarga(r, k) \/ PaqueteCount(r, k) \/ PaqueteClose(r, k)
         \/ DeadPaqueteCount(r, k) \/ DeadPaqueteClose(r, k)
  PROVE  Goes' /\ Works(r)'
<1>1. CASE PaqueteRead(r, k)
  <2>1. Goes' /\ UNCHANGED <<at, package>>
    BY <1>1, QuietGoes
    DEF PaqueteRead, NoEnqueue, OnwardInv, jobVars, runnerVars, requestVars
  <2>2. at[r] = Paquete(k)
    BY <1>1 DEF PaqueteRead, InStep
  <2>3. CASE package[k] \in Done
    <3>1. \A x \in Packages : at'[r] = Paquete(x) => package'[x] \in Done
      BY <2>1, <2>2, <2>3, JobNames
    <3>2. local'[r] = [Step("count") EXCEPT !.what = "skip"]
      BY <1>1, <2>3, GoSets DEF PaqueteRead
    <3>3. local'[r].step = "count"
      BY <3>2 DEF Step
    <3> QED BY <2>1, <3>1, <3>3 DEF Works
  <2>4. CASE package[k] \notin Done
    <3>1. local'[r].step \in FreshSteps
      BY <1>1, <2>4, GoSets, StepFields DEF PaqueteRead, FreshSteps
    <3> QED BY <2>1, <3>1, FreshWorks
  <2> QED BY <2>3, <2>4
<1>2. CASE Descarga(r, k)
  <2>1. Goes'
    BY <1>2, QuietGoes DEF Descarga, NoEnqueue, OnwardInv
  <2>2. local'[r].step = "count" /\ local'[r].what # "skip"
    BY <1>2, GoSets, StepFields DEF Descarga
  <2> QED BY <2>1, <2>2 DEF Works
<1>3. CASE PaqueteCount(r, k)
  <2>1. at[r] = Paquete(k) /\ local[r].step = "count" /\ Works(r)
    BY <1>3 DEF PaqueteCount, InStep, OnwardInv
  <2>2. local[r].what = "skip" => package[k] \in Done
    BY <2>1 DEF Works
  <2>3. PICK s \in Done \union {"error"} : CountPackages(r, k, s)
    <3>1. CASE local[r].what = "skip"
      BY <1>3, <2>2, <3>1 DEF PaqueteCount
    <3>2. CASE local[r].what # "skip"
      BY <1>3, <3>2 DEF PaqueteCount, Done
    <3> QED BY <3>1, <3>2
  <2> QED BY <2>1, <2>3, CountGoes
<1>4. CASE DeadPaqueteCount(r, k)
  BY <1>4, CountGoes DEF DeadPaqueteCount
<1>5. CASE PaqueteClose(r, k)
  <2>1. InStep(r, Paquete(k), "close") /\ CloseRequest(r, k, "parseado") /\ UNCHANGED jobVars
    BY <1>5 DEF PaqueteClose, NoEnqueue
  <2>2. /\ at[r] = Paquete(k) /\ Enq(Paquete(k)) /\ local[r].step = "close" /\ Goes
        /\ DownloadTypeOK
    BY <2>1, InHandler
  <2>3. UNCHANGED <<status, at>> /\ UNCHANGED <<idSolicitud, files, lostHook>>
    BY <2>1 DEF jobVars, tableVars, runnerVars, CloseRequest
  <2>4. Goes' /\ Kept(k)'
    BY <2>1, <2>2, <2>3, ClosingGoes, WriteGoes
  <2>5. Returns(Paquete(k))'
    BY <2>4, JobNames DEF Returns
  <2>6. local'[r].step = "return" /\ at'[r] = Paquete(k)
    BY <1>5, <2>2, <2>3, GoSets, StepFields DEF PaqueteClose
  <2>7. Returns(at[r])'
    BY <2>5, <2>6 DEF Returns
  <2> QED BY <2>4, <2>6, <2>7 DEF Works
<1>6. CASE DeadPaqueteClose(r, k)
  <2>1. /\ at[r] = Paquete(k) /\ local[r].step = "close" /\ phase[r] = "hook"
        /\ CloseRequest(r, k, "error") /\ UNCHANGED <<status, idSolicitud, files, lostHook>>
    BY <1>6 DEF DeadPaqueteClose, Hook, CloseRequest, tableVars
  <2>2. Goes /\ Enq(Paquete(k)) /\ DownloadTypeOK
    <3>1. Enq(at[r])
      BY <2>1 DEF OnwardInv, Alone
    <3> QED BY <2>1, <3>1 DEF OnwardInv, DownloadInv, Enq
  <2>3. /\ estado \in Closed => estado' \in Closed
        /\ \A x \in Packages : /\ package[x] # "none" => package'[x] # "none"
                               /\ Kept(x) => Kept(x)'
        /\ Kept(k)' /\ LastCloses' /\ DownloadedWaitsForNone' /\ Recorded'
    BY <2>1, <2>2, ClosingGoes
  <2>4. Onward
    BY <2>1, <2>3 DEF Onward, Enq
  <2>5. ASSUME NEW j \in Jobs PROVE Ended(j)'
    <3>1. HookOf(j) => HookRan(j)'
      <4>1. HookOf(j) => j = Paquete(k)
        BY <2>1 DEF HookOf, OneRunner
      <4>2. HookRan(Paquete(k))'
        BY <2>3, JobNames DEF HookRan
      <4> QED BY <4>1, <4>2
    <3> QED BY <2>1, <2>2, <2>4, <3>1, EndedStands DEF Goes
  <2>6. local'[r].step \in FreshSteps
    BY <1>6, GoSets, StepFields DEF DeadPaqueteClose, NotIn, FreshSteps
  <2> QED BY <2>3, <2>5, <2>6, FreshWorks DEF Goes
<1> QED BY <1>1, <1>2, <1>3, <1>4, <1>5, <1>6

-----------------------------------------------------------------------------
(* The runner, and who asks for a download. *)

\* A step that leaves the request and its packages alone.
LEMMA RunnerGoes ==
  ASSUME Goes, DownloadTypeOK, UNCHANGED <<requestVars, files>>, lostHook => lostHook',
         \A j \in Jobs : (Enq(j) => Enq(j)') /\ (j # Solicitud /\ Enq(j)' => Enq(j)),
         \A j \in Jobs : /\ status'[j] \in Settled => status'[j] = status[j] \/ (Onward => Ended(j)')
                         /\ HookOf(j) => HookOf(j)' \/ lostHook'
  PROVE  Goes' /\ Onward
<1>1. UNCHANGED <<estado, idSolicitud, package, files>>
  BY DEF requestVars
<1>2. Onward
  BY <1>1 DEF Onward, Kept
<1>3. ASSUME NEW j \in Jobs PROVE Ended(j)'
  BY <1>2, EndedStands DEF Goes
<1>4. Recorded'
  <2>1. /\ \A p \in 0..PollCap : Enq(Verificacion(p))' => Enq(Verificacion(p))
        /\ \A k \in Packages : Enq(Paquete(k))' => Enq(Paquete(k))
    BY JobNames
  <2> QED BY <1>1, <2>1 DEF Goes, Recorded
<1>5. LastCloses' /\ DownloadedWaitsForNone'
  BY <1>1 DEF Goes, LastCloses, DownloadedWaitsForNone, Kept, Over
<1> QED BY <1>2, <1>3, <1>4, <1>5 DEF Goes

LEMMA UserGoes ==
  ASSUME DownloadInv, OnwardInv, Crear \/ CrearEnqueue \/ UNCHANGED vars
  PROVE  Goes' /\ \A r \in Runners : Works(r)'
<1>0. Goes /\ DownloadTypeOK /\ \A r \in Runners : Works(r)
  BY DEF OnwardInv, DownloadInv
<1>1. CASE Crear
  <2>1. /\ UNCHANGED <<jobVars, idSolicitud, package, files, lostHook>>
        /\ UNCHANGED <<status, at, local>> /\ estado = "none" /\ estado' = "nueva"
    BY <1>1 DEF Crear, jobVars, tableVars, runnerVars
  <2>2. estado \notin Closed /\ estado' \notin Closed
    BY <2>1 DEF Closed
  <2>3. Recorded'
    BY <1>0, <2>1, RecordedStands DEF Goes
  <2>4. LastCloses' /\ DownloadedWaitsForNone'
    BY <1>0, <2>1, <2>2 DEF Goes, LastCloses, DownloadedWaitsForNone, Over, Kept
  <2>5. Goes' /\ Onward
    BY <1>0, <2>1, <2>2, <2>3, <2>4, WriteGoes DEF Kept
  <2>6. ASSUME NEW r \in Runners PROVE Works(r)'
    BY <1>0, <2>1, <2>5, WorksAside
  <2> QED BY <2>5, <2>6
<1>2. CASE CrearEnqueue
  <2>1. /\ UNCHANGED <<requestVars, files, lostHook, local, at, phase>>
        /\ status' = Enqueued({Solicitud}) /\ UNCHANGED <<estado, idSolicitud, package>>
    BY <1>2 DEF CrearEnqueue, Enqueue, downloadVars, runnerVars, requestVars
  <2>2. \A j \in Jobs : /\ status'[j] = status[j] \/ status'[j] = "pending"
                        /\ Enq(j) => Enq(j)'
                        /\ j # Solicitud /\ Enq(j)' => Enq(j)
    BY <2>1 DEF Enqueued, Enq
  <2>3. \A j \in Jobs : /\ status'[j] \in Settled => status'[j] = status[j]
                        /\ HookOf(j) => HookOf(j)'
    BY <2>1, <2>2 DEF Settled, HookOf
  <2>4. Goes' /\ Onward
    BY <1>0, <2>1, <2>2, <2>3, RunnerGoes
  <2>5. ASSUME NEW r \in Runners PROVE Works(r)'
    BY <1>0, <2>1, <2>4, WorksAside
  <2> QED BY <2>4, <2>5
<1>3. CASE UNCHANGED vars
  <2>1. /\ UNCHANGED <<jobVars, requestVars, files, lostHook>>
        /\ UNCHANGED <<estado, idSolicitud, package, local, at, status>>
    BY <1>3 DEF vars, downloadVars, requestVars, jobVars, runnerVars, tableVars
  <2>2. Goes'
    BY <1>0, <2>1, QuietGoes
  <2>3. Onward
    BY <2>1 DEF Onward, Kept, Enq
  <2>4. ASSUME NEW r \in Runners PROVE Works(r)'
    BY <1>0, <2>1, <2>3, WorksAside
  <2> QED BY <2>2, <2>4
<1> QED BY <1>1, <1>2, <1>3

LEMMA TickGoes ==
  ASSUME OneRunner, DownloadInv, OnwardInv, NEW r \in Runners,
         \/ TakeJobs(r) \/ BeginJob(r) \/ EndJob(r) \/ FailJob(r)
         \/ DeadRequest(r) \/ HookFails(r) \/ CrashRunner(r)
  PROVE  Goes' /\ Works(r)'
<1>0. /\ Goes /\ Works(r) /\ DownloadTypeOK /\ Alone /\ JobInv
      /\ status \in [Jobs -> {"absent", "pending", "running"} \union Settled]
      /\ phase \in [Runners -> {"idle", "reaped", "batch", "handler", "hook"}]
  BY DEF OnwardInv, DownloadInv, JobInv, JobTypeOK
<1>1. phase[r] # "hook" => \A j \in Jobs : ~HookOf(j)
  BY DEF HookOf, OneRunner
<1>2. CASE TakeJobs(r)
  <2>1. PICK S \in SUBSET Jobs : Reap(r, S) \/ Claim(r, S)
    BY <1>2 DEF TakeJobs
  <2>2. /\ UNCHANGED <<requestVars, files, lostHook, local>> /\ at' = at
        /\ UNCHANGED <<estado, idSolicitud, package>>
    BY <1>2, <2>1 DEF TakeJobs, downloadVars, requestVars, Reap, Claim
  <2>3. phase[r] # "hook"
    BY <2>1 DEF Reap, Claim
  <2>4. \A j \in Jobs : \/ status'[j] = status[j]
                        \/ status'[j] \in {"pending", "running"} /\ status[j] # "absent"
    BY <2>1 DEF Reap, Claim, With
  <2>5. \A j \in Jobs : /\ Enq(j)' <=> Enq(j)
                        /\ status'[j] \in Settled => status'[j] = status[j]
    BY <2>4 DEF Enq, Settled
  <2>6. Goes' /\ Onward
    BY <1>0, <1>1, <2>2, <2>3, <2>5, RunnerGoes
  <2> QED BY <1>0, <2>2, <2>6, WorksAside
<1>3. CASE BeginJob(r)
  <2>1. /\ UNCHANGED <<requestVars, files, lostHook, status>> /\ phase[r] # "hook"
    BY <1>3 DEF BeginJob, Keep, Start, tableVars
  <2>2. \A j \in Jobs : Enq(j)' <=> Enq(j)
    BY <2>1 DEF Enq
  <2>3. Goes'
    BY <1>0, <1>1, <2>1, <2>2, RunnerGoes
  <2>4. local'[r].step \in FreshSteps
    BY <1>3, GoSets, StepFields DEF BeginJob, FreshSteps
  <2> QED BY <2>3, <2>4, FreshWorks
<1>4. CASE EndJob(r)
  <2>1. /\ UNCHANGED <<requestVars, files, lostHook>> /\ phase[r] = "handler"
        /\ status' = [status EXCEPT ![at[r]] = "done"] /\ local[r].step = "return"
    BY <1>4 DEF EndJob, Keep, Complete, Settle
  <2>2. PICK x \in Jobs : at[r] = x /\ Enq(x)
    BY <1>0, <2>1 DEF Alone
  <2>3. Returns(x)
    BY <1>0, <2>1, <2>2 DEF Works
  <2>4. status'[x] = "done" /\ \A j \in Jobs : j # x => status'[j] = status[j]
    BY <1>0, <2>1, <2>2
  <2>5. \A j \in Jobs : Enq(j)' <=> Enq(j)
    BY <2>2, <2>4 DEF Enq
  <2>6. Onward => Ended(x)'
    BY <1>0, <2>3, <2>4, ReturnsStand DEF Ended
  <2>7. Goes'
    BY <1>0, <1>1, <2>1, <2>4, <2>5, <2>6, RunnerGoes
  <2>8. local'[r].step \in FreshSteps
    BY <1>4, GoSets, StepFields DEF EndJob, NotIn, FreshSteps
  <2> QED BY <2>7, <2>8, FreshWorks
<1>5. CASE FailJob(r)
  <2>1. PICK permanent \in BOOLEAN : Fail(r, permanent)
    BY <1>5, FailsSomehow
  <2> DEFINE dead == permanent \/ Exhausted(r)
  <2>2. /\ UNCHANGED <<requestVars, files, lostHook>> /\ phase[r] = "handler"
        /\ status' = [status EXCEPT ![at[r]] = IF dead THEN "dead" ELSE "pending"]
        /\ dead => (at' = at /\ phase'[r] = "hook")
    <3>1. UNCHANGED <<requestVars, files, lostHook>>
      BY <1>5 DEF FailJob, Keep
    <3> QED BY <1>0, <2>1, <3>1 DEF Fail, Settle
  <2> HIDE DEF dead
  <2>3. PICK x \in Jobs : at[r] = x /\ Enq(x)
    BY <1>0, <2>2 DEF Alone
  <2>4. /\ status'[x] = IF dead THEN "dead" ELSE "pending"
        /\ \A j \in Jobs : j # x => status'[j] = status[j]
    BY <1>0, <2>2, <2>3
  <2>5. \A j \in Jobs : Enq(j)' <=> Enq(j)
    BY <2>3, <2>4 DEF Enq
  <2>6. Ended(x)'
    <3>1. CASE dead
      <4>1. HookOf(x)'
        BY <2>2, <2>3, <3>1 DEF HookOf
      <4> QED BY <2>4, <3>1, <4>1 DEF Ended
    <3>2. CASE ~dead
      BY <2>4, <3>2 DEF Ended
    <3> QED BY <3>1, <3>2
  <2>7. Goes'
    BY <1>0, <1>1, <2>2, <2>4, <2>5, <2>6, RunnerGoes
  <2>8. local'[r].step \in FreshSteps
    BY <1>5, GoSets, StepFields DEF FailJob, NotIn, FreshSteps
  <2> QED BY <2>7, <2>8, FreshWorks
<1>6. CASE DeadRequest(r)
  <2>1. /\ UNCHANGED <<status, idSolicitud, package, files, lostHook>>
        /\ phase[r] = "hook" /\ estado' = IF estado = "descargada" THEN estado ELSE "error"
        /\ \E p \in 0..PollCap : at[r] \in {Solicitud, Verificacion(p)}
    BY <1>6 DEF DeadRequest, Hook, tableVars
  <2>2. estado' \in Closed
    BY <2>1 DEF Closed
  <2>3. Onward
    BY <2>1, <2>2 DEF Onward, Kept, Enq
  <2>4. ASSUME NEW j \in Jobs PROVE Ended(j)'
    <3>1. HookOf(j) => \A k \in Packages : j # Paquete(k)
      BY <2>1, JobNames DEF HookOf, OneRunner
    <3>2. HookOf(j) => HookRan(j)'
      BY <2>2, <3>1 DEF HookRan
    <3> QED BY <1>0, <2>1, <2>3, <3>2, EndedStands DEF Goes
  <2>5. Recorded'
    BY <1>0, <2>1, RecordedStands DEF Goes
  <2>6. LastCloses' /\ DownloadedWaitsForNone'
    BY <1>0, <2>1, <2>2 DEF Goes, LastCloses, DownloadedWaitsForNone, Over
  <2>7. local'[r].step \in FreshSteps
    BY <1>6, GoSets, StepFields DEF DeadRequest, NotIn, FreshSteps
  <2> QED BY <2>4, <2>5, <2>6, <2>7, FreshWorks DEF Goes
<1>7. CASE HookFails(r) \/ CrashRunner(r)
  <2>1. /\ UNCHANGED <<requestVars, files>> /\ status' = status
        /\ lostHook => lostHook'
        /\ phase[r] = "hook" => lostHook'
    BY <1>7 DEF HookFails, CrashRunner, Hook, Crash, tableVars
  <2>2. \A j \in Jobs : Enq(j)' <=> Enq(j)
    BY <2>1 DEF Enq
  <2>3. Goes'
    BY <1>0, <1>1, <2>1, <2>2, RunnerGoes
  <2>4. local'[r].step \in FreshSteps
    BY <1>7, GoSets, StepFields DEF HookFails, CrashRunner, NotIn, FreshSteps
  <2> QED BY <2>3, <2>4, FreshWorks
<1> QED BY <1>2, <1>3, <1>4, <1>5, <1>6, <1>7

-----------------------------------------------------------------------------
(* The invariant, and what it says. *)

LEMMA OnwardInit == DownloadInit => OnwardInv
<1> SUFFICES ASSUME DownloadInit PROVE OnwardInv
  OBVIOUS
<1>1. /\ \A j \in Jobs : status[j] = "absent"
      /\ overruns = 0 /\ \A r \in Runners : phase[r] = "idle"
  BY DEF DownloadInit, JobInit
<1>2. estado = "none" /\ files \subseteq Packages /\ \A k \in Packages : package[k] = "none"
  BY DEF DownloadInit
<1>3. Alone
  BY <1>1 DEF Alone
<1>4. Recorded
  BY <1>1, <1>2, JobNames DEF Recorded, Enq
<1>5. LastCloses /\ DownloadedWaitsForNone
  BY <1>2 DEF LastCloses, DownloadedWaitsForNone, Kept, Done
<1>6. \A j \in Jobs : Ended(j)
  BY <1>1 DEF Ended
<1>7. \A r \in Runners : Works(r)
  <2>1. \A r \in Runners : local[r].step = "none"
    BY StepFields DEF DownloadInit, NotIn
  <2> QED BY <2>1 DEF Works
<1> QED BY <1>3, <1>4, <1>5, <1>6, <1>7 DEF OnwardInv, Goes

LEMMA OnwardNext ==
  ASSUME OneRunner, DownloadInv, OnwardInv, [Next]_vars PROVE OnwardInv'
<1>1. Alone'
  BY StepIsQueue, AloneKeeps DEF DownloadInv, DownloadTypeOK, OnwardInv
<1>2. Goes' /\ \A r \in Runners : Works(r)'
  <2>1. CASE Crear \/ CrearEnqueue \/ UNCHANGED vars
    BY <2>1, UserGoes
  <2>2. CASE \E r \in Runners : RunnerStep(r) \/ CrashRunner(r)
    <3>1. PICK r \in Runners : RunnerStep(r) \/ CrashRunner(r)
      BY <2>2
    <3>2. Goes' /\ Works(r)'
      <4>1. CASE HandlerStep(r)
        BY <4>1, SolicitudGoes, VerificacionGoes, VerificaGoes, PackagesGo, PaqueteGoes, TickGoes
        DEF HandlerStep
      <4>2. CASE ~HandlerStep(r)
        BY <3>1, <4>2, TickGoes DEF RunnerStep
      <4> QED BY <4>1, <4>2
    <3>3. ASSUME NEW q \in Runners PROVE Works(q)'
      <4>1. q = r
        BY DEF OneRunner
      <4> QED BY <3>2, <4>1
    <3> QED BY <3>2, <3>3
  <2> QED BY <2>1, <2>2 DEF Next
<1> QED BY <1>1, <1>2 DEF OnwardInv

-----------------------------------------------------------------------------
(* What it says of an open request. *)

\* A verification that is done went on, and so on up to the last one: a request
\* with no job and no hook left is closed.
LEMMA OnwardSays == ASSUME DownloadInv, OnwardInv PROVE NeverStuck
<1> SUFFICES ASSUME estado \in Open, status[Solicitud] # "absent", ~lostHook, Unsettled = {},
                    \A r \in Runners : phase[r] # "hook"
             PROVE  FALSE
  BY DEF NeverStuck
<1>1. ~Over
  BY DEF Over, Open, Closed
<1>2. /\ Recorded /\ LastCloses /\ \A j \in Jobs : Ended(j)
      /\ status \in [Jobs -> {"absent", "pending", "running"} \union Settled]
  BY DEF OnwardInv, Goes, DownloadInv, JobInv, JobTypeOK
<1>3. ASSUME NEW j \in Jobs, Enq(j) PROVE Returns(j) \/ HookRan(j)
  <2>1. status[j] \in {"done", "dead"}
    BY <1>2, <1>3 DEF Unsettled, Enq, Settled
  <2> QED BY <1>2, <2>1 DEF Ended, HookOf
<1>4. estado \notin Closed
  BY <1>1 DEF Over
<1>5. Enq(Verificacion(0))
  <2>1. Solicitud \in Jobs /\ Enq(Solicitud) /\ \A k \in Packages : Solicitud # Paquete(k)
    BY JobNames DEF Enq
  <2> QED BY <1>3, <1>4, <2>1 DEF Returns, HookRan
<1>6. ASSUME NEW p \in 0..PollCap, Enq(Verificacion(p)) PROVE GoesOn(p)
  <2>1. Verificacion(p) \in Jobs /\ \A k \in Packages : Verificacion(p) # Paquete(k)
    BY JobNames
  <2> QED BY <1>3, <1>4, <1>6, <2>1 DEF Returns, HookRan
<1>7. AllEnqueued
  <2> SUFFICES ASSUME ~AllEnqueued PROVE FALSE
    OBVIOUS
  <2> DEFINE T == {n \in Nat : n <= PollCap /\ Enq(Verificacion(n))}
  <2>1. PollCap \in Nat
    BY DownloadAssumption
  <2>2. 0 \in T
    BY <1>5, <2>1
  <2>3. ASSUME NEW n \in Nat, n \in T PROVE n + 1 \in T
    <3>1. n \in 0..PollCap /\ Enq(Verificacion(n))
      BY <2>1, <2>3
    <3>2. n < PollCap /\ Enq(Verificacion(n + 1))
      BY <1>1, <1>6, <3>1 DEF GoesOn
    <3> QED BY <2>1, <3>2
  <2>4. Nat \subseteq T
    <3> HIDE DEF T
    <3> QED BY <2>2, <2>3, NatSetInduction
  <2>5. PollCap + 1 \in T
    BY <2>1, <2>4
  <2> QED BY <2>1, <2>5
<1>8. ASSUME NEW k \in files PROVE Kept(k)
  <2>1. k \in Packages /\ Paquete(k) \in Jobs /\ Enq(Paquete(k))
    BY <1>7, JobNames DEF AllEnqueued, DownloadInv, DownloadTypeOK
  <2> QED BY <1>3, <2>1 DEF Returns, HookRan
<1> QED BY <1>1, <1>2, <1>7, <1>8 DEF AllEnqueued, LastCloses

\* With one process, where a handler is and what it has done always agree with
\* the request, its packages and its jobs: processDownloadJob and the hooks
\* leave nothing half done that the next attempt does not find.
THEOREM OnwardInvariant == ASSUME OneRunner PROVE Spec => []OnwardInv
<1>1. DownloadInit => OnwardInv
  BY OnwardInit
<1>2. DownloadInv /\ OnwardInv /\ [Next]_vars => OnwardInv'
  BY OnwardNext
<1> QED BY <1>1, <1>2, DownloadInvariant, PTL DEF Spec

\* With one process an open request whose first job is enqueued always has a
\* job or a hook that will go on with it, whatever the SAT answers, whatever
\* fails and however often the process dies, unless a hook was lost.
THEOREM NeverLeftOpen == ASSUME OneRunner PROVE Spec => []NeverStuck
<1>1. DownloadInv /\ OnwardInv => NeverStuck
  BY OnwardSays
<1> QED BY <1>1, DownloadInvariant, OnwardInvariant, PTL

\* With one process reconcileRequest never closes a request as downloaded
\* before the last of the packages it recorded is settled.
THEOREM DownloadedIsSettled == ASSUME OneRunner PROVE Spec => []DownloadedWaitsForNone
<1>1. OnwardInv => DownloadedWaitsForNone
  BY DEF OnwardInv, Goes
<1> QED BY <1>1, OnwardInvariant, PTL
=============================================================================
