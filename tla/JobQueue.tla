------------------------------- MODULE JobQueue -------------------------------
(***************************************************************************)
(* JobQueueService and JobRunnerService: the table fiscal.jobs and the     *)
(* processes that work through it.                                         *)
(*                                                                         *)
(* A tick is a chain of transactions of one process: put the jobs with an  *)
(* old lock back, claim a batch, and for each job of the batch run its     *)
(* handler and write how it went, by the id of the job and with the number *)
(* of attempts of the copy that was claimed.  Whatever happens to a job in *)
(* between, the copy does not know of it.                                  *)
(*                                                                         *)
(* Time is not modelled.  The lock of a job whose process is alive may     *)
(* grow old as well: a batch has 20 jobs of up to 90 seconds each, and the *)
(* lock of all of them dates from the claim and is old after 10 minutes.   *)
(***************************************************************************)
EXTENDS Integers, FiniteSets

CONSTANTS
  Jobs,         \* the jobs, one per dedup_key
  Runners,      \* processes that run the cron
  MaxAttempts,  \* jobs.max_attempts
  Batch,        \* BATCH
  MaxCrashes,   \* bound: processes that die, or batches given up halfway
  MaxOverruns   \* bound: locks that grow old while their process works

NoJob == <<"no job">>

ASSUME JobAssumption ==
  /\ NoJob \notin Jobs
  /\ IsFiniteSet(Jobs) /\ IsFiniteSet(Runners)
  /\ MaxAttempts \in Nat \ {0}
  /\ Batch \in Nat \ {0}
  /\ MaxCrashes \in Nat /\ MaxOverruns \in Nat

VARIABLES
  status,    \* jobs.status, "absent" before the job is enqueued
  attempts,  \* jobs.attempts
  claimed,   \* claimed[r][j]: attempts of the copy of j that r has still to
             \* settle, 0 when it has none
  at,        \* the job whose handler or hook a runner is in
  phase,     \* where a runner is in its tick
  crashes,   \* history: crashes so far
  overruns,  \* history: locks taken from a runner that was alive
  failed,    \* history: failures written for a job, the permanent ones apart
  refused    \* history: jobs that failed permanently

tableVars == <<status, attempts>>
runnerVars == <<claimed, at, phase>>
faultVars == <<crashes, overruns>>
historyVars == <<failed, refused>>
jobVars == <<tableVars, runnerVars, faultVars, historyVars>>

Settled == {"done", "dead"}

JobTypeOK ==
  /\ status \in [Jobs -> {"absent", "pending", "running"} \union Settled]
  /\ attempts \in [Jobs -> Nat]
  /\ claimed \in [Runners -> [Jobs -> Nat]]
  /\ at \in [Runners -> Jobs \union {NoJob}]
  /\ phase \in [Runners -> {"idle", "reaped", "batch", "handler", "hook"}]
  /\ crashes \in 0..MaxCrashes /\ overruns \in 0..MaxOverruns
  /\ failed \in [Jobs -> Nat] /\ refused \subseteq Jobs

JobInit ==
  /\ status = [j \in Jobs |-> "absent"]
  /\ attempts = [j \in Jobs |-> 0]
  /\ claimed = [r \in Runners |-> [j \in Jobs |-> 0]]
  /\ at = [r \in Runners |-> NoJob]
  /\ phase = [r \in Runners |-> "idle"]
  /\ crashes = 0 /\ overruns = 0
  /\ failed = [j \in Jobs |-> 0] /\ refused = {}

With(s) == {j \in Jobs : status[j] = s}
Holds(r, j) == claimed[r][j] # 0

\* Runners that have a copy of a job, and those the lock is of.
Holders(j) == {r \in Runners : Holds(r, j)}
Owned(j) == \E r \in Holders(j) : claimed[r][j] = attempts[j]

-----------------------------------------------------------------------------
(* The table. *)

\* The table with some jobs enqueued: one with the same dedup_key stays.
Enqueued(S) == [j \in Jobs |-> IF j \in S /\ status[j] = "absent" THEN "pending" ELSE status[j]]

Enqueue(j) ==
  /\ status[j] = "absent"
  /\ status' = Enqueued({j})
  /\ UNCHANGED <<attempts, runnerVars, faultVars, historyVars>>

-----------------------------------------------------------------------------
(* A tick of a runner. *)

\* Mistake: a job on its last attempt is left alone.
ReapRetryable(r, S) ==
  /\ phase[r] = "idle"
  /\ S \subseteq {j \in With("running") : attempts[j] < MaxAttempts}
  /\ overruns' = overruns + Cardinality({j \in S : Owned(j)})
  /\ overruns' <= MaxOverruns
  /\ status' = [j \in Jobs |-> IF j \in S THEN "pending" ELSE status[j]]
  /\ phase' = [phase EXCEPT ![r] = "reaped"]
  /\ UNCHANGED <<attempts, claimed, at, crashes, historyVars>>

\* Mistake: the age of a lock is looked at, and not the status of its job.
ReapByAge(r, S) ==
  /\ phase[r] = "idle"
  /\ S \subseteq {j \in Jobs : attempts[j] > 0}
  /\ overruns' = overruns + Cardinality({j \in S : Owned(j)})
  /\ overruns' <= MaxOverruns
  /\ status' = [j \in Jobs |-> IF j \in S THEN "pending" ELSE status[j]]
  /\ phase' = [phase EXCEPT ![r] = "reaped"]
  /\ UNCHANGED <<attempts, claimed, at, crashes, historyVars>>

\* Every running job with an old lock becomes pending; nobody looks at how
\* often it was tried.
Reap(r, S) ==
  /\ phase[r] = "idle"
  /\ S \subseteq With("running")
  /\ overruns' = overruns + Cardinality({j \in S : Owned(j)})
  /\ overruns' <= MaxOverruns
  /\ status' = [j \in Jobs |-> IF j \in S THEN "pending" ELSE status[j]]
  /\ phase' = [phase EXCEPT ![r] = "reaped"]
  /\ UNCHANGED <<attempts, claimed, at, crashes, historyVars>>

\* Mistake: a claimed job is still there for others to claim.
ClaimShared(r, S) ==
  /\ phase[r] = "reaped"
  /\ S \subseteq With("pending") /\ Cardinality(S) <= Batch
  /\ attempts' = [j \in Jobs |-> IF j \in S THEN attempts[j] + 1 ELSE attempts[j]]
  /\ claimed' = [claimed EXCEPT ![r] = [j \in Jobs |-> IF j \in S THEN attempts[j] + 1 ELSE 0]]
  /\ phase' = [phase EXCEPT ![r] = IF S = {} THEN "idle" ELSE "batch"]
  /\ UNCHANGED <<status, at, faultVars, historyVars>>

Claim(r, S) ==
  /\ phase[r] = "reaped"
  /\ S \subseteq With("pending") /\ Cardinality(S) <= Batch
  /\ status' = [j \in Jobs |-> IF j \in S THEN "running" ELSE status[j]]
  /\ attempts' = [j \in Jobs |-> IF j \in S THEN attempts[j] + 1 ELSE attempts[j]]
  /\ claimed' = [claimed EXCEPT ![r] = [j \in Jobs |-> IF j \in S THEN attempts[j] + 1 ELSE 0]]
  /\ phase' = [phase EXCEPT ![r] = IF S = {} THEN "idle" ELSE "batch"]
  /\ UNCHANGED <<at, faultVars, historyVars>>

Start(r, j) ==
  /\ phase[r] = "batch" /\ Holds(r, j)
  /\ at' = [at EXCEPT ![r] = j]
  /\ phase' = [phase EXCEPT ![r] = "handler"]
  /\ UNCHANGED <<tableVars, claimed, faultVars, historyVars>>

\* The runner goes on with the next job of its batch, or ends its tick.
Leave(r) ==
  /\ at' = [at EXCEPT ![r] = NoJob]
  /\ phase' = [phase EXCEPT ![r] = IF \E j \in Jobs \ {at[r]} : Holds(r, j) THEN "batch" ELSE "idle"]

Settle(r, s) ==
  /\ status' = [status EXCEPT ![at[r]] = s]
  /\ claimed' = [claimed EXCEPT ![r][at[r]] = 0]

\* The handler returned.
Complete(r) ==
  /\ phase[r] = "handler"
  /\ Settle(r, "done") /\ Leave(r)
  /\ UNCHANGED <<attempts, faultVars, historyVars>>

\* Mistakes: one attempt too many, and one too few.
ExhaustedLate(r) == claimed[r][at[r]] > MaxAttempts
ExhaustedEarly(r) == claimed[r][at[r]] + 1 >= MaxAttempts

Exhausted(r) == claimed[r][at[r]] >= MaxAttempts

\* The handler threw, or its result could not be written.
Fail(r, permanent) ==
  LET dead == permanent \/ Exhausted(r) IN
    /\ phase[r] = "handler"
    /\ Settle(r, IF dead THEN "dead" ELSE "pending")
    /\ IF dead THEN phase' = [phase EXCEPT ![r] = "hook"] /\ UNCHANGED at
               ELSE Leave(r)
    /\ failed' = IF permanent THEN failed ELSE [failed EXCEPT ![at[r]] = @ + 1]
    /\ refused' = IF permanent THEN refused \union {at[r]} ELSE refused
    /\ UNCHANGED <<attempts, faultVars>>

\* The onDead hook of the job ran, or failed, which is ignored.
Hook(r) ==
  /\ phase[r] = "hook" /\ Leave(r)
  /\ UNCHANGED <<tableVars, claimed, faultVars, historyVars>>

\* The process dies and starts again, or a write of its loop fails and the
\* rest of the batch is given up.
Crash(r) ==
  /\ phase[r] # "idle" /\ crashes < MaxCrashes
  /\ claimed' = [claimed EXCEPT ![r] = [j \in Jobs |-> 0]]
  /\ at' = [at EXCEPT ![r] = NoJob]
  /\ phase' = [phase EXCEPT ![r] = "idle"]
  /\ crashes' = crashes + 1
  /\ UNCHANGED <<tableVars, overruns, historyVars>>

Tick(r) ==
  \/ \E S \in SUBSET Jobs : Reap(r, S) \/ Claim(r, S)
  \/ \E j \in Jobs : Start(r, j)
  \/ Complete(r)
  \/ \E permanent \in BOOLEAN : Fail(r, permanent)
  \/ Hook(r)

JobNext ==
  \/ \E j \in Jobs : Enqueue(j)
  \/ \E r \in Runners : Tick(r) \/ Crash(r)

\* Locks of runners that are gone, and of some others that are as old.
ReapOrphans(r) == \E S \in SUBSET Jobs : (\E j \in S : ~Owned(j)) /\ Reap(r, S)
ClaimSome(r) == \E S \in SUBSET Jobs \ {{}} : Claim(r, S)

\* The cron ticks for ever and handlers end; while a lock is held by nobody some
\* tick finds it old, and while a job is pending some tick finds one due.
JobFairness ==
  /\ \A r \in Runners : WF_jobVars(Tick(r))
  /\ SF_jobVars(\E r \in Runners : ReapOrphans(r))
  /\ SF_jobVars(\E r \in Runners : ClaimSome(r))

JobSpec == JobInit /\ [][JobNext]_jobVars /\ JobFairness

-----------------------------------------------------------------------------
(* Properties. *)

\* A job is tried max_attempts times, and once more for every crash and every
\* lock that grew old: late writes of runners that lost their lock buy nothing.
AttemptsWithinFaults == \A j \in Jobs : attempts[j] <= MaxAttempts + crashes + overruns

\* As long as no lock is taken from a runner that is alive, one runner at
\* most works on a job, and each overrun adds one at most; crashes add none.
HandsWithinOverruns == \A j \in Jobs : Cardinality(Holders(j)) <= 1 + overruns

\* A job goes to the dead letters because its handler refused it, or because
\* every attempt it was charged for was a failure of its own or a fault.
DeadIsEarned ==
  \A j \in With("dead") : j \in refused \/ failed[j] + crashes + overruns >= MaxAttempts

\* Without an overrun what is done or dead stays so: no late write revives it.
SettledIsFinal ==
  [][overruns' = 0 => \A j \in Jobs : status[j] \in Settled => status'[j] = status[j]]_jobVars

\* Whatever crashes and overruns there were, every job is done or dead in the
\* end and stays so.
EveryJobSettles == \A j \in Jobs : status[j] = "pending" ~> [](status[j] \in Settled)
=============================================================================
