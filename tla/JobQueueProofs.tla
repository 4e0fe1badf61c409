----------------------------- MODULE JobQueueProofs -----------------------------
(***************************************************************************)
(* The safety of the queue for any jobs, processes, attempts and faults.   *)
(***************************************************************************)
EXTENDS JobQueue, FiniteSetTheorems, TLAPS

\* Runners that have a copy of a job with attempts left: when such a copy
\* fails the job becomes pending again.
Young(j) == {r \in Runners : claimed[r][j] \in 1..(MaxAttempts - 1)}

\* A job that waits for a claim, or for the reaper because its runner is gone.
Waits(j) ==
  IF status[j] = "pending" \/ (status[j] = "running" /\ ~Owned(j)) THEN 1 ELSE 0

\* A job whose lock is in nobody's hands.
Loose(j) == IF status[j] = "running" /\ Owned(j) THEN 0 ELSE 1

\* Copies that were made already of those that may fail and be tried again.
Retries(j) == IF attempts[j] < MaxAttempts THEN attempts[j] ELSE MaxAttempts - 1

\* The account of a job: what it was charged for, is waiting to be charged for
\* and may still be charged for, against what it was granted.
Charged(j) ==
  attempts[j] + Waits(j) + Cardinality(Young(j)) <= 1 + Retries(j) + crashes + overruns

\* Hands on a job, and the one that may take it next.
Handed(j) == Cardinality(Holders(j)) + Loose(j) <= 1 + overruns

\* Every attempt but one followed a failure or a fault.
Explained(j) == attempts[j] + Waits(j) <= 1 + failed[j] + crashes + overruns

\* Where a runner is says what it has in its hands.
InTick(r) ==
  /\ phase[r] \in {"idle", "reaped"} => \A j \in Jobs : claimed[r][j] = 0
  /\ phase[r] = "handler" => at[r] \in Jobs /\ claimed[r][at[r]] # 0
  /\ phase[r] = "hook" => at[r] \in Jobs /\ claimed[r][at[r]] = 0
  /\ \A j \in Jobs : claimed[r][j] <= attempts[j]

Accounted(j) ==
  /\ status[j] = "absent" => attempts[j] = 0
  /\ Charged(j) /\ Handed(j) /\ Explained(j)

JobInv ==
  /\ JobTypeOK
  /\ \A r \in Runners : InTick(r)
  /\ \A j \in Jobs : Accounted(j)
  /\ DeadIsEarned

-----------------------------------------------------------------------------
(* Lemmas. *)

\* The sets that are counted are finite, before and after a step.
LEMMA HandsFinite ==
  ASSUME NEW j \in Jobs
  PROVE  /\ IsFiniteSet(Holders(j)) /\ Cardinality(Holders(j)) \in Nat
         /\ IsFiniteSet(Young(j)) /\ Cardinality(Young(j)) \in Nat
         /\ IsFiniteSet(Holders(j)') /\ Cardinality(Holders(j)') \in Nat
         /\ IsFiniteSet(Young(j)') /\ Cardinality(Young(j)') \in Nat
<1>1. \A T \in SUBSET Runners : IsFiniteSet(T) /\ Cardinality(T) \in Nat
  BY JobAssumption, FS_Subset, FS_CardinalityType
<1>2. Holders(j) \in SUBSET Runners /\ Young(j) \in SUBSET Runners
  BY DEF Holders, Young
<1>3. Holders(j)' \in SUBSET Runners /\ Young(j)' \in SUBSET Runners
  BY DEF Holders, Young
<1> QED BY <1>1, <1>2, <1>3

\* A set of runners that loses at most r and gains nobody.
LEMMA LosesOne ==
  ASSUME NEW X, NEW Y, NEW r, IsFiniteSet(X), Y = X \ {r}
  PROVE  /\ Cardinality(Y) <= Cardinality(X)
         /\ r \in X => Cardinality(Y) = Cardinality(X) - 1
         /\ Cardinality(X) \in Nat /\ Cardinality(Y) \in Nat
<1>1. IsFiniteSet(Y) /\ Cardinality(X) \in Nat /\ Cardinality(Y) \in Nat
  BY FS_Subset, FS_CardinalityType
<1>2. Cardinality(Y) <= Cardinality(X)
  BY FS_Subset
<1>3. CASE r \in X
  BY <1>1, <1>2, <1>3, FS_RemoveElement
<1>4. CASE r \notin X
  BY <1>1, <1>2, <1>4
<1> QED BY <1>1, <1>2, <1>3, <1>4

\* A set of runners that gains at most r.
LEMMA GainsOne ==
  ASSUME NEW X, NEW Y, NEW r, IsFiniteSet(X), Y \subseteq X \union {r}
  PROVE  /\ Cardinality(Y) <= Cardinality(X) + 1
         /\ Cardinality(X) \in Nat /\ Cardinality(Y) \in Nat
<1>1. IsFiniteSet(X \union {r}) /\ Cardinality(X) \in Nat
      /\ Cardinality(X \union {r}) \in Nat
      /\ Cardinality(X \union {r}) <= Cardinality(X) + 1
  BY FS_AddElement, FS_CardinalityType
<1>2. IsFiniteSet(Y) /\ Cardinality(Y) <= Cardinality(X \union {r}) /\ Cardinality(Y) \in Nat
  BY <1>1, FS_Subset, FS_CardinalityType
<1> QED BY <1>1, <1>2

\* A claim, a reaping or a failure that leaves nobody's copy of a job alone
\* changes nothing of its account.
LEMMA Untouched ==
  ASSUME JobTypeOK, JobTypeOK', NEW j \in Jobs, Accounted(j),
         status'[j] = status[j], attempts'[j] = attempts[j],
         \A r \in Runners : claimed'[r][j] = claimed[r][j],
         failed'[j] >= failed[j], crashes' >= crashes, overruns' >= overruns
  PROVE  Accounted(j)'
<1>1. Holders(j)' = Holders(j) /\ Young(j)' = Young(j) /\ Owned(j)' = Owned(j)
  BY DEF Holders, Holds, Young, Owned
<1>2. Waits(j)' = Waits(j) /\ Loose(j)' = Loose(j) /\ Retries(j)' = Retries(j)
  BY <1>1 DEF Waits, Loose, Retries
<1>3. /\ Waits(j) \in 0..1 /\ Loose(j) \in 0..1 /\ Retries(j) \in Int
      /\ attempts[j] \in Nat /\ failed[j] \in Nat /\ failed'[j] \in Nat
      /\ crashes \in Nat /\ crashes' \in Nat /\ overruns \in Nat /\ overruns' \in Nat
  BY JobAssumption DEF Waits, Loose, Retries, JobTypeOK
<1>4. Cardinality(Holders(j)) \in Nat /\ Cardinality(Young(j)) \in Nat
  BY HandsFinite
<1> QED BY <1>1, <1>2, <1>3, <1>4 DEF Accounted, Charged, Handed, Explained

\* What is dead stays earned, whatever is counted on.
LEMMA StillEarned ==
  ASSUME JobTypeOK, JobTypeOK', DeadIsEarned,
         \A j \in Jobs : status'[j] = "dead" =>
           \/ status[j] = "dead"
           \/ j \in refused' \/ failed'[j] + crashes' + overruns' >= MaxAttempts,
         refused \subseteq refused', \A j \in Jobs : failed'[j] >= failed[j],
         crashes' >= crashes, overruns' >= overruns
  PROVE  DeadIsEarned'
<1> SUFFICES ASSUME NEW j \in Jobs, status'[j] = "dead"
             PROVE  j \in refused' \/ failed'[j] + crashes' + overruns' >= MaxAttempts
  BY DEF DeadIsEarned, With
<1>1. /\ failed[j] \in Nat /\ failed'[j] \in Nat /\ MaxAttempts \in Nat
      /\ crashes \in Nat /\ crashes' \in Nat /\ overruns \in Nat /\ overruns' \in Nat
  BY JobAssumption DEF JobTypeOK
<1>2. CASE status[j] = "dead"
  <2>1. j \in refused \/ failed[j] + crashes + overruns >= MaxAttempts
    BY <1>2 DEF DeadIsEarned, With
  <2> QED BY <1>1, <2>1
<1> QED BY <1>2

-----------------------------------------------------------------------------
(* Types. *)

\* What the account of a job is made of are numbers.
LEMMA Figures ==
  ASSUME JobTypeOK, NEW j \in Jobs
  PROVE  /\ Waits(j) \in 0..1 /\ Loose(j) \in 0..1 /\ Retries(j) \in Nat
         /\ attempts[j] \in Nat /\ failed[j] \in Nat
         /\ crashes \in Nat /\ overruns \in Nat /\ MaxAttempts \in Nat \ {0}
  BY JobAssumption DEF Waits, Loose, Retries, JobTypeOK

LEMMA InvInit == JobInit => JobInv
<1> SUFFICES ASSUME JobInit PROVE JobInv
  OBVIOUS
<1>1. JobTypeOK
  BY JobAssumption DEF JobInit, JobTypeOK, Settled
<1>2. \A r \in Runners : InTick(r)
  BY DEF JobInit, InTick
<1>3. ASSUME NEW j \in Jobs PROVE Accounted(j)
  <2>1. Holders(j) = {} /\ Young(j) = {}
    BY DEF JobInit, Holders, Holds, Young
  <2>2. Cardinality(Holders(j)) = 0 /\ Cardinality(Young(j)) = 0
    BY <2>1, FS_EmptySet
  <2>3. Waits(j) = 0 /\ Loose(j) = 1 /\ Retries(j) = 0
    BY JobAssumption DEF JobInit, Waits, Loose, Retries
  <2> QED BY <2>2, <2>3 DEF JobInit, Accounted, Charged, Handed, Explained
<1>4. DeadIsEarned
  BY DEF JobInit, DeadIsEarned, With
<1> QED BY <1>1, <1>2, <1>3, <1>4 DEF JobInv

-----------------------------------------------------------------------------
(* The actions. *)

LEMMA EnqueueKeeps == ASSUME JobInv, NEW j \in Jobs, Enqueue(j) PROVE JobInv'
<1> USE DEF JobInv
<1>1. JobTypeOK'
  BY DEF JobTypeOK, Enqueue, Enqueued, runnerVars, faultVars, historyVars, Settled
<1>2. \A q \in Runners : InTick(q)'
  BY DEF InTick, Enqueue, runnerVars
<1>3. ASSUME NEW k \in Jobs PROVE Accounted(k)'
  <2>0. /\ attempts' = attempts /\ claimed' = claimed /\ failed' = failed
        /\ crashes' = crashes /\ overruns' = overruns /\ Accounted(k)
    BY DEF Enqueue, runnerVars, faultVars, historyVars
  <2>1. CASE k # j
    <3>1. status'[k] = status[k]
      BY <2>1 DEF Enqueue, Enqueued
    <3> QED BY <1>1, <2>0, <3>1, Untouched, Figures
  <2>2. CASE k = j
    <3>1. attempts[k] = 0 /\ status[k] = "absent" /\ status'[k] = "pending"
      BY <2>2 DEF Enqueue, Enqueued, Accounted
    <3>2. Holders(k) = {} /\ Young(k) = {} /\ Holders(k)' = {} /\ Young(k)' = {}
      BY <2>0, <3>1 DEF Holders, Holds, Young, InTick, JobTypeOK
    <3>3. Cardinality({}) = 0
      BY FS_EmptySet
    <3>4. Waits(k)' = 1 /\ Loose(k)' = 1 /\ Retries(k)' = 0
      BY <2>0, <3>1, JobAssumption DEF Waits, Loose, Retries
    <3> QED BY <2>0, <3>1, <3>2, <3>3, <3>4, Figures
            DEF Accounted, Charged, Handed, Explained
  <2> QED BY <2>1, <2>2
<1>4. DeadIsEarned'
  <2>1. \A k \in Jobs : status'[k] = "dead" => status[k] = "dead"
    BY DEF Enqueue, Enqueued, JobTypeOK
  <2>2. refused' = refused /\ failed' = failed /\ crashes' = crashes /\ overruns' = overruns
    BY DEF Enqueue, faultVars, historyVars
  <2> QED BY <1>1, <2>1, <2>2, StillEarned DEF JobTypeOK
<1> QED BY <1>1, <1>2, <1>3, <1>4

LEMMA ReapKeeps ==
  ASSUME JobInv, NEW r \in Runners, NEW S \in SUBSET Jobs, Reap(r, S) PROVE JobInv'
<1> USE DEF JobInv
<1> DEFINE taken == {j \in S : Owned(j)}
<1>0. IsFiniteSet(taken) /\ Cardinality(taken) \in Nat /\ (Cardinality(taken) = 0 => taken = {})
  BY JobAssumption, FS_Subset, FS_CardinalityType, FS_EmptySet
<1>1. /\ attempts' = attempts /\ claimed' = claimed /\ at' = at /\ failed' = failed
      /\ refused' = refused /\ crashes' = crashes
      /\ overruns' = overruns + Cardinality(taken) /\ overruns' <= MaxOverruns
  BY DEF Reap, historyVars
<1>2. JobTypeOK'
  BY <1>0, <1>1, JobAssumption DEF JobTypeOK, Reap, Settled
<1>3. \A q \in Runners : InTick(q)'
  BY <1>1 DEF InTick, Reap, JobTypeOK
<1>4. ASSUME NEW k \in Jobs PROVE Accounted(k)'
  <2>0. Accounted(k) /\ overruns' >= overruns /\ overruns \in Nat /\ overruns' \in Nat
    BY <1>0, <1>1, Figures
  <2>1. CASE k \notin S
    <3>1. status'[k] = status[k]
      BY <2>1 DEF Reap
    <3> QED BY <1>1, <1>2, <2>0, <3>1, Untouched, Figures
  <2>2. CASE k \in S
    <3>1. status[k] = "running" /\ status'[k] = "pending"
      BY <2>2 DEF Reap, With
    <3>2. Holders(k)' = Holders(k) /\ Young(k)' = Young(k) /\ Retries(k)' = Retries(k)
      BY <1>1 DEF Holders, Holds, Young, Retries
    <3>3. Waits(k)' = 1 /\ Loose(k)' = 1
      BY <3>1 DEF Waits, Loose
    <3>4. CASE Owned(k)
      <4>1. overruns' >= overruns + 1
        BY <1>0, <1>1, <2>0, <2>2, <3>4
      <4>2. Waits(k) = 0 /\ Loose(k) = 0
        BY <3>1, <3>4 DEF Waits, Loose
      <4> QED BY <1>1, <2>0, <3>1, <3>2, <3>3, <4>1, <4>2, Figures, HandsFinite
              DEF Accounted, Charged, Handed, Explained
    <3>5. CASE ~Owned(k)
      <4>1. Waits(k) = 1 /\ Loose(k) = 1
        BY <3>1, <3>5 DEF Waits, Loose
      <4> QED BY <1>1, <2>0, <3>1, <3>2, <3>3, <4>1, Figures, HandsFinite
              DEF Accounted, Charged, Handed, Explained
    <3> QED BY <3>4, <3>5
  <2> QED BY <2>1, <2>2
<1>5. DeadIsEarned'
  <2>1. \A k \in Jobs : status'[k] = "dead" => status[k] = "dead"
    BY DEF Reap
  <2> QED BY <1>0, <1>1, <1>2, <2>1, StillEarned DEF JobTypeOK
<1> QED BY <1>2, <1>3, <1>4, <1>5

LEMMA ClaimKeeps ==
  ASSUME JobInv, NEW r \in Runners, NEW S \in SUBSET Jobs, Claim(r, S) PROVE JobInv'
<1> USE DEF JobInv
<1>1. /\ at' = at /\ failed' = failed /\ refused' = refused
      /\ crashes' = crashes /\ overruns' = overruns
      /\ phase[r] = "reaped" /\ \A k \in Jobs : claimed[r][k] = 0
  BY DEF Claim, faultVars, historyVars, InTick
<1>2. JobTypeOK'
  BY <1>1 DEF JobTypeOK, Claim, Settled
<1>3. /\ \A q \in Runners, k \in Jobs : q # r => claimed'[q][k] = claimed[q][k]
      /\ \A k \in Jobs : claimed'[r][k] = IF k \in S THEN attempts[k] + 1 ELSE 0
      /\ \A k \in Jobs : attempts'[k] = IF k \in S THEN attempts[k] + 1 ELSE attempts[k]
      /\ \A k \in Jobs : status'[k] = IF k \in S THEN "running" ELSE status[k]
      /\ \A k \in S : status[k] = "pending"
  BY DEF Claim, JobTypeOK, With
<1>4. ASSUME NEW q \in Runners PROVE InTick(q)'
  <2>1. CASE q = r
    <3>1. phase'[r] = IF S = {} THEN "idle" ELSE "batch"
      BY DEF Claim, JobTypeOK
    <3>2. \A k \in Jobs : claimed'[r][k] <= attempts'[k]
      BY <1>3 DEF JobTypeOK
    <3> QED BY <1>1, <1>3, <2>1, <3>1, <3>2 DEF InTick
  <2>2. CASE q # r
    <3>1. phase'[q] = phase[q]
      BY <2>2 DEF Claim, JobTypeOK
    <3>2. \A k \in Jobs : claimed'[q][k] <= attempts'[k]
      BY <1>3, <2>2 DEF InTick, JobTypeOK
    <3> QED BY <1>1, <1>3, <2>2, <3>1, <3>2 DEF InTick
  <2> QED BY <2>1, <2>2
<1>5. ASSUME NEW k \in Jobs PROVE Accounted(k)'
  <2>1. CASE k \notin S
    <3>1. \A q \in Runners : claimed'[q][k] = claimed[q][k]
      BY <1>1, <1>3, <2>1
    <3> QED BY <1>1, <1>2, <1>3, <2>1, <3>1, Untouched, Figures
  <2>2. CASE k \in S
    <3>1. /\ status[k] = "pending" /\ status'[k] = "running" /\ attempts[k] \in Nat
          /\ attempts'[k] = attempts[k] + 1 /\ claimed'[r][k] = attempts[k] + 1
      BY <1>3, <2>2, Figures
    <3>2. r \in Holders(k)' /\ Owned(k)'
      BY <3>1 DEF Holders, Holds, Owned
    <3>3. Waits(k) = 1 /\ Loose(k) = 1 /\ Waits(k)' = 0 /\ Loose(k)' = 0
      BY <3>1, <3>2 DEF Waits, Loose
    <3>4. Holders(k)' \subseteq Holders(k) \union {r} /\ Young(k)' \subseteq Young(k) \union {r}
      BY <1>3 DEF Holders, Holds, Young
    <3>5. /\ Cardinality(Holders(k)') <= Cardinality(Holders(k)) + 1
          /\ Cardinality(Young(k)') <= Cardinality(Young(k)) + 1
      BY <3>4, HandsFinite, GainsOne
    <3>6. CASE attempts[k] + 1 < MaxAttempts
      <4>1. Retries(k)' = Retries(k) + 1
        BY <3>1, <3>6, Figures DEF Retries
      <4> QED BY <1>1, <3>1, <3>3, <3>5, <4>1, Figures, HandsFinite
              DEF Accounted, Charged, Handed, Explained
    <3>7. CASE ~(attempts[k] + 1 < MaxAttempts)
      <4>1. Retries(k)' = MaxAttempts - 1 /\ Retries(k) = MaxAttempts - 1
        BY <3>1, <3>7, Figures DEF Retries
      <4>2. Young(k)' = Young(k)
        <5>1. r \notin Young(k)' /\ r \notin Young(k)
          BY <1>1, <3>1, <3>7, Figures DEF Young
        <5>2. \A q \in Runners : q # r => (q \in Young(k)' <=> q \in Young(k))
          BY <1>3 DEF Young
        <5> QED BY <5>1, <5>2 DEF Young
      <4> QED BY <1>1, <3>1, <3>3, <3>5, <4>1, <4>2, Figures, HandsFinite
              DEF Accounted, Charged, Handed, Explained
    <3> QED BY <3>6, <3>7
  <2> QED BY <2>1, <2>2
<1>6. DeadIsEarned'
  <2>1. \A k \in Jobs : status'[k] = "dead" => status[k] = "dead"
    BY <1>3
  <2> QED BY <1>1, <1>2, <2>1, StillEarned DEF JobTypeOK
<1> QED BY <1>2, <1>4, <1>5, <1>6

LEMMA StartKeeps == ASSUME JobInv, NEW r \in Runners, NEW j \in Jobs, Start(r, j) PROVE JobInv'
<1> USE DEF JobInv
<1>1. /\ status' = status /\ attempts' = attempts /\ claimed' = claimed /\ failed' = failed
      /\ refused' = refused /\ crashes' = crashes /\ overruns' = overruns
  BY DEF Start, tableVars, faultVars, historyVars
<1>2. JobTypeOK'
  BY <1>1 DEF JobTypeOK, Start
<1>3. \A q \in Runners : InTick(q)'
  BY <1>1 DEF InTick, Start, Holds, JobTypeOK
<1>4. ASSUME NEW k \in Jobs PROVE Accounted(k)'
  BY <1>1, <1>2, Untouched DEF JobTypeOK
<1>5. DeadIsEarned'
  BY <1>1 DEF DeadIsEarned, With
<1> QED BY <1>2, <1>3, <1>4, <1>5

\* What Complete and Fail have in common: r writes status s for its job, and
\* the job is settled or pending, the latter only if its copy had attempts left.
LEMMA SettleKeeps ==
  ASSUME JobInv, JobTypeOK', NEW r \in Runners, NEW s \in {"done", "dead", "pending"},
         NEW j \in Jobs, j = at[r],
         phase[r] = "handler", Settle(r, s),
         s = "pending" => claimed[r][j] < MaxAttempts,
         s = "pending" => failed'[j] = failed[j] + 1,
         attempts' = attempts, crashes' = crashes, overruns' = overruns,
         \A k \in Jobs : failed'[k] >= failed[k]
  PROVE  \A k \in Jobs : Accounted(k)'
<1> USE DEF JobInv
<1>1. j \in Jobs /\ claimed[r][j] # 0 /\ claimed[r][j] \in Nat /\ claimed[r][j] <= attempts[j]
  BY DEF InTick, JobTypeOK
<1>2. /\ \A k \in Jobs : status'[k] = IF k = j THEN s ELSE status[k]
      /\ \A k \in Jobs : claimed'[r][k] = IF k = j THEN 0 ELSE claimed[r][k]
      /\ \A q \in Runners, k \in Jobs : q # r => claimed'[q][k] = claimed[q][k]
  BY <1>1 DEF Settle, JobTypeOK
<1>3. ASSUME NEW k \in Jobs, k # j PROVE Accounted(k)'
  <2>1. \A q \in Runners : claimed'[q][k] = claimed[q][k]
    BY <1>2, <1>3
  <2>2. /\ status'[k] = status[k] /\ attempts'[k] = attempts[k] /\ Accounted(k)
        /\ crashes' >= crashes /\ overruns' >= overruns
    BY <1>2, <1>3 DEF JobTypeOK
  <2> QED BY <2>1, <2>2, Untouched
<1>4. Accounted(j)'
  <2>1. Holders(j)' = Holders(j) \ {r} /\ r \in Holders(j) /\ Young(j)' = Young(j) \ {r}
    BY <1>1, <1>2 DEF Holders, Holds, Young
  <2>2. /\ Cardinality(Holders(j)') = Cardinality(Holders(j)) - 1
        /\ Cardinality(Young(j)') <= Cardinality(Young(j))
        /\ r \in Young(j) => Cardinality(Young(j)') = Cardinality(Young(j)) - 1
    BY <1>1, <2>1, HandsFinite, LosesOne
  <2>3. status'[j] = s /\ Loose(j)' = 1 /\ Retries(j)' = Retries(j)
    BY <1>1, <1>2 DEF Loose, Retries
  <2>4. Accounted(j) /\ attempts[j] # 0 /\ failed'[j] >= failed[j] /\ failed'[j] \in Nat
    BY <1>1, Figures DEF JobTypeOK
  <2>5. CASE s # "pending"
    <3>1. Waits(j)' = 0
      BY <2>3, <2>5 DEF Waits
    <3> QED BY <1>1, <2>2, <2>3, <2>4, <2>5, <3>1, Figures, HandsFinite
            DEF Accounted, Charged, Handed, Explained
  <2>6. CASE s = "pending"
    <3>1. Waits(j)' = 1
      BY <2>3, <2>6 DEF Waits
    <3>2. r \in Young(j)
      BY <1>1, <2>6, Figures DEF Young
    <3> QED BY <1>1, <2>2, <2>3, <2>4, <2>6, <3>1, <3>2, Figures, HandsFinite
            DEF Accounted, Charged, Handed, Explained
  <2> QED BY <2>5, <2>6
<1> QED BY <1>3, <1>4

LEMMA CompleteKeeps == ASSUME JobInv, NEW r \in Runners, Complete(r) PROVE JobInv'
<1> USE DEF JobInv
<1>1. /\ attempts' = attempts /\ failed' = failed /\ refused' = refused
      /\ crashes' = crashes /\ overruns' = overruns
      /\ phase[r] = "handler" /\ at[r] \in Jobs
  BY DEF Complete, faultVars, historyVars, InTick
<1>2. JobTypeOK'
  BY <1>1 DEF JobTypeOK, Complete, Settle, Leave, Settled
<1>3. \A q \in Runners : InTick(q)'
  BY <1>1 DEF InTick, Complete, Settle, Leave, Holds, JobTypeOK
<1>4. \A k \in Jobs : Accounted(k)'
  BY <1>1, <1>2, SettleKeeps DEF Complete, JobTypeOK
<1>5. DeadIsEarned'
  <2>1. \A k \in Jobs : status'[k] = "dead" => status[k] = "dead"
    BY <1>1 DEF Complete, Settle, JobTypeOK
  <2> QED BY <1>1, <1>2, <2>1, StillEarned DEF JobTypeOK
<1> QED BY <1>2, <1>3, <1>4, <1>5

LEMMA FailKeeps ==
  ASSUME JobInv, NEW r \in Runners, NEW permanent \in BOOLEAN, Fail(r, permanent) PROVE JobInv'
<1> USE DEF JobInv
<1> DEFINE j == at[r]
           dead == permanent \/ Exhausted(r)
<1>1. /\ attempts' = attempts /\ crashes' = crashes /\ overruns' = overruns
      /\ phase[r] = "handler" /\ j \in Jobs
      /\ claimed[r][j] # 0 /\ claimed[r][j] \in Nat /\ claimed[r][j] <= attempts[j]
      /\ Settle(r, IF dead THEN "dead" ELSE "pending")
  BY DEF Fail, faultVars, InTick, JobTypeOK
<1>2. /\ refused \subseteq refused' /\ refused' \subseteq Jobs
      /\ permanent => j \in refused' /\ failed' = failed
      /\ ~permanent => failed' = [failed EXCEPT ![j] = @ + 1]
  BY <1>1 DEF Fail, JobTypeOK
<1>3. /\ failed' \in [Jobs -> Nat] /\ \A k \in Jobs : failed'[k] >= failed[k]
      /\ ~permanent => failed'[j] = failed[j] + 1
  BY <1>1, <1>2 DEF JobTypeOK
<1>4. /\ dead => phase' = [phase EXCEPT ![r] = "hook"] /\ at' = at
      /\ ~dead => Leave(r)
  BY DEF Fail
<1>5. JobTypeOK'
  <2>1. /\ status' \in [Jobs -> {"absent", "pending", "running"} \union Settled]
        /\ claimed' \in [Runners -> [Jobs -> Nat]]
    BY <1>1 DEF Settle, JobTypeOK, Settled
  <2>2. /\ at' \in [Runners -> Jobs \union {NoJob}]
        /\ phase' \in [Runners -> {"idle", "reaped", "batch", "handler", "hook"}]
    BY <1>4 DEF Leave, JobTypeOK
  <2> QED BY <1>1, <1>2, <1>3, <2>1, <2>2 DEF JobTypeOK
<1>6. \A q \in Runners : InTick(q)'
  BY <1>1, <1>4 DEF InTick, Settle, Leave, Holds, JobTypeOK
<1>7. \A k \in Jobs : Accounted(k)'
  <2>1. CASE dead
    BY <1>1, <1>3, <1>5, <2>1, SettleKeeps
  <2>2. CASE ~dead
    <3>1. claimed[r][j] < MaxAttempts
      BY <1>1, <2>2, JobAssumption DEF Exhausted
    <3> QED BY <1>1, <1>3, <1>5, <2>2, <3>1, SettleKeeps
  <2> QED BY <2>1, <2>2
<1>8. DeadIsEarned'
  <2>1. ASSUME NEW k \in Jobs, status'[k] = "dead", status[k] # "dead"
        PROVE  k \in refused' \/ failed'[k] + crashes' + overruns' >= MaxAttempts
    <3>1. k = j /\ dead
      BY <1>1, <2>1 DEF Settle, JobTypeOK
    <3>2. CASE permanent
      BY <1>2, <3>1, <3>2
    <3>3. CASE ~permanent
      <4>1. attempts[j] >= MaxAttempts
        BY <1>1, <3>1, <3>3, Figures DEF Exhausted
      <4>2. attempts[j] <= 1 + failed[j] + crashes + overruns
        BY <1>1, Figures DEF Accounted, Explained
      <4> QED BY <1>1, <1>3, <3>1, <3>3, <4>1, <4>2, Figures
    <3> QED BY <3>2, <3>3
  <2> QED BY <1>1, <1>2, <1>3, <1>5, <2>1, StillEarned DEF JobTypeOK
<1> QED BY <1>5, <1>6, <1>7, <1>8

LEMMA HookKeeps == ASSUME JobInv, NEW r \in Runners, Hook(r) PROVE JobInv'
<1> USE DEF JobInv
<1>1. /\ status' = status /\ attempts' = attempts /\ claimed' = claimed /\ failed' = failed
      /\ refused' = refused /\ crashes' = crashes /\ overruns' = overruns
      /\ phase[r] = "hook" /\ at[r] \in Jobs /\ claimed[r][at[r]] = 0
  BY DEF Hook, tableVars, faultVars, historyVars, InTick
<1>2. JobTypeOK'
  BY <1>1 DEF JobTypeOK, Hook, Leave
<1>3. \A q \in Runners : InTick(q)'
  BY <1>1 DEF InTick, Hook, Leave, Holds, JobTypeOK
<1>4. ASSUME NEW k \in Jobs PROVE Accounted(k)'
  BY <1>1, <1>2, Untouched DEF JobTypeOK
<1>5. DeadIsEarned'
  BY <1>1 DEF DeadIsEarned, With
<1> QED BY <1>2, <1>3, <1>4, <1>5

LEMMA CrashKeeps == ASSUME JobInv, NEW r \in Runners, Crash(r) PROVE JobInv'
<1> USE DEF JobInv
<1>1. /\ status' = status /\ attempts' = attempts /\ failed' = failed
      /\ refused' = refused /\ crashes' = crashes + 1 /\ overruns' = overruns
      /\ crashes < MaxCrashes
  BY DEF Crash, tableVars, historyVars
<1>2. JobTypeOK'
  BY <1>1, JobAssumption DEF JobTypeOK, Crash
<1>3. /\ \A q \in Runners, k \in Jobs : q # r => claimed'[q][k] = claimed[q][k]
      /\ \A k \in Jobs : claimed'[r][k] = 0
  BY DEF Crash, JobTypeOK
<1>4. \A q \in Runners : InTick(q)'
  BY <1>1, <1>3 DEF InTick, Crash, JobTypeOK
<1>5. ASSUME NEW k \in Jobs PROVE Accounted(k)'
  <2>1. Holders(k)' = Holders(k) \ {r} /\ Young(k)' = Young(k) \ {r}
    BY <1>3 DEF Holders, Holds, Young
  <2>2. /\ Cardinality(Holders(k)') <= Cardinality(Holders(k))
        /\ Cardinality(Young(k)') <= Cardinality(Young(k))
        /\ r \in Holders(k) => Cardinality(Holders(k)') = Cardinality(Holders(k)) - 1
    BY <2>1, HandsFinite, LosesOne
  <2>3. Retries(k)' = Retries(k) /\ Waits(k)' \in 0..1 /\ Loose(k)' \in 0..1
    BY <1>1 DEF Retries, Waits, Loose
  <2>4. CASE r \in Holders(k)
    <3>1. Waits(k)' <= Waits(k) + 1 /\ Loose(k)' <= Loose(k) + 1
      BY <2>3, Figures
    <3> QED BY <1>1, <2>2, <2>3, <2>4, <3>1, Figures, HandsFinite
            DEF Accounted, Charged, Handed, Explained
  <2>5. CASE r \notin Holders(k)
    <3>0. /\ Holders(k)' = Holders(k)
          /\ \A q \in Holders(k) : claimed'[q][k] = claimed[q][k]
      BY <1>3, <2>1, <2>5 DEF Holders
    <3>1. Owned(k)' <=> Owned(k)
      BY <1>1, <3>0 DEF Owned
    <3>2. Waits(k)' = Waits(k) /\ Loose(k)' = Loose(k)
      BY <1>1, <3>1 DEF Waits, Loose
    <3> QED BY <1>1, <2>2, <2>3, <3>0, <3>2, Figures, HandsFinite
            DEF Accounted, Charged, Handed, Explained
  <2> QED BY <2>4, <2>5
<1>6. DeadIsEarned'
  BY <1>1, <1>2, StillEarned DEF JobTypeOK
<1> QED BY <1>2, <1>4, <1>5, <1>6

LEMMA InvNext == JobInv /\ [JobNext]_jobVars => JobInv'
<1> SUFFICES ASSUME JobInv, [JobNext]_jobVars PROVE JobInv'
  OBVIOUS
<1>1. CASE UNCHANGED jobVars
  <2>1. /\ status' = status /\ attempts' = attempts /\ claimed' = claimed /\ at' = at
        /\ phase' = phase /\ crashes' = crashes /\ overruns' = overruns
        /\ failed' = failed /\ refused' = refused
    BY <1>1 DEF jobVars, tableVars, runnerVars, faultVars, historyVars
  <2>2. JobTypeOK' /\ (\A r \in Runners : InTick(r)') /\ DeadIsEarned'
    BY <2>1 DEF JobInv, JobTypeOK, InTick, DeadIsEarned, With
  <2>3. \A j \in Jobs : Accounted(j)'
    BY <2>1, <2>2, Untouched DEF JobInv, JobTypeOK
  <2> QED BY <2>2, <2>3 DEF JobInv
<1>2. ASSUME NEW j \in Jobs, Enqueue(j) PROVE JobInv'
  BY <1>2, EnqueueKeeps
<1>3. ASSUME NEW r \in Runners, Tick(r) \/ Crash(r) PROVE JobInv'
  BY <1>3, ReapKeeps, ClaimKeeps, StartKeeps, CompleteKeeps, FailKeeps, HookKeeps, CrashKeeps
  DEF Tick
<1> QED BY <1>1, <1>2, <1>3 DEF JobNext

-----------------------------------------------------------------------------
(* Theorems. *)

\* The invariant of the queue, whatever fairness its runners have.
THEOREM QueueInvariant == JobInit /\ [][JobNext]_jobVars => []JobInv
<1> QED BY InvInit, InvNext, PTL

\* What the invariant says of a job's attempts and hands.
LEMMA InvBounds == JobInv => AttemptsWithinFaults /\ HandsWithinOverruns /\ DeadIsEarned
<1> SUFFICES ASSUME JobInv PROVE AttemptsWithinFaults /\ HandsWithinOverruns
  BY DEF JobInv
<1>1. ASSUME NEW j \in Jobs PROVE attempts[j] <= MaxAttempts + crashes + overruns
  <2>1. Retries(j) <= MaxAttempts - 1
    BY Figures DEF JobInv, Retries
  <2> QED BY <2>1, Figures, HandsFinite DEF JobInv, Accounted, Charged
<1>2. HandsWithinOverruns
  BY Figures, HandsFinite DEF JobInv, Accounted, Handed, HandsWithinOverruns
<1> QED BY <1>1, <1>2 DEF AttemptsWithinFaults

\* Every reachable state of the queue is well typed.
THEOREM QueueTypeCorrect == JobSpec => []JobTypeOK
<1>1. JobInv => JobTypeOK
  BY DEF JobInv
<1> QED BY <1>1, QueueInvariant, PTL DEF JobSpec

\* drainTenant charges a job max_attempts times, and once more for each crash
\* and each lock that grew old, with any number of processes.
THEOREM ChargedWithinFaults == JobSpec => []AttemptsWithinFaults
<1> QED BY InvBounds, QueueInvariant, PTL DEF JobSpec

\* The lock keeps a second runner off a job, except where it grew old.
THEOREM OneRunnerPerLock == JobSpec => []HandsWithinOverruns
<1> QED BY InvBounds, QueueInvariant, PTL DEF JobSpec

\* fail sends no job to the dead letters before its time.
THEOREM DeadLettersAreEarned == JobSpec => []DeadIsEarned
<1> QED BY InvBounds, QueueInvariant, PTL DEF JobSpec

\* Without an overrun nobody holds a copy of a job that is done or dead.
LEMMA NobodyRevives ==
  JobInv /\ [JobNext]_jobVars =>
    [overruns' = 0 => \A j \in Jobs : status[j] \in Settled => status'[j] = status[j]]_jobVars
<1> SUFFICES ASSUME JobInv, JobNext, overruns' = 0, NEW j \in Jobs, status[j] \in Settled
             PROVE  status'[j] = status[j]
  OBVIOUS
<1> USE DEF JobInv
<1>1. CASE \E k \in Jobs : Enqueue(k)
  BY <1>1 DEF Enqueue, Enqueued, Settled
<1>2. ASSUME NEW r \in Runners, NEW S \in SUBSET Jobs, Reap(r, S) PROVE status'[j] = status[j]
  BY <1>2 DEF Reap, With, Settled
<1>3. ASSUME NEW r \in Runners, NEW S \in SUBSET Jobs, Claim(r, S) PROVE status'[j] = status[j]
  BY <1>3 DEF Claim, With, Settled
<1>4. ASSUME NEW r \in Runners, NEW s, phase[r] = "handler", Settle(r, s), overruns' = overruns
      PROVE status'[j] = status[j]
  <2>1. Loose(j) = 1 /\ overruns = 0
    BY <1>4 DEF Loose, Settled
  <2>2. Cardinality(Holders(j)) = 0
    BY <2>1, HandsFinite DEF Accounted, Handed
  <2>3. Holders(j) = {}
    BY <2>2, HandsFinite, FS_EmptySet
  <2>4. at[r] # j
    BY <1>4, <2>3 DEF Holders, Holds, InTick
  <2> QED BY <1>4, <2>4 DEF Settle, JobTypeOK
<1>5. ASSUME NEW r \in Runners, Complete(r) PROVE status'[j] = status[j]
  BY <1>4, <1>5 DEF Complete, faultVars
<1>6. ASSUME NEW r \in Runners, NEW permanent \in BOOLEAN, Fail(r, permanent)
      PROVE status'[j] = status[j]
  BY <1>4, <1>6 DEF Fail, faultVars
<1>7. ASSUME NEW r \in Runners, \/ \E k \in Jobs : Start(r, k)
                                \/ Hook(r) \/ Crash(r)
      PROVE status'[j] = status[j]
  BY <1>7 DEF Start, Hook, Crash, tableVars
<1> QED BY <1>1, <1>2, <1>3, <1>5, <1>6, <1>7 DEF JobNext, Tick

\* complete and fail write by id; without an overrun they revive nothing.
THEOREM SettledStaysSettled == JobSpec => SettledIsFinal
<1> QED BY QueueInvariant, NobodyRevives, PTL DEF JobSpec, SettledIsFinal
=============================================================================
