------------------------- MODULE LifecycleJobs_proofs -------------------------
(***************************************************************************)
(* Safety of the lifecycle-job queue for any number of jobs, repositories, *)
(* kinds and workers, any attempt budget, any number of operator retries   *)
(* and crashes, with or without clock skew; and that the queue implements  *)
(* LeasedWork.  The refinement needs one more fact about a worker's hands: *)
(* the lease it executes is no longer in its batch, so that reporting on   *)
(* it gives it up.                                                         *)
(***************************************************************************)
EXTENDS LifecycleJobs, TLAPS

Executing == {"running", "lost", "fenced", "releasing"}

\* What holds of every row by itself.
RowOK(r) ==
    /\ r \in JobRecord
    /\ (r.token # 0) <=> (r.state = "running")
    /\ r.attempts <= MaxAttempts
    /\ r.state \in Claimable \union {"absent"} => r.attempts < MaxAttempts
    /\ r.state = "running" => r.attempts > 0

Rows == /\ job \in [Jobs -> JobRecord]
        /\ \A j \in Jobs : RowOK(job[j])

Tokens == /\ nextToken \in Nat \ {0}
          /\ \A j \in Jobs : job[j].token < nextToken
          /\ \A w \in Workers : \A l \in Held(w) : l[2] # 0 /\ l[2] < nextToken

Locals == /\ fence \in [Jobs -> Workers \union {NoWorker}]
          /\ pc \in [Workers -> Steps]
          /\ seen \in [Workers -> SUBSET Jobs]
          /\ batch \in [Workers -> SUBSET Leases]
          /\ cur \in [Workers -> Leases \union {NoLease}]
          /\ requeues \in Nat
          /\ crashes \in Nat
          /\ \A w \in Workers : pc[w] \in Executing <=> cur[w] # NoLease

\* The lease lock is held exactly by the worker inside it.
Lock == /\ \A w \in Workers : pc[w] \in {"fenced", "releasing"} => fence[cur[w][1]] = w
        /\ \A j \in Jobs, w \in Workers :
               fence[j] = w => pc[w] \in {"fenced", "releasing"} /\ cur[w][1] = j

IInv == Rows /\ Tokens /\ Locals /\ OneHolderPerLease /\ Lock /\ FencedOwner

-----------------------------------------------------------------------------
(* Rows                                                                    *)

\* A row that is absent or waiting may be queued (enqueue, run now).
LEMMA QueuedRow ==
    ASSUME NEW r, RowOK(r), r.state \in Claimable \union {"absent"}
    PROVE  /\ RowOK(Queued(r))
           /\ Queued(r).token = r.token
           /\ Queued(r).state = "pending"
  BY AttemptsAssumption DEF RowOK, Queued, JobRecord, States, Claimable

\* A requeue leaves a waiting row with a full budget and no token.
LEMMA ResetRow ==
    ASSUME NEW r, RowOK(r)
    PROVE  RowOK(Reset(r)) /\ Reset(r).token = 0 /\ Reset(r).state = "pending"
  BY AttemptsAssumption DEF RowOK, Reset, JobRecord, States, Claimable

\* Releasing a running row gives up exactly when the budget is spent.
LEMMA ReleasedRow ==
    ASSUME NEW r, RowOK(r), r.state = "running"
    PROVE  /\ RowOK(Released(r))
           /\ Released(r).token = 0
           /\ Released(r).state \in {"failed", "retrying"}
  BY AttemptsAssumption DEF RowOK, Released, JobRecord, States, Claimable

\* Claiming a waiting row spends an attempt it has, under a nonempty token.
LEMMA ClaimedRow ==
    ASSUME NEW r, RowOK(r), r.state \in Claimable, NEW t \in Nat \ {0}
    PROVE  /\ RowOK(Claimed(r, t))
           /\ Claimed(r, t).token = t
           /\ Claimed(r, t).state = "running"
  BY AttemptsAssumption DEF RowOK, Claimed, JobRecord, States, Claimable

\* Retrying a parked row by itself leaves it waiting, still without a token.
LEMMA RetriedRow ==
    ASSUME NEW r, RowOK(r), r.state \in Parked
    PROVE  RowOK(Retried(r)) /\ Retried(r).token = 0 /\ Retried(r).state = "pending"
  BY AttemptsAssumption DEF RowOK, Retried, JobRecord, States, Claimable, Parked

\* A waiting row may be cancelled, a running one completed.
LEMMA SettledRow ==
    ASSUME NEW r, RowOK(r)
    PROVE  /\ r.state \in Claimable => RowOK(Cancelled(r)) /\ Cancelled(r).token = r.token
           /\ RowOK(Completed(r)) /\ Completed(r).token = 0
           /\ Completed(r).state = "completed"
  BY AttemptsAssumption DEF RowOK, Cancelled, Completed, JobRecord, States, Claimable

\* The two clocks of a row are independent of the rest of it.
LEMMA ClockedRow ==
    ASSUME NEW r, RowOK(r), NEW b \in BOOLEAN, NEW d \in BOOLEAN
    PROVE  /\ RowOK(Clocked(r, b, d))
           /\ Clocked(r, b, d).token = r.token
           /\ Clocked(r, b, d).state = r.state
  BY DEF RowOK, Clocked, JobRecord, States, Claimable

-----------------------------------------------------------------------------
(* The invariant holds initially.                                          *)

\* An empty table satisfies the invariant.
LEMMA InitInv == Init => IInv
  BY AttemptsAssumption, SentinelAssumption
     DEF Init, IInv, Rows, RowOK, Tokens, Locals, OneHolderPerLease, Lock,
         FencedOwner, JobRecord, States, Claimable, Held, Steps, Executing

-----------------------------------------------------------------------------
(* Steps that hand out no lease                                            *)

\* Rows stay well formed and no row gets a token.
RowsStep ==
    /\ job' \in [Jobs -> JobRecord]
    /\ \A j \in Jobs : RowOK(job'[j]) /\ job'[j].token \in {job[j].token, 0}

\* Who is inside the lease lock after the step was inside before it, with the
\* same lease, and the row still runs under that lease.
KeepsFenced ==
    \A w \in Workers :
        pc'[w] = "fenced" => /\ pc[w] = "fenced" /\ cur'[w] = cur[w]
                             /\ job'[cur[w][1]].state = "running"
                             /\ job'[cur[w][1]].token = job[cur[w][1]].token

\* No worker ends up with a lease it did not have.
NoNewLease == \A w \in Workers : Held(w)' \subseteq Held(w)

\* Such a step keeps the table, the tokens and the holders in order.
LEMMA RowsStepInv ==
    ASSUME IInv, RowsStep, NoNewLease, UNCHANGED nextToken
    PROVE  Rows' /\ Tokens' /\ OneHolderPerLease'
<1>1. Rows'
  BY DEF RowsStep, Rows
<1>2. Tokens'
  BY DEF RowsStep, NoNewLease, Tokens, IInv, Rows, JobRecord
<1>3. OneHolderPerLease'
  BY DEF IInv, NoNewLease, OneHolderPerLease
<1> QED
  BY <1>1, <1>2, <1>3

\* Steps that leave the locked rows alone keep FencedOwner.
LEMMA KeepsFencedInv ==
    ASSUME IInv, KeepsFenced, Lock'
    PROVE  FencedOwner'
  BY DEF IInv, KeepsFenced, Lock, FencedOwner, Owns

\* A worker inside the lease lock is the only one that owns the job.
LEMMA FencedAlone ==
    ASSUME IInv, NEW v \in Workers, NEW w \in Workers, v # w,
           pc[v] = "fenced", pc[w] \in Executing, Owns(cur[w])
    PROVE  cur[v][1] # cur[w][1]
<1>1. cur[v] \in Leases /\ cur[w] \in Leases
  BY DEF IInv, Locals, Executing
<1>2. cur[v] = <<cur[v][1], cur[v][2]>> /\ cur[w] = <<cur[w][1], cur[w][2]>>
  BY <1>1 DEF Leases
<1>3. job[cur[v][1]].token = cur[v][2] /\ job[cur[w][1]].token = cur[w][2]
  BY DEF IInv, FencedOwner, Owns
<1>4. cur[v] # cur[w]
  BY <1>1, SentinelAssumption DEF IInv, OneHolderPerLease, Held
<1> QED
  BY <1>2, <1>3, <1>4

\* Rewriting one row, or several at once.
LEMMA OneRowStep ==
    ASSUME IInv, NEW j \in Jobs, NEW r, RowOK(r), r.token \in {job[j].token, 0},
           job' = [job EXCEPT ![j] = r]
    PROVE  RowsStep /\ \A i \in Jobs : job'[i] = IF i = j THEN r ELSE job[i]
<1>1. job \in [Jobs -> JobRecord] /\ \A i \in Jobs : RowOK(job[i])
  BY DEF IInv, Rows
<1>2. r \in JobRecord
  BY DEF RowOK
<1>3. \A i \in Jobs : job'[i] = IF i = j THEN r ELSE job[i]
  BY <1>1
<1> QED
  BY <1>1, <1>2, <1>3 DEF RowsStep

\* The same for a statement that rewrites a set of rows.
LEMMA ManyRowsStep ==
    ASSUME IInv, NEW S \in SUBSET Jobs, NEW f,
           \A j \in S : RowOK(f[j]) /\ f[j].token = 0,
           job' = [j \in Jobs |-> IF j \in S THEN f[j] ELSE job[j]]
    PROVE  RowsStep
  BY DEF RowsStep, IInv, Rows, RowOK

-----------------------------------------------------------------------------
(* Enqueue, controls, time, recovery: the workers do not move              *)

\* A step of the table that spares the fenced rows.
LEMMA TableStepInv ==
    ASSUME IInv, RowsStep, requeues' \in Nat,
           \A w \in Workers : pc[w] = "fenced"
              => /\ job'[cur[w][1]].state = "running"
                 /\ job'[cur[w][1]].token = job[cur[w][1]].token,
           UNCHANGED <<nextToken, fence, pc, seen, batch, cur, crashes>>
    PROVE  IInv'
<1>1. NoNewLease
  BY DEF NoNewLease, Held
<1>2. KeepsFenced
  BY DEF KeepsFenced
<1>3. Locals' /\ Lock'
  BY DEF IInv, Locals, Lock
<1> QED
  BY <1>1, <1>2, <1>3, RowsStepInv, KeepsFencedInv DEF IInv

\* One row that is not running, or that keeps running under its token.
LEMMA OneRowInv ==
    ASSUME IInv, NEW j \in Jobs, NEW r, RowOK(r), r.token \in {job[j].token, 0},
           job[j].state = "running" => r.state = "running" /\ r.token = job[j].token,
           job' = [job EXCEPT ![j] = r], requeues' \in Nat,
           UNCHANGED <<nextToken, fence, pc, seen, batch, cur, crashes>>
    PROVE  IInv'
<1>1. RowsStep /\ \A i \in Jobs : job'[i] = IF i = j THEN r ELSE job[i]
  BY ZenonT(40), OneRowStep
<1>2. ASSUME NEW w \in Workers, pc[w] = "fenced"
      PROVE  /\ job'[cur[w][1]].state = "running"
             /\ job'[cur[w][1]].token = job[cur[w][1]].token
  <2>1. cur[w][1] \in Jobs
    BY <1>2 DEF IInv, Locals, Executing, Leases
  <2>2. job[cur[w][1]].state = "running"
    BY <1>2 DEF IInv, FencedOwner, Owns
  <2> QED
    BY <1>1, <2>1, <2>2
<1> QED
  BY <1>1, <1>2, TableStepInv

\* Several rows, none of which a worker has fenced.
LEMMA ManyRowsInv ==
    ASSUME IInv, NEW S \in SUBSET Jobs, NEW f,
           \A j \in S : RowOK(f[j]) /\ f[j].token = 0,
           \A j \in S : job[j].state # "running" \/ fence[j] = NoWorker,
           job' = [j \in Jobs |-> IF j \in S THEN f[j] ELSE job[j]],
           requeues' \in Nat,
           UNCHANGED <<nextToken, fence, pc, seen, batch, cur, crashes>>
    PROVE  IInv'
<1>1. RowsStep
  BY Zenon, ManyRowsStep
<1>2. ASSUME NEW w \in Workers, pc[w] = "fenced"
      PROVE  cur[w][1] \in Jobs \ S
  <2>1. cur[w][1] \in Jobs
    BY <1>2 DEF IInv, Locals, Executing, Leases
  <2>2. job[cur[w][1]].state = "running" /\ fence[cur[w][1]] = w
    BY <1>2 DEF IInv, FencedOwner, Owns
  <2> QED
    BY <2>1, <2>2, SentinelAssumption
<1>3. \A w \in Workers : pc[w] = "fenced"
         => /\ job'[cur[w][1]].state = "running"
            /\ job'[cur[w][1]].token = job[cur[w][1]].token
  BY <1>2 DEF IInv, FencedOwner, Owns
<1> QED
  BY <1>1, <1>3, TableStepInv

\* Recovery releases running rows that nobody has locked.
LEMMA RecoveredRows ==
    ASSUME IInv, NEW S \in SUBSET Jobs, Recoverable(S)
    PROVE  /\ \A j \in S : job[j].state = "running" /\ fence[j] = NoWorker
           /\ \A j \in S : RowOK(Released(job[j])) /\ Released(job[j]).token = 0
  BY ReleasedRow DEF Recoverable, IInv, Rows

\* The recovery loop keeps the invariant.
LEMMA RecoverInv == IInv /\ RecoverExpiredLifecycleJobs => IInv'
<1> SUFFICES ASSUME IInv, RecoverExpiredLifecycleJobs PROVE IInv'
  OBVIOUS
<1>1. PICK S \in SUBSET Jobs : Recoverable(S) /\ job' = Recovered(S)
  BY DEF RecoverExpiredLifecycleJobs
<1> DEFINE f == [j \in S |-> Released(job[j])]
<1>2. \A j \in S : RowOK(f[j]) /\ f[j].token = 0
  BY <1>1, RecoveredRows
<1>3. job' = [j \in Jobs |-> IF j \in S THEN f[j] ELSE job[j]]
  BY <1>1 DEF Recovered
<1>4. \A j \in S : job[j].state # "running" \/ fence[j] = NoWorker
  BY <1>1, RecoveredRows
<1>5. requeues' \in Nat
  BY DEF RecoverExpiredLifecycleJobs, IInv, Locals
<1> HIDE DEF f
<1> QED
  BY <1>2, <1>3, <1>4, <1>5, ManyRowsInv DEF RecoverExpiredLifecycleJobs

\* Enqueue, the operator's controls and the passing of time.
LEMMA ControlInv ==
    ASSUME IInv, NEW j \in Jobs, Control(j)
    PROVE  IInv'
<1>0. RowOK(job[j]) /\ requeues \in Nat
  BY DEF IInv, Rows, Locals
<1>1. CASE EnqueueLifecycleJob(j)
  <2>1. job[j].state = "absent" /\ job' = [job EXCEPT ![j] = Queued(job[j])]
    BY <1>1 DEF EnqueueLifecycleJob
  <2> QED
    BY Zenon, <1>0, <1>1, <2>1, QueuedRow, OneRowInv DEF EnqueueLifecycleJob
<1>2. CASE RunLifecycleJobNow(j)
  <2>1. job[j].state \in Claimable /\ job' = [job EXCEPT ![j] = Queued(job[j])]
    BY <1>2 DEF RunLifecycleJobNow
  <2> QED
    BY Zenon, <1>0, <1>2, <2>1, QueuedRow, OneRowInv DEF RunLifecycleJobNow, Claimable
<1>3. CASE RetryLifecycleJob(j)
  <2>1. job[j].state \in Parked
    BY <1>3 DEF RetryLifecycleJob
  <2>2. requeues' \in Nat
    BY <1>0, <1>3 DEF RetryLifecycleJob
  <2> DEFINE r == Retried(job[j])
  <2>3. RowOK(r) /\ r.token = 0 /\ job[j].state # "running"
    BY <1>0, <2>1, RetriedRow DEF Parked
  <2>4. job' = [job EXCEPT ![j] = r]
    BY <1>3 DEF RetryLifecycleJob
  <2> HIDE DEF r
  <2> QED
    BY Zenon, <1>3, <2>4, <2>2, <2>3, OneRowInv DEF RetryLifecycleJob
<1>4. CASE RequeueFailedLifecycleJobs(RepositoryOf[j], KindOf[j])
  <2>1. PICK S \in SUBSET ParkedIn(RepositoryOf[j], KindOf[j]) :
           job' = [i \in Jobs |-> IF i \in S THEN Reset(job[i]) ELSE job[i]]
    BY <1>4 DEF RequeueFailedLifecycleJobs
  <2>2. S \in SUBSET Jobs /\ \A i \in S : job[i].state # "running"
    BY DEF ParkedIn, Parked
  <2> DEFINE f == [i \in S |-> Reset(job[i])]
  <2>3. \A i \in S : RowOK(f[i]) /\ f[i].token = 0
    BY <2>2, ResetRow DEF IInv, Rows
  <2>4. job' = [i \in Jobs |-> IF i \in S THEN f[i] ELSE job[i]]
    BY <2>1
  <2> HIDE DEF f
  <2>5. requeues' \in Nat
    BY <1>0, <1>4 DEF RequeueFailedLifecycleJobs
  <2> QED
    BY Zenon, <1>4, <2>2, <2>3, <2>4, <2>5, ManyRowsInv DEF RequeueFailedLifecycleJobs
<1>5. CASE CancelLifecycleJob(j)
  <2>1. job[j].state \in Claimable /\ job' = [job EXCEPT ![j] = Cancelled(job[j])]
    BY <1>5 DEF CancelLifecycleJob
  <2> QED
    BY Zenon, <1>0, <1>5, <2>1, SettledRow, OneRowInv DEF CancelLifecycleJob, Claimable
<1>6. CASE LeaseExpires(j)
  <2> DEFINE r == Clocked(job[j], FALSE, job[j].due)
  <2>1. job' = [job EXCEPT ![j] = r]
    BY <1>6 DEF LeaseExpires
  <2>2. job[j].due \in BOOLEAN
    BY <1>0 DEF RowOK, JobRecord
  <2>3. RowOK(r) /\ r.token = job[j].token /\ r.state = job[j].state
    BY Zenon, <1>0, <2>2, ClockedRow
  <2> HIDE DEF r
  <2> QED
    BY Zenon, <1>0, <1>6, <2>1, <2>3, OneRowInv DEF LeaseExpires
<1>7. CASE BecomesDue(j)
  <2> DEFINE r == Clocked(job[j], job[j].live, TRUE)
  <2>1. job' = [job EXCEPT ![j] = r]
    BY <1>7 DEF BecomesDue
  <2>2. job[j].live \in BOOLEAN
    BY <1>0 DEF RowOK, JobRecord
  <2>3. RowOK(r) /\ r.token = job[j].token /\ r.state = job[j].state
    BY Zenon, <1>0, <2>2, ClockedRow
  <2> HIDE DEF r
  <2> QED
    BY Zenon, <1>0, <1>7, <2>1, <2>3, OneRowInv DEF BecomesDue
<1> QED
  BY <1>1, <1>2, <1>3, <1>4, <1>5, <1>6, <1>7 DEF Control

-----------------------------------------------------------------------------
(* Claiming                                                                *)

\* A worker that moves between steps outside the lock keeps what it holds.
LEMMA MoveInv ==
    ASSUME IInv, NEW w \in Workers, NEW s \in Steps \ {"fenced", "releasing"},
           pc[w] \notin {"fenced", "releasing"},
           s \in Executing <=> pc[w] \in Executing,
           pc' = [pc EXCEPT ![w] = s],
           seen' \in [Workers -> SUBSET Jobs],
           UNCHANGED <<fence, batch, cur, requeues, crashes>>
    PROVE  Locals' /\ Lock' /\ NoNewLease
<1>1. pc \in [Workers -> Steps]
  BY DEF IInv, Locals
<1>2. \A v \in Workers : pc'[v] = IF v = w THEN s ELSE pc[v]
  BY <1>1
<1>3. Locals'
  BY <1>1, <1>2 DEF IInv, Locals
<1>4. Lock'
  BY <1>2 DEF IInv, Lock
<1>5. NoNewLease
  BY DEF NoNewLease, Held
<1> QED
  BY <1>3, <1>4, <1>5

\* The recovery that opens every claim.
LEMMA ClaimRecoverInv ==
    ASSUME IInv, NEW w \in Workers, ClaimRecover(w)
    PROVE  IInv'
<1>1. PICK S \in SUBSET Jobs : Recoverable(S) /\ job' = Recovered(S)
  BY DEF ClaimRecover
<1> DEFINE f == [j \in S |-> Released(job[j])]
<1>2. \A j \in S : RowOK(f[j]) /\ f[j].token = 0
  BY <1>1, RecoveredRows
<1>3. job' = [j \in Jobs |-> IF j \in S THEN f[j] ELSE job[j]]
  BY <1>1 DEF Recovered
<1>4. RowsStep
  <2> HIDE DEF f
  <2> QED
    BY <1>2, <1>3, ManyRowsStep
<1>5. Locals' /\ Lock' /\ NoNewLease
  BY Zenon, MoveInv DEF ClaimRecover, Steps, Executing, IInv, Locals
<1>6. KeepsFenced
  <2>1. ASSUME NEW v \in Workers, pc'[v] = "fenced"
        PROVE  /\ pc[v] = "fenced" /\ cur'[v] = cur[v]
               /\ job'[cur[v][1]] = job[cur[v][1]]
    <3>1. pc[v] = "fenced" /\ cur'[v] = cur[v]
      BY <2>1 DEF ClaimRecover, IInv, Locals
    <3>2. cur[v][1] \in Jobs /\ fence[cur[v][1]] = v
      BY <3>1 DEF IInv, Locals, Executing, Leases, FencedOwner
    <3>3. cur[v][1] \notin S
      BY <1>1, <3>2, RecoveredRows, SentinelAssumption
    <3> QED
      BY <1>3, <3>1, <3>2, <3>3
  <2> QED
    BY <2>1 DEF KeepsFenced, IInv, FencedOwner, Owns
<1>7. Rows' /\ Tokens' /\ OneHolderPerLease'
  BY <1>4, <1>5, RowsStepInv DEF ClaimRecover
<1>8. FencedOwner'
  BY <1>5, <1>6, KeepsFencedInv
<1> QED
  BY <1>5, <1>7, <1>8 DEF IInv

\* A step of one worker that leaves the table and the lock alone.
LEMMA QuietInv ==
    ASSUME IInv, NEW w \in Workers, NEW s \in Steps \ {"fenced", "releasing"},
           pc[w] \notin {"fenced", "releasing"},
           s \in Executing <=> pc[w] \in Executing,
           pc' = [pc EXCEPT ![w] = s],
           seen' \in [Workers -> SUBSET Jobs],
           UNCHANGED <<job, nextToken, fence, batch, cur, requeues, crashes>>
    PROVE  IInv'
<1>1. Locals' /\ Lock' /\ NoNewLease
  BY Zenon, MoveInv
<1>2. RowsStep
  BY DEF RowsStep, IInv, Rows
<1>3. KeepsFenced
  BY DEF KeepsFenced, IInv, Locals, FencedOwner, Owns
<1> QED
  BY <1>1, <1>2, <1>3, RowsStepInv, KeepsFencedInv DEF IInv

\* Selecting candidates changes no row.
LEMMA ClaimSnapshotInv ==
    ASSUME IInv, NEW w \in Workers, ClaimSnapshot(w)
    PROVE  IInv'
<1>1. PICK S \in SUBSET Jobs :
         /\ seen' = [seen EXCEPT ![w] = S]
         /\ pc' = [pc EXCEPT ![w] = IF S = {} THEN "idle" ELSE "snapshot"]
  BY Zenon DEF ClaimSnapshot
<1>2. seen' \in [Workers -> SUBSET Jobs]
  BY <1>1 DEF IInv, Locals
<1> QED
  BY <1>1, <1>2, QuietInv DEF ClaimSnapshot, Steps, Executing

\* Neither does leaving out the repositories others have locked.
LEMMA ClaimTryLockInv ==
    ASSUME IInv, NEW w \in Workers, ClaimTryLock(w)
    PROVE  IInv'
<1> DEFINE got == {j \in seen[w] : ~LockedByAnother(w, RepositoryOf[j])}
<1>1. /\ seen' = [seen EXCEPT ![w] = got]
      /\ pc' = [pc EXCEPT ![w] = IF got = {} THEN "idle" ELSE "locked"]
  BY DEF ClaimTryLock
<1>2. got \in SUBSET Jobs
  BY DEF IInv, Locals
<1> HIDE DEF got
<1>3. seen' \in [Workers -> SUBSET Jobs]
  BY <1>1, <1>2 DEF IInv, Locals
<1> QED
  BY <1>1, <1>3, QuietInv DEF ClaimTryLock, Steps, Executing

\* Handing out fresh leases for waiting rows.  base is the table the claim
\* works on: the current one, or in memory the one recovery leaves.
LEMMA HandOutInv ==
    ASSUME IInv, NEW w \in Workers, NEW S \in SUBSET Jobs,
           NEW base \in [Jobs -> JobRecord],
           \A j \in Jobs : RowOK(base[j]) /\ base[j].token \in {job[j].token, 0},
           \A j \in Jobs : fence[j] # NoWorker => base[j] = job[j],
           \A j \in S : base[j].state \in Claimable,
           pc[w] \notin Executing,
           job' = [j \in Jobs |-> IF j \in S THEN Claimed(base[j], nextToken)
                                             ELSE base[j]],
           batch' = [batch EXCEPT ![w] = {<<j, nextToken>> : j \in S}],
           nextToken' = IF S = {} THEN nextToken ELSE nextToken + 1,
           pc' = [pc EXCEPT ![w] = IF S = {} THEN "idle" ELSE "batch"],
           seen' \in [Workers -> SUBSET Jobs],
           UNCHANGED <<fence, cur, requeues, crashes>>
    PROVE  IInv'
<1>0. nextToken \in Nat \ {0}
  BY DEF IInv, Tokens
<1>1. \A j \in S : /\ RowOK(Claimed(base[j], nextToken))
                   /\ Claimed(base[j], nextToken).token = nextToken
  BY <1>0, ClaimedRow
<1>2. \A j \in Jobs : job'[j] = IF j \in S THEN Claimed(base[j], nextToken) ELSE base[j]
  BY Zenon
<1>3. Rows'
  BY Zenon, <1>1, <1>2 DEF Rows, RowOK
<1>4. cur[w] = NoLease
  BY Zenon DEF IInv, Locals
<1>5. \A v \in Workers : Held(v)' = IF v = w THEN {<<j, nextToken>> : j \in S} ELSE Held(v)
  BY <1>4 DEF Held, IInv, Locals
<1>6. Tokens'
  <2>1. \A j \in Jobs : job[j].token \in Nat /\ job[j].token < nextToken
    BY DEF IInv, Tokens, Rows, JobRecord
  <2>2. \A j \in Jobs : job'[j].token < nextToken'
    BY <1>0, <1>1, <1>2, <2>1
  <2>3. ASSUME NEW v \in Workers, NEW l \in Held(v)'
        PROVE  l[2] # 0 /\ l[2] < nextToken'
    <3>1. CASE v = w
      <4>1. PICK j \in S : l = <<j, nextToken>>
        BY Zenon, <1>5, <2>3, <3>1
      <4> QED
        BY <1>0, <4>1
    <3>2. CASE v # w
      <4>1. l \in batch[v] \/ (l = cur[v] /\ l # NoLease)
        BY <1>5, <2>3, <3>2 DEF Held
      <4>2. l \in Leases
        BY ZenonT(40), <4>1 DEF IInv, Locals
      <4>3. l[2] \in Nat /\ l[2] # 0 /\ l[2] < nextToken
        BY Zenon, <1>5, <2>3, <3>2, <4>2 DEF IInv, Tokens, Leases
      <4> QED
        BY <1>0, <4>3
    <3> QED
      BY <3>1, <3>2
  <2>4. nextToken' \in Nat \ {0}
    BY <1>0
  <2> QED
    BY Zenon, <2>2, <2>3, <2>4 DEF Tokens
<1>7. OneHolderPerLease'
  <2>1. \A v \in Workers : \A l \in Held(v) : l[2] # nextToken
    <3>1. ASSUME NEW v \in Workers, NEW l \in Held(v)
          PROVE  l[2] # nextToken
      <4>1. l \in batch[v] \/ (l = cur[v] /\ l # NoLease)
        BY Zenon, <3>1 DEF Held
      <4>2. l \in Leases
        BY Zenon, <4>1 DEF IInv, Locals
      <4>3. l[2] < nextToken
        BY Zenon, <3>1 DEF IInv, Tokens
      <4> QED
        BY <1>0, <4>2, <4>3 DEF Leases
    <3> QED
      BY <3>1
  <2> QED
    BY <1>5, <2>1 DEF IInv, OneHolderPerLease
<1>8. Locals'
  <2>1. {<<j, nextToken>> : j \in S} \subseteq Leases
    BY <1>0 DEF Leases
  <2>2. \A v \in Workers : pc'[v] = IF v = w THEN IF S = {} THEN "idle" ELSE "batch" ELSE pc[v]
    BY DEF IInv, Locals
  <2>3. \A v \in Workers : pc'[v] \in Executing <=> pc[v] \in Executing
    BY <2>2 DEF Executing
  <2> QED
    BY Zenon, <2>1, <2>2, <2>3 DEF IInv, Locals, Steps
<1>9. \A v \in Workers : /\ pc'[v] \in {"fenced", "releasing"} <=> pc[v] \in {"fenced", "releasing"}
                         /\ pc'[v] = "fenced" => pc[v] = "fenced"
  BY DEF IInv, Locals, Executing
<1>10. Lock'
  BY ZenonT(40), <1>9 DEF IInv, Lock
<1>11. KeepsFenced
  <2>1. ASSUME NEW v \in Workers, pc'[v] = "fenced"
        PROVE  job'[cur[v][1]] = job[cur[v][1]]
    <3>1. pc[v] = "fenced"
      BY Zenon, <1>9, <2>1
    <3>2. /\ cur[v][1] \in Jobs /\ fence[cur[v][1]] = v
          /\ job[cur[v][1]].state = "running"
      BY <3>1 DEF IInv, Locals, Executing, Leases, FencedOwner, Owns
    <3>3. base[cur[v][1]] = job[cur[v][1]]
      BY Zenon, <3>2, SentinelAssumption
    <3>4. cur[v][1] \notin S
      BY Zenon, <3>2, <3>3 DEF Claimable
    <3> QED
      BY Zenon, <1>2, <3>2, <3>3, <3>4
  <2> QED
    BY <1>9, <2>1 DEF KeepsFenced, IInv, FencedOwner, Owns
<1> QED
  BY <1>3, <1>6, <1>7, <1>8, <1>10, <1>11, KeepsFencedInv DEF IInv

\* The update hands out leases under a fresh token.
LEMMA ClaimUpdateInv ==
    ASSUME IInv, NEW w \in Workers, ClaimUpdate(w)
    PROVE  IInv'
<1> DEFINE won == {j \in seen[w] : job[j].state \in Claimable}
<1>1. won \in SUBSET Jobs /\ \A j \in won : job[j].state \in Claimable
  BY DEF IInv, Locals
<1>2. /\ pc[w] = "locked"
      /\ job' = [j \in Jobs |-> IF j \in won THEN Claimed(job[j], nextToken) ELSE job[j]]
      /\ batch' = [batch EXCEPT ![w] = {<<j, nextToken>> : j \in won}]
      /\ nextToken' = IF won = {} THEN nextToken ELSE nextToken + 1
      /\ pc' = [pc EXCEPT ![w] = IF won = {} THEN "idle" ELSE "batch"]
      /\ UNCHANGED <<fence, cur, requeues, crashes>>
  BY DEF ClaimUpdate
<1>3. seen' \in [Workers -> SUBSET Jobs]
  BY DEF ClaimUpdate, IInv, Locals
<1>4. job \in [Jobs -> JobRecord] /\ \A j \in Jobs : RowOK(job[j])
  BY DEF IInv, Rows
<1>5. pc[w] \notin Executing
  BY <1>2 DEF Executing
<1> HIDE DEF won
<1> QED
  BY Zenon, <1>1, <1>2, <1>3, <1>4, <1>5, HandOutInv

\* Every step of the PostgreSQL claim keeps the invariant.
LEMMA ClaimInv ==
    ASSUME IInv, NEW w \in Workers, Claim(w)
    PROVE  IInv'
  BY ClaimRecoverInv, ClaimSnapshotInv, ClaimTryLockInv, ClaimUpdateInv DEF Claim

\* The in-memory claim recovers and hands out leases in one step.
LEMMA MemoryClaimInv ==
    ASSUME IInv, NEW w \in Workers, MemoryClaim(w)
    PROVE  IInv'
<1>1. PICK R \in SUBSET Jobs, S \in SUBSET Jobs :
          /\ Recoverable(R)
          /\ PerRepository(S, MemoryEligible(w, Recovered(R)))
          /\ job' = [j \in Jobs |-> IF j \in S THEN Claimed(Recovered(R)[j], nextToken)
                                               ELSE Recovered(R)[j]]
          /\ batch' = [batch EXCEPT ![w] = {<<j, nextToken>> : j \in S}]
          /\ nextToken' = IF S = {} THEN nextToken ELSE nextToken + 1
          /\ pc' = [pc EXCEPT ![w] = IF S = {} THEN "idle" ELSE "batch"]
  BY Zenon DEF MemoryClaim
<1> DEFINE base == Recovered(R)
<1>2. \A j \in Jobs : base[j] = IF j \in R THEN Released(job[j]) ELSE job[j]
  BY DEF Recovered
<1>3. \A j \in R : /\ job[j].state = "running" /\ fence[j] = NoWorker
                   /\ RowOK(Released(job[j])) /\ Released(job[j]).token = 0
  BY <1>1, RecoveredRows
<1>4. \A j \in Jobs : RowOK(base[j]) /\ base[j].token \in {job[j].token, 0}
  BY Zenon, <1>2, <1>3 DEF IInv, Rows
<1>5. base \in [Jobs -> JobRecord]
  BY Zenon, <1>4 DEF Recovered, RowOK
<1>6. \A j \in Jobs : fence[j] # NoWorker => base[j] = job[j]
  BY Zenon, <1>2, <1>3
<1>7. \A j \in S : base[j].state \in Claimable
  BY Zenon, <1>1 DEF PerRepository, MemoryEligible
<1>8. seen' \in [Workers -> SUBSET Jobs] /\ pc[w] \notin Executing
  BY Zenon DEF MemoryClaim, IInv, Locals, Executing
<1>9. UNCHANGED <<fence, cur, requeues, crashes>>
  BY DEF MemoryClaim
<1> HIDE DEF base
<1>10. job' = [j \in Jobs |-> IF j \in S THEN Claimed(base[j], nextToken) ELSE base[j]]
  BY <1>1 DEF base
<1> QED
  BY Zenon, <1>1, <1>4, <1>5, <1>6, <1>7, <1>8, <1>9, <1>10, HandOutInv

-----------------------------------------------------------------------------
(* Executing                                                               *)

\* Starting a lease moves it from the batch to the current one.
LEMMA StartJobInv ==
    ASSUME IInv, NEW w \in Workers, StartJob(w)
    PROVE  IInv'
<1>1. PICK l \in batch[w] : /\ cur' = [cur EXCEPT ![w] = l]
                            /\ batch' = [batch EXCEPT ![w] = @ \ {l}]
  BY Zenon DEF StartJob
<1>2. l \in Leases /\ l # NoLease /\ cur[w] = NoLease
  BY SentinelAssumption DEF StartJob, IInv, Locals, Executing
<1>3. pc[w] = "batch" /\ pc' = [pc EXCEPT ![w] = "running"]
  BY DEF StartJob
<1>4. NoNewLease
  BY <1>1, <1>2 DEF NoNewLease, Held, IInv, Locals
<1>5. Locals'
  BY <1>1, <1>2, <1>3 DEF StartJob, IInv, Locals, Steps, Executing
<1>6. Lock'
  BY <1>1, <1>3 DEF StartJob, IInv, Locals, Lock
<1>7. RowsStep /\ KeepsFenced
  BY <1>1, <1>3 DEF StartJob, RowsStep, KeepsFenced, IInv, Rows, Locals, FencedOwner, Owns
<1> QED
  BY <1>4, <1>5, <1>6, <1>7, RowsStepInv, KeepsFencedInv DEF StartJob, IInv

\* A worker at work holds a lease of a job.
LEMMA CurrentLease ==
    ASSUME IInv, NEW w \in Workers, pc[w] \in Executing
    PROVE  cur[w] \in Leases /\ cur[w][1] \in Jobs /\ RowOK(job[cur[w][1]])
  BY DEF IInv, Locals, Rows, Leases

\* A progress report renews the clock of a row its worker owns.
LEMMA ProgressInv ==
    ASSUME IInv, NEW w \in Workers, UpdateLifecycleJobProgress(w)
    PROVE  IInv'
<1>1. pc[w] = "running" /\ pc[w] \in Executing
  BY DEF UpdateLifecycleJobProgress, Executing
<1>2. CASE Owns(cur[w])
  <2> DEFINE j == cur[w][1]
  <2> DEFINE r == Clocked(job[j], TRUE, job[j].due)
  <2>1. j \in Jobs /\ RowOK(job[j]) /\ job[j].due \in BOOLEAN
    BY <1>1, CurrentLease DEF RowOK, JobRecord
  <2>2. RowOK(r) /\ r.token = job[j].token /\ r.state = job[j].state
    BY Zenon, <2>1, ClockedRow
  <2>3. job' = [job EXCEPT ![j] = r] /\ requeues' \in Nat
    BY Zenon, <1>2 DEF UpdateLifecycleJobProgress, IInv, Locals
  <2>4. UNCHANGED <<nextToken, fence, pc, seen, batch, cur, crashes>>
    BY <1>2 DEF UpdateLifecycleJobProgress
  <2> HIDE DEF r, j
  <2> QED
    BY ZenonT(40), <2>1, <2>2, <2>3, <2>4, OneRowInv
<1>3. CASE ~Owns(cur[w])
  BY <1>1, <1>3, QuietInv DEF UpdateLifecycleJobProgress, Steps, Executing, IInv, Locals
<1> QED
  BY Zenon, <1>2, <1>3

\* A failed heartbeat only stops its worker.
LEMMA HeartbeatInv ==
    ASSUME IInv, NEW w \in Workers, HeartbeatFails(w)
    PROVE  IInv'
  BY Zenon, QuietInv DEF HeartbeatFails, Steps, Executing, IInv, Locals

\* What a worker writes to its own row disturbs nobody inside the lock.
OthersFencedKept(w) ==
    \A v \in Workers \ {w} : pc[v] = "fenced" => job'[cur[v][1]] = job[cur[v][1]]

\* A worker that settles the row it owns disturbs nobody inside the lock.
LEMMA OwnRowStep ==
    ASSUME IInv, NEW w \in Workers, pc[w] \in Executing, Owns(cur[w]), NEW r,
           RowOK(r), r.token = 0, job' = [job EXCEPT ![cur[w][1]] = r]
    PROVE  RowsStep /\ OthersFencedKept(w)
<1>1. cur[w][1] \in Jobs
  BY CurrentLease
<1>2. RowsStep /\ \A i \in Jobs : job'[i] = IF i = cur[w][1] THEN r ELSE job[i]
  BY ZenonT(40), <1>1, OneRowStep
<1>3. ASSUME NEW v \in Workers \ {w}, pc[v] = "fenced"
      PROVE  job'[cur[v][1]] = job[cur[v][1]]
  <2>1. cur[v][1] # cur[w][1]
    BY <1>3, FencedAlone
  <2>2. cur[v][1] \in Jobs
    BY <1>3, CurrentLease DEF Executing
  <2> QED
    BY <1>2, <2>1, <2>2
<1> QED
  BY <1>2, <1>3 DEF OthersFencedKept

\* A table that does not change is a step of rows.
LEMMA SameRowsStep ==
    ASSUME IInv, NEW w \in Workers, UNCHANGED job
    PROVE  RowsStep /\ OthersFencedKept(w)
  BY DEF RowsStep, OthersFencedKept, IInv, Rows

\* Completion rewrites at most the row of the lease.
LEMMA CompleteStep ==
    ASSUME IInv, NEW w \in Workers, pc[w] \in Executing,
           CompleteLifecycleJob(cur[w]) \/ UNCHANGED job
    PROVE  RowsStep /\ OthersFencedKept(w)
<1>1. RowOK(job[cur[w][1]])
  BY CurrentLease
<1>2. CASE Owns(cur[w]) /\ job' = [job EXCEPT ![cur[w][1]] = Completed(job[cur[w][1]])]
  BY Zenon, <1>1, <1>2, SettledRow, OwnRowStep
<1>3. CASE UNCHANGED job
  BY <1>3, SameRowsStep
<1> QED
  BY <1>2, <1>3 DEF CompleteLifecycleJob

\* Failure rewrites at most the row of the lease.
LEMMA FailStep ==
    ASSUME IInv, NEW w \in Workers, pc[w] \in Executing, FailLifecycleJob(cur[w])
    PROVE  RowsStep /\ OthersFencedKept(w)
<1>1. RowOK(job[cur[w][1]])
  BY CurrentLease
<1>2. CASE Owns(cur[w])
  <2>1. job' = [job EXCEPT ![cur[w][1]] = Released(job[cur[w][1]])]
    BY <1>2 DEF FailLifecycleJob
  <2> QED
    BY Zenon, <1>1, <1>2, <2>1, ReleasedRow, OwnRowStep DEF Owns
<1>3. CASE ~Owns(cur[w])
  BY <1>3, SameRowsStep DEF FailLifecycleJob
<1> QED
  BY <1>2, <1>3

\* A worker that is done with its lease, whatever it wrote to its row.
LEMMA FinishInv ==
    ASSUME IInv, NEW w \in Workers, pc[w] \in Executing,
           RowsStep, OthersFencedKept(w), NextInBatch(w), Lock',
           fence' \in [Jobs -> Workers \union {NoWorker}],
           UNCHANGED <<nextToken, seen, batch, requeues, crashes>>
    PROVE  IInv'
<1>1. /\ cur' = [cur EXCEPT ![w] = NoLease]
      /\ pc' = [pc EXCEPT ![w] = IF batch[w] = {} THEN "idle" ELSE "batch"]
  BY DEF NextInBatch
<1>2. \A v \in Workers : /\ cur'[v] = IF v = w THEN NoLease ELSE cur[v]
                         /\ v # w => pc'[v] = pc[v]
                         /\ v = w => pc'[v] \in {"idle", "batch"}
  BY <1>1 DEF IInv, Locals
<1>3. NoNewLease
  BY Zenon, <1>2 DEF NoNewLease, Held
<1>4. Locals'
  BY Zenon, <1>1, <1>2 DEF IInv, Locals, Steps, Executing
<1>5. KeepsFenced
  BY <1>2 DEF KeepsFenced, OthersFencedKept, IInv, FencedOwner, Owns
<1> QED
  BY <1>3, <1>4, <1>5, RowsStepInv, KeepsFencedInv DEF IInv

\* Leaving a lease that is not locked leaves the locks as they are.
LEMMA FinishUnlocked ==
    ASSUME IInv, NEW w \in Workers, pc[w] \in {"running", "lost"},
           NextInBatch(w), UNCHANGED fence
    PROVE  Lock' /\ fence' \in [Jobs -> Workers \union {NoWorker}]
  BY DEF IInv, Locals, Lock, NextInBatch

\* A worker without the lease lock completes its job.
LEMMA CompleteJobInv ==
    ASSUME IInv, NEW w \in Workers, CompleteJob(w)
    PROVE  IInv'
<1>1. pc[w] = "running" /\ pc[w] \in Executing
  BY DEF CompleteJob, Executing
<1>2. RowsStep /\ OthersFencedKept(w)
  BY <1>1, CompleteStep DEF CompleteJob
<1>3. Lock' /\ fence' \in [Jobs -> Workers \union {NoWorker}]
  BY Zenon, <1>1, FinishUnlocked DEF CompleteJob
<1> QED
  BY Zenon, <1>1, <1>2, <1>3, FinishInv DEF CompleteJob

\* A worker without the lease lock fails its job.
LEMMA FailJobInv ==
    ASSUME IInv, NEW w \in Workers, FailJob(w)
    PROVE  IInv'
<1>1. pc[w] \in {"running", "lost"} /\ pc[w] \in Executing
  BY Zenon DEF FailJob, Executing
<1>2. RowsStep /\ OthersFencedKept(w)
  BY <1>1, FailStep DEF FailJob
<1>3. Lock' /\ fence' \in [Jobs -> Workers \union {NoWorker}]
  BY <1>1, FinishUnlocked DEF FailJob
<1> QED
  BY Zenon, <1>1, <1>2, <1>3, FinishInv DEF FailJob

\* A worker lets go of a lease without touching the row.
LEMMA AbandonJobInv ==
    ASSUME IInv, NEW w \in Workers, AbandonJob(w)
    PROVE  IInv'
<1>1. pc[w] \in {"running", "lost"} /\ pc[w] \in Executing
  BY DEF AbandonJob, Executing
<1>2. RowsStep /\ OthersFencedKept(w)
  BY SameRowsStep DEF AbandonJob
<1>3. Lock' /\ fence' \in [Jobs -> Workers \union {NoWorker}]
  BY <1>1, FinishUnlocked DEF AbandonJob
<1> QED
  BY <1>1, <1>2, <1>3, FinishInv DEF AbandonJob

\* Taking the lease lock establishes FencedOwner: the row is tested under it.
LEMMA LockLeaseInv ==
    ASSUME IInv, NEW w \in Workers, LockLifecycleJobLease(w)
    PROVE  IInv'
<1>1. pc[w] = "running" /\ pc[w] \in Executing /\ fence[cur[w][1]] = NoWorker
  BY Zenon DEF LockLifecycleJobLease, Executing
<1>2. cur[w] \in Leases /\ cur[w][1] \in Jobs
  BY <1>1, CurrentLease
<1>3. CASE Owns(cur[w]) /\ job[cur[w][1]].live
  <2>1. /\ fence' = [fence EXCEPT ![cur[w][1]] = w]
        /\ pc' = [pc EXCEPT ![w] = "fenced"]
        /\ UNCHANGED <<job, nextToken, seen, batch, cur, requeues, crashes>>
    BY Zenon, <1>3 DEF LockLifecycleJobLease
  <2>2. RowsStep /\ NoNewLease
    BY Zenon, <2>1 DEF RowsStep, NoNewLease, Held, IInv, Rows
  <2>3. Locals'
    BY Zenon, <1>1, <1>2, <2>1 DEF IInv, Locals, Steps, Executing
  <2>4. Lock'
    <3>1. \A v \in Workers : pc'[v] = IF v = w THEN "fenced" ELSE pc[v]
      BY Zenon, <2>1 DEF IInv, Locals
    <3>2. \A j \in Jobs : fence'[j] = IF j = cur[w][1] THEN w ELSE fence[j]
      BY Zenon, <2>1 DEF IInv, Locals
    <3>3. ASSUME NEW v \in Workers, v # w, pc[v] \in {"fenced", "releasing"}
          PROVE  cur[v][1] \in Jobs /\ cur[v][1] # cur[w][1]
      <4>1. fence[cur[v][1]] = v
        BY Zenon, <3>3 DEF IInv, Lock
      <4>2. cur[v][1] \in Jobs
        BY ZenonT(40), <3>3, CurrentLease DEF Executing
      <4> QED
        BY Zenon, <1>1, <4>1, <4>2, SentinelAssumption
    <3> QED
      BY <1>1, <1>2, <2>1, <3>1, <3>2, <3>3 DEF IInv, Lock
  <2>5. FencedOwner'
    <3>1. /\ \A v \in Workers : pc'[v] = IF v = w THEN "fenced" ELSE pc[v]
          /\ job' = job /\ cur' = cur
      BY Zenon, <2>1 DEF IInv, Locals
    <3>2. \A v \in Workers : pc'[v] = "fenced" => fence'[cur'[v][1]] = v
      BY Zenon, <2>4 DEF Lock
    <3>3. \A v \in Workers : pc'[v] = "fenced" => Owns(cur[v])
      BY Zenon, <1>3, <3>1 DEF IInv, FencedOwner
    <3> QED
      BY Zenon, <3>1, <3>2, <3>3 DEF FencedOwner, Owns
  <2> QED
    BY Zenon, <2>1, <2>2, <2>3, <2>4, <2>5, RowsStepInv DEF IInv
<1>4. CASE ~(Owns(cur[w]) /\ job[cur[w][1]].live)
  <2>1. NextInBatch(w) /\ UNCHANGED <<job, fence, nextToken, seen, batch, requeues, crashes>>
    BY Zenon, <1>4 DEF LockLifecycleJobLease
  <2>2. Lock' /\ fence' \in [Jobs -> Workers \union {NoWorker}]
    BY <1>1, <2>1, FinishUnlocked
  <2>3. RowsStep /\ OthersFencedKept(w)
    BY <2>1, SameRowsStep
  <2> QED
    BY Zenon, <1>1, <2>1, <2>2, <2>3, FinishInv
<1> QED
  BY Zenon, <1>3, <1>4

\* The holder of the lease lock completes its job and keeps the lock.
LEMMA CompleteFencedInv ==
    ASSUME IInv, NEW w \in Workers, CompleteFenced(w)
    PROVE  IInv'
<1>1. pc[w] = "fenced" /\ pc[w] \in Executing /\ pc' = [pc EXCEPT ![w] = "releasing"]
  BY DEF CompleteFenced, Executing
<1>2. RowsStep /\ OthersFencedKept(w)
  BY <1>1, CompleteStep DEF CompleteFenced
<1>3. UNCHANGED <<nextToken, fence, seen, batch, cur, requeues, crashes>>
  BY DEF CompleteFenced
<1>4. \A v \in Workers : pc'[v] = IF v = w THEN "releasing" ELSE pc[v]
  BY Zenon, <1>1 DEF IInv, Locals
<1>5. NoNewLease /\ Locals'
  BY Zenon, <1>1, <1>3, <1>4 DEF NoNewLease, Held, IInv, Locals, Steps, Executing
<1>6. Lock'
  <2>1. \A v \in Workers : pc'[v] \in {"fenced", "releasing"} <=> pc[v] \in {"fenced", "releasing"}
    BY <1>1, <1>4
  <2> QED
    BY Zenon, <1>3, <2>1 DEF IInv, Lock
<1>7. KeepsFenced
  BY SMTT(20), <1>2, <1>3, <1>4 DEF KeepsFenced, OthersFencedKept, IInv, FencedOwner, Owns
<1> QED
  BY <1>2, <1>3, <1>5, <1>6, <1>7, RowsStepInv, KeepsFencedInv DEF IInv

\* Giving the lease lock back.
LEMMA UnlockInv ==
    ASSUME IInv, NEW w \in Workers, pc[w] \in {"fenced", "releasing"},
           fence' = [fence EXCEPT ![cur[w][1]] = NoWorker],
           \A v \in Workers : v # w => pc'[v] = pc[v] /\ cur'[v] = cur[v],
           pc'[w] \notin {"fenced", "releasing"}
    PROVE  Lock' /\ fence' \in [Jobs -> Workers \union {NoWorker}]
<1>1. cur[w][1] \in Jobs /\ fence[cur[w][1]] = w
  BY Zenon, CurrentLease DEF Executing, IInv, Lock
<1>2. \A j \in Jobs : fence'[j] = IF j = cur[w][1] THEN NoWorker ELSE fence[j]
  BY Zenon DEF IInv, Locals
<1>3. ASSUME NEW v \in Workers, v # w, pc[v] \in {"fenced", "releasing"}
      PROVE  cur[v][1] \in Jobs /\ cur[v][1] # cur[w][1]
  BY Zenon, <1>1, <1>3, CurrentLease DEF Executing, IInv, Lock
<1>4. ASSUME NEW j \in Jobs, NEW v \in Workers, fence'[j] = v
      PROVE  fence[j] = v /\ v # w
  BY <1>1, <1>2, <1>4, SentinelAssumption DEF IInv, Lock
<1>5. fence' \in [Jobs -> Workers \union {NoWorker}]
  BY ZenonT(40) DEF IInv, Locals
<1> QED
  BY <1>2, <1>3, <1>4, <1>5 DEF IInv, Lock

\* The lock is released once the job is settled.
LEMMA ReleaseLeaseInv ==
    ASSUME IInv, NEW w \in Workers, ReleaseLease(w)
    PROVE  IInv'
<1>1. pc[w] = "releasing" /\ pc[w] \in Executing
  BY DEF ReleaseLease, Executing
<1>2. RowsStep /\ OthersFencedKept(w)
  BY SameRowsStep DEF ReleaseLease
<1>3. Lock' /\ fence' \in [Jobs -> Workers \union {NoWorker}]
  <2>1. \A v \in Workers : v # w => pc'[v] = pc[v] /\ cur'[v] = cur[v]
    BY DEF ReleaseLease, NextInBatch, IInv, Locals
  <2>2. pc'[w] \notin {"fenced", "releasing"}
    BY DEF ReleaseLease, NextInBatch, IInv, Locals
  <2> QED
    BY Zenon, <1>1, <2>1, <2>2, UnlockInv DEF ReleaseLease
<1> QED
  BY <1>1, <1>2, <1>3, FinishInv DEF ReleaseLease

\* A failed publication releases the lock and keeps the lease.
LEMMA PublishFailedInv ==
    ASSUME IInv, NEW w \in Workers, PublishFailed(w)
    PROVE  IInv'
<1>1. pc[w] = "fenced" /\ pc' = [pc EXCEPT ![w] = "lost"]
  BY DEF PublishFailed
<1>2. \A v \in Workers : pc'[v] = IF v = w THEN "lost" ELSE pc[v]
  BY <1>1 DEF IInv, Locals
<1>3. UNCHANGED <<job, nextToken, seen, batch, cur, requeues, crashes>>
  BY Zenon DEF PublishFailed
<1>4. Lock' /\ fence' \in [Jobs -> Workers \union {NoWorker}]
  BY Zenon, <1>1, <1>2, <1>3, UnlockInv DEF PublishFailed
<1>5. NoNewLease /\ Locals'
  <2>1. NoNewLease
    BY <1>3 DEF NoNewLease, Held
  <2>2. pc' \in [Workers -> Steps]
    BY <1>1 DEF IInv, Locals, Steps
  <2>3. \A v \in Workers : pc'[v] \in Executing <=> cur'[v] # NoLease
    BY <1>1, <1>2, <1>3 DEF IInv, Locals, Executing
  <2> QED
    BY Zenon, <1>3, <1>4, <2>1, <2>2, <2>3 DEF IInv, Locals
<1>6. RowsStep /\ KeepsFenced
  <2>1. RowsStep
    BY SMTT(20), <1>3 DEF RowsStep, IInv, Rows
  <2>2. KeepsFenced
    BY SMTT(20), <1>2, <1>3 DEF KeepsFenced, IInv, FencedOwner, Owns
  <2> QED
    BY Zenon, <2>1, <2>2
<1> QED
  BY <1>3, <1>4, <1>5, <1>6, RowsStepInv, KeepsFencedInv DEF IInv

\* A crash drops the locks and leases of one worker.
LEMMA CrashInv ==
    ASSUME IInv, NEW w \in Workers, Crash(w)
    PROVE  IInv'
<1>1. \A v \in Workers : /\ pc'[v] = IF v = w THEN "idle" ELSE pc[v]
                         /\ cur'[v] = IF v = w THEN NoLease ELSE cur[v]
                         /\ batch'[v] = IF v = w THEN {} ELSE batch[v]
  BY Zenon DEF Crash, IInv, Locals
<1>2. NoNewLease
  BY Zenon, <1>1 DEF NoNewLease, Held
<1>3. Locals'
  BY SMTT(20), <1>1 DEF Crash, IInv, Locals, Steps, Executing
<1>4. Lock'
  <2>1. \A j \in Jobs : fence'[j] = IF fence[j] = w THEN NoWorker ELSE fence[j]
    BY Zenon DEF Crash
  <2>2. \A v \in Workers : pc[v] \in {"fenced", "releasing"} => cur[v][1] \in Jobs
    BY ZenonT(40), CurrentLease DEF Executing
  <2> QED
    BY <1>1, <2>1, <2>2, SentinelAssumption DEF IInv, Lock
<1>5. RowsStep /\ KeepsFenced
  BY <1>1 DEF Crash, RowsStep, KeepsFenced, IInv, Rows, FencedOwner, Owns
<1> QED
  BY <1>2, <1>3, <1>4, <1>5, RowsStepInv, KeepsFencedInv DEF Crash, IInv

\* Every step of a worker with a lease keeps the invariant.
LEMMA ExecuteInv ==
    ASSUME IInv, NEW w \in Workers, Execute(w)
    PROVE  IInv'
  BY ZenonT(40), StartJobInv, ProgressInv, HeartbeatInv, CompleteJobInv, FailJobInv,
     AbandonJobInv, LockLeaseInv, CompleteFencedInv, ReleaseLeaseInv,
     PublishFailedInv
     DEF Execute

-----------------------------------------------------------------------------
(* The invariant is inductive                                              *)

\* So does a stuttering step.
LEMMA StutterInv == IInv /\ UNCHANGED vars => IInv'
<1> SUFFICES ASSUME IInv, UNCHANGED vars PROVE IInv'
  BY Zenon
<1>1. RowsStep /\ requeues' \in Nat
  BY ZenonT(40) DEF vars, RowsStep, IInv, Rows, Locals
<1>2. \A w \in Workers : pc[w] = "fenced"
         => /\ job'[cur[w][1]].state = "running"
            /\ job'[cur[w][1]].token = job[cur[w][1]].token
  BY DEF vars, IInv, FencedOwner, Owns
<1> QED
  BY <1>1, <1>2, TableStepInv DEF vars

\* Every step of the queue in PostgreSQL keeps the invariant.
LEMMA NextInv == IInv /\ [Next]_vars => IInv'
  BY RecoverInv, ControlInv, ClaimInv, ExecuteInv, CrashInv, StutterInv DEF Next

\* Every step of the queue in memory keeps the invariant.
LEMMA MemoryNextInv == IInv /\ [MemoryNext]_vars => IInv'
  BY RecoverInv, ControlInv, MemoryClaimInv, ExecuteInv, StutterInv
     DEF MemoryNext, MemoryRecoverExpired

-----------------------------------------------------------------------------
(* Theorems: invariants                                                    *)

\* The invariant holds throughout, in PostgreSQL.
LEMMA Invariance == Spec => []IInv
  BY InitInv, NextInv, PTL DEF Spec

\* The invariant holds throughout, in memory.
LEMMA MemoryInvariance == MemorySpec => []IInv
  BY InitInv, MemoryNextInv, PTL DEF MemorySpec

\* The table and every worker's local state stay well typed.
THEOREM TypeCorrect == Spec => []TypeOK
<1>1. IInv => TypeOK
  BY DEF IInv, Rows, Tokens, Locals, TypeOK
<1> QED
  BY <1>1, Invariance, PTL

\* A row carries a token exactly while it runs and tokens are never reused.
THEOREM TokensDisciplined == Spec => []TokenDiscipline
<1>1. IInv => TokenDiscipline
  BY DEF IInv, Rows, RowOK, Tokens, TokenDiscipline
<1> QED
  BY <1>1, Invariance, PTL

\* claimLifecycleJobs never puts one lease in the hands of two workers.
THEOREM LeasesExclusive == Spec => []OneHolderPerLease
<1>1. IInv => OneHolderPerLease
  BY Zenon DEF IInv
<1> QED
  BY <1>1, Invariance, PTL

\* No job is attempted more often than max_attempts, although the claiming
\* UPDATE tests only the state of the row it locks.
THEOREM AttemptsBounded == Spec => []AttemptBudget
<1>1. IInv => AttemptBudget
  BY DEF IInv, Rows, RowOK, AttemptBudget, Claimable
<1> QED
  BY <1>1, Invariance, PTL

\* LockLifecycleJobLease fences a publication: the job stays the worker's own
\* until the worker itself settles it.
THEOREM PublicationFenced == Spec => []FencedOwner
<1>1. IInv => FencedOwner
  BY DEF IInv
<1> QED
  BY <1>1, Invariance, PTL

\* The in-memory store gives the same guarantees.
THEOREM MemorySafe == MemorySpec => [](TypeOK /\ AttemptBudget /\ FencedOwner)
<1>1. IInv => TypeOK /\ AttemptBudget /\ FencedOwner
  BY Zenon DEF IInv, Rows, RowOK, Tokens, Locals, TypeOK, AttemptBudget, Claimable
<1> QED
  BY <1>1, MemoryInvariance, PTL

-----------------------------------------------------------------------------
(* Theorems: what a step may do to a row                                   *)

\* The ways a row moves in a step that claims nothing.
Requeues(j) == /\ job[j].state \in Parked
               /\ job'[j].state = "pending" /\ job'[j].attempts = 0
               /\ requeues' = requeues + 1
NobodyReports == \A w \in Workers : pc[w] \in {"running", "lost", "fenced"} => pc'[w] = pc[w]
Reclaimed(j) == /\ job[j].state = "running" /\ fence[j] = NoWorker
                /\ ClockSkew \/ ~job[j].live
                /\ job'[j].state \in {"failed", "retrying"}
                /\ NobodyReports
SettledBy(j, w) == /\ job[j].state = "running" /\ cur[w] = <<j, job[j].token>>
                   /\ pc[w] \in {"running", "lost", "fenced"} /\ pc'[w] # pc[w]
                   /\ job'[j].state # "running"
RowMove(j) ==
    \/ job'[j] = job[j]
    \/ job[j].state \in Claimable \union {"absent"} /\ job'[j].state # "running"
    \/ job[j].state = "running" /\ job'[j].state = "running"
    \/ Requeues(j)
    \/ Reclaimed(j)
    \/ \E w \in Workers : SettledBy(j, w)
Started(j) == job[j].state \in Claimable /\ job'[j].state = "running"

\* Recovery takes rows that nobody has locked and whose lease ran out.
LEMMA RecoveredMoves ==
    ASSUME IInv, NEW S \in SUBSET Jobs, Recoverable(S), NEW j \in S
    PROVE  /\ job[j].state = "running" /\ fence[j] = NoWorker
           /\ ClockSkew \/ ~job[j].live
           /\ Released(job[j]).state \in {"failed", "retrying"}
  BY Zenon DEF Recoverable, Released

\* Recovery releases expired rows nobody has locked.
LEMMA RecoverMoves ==
    ASSUME IInv, NEW S \in SUBSET Jobs, Recoverable(S), job' = Recovered(S),
           NobodyReports, NEW j \in Jobs
    PROVE  RowMove(j)
<1>1. job'[j] = IF j \in S THEN Released(job[j]) ELSE job[j]
  BY Zenon DEF Recovered
<1> QED
  BY <1>1, RecoveredMoves DEF RowMove, Reclaimed

\* An operator, or time, moves a row only in the ways allowed.
LEMMA ControlMoves ==
    ASSUME IInv, NEW i \in Jobs, Control(i), NEW j \in Jobs
    PROVE  RowMove(j)
<1>1. CASE EnqueueLifecycleJob(i)
  BY Zenon, <1>1 DEF EnqueueLifecycleJob, RowMove, IInv, Rows, Queued
<1>2. CASE RunLifecycleJobNow(i)
  BY Zenon, <1>2 DEF RunLifecycleJobNow, RowMove, IInv, Rows, Queued
<1>3. CASE RetryLifecycleJob(i)
  BY Zenon, <1>3 DEF RetryLifecycleJob, RowMove, Requeues, IInv, Rows, Retried
<1>4. CASE RequeueFailedLifecycleJobs(RepositoryOf[i], KindOf[i])
  <2>1. PICK S \in SUBSET ParkedIn(RepositoryOf[i], KindOf[i]) :
           job' = [k \in Jobs |-> IF k \in S THEN Reset(job[k]) ELSE job[k]]
    BY Zenon, <1>4 DEF RequeueFailedLifecycleJobs
  <2>2. j \in S => job[j].state \in Parked
    BY Zenon DEF ParkedIn
  <2>3. requeues' = requeues + 1
    BY Zenon, <1>4 DEF RequeueFailedLifecycleJobs
  <2> QED
    BY Zenon, <2>1, <2>2, <2>3 DEF RowMove, Requeues, Reset
<1>5. CASE CancelLifecycleJob(i)
  BY Zenon, <1>5 DEF CancelLifecycleJob, RowMove, IInv, Rows, Cancelled
<1>6. CASE LeaseExpires(i)
  BY Zenon, <1>6 DEF LeaseExpires, RowMove, IInv, Rows, Clocked
<1>7. CASE BecomesDue(i)
  BY Zenon, <1>7 DEF BecomesDue, RowMove, IInv, Rows, Clocked, Claimable
<1> QED
  BY Zenon, <1>1, <1>2, <1>3, <1>4, <1>5, <1>6, <1>7 DEF Control

\* A worker settles only the row it owns.
LEMMA WriteMoves ==
    ASSUME IInv, NEW w \in Workers, pc[w] \in {"running", "lost", "fenced"},
           pc'[w] # pc[w], NEW j \in Jobs,
           \/ CompleteLifecycleJob(cur[w])
           \/ FailLifecycleJob(cur[w])
           \/ UNCHANGED job
    PROVE  RowMove(j)
<1>1. cur[w] \in Leases /\ cur[w][1] \in Jobs
  BY Zenon, CurrentLease DEF Executing
<1>2. CASE UNCHANGED job
  BY Zenon, <1>2 DEF RowMove
<1>3. ASSUME NEW r, Owns(cur[w]), r.state # "running",
             job' = [job EXCEPT ![cur[w][1]] = r]
      PROVE  RowMove(j)
  <2>1. CASE j # cur[w][1]
    BY Zenon, <1>3, <2>1 DEF RowMove, IInv, Rows
  <2>2. CASE j = cur[w][1]
    <3>1. cur[w] = <<j, job[j].token>> /\ job[j].state = "running"
      BY <1>1, <1>3, <2>2 DEF Owns, Leases
    <3>2. job'[j] = r
      BY Zenon, <1>3, <2>2 DEF IInv, Rows
    <3> QED
      BY ZenonT(40), <1>3, <3>1, <3>2 DEF RowMove, SettledBy
  <2> QED
    BY Zenon, <2>1, <2>2
<1>4. Completed(job[cur[w][1]]).state # "running" /\ Released(job[cur[w][1]]).state # "running"
  BY Zenon DEF Completed, Released
<1> QED
  BY Zenon, <1>2, <1>3, <1>4 DEF CompleteLifecycleJob, FailLifecycleJob

\* A worker moves only the row of the lease it gives up.
LEMMA ExecuteMoves ==
    ASSUME IInv, NEW w \in Workers, Execute(w), NEW j \in Jobs
    PROVE  RowMove(j)
<1>1. CASE UpdateLifecycleJobProgress(w)
  BY <1>1 DEF UpdateLifecycleJobProgress, RowMove, Owns, Clocked, IInv, Rows
<1>2. CASE CompleteJob(w)
  <2>1. pc[w] = "running" /\ pc'[w] # pc[w]
    BY Zenon, <1>2 DEF CompleteJob, NextInBatch, IInv, Locals
  <2> QED
    BY Zenon, <1>2, <2>1, WriteMoves DEF CompleteJob
<1>3. CASE FailJob(w)
  <2>1. pc[w] \in {"running", "lost"} /\ pc'[w] # pc[w]
    BY Zenon, <1>3 DEF FailJob, NextInBatch, IInv, Locals
  <2> QED
    BY Zenon, <1>3, <2>1, WriteMoves DEF FailJob
<1>4. CASE CompleteFenced(w)
  <2>1. pc[w] = "fenced" /\ pc'[w] # pc[w]
    BY Zenon, <1>4 DEF CompleteFenced, IInv, Locals
  <2> QED
    BY Zenon, <1>4, <2>1, WriteMoves DEF CompleteFenced
<1>5. CASE UNCHANGED job
  BY Zenon, <1>5 DEF RowMove
<1> QED
  BY ZenonT(40), <1>1, <1>2, <1>3, <1>4, <1>5
     DEF Execute, StartJob, HeartbeatFails, AbandonJob, LockLifecycleJobLease,
         ReleaseLease, PublishFailed

\* A claim moves rows by recovery and by starting them.
LEMMA ClaimMoves ==
    ASSUME IInv, NEW w \in Workers, Claim(w), NEW j \in Jobs
    PROVE  RowMove(j) \/ Started(j)
<1>1. CASE ClaimRecover(w)
  <2>1. NobodyReports
    BY Zenon, <1>1 DEF ClaimRecover, NobodyReports, IInv, Locals
  <2> QED
    BY Zenon, <1>1, <2>1, RecoverMoves DEF ClaimRecover
<1>2. CASE ClaimUpdate(w)
  BY Zenon, <1>2 DEF ClaimUpdate, Claimed, RowMove, Started
<1>3. CASE UNCHANGED job
  BY Zenon, <1>3 DEF RowMove
<1> QED
  BY Zenon, <1>1, <1>2, <1>3 DEF Claim, ClaimSnapshot, ClaimTryLock

\* Every step moves every row in an allowed way.
LEMMA NextMoves ==
    ASSUME IInv, [Next]_vars, NEW j \in Jobs
    PROVE  RowMove(j) \/ Started(j)
<1>1. CASE RecoverExpiredLifecycleJobs
  BY Zenon, <1>1, RecoverMoves DEF RecoverExpiredLifecycleJobs, NobodyReports
<1>2. ASSUME NEW w \in Workers, Crash(w) PROVE RowMove(j)
  BY Zenon, <1>2 DEF Crash, RowMove
<1>3. CASE UNCHANGED vars
  BY <1>3 DEF vars, RowMove
<1> QED
  BY Zenon, <1>1, <1>2, <1>3, ControlMoves, ClaimMoves, ExecuteMoves DEF Next

\* A worker whose lease was taken over can neither complete nor fail the job:
\* a running row is settled by the holder of its current lease, or released
\* by recovery of an expired lease that nobody has locked, while no worker
\* reports.
THEOREM SettlementFenced == Spec => SettledByHolderOrExpiry
<1> DEFINE Settlement(j) ==
        (job[j].state = "running" /\ job'[j].state # "running")
        => \/ \E w \in Workers : /\ cur[w] = <<j, job[j].token>>
                                 /\ pc[w] \in {"running", "lost", "fenced"}
                                 /\ pc'[w] # pc[w]
           \/ job'[j].state # "completed" /\ fence[j] = NoWorker
                 /\ (ClockSkew \/ ~job[j].live)
                 /\ \A w \in Workers :
                       pc[w] \in {"running", "lost", "fenced"} => pc'[w] = pc[w]
<1>1. ASSUME IInv, [Next]_vars, NEW j \in Jobs PROVE Settlement(j)
  BY Zenon, <1>1, NextMoves
     DEF RowMove, Started, Requeues, Reclaimed, NobodyReports, SettledBy, Claimable, Parked
<1>2. IInv /\ [Next]_vars => [\A j \in Jobs : Settlement(j)]_vars
  BY Zenon, <1>1
<1> QED
  BY <1>2, Invariance, PTL DEF Spec, SettledByHolderOrExpiry

\* A completed job never changes again, and a failed or cancelled one comes
\* back only through an operator's retry, with a fresh budget.
THEOREM SettledForGood == Spec => SettledIsFinal
<1> DEFINE Final(j) ==
        /\ job[j].state = "completed" => job'[j] = job[j]
        /\ (job[j].state \in Parked /\ job'[j].state # job[j].state)
           => job'[j].attempts = 0 /\ requeues' = requeues + 1
<1>1. ASSUME IInv, [Next]_vars, NEW j \in Jobs PROVE Final(j)
  BY Zenon, <1>1, NextMoves
     DEF RowMove, Started, Requeues, Reclaimed, SettledBy, Claimable, Parked
<1>2. IInv /\ [Next]_vars => [\A j \in Jobs : Final(j)]_vars
  BY Zenon, <1>1
<1> QED
  BY <1>2, Invariance, PTL DEF Spec, SettledIsFinal

-----------------------------------------------------------------------------
(* Theorems: the in-memory queue runs one job of a repository at a time    *)

\* Only a claim starts a row.
LEMMA MoveKeepsOneRunning ==
    ASSUME OneRunningPerRepository, \A j \in Jobs : RowMove(j)
    PROVE  OneRunningPerRepository'
<1>1. \A j \in Jobs : job'[j].state = "running" => job[j].state = "running"
  BY Zenon DEF RowMove, Requeues, Reclaimed, SettledBy
<1> QED
  BY Zenon, <1>1 DEF OneRunningPerRepository

\* The in-memory claim starts one job in a repository with none running.
LEMMA MemoryClaimKeepsOneRunning ==
    ASSUME IInv, OneRunningPerRepository, NEW w \in Workers, MemoryClaim(w)
    PROVE  OneRunningPerRepository'
<1>1. PICK R \in SUBSET Jobs, S \in SUBSET Jobs :
          /\ Recoverable(R)
          /\ PerRepository(S, MemoryEligible(w, Recovered(R)))
          /\ job' = [j \in Jobs |-> IF j \in S THEN Claimed(Recovered(R)[j], nextToken)
                                               ELSE Recovered(R)[j]]
  BY Zenon DEF MemoryClaim
<1>2. \A j \in Jobs : Recovered(R)[j] = IF j \in R THEN Released(job[j]) ELSE job[j]
  BY Zenon DEF Recovered
<1>3. \A j \in Jobs \ S : job'[j].state = "running" => /\ Recovered(R)[j].state = "running"
                                                       /\ job[j].state = "running"
  BY ZenonT(40), <1>1, <1>2, RecoveredMoves
<1>4. \A i \in S, j \in Jobs : RepositoryOf[i] = RepositoryOf[j]
                                  => Recovered(R)[j].state # "running"
  BY Zenon, <1>1 DEF PerRepository, MemoryEligible
<1>5. \A i, j \in S : RepositoryOf[i] = RepositoryOf[j] => i = j
  BY <1>1 DEF PerRepository, NoneOrOnePerRepository
<1> QED
  BY Zenon, <1>3, <1>4, <1>5 DEF OneRunningPerRepository

\* The in-memory claim, which selects and updates under one mutex, keeps the
\* limit of one running job per repository.
THEOREM MemoryOneRunning == MemorySpec => []OneRunningPerRepository
<1>1. Init => OneRunningPerRepository
  BY DEF Init, OneRunningPerRepository
<1>2. IInv /\ OneRunningPerRepository /\ [MemoryNext]_vars => OneRunningPerRepository'
  <2> SUFFICES ASSUME IInv, OneRunningPerRepository, [MemoryNext]_vars
               PROVE  OneRunningPerRepository'
    OBVIOUS
  <2>1. CASE MemoryRecoverExpired
    BY <2>1, RecoverMoves, MoveKeepsOneRunning
       DEF MemoryRecoverExpired, RecoverExpiredLifecycleJobs, NobodyReports
  <2>2. ASSUME NEW i \in Jobs, Control(i) PROVE OneRunningPerRepository'
    BY <2>2, ControlMoves, MoveKeepsOneRunning
  <2>3. ASSUME NEW w \in Workers, MemoryClaim(w) PROVE OneRunningPerRepository'
    BY <2>3, MemoryClaimKeepsOneRunning
  <2>4. ASSUME NEW w \in Workers, Execute(w) PROVE OneRunningPerRepository'
    BY Zenon, <2>4, ExecuteMoves, MoveKeepsOneRunning
  <2>5. CASE UNCHANGED vars
    BY <2>5 DEF vars, OneRunningPerRepository
  <2> QED
    BY Zenon, <2>1, <2>2, <2>3, <2>4, <2>5 DEF MemoryNext
<1> QED
  BY <1>1, <1>2, MemoryInvariance, PTL DEF MemorySpec

-----------------------------------------------------------------------------
(* The refinement                                                          *)

Hands == UNION {InHand(w) : w \in Workers}

\* A lease is started once: it leaves the batch when it becomes current.
StartedOnce == \A w \in Workers : cur[w] \notin batch[w]

\* What a step may do to the lease under which row j is held.
Aged(j) == /\ job[j].state = "running" /\ job'[j].state = "running"
           /\ job'[j].token = job[j].token
           /\ job'[j].live => <<j, job[j].token>> \in Hands
Arranged(j) == /\ job[j].state \in Claimable \union Parked \union {"absent"}
               /\ job'[j].state \in Claimable \union Parked
Forfeits(j) == /\ job[j].state = "running" /\ (ClockSkew \/ ~job[j].live)
               /\ job'[j].state \in {"failed", "retrying"}
GivenUp(j) == /\ job[j].state = "running"
              /\ <<j, job[j].token>> \in Hands \ Hands'
              /\ \/ job'[j].state \in {"failed", "retrying"}
                 \/ job'[j].state = "completed" /\ job[j].live
HandedOut(j) == /\ \/ job[j].state \in Claimable
                   \/ job[j].state = "running" /\ (ClockSkew \/ ~job[j].live)
                /\ job'[j].state = "running" /\ job'[j].live
                /\ <<j, job'[j].token>> \in Hands' \ Hands
LeaseMove(j) == \/ job'[j] = job[j] \/ Aged(j) \/ Arranged(j)
                \/ Forfeits(j) \/ GivenUp(j) \/ HandedOut(j)

-----------------------------------------------------------------------------
(* The abstract step                                                       *)

\* Rows that are not running carry no lease.
LEMMA IdleRow ==
    ASSUME Rows, NEW j \in Jobs, job[j].state # "running"
    PROVE  job[j].token = 0
  BY Zenon DEF Rows, RowOK

\* The phase of a row, by its state.
LEMMA PhaseOf ==
    ASSUME NEW r
    PROVE  /\ r.state \in Claimable => JobPhase(r) = "open"
           /\ r.state = "running" => JobPhase(r) = "held"
           /\ r.state = "completed" => JobPhase(r) = "done"
           /\ r.state \in Parked => JobPhase(r) = "parked"
           /\ r.state = "absent" => JobPhase(r) = "absent"
  BY DEF JobPhase, Claimable, Parked

\* Each way a row moves is a move of leased work.
LEMMA LeaseMoveIsMove ==
    ASSUME Rows, Rows', NEW j \in Jobs, LeaseMove(j)
    PROVE  JobWork!Move(j)
<1> DEFINE live(i) == job[i].state = "running" /\ job[i].live
<1>0. /\ [i \in Jobs |-> JobPhase(job[i])][j] = JobPhase(job[j])
      /\ [i \in Jobs |-> job[i].token][j] = job[j].token
      /\ [i \in Jobs |-> job[i].state = "running" /\ job[i].live][j] = live(j)
      /\ [i \in Jobs |-> JobPhase(job'[i])][j] = JobPhase(job'[j])
      /\ [i \in Jobs |-> job'[i].token][j] = job'[j].token
      /\ [i \in Jobs |-> job'[i].state = "running" /\ job'[i].live][j] = live(j)'
  BY Zenon
<1>1. CASE job'[j] = job[j]
  BY <1>0, <1>1 DEF JobWork!Move, JobWork!Same
<1>2. CASE Aged(j)
  BY Zenon, <1>0, <1>2, PhaseOf DEF Aged, Hands, JobWork!Move, JobWork!Age
<1>3. CASE HandedOut(j)
  <2>1. \/ JobPhase(job[j]) = "open"
        \/ JobPhase(job[j]) = "held" /\ (ClockSkew \/ ~live(j))
    BY Zenon, <1>3, PhaseOf DEF HandedOut
  <2>2. JobPhase(job'[j]) = "held" /\ live(j)' /\ <<j, job'[j].token>> \in Hands' \ Hands
    BY Zenon, <1>3, PhaseOf DEF HandedOut
  <2> QED
    BY Zenon, <1>0, <2>1, <2>2 DEF Hands, JobWork!Move, JobWork!Take, JobWork!Forfeited
<1>4. job'[j].state # "running" => job'[j].token = 0 /\ ~live(j)'
  BY Zenon, IdleRow DEF Rows, RowOK
<1>5. CASE Arranged(j)
  <2>1. job'[j].state # "running"
    BY <1>5 DEF Arranged, Claimable, Parked
  <2>2. JobPhase(job[j]) \in {"absent", "open", "parked"}
    BY Zenon, <1>5, PhaseOf DEF Arranged
  <2>3. JobPhase(job'[j]) \in {"open", "parked"}
    BY Zenon, <1>5, PhaseOf DEF Arranged
  <2> QED
    BY Zenon, <1>0, <1>4, <2>1, <2>2, <2>3 DEF JobWork!Move, JobWork!Arrange, JobWork!Leaves
<1>6. CASE Forfeits(j)
  <2>1. job'[j].state # "running" /\ JobPhase(job'[j]) \in {"open", "parked"}
    BY <1>6, PhaseOf DEF Forfeits, Claimable, Parked
  <2>2. JobPhase(job[j]) = "held" /\ (ClockSkew \/ ~live(j))
    BY Zenon, <1>6, PhaseOf DEF Forfeits
  <2> QED
    BY Zenon, <1>0, <1>4, <2>1, <2>2
       DEF JobWork!Move, JobWork!Release, JobWork!Leaves, JobWork!Forfeited
<1>7. CASE GivenUp(j)
  <2>1. JobPhase(job[j]) = "held" /\ <<j, job[j].token>> \in Hands \ Hands'
    BY Zenon, <1>7, PhaseOf DEF GivenUp
  <2>2. CASE job'[j].state \in {"failed", "retrying"}
    <3>1. job'[j].state # "running" /\ JobPhase(job'[j]) \in {"open", "parked"}
      BY <2>2, PhaseOf DEF Claimable, Parked
    <3> QED
      BY Zenon, <1>0, <1>4, <2>1, <3>1
         DEF Hands, JobWork!Move, JobWork!Release, JobWork!Leaves, JobWork!Reports
  <2>3. CASE job'[j].state = "completed" /\ job[j].live
    <3>1. job'[j].state # "running" /\ JobPhase(job'[j]) = "done" /\ live(j)
      BY <1>7, <2>3, PhaseOf DEF GivenUp
    <3> QED
      BY Zenon, <1>0, <1>4, <2>1, <3>1
         DEF Hands, JobWork!Move, JobWork!Finish, JobWork!Leaves, JobWork!Reports
  <2> QED
    BY Zenon, <1>7, <2>2, <2>3 DEF GivenUp
<1> QED
  BY Zenon, <1>1, <1>2, <1>3, <1>5, <1>6, <1>7 DEF LeaseMove

-----------------------------------------------------------------------------
(* Hands                                                                   *)

AtWork == {"running", "lost", "fenced"}

\* A lease is in hand exactly when some worker's is.
LEMMA InHands ==
    ASSUME NEW l
    PROVE  /\ l \in Hands <=> \E w \in Workers : l \in InHand(w)
           /\ l \in Hands' <=> \E w \in Workers : l \in InHand(w)'
  BY Zenon DEF Hands

\* What a worker has in hand it holds.
LEMMA InHandHeld ==
    ASSUME Locals, NEW w \in Workers
    PROVE  InHand(w) \subseteq Held(w)
  BY Zenon DEF Locals, InHand, Held, Executing

\* A worker at work on a lease has it in hand.
LEMMA AtWorkInHand ==
    ASSUME NEW w \in Workers, pc[w] \in AtWork
    PROVE  cur[w] \in Hands
  BY Zenon DEF AtWork, Hands, InHand

\* A step that touches neither the batches nor who is at work on what.
LEMMA HandsKept ==
    ASSUME UNCHANGED <<batch, cur>>,
           \A w \in Workers : pc'[w] \in AtWork => pc[w] \in AtWork
    PROVE  Hands' \subseteq Hands
<1>1. \A w \in Workers : InHand(w)' \subseteq InHand(w)
  BY Zenon DEF InHand, AtWork
<1> QED
  BY Zenon, <1>1, InHands

\* Turning to the rest of the batch.
LEMMA NextInBatchHands ==
    ASSUME Locals, NEW w \in Workers, NextInBatch(w), batch' = batch
    PROVE  /\ Hands' \subseteq Hands
           /\ InHand(w)' = batch[w]
<1>1. pc'[w] \notin AtWork
  BY DEF Locals, NextInBatch, AtWork
<1>2. \A v \in Workers \ {w} : pc'[v] = pc[v] /\ cur'[v] = cur[v]
  BY DEF Locals, NextInBatch
<1>3. \A v \in Workers : InHand(v)' \subseteq InHand(v)
  BY Zenon, <1>1, <1>2 DEF InHand, AtWork
<1>4. InHand(w)' = batch[w]
  BY Zenon, <1>1 DEF InHand, AtWork
<1> QED
  BY Zenon, <1>3, <1>4, InHands

\* A worker that stops working on its lease lets go of it: nobody else has
\* that lease, and its own batch no longer does.
LEMMA LetGo ==
    ASSUME IInv, StartedOnce, NEW w \in Workers, pc[w] \in AtWork,
           Hands' \subseteq Hands, InHand(w)' = batch[w],
           \A v \in Workers \ {w} : InHand(v)' \subseteq InHand(v)
    PROVE  cur[w] \in Hands \ Hands'
<1>1. cur[w] \in Held(w)
  BY Zenon, CurrentLease, SentinelAssumption DEF Held, Executing, AtWork
<1>2. \A v \in Workers \ {w} : cur[w] \notin InHand(v)
  BY Zenon, <1>1, InHandHeld DEF IInv, OneHolderPerLease
<1>3. cur[w] \notin InHand(w)'
  BY Zenon DEF StartedOnce
<1> QED
  BY Zenon, <1>2, <1>3, InHands, AtWorkInHand

-----------------------------------------------------------------------------
(* Steps of the queue                                                      *)

\* Recovery forfeits expired rows.
LEMMA RecoverLeases ==
    ASSUME IInv, NEW S \in SUBSET Jobs, Recoverable(S), job' = Recovered(S),
           NEW j \in Jobs
    PROVE  LeaseMove(j)
<1>1. job'[j] = IF j \in S THEN Released(job[j]) ELSE job[j]
  BY Zenon DEF Recovered
<1> QED
  BY Zenon, <1>1, RecoveredMoves DEF LeaseMove, Forfeits

\* An operator arranges rows nobody holds; time ages them.
LEMMA ControlLeases ==
    ASSUME IInv, NEW i \in Jobs, Control(i), NEW j \in Jobs
    PROVE  LeaseMove(j)
<1>1. CASE EnqueueLifecycleJob(i)
  BY Zenon, <1>1 DEF EnqueueLifecycleJob, LeaseMove, Arranged, IInv, Rows, Queued, Claimable
<1>2. CASE RunLifecycleJobNow(i)
  BY Zenon, <1>2 DEF RunLifecycleJobNow, LeaseMove, Arranged, IInv, Rows, Queued, Claimable
<1>3. CASE RetryLifecycleJob(i)
  BY Zenon, <1>3 DEF RetryLifecycleJob, LeaseMove, Arranged, IInv, Rows, Retried, Claimable
<1>4. CASE RequeueFailedLifecycleJobs(RepositoryOf[i], KindOf[i])
  <2>1. PICK S \in SUBSET ParkedIn(RepositoryOf[i], KindOf[i]) :
           job' = [k \in Jobs |-> IF k \in S THEN Reset(job[k]) ELSE job[k]]
    BY Zenon, <1>4 DEF RequeueFailedLifecycleJobs
  <2>2. j \in S => job[j].state \in Parked
    BY Zenon DEF ParkedIn
  <2> QED
    BY Zenon, <2>1, <2>2 DEF LeaseMove, Arranged, Reset, Claimable
<1>5. CASE CancelLifecycleJob(i)
  BY Zenon, <1>5 DEF CancelLifecycleJob, LeaseMove, Arranged, IInv, Rows, Cancelled, Parked
<1>6. CASE LeaseExpires(i)
  BY Zenon, <1>6 DEF LeaseExpires, LeaseMove, Aged, IInv, Rows, Clocked
<1>7. CASE BecomesDue(i)
  BY Zenon, <1>7 DEF BecomesDue, LeaseMove, Arranged, IInv, Rows, Clocked
<1> QED
  BY Zenon, <1>1, <1>2, <1>3, <1>4, <1>5, <1>6, <1>7 DEF Control

\* A worker settles only the row whose current lease it lets go of.
LEMMA WriteLeases ==
    ASSUME IInv, NEW w \in Workers, pc[w] \in AtWork,
           cur[w] \in Hands \ Hands', NEW j \in Jobs,
           \/ CompleteLifecycleJob(cur[w])
           \/ FailLifecycleJob(cur[w])
           \/ UNCHANGED job
    PROVE  LeaseMove(j)
<1>1. cur[w] \in Leases /\ cur[w][1] \in Jobs
  BY Zenon, CurrentLease DEF Executing, AtWork
<1>2. CASE UNCHANGED job
  BY Zenon, <1>2 DEF LeaseMove
<1>3. ASSUME NEW r, Owns(cur[w]), job' = [job EXCEPT ![cur[w][1]] = r],
             \/ r.state \in {"failed", "retrying"}
             \/ r.state = "completed" /\ job[cur[w][1]].live
      PROVE  LeaseMove(j)
  <2>1. CASE j # cur[w][1]
    BY Zenon, <1>3, <2>1 DEF LeaseMove, IInv, Rows
  <2>2. CASE j = cur[w][1]
    <3>1. cur[w] = <<j, job[j].token>> /\ job[j].state = "running"
      BY <1>1, <1>3, <2>2 DEF Owns, Leases
    <3>2. job'[j] = r
      BY Zenon, <1>3, <2>2 DEF IInv, Rows
    <3> QED
      BY Zenon, <1>3, <2>2, <3>1, <3>2 DEF LeaseMove, GivenUp
  <2> QED
    BY Zenon, <2>1, <2>2
<1>4. /\ Completed(job[cur[w][1]]).state = "completed"
      /\ Released(job[cur[w][1]]).state \in {"failed", "retrying"}
  BY Zenon DEF Completed, Released
<1>5. CASE CompleteLifecycleJob(cur[w])
  BY Zenon, <1>2, <1>3, <1>4, <1>5 DEF CompleteLifecycleJob
<1>6. CASE FailLifecycleJob(cur[w])
  BY Zenon, <1>2, <1>3, <1>4, <1>6 DEF FailLifecycleJob
<1> QED
  BY Zenon, <1>2, <1>5, <1>6

\* A report that ends with the next lease of the batch.
LEMMA ReportLeases ==
    ASSUME IInv, StartedOnce, NEW w \in Workers, pc[w] \in AtWork,
           NextInBatch(w), batch' = batch
    PROVE  Hands' \subseteq Hands /\ cur[w] \in Hands \ Hands'
<1>1. Hands' \subseteq Hands /\ InHand(w)' = batch[w]
  BY Zenon, NextInBatchHands DEF IInv
<1>2. \A v \in Workers \ {w} : pc'[v] = pc[v] /\ cur'[v] = cur[v]
  BY DEF IInv, Locals, NextInBatch
<1>3. \A v \in Workers \ {w} : InHand(v)' \subseteq InHand(v)
  BY Zenon, <1>2 DEF InHand
<1> QED
  BY Zenon, <1>1, <1>3, LetGo

\* A worker, executing, takes no lease, and moves only the row of the lease
\* it renews or lets go of.
LEMMA ExecuteLeases ==
    ASSUME IInv, StartedOnce, NEW w \in Workers, Execute(w)
    PROVE  Hands' \subseteq Hands /\ \A j \in Jobs : LeaseMove(j)
<1>1. CASE StartJob(w)
  <2>1. PICK l \in batch[w] : /\ cur' = [cur EXCEPT ![w] = l]
                              /\ batch' = [batch EXCEPT ![w] = @ \ {l}]
    BY Zenon, <1>1 DEF StartJob
  <2>2. cur'[w] = l /\ batch'[w] = batch[w] \ {l}
    BY Zenon, <2>1 DEF IInv, Locals
  <2>3. \A v \in Workers \ {w} : cur'[v] = cur[v] /\ batch'[v] = batch[v] /\ pc'[v] = pc[v]
    BY Zenon, <1>1, <2>1 DEF StartJob, IInv, Locals
  <2>4. \A v \in Workers : InHand(v)' \subseteq InHand(v)
    BY Zenon, <2>2, <2>3 DEF InHand
  <2> QED
    BY Zenon, <1>1, <2>4, InHands DEF StartJob, LeaseMove
<1>2. CASE UpdateLifecycleJobProgress(w)
  <2>1. Hands' \subseteq Hands
    <3>1. \A v \in Workers : pc'[v] \in AtWork => pc[v] \in AtWork
      BY Zenon, <1>2 DEF UpdateLifecycleJobProgress, AtWork, IInv, Locals
    <3> QED
      BY Zenon, <1>2, <3>1, HandsKept DEF UpdateLifecycleJobProgress
  <2>2. CASE UNCHANGED job
    BY Zenon, <2>1, <2>2 DEF LeaseMove
  <2>3. CASE Owns(cur[w])
    <3>1. cur[w] \in Leases /\ cur[w][1] \in Jobs
      BY Zenon, <1>2, CurrentLease DEF Executing, UpdateLifecycleJobProgress
    <3>2. cur[w] = <<cur[w][1], job[cur[w][1]].token>> /\ job[cur[w][1]].state = "running"
      BY <2>3, <3>1 DEF Owns, Leases
    <3>3. cur[w] \in Hands
      BY Zenon, <1>2, AtWorkInHand DEF UpdateLifecycleJobProgress, AtWork
    <3>4. job' = [job EXCEPT ![cur[w][1]] =
                      Clocked(job[cur[w][1]], TRUE, job[cur[w][1]].due)]
      BY Zenon, <1>2, <2>3 DEF UpdateLifecycleJobProgress
    <3>5. Aged(cur[w][1])
      BY Zenon, <3>1, <3>2, <3>3, <3>4 DEF Aged, Clocked, IInv, Rows
    <3>6. \A j \in Jobs \ {cur[w][1]} : job'[j] = job[j]
      BY Zenon, <3>4 DEF IInv, Rows
    <3> QED
      BY Zenon, <2>1, <3>5, <3>6 DEF LeaseMove
  <2> QED
    BY Zenon, <1>2, <2>2, <2>3 DEF UpdateLifecycleJobProgress
<1>3. CASE HeartbeatFails(w) \/ PublishFailed(w)
  <2>1. \A v \in Workers : pc'[v] \in AtWork => pc[v] \in AtWork
    BY Zenon, <1>3 DEF HeartbeatFails, PublishFailed, AtWork, IInv, Locals
  <2> QED
    BY Zenon, <1>3, <2>1, HandsKept DEF HeartbeatFails, PublishFailed, LeaseMove
<1>4. CASE CompleteJob(w) \/ FailJob(w) \/ AbandonJob(w)
  <2>1. pc[w] \in AtWork /\ NextInBatch(w) /\ batch' = batch
    BY Zenon, <1>4 DEF CompleteJob, FailJob, AbandonJob, AtWork
  <2>2. \/ CompleteLifecycleJob(cur[w])
        \/ FailLifecycleJob(cur[w])
        \/ UNCHANGED job
    BY Zenon, <1>4 DEF CompleteJob, FailJob, AbandonJob
  <2> QED
    BY Zenon, <2>1, <2>2, ReportLeases, WriteLeases
<1>5. CASE LockLifecycleJobLease(w)
  <2>1. batch' = batch /\ UNCHANGED job /\ pc[w] \in AtWork
    BY Zenon, <1>5 DEF LockLifecycleJobLease, AtWork
  <2>2. CASE NextInBatch(w)
    BY Zenon, <2>1, <2>2, ReportLeases DEF LeaseMove
  <2>3. CASE pc' = [pc EXCEPT ![w] = "fenced"] /\ UNCHANGED cur
    <3>1. \A v \in Workers : pc'[v] \in AtWork => pc[v] \in AtWork
      BY Zenon, <2>1, <2>3 DEF AtWork, IInv, Locals
    <3> QED
      BY Zenon, <2>1, <2>3, <3>1, HandsKept DEF LeaseMove
  <2> QED
    BY Zenon, <1>5, <2>2, <2>3 DEF LockLifecycleJobLease
<1>6. CASE CompleteFenced(w)
  <2>1. /\ pc[w] \in AtWork /\ pc'[w] \notin AtWork
        /\ \A v \in Workers \ {w} : pc'[v] = pc[v]
    BY <1>6 DEF CompleteFenced, AtWork, IInv, Locals
  <2>2. UNCHANGED <<batch, cur>>
    BY Zenon, <1>6 DEF CompleteFenced
  <2>3. Hands' \subseteq Hands
    BY Zenon, <2>1, <2>2, HandsKept
  <2>4. InHand(w)' = batch[w] /\ \A v \in Workers \ {w} : InHand(v)' \subseteq InHand(v)
    BY Zenon, <2>1, <2>2 DEF InHand, AtWork
  <2>5. cur[w] \in Hands \ Hands'
    BY Zenon, <2>1, <2>3, <2>4, LetGo
  <2> QED
    BY Zenon, <1>6, <2>1, <2>3, <2>5, WriteLeases DEF CompleteFenced
<1>7. CASE ReleaseLease(w)
  BY Zenon, <1>7, NextInBatchHands DEF ReleaseLease, LeaseMove, IInv
<1> QED
  BY Zenon, <1>1, <1>2, <1>3, <1>4, <1>5, <1>6, <1>7 DEF Execute

GrantedHands == Hands' \subseteq Hands \union {<<j, job'[j].token>> : j \in Jobs}

\* A claim hands out leases nobody has, for exactly the rows it starts.
LEMMA ClaimUpdateLeases ==
    ASSUME IInv, NEW w \in Workers, ClaimUpdate(w)
    PROVE  GrantedHands /\ \A j \in Jobs : LeaseMove(j)
<1> DEFINE won == {j \in seen[w] : job[j].state \in Claimable}
<1>1. /\ job' = [j \in Jobs |-> IF j \in won THEN Claimed(job[j], nextToken) ELSE job[j]]
      /\ batch' = [batch EXCEPT ![w] = {<<j, nextToken>> : j \in won}]
      /\ pc' = [pc EXCEPT ![w] = IF won = {} THEN "idle" ELSE "batch"]
      /\ UNCHANGED cur
  BY Zenon DEF ClaimUpdate
<1>2. won \subseteq Jobs
  BY Zenon DEF IInv, Locals
<1>3. InHand(w)' = {<<j, nextToken>> : j \in won}
  <2>1. pc'[w] \notin AtWork
    BY <1>1 DEF IInv, Locals, AtWork
  <2>2. batch'[w] = {<<j, nextToken>> : j \in won}
    BY Zenon, <1>1 DEF IInv, Locals
  <2> QED
    BY Zenon, <2>1, <2>2 DEF InHand, AtWork
<1>4. \A v \in Workers \ {w} : InHand(v)' = InHand(v)
  BY Zenon, <1>1 DEF InHand, IInv, Locals
<1>5. \A l \in Hands : l[2] # nextToken
  BY InHands, InHandHeld DEF IInv, Tokens
<1>6. ASSUME NEW j \in won PROVE HandedOut(j)
  <2>1. job'[j] = Claimed(job[j], nextToken)
    BY Zenon, <1>1, <1>2
  <2>2. job'[j].state = "running" /\ job'[j].live /\ job'[j].token = nextToken
    BY <2>1 DEF Claimed
  <2>3. <<j, nextToken>> \in Hands'
    BY Zenon, <1>3, InHands
  <2>4. <<j, nextToken>> \notin Hands
    BY <1>5
  <2> QED
    BY Zenon, <2>2, <2>3, <2>4 DEF HandedOut
<1>7. \A j \in Jobs \ won : job'[j] = job[j]
  BY Zenon, <1>1
<1>8. GrantedHands
  <2> SUFFICES ASSUME NEW l \in Hands', l \notin Hands
               PROVE  l \in {<<j, job'[j].token>> : j \in Jobs}
    BY Zenon DEF GrantedHands
  <2>1. l \in InHand(w)'
    BY Zenon, <1>4, InHands
  <2>2. PICK j \in won : l = <<j, nextToken>>
    BY Zenon, <1>3, <2>1
  <2>3. job'[j].token = nextToken
    BY Zenon, <1>1, <1>2 DEF Claimed
  <2> QED
    BY Zenon, <1>2, <2>2, <2>3
<1> QED
  BY Zenon, <1>6, <1>7, <1>8 DEF LeaseMove

\* The other steps of a claim put nothing in anyone's hands.
LEMMA ClaimLeases ==
    ASSUME IInv, NEW w \in Workers, Claim(w)
    PROVE  GrantedHands /\ \A j \in Jobs : LeaseMove(j)
<1>1. CASE ClaimRecover(w)
  <2>1. UNCHANGED <<batch, cur>> /\ \A v \in Workers : pc'[v] \in AtWork => pc[v] \in AtWork
    BY <1>1 DEF ClaimRecover, AtWork, IInv, Locals
  <2>2. Hands' \subseteq Hands
    BY Zenon, <2>1, HandsKept
  <2>3. PICK S \in SUBSET Jobs : Recoverable(S) /\ job' = Recovered(S)
    BY Zenon, <1>1 DEF ClaimRecover
  <2> QED
    BY Zenon, <2>2, <2>3, RecoverLeases DEF GrantedHands
<1>2. CASE ClaimSnapshot(w) \/ ClaimTryLock(w)
  <2>1. UNCHANGED <<job, batch, cur>>
    BY Zenon, <1>2 DEF ClaimSnapshot, ClaimTryLock
  <2>2. \A v \in Workers : pc'[v] \in AtWork => pc[v] \in AtWork
    BY <1>2 DEF ClaimSnapshot, ClaimTryLock, AtWork, IInv, Locals
  <2>3. Hands' \subseteq Hands
    BY Zenon, <2>1, <2>2, HandsKept
  <2> QED
    BY Zenon, <2>1, <2>3 DEF GrantedHands, LeaseMove
<1> QED
  BY Zenon, <1>1, <1>2, ClaimUpdateLeases DEF Claim

\* A crash empties the hands of its worker.
LEMMA CrashLeases ==
    ASSUME IInv, NEW w \in Workers, Crash(w)
    PROVE  Hands' \subseteq Hands
<1>1. InHand(w)' = {}
  <2>1. pc'[w] = "idle" /\ batch'[w] = {}
    BY Zenon DEF Crash, IInv, Locals
  <2> QED
    BY <2>1 DEF InHand
<1>2. \A v \in Workers \ {w} : InHand(v)' = InHand(v)
  BY Zenon DEF Crash, InHand, IInv, Locals
<1> QED
  BY Zenon, <1>1, <1>2, InHands

\* The in-memory claim recovers expired rows and starts rows in one step: a
\* row it does both to goes from one holder to the next.
LEMMA MemoryClaimLeases ==
    ASSUME IInv, NEW w \in Workers, MemoryClaim(w)
    PROVE  GrantedHands /\ \A j \in Jobs : LeaseMove(j)
<1>1. PICK R \in SUBSET Jobs, S \in SUBSET Jobs :
          /\ Recoverable(R)
          /\ PerRepository(S, MemoryEligible(w, Recovered(R)))
          /\ job' = [j \in Jobs |-> IF j \in S THEN Claimed(Recovered(R)[j], nextToken)
                                               ELSE Recovered(R)[j]]
          /\ batch' = [batch EXCEPT ![w] = {<<j, nextToken>> : j \in S}]
          /\ pc' = [pc EXCEPT ![w] = IF S = {} THEN "idle" ELSE "batch"]
  BY Zenon DEF MemoryClaim
<1>2. cur' = cur
  BY Zenon DEF MemoryClaim
<1>3. InHand(w)' = {<<j, nextToken>> : j \in S}
  <2>1. pc'[w] \notin AtWork
    BY <1>1 DEF IInv, Locals, AtWork
  <2>2. batch'[w] = {<<j, nextToken>> : j \in S}
    BY Zenon, <1>1 DEF IInv, Locals
  <2> QED
    BY Zenon, <2>1, <2>2 DEF InHand, AtWork
<1>4. \A v \in Workers \ {w} : InHand(v)' = InHand(v)
  BY Zenon, <1>1, <1>2 DEF InHand, IInv, Locals
<1>5. \A l \in Hands : l[2] # nextToken
  BY InHands, InHandHeld DEF IInv, Tokens
<1>6. \A j \in Jobs : Recovered(R)[j] = IF j \in R THEN Released(job[j]) ELSE job[j]
  BY Zenon DEF Recovered
<1>7. ASSUME NEW j \in S PROVE HandedOut(j)
  <2>1. job'[j] = Claimed(Recovered(R)[j], nextToken)
    BY Zenon, <1>1
  <2>2. job'[j].state = "running" /\ job'[j].live /\ job'[j].token = nextToken
    BY <2>1 DEF Claimed
  <2>3. <<j, nextToken>> \in Hands'
    BY Zenon, <1>3, InHands
  <2>4. <<j, nextToken>> \notin Hands
    BY <1>5
  <2>5. Recovered(R)[j].state \in Claimable
    BY Zenon, <1>1 DEF PerRepository, MemoryEligible
  <2>6. \/ job[j].state \in Claimable
        \/ job[j].state = "running" /\ (ClockSkew \/ ~job[j].live)
    BY Zenon, <1>1, <1>6, <2>5, RecoveredMoves
  <2> QED
    BY Zenon, <2>2, <2>3, <2>4, <2>6 DEF HandedOut
<1>8. ASSUME NEW j \in Jobs \ S PROVE LeaseMove(j)
  <2>1. job'[j] = IF j \in R THEN Released(job[j]) ELSE job[j]
    BY Zenon, <1>1, <1>6
  <2> QED
    BY Zenon, <1>1, <2>1, RecoveredMoves DEF LeaseMove, Forfeits
<1>9. GrantedHands
  <2> SUFFICES ASSUME NEW l \in Hands', l \notin Hands
               PROVE  l \in {<<j, job'[j].token>> : j \in Jobs}
    BY Zenon DEF GrantedHands
  <2>1. l \in InHand(w)'
    BY Zenon, <1>4, InHands
  <2>2. PICK j \in S : l = <<j, nextToken>>
    BY Zenon, <1>3, <2>1
  <2>3. job'[j].token = nextToken
    BY Zenon, <1>1 DEF Claimed
  <2> QED
    BY Zenon, <2>2, <2>3
<1> QED
  BY Zenon, <1>7, <1>8, <1>9 DEF LeaseMove

\* The steps both queues take move every row as leased work moves.
LEMMA SharedLeases ==
    ASSUME IInv, StartedOnce,
           \/ RecoverExpiredLifecycleJobs
           \/ \E i \in Jobs : Control(i)
           \/ \E w \in Workers : Execute(w)
           \/ UNCHANGED vars
    PROVE  GrantedHands /\ \A j \in Jobs : LeaseMove(j)
<1>1. CASE RecoverExpiredLifecycleJobs
  <2>1. UNCHANGED <<pc, batch, cur>>
    BY Zenon, <1>1 DEF RecoverExpiredLifecycleJobs
  <2>2. Hands' \subseteq Hands
    BY Zenon, <2>1, HandsKept
  <2> QED
    BY Zenon, <1>1, <2>2, RecoverLeases DEF RecoverExpiredLifecycleJobs, GrantedHands
<1>2. ASSUME NEW i \in Jobs, Control(i) PROVE GrantedHands /\ \A j \in Jobs : LeaseMove(j)
  <2>1. UNCHANGED <<pc, batch, cur>>
    BY Zenon, <1>2 DEF Control, EnqueueLifecycleJob, RunLifecycleJobNow, RetryLifecycleJob,
                RequeueFailedLifecycleJobs, CancelLifecycleJob, LeaseExpires, BecomesDue
  <2>2. Hands' \subseteq Hands
    BY Zenon, <2>1, HandsKept
  <2> QED
    BY Zenon, <1>2, <2>2, ControlLeases DEF GrantedHands
<1>3. ASSUME NEW w \in Workers, Execute(w) PROVE GrantedHands /\ \A j \in Jobs : LeaseMove(j)
  BY Zenon, <1>3, ExecuteLeases DEF GrantedHands
<1>4. CASE UNCHANGED vars
  <2>1. UNCHANGED <<job, pc, batch, cur>>
    BY <1>4 DEF vars
  <2>2. Hands' \subseteq Hands
    BY Zenon, <2>1, HandsKept
  <2> QED
    BY Zenon, <2>1, <2>2 DEF GrantedHands, LeaseMove
<1> QED
  BY Zenon, <1>1, <1>2, <1>3, <1>4

\* Every step of the queue in PostgreSQL moves every row as leased work moves.
LEMMA NextLeases ==
    ASSUME IInv, StartedOnce, [Next]_vars
    PROVE  GrantedHands /\ \A j \in Jobs : LeaseMove(j)
<1>1. ASSUME NEW w \in Workers, Crash(w) PROVE GrantedHands /\ \A j \in Jobs : LeaseMove(j)
  BY Zenon, <1>1, CrashLeases DEF GrantedHands, LeaseMove, Crash
<1> QED
  BY Zenon, <1>1, SharedLeases, ClaimLeases DEF Next

\* So does every step of the queue in memory.
LEMMA MemoryNextLeases ==
    ASSUME IInv, StartedOnce, [MemoryNext]_vars
    PROVE  GrantedHands /\ \A j \in Jobs : LeaseMove(j)
  BY Zenon, SharedLeases, MemoryClaimLeases DEF MemoryNext, MemoryRecoverExpired

-----------------------------------------------------------------------------
(* The invariant of a worker's hands                                       *)

\* What a worker executes is not also waiting in its batch.
LEMMA StartedOnceStep ==
    ASSUME IInv, StartedOnce, [Next]_vars \/ [MemoryNext]_vars
    PROVE  StartedOnce'
<1>1. ASSUME NEW w \in Workers, batch' = batch,
             cur' = cur \/ cur' = [cur EXCEPT ![w] = NoLease]
      PROVE  StartedOnce'
  <2>1. \A v \in Workers : NoLease \notin batch[v]
    BY Zenon, SentinelAssumption DEF IInv, Locals
  <2> QED
    BY Zenon, <1>1, <2>1 DEF StartedOnce, IInv, Locals
<1>2. ASSUME NEW w \in Workers, ClaimUpdate(w) PROVE StartedOnce'
  <2> DEFINE won == {j \in seen[w] : job[j].state \in Claimable}
  <2>1. cur' = cur /\ batch' = [batch EXCEPT ![w] = {<<j, nextToken>> : j \in won}]
    BY Zenon, <1>2 DEF ClaimUpdate
  <2>2. cur[w] = NoLease
    BY Zenon, <1>2 DEF ClaimUpdate, IInv, Locals, Executing
  <2>3. {<<j, nextToken>> : j \in won} \subseteq Leases
    BY DEF IInv, Locals, Tokens, Leases
  <2>4. cur'[w] \notin batch'[w]
    BY Zenon, <2>1, <2>2, <2>3, SentinelAssumption DEF IInv, Locals
  <2>5. \A v \in Workers \ {w} : batch'[v] = batch[v]
    BY Zenon, <2>1 DEF IInv, Locals
  <2> QED
    BY Zenon, <2>1, <2>4, <2>5 DEF StartedOnce
<1>3. ASSUME NEW w \in Workers, MemoryClaim(w) PROVE StartedOnce'
  <2>1. PICK S \in SUBSET Jobs : batch' = [batch EXCEPT ![w] = {<<j, nextToken>> : j \in S}]
    BY Zenon, <1>3 DEF MemoryClaim
  <2>2. cur' = cur /\ cur[w] = NoLease
    BY Zenon, <1>3 DEF MemoryClaim, IInv, Locals, Executing
  <2>3. {<<j, nextToken>> : j \in S} \subseteq Leases
    BY DEF IInv, Locals, Tokens, Leases
  <2>4. cur'[w] \notin batch'[w]
    BY Zenon, <2>1, <2>2, <2>3, SentinelAssumption DEF IInv, Locals
  <2>5. \A v \in Workers \ {w} : batch'[v] = batch[v]
    BY Zenon, <2>1 DEF IInv, Locals
  <2> QED
    BY Zenon, <2>2, <2>4, <2>5 DEF StartedOnce
<1>4. ASSUME NEW w \in Workers, StartJob(w) PROVE StartedOnce'
  <2>1. PICK l \in batch[w] : /\ cur' = [cur EXCEPT ![w] = l]
                              /\ batch' = [batch EXCEPT ![w] = @ \ {l}]
    BY Zenon, <1>4 DEF StartJob
  <2>2. cur'[w] = l /\ batch'[w] = batch[w] \ {l}
    BY Zenon, <2>1 DEF IInv, Locals
  <2>3. \A v \in Workers \ {w} : cur'[v] = cur[v] /\ batch'[v] = batch[v]
    BY Zenon, <2>1 DEF IInv, Locals
  <2> QED
    BY Zenon, <2>2, <2>3 DEF StartedOnce
<1>5. ASSUME NEW w \in Workers, Crash(w) PROVE StartedOnce'
  BY Zenon, <1>5 DEF Crash, StartedOnce, IInv, Locals
<1>6. ASSUME UNCHANGED <<batch, cur>> PROVE StartedOnce'
  BY Zenon, <1>6 DEF StartedOnce
<1>7. ASSUME NEW w \in Workers, Claim(w) PROVE StartedOnce'
  BY Zenon, <1>2, <1>6, <1>7 DEF Claim, ClaimRecover, ClaimSnapshot, ClaimTryLock
<1>8. ASSUME NEW w \in Workers, Execute(w) PROVE StartedOnce'
  BY Zenon, <1>1, <1>4, <1>6, <1>8
     DEF Execute, UpdateLifecycleJobProgress, HeartbeatFails, CompleteJob, FailJob,
         AbandonJob, LockLifecycleJobLease, CompleteFenced, ReleaseLease,
         PublishFailed, NextInBatch
<1>9. ASSUME NEW i \in Jobs, Control(i) PROVE StartedOnce'
  BY Zenon, <1>6, <1>9
     DEF Control, EnqueueLifecycleJob, RunLifecycleJobNow, RetryLifecycleJob,
         RequeueFailedLifecycleJobs, CancelLifecycleJob, LeaseExpires, BecomesDue
<1>10. CASE UNCHANGED vars
  BY <1>10 DEF vars, StartedOnce
<1> QED
  BY Zenon, <1>5, <1>6, <1>7, <1>8, <1>9, <1>10, <1>3
     DEF Next, MemoryNext, MemoryRecoverExpired, RecoverExpiredLifecycleJobs

-----------------------------------------------------------------------------
(* Theorem: the refinement                                                 *)

\* An empty table, with idle workers, is leased work in which nothing has
\* been submitted.
LEMMA InitLeases == Init => JobWork!Init
<1> SUFFICES ASSUME Init PROVE JobWork!Init
  OBVIOUS
<1>1. \A j \in Jobs : /\ job[j].state = "absent" /\ job[j].token = 0
                      /\ JobPhase(job[j]) = "absent"
  BY PhaseOf DEF Init
<1>2. Hands = {}
  <2>1. \A w \in Workers : InHand(w) = {}
    BY DEF Init, InHand
  <2> QED
    BY Zenon, <2>1 DEF Hands
<1>3. \A j \in Jobs : (job[j].state = "running" /\ job[j].live) = FALSE
  BY <1>1
<1> QED
  BY Zenon, <1>1, <1>2, <1>3 DEF Hands, JobWork!Init

\* The queue in PostgreSQL implements leased work: through every claim,
\* recovery, report, lock and crash, a job is completed only by the holder of
\* its unexpired lease and taken from it only when the lease has expired.
THEOREM QueueImplementsLeasedWork == Spec => JobsAreLeasedWork
<1>1. Init => StartedOnce
  BY DEF Init, StartedOnce
<1>2. IInv /\ StartedOnce /\ [Next]_vars => StartedOnce'
  BY Zenon, StartedOnceStep
<1>3. IInv /\ IInv' /\ StartedOnce /\ [Next]_vars => JobWork!Next
  <2> SUFFICES ASSUME IInv, IInv', StartedOnce, [Next]_vars PROVE JobWork!Next
    OBVIOUS
  <2>1. \A j \in Jobs : JobWork!Move(j)
    BY Zenon, NextLeases, LeaseMoveIsMove DEF IInv
  <2>2. \A j \in Jobs : [i \in Jobs |-> job'[i].token][j] = job'[j].token
    BY Zenon
  <2>3. GrantedHands
    BY Zenon, NextLeases
  <2> QED
    BY Zenon, <2>1, <2>2, <2>3 DEF JobWork!Next, GrantedHands, Hands
<1>4. Spec => [](IInv /\ StartedOnce)
  BY <1>1, <1>2, Invariance, PTL DEF Spec
<1> QED
  BY <1>3, <1>4, InitLeases, PTL DEF Spec, JobsAreLeasedWork, JobWork!Spec

\* The queue in memory implements leased work too: its claim may take an
\* expired row from one worker and give it to another in one step, and still no
\* job is completed but by the holder of its unexpired lease.
THEOREM MemoryImplementsLeasedWork == MemorySpec => JobsAreLeasedWork
<1>1. Init => StartedOnce
  BY DEF Init, StartedOnce
<1>2. IInv /\ StartedOnce /\ [MemoryNext]_vars => StartedOnce'
  BY Zenon, StartedOnceStep
<1>3. IInv /\ IInv' /\ StartedOnce /\ [MemoryNext]_vars => JobWork!Next
  <2> SUFFICES ASSUME IInv, IInv', StartedOnce, [MemoryNext]_vars PROVE JobWork!Next
    OBVIOUS
  <2>1. \A j \in Jobs : JobWork!Move(j)
    BY Zenon, MemoryNextLeases, LeaseMoveIsMove DEF IInv
  <2>2. \A j \in Jobs : [i \in Jobs |-> job'[i].token][j] = job'[j].token
    BY Zenon
  <2>3. GrantedHands
    BY Zenon, MemoryNextLeases
  <2> QED
    BY Zenon, <2>1, <2>2, <2>3 DEF JobWork!Next, GrantedHands, Hands
<1>4. MemorySpec => [](IInv /\ StartedOnce)
  BY <1>1, <1>2, MemoryInvariance, PTL DEF MemorySpec
<1> QED
  BY <1>3, <1>4, InitLeases, PTL DEF MemorySpec, JobsAreLeasedWork, JobWork!Spec
=============================================================================
