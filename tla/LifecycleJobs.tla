---------------------------- MODULE LifecycleJobs ----------------------------
(***************************************************************************)
(* The durable lifecycle-job queue and the workers that drain it:          *)
(* internal/repository/postgres_lifecycle.go (and its in-memory twin       *)
(* memory_lifecycle.go), internal/lifecycle/runtime.go and                 *)
(* internal/app/lifecycle_recovery.go.                                     *)
(*                                                                         *)
(* A job is identified by its unique key (repository, kind, idempotency    *)
(* key); its payload is not modelled.  Time is abstracted to two facts of  *)
(* a row: whether its lease is still unexpired (live) and whether its next *)
(* attempt has come (due).  A lease token is a number no claim has used    *)
(* before (the jobs of one claim may share it: every statement matches the *)
(* job id and the token together); 0 is the empty token.                   *)
(***************************************************************************)
EXTENDS Naturals, FiniteSets

CONSTANTS
    Jobs,           \* the unique keys of the jobs that may be enqueued
    Workers,        \* worker loops, each a process of its own
    RepositoryOf,   \* the repository of a job
    KindOf,         \* the kind (and format) of a job
    WorkerKind,     \* the kind (and format) a worker loop claims
    MaxAttempts,    \* max_attempts of every job
    ClockSkew,      \* may a node's clock disagree with the database's?
    MaxRequeues,    \* bound: operator retries
    MaxCrashes,     \* bound: worker crashes
    NoWorker, NoLease

Leases == Jobs \X Nat

ASSUME AttemptsAssumption == MaxAttempts \in Nat \ {0}
ASSUME BoundsAssumption == MaxRequeues \in Nat /\ MaxCrashes \in Nat
ASSUME SkewAssumption == ClockSkew \in BOOLEAN
ASSUME SentinelAssumption == NoWorker \notin Workers /\ NoLease \notin Leases

VARIABLES
    job,        \* the lifecycle_jobs table
    nextToken,  \* the next fresh lease token
    fence,      \* holder of the advisory lock "lifecycle-job-lease:<id>"
    pc,         \* where each worker loop is
    seen,       \* jobs a worker's claim statement has selected
    batch,      \* leases a worker has claimed and not started yet
    cur,        \* the lease a worker is executing
    requeues, crashes

vars == <<job, nextToken, fence, pc, seen, batch, cur, requeues, crashes>>

States == {"absent", "pending", "running", "retrying", "completed",
           "failed", "cancelled"}
Claimable == {"pending", "retrying"}
Parked == {"failed", "cancelled"}
Settled == Parked \union {"completed"}
JobRecord == [state : States, attempts : Nat, token : Nat,
              live : BOOLEAN, due : BOOLEAN]
Steps == {"idle", "recovered", "snapshot", "locked", "batch", "running",
          "lost", "fenced", "releasing"}

\* Type correctness of the table and of every worker's local state.
TypeOK ==
    /\ job \in [Jobs -> JobRecord]
    /\ nextToken \in Nat \ {0}
    /\ fence \in [Jobs -> Workers \union {NoWorker}]
    /\ pc \in [Workers -> Steps]
    /\ seen \in [Workers -> SUBSET Jobs]
    /\ batch \in [Workers -> SUBSET Leases]
    /\ cur \in [Workers -> Leases \union {NoLease}]
    /\ requeues \in Nat
    /\ crashes \in Nat

Init ==
    /\ job = [j \in Jobs |-> [state |-> "absent", attempts |-> 0, token |-> 0,
                              live |-> FALSE, due |-> FALSE]]
    /\ nextToken = 1
    /\ fence = [j \in Jobs |-> NoWorker]
    /\ pc = [w \in Workers |-> "idle"]
    /\ seen = [w \in Workers |-> {}]
    /\ batch = [w \in Workers |-> {}]
    /\ cur = [w \in Workers |-> NoLease]
    /\ requeues = 0
    /\ crashes = 0

-----------------------------------------------------------------------------
(* Rows                                                                    *)

\* Mutant: queueing hands an attempt back.
QueuedRefunding(r) == [r EXCEPT !.state = "pending", !.due = TRUE,
                                !.attempts = @ - 1]

Queued(r) == [state |-> "pending", attempts |-> r.attempts, token |-> r.token,
              live |-> r.live, due |-> TRUE]

\* Retry and requeue give the job a fresh budget of attempts; only the
\* requeue statement clears the token as well.
Retried(r) == [state |-> "pending", attempts |-> 0, token |-> r.token,
               live |-> FALSE, due |-> TRUE]

Reset(r) == [state |-> "pending", attempts |-> 0, token |-> 0,
             live |-> FALSE, due |-> TRUE]

Cancelled(r) == [state |-> "cancelled", attempts |-> r.attempts,
                 token |-> r.token, live |-> r.live, due |-> FALSE]

Completed(r) == [state |-> "completed", attempts |-> r.attempts,
                 token |-> 0, live |-> FALSE, due |-> FALSE]

\* Mutants: one attempt too many; no end.
ReleasedOneTooMany(r) == [r EXCEPT
    !.state = IF r.attempts > MaxAttempts THEN "failed" ELSE "retrying",
    !.token = 0, !.live = FALSE, !.due = FALSE]
ReleasedNeverFailed(r) == [r EXCEPT
    !.state = "retrying", !.token = 0, !.live = FALSE, !.due = FALSE]

\* The end of an attempt that did not complete: back off, or give up.
Released(r) == [
    state |-> IF r.attempts >= MaxAttempts THEN "failed" ELSE "retrying",
    attempts |-> r.attempts, token |-> 0, live |-> FALSE, due |-> FALSE]

Claimed(r, t) == [state |-> "running", attempts |-> r.attempts + 1,
                  token |-> t, live |-> TRUE, due |-> FALSE]

\* Time and progress reports touch the two clocks of a row only.
Clocked(r, live, due) == [state |-> r.state, attempts |-> r.attempts,
                          token |-> r.token, live |-> live, due |-> due]

RunningIn(repo) == {j \in Jobs : RepositoryOf[j] = repo /\ job[j].state = "running"}

\* A lease is the job's current one: the row is running under its token.
Owns(l) == /\ job[l[1]].state = "running"
           /\ job[l[1]].token = l[2]

-----------------------------------------------------------------------------
(* The queue: enqueue, operator controls, recovery                         *)

\* A key that already has a row is a replay (or a payload conflict) and
\* changes nothing, whatever the state of that row.
EnqueueLifecycleJob(j) ==
    /\ job[j].state = "absent"
    /\ job' = [job EXCEPT ![j] = Queued(@)]
    /\ UNCHANGED <<nextToken, fence, pc, seen, batch, cur, requeues, crashes>>

RunLifecycleJobNow(j) ==
    /\ job[j].state \in Claimable
    /\ job' = [job EXCEPT ![j] = Queued(@)]
    /\ UNCHANGED <<nextToken, fence, pc, seen, batch, cur, requeues, crashes>>

RetryLifecycleJob(j) ==
    /\ requeues < MaxRequeues
    /\ job[j].state \in Parked
    /\ job' = [job EXCEPT ![j] = Retried(@)]
    /\ requeues' = requeues + 1
    /\ UNCHANGED <<nextToken, fence, pc, seen, batch, cur, crashes>>

ParkedIn(repo, kind) ==
    {j \in Jobs : /\ RepositoryOf[j] = repo /\ KindOf[j] = kind
                  /\ job[j].state \in Parked}

\* SKIP LOCKED and LIMIT leave some of the parked rows for the next call.
RequeueFailedLifecycleJobs(repo, kind) ==
    /\ requeues < MaxRequeues
    /\ \E S \in SUBSET ParkedIn(repo, kind) :
          /\ S # {}
          /\ job' = [j \in Jobs |-> IF j \in S THEN Reset(job[j]) ELSE job[j]]
    /\ requeues' = requeues + 1
    /\ UNCHANGED <<nextToken, fence, pc, seen, batch, cur, crashes>>

CancelLifecycleJob(j) ==
    /\ job[j].state \in Claimable
    /\ job' = [job EXCEPT ![j] = Cancelled(@)]
    /\ UNCHANGED <<nextToken, fence, pc, seen, batch, cur, requeues, crashes>>

\* Mutant: recovery does not try the lease lock.
RecoverableIgnoringFence(S) ==
    LET running == {j \in Jobs : job[j].state = "running"}
    IN  IF ClockSkew THEN S \subseteq running
                     ELSE S = {j \in running : ~job[j].live}

\* The running rows a recovery statement may find expired.  "before" is the
\* caller's clock and the expiry was written by the database's, so under
\* skew any of them; a row whose lease lock is held is skipped.
Recoverable(S) ==
    LET free == {j \in Jobs : job[j].state = "running" /\ fence[j] = NoWorker}
    IN  IF ClockSkew THEN S \subseteq free
                     ELSE S = {j \in free : ~job[j].live}

Recovered(S) == [j \in Jobs |-> IF j \in S THEN Released(job[j]) ELSE job[j]]

RecoverExpiredLifecycleJobs ==
    \E S \in SUBSET Jobs :
        /\ Recoverable(S)
        /\ S # {}
        /\ job' = Recovered(S)
        /\ UNCHANGED <<nextToken, fence, pc, seen, batch, cur, requeues, crashes>>

-----------------------------------------------------------------------------
(* Claiming.  The PostgreSQL claim is a recovery statement followed by one  *)
(* statement whose snapshot, advisory locks and row updates are three       *)
(* different moments; other sessions commit between them.                   *)

NoneOrOnePerRepository(S) ==
    \A i, j \in S : RepositoryOf[i] = RepositoryOf[j] => i = j

Eligible(w) ==
    {j \in Jobs : /\ job[j].state \in Claimable
                  /\ job[j].due
                  /\ job[j].attempts < MaxAttempts
                  /\ KindOf[j] = WorkerKind[w]
                  /\ RunningIn(RepositoryOf[j]) = {}}

\* SELECT DISTINCT ON (repository_id): one job of every repository that has
\* any; which one (the order by due time) is left open.
PerRepository(S, eligible) ==
    /\ S \subseteq eligible
    /\ NoneOrOnePerRepository(S)
    /\ \A j \in eligible : \E i \in S : RepositoryOf[i] = RepositoryOf[j]

ClaimRecover(w) ==
    /\ pc[w] = "idle"
    /\ \E S \in SUBSET Jobs : Recoverable(S) /\ job' = Recovered(S)
    /\ pc' = [pc EXCEPT ![w] = "recovered"]
    /\ UNCHANGED <<nextToken, fence, seen, batch, cur, requeues, crashes>>

ClaimSnapshot(w) ==
    /\ pc[w] = "recovered"
    /\ \E S \in SUBSET Jobs :
          /\ PerRepository(S, Eligible(w))
          /\ seen' = [seen EXCEPT ![w] = S]
          /\ pc' = [pc EXCEPT ![w] = IF S = {} THEN "idle" ELSE "snapshot"]
    /\ UNCHANGED <<job, nextToken, fence, batch, cur, requeues, crashes>>

\* pg_try_advisory_xact_lock(repository): a repository another claim
\* statement has locked and not committed yet is left out.
LockedByAnother(w, repo) ==
    \E v \in Workers \ {w} :
        pc[v] = "locked" /\ \E i \in seen[v] : RepositoryOf[i] = repo

ClaimTryLock(w) ==
    /\ pc[w] = "snapshot"
    /\ LET got == {j \in seen[w] : ~LockedByAnother(w, RepositoryOf[j])}
       IN  /\ seen' = [seen EXCEPT ![w] = got]
           /\ pc' = [pc EXCEPT ![w] = IF got = {} THEN "idle" ELSE "locked"]
    /\ UNCHANGED <<job, nextToken, fence, batch, cur, requeues, crashes>>

\* Mutant: the token is the attempt number, which a requeue starts again.
ClaimUpdateByAttempt(w) ==
    /\ pc[w] = "locked"
    /\ LET won == {j \in seen[w] : job[j].state \in Claimable}
       IN  /\ job' = [j \in Jobs |->
                         IF j \in won THEN Claimed(job[j], job[j].attempts + 1)
                                      ELSE job[j]]
           /\ batch' = [batch EXCEPT ![w] = {<<j, job[j].attempts + 1>> : j \in won}]
           /\ nextToken' = IF won = {} THEN nextToken ELSE nextToken + 1
           /\ pc' = [pc EXCEPT ![w] = IF won = {} THEN "idle" ELSE "batch"]
    /\ seen' = [seen EXCEPT ![w] = {}]
    /\ UNCHANGED <<fence, cur, requeues, crashes>>

\* The rows are taken as they are now, only their state being tested again.
ClaimUpdate(w) ==
    /\ pc[w] = "locked"
    /\ LET won == {j \in seen[w] : job[j].state \in Claimable}
       IN  /\ job' = [j \in Jobs |-> IF j \in won THEN Claimed(job[j], nextToken)
                                                  ELSE job[j]]
           /\ batch' = [batch EXCEPT ![w] = {<<j, nextToken>> : j \in won}]
           /\ nextToken' = IF won = {} THEN nextToken ELSE nextToken + 1
           /\ pc' = [pc EXCEPT ![w] = IF won = {} THEN "idle" ELSE "batch"]
    /\ seen' = [seen EXCEPT ![w] = {}]
    /\ UNCHANGED <<fence, cur, requeues, crashes>>

\* The in-memory store recovers, selects and updates under its mutexes, and
\* waits while any lease lock is held.
MemoryFenceFree == \A j \in Jobs : fence[j] = NoWorker

\* Mutant: the running jobs of the repository are not looked at.
MemoryEligibleAlongside(w, rows) ==
    {j \in Jobs : rows[j].state \in Claimable /\ rows[j].due
                  /\ KindOf[j] = WorkerKind[w]}

MemoryEligible(w, rows) ==
    {j \in Jobs : /\ rows[j].state \in Claimable
                  /\ rows[j].due
                  /\ KindOf[j] = WorkerKind[w]
                  /\ \A i \in Jobs : RepositoryOf[i] = RepositoryOf[j]
                                        => rows[i].state # "running"}

MemoryClaim(w) ==
    /\ pc[w] = "idle"
    /\ MemoryFenceFree
    /\ \E R, S \in SUBSET Jobs :
          /\ Recoverable(R)
          /\ PerRepository(S, MemoryEligible(w, Recovered(R)))
          /\ S # {} \/ R # {}
          /\ job' = [j \in Jobs |-> IF j \in S THEN Claimed(Recovered(R)[j], nextToken)
                                               ELSE Recovered(R)[j]]
          /\ batch' = [batch EXCEPT ![w] = {<<j, nextToken>> : j \in S}]
          /\ nextToken' = IF S = {} THEN nextToken ELSE nextToken + 1
          /\ pc' = [pc EXCEPT ![w] = IF S = {} THEN "idle" ELSE "batch"]
    /\ UNCHANGED <<fence, seen, cur, requeues, crashes>>

MemoryRecoverExpired == MemoryFenceFree /\ RecoverExpiredLifecycleJobs

-----------------------------------------------------------------------------
(* Executing a claimed lease: Runtime.runJob and the promotion handlers     *)

\* The worker is done with its lease and turns to the rest of its batch.
NextInBatch(w) ==
    /\ cur' = [cur EXCEPT ![w] = NoLease]
    /\ pc' = [pc EXCEPT ![w] = IF batch[w] = {} THEN "idle" ELSE "batch"]

StartJob(w) ==
    /\ pc[w] = "batch"
    /\ \E l \in batch[w] :
          /\ cur' = [cur EXCEPT ![w] = l]
          /\ batch' = [batch EXCEPT ![w] = @ \ {l}]
    /\ pc' = [pc EXCEPT ![w] = "running"]
    /\ UNCHANGED <<job, nextToken, fence, seen, requeues, crashes>>

\* A progress report extends the lease of a running row, expired or not; a
\* worker whose report is refused stops working for the lease.
UpdateLifecycleJobProgress(w) ==
    /\ pc[w] = "running"
    /\ IF Owns(cur[w])
       THEN /\ job' = [job EXCEPT ![cur[w][1]] = Clocked(@, TRUE, @.due)]
            /\ UNCHANGED pc
       ELSE /\ pc' = [pc EXCEPT ![w] = "lost"]
            /\ UNCHANGED job
    /\ UNCHANGED <<nextToken, fence, seen, batch, cur, requeues, crashes>>

\* RenewLifecycleJobLease by the heartbeat.  A renewal of an unexpired lease
\* leaves it unexpired; a refusal, or an error of the store, cancels the
\* handler, whatever it is doing.
HeartbeatFails(w) ==
    /\ pc[w] = "running"
    /\ pc' = [pc EXCEPT ![w] = "lost"]
    /\ UNCHANGED <<job, nextToken, fence, seen, batch, cur, requeues, crashes>>

\* Mutant: completion by job id alone.
CompleteWithoutToken(l) ==
    IF job[l[1]].state = "running" /\ job[l[1]].live
    THEN job' = [job EXCEPT ![l[1]] = Completed(@)]
    ELSE UNCHANGED job

\* The handler succeeded: complete, unless the row is no longer ours or its
\* lease has run out.
CompleteLifecycleJob(l) ==
    IF Owns(l) /\ job[l[1]].live
    THEN job' = [job EXCEPT ![l[1]] = Completed(@)]
    ELSE UNCHANGED job

CompleteJob(w) ==
    /\ pc[w] = "running"
    /\ CompleteLifecycleJob(cur[w])
    /\ NextInBatch(w)
    /\ UNCHANGED <<nextToken, fence, seen, batch, requeues, crashes>>

\* The handler failed, or lost its lease: an expired lease may still fail.
FailLifecycleJob(l) ==
    IF Owns(l)
    THEN job' = [job EXCEPT ![l[1]] = Released(@)]
    ELSE UNCHANGED job

FailJob(w) ==
    /\ pc[w] \in {"running", "lost"}
    /\ FailLifecycleJob(cur[w])
    /\ NextInBatch(w)
    /\ UNCHANGED <<nextToken, fence, seen, batch, requeues, crashes>>

\* Completing or failing may itself fail on the way to the store, and a
\* handler may return without either: the row is left to recovery.
AbandonJob(w) ==
    /\ pc[w] \in {"running", "lost"}
    /\ NextInBatch(w)
    /\ UNCHANGED <<job, nextToken, fence, seen, batch, requeues, crashes>>

\* Mutant: the lease is not validated once the lock is held.
LockWithoutValidation(w) ==
    /\ pc[w] = "running"
    /\ fence[cur[w][1]] = NoWorker
    /\ fence' = [fence EXCEPT ![cur[w][1]] = w]
    /\ pc' = [pc EXCEPT ![w] = "fenced"]
    /\ UNCHANGED <<job, nextToken, seen, batch, cur, requeues, crashes>>

\* A Go or Cargo promotion publishes under the lease lock: it waits for the
\* lock, then checks that it still owns an unexpired lease.
LockLifecycleJobLease(w) ==
    /\ pc[w] = "running"
    /\ fence[cur[w][1]] = NoWorker
    /\ IF Owns(cur[w]) /\ job[cur[w][1]].live
       THEN /\ fence' = [fence EXCEPT ![cur[w][1]] = w]
            /\ pc' = [pc EXCEPT ![w] = "fenced"]
            /\ UNCHANGED cur
       ELSE NextInBatch(w) /\ UNCHANGED fence
    /\ UNCHANGED <<job, nextToken, seen, batch, requeues, crashes>>

\* Published under the lock: complete first (the store may refuse or fail),
\* release after.
CompleteFenced(w) ==
    /\ pc[w] = "fenced"
    /\ CompleteLifecycleJob(cur[w]) \/ UNCHANGED job
    /\ pc' = [pc EXCEPT ![w] = "releasing"]
    /\ UNCHANGED <<nextToken, fence, seen, batch, cur, requeues, crashes>>

ReleaseLease(w) ==
    /\ pc[w] = "releasing"
    /\ fence' = [fence EXCEPT ![cur[w][1]] = NoWorker]
    /\ NextInBatch(w)
    /\ UNCHANGED <<job, nextToken, seen, batch, requeues, crashes>>

\* The publication failed under the lock: release first, fail after.
PublishFailed(w) ==
    /\ pc[w] = "fenced"
    /\ fence' = [fence EXCEPT ![cur[w][1]] = NoWorker]
    /\ pc' = [pc EXCEPT ![w] = "lost"]
    /\ UNCHANGED <<job, nextToken, seen, batch, cur, requeues, crashes>>

-----------------------------------------------------------------------------
(* The environment: time and crashes                                       *)

LeaseExpires(j) ==
    /\ job[j].state = "running"
    /\ job[j].live
    /\ job' = [job EXCEPT ![j] = Clocked(@, FALSE, @.due)]
    /\ UNCHANGED <<nextToken, fence, pc, seen, batch, cur, requeues, crashes>>

BecomesDue(j) ==
    /\ job[j].state \in Claimable
    /\ ~job[j].due
    /\ job' = [job EXCEPT ![j] = Clocked(@, @.live, TRUE)]
    /\ UNCHANGED <<nextToken, fence, pc, seen, batch, cur, requeues, crashes>>

\* The process dies: its claims are forgotten, its database session and the
\* locks of that session go with it, its rows stay.
Crash(w) ==
    /\ crashes < MaxCrashes
    /\ pc[w] # "idle"
    /\ pc' = [pc EXCEPT ![w] = "idle"]
    /\ seen' = [seen EXCEPT ![w] = {}]
    /\ batch' = [batch EXCEPT ![w] = {}]
    /\ cur' = [cur EXCEPT ![w] = NoLease]
    /\ fence' = [j \in Jobs |-> IF fence[j] = w THEN NoWorker ELSE fence[j]]
    /\ crashes' = crashes + 1
    /\ UNCHANGED <<job, nextToken, requeues>>

-----------------------------------------------------------------------------
Claim(w) ==
    \/ ClaimRecover(w)
    \/ ClaimSnapshot(w)
    \/ ClaimTryLock(w)
    \/ ClaimUpdate(w)

Execute(w) ==
    \/ StartJob(w)
    \/ UpdateLifecycleJobProgress(w)
    \/ HeartbeatFails(w)
    \/ CompleteJob(w)
    \/ FailJob(w)
    \/ AbandonJob(w)
    \/ LockLifecycleJobLease(w)
    \/ CompleteFenced(w)
    \/ ReleaseLease(w)
    \/ PublishFailed(w)

Control(j) ==
    \/ EnqueueLifecycleJob(j)
    \/ RunLifecycleJobNow(j)
    \/ RetryLifecycleJob(j)
    \/ RequeueFailedLifecycleJobs(RepositoryOf[j], KindOf[j])
    \/ CancelLifecycleJob(j)
    \/ LeaseExpires(j)
    \/ BecomesDue(j)

\* The queue in PostgreSQL.
Next ==
    \/ RecoverExpiredLifecycleJobs
    \/ \E j \in Jobs : Control(j)
    \/ \E w \in Workers : Claim(w) \/ Execute(w) \/ Crash(w)

\* The queue in memory, which lives and dies with its one process.
MemoryNext ==
    \/ MemoryRecoverExpired
    \/ \E j \in Jobs : Control(j)
    \/ \E w \in Workers : MemoryClaim(w) \/ Execute(w)

Spec == Init /\ [][Next]_vars
MemorySpec == Init /\ [][MemoryNext]_vars

\* A worker loop keeps taking steps: it claims on every tick, every handler
\* returns, every lock is released.
Progress(w) ==
    \/ Claim(w)
    \/ StartJob(w)
    \/ CompleteJob(w) \/ FailJob(w) \/ AbandonJob(w)
    \/ CompleteFenced(w) \/ ReleaseLease(w) \/ PublishFailed(w)

\* A lease nobody renews runs out; one that is renewed need not.
Unattended(j) ==
    \A w \in Workers : <<j, job[j].token>> \notin batch[w] \union {cur[w]}

Fairness ==
    /\ \A w \in Workers : WF_vars(Progress(w))
    /\ \A j \in Jobs : WF_vars(BecomesDue(j))
    /\ \A j \in Jobs : WF_vars(Unattended(j) /\ LeaseExpires(j))

-----------------------------------------------------------------------------
(* Properties                                                              *)

Held(w) == batch[w] \union ({cur[w]} \ {NoLease})

\* A row carries a token exactly while it runs, and tokens are never reused:
\* the empty token a finished row gets can match no worker's lease.
TokenDiscipline ==
    /\ \A j \in Jobs : (job[j].token # 0) <=> (job[j].state = "running")
    /\ \A j \in Jobs : job[j].token < nextToken
    /\ \A w \in Workers : \A l \in Held(w) : l[2] # 0 /\ l[2] < nextToken

\* A lease is in the hands of one worker loop at most, however claims,
\* recoveries, crashes and retries interleave.
OneHolderPerLease ==
    \A v, w \in Workers : v # w => Held(v) \intersect Held(w) = {}

\* The attempt budget: no row is ever claimed more than MaxAttempts times
\* without an operator's retry, and a row waiting to be claimed has an
\* attempt left, although the claiming UPDATE does not test it again.
AttemptBudget ==
    \A j \in Jobs :
        /\ job[j].attempts <= MaxAttempts
        /\ job[j].state \in Claimable => job[j].attempts < MaxAttempts
        /\ job[j].state = "running" => job[j].attempts > 0

\* While a promotion publishes under LockLifecycleJobLease the job stays its
\* own: nothing recovers, retries, cancels or re-claims it, even after the
\* lease has expired.
FencedOwner ==
    \A w \in Workers : pc[w] = "fenced" => fence[cur[w][1]] = w /\ Owns(cur[w])

\* At most one running job per repository, which the claim's NOT EXISTS and
\* the repository lock are there to ensure.
OneRunningPerRepository ==
    \A i, j \in Jobs :
        /\ RepositoryOf[i] = RepositoryOf[j]
        /\ job[i].state = "running"
        /\ job[j].state = "running"
        => i = j

\* A running job is settled or released only by a worker that holds its
\* current lease, or by recovery of a lease that has expired and is not
\* locked, while no worker reports.  A worker whose lease was taken over changes
\* nothing: neither its late completion nor its late failure gets through.
SettledByHolderOrExpiry ==
    [][\A j \in Jobs :
          (job[j].state = "running" /\ job'[j].state # "running")
          => \/ \E w \in Workers : /\ cur[w] = <<j, job[j].token>>
                                   /\ pc[w] \in {"running", "lost", "fenced"}
                                   /\ pc'[w] # pc[w]
             \/ job'[j].state # "completed" /\ fence[j] = NoWorker
                   /\ (ClockSkew \/ ~job[j].live)
                   /\ \A w \in Workers :
                         pc[w] \in {"running", "lost", "fenced"} => pc'[w] = pc[w]]_vars

\* Completion is final, and a parked job comes back only with its budget
\* restored: no worker, recovery or enqueue ever resurrects a settled job.
SettledIsFinal ==
    [][\A j \in Jobs :
          /\ job[j].state = "completed" => job'[j] = job[j]
          /\ (job[j].state \in Parked /\ job'[j].state # job[j].state)
             => job'[j].attempts = 0 /\ requeues' = requeues + 1]_vars

\* The queue as leased work.  A worker has a lease in hand until it reports.
JobPhase(row) ==
    CASE row.state \in Claimable -> "open"
      [] row.state = "running" -> "held"
      [] row.state = "completed" -> "done"
      [] row.state \in Parked -> "parked"
      [] OTHER -> "absent"

InHand(w) == batch[w] \union
    (IF pc[w] \in {"running", "lost", "fenced"} THEN {cur[w]} ELSE {})

JobWork == INSTANCE LeasedWork WITH
    Items <- Jobs,
    Timely <- ~ClockSkew,
    phase <- [j \in Jobs |-> JobPhase(job[j])],
    lease <- [j \in Jobs |-> job[j].token],
    live <- [j \in Jobs |-> job[j].state = "running" /\ job[j].live],
    hands <- UNION {InHand(w) : w \in Workers}

\* The lifecycle queue is leased work: the detailed claim, recovery, lock and
\* crash steps implement the promise that a job is completed only by the
\* holder of its unexpired lease, and taken from it only when it expires.
JobsAreLeasedWork == JobWork!Spec

\* Every queued job is eventually completed, failed or cancelled: expired
\* leases are recovered and every attempt is paid for from the budget.
EveryJobSettles ==
    Fairness => \A j \in Jobs : (job[j].state # "absent") ~> (job[j].state \in Settled)
=============================================================================
