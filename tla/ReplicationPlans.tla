--------------------------- MODULE ReplicationPlans ---------------------------
(***************************************************************************)
(* Replication plans between hosted repositories, the worker that copies   *)
(* their objects and publishes them, and the quarantine transitions of the *)
(* source artifact that race with the publication.                         *)
(* internal/repository/postgres_replication.go,                            *)
(* internal/replication/worker.go,                                         *)
(* internal/repository/artifact_distribution_admission.go,                 *)
(* internal/app/repository_artifact_quarantine_api.go.                     *)
(*                                                                         *)
(* A plan copies one object, the checkpoint.  As for mails, a lease token  *)
(* is the number of the claim that issued it.  The advisory locks a worker *)
(* holds are a function of where it is (at), so they need no variable.     *)
(***************************************************************************)
EXTENDS Naturals, FiniteSets

CONSTANTS
    Plans,              \* idempotency keys of plans, one source artifact each
    PlanFormats,        \* formats of the artifacts
    PlanAttempts,       \* max_attempts of every plan
    PlanClockSkew,      \* may a node's clock disagree with the database's?
    MaxPlanReplays,     \* bound: submissions that requeue a parked plan
    MaxTransitions      \* bound: quarantine transitions

ASSUME PlanBoundsAssumption ==
    /\ PlanAttempts \in Nat \ {0}
    /\ MaxPlanReplays \in Nat /\ MaxTransitions \in Nat
    /\ PlanClockSkew \in BOOLEAN

VARIABLES
    plan,           \* the replication_plans table
    checkpoint,     \* state of each plan's checkpoint
    published,      \* plans whose artifact is visible in the target
    quarantined,    \* plans whose source artifact is quarantined
    transition,     \* plans whose artifact an operator holds the lock of
    work,           \* the claims workers have in hand
    planReplays, transitions

planVars == <<plan, checkpoint, published, quarantined, transition, work,
              planReplays, transitions>>

PlanStates == {"absent", "pending", "running", "failed", "completed", "cancelled"}
PlanRow == [format : PlanFormats, state : PlanStates, attempts : Nat,
            claims : Nat, live : BOOLEAN,
            next : BOOLEAN,     \* next_attempt_at is set
            parked : BOOLEAN]   \* last_error is a reason that can be replayed
Work == [plan : Plans, token : Nat,
         at : {"claimed", "started", "cleared", "copying", "verified", "copied",
               "ready", "admitted", "publishing", "published", "parking",
               "outdated", "failing", "failed"},
         verified : BOOLEAN,    \* the checkpoint as it was first loaded
         objects : BOOLEAN]     \* past the object locks, held to the end

PlanTypeOK ==
    /\ plan \in [Plans -> PlanRow]
    /\ checkpoint \in [Plans -> {"pending", "verified", "failed"}]
    /\ published \subseteq Plans
    /\ quarantined \subseteq Plans
    /\ transition \subseteq Plans
    /\ work \subseteq Work
    /\ planReplays \in Nat /\ transitions \in Nat

PlanInit ==
    /\ plan \in [Plans -> {[format |-> f, state |-> "absent", attempts |-> 0,
                            claims |-> 0, live |-> FALSE, next |-> FALSE,
                            parked |-> FALSE] : f \in PlanFormats}]
    /\ checkpoint = [p \in Plans |-> "pending"]
    /\ published = {} /\ quarantined = {} /\ transition = {} /\ work = {}
    /\ planReplays = 0 /\ transitions = 0

-----------------------------------------------------------------------------
(* Admission locks                                                         *)

\* LockArtifactDistributionUnitContext, which a quarantine transition takes.
UnitKey(format) == IF format \in {"pypi", "go"} THEN "unit" ELSE "digest"

\* What the worker takes for its final check.
FinalKey(format) ==
    IF format \in {"pypi", "go", "cargo"} THEN "unit" ELSE UnitKey(format)

Admitted == {"admitted", "publishing", "published"}
Fenced == {"publishing", "published"}

\* Somebody holds the lock with this key on the artifact of p: an operator, a
\* worker that parks the plan after its early check, or one that publishes.
AdmissionLocked(p, key) ==
    \/ p \in transition /\ UnitKey(plan[p].format) = key
    \/ \E a \in work :
         /\ a.plan = p
         /\ \/ a.at = "parking" /\ ~a.objects /\ UnitKey(plan[p].format) = key
            \/ a.at \in Admitted /\ FinalKey(plan[p].format) = key

\* The formats whose worker has a LockObject, and an AdmissionSnapshot.
LocksObjects == {"npm", "go", "pypi", "cargo", "apt"}
TakesSnapshot == {"go", "pypi", "cargo", "apt"}

ObjectsLocked(p) ==
    plan[p].format \in LocksObjects /\ \E a \in work : a.plan = p /\ a.objects

\* Somebody holds the lock "replication-plan-lease:<p>".
LeaseLocked(p) == \E a \in work : a.plan = p /\ a.at \in Fenced

-----------------------------------------------------------------------------
(* The table                                                               *)

PendingPlan(row) == [row EXCEPT !.state = "pending", !.next = TRUE, !.parked = FALSE]
ClaimedPlan(row) ==
    [row EXCEPT !.state = "running", !.live = TRUE, !.next = FALSE, !.parked = FALSE,
                !.attempts = row.attempts + 1, !.claims = row.claims + 1]
ClockedPlan(row, live) == [row EXCEPT !.live = live]
FailedPlan(row) ==
    [row EXCEPT !.state = "failed", !.live = FALSE,
                !.next = row.attempts < PlanAttempts]

\* A parked plan gets its attempt back.
ParkedPlan(row, replayable) ==
    [row EXCEPT !.state = "failed", !.live = FALSE, !.next = FALSE,
                !.attempts = IF row.attempts = 0 THEN 0 ELSE row.attempts - 1,
                !.parked = replayable]
CompletedPlan(row) == [row EXCEPT !.state = "completed", !.live = FALSE]
CancelledPlan(row) == [row EXCEPT !.state = "cancelled", !.parked = FALSE]

\* A new key, or one whose plan is parked for a reason that may pass; a PyPI
\* plan gets its checkpoints anew.
CreateReplicationPlan(p) ==
    /\ \/ /\ plan[p].state = "absent"
          /\ UNCHANGED <<checkpoint, planReplays>>
       \/ /\ planReplays < MaxPlanReplays
          /\ plan[p].state = "failed" /\ plan[p].parked /\ ~plan[p].next
          /\ plan[p].attempts < PlanAttempts
          /\ planReplays' = planReplays + 1
          /\ checkpoint' = IF plan[p].format = "pypi"
                             THEN [checkpoint EXCEPT ![p] = "pending"]
                             ELSE checkpoint
    /\ plan' = [plan EXCEPT ![p] = PendingPlan(@)]
    /\ UNCHANGED <<published, quarantined, transition, work, transitions>>

CancelReplicationPlan(p) ==
    /\ plan[p].state \in {"pending", "failed"}
    /\ plan' = [plan EXCEPT ![p] = CancelledPlan(@)]
    /\ UNCHANGED <<checkpoint, published, quarantined, transition, work,
                   planReplays, transitions>>

\* Mutant: a plan on its last attempt is left to its worker.
ExpiredRetryable(p) ==
    /\ plan[p].state = "running" /\ plan[p].attempts < PlanAttempts
    /\ ~plan[p].live /\ ~LeaseLocked(p)

\* Mutant: recovery does not try the lease lock.
ExpiredIgnoringLock(p) ==
    plan[p].state = "running" /\ (PlanClockSkew \/ ~plan[p].live)

\* The rows recovery finds expired.  It compares with the caller's clock, and
\* skips a plan whose lease lock is held.
Expired(p) ==
    /\ plan[p].state = "running"
    /\ PlanClockSkew \/ ~plan[p].live
    /\ ~LeaseLocked(p)

RecoverExpiredReplicationPlans(p) ==
    /\ Expired(p)
    /\ plan' = [plan EXCEPT ![p] = FailedPlan(@)]
    /\ UNCHANGED <<checkpoint, published, quarantined, transition, work,
                   planReplays, transitions>>

ClaimablePlan(p) ==
    /\ plan[p].state = "pending" \/ (plan[p].state = "failed" /\ plan[p].next)
    /\ plan[p].attempts < PlanAttempts

claimReplicationPlans(p) ==
    /\ ClaimablePlan(p)
    /\ plan' = [plan EXCEPT ![p] = ClaimedPlan(@)]
    /\ work' = work \union {[plan |-> p, token |-> plan[p].claims + 1,
                             at |-> "claimed", verified |-> FALSE,
                             objects |-> FALSE]}
    /\ UNCHANGED <<checkpoint, published, quarantined, transition,
                   planReplays, transitions>>

PlanLeaseExpires(p) ==
    /\ plan[p].state = "running" /\ plan[p].live
    /\ plan' = [plan EXCEPT ![p] = ClockedPlan(@, FALSE)]
    /\ UNCHANGED <<checkpoint, published, quarantined, transition, work,
                   planReplays, transitions>>

-----------------------------------------------------------------------------
(* The worker: runPlan                                                     *)

OwnsPlan(a) == plan[a.plan].state = "running" /\ plan[a.plan].claims = a.token
HoldsPlan(a) == OwnsPlan(a) /\ plan[a.plan].live

Goes(a, at) == work' = (work \ {a}) \union {[a EXCEPT !.at = at]}
Leaves(a) == work' = work \ {a}

\* Worker a is at one of these places; the rest of the system is untouched.
Local(a, at) ==
    /\ a.at \in at
    /\ UNCHANGED <<published, quarantined, transition, planReplays, transitions>>

\* startLeaseHeartbeat renews an unexpired lease, or the plan is left alone;
\* then the checkpoints are loaded.
StartPlan(a) ==
    /\ Local(a, {"claimed"})
    /\ IF HoldsPlan(a)
         THEN work' = (work \ {a}) \union
                {[a EXCEPT !.at = "started",
                           !.verified = checkpoint[a.plan] = "verified"]}
         ELSE Leaves(a)
    /\ UNCHANGED <<plan, checkpoint>>

\* A load, a lock or an evaluation ends in an error, and the plan in fail().
StepFails(a) ==
    /\ Local(a, {"started", "cleared", "copied", "ready"})
    /\ Goes(a, "failed")
    /\ UNCHANGED <<plan, checkpoint>>

\* The first look at the quarantine, under the lock of a transition.
AdmitEarly(a) ==
    /\ Local(a, {"started"})
    /\ ~AdmissionLocked(a.plan, UnitKey(plan[a.plan].format))
    /\ Goes(a, IF a.plan \in quarantined THEN "parking" ELSE "cleared")
    /\ UNCHANGED <<plan, checkpoint>>

LockObjectKeys(a) ==
    /\ Local(a, {"cleared"})
    /\ ~ObjectsLocked(a.plan)
    /\ work' = (work \ {a}) \union {[a EXCEPT !.at = "copying", !.objects = TRUE]}
    /\ UNCHANGED <<plan, checkpoint>>

\* Bytes are copied and verified unless they were when loaded; the first
\* statement of UpdateReplicationCheckpointWithLease records it under the lease.
CopyCheckpoint(a) ==
    /\ Local(a, {"copying"})
    /\ \/ a.verified /\ Goes(a, "copied") /\ UNCHANGED checkpoint
       \/ /\ ~a.verified /\ HoldsPlan(a)
          /\ checkpoint' = [checkpoint EXCEPT ![a.plan] = "verified"]
          /\ Goes(a, "verified")
       \/ ~a.verified /\ Goes(a, "failing") /\ UNCHANGED checkpoint
    /\ UNCHANGED plan

\* Its second statement extends the lease by token alone, expired or not; an
\* error here makes the copy fail although the checkpoint is verified.
ExtendLease(a) ==
    /\ Local(a, {"verified"})
    /\ \/ /\ plan' = IF OwnsPlan(a) THEN [plan EXCEPT ![a.plan] = ClockedPlan(@, TRUE)]
                                   ELSE plan
          /\ Goes(a, "copied")
       \/ Goes(a, "failing") /\ UNCHANGED plan
    /\ UNCHANGED checkpoint

\* Mutant: the failure is recorded without the lease.
FailCheckpointUnfenced(a) ==
    /\ Local(a, {"failing"})
    /\ checkpoint' = [checkpoint EXCEPT ![a.plan] = "failed"]
    /\ Goes(a, "failed")
    /\ UNCHANGED plan

\* Failure bookkeeping on the reloaded checkpoint, then the plan's failure.
FailCheckpoint(a) ==
    /\ Local(a, {"failing"})
    /\ IF HoldsPlan(a)
         THEN /\ checkpoint' = [checkpoint EXCEPT ![a.plan] = "failed"]
              /\ Goes(a, "failed")
         ELSE Leaves(a) /\ UNCHANGED checkpoint
    /\ UNCHANGED plan

FailPlan(a) ==
    /\ Local(a, {"failed"})
    /\ plan' = IF HoldsPlan(a) THEN [plan EXCEPT ![a.plan] = FailedPlan(@)] ELSE plan
    /\ Leaves(a)
    /\ UNCHANGED checkpoint

\* Mutant: parked by whoever tries.
ParkPlanUnfenced(a) ==
    /\ Local(a, {"parking", "outdated"})
    /\ plan' = [plan EXCEPT ![a.plan] = ParkedPlan(@, TRUE)]
    /\ Leaves(a)
    /\ UNCHANGED checkpoint

\* A new submission replays a quarantined plan, and a PyPI plan whose snapshot
\* changed.
ParkPlan(a) ==
    /\ Local(a, {"parking", "outdated"})
    /\ plan' = IF HoldsPlan(a)
                 THEN [plan EXCEPT ![a.plan] =
                         ParkedPlan(@, a.at = "parking" \/ plan[a.plan].format = "pypi")]
                 ELSE plan
    /\ Leaves(a)
    /\ UNCHANGED checkpoint

\* Durable state is reloaded: everything verified, and the lease renewed.
ReloadCheckpoints(a) ==
    /\ Local(a, {"copied"})
    /\ CASE checkpoint[a.plan] # "verified" -> Goes(a, "failed") /\ UNCHANGED plan
         [] checkpoint[a.plan] = "verified" /\ HoldsPlan(a) -> Goes(a, "ready") /\ UNCHANGED plan
         [] OTHER -> Leaves(a) /\ UNCHANGED plan
    /\ UNCHANGED checkpoint

\* Mutant: the final check relies on the early one.
AdmitFinallyUnchecked(a) ==
    /\ Local(a, {"ready"})
    /\ ~AdmissionLocked(a.plan, FinalKey(plan[a.plan].format))
    /\ Goes(a, "admitted")
    /\ UNCHANGED <<plan, checkpoint>>

\* The final check and the lock that stays until the plan is complete.  The
\* snapshot may have changed since the plan was made.
AdmitFinally(a) ==
    /\ Local(a, {"ready"})
    /\ ~AdmissionLocked(a.plan, FinalKey(plan[a.plan].format))
    /\ \/ a.plan \in quarantined /\ Goes(a, "parking")
       \/ a.plan \notin quarantined /\ Goes(a, "admitted")
       \/ /\ a.plan \notin quarantined
          /\ plan[a.plan].format \in TakesSnapshot
          /\ Goes(a, "outdated")
    /\ UNCHANGED <<plan, checkpoint>>

LockReplicationPlanLease(a) ==
    /\ Local(a, {"admitted"})
    /\ ~LeaseLocked(a.plan)
    /\ IF HoldsPlan(a) THEN Goes(a, "publishing") ELSE Leaves(a)
    /\ UNCHANGED <<plan, checkpoint>>

\* Visible in the target, or refused; the locks of a refused one are released.
Publish(a) ==
    /\ a.at = "publishing"
    /\ \/ published' = published \union {a.plan} /\ Goes(a, "published")
       \/ UNCHANGED published /\ Goes(a, "failed")
    /\ UNCHANGED <<plan, checkpoint, quarantined, transition, planReplays,
                   transitions>>

\* Complete, then release.  An expired lease does not complete.
CompleteReplicationPlan(a) ==
    /\ Local(a, {"published"})
    /\ plan' = IF HoldsPlan(a)
                 THEN [plan EXCEPT ![a.plan] = CompletedPlan(@)]
                 ELSE plan
    /\ Leaves(a)
    /\ UNCHANGED checkpoint

\* The process stops, the heartbeat or the store fails, or an earlier plan of
\* the same batch ended the run: locks go, the row stays.
DropPlan(a) ==
    /\ Leaves(a)
    /\ UNCHANGED <<plan, checkpoint, published, quarantined, transition,
                   planReplays, transitions>>

-----------------------------------------------------------------------------
(* The operator's quarantine transitions                                   *)

LockArtifactQuarantineTransition(p) ==
    /\ transitions < MaxTransitions
    /\ p \notin transition
    /\ ~AdmissionLocked(p, UnitKey(plan[p].format))
    /\ transition' = transition \union {p}
    /\ transitions' = transitions + 1
    /\ UNCHANGED <<plan, checkpoint, published, quarantined, work, planReplays>>

\* ReplaceArtifactQuarantine commits (or refuses), and the lock is released.
CommitTransition(p) ==
    /\ p \in transition
    /\ transition' = transition \ {p}
    /\ quarantined' \in {quarantined, quarantined \union {p}, quarantined \ {p}}
    /\ UNCHANGED <<plan, checkpoint, published, work, planReplays, transitions>>

-----------------------------------------------------------------------------

RunsPlan(a) ==
    \/ StartPlan(a) \/ StepFails(a) \/ AdmitEarly(a) \/ LockObjectKeys(a)
    \/ CopyCheckpoint(a) \/ ExtendLease(a)
    \/ FailCheckpoint(a) \/ FailPlan(a) \/ ParkPlan(a) \/ ReloadCheckpoints(a)
    \/ AdmitFinally(a) \/ LockReplicationPlanLease(a) \/ Publish(a)
    \/ CompleteReplicationPlan(a)

ClaimsPlan(p) == RecoverExpiredReplicationPlans(p) \/ claimReplicationPlans(p)
WorksOnPlan == \E a \in work : RunsPlan(a) \/ DropPlan(a)

PlanNext ==
    \/ \E p \in Plans :
         \/ CreateReplicationPlan(p) \/ CancelReplicationPlan(p)
         \/ ClaimsPlan(p) \/ PlanLeaseExpires(p)
         \/ LockArtifactQuarantineTransition(p) \/ CommitTransition(p)
    \/ WorksOnPlan

PlanSpec == PlanInit /\ [][PlanNext]_planVars

-----------------------------------------------------------------------------
(* Properties                                                              *)

\* From its last check to the end of its publication no artifact is
\* quarantined: the transition and the worker's final check take the same
\* lock ("linearizes a quarantine transition with the final metadata
\* publication").
PublishedUnderAdmission ==
    \A a \in work : a.at \in Admitted => a.plan \notin quarantined

\* Whoever publishes owns the plan, and nobody else publishes it, even after
\* the lease has expired: recovery takes the same fence, so it cannot hand
\* the plan to another worker in the publication window.
PublisherOwnsPlan ==
    \A a \in work : a.at \in Fenced =>
        /\ OwnsPlan(a)
        /\ \A b \in work : b.plan = a.plan /\ b.at \in Fenced => b = a

\* A completed plan has verified its object and published it, whatever
\* attempts failed, crashed or were taken over before.
CompletedIsPublished ==
    \A p \in Plans : plan[p].state = "completed" =>
        checkpoint[p] = "verified" /\ p \in published

\* Plans as leased work; a failed plan that will be tried again is open.
PlanPhase(row) ==
    CASE row.state = "pending" \/ (row.state = "failed" /\ row.next) -> "open"
      [] row.state = "running" -> "held"
      [] row.state = "completed" -> "done"
      [] row.state = "absent" -> "absent"
      [] OTHER -> "parked"

PlanWork == INSTANCE LeasedWork WITH
    Items <- Plans,
    Timely <- ~PlanClockSkew,
    phase <- [p \in Plans |-> PlanPhase(plan[p])],
    lease <- [p \in Plans |-> IF plan[p].state = "running"
                                THEN plan[p].claims ELSE 0],
    live <- [p \in Plans |-> plan[p].live],
    hands <- {<<a.plan, a.token>> : a \in work}

\* Replication plans are leased work: a worker whose plan was recovered or
\* claimed again can neither complete, fail nor park it.
PlansAreLeasedWork == PlanWork!Spec

\* Workers claim on every tick and end what they hold, leases run out, and an
\* operator's request ends.
PlanFairness ==
    WF_planVars(\/ WorksOnPlan
                \/ \E p \in Plans : ClaimsPlan(p) \/ PlanLeaseExpires(p) \/ CommitTransition(p))

ActivePlans == {p \in Plans : PlanPhase(plan[p]) \in {"open", "held"}}

\* Every plan comes to rest, completed, cancelled, parked or failed for good,
\* whatever crashes: under a bounded load no plan stays active.
EveryPlanSettles == PlanFairness => ((ActivePlans # {}) ~> (ActivePlans = {}))
=============================================================================
