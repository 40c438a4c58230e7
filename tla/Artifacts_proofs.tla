--------------------------- MODULE Artifacts_proofs ---------------------------
(***************************************************************************)
(* Safety of two ways an artifact gets into a repository: replication from *)
(* another node, and the publication of hosted Go modules.                 *)
(*                                                                         *)
(* Replication plans, for any number of plans, formats, workers and        *)
(* attempts, and that they implement LeasedWork.  A step is described by   *)
(* what it does to each row (PlanMove), to the claims in hand (WorkMove)   *)
(* and to the checkpoints (CheckMove); the invariant and the refinement    *)
(* follow from these three.                                                *)
(*                                                                         *)
(* Hosted Go modules, for any number of repositories, objects, callers and *)
(* job attempts: every visible version has its bytes, and no object is     *)
(* forgotten by the collector.                                             *)
(***************************************************************************)
EXTENDS ReplicationPlans, GoModules, TLAPS

-----------------------------------------------------------------------------
(* Replication plans: the inductive invariant                              *)

PlanRows ==
    /\ plan \in [Plans -> PlanRow]
    /\ \A p \in Plans : plan[p].live => plan[p].state = "running"

\* The token of a claim identifies it, and has been issued.
Keys ==
    /\ work \subseteq Work
    /\ \A a, b \in work : a.plan = b.plan /\ a.token = b.token => a = b
    /\ \A a \in work : a.token > 0 /\ a.token <= plan[a.plan].claims

Others ==
    /\ checkpoint \in [Plans -> {"pending", "verified", "failed"}]
    /\ published \subseteq Plans
    /\ quarantined \subseteq Plans
    /\ transition \subseteq Plans
    /\ planReplays \in Nat /\ transitions \in Nat

FenceOwns == \A a \in work : a.at \in Fenced => OwnsPlan(a)

\* Past the reload, the checkpoint of a plan still owned stays verified.
Reloaded == {"ready", "admitted", "publishing", "published"}
Checked ==
    \A a \in work :
        /\ a.at \in Reloaded /\ OwnsPlan(a) => checkpoint[a.plan] = "verified"
        /\ a.at = "published" => a.plan \in published

PInv == PlanRows /\ Keys /\ Others /\ FenceOwns /\ Checked /\ CompletedIsPublished

-----------------------------------------------------------------------------
(* What a step may do                                                      *)

PlanHands == {<<a.plan, a.token>> : a \in work}
Open(row) == row.state = "pending" \/ (row.state = "failed" /\ row.next)

Arranges(p) == /\ plan[p].state \in {"absent", "pending", "failed"}
               /\ plan'[p].state \in {"pending", "cancelled"}
               /\ plan'[p].claims = plan[p].claims
Ages(p) == /\ plan[p].state = "running" /\ plan'[p].state = "running"
           /\ plan'[p].claims = plan[p].claims
           /\ plan'[p].live => <<p, plan[p].claims>> \in PlanHands
PlanForfeits(p) == /\ plan[p].state = "running" /\ (PlanClockSkew \/ ~plan[p].live)
               /\ ~LeaseLocked(p) /\ work' = work
               /\ plan'[p].state = "failed"
               /\ plan'[p].claims = plan[p].claims
ReportsOn(p) == /\ plan[p].state = "running" /\ plan[p].live
                /\ <<p, plan[p].claims>> \in PlanHands \ PlanHands'
                /\ \/ plan'[p].state = "failed"
                   \/ /\ plan'[p].state = "completed"
                      /\ checkpoint[p] = "verified" /\ p \in published
                /\ plan'[p].claims = plan[p].claims
HandsOut(p) == /\ Open(plan[p])
               /\ plan'[p].state = "running" /\ plan'[p].live
               /\ plan'[p].claims = plan[p].claims + 1
               /\ <<p, plan'[p].claims>> \in PlanHands' \ PlanHands
PlanMove(p) == \/ plan'[p] = plan[p] \/ Arranges(p) \/ Ages(p)
               \/ PlanForfeits(p) \/ ReportsOn(p) \/ HandsOut(p)

\* A worker goes from a to b under the same claim.
Moved(a, b) ==
    /\ b \in Work /\ b.plan = a.plan /\ b.token = a.token
    /\ work' = (work \ {a}) \union {b}
    /\ b.at \in Fenced => a.at \in Fenced \/ OwnsPlan(a)
    /\ b.at \in Reloaded => a.at \in Reloaded \/ checkpoint[a.plan] = "verified"
    /\ b.at = "published" => a.plan \in published'
    /\ b.at \in Admitted => \/ a.at \in Admitted
                            \/ /\ a.plan \notin quarantined
                               /\ ~AdmissionLocked(a.plan, FinalKey(plan[a.plan].format))

NewClaim(p) ==
    /\ plan'[p].claims = plan[p].claims + 1
    /\ work' = work \union {[plan |-> p, token |-> plan[p].claims + 1, at |-> "claimed",
                             verified |-> FALSE, objects |-> FALSE]}

WorkMove == \/ work' = work
            \/ \E p \in Plans : NewClaim(p)
            \/ \E a \in work : Leaves(a)
            \/ \E a \in work, b \in Work : Moved(a, b)

CheckMove(p) ==
    \/ checkpoint'[p] = checkpoint[p]
    \/ plan[p].state \in {"failed", "absent"}
    \/ /\ plan[p].state = "running" /\ plan' = plan
       /\ \A b \in work' : b.plan = p /\ b.token = plan[p].claims => b.at \notin Reloaded

-----------------------------------------------------------------------------
(* Rows                                                                    *)

\* What each statement writes is a row, and which of its columns it changes.
LEMMA RowWrites ==
    ASSUME NEW r \in PlanRow
    PROVE  /\ PendingPlan(r) \in PlanRow /\ PendingPlan(r).state = "pending"
           /\ PendingPlan(r).claims = r.claims /\ PendingPlan(r).live = r.live
           /\ CancelledPlan(r) \in PlanRow /\ CancelledPlan(r).state = "cancelled"
           /\ CancelledPlan(r).claims = r.claims /\ CancelledPlan(r).live = r.live
           /\ FailedPlan(r) \in PlanRow /\ FailedPlan(r).state = "failed"
           /\ FailedPlan(r).claims = r.claims /\ FailedPlan(r).live = FALSE
           /\ CompletedPlan(r) \in PlanRow /\ CompletedPlan(r).state = "completed"
           /\ CompletedPlan(r).claims = r.claims /\ CompletedPlan(r).live = FALSE
<1>1. (r.attempts < PlanAttempts) \in BOOLEAN
  BY PlanBoundsAssumption DEF PlanRow
<1>2. PendingPlan(r) \in PlanRow /\ CancelledPlan(r) \in PlanRow
  BY Zenon DEF PendingPlan, CancelledPlan, PlanRow, PlanStates
<1>3. FailedPlan(r) \in PlanRow /\ CompletedPlan(r) \in PlanRow
  BY Zenon, <1>1 DEF FailedPlan, CompletedPlan, PlanRow, PlanStates
<1>4. /\ PendingPlan(r).state = "pending" /\ PendingPlan(r).claims = r.claims
      /\ PendingPlan(r).live = r.live
      /\ CancelledPlan(r).state = "cancelled" /\ CancelledPlan(r).claims = r.claims
      /\ CancelledPlan(r).live = r.live
  BY Zenon DEF PendingPlan, CancelledPlan, PlanRow
<1>5. /\ FailedPlan(r).state = "failed" /\ FailedPlan(r).claims = r.claims
      /\ FailedPlan(r).live = FALSE
      /\ CompletedPlan(r).state = "completed" /\ CompletedPlan(r).claims = r.claims
      /\ CompletedPlan(r).live = FALSE
  BY Zenon DEF FailedPlan, CompletedPlan, PlanRow
<1> QED
  BY Zenon, <1>2, <1>3, <1>4, <1>5

\* The claim issues the next token.
LEMMA ClaimWrites ==
    ASSUME NEW r \in PlanRow
    PROVE  /\ ClaimedPlan(r) \in PlanRow /\ ClaimedPlan(r).state = "running"
           /\ ClaimedPlan(r).live = TRUE /\ ClaimedPlan(r).claims = r.claims + 1
<1>1. r.attempts + 1 \in Nat /\ r.claims + 1 \in Nat
  BY DEF PlanRow
<1>2. ClaimedPlan(r) \in PlanRow
  BY Zenon, <1>1 DEF ClaimedPlan, PlanRow, PlanStates
<1> QED
  BY Zenon, <1>2 DEF ClaimedPlan, PlanRow

\* Time and renewals touch the expiry only.
LEMMA ClockWrites ==
    ASSUME NEW r \in PlanRow, NEW b \in BOOLEAN
    PROVE  /\ ClockedPlan(r, b) \in PlanRow /\ ClockedPlan(r, b).state = r.state
           /\ ClockedPlan(r, b).claims = r.claims /\ ClockedPlan(r, b).live = b
  BY Zenon DEF ClockedPlan, PlanRow

\* Parking gives the attempt back and keeps the claims counted.
LEMMA ParkWrites ==
    ASSUME NEW r \in PlanRow, NEW b \in BOOLEAN
    PROVE  /\ ParkedPlan(r, b) \in PlanRow /\ ParkedPlan(r, b).state = "failed"
           /\ ParkedPlan(r, b).claims = r.claims /\ ParkedPlan(r, b).live = FALSE
<1>1. (IF r.attempts = 0 THEN 0 ELSE r.attempts - 1) \in Nat
  BY DEF PlanRow
<1>2. ParkedPlan(r, b) \in PlanRow
  BY Zenon, <1>1 DEF ParkedPlan, PlanRow, PlanStates
<1> QED
  BY Zenon, <1>2 DEF ParkedPlan, PlanRow

\* A statement on one row leaves the table a table and the others alone.
LEMMA OneRow ==
    ASSUME PlanRows, NEW p \in Plans, NEW r \in PlanRow, plan' = [plan EXCEPT ![p] = r],
           r.live => r.state = "running"
    PROVE  /\ PlanRows'
           /\ plan'[p] = r
           /\ \A q \in Plans \ {p} : plan'[q] = plan[q]
  BY Zenon DEF PlanRows

-----------------------------------------------------------------------------
(* Workers                                                                 *)

\* Going somewhere keeps the claim.
LEMMA GoesSomewhere ==
    ASSUME Keys, NEW a \in work, NEW at, Goes(a, at),
           at \in {"parking", "cleared", "verified", "copied", "ready", "admitted",
                   "publishing", "published", "outdated", "failing", "failed"}
    PROVE  \E b \in Work : /\ b.plan = a.plan /\ b.token = a.token /\ b.at = at
                           /\ work' = (work \ {a}) \union {b}
<1> DEFINE b == [a EXCEPT !.at = at]
<1>1. a \in Work
  BY Zenon DEF Keys
<1>2. b.plan = a.plan /\ b.token = a.token /\ b.at = at /\ b \in Work
  BY Zenon, <1>1 DEF Work
<1> QED
  BY Zenon, <1>2 DEF Goes

\* Every step of a worker keeps its claim or gives it up, enters the lease
\* lock only as the owner, and goes past the reload only with a verified
\* checkpoint and past the last check only when not quarantined.
LEMMA WorkerMoves ==
    ASSUME PInv, NEW a \in work, RunsPlan(a) \/ DropPlan(a)
    PROVE  Leaves(a) \/ \E b \in Work : Moved(a, b)
<1>0. a \in Work /\ Keys
  BY Zenon DEF PInv, Keys
<1>1. CASE StartPlan(a)
  <2>1. CASE Leaves(a)
    BY Zenon, <2>1
  <2> DEFINE b == [a EXCEPT !.at = "started", !.verified = checkpoint[a.plan] = "verified"]
  <2>2. CASE work' = (work \ {a}) \union {b}
    <3>1. b.plan = a.plan /\ b.token = a.token /\ b.at = "started" /\ b \in Work
      BY Zenon, <1>0 DEF Work
    <3>2. b.at \notin Fenced /\ b.at \notin Reloaded /\ b.at \notin Admitted /\ b.at # "published"
      BY <3>1 DEF Fenced, Reloaded, Admitted
    <3> QED
      BY Zenon, <2>2, <3>1, <3>2 DEF Moved
  <2> QED
    BY Zenon, <1>1, <2>1, <2>2 DEF StartPlan
<1>2. CASE LockObjectKeys(a)
  <2> DEFINE b == [a EXCEPT !.at = "copying", !.objects = TRUE]
  <2>1. b.plan = a.plan /\ b.token = a.token /\ b.at = "copying" /\ b \in Work
    BY Zenon, <1>0 DEF Work
  <2>2. b.at \notin Fenced /\ b.at \notin Reloaded /\ b.at \notin Admitted /\ b.at # "published"
    BY <2>1 DEF Fenced, Reloaded, Admitted
  <2> QED
    BY Zenon, <1>2, <2>1, <2>2 DEF LockObjectKeys, Moved
<1>3. ASSUME NEW at \in {"parking", "cleared", "verified", "copied", "outdated",
                         "failing", "failed"}, Goes(a, at)
      PROVE  \E b \in Work : Moved(a, b)
  <2>1. PICK b \in Work : /\ b.plan = a.plan /\ b.token = a.token /\ b.at = at
                          /\ work' = (work \ {a}) \union {b}
    BY Zenon, <1>0, <1>3, GoesSomewhere
  <2>2. b.at \notin Fenced /\ b.at \notin Reloaded /\ b.at \notin Admitted /\ b.at # "published"
    BY <1>3, <2>1 DEF Fenced, Reloaded, Admitted
  <2> QED
    BY Zenon, <2>1, <2>2 DEF Moved
<1>4. CASE ReloadCheckpoints(a)
  <2>1. CASE Goes(a, "ready") /\ checkpoint[a.plan] = "verified"
    <3>1. PICK b \in Work : /\ b.plan = a.plan /\ b.token = a.token /\ b.at = "ready"
                            /\ work' = (work \ {a}) \union {b}
      BY Zenon, <1>0, <2>1, GoesSomewhere
    <3>2. b.at \notin Fenced /\ b.at \notin Admitted /\ b.at # "published"
      BY <3>1 DEF Fenced, Admitted
    <3> QED
      BY Zenon, <2>1, <3>1, <3>2 DEF Moved
  <2> QED
    BY Zenon, <1>3, <1>4, <2>1 DEF ReloadCheckpoints
<1>5. CASE AdmitFinally(a)
  <2>1. CASE Goes(a, "admitted") /\ a.plan \notin quarantined
    <3>1. PICK b \in Work : /\ b.plan = a.plan /\ b.token = a.token /\ b.at = "admitted"
                            /\ work' = (work \ {a}) \union {b}
      BY Zenon, <1>0, <2>1, GoesSomewhere
    <3>2. b.at \notin Fenced /\ b.at # "published" /\ a.at \in Reloaded
      BY <1>5, <3>1 DEF Fenced, Reloaded, AdmitFinally, Local
    <3> QED
      BY Zenon, <1>5, <2>1, <3>1, <3>2 DEF Moved, AdmitFinally
  <2> QED
    BY Zenon, <1>3, <1>5, <2>1 DEF AdmitFinally
<1>6. CASE LockReplicationPlanLease(a)
  <2>1. CASE Goes(a, "publishing") /\ HoldsPlan(a)
    <3>1. PICK b \in Work : /\ b.plan = a.plan /\ b.token = a.token /\ b.at = "publishing"
                            /\ work' = (work \ {a}) \union {b}
      BY Zenon, <1>0, <2>1, GoesSomewhere
    <3>2. b.at # "published" /\ a.at \in Reloaded /\ a.at \in Admitted
      BY <1>6, <3>1 DEF Reloaded, Admitted, LockReplicationPlanLease, Local
    <3> QED
      BY Zenon, <2>1, <3>1, <3>2 DEF Moved, HoldsPlan
  <2> QED
    BY Zenon, <1>6, <2>1 DEF LockReplicationPlanLease
<1>7. CASE Publish(a)
  <2>1. CASE Goes(a, "published") /\ published' = published \union {a.plan}
    <3>1. PICK b \in Work : /\ b.plan = a.plan /\ b.token = a.token /\ b.at = "published"
                            /\ work' = (work \ {a}) \union {b}
      BY Zenon, <1>0, <2>1, GoesSomewhere
    <3>2. a.at \in Reloaded /\ a.at \in Admitted /\ a.at \in Fenced
      BY <1>7 DEF Reloaded, Admitted, Fenced, Publish
    <3> QED
      BY Zenon, <2>1, <3>1, <3>2 DEF Moved
  <2> QED
    BY Zenon, <1>3, <1>7, <2>1 DEF Publish
<1>8. CASE StepFails(a) \/ AdmitEarly(a) \/ CopyCheckpoint(a) \/ ExtendLease(a) \/ FailCheckpoint(a)
  BY Zenon, <1>3, <1>8 DEF StepFails, AdmitEarly, CopyCheckpoint, ExtendLease, FailCheckpoint
<1>9. CASE FailPlan(a) \/ ParkPlan(a) \/ CompleteReplicationPlan(a) \/ DropPlan(a)
  BY Zenon, <1>9 DEF FailPlan, ParkPlan, CompleteReplicationPlan, DropPlan
<1> QED
  BY Zenon, <1>1, <1>2, <1>4, <1>5, <1>6, <1>7, <1>8, <1>9 DEF RunsPlan

\* A claim that is given up is in nobody's hands.
LEMMA PlanGivenUp ==
    ASSUME Keys, NEW a \in work, Leaves(a)
    PROVE  <<a.plan, a.token>> \in PlanHands \ PlanHands'
<1>1. <<a.plan, a.token>> \in PlanHands
  BY Zenon DEF PlanHands
<1>2. \A b \in work' : b.plan # a.plan \/ b.token # a.token
  BY Zenon DEF Keys, Leaves
<1>3. \A b \in work' : <<a.plan, a.token>> # <<b.plan, b.token>>
  BY <1>2
<1> QED
  BY Zenon, <1>1, <1>3 DEF PlanHands

\* A worker writes the row of the plan it owns, when it gives its claim up.
LEMMA ReportMoves ==
    ASSUME PInv, NEW a \in work, HoldsPlan(a), Leaves(a), NEW r \in PlanRow,
           plan' = [plan EXCEPT ![a.plan] = r], r.claims = plan[a.plan].claims, r.live = FALSE,
           \/ r.state = "failed"
           \/ r.state = "completed" /\ a.at = "published"
    PROVE  PlanRows' /\ \A p \in Plans : PlanMove(p)
<1>1. a.plan \in Plans /\ a.token = plan[a.plan].claims
  BY DEF PInv, Keys, Work, HoldsPlan, OwnsPlan
<1>2. PlanRows' /\ plan'[a.plan] = r /\ \A q \in Plans \ {a.plan} : plan'[q] = plan[q]
  BY Zenon, <1>1, OneRow DEF PInv
<1>3. <<a.plan, plan[a.plan].claims>> \in PlanHands \ PlanHands'
  BY Zenon, <1>1, PlanGivenUp DEF PInv
<1>4. a.at = "published" => checkpoint[a.plan] = "verified" /\ a.plan \in published
  BY Zenon DEF PInv, Checked, HoldsPlan, Reloaded
<1>5. ReportsOn(a.plan)
  BY Zenon, <1>2, <1>3, <1>4 DEF ReportsOn, HoldsPlan, OwnsPlan
<1> QED
  BY Zenon, <1>2, <1>5 DEF PlanMove

\* What a worker does to the rows.
LEMMA WorkerRows ==
    ASSUME PInv, NEW a \in work, RunsPlan(a) \/ DropPlan(a)
    PROVE  PlanRows' /\ \A p \in Plans : PlanMove(p)
<1>0. PlanRows /\ a.plan \in Plans /\ plan[a.plan] \in PlanRow
  BY DEF PInv, Keys, Work, PlanRows
<1>1. CASE UNCHANGED plan
  BY Zenon, <1>0, <1>1 DEF PlanRows, PlanMove
<1>2. CASE ExtendLease(a)
  <2> DEFINE r == ClockedPlan(plan[a.plan], TRUE)
  <2>1. CASE OwnsPlan(a) /\ plan' = [plan EXCEPT ![a.plan] = r]
    <3>1. r \in PlanRow /\ r.state = "running" /\ r.claims = plan[a.plan].claims
      BY Zenon, <1>0, <2>1, ClockWrites DEF OwnsPlan
    <3>2. PlanRows' /\ plan'[a.plan] = r /\ \A q \in Plans \ {a.plan} : plan'[q] = plan[q]
      BY Zenon, <1>0, <2>1, <3>1, OneRow
    <3>3. <<a.plan, plan[a.plan].claims>> \in PlanHands
      BY Zenon, <2>1 DEF PlanHands, OwnsPlan
    <3> QED
      BY Zenon, <2>1, <3>1, <3>2, <3>3 DEF PlanMove, Ages, OwnsPlan
  <2> QED
    BY Zenon, <1>1, <1>2, <2>1 DEF ExtendLease
<1>3. CASE FailPlan(a)
  BY Zenon, <1>0, <1>1, <1>3, RowWrites, ReportMoves DEF FailPlan
<1>4. CASE ParkPlan(a)
  <2> DEFINE b == a.at = "parking" \/ plan[a.plan].format = "pypi"
             r == ParkedPlan(plan[a.plan], b)
  <2>0. b \in BOOLEAN
    BY Zenon
  <2>1. r \in PlanRow /\ r.state = "failed" /\ r.claims = plan[a.plan].claims /\ r.live = FALSE
    BY Zenon, <1>0, <2>0, ParkWrites
  <2>2. CASE HoldsPlan(a) /\ plan' = [plan EXCEPT ![a.plan] = r]
    BY Zenon, <1>4, <2>1, <2>2, ReportMoves DEF ParkPlan
  <2> QED
    BY Zenon, <1>1, <1>4, <2>2 DEF ParkPlan
<1>5. CASE CompleteReplicationPlan(a)
  BY Zenon, <1>0, <1>1, <1>5, RowWrites, ReportMoves DEF CompleteReplicationPlan, Local
<1> QED
  BY Zenon, <1>1, <1>2, <1>3, <1>4, <1>5
     DEF RunsPlan, StartPlan, StepFails, AdmitEarly, LockObjectKeys, CopyCheckpoint,
         FailCheckpoint, ReloadCheckpoints, AdmitFinally, LockReplicationPlanLease,
         Publish, DropPlan

\* A checkpoint is written by the worker that holds the plan, before it
\* reloads it.
LEMMA WorkerChecks ==
    ASSUME PInv, NEW a \in work, RunsPlan(a) \/ DropPlan(a)
    PROVE  /\ checkpoint' \in [Plans -> {"pending", "verified", "failed"}]
           /\ \A p \in Plans : CheckMove(p)
<1>0. /\ a \in Work /\ a.plan \in Plans /\ Keys
      /\ checkpoint \in [Plans -> {"pending", "verified", "failed"}]
  BY DEF PInv, Keys, Work, Others
<1>1. CASE UNCHANGED checkpoint
  BY Zenon, <1>0, <1>1 DEF CheckMove
<1>2. ASSUME NEW c \in {"verified", "failed"}, HoldsPlan(a), plan' = plan,
             checkpoint' = [checkpoint EXCEPT ![a.plan] = c],
             Goes(a, "verified") \/ Goes(a, "failed")
      PROVE  /\ checkpoint' \in [Plans -> {"pending", "verified", "failed"}]
             /\ \A p \in Plans : CheckMove(p)
  <2>1. PICK b \in Work : /\ b.plan = a.plan /\ b.token = a.token
                          /\ b.at \in {"verified", "failed"}
                          /\ work' = (work \ {a}) \union {b}
    BY Zenon, <1>0, <1>2, GoesSomewhere
  <2>2. b.at \notin Reloaded
    BY <2>1 DEF Reloaded
  <2>3. plan[a.plan].state = "running" /\ plan[a.plan].claims = a.token
    BY Zenon, <1>2 DEF HoldsPlan, OwnsPlan
  <2>4. \A d \in work' : d.plan = a.plan /\ d.token = a.token => d.at \notin Reloaded
    BY Zenon, <1>0, <2>1, <2>2 DEF Keys
  <2>5. /\ checkpoint' \in [Plans -> {"pending", "verified", "failed"}]
        /\ \A p \in Plans \ {a.plan} : checkpoint'[p] = checkpoint[p]
    BY Zenon, <1>0, <1>2
  <2> QED
    BY ZenonT(40), <1>2, <2>3, <2>4, <2>5 DEF CheckMove
<1> QED
  BY Zenon, <1>1, <1>2
     DEF RunsPlan, StartPlan, StepFails, AdmitEarly, LockObjectKeys, CopyCheckpoint,
         ExtendLease, FailCheckpoint, FailPlan, ParkPlan, ReloadCheckpoints, AdmitFinally,
         LockReplicationPlanLease, Publish, CompleteReplicationPlan, DropPlan

\* The rest of what a worker changes.
LEMMA WorkerOthers ==
    ASSUME PInv, NEW a \in work, RunsPlan(a) \/ DropPlan(a)
    PROVE  /\ published \subseteq published' /\ published' \subseteq Plans
           /\ UNCHANGED <<quarantined, transition, planReplays, transitions>>
<1>0. a.plan \in Plans /\ published \subseteq Plans
  BY DEF PInv, Keys, Work, Others
<1>1. CASE Publish(a)
  BY Zenon, <1>0, <1>1 DEF Publish
<1>2. CASE DropPlan(a)
  BY Zenon, <1>0, <1>2 DEF DropPlan
<1> QED
  BY Zenon, <1>0, <1>1, <1>2
     DEF RunsPlan, StartPlan, StepFails, AdmitEarly, LockObjectKeys, CopyCheckpoint,
         ExtendLease, FailCheckpoint, FailPlan, ParkPlan, ReloadCheckpoints, AdmitFinally,
         LockReplicationPlanLease, CompleteReplicationPlan, Local

-----------------------------------------------------------------------------
(* The table                                                               *)

TableStep(p) == \/ CreateReplicationPlan(p) \/ CancelReplicationPlan(p)
                \/ ClaimsPlan(p) \/ PlanLeaseExpires(p)

\* A claim puts a token nobody has in its worker's hands.
LEMMA PlanClaimMoves ==
    ASSUME PInv, NEW p \in Plans, claimReplicationPlans(p)
    PROVE  PlanRows' /\ NewClaim(p) /\ \A q \in Plans : PlanMove(q)
<1> DEFINE n == [plan |-> p, token |-> plan[p].claims + 1, at |-> "claimed",
                 verified |-> FALSE, objects |-> FALSE]
<1>0. PlanRows /\ plan[p] \in PlanRow
  BY Zenon DEF PInv, PlanRows
<1>1. /\ ClaimedPlan(plan[p]) \in PlanRow /\ ClaimedPlan(plan[p]).state = "running"
      /\ ClaimedPlan(plan[p]).live = TRUE
      /\ ClaimedPlan(plan[p]).claims = plan[p].claims + 1
  BY Zenon, <1>0, ClaimWrites
<1>2. /\ PlanRows' /\ plan'[p] = ClaimedPlan(plan[p])
      /\ \A q \in Plans \ {p} : plan'[q] = plan[q]
  BY Zenon, <1>0, <1>1, OneRow DEF claimReplicationPlans
<1>3. work' = work \union {n}
  BY Zenon DEF claimReplicationPlans
<1>4. n.plan = p /\ n.token = plan[p].claims + 1
  OBVIOUS
<1>5. <<p, plan[p].claims + 1>> \in PlanHands'
  BY Zenon, <1>3, <1>4 DEF PlanHands
<1>6. <<p, plan[p].claims + 1>> \notin PlanHands
  <2>1. \A a \in work : a.plan = p => a.token # plan[p].claims + 1
    BY <1>0 DEF PInv, Keys, Work, PlanRow
  <2>2. \A a \in work : <<a.plan, a.token>> # <<p, plan[p].claims + 1>>
    BY <2>1
  <2> QED
    BY Zenon, <2>2 DEF PlanHands
<1>7. Open(plan[p])
  BY Zenon DEF Open, claimReplicationPlans, ClaimablePlan
<1>8. HandsOut(p)
  BY Zenon, <1>1, <1>2, <1>5, <1>6, <1>7 DEF HandsOut
<1> QED
  BY Zenon, <1>1, <1>2, <1>3, <1>8 DEF PlanMove, NewClaim

\* Submissions, cancellations, recovery and time.
LEMMA TableMoves ==
    ASSUME PInv, NEW p \in Plans, TableStep(p)
    PROVE  PlanRows' /\ (work' = work \/ NewClaim(p)) /\ \A q \in Plans : PlanMove(q)
<1>0. PlanRows /\ plan[p] \in PlanRow /\ (plan[p].live => plan[p].state = "running")
  BY Zenon DEF PInv, PlanRows
<1>1. CASE CreateReplicationPlan(p)
  <2>1. plan[p].state \in {"absent", "failed"} /\ work' = work
    BY Zenon, <1>1 DEF CreateReplicationPlan
  <2>2. ~plan[p].live
    BY <1>0, <2>1
  <2> DEFINE r == PendingPlan(plan[p])
  <2>3. r \in PlanRow /\ r.state = "pending" /\ r.claims = plan[p].claims /\ r.live = plan[p].live
    BY Zenon, <1>0, RowWrites
  <2>4. plan' = [plan EXCEPT ![p] = r]
    BY Zenon, <1>1 DEF CreateReplicationPlan
  <2> HIDE DEF r
  <2>5. PlanRows' /\ plan'[p] = r /\ \A q \in Plans \ {p} : plan'[q] = plan[q]
    BY Zenon, <1>0, <2>2, <2>3, <2>4, OneRow
  <2> QED
    BY Zenon, <2>1, <2>3, <2>5 DEF PlanMove, Arranges
<1>2. CASE CancelReplicationPlan(p)
  <2>1. plan[p].state \in {"pending", "failed"} /\ work' = work
    BY Zenon, <1>2 DEF CancelReplicationPlan
  <2>2. ~plan[p].live
    BY <1>0, <2>1
  <2> DEFINE r == CancelledPlan(plan[p])
  <2>3. r \in PlanRow /\ r.state = "cancelled" /\ r.claims = plan[p].claims /\ r.live = plan[p].live
    BY Zenon, <1>0, RowWrites
  <2>4. plan' = [plan EXCEPT ![p] = r]
    BY Zenon, <1>2 DEF CancelReplicationPlan
  <2> HIDE DEF r
  <2>5. PlanRows' /\ plan'[p] = r /\ \A q \in Plans \ {p} : plan'[q] = plan[q]
    BY Zenon, <1>0, <2>2, <2>3, <2>4, OneRow
  <2> QED
    BY Zenon, <2>1, <2>3, <2>5 DEF PlanMove, Arranges
<1>3. CASE RecoverExpiredReplicationPlans(p)
  <2> DEFINE r == FailedPlan(plan[p])
  <2>1. r \in PlanRow /\ r.state = "failed" /\ r.claims = plan[p].claims /\ r.live = FALSE
    BY Zenon, <1>0, RowWrites
  <2>2. Expired(p) /\ work' = work /\ plan' = [plan EXCEPT ![p] = r]
    BY Zenon, <1>3 DEF RecoverExpiredReplicationPlans
  <2> HIDE DEF r
  <2>3. PlanRows' /\ plan'[p] = r /\ \A q \in Plans \ {p} : plan'[q] = plan[q]
    BY Zenon, <1>0, <2>1, <2>2, OneRow
  <2>4. PlanForfeits(p)
    BY Zenon, <2>1, <2>2, <2>3 DEF PlanForfeits, Expired
  <2> QED
    BY Zenon, <2>2, <2>3, <2>4 DEF PlanMove
<1>4. CASE PlanLeaseExpires(p)
  <2> DEFINE r == ClockedPlan(plan[p], FALSE)
  <2>1. r \in PlanRow /\ r.state = plan[p].state /\ r.claims = plan[p].claims /\ r.live = FALSE
    BY Zenon, <1>0, ClockWrites
  <2>0. plan[p].state = "running" /\ work' = work /\ plan' = [plan EXCEPT ![p] = r]
    BY Zenon, <1>4 DEF PlanLeaseExpires
  <2> HIDE DEF r
  <2>2. PlanRows' /\ plan'[p] = r /\ \A q \in Plans \ {p} : plan'[q] = plan[q]
    BY Zenon, <1>0, <2>0, <2>1, OneRow
  <2>3. Ages(p) /\ work' = work
    BY Zenon, <2>0, <2>1, <2>2 DEF Ages
  <2> QED
    BY Zenon, <2>2, <2>3 DEF PlanMove
<1> QED
  BY Zenon, <1>1, <1>2, <1>3, <1>4, PlanClaimMoves DEF TableStep, ClaimsPlan

\* The rest of what they change.
LEMMA TableOthers ==
    ASSUME PInv, NEW p \in Plans, TableStep(p)
    PROVE  /\ checkpoint' \in [Plans -> {"pending", "verified", "failed"}]
           /\ \A q \in Plans : CheckMove(q)
           /\ UNCHANGED <<published, quarantined, transition, transitions>>
           /\ planReplays' \in Nat
<1>0. checkpoint \in [Plans -> {"pending", "verified", "failed"}] /\ planReplays \in Nat
  BY Zenon DEF PInv, Others
<1>1. CASE CreateReplicationPlan(p)
  <2>1. plan[p].state \in {"failed", "absent"}
    BY Zenon, <1>1 DEF CreateReplicationPlan
  <2>2. /\ checkpoint' \in [Plans -> {"pending", "verified", "failed"}]
        /\ \A q \in Plans \ {p} : checkpoint'[q] = checkpoint[q]
    BY Zenon, <1>0, <1>1 DEF CreateReplicationPlan
  <2>3. planReplays' \in Nat
    BY <1>0, <1>1 DEF CreateReplicationPlan
  <2> QED
    BY Zenon, <1>1, <2>1, <2>2, <2>3 DEF CreateReplicationPlan, CheckMove
<1>2. CASE ~CreateReplicationPlan(p)
  <2>1. UNCHANGED <<checkpoint, published, quarantined, transition, planReplays, transitions>>
    BY Zenon, <1>2 DEF TableStep, CancelReplicationPlan, ClaimsPlan, claimReplicationPlans,
                RecoverExpiredReplicationPlans, PlanLeaseExpires
  <2> QED
    BY Zenon, <1>0, <2>1 DEF CheckMove
<1> QED
  BY Zenon, <1>1, <1>2

-----------------------------------------------------------------------------
(* The invariant                                                           *)

\* No claim comes to own its plan again.
LEMMA OwnershipEnds ==
    ASSUME PInv, \A p \in Plans : PlanMove(p), NEW a \in work,
           plan'[a.plan].state = "running", plan'[a.plan].claims = a.token
    PROVE  OwnsPlan(a)
<1>1. /\ a.plan \in Plans /\ a.token \in Nat /\ a.token <= plan[a.plan].claims
      /\ plan[a.plan].claims \in Nat
  BY DEF PInv, Keys, Work, PlanRows, PlanRow
<1>2. PlanMove(a.plan)
  BY Zenon, <1>1
<1> QED
  BY <1>1, <1>2 DEF PlanMove, Arranges, Ages, PlanForfeits, ReportsOn, HandsOut, OwnsPlan

\* Tokens are only ever counted up.
LEMMA ClaimsGrow ==
    ASSUME PInv, PlanRows', NEW p \in Plans, PlanMove(p)
    PROVE  /\ plan[p].claims \in Nat /\ plan'[p].claims \in Nat
           /\ plan[p].claims <= plan'[p].claims
<1>1. plan[p].claims \in Nat /\ plan'[p].claims \in Nat
  BY DEF PInv, PlanRows, PlanRow
<1> QED
  BY <1>1 DEF PlanMove, Arranges, Ages, PlanForfeits, ReportsOn, HandsOut

\* Claims stay identified by their tokens.
LEMMA KeysStep ==
    ASSUME PInv, PlanRows', \A p \in Plans : PlanMove(p), WorkMove
    PROVE  Keys'
<1>0. /\ work \subseteq Work
      /\ \A a, b \in work : a.plan = b.plan /\ a.token = b.token => a = b
      /\ \A a \in work : a.plan \in Plans /\ a.token \in Nat
      /\ \A a \in work : a.token > 0 /\ a.token <= plan[a.plan].claims
  BY DEF PInv, Keys, Work
<1>1. \A a \in work : a.token > 0 /\ a.token <= plan'[a.plan].claims
  BY <1>0, ClaimsGrow
<1>2. CASE work' \subseteq work
  BY Zenon, <1>0, <1>1, <1>2 DEF Keys
<1>3. ASSUME NEW a \in work, NEW b \in Work, Moved(a, b) PROVE Keys'
  <2>1. b.plan = a.plan /\ b.token = a.token /\ work' = (work \ {a}) \union {b}
    BY Zenon, <1>3 DEF Moved
  <2>2. b.token > 0 /\ b.token <= plan'[b.plan].claims
    BY Zenon, <1>1, <2>1
  <2>3. \A c \in work' : c = b \/ (c \in work /\ c # a)
    BY Zenon, <2>1
  <2>4. \A c \in work' : c # b => c.plan # b.plan \/ c.token # b.token
    BY Zenon, <1>0, <2>1, <2>3
  <2>5. \A c, d \in work' : c.plan = d.plan /\ c.token = d.token => c = d
    BY Zenon, <1>0, <2>3, <2>4
  <2>6. \A c \in work' : c.token > 0 /\ c.token <= plan'[c.plan].claims
    BY Zenon, <1>1, <2>2, <2>3
  <2>7. work' \subseteq Work
    BY Zenon, <1>0, <2>3
  <2> QED
    BY Zenon, <2>5, <2>6, <2>7 DEF Keys
<1>4. ASSUME NEW p \in Plans, NewClaim(p) PROVE Keys'
  <2> DEFINE n == [plan |-> p, token |-> plan[p].claims + 1, at |-> "claimed",
                   verified |-> FALSE, objects |-> FALSE]
  <2>1. plan[p].claims \in Nat
    BY Zenon, ClaimsGrow
  <2>2. n \in Work /\ n.plan = p /\ n.token = plan[p].claims + 1
    BY <2>1 DEF Work
  <2>3. n.token > 0 /\ n.token <= plan'[n.plan].claims
    BY <1>4, <2>1, <2>2 DEF NewClaim
  <2>4. \A a \in work : a.plan = n.plan => a.token # n.token
    BY <1>0, <2>1, <2>2
  <2>5. work' = work \union {n}
    BY Zenon, <1>4 DEF NewClaim
  <2> HIDE DEF n
  <2> QED
    BY Zenon, <1>0, <1>1, <2>2, <2>3, <2>4, <2>5 DEF Keys
<1> QED
  BY Zenon, <1>2, <1>3, <1>4 DEF WorkMove, Leaves

\* Every claim in hand after a step was in hand before it, perhaps somewhere
\* else, or is new.
LEMMA Ancestor ==
    ASSUME PInv, WorkMove, NEW b \in work'
    PROVE  \/ b \in work
           \/ \E a \in work : Moved(a, b)
           \/ b.at = "claimed"
<1>1. ASSUME NEW p \in Plans, NewClaim(p) PROVE b \in work \/ b.at = "claimed"
  BY <1>1 DEF NewClaim
<1> QED
  BY ZenonT(40), <1>1 DEF WorkMove, Leaves, Moved

\* The owner inside the lease lock stays the owner.
LEMMA FenceStep ==
    ASSUME PInv, \A p \in Plans : PlanMove(p), WorkMove
    PROVE  FenceOwns'
<1> SUFFICES ASSUME NEW b \in work', b.at \in Fenced PROVE OwnsPlan(b)'
  BY Zenon DEF FenceOwns
<1>1. b.at # "claimed"
  BY DEF Fenced
<1>2. PICK a \in work : /\ a.plan = b.plan /\ a.token = b.token /\ OwnsPlan(a)
                        /\ work' = work => a.at \in Fenced
  BY Zenon, <1>1, Ancestor DEF PInv, FenceOwns, Moved
<1>3. a.plan \in Plans /\ plan[a.plan].state = "running" /\ plan[a.plan].claims = a.token
  BY Zenon, <1>2 DEF PInv, Keys, Work, OwnsPlan
<1>4. ~PlanForfeits(a.plan)
  BY Zenon, <1>2 DEF PlanForfeits, LeaseLocked
<1>5. <<a.plan, a.token>> \in PlanHands'
  BY Zenon, <1>2 DEF PlanHands
<1>6. ~ReportsOn(a.plan)
  BY Zenon, <1>3, <1>5 DEF ReportsOn
<1>7. ~Arranges(a.plan) /\ ~HandsOut(a.plan)
  BY <1>3 DEF Arranges, HandsOut, Open
<1>8. PlanMove(a.plan)
  BY Zenon, <1>3
<1>9. plan'[a.plan].state = "running" /\ plan'[a.plan].claims = a.token
  BY Zenon, <1>3, <1>4, <1>6, <1>7, <1>8 DEF PlanMove, Ages
<1> QED
  BY Zenon, <1>2, <1>9 DEF OwnsPlan

\* Verified at the reload, verified while owned.
LEMMA CheckedStep ==
    ASSUME PInv, \A p \in Plans : PlanMove(p), WorkMove, \A p \in Plans : CheckMove(p),
           published \subseteq published'
    PROVE  Checked'
<1> SUFFICES ASSUME NEW b \in work'
             PROVE  /\ b.at \in Reloaded /\ OwnsPlan(b)' => checkpoint'[b.plan] = "verified"
                    /\ b.at = "published" => b.plan \in published'
  BY Zenon DEF Checked
<1>1. b.at = "published" => b.plan \in published'
  <2>1. b.at = "claimed" => b.at # "published"
    OBVIOUS
  <2> QED
    BY Zenon, <2>1, Ancestor DEF Moved, PInv, Checked
<1>2. ASSUME b.at \in Reloaded, OwnsPlan(b)' PROVE checkpoint'[b.plan] = "verified"
  <2>1. b.at # "claimed"
    BY <1>2 DEF Reloaded
  <2>2. PICK a \in work : /\ a.plan = b.plan /\ a.token = b.token
                          /\ a.at \in Reloaded \/ checkpoint[a.plan] = "verified"
    BY Zenon, <1>2, <2>1, Ancestor DEF Moved
  <2>3. OwnsPlan(a)
    BY Zenon, <1>2, <2>2, OwnershipEnds DEF OwnsPlan
  <2>4. checkpoint[a.plan] = "verified" /\ a.plan \in Plans
    BY Zenon, <2>2, <2>3 DEF PInv, Checked, Keys, Work
  <2>5. plan[a.plan].state = "running" /\ plan[a.plan].claims = b.token
    BY Zenon, <2>2, <2>3 DEF OwnsPlan
  <2>6. plan[a.plan].state \notin {"failed", "absent"}
    BY <2>5
  <2> QED
    BY Zenon, <1>2, <2>2, <2>4, <2>5, <2>6 DEF CheckMove
<1> QED
  BY Zenon, <1>1, <1>2

\* What is complete stays verified and published.
LEMMA CompletedStep ==
    ASSUME PInv, \A p \in Plans : PlanMove(p), \A p \in Plans : CheckMove(p),
           published \subseteq published'
    PROVE  CompletedIsPublished'
<1> SUFFICES ASSUME NEW p \in Plans, plan'[p].state = "completed"
             PROVE  checkpoint'[p] = "verified" /\ p \in published'
  BY Zenon DEF CompletedIsPublished
<1>1. PlanMove(p) /\ CheckMove(p)
  BY Zenon
<1>2. plan'[p] = plan[p] \/ ReportsOn(p)
  BY <1>1 DEF PlanMove, Arranges, Ages, PlanForfeits, HandsOut
<1>3. checkpoint[p] = "verified" /\ p \in published
  BY <1>2 DEF ReportsOn, PInv, CompletedIsPublished
<1>4. plan[p].state \notin {"failed", "absent"}
  BY <1>2 DEF ReportsOn
<1>5. checkpoint'[p] = checkpoint[p] \/ (plan' = plan /\ plan[p].state = "running")
  BY Zenon, <1>1, <1>4 DEF CheckMove
<1>6. checkpoint'[p] = checkpoint[p]
  BY <1>5
<1> QED
  BY Zenon, <1>3, <1>6

\* The invariant follows from the three kinds of move.
LEMMA MovesInv ==
    ASSUME PInv, PlanRows', Others', \A p \in Plans : PlanMove(p), WorkMove,
           \A p \in Plans : CheckMove(p), published \subseteq published'
    PROVE  PInv'
  BY Zenon, KeysStep, FenceStep, CheckedStep, CompletedStep DEF PInv

\* Before anything is submitted.
LEMMA InitPInv == PlanInit => PInv
<1> SUFFICES ASSUME PlanInit PROVE PInv
  OBVIOUS
<1> DEFINE R == {[format |-> f, state |-> "absent", attempts |-> 0, claims |-> 0,
                  live |-> FALSE, next |-> FALSE, parked |-> FALSE] : f \in PlanFormats}
<1>0. ASSUME NEW r \in R PROVE r \in PlanRow /\ r.state = "absent" /\ r.live = FALSE
  <2>1. PICK f \in PlanFormats :
            r = [format |-> f, state |-> "absent", attempts |-> 0, claims |-> 0,
                 live |-> FALSE, next |-> FALSE, parked |-> FALSE]
    BY Zenon
  <2> QED
    BY <2>1 DEF PlanRow, PlanStates
<1>5. plan \in [Plans -> R]
  BY Zenon DEF PlanInit
<1> HIDE DEF R
<1>1. PlanRows /\ \A p \in Plans : plan[p].state = "absent"
  BY Zenon, <1>0, <1>5 DEF PlanRows
<1>2. Keys /\ FenceOwns /\ Checked
  BY Zenon DEF PlanInit, Keys, FenceOwns, Checked
<1>3. Others
  BY DEF PlanInit, Others
<1>4. CompletedIsPublished
  BY <1>1 DEF CompletedIsPublished
<1> QED
  BY Zenon, <1>1, <1>2, <1>3, <1>4 DEF PInv

\* What every step does.
AllMoves == /\ PlanRows' /\ Others' /\ WorkMove
            /\ \A p \in Plans : PlanMove(p) /\ CheckMove(p)
            /\ published \subseteq published'

\* Every step, the operator's transitions included, makes allowed moves.
LEMMA PlanNextMoves ==
    ASSUME PInv, [PlanNext]_planVars
    PROVE  AllMoves
<1>0. PlanRows /\ Others
  BY Zenon DEF PInv
<1>1. ASSUME NEW a \in work, RunsPlan(a) \/ DropPlan(a) PROVE AllMoves
  <2>1. Others'
    BY Zenon, <1>0, <1>1, WorkerOthers, WorkerChecks DEF Others
  <2> QED
    BY Zenon, <1>1, <2>1, WorkerMoves, WorkerRows, WorkerChecks, WorkerOthers
       DEF AllMoves, WorkMove
<1>2. ASSUME NEW p \in Plans, TableStep(p) PROVE AllMoves
  <2>1. Others' /\ published' = published
    BY Zenon, <1>0, <1>2, TableOthers DEF Others
  <2> QED
    BY Zenon, <1>2, <2>1, TableMoves, TableOthers DEF AllMoves, WorkMove
<1>3. ASSUME UNCHANGED <<plan, checkpoint, published, work>>, Others' PROVE AllMoves
  BY Zenon, <1>0, <1>3 DEF AllMoves, WorkMove, PlanMove, CheckMove, PlanRows
<1>4. ASSUME NEW p \in Plans, LockArtifactQuarantineTransition(p) PROVE AllMoves
  <2>1. Others'
    BY <1>0, <1>4 DEF LockArtifactQuarantineTransition, Others
  <2> QED
    BY Zenon, <1>3, <1>4, <2>1 DEF LockArtifactQuarantineTransition
<1>5. ASSUME NEW p \in Plans, CommitTransition(p) PROVE AllMoves
  <2>1. Others'
    BY <1>0, <1>5 DEF CommitTransition, Others
  <2> QED
    BY Zenon, <1>3, <1>5, <2>1 DEF CommitTransition
<1>6. CASE UNCHANGED planVars
  <2>1. UNCHANGED <<plan, checkpoint, published, work>> /\ Others'
    BY <1>0, <1>6 DEF planVars, Others
  <2> QED
    BY Zenon, <1>3, <2>1
<1> QED
  BY Zenon, <1>1, <1>2, <1>4, <1>5, <1>6 DEF PlanNext, WorksOnPlan, TableStep

\* The invariant is inductive.
LEMMA NextPInv == PInv /\ [PlanNext]_planVars => PInv'
  BY Zenon, PlanNextMoves, MovesInv DEF AllMoves

\* The invariant holds always.
LEMMA PlanInvariance == PlanSpec => []PInv
  BY InitPInv, NextPInv, PTL DEF PlanSpec

-----------------------------------------------------------------------------
(* Theorems                                                                *)

\* Type correctness of the tables and of what workers have in hand.
THEOREM PlanTypeCorrect == PlanSpec => []PlanTypeOK
<1>1. PInv => PlanTypeOK
  BY Zenon DEF PInv, PlanRows, Keys, Others, PlanTypeOK
<1> QED
  BY <1>1, PlanInvariance, PTL

\* Whoever publishes a plan owns it, and is the only one to publish it.
THEOREM PublicationOwned == PlanSpec => []PublisherOwnsPlan
<1>1. PInv => PublisherOwnsPlan
  <2> SUFFICES ASSUME PInv, NEW a \in work, a.at \in Fenced
               PROVE  /\ OwnsPlan(a)
                      /\ \A b \in work : b.plan = a.plan /\ b.at \in Fenced => b = a
    BY Zenon DEF PublisherOwnsPlan
  <2>1. \A b \in work : b.at \in Fenced => plan[b.plan].claims = b.token
    BY Zenon DEF PInv, FenceOwns, OwnsPlan
  <2>2. \A b \in work : b.plan = a.plan /\ b.at \in Fenced => b.token = a.token
    BY Zenon, <2>1
  <2> QED
    BY Zenon, <2>2 DEF PInv, FenceOwns, Keys
<1> QED
  BY <1>1, PlanInvariance, PTL

\* A completed plan has verified its object and published it.
THEOREM CompletionMeansPublished == PlanSpec => []CompletedIsPublished
  BY PlanInvariance, PTL DEF PInv

-----------------------------------------------------------------------------
(* Theorem: quarantine and publication                                     *)

\* No operator is inside a transition while a worker is past its last check.
TransitionExcludes ==
    \A p \in transition : \A a \in work : a.plan = p => a.at \notin Admitted

\* The keys agree but for Cargo.
LEMMA SameKey ==
    ASSUME NEW f \in PlanFormats, "cargo" \notin PlanFormats
    PROVE  FinalKey(f) = UnitKey(f)
  BY DEF FinalKey, UnitKey

\* Where a worker past its last check comes from.
LEMMA AdmittedAncestor ==
    ASSUME PInv, WorkMove, NEW b \in work', b.at \in Admitted,
           "cargo" \notin PlanFormats
    PROVE  \E a \in work : /\ a.plan = b.plan
                           /\ \/ a.at \in Admitted
                              \/ /\ a.plan \notin quarantined
                                 /\ ~AdmissionLocked(a.plan, UnitKey(plan[a.plan].format))
<1>1. b.at # "claimed"
  BY DEF Admitted
<1>2. \A a \in work : FinalKey(plan[a.plan].format) = UnitKey(plan[a.plan].format)
  <2>1. \A a \in work : plan[a.plan].format \in PlanFormats
    BY DEF PInv, Keys, Work, PlanRows, PlanRow
  <2> QED
    BY Zenon, <2>1, SameKey
<1>3. CASE b \in work
  BY Zenon, <1>3
<1>4. ASSUME NEW a \in work, Moved(a, b)
      PROVE  /\ a.plan = b.plan
             /\ \/ a.at \in Admitted
                \/ /\ a.plan \notin quarantined
                   /\ ~AdmissionLocked(a.plan, FinalKey(plan[a.plan].format))
  BY Zenon, <1>4 DEF Moved
<1> QED
  BY Zenon, <1>1, <1>2, <1>3, <1>4, Ancestor

\* Workers and tables leave the quarantine to the operator, who waits.
LEMMA AdmissionStep ==
    ASSUME PInv, TransitionExcludes, PublishedUnderAdmission, [PlanNext]_planVars,
           "cargo" \notin PlanFormats
    PROVE  TransitionExcludes' /\ PublishedUnderAdmission'
<1>1. ASSUME UNCHANGED <<quarantined, transition>>
      PROVE  TransitionExcludes' /\ PublishedUnderAdmission'
  <2>1. ASSUME NEW b \in work', b.at \in Admitted
        PROVE  b.plan \notin transition /\ b.plan \notin quarantined
    <3>1. WorkMove
      BY Zenon, PlanNextMoves DEF AllMoves
    <3>2. PICK a \in work : /\ a.plan = b.plan
                            /\ \/ a.at \in Admitted
                               \/ /\ a.plan \notin quarantined
                                  /\ ~AdmissionLocked(a.plan, UnitKey(plan[a.plan].format))
      BY Zenon, <2>1, <3>1, AdmittedAncestor
    <3>3. ~AdmissionLocked(a.plan, UnitKey(plan[a.plan].format)) => a.plan \notin transition
      BY Zenon DEF AdmissionLocked
    <3> QED
      BY Zenon, <3>2, <3>3 DEF TransitionExcludes, PublishedUnderAdmission
  <2> QED
    BY Zenon, <1>1, <2>1 DEF TransitionExcludes, PublishedUnderAdmission
<1>2. ASSUME NEW a \in work, RunsPlan(a) \/ DropPlan(a)
      PROVE  TransitionExcludes' /\ PublishedUnderAdmission'
  BY Zenon, <1>1, <1>2, WorkerOthers
<1>3. ASSUME NEW p \in Plans, TableStep(p)
      PROVE  TransitionExcludes' /\ PublishedUnderAdmission'
  BY Zenon, <1>1, <1>3, TableOthers
<1>4. ASSUME NEW p \in Plans, LockArtifactQuarantineTransition(p)
      PROVE  TransitionExcludes' /\ PublishedUnderAdmission'
  <2>1. /\ work' = work /\ quarantined' = quarantined /\ transition' = transition \union {p}
        /\ ~AdmissionLocked(p, UnitKey(plan[p].format))
    BY Zenon, <1>4 DEF LockArtifactQuarantineTransition
  <2>2. plan[p].format \in PlanFormats
    BY DEF PInv, PlanRows, PlanRow
  <2>3. ~AdmissionLocked(p, FinalKey(plan[p].format))
    BY Zenon, <2>1, <2>2, SameKey
  <2>4. \A a \in work : a.plan = p => a.at \notin Admitted
    BY Zenon, <2>3 DEF AdmissionLocked
  <2> QED
    BY Zenon, <2>1, <2>4 DEF TransitionExcludes, PublishedUnderAdmission
<1>5. ASSUME NEW p \in Plans, CommitTransition(p)
      PROVE  TransitionExcludes' /\ PublishedUnderAdmission'
  <2>1. /\ p \in transition /\ work' = work /\ transition' \subseteq transition
        /\ quarantined' \subseteq quarantined \union {p}
    BY Zenon, <1>5 DEF CommitTransition
  <2> QED
    BY Zenon, <2>1 DEF TransitionExcludes, PublishedUnderAdmission
<1>6. CASE UNCHANGED planVars
  BY <1>1, <1>6 DEF planVars
<1> QED
  BY Zenon, <1>2, <1>3, <1>4, <1>5, <1>6 DEF PlanNext, WorksOnPlan, TableStep

\* For every format but Cargo, whose two locks have different keys, no plan is
\* published whose artifact is quarantined at that moment.
THEOREM AdmissionLinearized ==
    ASSUME "cargo" \notin PlanFormats
    PROVE  PlanSpec => []PublishedUnderAdmission
<1>1. PlanInit => TransitionExcludes /\ PublishedUnderAdmission
  BY Zenon DEF PlanInit, TransitionExcludes, PublishedUnderAdmission
<1>2. PInv /\ TransitionExcludes /\ PublishedUnderAdmission /\ [PlanNext]_planVars
      => TransitionExcludes' /\ PublishedUnderAdmission'
  BY Zenon, AdmissionStep
<1> QED
  BY <1>1, <1>2, PlanInvariance, PTL DEF PlanSpec

-----------------------------------------------------------------------------
(* Theorem: the refinement                                                 *)

\* The phase of a row, by its state.
LEMMA PlanPhases ==
    ASSUME NEW r
    PROVE  /\ Open(r) => PlanPhase(r) = "open"
           /\ r.state = "running" => PlanPhase(r) = "held"
           /\ r.state = "completed" => PlanPhase(r) = "done"
           /\ r.state = "absent" => PlanPhase(r) = "absent"
           /\ r.state = "failed" /\ ~r.next => PlanPhase(r) = "parked"
           /\ r.state = "cancelled" => PlanPhase(r) = "parked"
  BY DEF PlanPhase, Open

\* Each way a row moves is a move of leased work.
LEMMA PlanMoveIsMove ==
    ASSUME PlanRows, PlanRows', NEW p \in Plans, PlanMove(p)
    PROVE  PlanWork!Move(p)
<1> DEFINE lease(r) == IF r.state = "running" THEN r.claims ELSE 0
<1>0. /\ [q \in Plans |-> PlanPhase(plan[q])][p] = PlanPhase(plan[p])
      /\ [q \in Plans |-> IF plan[q].state = "running" THEN plan[q].claims ELSE 0][p]
            = lease(plan[p])
      /\ [q \in Plans |-> plan[q].live][p] = plan[p].live
      /\ [q \in Plans |-> PlanPhase(plan'[q])][p] = PlanPhase(plan'[p])
      /\ [q \in Plans |-> IF plan'[q].state = "running" THEN plan'[q].claims ELSE 0][p]
            = lease(plan'[p])
      /\ [q \in Plans |-> plan'[q].live][p] = plan'[p].live
  BY Zenon
<1>1. CASE plan'[p] = plan[p]
  BY Zenon, <1>0, <1>1 DEF PlanWork!Move, PlanWork!Same
<1>2. CASE Ages(p)
  <2>1. /\ PlanPhase(plan[p]) = "held" /\ PlanPhase(plan'[p]) = "held"
        /\ lease(plan[p]) = plan[p].claims /\ lease(plan'[p]) = plan[p].claims
    BY Zenon, <1>2, PlanPhases DEF Ages
  <2> QED
    BY Zenon, <1>0, <1>2, <2>1 DEF Ages, PlanHands, PlanWork!Move, PlanWork!Age
<1>3. CASE HandsOut(p)
  <2>1. /\ PlanPhase(plan[p]) = "open" /\ PlanPhase(plan'[p]) = "held"
        /\ lease(plan'[p]) = plan'[p].claims
    BY Zenon, <1>3, PlanPhases DEF HandsOut
  <2> QED
    BY Zenon, <1>0, <1>3, <2>1 DEF HandsOut, PlanHands, PlanWork!Move, PlanWork!Take
<1>4. plan'[p].state # "running" => lease(plan'[p]) = 0 /\ ~plan'[p].live
  BY Zenon DEF PlanRows
<1>5. CASE Arranges(p)
  <2>1. plan'[p].state # "running"
    BY <1>5 DEF Arranges
  <2>2. PlanPhase(plan[p]) \in {"absent", "open", "parked"}
    BY <1>5, PlanPhases DEF Arranges, Open
  <2>3. PlanPhase(plan'[p]) \in {"open", "parked"}
    BY <1>5, PlanPhases DEF Arranges, Open
  <2> QED
    BY Zenon, <1>0, <1>4, <2>1, <2>2, <2>3
       DEF PlanWork!Move, PlanWork!Arrange, PlanWork!Leaves
<1>6. ASSUME plan'[p].state = "failed"
      PROVE  plan'[p].state # "running" /\ PlanPhase(plan'[p]) \in {"open", "parked"}
  BY <1>6, PlanPhases DEF Open
<1>7. CASE PlanForfeits(p)
  <2>1. PlanPhase(plan[p]) = "held" /\ (PlanClockSkew \/ ~plan[p].live)
    BY Zenon, <1>7, PlanPhases DEF PlanForfeits
  <2>2. plan'[p].state = "failed"
    BY Zenon, <1>7 DEF PlanForfeits
  <2> QED
    BY Zenon, <1>0, <1>4, <1>6, <2>1, <2>2
       DEF PlanWork!Move, PlanWork!Release, PlanWork!Leaves, PlanWork!Forfeited
<1>8. CASE ReportsOn(p)
  <2>1. /\ PlanPhase(plan[p]) = "held" /\ plan[p].live /\ lease(plan[p]) = plan[p].claims
        /\ <<p, plan[p].claims>> \in PlanHands \ PlanHands'
    BY Zenon, <1>8, PlanPhases DEF ReportsOn
  <2>2. CASE plan'[p].state = "failed"
    BY Zenon, <1>0, <1>4, <1>6, <2>1, <2>2
       DEF PlanHands, PlanWork!Move, PlanWork!Release, PlanWork!Leaves, PlanWork!Reports
  <2>3. CASE plan'[p].state = "completed"
    <3>1. plan'[p].state # "running" /\ PlanPhase(plan'[p]) = "done"
      BY <2>3, PlanPhases
    <3> QED
      BY Zenon, <1>0, <1>4, <2>1, <3>1
         DEF PlanHands, PlanWork!Move, PlanWork!Finish, PlanWork!Leaves, PlanWork!Reports
  <2> QED
    BY Zenon, <1>8, <2>2, <2>3 DEF ReportsOn
<1> QED
  BY Zenon, <1>1, <1>2, <1>3, <1>5, <1>7, <1>8 DEF PlanMove

\* Claims only are put in anyone's hands.
LEMMA PlanHandsGrow ==
    ASSUME PInv, PInv', WorkMove, \A p \in Plans : PlanMove(p)
    PROVE  PlanHands' \subseteq PlanHands \union
             {<<p, IF plan'[p].state = "running" THEN plan'[p].claims ELSE 0>> : p \in Plans}
<1>1. CASE work' \subseteq work
  BY Zenon, <1>1 DEF PlanHands
<1>2. ASSUME NEW a \in work, NEW b \in Work, Moved(a, b) PROVE PlanHands' \subseteq PlanHands
  BY Zenon, <1>2 DEF Moved, PlanHands
<1>3. ASSUME NEW p \in Plans, NewClaim(p)
      PROVE  PlanHands' \subseteq PlanHands \union {<<p, plan'[p].claims>>}
  <2> DEFINE n == [plan |-> p, token |-> plan[p].claims + 1, at |-> "claimed",
                   verified |-> FALSE, objects |-> FALSE]
  <2>1. n.plan = p /\ n.token = plan[p].claims + 1
    OBVIOUS
  <2>2. work' = work \union {n} /\ plan'[p].claims = plan[p].claims + 1
    BY Zenon, <1>3 DEF NewClaim
  <2> HIDE DEF n
  <2> QED
    BY Zenon, <2>1, <2>2 DEF PlanHands
<1>4. ASSUME NEW p \in Plans, NewClaim(p) PROVE plan'[p].state = "running"
  <2>1. plan[p].claims \in Nat /\ plan'[p].claims = plan[p].claims + 1
    BY Zenon, <1>4, ClaimsGrow DEF NewClaim, PInv
  <2>2. plan'[p].claims # plan[p].claims
    BY <2>1
  <2>3. PlanMove(p)
    BY Zenon
  <2> QED
    BY Zenon, <2>2, <2>3 DEF PlanMove, Arranges, Ages, PlanForfeits, ReportsOn, HandsOut
<1> QED
  BY Zenon, <1>1, <1>2, <1>3, <1>4 DEF WorkMove, Leaves

\* Replication plans implement leased work: a worker whose plan was recovered
\* or claimed again can neither complete, fail nor park it, and a plan is
\* taken from its worker only when the lease has expired.
THEOREM PlansImplementLeasedWork == PlanSpec => PlansAreLeasedWork
<1>1. PlanInit => PlanWork!Init
  <2> SUFFICES ASSUME PlanInit PROVE PlanWork!Init
    OBVIOUS
  <2>1. PInv /\ \A p \in Plans : plan[p].state = "absent"
    BY InitPInv DEF PlanInit
  <2>2. \A p \in Plans : plan[p].state # "running" /\ PlanPhase(plan[p]) = "absent"
    BY <2>1, PlanPhases
  <2>3. \A p \in Plans : plan[p].live = FALSE
    BY <2>1, <2>2 DEF PInv, PlanRows, PlanRow
  <2>4. {<<a.plan, a.token>> : a \in work} = {}
    BY Zenon DEF PlanInit
  <2> QED
    BY Zenon, <2>2, <2>3, <2>4 DEF PlanWork!Init
<1>2. PInv /\ PInv' /\ [PlanNext]_planVars => PlanWork!Next
  <2> SUFFICES ASSUME PInv, PInv', [PlanNext]_planVars PROVE PlanWork!Next
    OBVIOUS
  <2>1. AllMoves
    BY Zenon, PlanNextMoves
  <2>2. \A p \in Plans : PlanWork!Move(p)
    BY Zenon, <2>1, PlanMoveIsMove DEF AllMoves, PInv
  <2>3. PlanHands' \subseteq PlanHands \union
          {<<p, IF plan'[p].state = "running" THEN plan'[p].claims ELSE 0>> : p \in Plans}
    BY Zenon, <2>1, PlanHandsGrow DEF AllMoves
  <2>4. \A p \in Plans :
          [q \in Plans |-> IF plan'[q].state = "running" THEN plan'[q].claims ELSE 0][p]
          = IF plan'[p].state = "running" THEN plan'[p].claims ELSE 0
    BY Zenon
  <2> QED
    BY Zenon, <2>2, <2>3, <2>4 DEF PlanWork!Next, PlanHands
<1> QED
  BY <1>1, <1>2, PlanInvariance, PTL DEF PlanSpec, PlansAreLeasedWork, PlanWork!Spec

-----------------------------------------------------------------------------
(* Go modules: the inductive invariant                                     *)

\* Callers that hold locks work on different objects.
CallersExclude ==
    \A c, d \in GoCallers : c # d /\ Holds(c) /\ Holds(d)
                              => goOp[c].keys \intersect goOp[d].keys = {}

\* An asset without a fence has its bytes, tombstoned or not ...
UnfencedHasBytes ==
    \A r \in GoRepositories : \A k \in goAssets[r] :
        k \in goStore \/ k \in goCollecting[r] \/ k \in goCollected[r]

\* ... and a visible version has no fence.  A tombstone is a version's.
VisibleUnfenced ==
    \A r \in GoRepositories :
        /\ goTombstone[r] = 0 => goCollecting[r] = {} /\ goCollected[r] = {}
        /\ goTombstone[r] # 0 => goAssets[r] # {}

OpenIntent(k) == \E i \in 1..Len(goJobs) : /\ goJobs[i].key = k
                                           /\ goJobs[i].stamp = 0
                                           /\ goJobs[i].state # "completed"
Tracked == \A k \in goStore : HasReference(k) \/ OpenIntent(k)

\* Who may be where, and on which objects.
Places(c) ==
    /\ goAt[c] \in {"lookup", "put"} => goOp[c].kind = "publish"
    /\ goAt[c] \in {"write", "cleanup"} => goOp[c].kind \in {"publish", "promote"}
    /\ goAt[c] \in {"fenced", "deleted", "done"} => goOp[c].kind = "reclaim"
    /\ goTodo[c] \subseteq goOp[c].keys /\ goCreated[c] \subseteq goOp[c].keys
    /\ goAt[c] \in {"idle", "waiting", "locked", "lookup"} => goTodo[c] = {} /\ goCreated[c] = {}
    /\ goOp[c].kind = "promote" => goTodo[c] = {}
    /\ goOp[c].kind = "restore" => goOp[c].source = goOp[c].repository
    /\ goOp[c].kind \notin {"list", "reclaim"} => goOp[c].repository \in GoRepositories
\* The assets a promotion or a restoration has read are still its source's.
Snapshot(c) ==
    goOp[c].kind \in {"promote", "restore"} => /\ goOp[c].source \in GoRepositories
                                               /\ goOp[c].keys # {}
                                               /\ goOp[c].keys = goAssets[goOp[c].source]
\* A reclaim worker is at the object of its job.
Working(c) ==
    goOp[c].kind = "reclaim" => /\ goOp[c].job \in 1..Len(goJobs)
                                /\ goOp[c].keys = {goJobs[goOp[c].job].key}
\* What a publication has dealt with is stored.
Written(c) ==
    goAt[c] \in {"write", "put"} => \A k \in goOp[c].keys : k \in goTodo[c] \/ k \in goStore
\* What it has created has an intent.
Intended(c) == Holds(c) => \A k \in goCreated[c] : OpenIntent(k)
\* A collector has fenced every deleted reference before it deletes, ...
Fences(c) ==
    goAt[c] = "fenced" =>
        \A k \in goOp[c].keys : \A r \in GoRepositories :
            k \in goAssets[r] /\ k \notin goCollected[r] /\ goTombstone[r] # 0
              => k \in goCollecting[r]
\* ... keeps nothing that no visible version needs, ...
Deletes(c) ==
    goAt[c] = "deleted" => \A k \in goOp[c].keys : k \in goStore => HasVisibleReference(k)
\* ... and completes an intent when the object is gone or in use.
Settles(c) ==
    goAt[c] = "done" /\ goJobs[goOp[c].job].stamp = 0
      => \A k \in goOp[c].keys : k \in goStore => HasReference(k)

CallerOK(c) == /\ Places(c) /\ Snapshot(c) /\ Working(c) /\ Written(c)
               /\ Intended(c) /\ Fences(c) /\ Deletes(c) /\ Settles(c)

GInv == /\ GoTypeOK /\ CallersExclude /\ UnfencedHasBytes /\ VisibleUnfenced /\ Tracked
        /\ \A c \in GoCallers : CallerOK(c)

-----------------------------------------------------------------------------
(* What a step may do                                                      *)

\* Caller d takes no part in the step.
Stays(d) == /\ goAt'[d] = goAt[d] /\ goOp'[d] = goOp[d]
            /\ goTodo'[d] = goTodo[d] /\ goCreated'[d] = goCreated[d]

\* The step leaves every object outside K alone: its bytes and its references.
Touches(K) ==
    \A k \in GoObjects : k \notin K =>
        /\ k \in goStore' <=> k \in goStore
        /\ \A r \in GoRepositories :
             /\ k \in goAssets'[r] <=> k \in goAssets[r]
             /\ k \in goCollecting'[r] <=> k \in goCollecting[r]
             /\ k \in goCollected'[r] <=> k \in goCollected[r]
             /\ k \in goAssets[r] => goTombstone'[r] = goTombstone[r]

\* A published set of assets stays.
AssetsKept == \A r \in GoRepositories : goAssets[r] # {} => goAssets'[r] = goAssets[r]

\* Jobs stay in the table, and only intents for objects in K complete.
JobsKept(K) ==
    /\ \A i \in 1..Len(goJobs) : /\ i \in 1..Len(goJobs')
                                 /\ goJobs'[i].key = goJobs[i].key
                                 /\ goJobs'[i].stamp = goJobs[i].stamp
    /\ \A k \in GoObjects : k \notin K /\ OpenIntent(k) => OpenIntent(k)'

\* A caller that takes no part keeps its part of the invariant if the step
\* touches none of the objects it has locked.
LEMMA CallerKept ==
    ASSUME GInv, NEW d \in GoCallers, Stays(d), NEW K \in SUBSET GoObjects,
           Holds(d) => goOp[d].keys \intersect K = {},
           Touches(K), AssetsKept, JobsKept(K)
    PROVE  CallerOK(d)'
<1>0. /\ goOp[d].keys \in SUBSET GoObjects /\ goCreated[d] \in SUBSET GoObjects
      /\ goAt[d] \in GoPlaces /\ CallerOK(d)
  BY Zenon DEF GInv, GoTypeOK
<1>t. goOp[d].keys \subseteq GoObjects /\ goCreated[d] \subseteq goOp[d].keys
  BY <1>0, Zenon DEF CallerOK, Places
<1>h. Holds(d)' <=> Holds(d)
  BY Zenon DEF Holds, Stays
<1>k. ASSUME Holds(d), NEW k \in goOp[d].keys
      PROVE k \in GoObjects /\ k \notin K
  BY <1>k, <1>t, Zenon
<1>1. Places(d)'
  BY <1>0, Zenon DEF CallerOK, Places, Stays
<1>2. Snapshot(d)'
  BY <1>0, Zenon DEF CallerOK, Snapshot, Stays, AssetsKept
<1>3. Working(d)'
  BY <1>0, Zenon DEF CallerOK, Working, Stays, JobsKept
<1>4. Written(d)'
  <2>. SUFFICES ASSUME goAt[d] \in {"write", "put"}, NEW k \in goOp[d].keys
                PROVE k \in goTodo[d] \/ k \in goStore'
    BY Zenon DEF Written, Stays
  <2>1. Holds(d)
    BY Zenon DEF Holds
  <2>. QED BY <1>0, <2>1, <1>k, Zenon DEF CallerOK, Written, Touches
<1>5. Intended(d)'
  <2>. SUFFICES ASSUME Holds(d), NEW k \in goCreated[d] PROVE OpenIntent(k)'
    BY <1>h, Zenon DEF Intended, Stays
  <2>. QED BY <1>0, <1>t, <1>k, Zenon DEF CallerOK, Intended, JobsKept
<1>6. Fences(d)'
  <2>. SUFFICES ASSUME goAt[d] = "fenced", NEW k \in goOp[d].keys, NEW r \in GoRepositories,
                       k \in goAssets'[r], k \notin goCollected'[r], goTombstone'[r] # 0
                PROVE k \in goCollecting'[r]
    BY Zenon DEF Fences, Stays
  <2>1. Holds(d)
    BY Zenon DEF Holds
  <2>2. k \in goAssets[r] /\ k \notin goCollected[r] /\ goTombstone[r] # 0
    BY <2>1, <1>k, Zenon DEF Touches
  <2>. QED BY <1>0, <2>1, <2>2, <1>k, Zenon DEF CallerOK, Fences, Touches
<1>7. Deletes(d)'
  <2>. SUFFICES ASSUME goAt[d] = "deleted", NEW k \in goOp[d].keys, k \in goStore'
                PROVE HasVisibleReference(k)'
    BY Zenon DEF Deletes, Stays
  <2>1. Holds(d)
    BY Zenon DEF Holds
  <2>2. k \in goStore
    BY <2>1, <1>k, Zenon DEF Touches
  <2>3. PICK r \in GoRepositories : k \in goAssets[r] \ goCollected[r] /\ goTombstone[r] = 0
    BY <1>0, <2>2, Zenon DEF CallerOK, Deletes, HasVisibleReference
  <2>4. k \in goAssets'[r] \ goCollected'[r] /\ goTombstone'[r] = 0
    BY <2>1, <2>3, <1>k, Zenon DEF Touches
  <2>. QED BY <2>4, Zenon DEF HasVisibleReference
<1>8. Settles(d)'
  <2>. SUFFICES ASSUME goAt[d] = "done", goJobs'[goOp[d].job].stamp = 0,
                       NEW k \in goOp[d].keys, k \in goStore'
                PROVE HasReference(k)'
    BY Zenon DEF Settles, Stays
  <2>1. Holds(d)
    BY Zenon DEF Holds
  <2>2. goJobs[goOp[d].job].stamp = 0
    BY <1>0, Zenon DEF CallerOK, Places, Working, JobsKept
  <2>3. k \in goStore
    BY <2>1, <1>k, Zenon DEF Touches
  <2>4. PICK r \in GoRepositories : k \in goAssets[r] \ goCollected[r]
    BY <1>0, <2>2, <2>3, Zenon DEF CallerOK, Settles, HasReference
  <2>5. k \in goAssets'[r] \ goCollected'[r]
    BY <2>1, <2>4, <1>k, Zenon DEF Touches
  <2>. QED BY <2>5, Zenon DEF HasReference
<1>. QED BY <1>1, <1>2, <1>3, <1>4, <1>5, <1>6, <1>7, <1>8, Zenon DEF CallerOK

-----------------------------------------------------------------------------
(* Types                                                                   *)

GoJobRow == [repository : Nat, key : GoObjects, stamp : Nat,
             state : {"pending", "running", "completed", "failed"}, attempts : Nat]
GoOpRow == [kind : GoKinds, repository : Nat, source : Nat, keys : SUBSET GoObjects,
            job : Nat, token : Nat]
JobRowsTyped == /\ goAssets \in [GoRepositories -> SUBSET GoObjects]
             /\ goTombstone \in [GoRepositories -> Nat]
             /\ goCollecting \in [GoRepositories -> SUBSET GoObjects]
             /\ goCollected \in [GoRepositories -> SUBSET GoObjects]
             /\ goClock \in Nat
CallsTyped == /\ goAt \in [GoCallers -> GoPlaces]
              /\ goOp \in [GoCallers -> GoOpRow]
              /\ goTodo \in [GoCallers -> SUBSET GoObjects]
              /\ goCreated \in [GoCallers -> SUBSET GoObjects]
RestTyped == /\ goStore \in SUBSET GoObjects
             /\ goBudget \in [uploads : SUBSET GoUploads, calls : [GoKinds -> Nat]]
JobsTyped == goJobs \in Seq(GoJobRow)

\* The type invariant in the parts that actions of requests and jobs change.
LEMMA TypeParts ==
    /\ GoTypeOK <=> JobRowsTyped /\ CallsTyped /\ RestTyped /\ JobsTyped
    /\ GoTypeOK' <=> JobRowsTyped' /\ CallsTyped' /\ RestTyped' /\ JobsTyped'
BY Zenon DEF GoTypeOK, JobRowsTyped, CallsTyped, RestTyped, JobsTyped, GoJobRow, GoOpRow

\* A caller that begins a call keeps the types.
LEMMA BeginsTyped ==
    ASSUME CallsTyped, NEW c \in GoCallers, NEW op \in GoOpRow, Begins(c, op)
    PROVE  CallsTyped'
BY Zenon DEF Begins, CallsTyped, GoPlaces

\* So does one that moves on or ends.
LEMMA MovesTyped ==
    ASSUME CallsTyped, NEW c \in GoCallers, NEW at \in GoPlaces, GoMoves(c, at)
    PROVE  CallsTyped'
BY Zenon DEF GoMoves, CallsTyped

\* Ending a call keeps the types of callers.
LEMMA EndsTyped ==
    ASSUME CallsTyped, NEW c \in GoCallers, GoEnds(c)
    PROVE  CallsTyped'
<1>1. NoGoOp \in GoOpRow
  BY DEF NoGoOp, GoOp, GoOpRow, GoKinds
<1>. QED BY <1>1, Zenon DEF GoEnds, CallsTyped, GoPlaces

\* So does counting a call.
LEMMA GoSpendsTyped ==
    ASSUME RestTyped, NEW kind \in GoKinds, Spends(kind), UNCHANGED goStore
    PROVE  RestTyped'
BY DEF Spends, RestTyped

\* A job has the fields of its row.
LEMMA JobFields ==
    ASSUME JobsTyped, NEW i \in 1..Len(goJobs)
    PROVE  /\ goJobs[i].repository \in Nat /\ goJobs[i].key \in GoObjects
           /\ goJobs[i].stamp \in Nat /\ goJobs[i].attempts \in Nat
<1>1. goJobs[i] \in GoJobRow
  BY DEF JobsTyped
<1>. QED BY <1>1 DEF GoJobRow

\* A job that is added, or rewritten in place, keeps the table's type.
LEMMA AppendTyped ==
    ASSUME JobsTyped, NEW r \in Nat, NEW k \in GoObjects, NEW stamp \in Nat,
           goJobs' = Append(goJobs, GoJob(r, k, stamp, "pending", 0))
    PROVE  JobsTyped'
<1>1. GoJob(r, k, stamp, "pending", 0) \in GoJobRow
  BY DEF GoJob, GoJobRow
<1>. QED BY <1>1 DEF JobsTyped

\* ... and of one whose entry is rewritten.
LEMMA RewriteTyped ==
    ASSUME JobsTyped, NEW i \in 1..Len(goJobs),
           NEW state \in {"pending", "running", "completed", "failed"}, NEW n \in Nat,
           goJobs' = [goJobs EXCEPT ![i] = GoJob(goJobs[i].repository, goJobs[i].key,
                                                 goJobs[i].stamp, state, n)]
    PROVE  JobsTyped'
<1>1. goJobs[i] \in GoJobRow
  BY DEF JobsTyped
<1>2. GoJob(goJobs[i].repository, goJobs[i].key, goJobs[i].stamp, state, n) \in GoJobRow
  BY <1>1 DEF GoJob, GoJobRow
<1>. QED BY <1>2 DEF JobsTyped

\* An added job disturbs no other.
LEMMA AppendKeeps ==
    ASSUME JobsTyped, NEW j, goJobs' = Append(goJobs, j)
    PROVE  JobsKept({})
<1>1. Len(goJobs') = Len(goJobs) + 1 /\ \A i \in 1..Len(goJobs) : goJobs'[i] = goJobs[i]
  BY DEF JobsTyped
<1>2. \A i \in 1..Len(goJobs) : i \in 1..Len(goJobs')
  BY <1>1 DEF JobsTyped
<1>. QED BY <1>1, <1>2, Zenon DEF JobsKept, OpenIntent

\* A rewritten job keeps its object, and its intent stays open unless it completes.
LEMMA RewriteKeeps ==
    ASSUME JobsTyped, NEW i \in 1..Len(goJobs), NEW state, NEW n,
           goJobs' = [goJobs EXCEPT ![i] = GoJob(goJobs[i].repository, goJobs[i].key,
                                                 goJobs[i].stamp, state, n)]
    PROVE  /\ JobsKept({goJobs[i].key})
           /\ state # "completed" => JobsKept({})
           /\ goJobs[i].stamp # 0 => JobsKept({})
<1>1. /\ Len(goJobs') = Len(goJobs)
      /\ \A h \in 1..Len(goJobs) : h # i => goJobs'[h] = goJobs[h]
      /\ goJobs'[i] = GoJob(goJobs[i].repository, goJobs[i].key, goJobs[i].stamp, state, n)
  BY DEF JobsTyped
<1>2. goJobs'[i].key = goJobs[i].key /\ goJobs'[i].stamp = goJobs[i].stamp
      /\ goJobs'[i].state = state
  BY <1>1 DEF GoJob
<1>3. \A h \in 1..Len(goJobs) : goJobs'[h].key = goJobs[h].key /\ goJobs'[h].stamp = goJobs[h].stamp
  BY <1>1, <1>2, Zenon
<1>4. ASSUME NEW k \in GoObjects, OpenIntent(k),
             k # goJobs[i].key \/ state # "completed" \/ goJobs[i].stamp # 0
      PROVE OpenIntent(k)'
  <2>1. PICK h \in 1..Len(goJobs) : /\ goJobs[h].key = k /\ goJobs[h].stamp = 0
                                    /\ goJobs[h].state # "completed"
    BY <1>4, Zenon DEF OpenIntent
  <2>2. CASE h = i
    BY <2>1, <2>2, <1>1, <1>2, <1>4, ZenonT(40) DEF OpenIntent
  <2>3. CASE h # i
    BY <2>1, <2>3, <1>1, Zenon DEF OpenIntent
  <2>. QED BY <2>2, <2>3
<1>. QED BY <1>1, <1>3, <1>4, Zenon DEF JobsKept

-----------------------------------------------------------------------------
(* Steps of one caller                                                     *)

OthersStay(c) == \A d \in GoCallers : d # c => Stays(d)

\* Callers other than c keep their part when c touches only what it has locked.
LEMMA OthersKept ==
    ASSUME GInv, NEW c \in GoCallers, OthersStay(c), NEW K \in SUBSET GoObjects,
           K = {} \/ (Holds(c) /\ K \subseteq goOp[c].keys),
           Touches(K), AssetsKept, JobsKept(K)
    PROVE  \A d \in GoCallers : d # c => CallerOK(d)'
<1>. SUFFICES ASSUME NEW d \in GoCallers, d # c PROVE CallerOK(d)'
  OBVIOUS
<1>1. Stays(d)
  BY Zenon DEF OthersStay
<1>2. Holds(d) => goOp[d].keys \intersect K = {}
  BY Zenon DEF GInv, CallersExclude
<1>. QED BY <1>1, <1>2, CallerKept, Zenon

\* Locks stay exclusive when no caller but a holder holds some.
LEMMA ExclusiveKept ==
    ASSUME CallersExclude, NEW c \in GoCallers, OthersStay(c),
           Holds(c)' => Holds(c) /\ goOp'[c] = goOp[c]
    PROVE  CallersExclude'
<1>1. \A d \in GoCallers : Holds(d)' => Holds(d) /\ goOp'[d] = goOp[d]
  BY Zenon DEF OthersStay, Stays, Holds
<1>. QED BY <1>1, Zenon DEF CallersExclude

\* A step that changes no row of an asset and no object touches nothing.
LEMMA QuietTouches ==
    ASSUME UNCHANGED <<goRows, goStore>>
    PROVE  Touches({}) /\ AssetsKept
BY Zenon DEF goRows, Touches, AssetsKept

\* Such a step keeps what the invariant says of tables and objects ...
LEMMA QuietTables ==
    ASSUME GInv, UNCHANGED <<goRows, goStore>>, JobsKept({})
    PROVE  UnfencedHasBytes' /\ VisibleUnfenced' /\ Tracked'
<1>1. UnfencedHasBytes' /\ VisibleUnfenced'
  BY Zenon DEF GInv, UnfencedHasBytes, VisibleUnfenced, goRows
<1>2. Tracked'
  <2>. SUFFICES ASSUME NEW k \in goStore PROVE HasReference(k)' \/ OpenIntent(k)'
    BY Zenon DEF Tracked
  <2>1. k \in GoObjects
    BY Zenon DEF GInv, GoTypeOK
  <2>2. CASE HasReference(k)
    BY <2>2, Zenon DEF HasReference, goRows
  <2>3. CASE OpenIntent(k)
    BY <2>1, <2>3, Zenon DEF JobsKept
  <2>. QED BY <2>2, <2>3, Zenon DEF GInv, Tracked
<1>. QED BY <1>1, <1>2

\* ... and the whole of it, if the caller that takes it keeps its part.
LEMMA QuietGoStep ==
    ASSUME GInv, GoTypeOK', NEW c \in GoCallers, OthersStay(c),
           UNCHANGED <<goRows, goStore>>, JobsKept({}), CallersExclude', CallerOK(c)'
    PROVE  GInv'
<1>1. \A d \in GoCallers : CallerOK(d)'
  BY OthersKept, QuietTouches, Zenon
<1>. QED BY <1>1, QuietTables, Zenon DEF GInv

\* An unchanged job table.
LEMMA SameJobs == ASSUME UNCHANGED goJobs PROVE JobsKept({})
BY Zenon DEF JobsKept, OpenIntent

\* A caller that begins has its part, and leaves the others theirs.
LEMMA BeginsCaller ==
    ASSUME GInv, NEW c \in GoCallers, NEW op \in GoOpRow, Begins(c, op),
           op.kind # "reclaim" => op.repository \in GoRepositories,
           op.kind = "restore" => op.source = op.repository,
           op.kind \in {"promote", "restore"} => /\ op.source \in GoRepositories
                                                 /\ op.keys # {}
                                                 /\ op.keys = goAssets'[op.source],
           op.kind = "reclaim" => op.job \in 1..Len(goJobs') /\ op.keys = {goJobs'[op.job].key}
    PROVE  CallerOK(c)' /\ OthersStay(c) /\ CallersExclude'
<1>1. /\ goAt'[c] = "waiting" /\ goOp'[c] = op /\ goTodo' = goTodo /\ goCreated' = goCreated
      /\ OthersStay(c)
  BY Zenon DEF Begins, GInv, GoTypeOK, OthersStay, Stays
<1>2. goTodo[c] = {} /\ goCreated[c] = {}
  BY Zenon DEF GInv, CallerOK, Places, Begins
<1>3. Places(c)'
  BY <1>1, <1>2, Zenon DEF Places
<1>4. Snapshot(c)' /\ Working(c)'
  BY <1>1, Zenon DEF Snapshot, Working
<1>5. Written(c)' /\ Intended(c)' /\ Fences(c)' /\ Deletes(c)' /\ Settles(c)'
  BY <1>1, Zenon DEF Written, Intended, Holds, Fences, Deletes, Settles
<1>6. CallersExclude'
  BY <1>1, ExclusiveKept, Zenon DEF GInv, Holds
<1>. QED BY <1>1, <1>3, <1>4, <1>5, <1>6, Zenon DEF CallerOK

\* A caller that ends has nothing left to keep.
LEMMA EndsCaller ==
    ASSUME GInv, NEW c \in GoCallers, GoEnds(c)
    PROVE  CallerOK(c)' /\ OthersStay(c) /\ CallersExclude'
<1>1. /\ goAt'[c] = "idle" /\ goOp'[c] = NoGoOp /\ goTodo'[c] = {} /\ goCreated'[c] = {}
      /\ OthersStay(c)
  BY Zenon DEF GoEnds, GInv, GoTypeOK, OthersStay, Stays
<1>2. NoGoOp.kind = "list" /\ NoGoOp.keys = {}
  BY DEF NoGoOp, GoOp
<1>3. Places(c)'
  BY <1>1, <1>2, Zenon DEF Places
<1>4. Snapshot(c)' /\ Working(c)'
  BY <1>1, <1>2, Zenon DEF Snapshot, Working
<1>5. Written(c)' /\ Intended(c)' /\ Fences(c)' /\ Deletes(c)' /\ Settles(c)'
  BY <1>1, Zenon DEF Written, Intended, Holds, Fences, Deletes, Settles
<1>6. CallersExclude'
  BY <1>1, ExclusiveKept, Zenon DEF GInv, Holds
<1>. QED BY <1>1, <1>3, <1>4, <1>5, <1>6, Zenon DEF CallerOK

\* A caller that moves on under its locks keeps them.
LEMMA MovesCaller ==
    ASSUME GInv, NEW c \in GoCallers, NEW at \in GoPlaces, GoMoves(c, at)
    PROVE  /\ goAt'[c] = at /\ goOp' = goOp /\ goTodo' = goTodo /\ goCreated' = goCreated
           /\ OthersStay(c) /\ (Holds(c) => CallersExclude')
<1>1. /\ goAt'[c] = at /\ goOp' = goOp /\ goTodo' = goTodo /\ goCreated' = goCreated
      /\ OthersStay(c)
  BY Zenon DEF GoMoves, GInv, GoTypeOK, OthersStay, Stays
<1>. QED BY <1>1, ExclusiveKept, Zenon DEF GInv

-----------------------------------------------------------------------------
(* Steps that change neither assets nor objects                            *)

\* Repositories are identified by numbers.
LEMMA RepositoryNat == GoRepositories \subseteq Nat
BY GoAssumption, Zenon

\* An upload arrives.
LEMMA PublishKeeps ==
    ASSUME GInv, NEW c \in GoCallers, NEW r \in GoRepositories, NEW keys \in SUBSET GoObjects,
           publish(c, r, keys)
    PROVE  GInv'
<1>1. PICK op : op = GoOp("publish", r, r, keys, 0, 0)
  OBVIOUS
<1>2. op \in GoOpRow /\ op.kind = "publish" /\ op.repository = r
  BY <1>1, RepositoryNat DEF GoOp, GoOpRow, GoKinds
<1>3. Begins(c, op) /\ UNCHANGED <<goRows, goStore, goJobs>>
  BY <1>1, Zenon DEF publish
<1>4. CallerOK(c)' /\ OthersStay(c) /\ CallersExclude'
  BY <1>2, <1>3, BeginsCaller, Zenon
<1>5. RestTyped'
  BY TypeParts, <1>3 DEF publish, RestTyped, GInv, goRows
<1>6. GoTypeOK'
  BY <1>2, <1>3, <1>5, TypeParts, BeginsTyped, Zenon DEF GInv, JobRowsTyped, JobsTyped, goRows
<1>. QED BY <1>3, <1>4, <1>6, SameJobs, QuietGoStep, Zenon

\* A promotion has loaded its source.
LEMMA PromoteKeeps ==
    ASSUME GInv, NEW c \in GoCallers, NEW s \in GoRepositories, NEW r \in GoRepositories,
           promote(c, s, r)
    PROVE  GInv'
<1>0. goAssets[s] \in SUBSET GoObjects
  BY Zenon DEF GInv, GoTypeOK
<1>1. PICK op : op = GoOp("promote", r, s, goAssets[s], 0, 0)
  OBVIOUS
<1>2. /\ op \in GoOpRow /\ op.kind = "promote" /\ op.repository = r
      /\ op.source = s /\ op.keys = goAssets[s]
  BY <1>0, <1>1, RepositoryNat DEF GoOp, GoOpRow, GoKinds
<1>3. Begins(c, op) /\ UNCHANGED <<goRows, goStore, goJobs>> /\ Spends("promote")
  BY <1>1, Zenon DEF promote
<1>4. goAssets[s] # {} /\ goAssets' = goAssets
  BY <1>3, Zenon DEF promote, Loads, goRows
<1>5. CallerOK(c)' /\ OthersStay(c) /\ CallersExclude'
  BY <1>2, <1>3, <1>4, BeginsCaller, Zenon
<1>6. RestTyped'
  BY TypeParts, <1>3, GoSpendsTyped, Zenon DEF GInv, GoKinds
<1>7. GoTypeOK'
  BY <1>2, <1>3, <1>6, TypeParts, BeginsTyped, Zenon DEF GInv, JobRowsTyped, JobsTyped, goRows
<1>. QED BY <1>3, <1>5, <1>7, SameJobs, QuietGoStep, Zenon

\* A deletion or a restoration has read the keys it will lock.
LEMMA RequestKeeps ==
    ASSUME GInv, NEW c \in GoCallers, NEW r \in GoRepositories,
           tombstone(c, r) \/ restore(c, r)
    PROVE  GInv'
<1>0. goAssets[r] \in SUBSET GoObjects
  BY Zenon DEF GInv, GoTypeOK
<1>1. PICK kind \in {"tombstone", "restore"} :
        /\ Begins(c, GoOp(kind, r, r, goAssets[r], 0, 0)) /\ Spends(kind)
        /\ UNCHANGED <<goRows, goStore, goJobs>>
        /\ kind = "restore" => goAssets[r] # {}
  BY Zenon DEF tombstone, restore, GInv, VisibleUnfenced
<1>2. PICK op : op = GoOp(kind, r, r, goAssets[r], 0, 0)
  OBVIOUS
<1>3. /\ op \in GoOpRow /\ op.kind = kind /\ op.repository = r
      /\ op.source = r /\ op.keys = goAssets[r]
  BY <1>0, <1>2, RepositoryNat DEF GoOp, GoOpRow, GoKinds
<1>4. Begins(c, op) /\ goAssets' = goAssets
  BY <1>1, <1>2, Zenon DEF goRows
<1>5. CallerOK(c)' /\ OthersStay(c) /\ CallersExclude'
  BY <1>1, <1>3, <1>4, BeginsCaller, Zenon
<1>6. RestTyped'
  BY TypeParts, <1>1, GoSpendsTyped, Zenon DEF GInv, GoKinds
<1>7. GoTypeOK'
  BY <1>1, <1>3, <1>4, <1>6, TypeParts, BeginsTyped, Zenon
     DEF GInv, JobRowsTyped, JobsTyped, goRows
<1>. QED BY <1>1, <1>5, <1>7, SameJobs, QuietGoStep, Zenon

\* Types of a step that only moves or ends a caller.
LEMMA OnlyCallsTyped ==
    ASSUME GInv, CallsTyped', UNCHANGED <<goRows, goStore, goJobs, goBudget>>
    PROVE  GoTypeOK'
BY TypeParts, Zenon DEF GInv, JobRowsTyped, RestTyped, JobsTyped, goRows

\* A call ends without a trace: the invariant speaks of callers that are there.
LEMMA EndKeeps ==
    ASSUME GInv, NEW c \in GoCallers, GoEnds(c), UNCHANGED <<goRows, goStore, goJobs, goBudget>>
    PROVE  GInv'
<1>1. GoTypeOK'
  BY TypeParts, EndsTyped, OnlyCallsTyped, Zenon DEF GInv
<1>. QED BY <1>1, EndsCaller, SameJobs, QuietGoStep, Zenon

\* The locks are granted when nobody else holds them.
LEMMA LockKeeps ==
    ASSUME GInv, NEW c \in GoCallers, LockGoObjects(c)
    PROVE  GInv'
<1>0. GoMoves(c, "locked") /\ "locked" \in GoPlaces /\ CallerOK(c)
      /\ UNCHANGED <<goRows, goStore, goJobs, goBudget>>
  BY Zenon DEF LockGoObjects, GoPlaces, GInv
<1>1. /\ goAt'[c] = "locked" /\ goOp' = goOp /\ goTodo' = goTodo /\ goCreated' = goCreated
      /\ OthersStay(c)
  BY <1>0, MovesCaller, Zenon
<1>2. goAt[c] = "waiting" /\ goTodo[c] = {} /\ goCreated[c] = {}
  BY <1>0, Zenon DEF LockGoObjects, CallerOK, Places
<1>3. CallersExclude'
  <2>1. \A d \in GoCallers : d # c => Holds(d)' = Holds(d) /\ goOp'[d] = goOp[d]
    BY <1>1, Zenon DEF OthersStay, Stays, Holds
  <2>2. \A d \in GoCallers : d # c /\ Holds(d) => goOp[c].keys \intersect goOp[d].keys = {}
    BY Zenon DEF LockGoObjects
  <2>. QED BY <1>1, <2>1, <2>2, Zenon DEF GInv, CallersExclude
<1>4. Places(c)'
  BY <1>0, <1>1, <1>2, Zenon DEF CallerOK, Places
<1>5. Snapshot(c)' /\ Working(c)'
  BY <1>0, <1>1, Zenon DEF CallerOK, Snapshot, Working, goRows
<1>6. Written(c)' /\ Intended(c)' /\ Fences(c)' /\ Deletes(c)' /\ Settles(c)'
  BY <1>1, <1>2, Zenon DEF Written, Intended, Fences, Deletes, Settles
<1>7. GoTypeOK'
  BY <1>0, TypeParts, MovesTyped, OnlyCallsTyped, Zenon DEF GInv
<1>. QED BY <1>0, <1>1, <1>3, <1>4, <1>5, <1>6, <1>7, SameJobs, QuietGoStep, Zenon DEF CallerOK

\* publishSpool's checks under the locks: a refused upload ends.
LEMMA CheckKeeps ==
    ASSUME GInv, NEW c \in GoCallers, CheckTombstone(c)
    PROVE  GInv'
<1>0. CallerOK(c) /\ UNCHANGED <<goRows, goStore, goJobs, goBudget>>
      /\ goOp[c].kind = "publish" /\ goAt[c] = "locked"
  BY Zenon DEF CheckTombstone, GInv
<1>1. CASE GoEnds(c)
  BY <1>0, <1>1, EndKeeps, Zenon
<1>2. CASE GoMoves(c, "lookup")
  <2>0. "lookup" \in GoPlaces
    BY Zenon DEF GoPlaces
  <2>1. /\ goAt'[c] = "lookup" /\ goOp' = goOp /\ goTodo' = goTodo /\ goCreated' = goCreated
        /\ OthersStay(c) /\ CallersExclude'
    BY <1>0, <1>2, <2>0, MovesCaller, Zenon DEF Holds
  <2>2. Places(c)' /\ Snapshot(c)' /\ Working(c)'
    BY <1>0, <2>1, Zenon DEF CallerOK, Places, Snapshot, Working
  <2>3. Written(c)' /\ Intended(c)' /\ Fences(c)' /\ Deletes(c)' /\ Settles(c)'
    BY <1>0, <2>1, Zenon DEF CallerOK, Places, Written, Intended, Fences, Deletes, Settles
  <2>4. GoTypeOK'
    BY <1>0, <1>2, <2>0, TypeParts, MovesTyped, OnlyCallsTyped, Zenon DEF GInv
  <2>. QED BY <1>0, <2>1, <2>2, <2>3, <2>4, SameJobs, QuietGoStep, Zenon DEF CallerOK
<1>. QED BY <1>1, <1>2, Zenon DEF CheckTombstone

\* A publication starts with everything to write.
LEMMA LookupKeeps ==
    ASSUME GInv, NEW c \in GoCallers, LookupVersion(c)
    PROVE  GInv'
<1>0. CallerOK(c) /\ UNCHANGED <<goRows, goStore, goJobs, goBudget>> /\ goAt[c] = "lookup"
  BY Zenon DEF LookupVersion, GInv
<1>1. CASE GoEnds(c)
  BY <1>0, <1>1, EndKeeps, Zenon
<1>2. CASE /\ goAt' = [goAt EXCEPT ![c] = "write"]
           /\ goTodo' = [goTodo EXCEPT ![c] = goOp[c].keys]
           /\ UNCHANGED <<goOp, goCreated>>
  <2>1. goOp[c].keys \in SUBSET GoObjects
    BY Zenon DEF GInv, GoTypeOK
  <2>2. CallsTyped'
    BY <1>2, <2>1, TypeParts, Zenon DEF GInv, CallsTyped, GoPlaces
  <2>3. /\ goAt'[c] = "write" /\ goTodo'[c] = goOp[c].keys /\ goOp' = goOp
        /\ goCreated' = goCreated /\ OthersStay(c)
    BY <1>2, Zenon DEF GInv, GoTypeOK, OthersStay, Stays
  <2>4. goOp[c].kind = "publish" /\ goCreated[c] = {} /\ Holds(c)
    BY <1>0, Zenon DEF CallerOK, Places, Holds
  <2>5. Places(c)' /\ Snapshot(c)' /\ Working(c)'
    BY <1>0, <2>3, <2>4, Zenon DEF CallerOK, Places, Snapshot, Working
  <2>6. Written(c)' /\ Intended(c)' /\ Fences(c)' /\ Deletes(c)' /\ Settles(c)'
    BY <2>3, <2>4, Zenon DEF Written, Intended, Fences, Deletes, Settles
  <2>7. CallersExclude'
    BY <2>3, <2>4, ExclusiveKept, Zenon DEF GInv
  <2>8. GoTypeOK'
    BY <1>0, <2>2, OnlyCallsTyped, Zenon
  <2>. QED BY <1>0, <2>3, <2>5, <2>6, <2>7, <2>8, SameJobs, QuietGoStep, Zenon DEF CallerOK
<1>. QED BY <1>1, <1>2, Zenon DEF LookupVersion

\* An object that is found needs no writing.
LEMMA FindKeeps ==
    ASSUME GInv, NEW c \in GoCallers, NEW k \in GoObjects, FindObject(c, k)
    PROVE  GInv'
<1>0. /\ CallerOK(c) /\ UNCHANGED <<goRows, goStore, goJobs, goBudget>>
      /\ goAt' = goAt /\ goOp' = goOp /\ goCreated' = goCreated
      /\ goAt[c] = "write" /\ k \in goStore /\ Holds(c)
  BY Zenon DEF FindObject, GInv, Holds
<1>1. goTodo'[c] = goTodo[c] \ {k} /\ OthersStay(c) /\ CallsTyped'
  BY <1>0, TypeParts, Zenon DEF FindObject, GInv, CallsTyped, OthersStay, Stays
<1>2. Places(c)' /\ Snapshot(c)' /\ Working(c)'
  BY <1>0, <1>1, Zenon DEF CallerOK, Places, Snapshot, Working, goRows
<1>3. Written(c)'
  BY <1>0, <1>1, Zenon DEF CallerOK, Written
<1>4. Intended(c)' /\ Fences(c)' /\ Deletes(c)' /\ Settles(c)'
  BY <1>0, Zenon DEF CallerOK, Intended, OpenIntent, Fences, Deletes, Settles
<1>5. CallersExclude'
  BY <1>0, <1>1, ExclusiveKept, Zenon DEF GInv
<1>6. GoTypeOK'
  BY <1>0, <1>1, OnlyCallsTyped, Zenon
<1>. QED BY <1>0, <1>1, <1>2, <1>3, <1>4, <1>5, <1>6, SameJobs, QuietGoStep, Zenon DEF CallerOK

\* The intent is on record before the publication may write the object.
LEMMA IntentKeeps ==
    ASSUME GInv, NEW c \in GoCallers, NEW k \in GoObjects, PersistIntent(c, k)
    PROVE  GInv'
<1>0. /\ CallerOK(c) /\ UNCHANGED <<goRows, goStore, goBudget>>
      /\ goOp' = goOp /\ goTodo' = goTodo /\ goAt[c] = "write" /\ k \in goTodo[c] /\ Holds(c)
      /\ goJobs' = Append(goJobs, GoJob(goOp[c].repository, k, 0, "pending", 0))
  BY Zenon DEF PersistIntent, GInv, Holds
<1>1. /\ goAt'[c] = "put" /\ goCreated'[c] = goCreated[c] \union {k} /\ OthersStay(c)
      /\ CallsTyped'
  BY <1>0, TypeParts, Zenon DEF PersistIntent, GInv, CallsTyped, OthersStay, Stays, GoPlaces
<1>2. JobsTyped /\ goOp[c].repository \in Nat
  BY TypeParts, Zenon DEF GInv, CallsTyped, GoOpRow
<1>3. JobsTyped' /\ JobsKept({})
  BY <1>0, <1>2, AppendTyped, AppendKeeps, 0 \in Nat
<1>4. goOp[c].kind = "publish"
  <2>1. goOp[c].kind \in {"publish", "promote"}
    BY <1>0, Zenon DEF CallerOK, Places
  <2>2. goOp[c].kind = "promote" => FALSE
    BY <1>0, Zenon DEF CallerOK, Places
  <2>. QED BY <2>1, <2>2, Zenon
<1>5. OpenIntent(k)'
  <2>1. /\ Len(goJobs') \in 1..Len(goJobs')
        /\ goJobs'[Len(goJobs')] = GoJob(goOp[c].repository, k, 0, "pending", 0)
    BY <1>0, <1>2 DEF JobsTyped
  <2>. QED BY <2>1 DEF OpenIntent, GoJob
<1>6. Places(c)' /\ Snapshot(c)' /\ Working(c)'
  BY <1>0, <1>1, <1>4, Zenon DEF CallerOK, Places, Snapshot, Working
<1>7. Written(c)' /\ Fences(c)' /\ Deletes(c)' /\ Settles(c)'
  BY <1>0, <1>1, Zenon DEF CallerOK, Written, Fences, Deletes, Settles
<1>8. Intended(c)'
  BY <1>0, <1>1, <1>3, <1>5, Zenon DEF CallerOK, Intended, JobsKept, GInv, GoTypeOK
<1>9. CallersExclude' /\ GoTypeOK'
  BY <1>0, <1>1, <1>3, ExclusiveKept, TypeParts, Zenon DEF GInv, JobRowsTyped, RestTyped, goRows
<1>. QED BY <1>0, <1>1, <1>3, <1>6, <1>7, <1>8, <1>9, QuietGoStep, Zenon DEF CallerOK

\* A promotion goes on if its source loads again under the locks: then nothing
\* of it is fenced, and everything is stored.
LEMMA ReloadKeeps ==
    ASSUME GInv, NEW c \in GoCallers, ReloadSource(c)
    PROVE  GInv'
<1>0. CallerOK(c) /\ UNCHANGED <<goRows, goStore, goJobs, goBudget>>
      /\ goOp[c].kind = "promote" /\ goAt[c] = "locked"
  BY Zenon DEF ReloadSource, GInv
<1>1. CASE GoEnds(c)
  BY <1>0, <1>1, EndKeeps, Zenon
<1>2. CASE Loads(goOp[c].source) /\ GoMoves(c, "write")
  <2>0. "write" \in GoPlaces
    BY Zenon DEF GoPlaces
  <2>1. /\ goAt'[c] = "write" /\ goOp' = goOp /\ goTodo' = goTodo /\ goCreated' = goCreated
        /\ OthersStay(c) /\ CallersExclude'
    BY <1>0, <1>2, <2>0, MovesCaller, Zenon DEF Holds
  <2>2. Places(c)' /\ Snapshot(c)' /\ Working(c)'
    BY <1>0, <2>1, Zenon DEF CallerOK, Places, Snapshot, Working, goRows
  <2>3. goOp[c].source \in GoRepositories /\ goOp[c].keys = goAssets[goOp[c].source]
    BY <1>0, Zenon DEF CallerOK, Snapshot
  <2>4. \A k \in goOp[c].keys : k \in goStore
    BY <1>2, <2>3, Zenon DEF GInv, UnfencedHasBytes, Loads
  <2>5. Written(c)' /\ Fences(c)' /\ Deletes(c)' /\ Settles(c)'
    BY <1>0, <2>1, <2>4, Zenon DEF Written, Fences, Deletes, Settles
  <2>6. Intended(c)'
    BY <1>0, <2>1, Zenon DEF CallerOK, Places, Intended
  <2>7. GoTypeOK'
    BY <1>0, <1>2, <2>0, TypeParts, MovesTyped, OnlyCallsTyped, Zenon DEF GInv
  <2>. QED BY <1>0, <2>1, <2>2, <2>5, <2>6, <2>7, SameJobs, QuietGoStep, Zenon DEF CallerOK
<1>. QED BY <1>1, <1>2, Zenon DEF ReloadSource

\* A publication that fails turns to its cleanup.
LEMMA FailKeeps ==
    ASSUME GInv, NEW c \in GoCallers, FailPublication(c)
    PROVE  GInv'
<1>0. /\ CallerOK(c) /\ UNCHANGED <<goRows, goStore, goJobs, goBudget>>
      /\ GoMoves(c, "cleanup") /\ "cleanup" \in GoPlaces /\ Holds(c)
      /\ goAt[c] \in {"write", "put"}
  BY Zenon DEF FailPublication, GInv, GoPlaces, Holds
<1>1. /\ goAt'[c] = "cleanup" /\ goOp' = goOp /\ goTodo' = goTodo /\ goCreated' = goCreated
      /\ OthersStay(c) /\ CallersExclude'
  BY <1>0, MovesCaller, Zenon
<1>2. Places(c)' /\ Snapshot(c)' /\ Working(c)'
  BY <1>0, <1>1, Zenon DEF CallerOK, Places, Snapshot, Working, goRows
<1>3. Written(c)' /\ Fences(c)' /\ Deletes(c)' /\ Settles(c)'
  BY <1>1, Zenon DEF Written, Fences, Deletes, Settles
<1>4. Intended(c)'
  BY <1>0, <1>1, Zenon DEF CallerOK, Intended, OpenIntent
<1>5. GoTypeOK'
  BY <1>0, TypeParts, MovesTyped, OnlyCallsTyped, Zenon DEF GInv
<1>. QED BY <1>0, <1>1, <1>2, <1>3, <1>4, <1>5, SameJobs, QuietGoStep, Zenon DEF CallerOK

-----------------------------------------------------------------------------
(* Jobs                                                                    *)

\* The scheduler and the recovery loop work on jobs alone.
LEMMA JobsStep ==
    ASSUME GInv, UNCHANGED <<goRows, goStore, goCalls>>, JobsTyped', RestTyped', JobsKept({})
    PROVE  GInv'
<1>1. GoTypeOK'
  BY TypeParts, Zenon DEF GInv, JobRowsTyped, CallsTyped, goRows, goCalls
<1>2. \A d \in GoCallers : Stays(d)
  BY Zenon DEF Stays, goCalls
<1>3. \A d \in GoCallers : CallerOK(d)'
  BY <1>2, CallerKept, QuietTouches, Zenon
<1>4. CallersExclude'
  BY Zenon DEF GInv, CallersExclude, Holds, goCalls
<1>. QED BY <1>1, <1>3, <1>4, QuietTables, Zenon DEF GInv

\* The collector enqueues a job for a tombstoned object.
LEMMA EnqueueKeeps ==
    ASSUME GInv, NEW k \in GoObjects, NEW r \in GoRepositories, EnqueueReclaimJob(k, r)
    PROVE  GInv'
<1>0. UNCHANGED <<goRows, goStore, goCalls>> /\ Spends("list") /\ JobsTyped /\ RestTyped
  BY TypeParts, Zenon DEF EnqueueReclaimJob, GInv
<1>1. PICK s \in TombstonedBy(k) : goJobs' = Append(goJobs, GoJob(r, k, goTombstone[s], "pending", 0))
  BY Zenon DEF EnqueueReclaimJob
<1>2. goTombstone[s] \in Nat
  BY <1>1, Zenon DEF TombstonedBy, GInv, GoTypeOK
<1>3. JobsTyped' /\ JobsKept({})
  BY <1>0, <1>1, <1>2, RepositoryNat, AppendTyped, AppendKeeps, Zenon
<1>4. RestTyped'
  BY <1>0, GoSpendsTyped, Zenon DEF GoKinds
<1>. QED BY <1>0, <1>3, <1>4, JobsStep, Zenon

\* A job that is requeued or parked keeps its object and stays open.
LEMMA RequeueKeeps ==
    ASSUME JobsTyped, NEW i \in 1..Len(goJobs), goJobs' = [goJobs EXCEPT ![i] = Requeued(goJobs[i])]
    PROVE  JobsTyped' /\ JobsKept({})
<1>1. PICK state \in {"pending", "failed"} :
        Requeued(goJobs[i]) = GoJob(goJobs[i].repository, goJobs[i].key, goJobs[i].stamp,
                                    state, goJobs[i].attempts)
  BY Zenon DEF Requeued
<1>2. goJobs[i].attempts \in Nat
  BY JobFields, Zenon
<1>3. state # "completed" /\ state \in {"pending", "running", "completed", "failed"}
  OBVIOUS
<1>. QED BY <1>1, <1>2, <1>3, RewriteTyped, RewriteKeeps, Zenon

\* The lease of a running job expires.
LEMMA RecoverKeeps ==
    ASSUME GInv, NEW i \in 1..Len(goJobs), RecoverReclaimJob(i)
    PROVE  GInv'
<1>0. /\ UNCHANGED <<goRows, goStore, goCalls>> /\ goBudget' = goBudget /\ JobsTyped /\ RestTyped
      /\ goJobs' = [goJobs EXCEPT ![i] = Requeued(goJobs[i])]
  BY TypeParts, Zenon DEF RecoverReclaimJob, GInv
<1>1. RestTyped'
  BY <1>0, Zenon DEF RestTyped
<1>. QED BY <1>0, <1>1, RequeueKeeps, JobsStep, Zenon

\* A worker claims a job and will wait for its object.
LEMMA ClaimKeeps ==
    ASSUME GInv, NEW c \in GoCallers, NEW i \in 1..Len(goJobs), ClaimReclaimJob(c, i)
    PROVE  GInv'
<1>0. JobsTyped /\ RestTyped /\ UNCHANGED <<goRows, goStore>> /\ Spends("reclaim")
      /\ i \in Nat
  BY TypeParts DEF ClaimReclaimJob, GInv
<1>1. /\ goJobs[i].key \in GoObjects /\ goJobs[i].attempts + 1 \in Nat
      /\ goJobs[i].repository \in Nat
  <2>1. goJobs[i].key \in GoObjects /\ goJobs[i].attempts \in Nat /\ goJobs[i].repository \in Nat
    BY <1>0, JobFields, Zenon
  <2>. QED BY <2>1
<1>2. PICK op : op = GoOp("reclaim", goJobs[i].repository, goJobs[i].repository,
                          {goJobs[i].key}, i, goJobs[i].attempts + 1)
  OBVIOUS
<1>3. /\ op \in GoOpRow /\ op.kind = "reclaim" /\ op.job = i /\ op.keys = {goJobs[i].key}
      /\ op.repository = goJobs[i].repository
  BY <1>0, <1>1, <1>2 DEF GoOp, GoOpRow, GoKinds
<1>4. Begins(c, op)
  BY <1>2, Zenon DEF ClaimReclaimJob
<1>5. JobsTyped' /\ JobsKept({})
  <2>0. PICK state \in {"pending", "running", "completed", "failed"} : state = "running"
    OBVIOUS
  <2>1. PICK n \in Nat : n = goJobs[i].attempts + 1
    BY <1>1
  <2>2. goJobs' = [goJobs EXCEPT ![i] = GoJob(goJobs[i].repository, goJobs[i].key,
                                              goJobs[i].stamp, state, n)]
    BY <2>0, <2>1, Zenon DEF ClaimReclaimJob
  <2>3. state # "completed"
    BY <2>0
  <2>4. JobsTyped'
    BY <1>0, <2>2, RewriteTyped, Zenon
  <2>5. JobsKept({})
    BY <1>0, <2>2, <2>3, RewriteKeeps, Zenon
  <2>. QED BY <2>4, <2>5
<1>6. CallerOK(c)' /\ OthersStay(c) /\ CallersExclude'
  BY <1>3, <1>4, <1>5, BeginsCaller, Zenon DEF JobsKept
<1>7. RestTyped'
  BY <1>0, GoSpendsTyped, Zenon DEF GoKinds
<1>8. GoTypeOK'
  BY <1>0, <1>3, <1>4, <1>5, <1>7, TypeParts, BeginsTyped, Zenon DEF GInv, JobRowsTyped, goRows
<1>. QED BY <1>0, <1>5, <1>6, <1>8, QuietGoStep, Zenon

\* A worker gives its job back, if it still has it.
LEMMA FailJobKeeps ==
    ASSUME GInv, NEW c \in GoCallers, FailReclaimJob(c)
    PROVE  GInv'
<1>0. /\ UNCHANGED <<goRows, goStore, goBudget>> /\ GoEnds(c)
      /\ JobsTyped /\ RestTyped /\ CallsTyped /\ JobRowsTyped
      /\ goOp[c].job \in 1..Len(goJobs)
  BY TypeParts, Zenon DEF FailReclaimJob, GInv, CallerOK, Working
<1>1. JobsTyped' /\ JobsKept({})
  <2>1. CASE goJobs' = goJobs
    BY <1>0, <2>1, SameJobs, Zenon DEF JobsTyped
  <2>2. CASE goJobs' = [goJobs EXCEPT ![goOp[c].job] = Requeued(goJobs[goOp[c].job])]
    BY <1>0, <2>2, RequeueKeeps, Zenon
  <2>. QED BY <2>1, <2>2, Zenon DEF FailReclaimJob
<1>2. GoTypeOK'
  BY <1>0, <1>1, TypeParts, EndsTyped, Zenon DEF JobRowsTyped, RestTyped, goRows
<1>. QED BY <1>0, <1>1, <1>2, EndsCaller, QuietGoStep, Zenon

\* A worker completes an intent only when its object is gone or in use.
LEMMA CompleteKeeps ==
    ASSUME GInv, NEW c \in GoCallers, CompleteReclaimJob(c)
    PROVE  GInv'
<1>0. /\ UNCHANGED <<goRows, goStore, goBudget>> /\ GoEnds(c) /\ goAt[c] = "done"
      /\ JobsTyped /\ RestTyped /\ CallsTyped /\ JobRowsTyped /\ CallerOK(c) /\ Holds(c)
  BY TypeParts, Zenon DEF CompleteReclaimJob, GInv, Holds
<1>1. /\ goOp[c].job \in 1..Len(goJobs) /\ goOp[c].keys = {goJobs[goOp[c].job].key}
  BY <1>0, Zenon DEF CallerOK, Places, Working
<1>2. CASE goJobs' = goJobs
  <2>1. GoTypeOK'
    BY <1>0, <1>2, TypeParts, EndsTyped, Zenon DEF JobRowsTyped, RestTyped, JobsTyped, goRows
  <2>. QED BY <1>0, <1>2, <2>1, SameJobs, EndsCaller, QuietGoStep, Zenon
<1>3. CASE goJobs' # goJobs
  <2> DEFINE i == goOp[c].job
  <2>1. goJobs' = [goJobs EXCEPT ![i] = GoJob(goJobs[i].repository, goJobs[i].key,
                                              goJobs[i].stamp, "completed", goJobs[i].attempts)]
    BY <1>3, Zenon DEF CompleteReclaimJob
  <2>2. goJobs[i].attempts \in Nat /\ goJobs[i].key \in GoObjects
    BY <1>0, <1>1, JobFields, Zenon
  <2>3. JobsTyped'
    BY <1>0, <1>1, <2>1, <2>2, RewriteTyped, Zenon
  <2>4. JobsKept({goJobs[i].key}) /\ (goJobs[i].stamp # 0 => JobsKept({}))
    BY <1>0, <1>1, <2>1, RewriteKeeps, Zenon
  <2>5. GoTypeOK'
    BY <1>0, <2>3, TypeParts, EndsTyped, Zenon DEF JobRowsTyped, RestTyped, goRows
  <2>6. Touches({goJobs[i].key}) /\ AssetsKept
    BY <1>0, Zenon DEF goRows, Touches, AssetsKept
  <2>7. {goJobs[i].key} \in SUBSET GoObjects /\ {goJobs[i].key} \subseteq goOp[c].keys
    BY <1>1, <2>2, Zenon
  <2>8. CallerOK(c)' /\ OthersStay(c) /\ CallersExclude'
    BY <1>0, EndsCaller, Zenon
  <2>9. \A d \in GoCallers : CallerOK(d)'
    BY <1>0, <2>4, <2>6, <2>7, <2>8, OthersKept, Zenon
  <2>10. UnfencedHasBytes' /\ VisibleUnfenced'
    BY <1>0, Zenon DEF GInv, UnfencedHasBytes, VisibleUnfenced, goRows
  <2>11. Tracked'
    <3>1. CASE goJobs[i].stamp # 0
      BY <1>0, <2>4, <3>1, QuietTables, Zenon
    <3>2. CASE goJobs[i].stamp = 0
      <4>. SUFFICES ASSUME NEW k \in goStore PROVE HasReference(k)' \/ OpenIntent(k)'
        BY <1>0, Zenon DEF Tracked
      <4>1. k \in GoObjects /\ (HasReference(k)' <=> HasReference(k))
        BY <1>0, Zenon DEF HasReference, goRows, RestTyped
      <4>2. CASE k = goJobs[i].key
        BY <1>0, <1>1, <3>2, <4>1, <4>2, Zenon DEF CallerOK, Settles
      <4>3. CASE k # goJobs[i].key
        BY <2>4, <4>1, <4>3, Zenon DEF GInv, Tracked, JobsKept
      <4>. QED BY <4>2, <4>3
    <3>. QED BY <3>1, <3>2
  <2>. QED BY <2>5, <2>8, <2>9, <2>10, <2>11, Zenon DEF GInv
<1>. QED BY <1>2, <1>3

-----------------------------------------------------------------------------
(* Steps on assets and objects                                             *)

\* A step on objects its caller has locked keeps the invariant if it keeps
\* what the invariant says of tables and of that caller.
LEMMA LockedStep ==
    ASSUME GInv, GoTypeOK', NEW c \in GoCallers, Holds(c), OthersStay(c), CallersExclude',
           Touches(goOp[c].keys), AssetsKept, JobsKept({}), CallerOK(c)',
           UnfencedHasBytes', VisibleUnfenced', Tracked'
    PROVE  GInv'
<1>1. goOp[c].keys \in SUBSET GoObjects /\ JobsKept(goOp[c].keys)
  BY Zenon DEF GInv, GoTypeOK, JobsKept
<1>2. \A d \in GoCallers : CallerOK(d)'
  BY <1>1, OthersKept, Zenon
<1>. QED BY <1>2, Zenon DEF GInv

\* Bytes that disappear leave the tables right if no unfenced asset needs them,
\* and nothing has to be tracked for them.
LEMMA Disappearing ==
    ASSUME GInv, UNCHANGED goRows, UNCHANGED goJobs, goStore' \subseteq goStore,
           \A k \in goStore : k \notin goStore' =>
               \A r \in GoRepositories : k \in goAssets[r]
                   => k \in goCollecting[r] \/ k \in goCollected[r]
    PROVE  UnfencedHasBytes' /\ VisibleUnfenced' /\ Tracked'
<1>1. UnfencedHasBytes'
  BY Zenon DEF GInv, UnfencedHasBytes, goRows
<1>2. VisibleUnfenced'
  BY Zenon DEF GInv, VisibleUnfenced, goRows
<1>3. \A k : HasReference(k)' <=> HasReference(k)
  BY Zenon DEF HasReference, goRows
<1>4. \A k : OpenIntent(k)' <=> OpenIntent(k)
  BY Zenon DEF OpenIntent
<1>5. Tracked'
  BY <1>3, <1>4, Zenon DEF GInv, Tracked
<1>. QED BY <1>1, <1>2, <1>5

\* The object of a publication is written under its intent.
LEMMA PutKeeps ==
    ASSUME GInv, NEW c \in GoCallers, NEW k \in GoObjects, PutObject(c, k)
    PROVE  GInv'
<1>0. /\ CallerOK(c) /\ UNCHANGED <<goRows, goJobs, goBudget>>
      /\ goOp' = goOp /\ goCreated' = goCreated /\ goAt[c] = "put"
      /\ k \in goTodo[c] /\ k \in goCreated[c] /\ Holds(c)
      /\ goStore' = goStore \union {k}
  BY Zenon DEF PutObject, GInv, Holds
<1>1. goAt'[c] = "write" /\ goTodo'[c] = goTodo[c] \ {k} /\ OthersStay(c) /\ CallsTyped'
  BY <1>0, TypeParts, Zenon DEF PutObject, GInv, CallsTyped, OthersStay, Stays, GoPlaces
<1>2. k \in goOp[c].keys /\ OpenIntent(k) /\ goOp[c].kind = "publish"
  BY <1>0, Zenon DEF CallerOK, Places, Intended
<1>3. Places(c)' /\ Snapshot(c)' /\ Working(c)'
  BY <1>0, <1>1, <1>2, Zenon DEF CallerOK, Places, Snapshot, Working
<1>4. Written(c)' /\ Fences(c)' /\ Deletes(c)' /\ Settles(c)'
  BY <1>0, <1>1, Zenon DEF CallerOK, Written, Fences, Deletes, Settles
<1>5. \A x : OpenIntent(x)' <=> OpenIntent(x)
  BY <1>0, Zenon DEF OpenIntent
<1>6. Intended(c)'
  BY <1>0, <1>5, Zenon DEF CallerOK, Intended
<1>7. Touches(goOp[c].keys) /\ AssetsKept
  BY <1>0, <1>2, Zenon DEF Touches, AssetsKept, goRows
<1>8. UnfencedHasBytes' /\ VisibleUnfenced'
  BY <1>0, Zenon DEF GInv, UnfencedHasBytes, VisibleUnfenced, goRows
<1>9. \A x : HasReference(x)' <=> HasReference(x)
  BY <1>0, Zenon DEF HasReference, goRows
<1>10. Tracked'
  BY <1>0, <1>2, <1>5, <1>9, Zenon DEF GInv, Tracked
<1>11. GoTypeOK'
  BY <1>0, <1>1, TypeParts, Zenon DEF GInv, JobRowsTyped, RestTyped, JobsTyped, goRows
<1>12. CallersExclude'
  BY <1>0, <1>1, ExclusiveKept, Zenon DEF GInv
<1>. QED BY <1>0, <1>1, <1>3, <1>4, <1>6, <1>7, <1>8, <1>10, <1>11, <1>12,
            SameJobs, LockedStep, Zenon DEF CallerOK

\* A cleanup deletes created objects that no uncollected asset refers to.
LEMMA CleanupKeeps ==
    ASSUME GInv, NEW c \in GoCallers, CleanupObjects(c)
    PROVE  GInv'
<1>0. /\ CallerOK(c) /\ UNCHANGED <<goRows, goJobs, goBudget>>
      /\ GoEnds(c) /\ goAt[c] = "cleanup" /\ Holds(c)
  BY Zenon DEF CleanupObjects, GInv, Holds
<1>1. PICK gone \in SUBSET {k \in goCreated[c] : ~HasReference(k)} : goStore' = goStore \ gone
  BY Zenon DEF CleanupObjects
<1>2. \A k \in gone : k \in goOp[c].keys /\ ~HasReference(k)
  BY <1>0, <1>1, Zenon DEF CallerOK, Places
<1>3. Touches(goOp[c].keys) /\ AssetsKept
  BY <1>0, <1>1, <1>2, Zenon DEF Touches, AssetsKept, goRows
<1>4. \A k \in goStore : k \notin goStore' =>
        \A r \in GoRepositories : k \in goAssets[r] => k \in goCollecting[r] \/ k \in goCollected[r]
  BY <1>1, <1>2, Zenon DEF HasReference
<1>5. goStore' \subseteq goStore
  BY <1>1, Zenon
<1>6. UnfencedHasBytes' /\ VisibleUnfenced' /\ Tracked'
  BY <1>0, <1>4, <1>5, Disappearing, Zenon
<1>7. RestTyped'
  BY <1>0, <1>5, TypeParts, Zenon DEF GInv, RestTyped
<1>8. GoTypeOK'
  BY <1>0, <1>7, TypeParts, EndsTyped, Zenon DEF GInv, JobRowsTyped, JobsTyped, goRows
<1>. QED BY <1>0, <1>3, <1>6, <1>8, EndsCaller, SameJobs, LockedStep, Zenon

\* A version appears with all of its bytes; a reference never disappears.
LEMMA PublishGoKeeps ==
    ASSUME GInv, NEW c \in GoCallers, PublishGoModule(c)
    PROVE  GInv'
<1>0. /\ CallerOK(c) /\ goAt[c] = "write" /\ goTodo[c] = {} /\ Holds(c)
      /\ UNCHANGED <<goTombstone, goCollecting, goCollected, goClock, goStore, goJobs, goBudget>>
      /\ GoEnds(c) \/ GoMoves(c, "cleanup")
  BY Zenon DEF PublishGoModule, GInv, Holds
<1>1. /\ goOp[c].kind \in {"publish", "promote"} /\ goOp[c].repository \in GoRepositories
      /\ goOp[c].keys \in SUBSET GoObjects /\ goOp[c].keys \subseteq goStore
  BY <1>0, Zenon DEF CallerOK, Places, Written, GInv, GoTypeOK
<1>2. PICK r \in GoRepositories : r = goOp[c].repository
  BY <1>1
<1>3. \/ goAssets[r] = {} /\ goAssets' = [goAssets EXCEPT ![r] = goOp[c].keys]
      \/ goAssets' = goAssets
  BY <1>2, Zenon DEF PublishGoModule
<1>4. /\ \A s \in GoRepositories : goAssets[s] \subseteq goAssets'[s]
      /\ \A s \in GoRepositories : \A k \in goAssets'[s] : k \in goAssets[s] \/ k \in goOp[c].keys
      /\ AssetsKept /\ goAssets' \in [GoRepositories -> SUBSET GoObjects]
  BY <1>1, <1>3, Zenon DEF AssetsKept, GInv, GoTypeOK
<1>5. Touches(goOp[c].keys)
  BY <1>0, <1>4, Zenon DEF Touches
<1>6. UnfencedHasBytes' /\ VisibleUnfenced'
  BY <1>0, <1>1, <1>4, Zenon DEF GInv, UnfencedHasBytes, VisibleUnfenced
<1>7. \A k : OpenIntent(k)' <=> OpenIntent(k)
  BY <1>0, Zenon DEF OpenIntent
<1>8. \A k : HasReference(k) => HasReference(k)'
  BY <1>0, <1>4, Zenon DEF HasReference
<1>9. Tracked'
  BY <1>0, <1>7, <1>8, Zenon DEF GInv, Tracked
<1>10. JobRowsTyped' /\ RestTyped' /\ JobsTyped'
  BY <1>0, <1>4, TypeParts, Zenon DEF GInv, JobRowsTyped, RestTyped, JobsTyped
<1>11. CASE GoEnds(c)
  <2>1. GoTypeOK'
    BY <1>10, <1>11, TypeParts, EndsTyped, Zenon DEF GInv
  <2>. QED BY <1>0, <1>4, <1>5, <1>6, <1>9, <1>11, <2>1, EndsCaller, SameJobs, LockedStep, Zenon
<1>12. CASE GoMoves(c, "cleanup")
  <2>0. "cleanup" \in GoPlaces
    BY Zenon DEF GoPlaces
  <2>1. /\ goAt'[c] = "cleanup" /\ goOp' = goOp /\ goTodo' = goTodo /\ goCreated' = goCreated
        /\ OthersStay(c) /\ CallersExclude'
    BY <1>0, <1>12, <2>0, MovesCaller, Zenon
  <2>2. Places(c)' /\ Working(c)'
    BY <1>0, <1>1, <2>1, Zenon DEF CallerOK, Places, Working
  <2>3. Snapshot(c)'
    BY <1>0, <1>4, <2>1, Zenon DEF CallerOK, Snapshot, AssetsKept
  <2>4. Written(c)' /\ Fences(c)' /\ Deletes(c)' /\ Settles(c)'
    BY <2>1, Zenon DEF Written, Fences, Deletes, Settles
  <2>5. Intended(c)'
    BY <1>0, <1>7, <2>1, Zenon DEF CallerOK, Intended
  <2>6. GoTypeOK'
    BY <1>10, <1>12, <2>0, TypeParts, MovesTyped, Zenon DEF GInv
  <2>. QED BY <1>0, <1>4, <1>5, <1>6, <1>9, <2>1, <2>2, <2>3, <2>4, <2>5, <2>6,
              SameJobs, LockedStep, Zenon DEF CallerOK
<1>. QED BY <1>0, <1>11, <1>12

\* A step that only changes the tombstone of the version whose objects its
\* caller has locked, and ends the call.
LEMMA StampKeeps ==
    ASSUME GInv, NEW c \in GoCallers, Holds(c), GoEnds(c),
           NEW r \in GoRepositories, goOp[c].keys = goAssets[r], goAssets[r] # {},
           NEW n \in Nat, n = 0 => goCollecting[r] = {} /\ goCollected[r] = {},
           goTombstone' = [goTombstone EXCEPT ![r] = n], goClock' \in Nat,
           UNCHANGED <<goAssets, goCollecting, goCollected, goStore, goJobs, goBudget>>
    PROVE  GInv'
<1>1. /\ goTombstone'[r] = n /\ goTombstone' \in [GoRepositories -> Nat]
      /\ \A s \in GoRepositories : s # r => goTombstone'[s] = goTombstone[s]
  BY Zenon DEF GInv, GoTypeOK
<1>2. AssetsKept /\ Touches(goOp[c].keys)
  BY <1>1, Zenon DEF AssetsKept, Touches
<1>3. UnfencedHasBytes'
  BY Zenon DEF GInv, UnfencedHasBytes
<1>4. VisibleUnfenced'
  <2>. SUFFICES ASSUME NEW s \in GoRepositories
                PROVE /\ goTombstone'[s] = 0 => goCollecting[s] = {} /\ goCollected[s] = {}
                      /\ goTombstone'[s] # 0 => goAssets[s] # {}
    BY Zenon DEF VisibleUnfenced
  <2>1. CASE s = r
    BY <1>1, <2>1, Zenon
  <2>2. CASE s # r
    BY <1>1, <2>2, Zenon DEF GInv, VisibleUnfenced
  <2>. QED BY <2>1, <2>2
<1>5. Tracked'
  BY ZenonT(40) DEF GInv, Tracked, HasReference, OpenIntent
<1>6. JobRowsTyped' /\ RestTyped' /\ JobsTyped'
  BY <1>1, TypeParts, Zenon DEF GInv, JobRowsTyped, RestTyped, JobsTyped
<1>7. GoTypeOK'
  BY <1>6, TypeParts, EndsTyped, Zenon DEF GInv
<1>. QED BY <1>2, <1>3, <1>4, <1>5, <1>7, EndsCaller, SameJobs, LockedStep, Zenon

\* A deletion locks again, or tombstones the version whose objects it has locked.
LEMMA TombstoneKeeps ==
    ASSUME GInv, NEW c \in GoCallers, TombstoneLocked(c)
    PROVE  GInv'
<1>0. /\ CallerOK(c) /\ goAt[c] = "locked" /\ Holds(c) /\ goOp[c].kind = "tombstone"
      /\ UNCHANGED <<goStore, goJobs, goBudget>>
  BY Zenon DEF TombstoneLocked, GInv, Holds
<1>1. PICK r \in GoRepositories : r = goOp[c].repository
  BY <1>0, Zenon DEF CallerOK, Places
<1>2. CASE GoEnds(c) /\ UNCHANGED goRows
  BY <1>0, <1>2, EndKeeps, Zenon
<1>3. CASE /\ goAt' = [goAt EXCEPT ![c] = "waiting"]
           /\ goOp' = [goOp EXCEPT ![c] = GoOp("tombstone", r, r, goAssets[r], 0, 0)]
           /\ UNCHANGED <<goRows, goTodo, goCreated>>
  <2>1. PICK op : op = GoOp("tombstone", r, r, goAssets[r], 0, 0)
    OBVIOUS
  <2>2. goAssets[r] \in SUBSET GoObjects
    BY Zenon DEF GInv, GoTypeOK
  <2>3. op \in GoOpRow /\ op.kind = "tombstone" /\ op.repository = r
    BY <2>1, <2>2, RepositoryNat DEF GoOp, GoOpRow, GoKinds
  <2>4. goOp' = [goOp EXCEPT ![c] = op]
    BY <1>3, <2>1, Zenon
  <2>5. CallsTyped'
    BY <1>3, <2>3, <2>4, TypeParts, ZenonT(40) DEF GInv, CallsTyped, GoPlaces
  <2>6. goAt'[c] = "waiting" /\ goOp'[c] = op /\ OthersStay(c)
    BY <1>3, <2>4, Zenon DEF GInv, GoTypeOK, OthersStay, Stays
  <2>7. goTodo'[c] = {} /\ goCreated'[c] = {}
    BY <1>0, <1>3, Zenon DEF CallerOK, Places
  <2>8. Places(c)' /\ Snapshot(c)' /\ Working(c)'
    BY <2>3, <2>6, <2>7, Zenon DEF Places, Snapshot, Working
  <2>9. Written(c)' /\ Intended(c)' /\ Fences(c)' /\ Deletes(c)' /\ Settles(c)'
    BY <2>6, Zenon DEF Written, Intended, Holds, Fences, Deletes, Settles
  <2>10. CallersExclude'
    BY <2>6, ExclusiveKept, Zenon DEF GInv, Holds
  <2>11. GoTypeOK'
    BY <1>0, <1>3, <2>5, OnlyCallsTyped, Zenon
  <2>. QED BY <1>0, <1>3, <2>6, <2>8, <2>9, <2>10, <2>11, SameJobs, QuietGoStep, Zenon DEF CallerOK
<1>4. CASE /\ goAssets[r] # {} /\ goTombstone[r] = 0 /\ goOp[c].keys = goAssets[r]
           /\ goTombstone' = [goTombstone EXCEPT ![r] = goClock + 1]
           /\ goClock' = goClock + 1
           /\ GoEnds(c)
           /\ UNCHANGED <<goAssets, goCollecting, goCollected>>
  <2>1. goClock \in Nat
    BY Zenon DEF GInv, GoTypeOK
  <2>2. PICK n \in Nat : n = goClock + 1 /\ n # 0
    BY <2>1
  <2>. QED BY <1>0, <1>4, <2>2, StampKeeps, Zenon
<1>. QED BY <1>1, <1>2, <1>3, <1>4, Zenon DEF TombstoneLocked

\* A restoration makes a version visible that no collector has fenced.
LEMMA RestoreKeeps ==
    ASSUME GInv, NEW c \in GoCallers, RestoreLocked(c)
    PROVE  GInv'
<1>0. /\ CallerOK(c) /\ Holds(c) /\ goOp[c].kind = "restore" /\ GoEnds(c)
      /\ UNCHANGED <<goAssets, goCollecting, goCollected, goClock, goStore, goJobs, goBudget>>
      /\ goClock \in Nat
  BY Zenon DEF RestoreLocked, GInv, GoTypeOK, Holds
<1>1. PICK r \in GoRepositories : /\ r = goOp[c].repository /\ goOp[c].keys = goAssets[r]
                                  /\ goAssets[r] # {}
  BY <1>0, Zenon DEF CallerOK, Places, Snapshot
<1>2. CASE goTombstone' = goTombstone
  BY <1>0, <1>2, EndKeeps, Zenon DEF goRows
<1>3. CASE /\ goCollecting[r] \union goCollected[r] = {}
           /\ goTombstone' = [goTombstone EXCEPT ![r] = 0]
  <2>1. goCollecting[r] = {} /\ goCollected[r] = {}
    BY <1>3, Zenon
  <2>2. PICK n \in Nat : n = 0
    OBVIOUS
  <2>. QED BY <1>0, <1>1, <1>3, <2>1, <2>2, StampKeeps, Zenon
<1>. QED BY <1>1, <1>2, <1>3, Zenon DEF RestoreLocked

-----------------------------------------------------------------------------
(* The collector                                                           *)

\* A collector under its locks is at the one object of its job.
LEMMA OneObject ==
    ASSUME GInv, NEW c \in GoCallers, goOp[c].kind = "reclaim", NEW k \in goOp[c].keys
    PROVE  CallerOK(c) /\ goOp[c].keys = {k} /\ goOp[c].job \in 1..Len(goJobs)
BY Zenon DEF GInv, CallerOK, Working

\* A collector that moves on keeps the parts that do not depend on where it is.
LEMMA CollectorMoves ==
    ASSUME GInv, NEW c \in GoCallers, goOp[c].kind = "reclaim", Holds(c),
           NEW at \in {"fenced", "deleted", "done"}, GoMoves(c, at),
           UNCHANGED <<goJobs, goBudget>>
    PROVE  /\ goAt'[c] = at /\ goOp' = goOp /\ OthersStay(c) /\ CallersExclude' /\ CallsTyped'
           /\ Places(c)' /\ Snapshot(c)' /\ Working(c)' /\ Written(c)' /\ Intended(c)'
<1>0. at \in GoPlaces /\ CallerOK(c)
  BY Zenon DEF GoPlaces, GInv
<1>1. /\ goAt'[c] = at /\ goOp' = goOp /\ goTodo' = goTodo /\ goCreated' = goCreated
      /\ OthersStay(c) /\ CallersExclude'
  BY <1>0, MovesCaller, Zenon
<1>2. CallsTyped'
  BY <1>0, TypeParts, MovesTyped, Zenon DEF GInv
<1>3. Places(c)'
  BY <1>0, <1>1, Zenon DEF CallerOK, Places
<1>4. Snapshot(c)' /\ Working(c)' /\ Written(c)'
  BY <1>0, <1>1, Zenon DEF CallerOK, Snapshot, Working, Written
<1>5. Intended(c)'
  BY <1>0, <1>1, Zenon DEF CallerOK, Intended, OpenIntent
<1>. QED BY <1>1, <1>2, <1>3, <1>4, <1>5

\* A step that deletes at most the caller's object, and no row.
LEMMA DeletingTouches ==
    ASSUME UNCHANGED goRows, NEW K, NEW k \in K, goStore' \subseteq goStore,
           goStore \ {k} \subseteq goStore'
    PROVE  Touches(K) /\ AssetsKept
BY Zenon DEF Touches, AssetsKept, goRows

\* A recovery intent deletes its object unless an asset refers to it.
LEMMA ReclaimIntentKeeps ==
    ASSUME GInv, NEW c \in GoCallers, NEW k \in GoObjects, ReclaimIntent(c, k)
    PROVE  GInv'
<1>0. /\ goOp[c].kind = "reclaim" /\ Holds(c) /\ k \in goOp[c].keys /\ GoMoves(c, "done")
      /\ UNCHANGED goRows /\ UNCHANGED <<goJobs, goBudget>>
      /\ goStore' = IF HasReference(k) THEN goStore ELSE goStore \ {k}
  BY Zenon DEF ReclaimIntent, Holds
<1>1. goOp[c].keys = {k}
  BY <1>0, OneObject, Zenon
<1>2. /\ goAt'[c] = "done" /\ goOp' = goOp /\ OthersStay(c) /\ CallersExclude' /\ CallsTyped'
      /\ Places(c)' /\ Snapshot(c)' /\ Working(c)' /\ Written(c)' /\ Intended(c)'
  BY <1>0, CollectorMoves, Zenon
<1>3. /\ goStore' \subseteq goStore /\ goStore \ {k} \subseteq goStore'
      /\ k \in goStore' => HasReference(k)
      /\ \A x \in goStore : x \notin goStore' => ~HasReference(x)
  BY <1>0, Zenon
<1>4. UnfencedHasBytes' /\ VisibleUnfenced' /\ Tracked'
  BY <1>0, <1>3, Disappearing, Zenon DEF HasReference
<1>5. Touches(goOp[c].keys) /\ AssetsKept
  BY <1>0, <1>3, DeletingTouches, Zenon
<1>6. HasReference(k)' <=> HasReference(k)
  BY <1>0, Zenon DEF HasReference, goRows
<1>7. Fences(c)' /\ Deletes(c)' /\ Settles(c)'
  BY <1>1, <1>2, <1>3, <1>6, Zenon DEF Fences, Deletes, Settles
<1>8. JobRowsTyped' /\ RestTyped' /\ JobsTyped'
  BY <1>0, <1>3, TypeParts, Zenon DEF GInv, JobRowsTyped, RestTyped, JobsTyped, goRows
<1>9. GoTypeOK'
  BY <1>2, <1>8, TypeParts, Zenon
<1>. QED BY <1>0, <1>2, <1>4, <1>5, <1>7, <1>9, SameJobs, LockedStep, Zenon DEF CallerOK

\* A fence is set on every deleted reference of the object.
LEMMA FenceKeeps ==
    ASSUME GInv, NEW c \in GoCallers, NEW k \in GoObjects, FenceObject(c, k)
    PROVE  GInv'
<1>0. /\ goOp[c].kind = "reclaim" /\ Holds(c) /\ k \in goOp[c].keys
      /\ goJobs[goOp[c].job].stamp # 0
      /\ UNCHANGED <<goAssets, goTombstone, goCollected, goClock, goStore, goJobs, goBudget>>
  BY Zenon DEF FenceObject, Holds
<1>1. goOp[c].keys = {k}
  BY <1>0, OneObject, Zenon
<1>2. CASE goCollecting' = goCollecting /\ GoMoves(c, "done")
  <2>1. /\ goAt'[c] = "done" /\ goOp' = goOp /\ OthersStay(c) /\ CallersExclude' /\ CallsTyped'
        /\ Places(c)' /\ Snapshot(c)' /\ Working(c)' /\ Written(c)' /\ Intended(c)'
    BY <1>0, <1>2, CollectorMoves, Zenon
  <2>2. Fences(c)' /\ Deletes(c)' /\ Settles(c)'
    BY <1>0, <2>1, Zenon DEF Fences, Deletes, Settles
  <2>3. UNCHANGED <<goRows, goStore, goJobs, goBudget>>
    BY <1>0, <1>2, Zenon DEF goRows
  <2>4. GoTypeOK'
    BY <2>1, <2>3, OnlyCallsTyped, Zenon
  <2>. QED BY <2>1, <2>2, <2>3, <2>4, SameJobs, QuietGoStep, Zenon DEF CallerOK
<1>3. CASE /\ goCollecting' = [r \in GoRepositories |->
                IF r \in TombstonedBy(k) THEN goCollecting[r] \union {k} ELSE goCollecting[r]]
           /\ GoMoves(c, "fenced")
  <2>1. /\ goAt'[c] = "fenced" /\ goOp' = goOp /\ OthersStay(c) /\ CallersExclude' /\ CallsTyped'
        /\ Places(c)' /\ Snapshot(c)' /\ Working(c)' /\ Written(c)' /\ Intended(c)'
    BY <1>0, <1>3, CollectorMoves, Zenon
  <2>2. /\ \A r \in GoRepositories : goCollecting[r] \subseteq goCollecting'[r]
        /\ \A r \in TombstonedBy(k) : k \in goCollecting'[r]
        /\ \A r \in GoRepositories : r \notin TombstonedBy(k) => goCollecting'[r] = goCollecting[r]
        /\ \A r \in GoRepositories : goCollecting'[r] \subseteq goCollecting[r] \union {k}
    BY <1>3, Zenon DEF TombstonedBy
  <2>3. goCollecting' \in [GoRepositories -> SUBSET GoObjects]
    BY <1>3, Zenon DEF GInv, GoTypeOK
  <2>4. Touches(goOp[c].keys) /\ AssetsKept
    BY <1>0, <1>1, <2>2, Zenon DEF Touches, AssetsKept
  <2>5. UnfencedHasBytes'
    BY <1>0, <2>2, Zenon DEF GInv, UnfencedHasBytes
  <2>6. VisibleUnfenced'
    BY <1>0, <2>2, Zenon DEF GInv, VisibleUnfenced, TombstonedBy
  <2>7. Tracked'
    BY <1>0, ZenonT(40) DEF GInv, Tracked, HasReference, OpenIntent
  <2>8. Fences(c)'
    BY <1>0, <1>1, <2>1, <2>2, Zenon DEF Fences, TombstonedBy
  <2>9. Deletes(c)' /\ Settles(c)'
    BY <2>1, Zenon DEF Deletes, Settles
  <2>10. JobRowsTyped' /\ RestTyped' /\ JobsTyped'
    BY <1>0, <2>3, TypeParts, Zenon DEF GInv, JobRowsTyped, RestTyped, JobsTyped
  <2>11. GoTypeOK'
    BY <2>1, <2>10, TypeParts, Zenon
  <2>. QED BY <1>0, <2>1, <2>4, <2>5, <2>6, <2>7, <2>8, <2>9, <2>11,
              SameJobs, LockedStep, Zenon DEF CallerOK
<1>. QED BY <1>2, <1>3, Zenon DEF FenceObject

\* An object is deleted when every reference to it is fenced.
LEMMA DeleteKeeps ==
    ASSUME GInv, NEW c \in GoCallers, NEW k \in GoObjects, DeleteObject(c, k)
    PROVE  GInv'
<1>0. /\ goAt[c] = "fenced" /\ goOp[c].kind = "reclaim" /\ Holds(c) /\ k \in goOp[c].keys
      /\ GoMoves(c, "deleted") /\ UNCHANGED goRows /\ UNCHANGED <<goJobs, goBudget>>
      /\ goStore' = IF HasVisibleReference(k) THEN goStore ELSE goStore \ {k}
  BY Zenon DEF DeleteObject, Holds, GInv, CallerOK, Places
<1>1. goOp[c].keys = {k} /\ CallerOK(c)
  BY <1>0, OneObject, Zenon
<1>2. /\ goAt'[c] = "deleted" /\ goOp' = goOp /\ OthersStay(c) /\ CallersExclude' /\ CallsTyped'
      /\ Places(c)' /\ Snapshot(c)' /\ Working(c)' /\ Written(c)' /\ Intended(c)'
  BY <1>0, CollectorMoves, Zenon
<1>3. /\ goStore' \subseteq goStore /\ goStore \ {k} \subseteq goStore'
      /\ k \in goStore' => HasVisibleReference(k) \/ k \notin goStore
      /\ \A x \in goStore : x \notin goStore' => x = k /\ ~HasVisibleReference(k)
  BY <1>0, Zenon
<1>4. \A x \in goStore : x \notin goStore' =>
        \A r \in GoRepositories : x \in goAssets[r] => x \in goCollecting[r] \/ x \in goCollected[r]
  BY <1>0, <1>1, <1>3, Zenon DEF CallerOK, Fences, HasVisibleReference
<1>5. UnfencedHasBytes' /\ VisibleUnfenced' /\ Tracked'
  BY <1>0, <1>3, <1>4, Disappearing, Zenon
<1>6. Touches(goOp[c].keys) /\ AssetsKept
  BY <1>0, <1>3, DeletingTouches, Zenon
<1>7. HasVisibleReference(k)' <=> HasVisibleReference(k)
  BY <1>0, Zenon DEF HasVisibleReference, goRows
<1>8. Fences(c)' /\ Deletes(c)' /\ Settles(c)'
  BY <1>0, <1>1, <1>2, <1>3, <1>7, Zenon DEF Fences, Deletes, Settles
<1>9. JobRowsTyped' /\ RestTyped' /\ JobsTyped'
  BY <1>0, <1>3, TypeParts, Zenon DEF GInv, JobRowsTyped, RestTyped, JobsTyped, goRows
<1>10. GoTypeOK'
  BY <1>2, <1>9, TypeParts, Zenon
<1>. QED BY <1>0, <1>2, <1>5, <1>6, <1>8, <1>10, SameJobs, LockedStep, Zenon DEF CallerOK

\* Fences become collections; what is still stored has a visible reference.
LEMMA CollectedKeeps ==
    ASSUME GInv, NEW c \in GoCallers, NEW k \in GoObjects, MarkCollected(c, k)
    PROVE  GInv'
<1>0. /\ goAt[c] = "deleted" /\ goOp[c].kind = "reclaim" /\ Holds(c) /\ k \in goOp[c].keys
      /\ GoMoves(c, "done")
      /\ UNCHANGED <<goAssets, goTombstone, goClock, goStore, goJobs, goBudget>>
  BY Zenon DEF MarkCollected, Holds, GInv, CallerOK, Places
<1>1. goOp[c].keys = {k} /\ CallerOK(c)
  BY <1>0, OneObject, Zenon
<1>2. /\ goAt'[c] = "done" /\ goOp' = goOp /\ OthersStay(c) /\ CallersExclude' /\ CallsTyped'
      /\ Places(c)' /\ Snapshot(c)' /\ Working(c)' /\ Written(c)' /\ Intended(c)'
  BY <1>0, CollectorMoves, Zenon
<1>3. /\ goCollecting' = [r \in GoRepositories |->
           IF r \in TombstonedBy(k) THEN goCollecting[r] \ {k} ELSE goCollecting[r]]
      /\ goCollected' = [r \in GoRepositories |->
           IF r \in TombstonedBy(k) THEN goCollected[r] \union {k} ELSE goCollected[r]]
  BY Zenon DEF MarkCollected
<1>4. /\ \A r \in GoRepositories : goCollected[r] \subseteq goCollected'[r]
      /\ \A r \in GoRepositories : goCollected'[r] \subseteq goCollected[r] \union {k}
      /\ \A r \in GoRepositories : goCollecting'[r] \subseteq goCollecting[r]
      /\ \A r \in GoRepositories : \A x \in goCollecting[r] :
             x \in goCollecting'[r] \/ (x = k /\ x \in goCollected'[r])
      /\ \A r \in GoRepositories : r \notin TombstonedBy(k) =>
             goCollecting'[r] = goCollecting[r] /\ goCollected'[r] = goCollected[r]
  BY <1>3, Zenon
<1>5. /\ goCollecting' \in [GoRepositories -> SUBSET GoObjects]
      /\ goCollected' \in [GoRepositories -> SUBSET GoObjects]
  BY <1>3, Zenon DEF GInv, GoTypeOK
<1>6. Touches(goOp[c].keys) /\ AssetsKept
  BY <1>0, <1>1, <1>4, Zenon DEF Touches, AssetsKept
<1>7. UnfencedHasBytes'
  BY <1>0, <1>4, Zenon DEF GInv, UnfencedHasBytes
<1>8. VisibleUnfenced'
  BY <1>0, <1>4, Zenon DEF GInv, VisibleUnfenced, TombstonedBy
<1>9. ASSUME k \in goStore PROVE HasReference(k)'
  <2>1. PICK r \in GoRepositories : k \in goAssets[r] \ goCollected[r] /\ goTombstone[r] = 0
    BY <1>0, <1>1, <1>9, Zenon DEF CallerOK, Deletes, HasVisibleReference
  <2>2. goCollected'[r] = goCollected[r]
    BY <1>4, <2>1, Zenon DEF TombstonedBy
  <2>. QED BY <1>0, <2>1, <2>2, Zenon DEF HasReference
<1>10. \A x : x # k /\ HasReference(x) => HasReference(x)'
  BY <1>0, <1>4, Zenon DEF HasReference
<1>11. \A x : OpenIntent(x)' <=> OpenIntent(x)
  BY <1>0, Zenon DEF OpenIntent
<1>12. Tracked'
  BY <1>0, <1>9, <1>10, <1>11, Zenon DEF GInv, Tracked
<1>13. Fences(c)' /\ Deletes(c)' /\ Settles(c)'
  BY <1>0, <1>1, <1>2, <1>9, Zenon DEF Fences, Deletes, Settles
<1>14. JobRowsTyped' /\ RestTyped' /\ JobsTyped'
  BY <1>0, <1>5, TypeParts, Zenon DEF GInv, JobRowsTyped, RestTyped, JobsTyped
<1>15. GoTypeOK'
  BY <1>2, <1>14, TypeParts, Zenon
<1>. QED BY <1>0, <1>2, <1>6, <1>7, <1>8, <1>12, <1>13, <1>15, SameJobs, LockedStep, Zenon
         DEF CallerOK

-----------------------------------------------------------------------------
(* The inductive invariant and what follows                                *)

\* Nothing is published, stored or in progress at first.
LEMMA GoInitInv == GoInit => GInv
<1>. SUFFICES ASSUME GoInit PROVE GInv
  OBVIOUS
<1>1. NoGoOp \in GoOpRow /\ NoGoOp.kind = "list" /\ NoGoOp.keys = {}
  BY DEF NoGoOp, GoOp, GoOpRow, GoKinds
<1>2. JobRowsTyped /\ JobsTyped
  BY DEF GoInit, JobRowsTyped, JobsTyped
<1>3. CallsTyped
  BY <1>1, Zenon DEF GoInit, CallsTyped, GoPlaces
<1>4. RestTyped
  BY GoAssumption, Zenon DEF GoInit, RestTyped
<1>5. GoTypeOK
  BY <1>2, <1>3, <1>4, TypeParts, Zenon
<1>6. CallersExclude /\ UnfencedHasBytes /\ VisibleUnfenced /\ Tracked
  BY Zenon DEF GoInit, CallersExclude, Holds, UnfencedHasBytes, VisibleUnfenced, Tracked
<1>7. ASSUME NEW c \in GoCallers PROVE CallerOK(c)
  <2>1. goAt[c] = "idle" /\ goOp[c] = NoGoOp /\ goTodo[c] = {} /\ goCreated[c] = {}
    BY Zenon DEF GoInit
  <2>2. Places(c) /\ Snapshot(c) /\ Working(c)
    BY <1>1, <2>1, Zenon DEF Places, Snapshot, Working
  <2>3. Written(c) /\ Intended(c) /\ Fences(c) /\ Deletes(c) /\ Settles(c)
    BY <2>1, Zenon DEF Written, Intended, Holds, Fences, Deletes, Settles
  <2>. QED BY <2>2, <2>3, Zenon DEF CallerOK
<1>. QED BY <1>5, <1>6, <1>7, Zenon DEF GInv

\* A stuttering step keeps the invariant.
LEMMA GoStutter == ASSUME GInv, UNCHANGED goVars PROVE GInv'
<1>1. /\ UNCHANGED <<goRows, goStore, goJobs, goBudget>> /\ UNCHANGED <<goAt, goOp, goTodo, goCreated>>
  BY Zenon DEF goVars, goCalls
<1>2. GoTypeOK'
  BY <1>1, TypeParts, OnlyCallsTyped, Zenon DEF GInv, CallsTyped
<1>3. RestTyped' /\ JobsTyped'
  BY <1>2, TypeParts, Zenon DEF RestTyped, JobsTyped, GoTypeOK, GoJobRow, GoOpRow
<1>. QED BY <1>1, <1>3, SameJobs, JobsStep, Zenon DEF goCalls

\* Every step keeps the invariant.
LEMMA GoStep == GInv /\ [GoNext]_goVars => GInv'
<1>. SUFFICES ASSUME GInv, [GoNext]_goVars PROVE GInv'
  OBVIOUS
<1>1. ASSUME NEW c \in GoCallers, NEW r \in GoRepositories,
             \/ \E keys \in SUBSET GoObjects : publish(c, r, keys)
             \/ \E s \in GoRepositories : promote(c, s, r)
             \/ tombstone(c, r) \/ restore(c, r)
      PROVE GInv'
  BY <1>1, PublishKeeps, PromoteKeeps, RequestKeeps, Zenon
<1>2. ASSUME NEW c \in GoCallers,
             \/ LockGoObjects(c) \/ GoCallDies(c)
             \/ CheckTombstone(c) \/ LookupVersion(c) \/ ReloadSource(c)
      PROVE GInv'
  BY <1>2, LockKeeps, EndKeeps, CheckKeeps, LookupKeeps, ReloadKeeps, Zenon DEF GoCallDies
<1>3. ASSUME NEW c \in GoCallers,
             \/ PublishGoModule(c) \/ FailPublication(c) \/ CleanupObjects(c)
             \/ TombstoneLocked(c) \/ RestoreLocked(c)
      PROVE GInv'
  BY <1>3, PublishGoKeeps, FailKeeps, CleanupKeeps, TombstoneKeeps, RestoreKeeps, Zenon
<1>4. ASSUME NEW c \in GoCallers, NEW k \in GoObjects,
             \/ FindObject(c, k) \/ PersistIntent(c, k) \/ PutObject(c, k)
             \/ ReclaimIntent(c, k) \/ FenceObject(c, k)
             \/ DeleteObject(c, k) \/ MarkCollected(c, k)
      PROVE GInv'
  BY <1>4, FindKeeps, IntentKeeps, PutKeeps, ReclaimIntentKeeps, FenceKeeps, DeleteKeeps,
     CollectedKeeps, Zenon
<1>5. ASSUME NEW c \in GoCallers,
             \/ \E i \in 1..Len(goJobs) : ClaimReclaimJob(c, i)
             \/ CompleteReclaimJob(c) \/ FailReclaimJob(c)
      PROVE GInv'
  BY <1>5, ClaimKeeps, CompleteKeeps, FailJobKeeps, Zenon
<1>6. ASSUME \/ \E k \in GoObjects, r \in GoRepositories : EnqueueReclaimJob(k, r)
             \/ \E i \in 1..Len(goJobs) : RecoverReclaimJob(i)
      PROVE GInv'
  BY <1>6, EnqueueKeeps, RecoverKeeps, Zenon
<1>. QED BY <1>1, <1>2, <1>3, <1>4, <1>5, <1>6, GoStutter, Zenon DEF GoNext

\* The invariant always holds.
THEOREM GoInvariant == GoSpec => []GInv
<1>1. GoInit => GInv
  BY GoInitInv
<1>2. GInv /\ [GoNext]_goVars => GInv'
  BY GoStep
<1>. QED BY <1>1, <1>2, PTL DEF GoSpec

\* Versions, tombstones, fences, intents and callers keep their types.
THEOREM GoTypes == GoSpec => []GoTypeOK
<1>1. GInv => GoTypeOK
  BY Zenon DEF GInv
<1>. QED BY <1>1, GoInvariant, PTL

\* A visible version has no fence, so all of its assets have bytes: concurrent
\* publications, promotions, deletions, restorations and collections, and
\* crashes of any of them, never leave a version that fails to download.
THEOREM VisibleVersionsComplete == GoSpec => []VisibleModulesHaveBytes
<1>1. GInv => VisibleModulesHaveBytes
  BY Zenon DEF GInv, UnfencedHasBytes, VisibleUnfenced, VisibleModulesHaveBytes
<1>. QED BY <1>1, GoInvariant, PTL

\* The collector will find every object without a reference: it has an intent
\* that no run of its job completes while the bytes are there.
THEOREM NoObjectForgotten == GoSpec => []ModuleBytesTracked
<1>1. GInv => ModuleBytesTracked
  BY Zenon DEF GInv, Tracked, OpenIntent, ModuleBytesTracked
<1>. QED BY <1>1, GoInvariant, PTL

-----------------------------------------------------------------------------
(* Hosted Go modules implement ContentStore                                *)

\* An asset without a fence may be shown: it is visible, or a restoration may
\* bring it back.
LEMMA UnfencedPledged ==
    ASSUME NEW r \in GoRepositories, NEW k \in goAssets[r],
           k \notin goCollecting[r], k \notin goCollected[r]
    PROVE  k \in GoRestorable \union GoVisible
<1>1. CASE goTombstone[r] = 0
  BY Zenon, <1>1 DEF GoVisible
<1>2. CASE goTombstone[r] # 0
  <2>1. k \in goAssets[r] \ (goCollecting[r] \union goCollected[r])
    BY Zenon
  <2>2. r \in {s \in GoRepositories : goTombstone[s] # 0}
    BY Zenon, <1>2
  <2> QED
    BY Zenon, <2>1, <2>2 DEF GoRestorable
<1> QED
  BY Zenon, <1>1, <1>2

\* Only what is in nobody's need is deleted: an object without a reference
\* outside the fences, and in no other caller's hands.
LEMMA SparesPledged ==
    ASSUME GInv, NEW c \in GoCallers, Holds(c), goAt[c] \notin {"write", "put"},
           \A k \in goStore \ goStore' :
              /\ k \in goOp[c].keys
              /\ \A r \in GoRepositories : k \in goAssets[r]
                   => goTombstone[r] # 0 /\ (k \in goCollecting[r] \/ k \in goCollected[r])
    PROVE  GoContent!Reclaim
<1> SUFFICES ASSUME NEW k \in goStore \ goStore'
             PROVE  k \notin GoRestorable /\ k \notin GoWritten /\ k \notin GoVisible
  BY Zenon DEF GoContent!Reclaim
<1>1. k \notin GoRestorable /\ k \notin GoVisible
  BY Zenon DEF GoRestorable, GoVisible
<1>2. k \notin GoWritten
  <2>1. SUFFICES ASSUME NEW d \in GoCallers, goAt[d] \in {"write", "put"}, k \in goOp[d].keys
                 PROVE  FALSE
    BY Zenon DEF GoWritten
  <2>2. d # c /\ Holds(d)
    BY <2>1 DEF Holds
  <2> QED
    BY Zenon, <2>1, <2>2 DEF GInv, CallersExclude
<1> QED
  BY Zenon, <1>1, <1>2

\* The objects that a failed publication or an intent's job deletes have no
\* reference at all.
LEMMA UnreferencedSpared ==
    ASSUME GInv, NEW k, ~HasReference(k)
    PROVE  \A r \in GoRepositories : k \in goAssets[r]
             => goTombstone[r] # 0 /\ (k \in goCollecting[r] \/ k \in goCollected[r])
  BY Zenon DEF HasReference, GInv, VisibleUnfenced

\* A failed publication cleans up only what it has created and nobody
\* refers to.
LEMMA CleanupSpares ==
    ASSUME GInv, NEW c \in GoCallers, CleanupObjects(c)
    PROVE  GoContent!Reclaim
<1>1. Holds(c) /\ goAt[c] \notin {"write", "put"}
  BY DEF CleanupObjects, Holds
<1>2. goCreated[c] \subseteq goOp[c].keys
  BY Zenon DEF GInv, CallerOK, Places
<1>3. \A k \in goStore \ goStore' : k \in goCreated[c] /\ ~HasReference(k)
  BY Zenon DEF CleanupObjects
<1> QED
  BY Zenon, <1>1, <1>2, <1>3, UnreferencedSpared, SparesPledged

\* An intent's job deletes an object only if nobody refers to it.
LEMMA IntentSpares ==
    ASSUME GInv, NEW c \in GoCallers, NEW k \in GoObjects, ReclaimIntent(c, k)
    PROVE  GoContent!Reclaim
<1>1. Holds(c) /\ goAt[c] \notin {"write", "put"}
  BY DEF ReclaimIntent, Holds
<1>2. \A x \in goStore \ goStore' : x = k /\ ~HasReference(x)
  BY Zenon DEF ReclaimIntent
<1>3. k \in goOp[c].keys
  BY Zenon DEF ReclaimIntent
<1> QED
  BY Zenon, <1>1, <1>2, <1>3, UnreferencedSpared, SparesPledged

\* The collector deletes an object only behind its fences.
LEMMA DeleteSpares ==
    ASSUME GInv, NEW c \in GoCallers, NEW k \in GoObjects, DeleteObject(c, k)
    PROVE  GoContent!Reclaim
<1>1. Holds(c) /\ goAt[c] \notin {"write", "put"}
  BY DEF DeleteObject, Holds
<1>2. \A x \in goStore \ goStore' : x = k /\ ~HasVisibleReference(x)
  BY Zenon DEF DeleteObject
<1>3. k \in goOp[c].keys /\ goAt[c] = "fenced"
  BY Zenon DEF DeleteObject
<1>4. ASSUME ~HasVisibleReference(k), NEW r \in GoRepositories, k \in goAssets[r]
      PROVE  goTombstone[r] # 0 /\ (k \in goCollecting[r] \/ k \in goCollected[r])
  <2>1. goTombstone[r] # 0
    BY Zenon, <1>4 DEF HasVisibleReference, GInv, VisibleUnfenced
  <2> QED
    BY Zenon, <2>1, <1>3, <1>4 DEF GInv, CallerOK, Fences
<1> QED
  BY Zenon, <1>1, <1>2, <1>3, <1>4, SparesPledged

\* A step that writes no version and lifts no tombstone shows nothing new.
LEMMA NothingShown ==
    ASSUME goAssets' = goAssets,
           \A r \in GoRepositories : goTombstone'[r] = 0 => goTombstone[r] = 0
    PROVE  GoContent!Show
<1>1. GoVisible' \subseteq GoVisible
  BY Zenon DEF GoVisible
<1> QED
  BY Zenon, <1>1 DEF GoContent!Show

\* A publication shows what it has found or written.
LEMMA PublicationShows ==
    ASSUME GInv, NEW c \in GoCallers, PublishGoModule(c)
    PROVE  GoContent!Show
<1> DEFINE r == goOp[c].repository
<1>1. goTombstone' = goTombstone /\ goAt[c] = "write" /\ goTodo[c] = {}
  BY Zenon DEF PublishGoModule
<1>2. goOp[c].keys \subseteq GoWritten
  BY Zenon, <1>1 DEF GoWritten
<1>3. goAssets' = goAssets \/ goAssets' = [goAssets EXCEPT ![r] = goOp[c].keys]
  BY Zenon DEF PublishGoModule
<1>4. CASE goAssets' = goAssets
  BY Zenon, <1>1, <1>4, NothingShown
<1>5. CASE goAssets' = [goAssets EXCEPT ![r] = goOp[c].keys]
  <2>1. goAssets \in [GoRepositories -> SUBSET GoObjects]
    BY Zenon DEF GInv, GoTypeOK
  <2>2. \A s \in GoRepositories : goAssets'[s] = goAssets[s] \/ goAssets'[s] = goOp[c].keys
    BY Zenon, <1>5, <2>1
  <2>3. GoVisible' \subseteq GoVisible \union GoWritten
    <3>1. SUFFICES ASSUME NEW s \in GoRepositories, goTombstone'[s] = 0, NEW k \in goAssets'[s]
                   PROVE  k \in GoVisible \union GoWritten
      BY Zenon DEF GoVisible
    <3>2. goTombstone[s] = 0
      BY Zenon, <1>1, <3>1
    <3>3. CASE goAssets'[s] = goAssets[s]
      BY Zenon, <3>1, <3>2, <3>3 DEF GoVisible
    <3>4. CASE goAssets'[s] = goOp[c].keys
      BY Zenon, <3>1, <3>4, <1>2
    <3> QED
      BY Zenon, <2>2, <3>3, <3>4
  <2> QED
    BY Zenon, <2>3 DEF GoContent!Show
<1> QED
  BY Zenon, <1>3, <1>4, <1>5

\* A restoration shows a version none of whose assets has a fence.
LEMMA RestorationShows ==
    ASSUME GInv, NEW c \in GoCallers, RestoreLocked(c)
    PROVE  GoContent!Show
<1> DEFINE r == goOp[c].repository
<1>1. goAssets' = goAssets
  BY Zenon DEF RestoreLocked
<1>2. \/ goTombstone' = goTombstone
      \/ /\ goCollecting[r] \union goCollected[r] = {}
         /\ goTombstone' = [goTombstone EXCEPT ![r] = 0]
  BY Zenon DEF RestoreLocked
<1>3. CASE goTombstone' = goTombstone
  BY Zenon, <1>1, <1>3, NothingShown
<1>4. CASE /\ goCollecting[r] \union goCollected[r] = {}
           /\ goTombstone' = [goTombstone EXCEPT ![r] = 0]
  <2>1. goTombstone \in [GoRepositories -> Nat]
    BY Zenon DEF GInv, GoTypeOK
  <2>2. \A s \in GoRepositories : s # r => goTombstone'[s] = goTombstone[s]
    BY Zenon, <1>4, <2>1
  <2>3. GoVisible' \subseteq GoVisible \union GoRestorable
    <3>1. SUFFICES ASSUME NEW s \in GoRepositories, goTombstone'[s] = 0, NEW k \in goAssets[s]
                   PROVE  k \in GoVisible \union GoRestorable
      BY Zenon, <1>1 DEF GoVisible
    <3>2. CASE s = r
      <4>1. k \notin goCollecting[s] /\ k \notin goCollected[s]
        BY Zenon, <1>4, <3>2
      <4> QED
        BY Zenon, <3>1, <4>1, UnfencedPledged
    <3>3. CASE s # r
      BY Zenon, <3>1, <3>3, <2>2 DEF GoVisible
    <3> QED
      BY Zenon, <3>2, <3>3
  <2> QED
    BY Zenon, <2>3 DEF GoContent!Show
<1> QED
  BY Zenon, <1>2, <1>3, <1>4

\* A tombstone hides a version: its stamp is not zero.
LEMMA TombstoneShows ==
    ASSUME GInv, NEW c \in GoCallers, TombstoneLocked(c)
    PROVE  GoContent!Show
<1>1. goAssets' = goAssets
  BY Zenon DEF TombstoneLocked, goRows
<1>2. goTombstone \in [GoRepositories -> Nat] /\ goClock + 1 # 0
  BY DEF GInv, GoTypeOK
<1>3. \/ goTombstone' = goTombstone
      \/ \E r : goTombstone' = [goTombstone EXCEPT ![r] = goClock + 1]
  BY Zenon DEF TombstoneLocked, goRows
<1>4. \A r \in GoRepositories : goTombstone'[r] = 0 => goTombstone[r] = 0
  BY Zenon, <1>2, <1>3
<1> QED
  BY Zenon, <1>1, <1>4, NothingShown

\* Bytes stay, and versions and tombstones stay as they are.
Undisturbed == goStore \subseteq goStore' /\ goAssets' = goAssets /\ goTombstone' = goTombstone

\* What is undisturbed neither shows nor reclaims anything.
LEMMA UndisturbedContent ==
    ASSUME Undisturbed
    PROVE  GoContent!Show /\ GoContent!Reclaim
<1>1. GoContent!Show
  BY Zenon, NothingShown DEF Undisturbed
<1>2. GoContent!Reclaim
  BY Zenon DEF Undisturbed, GoContent!Reclaim
<1> QED
  BY Zenon, <1>1, <1>2

\* Every step shows only what was pledged and deletes only what was not.
LEMMA GoContentStep ==
    ASSUME GInv, [GoNext]_goVars
    PROVE  GoContent!Show /\ GoContent!Reclaim
<1> DEFINE Goal == GoContent!Show /\ GoContent!Reclaim
<1>0. ASSUME Undisturbed PROVE Goal
  BY Zenon, <1>0, UndisturbedContent
<1>a. ASSUME goAssets' = goAssets, goTombstone' = goTombstone, GoContent!Reclaim PROVE Goal
  BY Zenon, <1>a, NothingShown
<1>b. ASSUME goStore' = goStore, GoContent!Show PROVE Goal
  BY Zenon, <1>b DEF GoContent!Reclaim
<1>1. ASSUME NEW c \in GoCallers, NEW r \in GoRepositories,
             \/ \E keys \in SUBSET GoObjects : publish(c, r, keys)
             \/ \E s \in GoRepositories : promote(c, s, r)
             \/ tombstone(c, r) \/ restore(c, r)
      PROVE  Goal
  <2>1. Undisturbed
    BY Zenon, <1>1 DEF publish, promote, tombstone, restore, goRows, Undisturbed
  <2> QED
    BY Zenon, <2>1, <1>0
<1>2. ASSUME NEW c \in GoCallers,
             \/ LockGoObjects(c) \/ GoCallDies(c) \/ CheckTombstone(c) \/ LookupVersion(c)
             \/ ReloadSource(c) \/ FailPublication(c) \/ CompleteReclaimJob(c) \/ FailReclaimJob(c)
      PROVE  Goal
  <2>1. Undisturbed
    BY Zenon, <1>2 DEF LockGoObjects, GoCallDies, CheckTombstone, LookupVersion, ReloadSource,
                       FailPublication, CompleteReclaimJob, FailReclaimJob, goRows, Undisturbed
  <2> QED
    BY Zenon, <2>1, <1>0
<1>3. ASSUME NEW c \in GoCallers, NEW k \in GoObjects,
             \/ FindObject(c, k) \/ PersistIntent(c, k) \/ PutObject(c, k)
             \/ FenceObject(c, k) \/ MarkCollected(c, k)
      PROVE  Goal
  <2>1. Undisturbed
    BY Zenon, <1>3 DEF FindObject, PersistIntent, PutObject, FenceObject, MarkCollected, goRows,
                       Undisturbed
  <2> QED
    BY Zenon, <2>1, <1>0
<1>4. ASSUME NEW c \in GoCallers, PublishGoModule(c) PROVE Goal
  <2>1. goStore' = goStore
    BY Zenon, <1>4 DEF PublishGoModule
  <2> QED
    BY Zenon, <2>1, <1>b, <1>4, PublicationShows
<1>5. ASSUME NEW c \in GoCallers, RestoreLocked(c) PROVE Goal
  <2>1. goStore' = goStore
    BY Zenon, <1>5 DEF RestoreLocked
  <2> QED
    BY Zenon, <2>1, <1>b, <1>5, RestorationShows
<1>6. ASSUME NEW c \in GoCallers, TombstoneLocked(c) PROVE Goal
  <2>1. goStore' = goStore
    BY Zenon, <1>6 DEF TombstoneLocked
  <2> QED
    BY Zenon, <2>1, <1>b, <1>6, TombstoneShows
<1>7. ASSUME NEW c \in GoCallers, CleanupObjects(c) PROVE Goal
  <2>1. goAssets' = goAssets /\ goTombstone' = goTombstone
    BY Zenon, <1>7 DEF CleanupObjects, goRows
  <2> QED
    BY Zenon, <2>1, <1>a, <1>7, CleanupSpares
<1>8. ASSUME NEW c \in GoCallers, NEW k \in GoObjects, ReclaimIntent(c, k) PROVE Goal
  <2>1. goAssets' = goAssets /\ goTombstone' = goTombstone
    BY Zenon, <1>8 DEF ReclaimIntent, goRows
  <2> QED
    BY Zenon, <2>1, <1>a, <1>8, IntentSpares
<1>9. ASSUME NEW c \in GoCallers, NEW k \in GoObjects, DeleteObject(c, k) PROVE Goal
  <2>1. goAssets' = goAssets /\ goTombstone' = goTombstone
    BY Zenon, <1>9 DEF DeleteObject, goRows
  <2> QED
    BY Zenon, <2>1, <1>a, <1>9, DeleteSpares
<1>10. ASSUME \/ \E c \in GoCallers, i \in 1..Len(goJobs) : ClaimReclaimJob(c, i)
              \/ \E k \in GoObjects, r \in GoRepositories : EnqueueReclaimJob(k, r)
              \/ \E i \in 1..Len(goJobs) : RecoverReclaimJob(i)
              \/ UNCHANGED goVars
       PROVE  Goal
  <2>1. Undisturbed
    BY Zenon, <1>10 DEF ClaimReclaimJob, EnqueueReclaimJob, RecoverReclaimJob, goRows, goVars,
                        Undisturbed
  <2> QED
    BY Zenon, <2>1, <1>0
<1> HIDE DEF Goal
<1>11. ASSUME NEW c \in GoCallers,
              \/ LockGoObjects(c) \/ GoCallDies(c)
              \/ CheckTombstone(c) \/ LookupVersion(c) \/ ReloadSource(c)
              \/ PublishGoModule(c) \/ FailPublication(c) \/ CleanupObjects(c)
              \/ TombstoneLocked(c) \/ RestoreLocked(c)
       PROVE  Goal
  BY Zenon, <1>11, <1>2, <1>4, <1>5, <1>6, <1>7
<1>12. ASSUME NEW c \in GoCallers, NEW k \in GoObjects,
              \/ FindObject(c, k) \/ PersistIntent(c, k) \/ PutObject(c, k)
              \/ ReclaimIntent(c, k) \/ FenceObject(c, k)
              \/ DeleteObject(c, k) \/ MarkCollected(c, k)
       PROVE  Goal
  BY Zenon, <1>12, <1>3, <1>8, <1>9
<1>13. ASSUME NEW c \in GoCallers,
              \/ \E i \in 1..Len(goJobs) : ClaimReclaimJob(c, i)
              \/ CompleteReclaimJob(c) \/ FailReclaimJob(c)
       PROVE  Goal
  BY Zenon, <1>13, <1>2, <1>10
<1>14. Goal
  BY Zenon, <1>1, <1>10, <1>11, <1>12, <1>13 DEF GoNext
<1> QED
  BY Zenon, <1>14 DEF Goal

\* Publications, promotions, tombstones, restorations, failed publications and
\* the collector of hosted Go modules implement ContentStore, for any sharing of
\* objects between repositories.
THEOREM GoImplementsContentStore == GoSpec => GoKeepsContent
<1>1. GoInit => GoContent!Init
  <2> SUFFICES ASSUME GoInit PROVE GoContent!Init
    OBVIOUS
  <2>1. \A c \in GoCallers : goAt[c] \notin {"write", "put"}
    BY DEF GoInit
  <2>2. \A r \in GoRepositories : goAssets[r] = {}
    BY Zenon DEF GoInit
  <2>3. GoWritten = {}
    BY Zenon, <2>1 DEF GoWritten
  <2>4. GoVisible = {} /\ GoRestorable = {}
    BY Zenon, <2>2 DEF GoVisible, GoRestorable
  <2> QED
    BY Zenon, <2>3, <2>4 DEF GoInit, GoContent!Init
<1>2. GInv /\ GInv' /\ [GoNext]_goVars => GoContent!Next
  <2> SUFFICES ASSUME GInv, GInv', [GoNext]_goVars PROVE GoContent!Next
    OBVIOUS
  <2>1. GoContent!Pledge
    <3>1. (GoRestorable \union GoWritten)' \subseteq goStore'
      BY Zenon DEF GoRestorable, GoWritten, GInv, UnfencedHasBytes, CallerOK, Written
    <3> QED
      BY Zenon, <3>1 DEF GoContent!Pledge
  <2> QED
    BY Zenon, <2>1, GoContentStep DEF GoContent!Next
<1> QED
  BY <1>1, <1>2, GoInvariant, PTL DEF GoSpec, GoKeepsContent, GoContent!Spec

\* What ContentStore promises is what readers need: every
\* version that clients can download has its bytes.
THEOREM GoContentReadable == GoKeepsContent => []VisibleModulesHaveBytes
<1> DEFINE Kept == (GoRestorable \union GoWritten) \union GoVisible \subseteq goStore
<1>1. GoContent!Init => Kept
  BY Zenon DEF GoContent!Init
<1>2. Kept /\ [GoContent!Next]_(GoContent!vars) => Kept'
  <2> SUFFICES ASSUME Kept, [GoContent!Next]_(GoContent!vars) PROVE Kept'
    OBVIOUS
  <2>1. CASE GoContent!Next
    <3>1. /\ (GoRestorable \union GoWritten)' \subseteq goStore'
          /\ GoVisible' \subseteq GoVisible \union (GoRestorable \union GoWritten)
          /\ (goStore \ goStore') \intersect ((GoRestorable \union GoWritten) \union GoVisible) = {}
      BY Zenon, <2>1 DEF GoContent!Next, GoContent!Pledge, GoContent!Show, GoContent!Reclaim
    <3> QED
      BY Zenon, <3>1
  <2>2. CASE UNCHANGED GoContent!vars
    <3>1. (GoRestorable \union GoWritten)' = (GoRestorable \union GoWritten) /\ GoVisible' = GoVisible /\ goStore' = goStore
      BY Zenon, <2>2 DEF GoContent!vars
    <3> QED
      BY Zenon, <3>1
  <2> QED
    BY Zenon, <2>1, <2>2
<1>3. Kept => VisibleModulesHaveBytes
  BY Zenon DEF GoVisible, VisibleModulesHaveBytes
<1> HIDE DEF Kept
<1> QED
  BY <1>1, <1>2, <1>3, PTL DEF GoKeepsContent, GoContent!Spec
=============================================================================
