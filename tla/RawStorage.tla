------------------------------ MODULE RawStorage ------------------------------
(***************************************************************************)
(* Raw assets and their content-addressed bytes: publication, tombstones,  *)
(* restore, promotion, and the collector that reclaims bytes nobody        *)
(* references (internal/format/raw, internal/protocol/raw/promotion.go,    *)
(* internal/maintenance/raw/collector.go and the Raw tables in             *)
(* internal/repository/postgres_raw.go).                                   *)
(*                                                                         *)
(* A path is a (repository, path) pair and a digest stands for one object: *)
(* its row in native_raw_objects and its key in the object store.  The 24  *)
(* hours of grace are abstracted to "older than that, or not".  A reclaim  *)
(* job is the lifecycle job with the digest's key in one repository,       *)
(* reduced to its state and the holder of its lease (see LifecycleJobs); a *)
(* batch a process has claimed is so many collectors.                      *)
(***************************************************************************)
EXTENDS Naturals, FiniteSets

CONSTANTS
    Repositories,
    Paths,          \* (repository, path) pairs
    RepositoryOf,   \* the repository of a path
    Digests,        \* content digests
    Publishers,     \* requests that publish under the object lock
    Promoters,      \* promotion and replication workers
    Collectors,     \* reclaim workers
    ReclaimPage,    \* how many objects one listing returns (100)
    LongRequests,   \* may a request or a worker's step outlast the grace?
    RawBudgets,     \* bounds: how often what may happen in a behaviour
    None

Sessions == Publishers \union Collectors
Jobs == Digests \X Repositories

\* Publications, tombstones, restores, promotions; failures of jobs, lease
\* expiries and crashes
Costs == {"put", "delete", "restore", "promote", "fail"}

ASSUME BoundsAssumption ==
    /\ LongRequests \in BOOLEAN /\ ReclaimPage \in Nat \ {0}
    /\ RawBudgets \subseteq [Costs -> Nat]
ASSUME DisjointAssumption ==
    /\ Publishers \intersect Collectors = {}
    /\ Promoters \intersect Sessions = {}
    /\ None \notin Digests \union Sessions \union Paths \union Repositories
ASSUME RepositoryAssumption == RepositoryOf \in [Paths -> Repositories]

VARIABLES
    asset,      \* native_raw_assets: the digest a visible path refers to
    tomb,       \* native_raw_asset_tombstones and artifact_tombstones
    owner,      \* native_raw_objects: the repository the row of a digest names
    collected,  \* those whose collected_at is set
    aged,       \* those whose created_at is over 24 hours ago
    older,      \* <<c, d>>: the created_at of c is before that of d
    bytes,      \* digests whose key exists in the object store
    lock,       \* holder of the advisory lock of a digest
    pc, want, dest,     \* step, digest and path of every request and worker;
                \* of a collector, the repository of its job
    listed,     \* what the scheduler has listed and not enqueued yet
    job, holder,        \* the reclaim jobs, and who holds the lease of each
    lockless,   \* history: paths last made visible without the object lock
    used,       \* history: digests referenced after their created_at and
                \* less than 24 hours ago
    count       \* the bounded counters

vars == <<asset, tomb, owner, collected, aged, older, bytes, lock, pc, want,
          dest, listed, job, holder, lockless, used, count>>
workers == <<lock, pc, want, dest>>
queue == <<listed, job, holder>>

\* One of the budgets allows for one more.
Spend(what) ==
    /\ \E b \in RawBudgets : count[what] < b[what] /\ \A c \in Costs : count[c] <= b[c]
    /\ count' = [count EXCEPT ![what] = @ + 1]

PublisherSteps == {"idle", "spooled", "locked", "staged", "written", "published"}
CollectorSteps == {"idle", "claimed", "locked", "condemned", "deleted", "done"}
JobStates == {"absent", "pending", "running", "completed", "failed"}
InLock == {"locked", "staged", "written", "published", "condemned", "deleted", "done"}

known == {d \in Digests : owner[d] # None}
Referenced(d) == \E p \in Paths : asset[p] = d
Live(d) == d \in known \ collected

\* Type correctness of the tables, the object store and the workers.
TypeOK ==
    /\ asset \in [Paths -> Digests \union {None}]
    /\ tomb \in [Paths -> Digests \union {None}]
    /\ owner \in [Digests -> Repositories \union {None}]
    /\ bytes \in SUBSET Digests
    /\ collected \in SUBSET known /\ aged \in SUBSET known
    /\ older \in SUBSET (Digests \X Digests)
    /\ lock \in [Digests -> Sessions \union {None}]
    /\ pc \in [Sessions \union Promoters -> PublisherSteps \union CollectorSteps \union {"read"}]
    /\ want \in [Sessions \union Promoters -> Digests \union {None}]
    /\ dest \in [Sessions \union Promoters -> Paths \union Repositories \union {None}]
    /\ listed \in SUBSET Jobs
    /\ job \in [Jobs -> JobStates]
    /\ holder \in [Jobs -> Collectors \union {None}]
    /\ lockless \in SUBSET Paths
    /\ used \in SUBSET Digests
    /\ count \in [Costs -> Nat]

Init ==
    /\ asset = [p \in Paths |-> None]
    /\ tomb = [p \in Paths |-> None]
    /\ owner = [d \in Digests |-> None]
    /\ collected = {} /\ aged = {} /\ older = {} /\ bytes = {}
    /\ lock = [d \in Digests |-> None]
    /\ pc = [x \in Sessions \union Promoters |-> "idle"]
    /\ want = [x \in Sessions \union Promoters |-> None]
    /\ dest = [x \in Sessions \union Promoters |-> None]
    /\ listed = {}
    /\ job = [j \in Jobs |-> "absent"]
    /\ holder = [j \in Jobs |-> None]
    /\ lockless = {} /\ used = {}
    /\ count = [c \in Costs |-> 0]

-----------------------------------------------------------------------------
(* The Raw tables                                                          *)

\* The order of the rows when created_at of d is now().
Stamped(d) == {x \in older : d \notin {x[1], x[2]}} \union ((known \ {d}) \X {d})

\* INSERT INTO native_raw_objects ... ON CONFLICT (digest) DO UPDATE SET
\* collected_at=NULL: a row that exists keeps its created_at.
RecordObject(d, r) ==
    /\ owner' = [owner EXCEPT ![d] = r]
    /\ collected' = collected \ {d}
    /\ older' = IF d \in known THEN older ELSE Stamped(d)

\* The transaction of PutRawAssetIf and of CompleteRawUploadIf.
Publish(p, d) ==
    /\ RecordObject(d, RepositoryOf[p])
    /\ asset' = [asset EXCEPT ![p] = d]
    /\ used' = used \union {d}

\* The lock of a digest, and giving it up with the rest of the request.
Acquire(x) == /\ lock[want[x]] = None
              /\ lock' = [lock EXCEPT ![want[x]] = x]
Finish(x) ==
    /\ lock' = [d \in Digests |-> IF lock[d] = x THEN None ELSE lock[d]]
    /\ pc' = [pc EXCEPT ![x] = "idle"]
    /\ UNCHANGED <<want, dest>>

-----------------------------------------------------------------------------
(* Publishing: PUT, upload completion and migration publication            *)

SpoolBody(u, p, d) ==
    /\ pc[u] = "idle"
    /\ Spend("put")
    /\ pc' = [pc EXCEPT ![u] = "spooled"]
    /\ want' = [want EXCEPT ![u] = d]
    /\ dest' = [dest EXCEPT ![u] = p]
    /\ UNCHANGED <<asset, tomb, owner, collected, aged, older, bytes, lock, queue, lockless, used>>

LockRawObject(u) ==
    /\ pc[u] = "spooled"
    /\ Acquire(u)
    /\ pc' = [pc EXCEPT ![u] = "locked"]
    /\ UNCHANGED <<asset, tomb, owner, collected, aged, older, bytes, want, dest, queue,
                   lockless, used, count>>

\* Mutant: the object is not recorded before its bytes are written.
StageSkipped(u) ==
    /\ pc[u] = "locked"
    /\ pc' = [pc EXCEPT ![u] = "staged"]
    /\ UNCHANGED <<asset, tomb, owner, collected, aged, older, bytes, lock, want, dest,
                   queue, lockless, used, count>>

StageRawObject(u) ==
    /\ pc[u] = "locked"
    /\ RecordObject(want[u], IF want[u] \in known THEN owner[want[u]]
                             ELSE RepositoryOf[dest[u]])
    /\ pc' = [pc EXCEPT ![u] = "staged"]
    /\ UNCHANGED <<asset, tomb, aged, bytes, lock, want, dest, queue, lockless,
                   used, count>>

PutVerifiedReader(u) ==
    /\ pc[u] = "staged"
    /\ bytes' = bytes \union {want[u]}
    /\ pc' = [pc EXCEPT ![u] = "written"]
    /\ UNCHANGED <<asset, tomb, owner, collected, aged, older, lock, want, dest, queue,
                   lockless, used, count>>

PutRawAssetIf(u) ==
    /\ pc[u] = "written"
    /\ Publish(dest[u], want[u])
    /\ lockless' = lockless \ {dest[u]}
    /\ pc' = [pc EXCEPT ![u] = "published"]
    /\ UNCHANGED <<tomb, aged, bytes, lock, want, dest, queue, count>>

\* The deferred release, after a publication or after any error: a failed
\* statement, a refused precondition, quota or guard (the transaction rolls
\* back), or the death of the process.
EndPut(u) ==
    /\ pc[u] # "idle"
    /\ Finish(u)
    /\ UNCHANGED <<asset, tomb, owner, collected, aged, older, bytes, queue, lockless,
                   used, count>>

-----------------------------------------------------------------------------
(* Tombstones and restore                                                  *)

\* The tombstone restarts the object's clock.
DeleteRawAsset(p) ==
    LET d == asset[p]
        elsewhere == \E q \in Paths \ {p} : asset[q] = d
    IN  /\ d # None
        /\ Spend("delete")
        /\ tomb' = [tomb EXCEPT ![p] = d]
        /\ asset' = [asset EXCEPT ![p] = None]
        /\ aged' = aged \ {d}
        /\ older' = Stamped(d)
        /\ collected' = collected \ {d}
        /\ used' = IF elsewhere THEN used \union {d} ELSE used \ {d}
        /\ UNCHANGED <<owner, bytes, workers, queue, lockless>>

\* The management restore takes no object lock.
RestoreRawAsset(p) ==
    /\ tomb[p] # None
    /\ Live(tomb[p])
    /\ asset[p] = None
    /\ Spend("restore")
    /\ asset' = [asset EXCEPT ![p] = tomb[p]]
    /\ used' = used \union {tomb[p]}
    /\ tomb' = [tomb EXCEPT ![p] = None]
    /\ lockless' = lockless \union {p}
    /\ UNCHANGED <<owner, collected, aged, older, bytes, workers, queue>>

-----------------------------------------------------------------------------
(* Promotion and replication: a second reference to the source's object,    *)
(* without copying bytes and without the digest's lock                      *)

ReadSource(m, p, q) ==
    /\ pc[m] = "idle"
    /\ RepositoryOf[p] # RepositoryOf[q]
    /\ asset[q] = None
    /\ asset[p] # None
    /\ Spend("promote")
    /\ pc' = [pc EXCEPT ![m] = "read"]
    /\ want' = [want EXCEPT ![m] = asset[p]]
    /\ dest' = [dest EXCEPT ![m] = q]
    /\ UNCHANGED <<asset, tomb, owner, collected, aged, older, bytes, lock, queue,
                   lockless, used>>

PutRawAsset(m) ==
    /\ pc[m] = "read"
    /\ Publish(dest[m], want[m])
    /\ lockless' = lockless \union {dest[m]}
    /\ pc' = [pc EXCEPT ![m] = "idle"]
    /\ UNCHANGED <<tomb, aged, bytes, lock, want, dest, queue, count>>

\* Quarantine, an error of the store or a crash ends the promotion.
EndPromotion(m) ==
    /\ pc[m] = "read"
    /\ pc' = [pc EXCEPT ![m] = "idle"]
    /\ UNCHANGED <<asset, tomb, owner, collected, aged, older, bytes, lock, want, dest,
                   queue, lockless, used, count>>

-----------------------------------------------------------------------------
(* The collector                                                           *)

DayMayPass == LongRequests \/ (listed = {} /\ \A x \in DOMAIN pc : pc[x] = "idle")

Older(d) == {c \in known : <<c, d>> \in older}

\* The 24 hours since created_at have passed; since the last reference, too.
GraceOver(d) ==
    /\ d \in known \ aged /\ Older(d) \subseteq aged
    /\ DayMayPass
    /\ aged' = aged \union {d}
    /\ UNCHANGED <<asset, tomb, owner, collected, older, bytes, workers, queue, lockless,
                   used, count>>

RestOver(d) ==
    /\ d \in used
    /\ ~Referenced(d)
    /\ DayMayPass
    /\ used' = used \ {d}
    /\ aged' = aged \union {d} \union Older(d)
    /\ UNCHANGED <<asset, tomb, owner, collected, older, bytes, workers, queue, lockless,
                   count>>

\* ORDER BY created_at LIMIT: the first rows of those found.
Page(found) == {d \in found : Cardinality(found \intersect Older(d)) < ReclaimPage}

\* Mutant: only what a tombstone names is listed, not what was replaced.
ListTombstonedRawObjects ==
    LET found == {d \in aged : Live(d) /\ ~Referenced(d) /\ \E p \in Paths : tomb[p] = d}
    IN  /\ listed = {}
        /\ found # {}
        /\ listed' = {<<d, owner[d]>> : d \in Page(found)}
        /\ UNCHANGED <<asset, tomb, owner, collected, aged, older, bytes, workers, job,
                       holder, lockless, used, count>>

ListUnreferencedRawObjects ==
    LET found == {d \in aged : Live(d) /\ ~Referenced(d)}
    IN  /\ listed = {}
        /\ found # {}
        /\ listed' = {<<d, owner[d]>> : d \in Page(found)}
        /\ UNCHANGED <<asset, tomb, owner, collected, aged, older, bytes, workers, job,
                       holder, lockless, used, count>>

\* One key per digest in a repository: a job that exists is left alone,
\* whether or not it has completed.
EnqueueReclaimJob(j) ==
    /\ j \in listed
    /\ listed' = listed \ {j}
    /\ job' = [job EXCEPT ![j] = IF @ = "absent" THEN "pending" ELSE @]
    /\ UNCHANGED <<asset, tomb, owner, collected, aged, older, bytes, workers, holder,
                   lockless, used, count>>

ClaimReclaimJob(c, j) ==
    /\ pc[c] = "idle"
    /\ job[j] = "pending"
    /\ job' = [job EXCEPT ![j] = "running"]
    /\ holder' = [holder EXCEPT ![j] = c]
    /\ pc' = [pc EXCEPT ![c] = "claimed"]
    /\ want' = [want EXCEPT ![c] = j[1]]
    /\ dest' = [dest EXCEPT ![c] = j[2]]
    /\ UNCHANGED <<asset, tomb, owner, collected, aged, older, bytes, lock, listed,
                   lockless, used, count>>

JobOf(c) == <<want[c], dest[c]>>

\* Mutant: the collector does not wait for the lock.
ReclaimUnlocked(c) ==
    /\ pc[c] = "claimed"
    /\ pc' = [pc EXCEPT ![c] = "locked"]
    /\ UNCHANGED <<asset, tomb, owner, collected, aged, older, bytes, lock, want, dest,
                   queue, lockless, used, count>>

LockForReclaim(c) ==
    /\ pc[c] = "claimed"
    /\ Acquire(c)
    /\ pc' = [pc EXCEPT ![c] = "locked"]
    /\ UNCHANGED <<asset, tomb, owner, collected, aged, older, bytes, want, dest, queue,
                   lockless, used, count>>

\* Mutant: the object is not looked at again under the lock.
RecheckSkipped(c) ==
    /\ pc[c] = "locked"
    /\ pc' = [pc EXCEPT ![c] = "condemned"]
    /\ UNCHANGED <<asset, tomb, owner, collected, aged, older, bytes, lock, want, dest,
                   queue, lockless, used, count>>

RawObjectIsUnreferenced(c) ==
    /\ pc[c] = "locked"
    /\ pc' = [pc EXCEPT ![c] = IF Live(want[c]) /\ ~Referenced(want[c])
                               THEN "condemned" ELSE "done"]
    /\ UNCHANGED <<asset, tomb, owner, collected, aged, older, bytes, lock, want, dest,
                   queue, lockless, used, count>>

DeleteObject(c) ==
    /\ pc[c] = "condemned"
    /\ bytes' = bytes \ {want[c]}
    /\ pc' = [pc EXCEPT ![c] = "deleted"]
    /\ UNCHANGED <<asset, tomb, owner, collected, aged, older, lock, want, dest, queue,
                   lockless, used, count>>

\* A row that is referenced again is left as it is; that is not an error.
MarkRawObjectCollected(c) ==
    LET d == want[c]
    IN  /\ pc[c] = "deleted"
        /\ collected' = IF Live(d) /\ ~Referenced(d) THEN collected \union {d}
                                                     ELSE collected
        /\ pc' = [pc EXCEPT ![c] = "done"]
        /\ UNCHANGED <<asset, tomb, owner, aged, older, bytes, lock, want, dest, queue,
                       lockless, used, count>>

\* Completing under a lease that was taken over changes nothing.
CompleteReclaimJob(c) ==
    LET j == JobOf(c)
    IN  /\ pc[c] = "done"
        /\ job' = [job EXCEPT ![j] = IF holder[j] = c THEN "completed" ELSE @]
        /\ holder' = [holder EXCEPT ![j] = IF @ = c THEN None ELSE @]
        /\ Finish(c)
        /\ UNCHANGED <<asset, tomb, owner, collected, aged, older, bytes, listed, lockless,
                       used, count>>

Unfinished == {"pending", "failed"}

\* An error on the way: the job is failed or retried, the lock released.
FailReclaimJob(c) ==
    LET j == JobOf(c)
    IN  /\ pc[c] \in {"claimed", "locked", "condemned", "deleted"}
        /\ Spend("fail")
        /\ \E s \in Unfinished :
              job' = [job EXCEPT ![j] = IF holder[j] = c THEN s ELSE @]
        /\ holder' = [holder EXCEPT ![j] = IF @ = c THEN None ELSE @]
        /\ Finish(c)
        /\ UNCHANGED <<asset, tomb, owner, collected, aged, older, bytes, listed, lockless,
                       used>>

\* The worker dies, or its completion never reaches the store.
CrashCollector(c) ==
    /\ pc[c] # "idle"
    /\ Spend("fail")
    /\ Finish(c)
    /\ UNCHANGED <<asset, tomb, owner, collected, aged, older, bytes, queue, lockless, used>>

AtWork(c, j) == pc[c] # "idle" /\ JobOf(c) = j

\* The lease runs out, whether or not its holder is still at work.
RecoverReclaimJob(j) ==
    /\ job[j] = "running"
    /\ IF AtWork(holder[j], j) THEN Spend("fail") ELSE UNCHANGED count
    /\ \E s \in Unfinished : job' = [job EXCEPT ![j] = s]
    /\ holder' = [holder EXCEPT ![j] = None]
    /\ UNCHANGED <<asset, tomb, owner, collected, aged, older, bytes, workers, listed,
                   lockless, used>>

RetryReclaimJob(j) ==
    /\ job[j] = "failed"
    /\ job' = [job EXCEPT ![j] = "pending"]
    /\ UNCHANGED <<asset, tomb, owner, collected, aged, older, bytes, workers, listed,
                   holder, lockless, used, count>>

-----------------------------------------------------------------------------
Put(u) == \/ \E p \in Paths, d \in Digests : SpoolBody(u, p, d)
          \/ LockRawObject(u)
          \/ StageRawObject(u)
          \/ PutVerifiedReader(u)
          \/ PutRawAssetIf(u)
          \/ EndPut(u)

Promote(m) == \/ \E p, q \in Paths : ReadSource(m, p, q)
              \/ PutRawAsset(m)
              \/ EndPromotion(m)

Work(c) == \/ \E j \in Jobs : ClaimReclaimJob(c, j)
           \/ LockForReclaim(c)
           \/ RawObjectIsUnreferenced(c)
           \/ DeleteObject(c)
           \/ MarkRawObjectCollected(c)
           \/ CompleteReclaimJob(c)

Schedule == \/ ListUnreferencedRawObjects
            \/ \E j \in Jobs : EnqueueReclaimJob(j)

Next == \/ \E u \in Publishers : Put(u)
        \/ \E m \in Promoters : Promote(m)
        \/ \E p \in Paths : DeleteRawAsset(p) \/ RestoreRawAsset(p)
        \/ Schedule
        \/ \E c \in Collectors : Work(c) \/ FailReclaimJob(c) \/ CrashCollector(c)
        \/ \E d \in Digests : GraceOver(d) \/ RestOver(d)
        \/ \E j \in Jobs : RecoverReclaimJob(j) \/ RetryReclaimJob(j)

Spec == Init /\ [][Next]_vars

\* Requests end, the scheduler, the workers and the recovery of abandoned leases
\* tick, days pass.
Fairness ==
    /\ \A u \in Publishers : WF_vars(EndPut(u))
    /\ \A d \in Digests : WF_vars(GraceOver(d)) /\ WF_vars(RestOver(d))
    /\ WF_vars(Schedule)
    /\ \A c \in Collectors : WF_vars(Work(c))
    /\ \A j \in Jobs : WF_vars(RecoverReclaimJob(j) /\ ~AtWork(holder[j], j))

FairSpec == Spec /\ Fairness

-----------------------------------------------------------------------------
(* Properties                                                              *)

\* What a publication made visible under the object lock can be read: its
\* bytes are in the store, whatever collectors, retries and crashes do.
PublishedHasBytes ==
    \A p \in Paths \ lockless : asset[p] # None => asset[p] \in bytes

\* Everything visible can be read.
VisibleHasBytes == \A p \in Paths : asset[p] # None => asset[p] \in bytes

\* Bytes always have an uncollected row, recorded before they are written,
\* so whatever a failed or refused publication leaves can be reclaimed.
LeftoversTracked == \A d \in bytes : Live(d)

\* At most one publication or reclaim works on a digest at a time, also when
\* a job's lease has expired under a worker that goes on.
ExclusiveObject ==
    \A x, y \in Sessions :
        x # y /\ pc[x] \in InLock /\ pc[y] \in InLock => want[x] # want[y]

\* The objects that publications have written and not given up yet
Pledged == {want[u] : u \in {v \in Publishers : pc[v] \in {"written", "published"}}}
\* The objects that paths published under the lock refer to
Shown == {asset[p] : p \in {q \in Paths \ lockless : asset[q] # None}}

Content == INSTANCE ContentStore WITH stored <- bytes, pledged <- Pledged, visible <- Shown

\* Publications under the object lock implement ContentStore: nothing becomes
\* visible before its bytes are in the store, and bytes leave the store only
\* while nothing published under the lock refers to them and no publication
\* has written them and not committed yet.
RawKeepsContent == Content!Spec

\* Bytes are removed only when they have been unreferenced for 24 hours.
ReclaimedAfterGrace ==
    [][\A d \in bytes \ bytes' : d \in aged \ used]_vars

\* Bytes that stay unreferenced do not stay in the store for ever.
EventuallyReclaimed ==
    \A d \in Digests : []<>(d \notin bytes \/ Referenced(d))

\* Objects whose key is spent, and which are listed again and again before d,
\* fill the page of every listing.
CrowdedOut(d) ==
    LET spent == {c \in aged \intersect Older(d) :
                    /\ Live(c) /\ ~Referenced(c)
                    /\ job[<<c, owner[c]>>] \in {"completed", "failed"}}
    IN  Cardinality(spent) >= ReclaimPage

\* Bytes left behind by a replacement, a delete or a failed publication are
\* reclaimed, if their repository has had no reclaim job for them before, the
\* job does not run out of attempts, and older objects with spent keys do not
\* crowd them out of ListUnreferencedRawObjects for good: across a crash of the
\* collector at any of its steps, publications that take the lock in between,
\* and listings that return only the oldest objects.
FirstGarbageReclaimed ==
    \A d \in Digests :
        <>[]~CrowdedOut(d) =>
            ((d \in bytes /\ ~Referenced(d) /\ job[<<d, owner[d]>>] = "absent")
                ~> \/ d \notin bytes \/ Referenced(d)
                   \/ \E r \in Repositories : job[<<d, r>>] = "failed")
=============================================================================
