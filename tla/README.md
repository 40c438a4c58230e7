# A TLA+ verification of artifact-gateway

artifact-gateway is a Go service that hosts, proxies, promotes and reclaims
packages. Its state is in PostgreSQL (metadata, jobs, locks) and in an
S3-compatible object store (bytes). Any number of gateway processes run against
both; nothing is shared between them but those two. What is hard to test is what
these processes do to each other: leases that expire under a worker, statements
whose snapshot is older than their locks, bytes and rows that change in separate
steps, crashes between them.

## Parts of the system and how they interact

| Part | State | Operations | What is hard about it |
|------|-------|------------|-----------------------|
| Lifecycle job queue (`internal/repository/postgres_lifecycle.go`, in-memory twin `memory_lifecycle.go`) | `lifecycle_jobs` rows: state, attempts, lease token, lease expiry, next attempt | enqueue, claim, renew, progress, lease lock, complete, fail, recover, run now, retry, requeue, cancel | the claim is one statement with three moments (snapshot, repository try-lock, row update); expiry is judged by another clock; stale workers |
| Worker runtime, recovery loop (`internal/lifecycle/runtime.go`, `internal/app/lifecycle_recovery.go`) | batch, current job, heartbeat | claim a batch, run, heartbeat, complete, fail | lost heartbeats, later jobs of a batch without one, crash after the work |
| Go and Cargo promotion (`internal/app/native_go_distribution.go`, `native_cargo_distribution.go`) | target publication | publish and complete under the lease lock | recovery racing the commit |
| Raw assets (`internal/format/raw`, `internal/repository/postgres_raw.go`) | assets, tombstones, object rows, object-store keys | PUT, upload, migration publication, delete, restore | row and bytes change in separate steps; shared content |
| Raw promotion and replication | a second reference to an object | read source, add reference | no digest lock |
| Raw collector (`internal/maintenance/raw/collector.go`) | reclaim jobs | list, enqueue, claim, recheck, delete, mark, complete | stale listing, only the oldest rows listed, two collectors after a lease expiry, crash between delete and mark |
| Advisory locks (`postgres_advisory_lock.go`, `artifact_distribution_admission.go`) | PostgreSQL session locks, a small pool per process | acquire sorted keys, nest, release, discard | order between nested sets, a small pool, calls that do not carry the session, failed statements |
| Email outbox (`postgres_email.go`, `internal/app/email_notification_worker.go`) | `email_test_deliveries`, target, alert rules | enqueue, claim with sweep, send, report, replay, revoke | a lost SMTP answer; order of one rule's mails; revocation of what is in flight |
| Quota alerts (`internal/quotaalert/state.go`, `postgres_quota_evaluation.go`) | severity, evidence since when, episode | sample, failed read, clear | gaps, changed quotas, a reset that arrives late |
| Webhook outbox (`postgres_webhooks.go`, `internal/app/webhook_worker.go`) | events, deliveries, subscriptions | commit with a transition, claim, post, report, replay | racing transitions, late answers, attempts of a crashed worker |
| Replication plans (`postgres_replication.go`, `internal/replication/worker.go`) | plans, checkpoints | submit, claim, copy, admit, publish, park, replay, recover, cancel | publication after the lease is over, quarantine during it |
| Quarantine and admission | quarantine rows, coordinate locks | quarantine, release, admit | decision and publication must be under one lock |
| Raw uploads and conditional writes (`internal/format/raw/native.go`, `internal/uploadspool`) | upload rows, chunks, one path | start, append, complete, cancel, expire, reclaim, conditional PUT | a chunk stored and not recorded; a condition checked before the commit |
| Go modules (`internal/app/native_go*.go`, `postgres_go.go`) | versions, assets with `collecting` fence, intents | publish, promote, tombstone, restore, list, reclaim | objects shared by repositories; restore must fail closed after a crash |
| Raw proxy cache (`internal/protocol/raw/cache.go`, `internal/cache`) | index entries, content objects, try-locks | load, fetch, admit, store, invalidate, collect | nothing is transactional; lock sessions break under their owner |
| Scheduled tasks | timetable rows | claim, record | a claim is one statement |
| Hosted repositories, groups, grants, deletion; sessions; runtime nodes | versioned rows | optimistic updates, active -> deleting -> deleted | stale versions |
| OCI, Maven, APT, npm, PyPI, NuGet, Helm, RubyGems, Conan | protocol state | uploads, publication, snapshots, reclaim | the Raw and Go patterns with multi-object publications |
| Nexus migration, backup, CLI, console, admin API, configuration | files, external services | import, export, presentation | mostly I/O |

`PROJECT.json` lists every part with its status and every hazard with its line.

Correctness, part by part. Queue: a lease has one holder; a stale worker changes
nothing; attempts are bounded; settled jobs stay settled; every job settles; one
running job per repository. Promotion: while it publishes under the lease lock the
job is its own. Raw: what is visible has its bytes; bytes always have a row that
lets them be reclaimed; deletion respects references, the lock and the grace
period; unreferenced bytes go in the end. The outboxes and the plans are leased
work as well, and each adds its own promise: a mail sent twice is flagged, the mails
of a rule go out in order, an endpoint gets a bounded number of posts, the events
tell the history of the artifact, a plan is published by its owner, under
admission, and complete only when published. Alerts: the severity is what the whole
timeline calls for, one alert per episode and scenario. Uploads: what is published
is what was accepted, under the condition of the writer. Go: a visible version has
all its bytes and no object is forgotten. Cache: within the quota, readable, fetched
once, and a fresh entry survives. Locks: what is granted is held, and nobody waits
for ever whose calls carry the session.

## Modules

`LifecycleJobs` models the queue and the workers. `job` is the table; a job is
its unique key (repository, kind, idempotency key). Time is two Booleans of a row:
`live` (lease not expired) and `due` (next attempt reached), moved by
`LeaseExpires` and `BecomesDue`. A token is a number no claim has used; 0 is the
empty token. `pc`, `seen`, `batch` and `cur` are a worker loop's local state:

- PostgreSQL's claim is `ClaimRecover`, `ClaimSnapshot`, `ClaimTryLock`,
  `ClaimUpdate`, because other sessions commit between these moments. The
  candidates come from the snapshot, the repository lock is tried after it, and
  the UPDATE tests only that the row is still pending or retrying.
- The in-memory store's claim is one step, `MemoryClaim`, under its mutexes;
  `MemorySpec` is the queue with it. That store lives in one process, so
  `MemorySpec` has no crash.
- Recovery skips a row whose lease lock is held. Under `ClockSkew` it may take any
  running row, since it compares the node's clock with the database's.
- `StartJob` to `AbandonJob` are `Runtime.runJob`. `LockLifecycleJobLease`,
  `CompleteFenced`, `ReleaseLease` and `PublishFailed` are the Go and Cargo
  promotion. A renewal of a live lease leaves it live, so only its refusal is a
  step (`HeartbeatFails`).

Recovery by `FOR UPDATE SKIP LOCKED` may skip a row another statement has locked.
That equals a lease which expires a moment later. The claim's LIMIT (100) is never
reached with the bounds used. In memory the lease lock is a shared read lock held
against claims and recovery, which `MemoryFenceFree` says. The payload of a job and
its progress counters are left out.

`RawStorage` models Raw publication, tombstones, restore, promotion and the
collector. `asset` and `tomb` are the two path tables; `owner`, `collected`,
`aged` and `older` are the object rows (`repository_id`, `collected_at`, older than 24
hours, the order of `created_at`); `bytes` are the keys in the object store; `lock` is the advisory lock of a digest.
One publication is `SpoolBody`, `LockRawObject`, `StageRawObject`,
`PutVerifiedReader`, `PutRawAssetIf` and `EndPut`; the last may come after any of
them, as an error or as the death of the process. Upload completion and migration
publication take the same steps. A reclaim job is keyed by digest and repository,
as its idempotency key is, and reduced to its state and the holder of its lease. A
batch is so many collectors. A listing is the oldest `ReclaimPage` of the aged rows that
nothing refers to, whether or not their key is spent. `lockless` and `used` are history variables: paths
made visible without the object lock, and digests referenced within a day.

`LeasedWork` is the abstract specification of a durable queue: items are open,
held, done or parked; only the holder of an unexpired lease finishes an item; it is
taken from its holder only when the lease is over (or when clocks disagree,
`Timely = FALSE`); work done is never touched again. Four modules implement it, each
with a refinement mapping from its table and from the claims its workers hold:
`JobsAreLeasedWork`, `MailIsLeasedWork`, `PlansAreLeasedWork`, `HooksAreLeasedWork`.

`ContentStore` is the abstract specification of everything that refers readers to
content-addressed bytes: objects are `stored`, `pledged` (somebody may make them visible
without looking at the object store again) or `visible`; only what is stored is pledged,
only what is pledged becomes visible, and what is pledged or visible is never deleted.
Three modules implement it, each with its own idea of a pledge: in `RawStorage` a
publication that has written its bytes (`RawKeepsContent`, over what is published under
the object lock), in `GoModules` also a tombstoned version whose assets are not fenced,
which a restoration may show again (`GoKeepsContent`), in `RawCache` an entry about to be
written (`CacheKeepsContent`, until the publication lock breaks or an entry cannot be
read; then nothing is promised and the mapping shows nothing).

`EmailDeliveries`. `mail` is `email_test_deliveries`, `sending` the claims of worker loops,
`relayed` what the SMTP relay really accepted, which no table knows. A lease token is the
number of the claim that issued it. A claim sweeps expired rows first and counts the
attempt; sending has an outcome (accepted, refused, rejected, unknown), and its report is
fenced by token and expiry. A quota event enqueues a mail; a change of its rule kills the
mails that wait and revokes the one in flight; a change of the target is met by the worker,
which looks at it again before it sends. The limit of five tests a minute and the codes of a
disabled route are left out. When a rule has an event is a free choice here; `QuotaAlerts`
says when.

`QuotaAlerts`. `Advance` of `state.go` is an operator over the evidence (last sample,
warning, critical and recovery since), time counts periods of 15 seconds, usage is
one of four bands. A failed read works outside the row lock and writes its reset
later (`ReadFails`, `WriteUnknown`). `timeline` is a history variable from which
`Documented` computes the severity anew. The early return for a sample with an equal
timestamp cannot be reached, as samples are taken under the row lock.

`WebhookDeliveries`. A transition reads the row (`ReadArtifactQuarantine`) and commits
under the version it read (`ReplaceArtifactQuarantine`), with the event and its
deliveries. Claims, posts, results, expiry, exhaustion and replay follow
`postgres_webhooks.go`; `posts` counts what the endpoint received.

`ReplicationPlans`. A plan copies one object. The worker's place `at` says which of
its locks it holds: first admission check, copy and verify, object locks, lease
lock, final check under the admission lock of the format, publish, complete. Quarantine transitions
take their own lock first. Parking, replay, recovery (which needs the lease lock too)
and cancellation change the row. Recovery and claim are separate statements.

`RawUploads`. One upload, one path. `parts` are the stored chunks, `accepted` a
history of what was recorded. Requests hold the upload's lock from `LockRawUpload` on.
A conditional write is `BeginWrite`, `SelectCurrent`, `WriteReference`, `CommitWrite`
with at most three tries, as `PutRawAssetIf` has; the row locks of PostgreSQL follow from the
place of a request. The early check of a condition before the upload is one more
reason for `DropCall`. The cumulative staging object of older gateways is left out.

`AdvisoryLocks`. An operation (`operation`) extends one session on one connection of
its node's pool (`conns`), in ascending key order within a call and in any order between
calls. A call extends the session only if its context carries it. A handler that has
dropped that context, as all do that schedule a scan of what they have just published, makes
a call that is an operation of its own `Within` the first, which waits for it with its
connection in hand. PostgreSQL counts the locks of a connection and breaks a deadlock by
failing a member of the cycle. A failed statement discards the connection.

`GoModules`. One version, several repositories, a common object store. A publication
persists an intent for each object before it writes it, commits its rows, and cleans up
after a failure (an object that is there in another size or digest is written over, under the
same key: it is there before and after); a reclaim fences (`collecting_at`), deletes and marks, each a step.
Tombstones carry a stamp, by which a job knows the tombstone it was listed for. The
recovery window is the free time at which listing happens. Object and coordinate
locks are taken together, so a replay at the commit cannot happen. Quarantine and
lease checks of the promotion are those of `ReplicationPlans` and `LifecycleJobs`.

`RawCache`. One call is one visit of a request to one group member, or a collection,
or an invalidation. `cacheIndex` and `cacheObjects` are the entries, which production
keeps in PostgreSQL behind the interface of an object store, and the contents;
`serial` makes entries distinct, as their bytes are, so that a removal sees whether
the entry is still the one it read. Each worker is a gateway of its own; the mutexes of a
process would exclude only more. `SessionBreaks` takes a lock from its owner, who goes
on until a renewal notices; `StoreErrs` is an index entry that cannot be read, or a
removal that gets no lock or fails: `removeIndex` drops these errors. `cacheFaults` records both, and the properties say which
faults they survive. Reading and deleting an entry in `removeIndex` is one step, exact
while the publication lock holds. The proxy path of the native handler has the same
flow without a quota.

The MC modules give the constants. `MCServices` and `MCStores` compose several
services: those share no row, so a behaviour chooses its part at the start and the
others rest. The `_proofs` modules hold the theorems.

## Runs

| Run | Configuration | Result |
|-----|---------------|--------|
| `lifecycle_fencing` | two jobs of two repositories, two workers, 2 attempts, skew, 1 crash, 1 operator retry | passes, 745k states |
| `lifecycle_one_running` | PostgreSQL, one repository, two kinds | `OneRunningPerRepository` violated |
| `raw_publish` | one digest, two paths in two repositories, two publishers, a promoter, two collectors, 3 publications, 1 each of deletes, restores, promotions and failures; refinement of `ContentStore` | passes, 1.04M states |
| `raw_replaced` | two digests at one path, one publisher, one collector, listings of one row, fairness; 3 publications with a failure or a delete, 2 with both | passes, 136k states |
| `raw_restore` | one publisher, one collector, 1 delete, 1 restore | `VisibleHasBytes` violated |
| `raw_promotion` | two digests, one promoter, one collector | `VisibleHasBytes` violated |
| `raw_grace` | one publisher, one collector, 2 publications, 1 delete | `ReclaimedAfterGrace` violated |
| `raw_reclaimed` | as `raw_grace`, with fairness | `EventuallyReclaimed` violated |
| `services` | jobs, mail, plans, webhooks and locks, each on its own instance; refinement of `LeasedWork` by the four queues | passes, 101k states |
| `lock_pool` | one process, a pool of one, two uploads that schedule a scan | `NobodyStuck` violated |
| `stores` | in-memory jobs, quota alerts, uploads, Go modules and the Raw cache, each on its own instance; refinement of `ContentStore` by modules and cache | passes, 169k states |
| `replication_cargo` | one Cargo plan, quarantine transitions | `PublishedUnderAdmission` violated |

Why the bounds suffice. Two workers and two attempts give a stale holder, its
successor and the exhaustion of the budget; the operator's retry starts the budget
again while the stale holder is still there. Two publishers and two collectors on
one digest give every pair that meets at a lock, and one failure lets a lease
expire under a collector that goes on. The proofs below remove the bounds for the
safety properties. `LongRequests` decides whether a day may pass while a request or
a worker's step is under way; it is TRUE where that makes the property harder and
FALSE in the violation runs, so that their traces need no such delay.

`services`. One job, two workers of one kind, one crash and one retry by an operator: the
interplay of two jobs is in `lifecycle_fencing` and, for the in-memory store, in `stores`.
Two attempts for each job, mail, plan and delivery give a first holder, a second one
and exhaustion; two events of one rule give an order to keep; the mail budgets pair two
workers with one kind of disturbance each (test and replay, target, rules, a full queue of
one or two). One plan in two formats: `pypi` locks the coordinate as quarantine does, `raw`
the digest. Two transitions race on one artifact. Three operations on two nodes with a pool
of one connection lock the keys `{1}` then `{2}`, or `{2}` then `{1, 2}`: opposite orders, a
nested key, a wait for the pool and for PostgreSQL at once, one fault; and a scan within the
first, which gets stuck when that one has its connection and is harmless before.

The budgets of `raw_replaced` leave out only three publications with a delete and a failure.
The listing of one row stands for the 100 of the code: with two digests, one spent object is
enough to crowd the other out.

`stores`. The holds of alerts are 4, 2 and 4 periods with samples 2 or 3 periods apart and a
largest gap of 2, so both continuous evidence and gaps occur, from each severity. Two
requests at a time on an upload of at most two chunks. Go: two repositories that share an
object, two callers, two attempts of a job. Cache: two gateways, two keys, bodies of half
the quota and all of it; the budgets pair requests with expiry, collection, invalidation,
broken sessions and failed reads. Budgets are part of the initial state, so that one run has
all of them without their product.

Symmetry permutes workers, publishers and collectors. It is used only where the
properties are invariants and action properties. Deadlock is not checked where the
bounded system really stops (the Raw runs, `services`, `stores`: budgets run out).
`TypeOK`, `TokenDiscipline` and `SettledIsFinal` of the queue, `TypeOK` and
`ExclusiveObject` of Raw, `VisibleModulesHaveBytes` of the modules and
`CachedEntriesReadable` of the cache are covered by theorems alone: the runs check
refinements that imply the last two.

### What the violations show

- `lifecycle_one_running`: the second claim's snapshot predates the commit of the
  first, whose repository lock is gone when the second tries it. The limit the
  completion checklist names is kept by the in-memory store only.
- `raw_restore`: a restore between the collector's recheck and its mark makes a
  path visible whose bytes are deleted.
- `raw_promotion`: the source is replaced and its object reclaimed between the
  promotion's read and its new reference.
- `raw_grace`: the recheck does not look at the age again, so a waiting job deletes
  what was tombstoned a moment ago.
- `raw_reclaimed`: a digest's job key is used up by its first job in a repository,
  so an object that became garbage again is listed for ever and never reclaimed. A listing
  takes the oldest 100 rows, so enough such objects keep younger garbage out of it.
  `raw_replaced` shows the other half: garbage without an earlier job goes, if it is not
  crowded out that way (`CrowdedOut`; without this condition the run fails).
- `lock_pool`: a publication holds its object lock, and so a connection, while it schedules
  the scan with the request's context. The scan's lock needs another connection. With a pool
  of one the publication waits for itself, with a pool of n so do n publications at once
  (the default is 4), until a request is cancelled. A comment says that sessions work with one
  connection; that holds where the context is carried, and only there.
- `replication_cargo`: the Cargo worker locks the coordinate, the quarantine of the
  same artifact locks its digest, so a quarantine commits inside the publication.

`PROJECT.json` quotes the line each one disagrees with. `raw_restore` and
`raw_promotion` are the whole story for the bytes of visible paths: until the first
restore or promotion, everything visible has its bytes
(`OnlyLocklessPathsLoseBytes`, proved).

## Fairness

`LifecycleJobs!Fairness`: a worker loop claims on every tick, its handler returns
(`Progress`); retry delays pass; a lease that nobody holds expires. Ticks justify
the first, clocks the others. Notifications are not assumed: they only shorten a
wait. `RawStorage!FairSpec`: requests end, days pass, the scheduler and the
collectors tick, the lease of a collector that is gone is recovered.
`MailFairness`, `PlanFairness` and `HookFairness` are weak fairness of the steps of
workers, claims and expiries together: loops poll, handlers have timeouts, clocks go on. Those
four are the hypothesis of the liveness property itself, since the parts of `services` share
one specification. `LockFairness` lets operations go on and PostgreSQL's deadlock check run; it
never assumes a cancellation. A worker step includes the crash, so that fairness never
promises success. There is no fairness for operators or failures; `PlanFairness`
assumes that a quarantine request which holds its lock ends.

## Proofs

All theorems hold for any number of jobs, workers, paths, digests, publishers and
collectors, from the named assumptions on the constants only (bounds are naturals,
at least one attempt, sentinels outside their sets, `RepositoryOf` a function; lock keys
are finitely many integers, operations are finitely many, there is a nesting and none is
deeper than some number, calls are made in the caller's process and none within itself; uploads may be unconditional and there is a chunk to upload).
Every safety property a passing run checks has a theorem.

`LifecycleJobs_proofs`. The inductive invariant `IInv` joins: rows are well formed,
within the budget, and have a token iff they run (`Rows`); all tokens are older
than `nextToken` (`Tokens`); local states are well formed and a worker holds
what its step says (`Locals`); one holder per lease; the lease lock is held exactly
by the worker inside it (`Lock`); `FencedOwner`. The last two are needed
together: recovery leaves a fenced row alone because its lock is taken. The budget
is inductive although the UPDATE does not test it: only `Released` and `Queued`
make a row claimable, and the former keeps rows with no attempt left out. Theorems:
`TypeCorrect`, `TokensDisciplined`, `LeasesExclusive`, `AttemptsBounded`,
`PublicationFenced`, `SettlementFenced` (with skewed clocks recovery may release any unlocked
row, but then nobody reports: no stale worker completes, fails or releases), `SettledForGood`,
and for the in-memory
store `MemorySafe` and `MemoryOneRunning`. `QueueImplementsLeasedWork` follows from `IInv`
and `StartedOnce` (the lease a worker executes has left its batch): every action is, row by
row, a move of `LeasedWork` (one lemma per action), and the set of leases in hand grows
only by leases just issued. `MemoryImplementsLeasedWork` reuses those lemmas for the
in-memory store, whose claim in one step moves every row it takes.

`RawStorage_proofs`. `RInv` is `TypeOK` with `Core`: busy sessions have a digest and a
place (`Located`), those past the lock hold it (`Locked`), references have a row
(`Recorded`), a staged digest has an uncollected row (`Staged`), a written one has its
bytes (`Written`), a condemned digest has no locked reference (`Condemned`), a
deleted one has no bytes (`Erased`), and the two safety invariants. Theorems:
`RawTypeCorrect`, `PublicationsReadable`, `NothingLeaks`, `ObjectsExclusive`.
`RawImplementsContentStore` has a lemma for each half: only `PutRawAssetIf` shows under
the lock what was not shown, and it shows what it has written; only `DeleteObject` takes
bytes away, and it takes none a publication relies on (`ReclaimSafe`).
`RawContentReadable` says that this is enough for readers: `PublishedHasBytes` follows from
the abstract specification alone. `OnlyLocklessPathsLoseBytes` adds `NoLockless`: as long as
no restore and no promotion has begun, no path is in `lockless`, so that `PublishedHasBytes`
is `VisibleHasBytes`.

`Deliveries_proofs` has two parts. For e-mail, `MInv` joins the types, one entry of
`sending` per claim, claims older than the row's counter (`Issued`), a worker's deadline
inside its lease (`DeadlineInLease`), what a holder knows of the relay (`HolderKnows`),
`DuplicatesFlagged` and `InFlightInOrder`. Deadlines are what makes a late send impossible:
a row that is taken over has no worker that can still send it. Theorems: `MailTypes`,
`DuplicatesAnnounced`, `AlertsInOrder`, `MailImplementsLeasedWork`. For webhooks, `HInv`
joins the types, rows whose lease matches their state (`HookRows`), one request under way
per claim (`PostingKeys`), and three counts: requests made or still to be made never exceed
the claims (`RequestPerClaim`), claims never exceed the attempts of this round and of every
replay before (`ClaimsCounted`), and events and requests share a budget (`RequestsCounted`).
The counts are what makes `PostsBounded` inductive: the row forgets its attempts with each
replay. Theorems: `HookTypes`, `EventsAreHistory`, `EndpointSpared`,
`HooksImplementLeasedWork`.

`AdvisoryLocks_proofs`. `LInv` says where an operation can be (`OpInv`), that connections and
operations name each other (`ConnInv`), that one connection at most holds a key
(`KeysExclude`), and that the count PostgreSQL keeps of a key is the number of calls that hold
it (`LocksCounted`): the calls granted, less the one being released once it has unlocked
the key, and the one in hand once it has locked it. `LocksProtect` alone is not inductive,
since a key that is locked twice must survive the first unlock. Theorems:
`LockInvariant`, `LocksAreProtected`, and, with the invariant that grants follow the plan of an
operation (`PlanKept`), `LockTypes` and `LocksNeverStuck`. The last one is about states in
which no handler holds a connection and waits for a call made without its session
(`HoldsAndWaits`); `lock_pool` shows that the condition is needed. Suppose that nobody
can go on. Who waits for a call made without the session has none yet, and calls do not
contain themselves, so somebody waits for a connection or a lock. Who waits for a connection finds the pool in use, and who uses it has a session and
waits for a lock; who blocks a session has one too. So the operations with a session are a
finite set, not empty, each blocked by another of the set: a smallest such subset is a
circle of waits, which PostgreSQL's deadlock check sees.

`Artifacts_proofs` has two parts. For replication plans, `PInv` joins the types, one worker
per claim, a fenced worker owns its plan (`FenceOwns`; recovery takes the same fence) and
has reloaded a verified checkpoint (`Checked`). Theorems: `PlanTypeCorrect`,
`PublicationOwned`, `CompletionMeansPublished`, `PlansImplementLeasedWork`, and
`AdmissionLinearized`: without the format Cargo, whose worker and transition lock different
keys, nothing is published whose artifact is quarantined at that moment. For Go modules,
`GInv` joins the types, exclusive locks (`CallersExclude`), unfenced assets have bytes
(`UnfencedHasBytes`), visible versions are unfenced (`VisibleUnfenced`), bytes are tracked
(`Tracked`) and what a caller may rely on at each place (`CallerOK`). Theorems:
`GoInvariant`, `GoTypes`, `VisibleVersionsComplete`, `NoObjectForgotten`,
`GoImplementsContentStore` and `GoContentReadable`. The pledges of a publication hold
because its locks keep collectors of any repository away from its objects; those of a
tombstoned version because a collector fences it first.

`RawCache_proofs`. `CInv` joins the types, entries are issued, the locks exclude while no
such lock has broken (`LocksExclude`), `CachedEntriesReadable`, and what a call relies on at
each place (`Relies`): a GET fetches only what is not cached, what is about to be indexed is
stored, the marks of a collector cover the live entries, and an entry about to be removed is
of no use if it is still the one that was read. Theorems: `CacheInvariant`,
`CacheTypeCorrect`, `EntriesReadable`, `PathFetchedOnce`, `EntriesSurvive`,
`CacheImplementsContentStore`, `CacheContentReadable`. The quota has an invariant of its own
beside it, `UsedInv`: one call at a time is past its admission as long as the admission lock
or the publication lock holds (`OneAdmitted`), and what it stores fits beside the entries of
the other keys (`AdmittedFits`). Every step but an admission and a store only shrinks the
index (`Shrinks`). Theorem: `QuotaKept`. What entries take is counted byte by byte
(`CacheBytes`), which the provers can reason about, unlike a sum over a set.

`Stores_proofs` has two parts. For uploads, `UInv` joins the types, the recorded chunks
are stored and in order (`PartsRecorded`), one call at a time holds the upload and one the
path (`OneHolder`), and what a call knows at each place: of the upload's offset, state and
chunks (`KnowsUpload`), of the path's row (`KnowsPath`). Theorems: `UploadTypes`,
`ConditionalWrites`, `CompletionPublishesAccepted`, `CollectedUploadsEmpty`. For quota
alerts, `QInv` joins the types, `EvidenceShown` (each time the rule keeps is the start of an
unbroken stretch of the timeline, and no earlier start would do), `ReadsFenced` (a failed
read whose version is current knows the current state), `EpisodeInv` and the two
properties. `SeverityIsDocumented` quantifies over a run of severities, one for each
observation, so that a step extends the run by one and no induction is needed. Theorems:
`QuotaInvariant`, `QuotaTypes`, `SeverityDocumented`, `AlertsOncePerEpisode`.

`Composition_proofs`. A step of `ServicesSpec` is, for each of the services, a step of it or
none, and so for `StoresSpec` (`ServicesCompose`, `StoresCompose`): the composed
specifications implement every component's own. What is proved of the components
then holds of what the runs check, jobs and their refinement included: `ServicesTyped`, `ServicesSafe`, `ServicesAdmit`,
`StoresTyped`, `StoresSafe`. Since a behaviour of the composition runs one part, these
theorems say that the runs check the components and nothing weaker; they add no
interaction between services, which share no row.

Only model-checked: all liveness properties (`EveryJobSettles`, `FirstGarbageReclaimed`,
`EveryMailSettles`, `EveryPlanSettles`, `EveryHookSettles`, `EveryLockedOperationEnds`),
since liveness under fairness is out of the prover's reach. `CarriedNeverStuck` is the safety half of
the last one, which has the same condition. The violated properties have no proofs, of course; `PublishedUnderAdmission`
is proved without the format Cargo, `OneRunningPerRepository` for the in-memory store,
`VisibleHasBytes` without restores and promotions.

## Not modelled

- The largest part of the repository is protocol handlers, parsers, index and package
  formats, generated API code, the console, command-line tools, configuration and backup
  scripts. They transform data or present it and have no protocol between steps.
- OCI, Maven, APT, npm, PyPI, NuGet, Helm, RubyGems, Conan and Cargo as stores. Their
  objects live by the patterns of `RawStorage`, `RawUploads` and `GoModules`; what is their own
  (manifest graphs, snapshots, signing, metadata merging) would need a model of its own for
  each.
- Scheduled tasks, hosted repositories, groups, grants, sessions and runtime nodes:
  single statements or single transactions with a version check.
- Loss of a lock session under a live lifecycle worker or collector (the lock's session
  context is dropped by `LockLifecycleJobLease` and `LockRawObject`): there locks end with
  their holder. `RawCache` has the loss of sessions. Exhaustion of the primary pool and of the
  coordinator's pool is left out; `AdvisoryLocks` has the lock pool.
- The circuit breaker of the proxy, and its other caches. Serving a body after the hit and the
  migration of digests in the Raw cache. Proxy caching of Go modules.
- The in-memory twins of the services, except the job store; they are for tests and single
  processes.
- Heartbeats that succeed change nothing that is modelled; partial writes of the object
  store, its retries and its transport are below the atomic put and delete assumed.
