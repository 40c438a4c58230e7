------------------------------ MODULE GoModules -------------------------------
(***************************************************************************)
(* A Go module version hosted by several repositories: its publication,    *)
(* promotion, tombstoning and restoration, and the collector of its        *)
(* content-addressed objects.                                              *)
(* internal/app/native_go.go, native_go_maintenance.go,                    *)
(* native_go_distribution.go, internal/repository/postgres_go.go.          *)
(*                                                                         *)
(* The repositories share the object store: equal content has one key      *)
(* whoever publishes it.  A publication is the set of the keys of its      *)
(* assets; once its row exists the set never changes.  The locks a caller  *)
(* holds follow from where it is: object keys and coordinates are taken    *)
(* together (AdvisoryLocks has the order) and kept until the call ends.    *)
(***************************************************************************)
EXTENDS Naturals, Sequences

CONSTANTS
    GoRepositories,     \* repositories, in the order of their identifiers
    GoObjects,          \* object keys
    GoCallers,          \* bound: requests and workers at a time
    GoJobAttempts,      \* max_attempts of a reclaim job
    GoBudgets           \* bounds: the uploads that come, calls of other kinds

GoKinds == {"publish", "promote", "tombstone", "restore", "reclaim", "list"}
GoUploads == GoRepositories \X (SUBSET GoObjects \ {{}})

ASSUME GoAssumption ==
    /\ GoRepositories \subseteq Nat
    /\ GoJobAttempts \in Nat \ {0}
    /\ GoBudgets \subseteq [uploads : SUBSET GoUploads, calls : [GoKinds -> Nat]]

VARIABLES
    goAssets,       \* keys of a repository's native_go_assets rows; {}: no version
    goTombstone,    \* tombstoned_at of its version; 0: not tombstoned
    goCollecting,   \* keys of its assets with collecting_at
    goCollected,    \* ... with collected_at
    goStore,        \* keys that have bytes
    goJobs,         \* reclaim jobs; stamp 0 is a publication's recovery intent
    goClock,        \* latest tombstoned_at
    goAt,           \* where a caller is
    goOp,           \* what it works on
    goTodo,         \* keys a publication has still to write
    goCreated,      \* keys it has created
    goBudget

goRows == <<goAssets, goTombstone, goCollecting, goCollected, goClock>>
goCalls == <<goAt, goOp, goTodo, goCreated>>
goVars == <<goRows, goStore, goJobs, goCalls, goBudget>>

GoPlaces == {"idle", "waiting", "locked", "lookup", "write", "put", "cleanup",
             "fenced", "deleted", "done"}
GoOp(kind, repository, source, keys, job, token) ==
    [kind |-> kind, repository |-> repository, source |-> source, keys |-> keys,
     job |-> job, token |-> token]
GoJob(repository, key, stamp, state, attempts) ==
    [repository |-> repository, key |-> key, stamp |-> stamp, state |-> state,
     attempts |-> attempts]
NoGoOp == GoOp("list", 0, 0, {}, 0, 0)

GoTypeOK ==
    /\ goAssets \in [GoRepositories -> SUBSET GoObjects]
    /\ goTombstone \in [GoRepositories -> Nat]
    /\ goCollecting \in [GoRepositories -> SUBSET GoObjects]
    /\ goCollected \in [GoRepositories -> SUBSET GoObjects]
    /\ goStore \in SUBSET GoObjects
    /\ goJobs \in Seq([repository : Nat, key : GoObjects, stamp : Nat,
                       state : {"pending", "running", "completed", "failed"},
                       attempts : Nat])
    /\ goClock \in Nat
    /\ goAt \in [GoCallers -> GoPlaces]
    /\ goOp \in [GoCallers -> [kind : GoKinds, repository : Nat, source : Nat,
                               keys : SUBSET GoObjects, job : Nat, token : Nat]]
    /\ goTodo \in [GoCallers -> SUBSET GoObjects]
    /\ goCreated \in [GoCallers -> SUBSET GoObjects]
    /\ goBudget \in [uploads : SUBSET GoUploads, calls : [GoKinds -> Nat]]

GoInit ==
    /\ goAssets = [r \in GoRepositories |-> {}]
    /\ goTombstone = [r \in GoRepositories |-> 0]
    /\ goCollecting = [r \in GoRepositories |-> {}]
    /\ goCollected = [r \in GoRepositories |-> {}]
    /\ goStore = {} /\ goJobs = <<>> /\ goClock = 0
    /\ goAt = [c \in GoCallers |-> "idle"]
    /\ goOp = [c \in GoCallers |-> NoGoOp]
    /\ goTodo = [c \in GoCallers |-> {}]
    /\ goCreated = [c \in GoCallers |-> {}]
    /\ goBudget \in GoBudgets

-----------------------------------------------------------------------------
(* The tables                                                              *)

\* GoModuleObjectHasReference
HasReference(k) == \E r \in GoRepositories : k \in goAssets[r] \ goCollected[r]

\* GoModuleObjectHasVisibleReference
HasVisibleReference(k) ==
    \E r \in GoRepositories : /\ k \in goAssets[r] \ goCollected[r]
                              /\ goTombstone[r] = 0

\* Repositories whose tombstoned version refers to uncollected key k.
TombstonedBy(k) ==
    {r \in GoRepositories : k \in goAssets[r] \ goCollected[r] /\ goTombstone[r] # 0}

\* GoModuleObjectMatchesTombstone
MatchesTombstone(k, stamp) ==
    /\ \E r \in TombstonedBy(k) : goTombstone[r] = stamp
    /\ \A r \in TombstonedBy(k) : goTombstone[r] <= stamp

\* loadGoPublication: GetGoModuleVersion and GetGoModuleAsset find everything.
Loads(r) ==
    /\ goAssets[r] # {} /\ goTombstone[r] = 0
    /\ goCollecting[r] \union goCollected[r] = {}

\* FailLifecycleJob, or the recovery of an expired lease
Requeued(j) == GoJob(j.repository, j.key, j.stamp,
                     IF j.attempts < GoJobAttempts THEN "pending" ELSE "failed",
                     j.attempts)

-----------------------------------------------------------------------------
(* Calls and locks                                                         *)

\* One call of a kind less; an upload comes once.
Spends(kind) ==
    /\ goBudget.calls[kind] > 0
    /\ goBudget' = [uploads |-> goBudget.uploads,
                    calls |-> [goBudget.calls EXCEPT ![kind] = @ - 1]]

\* A free caller begins a call.
Begins(c, op) ==
    /\ goAt[c] = "idle"
    /\ goAt' = [goAt EXCEPT ![c] = "waiting"]
    /\ goOp' = [goOp EXCEPT ![c] = op]
    /\ UNCHANGED <<goTodo, goCreated>>

GoMoves(c, at) == goAt' = [goAt EXCEPT ![c] = at] /\ UNCHANGED <<goOp, goTodo, goCreated>>
GoEnds(c) ==
    /\ goAt' = [goAt EXCEPT ![c] = "idle"]
    /\ goOp' = [goOp EXCEPT ![c] = NoGoOp]
    /\ goTodo' = [goTodo EXCEPT ![c] = {}]
    /\ goCreated' = [goCreated EXCEPT ![c] = {}]

Holds(c) == goAt[c] \notin {"idle", "waiting"}
Coordinates(c) ==
    CASE goOp[c].kind = "publish" -> {goOp[c].repository}
      [] goOp[c].kind = "promote" -> {goOp[c].repository, goOp[c].source}
      [] OTHER -> {}

\* LockObjectKeys and LockArtifactDistributionCoordinates
LockGoObjects(c) ==
    /\ goAt[c] = "waiting"
    /\ \A d \in GoCallers \ {c} : Holds(d) => /\ goOp[c].keys \intersect goOp[d].keys = {}
                                              /\ Coordinates(c) \intersect Coordinates(d) = {}
    /\ GoMoves(c, "locked")
    /\ UNCHANGED <<goRows, goStore, goJobs, goBudget>>

\* The call fails where nothing is cleaned up, or its process dies.
GoCallDies(c) ==
    /\ goAt[c] # "idle" /\ GoEnds(c)
    /\ UNCHANGED <<goRows, goStore, goJobs, goBudget>>

-----------------------------------------------------------------------------
(* Publication and promotion                                               *)

\* publish: the upload is spooled, and its assets have their keys.
publish(c, r, keys) ==
    /\ <<r, keys>> \in goBudget.uploads
    /\ goBudget' = [uploads |-> goBudget.uploads \ {<<r, keys>>}, calls |-> goBudget.calls]
    /\ Begins(c, GoOp("publish", r, r, keys, 0, 0))
    /\ UNCHANGED <<goRows, goStore, goJobs>>

\* NativeGoPromotion.run takes its first snapshot of the source.
promote(c, source, target) ==
    /\ source # target /\ Loads(source) /\ Spends("promote")
    /\ Begins(c, GoOp("promote", target, source, goAssets[source], 0, 0))
    /\ UNCHANGED <<goRows, goStore, goJobs>>

\* publishSpool refuses a tombstoned version ...
CheckTombstone(c) ==
    /\ goOp[c].kind = "publish" /\ goAt[c] = "locked"
    /\ IF goTombstone[goOp[c].repository] # 0 THEN GoEnds(c) ELSE GoMoves(c, "lookup")
    /\ UNCHANGED <<goRows, goStore, goJobs, goBudget>>

\* ... and writes nothing for a version it finds: that is a replay or a conflict.
LookupVersion(c) ==
    /\ goAt[c] = "lookup"
    /\ LET r == goOp[c].repository IN
         IF goAssets[r] # {} /\ goTombstone[r] = 0
           THEN GoEnds(c)
           ELSE /\ goAt' = [goAt EXCEPT ![c] = "write"]
                /\ goTodo' = [goTodo EXCEPT ![c] = goOp[c].keys]
                /\ UNCHANGED <<goOp, goCreated>>
    /\ UNCHANGED <<goRows, goStore, goJobs, goBudget>>

\* Stat finds the object: it is not written again.  A damaged one, of another
\* size or digest, is written over without an intent and is not remembered as
\* created; its key names the digest, so that it is there before and after.
FindObject(c, k) ==
    /\ goAt[c] = "write" /\ k \in goTodo[c] /\ k \in goStore
    /\ goTodo' = [goTodo EXCEPT ![c] = @ \ {k}]
    /\ UNCHANGED <<goRows, goStore, goJobs, goBudget, goAt, goOp, goCreated>>

\* Mutant: the intent's idempotency key is the object's.
PersistIntentOnce(c, k) ==
    /\ goAt[c] = "write" /\ k \in goTodo[c] /\ k \notin goStore
    /\ goJobs' = IF \E i \in 1..Len(goJobs) : goJobs[i].key = k /\ goJobs[i].stamp = 0
                   THEN goJobs
                   ELSE Append(goJobs, GoJob(goOp[c].repository, k, 0, "pending", 0))
    /\ goCreated' = [goCreated EXCEPT ![c] = @ \union {k}]
    /\ goAt' = [goAt EXCEPT ![c] = "put"]
    /\ UNCHANGED <<goRows, goStore, goBudget, goOp, goTodo>>

\* enqueueGoPublicationReclaim before the object is written
PersistIntent(c, k) ==
    /\ goAt[c] = "write" /\ k \in goTodo[c] /\ k \notin goStore
    /\ goJobs' = Append(goJobs, GoJob(goOp[c].repository, k, 0, "pending", 0))
    /\ goCreated' = [goCreated EXCEPT ![c] = @ \union {k}]
    /\ goAt' = [goAt EXCEPT ![c] = "put"]
    /\ UNCHANGED <<goRows, goStore, goBudget, goOp, goTodo>>

PutObject(c, k) ==
    /\ goAt[c] = "put" /\ k \in goTodo[c] \intersect goCreated[c]
    /\ goStore' = goStore \union {k}
    /\ goTodo' = [goTodo EXCEPT ![c] = @ \ {k}]
    /\ goAt' = [goAt EXCEPT ![c] = "write"]
    /\ UNCHANGED <<goRows, goJobs, goBudget, goOp, goCreated>>

\* A promotion loads its source again under the locks.
ReloadSource(c) ==
    /\ goOp[c].kind = "promote" /\ goAt[c] = "locked"
    /\ IF Loads(goOp[c].source) THEN GoMoves(c, "write") ELSE GoEnds(c)
    /\ UNCHANGED <<goRows, goStore, goJobs, goBudget>>

\* PublishGoModule, and publishGoDistributionStrict for a promotion.  A row
\* that exists is left as it is: it is not this publication's, whose locks
\* would have kept it from appearing.  A commit may be reported as failed.
PublishGoModule(c) ==
    /\ goAt[c] = "write" /\ goTodo[c] = {}
    /\ LET r == goOp[c].repository IN
         \/ /\ goAssets[r] = {}
            /\ goAssets' = [goAssets EXCEPT ![r] = goOp[c].keys]
            /\ GoEnds(c) \/ GoMoves(c, "cleanup")
         \/ /\ goAssets[r] # {}
            /\ GoMoves(c, "cleanup")
            /\ UNCHANGED goAssets
    /\ UNCHANGED <<goTombstone, goCollecting, goCollected, goClock, goStore, goJobs, goBudget>>

\* A statement or the object store fails.
FailPublication(c) ==
    /\ goAt[c] \in {"write", "put"} /\ GoMoves(c, "cleanup")
    /\ UNCHANGED <<goRows, goStore, goJobs, goBudget>>

\* cleanupGoPublicationObjects; some deletions may fail.
CleanupObjects(c) ==
    /\ goAt[c] = "cleanup"
    /\ \E gone \in SUBSET {k \in goCreated[c] : ~HasReference(k)} : goStore' = goStore \ gone
    /\ GoEnds(c)
    /\ UNCHANGED <<goRows, goJobs, goBudget>>

-----------------------------------------------------------------------------
(* Tombstones                                                              *)

\* TombstoneGoModuleVersion reads the keys to lock; there may be no row yet.
tombstone(c, r) ==
    /\ Spends("tombstone")
    /\ Begins(c, GoOp("tombstone", r, r, goAssets[r], 0, 0))
    /\ UNCHANGED <<goRows, goStore, goJobs>>

\* tombstoneGoModuleVersionLocked.  Keys that changed are read and locked again;
\* a set never changes twice, so the third attempt is never reached.
TombstoneLocked(c) ==
    /\ goOp[c].kind = "tombstone" /\ goAt[c] = "locked"
    /\ LET r == goOp[c].repository IN
         \/ /\ goAssets[r] = {} \/ goTombstone[r] # 0
            /\ GoEnds(c) /\ UNCHANGED goRows
         \/ /\ goAssets[r] # {} /\ goTombstone[r] = 0 /\ goOp[c].keys # goAssets[r]
            /\ goAt' = [goAt EXCEPT ![c] = "waiting"]
            /\ goOp' = [goOp EXCEPT ![c] = GoOp("tombstone", r, r, goAssets[r], 0, 0)]
            /\ UNCHANGED <<goRows, goTodo, goCreated>>
         \/ /\ goAssets[r] # {} /\ goTombstone[r] = 0 /\ goOp[c].keys = goAssets[r]
            /\ goTombstone' = [goTombstone EXCEPT ![r] = goClock + 1]
            /\ goClock' = goClock + 1
            /\ GoEnds(c)
            /\ UNCHANGED <<goAssets, goCollecting, goCollected>>
    /\ UNCHANGED <<goStore, goJobs, goBudget>>

\* RestoreGoModuleVersion finds a tombstone, and reads the keys to lock.
restore(c, r) ==
    /\ goTombstone[r] # 0 /\ Spends("restore")
    /\ Begins(c, GoOp("restore", r, r, goAssets[r], 0, 0))
    /\ UNCHANGED <<goRows, goStore, goJobs>>

\* Mutant: only collected_at makes a version unrestorable.
RestoreFenced(c) ==
    /\ goOp[c].kind = "restore" /\ goAt[c] = "locked"
    /\ LET r == goOp[c].repository IN
         goTombstone' = IF goCollected[r] = {} THEN [goTombstone EXCEPT ![r] = 0]
                                              ELSE goTombstone
    /\ GoEnds(c)
    /\ UNCHANGED <<goAssets, goCollecting, goCollected, goClock, goStore, goJobs, goBudget>>

\* restoreGoModuleVersionLocked: an asset the collector has fenced stays deleted.
RestoreLocked(c) ==
    /\ goOp[c].kind = "restore" /\ goAt[c] = "locked"
    /\ LET r == goOp[c].repository IN
         goTombstone' = IF goCollecting[r] \union goCollected[r] = {}
                          THEN [goTombstone EXCEPT ![r] = 0] ELSE goTombstone
    /\ GoEnds(c)
    /\ UNCHANGED <<goAssets, goCollecting, goCollected, goClock, goStore, goJobs, goBudget>>

-----------------------------------------------------------------------------
(* The collector                                                           *)

\* EnqueueReclaimJobs for one object that ListReclaimableGoModuleObjects finds.
\* Its newest tombstone is beyond the recovery window, and has no job yet.
EnqueueReclaimJob(k, r) ==
    /\ Spends("list")
    /\ r \in TombstonedBy(k) /\ \A s \in TombstonedBy(k) : r <= s
    /\ \E s \in TombstonedBy(k) :
         LET stamp == goTombstone[s] IN
         /\ MatchesTombstone(k, stamp)
         /\ \A i \in 1..Len(goJobs) : ~ /\ goJobs[i].repository = r
                                        /\ goJobs[i].key = k
                                        /\ goJobs[i].stamp = stamp
         /\ goJobs' = Append(goJobs, GoJob(r, k, stamp, "pending", 0))
    /\ UNCHANGED <<goRows, goStore, goCalls>>

\* ClaimLifecycleJobsByKindAndFormat
ClaimReclaimJob(c, i) ==
    /\ goJobs[i].state = "pending" /\ Spends("reclaim")
    /\ Begins(c, GoOp("reclaim", goJobs[i].repository, goJobs[i].repository,
                      {goJobs[i].key}, i, goJobs[i].attempts + 1))
    /\ goJobs' = [goJobs EXCEPT ![i] =
                    GoJob(goJobs[i].repository, goJobs[i].key, goJobs[i].stamp,
                          "running", goJobs[i].attempts + 1)]
    /\ UNCHANGED <<goRows, goStore>>

\* The lease of a running job, which nothing renews, expires and is recovered.
RecoverReclaimJob(i) ==
    /\ goJobs[i].state = "running"
    /\ goJobs' = [goJobs EXCEPT ![i] = Requeued(goJobs[i])]
    /\ UNCHANGED <<goRows, goStore, goCalls, goBudget>>

OwnsJob(c) == /\ goJobs[goOp[c].job].state = "running"
              /\ goJobs[goOp[c].job].attempts = goOp[c].token

\* runReclaimJob for a recovery intent
ReclaimIntent(c, k) ==
    /\ goOp[c].kind = "reclaim" /\ goAt[c] = "locked" /\ k \in goOp[c].keys
    /\ goJobs[goOp[c].job].stamp = 0
    /\ goStore' = IF HasReference(k) THEN goStore ELSE goStore \ {k}
    /\ GoMoves(c, "done")
    /\ UNCHANGED <<goRows, goJobs, goBudget>>

\* runTombstoneReclaimJob fences the references of the generation it was made
\* for: MarkGoModuleObjectCollecting.
FenceObject(c, k) ==
    /\ goOp[c].kind = "reclaim" /\ goAt[c] = "locked" /\ k \in goOp[c].keys
    /\ goJobs[goOp[c].job].stamp # 0
    /\ IF MatchesTombstone(k, goJobs[goOp[c].job].stamp)
         THEN /\ goCollecting' = [r \in GoRepositories |->
                   IF r \in TombstonedBy(k) THEN goCollecting[r] \union {k} ELSE goCollecting[r]]
              /\ GoMoves(c, "fenced")
         ELSE GoMoves(c, "done") /\ UNCHANGED goCollecting
    /\ UNCHANGED <<goAssets, goTombstone, goCollected, goClock, goStore, goJobs, goBudget>>

\* It deletes the object unless a visible version refers to it ...
DeleteObject(c, k) ==
    /\ goAt[c] = "fenced" /\ k \in goOp[c].keys
    /\ goStore' = IF HasVisibleReference(k) THEN goStore ELSE goStore \ {k}
    /\ GoMoves(c, "deleted")
    /\ UNCHANGED <<goRows, goJobs, goBudget>>

\* ... and records that: MarkGoModuleObjectCollected.
MarkCollected(c, k) ==
    /\ goAt[c] = "deleted" /\ k \in goOp[c].keys
    /\ goCollecting' = [r \in GoRepositories |->
         IF r \in TombstonedBy(k) THEN goCollecting[r] \ {k} ELSE goCollecting[r]]
    /\ goCollected' = [r \in GoRepositories |->
         IF r \in TombstonedBy(k) THEN goCollected[r] \union {k} ELSE goCollected[r]]
    /\ GoMoves(c, "done")
    /\ UNCHANGED <<goAssets, goTombstone, goClock, goStore, goJobs, goBudget>>

\* CompleteLifecycleJob
CompleteReclaimJob(c) ==
    /\ goAt[c] = "done"
    /\ LET j == goJobs[goOp[c].job] IN
         goJobs' = IF OwnsJob(c)
                     THEN [goJobs EXCEPT ![goOp[c].job] =
                             GoJob(j.repository, j.key, j.stamp, "completed", j.attempts)]
                     ELSE goJobs
    /\ GoEnds(c)
    /\ UNCHANGED <<goRows, goStore, goBudget>>

\* A step of the job fails: FailLifecycleJob.
FailReclaimJob(c) ==
    /\ goOp[c].kind = "reclaim" /\ goAt[c] \in {"waiting", "locked", "fenced", "deleted"}
    /\ goJobs' = IF OwnsJob(c)
                   THEN [goJobs EXCEPT ![goOp[c].job] = Requeued(goJobs[goOp[c].job])]
                   ELSE goJobs
    /\ GoEnds(c)
    /\ UNCHANGED <<goRows, goStore, goBudget>>

-----------------------------------------------------------------------------

GoNext ==
    \/ \E c \in GoCallers :
         \/ \E r \in GoRepositories :
              \/ \E keys \in SUBSET GoObjects : publish(c, r, keys)
              \/ \E s \in GoRepositories : promote(c, s, r)
              \/ tombstone(c, r)
              \/ restore(c, r)
         \/ LockGoObjects(c) \/ GoCallDies(c)
         \/ CheckTombstone(c) \/ LookupVersion(c) \/ ReloadSource(c)
         \/ PublishGoModule(c) \/ FailPublication(c) \/ CleanupObjects(c)
         \/ TombstoneLocked(c) \/ RestoreLocked(c)
         \/ \E k \in GoObjects :
              \/ FindObject(c, k) \/ PersistIntent(c, k) \/ PutObject(c, k)
              \/ ReclaimIntent(c, k) \/ FenceObject(c, k)
              \/ DeleteObject(c, k) \/ MarkCollected(c, k)
         \/ \E i \in 1..Len(goJobs) : ClaimReclaimJob(c, i)
         \/ CompleteReclaimJob(c) \/ FailReclaimJob(c)
    \/ \E k \in GoObjects, r \in GoRepositories : EnqueueReclaimJob(k, r)
    \/ \E i \in 1..Len(goJobs) : RecoverReclaimJob(i)

GoSpec == GoInit /\ [][GoNext]_goVars

-----------------------------------------------------------------------------

\* Every version that clients can download has all of its bytes, whatever
\* publications, promotions, deletions, restorations and crashed collections of
\* the repositories that share its objects preceded.
VisibleModulesHaveBytes ==
    \A r \in GoRepositories : goTombstone[r] = 0 => goAssets[r] \subseteq goStore

\* No object is forgotten: bytes that no collectable asset refers to have a
\* recovery intent that has not completed.
ModuleBytesTracked ==
    \A k \in goStore : \/ HasReference(k)
                       \/ \E i \in 1..Len(goJobs) : /\ goJobs[i].key = k
                                                    /\ goJobs[i].stamp = 0
                                                    /\ goJobs[i].state # "completed"

\* The objects that a restoration, or a publication or promotion under its
\* locks, may refer readers to: those of a tombstoned version without a fence,
\* and those a publication has found or written
GoRestorable ==
    UNION {goAssets[r] \ (goCollecting[r] \union goCollected[r]) :
             r \in {s \in GoRepositories : goTombstone[s] # 0}}
GoWritten ==
    UNION {goOp[c].keys \ goTodo[c] : c \in {d \in GoCallers : goAt[d] \in {"write", "put"}}}
\* The objects of the versions that clients can download
GoVisible == UNION {goAssets[r] : r \in {s \in GoRepositories : goTombstone[s] = 0}}

GoContent == INSTANCE ContentStore WITH
    stored <- goStore, pledged <- GoRestorable \union GoWritten, visible <- GoVisible

\* Hosted Go modules implement ContentStore, so every version that clients can
\* download has all of its bytes: a version appears, or appears again, only
\* with objects that are stored, and neither a collector nor the cleanup of a
\* failed publication deletes what a visible or restorable version of any
\* repository needs, or what a publication has found and not committed yet.
GoKeepsContent == GoContent!Spec
=============================================================================
