------------------------------- MODULE RawCache -------------------------------
(***************************************************************************)
(* The cache of the Raw proxy: requests that load, fetch and store, the    *)
(* garbage collector, and the locks between them.                          *)
(* internal/protocol/raw/cache.go, handler.go, internal/cache/quota.go,    *)
(* coordinator.go.                                                         *)
(*                                                                         *)
(* The cache is index entries, rows that PostgresCacheControlStore keeps   *)
(* under the keys of an object store, and content-addressed objects in the *)
(* object store itself; no transaction spans two operations.  Three        *)
(* try-locks of PostgreSQL sessions order its users: one for each key, one *)
(* for all publications, one for the admission to a repository's quota.  A *)
(* session may break under its owner, who goes on until a renewal notices. *)
(* Every worker is in a gateway of its own: the mutexes of one process     *)
(* exclude only more.                                                      *)
(***************************************************************************)
EXTENDS Naturals, FiniteSets

CONSTANTS
    CacheWorkers,   \* bound: requests and collections at a time
    CacheKeys,      \* index keys of one repository
    CacheBodies,    \* what upstreams may answer
    BodySize,       \* its size
    CacheLimit,     \* CacheQuotaBytes
    CacheBudgets    \* bounds on calls of a kind, expiries and faults

NoBody == "none"
CacheKinds == {"get", "head", "invalidate", "collect"}
CacheEvents == CacheKinds \union {"expire", "break", "error"}
CacheLocks == {"request", "publication", "quota"}
CacheFaultKinds == CacheLocks \union {"store"}

ASSUME CacheAssumption ==
    /\ CacheKeys # {}
    /\ BodySize \in [CacheBodies -> Nat] /\ CacheLimit \in Nat \ {0}
    /\ CacheBudgets \subseteq [CacheEvents -> Nat]

VARIABLES
    cacheIndex,     \* key -> entry
    cacheObjects,   \* bodies that have an object
    cacheCall,      \* worker -> what it does
    cacheSerial,    \* number of entries written: no two are equal bytes
    cacheFaults,    \* history: locks whose session has broken, failed reads
    cacheBudget

cacheVars == <<cacheIndex, cacheObjects, cacheCall, cacheSerial, cacheFaults, cacheBudget>>

CacheWaiting == {"remove", "store", "negative", "collect", "invalidate"}
CachePublishing == {"removing", "admit", "putting", "indexing", "storing", "marking",
                    "sweeping", "deleting"}
NoEntry == [kind |-> "none", body |-> NoBody, live |-> FALSE, serial |-> 0]
NoCall == [at |-> "idle", kind |-> "get", key |-> CHOOSE k \in CacheKeys : TRUE,
           locked |-> FALSE, seen |-> 0, body |-> NoBody, marked |-> {}, broken |-> {}]

CacheEntry == [kind : {"none", "negative", "body"}, body : CacheBodies \union {NoBody},
               live : BOOLEAN, serial : Nat]
CacheCall == [at : {"idle", "load", "stat", "request", "fetch"} \union CacheWaiting
                   \union CachePublishing,
              kind : CacheKinds, key : CacheKeys, locked : BOOLEAN, seen : Nat,
              body : CacheBodies \union {NoBody}, marked : SUBSET CacheBodies,
              broken : SUBSET CacheLocks]

CacheTypeOK ==
    /\ cacheIndex \in [CacheKeys -> CacheEntry]
    /\ cacheObjects \in SUBSET CacheBodies
    /\ cacheCall \in [CacheWorkers -> CacheCall]
    /\ cacheSerial \in Nat /\ cacheFaults \in SUBSET CacheFaultKinds
    /\ cacheBudget \in [CacheEvents -> Nat]

CacheInit ==
    /\ cacheIndex = [k \in CacheKeys |-> NoEntry]
    /\ cacheObjects = {}
    /\ cacheCall = [w \in CacheWorkers |-> NoCall]
    /\ cacheSerial = 0 /\ cacheFaults = {}
    /\ cacheBudget \in CacheBudgets

-----------------------------------------------------------------------------
(* Calls and locks                                                         *)

CachedBody(k) == cacheIndex[k].kind = "body" /\ cacheIndex[k].live

SpendsCache(event) ==
    /\ cacheBudget[event] > 0
    /\ cacheBudget' = [cacheBudget EXCEPT ![event] = @ - 1]

CacheGoes(w, call) == cacheCall' = [cacheCall EXCEPT ![w] = call]
\* Every exit releases what is held.
CacheEnds(w) == CacheGoes(w, NoCall)

HoldsRequest(w) == cacheCall[w].locked /\ "request" \notin cacheCall[w].broken
HoldsPublication(w) ==
    cacheCall[w].at \in CachePublishing /\ "publication" \notin cacheCall[w].broken
HoldsQuota(w) ==
    cacheCall[w].at \in {"putting", "indexing"} /\ "quota" \notin cacheCall[w].broken

BeginCacheCall(w, kind, k) ==
    /\ cacheCall[w].at = "idle" /\ SpendsCache(kind)
    /\ CacheGoes(w, [NoCall EXCEPT !.kind = kind, !.key = k,
                                   !.at = IF kind \in {"get", "head"} THEN "load" ELSE kind])
    /\ UNCHANGED <<cacheIndex, cacheObjects, cacheSerial, cacheFaults>>

\* A failed write, a client that is gone, a renewal that notices a broken
\* session, or the death of the process.
CacheCallFails(w) ==
    /\ cacheCall[w].at # "idle" /\ CacheEnds(w)
    /\ UNCHANGED <<cacheIndex, cacheObjects, cacheSerial, cacheFaults, cacheBudget>>

SessionBreaks(w, lock) ==
    /\ \/ lock = "request" /\ HoldsRequest(w)
       \/ lock = "publication" /\ HoldsPublication(w)
       \/ lock = "quota" /\ HoldsQuota(w)
    /\ SpendsCache("break")
    /\ cacheCall' = [cacheCall EXCEPT ![w].broken = @ \union {lock}]
    /\ cacheFaults' = cacheFaults \union {lock}
    /\ UNCHANGED <<cacheIndex, cacheObjects, cacheSerial>>

\* The callers of withPublicationLock, before it and in it
CacheEntries == {<<"remove", "removing">>, <<"store", "admit">>, <<"negative", "storing">>,
                 <<"collect", "marking">>, <<"invalidate", "deleting">>}

EntersPublication(w) ==
    /\ \E e \in CacheEntries :
         cacheCall[w].at = e[1] /\ CacheGoes(w, [cacheCall[w] EXCEPT !.at = e[2]])
    /\ UNCHANGED <<cacheIndex, cacheObjects, cacheSerial, cacheFaults, cacheBudget>>

\* Mutant: the collector does not wait for publications.
AcquireUnlessCollecting(w) ==
    /\ cacheCall[w].at # "collect" => \A v \in CacheWorkers : ~HoldsPublication(v)
    /\ EntersPublication(w)

\* withPublicationLock polls until the lock is free.
AcquirePublicationLock(w) ==
    /\ \A v \in CacheWorkers : ~HoldsPublication(v)
    /\ EntersPublication(w)

-----------------------------------------------------------------------------
(* Requests                                                                *)

\* A miss: GET takes the request lock and loads again before it fetches; HEAD
\* asks the upstream at once.
Missed(c) ==
    [c EXCEPT !.at = IF c.kind = "get" /\ ~c.locked THEN "request" ELSE "fetch",
              !.broken = @ \ {"publication"}]

\* Load reads the entry: a negative one is an answer, an expired one is removed.
LoadIndex(w) ==
    LET c == cacheCall[w]
        e == cacheIndex[c.key] IN
    /\ c.at = "load"
    /\ \/ e.kind = "none" /\ CacheGoes(w, Missed(c))
       \/ e.kind # "none" /\ ~e.live /\ CacheGoes(w, [c EXCEPT !.at = "remove", !.seen = e.serial])
       \/ e.kind = "negative" /\ e.live /\ CacheEnds(w)
       \/ /\ e.kind = "body" /\ e.live
          /\ CacheGoes(w, [c EXCEPT !.at = "stat", !.seen = e.serial, !.body = e.body])
    /\ UNCHANGED <<cacheIndex, cacheObjects, cacheSerial, cacheFaults, cacheBudget>>

\* Load serves the entry if its object is there, and removes it otherwise.
StatObject(w) ==
    LET c == cacheCall[w] IN
    /\ c.at = "stat"
    /\ IF c.body \in cacheObjects THEN CacheEnds(w) ELSE CacheGoes(w, [c EXCEPT !.at = "remove"])
    /\ UNCHANGED <<cacheIndex, cacheObjects, cacheSerial, cacheFaults, cacheBudget>>

\* Mutant: the entry is removed whatever it is now.
RemoveAnyIndex(w) ==
    LET c == cacheCall[w] IN
    /\ c.at = "removing"
    /\ cacheIndex' = [cacheIndex EXCEPT ![c.key] = NoEntry]
    /\ CacheGoes(w, Missed(c))
    /\ UNCHANGED <<cacheObjects, cacheSerial, cacheFaults, cacheBudget>>

\* removeIndex removes the entry that Load has read, and no other.
RemoveIndex(w) ==
    LET c == cacheCall[w] IN
    /\ c.at = "removing"
    /\ cacheIndex' = IF cacheIndex[c.key].serial = c.seen
                       THEN [cacheIndex EXCEPT ![c.key] = NoEntry] ELSE cacheIndex
    /\ CacheGoes(w, Missed(c))
    /\ UNCHANGED <<cacheObjects, cacheSerial, cacheFaults, cacheBudget>>

\* Mutant: the miss before the lock is still believed.
FetchOnMiss(w) ==
    LET c == cacheCall[w] IN
    /\ c.at = "request"
    /\ \A v \in CacheWorkers : ~(HoldsRequest(v) /\ cacheCall[v].key = c.key)
    /\ CacheGoes(w, [c EXCEPT !.at = "fetch", !.locked = TRUE])
    /\ UNCHANGED <<cacheIndex, cacheObjects, cacheSerial, cacheFaults, cacheBudget>>

AcquireRequestLock(w) ==
    LET c == cacheCall[w] IN
    /\ c.at = "request"
    /\ \A v \in CacheWorkers : ~(HoldsRequest(v) /\ cacheCall[v].key = c.key)
    /\ CacheGoes(w, [c EXCEPT !.at = "load", !.locked = TRUE])
    /\ UNCHANGED <<cacheIndex, cacheObjects, cacheSerial, cacheFaults, cacheBudget>>

\* The upstream answers, or does not know the path.
FetchRaw(w) ==
    LET c == cacheCall[w] IN
    /\ c.at = "fetch"
    /\ \/ CacheGoes(w, [c EXCEPT !.at = "negative"])
       \/ /\ c.kind = "get"
          /\ \E b \in CacheBodies : CacheGoes(w, [c EXCEPT !.at = "store", !.body = b])
       \/ c.kind = "head" /\ CacheEnds(w)
    /\ UNCHANGED <<cacheIndex, cacheObjects, cacheSerial, cacheFaults, cacheBudget>>

\* What the live entries take, byte by byte
CacheBytes(keys) ==
    UNION {{k} \X (1 .. BodySize[cacheIndex[k].body]) : k \in {j \in keys : CachedBody(j)}}
CacheUsed(keys) == Cardinality(CacheBytes(keys))

\* admit: a response that does not fit is served, not stored.  usedLocked adds
\* up the other entries that it can read.
AdmitReading(w, keys) ==
    LET c == cacheCall[w] IN
    /\ c.at = "admit"
    /\ IF CacheUsed(keys \ {c.key}) + BodySize[c.body] > CacheLimit
         THEN CacheEnds(w) ELSE CacheGoes(w, [c EXCEPT !.at = "putting"])
    /\ UNCHANGED <<cacheIndex, cacheObjects, cacheSerial>>

\* Mutant: the publication lock is taken for enough.
AdmitUnlocked(w) ==
    /\ AdmitReading(w, CacheKeys)
    /\ UNCHANGED <<cacheFaults, cacheBudget>>

\* withAdmissionLock polls until the quota lock is free.
Admit(w) ==
    /\ \A v \in CacheWorkers : ~HoldsQuota(v)
    /\ AdmitReading(w, CacheKeys)
    /\ UNCHANGED <<cacheFaults, cacheBudget>>

\* Store writes the object ...
PutCachedObject(w) ==
    LET c == cacheCall[w] IN
    /\ c.at = "putting"
    /\ cacheObjects' = cacheObjects \union {c.body}
    /\ CacheGoes(w, [c EXCEPT !.at = "indexing"])
    /\ UNCHANGED <<cacheIndex, cacheSerial, cacheFaults, cacheBudget>>

\* ... and then the entry.
PutsEntry(w, kind, body) ==
    /\ cacheSerial' = cacheSerial + 1
    /\ cacheIndex' = [cacheIndex EXCEPT ![cacheCall[w].key] =
         [kind |-> kind, body |-> body, live |-> TRUE, serial |-> cacheSerial']]
    /\ CacheEnds(w)
    /\ UNCHANGED <<cacheObjects, cacheFaults, cacheBudget>>

PutIndex(w) == cacheCall[w].at = "indexing" /\ PutsEntry(w, "body", cacheCall[w].body)
StoreNegative(w) == cacheCall[w].at = "storing" /\ PutsEntry(w, "negative", NoBody)

-----------------------------------------------------------------------------
(* Maintenance                                                             *)

Invalidate(w) ==
    /\ cacheCall[w].at = "deleting"
    /\ cacheIndex' = [cacheIndex EXCEPT ![cacheCall[w].key] = NoEntry]
    /\ CacheEnds(w)
    /\ UNCHANGED <<cacheObjects, cacheSerial, cacheFaults, cacheBudget>>

\* CollectGarbage removes the expired entries and notes what the others refer
\* to, of those that it can read ...
MarkReading(w, keys) ==
    /\ cacheCall[w].at = "marking"
    /\ cacheIndex' = [k \in CacheKeys |->
                        IF k \in keys /\ ~cacheIndex[k].live THEN NoEntry ELSE cacheIndex[k]]
    /\ CacheGoes(w, [cacheCall[w] EXCEPT !.at = "sweeping",
         !.marked = {cacheIndex[k].body : k \in {x \in keys : CachedBody(x)}}])
    /\ UNCHANGED <<cacheObjects, cacheSerial>>

CollectMark(w) == MarkReading(w, CacheKeys) /\ UNCHANGED <<cacheFaults, cacheBudget>>

\* ... and deletes the other objects; deletions may fail.
CollectSweep(w) ==
    /\ cacheCall[w].at = "sweeping"
    /\ \E gone \in SUBSET (cacheObjects \ cacheCall[w].marked) : cacheObjects' = cacheObjects \ gone
    /\ CacheEnds(w)
    /\ UNCHANGED <<cacheIndex, cacheSerial, cacheFaults, cacheBudget>>

\* An operation on the store fails and its caller goes on: an entry that cannot
\* be read is a miss to Load and nothing to the quota and to the collector, an
\* object that cannot be read is missing, an entry that cannot be removed stays:
\* removeIndex drops the error, of Acquire as well as of the store.
StoreErrs(w) ==
    LET c == cacheCall[w] IN
    /\ SpendsCache("error") /\ cacheFaults' = cacheFaults \union {"store"}
    /\ \/ /\ c.at \in {"load", "remove", "removing"} /\ CacheGoes(w, Missed(c))
          /\ UNCHANGED <<cacheIndex, cacheObjects, cacheSerial>>
       \/ /\ c.at = "stat" /\ CacheGoes(w, [c EXCEPT !.at = "remove"])
          /\ UNCHANGED <<cacheIndex, cacheObjects, cacheSerial>>
       \/ \E k \in CacheKeys :
            \/ MarkReading(w, CacheKeys \ {k})
            \/ (\A v \in CacheWorkers : ~HoldsQuota(v)) /\ AdmitReading(w, CacheKeys \ {k})

\* ExpiresAt passes.
EntryExpires(k) ==
    /\ cacheIndex[k].live /\ SpendsCache("expire")
    /\ cacheIndex' = [cacheIndex EXCEPT ![k].live = FALSE]
    /\ UNCHANGED <<cacheObjects, cacheCall, cacheSerial, cacheFaults>>

-----------------------------------------------------------------------------

CacheNext ==
    \/ \E w \in CacheWorkers :
         \/ \E kind \in CacheKinds, k \in CacheKeys : BeginCacheCall(w, kind, k)
         \/ CacheCallFails(w) \/ StoreErrs(w)
         \/ \E lock \in CacheLocks : SessionBreaks(w, lock)
         \/ AcquirePublicationLock(w) \/ AcquireRequestLock(w)
         \/ LoadIndex(w) \/ StatObject(w) \/ RemoveIndex(w)
         \/ FetchRaw(w) \/ Admit(w) \/ PutCachedObject(w)
         \/ PutIndex(w) \/ StoreNegative(w)
         \/ Invalidate(w) \/ CollectMark(w) \/ CollectSweep(w)
    \/ \E k \in CacheKeys : EntryExpires(k)

CacheSpec == CacheInit /\ [][CacheNext]_cacheVars

-----------------------------------------------------------------------------

\* The live entries of a repository never exceed its quota: admission has a lock
\* of its own, so that either it or the publication lock may break under a
\* request.  An entry that could not be read is not counted.
CacheWithinQuota ==
    "store" \notin cacheFaults /\ ~({"publication", "quota"} \subseteq cacheFaults)
      => CacheUsed(CacheKeys) <= CacheLimit

\* The collector never deletes the object of a live entry, also of one that is
\* being written, and an entry never appears before its object, unless the
\* publication lock breaks or an entry cannot be read.
CachedEntriesReadable ==
    cacheFaults \intersect {"publication", "store"} = {}
      => \A k \in CacheKeys : CachedBody(k) => cacheIndex[k].body \in cacheObjects

\* The objects of the live entries, and of those that are about to be written;
\* none once the publication lock has broken or an entry could not be read
CacheSound == cacheFaults \intersect {"publication", "store"} = {}
CachePledged ==
    {cacheCall[w].body : w \in {v \in CacheWorkers : CacheSound /\ cacheCall[v].at = "indexing"}}
CacheVisible == {cacheIndex[k].body : k \in {j \in CacheKeys : CacheSound /\ CachedBody(j)}}

CacheContent == INSTANCE ContentStore WITH
    stored <- cacheObjects, pledged <- CachePledged, visible <- CacheVisible

\* The cache implements ContentStore until the publication lock breaks or an
\* entry cannot be read: an entry never appears before its object, and the
\* collector never deletes the object of a live entry, also of one that is
\* being written.
CacheKeepsContent == CacheContent!Spec

\* Concurrent requests for a path fetch it once: nobody asks the upstream for a
\* body that another request has cached by then, unless a request lock breaks
\* or an entry cannot be read or removed; the other locks do not matter.
FetchedOnce ==
    cacheFaults \intersect {"request", "store"} = {}
      => \A w \in CacheWorkers :
           /\ cacheCall[w].kind = "get"
           /\ cacheCall[w].at \in {"fetch", "store", "admit", "putting", "indexing"}
           => ~CachedBody(cacheCall[w].key)

\* A request that found an expired entry never removes the entry that another
\* request has stored since: a live body is removed only by an invalidation of
\* its key, while no publication lock breaks and the store answers.  It may be
\* replaced by a later answer, the 404 of a HEAD included.
FreshEntriesSurvive ==
    [][\A k \in CacheKeys :
         /\ cacheFaults \intersect {"publication", "store"} = {}
         /\ CachedBody(k) /\ cacheIndex'[k].kind = "none"
         => \E w \in CacheWorkers :
              cacheCall[w].at = "deleting" /\ cacheCall[w].key = k]_cacheVars
=============================================================================
