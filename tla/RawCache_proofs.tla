--------------------------- MODULE RawCache_proofs ---------------------------
(***************************************************************************)
(* What the Raw proxy's cache promises, for any number of requests,        *)
(* collectors and keys.  The inductive invariant says who excludes whom    *)
(* while the locks hold, and what a call in flight may rely on.  The quota *)
(* has an invariant of its own on top of it: what one call at a time has   *)
(* been admitted to store still fits.                                      *)
(***************************************************************************)
EXTENDS RawCache, FiniteSetTheorems, TLAPS

Fetching == {"fetch", "store", "admit", "putting", "indexing"}
Removing == {"remove", "removing"}
RequestSound == cacheFaults \intersect {"request", "store"} = {}

\* Entries are numbered as they are written, and a positive one has a body.
EntriesIssued ==
    \A k \in CacheKeys :
        /\ cacheIndex[k].serial <= cacheSerial
        /\ cacheIndex[k].kind = "body" => cacheIndex[k].body \in CacheBodies

\* While no publication lock has broken one caller at a time publishes; while
\* no request lock has, one request at a time works on a key.
LocksExclude ==
    /\ \A w \in CacheWorkers : cacheCall[w].broken \subseteq cacheFaults
    /\ "publication" \notin cacheFaults
         => \A v, w \in CacheWorkers :
              cacheCall[v].at \in CachePublishing /\ cacheCall[w].at \in CachePublishing => v = w
    /\ "request" \notin cacheFaults
         => \A v, w \in CacheWorkers :
              /\ cacheCall[v].locked /\ cacheCall[w].locked
              /\ cacheCall[v].key = cacheCall[w].key
              => v = w

\* What a call in flight relies on: a GET fetches under its request lock and
\* only what is not cached; what is about to be indexed is stored; the marks
\* of a collector cover the live entries; and a request about to remove an
\* entry has read that one, and it was of no use.
Relies(c) ==
    /\ c.at \in Fetching /\ c.kind = "get" => c.locked
    /\ c.at \in Fetching \ {"fetch"} => c.kind = "get" /\ c.body \in CacheBodies
    /\ c.at \in Removing \union {"stat"} => c.seen <= cacheSerial
    /\ c.at = "stat" /\ cacheIndex[c.key].serial = c.seen /\ cacheIndex[c.key].kind = "body"
         => cacheIndex[c.key].body = c.body
    /\ CacheSound /\ c.at = "indexing" => c.body \in cacheObjects
    /\ CacheSound /\ c.at = "sweeping"
         => \A k \in CacheKeys : CachedBody(k) => cacheIndex[k].body \in c.marked
    /\ CacheSound /\ c.at \in Removing /\ cacheIndex[c.key].serial = c.seen => ~CachedBody(c.key)
    /\ RequestSound /\ c.at \in Fetching /\ c.kind = "get" => ~CachedBody(c.key)
    /\ RequestSound /\ c.locked /\ c.at \in Removing \union {"stat"} /\ CachedBody(c.key)
         => cacheIndex[c.key].serial = c.seen

CInv ==
    /\ CacheTypeOK /\ EntriesIssued /\ LocksExclude /\ CachedEntriesReadable
    /\ \A w \in CacheWorkers : Relies(cacheCall[w])

-----------------------------------------------------------------------------
(* Calls                                                                   *)

\* The start of a call, and what it is after its end, is a call.
LEMMA NoCallTyped == NoCall \in CacheCall
<1>1. (CHOOSE k \in CacheKeys : TRUE) \in CacheKeys
  BY Zenon, CacheAssumption
<1> QED
  BY <1>1 DEF NoCall, CacheCall, CacheKinds, CacheLocks

\* An entry that is removed is an entry.
LEMMA NoEntryTyped == NoEntry \in CacheEntry
  BY DEF NoEntry, CacheEntry

\* A call that moves on changes nothing for the others.
LEMMA CallGoes ==
    ASSUME CacheTypeOK, NEW w \in CacheWorkers, NEW n \in CacheCall, CacheGoes(w, n)
    PROVE  /\ cacheCall' \in [CacheWorkers -> CacheCall]
           /\ cacheCall'[w] = n
           /\ \A v \in CacheWorkers : v # w => cacheCall'[v] = cacheCall[v]
  BY Zenon DEF CacheTypeOK, CacheGoes

\* An index that fades: entries go or expire, and none is written.
IndexFades ==
    \A k \in CacheKeys :
        \/ cacheIndex'[k] = NoEntry
        \/ /\ cacheIndex'[k].kind = cacheIndex[k].kind
           /\ cacheIndex'[k].body = cacheIndex[k].body
           /\ cacheIndex'[k].serial = cacheIndex[k].serial
           /\ cacheIndex'[k].live => cacheIndex[k].live

\* Entries that stay as they are fade.
LEMMA SameFades ==
    ASSUME cacheIndex' = cacheIndex
    PROVE  IndexFades
  BY Zenon DEF IndexFades

\* What is cached after the index has faded was cached before, by the same
\* entry.
LEMMA FadedCached ==
    ASSUME IndexFades, NEW k \in CacheKeys, CachedBody(k)'
    PROVE  /\ CachedBody(k)
           /\ cacheIndex'[k].body = cacheIndex[k].body
           /\ cacheIndex'[k].serial = cacheIndex[k].serial
<1>1. cacheIndex'[k].kind = "body" /\ cacheIndex'[k].live
  BY Zenon DEF CachedBody
<1>2. cacheIndex'[k] # NoEntry
  BY <1>1 DEF NoEntry
<1> QED
  BY Zenon, <1>1, <1>2 DEF IndexFades, CachedBody

\* A call in flight may go on to rely on what it relies on when the index
\* fades, objects come and faults add up: the steps of everybody else but a
\* store or a sweep.
LEMMA FadingKeeps ==
    ASSUME NEW c \in CacheCall, Relies(c), IndexFades,
           cacheFaults \subseteq cacheFaults', cacheObjects \subseteq cacheObjects',
           cacheSerial' = cacheSerial
    PROVE  Relies(c)'
<1> c.key \in CacheKeys
  BY Zenon DEF CacheCall
<1>1. CacheSound' => CacheSound
  BY Zenon DEF CacheSound
<1>2. RequestSound' => RequestSound
  BY Zenon DEF RequestSound
<1>3. c.at \in Removing \union {"stat"} => c.seen <= cacheSerial'
  BY Zenon DEF Relies
<1>4. c.at = "stat" /\ cacheIndex'[c.key].serial = c.seen /\ cacheIndex'[c.key].kind = "body"
        => cacheIndex'[c.key].body = c.body
  <2>1. NoEntry.kind # "body"
    BY DEF NoEntry
  <2> QED
    BY Zenon, <2>1 DEF Relies, IndexFades
<1>5. CacheSound' /\ c.at = "indexing" => c.body \in cacheObjects'
  BY Zenon, <1>1 DEF Relies
<1>6. CacheSound' /\ c.at = "sweeping"
        => \A k \in CacheKeys : CachedBody(k)' => cacheIndex'[k].body \in c.marked
  BY Zenon, <1>1, FadedCached DEF Relies
<1>7. CacheSound' /\ c.at \in Removing /\ cacheIndex'[c.key].serial = c.seen => ~CachedBody(c.key)'
  BY Zenon, <1>1, FadedCached DEF Relies
<1>8. RequestSound' /\ c.at \in Fetching /\ c.kind = "get" => ~CachedBody(c.key)'
  BY Zenon, <1>2, FadedCached DEF Relies
<1>9. RequestSound' /\ c.locked /\ c.at \in Removing \union {"stat"} /\ CachedBody(c.key)'
        => cacheIndex'[c.key].serial = c.seen
  BY Zenon, <1>2, FadedCached DEF Relies
<1>10. /\ c.at \in Fetching /\ c.kind = "get" => c.locked
       /\ c.at \in Fetching \ {"fetch"} => c.kind = "get" /\ c.body \in CacheBodies
  BY Zenon DEF Relies
<1> QED
  BY Zenon, <1>3, <1>4, <1>5, <1>6, <1>7, <1>8, <1>9, <1>10 DEF Relies

\* A worker's step keeps the invariant when the shared state does, the locks
\* the worker holds afterwards are its own, and every call may go on.
LEMMA StepKeeps ==
    ASSUME CInv, NEW w \in CacheWorkers, NEW n \in CacheCall, CacheGoes(w, n),
           CacheTypeOK', EntriesIssued', CachedEntriesReadable',
           cacheFaults \subseteq cacheFaults', n.broken \subseteq cacheFaults',
           "publication" \notin cacheFaults' /\ n.at \in CachePublishing
             => \A v \in CacheWorkers : v # w => cacheCall[v].at \notin CachePublishing,
           "request" \notin cacheFaults' /\ n.locked
             => \A v \in CacheWorkers :
                  v # w => ~(cacheCall[v].locked /\ cacheCall[v].key = n.key),
           Relies(n)', \A v \in CacheWorkers : v # w => Relies(cacheCall[v])'
    PROVE  CInv'
<1>1. /\ cacheCall'[w] = n
      /\ \A v \in CacheWorkers : v # w => cacheCall'[v] = cacheCall[v]
  BY Zenon, CallGoes DEF CInv
<1>2. \A v \in CacheWorkers : cacheCall'[v].broken \subseteq cacheFaults'
  BY Zenon, <1>1 DEF CInv, LocksExclude
<1>3. ASSUME "publication" \notin cacheFaults', NEW v \in CacheWorkers, NEW u \in CacheWorkers,
             cacheCall'[v].at \in CachePublishing, cacheCall'[u].at \in CachePublishing
      PROVE  v = u
  <2>1. "publication" \notin cacheFaults
    BY Zenon, <1>3
  <2> QED
    BY Zenon, <1>1, <1>3, <2>1 DEF CInv, LocksExclude
<1>4. ASSUME "request" \notin cacheFaults', NEW v \in CacheWorkers, NEW u \in CacheWorkers,
             cacheCall'[v].locked, cacheCall'[u].locked, cacheCall'[v].key = cacheCall'[u].key
      PROVE  v = u
  <2>1. "request" \notin cacheFaults
    BY Zenon, <1>4
  <2> QED
    BY Zenon, <1>1, <1>4, <2>1 DEF CInv, LocksExclude
<1>5. LocksExclude'
  BY Zenon, <1>2, <1>3, <1>4 DEF LocksExclude
<1>6. Relies(cacheCall[w])'
  BY Zenon, <1>1 DEF Relies
<1> QED
  BY Zenon, <1>5, <1>6 DEF CInv

CachePlaces == {"idle", "load", "stat", "request", "fetch"} \union CacheWaiting
               \union CachePublishing

\* The fields of a call
LEMMA CallFields ==
    ASSUME NEW c \in CacheCall
    PROVE  /\ c.at \in CachePlaces /\ c.kind \in CacheKinds /\ c.key \in CacheKeys
           /\ c.locked \in BOOLEAN /\ c.seen \in Nat /\ c.body \in CacheBodies \union {NoBody}
           /\ c.marked \in SUBSET CacheBodies /\ c.broken \in SUBSET CacheLocks
  BY Zenon DEF CacheCall, CachePlaces

\* Where a call that missed goes, and that it leaves the publication lock
LEMMA MissedCall ==
    ASSUME NEW c \in CacheCall, NEW n, n = Missed(c)
    PROVE  /\ n \in CacheCall /\ n.at \in {"request", "fetch"} /\ n.kind = c.kind
           /\ n.key = c.key /\ n.locked = c.locked /\ n.broken \subseteq c.broken
           /\ n.at = "fetch" /\ n.kind = "get" => n.locked
<1>1. PICK at : at = IF c.kind = "get" /\ ~c.locked THEN "request" ELSE "fetch"
  OBVIOUS
<1>2. /\ at \in {"request", "fetch"} /\ at \in CachePlaces
      /\ at = "fetch" /\ c.kind = "get" => c.locked
  <2>1. CASE c.kind = "get" /\ ~c.locked
    BY <1>1, <2>1 DEF CachePlaces
  <2>2. CASE ~(c.kind = "get" /\ ~c.locked)
    <3>1. at = "fetch"
      BY Zenon, <1>1, <2>2
    <3> QED
      BY <3>1, <2>2, Zenon DEF CachePlaces
  <2> QED
    BY <2>1, <2>2
<1>3. n = [c EXCEPT !.at = at, !.broken = c.broken \ {"publication"}]
  BY Zenon, <1>1 DEF Missed
<1>4. PICK b : b = c.broken \ {"publication"}
  BY Zenon
<1>5. b \subseteq c.broken /\ b \in SUBSET CacheLocks
  BY Zenon, <1>4, CallFields
<1>6. n \in CacheCall /\ n.at = at /\ n.kind = c.kind /\ n.key = c.key /\ n.locked = c.locked
      /\ n.broken = b
  BY Zenon, <1>2, <1>3, <1>4, <1>5 DEF CacheCall, CachePlaces
<1> QED
  BY Zenon, <1>2, <1>5, <1>6

\* The parts of the type invariant
LEMMA CacheTyped ==
    ASSUME CacheTypeOK
    PROVE  /\ cacheIndex \in [CacheKeys -> CacheEntry] /\ cacheObjects \in SUBSET CacheBodies
           /\ cacheCall \in [CacheWorkers -> CacheCall] /\ cacheSerial \in Nat
           /\ cacheFaults \in SUBSET CacheFaultKinds /\ cacheBudget \in [CacheEvents -> Nat]
           /\ \A w \in CacheWorkers : cacheCall[w] \in CacheCall
  BY Zenon DEF CacheTypeOK

\* Spending one of a budget leaves a budget.
LEMMA CacheSpendsTyped ==
    ASSUME CacheTypeOK, NEW event \in CacheEvents, SpendsCache(event)
    PROVE  cacheBudget' \in [CacheEvents -> Nat]
<1>1. cacheBudget \in [CacheEvents -> Nat]
  BY Zenon, CacheTyped
<1> QED
  BY <1>1 DEF SpendsCache

\* What a step that fades the index leaves true of the shared state
LEMMA FadingShared ==
    ASSUME CInv, IndexFades, cacheIndex' \in [CacheKeys -> CacheEntry], cacheSerial' = cacheSerial,
           cacheObjects \subseteq cacheObjects', cacheFaults \subseteq cacheFaults'
    PROVE  EntriesIssued' /\ CachedEntriesReadable'
<1>1. ASSUME NEW k \in CacheKeys
      PROVE  /\ cacheIndex'[k].serial <= cacheSerial'
             /\ cacheIndex'[k].kind = "body" => cacheIndex'[k].body \in CacheBodies
  <2>1. CASE cacheIndex'[k] = NoEntry
    <3>1. NoEntry.serial = 0 /\ NoEntry.kind # "body"
      BY DEF NoEntry
    <3>2. cacheSerial \in Nat
      BY Zenon, CacheTyped DEF CInv
    <3> QED
      BY <2>1, <3>1, <3>2
  <2>2. CASE cacheIndex'[k] # NoEntry
    BY Zenon, <2>2 DEF IndexFades, CInv, EntriesIssued
  <2> QED
    BY <2>1, <2>2
<1>2. EntriesIssued'
  BY Zenon, <1>1 DEF EntriesIssued
<1>3. ASSUME CacheSound', NEW k \in CacheKeys, CachedBody(k)'
      PROVE  cacheIndex'[k].body \in cacheObjects'
  <2>1. CacheSound
    BY Zenon, <1>3 DEF CacheSound
  <2> QED
    BY Zenon, <1>3, <2>1, FadedCached DEF CInv, CachedEntriesReadable, CacheSound
<1> QED
  BY Zenon, <1>2, <1>3 DEF CachedEntriesReadable, CacheSound

\* A worker's step that writes no entry and deletes no object keeps the
\* invariant, if it takes a lock only when nobody has it and may rely on what it
\* relies on afterwards.
LEMMA MovesKeep ==
    ASSUME CInv, NEW w \in CacheWorkers, NEW n \in CacheCall, CacheGoes(w, n),
           IndexFades, cacheIndex' \in [CacheKeys -> CacheEntry], cacheSerial' = cacheSerial,
           cacheObjects \subseteq cacheObjects', cacheObjects' \in SUBSET CacheBodies,
           cacheFaults \subseteq cacheFaults', cacheFaults' \in SUBSET CacheFaultKinds,
           cacheBudget' \in [CacheEvents -> Nat], n.broken \subseteq cacheFaults',
           n.at \in CachePublishing
             => cacheCall[w].at \in CachePublishing \/ \A v \in CacheWorkers : ~HoldsPublication(v),
           n.locked
             => \/ cacheCall[w].locked /\ cacheCall[w].key = n.key
                \/ \A v \in CacheWorkers : ~(HoldsRequest(v) /\ cacheCall[v].key = n.key),
           Relies(n)'
    PROVE  CInv'
<1> CacheTypeOK /\ LocksExclude
  BY Zenon DEF CInv
<1>1. CacheTypeOK'
  <2>1. cacheSerial' \in Nat
    BY Zenon, CacheTyped
  <2> QED
    BY Zenon, <2>1, CallGoes DEF CacheTypeOK
<1>2. EntriesIssued' /\ CachedEntriesReadable'
  BY Zenon, FadingShared
<1>3. ASSUME "publication" \notin cacheFaults', n.at \in CachePublishing,
             NEW v \in CacheWorkers, v # w
      PROVE  cacheCall[v].at \notin CachePublishing
  <2>1. "publication" \notin cacheFaults /\ "publication" \notin cacheCall[v].broken
    BY Zenon, <1>3 DEF LocksExclude
  <2> QED
    BY Zenon, <1>3, <2>1 DEF LocksExclude, HoldsPublication
<1>4. ASSUME "request" \notin cacheFaults', n.locked, NEW v \in CacheWorkers, v # w
      PROVE  ~(cacheCall[v].locked /\ cacheCall[v].key = n.key)
  <2>1. "request" \notin cacheFaults /\ "request" \notin cacheCall[v].broken
    BY Zenon, <1>4 DEF LocksExclude
  <2> QED
    BY Zenon, <1>4, <2>1 DEF LocksExclude, HoldsRequest
<1>5. ASSUME NEW v \in CacheWorkers, v # w
      PROVE  Relies(cacheCall[v])'
  <2>1. PICK c \in CacheCall : c = cacheCall[v]
    BY Zenon, CacheTyped
  <2>2. Relies(c)
    BY Zenon, <2>1 DEF CInv
  <2>3. Relies(c)'
    BY Zenon, <2>2, FadingKeeps
  <2>4. cacheCall'[v] = c
    BY Zenon, <1>5, <2>1, CallGoes
  <2> QED
    BY ZenonT(40), <2>3, <2>4 DEF Relies
<1> QED
  BY Zenon, <1>1, <1>2, <1>3, <1>4, <1>5, StepKeeps

\* A call that is waiting for something relies on nothing.
LEMMA Careless ==
    ASSUME NEW n \in CacheCall,
           n.at \notin Fetching \union Removing \union {"stat", "sweeping"}
    PROVE  Relies(n)'
<1>1. /\ n.at \notin Fetching /\ n.at \notin Removing \union {"stat"}
      /\ n.at # "stat" /\ n.at # "sweeping" /\ n.at \notin Removing
  BY Zenon
<1>2. n.at # "indexing"
  BY <1>1 DEF Fetching
<1> QED
  BY Zenon, <1>1, <1>2 DEF Relies

-----------------------------------------------------------------------------
(* Steps that only move a call                                             *)

\* MovesKeep where the store does not change
LEMMA QuietKeeps ==
    ASSUME CInv, NEW w \in CacheWorkers, NEW n \in CacheCall, CacheGoes(w, n),
           UNCHANGED <<cacheIndex, cacheObjects, cacheSerial>>,
           cacheFaults \subseteq cacheFaults', cacheFaults' \in SUBSET CacheFaultKinds,
           cacheBudget' \in [CacheEvents -> Nat], n.broken \subseteq cacheFaults',
           n.at \in CachePublishing
             => cacheCall[w].at \in CachePublishing \/ \A v \in CacheWorkers : ~HoldsPublication(v),
           n.locked
             => \/ cacheCall[w].locked /\ cacheCall[w].key = n.key
                \/ \A v \in CacheWorkers : ~(HoldsRequest(v) /\ cacheCall[v].key = n.key),
           Relies(n)'
    PROVE  CInv'
<1>1. CacheTypeOK
  BY Zenon DEF CInv
<1>2. /\ cacheIndex' = cacheIndex /\ cacheObjects' = cacheObjects /\ cacheSerial' = cacheSerial
  BY Zenon
<1>3. /\ cacheIndex' \in [CacheKeys -> CacheEntry] /\ cacheObjects' \in SUBSET CacheBodies
      /\ cacheObjects \subseteq cacheObjects'
  BY Zenon, <1>1, <1>2, CacheTyped
<1>4. IndexFades
  BY Zenon, <1>2, SameFades
<1> QED
  BY Zenon, <1>2, <1>3, <1>4, MovesKeep

\* QuietKeeps for a call that takes no lock
LEMMA PlainKeeps ==
    ASSUME CInv, NEW w \in CacheWorkers, NEW n \in CacheCall, CacheGoes(w, n),
           UNCHANGED <<cacheIndex, cacheObjects, cacheSerial, cacheFaults, cacheBudget>>,
           n.broken \subseteq cacheCall[w].broken,
           n.at \in CachePublishing => cacheCall[w].at \in CachePublishing,
           n.locked => cacheCall[w].locked /\ cacheCall[w].key = n.key,
           Relies(n)'
    PROVE  CInv'
<1>1. CacheTypeOK /\ LocksExclude
  BY Zenon DEF CInv
<1>2. /\ cacheFaults' = cacheFaults /\ cacheBudget' = cacheBudget
      /\ UNCHANGED <<cacheIndex, cacheObjects, cacheSerial>>
  BY Zenon
<1>3. /\ cacheFaults' \in SUBSET CacheFaultKinds /\ cacheBudget' \in [CacheEvents -> Nat]
      /\ cacheFaults \subseteq cacheFaults'
  BY Zenon, <1>1, <1>2, CacheTyped
<1>4. n.broken \subseteq cacheFaults'
  BY Zenon, <1>1, <1>2 DEF LocksExclude
<1> QED
  BY Zenon, <1>2, <1>3, <1>4, QuietKeeps

\* A call that has ended holds nothing and relies on nothing.
LEMMA CallEnded ==
    /\ NoCall \in CacheCall /\ NoCall.at = "idle" /\ NoCall.locked = FALSE /\ NoCall.broken = {}
    /\ NoCall.at \notin CachePublishing
    /\ Relies(NoCall)'
<1>1. NoCall.at = "idle" /\ NoCall.locked = FALSE /\ NoCall.broken = {}
  BY DEF NoCall
<1>2. NoCall.at \notin CachePublishing
  BY <1>1 DEF CachePublishing
<1>3. NoCall.at \notin Fetching \union Removing \union {"stat", "sweeping"}
  BY <1>1 DEF Fetching, Removing
<1>4. PICK n : n = NoCall
  OBVIOUS
<1>5. n \in CacheCall /\ n.at \notin Fetching \union Removing \union {"stat", "sweeping"}
  BY Zenon, <1>3, <1>4, NoCallTyped
<1>6. Relies(n)'
  BY Zenon, <1>5, Careless
<1>7. Relies(NoCall)'
  BY Zenon, <1>4, <1>6
<1> QED
  BY Zenon, <1>1, <1>2, <1>7, NoCallTyped

\* A call that ends without a change keeps the invariant.
LEMMA EndsKeeps ==
    ASSUME CInv, NEW w \in CacheWorkers, CacheEnds(w),
           UNCHANGED <<cacheIndex, cacheObjects, cacheSerial, cacheFaults, cacheBudget>>
    PROVE  CInv'
<1>1. PICK n : n = NoCall
  OBVIOUS
<1>2. /\ n \in CacheCall /\ CacheGoes(w, n) /\ n.broken \subseteq cacheCall[w].broken
      /\ ~n.locked /\ n.at \notin CachePublishing /\ Relies(n)'
  BY Zenon, <1>1, CallEnded DEF CacheEnds
<1> QED
  BY Zenon, <1>2, PlainKeeps

\* BeginCacheCall keeps the invariant.
LEMMA BeginKeeps ==
    ASSUME CInv, NEW w \in CacheWorkers, NEW kind \in CacheKinds, NEW k \in CacheKeys,
           BeginCacheCall(w, kind, k)
    PROVE  CInv'
<1>1. PICK at : at = IF kind \in {"get", "head"} THEN "load" ELSE kind
  OBVIOUS
<1>2. at \in {"load", "invalidate", "collect"}
  BY <1>1 DEF CacheKinds
<1>3. /\ at \in CachePlaces /\ at \notin CachePublishing
      /\ at \notin Fetching \union Removing \union {"stat", "sweeping"}
  BY <1>2 DEF CachePlaces, CacheWaiting, CachePublishing, Fetching, Removing
<1>4. PICK n : n = [NoCall EXCEPT !.kind = kind, !.key = k, !.at = at]
  OBVIOUS
<1>5. NoCall \in CacheCall /\ NoCall.locked = FALSE /\ NoCall.broken = {}
  BY Zenon, CallEnded
<1>6. n \in CacheCall /\ n.at = at /\ n.locked = FALSE /\ n.broken = {}
  BY Zenon, <1>3, <1>4, <1>5 DEF CacheCall, CachePlaces
<1>7. CacheGoes(w, n) /\ SpendsCache(kind)
      /\ UNCHANGED <<cacheIndex, cacheObjects, cacheSerial, cacheFaults>>
  BY Zenon, <1>1, <1>4 DEF BeginCacheCall
<1>8. cacheBudget' \in [CacheEvents -> Nat]
  BY Zenon, <1>7, CacheSpendsTyped DEF CInv, CacheEvents
<1>9. /\ cacheFaults \subseteq cacheFaults' /\ cacheFaults' \in SUBSET CacheFaultKinds
      /\ UNCHANGED <<cacheIndex, cacheObjects, cacheSerial>>
      /\ n.broken \subseteq cacheFaults'
  BY Zenon, <1>6, <1>7, CacheTyped DEF CInv
<1>10. Relies(n)'
  BY Zenon, <1>3, <1>6, Careless
<1> QED
  BY Zenon, <1>3, <1>6, <1>7, <1>8, <1>9, <1>10, QuietKeeps

\* CacheCallFails keeps the invariant.
LEMMA FailsKeeps ==
    ASSUME CInv, NEW w \in CacheWorkers, CacheCallFails(w)
    PROVE  CInv'
  BY Zenon, EndsKeeps DEF CacheCallFails

\* A call that keeps what it knows may rely on it further on as well, unless it
\* gets to where it needs more.
LEMMA Alike ==
    ASSUME NEW c \in CacheCall, NEW n \in CacheCall, Relies(c),
           n.key = c.key, n.kind = c.kind, n.locked = c.locked, n.seen = c.seen,
           n.body = c.body, n.marked = c.marked,
           \/ n.at = c.at
           \/ c.at \in Removing /\ n.at \in Removing
           \/ c.at \in Fetching \ {"fetch"} /\ n.at \in {"store", "admit", "putting"}
    PROVE  Relies(n)
<1>1. CASE n.at = c.at
  BY Zenon, <1>1 DEF Relies
<1>2. CASE c.at \in Removing /\ n.at \in Removing
  <2>1. /\ n.at \notin Fetching /\ n.at # "stat" /\ n.at # "sweeping" /\ n.at # "indexing"
    BY <1>2 DEF Removing, Fetching
  <2> QED
    BY Zenon, <1>2, <2>1 DEF Relies
<1>3. CASE c.at \in Fetching \ {"fetch"} /\ n.at \in {"store", "admit", "putting"}
  <2>1. /\ n.at \in Fetching /\ n.at # "stat" /\ n.at # "sweeping" /\ n.at # "indexing"
        /\ n.at \notin Removing
    BY <1>3 DEF Removing, Fetching
  <2> QED
    BY Zenon, <1>3, <2>1 DEF Relies
<1> QED
  BY Zenon, <1>1, <1>2, <1>3

\* What a call relies on holds on while the store does not change.
LEMMA StillRelies ==
    ASSUME NEW n \in CacheCall, Relies(n), cacheFaults \subseteq cacheFaults',
           UNCHANGED <<cacheIndex, cacheObjects, cacheSerial>>
    PROVE  Relies(n)'
<1>1. IndexFades /\ cacheObjects \subseteq cacheObjects' /\ cacheSerial' = cacheSerial
  BY Zenon, SameFades
<1> QED
  BY Zenon, <1>1, FadingKeeps

\* SessionBreaks keeps the invariant: the break is on record.
LEMMA BreakKeeps ==
    ASSUME CInv, NEW w \in CacheWorkers, NEW lock \in CacheLocks, SessionBreaks(w, lock)
    PROVE  CInv'
<1>1. PICK c \in CacheCall : c = cacheCall[w]
  BY Zenon, CacheTyped DEF CInv
<1>2. PICK b : b = c.broken \union {lock}
  BY Zenon
<1>3. PICK n : n = [c EXCEPT !.broken = b]
  BY Zenon
<1>4. b \in SUBSET CacheLocks
  BY Zenon, <1>2, CallFields
<1>5. /\ n \in CacheCall /\ n.at = c.at /\ n.seen = c.seen /\ n.body = c.body
      /\ n.kind = c.kind /\ n.key = c.key /\ n.locked = c.locked
      /\ n.marked = c.marked /\ n.broken = b
  BY Zenon, <1>3, <1>4 DEF CacheCall
<1>6. /\ CacheGoes(w, n) /\ cacheFaults' = cacheFaults \union {lock} /\ SpendsCache("break")
      /\ UNCHANGED <<cacheIndex, cacheObjects, cacheSerial>>
  BY Zenon, <1>1, <1>2, <1>3 DEF SessionBreaks, CacheGoes
<1>7. cacheBudget' \in [CacheEvents -> Nat]
  <2>1. "break" \in CacheEvents
    BY DEF CacheEvents
  <2> QED
    BY Zenon, <2>1, <1>6, CacheSpendsTyped DEF CInv
<1>8. cacheFaults \subseteq cacheFaults' /\ cacheFaults' \in SUBSET CacheFaultKinds
  BY Zenon, <1>6, CacheTyped DEF CInv, CacheFaultKinds
<1>9. n.broken \subseteq cacheFaults'
  BY Zenon, <1>1, <1>2, <1>5, <1>6 DEF CInv, LocksExclude
<1>10. Relies(n)'
  BY Zenon, <1>1, <1>5, <1>6, <1>8, Alike, StillRelies DEF CInv
<1> QED
  BY Zenon, <1>1, <1>5, <1>6, <1>7, <1>8, <1>9, <1>10, QuietKeeps

\* AcquirePublicationLock keeps the invariant: the lock was free.
LEMMA AcquirePublicationKeeps ==
    ASSUME CInv, NEW w \in CacheWorkers, AcquirePublicationLock(w)
    PROVE  CInv'
<1>1. PICK c \in CacheCall : c = cacheCall[w]
  BY Zenon, CacheTyped DEF CInv
<1>2. /\ UNCHANGED <<cacheIndex, cacheObjects, cacheSerial, cacheFaults, cacheBudget>>
      /\ \A v \in CacheWorkers : ~HoldsPublication(v)
  BY Zenon DEF AcquirePublicationLock, EntersPublication
<1>3. PICK e \in CacheEntries : c.at = e[1] /\ CacheGoes(w, [c EXCEPT !.at = e[2]])
  BY Zenon, <1>1 DEF AcquirePublicationLock, EntersPublication
<1>4. PICK at : at = e[2]
  OBVIOUS
<1>5. \/ c.at = "remove" /\ at = "removing"
      \/ c.at = "store" /\ at = "admit"
      \/ at \in {"storing", "marking", "deleting"}
  BY <1>3, <1>4 DEF CacheEntries
<1>11. at \in CachePlaces
  BY <1>5 DEF CachePlaces, CachePublishing
<1>6. PICK n : n = [c EXCEPT !.at = at]
  BY Zenon
<1>7. /\ n \in CacheCall /\ n.at = at /\ n.seen = c.seen /\ n.body = c.body
      /\ n.kind = c.kind /\ n.key = c.key /\ n.locked = c.locked
      /\ n.marked = c.marked /\ n.broken = c.broken
  BY Zenon, <1>11, <1>6 DEF CacheCall, CachePlaces
<1>8. CacheGoes(w, n)
  BY Zenon, <1>3, <1>4, <1>6
<1>9. /\ cacheFaults' \in SUBSET CacheFaultKinds /\ cacheBudget' \in [CacheEvents -> Nat]
      /\ cacheFaults \subseteq cacheFaults' /\ n.broken \subseteq cacheFaults'
      /\ UNCHANGED <<cacheIndex, cacheObjects, cacheSerial>>
  BY Zenon, <1>1, <1>2, <1>7, CacheTyped DEF CInv, LocksExclude
<1>10. Relies(n)'
  <2>1. Relies(c)
    BY Zenon, <1>1 DEF CInv
  <2>2. CASE c.at = "remove" /\ at = "removing"
    <3>1. c.at \in Removing /\ n.at \in Removing
      BY <2>2, <1>7 DEF Removing
    <3> QED
      BY Zenon, <2>1, <3>1, <1>7, <1>9, Alike, StillRelies
  <2>3. CASE c.at = "store" /\ at = "admit"
    <3>1. c.at \in Fetching \ {"fetch"} /\ n.at \in {"store", "admit", "putting"}
      BY <2>3, <1>7 DEF Fetching
    <3> QED
      BY Zenon, <2>1, <3>1, <1>7, <1>9, Alike, StillRelies
  <2>4. CASE at \in {"storing", "marking", "deleting"}
    <3>1. n.at \notin Fetching \union Removing \union {"stat", "sweeping"}
      BY <2>4, <1>7 DEF Fetching, Removing
    <3> QED
      BY Zenon, <3>1, <1>7, Careless
  <2> QED
    BY Zenon, <1>5, <2>2, <2>3, <2>4
<1> QED
  BY Zenon, <1>1, <1>2, <1>7, <1>8, <1>9, <1>10, QuietKeeps

\* AcquireRequestLock keeps the invariant: nobody has the lock of the key.
LEMMA AcquireRequestKeeps ==
    ASSUME CInv, NEW w \in CacheWorkers, AcquireRequestLock(w)
    PROVE  CInv'
<1>1. PICK c \in CacheCall : c = cacheCall[w]
  BY Zenon, CacheTyped DEF CInv
<1>2. PICK n : n = [c EXCEPT !.at = "load", !.locked = TRUE]
  OBVIOUS
<1>3. "load" \in CachePlaces
  BY DEF CachePlaces
<1>4. n \in CacheCall /\ n.at = "load" /\ n.locked = TRUE /\ n.key = c.key /\ n.broken = c.broken
  BY Zenon, <1>2, <1>3 DEF CacheCall, CachePlaces
<1>5. /\ UNCHANGED <<cacheIndex, cacheObjects, cacheSerial, cacheFaults, cacheBudget>>
      /\ \A v \in CacheWorkers : ~(HoldsRequest(v) /\ cacheCall[v].key = n.key)
      /\ CacheGoes(w, n)
  BY Zenon, <1>1, <1>2, <1>4 DEF AcquireRequestLock
<1>6. n.at \notin Fetching \union Removing \union {"stat", "sweeping"} /\ n.at \notin CachePublishing
  BY <1>4 DEF Fetching, Removing, CachePublishing
<1>7. /\ cacheFaults' \in SUBSET CacheFaultKinds /\ cacheBudget' \in [CacheEvents -> Nat]
      /\ cacheFaults \subseteq cacheFaults' /\ n.broken \subseteq cacheFaults'
      /\ UNCHANGED <<cacheIndex, cacheObjects, cacheSerial>>
  BY Zenon, <1>1, <1>4, <1>5, CacheTyped DEF CInv, LocksExclude
<1>8. Relies(n)'
  BY Zenon, <1>4, <1>6, Careless
<1> QED
  BY Zenon, <1>4, <1>5, <1>6, <1>7, <1>8, QuietKeeps

\* LoadIndex keeps the invariant: what it has read is what there is.
LEMMA LoadKeeps ==
    ASSUME CInv, NEW w \in CacheWorkers, LoadIndex(w)
    PROVE  CInv'
<1>1. PICK c \in CacheCall : c = cacheCall[w]
  BY Zenon, CacheTyped DEF CInv
<1>2. PICK e : e = cacheIndex[c.key]
  OBVIOUS
<1>3. /\ c.key \in CacheKeys /\ e \in CacheEntry /\ e.serial \in Nat /\ e.serial <= cacheSerial
      /\ e.body \in CacheBodies \union {NoBody}
  BY Zenon, <1>2, CallFields, CacheTyped DEF CInv, EntriesIssued, CacheEntry
<1>4. UNCHANGED <<cacheIndex, cacheObjects, cacheSerial, cacheFaults, cacheBudget>>
  BY Zenon DEF LoadIndex
<1>5. cacheFaults \subseteq cacheFaults' /\ UNCHANGED <<cacheIndex, cacheObjects, cacheSerial>>
  BY Zenon, <1>4
<1>6. CASE e.kind = "none" /\ CacheGoes(w, Missed(c))
  <2>1. PICK n : n = Missed(c)
    OBVIOUS
  <2>2. /\ n \in CacheCall /\ n.at \in {"request", "fetch"} /\ n.kind = c.kind
        /\ n.key = c.key /\ n.locked = c.locked /\ n.broken \subseteq c.broken
        /\ n.at = "fetch" /\ n.kind = "get" => n.locked
    BY Zenon, <2>1, MissedCall
  <2>3. ~CachedBody(n.key)
    <3>1. "none" # "body"
      OBVIOUS
    <3> QED
      BY Zenon, <3>1, <1>2, <1>6, <2>2 DEF CachedBody
  <2>4. /\ n.at \notin Removing \union {"stat"} /\ n.at # "stat" /\ n.at # "indexing"
        /\ n.at # "sweeping" /\ n.at \notin Removing /\ n.at \notin Fetching \ {"fetch"}
        /\ n.at \in Fetching => n.at = "fetch"
        /\ n.at \notin CachePublishing
    BY <2>2 DEF Fetching, Removing, CachePublishing
  <2>5. Relies(n)
    BY Zenon, <2>2, <2>3, <2>4 DEF Relies
  <2>6. Relies(n)'
    BY Zenon, <2>2, <2>5, <1>5, StillRelies
  <2> QED
    BY Zenon, <1>1, <1>4, <1>6, <2>1, <2>2, <2>4, <2>6, PlainKeeps
<1>7. CASE ~e.live /\ CacheGoes(w, [c EXCEPT !.at = "remove", !.seen = e.serial])
  <2>1. PICK n : n = [c EXCEPT !.at = "remove", !.seen = e.serial]
    OBVIOUS
  <2>2. "remove" \in CachePlaces
    BY DEF CachePlaces, CacheWaiting
  <2>3. /\ n \in CacheCall /\ n.at = "remove" /\ n.seen = e.serial /\ n.key = c.key
        /\ n.locked = c.locked /\ n.broken = c.broken
    BY Zenon, <1>3, <2>1, <2>2 DEF CacheCall, CachePlaces
  <2>4. /\ n.at \notin Fetching /\ n.at # "stat" /\ n.at # "indexing" /\ n.at # "sweeping"
        /\ n.at \notin CachePublishing
    BY <2>3 DEF Fetching, CachePublishing
  <2>5. ~CachedBody(n.key) /\ n.seen <= cacheSerial
    BY Zenon, <1>2, <1>3, <1>7, <2>3 DEF CachedBody
  <2>6. Relies(n)
    BY Zenon, <2>4, <2>5 DEF Relies
  <2>7. Relies(n)'
    BY Zenon, <2>3, <2>6, <1>5, StillRelies
  <2> QED
    BY Zenon, <1>1, <1>4, <1>7, <2>1, <2>3, <2>4, <2>7, PlainKeeps
<1>8. CASE CacheEnds(w)
  BY Zenon, <1>4, <1>8, EndsKeeps
<1>9. CASE CacheGoes(w, [c EXCEPT !.at = "stat", !.seen = e.serial, !.body = e.body])
  <2>1. PICK n : n = [c EXCEPT !.at = "stat", !.seen = e.serial, !.body = e.body]
    OBVIOUS
  <2>2. "stat" \in CachePlaces
    BY DEF CachePlaces
  <2>3. /\ n \in CacheCall /\ n.at = "stat" /\ n.seen = e.serial /\ n.body = e.body
        /\ n.key = c.key /\ n.locked = c.locked /\ n.broken = c.broken
    BY Zenon, <1>3, <2>1, <2>2 DEF CacheCall, CachePlaces
  <2>4. /\ n.at \notin Fetching /\ n.at \notin Removing /\ n.at # "indexing"
        /\ n.at # "sweeping" /\ n.at \notin CachePublishing
    BY <2>3 DEF Fetching, Removing, CachePublishing
  <2>5. /\ n.seen <= cacheSerial /\ cacheIndex[n.key].serial = n.seen
        /\ cacheIndex[n.key].body = n.body
    BY Zenon, <1>2, <1>3, <2>3
  <2>6. Relies(n)
    BY Zenon, <2>4, <2>5 DEF Relies
  <2>7. Relies(n)'
    BY Zenon, <2>3, <2>6, <1>5, StillRelies
  <2> QED
    BY Zenon, <1>1, <1>4, <1>9, <2>1, <2>3, <2>4, <2>7, PlainKeeps
<1>10. \/ e.kind = "none" /\ CacheGoes(w, Missed(c))
       \/ ~e.live /\ CacheGoes(w, [c EXCEPT !.at = "remove", !.seen = e.serial])
       \/ CacheEnds(w)
       \/ CacheGoes(w, [c EXCEPT !.at = "stat", !.seen = e.serial, !.body = e.body])
  BY Zenon, <1>1, <1>2 DEF LoadIndex
<1> QED
  BY Zenon, <1>6, <1>7, <1>8, <1>9, <1>10

\* StatObject keeps the invariant: the object of a live entry is there.
LEMMA StatKeeps ==
    ASSUME CInv, NEW w \in CacheWorkers, StatObject(w)
    PROVE  CInv'
<1>1. PICK c \in CacheCall : c = cacheCall[w]
  BY Zenon, CacheTyped DEF CInv
<1>2. /\ UNCHANGED <<cacheIndex, cacheObjects, cacheSerial, cacheFaults, cacheBudget>>
      /\ c.at = "stat" /\ Relies(c) /\ c.key \in CacheKeys
  BY Zenon, <1>1, CallFields DEF StatObject, CInv
<1>3. cacheFaults \subseteq cacheFaults' /\ UNCHANGED <<cacheIndex, cacheObjects, cacheSerial>>
  BY Zenon, <1>2
<1>4. CASE CacheEnds(w)
  BY Zenon, <1>2, <1>4, EndsKeeps
<1>5. CASE c.body \notin cacheObjects /\ CacheGoes(w, [c EXCEPT !.at = "remove"])
  <2>1. PICK n : n = [c EXCEPT !.at = "remove"]
    BY Zenon
  <2>2. "remove" \in CachePlaces
    BY DEF CachePlaces, CacheWaiting
  <2>3. /\ n \in CacheCall /\ n.at = "remove" /\ n.seen = c.seen /\ n.key = c.key
        /\ n.locked = c.locked /\ n.broken = c.broken
    BY Zenon, <2>1, <2>2 DEF CacheCall, CachePlaces
  <2>4. /\ n.at \notin Fetching /\ n.at # "stat" /\ n.at # "indexing" /\ n.at # "sweeping"
        /\ n.at \notin CachePublishing
    BY <2>3 DEF Fetching, CachePublishing
  <2>5. CacheSound /\ cacheIndex[n.key].serial = n.seen => ~CachedBody(n.key)
    <3> SUFFICES ASSUME CacheSound, cacheIndex[c.key].serial = c.seen, CachedBody(c.key)
                 PROVE  FALSE
      BY Zenon, <2>3
    <3>1. cacheIndex[c.key].kind = "body"
      BY Zenon DEF CachedBody
    <3>2. cacheIndex[c.key].body = c.body
      BY Zenon, <1>2, <3>1 DEF Relies
    <3>3. cacheIndex[c.key].body \in cacheObjects
      BY Zenon, <1>2 DEF CInv, CachedEntriesReadable, CacheSound
    <3> QED
      BY Zenon, <1>5, <3>2, <3>3
  <2>6. /\ n.seen <= cacheSerial
        /\ RequestSound /\ n.locked /\ CachedBody(n.key) => cacheIndex[n.key].serial = n.seen
    BY Zenon, <1>2, <2>3 DEF Relies
  <2>7. Relies(n)
    BY Zenon, <2>4, <2>5, <2>6 DEF Relies
  <2>8. Relies(n)'
    BY Zenon, <2>3, <2>7, <1>3, StillRelies
  <2> QED
    BY Zenon, <1>1, <1>2, <1>5, <2>1, <2>3, <2>4, <2>8, PlainKeeps
<1> QED
  BY Zenon, <1>1, <1>4, <1>5 DEF StatObject

\* FetchRaw keeps the invariant: the answer is kept under the lock it was
\* asked under.
LEMMA FetchKeeps ==
    ASSUME CInv, NEW w \in CacheWorkers, FetchRaw(w)
    PROVE  CInv'
<1>1. PICK c \in CacheCall : c = cacheCall[w]
  BY Zenon, CacheTyped DEF CInv
<1>2. /\ UNCHANGED <<cacheIndex, cacheObjects, cacheSerial, cacheFaults, cacheBudget>>
      /\ c.at = "fetch" /\ Relies(c) /\ c.key \in CacheKeys
  BY Zenon, <1>1, CallFields DEF FetchRaw, CInv
<1>3. cacheFaults \subseteq cacheFaults' /\ UNCHANGED <<cacheIndex, cacheObjects, cacheSerial>>
  BY Zenon, <1>2
<1>4. CASE CacheEnds(w)
  BY Zenon, <1>2, <1>4, EndsKeeps
<1>5. CASE CacheGoes(w, [c EXCEPT !.at = "negative"])
  <2>1. PICK n : n = [c EXCEPT !.at = "negative"]
    BY Zenon
  <2>2. "negative" \in CachePlaces
    BY DEF CachePlaces, CacheWaiting
  <2>3. /\ n \in CacheCall /\ n.at = "negative" /\ n.key = c.key
        /\ n.locked = c.locked /\ n.broken = c.broken
    BY Zenon, <2>1, <2>2 DEF CacheCall, CachePlaces
  <2>4. /\ n.at \notin Fetching \union Removing \union {"stat", "sweeping"}
        /\ n.at \notin CachePublishing
    BY <2>3 DEF Fetching, Removing, CachePublishing
  <2>5. Relies(n)'
    BY Zenon, <2>3, <2>4, Careless
  <2> QED
    BY Zenon, <1>1, <1>2, <1>5, <2>1, <2>3, <2>4, <2>5, PlainKeeps
<1>6. CASE c.kind = "get" /\ \E b \in CacheBodies :
             CacheGoes(w, [c EXCEPT !.at = "store", !.body = b])
  <2>1. PICK b \in CacheBodies : CacheGoes(w, [c EXCEPT !.at = "store", !.body = b])
    BY Zenon, <1>6
  <2>2. PICK n : n = [c EXCEPT !.at = "store", !.body = b]
    OBVIOUS
  <2>3. "store" \in CachePlaces /\ "fetch" \in Fetching
    BY DEF CachePlaces, CacheWaiting, Fetching
  <2>4. /\ n \in CacheCall /\ n.at = "store" /\ n.key = c.key /\ n.kind = c.kind
        /\ n.locked = c.locked /\ n.broken = c.broken /\ n.body = b
    BY Zenon, <2>2, <2>3 DEF CacheCall, CachePlaces
  <2>5. /\ n.at \notin Removing \union {"stat"} /\ n.at # "stat" /\ n.at # "indexing"
        /\ n.at # "sweeping" /\ n.at \notin Removing /\ n.at \notin CachePublishing
    BY <2>4 DEF Removing, CachePublishing
  <2>6. c.locked /\ (RequestSound => ~CachedBody(c.key))
    BY Zenon, <1>2, <1>6, <2>3 DEF Relies
  <2>7. Relies(n)
    BY Zenon, <1>6, <2>4, <2>5, <2>6 DEF Relies
  <2>8. Relies(n)'
    BY Zenon, <2>4, <2>7, <1>3, StillRelies
  <2> QED
    BY Zenon, <1>1, <1>2, <2>1, <2>2, <2>4, <2>5, <2>8, PlainKeeps
<1> QED
  BY Zenon, <1>1, <1>4, <1>5, <1>6 DEF FetchRaw

\* A call that goes on to the store after its admission keeps the invariant.
LEMMA AdmittedKeeps ==
    ASSUME CInv, NEW w \in CacheWorkers, NEW keys, AdmitReading(w, keys),
           cacheFaults \subseteq cacheFaults', cacheFaults' \in SUBSET CacheFaultKinds,
           cacheBudget' \in [CacheEvents -> Nat]
    PROVE  CInv'
<1>1. PICK c \in CacheCall : c = cacheCall[w]
  BY Zenon, CacheTyped DEF CInv
<1>2. /\ UNCHANGED <<cacheIndex, cacheObjects, cacheSerial>>
      /\ c.at = "admit" /\ Relies(c) /\ c.broken \subseteq cacheFaults
  BY Zenon, <1>1 DEF AdmitReading, CInv, LocksExclude
<1>3. CASE CacheEnds(w)
  <2>1. PICK n : n = NoCall
    OBVIOUS
  <2>2. /\ n \in CacheCall /\ CacheGoes(w, n) /\ n.broken \subseteq cacheFaults'
        /\ ~n.locked /\ n.at \notin CachePublishing /\ Relies(n)'
    BY Zenon, <1>3, <2>1, CallEnded DEF CacheEnds
  <2> QED
    BY Zenon, <1>2, <2>2, QuietKeeps
<1>4. CASE CacheGoes(w, [c EXCEPT !.at = "putting"])
  <2>1. PICK n : n = [c EXCEPT !.at = "putting"]
    BY Zenon
  <2>2. /\ "putting" \in CachePlaces /\ c.at \in CachePublishing
        /\ c.at \in Fetching \ {"fetch"} /\ "putting" \in {"store", "admit", "putting"}
    BY <1>2 DEF CachePlaces, CachePublishing, Fetching
  <2>3. /\ n \in CacheCall /\ n.at = "putting" /\ n.seen = c.seen /\ n.body = c.body
        /\ n.kind = c.kind /\ n.key = c.key /\ n.locked = c.locked
        /\ n.marked = c.marked /\ n.broken = c.broken
    BY Zenon, <2>1, <2>2 DEF CacheCall, CachePlaces
  <2>4. Relies(n)
    BY Zenon, <1>2, <2>2, <2>3, Alike
  <2>5. Relies(n)'
    BY Zenon, <1>2, <2>3, <2>4, StillRelies
  <2>6. n.broken \subseteq cacheFaults'
    BY Zenon, <1>2, <2>3
  <2> QED
    BY Zenon, <1>1, <1>2, <1>4, <2>1, <2>2, <2>3, <2>5, <2>6, QuietKeeps
<1> QED
  BY Zenon, <1>1, <1>3, <1>4 DEF AdmitReading

\* Admit keeps the invariant.
LEMMA AdmitKeeps ==
    ASSUME CInv, NEW w \in CacheWorkers, Admit(w)
    PROVE  CInv'
<1>1. AdmitReading(w, CacheKeys) /\ cacheFaults' = cacheFaults /\ cacheBudget' = cacheBudget
  BY Zenon DEF Admit
<1>2. /\ cacheFaults \subseteq cacheFaults' /\ cacheFaults' \in SUBSET CacheFaultKinds
      /\ cacheBudget' \in [CacheEvents -> Nat]
  BY Zenon, <1>1, CacheTyped DEF CInv
<1> QED
  BY Zenon, <1>1, <1>2, AdmittedKeeps

-----------------------------------------------------------------------------
(* Steps that remove entries                                               *)

\* An index from which entries are removed fades.
LEMMA RemovedFades ==
    ASSUME CacheTypeOK, cacheIndex' \in [CacheKeys -> CacheEntry],
           \A k \in CacheKeys : cacheIndex'[k] = cacheIndex[k] \/ cacheIndex'[k] = NoEntry
    PROVE  IndexFades
  BY Zenon DEF IndexFades

\* RemoveIndex keeps the invariant: under the request lock the entry that was
\* read is the one that is there.
LEMMA RemoveKeeps ==
    ASSUME CInv, NEW w \in CacheWorkers, RemoveIndex(w)
    PROVE  CInv'
<1>1. PICK c \in CacheCall : c = cacheCall[w]
  BY Zenon, CacheTyped DEF CInv
<1>2. /\ cacheObjects' = cacheObjects /\ cacheSerial' = cacheSerial
      /\ cacheFaults' = cacheFaults /\ cacheBudget' = cacheBudget
      /\ c.at = "removing" /\ Relies(c) /\ c.key \in CacheKeys /\ c.broken \subseteq cacheFaults
      /\ CacheGoes(w, Missed(c))
  BY Zenon, <1>1, CallFields DEF RemoveIndex, CInv, LocksExclude
<1>3. /\ cacheObjects \subseteq cacheObjects' /\ cacheObjects' \in SUBSET CacheBodies
      /\ cacheFaults \subseteq cacheFaults' /\ cacheFaults' \in SUBSET CacheFaultKinds
      /\ cacheBudget' \in [CacheEvents -> Nat] /\ CacheTypeOK
      /\ cacheIndex \in [CacheKeys -> CacheEntry]
  BY Zenon, <1>2, CacheTyped DEF CInv
<1>4. /\ cacheIndex' \in [CacheKeys -> CacheEntry]
      /\ \A k \in CacheKeys : cacheIndex'[k] = cacheIndex[k] \/ cacheIndex'[k] = NoEntry
      /\ cacheIndex[c.key].serial = c.seen => cacheIndex'[c.key] = NoEntry
  <2>1. CASE cacheIndex[c.key].serial = c.seen
    <3>1. cacheIndex' = [cacheIndex EXCEPT ![c.key] = NoEntry]
      BY Zenon, <1>1, <2>1 DEF RemoveIndex
    <3> QED
      BY Zenon, <3>1, <1>2, <1>3, NoEntryTyped
  <2>2. CASE cacheIndex[c.key].serial # c.seen
    <3>1. cacheIndex' = cacheIndex
      BY Zenon, <1>1, <2>2 DEF RemoveIndex
    <3> QED
      BY Zenon, <3>1, <1>3, <2>2
  <2> QED
    BY Zenon, <2>1, <2>2
<1>5. IndexFades
  BY Zenon, <1>3, <1>4, RemovedFades
<1>6. PICK n : n = Missed(c)
  OBVIOUS
<1>7. /\ n \in CacheCall /\ n.at \in {"request", "fetch"} /\ n.kind = c.kind
      /\ n.key = c.key /\ n.locked = c.locked /\ n.broken \subseteq c.broken
      /\ n.at = "fetch" /\ n.kind = "get" => n.locked
  BY Zenon, <1>6, MissedCall
<1>8. RequestSound' /\ n.locked => ~CachedBody(n.key)'
  <2> SUFFICES ASSUME RequestSound', c.locked, CachedBody(c.key)'
               PROVE  FALSE
    BY Zenon, <1>7
  <2>1. RequestSound /\ c.at \in Removing \union {"stat"}
    BY <1>2 DEF RequestSound, Removing
  <2>2. CachedBody(c.key)
    BY Zenon, <1>2, <1>5, FadedCached
  <2>3. cacheIndex[c.key].serial = c.seen
    BY Zenon, <1>2, <2>1, <2>2 DEF Relies
  <2>4. cacheIndex'[c.key].kind = "body" /\ cacheIndex'[c.key] = NoEntry
    BY Zenon, <1>4, <2>3 DEF CachedBody
  <2> QED
    BY <2>4 DEF NoEntry
<1>9. /\ n.at \notin Removing \union {"stat"} /\ n.at # "stat" /\ n.at # "indexing"
      /\ n.at # "sweeping" /\ n.at \notin Removing /\ n.at \notin Fetching \ {"fetch"}
      /\ n.at \in Fetching => n.at = "fetch"
      /\ n.at \notin CachePublishing
  BY <1>7 DEF Fetching, Removing, CachePublishing
<1>10. Relies(n)'
  BY Zenon, <1>7, <1>8, <1>9 DEF Relies
<1>11. n.broken \subseteq cacheFaults' /\ CacheGoes(w, n)
  BY Zenon, <1>2, <1>6, <1>7
<1> QED
  BY Zenon, <1>1, <1>2, <1>3, <1>4, <1>5, <1>7, <1>9, <1>10, <1>11, MovesKeep

\* Invalidate keeps the invariant.
LEMMA InvalidateKeeps ==
    ASSUME CInv, NEW w \in CacheWorkers, Invalidate(w)
    PROVE  CInv'
<1>1. PICK n : n = NoCall
  OBVIOUS
<1>2. /\ n \in CacheCall /\ CacheGoes(w, n) /\ n.broken \subseteq cacheFaults'
      /\ ~n.locked /\ n.at \notin CachePublishing /\ Relies(n)'
  BY Zenon, <1>1, CallEnded DEF Invalidate, CacheEnds
<1>3. PICK k \in CacheKeys : k = cacheCall[w].key
  BY Zenon, CacheTyped, CallFields DEF CInv
<1>4. /\ cacheIndex' = [cacheIndex EXCEPT ![k] = NoEntry]
      /\ cacheObjects' = cacheObjects /\ cacheSerial' = cacheSerial
      /\ cacheFaults' = cacheFaults /\ cacheBudget' = cacheBudget
  BY Zenon, <1>3 DEF Invalidate
<1>5. /\ cacheObjects \subseteq cacheObjects' /\ cacheObjects' \in SUBSET CacheBodies
      /\ cacheFaults \subseteq cacheFaults' /\ cacheFaults' \in SUBSET CacheFaultKinds
      /\ cacheBudget' \in [CacheEvents -> Nat] /\ CacheTypeOK
      /\ cacheIndex \in [CacheKeys -> CacheEntry]
  BY Zenon, <1>4, CacheTyped DEF CInv
<1>6. /\ cacheIndex' \in [CacheKeys -> CacheEntry]
      /\ \A h \in CacheKeys : cacheIndex'[h] = cacheIndex[h] \/ cacheIndex'[h] = NoEntry
  BY Zenon, <1>4, <1>5, NoEntryTyped
<1>7. IndexFades
  BY Zenon, <1>5, <1>6, RemovedFades
<1> QED
  BY Zenon, <1>2, <1>4, <1>5, <1>6, <1>7, MovesKeep

\* PutCachedObject keeps the invariant: the object is there when the entry is
\* next.
LEMMA PutObjectKeeps ==
    ASSUME CInv, NEW w \in CacheWorkers, PutCachedObject(w)
    PROVE  CInv'
<1>1. PICK c \in CacheCall : c = cacheCall[w]
  BY Zenon, CacheTyped DEF CInv
<1>2. /\ cacheObjects' = cacheObjects \union {c.body} /\ c.at = "putting" /\ Relies(c)
      /\ CacheGoes(w, [c EXCEPT !.at = "indexing"]) /\ c.broken \subseteq cacheFaults
      /\ cacheIndex' = cacheIndex /\ cacheSerial' = cacheSerial
      /\ cacheFaults' = cacheFaults /\ cacheBudget' = cacheBudget
  BY Zenon, <1>1 DEF PutCachedObject, CInv, LocksExclude
<1>3. /\ c.at \in Fetching \ {"fetch"} /\ c.at \in Fetching /\ c.at \in CachePublishing
      /\ "indexing" \in CachePlaces /\ "indexing" \in Fetching
  BY <1>2 DEF Fetching, CachePublishing, CachePlaces
<1>4. c.body \in CacheBodies /\ c.kind = "get" /\ c.locked
  BY Zenon, <1>2, <1>3 DEF Relies
<1>5. /\ cacheObjects \subseteq cacheObjects' /\ cacheObjects' \in SUBSET CacheBodies
      /\ cacheFaults \subseteq cacheFaults' /\ cacheFaults' \in SUBSET CacheFaultKinds
      /\ cacheBudget' \in [CacheEvents -> Nat] /\ cacheIndex' \in [CacheKeys -> CacheEntry]
      /\ IndexFades
  BY Zenon, <1>2, <1>4, CacheTyped, SameFades DEF CInv
<1>6. PICK n : n = [c EXCEPT !.at = "indexing"]
  BY Zenon
<1>7. /\ n \in CacheCall /\ n.at = "indexing" /\ n.body = c.body
      /\ n.kind = c.kind /\ n.key = c.key /\ n.locked = c.locked /\ n.broken = c.broken
  BY Zenon, <1>3, <1>6 DEF CacheCall, CachePlaces
<1>8. /\ n.at \notin Removing \union {"stat"} /\ n.at # "stat" /\ n.at # "sweeping"
      /\ n.at \notin Removing
  BY <1>7 DEF Removing
<1>9. RequestSound' => ~CachedBody(n.key)'
  BY Zenon, <1>2, <1>3, <1>4, <1>7 DEF Relies, RequestSound, CachedBody
<1>10. Relies(n)'
  BY Zenon, <1>2, <1>4, <1>7, <1>8, <1>9 DEF Relies
<1>11. n.broken \subseteq cacheFaults' /\ CacheGoes(w, n)
  BY Zenon, <1>2, <1>6, <1>7
<1> QED
  BY Zenon, <1>1, <1>2, <1>3, <1>5, <1>7, <1>10, <1>11, MovesKeep

\* A collector that has marked keeps the invariant, if what it could not read is
\* on record: its marks cover the live entries.
LEMMA MarkedKeeps ==
    ASSUME CInv, NEW w \in CacheWorkers, NEW keys \in SUBSET CacheKeys, MarkReading(w, keys),
           cacheFaults \subseteq cacheFaults', cacheFaults' \in SUBSET CacheFaultKinds,
           cacheBudget' \in [CacheEvents -> Nat], CacheSound' => keys = CacheKeys
    PROVE  CInv'
<1>1. PICK c \in CacheCall : c = cacheCall[w]
  BY Zenon, CacheTyped DEF CInv
<1>2. PICK marks : marks = {cacheIndex[k].body : k \in {x \in keys : CachedBody(x)}}
  BY Zenon
<1>3. /\ cacheIndex' = [k \in CacheKeys |->
                          IF k \in keys /\ ~cacheIndex[k].live THEN NoEntry ELSE cacheIndex[k]]
      /\ CacheGoes(w, [c EXCEPT !.at = "sweeping", !.marked = marks])
      /\ c.at = "marking" /\ cacheObjects' = cacheObjects /\ cacheSerial' = cacheSerial
      /\ c.broken \subseteq cacheFaults
  BY Zenon, <1>1, <1>2 DEF MarkReading, CInv, LocksExclude
<1>4. CacheTypeOK /\ cacheIndex \in [CacheKeys -> CacheEntry] /\ cacheObjects' \in SUBSET CacheBodies
      /\ cacheObjects \subseteq cacheObjects'
  BY Zenon, <1>3, CacheTyped DEF CInv
<1>5. \A k \in CacheKeys : cacheIndex'[k] = cacheIndex[k] \/ cacheIndex'[k] = NoEntry
  BY Zenon, <1>3
<1>6. cacheIndex' \in [CacheKeys -> CacheEntry]
  BY Zenon, <1>3, <1>4, NoEntryTyped
<1>7. IndexFades
  BY Zenon, <1>4, <1>5, <1>6, RemovedFades
<1>8. marks \in SUBSET CacheBodies
  BY Zenon, <1>2 DEF CInv, EntriesIssued, CachedBody
<1>9. PICK n : n = [c EXCEPT !.at = "sweeping", !.marked = marks]
  OBVIOUS
<1>10. "sweeping" \in CachePlaces /\ c.at \in CachePublishing
  BY <1>3 DEF CachePlaces, CachePublishing
<1>11. /\ n \in CacheCall /\ n.at = "sweeping" /\ n.marked = marks
       /\ n.key = c.key /\ n.locked = c.locked /\ n.broken = c.broken
  BY Zenon, <1>8, <1>9, <1>10 DEF CacheCall, CachePlaces
<1>12. ASSUME CacheSound', NEW k \in CacheKeys, CachedBody(k)'
       PROVE  cacheIndex'[k].body \in n.marked
  BY Zenon, <1>2, <1>7, <1>11, <1>12, FadedCached
<1>13. /\ n.at \notin Removing \union {"stat"} /\ n.at # "stat" /\ n.at # "indexing"
       /\ n.at \notin Removing /\ n.at \notin Fetching
  BY <1>11 DEF Removing, Fetching
<1>14. Relies(n)'
  BY Zenon, <1>12, <1>13 DEF Relies
<1>15. n.broken \subseteq cacheFaults' /\ CacheGoes(w, n)
  BY Zenon, <1>3, <1>9, <1>11
<1> QED
  BY Zenon, <1>1, <1>3, <1>4, <1>6, <1>7, <1>10, <1>11, <1>14, <1>15, MovesKeep

\* CollectMark keeps the invariant.
LEMMA MarkKeeps ==
    ASSUME CInv, NEW w \in CacheWorkers, CollectMark(w)
    PROVE  CInv'
<1>1. MarkReading(w, CacheKeys) /\ cacheFaults' = cacheFaults /\ cacheBudget' = cacheBudget
  BY Zenon DEF CollectMark
<1>2. /\ cacheFaults \subseteq cacheFaults' /\ cacheFaults' \in SUBSET CacheFaultKinds
      /\ cacheBudget' \in [CacheEvents -> Nat] /\ CacheKeys \in SUBSET CacheKeys
  BY Zenon, <1>1, CacheTyped DEF CInv
<1> QED
  BY Zenon, <1>1, <1>2, MarkedKeeps

\* StoreErrs keeps the invariant: the failed operation is on record.
LEMMA ErrsKeeps ==
    ASSUME CInv, NEW w \in CacheWorkers, StoreErrs(w)
    PROVE  CInv'
<1>1. PICK c \in CacheCall : c = cacheCall[w]
  BY Zenon, CacheTyped DEF CInv
<1>2. SpendsCache("error") /\ cacheFaults' = cacheFaults \union {"store"}
  BY Zenon DEF StoreErrs
<1>3. cacheFaults \subseteq cacheFaults' /\ cacheFaults' \in SUBSET CacheFaultKinds
  BY Zenon, <1>2, CacheTyped DEF CInv, CacheFaultKinds
<1>4. cacheBudget' \in [CacheEvents -> Nat]
  <2>1. "error" \in CacheEvents
    BY DEF CacheEvents
  <2> QED
    BY Zenon, <1>2, <2>1, CacheSpendsTyped DEF CInv
<1>5. ~CacheSound' /\ ~RequestSound'
  BY Zenon, <1>2 DEF CacheSound, RequestSound
<1>6. Relies(c) /\ c.broken \subseteq cacheFaults
  BY Zenon, <1>1 DEF CInv, LocksExclude
<1>7. CASE /\ CacheGoes(w, Missed(c))
           /\ UNCHANGED <<cacheIndex, cacheObjects, cacheSerial>>
  <2>1. PICK n : n = Missed(c)
    OBVIOUS
  <2>2. /\ n \in CacheCall /\ n.at \in {"request", "fetch"} /\ n.kind = c.kind
        /\ n.key = c.key /\ n.locked = c.locked /\ n.broken \subseteq c.broken
        /\ n.at = "fetch" /\ n.kind = "get" => n.locked
    BY Zenon, <2>1, MissedCall
  <2>3. /\ n.at \notin Removing \union {"stat"} /\ n.at # "stat"
        /\ n.at \notin Fetching \ {"fetch"} /\ n.at \notin CachePublishing
        /\ n.at \in Fetching => n.at = "fetch"
    BY <2>2 DEF Fetching, Removing, CachePublishing
  <2>4. Relies(n)'
    BY Zenon, <1>5, <2>2, <2>3 DEF Relies
  <2>5. n.broken \subseteq cacheFaults' /\ CacheGoes(w, n)
    BY Zenon, <1>3, <1>6, <1>7, <2>1, <2>2
  <2> QED
    BY Zenon, <1>1, <1>3, <1>4, <1>7, <2>2, <2>3, <2>4, <2>5, QuietKeeps
<1>8. CASE /\ c.at = "stat" /\ CacheGoes(w, [c EXCEPT !.at = "remove"])
           /\ UNCHANGED <<cacheIndex, cacheObjects, cacheSerial>>
  <2>1. PICK n : n = [c EXCEPT !.at = "remove"]
    BY Zenon
  <2>2. "remove" \in CachePlaces
    BY DEF CachePlaces, CacheWaiting
  <2>3. /\ n \in CacheCall /\ n.at = "remove" /\ n.seen = c.seen /\ n.key = c.key
        /\ n.locked = c.locked /\ n.broken = c.broken
    BY Zenon, <2>1, <2>2 DEF CacheCall, CachePlaces
  <2>4. n.at \notin Fetching /\ n.at # "stat" /\ n.at \notin CachePublishing
    BY <2>3 DEF Fetching, CachePublishing
  <2>5. n.seen <= cacheSerial'
    <3>1. c.at \in Removing \union {"stat"}
      BY <1>8
    <3> QED
      BY Zenon, <1>6, <1>8, <2>3, <3>1 DEF Relies
  <2>6. Relies(n)'
    BY Zenon, <1>5, <2>4, <2>5 DEF Relies
  <2>7. n.broken \subseteq cacheFaults' /\ CacheGoes(w, n)
    BY Zenon, <1>3, <1>6, <1>8, <2>1, <2>3
  <2> QED
    BY Zenon, <1>1, <1>3, <1>4, <1>8, <2>3, <2>4, <2>6, <2>7, QuietKeeps
<1>9. CASE \E k \in CacheKeys : MarkReading(w, CacheKeys \ {k})
  <2>1. PICK keys \in SUBSET CacheKeys : MarkReading(w, keys)
    BY Zenon, <1>9
  <2> QED
    BY Zenon, <1>3, <1>4, <1>5, <2>1, MarkedKeeps
<1>10. CASE \E k \in CacheKeys : AdmitReading(w, CacheKeys \ {k})
  <2>1. PICK keys : AdmitReading(w, keys)
    BY Zenon, <1>10
  <2> QED
    BY Zenon, <1>3, <1>4, <2>1, AdmittedKeeps
<1> QED
  BY Zenon, <1>1, <1>7, <1>8, <1>9, <1>10 DEF StoreErrs

\* EntryExpires keeps the invariant: nobody relies on an entry's being live.
LEMMA ExpiresKeeps ==
    ASSUME CInv, NEW k \in CacheKeys, EntryExpires(k)
    PROVE  CInv'
<1>1. /\ cacheObjects' = cacheObjects /\ cacheCall' = cacheCall /\ cacheSerial' = cacheSerial
      /\ cacheFaults' = cacheFaults /\ SpendsCache("expire")
      /\ cacheIndex' = [cacheIndex EXCEPT ![k].live = FALSE]
  BY Zenon DEF EntryExpires
<1>2. PICK e \in CacheEntry : e = cacheIndex[k]
  BY Zenon, CacheTyped DEF CInv
<1>3. PICK d : d = [e EXCEPT !.live = FALSE]
  BY Zenon
<1>4. /\ d \in CacheEntry /\ d.kind = e.kind /\ d.body = e.body /\ d.serial = e.serial
      /\ d.live = FALSE
  BY Zenon, <1>3 DEF CacheEntry
<1>5. cacheIndex' = [cacheIndex EXCEPT ![k] = d]
  BY Zenon, <1>1, <1>2, <1>3
<1>6. /\ cacheIndex' \in [CacheKeys -> CacheEntry] /\ cacheIndex'[k] = d
      /\ \A h \in CacheKeys : h # k => cacheIndex'[h] = cacheIndex[h]
  BY Zenon, <1>4, <1>5, CacheTyped DEF CInv
<1>7. IndexFades
  BY Zenon, <1>2, <1>4, <1>6 DEF IndexFades
<1>8. cacheBudget' \in [CacheEvents -> Nat]
  <2>1. "expire" \in CacheEvents
    BY DEF CacheEvents
  <2> QED
    BY Zenon, <1>1, <2>1, CacheSpendsTyped DEF CInv
<1>9. CacheTypeOK' /\ cacheObjects \subseteq cacheObjects' /\ cacheFaults \subseteq cacheFaults'
  BY Zenon, <1>1, <1>6, <1>8 DEF CInv, CacheTypeOK
<1>10. EntriesIssued' /\ CachedEntriesReadable'
  BY Zenon, <1>1, <1>6, <1>7, <1>9, FadingShared
<1>11. LocksExclude'
  BY Zenon, <1>1 DEF CInv, LocksExclude
<1>12. ASSUME NEW w \in CacheWorkers
       PROVE  Relies(cacheCall[w])'
  <2>1. PICK c \in CacheCall : c = cacheCall[w]
    BY Zenon, CacheTyped DEF CInv
  <2>2. Relies(c)
    BY Zenon, <2>1 DEF CInv
  <2>3. Relies(c)'
    BY Zenon, <1>1, <1>7, <1>9, <2>2, FadingKeeps
  <2> QED
    BY ZenonT(40), <1>1, <2>1, <2>3 DEF Relies
<1> QED
  BY Zenon, <1>9, <1>10, <1>11, <1>12 DEF CInv

-----------------------------------------------------------------------------
(* Steps that write entries and delete objects                             *)

\* What a call relies on is not touched by an entry for another key, nor by a
\* negative one, and the call that stores a body excludes those it would touch.
LEMMA PutLeaves ==
    ASSUME CInv, NEW w \in CacheWorkers, NEW v \in CacheWorkers, v # w,
           NEW c \in CacheCall, c = cacheCall[w], NEW d \in CacheCall, d = cacheCall[v],
           NEW e \in CacheEntry, e.serial = cacheSerial + 1,
           e.kind = "body" => c.at = "indexing",
           cacheIndex' = [cacheIndex EXCEPT ![c.key] = e], cacheSerial' = cacheSerial + 1,
           cacheObjects' = cacheObjects, cacheFaults' = cacheFaults
    PROVE  Relies(d)'
<1>1. /\ Relies(c) /\ Relies(d) /\ c.key \in CacheKeys /\ d.key \in CacheKeys
      /\ cacheSerial \in Nat /\ cacheIndex \in [CacheKeys -> CacheEntry] /\ d.seen \in Nat
  BY Zenon, CallFields, CacheTyped DEF CInv
<1>2. /\ cacheIndex'[c.key] = e
      /\ \A k \in CacheKeys : k # c.key => cacheIndex'[k] = cacheIndex[k]
  BY Zenon, <1>1
<1>3. \A k \in CacheKeys : k # c.key => CachedBody(k)' = CachedBody(k)
  BY Zenon, <1>2 DEF CachedBody
<1>4. CachedBody(c.key)' => c.at = "indexing"
  BY Zenon, <1>2 DEF CachedBody
<1>5. (CacheSound' <=> CacheSound) /\ (RequestSound' <=> RequestSound)
  BY Zenon DEF CacheSound, RequestSound
<1>6. d.at \in Removing \union {"stat"} => d.seen <= cacheSerial'
  <2> SUFFICES ASSUME d.seen <= cacheSerial
               PROVE  d.seen <= cacheSerial'
    BY Zenon, <1>1 DEF Relies
  <2> QED
    BY <1>1
<1>7. d.at \in Removing \union {"stat"} => e.serial # d.seen
  <2> SUFFICES ASSUME d.seen <= cacheSerial
               PROVE  e.serial # d.seen
    BY Zenon, <1>1 DEF Relies
  <2> QED
    BY <1>1
<1>8. d.at = "stat" /\ cacheIndex'[d.key].serial = d.seen /\ cacheIndex'[d.key].kind = "body"
        => cacheIndex'[d.key].body = d.body
  <2>1. CASE d.key = c.key
    BY Zenon, <1>2, <1>7, <2>1
  <2>2. CASE d.key # c.key
    BY Zenon, <1>1, <1>2, <2>2 DEF Relies
  <2> QED
    BY Zenon, <2>1, <2>2
<1>9. CacheSound' /\ d.at = "sweeping"
        => \A k \in CacheKeys : CachedBody(k)' => cacheIndex'[k].body \in d.marked
  <2> SUFFICES ASSUME CacheSound, d.at = "sweeping", NEW k \in CacheKeys, CachedBody(k)'
               PROVE  cacheIndex'[k].body \in d.marked
    BY Zenon, <1>5
  <2>1. "indexing" \in CachePublishing /\ d.at \in CachePublishing
    BY DEF CachePublishing
  <2>2. "publication" \notin cacheFaults
    BY Zenon DEF CacheSound
  <2>3. c.at # "indexing"
    BY Zenon, <2>1, <2>2 DEF CInv, LocksExclude
  <2>4. k # c.key
    BY Zenon, <1>4, <2>3
  <2> QED
    BY Zenon, <1>1, <1>2, <1>3, <2>4 DEF Relies
<1>10. CacheSound' /\ d.at \in Removing /\ cacheIndex'[d.key].serial = d.seen
         => ~CachedBody(d.key)'
  <2>1. CASE d.key = c.key
    BY Zenon, <1>2, <1>7, <2>1
  <2>2. CASE d.key # c.key
    BY Zenon, <1>1, <1>2, <1>3, <1>5, <2>2 DEF Relies
  <2> QED
    BY Zenon, <2>1, <2>2
<1>11. RequestSound /\ d.locked /\ d.key = c.key => ~CachedBody(d.key)'
  <2> SUFFICES ASSUME RequestSound, d.locked, d.key = c.key, c.at = "indexing"
               PROVE  FALSE
    BY Zenon, <1>4
  <2>1. c.at \in Fetching \ {"fetch"} /\ c.at \in Fetching
    BY DEF Fetching
  <2>2. c.locked
    BY Zenon, <1>1, <2>1 DEF Relies
  <2>3. "request" \notin cacheFaults
    BY Zenon DEF RequestSound
  <2> QED
    BY Zenon, <2>2, <2>3 DEF CInv, LocksExclude
<1>12. RequestSound' /\ d.at \in Fetching /\ d.kind = "get" => ~CachedBody(d.key)'
  <2>1. CASE d.key = c.key
    BY Zenon, <1>1, <1>5, <1>11, <2>1 DEF Relies
  <2>2. CASE d.key # c.key
    BY Zenon, <1>1, <1>3, <1>5, <2>2 DEF Relies
  <2> QED
    BY Zenon, <2>1, <2>2
<1>13. RequestSound' /\ d.locked /\ d.at \in Removing \union {"stat"} /\ CachedBody(d.key)'
         => cacheIndex'[d.key].serial = d.seen
  <2>1. CASE d.key = c.key
    BY Zenon, <1>5, <1>11, <2>1
  <2>2. CASE d.key # c.key
    BY Zenon, <1>1, <1>2, <1>3, <1>5, <2>2 DEF Relies
  <2> QED
    BY Zenon, <2>1, <2>2
<1>14. /\ d.at \in Fetching /\ d.kind = "get" => d.locked
       /\ d.at \in Fetching \ {"fetch"} => d.kind = "get" /\ d.body \in CacheBodies
       /\ CacheSound' /\ d.at = "indexing" => d.body \in cacheObjects'
  BY Zenon, <1>1, <1>5 DEF Relies
<1> QED
  BY Zenon, <1>6, <1>8, <1>9, <1>10, <1>12, <1>13, <1>14 DEF Relies

\* Writing an entry keeps the invariant.
LEMMA PutsKeeps ==
    ASSUME CInv, NEW w \in CacheWorkers, NEW kind \in {"negative", "body"},
           NEW body \in CacheBodies \union {NoBody},
           kind = "body" => cacheCall[w].at = "indexing" /\ body = cacheCall[w].body,
           PutsEntry(w, kind, body)
    PROVE  CInv'
<1>1. PICK c \in CacheCall : c = cacheCall[w]
  BY Zenon, CacheTyped DEF CInv
<1>2. PICK e : e = [kind |-> kind, body |-> body, live |-> TRUE, serial |-> cacheSerial + 1]
  BY Zenon
<1>3. /\ cacheIndex' = [cacheIndex EXCEPT ![c.key] = e] /\ cacheSerial' = cacheSerial + 1
      /\ cacheObjects' = cacheObjects /\ cacheFaults' = cacheFaults
      /\ cacheBudget' = cacheBudget /\ CacheEnds(w)
  BY Zenon, <1>1, <1>2 DEF PutsEntry
<1>4. cacheSerial \in Nat
  BY Zenon, CacheTyped DEF CInv
<1>5. e \in CacheEntry /\ e.serial = cacheSerial + 1 /\ e.kind = kind /\ e.body = body
  BY <1>2, <1>4 DEF CacheEntry
<1>6. /\ c.key \in CacheKeys /\ Relies(c)
      /\ cacheIndex \in [CacheKeys -> CacheEntry]
      /\ cacheIndex'[c.key] = e /\ cacheIndex' \in [CacheKeys -> CacheEntry]
      /\ \A k \in CacheKeys : k # c.key => cacheIndex'[k] = cacheIndex[k]
  BY Zenon, <1>1, <1>3, <1>5, CallFields, CacheTyped DEF CInv
<1>7. ASSUME NEW v \in CacheWorkers, v # w
      PROVE  Relies(cacheCall[v])'
  <2>1. PICK d \in CacheCall : d = cacheCall[v]
    BY Zenon, CacheTyped DEF CInv
  <2>2. e.kind = "body" => c.at = "indexing"
    BY Zenon, <1>1, <1>5
  <2>3. Relies(d)'
    BY Zenon, <1>1, <1>3, <1>5, <1>7, <2>1, <2>2, PutLeaves
  <2>4. cacheCall'[v] = d
    BY Zenon, <1>3, <1>7, <2>1, CallGoes, NoCallTyped DEF CacheEnds, CInv
  <2> QED
    BY ZenonT(40), <2>3, <2>4 DEF Relies
<1>8. CacheTypeOK'
  <2>1. cacheSerial' \in Nat
    BY <1>3, <1>4
  <2>2. cacheCall' \in [CacheWorkers -> CacheCall]
    BY Zenon, <1>3, CallGoes, NoCallTyped DEF CacheEnds, CInv
  <2> QED
    BY Zenon, <1>3, <1>6, <2>1, <2>2 DEF CInv, CacheTypeOK
<1>9. c.at = "indexing" => c.body \in CacheBodies
  <2>1. "indexing" \in Fetching \ {"fetch"}
    BY DEF Fetching
  <2> QED
    BY Zenon, <1>6, <2>1 DEF Relies
<1>10. EntriesIssued'
  <2>1. ASSUME NEW k \in CacheKeys
        PROVE  /\ cacheIndex'[k].serial <= cacheSerial'
               /\ cacheIndex'[k].kind = "body" => cacheIndex'[k].body \in CacheBodies
    <3>1. CASE k = c.key
      <4>1. cacheIndex'[k].serial <= cacheSerial'
        BY <1>3, <1>4, <1>5, <1>6, <3>1
      <4> QED
        BY Zenon, <4>1, <1>1, <1>5, <1>6, <1>9, <3>1
    <3>2. CASE k # c.key
      <4>1. cacheIndex[k].serial \in Nat /\ cacheIndex[k].serial <= cacheSerial
        BY Zenon, <1>6 DEF CInv, EntriesIssued, CacheEntry
      <4>2. cacheIndex'[k].serial <= cacheSerial'
        BY <1>3, <1>4, <1>6, <3>2, <4>1
      <4> QED
        BY Zenon, <4>2, <1>6, <3>2 DEF CInv, EntriesIssued
    <3> QED
      BY Zenon, <3>1, <3>2
  <2> QED
    BY Zenon, <2>1 DEF EntriesIssued
<1>11. CachedEntriesReadable'
  <2> SUFFICES ASSUME CacheSound, NEW k \in CacheKeys, CachedBody(k)'
               PROVE  cacheIndex'[k].body \in cacheObjects
    BY Zenon, <1>3 DEF CachedEntriesReadable, CacheSound
  <2>1. CASE k = c.key
    BY Zenon, <1>1, <1>5, <1>6, <2>1 DEF CachedBody, Relies
  <2>2. CASE k # c.key
    BY Zenon, <1>6, <2>2 DEF CachedBody, CInv, CachedEntriesReadable, CacheSound
  <2> QED
    BY Zenon, <2>1, <2>2
<1>12. PICK n : n = NoCall
  OBVIOUS
<1>13. /\ n \in CacheCall /\ CacheGoes(w, n) /\ n.broken \subseteq cacheFaults'
       /\ ~n.locked /\ n.at \notin CachePublishing /\ Relies(n)'
       /\ cacheFaults \subseteq cacheFaults'
  BY Zenon, <1>3, <1>12, CallEnded DEF CacheEnds
<1> QED
  BY Zenon, <1>7, <1>8, <1>10, <1>11, <1>13, StepKeeps

\* PutIndex keeps the invariant.
LEMMA PutIndexKeeps ==
    ASSUME CInv, NEW w \in CacheWorkers, PutIndex(w)
    PROVE  CInv'
<1>1. /\ cacheCall[w].at = "indexing" /\ PutsEntry(w, "body", cacheCall[w].body)
  BY Zenon DEF PutIndex
<1>2. cacheCall[w].body \in CacheBodies \union {NoBody}
  BY Zenon, CacheTyped, CallFields DEF CInv
<1>3. PICK body \in CacheBodies \union {NoBody} : body = cacheCall[w].body
  BY Zenon, <1>2
<1>4. PutsEntry(w, "body", body)
  BY Zenon, <1>1, <1>3
<1> QED
  BY Zenon, <1>1, <1>3, <1>4, PutsKeeps

\* StoreNegative keeps the invariant: its entry has no body.
LEMMA NegativeKeeps ==
    ASSUME CInv, NEW w \in CacheWorkers, StoreNegative(w)
    PROVE  CInv'
<1>1. PutsEntry(w, "negative", NoBody) /\ "negative" # "body"
  BY DEF StoreNegative
<1>2. NoBody \in CacheBodies \union {NoBody} /\ "negative" \in {"negative", "body"}
  BY Zenon
<1> QED
  BY Zenon, <1>1, <1>2, PutsKeeps

\* CollectSweep keeps the invariant: what it deletes no live entry has, and
\* nobody else is about to write one.
LEMMA SweepKeeps ==
    ASSUME CInv, NEW w \in CacheWorkers, CollectSweep(w)
    PROVE  CInv'
<1>1. PICK c \in CacheCall : c = cacheCall[w]
  BY Zenon, CacheTyped DEF CInv
<1>2. /\ c.at = "sweeping" /\ Relies(c) /\ CacheEnds(w)
      /\ cacheIndex' = cacheIndex /\ cacheSerial' = cacheSerial
      /\ cacheFaults' = cacheFaults /\ cacheBudget' = cacheBudget
  BY Zenon, <1>1 DEF CollectSweep, CInv
<1>3. /\ cacheObjects' \subseteq cacheObjects
      /\ \A b \in cacheObjects : b \in c.marked => b \in cacheObjects'
  BY Zenon, <1>1 DEF CollectSweep
<1>4. (CacheSound' <=> CacheSound) /\ (RequestSound' <=> RequestSound)
      /\ \A k \in CacheKeys : CachedBody(k)' <=> CachedBody(k)
  BY Zenon, <1>2 DEF CacheSound, RequestSound, CachedBody
<1>5. CachedEntriesReadable'
  <2> SUFFICES ASSUME CacheSound, NEW k \in CacheKeys, CachedBody(k)
               PROVE  cacheIndex'[k].body \in cacheObjects'
    BY Zenon, <1>4 DEF CachedEntriesReadable, CacheSound
  <2>1. cacheIndex[k].body \in cacheObjects
    BY Zenon DEF CInv, CachedEntriesReadable, CacheSound
  <2>2. cacheIndex[k].body \in c.marked
    BY Zenon, <1>2 DEF Relies
  <2> QED
    BY Zenon, <1>2, <1>3, <2>1, <2>2
<1>6. CacheTypeOK'
  <2>1. cacheCall' \in [CacheWorkers -> CacheCall]
    BY Zenon, <1>2, CallGoes, NoCallTyped DEF CacheEnds, CInv
  <2>2. cacheObjects' \in SUBSET CacheBodies
    BY Zenon, <1>3, CacheTyped DEF CInv
  <2> QED
    BY Zenon, <1>2, <2>1, <2>2 DEF CInv, CacheTypeOK
<1>7. EntriesIssued'
  BY Zenon, <1>2 DEF CInv, EntriesIssued
<1>8. ASSUME NEW v \in CacheWorkers, v # w
      PROVE  Relies(cacheCall[v])'
  <2>1. PICK d \in CacheCall : d = cacheCall[v]
    BY Zenon, CacheTyped DEF CInv
  <2>2. Relies(d)
    BY Zenon, <2>1 DEF CInv
  <2>3. CacheSound => d.at # "indexing"
    <3>1. "indexing" \in CachePublishing /\ "sweeping" \in CachePublishing
      BY DEF CachePublishing
    <3> QED
      BY Zenon, <1>1, <1>2, <1>8, <2>1, <3>1 DEF CInv, LocksExclude, CacheSound
  <2>4. Relies(d)'
    BY Zenon, <1>2, <1>4, <2>2, <2>3 DEF Relies, CachedBody
  <2>5. cacheCall'[v] = d
    BY Zenon, <1>2, <1>8, <2>1, CallGoes, NoCallTyped DEF CacheEnds, CInv
  <2> QED
    BY Zenon, <2>4, <2>5 DEF Relies
<1>9. PICK n : n = NoCall
  OBVIOUS
<1>10. /\ n \in CacheCall /\ CacheGoes(w, n) /\ n.broken \subseteq cacheFaults'
       /\ ~n.locked /\ n.at \notin CachePublishing /\ Relies(n)'
       /\ cacheFaults \subseteq cacheFaults'
  BY Zenon, <1>2, <1>9, CallEnded DEF CacheEnds
<1> QED
  BY Zenon, <1>5, <1>6, <1>7, <1>8, <1>10, StepKeeps

-----------------------------------------------------------------------------
(* The invariant                                                           *)

\* It holds of the empty cache.
LEMMA CInvInit == CacheInit => CInv
<1> SUFFICES ASSUME CacheInit
             PROVE  CInv
  OBVIOUS
<1>1. /\ \A k \in CacheKeys : cacheIndex[k] = NoEntry
      /\ \A w \in CacheWorkers : cacheCall[w] = NoCall
      /\ cacheObjects = {} /\ cacheSerial = 0 /\ cacheFaults = {}
  BY Zenon DEF CacheInit
<1>2. /\ NoEntry.serial = 0 /\ NoEntry.kind = "none" /\ NoEntry.kind # "body"
      /\ NoCall.at = "idle" /\ NoCall.broken = {} /\ NoCall.locked = FALSE
      /\ NoCall.at \notin CachePublishing
  BY DEF NoEntry, NoCall, CachePublishing
<1>3. CacheTypeOK
  <2>1. /\ cacheIndex \in [CacheKeys -> CacheEntry] /\ cacheCall \in [CacheWorkers -> CacheCall]
    BY Zenon, NoEntryTyped, NoCallTyped DEF CacheInit
  <2>2. cacheSerial \in Nat /\ cacheFaults \in SUBSET CacheFaultKinds
        /\ cacheObjects \in SUBSET CacheBodies
    BY <1>1
  <2>3. cacheBudget \in [CacheEvents -> Nat]
    BY Zenon, CacheAssumption DEF CacheInit
  <2> QED
    BY Zenon, <2>1, <2>2, <2>3 DEF CacheTypeOK
<1>4. EntriesIssued
  <2>1. \A k \in CacheKeys : cacheIndex[k].serial <= cacheSerial
    BY <1>1, <1>2
  <2> QED
    BY Zenon, <1>1, <1>2, <2>1 DEF EntriesIssued
<1>5. LocksExclude
  BY Zenon, <1>1, <1>2 DEF LocksExclude
<1>6. CachedEntriesReadable
  BY Zenon, <1>1, <1>2 DEF CachedEntriesReadable, CachedBody
<1>7. Relies(NoCall)
  <2>1. /\ NoCall.at \notin Fetching /\ NoCall.at \notin Removing \union {"stat"}
        /\ NoCall.at # "stat" /\ NoCall.at # "sweeping" /\ NoCall.at \notin Removing
        /\ NoCall.at # "indexing"
    BY <1>2 DEF Fetching, Removing
  <2> QED
    BY Zenon, <2>1 DEF Relies
<1> QED
  BY Zenon, <1>1, <1>3, <1>4, <1>5, <1>6, <1>7 DEF CInv

\* Every step keeps it.
LEMMA CInvNext == CInv /\ [CacheNext]_cacheVars => CInv'
<1> SUFFICES ASSUME CInv, [CacheNext]_cacheVars
             PROVE  CInv'
  OBVIOUS
<1>1. ASSUME NEW w \in CacheWorkers, NEW kind \in CacheKinds, NEW k \in CacheKeys,
             BeginCacheCall(w, kind, k)
      PROVE  CInv'
  BY Zenon, <1>1, BeginKeeps
<1>2. ASSUME NEW w \in CacheWorkers, CacheCallFails(w) \/ StoreErrs(w)
      PROVE  CInv'
  BY Zenon, <1>2, FailsKeeps, ErrsKeeps
<1>3. ASSUME NEW w \in CacheWorkers, NEW lock \in CacheLocks, SessionBreaks(w, lock)
      PROVE  CInv'
  BY Zenon, <1>3, BreakKeeps
<1>4. ASSUME NEW w \in CacheWorkers, AcquirePublicationLock(w) \/ AcquireRequestLock(w)
      PROVE  CInv'
  BY Zenon, <1>4, AcquirePublicationKeeps, AcquireRequestKeeps
<1>5. ASSUME NEW w \in CacheWorkers, LoadIndex(w) \/ StatObject(w) \/ RemoveIndex(w)
      PROVE  CInv'
  BY Zenon, <1>5, LoadKeeps, StatKeeps, RemoveKeeps
<1>6. ASSUME NEW w \in CacheWorkers, FetchRaw(w) \/ Admit(w) \/ PutCachedObject(w)
      PROVE  CInv'
  BY Zenon, <1>6, FetchKeeps, AdmitKeeps, PutObjectKeeps
<1>7. ASSUME NEW w \in CacheWorkers, PutIndex(w) \/ StoreNegative(w)
      PROVE  CInv'
  BY Zenon, <1>7, PutIndexKeeps, NegativeKeeps
<1>8. ASSUME NEW w \in CacheWorkers, Invalidate(w) \/ CollectMark(w) \/ CollectSweep(w)
      PROVE  CInv'
  BY Zenon, <1>8, InvalidateKeeps, MarkKeeps, SweepKeeps
<1>9. ASSUME NEW k \in CacheKeys, EntryExpires(k)
      PROVE  CInv'
  BY Zenon, <1>9, ExpiresKeeps
<1>10. CASE UNCHANGED cacheVars
  BY ZenonT(40), <1>10 DEF cacheVars, CInv, CacheTypeOK, EntriesIssued, LocksExclude,
     CachedEntriesReadable, Relies, CacheSound, RequestSound, CachedBody
<1> QED
  BY Zenon, <1>1, <1>2, <1>3, <1>4, <1>5, <1>6, <1>7, <1>8, <1>9, <1>10 DEF CacheNext

\* The invariant holds in every behaviour of the cache.
THEOREM CacheInvariant == CacheSpec => []CInv
<1>1. CInv /\ [CacheNext]_cacheVars => CInv'
  BY CInvNext
<1> QED
  BY CInvInit, <1>1, PTL DEF CacheSpec

\* Every entry of the cache, whatever requests and collectors do at a time, is
\* of the types the code gives it.
THEOREM CacheTypeCorrect == CacheSpec => []CacheTypeOK
<1>1. CInv => CacheTypeOK
  BY Zenon DEF CInv
<1> QED
  BY CacheInvariant, <1>1, PTL

\* CollectGarbage and Store never leave a live entry without its object, for
\* any number of requests, collectors, keys and bodies.
THEOREM EntriesReadable == CacheSpec => []CachedEntriesReadable
<1>1. CInv => CachedEntriesReadable
  BY Zenon DEF CInv
<1> QED
  BY CacheInvariant, <1>1, PTL

\* The second load under the request lock makes concurrent requests for a path
\* fetch it once.
THEOREM PathFetchedOnce == CacheSpec => []FetchedOnce
<1>1. CInv => FetchedOnce
  BY Zenon DEF CInv, FetchedOnce, Relies, RequestSound, Fetching
<1> QED
  BY CacheInvariant, <1>1, PTL

-----------------------------------------------------------------------------
(* Live entries are only removed by an invalidation                        *)

\* What FreshEntriesSurvive says of one entry and one step
Survives(k) ==
    /\ cacheFaults \intersect {"publication", "store"} = {}
    /\ CachedBody(k) /\ cacheIndex'[k].kind = "none"
    => \E w \in CacheWorkers :
         cacheCall[w].at = "deleting" /\ cacheCall[w].key = k

\* An entry whose kind does not become "none" survives.
LEMMA KindSurvives ==
    ASSUME NEW k \in CacheKeys, CachedBody(k) => cacheIndex'[k].kind # "none"
    PROVE  Survives(k)
  BY Zenon DEF Survives

\* An entry that a step leaves alone survives it.
LEMMA SameSurvives ==
    ASSUME cacheIndex' = cacheIndex, NEW k \in CacheKeys
    PROVE  Survives(k)
<1>1. "body" # "none"
  OBVIOUS
<1> QED
  BY Zenon, <1>1 DEF Survives, CachedBody

\* removeIndex only removes an entry that is of no use.
LEMMA RemoveSurvives ==
    ASSUME CInv, NEW w \in CacheWorkers, RemoveIndex(w), NEW k \in CacheKeys
    PROVE  Survives(k)
<1>1. PICK c \in CacheCall : c = cacheCall[w]
  BY Zenon, CacheTyped DEF CInv
<1>2. /\ c.at = "removing" /\ Relies(c) /\ c.key \in CacheKeys
      /\ cacheIndex \in [CacheKeys -> CacheEntry]
  BY Zenon, <1>1, CallFields, CacheTyped DEF RemoveIndex, CInv
<1>3. CASE cacheIndex[c.key].serial = c.seen
  <2>1. cacheIndex' = [cacheIndex EXCEPT ![c.key] = NoEntry]
    BY Zenon, <1>1, <1>3 DEF RemoveIndex
  <2>2. CASE k = c.key
    <3>1. c.at \in Removing
      BY <1>2 DEF Removing
    <3>2. CacheSound => ~CachedBody(k)
      BY Zenon, <1>2, <1>3, <2>2, <3>1 DEF Relies
    <3> QED
      BY Zenon, <3>2 DEF Survives, CacheSound
  <2>3. CASE k # c.key
    <3>1. cacheIndex'[k] = cacheIndex[k] /\ "body" # "none"
      BY <1>2, <2>1, <2>3
    <3> QED
      BY Zenon, <3>1 DEF Survives, CachedBody
  <2> QED
    BY Zenon, <2>2, <2>3
<1>4. CASE cacheIndex[c.key].serial # c.seen
  <2>1. cacheIndex' = cacheIndex
    BY Zenon, <1>1, <1>4 DEF RemoveIndex
  <2> QED
    BY Zenon, <2>1, SameSurvives
<1> QED
  BY Zenon, <1>3, <1>4

\* The collector only removes expired entries.
LEMMA MarkSurvives ==
    ASSUME NEW w \in CacheWorkers, NEW keys, MarkReading(w, keys), NEW k \in CacheKeys
    PROVE  Survives(k)
<1>1. cacheIndex[k].live => cacheIndex'[k] = cacheIndex[k]
  BY Zenon DEF MarkReading
<1>2. "body" # "none"
  OBVIOUS
<1> QED
  BY Zenon, <1>1, <1>2 DEF Survives, CachedBody

\* A newer answer is not the lack of one.
LEMMA PutSurvives ==
    ASSUME CInv, NEW w \in CacheWorkers, PutIndex(w) \/ StoreNegative(w), NEW k \in CacheKeys
    PROVE  Survives(k)
<1>1. PICK kind, body : (kind = "negative" \/ kind = "body") /\ PutsEntry(w, kind, body)
  BY Zenon DEF PutIndex, StoreNegative
<1>2. PICK e : e = [kind |-> kind, body |-> body, live |-> TRUE, serial |-> cacheSerial']
  BY Zenon
<1>3. e.kind = kind /\ kind # "none" /\ "body" # "none"
  BY <1>1, <1>2
<1>4. PICK h : h = cacheCall[w].key
  OBVIOUS
<1>5. cacheIndex' = [cacheIndex EXCEPT ![h] = e]
  BY Zenon, <1>1, <1>2, <1>4 DEF PutsEntry
<1>6. cacheIndex \in [CacheKeys -> CacheEntry]
  BY Zenon, CacheTyped DEF CInv
<1>7. cacheIndex'[k] = e \/ cacheIndex'[k] = cacheIndex[k]
  BY Zenon, <1>5, <1>6
<1>8. CachedBody(k) => cacheIndex'[k].kind # "none"
  BY Zenon, <1>3, <1>7 DEF CachedBody
<1> QED
  BY Zenon, <1>8, KindSurvives

\* An invalidation is what an entry may give way to.
LEMMA InvalidateSurvives ==
    ASSUME CInv, NEW w \in CacheWorkers, Invalidate(w), NEW k \in CacheKeys
    PROVE  Survives(k)
<1>1. /\ cacheCall[w].at = "deleting"
      /\ cacheIndex' = [cacheIndex EXCEPT ![cacheCall[w].key] = NoEntry]
      /\ cacheIndex \in [CacheKeys -> CacheEntry]
  BY Zenon, CacheTyped DEF Invalidate, CInv
<1>2. CASE k = cacheCall[w].key
  BY Zenon, <1>1, <1>2 DEF Survives
<1>3. CASE k # cacheCall[w].key
  <2>1. cacheIndex'[k] = cacheIndex[k] /\ "body" # "none"
    BY <1>1, <1>3
  <2> QED
    BY Zenon, <2>1 DEF Survives, CachedBody
<1> QED
  BY Zenon, <1>2, <1>3

\* An entry that expires is still there.
LEMMA ExpirySurvives ==
    ASSUME CInv, NEW h \in CacheKeys, EntryExpires(h), NEW k \in CacheKeys
    PROVE  Survives(k)
<1>1. PICK e \in CacheEntry : e = cacheIndex[h]
  BY Zenon, CacheTyped DEF CInv
<1>2. PICK d : d = [e EXCEPT !.live = FALSE]
  BY Zenon
<1>3. d.kind = e.kind
  BY Zenon, <1>2 DEF CacheEntry
<1>4. cacheIndex' = [cacheIndex EXCEPT ![h] = d] /\ cacheIndex \in [CacheKeys -> CacheEntry]
  BY Zenon, <1>1, <1>2, CacheTyped DEF EntryExpires, CInv
<1>5. cacheIndex'[k].kind = cacheIndex[k].kind
  BY Zenon, <1>1, <1>3, <1>4
<1>6. "body" # "none"
  OBVIOUS
<1> QED
  BY Zenon, <1>5, <1>6 DEF Survives, CachedBody

\* A failed operation removes no live entry.
LEMMA ErrsSurvives ==
    ASSUME NEW w \in CacheWorkers, StoreErrs(w), NEW k \in CacheKeys
    PROVE  Survives(k)
<1>1. CASE cacheIndex' = cacheIndex
  BY Zenon, <1>1, SameSurvives
<1>2. CASE \E h \in CacheKeys : MarkReading(w, CacheKeys \ {h})
  <2>1. PICK keys : MarkReading(w, keys)
    BY Zenon, <1>2
  <2> QED
    BY Zenon, <2>1, MarkSurvives
<1> QED
  BY Zenon, <1>1, <1>2 DEF StoreErrs, AdmitReading

\* No step but an invalidation removes a live entry.
LEMMA StepSurvives ==
    ASSUME CInv, CacheNext, NEW k \in CacheKeys
    PROVE  Survives(k)
<1>1. ASSUME NEW w \in CacheWorkers, NEW kind \in CacheKinds, NEW h \in CacheKeys,
             BeginCacheCall(w, kind, h)
      PROVE  Survives(k)
  BY Zenon, <1>1, SameSurvives DEF BeginCacheCall
<1>2. ASSUME NEW w \in CacheWorkers, CacheCallFails(w) \/ StoreErrs(w)
      PROVE  Survives(k)
  BY Zenon, <1>2, SameSurvives, ErrsSurvives DEF CacheCallFails
<1>3. ASSUME NEW w \in CacheWorkers, NEW lock \in CacheLocks, SessionBreaks(w, lock)
      PROVE  Survives(k)
  BY Zenon, <1>3, SameSurvives DEF SessionBreaks
<1>4. ASSUME NEW w \in CacheWorkers, AcquirePublicationLock(w) \/ AcquireRequestLock(w)
      PROVE  Survives(k)
  BY Zenon, <1>4, SameSurvives DEF AcquirePublicationLock, EntersPublication, AcquireRequestLock
<1>5. ASSUME NEW w \in CacheWorkers, LoadIndex(w) \/ StatObject(w) \/ FetchRaw(w)
      PROVE  Survives(k)
  BY Zenon, <1>5, SameSurvives DEF LoadIndex, StatObject, FetchRaw
<1>6. ASSUME NEW w \in CacheWorkers, Admit(w) \/ PutCachedObject(w) \/ CollectSweep(w)
      PROVE  Survives(k)
  BY Zenon, <1>6, SameSurvives DEF Admit, AdmitReading, PutCachedObject, CollectSweep
<1>7. ASSUME NEW w \in CacheWorkers, RemoveIndex(w) \/ PutIndex(w) \/ StoreNegative(w)
      PROVE  Survives(k)
  BY Zenon, <1>7, RemoveSurvives, PutSurvives
<1>8. ASSUME NEW w \in CacheWorkers, Invalidate(w) \/ CollectMark(w)
      PROVE  Survives(k)
  BY Zenon, <1>8, InvalidateSurvives, MarkSurvives DEF CollectMark
<1>9. ASSUME NEW h \in CacheKeys, EntryExpires(h)
      PROVE  Survives(k)
  BY Zenon, <1>9, ExpirySurvives
<1> QED
  BY Zenon, <1>1, <1>2, <1>3, <1>4, <1>5, <1>6, <1>7, <1>8, <1>9 DEF CacheNext

\* removeIndex and the collector never remove an entry that another request has
\* stored since they read the old one.
THEOREM EntriesSurvive == CacheSpec => FreshEntriesSurvive
<1>1. CInv /\ [CacheNext]_cacheVars => [\A k \in CacheKeys : Survives(k)]_cacheVars
  BY Zenon, StepSurvives
<1>2. FreshEntriesSurvive <=> [][\A k \in CacheKeys : Survives(k)]_cacheVars
  BY Zenon DEF FreshEntriesSurvive, Survives
<1> QED
  BY CacheInvariant, <1>1, <1>2, PTL DEF CacheSpec

-----------------------------------------------------------------------------
(* The quota                                                               *)

CallAdmitted == {"putting", "indexing"}
QuotaLocked == ~({"publication", "quota"} \subseteq cacheFaults)

\* As long as the admission lock or the publication lock holds, one call at a
\* time is past its admission, and while every entry can be read, what that
\* call stores fits beside the entries of the other keys.
OneAdmitted ==
    QuotaLocked => \A v, w \in CacheWorkers :
        cacheCall[v].at \in CallAdmitted /\ cacheCall[w].at \in CallAdmitted => v = w
Fits(c) == CacheUsed(CacheKeys \ {c.key}) + BodySize[c.body] <= CacheLimit
AdmittedFits ==
    QuotaLocked /\ "store" \notin cacheFaults
      => \A w \in CacheWorkers : cacheCall[w].at \in CallAdmitted => Fits(cacheCall[w])

UsedInv ==
    IsFiniteSet(CacheBytes(CacheKeys)) /\ OneAdmitted /\ AdmittedFits /\ CacheWithinQuota

\* No entry comes to life, and none changes its body.
Shrinks ==
    \A k \in CacheKeys : CachedBody(k)' =>
        CachedBody(k) /\ cacheIndex'[k].body = cacheIndex[k].body

\* No call gets past its admission, and none that is changes what it stores.
NoneAdmitted ==
    \A v \in CacheWorkers : cacheCall'[v].at \in CallAdmitted =>
        /\ cacheCall[v].at \in CallAdmitted
        /\ cacheCall'[v].key = cacheCall[v].key /\ cacheCall'[v].body = cacheCall[v].body

\* What the bytes of the live entries are.
LEMMA BytesOfEntries ==
    ASSUME NEW keys, NEW x
    PROVE  x \in CacheBytes(keys) <=>
             \E k \in keys : CachedBody(k) /\ x \in {k} \X (1 .. BodySize[cacheIndex[k].body])
  BY Zenon DEF CacheBytes

\* An index that shrinks takes no more than before.
LEMMA ShrinkingUses ==
    ASSUME Shrinks, NEW keys \in SUBSET CacheKeys, IsFiniteSet(CacheBytes(keys))
    PROVE  /\ IsFiniteSet(CacheBytes(keys)') /\ CacheUsed(keys)' <= CacheUsed(keys)
           /\ CacheUsed(keys)' \in Nat /\ CacheUsed(keys) \in Nat
<1>1. PICK S, T : S = CacheBytes(keys) /\ T = CacheBytes(keys)'
  BY Zenon
<1>2. ASSUME NEW x \in T PROVE x \in S
  <2>1. PICK k \in keys : /\ CachedBody(k)' /\ x \in {k} \X (1 .. BodySize[cacheIndex'[k].body])
    BY Zenon, <1>1, <1>2 DEF CacheBytes
  <2>2. CachedBody(k) /\ cacheIndex'[k].body = cacheIndex[k].body
    BY Zenon, <2>1 DEF Shrinks
  <2> QED
    BY Zenon, <1>1, <2>1, <2>2, BytesOfEntries
<1>3. T \in SUBSET S /\ IsFiniteSet(S)
  BY Zenon, <1>1, <1>2
<1>4. IsFiniteSet(T) /\ Cardinality(T) <= Cardinality(S)
  BY Zenon, <1>3, FS_Subset
<1>5. Cardinality(T) \in Nat /\ Cardinality(S) \in Nat
  BY Zenon, <1>3, <1>4, FS_CardinalityType
<1> QED
  BY Zenon, <1>1, <1>4, <1>5 DEF CacheUsed

\* The entries of some keys take no more than those of all.
LEMMA FewerKeys ==
    ASSUME NEW keys \in SUBSET CacheKeys, IsFiniteSet(CacheBytes(CacheKeys))
    PROVE  IsFiniteSet(CacheBytes(keys))
<1>1. CacheBytes(keys) \in SUBSET CacheBytes(CacheKeys)
  BY Zenon, BytesOfEntries
<1> QED
  BY Zenon, <1>1, FS_Subset

\* A step that only shrinks the index and admits nobody stays within the quota.
LEMMA ShrinkKeeps ==
    ASSUME CInv, UsedInv, Shrinks, NoneAdmitted, cacheFaults \subseteq cacheFaults'
    PROVE  UsedInv'
<1>1. QuotaLocked' => QuotaLocked
  BY Zenon DEF QuotaLocked
<1>2. /\ IsFiniteSet(CacheBytes(CacheKeys))' /\ CacheUsed(CacheKeys)' <= CacheUsed(CacheKeys)
      /\ CacheUsed(CacheKeys)' \in Nat /\ CacheUsed(CacheKeys) \in Nat
  <2>1. CacheKeys \in SUBSET CacheKeys
    BY Zenon
  <2> QED
    BY Zenon, <2>1, ShrinkingUses DEF UsedInv
<1>3. OneAdmitted'
  BY Zenon, <1>1 DEF UsedInv, OneAdmitted, NoneAdmitted
<1>4. AdmittedFits'
  <2> SUFFICES ASSUME QuotaLocked', "store" \notin cacheFaults', NEW w \in CacheWorkers,
                      cacheCall'[w].at \in CallAdmitted
               PROVE  Fits(cacheCall[w])'
    BY Zenon DEF AdmittedFits
  <2>1. /\ cacheCall[w].at \in CallAdmitted
        /\ cacheCall'[w].key = cacheCall[w].key /\ cacheCall'[w].body = cacheCall[w].body
    BY Zenon DEF NoneAdmitted
  <2>2. Fits(cacheCall[w])
    BY Zenon, <1>1, <2>1 DEF UsedInv, AdmittedFits
  <2>3. PICK keys, size : keys = CacheKeys \ {cacheCall[w].key} /\ size = BodySize[cacheCall[w].body]
    BY Zenon
  <2>4. /\ CacheUsed(keys)' <= CacheUsed(keys) /\ CacheUsed(keys)' \in Nat
        /\ CacheUsed(keys) \in Nat
    BY Zenon, <2>3, FewerKeys, ShrinkingUses DEF UsedInv
  <2>5. size \in Nat
    <3>1. /\ cacheCall[w] \in CacheCall /\ Relies(cacheCall[w])
          /\ cacheCall[w].at \in Fetching \ {"fetch"}
      BY Zenon, <2>1, CacheTyped DEF CInv, CallAdmitted, Fetching
    <3> QED
      BY Zenon, <2>3, <3>1, CacheAssumption DEF Relies
  <2>6. CacheUsed(keys) + size <= CacheLimit /\ CacheLimit \in Nat
    BY Zenon, <2>2, <2>3, CacheAssumption DEF Fits
  <2>7. CacheUsed(keys)' + size <= CacheLimit
    BY <2>4, <2>5, <2>6
  <2> QED
    BY Zenon, <2>1, <2>3, <2>7 DEF Fits
<1>5. CacheWithinQuota'
  <2> SUFFICES ASSUME QuotaLocked', "store" \notin cacheFaults'
               PROVE  CacheUsed(CacheKeys)' <= CacheLimit
    BY Zenon DEF CacheWithinQuota, QuotaLocked
  <2>1. CacheUsed(CacheKeys) <= CacheLimit
    BY Zenon, <1>1 DEF UsedInv, CacheWithinQuota, QuotaLocked
  <2> QED
    BY <1>2, <2>1, CacheAssumption
<1> QED
  BY Zenon, <1>2, <1>3, <1>4, <1>5 DEF UsedInv

\* An index that stays shrinks.
LEMMA SameShrinks ==
    ASSUME cacheIndex' = cacheIndex
    PROVE  Shrinks
  BY Zenon DEF Shrinks, CachedBody

\* A call that goes elsewhere, or goes on to store what it was admitted to
\* store, admits nobody.
LEMMA GoesOn ==
    ASSUME CInv, NEW w \in CacheWorkers, NEW n, CacheGoes(w, n),
           n.at \in CallAdmitted => /\ cacheCall[w].at \in CallAdmitted
                                /\ n.key = cacheCall[w].key /\ n.body = cacheCall[w].body
    PROVE  NoneAdmitted
<1>1. cacheCall'[w] = n /\ \A v \in CacheWorkers : v # w => cacheCall'[v] = cacheCall[v]
  BY Zenon DEF CInv, CacheTypeOK, CacheGoes
<1> QED
  BY Zenon, <1>1 DEF NoneAdmitted

\* The end of a call admits nobody.
LEMMA EndAdmitsNone ==
    ASSUME CInv, NEW w \in CacheWorkers, CacheEnds(w)
    PROVE  NoneAdmitted
<1>1. NoCall.at \notin CallAdmitted
  BY DEF NoCall, CallAdmitted
<1> QED
  BY Zenon, <1>1, GoesOn DEF CacheEnds

\* Whoever is admitted is alone: others that are past their admission would
\* hold the admission lock, or the publication lock, or both have broken.
LEMMA AdmittedAlone ==
    ASSUME CInv, QuotaLocked, NEW w \in CacheWorkers, cacheCall[w].at = "admit",
           \A v \in CacheWorkers : ~HoldsQuota(v), NEW v \in CacheWorkers
    PROVE  cacheCall[v].at \notin CallAdmitted
<1>1. "admit" \in CachePublishing /\ "admit" \notin CallAdmitted /\ CallAdmitted \subseteq CachePublishing
  BY DEF CachePublishing, CallAdmitted
<1>2. CASE "quota" \notin cacheFaults
  BY Zenon, <1>2 DEF CInv, LocksExclude, HoldsQuota, CallAdmitted
<1>3. CASE "publication" \notin cacheFaults
  BY Zenon, <1>1, <1>3 DEF CInv, LocksExclude
<1> QED
  BY Zenon, <1>2, <1>3 DEF QuotaLocked

\* admit stays within the quota, if what it could not read is on record.
LEMMA AdmissionKeeps ==
    ASSUME CInv, UsedInv, NEW w \in CacheWorkers, NEW keys \in SUBSET CacheKeys,
           AdmitReading(w, keys), \A v \in CacheWorkers : ~HoldsQuota(v),
           cacheFaults \subseteq cacheFaults', "store" \notin cacheFaults' => keys = CacheKeys
    PROVE  UsedInv'
<1>1. PICK c \in CacheCall : c = cacheCall[w]
  BY Zenon, CacheTyped DEF CInv
<1>2. /\ c.at = "admit" /\ cacheIndex' = cacheIndex /\ Relies(c)
  BY Zenon, <1>1 DEF AdmitReading, CInv
<1>3. Shrinks
  BY Zenon, <1>2, SameShrinks
<1>4. CASE CacheEnds(w)
  BY Zenon, <1>3, <1>4, EndAdmitsNone, ShrinkKeeps
<1>5. CASE ~CacheEnds(w)
  <2>1. PICK n : n = [c EXCEPT !.at = "putting"]
    BY Zenon
  <2>2. n \in CacheCall /\ n.at = "putting" /\ n.key = c.key /\ n.body = c.body
    <3>1. "putting" \in {"idle", "load", "stat", "request", "fetch"} \union CacheWaiting
                          \union CachePublishing
      BY DEF CachePublishing
    <3> QED
      BY Zenon, <2>1, <3>1 DEF CacheCall
  <2>3. CacheGoes(w, n) /\ ~(CacheUsed(keys \ {c.key}) + BodySize[c.body] > CacheLimit)
    BY Zenon, <1>1, <1>5, <2>1 DEF AdmitReading
  <2>4. cacheCall'[w] = n /\ \A v \in CacheWorkers : v # w => cacheCall'[v] = cacheCall[v]
    BY Zenon, <2>2, <2>3, CallGoes DEF CInv
  <2>5. QuotaLocked' => QuotaLocked
    BY Zenon DEF QuotaLocked
  <2>6. QuotaLocked' => \A v \in CacheWorkers : cacheCall'[v].at \in CallAdmitted => v = w
    BY Zenon, <1>1, <1>2, <2>4, <2>5, AdmittedAlone
  <2>7. OneAdmitted'
    BY Zenon, <2>6 DEF OneAdmitted
  <2>8. \A S : CacheBytes(S)' = CacheBytes(S) /\ CacheUsed(S)' = CacheUsed(S)
    BY Zenon, <1>2 DEF CacheBytes, CacheUsed, CachedBody
  <2>9. "store" \notin cacheFaults' => Fits(cacheCall[w])'
    <3> SUFFICES ASSUME "store" \notin cacheFaults'
                 PROVE  CacheUsed(CacheKeys \ {c.key}) + BodySize[c.body] <= CacheLimit
      BY Zenon, <2>2, <2>4, <2>8 DEF Fits
    <3>1. CacheUsed(CacheKeys \ {c.key}) \in Nat
      BY Zenon, FewerKeys, FS_CardinalityType DEF UsedInv, CacheUsed
    <3>2. c.at \in Fetching \ {"fetch"}
      BY <1>2 DEF Fetching
    <3>3. BodySize[c.body] \in Nat /\ CacheLimit \in Nat
      BY Zenon, <1>2, <3>2, CacheAssumption DEF Relies
    <3>4. ~(CacheUsed(CacheKeys \ {c.key}) + BodySize[c.body] > CacheLimit)
      BY Zenon, <2>3
    <3> QED
      BY <3>1, <3>3, <3>4
  <2>10. AdmittedFits'
    BY Zenon, <2>6, <2>9 DEF AdmittedFits
  <2>11. CacheWithinQuota'
    <3>1. "store" \notin cacheFaults' => "store" \notin cacheFaults
      BY Zenon
    <3> QED
      BY Zenon, <2>5, <2>8, <3>1 DEF UsedInv, CacheWithinQuota, QuotaLocked
  <2> QED
    BY Zenon, <2>7, <2>8, <2>10, <2>11 DEF UsedInv
<1> QED
  BY Zenon, <1>4, <1>5

\* Store writes an entry that fits beside the others; nobody else is past its
\* admission then.
LEMMA StoredKeeps ==
    ASSUME CInv, UsedInv, NEW w \in CacheWorkers, PutIndex(w)
    PROVE  UsedInv'
<1>1. PICK c \in CacheCall : c = cacheCall[w]
  BY Zenon, CacheTyped DEF CInv
<1>2. PICK e : e = [kind |-> "body", body |-> c.body, live |-> TRUE, serial |-> cacheSerial']
  BY Zenon
<1>3. /\ c.at = "indexing" /\ c.at \in CallAdmitted /\ c.at \in Fetching \ {"fetch"} /\ Relies(c)
      /\ cacheIndex' = [cacheIndex EXCEPT ![c.key] = e] /\ CacheEnds(w)
      /\ cacheFaults' = cacheFaults /\ cacheIndex \in [CacheKeys -> CacheEntry]
      /\ c.key \in CacheKeys
  <2>1. c.at = "indexing"
    BY Zenon, <1>1 DEF PutIndex
  <2>2. c.at \in CallAdmitted /\ c.at \in Fetching \ {"fetch"}
    BY <2>1 DEF CallAdmitted, Fetching
  <2> QED
    BY Zenon, <1>1, <1>2, <2>1, <2>2, CallFields, CacheTyped DEF PutIndex, PutsEntry, CInv
<1>4. e.kind = "body" /\ e.body = c.body /\ e.live = TRUE
  BY Zenon, <1>2
<1>5. cacheIndex'[c.key] = e /\ \A k \in CacheKeys : k # c.key => cacheIndex'[k] = cacheIndex[k]
  BY Zenon, <1>3
<1>6. PICK S, T, U, size : /\ S = CacheBytes(CacheKeys \ {c.key}) /\ U = CacheBytes(CacheKeys)'
                           /\ size = BodySize[c.body] /\ T = {c.key} \X (1 .. size)
  BY Zenon
<1>7. size \in Nat /\ CacheLimit \in Nat
  BY Zenon, <1>3, <1>6, CacheAssumption DEF Relies
<1>8. U \in SUBSET (S \cup T)
  <2>1. ASSUME NEW x \in U PROVE x \in S \cup T
    <3>1. PICK k \in CacheKeys : CachedBody(k)' /\ x \in {k} \X (1 .. BodySize[cacheIndex'[k].body])
      BY Zenon, <1>6, <2>1 DEF CacheBytes
    <3>2. CASE k = c.key
      BY Zenon, <1>4, <1>5, <1>6, <3>1, <3>2
    <3>3. CASE k # c.key
      <4>1. /\ CachedBody(k) /\ x \in {k} \X (1 .. BodySize[cacheIndex[k].body])
            /\ k \in CacheKeys \ {c.key}
        BY Zenon, <1>5, <3>1, <3>3 DEF CachedBody
      <4>2. x \in S
        BY Zenon, <1>6, <4>1, BytesOfEntries
      <4> QED
        BY Zenon, <4>2
    <3> QED
      BY Zenon, <3>2, <3>3
  <2> QED
    BY Zenon, <2>1
<1>9. IsFiniteSet(S)
  BY Zenon, <1>6, FewerKeys DEF UsedInv
<1>10. IsFiniteSet(T) /\ Cardinality(T) = size
  <2>1. /\ IsFiniteSet(1 .. size) /\ Cardinality(1 .. size) = IF 1 > size THEN 0 ELSE size - 1 + 1
    BY <1>7, FS_Interval
  <2>2. Cardinality(1 .. size) = size
    BY <1>7, <2>1
  <2>3. IsFiniteSet({c.key}) /\ Cardinality({c.key}) = 1
    BY Zenon, FS_Singleton
  <2>4. IsFiniteSet(T) /\ Cardinality(T) = Cardinality({c.key}) * Cardinality(1 .. size)
    BY Zenon, <1>6, <2>1, <2>3, FS_Product
  <2>5. Cardinality(T) = 1 * size
    BY Zenon, <2>2, <2>3, <2>4
  <2> QED
    BY <1>7, <2>4, <2>5
<1>11. /\ IsFiniteSet(U) /\ Cardinality(U) \in Nat /\ Cardinality(U) <= Cardinality(S) + size
       /\ Cardinality(S) \in Nat
  <2>1. /\ IsFiniteSet(S \cup T)
        /\ Cardinality(S \cup T) = Cardinality(S) + Cardinality(T) - Cardinality(S \cap T)
    BY Zenon, <1>9, <1>10, FS_Union
  <2>2. IsFiniteSet(U) /\ Cardinality(U) <= Cardinality(S \cup T)
    BY Zenon, <1>8, <2>1, FS_Subset
  <2>3. S \cap T \in SUBSET S
    BY Zenon
  <2>4. IsFiniteSet(S \cap T)
    BY Zenon, <1>9, <2>3, FS_Subset
  <2>5. /\ Cardinality(U) \in Nat /\ Cardinality(S) \in Nat /\ Cardinality(S \cap T) \in Nat
        /\ Cardinality(S \cup T) \in Nat
    BY Zenon, <1>9, <2>1, <2>2, <2>4, FS_CardinalityType
  <2> QED
    BY <1>7, <1>10, <2>1, <2>2, <2>5
<1>12. cacheCall'[w] = NoCall /\ \A v \in CacheWorkers : v # w => cacheCall'[v] = cacheCall[v]
  BY Zenon, <1>3, NoCallTyped, CallGoes DEF CInv, CacheEnds
<1>13. NoCall.at \notin CallAdmitted
  BY DEF NoCall, CallAdmitted
<1>14. (QuotaLocked' <=> QuotaLocked) /\ ("store" \notin cacheFaults' <=> "store" \notin cacheFaults)
  BY Zenon, <1>3 DEF QuotaLocked
<1>15. QuotaLocked' => \A v \in CacheWorkers : cacheCall'[v].at \notin CallAdmitted
  BY Zenon, <1>1, <1>3, <1>12, <1>13, <1>14 DEF UsedInv, OneAdmitted
<1>16. CacheWithinQuota'
  <2> SUFFICES ASSUME QuotaLocked, "store" \notin cacheFaults
               PROVE  CacheUsed(CacheKeys)' <= CacheLimit
    BY Zenon, <1>14 DEF CacheWithinQuota, QuotaLocked
  <2>1. Fits(c)
    BY Zenon, <1>1, <1>3 DEF UsedInv, AdmittedFits
  <2>2. Cardinality(S) + size <= CacheLimit
    BY Zenon, <1>6, <2>1 DEF Fits, CacheUsed
  <2>3. Cardinality(U) <= CacheLimit
    BY <1>7, <1>11, <2>2
  <2> QED
    BY Zenon, <1>6, <2>3 DEF CacheUsed
<1> QED
  BY Zenon, <1>6, <1>11, <1>15, <1>16 DEF UsedInv, OneAdmitted, AdmittedFits

\* A call that misses is not past its admission.
LEMMA MissAdmitsNone ==
    ASSUME CInv, NEW w \in CacheWorkers, CacheGoes(w, Missed(cacheCall[w]))
    PROVE  NoneAdmitted
<1>1. PICK c \in CacheCall : c = cacheCall[w]
  BY Zenon, CacheTyped DEF CInv
<1>2. PICK n : n = Missed(c)
  BY Zenon
<1>3. n.at = "request" \/ n.at = "fetch"
  BY Zenon, <1>2 DEF Missed, CacheCall
<1>4. n.at \notin CallAdmitted
  BY <1>3 DEF CallAdmitted
<1> QED
  BY Zenon, <1>1, <1>2, <1>4, GoesOn

\* A call that moves to a place before its admission, or beside it, admits
\* nobody.
LEMMA MoveAdmitsNone ==
    ASSUME CInv, NEW w \in CacheWorkers, NEW at, at \notin CallAdmitted,
           CacheGoes(w, [cacheCall[w] EXCEPT !.at = at])
    PROVE  NoneAdmitted
<1>1. PICK c \in CacheCall : c = cacheCall[w]
  BY Zenon, CacheTyped DEF CInv
<1>2. PICK n : n = [c EXCEPT !.at = at]
  BY Zenon
<1>3. n.at = at
  BY Zenon, <1>2 DEF CacheCall
<1> QED
  BY Zenon, <1>1, <1>2, <1>3, GoesOn

\* The steps before an admission admit nobody.
LEMMA RequestAdmitsNone ==
    ASSUME CInv, NEW w \in CacheWorkers,
           \/ \E kind \in CacheKinds, k \in CacheKeys : BeginCacheCall(w, kind, k)
           \/ AcquirePublicationLock(w) \/ AcquireRequestLock(w)
           \/ LoadIndex(w) \/ StatObject(w) \/ FetchRaw(w)
    PROVE  NoneAdmitted
<1>1. PICK c \in CacheCall : c = cacheCall[w]
  BY Zenon, CacheTyped DEF CInv
<1>2. /\ "load" \notin CallAdmitted /\ "collect" \notin CallAdmitted /\ "invalidate" \notin CallAdmitted
      /\ "remove" \notin CallAdmitted /\ "stat" \notin CallAdmitted /\ "store" \notin CallAdmitted
      /\ "negative" \notin CallAdmitted
      /\ \A e \in CacheEntries : e[2] \notin CallAdmitted
  BY DEF CallAdmitted, CacheEntries
<1>3. ASSUME NEW kind \in CacheKinds, NEW k \in CacheKeys, BeginCacheCall(w, kind, k)
      PROVE  NoneAdmitted
  <2>1. PICK n : n = [NoCall EXCEPT !.kind = kind, !.key = k,
                                    !.at = IF kind \in {"get", "head"} THEN "load" ELSE kind]
    BY Zenon
  <2>2. n.at = "load" \/ n.at = "collect" \/ n.at = "invalidate"
    BY <1>3, <2>1 DEF NoCall, CacheKinds
  <2>3. CacheGoes(w, n)
    BY Zenon, <1>3, <2>1 DEF BeginCacheCall
  <2> QED
    BY Zenon, <1>2, <2>2, <2>3, GoesOn
<1>4. CASE AcquirePublicationLock(w)
  <2>1. PICK e \in CacheEntries : CacheGoes(w, [cacheCall[w] EXCEPT !.at = e[2]])
    BY Zenon, <1>4 DEF AcquirePublicationLock, EntersPublication
  <2> QED
    BY Zenon, <1>2, <2>1, MoveAdmitsNone
<1>5. CASE AcquireRequestLock(w)
  <2>1. PICK n : n = [c EXCEPT !.at = "load", !.locked = TRUE]
    BY Zenon
  <2>2. n.at = "load" /\ CacheGoes(w, n)
    BY Zenon, <1>1, <1>5, <2>1 DEF AcquireRequestLock, CacheCall
  <2> QED
    BY Zenon, <1>2, <2>2, GoesOn
<1>6. CASE LoadIndex(w)
  <2>1. CASE CacheGoes(w, Missed(c)) \/ CacheEnds(w)
    BY Zenon, <1>1, <2>1, MissAdmitsNone, EndAdmitsNone
  <2>2. CASE CacheGoes(w, [c EXCEPT !.at = "remove", !.seen = cacheIndex[c.key].serial])
    <3>1. PICK n : n = [c EXCEPT !.at = "remove", !.seen = cacheIndex[c.key].serial]
      BY Zenon
    <3>2. n.at = "remove"
      BY Zenon, <3>1 DEF CacheCall
    <3> QED
      BY Zenon, <1>2, <2>2, <3>1, <3>2, GoesOn
  <2>3. CASE CacheGoes(w, [c EXCEPT !.at = "stat", !.seen = cacheIndex[c.key].serial,
                                    !.body = cacheIndex[c.key].body])
    <3>1. PICK n : n = [c EXCEPT !.at = "stat", !.seen = cacheIndex[c.key].serial,
                                 !.body = cacheIndex[c.key].body]
      BY Zenon
    <3>2. n.at = "stat"
      BY Zenon, <3>1 DEF CacheCall
    <3> QED
      BY Zenon, <1>2, <2>3, <3>1, <3>2, GoesOn
  <2> QED
    BY Zenon, <1>1, <1>6, <2>1, <2>2, <2>3 DEF LoadIndex
<1>7. CASE StatObject(w)
  BY Zenon, <1>2, <1>7, EndAdmitsNone, MoveAdmitsNone DEF StatObject
<1>8. CASE FetchRaw(w)
  <2>1. ASSUME NEW b \in CacheBodies, CacheGoes(w, [c EXCEPT !.at = "store", !.body = b])
        PROVE  NoneAdmitted
    <3>1. PICK n : n = [c EXCEPT !.at = "store", !.body = b]
      BY Zenon
    <3>2. n.at = "store"
      BY Zenon, <3>1 DEF CacheCall
    <3> QED
      BY Zenon, <1>2, <2>1, <3>1, <3>2, GoesOn
  <2> QED
    BY Zenon, <1>1, <1>2, <1>8, <2>1, EndAdmitsNone, MoveAdmitsNone DEF FetchRaw
<1> QED
  BY Zenon, <1>3, <1>4, <1>5, <1>6, <1>7, <1>8

\* A call whose session breaks goes on, and PutObject goes on with what was
\* admitted.
LEMMA StoringAdmitsNone ==
    ASSUME CInv, NEW w \in CacheWorkers,
           PutCachedObject(w) \/ \E lock \in CacheLocks : SessionBreaks(w, lock)
    PROVE  NoneAdmitted
<1>1. PICK c \in CacheCall : c = cacheCall[w]
  BY Zenon, CacheTyped DEF CInv
<1>2. CASE PutCachedObject(w)
  <2>1. PICK n : n = [c EXCEPT !.at = "indexing"]
    BY Zenon
  <2>2. /\ n.key = c.key /\ n.body = c.body /\ CacheGoes(w, n) /\ c.at = "putting"
    BY Zenon, <1>1, <1>2, <2>1 DEF PutCachedObject, CacheCall
  <2>3. c.at \in CallAdmitted
    BY Zenon, <2>2 DEF CallAdmitted
  <2> QED
    BY Zenon, <1>1, <2>2, <2>3, GoesOn
<1>3. ASSUME NEW lock \in CacheLocks, SessionBreaks(w, lock)
      PROVE  NoneAdmitted
  <2>1. PICK n : n = [c EXCEPT !.broken = c.broken \union {lock}]
    BY Zenon
  <2>2. n.at = c.at /\ n.key = c.key /\ n.body = c.body
    BY Zenon, <2>1 DEF CacheCall
  <2>3. CacheGoes(w, n)
    BY Zenon, <1>1, <1>3, <2>1 DEF SessionBreaks, CacheGoes
  <2> QED
    BY Zenon, <1>1, <2>2, <2>3, GoesOn
<1> QED
  BY Zenon, <1>2, <1>3

\* A collector that marks shrinks the index and admits nobody.
LEMMA MarkShrinks ==
    ASSUME CInv, NEW w \in CacheWorkers, NEW keys, MarkReading(w, keys)
    PROVE  Shrinks /\ NoneAdmitted
<1>1. PICK c \in CacheCall : c = cacheCall[w]
  BY Zenon, CacheTyped DEF CInv
<1>2. PICK marks : marks = {cacheIndex[k].body : k \in {x \in keys : CachedBody(x)}}
  BY Zenon
<1>3. PICK n : n = [c EXCEPT !.at = "sweeping", !.marked = marks]
  BY Zenon
<1>4. n.at = "sweeping" /\ CacheGoes(w, n)
  BY Zenon, <1>1, <1>2, <1>3 DEF MarkReading, CacheCall
<1>5. "sweeping" \notin CallAdmitted
  BY DEF CallAdmitted
<1>6. \A k \in CacheKeys : cacheIndex'[k] = cacheIndex[k] \/ cacheIndex'[k] = NoEntry
  BY Zenon DEF MarkReading
<1>7. NoEntry.live = FALSE
  BY Zenon DEF NoEntry
<1>8. Shrinks
  BY Zenon, <1>6, <1>7 DEF Shrinks, CachedBody
<1> QED
  BY Zenon, <1>4, <1>5, <1>8, GoesOn

\* An entry that is removed, or that a negative answer replaces, is not cached.
LEMMA ReplacedShrinks ==
    ASSUME CInv, NEW h, NEW e, e.kind # "body", cacheIndex' = [cacheIndex EXCEPT ![h] = e]
    PROVE  Shrinks
<1>1. \A k \in CacheKeys : cacheIndex'[k] = cacheIndex[k] \/ cacheIndex'[k] = e
  BY Zenon DEF CInv, CacheTypeOK
<1> QED
  BY Zenon, <1>1 DEF Shrinks, CachedBody

\* The other steps that write the index shrink it.
LEMMA OthersShrink ==
    ASSUME CInv, NEW w \in CacheWorkers, RemoveIndex(w) \/ Invalidate(w) \/ StoreNegative(w)
    PROVE  Shrinks /\ NoneAdmitted
<1>1. NoEntry.kind # "body"
  BY DEF NoEntry
<1>2. CASE RemoveIndex(w)
  BY Zenon, <1>1, <1>2, SameShrinks, ReplacedShrinks, MissAdmitsNone DEF RemoveIndex
<1>3. CASE Invalidate(w)
  BY Zenon, <1>1, <1>3, ReplacedShrinks, EndAdmitsNone DEF Invalidate
<1>4. CASE StoreNegative(w)
  <2>1. PICK e : e = [kind |-> "negative", body |-> NoBody, live |-> TRUE, serial |-> cacheSerial']
    BY Zenon
  <2>2. e.kind # "body"
    BY <2>1
  <2>3. cacheIndex' = [cacheIndex EXCEPT ![cacheCall[w].key] = e] /\ CacheEnds(w)
    BY Zenon, <1>4, <2>1 DEF StoreNegative, PutsEntry
  <2> QED
    BY Zenon, <2>2, <2>3, ReplacedShrinks, EndAdmitsNone
<1> QED
  BY Zenon, <1>2, <1>3, <1>4

\* A failed operation stays within the quota, or is on record.
LEMMA ErrsWithin ==
    ASSUME CInv, UsedInv, NEW w \in CacheWorkers, StoreErrs(w)
    PROVE  UsedInv'
<1>1. cacheFaults \subseteq cacheFaults' /\ "store" \in cacheFaults'
  BY Zenon DEF StoreErrs
<1>2. "remove" \notin CallAdmitted
  BY DEF CallAdmitted
<1>3. CASE /\ UNCHANGED <<cacheIndex, cacheObjects, cacheSerial>>
           /\ \/ CacheGoes(w, Missed(cacheCall[w]))
              \/ CacheGoes(w, [cacheCall[w] EXCEPT !.at = "remove"])
  BY Zenon, <1>1, <1>2, <1>3, SameShrinks, MissAdmitsNone, MoveAdmitsNone, ShrinkKeeps
<1>4. ASSUME NEW k \in CacheKeys, MarkReading(w, CacheKeys \ {k})
      PROVE  UsedInv'
  BY Zenon, <1>1, <1>4, MarkShrinks, ShrinkKeeps
<1>5. ASSUME NEW k \in CacheKeys, \A v \in CacheWorkers : ~HoldsQuota(v),
             AdmitReading(w, CacheKeys \ {k})
      PROVE  UsedInv'
  <2>1. CacheKeys \ {k} \in SUBSET CacheKeys
    BY Zenon
  <2> QED
    BY Zenon, <1>1, <1>5, <2>1, AdmissionKeeps
<1> QED
  BY Zenon, <1>3, <1>4, <1>5 DEF StoreErrs

\* An entry that expires takes nothing.
LEMMA ExpiryShrinks ==
    ASSUME CInv, NEW h \in CacheKeys, EntryExpires(h)
    PROVE  Shrinks /\ NoneAdmitted
<1>1. PICK e \in CacheEntry : e = cacheIndex[h]
  BY Zenon, CacheTyped DEF CInv
<1>2. PICK d : d = [e EXCEPT !.live = FALSE]
  BY Zenon
<1>3. d.live = FALSE
  BY Zenon, <1>2 DEF CacheEntry
<1>4. cacheIndex' = [cacheIndex EXCEPT ![h] = d] /\ cacheIndex \in [CacheKeys -> CacheEntry]
  BY Zenon, <1>1, <1>2, CacheTyped DEF EntryExpires, CInv
<1>5. \A k \in CacheKeys : cacheIndex'[k] = cacheIndex[k] \/ cacheIndex'[k] = d
  BY Zenon, <1>4
<1>6. Shrinks
  BY Zenon, <1>3, <1>5 DEF Shrinks, CachedBody
<1> QED
  BY Zenon, <1>6 DEF EntryExpires, NoneAdmitted

\* Every step stays within the quota.
LEMMA UsedNext == CInv /\ UsedInv /\ [CacheNext]_cacheVars => UsedInv'
<1> SUFFICES ASSUME CInv, UsedInv, [CacheNext]_cacheVars PROVE UsedInv'
  BY Zenon
<1>1. ASSUME NEW w \in CacheWorkers,
             \/ \E kind \in CacheKinds, k \in CacheKeys : BeginCacheCall(w, kind, k)
             \/ AcquirePublicationLock(w) \/ AcquireRequestLock(w)
             \/ LoadIndex(w) \/ StatObject(w) \/ FetchRaw(w)
      PROVE  UsedInv'
  <2>1. NoneAdmitted
    BY Zenon, <1>1, RequestAdmitsNone
  <2>2. cacheIndex' = cacheIndex /\ cacheFaults' = cacheFaults
    BY Zenon, <1>1 DEF BeginCacheCall, AcquirePublicationLock, EntersPublication,
       AcquireRequestLock, LoadIndex, StatObject, FetchRaw
  <2> QED
    BY Zenon, <2>1, <2>2, SameShrinks, ShrinkKeeps
<1>2. ASSUME NEW w \in CacheWorkers,
             PutCachedObject(w) \/ \E lock \in CacheLocks : SessionBreaks(w, lock)
      PROVE  UsedInv'
  <2>1. NoneAdmitted
    BY Zenon, <1>2, StoringAdmitsNone
  <2>2. cacheIndex' = cacheIndex /\ cacheFaults \subseteq cacheFaults'
    BY Zenon, <1>2 DEF PutCachedObject, SessionBreaks
  <2> QED
    BY Zenon, <2>1, <2>2, SameShrinks, ShrinkKeeps
<1>3. ASSUME NEW w \in CacheWorkers, CacheCallFails(w) \/ CollectSweep(w)
      PROVE  UsedInv'
  <2>1. cacheIndex' = cacheIndex /\ cacheFaults' = cacheFaults /\ CacheEnds(w)
    BY Zenon, <1>3 DEF CacheCallFails, CollectSweep
  <2> QED
    BY Zenon, <2>1, EndAdmitsNone, SameShrinks, ShrinkKeeps
<1>4. ASSUME NEW w \in CacheWorkers, RemoveIndex(w) \/ Invalidate(w) \/ StoreNegative(w)
      PROVE  UsedInv'
  <2>1. cacheFaults' = cacheFaults
    BY Zenon, <1>4 DEF RemoveIndex, Invalidate, StoreNegative, PutsEntry
  <2> QED
    BY Zenon, <1>4, <2>1, OthersShrink, ShrinkKeeps
<1>5. ASSUME NEW w \in CacheWorkers, CollectMark(w)
      PROVE  UsedInv'
  BY Zenon, <1>5, MarkShrinks, ShrinkKeeps DEF CollectMark
<1>6. ASSUME NEW w \in CacheWorkers, Admit(w)
      PROVE  UsedInv'
  <2>1. CacheKeys \in SUBSET CacheKeys
    BY Zenon
  <2> QED
    BY Zenon, <1>6, <2>1, AdmissionKeeps DEF Admit
<1>7. ASSUME NEW w \in CacheWorkers, PutIndex(w) \/ StoreErrs(w)
      PROVE  UsedInv'
  BY Zenon, <1>7, StoredKeeps, ErrsWithin
<1>8. ASSUME NEW k \in CacheKeys, EntryExpires(k)
      PROVE  UsedInv'
  BY Zenon, <1>8, ExpiryShrinks, ShrinkKeeps DEF EntryExpires
<1>9. CASE UNCHANGED cacheVars
  <2>1. cacheIndex' = cacheIndex /\ cacheCall' = cacheCall /\ cacheFaults' = cacheFaults
    BY Zenon, <1>9 DEF cacheVars
  <2>2. NoneAdmitted
    BY Zenon, <2>1 DEF NoneAdmitted
  <2> QED
    BY Zenon, <2>1, <2>2, SameShrinks, ShrinkKeeps
<1> QED
  BY Zenon, <1>1, <1>2, <1>3, <1>4, <1>5, <1>6, <1>7, <1>8, <1>9 DEF CacheNext

\* The empty cache takes nothing.
LEMMA UsedInit == CacheInit => UsedInv
<1> SUFFICES ASSUME CacheInit PROVE UsedInv
  BY Zenon
<1>1. /\ \A k \in CacheKeys : cacheIndex[k] = NoEntry
      /\ \A w \in CacheWorkers : cacheCall[w] = NoCall
  BY Zenon DEF CacheInit
<1>2. NoEntry.live = FALSE
  BY Zenon DEF NoEntry
<1>3. NoCall.at \notin CallAdmitted
  BY DEF NoCall, CallAdmitted
<1>4. CacheBytes(CacheKeys) = {}
  <2>1. ASSUME NEW x \in CacheBytes(CacheKeys) PROVE FALSE
    <3>1. PICK k \in CacheKeys : CachedBody(k)
      BY Zenon, <2>1, BytesOfEntries
    <3> QED
      BY Zenon, <1>1, <1>2, <3>1 DEF CachedBody
  <2> QED
    BY Zenon, <2>1
<1>5. IsFiniteSet(CacheBytes(CacheKeys)) /\ CacheUsed(CacheKeys) = 0
  BY Zenon, <1>4, FS_EmptySet DEF CacheUsed
<1>6. CacheUsed(CacheKeys) <= CacheLimit
  BY <1>5, CacheAssumption
<1> QED
  BY Zenon, <1>1, <1>3, <1>5, <1>6 DEF UsedInv, OneAdmitted, AdmittedFits, CacheWithinQuota

\* admit keeps the live entries of a repository within its quota, whichever of
\* its two locks breaks under it, for any number of requests, keys and sizes.
THEOREM QuotaKept == CacheSpec => []CacheWithinQuota
<1>1. CInv /\ UsedInv /\ [CacheNext]_cacheVars => UsedInv'
  BY UsedNext
<1>2. UsedInv => CacheWithinQuota
  BY Zenon DEF UsedInv
<1> QED
  BY CacheInvariant, UsedInit, <1>1, <1>2, PTL DEF CacheSpec

-----------------------------------------------------------------------------
(* The cache implements ContentStore                                       *)

\* A fault stays on record.
LEMMA FaultsAdd ==
    ASSUME cacheFaults \subseteq cacheFaults', CacheSound'
    PROVE  CacheSound
  BY Zenon DEF CacheSound

\* Where no entry comes to life no object does.
LEMMA ShrinkShows ==
    ASSUME Shrinks, cacheFaults \subseteq cacheFaults'
    PROVE  CacheVisible' \subseteq CacheVisible
<1>1. SUFFICES ASSUME CacheSound', NEW k \in CacheKeys, CachedBody(k)'
               PROVE  cacheIndex'[k].body \in CacheVisible
  BY Zenon DEF CacheVisible
<1>2. CacheSound /\ CachedBody(k) /\ cacheIndex'[k].body = cacheIndex[k].body
  BY Zenon, <1>1, FaultsAdd DEF Shrinks
<1> QED
  BY Zenon, <1>2 DEF CacheVisible

\* Store shows what it has written.
LEMMA PutShows ==
    ASSUME CInv, NEW w \in CacheWorkers, PutIndex(w)
    PROVE  CacheVisible' \subseteq CacheVisible \union CachePledged
<1>1. PICK b : b = cacheCall[w].body
  OBVIOUS
<1>2. PICK e : e = [kind |-> "body", body |-> b, live |-> TRUE, serial |-> cacheSerial']
  BY Zenon
<1>3. /\ cacheIndex' = [cacheIndex EXCEPT ![cacheCall[w].key] = e]
      /\ cacheCall[w].at = "indexing" /\ cacheFaults' = cacheFaults
      /\ cacheIndex \in [CacheKeys -> CacheEntry]
  BY Zenon, <1>1, <1>2, CacheTyped DEF PutIndex, PutsEntry, CInv
<1>4. \A k \in CacheKeys : cacheIndex'[k] = cacheIndex[k] \/ cacheIndex'[k] = e
  BY Zenon, <1>3
<1>5. e.body = b
  BY Zenon, <1>2
<1>6. SUFFICES ASSUME CacheSound', NEW k \in CacheKeys, CachedBody(k)'
               PROVE  cacheIndex'[k].body \in CacheVisible \union CachePledged
  BY Zenon DEF CacheVisible
<1>7. CacheSound
  BY Zenon, <1>3, <1>6, FaultsAdd
<1>8. CASE cacheIndex'[k] = e
  <2>1. b \in CachePledged
    BY Zenon, <1>1, <1>3, <1>7 DEF CachePledged
  <2> QED
    BY Zenon, <1>5, <1>8, <2>1
<1>9. CASE cacheIndex'[k] = cacheIndex[k]
  <2>1. CachedBody(k)
    BY Zenon, <1>6, <1>9 DEF CachedBody
  <2> QED
    BY Zenon, <1>7, <1>9, <2>1 DEF CacheVisible
<1> QED
  BY Zenon, <1>4, <1>8, <1>9

\* Only Store brings an entry to life.
LEMMA OnlyPutIndex ==
    ASSUME CInv, CacheNext
    PROVE  /\ cacheFaults \subseteq cacheFaults'
           /\ Shrinks \/ \E w \in CacheWorkers : PutIndex(w)
<1> DEFINE Goal == /\ cacheFaults \subseteq cacheFaults'
                   /\ Shrinks \/ \E w \in CacheWorkers : PutIndex(w)
<1>0. ASSUME cacheIndex' = cacheIndex, cacheFaults \subseteq cacheFaults' PROVE Goal
  BY Zenon, <1>0, SameShrinks
<1>1. ASSUME NEW w \in CacheWorkers,
             \/ \E kind \in CacheKinds, k \in CacheKeys : BeginCacheCall(w, kind, k)
             \/ CacheCallFails(w) \/ \E lock \in CacheLocks : SessionBreaks(w, lock)
             \/ AcquirePublicationLock(w) \/ AcquireRequestLock(w)
      PROVE  Goal
  <2>1. cacheIndex' = cacheIndex /\ cacheFaults \subseteq cacheFaults'
    BY Zenon, <1>1 DEF BeginCacheCall, CacheCallFails, SessionBreaks, AcquirePublicationLock,
       EntersPublication, AcquireRequestLock
  <2> QED
    BY Zenon, <2>1, <1>0
<1>2. ASSUME NEW w \in CacheWorkers,
             \/ LoadIndex(w) \/ StatObject(w) \/ FetchRaw(w) \/ Admit(w) \/ PutCachedObject(w)
             \/ CollectSweep(w)
      PROVE  Goal
  <2>1. cacheIndex' = cacheIndex /\ cacheFaults' = cacheFaults
    BY Zenon, <1>2 DEF LoadIndex, StatObject, FetchRaw, Admit, AdmitReading, PutCachedObject,
       CollectSweep
  <2> QED
    BY Zenon, <2>1, <1>0
<1>3. ASSUME NEW w \in CacheWorkers, RemoveIndex(w) \/ Invalidate(w) \/ StoreNegative(w)
      PROVE  Goal
  <2>1. cacheFaults' = cacheFaults
    BY Zenon, <1>3 DEF RemoveIndex, Invalidate, StoreNegative, PutsEntry
  <2> QED
    BY Zenon, <1>3, <2>1, OthersShrink
<1>4. ASSUME NEW w \in CacheWorkers, PutIndex(w) PROVE Goal
  BY Zenon, <1>4 DEF PutIndex, PutsEntry
<1>5. ASSUME NEW w \in CacheWorkers, CollectMark(w) PROVE Goal
  BY Zenon, <1>5, MarkShrinks DEF CollectMark
<1>6. ASSUME NEW w \in CacheWorkers, StoreErrs(w) PROVE Goal
  <2>1. cacheFaults \subseteq cacheFaults'
    BY Zenon, <1>6 DEF StoreErrs
  <2>2. CASE cacheIndex' = cacheIndex
    BY Zenon, <2>1, <2>2, <1>0
  <2>3. CASE \E h \in CacheKeys : MarkReading(w, CacheKeys \ {h})
    <3>1. PICK keys : MarkReading(w, keys)
      BY Zenon, <2>3
    <3> QED
      BY Zenon, <2>1, <3>1, MarkShrinks
  <2> QED
    BY Zenon, <1>6, <2>2, <2>3 DEF StoreErrs, AdmitReading
<1>7. ASSUME NEW k \in CacheKeys, EntryExpires(k) PROVE Goal
  BY Zenon, <1>7, ExpiryShrinks DEF EntryExpires
<1> HIDE DEF Goal
<1>8. Goal
  BY Zenon, <1>1, <1>2, <1>3, <1>4, <1>5, <1>6, <1>7 DEF CacheNext
<1> QED
  BY Zenon, <1>8 DEF Goal

\* Only a collector deletes objects.
LEMMA OnlySweep ==
    ASSUME CacheNext
    PROVE  cacheObjects \subseteq cacheObjects' \/ \E w \in CacheWorkers : CollectSweep(w)
<1> DEFINE Grow == cacheObjects \subseteq cacheObjects'
<1>1. ASSUME NEW w \in CacheWorkers,
             \/ \E kind \in CacheKinds, k \in CacheKeys : BeginCacheCall(w, kind, k)
             \/ CacheCallFails(w) \/ \E lock \in CacheLocks : SessionBreaks(w, lock)
             \/ AcquirePublicationLock(w) \/ AcquireRequestLock(w)
      PROVE  Grow
  BY Zenon, <1>1 DEF BeginCacheCall, CacheCallFails, SessionBreaks, AcquirePublicationLock,
     EntersPublication, AcquireRequestLock
<1>2. ASSUME NEW w \in CacheWorkers,
             \/ LoadIndex(w) \/ StatObject(w) \/ FetchRaw(w) \/ Admit(w) \/ PutCachedObject(w)
      PROVE  Grow
  BY Zenon, <1>2 DEF LoadIndex, StatObject, FetchRaw, Admit, AdmitReading, PutCachedObject
<1>3. ASSUME NEW w \in CacheWorkers,
             RemoveIndex(w) \/ Invalidate(w) \/ StoreNegative(w) \/ PutIndex(w)
      PROVE  Grow
  BY Zenon, <1>3 DEF RemoveIndex, Invalidate, StoreNegative, PutIndex, PutsEntry
<1>4. ASSUME NEW w \in CacheWorkers, CollectMark(w) \/ StoreErrs(w) PROVE Grow
  BY Zenon, <1>4 DEF CollectMark, StoreErrs, MarkReading, AdmitReading
<1>5. ASSUME NEW k \in CacheKeys, EntryExpires(k) PROVE Grow
  BY Zenon, <1>5 DEF EntryExpires
<1> HIDE DEF Grow
<1>6. Grow \/ \E w \in CacheWorkers : CollectSweep(w)
  BY Zenon, <1>1, <1>2, <1>3, <1>4, <1>5 DEF CacheNext
<1> QED
  BY Zenon, <1>6 DEF Grow

\* The marks cover the live entries, and nobody writes an entry during a
\* collection.
LEMMA SweepSpares ==
    ASSUME CInv, NEW w \in CacheWorkers, CollectSweep(w)
    PROVE  (cacheObjects \ cacheObjects') \intersect (CachePledged \union CacheVisible) = {}
<1>1. cacheCall[w].at = "sweeping" /\ Relies(cacheCall[w])
  BY Zenon DEF CollectSweep, CInv
<1>2. \A b \in cacheObjects \ cacheObjects' : b \notin cacheCall[w].marked
  BY Zenon DEF CollectSweep
<1>3. \A b \in CacheVisible : b \in cacheCall[w].marked
  BY Zenon, <1>1 DEF Relies, CacheVisible
<1>4. ASSUME NEW v \in CacheWorkers, cacheCall[v].at = "indexing" PROVE ~CacheSound
  <2>1. "indexing" \in CachePublishing /\ "sweeping" \in CachePublishing /\ "indexing" # "sweeping"
    BY DEF CachePublishing
  <2> QED
    BY Zenon, <1>1, <1>4, <2>1 DEF CInv, LocksExclude, CacheSound
<1>5. CachePledged = {}
  BY Zenon, <1>4 DEF CachePledged
<1> QED
  BY Zenon, <1>2, <1>3, <1>5

\* Requests, invalidations and collections of the proxy cache implement
\* ContentStore until the publication lock breaks or an entry cannot be read.
THEOREM CacheImplementsContentStore == CacheSpec => CacheKeepsContent
<1>1. CacheInit => CacheContent!Init
  <2> SUFFICES ASSUME CacheInit PROVE CacheContent!Init
    OBVIOUS
  <2>1. \A w \in CacheWorkers : cacheCall[w].at # "indexing"
    BY DEF CacheInit, NoCall
  <2>2. \A k \in CacheKeys : ~CachedBody(k)
    BY DEF CacheInit, NoEntry, CachedBody
  <2>3. CachePledged = {} /\ CacheVisible = {}
    BY Zenon, <2>1, <2>2 DEF CachePledged, CacheVisible
  <2> QED
    BY Zenon, <2>3 DEF CacheInit, CacheContent!Init
<1>2. CInv /\ CInv' /\ [CacheNext]_cacheVars => CacheContent!Next
  <2> SUFFICES ASSUME CInv, CInv', [CacheNext]_cacheVars PROVE CacheContent!Next
    OBVIOUS
  <2>1. CacheContent!Pledge
    <3>1. \A w \in CacheWorkers :
            CacheSound' /\ cacheCall'[w].at = "indexing" => cacheCall'[w].body \in cacheObjects'
      BY Zenon DEF CInv, Relies
    <3> QED
      BY Zenon, <3>1 DEF CachePledged, CacheContent!Pledge
  <2>2. CASE UNCHANGED cacheVars
    <3>1. CacheVisible' = CacheVisible /\ cacheObjects' = cacheObjects
      BY Zenon, <2>2 DEF cacheVars, CacheVisible, CacheSound, CachedBody
    <3> QED
      BY Zenon, <3>1, <2>1 DEF CacheContent!Next, CacheContent!Show, CacheContent!Reclaim
  <2>3. CASE CacheNext
    <3>1. CacheVisible' \subseteq CacheVisible \union CachePledged
      BY Zenon, <2>3, OnlyPutIndex, ShrinkShows, PutShows
    <3>2. (cacheObjects \ cacheObjects') \intersect (CachePledged \union CacheVisible) = {}
      BY Zenon, <2>3, OnlySweep, SweepSpares
    <3> QED
      BY Zenon, <3>1, <3>2, <2>1 DEF CacheContent!Next, CacheContent!Show, CacheContent!Reclaim
  <2> QED
    BY Zenon, <2>2, <2>3
<1> QED
  BY <1>1, <1>2, CacheInvariant, PTL DEF CacheSpec, CacheKeepsContent, CacheContent!Spec

\* What ContentStore promises is what readers need: a live
\* entry has its object as long as the locks hold.
THEOREM CacheContentReadable == CacheKeepsContent => []CachedEntriesReadable
<1> DEFINE Kept == CachePledged \union CacheVisible \subseteq cacheObjects
<1>1. CacheContent!Init => Kept
  BY Zenon DEF CacheContent!Init
<1>2. Kept /\ [CacheContent!Next]_(CacheContent!vars) => Kept'
  <2> SUFFICES ASSUME Kept, [CacheContent!Next]_(CacheContent!vars) PROVE Kept'
    OBVIOUS
  <2>1. CASE CacheContent!Next
    <3>1. /\ CachePledged' \subseteq cacheObjects'
          /\ CacheVisible' \subseteq CacheVisible \union CachePledged
          /\ (cacheObjects \ cacheObjects') \intersect (CachePledged \union CacheVisible) = {}
      BY Zenon, <2>1 DEF CacheContent!Next, CacheContent!Pledge, CacheContent!Show, CacheContent!Reclaim
    <3> QED
      BY Zenon, <3>1
  <2>2. CASE UNCHANGED CacheContent!vars
    <3>1. CachePledged' = CachePledged /\ CacheVisible' = CacheVisible /\ cacheObjects' = cacheObjects
      BY Zenon, <2>2 DEF CacheContent!vars
    <3> QED
      BY Zenon, <3>1
  <2> QED
    BY Zenon, <2>1, <2>2
<1>3. Kept => CachedEntriesReadable
  BY Zenon DEF CacheVisible, CachedEntriesReadable, CacheSound
<1> HIDE DEF Kept
<1> QED
  BY <1>1, <1>2, <1>3, PTL DEF CacheKeepsContent, CacheContent!Spec
=============================================================================
