-------------------------- MODULE RawStorage_proofs --------------------------
(***************************************************************************)
(* Proofs about RawStorage: publications under the object lock keep their  *)
(* bytes whatever the collectors do, for any number of paths, digests,     *)
(* requests and workers.                                                   *)
(***************************************************************************)
EXTENDS RawStorage, TLAPS

\* Who is at work knows its digest, and where the digest is to go.
Located ==
    /\ \A x \in Sessions \union Promoters : pc[x] # "idle" => want[x] \in Digests
    /\ \A x \in Publishers \union Promoters : pc[x] # "idle" => dest[x] \in Paths
    /\ \A c \in Collectors : pc[c] # "idle" => dest[c] \in Repositories

\* A request or a collector past its lock holds the lock of its digest.
Locked == \A x \in Sessions : pc[x] \in InLock => lock[want[x]] = x

\* What a path has referred to, or refers to, has a row.
Recorded == used \subseteq known /\ \A p \in Paths : asset[p] # None => asset[p] \in known

\* A publisher's row outlives its lock, and its bytes stay once written.
Staged == \A u \in Publishers : pc[u] \in {"staged", "written", "published"} => Live(want[u])
Written == \A u \in Publishers : pc[u] \in {"written", "published"} => want[u] \in bytes

\* Nothing is published under the lock on what a collector has condemned, and
\* nothing is written to what it has deleted.
Condemned ==
    \A c \in Collectors : pc[c] \in {"condemned", "deleted"} =>
        \A p \in Paths \ lockless : asset[p] # want[c]
Erased == \A c \in Collectors : pc[c] = "deleted" => want[c] \notin bytes

Core == /\ Located /\ Locked /\ Recorded /\ Staged /\ Written /\ Condemned /\ Erased
        /\ PublishedHasBytes /\ LeftoversTracked

RInv == TypeOK /\ Core

-----------------------------------------------------------------------------
\* The initial state satisfies the invariant.
LEMMA InitInv == Init => RInv
  BY DisjointAssumption, RepositoryAssumption
  DEF Init, RInv, TypeOK, Core, Located, Locked, Recorded, Staged, Written, Condemned,
      Erased, PublishedHasBytes, LeftoversTracked, InLock, known, Live, Costs, Jobs,
      JobStates, PublisherSteps, CollectorSteps, Sessions

\* A step that touches only the clock, the queue and the counters keeps Core.
LEMMA KeepsCore ==
  ASSUME Core, UNCHANGED <<asset, owner, collected, bytes, workers, lockless>>,
         used' \subseteq known
  PROVE  Core'
  BY DEF Core, Located, Locked, Recorded, Staged, Written, Condemned, Erased,
         PublishedHasBytes, LeftoversTracked, known, Live, workers

\* Spending one of a bounded supply.
LEMMA SpendType ==
  ASSUME TypeOK, NEW what \in Costs, Spend(what)
  PROVE  count' \in [Costs -> Nat]
  BY DEF TypeOK, Spend

\* Two that are past their lock work on different digests.
LEMMA Exclusion ==
  ASSUME Locked, NEW x \in Sessions, NEW y \in Sessions, x # y,
         pc[x] \in InLock, pc[y] \in InLock
  PROVE  want[x] # want[y]
  BY DEF Locked

\* Giving up what one holds disturbs nobody else.
LEMMA FinishInv ==
  ASSUME RInv, NEW x \in Sessions, Finish(x),
         UNCHANGED <<asset, owner, collected, bytes, lockless, used>>
  PROVE  Core' /\ lock' \in [Digests -> Sessions \union {None}]
         /\ pc' \in [Sessions \union Promoters -> PublisherSteps \union CollectorSteps \union {"read"}]
  <1>1. /\ pc' = [pc EXCEPT ![x] = "idle"]
        /\ pc \in [Sessions \union Promoters -> PublisherSteps \union CollectorSteps \union {"read"}]
    BY DEF Finish, RInv, TypeOK
  <1>2. lock' \in [Digests -> Sessions \union {None}]
    BY DEF Finish, RInv, TypeOK
  <1>3. \A y \in Sessions \union Promoters :
           pc'[y] # "idle" => pc'[y] = pc[y] /\ y # x
    BY <1>1 DEF Sessions
  <1>4. UNCHANGED <<want, dest>>
    BY DEF Finish
  <1>5. Located'
    BY <1>3, <1>4 DEF RInv, Core, Located, Sessions
  <1>6. Locked'
    <2> SUFFICES ASSUME NEW y \in Sessions, pc'[y] \in InLock PROVE lock'[want'[y]] = y
      BY DEF Locked
    <2>1. pc[y] \in InLock /\ y # x /\ pc[y] # "idle"
      BY <1>3 DEF InLock
    <2>2. want[y] \in Digests /\ lock[want[y]] = y
      BY <2>1 DEF RInv, Core, Located, Locked
    <2> QED BY <2>1, <2>2, <1>4 DEF Finish
  <1>7. Staged' /\ Written' /\ Condemned' /\ Erased'
    BY <1>3, <1>4 DEF RInv, Core, Staged, Written, Condemned, Erased, Live, known, Sessions
  <1>8. Recorded' /\ PublishedHasBytes' /\ LeftoversTracked'
    BY DEF RInv, Core, Recorded, PublishedHasBytes, LeftoversTracked, Live, known
  <1> QED BY <1>1, <1>2, <1>5, <1>6, <1>7, <1>8 DEF Core, PublisherSteps

\* The step the workers are at, and what they work on, is well typed.
LEMMA WorkersType ==
  ASSUME TypeOK, NEW x \in Sessions \union Promoters,
         NEW s \in PublisherSteps \union CollectorSteps \union {"read"},
         pc' = [pc EXCEPT ![x] = s]
  PROVE  /\ pc' \in [Sessions \union Promoters -> PublisherSteps \union CollectorSteps \union {"read"}]
         /\ pc'[x] = s
         /\ \A y \in Sessions \union Promoters : y # x => pc'[y] = pc[y]
  BY DEF TypeOK

\* A request begins: it holds no lock yet.
LEMMA SpoolBodyInv ==
  ASSUME RInv, NEW u \in Publishers, NEW p \in Paths, NEW d \in Digests, SpoolBody(u, p, d)
  PROVE  RInv'
  <1>1. /\ pc'[u] = "spooled"
        /\ \A y \in Sessions \union Promoters : y # u => pc'[y] = pc[y]
        /\ pc' \in [Sessions \union Promoters -> PublisherSteps \union CollectorSteps \union {"read"}]
    BY Zenon, WorkersType DEF RInv, SpoolBody, PublisherSteps, Sessions
  <1>2. /\ want'[u] = d /\ dest'[u] = p
        /\ \A y \in Sessions \union Promoters : y # u => want'[y] = want[y] /\ dest'[y] = dest[y]
    BY DEF RInv, TypeOK, SpoolBody, Sessions
  <1>3. count' \in [Costs -> Nat]
    BY SpendType DEF RInv, SpoolBody, Costs
  <1>4. TypeOK'
    BY <1>1, <1>3 DEF RInv, TypeOK, SpoolBody, known, queue
  <1>5. Located'
    BY <1>1, <1>2, DisjointAssumption DEF RInv, Core, Located, Sessions
  <1>6. Locked'
    BY <1>1, <1>2 DEF RInv, Core, Locked, SpoolBody, InLock, Sessions
  <1>7. Staged' /\ Written' /\ Condemned' /\ Erased'
    BY <1>1, <1>2 DEF RInv, Core, Staged, Written, Condemned, Erased, Live, known, SpoolBody, Sessions
  <1>8. Recorded' /\ PublishedHasBytes' /\ LeftoversTracked'
    BY DEF RInv, Core, Recorded, PublishedHasBytes, LeftoversTracked, Live, known, SpoolBody
  <1> QED BY <1>4, <1>5, <1>6, <1>7, <1>8 DEF RInv, Core

\* Taking the lock of one's digest.
LEMMA AcquireInv ==
  ASSUME RInv, NEW x \in Sessions, pc[x] \in {"spooled", "claimed"}, Acquire(x),
         pc' = [pc EXCEPT ![x] = "locked"],
         UNCHANGED <<asset, tomb, owner, collected, aged, older, bytes, want, dest, queue,
                     lockless, used, count>>
  PROVE  RInv'
  <1>1. /\ pc'[x] = "locked"
        /\ \A y \in Sessions \union Promoters : y # x => pc'[y] = pc[y]
        /\ pc' \in [Sessions \union Promoters -> PublisherSteps \union CollectorSteps \union {"read"}]
    BY Zenon, WorkersType DEF RInv, PublisherSteps
  <1>2. want[x] \in Digests
    BY DEF RInv, Core, Located
  <1>3. /\ lock' \in [Digests -> Sessions \union {None}]
        /\ lock'[want[x]] = x
        /\ \A d \in Digests : lock[d] # None => lock'[d] = lock[d]
    BY <1>2 DEF RInv, TypeOK, Acquire
  <1>4. TypeOK'
    BY <1>1, <1>3 DEF RInv, TypeOK, known, queue
  <1>5. Located'
    BY <1>1 DEF RInv, Core, Located, Sessions
  <1>6. Locked'
    <2> SUFFICES ASSUME NEW y \in Sessions, pc'[y] \in InLock PROVE lock'[want[y]] = y
      BY DEF Locked
    <2>1. CASE y = x
      BY <2>1, <1>3
    <2>2. CASE y # x
      <3>1. pc[y] \in InLock /\ pc[y] # "idle"
        BY <2>2, <1>1 DEF InLock
      <3>2. want[y] \in Digests /\ lock[want[y]] = y
        BY <3>1 DEF RInv, Core, Located, Locked
      <3>3. y # None
        BY DisjointAssumption
      <3> QED BY <3>2, <3>3, <1>3
    <2> QED BY <2>1, <2>2
  <1>7. Staged' /\ Written' /\ Condemned' /\ Erased'
    BY Zenon, <1>1 DEF RInv, Core, Staged, Written, Condemned, Erased, Live, known, Sessions
  <1>8. Recorded' /\ PublishedHasBytes' /\ LeftoversTracked'
    BY DEF RInv, Core, Recorded, PublishedHasBytes, LeftoversTracked, Live, known
  <1> QED BY <1>4, <1>5, <1>6, <1>7, <1>8 DEF RInv, Core

\* A new created_at puts the row last among the rows.
LEMMA StampedRows ==
  ASSUME TypeOK, NEW d \in Digests
  PROVE  Stamped(d) \in SUBSET (Digests \X Digests)
  <1>1. known \subseteq Digests /\ older \subseteq Digests \X Digests
    BY Zenon DEF TypeOK, known
  <1> QED BY <1>1 DEF Stamped

\* Recording an object adds rows and takes none away.
LEMMA RecordObjectRows ==
  ASSUME TypeOK, NEW d \in Digests, NEW r \in Repositories, RecordObject(d, r)
  PROVE  /\ owner' \in [Digests -> Repositories \union {None}]
         /\ known' = known \union {d}
         /\ \A e \in Digests : Live(e) \/ e = d => Live(e)'
         /\ collected' \subseteq known' /\ older' \in SUBSET (Digests \X Digests)
  <1>1. owner' \in [Digests -> Repositories \union {None}]
    BY DEF TypeOK, RecordObject
  <1>2. known' = known \union {d}
    BY DisjointAssumption DEF TypeOK, RecordObject, known
  <1>3. collected' = collected \ {d}
    BY DEF RecordObject
  <1>4. older' \in SUBSET (Digests \X Digests)
    BY Zenon, StampedRows DEF TypeOK, RecordObject
  <1>5. /\ \A e \in Digests : Live(e) \/ e = d => Live(e)'
        /\ collected' \subseteq known'
    BY <1>2, <1>3 DEF Live, TypeOK
  <1> QED BY Zenon, <1>1, <1>2, <1>4, <1>5

\* A session moves on under its lock.
LEMMA AdvanceInv ==
  ASSUME RInv, NEW x \in Sessions, pc[x] \in InLock, NEW s \in InLock,
         pc' = [pc EXCEPT ![x] = s], UNCHANGED <<lock, want, dest>>
  PROVE  /\ Located' /\ Locked'
         /\ pc' \in [Sessions \union Promoters -> PublisherSteps \union CollectorSteps \union {"read"}]
         /\ pc'[x] = s
         /\ \A y \in Sessions \union Promoters : y # x => pc'[y] = pc[y]
         /\ want[x] \in Digests
         /\ \A y \in Sessions : y # x /\ pc'[y] \in InLock => want[y] # want[x]
  <1>1. /\ pc'[x] = s
        /\ \A y \in Sessions \union Promoters : y # x => pc'[y] = pc[y]
        /\ pc' \in [Sessions \union Promoters -> PublisherSteps \union CollectorSteps \union {"read"}]
    BY Zenon, WorkersType DEF RInv, PublisherSteps, CollectorSteps, InLock
  <1>2. pc[x] # "idle"
    BY DEF InLock
  <1>3. Located'
    BY <1>1, <1>2 DEF RInv, Core, Located, Sessions
  <1>4. Locked'
    BY <1>1 DEF RInv, Core, Locked, Sessions
  <1>5. want[x] \in Digests
    BY <1>2 DEF RInv, Core, Located
  <1>6. \A y \in Sessions : y # x /\ pc'[y] \in InLock => want[y] # want[x]
    BY <1>1, Exclusion DEF RInv, Core
  <1> QED BY Zenon, <1>1, <1>3, <1>4, <1>5, <1>6

\* The row is recorded before the bytes are written.
LEMMA StageRawObjectInv ==
  ASSUME RInv, NEW u \in Publishers, StageRawObject(u)
  PROVE  RInv'
  <1>1. /\ Located' /\ Locked'
        /\ pc' \in [Sessions \union Promoters -> PublisherSteps \union CollectorSteps \union {"read"}]
        /\ pc'[u] = "staged"
        /\ \A y \in Sessions \union Promoters : y # u => pc'[y] = pc[y]
        /\ want[u] \in Digests
        /\ \A y \in Sessions : y # u /\ pc'[y] \in InLock => want[y] # want[u]
    BY Zenon, AdvanceInv DEF StageRawObject, InLock, Sessions
  <1>2. PICK r \in Repositories : RecordObject(want[u], r)
    <2>1. dest[u] \in Paths
      BY DEF RInv, Core, Located, StageRawObject, Sessions
    <2>2. RepositoryOf[dest[u]] \in Repositories
      BY <2>1, RepositoryAssumption
    <2>3. want[u] \in known => owner[want[u]] \in Repositories
      BY DEF RInv, TypeOK, known
    <2> QED BY <2>2, <2>3 DEF StageRawObject
  <1>3. /\ owner' \in [Digests -> Repositories \union {None}]
        /\ known' = known \union {want[u]}
        /\ \A e \in Digests : Live(e) \/ e = want[u] => Live(e)'
        /\ collected' \subseteq known' /\ older' \in SUBSET (Digests \X Digests)
    BY SMTT(20), <1>1, <1>2, RecordObjectRows DEF RInv
  <1>4. TypeOK'
    BY <1>1, <1>3 DEF RInv, TypeOK, StageRawObject, queue
  <1>5. Staged'
    BY Zenon, <1>1, <1>3 DEF RInv, Core, Staged, Located, StageRawObject, Sessions
  <1>6. Written' /\ Condemned' /\ Erased'
    BY Zenon, <1>1, DisjointAssumption DEF RInv, Core, Written, Condemned, Erased, StageRawObject, Sessions
  <1>7. Recorded' /\ PublishedHasBytes'
    BY Zenon, <1>3 DEF RInv, Core, Recorded, PublishedHasBytes, StageRawObject
  <1>8. LeftoversTracked'
    BY Zenon, <1>3 DEF RInv, TypeOK, Core, LeftoversTracked, StageRawObject
  <1> QED BY Zenon, <1>1, <1>4, <1>5, <1>6, <1>7, <1>8 DEF RInv, Core

\* Bytes are written to an object that has a row and no condemning collector.
LEMMA PutVerifiedReaderInv ==
  ASSUME RInv, NEW u \in Publishers, PutVerifiedReader(u)
  PROVE  RInv'
  <1>1. /\ Located' /\ Locked'
        /\ pc' \in [Sessions \union Promoters -> PublisherSteps \union CollectorSteps \union {"read"}]
        /\ pc'[u] = "written"
        /\ \A y \in Sessions \union Promoters : y # u => pc'[y] = pc[y]
        /\ want[u] \in Digests
        /\ \A y \in Sessions : y # u /\ pc'[y] \in InLock => want[y] # want[u]
    BY Zenon, AdvanceInv DEF PutVerifiedReader, InLock, Sessions
  <1>2. bytes' = bytes \union {want[u]} /\ pc[u] = "staged"
    BY DEF PutVerifiedReader
  <1>3. Live(want[u])
    BY Zenon, <1>2 DEF RInv, Core, Staged
  <1>4. TypeOK'
    BY Zenon, <1>1, <1>2 DEF RInv, TypeOK, PutVerifiedReader, known, queue
  <1>5. Staged' /\ Written'
    BY Zenon, <1>1, <1>2, <1>3 DEF RInv, Core, Staged, Written, Live, known, PutVerifiedReader, Sessions
  <1>6. Condemned'
    BY Zenon, <1>1, DisjointAssumption DEF RInv, Core, Condemned, PutVerifiedReader, Sessions
  <1>7. Erased'
    BY Zenon, <1>1, <1>2, DisjointAssumption
    DEF RInv, Core, Erased, PutVerifiedReader, Sessions, InLock
  <1>8. Recorded' /\ PublishedHasBytes' /\ LeftoversTracked'
    BY <1>2, <1>3 DEF RInv, Core, Recorded, PublishedHasBytes, LeftoversTracked, Live, known, PutVerifiedReader
  <1> QED BY Zenon, <1>1, <1>4, <1>5, <1>6, <1>7, <1>8 DEF RInv, Core

\* The publication commits: its bytes are there and no collector has
\* condemned them, for the publisher holds the lock.
LEMMA PutRawAssetIfInv ==
  ASSUME RInv, NEW u \in Publishers, PutRawAssetIf(u)
  PROVE  RInv'
  <1>1. /\ Located' /\ Locked'
        /\ pc' \in [Sessions \union Promoters -> PublisherSteps \union CollectorSteps \union {"read"}]
        /\ pc'[u] = "published"
        /\ \A y \in Sessions \union Promoters : y # u => pc'[y] = pc[y]
        /\ want[u] \in Digests
        /\ \A y \in Sessions : y # u /\ pc'[y] \in InLock => want[y] # want[u]
    BY Zenon, AdvanceInv DEF PutRawAssetIf, InLock, Sessions
  <1>2. dest[u] \in Paths /\ want[u] \in bytes
    <2>1. dest[u] \in Paths
      BY DEF RInv, Core, Located, PutRawAssetIf
    <2>2. want[u] \in bytes
      BY DEF RInv, Core, Written, PutRawAssetIf
    <2> QED BY Zenon, <2>1, <2>2
  <1>3. RepositoryOf[dest[u]] \in Repositories
    BY Zenon, <1>2, RepositoryAssumption
  <1>4. /\ owner' \in [Digests -> Repositories \union {None}]
        /\ known' = known \union {want[u]}
        /\ \A e \in Digests : Live(e) \/ e = want[u] => Live(e)'
        /\ collected' \subseteq known' /\ older' \in SUBSET (Digests \X Digests)
    BY <1>1, <1>3, RecordObjectRows DEF RInv, PutRawAssetIf, Publish
  <1>5. /\ asset' \in [Paths -> Digests \union {None}]
        /\ asset'[dest[u]] = want[u]
        /\ \A p \in Paths : p # dest[u] => asset'[p] = asset[p]
        /\ used' = used \union {want[u]}
        /\ lockless' = lockless \ {dest[u]}
        /\ bytes' = bytes /\ UNCHANGED <<want, dest>>
    BY Zenon, <1>1, <1>2 DEF RInv, TypeOK, PutRawAssetIf, Publish
  <1>6. TypeOK'
    BY ZenonT(40), <1>1, <1>4, <1>5 DEF RInv, TypeOK, PutRawAssetIf, queue
  <1>7. Staged'
    BY Zenon, <1>1, <1>4, <1>5 DEF RInv, Core, Staged, Located, PutRawAssetIf, Sessions
  <1>8. Written'
    BY <1>1, <1>2, <1>5 DEF RInv, Core, Written, Sessions
  <1>9. Condemned'
    <2> SUFFICES ASSUME NEW c \in Collectors, pc'[c] \in {"condemned", "deleted"},
                        NEW p \in Paths \ lockless'
                 PROVE  asset'[p] # want[c]
      BY Zenon, <1>5 DEF Condemned
    <2>1. c # u /\ pc'[c] = pc[c] /\ want[c] # want[u]
      BY Zenon, <1>1, DisjointAssumption DEF Sessions, InLock
    <2>2. CASE p = dest[u]
      BY Zenon, <2>1, <2>2, <1>5
    <2>3. CASE p # dest[u]
      BY Zenon, <2>1, <2>3, <1>5 DEF RInv, Core, Condemned
    <2> QED BY <2>2, <2>3
  <1>10. Erased'
    BY Zenon, <1>1, <1>5, DisjointAssumption DEF RInv, Core, Erased, Sessions
  <1>11. Recorded'
    BY Zenon, <1>1, <1>4, <1>5 DEF RInv, Core, Recorded
  <1>12. PublishedHasBytes'
    BY Zenon, <1>2, <1>5 DEF RInv, Core, PublishedHasBytes
  <1>13. LeftoversTracked'
    BY <1>4, <1>5 DEF RInv, TypeOK, Core, LeftoversTracked
  <1> QED BY Zenon, <1>1, <1>6, <1>7, <1>8, <1>9, <1>10, <1>11, <1>12, <1>13 DEF RInv, Core

\* A request ends, published or not.
LEMMA EndPutInv ==
  ASSUME RInv, NEW u \in Publishers, EndPut(u)
  PROVE  RInv'
  <1>1. /\ Core' /\ lock' \in [Digests -> Sessions \union {None}]
        /\ pc' \in [Sessions \union Promoters -> PublisherSteps \union CollectorSteps \union {"read"}]
    BY Zenon, FinishInv DEF EndPut, Sessions
  <1>2. TypeOK'
    BY <1>1 DEF RInv, TypeOK, EndPut, Finish, known, queue
  <1> QED BY <1>1, <1>2 DEF RInv

\* A tombstone takes a reference away.
LEMMA DeleteRawAssetInv ==
  ASSUME RInv, NEW p \in Paths, DeleteRawAsset(p)
  PROVE  RInv'
  <1> DEFINE d == asset[p]
  <1>1. d \in Digests /\ d \in known
    BY DEF RInv, TypeOK, Core, Recorded, DeleteRawAsset
  <1>2. /\ tomb' = [tomb EXCEPT ![p] = d] /\ asset' = [asset EXCEPT ![p] = None]
        /\ aged' = aged \ {d} /\ collected' = collected \ {d}
        /\ used' \subseteq used \union {d} /\ older' \in SUBSET (Digests \X Digests)
        /\ UNCHANGED <<owner, bytes, lock, pc, want, dest, listed, job, holder, lockless>>
    BY Zenon, <1>1, StampedRows DEF DeleteRawAsset, workers, queue, RInv
  <1>3. count' \in [Costs -> Nat]
    BY Zenon, SpendType DEF RInv, DeleteRawAsset, Costs
  <1> HIDE DEF d
  <1>4. /\ asset' \in [Paths -> Digests \union {None}]
        /\ tomb' \in [Paths -> Digests \union {None}]
        /\ \A q \in Paths : asset'[q] = None \/ asset'[q] = asset[q]
    BY <1>1, <1>2 DEF RInv, TypeOK
  <1>5. known' = known
    BY <1>2 DEF known
  <1>6. \A e \in Digests : Live(e) => Live(e)'
    BY Zenon, <1>2, <1>5 DEF Live
  <1>7. TypeOK'
    BY Zenon, <1>1, <1>2, <1>3, <1>4, <1>5 DEF RInv, TypeOK, known
  <1>8. Located' /\ Locked' /\ Written' /\ Erased'
    BY Zenon, <1>2 DEF RInv, Core, Located, Locked, Written, Erased
  <1>9. Staged'
    BY Zenon, <1>2, <1>6 DEF RInv, Core, Staged, Located, Sessions
  <1>10. Condemned'
    <2> SUFFICES ASSUME NEW c \in Collectors, pc[c] \in {"condemned", "deleted"},
                        NEW q \in Paths \ lockless
                 PROVE  asset'[q] # want[c]
      BY <1>2 DEF Condemned
    <2>1. want[c] \in Digests /\ asset[q] # want[c]
      BY Zenon DEF RInv, Core, Located, Condemned, Sessions
    <2> QED BY Zenon, <2>1, <1>4, DisjointAssumption
  <1>11. Recorded' /\ PublishedHasBytes'
    BY Zenon, <1>1, <1>2, <1>4, <1>5 DEF RInv, Core, Recorded, PublishedHasBytes
  <1>12. LeftoversTracked'
    BY <1>2, <1>6 DEF RInv, TypeOK, Core, LeftoversTracked
  <1> QED BY Zenon, <1>7, <1>8, <1>9, <1>10, <1>11, <1>12 DEF RInv, Core

\* What is made visible without the lock disturbs nothing that is about the
\* paths made visible under it.
LEMMA LocklessCore ==
  ASSUME RInv, NEW p \in Paths, NEW d \in known, UNCHANGED <<owner, bytes, workers, collected>>,
         asset' = [asset EXCEPT ![p] = d], lockless' = lockless \union {p},
         used' = used \union {d}
  PROVE  Core' /\ asset' \in [Paths -> Digests \union {None}]
  <1>1. /\ asset' \in [Paths -> Digests \union {None}] /\ asset'[p] = d
        /\ \A q \in Paths : q # p => asset'[q] = asset[q]
    BY DEF RInv, TypeOK, known
  <1>2. UNCHANGED <<lock, pc, want, dest>> /\ known' = known
    BY Zenon DEF workers, known
  <1>3. Located' /\ Locked' /\ Written' /\ Erased' /\ Staged' /\ LeftoversTracked'
    BY Zenon, <1>2 DEF RInv, Core, Located, Locked, Written, Erased, Staged, LeftoversTracked, Live
  <1>4. Condemned' /\ PublishedHasBytes'
    BY <1>1, <1>2 DEF RInv, Core, Condemned, PublishedHasBytes
  <1>5. Recorded'
    BY <1>1, <1>2 DEF RInv, Core, Recorded
  <1> QED BY Zenon, <1>1, <1>3, <1>4, <1>5 DEF Core

\* A restore makes a path visible without the lock.
LEMMA RestoreRawAssetInv ==
  ASSUME RInv, NEW p \in Paths, RestoreRawAsset(p)
  PROVE  RInv'
  <1>1. tomb[p] \in known
    BY DEF RestoreRawAsset, Live
  <1>2. Core' /\ asset' \in [Paths -> Digests \union {None}]
    BY Zenon, <1>1, LocklessCore DEF RestoreRawAsset
  <1>3. count' \in [Costs -> Nat]
    BY SpendType DEF RInv, RestoreRawAsset, Costs
  <1>4. TypeOK'
    BY <1>1, <1>2, <1>3 DEF RInv, TypeOK, RestoreRawAsset, known, workers, queue
  <1> QED BY <1>2, <1>4 DEF RInv

\* A promotion reads its source.
LEMMA ReadSourceInv ==
  ASSUME RInv, NEW m \in Promoters, NEW p \in Paths, NEW q \in Paths, ReadSource(m, p, q)
  PROVE  RInv'
  <1>1. /\ pc'[m] = "read"
        /\ \A y \in Sessions \union Promoters : y # m => pc'[y] = pc[y]
        /\ pc' \in [Sessions \union Promoters -> PublisherSteps \union CollectorSteps \union {"read"}]
    BY Zenon, WorkersType DEF RInv, ReadSource, PublisherSteps
  <1>2. asset[p] \in Digests
    BY DEF RInv, TypeOK, ReadSource
  <1>3. /\ want'[m] = asset[p] /\ dest'[m] = q
        /\ \A y \in Sessions \union Promoters : y # m => want'[y] = want[y] /\ dest'[y] = dest[y]
    BY DEF RInv, TypeOK, ReadSource
  <1>4. count' \in [Costs -> Nat]
    BY SpendType DEF RInv, ReadSource, Costs
  <1>5. TypeOK'
    BY <1>1, <1>2, <1>4 DEF RInv, TypeOK, ReadSource, known, queue
  <1>6. \A x \in Sessions : x # m
    BY Zenon, DisjointAssumption
  <1>7. Located'
    BY Zenon, <1>1, <1>2, <1>3, <1>6 DEF RInv, Core, Located, Sessions
  <1>8. Locked' /\ Staged' /\ Written' /\ Condemned' /\ Erased'
    <2>1. \A x \in Sessions : pc'[x] = pc[x] /\ want'[x] = want[x]
      BY Zenon, <1>1, <1>3, <1>6
    <2>2. UNCHANGED <<asset, owner, collected, bytes, lock, lockless>>
      BY Zenon DEF ReadSource
    <2>3. Locked' /\ Staged'
      BY Zenon, <2>1, <2>2 DEF RInv, Core, Locked, Staged, Live, known, Sessions
    <2>4. Written' /\ Condemned' /\ Erased'
      BY ZenonT(40), <2>1, <2>2 DEF RInv, Core, Written, Condemned, Erased, Sessions
    <2> QED BY Zenon, <2>3, <2>4
  <1>9. Recorded' /\ PublishedHasBytes' /\ LeftoversTracked'
    BY DEF RInv, Core, Recorded, PublishedHasBytes, LeftoversTracked, Live, known, ReadSource
  <1> QED BY <1>5, <1>7, <1>8, <1>9 DEF RInv, Core

\* A promotion makes its target visible without the lock.
LEMMA PutRawAssetInv ==
  ASSUME RInv, NEW m \in Promoters, PutRawAsset(m)
  PROVE  RInv'
  <1>1. /\ pc'[m] = "idle"
        /\ \A y \in Sessions \union Promoters : y # m => pc'[y] = pc[y]
        /\ pc' \in [Sessions \union Promoters -> PublisherSteps \union CollectorSteps \union {"read"}]
    BY Zenon, WorkersType DEF RInv, PutRawAsset, PublisherSteps
  <1>2. want[m] \in Digests /\ dest[m] \in Paths
    BY Zenon DEF RInv, Core, Located, PutRawAsset
  <1>3. RepositoryOf[dest[m]] \in Repositories
    BY Zenon, <1>2, RepositoryAssumption
  <1>4. /\ owner' \in [Digests -> Repositories \union {None}]
        /\ known' = known \union {want[m]}
        /\ \A e \in Digests : Live(e) \/ e = want[m] => Live(e)'
        /\ collected' \subseteq known' /\ older' \in SUBSET (Digests \X Digests)
    BY Zenon, <1>2, <1>3, RecordObjectRows DEF RInv, PutRawAsset, Publish
  <1>5. /\ asset' \in [Paths -> Digests \union {None}]
        /\ asset'[dest[m]] = want[m]
        /\ \A p \in Paths : p # dest[m] => asset'[p] = asset[p]
        /\ used' = used \union {want[m]}
        /\ lockless' = lockless \union {dest[m]}
        /\ UNCHANGED <<bytes, lock, want, dest>>
    BY Zenon, <1>2 DEF RInv, TypeOK, PutRawAsset, Publish
  <1>6. TypeOK'
    BY <1>1, <1>2, <1>4, <1>5 DEF RInv, TypeOK, PutRawAsset, queue
  <1>7. \A x \in Sessions : x # m
    BY Zenon, DisjointAssumption
  <1>8. Located'
    BY Zenon, <1>1, <1>5, <1>7 DEF RInv, Core, Located, Sessions
  <1>9. Locked' /\ Written' /\ Condemned' /\ Erased'
    <2>1. \A x \in Sessions : pc'[x] = pc[x]
      BY Zenon, <1>1, <1>7
    <2>2. Locked' /\ Written' /\ Erased'
      BY Zenon, <1>5, <2>1 DEF RInv, Core, Locked, Written, Erased, Sessions
    <2>3. Condemned'
      BY Zenon, <1>5, <2>1 DEF RInv, Core, Condemned, Sessions
    <2> QED BY Zenon, <2>2, <2>3
  <1>10. Staged'
    BY Zenon, <1>1, <1>4, <1>5, <1>7 DEF RInv, Core, Staged, Located, Sessions
  <1>11. Recorded' /\ PublishedHasBytes'
    BY Zenon, <1>2, <1>4, <1>5 DEF RInv, Core, Recorded, PublishedHasBytes
  <1>12. LeftoversTracked'
    BY <1>4, <1>5 DEF RInv, TypeOK, Core, LeftoversTracked
  <1> QED BY Zenon, <1>6, <1>8, <1>9, <1>10, <1>11, <1>12 DEF RInv, Core

\* A promotion gives up.
LEMMA EndPromotionInv ==
  ASSUME RInv, NEW m \in Promoters, EndPromotion(m)
  PROVE  RInv'
  <1>1. /\ pc'[m] = "idle"
        /\ \A y \in Sessions \union Promoters : y # m => pc'[y] = pc[y]
        /\ pc' \in [Sessions \union Promoters -> PublisherSteps \union CollectorSteps \union {"read"}]
    BY Zenon, WorkersType DEF RInv, EndPromotion, PublisherSteps
  <1>2. \A x \in Sessions : x # m
    BY DisjointAssumption
  <1>3. TypeOK'
    BY <1>1 DEF RInv, TypeOK, EndPromotion, known, queue
  <1>4. Located'
    BY Zenon, <1>1, <1>2 DEF RInv, Core, Located, Sessions, EndPromotion
  <1>5. Locked' /\ Staged' /\ Written' /\ Condemned' /\ Erased'
    BY ZenonT(40), <1>1, <1>2
    DEF RInv, Core, Locked, Staged, Written, Condemned, Erased, Live, known, EndPromotion, Sessions
  <1>6. Recorded' /\ PublishedHasBytes' /\ LeftoversTracked'
    BY DEF RInv, Core, Recorded, PublishedHasBytes, LeftoversTracked, Live, known, EndPromotion
  <1> QED BY Zenon, <1>3, <1>4, <1>5, <1>6 DEF RInv, Core

-----------------------------------------------------------------------------
\* The clock moves on.
LEMMA ClockInv ==
  ASSUME RInv, NEW d \in Digests, GraceOver(d) \/ RestOver(d)
  PROVE  RInv'
  <1>1. /\ UNCHANGED <<asset, tomb, owner, collected, older, bytes, workers, queue,
                       lockless, count>>
        /\ aged' \subseteq aged \union {d} \union Older(d)
        /\ used' \subseteq used /\ d \in known \union used
    BY DEF GraceOver, RestOver
  <1>2. used \subseteq known /\ Older(d) \subseteq known
    BY Zenon DEF RInv, Core, Recorded, Older
  <1>3. Core'
    BY Zenon, <1>1, <1>2, KeepsCore DEF RInv
  <1>4. TypeOK'
    BY <1>1, <1>2 DEF RInv, TypeOK, known, workers, queue
  <1> QED BY Zenon, <1>3, <1>4 DEF RInv

\* The scheduler lists and enqueues.
LEMMA ScheduleInv ==
  ASSUME RInv, Schedule
  PROVE  RInv'
  <1>1. /\ UNCHANGED <<asset, tomb, owner, collected, aged, older, bytes, workers, holder,
                       lockless, used, count>>
        /\ listed' \in SUBSET Jobs
        /\ job' \in [Jobs -> JobStates]
    <2>1. CASE ListUnreferencedRawObjects
      <3>1. \A d \in aged : d \in Digests /\ owner[d] \in Repositories
        BY Zenon DEF RInv, TypeOK, known
      <3>2. PICK L \in SUBSET aged : listed' = {<<d, owner[d]>> : d \in L}
        BY Zenon, <2>1 DEF ListUnreferencedRawObjects, Page
      <3>3. listed' \in SUBSET Jobs
        BY <3>1, <3>2 DEF Jobs
      <3> QED BY Zenon, <2>1, <3>3 DEF ListUnreferencedRawObjects, RInv, TypeOK
    <2>2. ASSUME NEW j \in Jobs, EnqueueReclaimJob(j)
          PROVE  /\ UNCHANGED <<asset, tomb, owner, collected, aged, older, bytes, workers, holder,
                               lockless, used, count>>
                 /\ listed' \in SUBSET Jobs
                 /\ job' \in [Jobs -> JobStates]
      BY Zenon, <2>2 DEF EnqueueReclaimJob, RInv, TypeOK, JobStates
    <2> QED BY ZenonT(40), <2>1, <2>2 DEF Schedule
  <1>2. Core'
    BY Zenon, <1>1, KeepsCore DEF RInv, Core, Recorded
  <1>3. TypeOK'
    BY Zenon, <1>1 DEF RInv, TypeOK, known, workers
  <1> QED BY Zenon, <1>2, <1>3 DEF RInv

\* A collector claims a job: it holds no lock yet.
LEMMA ClaimReclaimJobInv ==
  ASSUME RInv, NEW c \in Collectors, NEW j \in Jobs, ClaimReclaimJob(c, j)
  PROVE  RInv'
  <1>1. /\ pc'[c] = "claimed"
        /\ \A y \in Sessions \union Promoters : y # c => pc'[y] = pc[y]
        /\ pc' \in [Sessions \union Promoters -> PublisherSteps \union CollectorSteps \union {"read"}]
    BY Zenon, WorkersType DEF RInv, ClaimReclaimJob, CollectorSteps, Sessions
  <1>2. j[1] \in Digests /\ j[2] \in Repositories
    BY Zenon DEF Jobs
  <1>3. /\ want'[c] = j[1] /\ dest'[c] = j[2]
        /\ \A y \in Sessions \union Promoters : y # c => want'[y] = want[y] /\ dest'[y] = dest[y]
    BY Zenon DEF RInv, TypeOK, ClaimReclaimJob, Sessions
  <1>4. TypeOK'
    BY <1>1, <1>2 DEF RInv, TypeOK, ClaimReclaimJob, known, JobStates
  <1>5. \A x \in Publishers \union Promoters : x # c
    BY Zenon, DisjointAssumption DEF Sessions
  <1>6. Located'
    BY Zenon, <1>1, <1>2, <1>3, <1>5 DEF RInv, Core, Located, Sessions
  <1>7. Locked'
    BY ZenonT(40), <1>1, <1>3 DEF RInv, Core, Locked, ClaimReclaimJob, InLock, Sessions
  <1>8. Staged' /\ Written' /\ Condemned' /\ Erased'
    BY <1>1, <1>3, <1>5
    DEF RInv, Core, Staged, Written, Condemned, Erased, Live, known, ClaimReclaimJob, Sessions
  <1>9. Recorded' /\ PublishedHasBytes' /\ LeftoversTracked'
    BY Zenon DEF RInv, Core, Recorded, PublishedHasBytes, LeftoversTracked, Live, known, ClaimReclaimJob
  <1> QED BY Zenon, <1>4, <1>6, <1>7, <1>8, <1>9 DEF RInv, Core

\* The collector looks again under its lock: it condemns what no path
\* refers to.
LEMMA RawObjectIsUnreferencedInv ==
  ASSUME RInv, NEW c \in Collectors, RawObjectIsUnreferenced(c)
  PROVE  RInv'
  <1> DEFINE s == IF Live(want[c]) /\ ~Referenced(want[c]) THEN "condemned" ELSE "done"
  <1>0. s \in InLock /\ s # "deleted" /\ (s = "condemned" => ~Referenced(want[c]))
        /\ pc[c] = "locked" /\ pc' = [pc EXCEPT ![c] = s]
    BY Zenon DEF RawObjectIsUnreferenced, InLock
  <1> HIDE DEF s
  <1>1. /\ Located' /\ Locked'
        /\ pc' \in [Sessions \union Promoters -> PublisherSteps \union CollectorSteps \union {"read"}]
        /\ pc'[c] = s
        /\ \A y \in Sessions \union Promoters : y # c => pc'[y] = pc[y]
        /\ want[c] \in Digests
        /\ \A y \in Sessions : y # c /\ pc'[y] \in InLock => want[y] # want[c]
    BY Zenon, <1>0, AdvanceInv DEF RawObjectIsUnreferenced, InLock, Sessions
  <1>2. TypeOK'
    BY <1>1 DEF RInv, TypeOK, RawObjectIsUnreferenced, known, queue
  <1>3. \A x \in Publishers : x # c
    BY Zenon, DisjointAssumption
  <1>4. Staged' /\ Written'
    BY Zenon, <1>1, <1>3 DEF RInv, Core, Staged, Written, Live, known, RawObjectIsUnreferenced, Sessions
  <1>5. Condemned'
    BY Zenon, <1>0, <1>1 DEF RInv, Core, Condemned, Referenced, RawObjectIsUnreferenced, Sessions
  <1>6. Erased'
    BY Zenon, <1>0, <1>1 DEF RInv, Core, Erased, RawObjectIsUnreferenced, Sessions
  <1>7. Recorded' /\ PublishedHasBytes' /\ LeftoversTracked'
    BY Zenon DEF RInv, Core, Recorded, PublishedHasBytes, LeftoversTracked, Live, known, RawObjectIsUnreferenced
  <1> QED BY Zenon, <1>1, <1>2, <1>4, <1>5, <1>6, <1>7 DEF RInv, Core

\* Condemned bytes are deleted: nothing published under the lock has them and
\* nobody is publishing them.
LEMMA DeleteObjectInv ==
  ASSUME RInv, NEW c \in Collectors, DeleteObject(c)
  PROVE  RInv'
  <1>1. /\ Located' /\ Locked'
        /\ pc' \in [Sessions \union Promoters -> PublisherSteps \union CollectorSteps \union {"read"}]
        /\ pc'[c] = "deleted"
        /\ \A y \in Sessions \union Promoters : y # c => pc'[y] = pc[y]
        /\ want[c] \in Digests
        /\ \A y \in Sessions : y # c /\ pc'[y] \in InLock => want[y] # want[c]
    BY Zenon, AdvanceInv DEF DeleteObject, InLock, Sessions
  <1>2. bytes' = bytes \ {want[c]} /\ pc[c] = "condemned"
    BY Zenon DEF DeleteObject
  <1>3. TypeOK'
    BY Zenon, <1>1, <1>2 DEF RInv, TypeOK, DeleteObject, known, queue
  <1>4. \A u \in Publishers : u # c
    BY DisjointAssumption
  <1>5. Staged'
    BY Zenon, <1>1, <1>4 DEF RInv, Core, Staged, Live, known, DeleteObject, Sessions
  <1>6. Written'
    BY Zenon, <1>1, <1>2, <1>4 DEF RInv, Core, Written, DeleteObject, Sessions, InLock
  <1>7. Condemned' /\ Erased'
    BY Zenon, <1>1, <1>2 DEF RInv, Core, Condemned, Erased, DeleteObject, Sessions
  <1>8. PublishedHasBytes'
    BY Zenon, <1>2 DEF RInv, Core, Condemned, PublishedHasBytes, DeleteObject
  <1>9. Recorded' /\ LeftoversTracked'
    BY Zenon, <1>2 DEF RInv, Core, Recorded, LeftoversTracked, Live, known, DeleteObject
  <1> QED BY Zenon, <1>1, <1>3, <1>5, <1>6, <1>7, <1>8, <1>9 DEF RInv, Core

\* The row is marked once its bytes are gone; no publisher has staged it.
LEMMA MarkRawObjectCollectedInv ==
  ASSUME RInv, NEW c \in Collectors, MarkRawObjectCollected(c)
  PROVE  RInv'
  <1>1. /\ Located' /\ Locked'
        /\ pc' \in [Sessions \union Promoters -> PublisherSteps \union CollectorSteps \union {"read"}]
        /\ pc'[c] = "done"
        /\ \A y \in Sessions \union Promoters : y # c => pc'[y] = pc[y]
        /\ want[c] \in Digests
        /\ \A y \in Sessions : y # c /\ pc'[y] \in InLock => want[y] # want[c]
    BY Zenon, AdvanceInv DEF MarkRawObjectCollected, InLock, Sessions
  <1>2. /\ collected \subseteq collected' /\ collected' \subseteq collected \union {want[c]}
        /\ collected' \subseteq known
        /\ pc[c] = "deleted" /\ UNCHANGED <<owner, bytes, want, asset, lockless, used>>
    BY Zenon DEF MarkRawObjectCollected, Live, RInv, TypeOK
  <1>3. known' = known
    BY Zenon, <1>2 DEF known
  <1>4. TypeOK'
    BY Zenon, <1>1, <1>2, <1>3 DEF RInv, TypeOK, MarkRawObjectCollected, queue
  <1>5. \A u \in Publishers : u # c
    BY DisjointAssumption
  <1>6. Staged'
    BY Zenon, <1>1, <1>2, <1>3, <1>5 DEF RInv, Core, Staged, Live, Sessions, InLock
  <1>7. Written' /\ Condemned' /\ Erased'
    BY Zenon, <1>1, <1>2, <1>5 DEF RInv, Core, Written, Condemned, Erased, Sessions
  <1>8. Recorded' /\ PublishedHasBytes'
    BY Zenon, <1>2, <1>3 DEF RInv, Core, Recorded, PublishedHasBytes
  <1>9. want[c] \notin bytes
    BY Zenon, <1>2 DEF RInv, Core, Erased
  <1>10. LeftoversTracked'
    BY <1>2, <1>3, <1>9 DEF RInv, Core, LeftoversTracked, Live
  <1> QED BY Zenon, <1>1, <1>4, <1>6, <1>7, <1>8, <1>10 DEF RInv, Core

\* The collector ends: its job completed, failed, or left to its lease.
LEMMA EndWorkInv ==
  ASSUME RInv, NEW c \in Collectors,
         CompleteReclaimJob(c) \/ FailReclaimJob(c) \/ CrashCollector(c)
  PROVE  RInv'
  <1>1. /\ Finish(c) /\ pc[c] # "idle"
        /\ UNCHANGED <<asset, tomb, owner, collected, aged, older, bytes, listed, lockless, used>>
    BY Zenon DEF CompleteReclaimJob, FailReclaimJob, CrashCollector, queue
  <1>2. /\ Core' /\ lock' \in [Digests -> Sessions \union {None}]
        /\ pc' \in [Sessions \union Promoters -> PublisherSteps \union CollectorSteps \union {"read"}]
    BY Zenon, <1>1, FinishInv DEF Sessions
  <1>3. JobOf(c) \in Jobs
    BY Zenon, <1>1 DEF RInv, Core, Located, JobOf, Jobs, Sessions
  <1>4. job' \in [Jobs -> JobStates] /\ holder' \in [Jobs -> Collectors \union {None}]
    <2>1. CASE CompleteReclaimJob(c)
      BY SMTT(20), <1>3, <2>1 DEF CompleteReclaimJob, JobStates, RInv, TypeOK
    <2>2. CASE FailReclaimJob(c)
      BY <1>3, <2>2 DEF FailReclaimJob, Unfinished, JobStates, RInv, TypeOK
    <2>3. CASE CrashCollector(c)
      BY Zenon, <2>3 DEF CrashCollector, queue, RInv, TypeOK
    <2> QED BY Zenon, <2>1, <2>2, <2>3
  <1>5. count' \in [Costs -> Nat]
    <2>1. Spend("fail") => count' \in [Costs -> Nat]
      BY Zenon, SpendType DEF RInv, Costs
    <2>2. count' = count => count' \in [Costs -> Nat]
      BY Zenon DEF RInv, TypeOK
    <2> QED BY Zenon, <2>1, <2>2 DEF CompleteReclaimJob, FailReclaimJob, CrashCollector
  <1>6. TypeOK'
    BY <1>1, <1>2, <1>4, <1>5 DEF RInv, TypeOK, Finish, known
  <1> QED BY Zenon, <1>2, <1>6 DEF RInv

\* A lease runs out, or a failed job is retried.
LEMMA RequeueInv ==
  ASSUME RInv, NEW j \in Jobs, RecoverReclaimJob(j) \/ RetryReclaimJob(j)
  PROVE  RInv'
  <1>1. /\ UNCHANGED <<asset, tomb, owner, collected, aged, older, bytes, workers, listed,
                       lockless, used>>
        /\ job' \in [Jobs -> JobStates]
        /\ holder' \in [Jobs -> Collectors \union {None}]
    BY ZenonT(40) DEF RecoverReclaimJob, RetryReclaimJob, Unfinished, JobStates, RInv, TypeOK
  <1>2. count' \in [Costs -> Nat]
    <2>1. Spend("fail") => count' \in [Costs -> Nat]
      BY Zenon, SpendType DEF RInv, Costs
    <2>2. count' = count => count' \in [Costs -> Nat]
      BY Zenon DEF RInv, TypeOK
    <2> QED BY Zenon, <2>1, <2>2 DEF RecoverReclaimJob, RetryReclaimJob
  <1>3. Core'
    BY Zenon, <1>1, KeepsCore DEF RInv, Core, Recorded
  <1>4. TypeOK'
    BY Zenon, <1>1, <1>2 DEF RInv, TypeOK, known, workers
  <1> QED BY Zenon, <1>3, <1>4 DEF RInv

-----------------------------------------------------------------------------
\* Every step keeps the invariant.
LEMMA NextInv ==
  ASSUME RInv, [Next]_vars
  PROVE  RInv'
  <1>1. CASE UNCHANGED vars
    <2>1. /\ UNCHANGED <<asset, tomb, owner, collected, aged, older, bytes, lock, pc, want, dest>>
          /\ UNCHANGED <<listed, job, holder, lockless, used, count>>
      BY Zenon, <1>1 DEF vars
    <2>2. Core'
      BY Zenon, <2>1, KeepsCore DEF RInv, Core, Recorded, workers
    <2>3. TypeOK'
      BY Zenon, <2>1 DEF RInv, TypeOK, known
    <2> QED BY Zenon, <2>2, <2>3 DEF RInv
  <1>2. ASSUME NEW u \in Publishers, Put(u) PROVE RInv'
    <2>1. ASSUME LockRawObject(u) PROVE RInv'
      BY Zenon, <2>1, AcquireInv DEF LockRawObject, Sessions
    <2> QED BY Zenon, <1>2, <2>1, SpoolBodyInv, StageRawObjectInv, PutVerifiedReaderInv,
               PutRawAssetIfInv, EndPutInv DEF Put
  <1>3. ASSUME NEW m \in Promoters, Promote(m) PROVE RInv'
    BY <1>3, ReadSourceInv, PutRawAssetInv, EndPromotionInv DEF Promote
  <1>4. ASSUME NEW c \in Collectors, Work(c) \/ FailReclaimJob(c) \/ CrashCollector(c)
        PROVE  RInv'
    <2>1. ASSUME LockForReclaim(c) PROVE RInv'
      BY Zenon, <2>1, AcquireInv DEF LockForReclaim, Sessions
    <2> QED BY <1>4, <2>1, ClaimReclaimJobInv, RawObjectIsUnreferencedInv, DeleteObjectInv,
               MarkRawObjectCollectedInv, EndWorkInv DEF Work
  <1> QED BY <1>1, <1>2, <1>3, <1>4, DeleteRawAssetInv, RestoreRawAssetInv, ScheduleInv,
             ClockInv, RequeueInv DEF Next

\* The invariant holds throughout.
LEMMA Invariance == Spec => []RInv
  BY InitInv, NextInv, PTL DEF Spec

\* The tables, the object store and the workers stay well typed under every
\* operation of internal/format/raw, its promotion and its collector.
THEOREM RawTypeCorrect == Spec => []TypeOK
  <1>1. RInv => TypeOK
    BY DEF RInv
  <1> QED BY <1>1, Invariance, PTL

\* What PUT, an upload's completion or a migration has published under the
\* object lock can be read, whatever the reclaim jobs do: LockRawObject and
\* the recheck under it are enough, for any number of workers.
THEOREM PublicationsReadable == Spec => []PublishedHasBytes
  <1>1. RInv => PublishedHasBytes
    BY DEF RInv, Core
  <1> QED BY <1>1, Invariance, PTL

\* StageRawObject before PutVerifiedReader, and MarkRawObjectCollected after
\* Delete, keep every object in the store known to the collector.
THEOREM NothingLeaks == Spec => []LeftoversTracked
  <1>1. RInv => LeftoversTracked
    BY DEF RInv, Core
  <1> QED BY <1>1, Invariance, PTL

\* The advisory lock of a digest serialises publications and reclaims of it.
THEOREM ObjectsExclusive == Spec => []ExclusiveObject
  <1>1. RInv => ExclusiveObject
    BY Exclusion DEF RInv, Core, ExclusiveObject
  <1> QED BY <1>1, Invariance, PTL

\* Only a collector's Delete takes bytes away.
LEMMA OnlyDeleteObject ==
  ASSUME Next
  PROVE  bytes \subseteq bytes' \/ \E c \in Collectors : DeleteObject(c)
  <1>1. ASSUME NEW u \in Publishers, Put(u) PROVE bytes \subseteq bytes'
    BY Zenon, <1>1 DEF Put, SpoolBody, LockRawObject, StageRawObject, PutVerifiedReader,
                PutRawAssetIf, EndPut
  <1>2. ASSUME NEW m \in Promoters, Promote(m) PROVE bytes \subseteq bytes'
    BY Zenon, <1>2 DEF Promote, ReadSource, PutRawAsset, EndPromotion
  <1>3. ASSUME NEW p \in Paths, DeleteRawAsset(p) \/ RestoreRawAsset(p)
        PROVE  bytes \subseteq bytes'
    BY Zenon, <1>3 DEF DeleteRawAsset, RestoreRawAsset
  <1>4. ASSUME Schedule PROVE bytes \subseteq bytes'
    BY Zenon, <1>4 DEF Schedule, ListUnreferencedRawObjects, EnqueueReclaimJob
  <1>5. ASSUME NEW c \in Collectors, Work(c) \/ FailReclaimJob(c) \/ CrashCollector(c)
        PROVE  bytes \subseteq bytes' \/ DeleteObject(c)
    BY Zenon, <1>5 DEF Work, ClaimReclaimJob, LockForReclaim, RawObjectIsUnreferenced,
                MarkRawObjectCollected, CompleteReclaimJob, FailReclaimJob, CrashCollector
  <1>6. ASSUME NEW d \in Digests, GraceOver(d) \/ RestOver(d) PROVE bytes \subseteq bytes'
    BY Zenon, <1>6 DEF GraceOver, RestOver
  <1>7. ASSUME NEW j \in Jobs, RecoverReclaimJob(j) \/ RetryReclaimJob(j)
        PROVE  bytes \subseteq bytes'
    BY <1>7 DEF RecoverReclaimJob, RetryReclaimJob
  <1> QED BY Zenon, <1>1, <1>2, <1>3, <1>4, <1>5, <1>6, <1>7 DEF Next

\* The collector's Delete removes no bytes that a publication made under the
\* lock refers to, nor any that a publication has written and will commit.
LEMMA ReclaimSafe ==
  ASSUME RInv, NEW c \in Collectors, DeleteObject(c)
  PROVE  (bytes \ bytes') \intersect (Pledged \union Shown) = {}
  <1>1. bytes \ bytes' \subseteq {want[c]} /\ pc[c] = "condemned"
    BY Zenon DEF DeleteObject
  <1>2. \A p \in Paths \ lockless : asset[p] # want[c]
    BY ZenonT(40), <1>1 DEF RInv, Core, Condemned
  <1>3. \A u \in Publishers : pc[u] \in InLock => want[u] # want[c]
    BY <1>1, Exclusion, DisjointAssumption DEF RInv, Core, Sessions, InLock
  <1>4. want[c] \notin Shown
    BY Zenon, <1>2 DEF Shown
  <1>5. want[c] \notin Pledged
    BY Zenon, <1>3 DEF Pledged, InLock
  <1> QED BY Zenon, <1>1, <1>4, <1>5

\* Only PutRawAssetIf shows under the lock what was not shown before.
LEMMA OnlyPutRawAssetIf ==
  ASSUME RInv, Next
  PROVE  \/ \A p \in Paths \ lockless' : asset'[p] # None => p \notin lockless /\ asset'[p] = asset[p]
         \/ \E u \in Publishers : PutRawAssetIf(u)
  <1> DEFINE Kept == \A p \in Paths \ lockless' :
                       asset'[p] # None => p \notin lockless /\ asset'[p] = asset[p]
  <1>0. ASSUME UNCHANGED <<asset, lockless>> PROVE Kept
    BY Zenon, <1>0
  <1>1. ASSUME NEW u \in Publishers, Put(u), ~PutRawAssetIf(u) PROVE Kept
    BY Zenon, <1>0, <1>1 DEF Put, SpoolBody, LockRawObject, StageRawObject, PutVerifiedReader, EndPut
  <1>2. ASSUME NEW m \in Promoters, PutRawAsset(m) PROVE Kept
    <2>1. asset' = [asset EXCEPT ![dest[m]] = want[m]] /\ lockless' = lockless \union {dest[m]}
      BY Zenon, <1>2 DEF PutRawAsset, Publish
    <2>2. asset \in [Paths -> Digests \union {None}]
      BY Zenon DEF RInv, TypeOK
    <2> QED BY Zenon, <2>1, <2>2
  <1>3. ASSUME NEW m \in Promoters, Promote(m) PROVE Kept
    BY Zenon, <1>0, <1>2, <1>3 DEF Promote, ReadSource, EndPromotion
  <1>4. ASSUME NEW p \in Paths, DeleteRawAsset(p) PROVE Kept
    <2>1. asset' = [asset EXCEPT ![p] = None] /\ lockless' = lockless
      BY Zenon, <1>4 DEF DeleteRawAsset
    <2>2. asset \in [Paths -> Digests \union {None}]
      BY Zenon DEF RInv, TypeOK
    <2> QED BY Zenon, <2>1, <2>2
  <1>5. ASSUME NEW p \in Paths, RestoreRawAsset(p) PROVE Kept
    <2>1. asset' = [asset EXCEPT ![p] = tomb[p]] /\ lockless' = lockless \union {p}
      BY Zenon, <1>5 DEF RestoreRawAsset
    <2>2. asset \in [Paths -> Digests \union {None}]
      BY Zenon DEF RInv, TypeOK
    <2> QED BY Zenon, <2>1, <2>2
  <1>6. ASSUME Schedule PROVE Kept
    BY Zenon, <1>0, <1>6 DEF Schedule, ListUnreferencedRawObjects, EnqueueReclaimJob
  <1>7. ASSUME NEW c \in Collectors, Work(c) \/ FailReclaimJob(c) \/ CrashCollector(c) PROVE Kept
    BY Zenon, <1>0, <1>7 DEF Work, ClaimReclaimJob, LockForReclaim, RawObjectIsUnreferenced,
       DeleteObject, MarkRawObjectCollected, CompleteReclaimJob, FailReclaimJob, CrashCollector
  <1>8. ASSUME NEW d \in Digests, GraceOver(d) \/ RestOver(d) PROVE Kept
    BY Zenon, <1>0, <1>8 DEF GraceOver, RestOver
  <1>9. ASSUME NEW j \in Jobs, RecoverReclaimJob(j) \/ RetryReclaimJob(j) PROVE Kept
    BY Zenon, <1>0, <1>9 DEF RecoverReclaimJob, RetryReclaimJob
  <1> QED BY Zenon, <1>1, <1>3, <1>4, <1>5, <1>6, <1>7, <1>8, <1>9 DEF Next

\* A publication shows what it has written.
LEMMA ShowsPledged ==
  ASSUME RInv, [Next]_vars
  PROVE  Shown' \subseteq Shown \union Pledged
  <1>0. ASSUME \A p \in Paths \ lockless' :
                 asset'[p] # None => p \notin lockless /\ asset'[p] = asset[p]
        PROVE  Shown' \subseteq Shown
    BY Zenon, <1>0 DEF Shown
  <1>1. ASSUME NEW u \in Publishers, PutRawAssetIf(u) PROVE Shown' \subseteq Shown \union Pledged
    <2>1. /\ asset' = [asset EXCEPT ![dest[u]] = want[u]] /\ lockless' = lockless \ {dest[u]}
          /\ pc[u] = "written"
      BY Zenon, <1>1 DEF PutRawAssetIf, Publish
    <2>2. asset \in [Paths -> Digests \union {None}] /\ want[u] \in Pledged
      BY Zenon, <2>1 DEF RInv, TypeOK, Pledged
    <2>3. \A p \in Paths : asset'[p] = IF p = dest[u] THEN want[u] ELSE asset[p]
      BY Zenon, <2>1, <2>2
    <2>4. ASSUME NEW p \in Paths \ lockless', asset'[p] # None PROVE asset'[p] \in Shown \union Pledged
      <3>1. CASE p = dest[u]
        BY Zenon, <3>1, <2>2, <2>3
      <3>2. CASE p # dest[u]
        <4>1. p \notin lockless /\ asset'[p] = asset[p]
          BY Zenon, <3>2, <2>1, <2>3, <2>4
        <4> QED BY Zenon, <4>1, <2>4 DEF Shown
      <3> QED BY Zenon, <3>1, <3>2
    <2> QED BY Zenon, <2>4 DEF Shown
  <1>2. ASSUME UNCHANGED vars PROVE Shown' = Shown
    BY Zenon, <1>2 DEF vars, Shown
  <1> QED BY Zenon, <1>0, <1>1, <1>2, OnlyPutRawAssetIf

\* Publications under the object lock, with the collectors, the failures and
\* the lockless paths beside them, implement ContentStore.
THEOREM RawImplementsContentStore == Spec => RawKeepsContent
  <1>1. Init => Content!Init
    <2> SUFFICES ASSUME Init PROVE Content!Init
      OBVIOUS
    <2>1. Pledged = {}
      <3>1. \A u \in Publishers : pc[u] \notin {"written", "published"}
        BY DEF Init, Sessions
      <3> QED BY Zenon, <3>1 DEF Pledged
    <2>2. Shown = {}
      <3>1. \A p \in Paths : asset[p] = None
        BY Zenon DEF Init
      <3> QED BY Zenon, <3>1 DEF Shown
    <2> QED BY Zenon, <2>1, <2>2 DEF Init, Content!Init
  <1>2. RInv /\ RInv' /\ [Next]_vars => Content!Next
    <2> SUFFICES ASSUME RInv, RInv', [Next]_vars PROVE Content!Next
      OBVIOUS
    <2>1. Content!Pledge
      BY Zenon DEF Content!Pledge, Pledged, RInv, Core, Written
    <2>2. Content!Show
      BY Zenon, ShowsPledged DEF Content!Show
    <2>3. Content!Reclaim
      <3>1. ASSUME bytes \subseteq bytes' PROVE Content!Reclaim
        BY Zenon, <3>1 DEF Content!Reclaim
      <3>2. UNCHANGED vars => bytes \subseteq bytes'
        BY Zenon DEF vars
      <3>3. ASSUME NEW c \in Collectors, DeleteObject(c) PROVE Content!Reclaim
        BY Zenon, <3>3, ReclaimSafe DEF Content!Reclaim
      <3> QED BY Zenon, <3>1, <3>2, <3>3, OnlyDeleteObject
    <2> QED BY Zenon, <2>1, <2>2, <2>3 DEF Content!Next
  <1> QED BY <1>1, <1>2, Invariance, PTL DEF Spec, RawKeepsContent, Content!Spec

\* What ContentStore promises is what readers need: a path
\* published under the object lock has its bytes.
THEOREM RawContentReadable == RawKeepsContent => []PublishedHasBytes
<1> DEFINE Kept == Pledged \union Shown \subseteq bytes
<1>1. Content!Init => Kept
  BY Zenon DEF Content!Init
<1>2. Kept /\ [Content!Next]_(Content!vars) => Kept'
  <2> SUFFICES ASSUME Kept, [Content!Next]_(Content!vars) PROVE Kept'
    OBVIOUS
  <2>1. CASE Content!Next
    <3>1. /\ Pledged' \subseteq bytes'
          /\ Shown' \subseteq Shown \union Pledged
          /\ (bytes \ bytes') \intersect (Pledged \union Shown) = {}
      BY Zenon, <2>1 DEF Content!Next, Content!Pledge, Content!Show, Content!Reclaim
    <3> QED
      BY Zenon, <3>1
  <2>2. CASE UNCHANGED Content!vars
    <3>1. Pledged' = Pledged /\ Shown' = Shown /\ bytes' = bytes
      BY Zenon, <2>2 DEF Content!vars
    <3> QED
      BY Zenon, <3>1
  <2> QED
    BY Zenon, <2>1, <2>2
<1>3. Kept => PublishedHasBytes
  BY Zenon DEF Shown, PublishedHasBytes
<1> HIDE DEF Kept
<1> QED
  BY <1>1, <1>2, <1>3, PTL DEF RawKeepsContent, Content!Spec

-----------------------------------------------------------------------------
(* The paths without the object lock                                       *)

\* Nothing has been restored or promoted yet.
LockedOnly == count["restore"] = 0 /\ count["promote"] = 0

\* As long as that is so no path was made visible without the lock, and no
\* promotion is on its way to do it.
NoLockless == LockedOnly => lockless = {} /\ \A m \in Promoters : pc[m] = "idle"

\* Spending from one supply leaves it above zero, and takes nothing from the
\* others.
LEMMA Spent ==
  ASSUME TypeOK, NEW what \in Costs, Spend(what)
  PROVE  LockedOnly' => LockedOnly /\ what \notin {"restore", "promote"}
  <1>1. /\ count \in [Costs -> Nat] /\ count' = [count EXCEPT ![what] = @ + 1]
        /\ {"restore", "promote"} \subseteq Costs
    BY DEF TypeOK, Spend, Costs
  <1>2. count'[what] # 0 /\ \A x \in Costs : x # what => count'[x] = count[x]
    BY <1>1
  <1> QED BY Zenon, <1>1, <1>2 DEF LockedOnly

\* A step that makes nothing visible without the lock, moves no promotion and
\* gives no supply back keeps that.
LEMMA QuietLockless ==
  ASSUME NoLockless, lockless' \subseteq lockless, LockedOnly' => LockedOnly,
         \A m \in Promoters : pc'[m] = pc[m]
  PROVE  NoLockless'
  BY Zenon DEF NoLockless

\* The step of a request or of a reclaim worker is no promotion's.
LEMMA OthersStep ==
  ASSUME TypeOK, NEW x \in Sessions, NEW s, pc' = [pc EXCEPT ![x] = s]
  PROVE  \A m \in Promoters : pc'[m] = pc[m]
  BY Zenon, DisjointAssumption DEF TypeOK, Sessions

\* Every step keeps it: a restore or a promotion that begins is counted.
LEMMA NoLocklessNext ==
  ASSUME TypeOK, NoLockless, [Next]_vars
  PROVE  NoLockless'
  <1> DEFINE B == {"put", "delete", "restore", "promote", "fail"}
  <1>0. Costs = B /\ Publishers \subseteq Sessions /\ Collectors \subseteq Sessions
    BY DEF Costs, Sessions
  <1>a. \A what \in {"put", "delete", "fail"} : Spend(what) => (LockedOnly' => LockedOnly)
    BY Zenon, <1>0, Spent
  <1>b. count' = count => (LockedOnly' => LockedOnly)
    BY Zenon DEF LockedOnly
  <1>1. ASSUME NEW u \in Publishers, Put(u) PROVE NoLockless'
    <2>1. /\ lockless' \subseteq lockless
          /\ count' = count \/ Spend("put")
          /\ \E s : pc' = [pc EXCEPT ![u] = s]
      BY Zenon, <1>1 DEF Put, SpoolBody, LockRawObject, StageRawObject, PutVerifiedReader,
                         PutRawAssetIf, EndPut, Finish
    <2>2. \A m \in Promoters : pc'[m] = pc[m]
      BY Zenon, <2>1, <1>0, OthersStep
    <2> QED BY Zenon, <2>1, <2>2, <1>a, <1>b, QuietLockless
  <1>2. ASSUME NEW m \in Promoters, Promote(m) PROVE NoLockless'
    <2>1. CASE \E p, q \in Paths : ReadSource(m, p, q)
      <3>1. Spend("promote")
        BY Zenon, <2>1 DEF ReadSource
      <3> QED BY Zenon, <3>1, <1>0, Spent DEF NoLockless
    <2>2. CASE PutRawAsset(m) \/ EndPromotion(m)
      <3>1. pc[m] = "read" /\ count' = count
        BY Zenon, <2>2 DEF PutRawAsset, EndPromotion
      <3>2. ~LockedOnly
        BY <3>1 DEF NoLockless
      <3> QED BY Zenon, <3>1, <3>2, <1>b DEF NoLockless
    <2> QED BY Zenon, <1>2, <2>1, <2>2 DEF Promote
  <1>3. ASSUME NEW p \in Paths, DeleteRawAsset(p) PROVE NoLockless'
    <2>1. lockless' = lockless /\ Spend("delete") /\ pc' = pc
      BY Zenon, <1>3 DEF DeleteRawAsset, workers
    <2> QED BY Zenon, <2>1, <1>a, QuietLockless
  <1>4. ASSUME NEW p \in Paths, RestoreRawAsset(p) PROVE NoLockless'
    <2>1. Spend("restore")
      BY Zenon, <1>4 DEF RestoreRawAsset
    <2> QED BY Zenon, <2>1, <1>0, Spent DEF NoLockless
  <1>5. ASSUME Schedule PROVE NoLockless'
    <2>1. lockless' = lockless /\ count' = count /\ pc' = pc
      BY Zenon, <1>5 DEF Schedule, ListUnreferencedRawObjects, EnqueueReclaimJob, workers
    <2> QED BY Zenon, <2>1, <1>b, QuietLockless
  <1>6. ASSUME NEW c \in Collectors, Work(c) \/ FailReclaimJob(c) \/ CrashCollector(c)
        PROVE  NoLockless'
    <2>1. /\ lockless' = lockless
          /\ count' = count \/ Spend("fail")
          /\ \E s : pc' = [pc EXCEPT ![c] = s]
      BY Zenon, <1>6 DEF Work, ClaimReclaimJob, LockForReclaim, RawObjectIsUnreferenced,
         DeleteObject, MarkRawObjectCollected, CompleteReclaimJob, FailReclaimJob,
         CrashCollector, Finish
    <2>2. \A m \in Promoters : pc'[m] = pc[m]
      BY Zenon, <2>1, <1>0, OthersStep
    <2> QED BY Zenon, <2>1, <2>2, <1>a, <1>b, QuietLockless
  <1>7. ASSUME NEW d \in Digests, GraceOver(d) \/ RestOver(d) PROVE NoLockless'
    <2>1. lockless' = lockless /\ count' = count /\ pc' = pc
      BY Zenon, <1>7 DEF GraceOver, RestOver, workers
    <2> QED BY Zenon, <2>1, <1>b, QuietLockless
  <1>8. ASSUME NEW j \in Jobs, RecoverReclaimJob(j) \/ RetryReclaimJob(j) PROVE NoLockless'
    <2>1. lockless' = lockless /\ (count' = count \/ Spend("fail")) /\ pc' = pc
      BY Zenon, <1>8 DEF RecoverReclaimJob, RetryReclaimJob, workers
    <2> QED BY Zenon, <2>1, <1>a, <1>b, QuietLockless
  <1>9. ASSUME UNCHANGED vars PROVE NoLockless'
    BY Zenon, <1>9 DEF vars, NoLockless, LockedOnly
  <1> QED BY Zenon, <1>1, <1>2, <1>3, <1>4, <1>5, <1>6, <1>7, <1>8, <1>9 DEF Next

\* The restore and the promotion, which take no object lock, are all that can
\* leave a visible path without its bytes: until the first of them everything
\* visible can be read, whatever publications, tombstones, collectors, expired
\* leases and crashes do.
THEOREM OnlyLocklessPathsLoseBytes == Spec => [](LockedOnly => VisibleHasBytes)
  <1>1. Init => NoLockless
    <2> SUFFICES ASSUME Init PROVE lockless = {} /\ \A m \in Promoters : pc[m] = "idle"
      BY Zenon DEF NoLockless
    <2> QED BY Zenon DEF Init
  <1>2. RInv /\ NoLockless /\ [Next]_vars => NoLockless'
    BY Zenon, NoLocklessNext DEF RInv
  <1>3. RInv /\ NoLockless => (LockedOnly => VisibleHasBytes)
    BY Zenon DEF RInv, Core, NoLockless, PublishedHasBytes, VisibleHasBytes
  <1> QED BY <1>1, <1>2, <1>3, Invariance, PTL DEF Spec
=============================================================================
