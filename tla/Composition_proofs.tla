-------------------------- MODULE Composition_proofs --------------------------
(***************************************************************************)
(* Together, the services are each service and the stores are each store:  *)
(* a behaviour of the composition, seen through the rows of one component, *)
(* is a behaviour of that component.  What is proved of a component thus   *)
(* holds of the composition, for every value of the constants.             *)
(***************************************************************************)
EXTENDS MCServices, MCStores, Deliveries_proofs, AdvisoryLocks_proofs,
        Artifacts_proofs, LifecycleJobs_proofs, Stores_proofs, RawCache_proofs

-----------------------------------------------------------------------------
(* The services                                                            *)

\* A step of the composition is a step of the lifecycle queue or leaves it
\* alone, and so for e-mail, replication plans, webhooks and advisory locks.
LEMMA ServiceSteps ==
    [ServicesNext]_services => /\ [Next]_vars /\ [MailNext]_mailVars /\ [PlanNext]_planVars
                               /\ [HookNext]_hookVars /\ [LockNext]_lockVars
<1>1. ASSUME UNCHANGED services
      PROVE  /\ UNCHANGED vars /\ UNCHANGED mailVars /\ UNCHANGED planVars
             /\ UNCHANGED hookVars /\ UNCHANGED lockVars
  BY Zenon, <1>1 DEF services
<1>2. ASSUME ServicesNext
      PROVE  /\ Next \/ UNCHANGED vars
             /\ MailNext \/ UNCHANGED mailVars
             /\ PlanNext \/ UNCHANGED planVars
             /\ HookNext \/ UNCHANGED hookVars
             /\ LockNext \/ UNCHANGED lockVars
  <2>1. /\ "jobs" # "mail" /\ "jobs" # "plans" /\ "jobs" # "hooks" /\ "jobs" # "locks"
        /\ "mail" # "plans" /\ "mail" # "hooks" /\ "mail" # "locks"
        /\ "plans" # "hooks" /\ "plans" # "locks" /\ "hooks" # "locks"
    BY Zenon
  <2> QED
    BY Zenon, <1>2, <2>1 DEF ServicesNext, OthersRest
<1> QED
  BY Zenon, <1>1, <1>2

\* Every service starts in an initial state of its own.
LEMMA ServiceInits == ServicesInit => Init /\ MailInit /\ PlanInit /\ HookInit /\ LockInit
  BY Zenon DEF ServicesInit

\* The composition implements each of the services it is composed of.
THEOREM ServicesCompose ==
    ServicesSpec => Spec /\ MailSpec /\ PlanSpec /\ HookSpec /\ LockSpec
  BY ServiceSteps, ServiceInits, PTL
  DEF ServicesSpec, Spec, MailSpec, PlanSpec, HookSpec, LockSpec

\* Every row, claim, request and session of the services has its type: each of
\* the services keeps its own types, and none writes another's rows.
THEOREM ServicesTyped == ServicesSpec => []ServicesTypeOK
<1>1. TypeOK /\ MailTypeOK /\ PlanTypeOK /\ HookTypeOK /\ LockTypeOK => ServicesTypeOK
  BY Zenon DEF ServicesTypeOK
<1> QED
  BY <1>1, ServicesCompose, TypeCorrect, MailTypes, PlanTypeCorrect, HookTypes, LockTypes, PTL

\* The safety properties of the job, e-mail, replication, webhook and locking
\* parts are safety properties of their composition, whichever of them a
\* behaviour runs: their tables stay honest, each of the four queues hands its
\* work out under leases, and those who wait for locks never all wait for each
\* other while no handler holds a connection and waits for a call without it.
THEOREM ServicesSafe ==
    ServicesSpec => /\ [](OneHolderPerLease /\ AttemptBudget /\ FencedOwner)
                    /\ [](DuplicatesFlagged /\ QuotaMailInOrder)
                    /\ [](PublisherOwnsPlan /\ CompletedIsPublished)
                    /\ [](EventsTellHistory /\ PostsBounded)
                    /\ [](LocksProtect /\ CarriedNeverStuck)
                    /\ JobsAreLeasedWork /\ MailIsLeasedWork /\ PlansAreLeasedWork /\ HooksAreLeasedWork
  BY ServicesCompose, LeasesExclusive, AttemptsBounded, PublicationFenced,
     QueueImplementsLeasedWork, DuplicatesAnnounced, AlertsInOrder, PublicationOwned,
     CompletionMeansPublished, EventsAreHistory, EndpointSpared, LocksAreProtected,
     LocksNeverStuck, MailImplementsLeasedWork, PlansImplementLeasedWork,
     HooksImplementLeasedWork, PTL

\* Where nothing is replicated in the format Cargo, the composition never
\* publishes a plan whose artifact is quarantined at that moment.
THEOREM ServicesAdmit ==
    ASSUME "cargo" \notin PlanFormats
    PROVE  ServicesSpec => []PublishedUnderAdmission
  BY AdmissionLinearized, ServicesCompose, PTL

-----------------------------------------------------------------------------
(* The stores                                                              *)

\* A step of the composition is a step of the in-memory job store or leaves it
\* alone, and so for quota alerts, uploads, Go modules and the cache.
LEMMA StoreSteps ==
    [StoresNext]_stores => /\ [MemoryNext]_vars /\ [QuotaNext]_quotaVars
                           /\ [UploadNext]_uploadVars /\ [GoNext]_goVars
                           /\ [CacheNext]_cacheVars
<1>1. ASSUME UNCHANGED stores
      PROVE  /\ UNCHANGED vars /\ UNCHANGED quotaVars /\ UNCHANGED uploadVars
             /\ UNCHANGED goVars /\ UNCHANGED cacheVars
  BY Zenon, <1>1 DEF stores
<1>2. ASSUME StoresNext
      PROVE  /\ MemoryNext \/ UNCHANGED vars
             /\ QuotaNext \/ UNCHANGED quotaVars
             /\ UploadNext \/ UNCHANGED uploadVars
             /\ GoNext \/ UNCHANGED goVars
             /\ CacheNext \/ UNCHANGED cacheVars
  <2>1. /\ "jobs" # "quota" /\ "jobs" # "uploads" /\ "jobs" # "go" /\ "jobs" # "cache"
        /\ "quota" # "uploads" /\ "quota" # "go" /\ "quota" # "cache"
        /\ "uploads" # "go" /\ "uploads" # "cache" /\ "go" # "cache"
    BY Zenon
  <2> QED
    BY Zenon, <1>2, <2>1 DEF StoresNext, OthersKeep
<1> QED
  BY Zenon, <1>1, <1>2

\* Every store starts in an initial state of its own.
LEMMA StoreInits ==
    StoresInit => Init /\ QuotaInit /\ UploadInit /\ GoInit /\ CacheInit
  BY Zenon DEF StoresInit

\* The composition implements each of the stores it is composed of.
THEOREM StoresCompose ==
    StoresSpec => MemorySpec /\ QuotaSpec /\ UploadSpec /\ GoSpec /\ CacheSpec
  BY StoreSteps, StoreInits, PTL
  DEF StoresSpec, MemorySpec, QuotaSpec, UploadSpec, GoSpec, CacheSpec

\* Every row, request, entry and intent of the stores has its type: each of the
\* stores keeps its own types, and none writes another's rows.
THEOREM StoresTyped == StoresSpec => []StoresTypeOK
<1>1. TypeOK /\ QuotaTypeOK /\ UploadTypeOK /\ GoTypeOK /\ CacheTypeOK => StoresTypeOK
  BY Zenon DEF StoresTypeOK
<1> QED
  BY <1>1, StoresCompose, MemorySafe, QuotaTypes, UploadTypes, GoTypes, CacheTypeCorrect, PTL

\* And so for the stores, whichever of them a behaviour runs: alerts, uploads,
\* modules and the cache keep their invariants, the job store hands its work out
\* under leases, and what readers are referred to stays in the object store.
THEOREM StoresSafe ==
    StoresSpec => /\ [](SeverityIsDocumented /\ OncePerEpisode)
                  /\ [](ConditionHoldsAtCommit /\ PublishesWhatWasAccepted /\ CollectedLeavesNothing)
                  /\ []ModuleBytesTracked
                  /\ [](CacheWithinQuota /\ FetchedOnce) /\ FreshEntriesSurvive
                  /\ []OneRunningPerRepository /\ JobsAreLeasedWork
                  /\ GoKeepsContent /\ CacheKeepsContent
  BY StoresCompose, SeverityDocumented, AlertsOncePerEpisode, ConditionalWrites,
     CompletionPublishesAccepted, CollectedUploadsEmpty, NoObjectForgotten, QuotaKept,
     PathFetchedOnce, EntriesSurvive, MemoryOneRunning, MemoryImplementsLeasedWork,
     GoImplementsContentStore, CacheImplementsContentStore, PTL
=============================================================================
