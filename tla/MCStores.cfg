SPECIFICATION StoresSpec
CONSTANTS
    j1 = j1  j2 = j2  w1 = w1  w2 = w2
    Jobs <- MCJobs
    Workers <- MCWorkers
    RepositoryOf <- MCRepositoryOf
    KindOf <- MCKindOf
    WorkerKind <- MCWorkerKind
    MaxAttempts = 2
    ClockSkew = FALSE
    MaxRequeues = 1
    MaxCrashes = 0
    NoWorker = NoWorker
    NoLease = NoLease
    WarningFor = 4
    CriticalFor = 2
    RecoveryFor = 4
    Intervals = {2, 3}
    QuotaBudgets <- SomeQuotaBudgets
    Chunks = {"a", "b"}
    PutContents <- SomeContents
    MaxUploadOffset = 2
    UploadConditions <- SomeConditions
    UploadClockSkew = TRUE
    UploadBudgets <- SomeUploadBudgets
    GoRepositories = {1, 2}
    GoObjects = {"info", "zip", "other"}
    GoCallers = {c1, c2}
    GoJobAttempts = 2
    GoBudgets <- SomeGoBudgets
    CacheWorkers = {g1, g2}
    CacheKeys = {k1, k2}
    CacheBodies = {"half", "whole"}
    BodySize <- SomeSizes
    CacheLimit = 2
    CacheBudgets <- SomeCacheBudgets
INVARIANTS
    StoresTypeOK
    OneRunningPerRepository
    SeverityIsDocumented
    OncePerEpisode
    ConditionHoldsAtCommit
    PublishesWhatWasAccepted
    CollectedLeavesNothing
    ModuleBytesTracked
    CacheWithinQuota
    FetchedOnce
PROPERTIES
    GoKeepsContent
    CacheKeepsContent
    FreshEntriesSurvive
CHECK_DEADLOCK FALSE
