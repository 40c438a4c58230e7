SPECIFICATION ServicesSpec
CONSTANTS
    Jobs = {"j1"}
    Workers = {"w1", "w2"}
    RepositoryOf <- TheRepository
    KindOf <- TheKind
    WorkerKind <- SameKind
    MaxAttempts = 2
    ClockSkew = FALSE
    MaxRequeues = 1
    MaxCrashes = 1
    NoWorker = NoWorker
    NoLease = NoLease
    MailTests = {t1}
    MailRules = {r1}
    MailAttempts = 2
    MaxMailEvents = 2
    MailBudgets <- SomeMailBudgets
    Plans = {p1}
    PlanFormats = {"pypi", "raw"}
    PlanAttempts = 2
    PlanClockSkew = FALSE
    MaxPlanReplays = 1
    MaxTransitions = 2
    Hooks = {h1}
    HookAttempts = 2
    MaxHookEvents = 2
    HookBudgets <- SomeHookBudgets
    LockNodes = {"n1", "n2"}
    LockOps = {"o1", "o2", "o3", "scan"}
    NodeOf <- SomeNodes
    Within <- SomeWithin
    NestingsOf <- SomeNestings
    LockPoolSize = 1
    LockFaults = 1
INVARIANTS
    ServicesTypeOK
    DuplicatesFlagged
    QuotaMailInOrder
    PublishedUnderAdmission
    PublisherOwnsPlan
    CompletedIsPublished
    EventsTellHistory
    PostsBounded
    LocksProtect
    CarriedNeverStuck
PROPERTIES
    JobsAreLeasedWork
    EveryJobSettles
    MailIsLeasedWork
    EveryMailSettles
    PlansAreLeasedWork
    EveryPlanSettles
    HooksAreLeasedWork
    EveryHookSettles
    EveryLockedOperationEnds
CHECK_DEADLOCK FALSE
