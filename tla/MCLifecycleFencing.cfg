CONSTANTS
    j1 = j1  j2 = j2  w1 = w1  w2 = w2
    Jobs <- MCJobs
    Workers <- MCWorkers
    RepositoryOf <- MCRepositoryOf
    KindOf <- MCKindOf
    WorkerKind <- MCWorkerKind
    MaxAttempts = 2
    ClockSkew = TRUE
    MaxRequeues = 1
    MaxCrashes = 1
    NoWorker = NoWorker
    NoLease = NoLease
SPECIFICATION Spec
SYMMETRY Symmetry
INVARIANTS OneHolderPerLease AttemptBudget FencedOwner
PROPERTY SettledByHolderOrExpiry
