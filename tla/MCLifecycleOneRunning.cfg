CONSTANTS
    j1 = j1  j2 = j2  w1 = w1  w2 = w2
    Jobs <- MCJobs
    Workers <- MCWorkers
    RepositoryOf <- MCRepositoryOf
    KindOf <- MCKindOf
    WorkerKind <- MCWorkerKind
    MaxAttempts = 2
    ClockSkew = FALSE
    MaxRequeues = 0
    MaxCrashes = 0
    NoWorker = NoWorker
    NoLease = NoLease
SPECIFICATION Spec
INVARIANT OneRunningPerRepository
