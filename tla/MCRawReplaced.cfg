CONSTANTS
    r1 = r1  r2 = r2  p1 = p1  p2 = p2  d1 = d1  d2 = d2  u1 = u1  u2 = u2  m1 = m1  c1 = c1  c2 = c2
    Repositories <- OneRepository
    RepositoryOf <- Alone
    Paths <- OnePath
    Digests <- TwoDigests
    Publishers <- OnePublisher
    Promoters <- NoPromoter
    Collectors <- OneCollector
    ReclaimPage = 1
    RawBudgets <- ReplaceBudgets
    LongRequests = TRUE
    None = None
SPECIFICATION FairSpec
PROPERTY FirstGarbageReclaimed
CHECK_DEADLOCK FALSE
