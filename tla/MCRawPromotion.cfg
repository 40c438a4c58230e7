CONSTANTS
    r1 = r1  r2 = r2  p1 = p1  p2 = p2  d1 = d1  d2 = d2  u1 = u1  u2 = u2  m1 = m1  c1 = c1  c2 = c2
    Repositories <- MCRepositories
    RepositoryOf <- Apart
    Paths <- MCPaths
    Digests <- TwoDigests
    Publishers <- OnePublisher
    Promoters <- OnePromoter
    Collectors <- OneCollector
    ReclaimPage = 1
    RawBudgets <- PromoteBudget
    LongRequests = FALSE
    None = None
SPECIFICATION Spec
INVARIANT VisibleHasBytes
CHECK_DEADLOCK FALSE
