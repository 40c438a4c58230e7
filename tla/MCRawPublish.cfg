CONSTANTS
    r1 = r1  r2 = r2  p1 = p1  p2 = p2  d1 = d1  d2 = d2  u1 = u1  u2 = u2  m1 = m1  c1 = c1  c2 = c2
    Repositories <- MCRepositories
    RepositoryOf <- Apart
    Paths <- MCPaths
    Digests <- OneDigest
    Publishers <- TwoPublishers
    Promoters <- OnePromoter
    Collectors <- TwoCollectors
    ReclaimPage = 1
    RawBudgets <- PublishBudget
    LongRequests = TRUE
    None = None
SPECIFICATION Spec
SYMMETRY Symmetry
INVARIANTS PublishedHasBytes LeftoversTracked
PROPERTY RawKeepsContent
CHECK_DEADLOCK FALSE
