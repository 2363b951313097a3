SPECIFICATION EventsFairSpec
CONSTANTS
    a1 = a1
    a2 = a2
    c1 = c1
    c2 = c2
    Hosts = {1, 2}
    Home = 1
    Attempts = {a2}
    HostOf <- MCHostOf
    Expiring = {a2}
    Callers = {c1, c2}
    ScopesOf <- MCScopesOf
    PageSize = 1
    ReadLimit = 2
    MaxLog <- MCMaxLog
INVARIANT FeedFaithful
INVARIANT CoverageIsHonest
PROPERTY OutcomeIsSeen
