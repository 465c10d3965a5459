CONSTANTS
    w1 = w1
    w2 = w2
    v1 = v1
    v2 = v2
    Windows = {w1, w2}
    Commits = {v1, v2}
    MaxCalls = 2
    MaxHosts = 2
    ListedBefore <- FewLists
    None = none
SPECIFICATION FairSpec
INVARIANTS
    TypeOK
    StaleTokenNeedsStaleList
PROPERTIES
    CallSettles
    GivenUpReleases
