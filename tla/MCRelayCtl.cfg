CONSTANTS
    Commits = {v1, v2}
    Conns = {k1, k2}
    LocalCommits = {none, v1}
    None = none
SPECIFICATION FairSpec
INVARIANTS
    GrantsAgree
    NegotiatedVersion
PROPERTIES
    CommitSettled
    ImplementsNegotiation
    ConnectAnswered
    NegotiatedServed
    NothingOutlivesRelay
