CONSTANTS
    Clients = {c1, c2}
    Commits = {v1, v2}
    Conns = {k1, k2}
    InitCommit = v1
    First = first
    None = none
SPECIFICATION FairSpec
PROPERTIES
    ConnectSettles
    DeadLeaseReleased
    DeadServerReplaced
    ServersEndWithCodetap
