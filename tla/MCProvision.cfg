CONSTANTS
    c1 = c1
    c2 = c2
    v1 = v1
    Commits = {c1, c2}
    Versions = {v1}
    Release <- ReleaseOf
    None = none
    StartedWith <- FewSettings
    Procs = {p1, p2}
SPECIFICATION FairSpec
INVARIANTS
    CacheWhole
    FailureHasCause
    NoLitter
    ServerIsNamed
PROPERTIES
    ImplementsInstall
    Settles
