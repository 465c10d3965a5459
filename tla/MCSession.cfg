CONSTANTS
    Clients = {c1, c2, c3}
    Commits = {v1, v2}
    Conns = {k1, k2, k3}
    InitCommit = v1
    First = first
    None = none
SPECIFICATION Spec
SYMMETRY Symmetry
INVARIANTS
    GrantMatchesServer
    OneServer
    TrackedUnlessOvertaken
PROPERTIES
    ImplementsGate
