CONSTANTS
    alice = alice
    bob = bob
    carol = carol
    nobody = nobody
    noAlliance = noAlliance
    r1 = r1
    r2 = r2
    User = {alice, bob, carol}
    Planet = {"p1", "p2", "p3", "p4"}
    Request = {r1, r2}
    NoUser = nobody
    NoAlliance = noAlliance
    Start <- MCStart
    MaxSize = 2
    Percentage = 100
    Parts = 2
    Ttl = 1
    MaxTime = 3
    MaxOps = 3
SPECIFICATION Spec
INVARIANTS AlliancesAreOwned SecondsArePaid CacheIsCurrent
SYMMETRY Requests
CHECK_DEADLOCK FALSE
