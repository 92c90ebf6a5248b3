CONSTANTS
    a1 = a1
    a2 = a2
    Admin = {a1, a2}
    Start <- MCStart
    Body <- MCBody
    ListBody <- MCListBody
    Image = {"i1", "i2"}
    Lang = {"en"}
    User = {2}
    MaxRequests = 2
    MaxEdits = 1
    MaxFaults = 1
SPECIFICATION Spec
INVARIANTS NothingIsHalfSaved GrantsAreKept EditsReachPlayers
SYMMETRY Admins
CHECK_DEADLOCK FALSE
