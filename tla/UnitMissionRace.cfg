SPECIFICATION FairSpec
CONSTANTS
    Worker = {w1, w2}
    Client = {c1}
    p1 = p1
    p2 = p2
    p3 = p3
    me = me
    them = them
    Nobody = Nobody
    Planet = {p1, p2, p3}
    User = {me, them}
    Me = me
    Owner0 <- Owners
    Home = {p2}
    Known0 = {p2, p3}
    FleetPlanet = p1
    FleetSize = 2
    OrderTypes = {"EXPLORE", "DEPLOY", "ESTABLISH_BASE"}
    MissionLimit = 4
    MaxPlanets = 3
    MaxAttempts = 2
    Faults = {"fail", "late", "stall", "crash", "conquest", "interception"}
    MaxOrders = 1
    MaxRequests = 1
    MaxFaults = 2
INVARIANTS UnitsConserved NoStrandedUnits ActsOnce 
PROPERTIES CancelHolds UnitsArrive
CHECK_DEADLOCK FALSE
