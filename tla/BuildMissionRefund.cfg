SPECIFICATION Spec
CONSTANTS
    Worker = {w1, w2}
    Client = {c1, c2}
    Rival = rival
    Planet = {p1, p2}
    Home = p1
    Unit = {ship, flagship}
    Unique = {flagship}
    UnitCost <- Costs
    UpgradeCost = 1
    LevelEffect = 1
    Type <- Types
    TypeOf <- KindOf
    ShareMaxCount <- Shares
    FactionMax <- Capped
    TypeMax <- Uncapped
    Energy <- Consumption
    InitialEnergy = 3
    MoreEnergy = 35
    MoreUnits = 50
    MoreMissions = 2
    ImprovementStep = 10
    Scale = 100
    Purse = 3
    MaxCount = 1
    MaxAttempts = 2
    Faults = {"fail", "stall", "crash", "conquest"}
    MaxOrders = 3
    MaxCancels = 1
    MaxFaults = 0
    Me = me
    Nobody = Nobody
SYMMETRY Symmetry
INVARIANT EndsOnce
CHECK_DEADLOCK FALSE
