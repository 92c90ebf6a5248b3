SPECIFICATION Spec
CONSTANTS
    None = None
    User <- MCUser
    Planet <- MCPlanet
    Unit <- MCUnit
    Type <- MCType
    Group <- MCGroup
    Owner <- MCOwner
    TypeOf <- MCTypeOf
    Parent <- MCParent
    Inherits <- MCType
    UnitGroup <- MCUnitGroup
    TypeGroup <- MCTypeGroup
    FixedGroup = {"warp"}
    Support <- MCSupport
    Intercepts <- MCIntercepts
    Stores <- MCStores
    Capacity <- MCCapacity
    Weight <- MCWeight
    Speed <- MCSpeed
    IsInvisible = {"tank"}
    DoHide = {"ship"}
    DoSwap = "warp"
    SpeedBonus <- MCSpeedBonus
    Position <- MCPosition
    BaseTime <- MCBaseTime
    Penalty <- MCPenalty
    MoveCost <- MCMoveCost
    Divisor = 1
    HomePlanet = {"keep"}
    DeployConfig = "ONLY_ONCE_RETURN_SOURCE"
    Related = {"air"}
    Order <- MCOrder
    Rows0 <- MCRows0
    Missions0 <- MCMissions0
    Allies0 <- MCAllies0
    Explored0 <- MCExplored0
    Permits <- MCPermits
    Expiration = {"day"}
    MaxOrders = 3
    MaxEvents = 2
INVARIANTS
    CargoStaysAboard
    InterceptionsAreReported
    UnitsAccountedFor
    MarkersHoldUnits
    NobodyOutrunsTheFleet
CHECK_DEADLOCK FALSE
