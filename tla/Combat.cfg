SPECIFICATION Spec
CONSTANTS
    User <- MCUser
    NoAlliance = "none"
    Alliance <- MCAlliance
    Unit <- MCUnit
    Type <- MCType
    TypeOf <- MCTypeOf
    Parent <- MCParent
    Inherits = {"heavy"}
    Stats <- MCStats
    BypassShield = {"sapper"}
    Active <- MCActive
    BypassRule <- MCBypassRule
    AttackRule <- MCAttackRule
    CriticalAttack <- MCCriticalAttack
    CaptureRule <- MCCaptureRule
    Improvement <- MCImprovement
    Scale = 32
    Scenario <- MCScenario
    None = None
INVARIANTS RowsFollowPlainReport FleetsAndMissions LossesHaveEnemies ConqueredIsCleared
CHECK_DEADLOCK FALSE
