SPECIFICATION FairSpec
CONSTANTS
    Worker = {w1, w2}
    Mission = {u1, b1}
    UnitMissions = {u1}
    MaxAttempts = 2
    PollBatch = 2
    Faults = {"crash", "tick", "stall", "late"}
    MaxFaults = 1
    NoMission = NoMission
INVARIANT NoLostMission
PROPERTIES EveryMissionEnds
CHECK_DEADLOCK FALSE
