SPECIFICATION Spec
CONSTANTS
    Worker = {w1, w2}
    Mission = {u1, b1}
    UnitMissions = {u1}
    MaxAttempts = 2
    PollBatch = 2
    Faults = {"crash", "tick", "dispatch", "retry", "emit", "late"}
    MaxFaults = 2
    NoMission = NoMission
SYMMETRY WorkerSymmetry
INVARIANTS OneRunner CommitsOnce
CHECK_DEADLOCK FALSE
