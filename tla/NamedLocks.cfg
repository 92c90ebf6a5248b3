SPECIFICATION FairSpec
CONSTANTS
    Session = {s1, s2}
    Key = {1, 2, 3}
    MaxLockAttempts = 2
    Faults = {"timeout", "null", "error", "lost", "drop", "release"}
    MaxLapses = 1
INVARIANTS BodyProtected NoWaitCycle NothingHeldAtRest
PROPERTIES ImplementsSections AcquireReturns
