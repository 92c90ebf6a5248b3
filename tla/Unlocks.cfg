SPECIFICATION Spec
CONSTANTS
    User <- Two
    Newcomer = {"bob"}
    Worker = {w1}
    Client = {c1}
    Poller = {e1}
    Planet = {"h1", "h2", "v"}
    HomeOf <- TwoHomes
    ColonyOf <- TwoColonies
    LocationOf <- Volcano
    Upgrade = {"mining", "magic"}
    MaxLevel = 1
    Unit = {"tank"}
    TimeSpecial = {"storm", "calm"}
    Lends <- MCLends
    Relation = {1, 2, 3, 4, 5, 6, 7, 8, 9, 10, 11}
    Editable = {6, 11}
    Edits <- Another
    Kind <- MCKind
    Target <- MCTarget
    Needs <- MCNeeds
    Master <- MCMaster
    Race <- MCRace
    GalaxyOf <- MCGalaxy
    MaxLockAttempts = 2
    Operations = {"subscribe", "level", "build", "send", "delete", "conquer", "leave", "activate", "repair", "edit"}
    Faults = {"fail", "stop"}
    MaxOps = 3
    MaxFaults = 1
    Nobody = Nobody
INVARIANTS UnlockedAsDeserved MasterFollowsSlaves NothingLastsForEver
CHECK_DEADLOCK FALSE
