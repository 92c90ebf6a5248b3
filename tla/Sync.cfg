CONSTANTS
    alice = alice
    bob = bob
    nobody = nobody
    none = none
    w1 = w1
    w2 = w2
    User = {alice, bob}
    Client = {bob}
    Worker = {w1, w2}
    Planet = {"home_a", "home_b", "rock"}
    Home = {"home_a", "home_b"}
    NoUser = nobody
    Nothing = none
    Start <- MCStart
    Orders <- MCOrders
    Yards = {"rock"}
    MaxOps = 2
    MaxEvents = 3
SPECIFICATION Spec
INVARIANTS EveryChangeIsTold StaleIsNoticed
SYMMETRY Workers
CHECK_DEADLOCK FALSE
