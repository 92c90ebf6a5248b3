------------------------------ MODULE UnitMission ------------------------------
(***************************************************************************)
(* The life of a unit mission of the backend: registration, cancellation,  *)
(* execution by the pollers, the flight home, retry and give-up, over the  *)
(* tables missions, obtained_units, planets and scheduled_tasks            *)
(* (bo/unit_mission_bo.rs, bo/unit_mission_registration_bo.rs,             *)
(* bo/return_mission_registration_bo.rs, bo/mission_base_service_bo.rs and *)
(* bo/mission_processor/).                                                 *)
(*                                                                         *)
(* One player (Me) with units of one kind; the rest of the universe owns   *)
(* planets that are not Me's, and conquers some that are.  A planet lock   *)
(* is taken and released as LockService promises, which NamedLocks         *)
(* implements; the scheduler is the one of MissionScheduler, reduced to a  *)
(* task per mission.  A transaction is one step; what runs in autocommit   *)
(* is one step per statement.                                              *)
(***************************************************************************)
EXTENDS Naturals, Sequences, FiniteSets, FiniteSetsExt

CONSTANTS
    Worker,        \* mission pollers
    Client,        \* requests of the player
    Planet, User, Me,
    Owner0,        \* who owns a planet at first: [Planet -> User \cup {Nobody}]
    Home,          \* home planets: none is conquered, and none left
    Known0,        \* the planets Me has explored at first
    FleetPlanet,   \* where Me's units are at first
    FleetSize,     \* how many
    OrderTypes,    \* the types of mission the player orders
    MissionLimit,  \* findUserMaxAllowedMissions
    MaxPlanets,    \* factions.max_planets
    MaxAttempts,   \* MAX_ATTEMPTS (3)
    Faults,        \* which of the faults below can happen
    MaxOrders, MaxRequests, MaxFaults,  \* bounds of a behaviour
    Nobody         \* not a user, not a worker or client

Process == Worker \cup Client

ASSUME UniverseAssumption ==
    /\ Me \in User /\ Nobody \notin User \cup Process
    /\ Owner0 \in [Planet -> User \cup {Nobody}]
    /\ Home \subseteq Planet /\ Known0 \subseteq Planet
    /\ FleetPlanet \in Planet /\ Owner0[FleetPlanet] = Me
    /\ FleetSize \in Nat \ {0}
ASSUME ProcessAssumption == Worker \cap Client = {}
ASSUME OrderAssumption == OrderTypes \subseteq {"EXPLORE", "DEPLOY", "ESTABLISH_BASE"}
ASSUME BoundAssumption ==
    /\ MaxAttempts \in Nat \ {0}
    /\ {MissionLimit, MaxPlanets, MaxOrders, MaxRequests, MaxFaults} \subseteq Nat
ASSUME FaultsAssumption ==
    Faults \subseteq {"fail", "late", "stall", "crash", "cut", "conquest", "interception"}

VARIABLES
    mission,   \* the missions rows in id order, each with its scheduled task
    stack,     \* the obtained_units rows in id order; count 0: deleted
    owner,     \* owner[p]
    known,     \* explored_planets of Me
    lock,      \* lock[p]: the process that holds planet_lock_p
    pc,        \* pc[x]: where process x is
    cur,       \* cur[x]: the mission it works on, 0 for none
    keys,      \* keys[x]: the planets it locks, resolved before locking
    snap,      \* snap[x]: what its transaction read first
    back,      \* back[x]: the RETURN_MISSION it is registering
    order,     \* order[x]: the mission a client asks for, or the planet it leaves
    emptied,   \* history: missions taken for intercepted that carried no unit
    killed,    \* history: units lost to an interception or a conquest
    hasty,     \* history: planets left while units were there or landing
    requests, faults  \* cancellations and departures, and faults so far

rows == <<mission, stack, owner, known>>
locals == <<cur, keys, snap, back, order>>
ghosts == <<emptied, killed, hasty>>
bounds == <<requests, faults>>
vars == <<rows, lock, pc, locals, ghosts, bounds>>

MissionId == DOMAIN mission
StackId == DOMAIN stack

NoOrder == [type |-> "none"]

Orders ==
    [type : OrderTypes, src : Planet, tgt : Planet, count : 1 .. FleetSize]

Departures == [leave : Planet]

(* acted and cancelled are history: how often the mission had its effect,  *)
(* and whether the player cancelled it.                                    *)
Missions ==
    [type : {"EXPLORE", "DEPLOY", "ESTABLISH_BASE", "RETURN_MISSION",
             "DEPLOYED", "deleted"},
     src : Planet, tgt : Planet, resolved : BOOLEAN, attemps : 1 .. MaxAttempts,
     task : {"none", "armed", "picked"}, acted : Nat, cancelled : BOOLEAN]

(* mission is 0 for the units that are on their planet.                    *)
Stacks == [count : 0 .. FleetSize, mission : MissionId \cup {0}, planet : Planet]

Places ==
    {"idle", "ordered", "asked", "leaving", "cancelling", "loading", "locking", "running", "failed",
     "rearming", "closing", "resolve", "insert", "repoint", "schedule", "unlock"}

TypeOK ==
    /\ mission \in Seq(Missions)
    /\ stack \in Seq(Stacks)
    /\ owner \in [Planet -> User \cup {Nobody}]
    /\ known \subseteq Planet
    /\ lock \in [Planet -> Process \cup {Nobody}]
    /\ pc \in [Process -> Places]
    /\ cur \in [Process -> MissionId \cup {0}]
    /\ keys \in [Process -> SUBSET Planet]
    /\ snap \in [Process -> [units : SUBSET StackId, planets : SUBSET Planet]]
    /\ back \in [Process -> MissionId \cup {0}]
    /\ order \in [Process -> Orders \cup Departures \cup {NoOrder}]
    /\ emptied \subseteq MissionId /\ hasty \subseteq Planet
    /\ killed \in 0 .. FleetSize
    /\ requests \in 0 .. MaxRequests /\ faults \in 0 .. MaxFaults

Init ==
    /\ mission = <<>>
    /\ stack = <<[count |-> FleetSize, mission |-> 0, planet |-> FleetPlanet]>>
    /\ owner = Owner0
    /\ known = Known0
    /\ lock = [p \in Planet |-> Nobody]
    /\ pc = [x \in Process |-> "idle"]
    /\ cur = [x \in Process |-> 0]
    /\ keys = [x \in Process |-> {}]
    /\ snap = [x \in Process |-> [units |-> {}, planets |-> {}]]
    /\ back = [x \in Process |-> 0]
    /\ order = [x \in Process |-> NoOrder]
    /\ emptied = {} /\ killed = 0 /\ hasty = {}
    /\ requests = 0 /\ faults = 0

------------------------------------------------------------------------------
Fault(kind) == kind \in Faults /\ faults < MaxFaults /\ faults' = faults + 1

OwnedBy(u) == {p \in Planet : owner[p] = u}

Live(s) == stack[s].count > 0

Units(S) == MapThenSumSet(LAMBDA s : stack[s].count, S)

Aboard(m) == {s \in StackId : Live(s) /\ stack[s].mission = m}

AtHome(p) == {s \in StackId : Live(s) /\ stack[s].mission = 0 /\ stack[s].planet = p}

DeployedAt(p) ==
    {s \in StackId : /\ Live(s) /\ stack[s].mission # 0
                     /\ mission[stack[s].mission].type = "DEPLOYED"
                     /\ mission[stack[s].mission].tgt = p}

NewMission(type, src, tgt, task) ==
    [type |-> type, src |-> src, tgt |-> tgt, resolved |-> FALSE, attemps |-> 1,
     task |-> task, acted |-> 0, cancelled |-> FALSE]

Resolved(m) == [mission EXCEPT ![m].resolved = TRUE]

(* The mission had its effect and is resolved.                             *)
Acted(m) == [mission EXCEPT ![m].resolved = TRUE, ![m].acted = @ + 1]

(* A planet, and every planet of its owner.                                *)
WithOwnerPlanets(p) ==
    {p} \cup IF owner[p] = Nobody THEN {} ELSE OwnedBy(owner[p])

KeysOf(m) == WithOwnerPlanets(mission[m].src) \cup WithOwnerPlanets(mission[m].tgt)

LocksFree(K) == \A p \in K : lock[p] = Nobody

Take(x, K) == lock' = [p \in Planet |-> IF p \in K THEN x ELSE lock[p]]

Drop(x) == lock' = [p \in Planet |-> IF lock[p] = x THEN Nobody ELSE lock[p]]

Goto(x, place) == pc' = [pc EXCEPT ![x] = place]

(* The process forgets what it was doing.                                  *)
Rest(x) ==
    /\ Goto(x, "idle")
    /\ cur' = [cur EXCEPT ![x] = 0]
    /\ keys' = [keys EXCEPT ![x] = {}]
    /\ snap' = [snap EXCEPT ![x] = [units |-> {}, planets |-> {}]]
    /\ back' = [back EXCEPT ![x] = 0]
    /\ order' = [order EXCEPT ![x] = NoOrder]

(* The attempt to run its mission is over, and with it what it read.       *)
Forget(x) ==
    /\ keys' = [keys EXCEPT ![x] = {}]
    /\ snap' = [snap EXCEPT ![x] = [units |-> {}, planets |-> {}]]
    /\ UNCHANGED <<cur, back, order>>

------------------------------------------------------------------------------
(* Mutant of Merge: what the absorbing stack had is forgotten.             *)
MergeForgets(there, S, rest) ==
    LET into == IF there # {} THEN CHOOSE s \in there : TRUE ELSE CHOOSE s \in S : TRUE
    IN  [s \in StackId |->
            IF s = into THEN [rest EXCEPT !.count = Units(S)]
            ELSE IF s \in S THEN [stack[s] EXCEPT !.count = 0]
            ELSE stack[s]]

(* saveWithAdding: the stacks S become the stack rest; one of the stacks   *)
(* there already absorbs them, and otherwise one of S does.                *)
Merge(there, S, rest) ==
    LET into == IF there # {} THEN CHOOSE s \in there : TRUE ELSE CHOOSE s \in S : TRUE
    IN  [s \in StackId |->
            IF s = into THEN [rest EXCEPT !.count = Units(S \cup {into})]
            ELSE IF s \in S THEN [stack[s] EXCEPT !.count = 0]
            ELSE stack[s]]

(* move_unit_to_planet: the stacks S land on a planet of Me.               *)
Land(S, p) ==
    IF S = {} THEN stack
    ELSE Merge(AtHome(p), S, [count |-> 0, mission |-> 0, planet |-> p])

(* find_or_create_deployed_mission                                         *)
Marker(p) ==
    {m \in MissionId : /\ mission[m].type = "DEPLOYED" /\ mission[m].tgt = p
                       /\ ~mission[m].resolved}

(* move_unit_to_foreign_planet: the stacks S of mission m join the units   *)
(* Me keeps there, under a DEPLOYED mission.  done is the missions table   *)
(* to which that mission may have to be added.                             *)
Station(done, S, p) ==
    IF S = {} THEN mission' = done /\ stack' = stack
    ELSE LET from == stack[CHOOSE s \in S : TRUE].planet
             post(d) == [count |-> 0, mission |-> d, planet |-> from]
         IN  \/ /\ DeployedAt(p) # {}
                /\ mission' = done
                /\ LET s == CHOOSE e \in DeployedAt(p) : TRUE
                   IN  stack' = Merge({s}, S, stack[s])
             \/ /\ DeployedAt(p) = {} /\ Marker(p) # {}
                /\ mission' = done
                /\ \E d \in Marker(p) : stack' = Merge({}, S, post(d))
             \/ /\ DeployedAt(p) = {} /\ Marker(p) = {}
                /\ mission' = Append(done, NewMission("DEPLOYED", from, p, "none"))
                /\ stack' = Merge({}, S, post(Len(done) + 1))

(* Mutant of Move: the owner of the planet is not looked at.               *)
MoveUnchecked(w, done, p) == mission' = done /\ stack' = Land(snap[w].units, p)

(* moveUnit: on a planet of Me the units land, elsewhere they are          *)
(* stationed.  The owner is the one the transaction's snapshot has.        *)
Move(w, done, p) ==
    IF p \in snap[w].planets
    THEN mission' = done /\ stack' = Land(snap[w].units, p)
    ELSE Station(done, snap[w].units, p)

(* Mutant of FlyHome: the return is not scheduled.                         *)
FlyHomeUnscheduled(done, m) ==
    /\ mission' = Append(done, NewMission("RETURN_MISSION", mission[m].src,
                                          mission[m].tgt, "none"))
    /\ stack' = [s \in StackId |->
                    IF s \in Aboard(m)
                    THEN [stack[s] EXCEPT !.mission = Len(done) + 1] ELSE stack[s]]

(* register_return_mission inside a transaction: the new mission, its      *)
(* units and its task at once.                                             *)
FlyHome(done, m) ==
    /\ mission' = Append(done, NewMission("RETURN_MISSION", mission[m].src,
                                          mission[m].tgt, "armed"))
    /\ stack' = [s \in StackId |->
                    IF s \in Aboard(m)
                    THEN [stack[s] EXCEPT !.mission = Len(done) + 1] ELSE stack[s]]

------------------------------------------------------------------------------
(* The player.                                                             *)

Running == {m \in MissionId : mission[m].type # "deleted" /\ ~mission[m].resolved}

Ordered == {m \in MissionId : mission[m].type \in OrderTypes}

(* The checks of the entry points and of common_mission_register, all      *)
(* before the lock.                                                        *)
Order(c) ==
    /\ pc[c] = "idle"
    /\ Cardinality(Ordered) + Cardinality({d \in Client : pc[d] = "ordered"}) < MaxOrders
    /\ \E o \in Orders :
          /\ o.type = "DEPLOY" => o.src # o.tgt
          /\ \/ o.type = "DEPLOY" /\ owner[o.tgt] = Me
             \/ Cardinality(Running) + 1 < MissionLimit
          /\ o.type = "EXPLORE" \/ o.tgt \in known \/ owner[o.tgt] = Me
          /\ order' = [order EXCEPT ![c] = o]
    /\ Goto(c, "ordered")
    /\ UNCHANGED <<rows, lock, cur, keys, snap, back, ghosts, bounds>>

(* find_source_obtained_unit                                               *)
SourceStacks(p) == IF owner[p] = Me THEN AtHome(p) ELSE DeployedAt(p)

(* mark_orphan_missions_resolved for the mission stack s leaves empty.     *)
WithoutOrphan(s, n) ==
    IF stack[s].count = n /\ stack[s].mission # 0 /\ Aboard(stack[s].mission) = {s}
    THEN Resolved(stack[s].mission) ELSE mission

(* do_common_mission_register, one transaction under the two planet locks: *)
(* split the stack, insert the mission, its units and its task.            *)
Register(c) ==
    LET o == order[c] IN
    /\ pc[c] = "ordered"
    /\ LocksFree({o.src, o.tgt})
    /\ \E s \in SourceStacks(o.src) :
          /\ o.count <= stack[s].count
          /\ mission' = Append(WithoutOrphan(s, o.count),
                               NewMission(o.type, o.src, o.tgt, "armed"))
          /\ stack' = Append([stack EXCEPT ![s].count = @ - o.count],
                             [count |-> o.count, mission |-> Len(mission) + 1,
                              planet |-> o.src])
    /\ Rest(c)
    /\ UNCHANGED <<owner, known, lock, ghosts, bounds>>

(* The units are not there (any more), or the locks are refused.           *)
RegisterFails(c) ==
    /\ pc[c] = "ordered"
    /\ Rest(c)
    /\ UNCHANGED <<rows, lock, ghosts, bounds>>

(* my_cancel_mission loads the mission and resolves its lock keys.         *)
Cancel(c) ==
    /\ pc[c] = "idle"
    /\ requests < MaxRequests
    /\ requests' = requests + 1
    /\ \E m \in MissionId :
          /\ mission[m].type \notin {"RETURN_MISSION", "deleted"}
          /\ cur' = [cur EXCEPT ![c] = m]
          /\ keys' = [keys EXCEPT ![c] = KeysOf(m)]
    /\ Goto(c, "cancelling")
    /\ UNCHANGED <<rows, lock, snap, back, order, ghosts, faults>>

(* Mutant of CancelLocked: the planets are not locked.                     *)
CancelUnlocked(c) ==
    /\ pc[c] = "cancelling"
    /\ Goto(c, "resolve")
    /\ UNCHANGED <<rows, lock, locals, ghosts, bounds>>

CancelLocked(c) ==
    /\ pc[c] = "cancelling"
    /\ LocksFree(keys[c])
    /\ Take(c, keys[c])
    /\ Goto(c, "resolve")
    /\ UNCHANGED <<rows, locals, ghosts, bounds>>

(* can_leave_planet: the planet is Me's and not a home planet, and then, in *)
(* a query of its own, nothing rests there (nor, in BuildMission, is built). *)
AskToLeave(c) ==
    /\ pc[c] = "idle"
    /\ requests < MaxRequests
    /\ requests' = requests + 1
    /\ \E p \in OwnedBy(Me) \ Home : order' = [order EXCEPT ![c] = [leave |-> p]]
    /\ Goto(c, "asked")
    /\ UNCHANGED <<rows, lock, cur, keys, snap, back, ghosts, faults>>

CanLeavePlanet(c) ==
    /\ pc[c] = "asked"
    /\ \/ AtHome(order[c].leave) = {} /\ Goto(c, "leaving") /\ UNCHANGED locals
       \/ AtHome(order[c].leave) # {} /\ Rest(c)
    /\ UNCHANGED <<rows, lock, ghosts, bounds>>

(* leave_planet: the UPDATE asks for nothing again and takes no lock.      *)
LeavePlanet(c) ==
    LET p == order[c].leave IN
    /\ pc[c] = "leaving"
    /\ owner' = [owner EXCEPT ![p] = Nobody]
    /\ hasty' = IF lock[p] # Nobody \/ AtHome(p) # {} THEN hasty \cup {p} ELSE hasty
    /\ Rest(c)
    /\ UNCHANGED <<mission, stack, known, lock, emptied, killed, bounds>>

------------------------------------------------------------------------------
(* The autocommit sequence of a cancellation, under the planet locks, and  *)
(* of a give-up, under none: resolve the mission, then                     *)
(* register_return_mission statement by statement.                         *)
Resolve(x) ==
    /\ pc[x] = "resolve"
    /\ mission' = [mission EXCEPT ![cur[x]].resolved = TRUE,
                                  ![cur[x]].cancelled = @ \/ x \in Client]
    /\ Goto(x, "insert")
    /\ UNCHANGED <<stack, owner, known, lock, locals, ghosts, bounds>>

InsertReturn(x) ==
    /\ pc[x] = "insert"
    /\ mission' = Append(mission, NewMission("RETURN_MISSION", mission[cur[x]].src,
                                             mission[cur[x]].tgt, "none"))
    /\ back' = [back EXCEPT ![x] = Len(mission) + 1]
    /\ Goto(x, "repoint")
    /\ UNCHANGED <<stack, owner, known, lock, cur, keys, snap, order, ghosts, bounds>>

Repoint(x) ==
    /\ pc[x] = "repoint"
    /\ stack' = [s \in StackId |->
                    IF s \in Aboard(cur[x])
                    THEN [stack[s] EXCEPT !.mission = back[x]] ELSE stack[s]]
    /\ Goto(x, "schedule")
    /\ UNCHANGED <<mission, owner, known, lock, locals, ghosts, bounds>>

ScheduleReturn(x) ==
    /\ pc[x] = "schedule"
    /\ mission' = [mission EXCEPT ![back[x]].task = "armed"]
    /\ Goto(x, IF x \in Client THEN "unlock" ELSE "closing")
    /\ UNCHANGED <<stack, owner, known, lock, locals, ghosts, bounds>>

------------------------------------------------------------------------------
(* The pollers.                                                            *)

(* A due task is claimed, or one whose worker died; a stalled worker is    *)
(* taken for dead (see MissionScheduler).                                  *)
Claim(w) ==
    /\ pc[w] = "idle"
    /\ \E m \in MissionId :
          /\ \/ mission[m].task = "armed" /\ UNCHANGED faults
             \/ /\ mission[m].task = "picked"
                /\ \A v \in Worker : cur[v] # m
                /\ UNCHANGED faults
             \/ /\ mission[m].task = "picked"
                /\ \E v \in Worker : cur[v] = m
                /\ Fault("stall")
          /\ mission' = [mission EXCEPT ![m].task = "picked"]
          /\ cur' = [cur EXCEPT ![w] = m]
    /\ Goto(w, "loading")
    /\ UNCHANGED <<stack, owner, known, lock, keys, snap, back, order, ghosts, requests>>

(* execute and run_unit_mission_once: the resolved flag and the lock keys  *)
(* are read before locking.                                                *)
Load(w) ==
    /\ pc[w] = "loading"
    /\ \/ /\ mission[cur[w]].resolved
          /\ Goto(w, "closing")
          /\ UNCHANGED keys
       \/ /\ ~mission[cur[w]].resolved
          /\ keys' = [keys EXCEPT ![w] = KeysOf(cur[w])]
          /\ Goto(w, "locking")
    /\ UNCHANGED <<rows, lock, cur, snap, back, order, ghosts, bounds>>

(* The locks, BEGIN, and the first read of the transaction.                *)
LockAndBegin(w) ==
    /\ pc[w] = "locking"
    /\ LocksFree(keys[w])
    /\ Take(w, keys[w])
    /\ snap' = [snap EXCEPT ![w] = [units |-> Aboard(cur[w]), planets |-> OwnedBy(Me)]]
    /\ Goto(w, "running")
    /\ UNCHANGED <<rows, cur, keys, back, order, ghosts, bounds>>

(* Mutant of NoUnitsInvolved: a mission without units runs like any other. *)
NeverIntercepted(w) == FALSE

(* load_information: every involved unit is intercepted, of which there    *)
(* may be none; units flying home are left alone.                          *)
NoUnitsInvolved(w) ==
    mission[cur[w]].type # "RETURN_MISSION" /\ snap[w].units = {}

(* The transaction of a mission of this type that is not intercepted.      *)
Runs(w, type) ==
    /\ pc[w] = "running"
    /\ mission[cur[w]].type = type
    /\ ~NoUnitsInvolved(w)
    /\ Goto(w, "unlock")
    /\ UNCHANGED <<lock, locals, ghosts, bounds>>

(* explore::process (gather::process has the same shape)                   *)
Explore(w) ==
    /\ Runs(w, "EXPLORE")
    /\ known' = known \cup {mission[cur[w]].tgt}
    /\ FlyHome(Acted(cur[w]), cur[w])
    /\ UNCHANGED owner

(* deploy::process                                                         *)
Deploy(w) ==
    /\ Runs(w, "DEPLOY")
    /\ Move(w, Acted(cur[w]), mission[cur[w]].tgt)
    /\ UNCHANGED <<owner, known>>

(* return_mission::process                                                 *)
ComeHome(w) ==
    /\ Runs(w, "RETURN_MISSION")
    /\ Move(w, Acted(cur[w]), mission[cur[w]].src)
    /\ UNCHANGED <<owner, known>>

(* establish_base::process                                                 *)
BaseRefused(w) ==
    LET p == mission[cur[w]].tgt
    IN  p \in snap[w].planets \/ owner[p] # Nobody \/ Cardinality(snap[w].planets) >= MaxPlanets

EstablishFails(w) ==
    /\ Runs(w, "ESTABLISH_BASE")
    /\ BaseRefused(w)
    /\ FlyHome(Resolved(cur[w]), cur[w])
    /\ UNCHANGED <<owner, known>>

(* ... and define_planet_as_owned_by: the units of the mission stay, those *)
(* deployed there join them, and their DEPLOYED missions are deleted.      *)
EstablishBase(w) ==
    LET p == mission[cur[w]].tgt
        settled == [count |-> 0, mission |-> 0, planet |-> p]
    IN  /\ Runs(w, "ESTABLISH_BASE")
        /\ ~BaseRefused(w)
        /\ owner' = [owner EXCEPT ![p] = Me]
        /\ stack' = Merge({}, snap[w].units \cup DeployedAt(p), settled)
        /\ mission' = [m \in MissionId |->
                          IF \E s \in DeployedAt(p) : stack[s].mission = m
                          THEN [mission[m] EXCEPT !.type = "deleted"]
                          ELSE Acted(cur[w])[m]]
        /\ UNCHANGED known

(* handle_mission_interception                                             *)
Intercepted(w) ==
    LET m == cur[w] IN
    /\ pc[w] = "running"
    /\ \/ /\ NoUnitsInvolved(w)
          /\ emptied' = emptied \cup {m}
          /\ UNCHANGED <<stack, killed, faults>>
       \/ /\ ~NoUnitsInvolved(w) /\ mission[m].type # "RETURN_MISSION"
          /\ Fault("interception")
          /\ killed' = killed + Units(snap[w].units)
          /\ stack' = [s \in StackId |-> IF s \in snap[w].units
                                         THEN [stack[s] EXCEPT !.count = 0] ELSE stack[s]]
          /\ UNCHANGED emptied
    /\ mission' = Resolved(m)
    /\ Goto(w, "unlock")
    /\ UNCHANGED <<owner, known, lock, locals, hasty, requests>>

(* Locks refused, or the transaction is rolled back.                       *)
RunFails(w) ==
    /\ pc[w] \in {"locking", "running"}
    /\ Fault("fail")
    /\ Drop(w)
    /\ Goto(w, "failed")
    /\ Forget(w)
    /\ UNCHANGED <<rows, ghosts, requests>>

(* The locks are released; for a run, the emits follow and may fail.       *)
Unlock(x) ==
    /\ pc[x] = "unlock"
    /\ Drop(x)
    /\ \/ x \in Client /\ Rest(x) /\ UNCHANGED faults
       \/ x \in Worker /\ Goto(x, "closing") /\ Forget(x) /\ UNCHANGED faults
       \/ x \in Worker /\ Goto(x, "failed") /\ Forget(x) /\ Fault("late")
    /\ UNCHANGED <<rows, ghosts, requests>>

OutOfAttempts(m) == mission[m].attemps >= MaxAttempts

(* retry_mission_if_possible: count the attempt, or give up.               *)
RetryMissionIfPossible(w) ==
    /\ pc[w] = "failed"
    /\ \/ /\ ~OutOfAttempts(cur[w])
          /\ mission' = [mission EXCEPT ![cur[w]].attemps = @ + 1]
          /\ Goto(w, "rearming")
       \/ /\ OutOfAttempts(cur[w])
          /\ Goto(w, "resolve")
          /\ UNCHANGED mission
    /\ UNCHANGED <<stack, owner, known, lock, locals, ghosts, bounds>>

(* Mutant of Rearm: the task is cleared although a retry is due.           *)
RearmClears(w) ==
    /\ pc[w] = "rearming"
    /\ mission' = [mission EXCEPT ![cur[w]].task = "none"]
    /\ Rest(w)
    /\ UNCHANGED <<stack, owner, known, lock, ghosts, bounds>>

(* rearm_row and delete_row: the end of the mission's turn in poll_once.   *)
Rearm(w) ==
    /\ pc[w] = "rearming"
    /\ mission' = [mission EXCEPT ![cur[w]].task = IF @ = "none" THEN "none" ELSE "armed"]
    /\ Rest(w)
    /\ UNCHANGED <<stack, owner, known, lock, ghosts, bounds>>

Close(w) ==
    /\ pc[w] = "closing"
    /\ mission' = [mission EXCEPT ![cur[w]].task = "none"]
    /\ Rest(w)
    /\ UNCHANGED <<stack, owner, known, lock, ghosts, bounds>>

------------------------------------------------------------------------------
(* The process dies, the request's future is dropped, or a statement of an *)
(* autocommit sequence fails ("cut"): the rest does not happen.            *)
Stops(x) ==
    /\ pc[x] # "idle"
    /\ Fault(IF pc[x] \in {"insert", "repoint", "schedule"} THEN "cut" ELSE "crash")
    /\ Drop(x)
    /\ Rest(x)
    /\ UNCHANGED <<rows, ghosts, requests>>

(* A CONQUEST mission of another user takes a planet of Me, under the      *)
(* locks; the units that defended it are dead.                             *)
PlanetConquered(p, u) ==
    /\ owner[p] = Me /\ p \notin Home /\ u # Me
    /\ LocksFree(OwnedBy(Me))
    /\ Fault("conquest")
    /\ owner' = [owner EXCEPT ![p] = u]
    /\ stack' = [s \in StackId |-> IF s \in AtHome(p) THEN [stack[s] EXCEPT !.count = 0]
                                   ELSE stack[s]]
    /\ killed' = killed + Units(AtHome(p))
    /\ UNCHANGED <<mission, known, lock, pc, locals, emptied, hasty, requests>>

------------------------------------------------------------------------------
ReturnStep(x) == Resolve(x) \/ InsertReturn(x) \/ Repoint(x) \/ ScheduleReturn(x)

ClientStep(c) ==
    \/ Register(c) \/ RegisterFails(c) \/ CancelLocked(c)
    \/ CanLeavePlanet(c) \/ LeavePlanet(c)
    \/ ReturnStep(c) \/ Unlock(c)

RunStep(w) ==
    \/ Explore(w) \/ Deploy(w) \/ ComeHome(w)
    \/ EstablishFails(w) \/ EstablishBase(w) \/ Intercepted(w)

WorkerStep(w) ==
    \/ Claim(w) \/ Load(w) \/ LockAndBegin(w) \/ RunStep(w) \/ Unlock(w)
    \/ RetryMissionIfPossible(w) \/ ReturnStep(w) \/ Rearm(w) \/ Close(w)

Next ==
    \/ \E c \in Client : Order(c) \/ Cancel(c) \/ AskToLeave(c) \/ ClientStep(c)
    \/ \E w \in Worker : WorkerStep(w) \/ RunFails(w)
    \/ \E x \in Process : Stops(x)
    \/ \E p \in Planet, u \in User : PlanetConquered(p, u)

Spec == Init /\ [][Next]_vars

(* Requests and pollers keep running, and a free lock is granted.          *)
Fairness ==
    /\ \A c \in Client : WF_vars(ClientStep(c))
    /\ \A w \in Worker : WF_vars(WorkerStep(w))

FairSpec == Spec /\ Fairness

------------------------------------------------------------------------------
(* No unit is lost or made: splits, merges, moves and returns of whatever  *)
(* processes, in any order, keep the number of Me's units.                 *)
UnitsConserved == Units(StackId) + killed = FleetSize

(* Units under a mission have a future: the mission is stationed, or it    *)
(* will run, or some process is about to send its units home.              *)
NoStrandedUnits ==
    \A m \in MissionId : Aboard(m) # {} =>
        \/ ~mission[m].resolved /\ mission[m].type = "DEPLOYED"
        \/ ~mission[m].resolved /\ mission[m].task # "none"
        \/ \E x \in Process : pc[x] \in {"insert", "repoint"} /\ cur[x] = m
        \/ \E x \in Process : pc[x] = "schedule" /\ back[x] = m

(* A mission has its effect at most once, even when two workers run it: the *)
(* second finds no units (run_unit_mission_once does not look at resolved). *)
ActsOnce ==
    \A m \in MissionId : mission[m].type # "RETURN_MISSION" => mission[m].acted <= 1

(* A mission the player cancelled has no effect any more, although its run *)
(* may have been waiting for the locks the cancellation held.              *)
CancelHolds ==
    [][\A m \in MissionId : mission[m].cancelled => mission'[m].acted = mission[m].acted]_vars

(* saveWithAdding: Me's units on a planet are one stack, and one garrison. *)
OneStackPerPlanet ==
    \A p \in Planet : Cardinality(AtHome(p)) <= 1 /\ Cardinality(DeployedAt(p)) <= 1

(* Units without a mission are on a planet of Me, whatever was conquered   *)
(* or left while they flew, unless it was left beside a landing.           *)
RestsOnOwnPlanet ==
    \A p \in Planet : AtHome(p) # {} /\ p \notin hasty => owner[p] = Me

(* A known gap, which no run checks: a planet is left when "the invoker    *)
(* has **no** units stationed on it" (planet_bo.rs:100).                   *)
LeftPlanetsAreEmpty == \A p \in Planet : AtHome(p) # {} => owner[p] = Me

(* return_mission_registration_bo.rs: the task of a RETURN_MISSION is      *)
(* inserted "so the scheduled_tasks row commits atomically" with it.       *)
ReturnIsScheduled ==
    \A m \in MissionId : mission[m].type = "RETURN_MISSION" /\ ~mission[m].resolved =>
        \/ mission[m].task # "none"
        \/ \E x \in Process : back[x] = m

(* mission_interception_manager_bo.rs: "the mission was *fully*            *)
(* intercepted" - of the mission some unit was intercepted.                *)
InterceptedHadUnits == emptied = {}

(* check_mission_limit_not_reached "throws when registering one more       *)
(* mission would meet/exceed the user's max-allowed missions".             *)
LimitHolds == Cardinality(Running) < MissionLimit

(* establish_base.rs: when has_max_planets, the base is refused with        *)
(* MAX_PLANETS_MESSAGE: "the user already owns >= faction.maxPlanets".     *)
PlanetLimitHolds == Cardinality(OwnedBy(Me)) <= MaxPlanets

InFlight == \E m \in MissionId : Aboard(m) # {} /\ mission[m].type # "DEPLOYED"

(* Units do not fly for ever: they land or are stationed.                  *)
UnitsArrive == InFlight ~> ~InFlight
================================================================================
