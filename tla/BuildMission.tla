------------------------------ MODULE BuildMission ------------------------------
(***************************************************************************)
(* BUILD_UNIT and LEVEL_UP missions (bo/mission_bo.rs): what a player pays *)
(* for units and upgrade levels, and what comes of it when registration,   *)
(* cancellation, completion, give-up and the conquest of the planet        *)
(* interleave.                                                             *)
(*                                                                         *)
(* One player.  A transaction is two steps: its first read, which fixes    *)
(* the snapshot of its plain SELECTs (REPEATABLE READ), and its commit;    *)
(* UPDATE and DELETE act on the rows as they are then.  The locks are      *)
(* those of NamedLocks, taken and released as LockService promises.        *)
(***************************************************************************)
EXTENDS Integers, Sequences, FiniteSets, FiniteSetsExt

CONSTANTS
    Worker,       \* mission pollers
    Client,       \* requests of the player
    Rival,        \* the run of a CONQUEST mission against the player
    Planet, Home, \* planets the player owns at first; the home planet
    Unit, Unique, \* the kinds of unit; those of which one may be built
    UnitCost,     \* [Unit -> Nat]: the price of one
    UpgradeCost, LevelEffect,  \* of the one upgrade there is
    Type, TypeOf, ShareMaxCount,  \* unit types; of a unit; the one a type counts with
    FactionMax, TypeMax,  \* [Type -> Nat]: limits of the faction and its own; 0 none
    Energy, InitialEnergy,  \* what one unit consumes; what the faction gives
    MoreEnergy, MoreUnits, MoreMissions, \* improvements, in percent for each level,
                  \* and the slots (the first of them is everybody's)
    ImprovementStep, Scale,  \* IMPROVEMENT_STEP (10); the fractions of a unit kept
    Purse,        \* the player's resources at first
    MaxCount,     \* bound: units in one build
    MaxAttempts,  \* MAX_ATTEMPTS (3)
    Faults,       \* which of the faults below can happen
    MaxOrders, MaxCancels, MaxFaults,  \* bounds of a behaviour
    Me,           \* the name of the player's own lock
    Nobody        \* not a process, not a planet

Process == Worker \cup Client \cup {Rival}

Key == Planet \cup {Me}

ASSUME ProcessAssumption ==
    /\ Worker \cap Client = {} /\ Rival \notin Worker \cup Client
    /\ Nobody \notin Process \cup Planet
ASSUME WorldAssumption == Home \in Planet /\ Me \notin Planet /\ Unique \subseteq Unit /\ Unique # Unit
ASSUME LimitAssumption ==
    /\ TypeOf \in [Unit -> Type] /\ ShareMaxCount \in [Type -> Type \cup {Nobody}]
    /\ {FactionMax, TypeMax} \subseteq [Type -> Nat] /\ Energy \in [Unit -> Nat]
    /\ {InitialEnergy, MoreEnergy, MoreUnits, MoreMissions} \subseteq Nat
    /\ {ImprovementStep, Scale} \subseteq Nat \ {0}
ASSUME PriceAssumption ==
    UnitCost \in [Unit -> Nat] /\ {UpgradeCost, LevelEffect, Purse} \subseteq Nat
ASSUME BoundAssumption ==
    /\ {MaxCount, MaxAttempts} \subseteq Nat \ {0}
    /\ {MaxOrders, MaxCancels, MaxFaults} \subseteq Nat
ASSUME FaultsAssumption == Faults \subseteq {"fail", "stall", "crash", "conquest"}

VARIABLES
    mission,   \* the missions rows in id order, with mission_information and task
    stack,     \* the obtained_units rows in id order; count 0: deleted
    purse,     \* user_storage: the resources, primary and secondary in one
    level,     \* obtained_upgrades.level
    mine,      \* the planets the player owns
    lock,      \* lock[k]: the process that holds the named lock k
    pc,        \* pc[x]: where process x is
    cur,       \* cur[x]: the mission it works on, 0 for none
    order,     \* order[x]: what a client or the rival asks for
    snap,      \* snap[x]: what its transaction read of cur[x]
    lost,      \* history: the price of units given up or killed
    cancels, faults  \* how many so far

rows == <<mission, stack, purse, level, mine>>
locals == <<cur, order, snap>>
bounds == <<cancels, faults>>
vars == <<rows, lock, pc, locals, lost, bounds>>

MissionId == DOMAIN mission
StackId == DOMAIN stack

BuildOrders ==
    [type : {"BUILD_UNIT"}, planet : Planet, unit : Unit, count : 1 .. MaxCount]

NoOrder == [type |-> "none"]

NoSnap == [seen |-> FALSE, units |-> {}]

(* refunds and landed are history: how often the price was given back, and *)
(* whether what was paid for was delivered.                                *)
IsMission(r) ==
    /\ DOMAIN r = {"order", "paid", "state", "attemps", "task", "refunds", "landed"}
    /\ \/ r.order \in BuildOrders
       \/ r.order \in [type : {"LEVEL_UP"}, level : Nat]
    /\ r.paid \in Nat /\ r.refunds \in Nat /\ r.landed \in BOOLEAN
    /\ r.state \in {"open", "resolved", "deleted"}
    /\ r.attemps \in 1 .. MaxAttempts
    /\ r.task \in {"none", "armed", "picked"}

TypeOK ==
    /\ \A m \in MissionId : IsMission(mission[m])
    /\ stack \in Seq([unit : Unit, count : Nat, mission : MissionId \cup {0},
                      planet : Planet \cup {Nobody}])
    /\ purse \in Int /\ level \in Nat /\ mine \subseteq Planet
    /\ lock \in [Key -> Process \cup {Nobody}]
    /\ pc \in [Process -> {"idle", "ordered", "registering", "cancelling", "loading",
                           "locking", "running", "failed", "resolving", "dropping",
                           "deleting", "rearming", "closing", "leaving"}]
    /\ cur \in [Process -> MissionId \cup {0}]
    /\ snap \in [Process -> [seen : BOOLEAN, units : SUBSET StackId]]
    /\ lost \in Nat
    /\ cancels \in 0 .. MaxCancels /\ faults \in 0 .. MaxFaults

FirstUnit == CHOOSE u \in Unit : u \notin Unique

(* A player with a ship on his home planet, who is researching.            *)
Init ==
    /\ mission = <<[order |-> [type |-> "LEVEL_UP", level |-> 1], paid |-> UpgradeCost,
                    state |-> "open", attemps |-> 1, task |-> "armed",
                    refunds |-> 0, landed |-> FALSE]>>
    /\ stack = <<[unit |-> FirstUnit, count |-> 1, mission |-> 0, planet |-> Home]>>
    /\ purse = Purse /\ level = 0 /\ mine = Planet
    /\ lock = [k \in Key |-> Nobody]
    /\ pc = [x \in Process |-> "idle"]
    /\ cur = [x \in Process |-> 0]
    /\ order = [x \in Process |-> NoOrder]
    /\ snap = [x \in Process |-> NoSnap]
    /\ lost = 0 /\ cancels = 0 /\ faults = 0

------------------------------------------------------------------------------
Fault(kind) == kind \in Faults /\ faults < MaxFaults /\ faults' = faults + 1

Goto(x, place) == pc' = [pc EXCEPT ![x] = place]

LocksFree(K) == \A k \in K : lock[k] = Nobody

Take(x, K) == lock' = [k \in Key |-> IF k \in K THEN x ELSE lock[k]]

Drop(x) == lock' = [k \in Key |-> IF lock[k] = x THEN Nobody ELSE lock[k]]

Rest(x) ==
    /\ Goto(x, "idle")
    /\ cur' = [cur EXCEPT ![x] = 0]
    /\ order' = [order EXCEPT ![x] = NoOrder]
    /\ snap' = [snap EXCEPT ![x] = NoSnap]

IsBuild(m) == mission[m].order.type = "BUILD_UNIT"

Exists(m) == mission[m].state # "deleted"

InBuild(m) == {s \in StackId : stack[s].count > 0 /\ stack[s].mission = m}

AtHome(p, u) ==
    {s \in StackId : /\ stack[s].count > 0 /\ stack[s].mission = 0
                     /\ stack[s].planet = p /\ stack[s].unit = u}

Count(S) == MapThenSumSet(LAMBDA s : stack[s].count, S)

Worth(S) == MapThenSumSet(LAMBDA s : stack[s].count * UnitCost[stack[s].unit], S)

Without(S) == [s \in StackId |-> IF s \in S THEN [stack[s] EXCEPT !.count = 0] ELSE stack[s]]

(* compute_improvement_value: percent by percent in steps, each of what the *)
(* steps before it made.                                                   *)
Improved[v \in Nat, pending \in Nat] ==
    IF pending = 0 THEN v
    ELSE LET step == IF pending < ImprovementStep THEN pending ELSE ImprovementStep
         IN  Improved[v + (v * step) \div 100, pending - step]

(* find_max_energy, and what is left of it (find_available_energy): the    *)
(* units in build and those in flight consume, too.                        *)
MaxEnergy == Improved[InitialEnergy * Scale, MoreEnergy * level]

AvailableEnergy ==
    MaxEnergy - Scale * MapThenSumSet(LAMBDA s : stack[s].count * Energy[stack[s].unit], StackId)

(* find_max_share_count_root: at most 32 types up.                         *)
ShareRoot[t \in Type, walk \in 0 .. 32] ==
    IF walk = 0 \/ ShareMaxCount[t] = Nobody THEN t
    ELSE ShareRoot[ShareMaxCount[t], walk - 1]

RootOf(t) == ShareRoot[t, 32]

(* The units of type t and of the types that share its limit directly.     *)
OwnedOfType(t) ==
    Count({s \in StackId : t \in {TypeOf[stack[s].unit], ShareMaxCount[TypeOf[stack[s].unit]]}})

MaxOf(t) == IF FactionMax[t] > 0 THEN FactionMax[t] ELSE TypeMax[t]

LimitOf(t) == Improved[MaxOf(t) * Scale, MoreUnits * level] \div Scale

(* check_would_reach_unit_type_limit                                       *)
WouldReachUnitTypeLimit(o) ==
    LET root == RootOf(TypeOf[o.unit])
    IN  MaxOf(root) > 0 /\ OwnedOfType(root) + o.count > LimitOf(root)

Unresolved == Cardinality({m \in MissionId : mission[m].state = "open"})

(* find_user_max_allowed_missions: one more than the slots he has.         *)
MaxAllowedMissions == MoreMissions + 1

MissionLimitReached == Unresolved + 1 >= MaxAllowedMissions

(* The price of the level after n: one levelEffect more for each level.    *)
LevelCost[n \in Nat] ==
    IF n = 0 THEN UpgradeCost ELSE LevelCost[n - 1] + LevelCost[n - 1] * LevelEffect

Price(o) ==
    IF o.type = "BUILD_UNIT" THEN UnitCost[o.unit] * o.count ELSE LevelCost[o.level - 1]

------------------------------------------------------------------------------
(* Registration.                                                           *)

(* A request arrives; the owner of the planet is checked before the locks. *)
AskFor(c, o) ==
    /\ pc[c] = "idle"
    /\ Len(mission) + Cardinality({d \in Client : order[d].type # "none"}) < MaxOrders
    /\ order' = [order EXCEPT ![c] = o]
    /\ Goto(c, "ordered")
    /\ UNCHANGED <<rows, lock, cur, snap, lost, bounds>>

AskBuild(c) ==
    \E o \in BuildOrders :
        /\ o.planet \in mine
        /\ o.unit \in Unique => o.count = 1
        /\ AskFor(c, o)

AskLevelUp(c) == AskFor(c, [type |-> "LEVEL_UP", level |-> 0])

(* Mutant of KeysOf: the planet alone, without the lock of the user.       *)
KeysOfPlanet(o) == IF o.type = "BUILD_UNIT" THEN {o.planet} ELSE {}

KeysOf(o) == IF o.type = "BUILD_UNIT" THEN {Me, o.planet} ELSE {Me}

(* checkUnitBuildMissionDoesNotExists and checkUpgradeMissionDoesNotExists *)
Busy(o) ==
    \E m \in MissionId :
        IF o.type = "BUILD_UNIT"
        THEN IsBuild(m) /\ mission[m].order.planet = o.planet /\ mission[m].state = "open"
        ELSE ~IsBuild(m) /\ Exists(m)

(* checkIsUniqueBuilt: of the units that exist, those in build included.   *)
AlreadyBuilt(o) ==
    /\ o.type = "BUILD_UNIT" /\ o.unit \in Unique
    /\ Count({s \in StackId : stack[s].unit = o.unit}) > 0

(* canRun: the resources for both; the energy only if the order takes some.*)
CanRun(o) ==
    /\ Price(o) <= purse
    /\ o.type = "BUILD_UNIT" =>
          LET required == Energy[o.unit] * o.count * Scale
          IN  required = 0 \/ required <= AvailableEnergy

MayRegister(o) ==
    /\ ~Busy(o) /\ ~MissionLimitReached /\ ~AlreadyBuilt(o) /\ CanRun(o)
    /\ o.type = "BUILD_UNIT" => ~WouldReachUnitTypeLimit(o)

(* A LEVEL_UP is for the level after the one that is obtained by then.     *)
NextLevel == [type |-> "LEVEL_UP", level |-> level + 1]

(* The locks, BEGIN and the checks.                                        *)
BeginRegister(c) ==
    LET o == IF order[c].type = "LEVEL_UP" THEN NextLevel ELSE order[c]
    IN  /\ pc[c] = "ordered"
        /\ LocksFree(KeysOf(o)) /\ Take(c, KeysOf(o))
        /\ MayRegister(o)
        /\ order' = [order EXCEPT ![c] = o]
        /\ Goto(c, "registering")
        /\ UNCHANGED <<rows, cur, snap, lost, bounds>>

(* One of these checks, another one (the unit or the upgrade is not his    *)
(* yet: module Unlocks), or the locks.                                     *)
Refuse(c) ==
    /\ pc[c] = "ordered"
    /\ Rest(c)
    /\ UNCHANGED <<rows, lock, lost, bounds>>

(* The mission with its information and its task, as the INSERTs leave it. *)
NewMission(o) ==
    [order |-> o, paid |-> Price(o), state |-> "open", attemps |-> 1, task |-> "armed",
     refunds |-> 0, landed |-> FALSE]

(* The INSERTs, the charge and COMMIT; the locks are released.             *)
CommitRegister(c) ==
    LET o == order[c] IN
    /\ pc[c] = "registering"
    /\ mission' = Append(mission, NewMission(o))
    /\ purse' = purse - Price(o)
    /\ stack' = IF o.type # "BUILD_UNIT" THEN stack
                ELSE Append(stack, [unit |-> o.unit, count |-> o.count,
                                    mission |-> Len(mission) + 1, planet |-> Nobody])
    /\ Drop(c)
    /\ Rest(c)
    /\ UNCHANGED <<level, mine, lost, bounds>>

------------------------------------------------------------------------------
(* Cancellation: cancel_build_unit and cancel_upgrade_mission, no locks.   *)
(* Relinquishing a planet (leave_planet) takes none either.                *)

Undo(c) == pc[c] = "idle" /\ cancels < MaxCancels /\ cancels' = cancels + 1

(* The build by its id; the research of the user, whatever state it is in  *)
(* (load_level_up_mission).                                                *)
BeginCancelBuild(c) ==
    /\ Undo(c)
    /\ \E m \in MissionId : Exists(m) /\ IsBuild(m) /\ cur' = [cur EXCEPT ![c] = m]
    /\ Goto(c, "cancelling")
    /\ UNCHANGED <<rows, lock, order, snap, lost, faults>>

LevelUpMission == {m \in MissionId : Exists(m) /\ ~IsBuild(m)}

BeginCancelLevelUp(c) ==
    /\ Undo(c)
    /\ LevelUpMission # {} /\ cur' = [cur EXCEPT ![c] = Min(LevelUpMission)]
    /\ Goto(c, "cancelling")
    /\ UNCHANGED <<rows, lock, order, snap, lost, faults>>

(* can_leave_planet: has_running_unit_build counts a build that was given  *)
(* up and is not deleted yet.                                              *)
CanLeavePlanet(p) ==
    /\ p \in mine \ {Home}
    /\ \A u \in Unit : AtHome(p, u) = {}
    /\ \A m \in MissionId : IsBuild(m) /\ mission[m].order.planet = p => ~Exists(m)

BeginLeave(c) ==
    /\ Undo(c)
    /\ \E p \in Planet : /\ CanLeavePlanet(p)
                         /\ order' = [order EXCEPT ![c] = [type |-> "LEAVE", planet |-> p]]
    /\ Goto(c, "leaving")
    /\ UNCHANGED <<rows, lock, cur, snap, lost, faults>>

CommitLeave(c) ==
    /\ pc[c] = "leaving"
    /\ mine' = mine \ {order[c].planet}
    /\ Rest(c)
    /\ UNCHANGED <<mission, stack, purse, level, lock, lost, bounds>>

(* The units in build, the price, the mission and its task, whatever is    *)
(* left of them.                                                           *)
Refund(m) ==
    /\ mission' = [mission EXCEPT ![m].state = "deleted", ![m].task = "none",
                                  ![m].refunds = @ + 1]
    /\ purse' = purse + mission[m].paid

CommitCancel(c) ==
    /\ pc[c] = "cancelling"
    /\ Refund(cur[c])
    /\ stack' = Without(InBuild(cur[c]))
    /\ Rest(c)
    /\ UNCHANGED <<level, mine, lock, lost, bounds>>

(* The run of a CONQUEST that succeeds, under the locks of the planets of  *)
(* the old owner: it cancels the build it finds there.                     *)
BeginConquest ==
    /\ pc[Rival] = "idle"
    /\ Fault("conquest")
    /\ LocksFree(mine) /\ Take(Rival, mine)
    /\ \E p \in mine \ {Home} :
          LET builds == {m \in MissionId : /\ IsBuild(m) /\ mission[m].state = "open"
                                           /\ mission[m].order.planet = p}
          IN  /\ order' = [order EXCEPT ![Rival] = [type |-> "CONQUEST", planet |-> p]]
              /\ cur' = [cur EXCEPT ![Rival] = IF builds = {} THEN 0
                                               ELSE CHOOSE m \in builds : TRUE]
    /\ Goto(Rival, "running")
    /\ UNCHANGED <<rows, snap, lost, cancels>>

CommitConquest ==
    LET p == order[Rival].planet
        dead == UNION {AtHome(p, u) : u \in Unit}
    IN  /\ pc[Rival] = "running"
        /\ mine' = mine \ {p}
        /\ \/ cur[Rival] = 0 /\ UNCHANGED <<mission, purse>>
           \/ cur[Rival] # 0 /\ Refund(cur[Rival])
        /\ stack' = Without(dead \cup IF cur[Rival] = 0 THEN {} ELSE InBuild(cur[Rival]))
        /\ lost' = lost + Worth(dead)
        /\ Drop(Rival)
        /\ Rest(Rival)
        /\ UNCHANGED <<level, bounds>>

------------------------------------------------------------------------------
(* Completion.                                                             *)

(* A due task; one whose worker died, or stalled and is taken for dead.    *)
Claim(w) ==
    /\ pc[w] = "idle"
    /\ \E m \in MissionId :
          /\ \/ mission[m].task = "armed" /\ UNCHANGED faults
             \/ /\ mission[m].task = "picked"
                /\ \A v \in Worker : cur[v] # m
                /\ UNCHANGED faults
             \/ /\ mission[m].task = "picked"
                /\ \E v \in Worker : cur[v] = m
                /\ Fault("stall")
          /\ mission' = [mission EXCEPT ![m].task = "picked"]
          /\ cur' = [cur EXCEPT ![w] = m]
    /\ Goto(w, "loading")
    /\ UNCHANGED <<stack, purse, level, mine, lock, order, snap, lost, cancels>>

Load(w) ==
    /\ pc[w] = "loading"
    /\ Goto(w, IF mission[cur[w]].state = "open" THEN "locking" ELSE "closing")
    /\ UNCHANGED <<rows, lock, locals, lost, bounds>>

(* run_non_unit_mission: the planet of a BUILD_UNIT, nothing for LEVEL_UP  *)
(* or when the mission is gone; BEGIN, and the first read.                 *)
BeginRun(w) ==
    LET m == cur[w]
        K == IF IsBuild(m) /\ Exists(m) THEN {mission[m].order.planet} ELSE {}
    IN  /\ pc[w] = "locking"
        /\ LocksFree(K) /\ Take(w, K)
        /\ snap' = [snap EXCEPT ![w] = [seen |-> Exists(m), units |-> InBuild(m)]]
        /\ Goto(w, "running")
        /\ UNCHANGED <<rows, cur, order, lost, bounds>>

Delivered(m) ==
    [mission EXCEPT ![m].state = "deleted", ![m].landed = TRUE]

(* Mutant of Land: the stack that absorbs the new units stays as it was.   *)
LandForgetting(m, S) ==
    LET p == mission[m].order.planet
        there == AtHome(p, mission[m].order.unit)
    IN  IF p \in mine /\ there # {} THEN Without(S)
        ELSE [s \in StackId |-> IF s \in S /\ stack[s].count > 0
                                THEN [stack[s] EXCEPT !.planet = p, !.mission = 0]
                                ELSE stack[s]]

(* move_unit_to_planet for the stacks S of the snapshot: their count goes  *)
(* to the stack on the planet, or they become it, if they still exist.     *)
Land(m, S) ==
    LET p == mission[m].order.planet
        there == AtHome(p, mission[m].order.unit)
        into == CHOOSE s \in there : TRUE
    IN  IF p \in mine /\ there # {} /\ S # {}
        THEN [Without(S) EXCEPT ![into].count = @ + mission[m].order.count]
        ELSE [s \in StackId |-> IF s \in S /\ stack[s].count > 0
                                THEN [stack[s] EXCEPT !.planet = p, !.mission = 0]
                                ELSE stack[s]]

(* process_build_unit                                                      *)
ProcessBuildUnit(w) ==
    /\ pc[w] = "running" /\ snap[w].seen /\ IsBuild(cur[w])
    /\ stack' = Land(cur[w], snap[w].units)
    /\ mission' = Delivered(cur[w])
    /\ Drop(w)
    /\ Goto(w, "closing")
    /\ UNCHANGED <<purse, level, mine, locals, lost, bounds>>

(* Mutant of ProcessLevelUp: the level is raised by one.                   *)
ProcessLevelUpAdding(w) ==
    /\ pc[w] = "running" /\ snap[w].seen /\ ~IsBuild(cur[w])
    /\ level' = level + 1
    /\ mission' = Delivered(cur[w])
    /\ Goto(w, "closing")
    /\ UNCHANGED <<stack, purse, mine, lock, locals, lost, bounds>>

(* process_level_up_an_upgrade: the level that was paid for.               *)
ProcessLevelUp(w) ==
    /\ pc[w] = "running" /\ snap[w].seen /\ ~IsBuild(cur[w])
    /\ level' = mission[cur[w]].order.level
    /\ mission' = Delivered(cur[w])
    /\ Goto(w, "closing")
    /\ UNCHANGED <<stack, purse, mine, lock, locals, lost, bounds>>

NothingToProcess(w) ==
    /\ pc[w] = "running" /\ ~snap[w].seen
    /\ Drop(w)
    /\ Goto(w, "closing")
    /\ UNCHANGED <<rows, locals, lost, bounds>>

RunFails(w) ==
    /\ pc[w] \in {"locking", "running"}
    /\ Fault("fail")
    /\ Drop(w)
    /\ Goto(w, "failed")
    /\ UNCHANGED <<rows, locals, lost, cancels>>

OutOfAttempts(m) == mission[m].attemps >= MaxAttempts

(* retry_mission_if_possible; a mission that is gone is an error.          *)
RetryMissionIfPossible(w) ==
    LET m == cur[w] IN
    /\ pc[w] = "failed"
    /\ \/ ~Exists(m) /\ Goto(w, "closing") /\ UNCHANGED mission
       \/ /\ Exists(m) /\ ~OutOfAttempts(m)
          /\ mission' = [mission EXCEPT ![m].attemps = @ + 1]
          /\ Goto(w, "rearming")
       \/ Exists(m) /\ OutOfAttempts(m) /\ Goto(w, "resolving") /\ UNCHANGED mission
    /\ UNCHANGED <<stack, purse, level, mine, lock, locals, lost, bounds>>

(* The report resolves the mission; give_up deletes its units and then the *)
(* mission, a statement at a time.                                         *)
ReportError(w) ==
    /\ pc[w] = "resolving"
    /\ mission' = [mission EXCEPT ![cur[w]].state = IF @ = "deleted" THEN @ ELSE "resolved"]
    /\ Goto(w, IF IsBuild(cur[w]) THEN "dropping" ELSE "deleting")
    /\ UNCHANGED <<stack, purse, level, mine, lock, locals, lost, bounds>>

DropUnits(w) ==
    /\ pc[w] = "dropping"
    /\ stack' = Without(InBuild(cur[w]))
    /\ lost' = lost + Worth(InBuild(cur[w]))
    /\ Goto(w, "deleting")
    /\ UNCHANGED <<mission, purse, level, mine, lock, locals, bounds>>

DeleteMission(w) ==
    /\ pc[w] = "deleting"
    /\ mission' = [mission EXCEPT ![cur[w]].state = "deleted"]
    /\ Goto(w, "closing")
    /\ UNCHANGED <<stack, purse, level, mine, lock, locals, lost, bounds>>

Rearm(w) ==
    /\ pc[w] = "rearming"
    /\ mission' = [mission EXCEPT ![cur[w]].task = IF @ = "none" THEN "none" ELSE "armed"]
    /\ Rest(w)
    /\ UNCHANGED <<stack, purse, level, mine, lock, lost, bounds>>

Close(w) ==
    /\ pc[w] = "closing"
    /\ mission' = [mission EXCEPT ![cur[w]].task = "none"]
    /\ Rest(w)
    /\ UNCHANGED <<stack, purse, level, mine, lock, lost, bounds>>

(* A process dies or a request is dropped: its transaction and its locks   *)
(* are gone.                                                               *)
Stops(x) ==
    /\ pc[x] # "idle"
    /\ Fault("crash")
    /\ Drop(x)
    /\ Rest(x)
    /\ UNCHANGED <<rows, lost, cancels>>

------------------------------------------------------------------------------
ClientStep(c) ==
    \/ AskBuild(c) \/ AskLevelUp(c) \/ BeginRegister(c) \/ Refuse(c) \/ CommitRegister(c)
    \/ BeginCancelBuild(c) \/ BeginCancelLevelUp(c) \/ CommitCancel(c)
    \/ BeginLeave(c) \/ CommitLeave(c)

GiveUp(w) == ReportError(w) \/ DropUnits(w) \/ DeleteMission(w)

WorkerStep(w) ==
    \/ Claim(w) \/ Load(w) \/ BeginRun(w)
    \/ ProcessBuildUnit(w) \/ ProcessLevelUp(w) \/ NothingToProcess(w)
    \/ RunFails(w) \/ RetryMissionIfPossible(w) \/ GiveUp(w)
    \/ Rearm(w) \/ Close(w)

Next ==
    \/ \E c \in Client : ClientStep(c)
    \/ \E w \in Worker : WorkerStep(w)
    \/ BeginConquest \/ CommitConquest
    \/ \E x \in Process : Stops(x)

Spec == Init /\ [][Next]_vars

------------------------------------------------------------------------------
(* Nobody builds beyond his means: the checks of a registration and its    *)
(* charge are one critical section of the user, on whatever planets he     *)
(* builds and whatever completes or is cancelled beside it.  Neither his   *)
(* resources nor his energy run short, and his units and missions stay     *)
(* within the limits the improvements of his levels give - but for the     *)
(* units of a build that was refunded and delivered (EndsOnce).            *)
NeverOverdrawn ==
    LET Free == {m \in MissionId : IsBuild(m) /\ mission[m].landed /\ mission[m].refunds > 0}
        FreeEnergy == MapThenSumSet(
            LAMBDA m : mission[m].order.count * Energy[mission[m].order.unit], Free)
        FreeUnits == MapThenSumSet(LAMBDA m : mission[m].order.count, Free)
    IN  /\ purse >= 0
        /\ AvailableEnergy + Scale * FreeEnergy >= 0
        /\ \A t \in Type :
              RootOf(t) = t /\ MaxOf(t) > 0 => OwnedOfType(t) - FreeUnits <= LimitOf(t)
        /\ Unresolved <= MoreMissions

(* One running build on a planet, one research of the user.                *)
OneAtATime ==
    \A m, n \in MissionId :
        m # n /\ mission[m].state = "open" /\ mission[n].state = "open"
              /\ (IsBuild(m) <=> IsBuild(n)) =>
            IsBuild(m) /\ mission[m].order.planet # mission[n].order.planet

(* Of a unique unit there is one, built or in build, on all planets        *)
(* together ("the per-user lock closes the cross-planet unique-unit race", *)
(* register_build_unit).                                                   *)
UniqueOnce == \A u \in Unique : Count({s \in StackId : stack[s].unit = u}) <= 1

(* What a player paid for units is in his purse or in his units, unless    *)
(* the build was given up or the units were killed.                        *)
NothingLost ==
    LET research == MapThenSumSet(
            LAMBDA m : IF IsBuild(m) THEN 0 ELSE mission[m].paid * (1 - mission[m].refunds),
            MissionId)
    IN  purse + research + Worth(StackId) + lost >= Purse + UpgradeCost + UnitCost[FirstUnit]

(* Every level was asked for: two workers that complete one LEVEL_UP,      *)
(* which locks nothing, raise the level once.                              *)
LevelIsPaid == level <= Cardinality({m \in MissionId : ~IsBuild(m)})

(* cancel_build_unit: "one transaction so the refund and the deletes are   *)
(* atomic" - a mission is refunded once, and not when it was delivered.    *)
EndsOnce ==
    \A m \in MissionId : mission[m].refunds + (IF mission[m].landed THEN 1 ELSE 0) <= 1
================================================================================
