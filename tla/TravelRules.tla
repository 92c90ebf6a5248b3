------------------------------- MODULE TravelRules -------------------------------
(***************************************************************************)
(* What decides who may travel where, how long it takes and who is stopped *)
(* on the way: unit types, speed impact groups, carriers, distances        *)
(* (bo/unit_mission_registration_bo.rs, bo/mission_time_manager_bo.rs,     *)
(* bo/unit_interception_finder_bo.rs and                                   *)
(* bo/active_time_special_rule_finder_bo.rs).                              *)
(***************************************************************************)
EXTENDS Integers, Sequences, FiniteSets, FiniteSetsExt, SequencesExt

CONSTANTS
    Unit, Type, Group,     \* units, unit_types, speed_impact_groups
    None,                  \* NULL
    TypeOf,                \* [Unit -> Type]
    Parent,                \* parent_type: [Type -> Type or None]
    Inherits,              \* the types with has_to_inherit_improvements
    UnitGroup, TypeGroup,  \* speed_impact_group_id of units and of types
    FixedGroup,            \* the groups with is_fixed
    Support,               \* can_<mission>: [Type \cup Group -> [mission -> policy]]
    Intercepts,            \* interceptable_speed_group: [Unit -> SUBSET Group]
    Stores,                \* UNIT_STORES_UNIT rules: pairs of carrier and cargo
    Capacity, Weight,      \* storage_capacity, stored_weight
    Speed,                 \* units.speed, a percentage
    IsInvisible,           \* the units with is_invisible
    DoHide,                \* what the DO_HIDE rules of the time special name
    DoSwap,                \* the group of its DO_SWAP_SPEED_IMPACT_GROUP rule, or None
    SpeedBonus,            \* its SPEED improvement, [Type -> percentage]
    Position,              \* [Planet -> [galaxy, sector, quadrant, number]]
    BaseTime,              \* MISSION_TIME_<mission>
    Penalty,               \* MISSION_SPEED_<mission>_SAME_Q, .. by distance
    MoveCost,              \* MISSION_SPEED_<mission>_P_MOVE_COST, .. in hundredths
    Divisor                \* MISSION_SPEED_DIVISOR_<mission>

Policy == {"ANY", "OWNED_ONLY", "NONE", "NULL"}

ASSUME TypesAssumption ==
    /\ IsFiniteSet(Type)
    /\ TypeOf \in [Unit -> Type] /\ Parent \in [Type -> Type \cup {None}] /\ None \notin Type
    /\ Inherits \subseteq Type /\ Type \cap Group = {} /\ None \notin Group
    /\ UnitGroup \in [Unit -> Group \cup {None}] /\ TypeGroup \in [Type -> Group \cup {None}]
    /\ FixedGroup \subseteq Group
ASSUME RulesAssumption ==
    /\ \A x \in Type \cup Group : \A kind \in DOMAIN Support[x] : Support[x][kind] \in Policy
    /\ Intercepts \in [Unit -> SUBSET Group] /\ Stores \subseteq Unit \X Unit
    /\ {Capacity, Weight, Speed} \subseteq [Unit -> Nat]
    /\ IsInvisible \subseteq Unit /\ DoHide \subseteq Unit \cup Type
    /\ DoSwap \in Group \cup {None} /\ SpeedBonus \in [Type -> Nat]
ASSUME DistanceAssumption ==
    /\ Divisor \in Nat \ {0}
    /\ \A name \in {"same", "quadrant", "sector", "galaxy"} : Penalty[name] \in Nat
    /\ \A name \in {"planet", "quadrant", "sector", "galaxy"} : MoveCost[name] \in Nat
    /\ \A p \in DOMAIN Position :
           \A name \in {"galaxy", "sector", "quadrant", "number"} : Position[p][name] \in Nat

------------------------------------------------------------------------------
(* The types from t upwards, as far as those in Through lead; a malformed  *)
(* cycle is cut.                                                           *)
Chain(t, Through) ==
    LET climb[n \in 0 .. Cardinality(Type)] ==
            IF n = 0 THEN <<t>>
            ELSE LET below == climb[n - 1]
                     up == Parent[Last(below)]
                 IN  IF Last(below) \in Through /\ up # None /\ ~Contains(below, up)
                     THEN Append(below, up) ELSE below
    IN  climb[Cardinality(Type)]

(* RuleBo.isWantedUnitDestination for the hiding rules; isHiddenUnit.      *)
IsHiddenUnit(active, unit) ==
    \/ unit \in IsInvisible
    \/ active /\ DoHide \cap ({unit} \cup ToSet(Chain(TypeOf[unit], Type))) # {}

(* canDoMission: a missing policy of a type or a group is ANY ..           *)
MissionSupportAllows(policy, owned) ==
    policy \in {"ANY", "NULL"} \/ (policy = "OWNED_ONLY" /\ owned)

(* .. but of the group that leaves the galaxy it is NONE.                  *)
SpeedGroupCanDoMission(group, kind, owned) ==
    Support[group][kind] = "ANY" \/ (Support[group][kind] = "OWNED_ONLY" /\ owned)

(* The group that must be unlocked to leave the galaxy: the unit's own or  *)
(* that of its very type.                                                  *)
ResolveUnitSpeedGroup(unit) ==
    IF UnitGroup[unit] # None THEN UnitGroup[unit] ELSE TypeGroup[TypeOf[unit]]

(* The group interceptors look at: the unit's own or that of the nearest   *)
(* type that has one ..                                                    *)
FindHisOrInherited(unit) ==
    LET typed == SelectSeq(Chain(TypeOf[unit], Type), LAMBDA t : TypeGroup[t] # None)
    IN  IF UnitGroup[unit] # None THEN UnitGroup[unit]
        ELSE IF typed = <<>> THEN None ELSE TypeGroup[typed[1]]

(* .. unless an active time special of the owner puts another in its place *)
FindApplicable(active, unit) ==
    IF active /\ DoSwap # None THEN DoSwap ELSE FindHisOrInherited(unit)

AreEnemies(u, v, allianceOf) ==
    u # v /\ (allianceOf[u] = None \/ allianceOf[v] = None \/ allianceOf[u] # allianceOf[v])

------------------------------------------------------------------------------
IsFixed(unit) == UnitGroup[unit] \in FixedGroup

(* Mutant of Paced: carried units do not count.                            *)
PacedTop(units) == {x \in units : Speed[x.unit] > 0 /\ ~IsFixed(x.unit) /\ x.carrier = None}

(* The units whose speed counts, those that are carried included.          *)
Paced(units) == {x \in units : Speed[x.unit] > 0 /\ ~IsFixed(x.unit)}

LowestSpeed(units) == Min({Speed[x.unit] : x \in Paced(units)})

(* The first unit that has this speed decides whose improvement counts; it *)
(* need not be one of those that set the pace.                             *)
SpeedImprovement(units, active) ==
    LET first == CHOOSE x \in units :
            /\ Speed[x.unit] = LowestSpeed(units)
            /\ \A y \in units : Speed[y.unit] = Speed[x.unit] => x.id <= y.id
    IN  IF active
        THEN MapThenSumSet(LAMBDA t : SpeedBonus[t], ToSet(Chain(TypeOf[first.unit], Inherits)))
        ELSE 0

FindSpeedLeftMultiplier(from, to) ==
    IF from.galaxy # to.galaxy THEN Penalty.galaxy
    ELSE IF from.sector # to.sector THEN Penalty.sector
    ELSE IF from.quadrant # to.quadrant THEN Penalty.quadrant
    ELSE Penalty.same

Distance(a, b) == IF a < b THEN b - a ELSE a - b

CalculateMoveCost(from, to) ==
    Distance(from.number, to.number) * MoveCost.planet
    + Distance(from.quadrant, to.quadrant) * MoveCost.quadrant
    + Distance(from.sector, to.sector) * MoveCost.sector
    + (IF from.galaxy # to.galaxy THEN MoveCost.galaxy ELSE 0)

(* calculate_time_using_speed, the speed in hundredths of a percent.       *)
CalculateTimeUsingSpeed(base, speed, from, to) ==
    Max({base,
         base + (FindSpeedLeftMultiplier(from, to) * CalculateMoveCost(from, to)
                     * (10000 - speed)) \div (10000 * Divisor)})

(* handle_mission_time_calculation: how long the units take.               *)
RequiredTime(units, active, kind, source, target) ==
    IF Paced(units) = {} THEN BaseTime[kind]
    ELSE CalculateTimeUsingSpeed(BaseTime[kind],
             LowestSpeed(units) * (100 + SpeedImprovement(units, active)),
             Position[source], Position[target])
================================================================================
