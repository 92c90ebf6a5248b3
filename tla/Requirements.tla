------------------------------ MODULE Requirements ------------------------------
(***************************************************************************)
(* The requirement engine: bo/requirement_engine.rs and the same engine in *)
(* bo/requirement_bo.rs.  What a player has unlocked (unlocked_relation)   *)
(* follows from the requirements of the relations (requirements_           *)
(* information): a trigger re-evaluates the relations that name what has   *)
(* changed, and losing a time special that is active changes more.         *)
(*                                                                         *)
(* The tables a transaction sees are a record t:                           *)
(*   t.owner[p]        the owner of planet p                               *)
(*   t.stacks          obtained_units                                      *)
(*   t.level[u]        the obtained_upgrades of player u and their levels  *)
(*   t.available       what the transaction writes to their column of that *)
(*                     name, never read here                               *)
(*   t.unlocked        unlocked_relation, pairs of a player and a relation *)
(*   t.needs[r]        requirements_information of relation r              *)
(*   t.master          slave :> master, object_relation__object_relation   *)
(*   t.special         active_time_specials by id                          *)
(*   t.tasks           scheduled_tasks, pairs of a task name and an id     *)
(*   t.lost            the relations it queued for the removal of their    *)
(*                     temporal units (RequirementEmit)                    *)
(* The other emits of the engine are websocket pushes, left out.           *)
(***************************************************************************)
EXTENDS Integers, Sequences, FiniteSets, SequencesExt, FiniteSetsExt, TLC

CONSTANTS
    Relation,   \* object_relations: their ids, numbers
    Kind,       \* [Relation -> object_description]
    Target,     \* [Relation -> reference_id]
    Needs,      \* [Relation -> SUBSET [code, on, n]]: t.needs at first
    Master,     \* t.master at first
    Race,       \* the faction of a player
    GalaxyOf,   \* the galaxy of the home planet of a player
    LocationOf  \* planet :> its special location

ASSUME RelationAssumption ==
    /\ Relation \subseteq Nat \ {0}
    /\ Kind \in [Relation -> {"UPGRADE", "UNIT", "TIME_SPECIAL",
                              "SPEED_IMPACT_GROUP", "REQUIREMENT_GROUP"}]
    /\ DOMAIN Target = Relation /\ DOMAIN Needs = Relation
    /\ DOMAIN Master \subseteq Relation
    /\ \A s \in DOMAIN Master : Master[s] \in Relation /\ Kind[s] = "REQUIREMENT_GROUP"

------------------------------------------------------------------------------
(* The queries.                                                            *)

LevelOf(t, u, a) == IF a \in DOMAIN t.level[u] THEN t.level[u][a] ELSE 0

CountUnits(t, u, unit) ==
    MapThenSumSet(LAMBDA s : s.count, {s \in t.stacks : s.user = u /\ s.unit = unit})

SpecialLocationOwned(t, u, place) ==
    \E p \in DOMAIN LocationOf : LocationOf[p] = place /\ t.owner[p] = u

TimeSpecialUnlocked(t, u, special) ==
    \E r \in Relation :
        Kind[r] = "TIME_SPECIAL" /\ Target[r] = special /\ <<u, r>> \in t.unlocked

ActiveRows(t, u, special) ==
    {i \in DOMAIN t.special :
        t.special[i] = [user |-> u, special |-> special, state |-> "ACTIVE"]}

TimeSpecialActive(t, u, special) == ActiveRows(t, u, special) # {}

HasUpgrade(t, u, a) == a \in DOMAIN t.level[u]

HaveUnit(t, u, unit) == \E s \in t.stacks : s.user = u /\ s.unit = unit

IsUnlocked(t, u, r) == <<u, r>> \in t.unlocked

Meets(t, u, q) ==
    \/ q.code = "UPGRADE_LEVEL" /\ LevelOf(t, u, q.on) >= q.n
    \/ q.code = "HAVE_UNIT" /\ HaveUnit(t, u, q.on)
    \/ q.code = "UNIT_AMOUNT" /\ CountUnits(t, u, q.on) >= q.n
    \/ q.code = "BEEN_RACE" /\ Race[u] = q.on
    \/ q.code = "HOME_GALAXY" /\ GalaxyOf[u] = q.on
    \/ q.code = "HAVE_SPECIAL_LOCATION" /\ SpecialLocationOwned(t, u, q.on)
    \/ q.code = "HAVE_SPECIAL_AVAILABLE" /\ TimeSpecialUnlocked(t, u, q.on)
    \/ q.code = "HAVE_SPECIAL_ENABLED" /\ TimeSpecialActive(t, u, q.on)
    \/ /\ q.code = "UPGRADE_LEVEL_LOWER_THAN"
       /\ HasUpgrade(t, u, q.on) /\ LevelOf(t, u, q.on) < q.n

RequirementsAreMet(t, u, r) == \A q \in t.needs[r] : Meets(t, u, q)

(* Mutant of Slaves: none, a master is evaluated like any relation.        *)
NoSlaves(t, r) == {}

Slaves(t, r) == {s \in DOMAIN t.master : t.master[s] = r}

RelationsWithCode(t, code) == {r \in Relation : \E q \in t.needs[r] : q.code = code}

RelationsWith(t, code, on) ==
    {r \in Relation : \E q \in t.needs[r] : q.code = code /\ q.on = on}

(* find_relations_unit_amount: of the amounts, those not passed yet.       *)
RelationsWithAmount(t, unit, count) ==
    {r \in Relation : \E q \in t.needs[r] :
        q.code = "UNIT_AMOUNT" /\ q.on = unit /\ q.n >= count}

(* A master is not evaluated itself, unless it is a group, too.            *)
OwnTurn(t, S) == {r \in S : Kind[r] = "REQUIREMENT_GROUP" \/ Slaves(t, r) = {}}

AffectedMasters(t, S) == {t.master[s] : s \in S \cap DOMAIN t.master}

------------------------------------------------------------------------------
(* The engine: what t becomes.                                             *)

RECURSIVE ProcessRelationList(_, _, _)

ScheduleIsReady(t, i) == [t EXCEPT !.tasks = @ \cup {<<"IS_READY", i>>}]

Recharging(t, i) == ScheduleIsReady([t EXCEPT !.special[i].state = "RECHARGE"], i)

(* Mutant of Deactivate: the relations that need the special are kept.     *)
DeactivateQuietly(t, i) ==
    IF i \notin DOMAIN t.special THEN t
    ELSE Recharging(t, i)

(* deactivate_in_tx: the special recharges, whatever its state was, and    *)
(* what needs it is evaluated again.                                       *)
Deactivate(t, i) ==
    IF i \notin DOMAIN t.special THEN t
    ELSE ProcessRelationList(
            Recharging(t, i), t.special[i].user,
            RelationsWith(t, "HAVE_SPECIAL_ENABLED", t.special[i].special))

SetAvailable(t, u, a, available) == [t EXCEPT !.available = (<<u, a>> :> available) @@ @]

(* An upgrade that was had before keeps its level.                         *)
RegisterObtainedUpgrade(t, u, a) ==
    [SetAvailable(t, u, a, TRUE) EXCEPT !.level[u] = @ @@ (a :> 0)]

RegisterObtainedRelation(t, u, r) ==
    LET w == [t EXCEPT !.unlocked = @ \cup {<<u, r>>}]
    IN  CASE IsUnlocked(t, u, r) -> t
          [] ~IsUnlocked(t, u, r) /\ Kind[r] = "UPGRADE" ->
                RegisterObtainedUpgrade(w, u, Target[r])
          [] OTHER -> w

(* doNotifyLostRelation: the listeners hear of a time special even if it   *)
(* was not unlocked.                                                       *)
NotifyLostRelation(t, u, r) ==
    LET on == ActiveRows(t, u, Target[r])
        off == IF on = {} THEN t ELSE Deactivate(t, CHOOSE i \in on : TRUE)
    IN  [off EXCEPT !.lost = Append(@, r)]

UnregisterLostRelation(t, u, r) ==
    LET w == [t EXCEPT !.unlocked = @ \ {<<u, r>>}]
    IN  CASE Kind[r] = "UPGRADE" /\ HasUpgrade(t, u, Target[r]) ->
                SetAvailable(w, u, Target[r], FALSE)
          [] Kind[r] = "TIME_SPECIAL" -> NotifyLostRelation(w, u, r)
          [] OTHER -> w

Settle(t, u, r, due) ==
    IF due THEN RegisterObtainedRelation(t, u, r) ELSE UnregisterLostRelation(t, u, r)

ProcessRelation(t, u, r) == Settle(t, u, r, RequirementsAreMet(t, u, r))

(* A master is unlocked while one of its slaves is.                        *)
ProcessMaster(t, u, m) == Settle(t, u, m, \E s \in Slaves(t, m) : IsUnlocked(t, u, s))

(* The masters of the list's slaves come last.  The rows come in the order *)
(* of their ids.                                                           *)
ProcessRelationList(t, u, S) ==
    LET InIdOrder(X) == SelectSeq([r \in 1 .. Max(Relation) |-> r], LAMBDA r : r \in X)
        Process(v, r) == ProcessRelation(v, u, r)
        Follow(v, m) == ProcessMaster(v, u, m)
    IN  FoldLeft(Follow, FoldLeft(Process, t, InIdOrder(OwnTurn(t, S))),
                 InIdOrder(AffectedMasters(t, S)))

------------------------------------------------------------------------------
(* The triggers.                                                           *)

TriggerFactionSelection(t, u) == ProcessRelationList(t, u, RelationsWithCode(t, "BEEN_RACE"))

TriggerHomeGalaxySelection(t, u) ==
    ProcessRelationList(t, u, RelationsWithCode(t, "HOME_GALAXY"))

TriggerLevelUpCompleted(t, u, a) ==
    ProcessRelationList(t, u, RelationsWith(t, "UPGRADE_LEVEL", a))

TriggerSpecialLocation(t, u, place) ==
    ProcessRelationList(t, u, RelationsWith(t, "HAVE_SPECIAL_LOCATION", place))

TriggerTimeSpecialStateChange(t, u, special) ==
    ProcessRelationList(t, u, RelationsWith(t, "HAVE_SPECIAL_ENABLED", special))

TriggerUnitAmountChanged(t, u, unit) ==
    ProcessRelationList(t, u, RelationsWithAmount(t, unit, CountUnits(t, u, unit)))

TriggerUnitBuildCompletedOrKilled(t, u, unit) ==
    TriggerUnitAmountChanged(
        ProcessRelationList(t, u, RelationsWith(t, "HAVE_UNIT", unit)), u, unit)
================================================================================
