---------------------------------- MODULE Combat ----------------------------------
(***************************************************************************)
(* A mission that fights on its planet: bo/attack_mission_manager_bo.rs    *)
(* and the processors that call it (attack, counterattack, conquest, and,  *)
(* where a MISSION_<CODE>_TRIGGER_ATTACK is set, gather and establish_     *)
(* base).  All is one transaction under the locks of the planet, so the    *)
(* steps of one fight are all there is; what varies is the shuffled order  *)
(* and the rolls of the captures.  Rows that the fight does not concern    *)
(* are left out: every mission here flies to the planet, every row without *)
(* one is on it.                                                           *)
(***************************************************************************)
EXTENDS CombatRules, FiniteSetsExt

CONSTANTS
    Scenario,  \* where a fight can start: [rows, missions, owner, formerly, refused]
    None       \* no mission, no carrier, no owner

(* The mission that has arrived; ids of rows and missions are numbers.     *)
Ours == 1

(* The rows of obtained_units and of missions that matter here.            *)
Row == [user : User, unit : Unit, count : Nat \ {0}, mission : Nat \cup {None},
        carrier : Nat \cup {None}]
Fighter == {"ATTACK", "COUNTERATTACK", "CONQUEST", "GATHER", "ESTABLISH_BASE"}
MissionRow == [user : User, type : Fighter \cup {"DEPLOYED", "RETURN_MISSION"},
               near : BOOLEAN, resolved : BOOLEAN]

(* Expeditions has how units get there: they are on missions of their user *)
(* that are under way, cargo with its carrier, and none of it is deployed. *)
ASSUME ScenarioAssumption ==
    /\ None \notin Nat \cup User
    /\ \A s \in Scenario :
          /\ IsFiniteSet(DOMAIN s.rows) /\ IsFiniteSet(DOMAIN s.missions)
          /\ DOMAIN s.rows \cup DOMAIN s.missions \subseteq Nat \ {0}
          /\ s.rows \in [DOMAIN s.rows -> Row] /\ s.missions \in [DOMAIN s.missions -> MissionRow]
          /\ s.owner \in User \cup {None} /\ s.refused \in BOOLEAN
          /\ Ours \in DOMAIN s.missions
          /\ s.missions[Ours].type \in Fighter /\ ~s.missions[Ours].resolved
          /\ \A m \in DOMAIN s.missions :
                s.missions[m].resolved \/ \E i \in DOMAIN s.rows : s.rows[i].mission = m
          /\ \A i \in DOMAIN s.rows :
                LET m == s.rows[i].mission
                    c == s.rows[i].carrier
                IN  /\ m # None => /\ m \in DOMAIN s.missions /\ ~s.missions[m].resolved
                                   /\ s.missions[m].user = s.rows[i].user
                    /\ c # None =>
                          /\ c \in DOMAIN s.rows /\ s.rows[c].mission = m
                          /\ m # None => s.missions[m].type # "DEPLOYED"

VARIABLES
    rows,      \* obtained_units: id :> [user, unit, count, mission, carrier]
    missions,  \* id :> [user, type, near, resolved]; near: 10% of it is over
    owner,     \* of the planet
    formerly,  \* its owner before the fight
    refused,   \* the planet is a home, or the invader has max_planets
    triggers,  \* MISSION_<CODE>_TRIGGER_ATTACK, of the mission's type
    involved,  \* the rows of the mission as they were when it arrived
    stacks,    \* AttackInformation.units: id :> stack
    order,     \* the shuffled stacks
    turn,      \* the stack that attacks: order[turn]
    targets,   \* what it still may hit, best critical score first
    points,    \* [User -> earned_points]
    detached,  \* detached_unit_ids
    captures,  \* capture_contexts: [captor, unit, count]
    evaluated, \* the requirements that were re-evaluated: <<user, unit, why>>
    gathered,  \* what the invader has got out of the planet
    outcome,   \* "none", "gone", "returns", "won"
    pc         \* "landed", "fighting", "counted", "reported", "over"

battle == <<stacks, order, turn, targets, points, detached, captures>>
vars == <<rows, missions, owner, formerly, refused, triggers, involved, battle, evaluated, gathered, outcome, pc>>

Invader == missions[Ours].user

Aboard(m) == {id \in DOMAIN rows : rows[id].mission = m}

Init ==
    /\ \E s \in Scenario :
          /\ rows = s.rows /\ missions = s.missions
          /\ owner = s.owner /\ formerly = s.owner /\ refused = s.refused
    /\ triggers \in IF missions[Ours].type \in {"GATHER", "ESTABLISH_BASE"} THEN BOOLEAN
                    ELSE {FALSE}
    /\ involved = [id \in Aboard(Ours) |-> rows[id]]
    /\ stacks = <<>> /\ order = <<>> /\ turn = 0 /\ targets = <<>>
    /\ points = [u \in User |-> 0] /\ detached = {} /\ captures = {}
    /\ evaluated = {} /\ gathered = 0 /\ outcome = "none" /\ pc = "landed"

------------------------------------------------------------------------------
(* SELECT_DEFENDERS_SQL, without the rows of our own mission.              *)
Involved(id) ==
    LET m == rows[id].mission IN
    \/ m = None
    \/ m \in DOMAIN missions \ {Ours} /\ missions[m].type = "DEPLOYED"
    \/ m \in DOMAIN missions \ {Ours} /\ missions[m].type = "CONQUEST" /\ missions[m].near

AreUnitsInvolved ==
    \E id \in DOMAIN rows : Involved(id) /\ AreEnemies(Invader, rows[id].user)

(* What the administrator has set for the mission's type; else, never.     *)
IsAttackTriggerEnabled == triggers

Fights ==
    \/ missions[Ours].type \in {"ATTACK", "COUNTERATTACK", "CONQUEST"}
    \/ IsAttackTriggerEnabled /\ AreUnitsInvolved

Shuffled(S) == SetToSeqs(S)

(* A table with one row more.                                              *)
Put(f, x, v) == [y \in DOMAIN f \cup {x} |-> IF y = x THEN v ELSE f[y]]

BuildAttackInformation ==
    /\ pc = "landed" /\ Fights
    /\ LET in == {id \in DOMAIN rows : Involved(id)} \cup Aboard(Ours) IN
       /\ stacks' = [id \in in |-> CreateCombatStack(rows[id])]
       /\ order' \in Shuffled(in)
    /\ pc' = "fighting"
    /\ UNCHANGED <<rows, missions, owner, formerly, refused, triggers, involved, turn,
                   targets, points, detached, captures,
                   evaluated, gathered, outcome>>

(* Whom a stack may hit: enemies its rule permits, by critical score.  A   *)
(* stack that was wiped out has its turn all the same.                     *)
(* Mutant of Targets: whoever is not of the same player.                   *)
TargetsAllied(id) ==
    {SelectSeq(order, LAMBDA t : stacks[t].user # stacks[id].user
                                     /\ CanAttack(stacks[id].unit, stacks[t].unit))}

Targets(id) ==
    LET Score(i) == FindCriticalScore(stacks[id].unit, stacks[order[i]].unit)
        Before(i, j) == Score(i) > Score(j) \/ (Score(i) = Score(j) /\ i < j)
        hit == {i \in DOMAIN order : AreEnemies(stacks[id].user, stacks[order[i]].user)
                                         /\ CanAttack(stacks[id].unit, stacks[order[i]].unit)}
        sorted == {q \in SetToSeqs(hit) : \A k \in 1 .. Len(q) - 1 : Before(q[k], q[k + 1])}
    IN  {[k \in DOMAIN q |-> order[q[k]]] : q \in sorted}

NextTurn ==
    /\ pc = "fighting" /\ targets = <<>> /\ turn < Len(order)
    /\ turn' = turn + 1
    /\ targets' \in Targets(order[turn + 1])
    /\ UNCHANGED <<rows, missions, owner, formerly, refused, triggers, involved,
                   stacks, order, points, detached, captures,
                   evaluated, gathered, outcome, pc>>

------------------------------------------------------------------------------
(* One hit.                                                                *)

(* add_points_and_update_count looks at the unit's own flag only.          *)
Killed(id, t, strength) ==
    LET total == stacks[t].totalHealth
                     + (IF stacks[id].unit \in BypassShield THEN 0 ELSE stacks[t].totalShield)
        n == (strength * stacks[t].initial) \div total
    IN  IF n > stacks[t].final THEN stacks[t].final ELSE n

Strength(id, t) == stacks[id].pending * FindCriticalScore(stacks[id].unit, stacks[t].unit)

Bypasses(id, t) == BypassShields(stacks[id].user, stacks[id].unit, stacks[t].unit)

Resistance(id, t) ==
    stacks[t].health + (IF Bypasses(id, t) THEN 0 ELSE stacks[t].shield)

AddPoints(id, t) ==
    points' = [points EXCEPT ![stacks[id].user] =
                  @ + Killed(id, t, Strength(id, t)) * Stats[stacks[t].unit].points]

NewId(ids) == 1 + Max({0} \cup ids)

(* station_captured_units: with the captor's stack of this unit, on its    *)
(* planet or under its DEPLOYED mission there, which is created if need be.*)
Station(user, unit, n) ==
    LET id == NewId(DOMAIN rows \cup DOMAIN stacks)
        markers == {m \in DOMAIN missions : missions[m].type = "DEPLOYED"
                                               /\ missions[m].user = user}
        free == {m \in markers : ~missions[m].resolved}
        m == IF owner = user THEN None
             ELSE IF free # {} THEN Min(free) ELSE NewId(DOMAIN missions)
        same == {i \in DOMAIN rows :
                    /\ rows[i].user = user /\ rows[i].unit = unit
                    /\ IF owner = user THEN rows[i].mission = None /\ rows[i].carrier = None
                       ELSE rows[i].mission \in markers}
    IN  IF same # {} THEN [rows |-> [rows EXCEPT ![Min(same)].count = @ + n],
                           missions |-> missions]
        ELSE [rows |-> Put(rows, id, [user |-> user, unit |-> unit, count |-> n,
                                      mission |-> m, carrier |-> None]),
              missions |-> IF m = None \/ m \in free THEN missions
                           ELSE Put(missions, m, [user |-> user, type |-> "DEPLOYED",
                                                  near |-> FALSE, resolved |-> FALSE])]

(* The captives go where the captor's mission goes, or where its row is;   *)
(* a captor that has neither any more captures nothing.                    *)
HasDestination(id) ==
    IF stacks[id].mission = None THEN id \in DOMAIN rows
    ELSE stacks[id].mission \in DOMAIN missions

(* maybe_capture, after the count of the killed and before a wipe.         *)
Captives(id, t) ==
    LET n == Captured(stacks[id].user, stacks[id].unit, stacks[t].unit,
                      Killed(id, t, Strength(id, t)))
    IN  IF HasDestination(id) THEN n ELSE {0}

MaybeCapture(id, t, n) ==
    IF n = 0 THEN [rows |-> rows, missions |-> missions]
    ELSE Station(stacks[id].user, stacks[t].unit, n)

RecordCapture(id, t, n) ==
    captures' = IF n = 0 THEN captures
                ELSE captures \cup {[captor |-> stacks[id].user, unit |-> stacks[t].unit,
                                      count |-> n, hit |-> <<id, t>>]}

Fighting == pc = "fighting" /\ targets # <<>>

(* It is dead already.                                                     *)
Skip ==
    /\ Fighting /\ stacks[Head(targets)].final = 0
    /\ targets' = Tail(targets)
    /\ UNCHANGED <<rows, missions, owner, formerly, refused, triggers, involved,
                   stacks, order, turn, points,
                   detached, captures, evaluated, gathered, outcome, pc>>

(* Mutant of Wounded: a shield that breaks takes the rest with it.         *)
WoundedShield(s, strength, bypass) ==
    [s EXCEPT !.shield = IF bypass THEN @ ELSE Max({0, @ - strength \div 2}),
              !.health = @ - (IF bypass THEN strength ELSE strength \div 2)]

(* The hit goes half to the shield and half to the health, which has an    *)
(* odd 1 / Scale; a shield below zero takes the rest from the health, and  *)
(* stays below zero.                                                       *)
Wounded(s, strength, bypass) ==
    LET half == strength \div 2
        shield == IF bypass THEN s.shield ELSE s.shield - half
        health == s.health - (IF bypass THEN strength ELSE strength - half)
    IN  [s EXCEPT !.shield = shield,
                  !.health = IF shield < 0 THEN health + shield ELSE health]

Wound ==
    LET id == order[turn]
        t == Head(targets)
        strength == Strength(id, t)
    IN  /\ Fighting /\ stacks[t].final # 0
        /\ Resistance(id, t) > strength
        /\ \E n \in Captives(id, t) :
              /\ rows' = MaybeCapture(id, t, n).rows
              /\ missions' = MaybeCapture(id, t, n).missions
              /\ RecordCapture(id, t, n)
        /\ AddPoints(id, t)
        /\ stacks' = [stacks EXCEPT
                        ![id].pending = 0, ![id].spent = TRUE,
                        ![t] = Wounded([stacks[t] EXCEPT !.final = @ - Killed(id, t, strength)],
                                       strength, Bypasses(id, t))]
        /\ targets' = <<>>
        /\ UNCHANGED <<owner, formerly, refused, triggers, involved, order, turn,
                       detached, evaluated, gathered,
                       outcome, pc>>

(* delete_mission_if_required; that our own is empty is counted again      *)
(* after the fight.                                                        *)
Remaining(left, ms, m) ==
    IF m = Ours \/ \E i \in DOMAIN left : left[i].mission = m THEN ms
    ELSE [x \in DOMAIN ms \ {m} |-> ms[x]]

(* Mutant of Unload: what it carried is forgotten.                         *)
UnloadNothing(t) == {}

(* maybe_unset_holder_unit: the stacks it carried.                         *)
Unload(t) == {i \in DOMAIN stacks : stacks[i].carrier = t}

Wipe ==
    LET id == order[turn]
        t == Head(targets)
        left == Strength(id, t) - Resistance(id, t)
    IN  /\ Fighting /\ stacks[t].final # 0
        /\ left >= 0
        /\ \E n \in Captives(id, t) :
              LET w == MaybeCapture(id, t, n)
                  others == [i \in DOMAIN w.rows \ {t} |-> w.rows[i]]
              IN  /\ rows' = others
                  /\ missions' = Remaining(others, w.missions, stacks[t].mission)
                  /\ RecordCapture(id, t, n)
        /\ AddPoints(id, t)
        /\ stacks' = [i \in DOMAIN stacks |->
                        CASE i = t -> [stacks[i] EXCEPT !.health = 0, !.shield = 0, !.final = 0]
                          [] i = id -> [stacks[i] EXCEPT !.pending = Min({@, left})]
                          [] OTHER -> IF i \in Unload(t) THEN [stacks[i] EXCEPT !.carrier = None]
                                      ELSE stacks[i]]
        /\ detached' = detached \cup Unload(t)
        /\ targets' = Tail(targets)
        /\ UNCHANGED <<owner, formerly, refused, triggers, involved, order, turn,
                       evaluated, gathered, outcome, pc>>

------------------------------------------------------------------------------
(* After the last turn.                                                    *)

(* update_points: the survivors that shrank, and the freed cargo.          *)
UpdatePoints ==
    /\ pc = "fighting" /\ targets = <<>> /\ turn = Len(order)
    /\ rows' = [i \in DOMAIN rows |->
                  IF i \notin DOMAIN stacks THEN rows[i]
                  ELSE [rows[i] EXCEPT
                          !.count = IF stacks[i].final = 0 THEN @
                                    ELSE @ - (stacks[i].initial - stacks[i].final),
                          !.carrier = IF i \in detached THEN None ELSE @]]
    /\ pc' = "counted"
    /\ UNCHANGED <<missions, owner, formerly, refused, triggers, involved, battle,
                   evaluated, gathered, outcome>>

TriggerUnitRequirementChanges ==
    /\ pc = "counted"
    /\ evaluated' =
          {<<stacks[i].user, stacks[i].unit, IF stacks[i].final = 0 THEN "killed" ELSE "amount">> :
              i \in {x \in DOMAIN stacks : stacks[x].final # stacks[x].initial}}
    /\ pc' = "reported"
    /\ UNCHANGED <<rows, missions, owner, formerly, refused, triggers, involved,
                   battle, gathered, outcome>>

------------------------------------------------------------------------------
(* What the processor makes of it.                                         *)

Removed == Aboard(Ours) = {}

(* Nothing to fight, or the fight is over and the mission is left.         *)
GoesOn == \/ pc = "landed" /\ ~Fights
          \/ pc = "reported" /\ ~Removed

Kind(m) == missions[m].type

Close(rs, ms, result) ==
    /\ rows' = rs
    /\ missions' = [ms EXCEPT ![Ours].resolved = TRUE]
    /\ outcome' = result /\ pc' = "over"
    /\ UNCHANGED <<formerly, refused, triggers, involved, battle, evaluated>>

(* register_return_mission takes every row of the mission.                 *)
FlyHome ==
    LET m == NewId(DOMAIN missions)
    IN  Close([i \in DOMAIN rows |->
                  IF i \in Aboard(Ours) THEN [rows[i] EXCEPT !.mission = m] ELSE rows[i]],
              Put(missions, m, [user |-> Invader, type |-> "RETURN_MISSION",
                                near |-> FALSE, resolved |-> FALSE]),
              "returns")

(* A triggered fight, or an attack, that nobody of the mission survives.   *)
NobodyIsLeft ==
    /\ pc = "reported" /\ Removed /\ Kind(Ours) # "CONQUEST"
    /\ Close(rows, missions, "gone")
    /\ UNCHANGED <<owner, gathered>>

(* attack.rs, counterattack.rs                                             *)
Attack ==
    /\ GoesOn /\ Kind(Ours) \in {"ATTACK", "COUNTERATTACK"}
    /\ FlyHome
    /\ UNCHANGED <<owner, gathered>>

(* gather.rs: as much as the units carry that arrived.                     *)
Gather ==
    /\ GoesOn /\ Kind(Ours) = "GATHER"
    /\ LET load == [i \in DOMAIN involved |->
                        involved[i].count * Stats[involved[i].unit].charge]
       IN  gathered' = MapThenSumSet(LAMBDA i : load[i], DOMAIN involved)
    /\ FlyHome
    /\ UNCHANGED owner

(* move_unit_to_planet: with the stack of the unit that is there.          *)
MoveUnitToPlanet(rs, id) ==
    LET same == {i \in DOMAIN rs \ {id} :
                    /\ rs[i].user = rs[id].user /\ rs[i].unit = rs[id].unit
                    /\ rs[i].mission = None /\ rs[i].carrier = None}
    IN  IF same = {} THEN [rs EXCEPT ![id].mission = None, ![id].carrier = None]
        ELSE [i \in DOMAIN rs \ {id} |->
                 IF i = Min(same) THEN [rs[i] EXCEPT !.count = @ + rs[id].count] ELSE rs[i]]

(* Those of the stacks among ids land, one by one.                         *)
Rehomed(rs, those) ==
    LET last == Max({0} \cup DOMAIN rs)
        land[n \in 0 .. last] ==
            IF n = 0 THEN rs
            ELSE IF n \in those THEN MoveUnitToPlanet(land[n - 1], n) ELSE land[n - 1]
    IN  land[last]

(* define_planet_as_owned_by: the units of the mission land, those that    *)
(* were deployed there are at home now, and their markers go.              *)
DefinePlanetAsOwnedBy(user) ==
    LET landed == [i \in DOMAIN rows |->
                      IF i \in DOMAIN involved
                      THEN [rows[i] EXCEPT !.mission = None, !.carrier = None] ELSE rows[i]]
        deployed == {i \in DOMAIN landed :
                        /\ landed[i].user = user
                        /\ landed[i].mission \in DOMAIN missions
                        /\ Kind(landed[i].mission) = "DEPLOYED"}
        markers == {landed[i].mission : i \in deployed}
    IN  /\ owner' = user
        /\ Close(Rehomed(landed, deployed), [m \in DOMAIN missions \ markers |-> missions[m]], "won")

EstablishBase ==
    /\ GoesOn /\ Kind(Ours) = "ESTABLISH_BASE"
    /\ \/ (owner # None \/ refused) /\ FlyHome /\ UNCHANGED owner
       \/ owner = None /\ ~refused /\ DefinePlanetAsOwnedBy(Invader)
    /\ UNCHANGED gathered

HasSurvivors(user) == \E i \in DOMAIN stacks : stacks[i].user = user /\ stacks[i].final > 0

(* Mutant of AllianceDefeated: the owner alone counts.                     *)
AllianceDefeatedAlone == owner = None \/ ~HasSurvivors(owner)

AllianceDefeated ==
    \/ owner = None
    \/ /\ ~HasSurvivors(owner)
       /\ \A i \in DOMAIN stacks :
             Alliance[owner] # NoAlliance /\ Alliance[stacks[i].user] = Alliance[owner]
                 => stacks[i].final = 0

(* conquest.rs: the owner and its alliance are defeated.                   *)
Conquest ==
    /\ pc = "reported" /\ Kind(Ours) = "CONQUEST"
    /\ IF AllianceDefeated /\ ~refused THEN DefinePlanetAsOwnedBy(Invader)
       ELSE /\ IF Removed THEN Close(rows, missions, "gone") ELSE FlyHome
            /\ UNCHANGED owner
    /\ UNCHANGED gathered

Next ==
    \/ BuildAttackInformation \/ NextTurn \/ Skip \/ Wound \/ Wipe
    \/ UpdatePoints \/ TriggerUnitRequirementChanges
    \/ NobodyIsLeft \/ Attack \/ Gather \/ EstablishBase \/ Conquest

Spec == Init /\ [][Next]_vars

------------------------------------------------------------------------------
TypeOK ==
    /\ \A i \in DOMAIN rows : i \in Nat /\ rows[i] \in Row
    /\ \A m \in DOMAIN missions : m \in Nat /\ missions[m] \in MissionRow
    /\ owner \in User \cup {None} /\ {refused, triggers} \subseteq BOOLEAN
    /\ ToSet(order) \cup ToSet(targets) \cup detached \subseteq DOMAIN stacks
    /\ turn \in 0 .. Len(order)
    /\ \A i \in DOMAIN stacks :
          /\ stacks[i].initial \in Nat /\ stacks[i].final \in 0 .. stacks[i].initial
          /\ stacks[i].pending \in Nat /\ {stacks[i].health, stacks[i].shield} \subseteq Int
    /\ points \in [User -> Nat] /\ gathered \in Nat
    /\ outcome \in {"none", "gone", "returns", "won"}
    /\ pc \in {"landed", "fighting", "counted", "reported", "over"}

(* The report and the rows agree: "only stacks that survived with a        *)
(* changed count are saved here; fully-wiped stacks were already DELETEd   *)
(* in attack_target" (update_points).  A row can have grown by captives.   *)
RowsFollowReport ==
    pc \in {"counted", "reported"} =>
        \A i \in DOMAIN stacks :
            LET s == stacks[i]
                grew == \E c \in captures : c.captor = s.user /\ c.unit = s.unit
            IN  /\ s.final = 0 <=> i \notin DOMAIN rows
                /\ i \in DOMAIN rows => \/ rows[i].count = s.final
                                         \/ (grew /\ rows[i].count > s.final)

(* So they do as long as no unit of the fight has bypass_shield: such a    *)
(* unit kills by the health alone what keeps both health and shield.       *)
Plain == \A i \in DOMAIN stacks : stacks[i].unit \notin BypassShield

RowsFollowPlainReport == Plain => RowsFollowReport

(* Nobody is left behind.  Of the missions, each but the one that fights   *)
(* has units for as long as it is open - a DEPLOYED marker that is emptied *)
(* goes, one that captives need comes - and in the end the survivors have  *)
(* an open mission or a planet, and no unit is inside one that is gone.    *)
FleetsAndMissions ==
    /\ \A m \in DOMAIN missions :
          m # Ours \/ pc = "over" => missions[m].resolved \/ Aboard(m) # {}
    /\ pc = "over" => \A i \in DOMAIN rows :
          /\ rows[i].mission # None => /\ rows[i].mission \in DOMAIN missions
                                        /\ ~missions[rows[i].mission].resolved
          /\ rows[i].carrier \in DOMAIN rows \cup {None}

(* Every unit that is lost is paid for at most once, to an enemy of its    *)
(* owner, and only an enemy whose attack rule permits it can take it.      *)
LossesHaveEnemies ==
    LET loss == [i \in DOMAIN stacks |-> (stacks[i].initial - stacks[i].final)
                                            * Stats[stacks[i].unit].points]
        Value(S) == MapThenSumSet(LAMBDA i : loss[i], S)
    IN  /\ MapThenSumSet(LAMBDA u : points[u], User) <= Value(DOMAIN stacks)
        /\ \A u \in User :
              points[u] <= Value({i \in DOMAIN stacks : AreEnemies(u, stacks[i].user)})
        /\ \A i \in DOMAIN stacks :
              stacks[i].final < stacks[i].initial =>
                  \E j \in DOMAIN stacks : /\ AreEnemies(stacks[j].user, stacks[i].user)
                                           /\ CanAttack(stacks[j].unit, stacks[i].unit)

(* A planet is conquered over nobody's head: what stood there of its owner *)
(* and its allies is gone, but for what they captured in the fight itself. *)
ConqueredIsCleared ==
    outcome = "won" /\ formerly # None /\ Plain =>
        \A i \in DOMAIN rows :
            \/ AreEnemies(rows[i].user, formerly) /\ rows[i].user # formerly
            \/ rows[i].mission # None /\ Kind(rows[i].mission) # "DEPLOYED"
            \/ \E c \in captures : c.captor = rows[i].user /\ c.unit = rows[i].unit
================================================================================
