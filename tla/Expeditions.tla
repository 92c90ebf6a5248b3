------------------------------ MODULE Expeditions ------------------------------
(***************************************************************************)
(* Fleets of several kinds of unit: what an order takes from which stacks, *)
(* carriers and their cargo, the checks on types, groups and galaxies, the *)
(* interceptors on the way, and where the units land                       *)
(* (bo/unit_mission_registration_bo.rs, bo/mission_interception_manager_bo.rs, *)
(* bo/unit_interception_finder_bo.rs, bo/mission_processor/).              *)
(*                                                                         *)
(* A registration and a run are one transaction each, under the locks of   *)
(* their planets: UnitMission has the steps between, the cancellations and *)
(* the retries, for one kind of unit.  Here planets keep their owners.     *)
(***************************************************************************)
EXTENDS TravelRules

CONSTANTS
    User, Planet,
    Owner,             \* [Planet -> User or None]
    HomePlanet,        \* the planets nobody may conquer
    DeployConfig,      \* DEPLOYMENT_CONFIG
    Related,           \* the groups that have an object_relations row
    Order,             \* the missions the users may ask for
    Rows0, Missions0,  \* obtained_units and missions at first
    Allies0,           \* [User -> alliance or None] at first
    Explored0,         \* explored_planets at first
    Permits,           \* <<user, group>>: the groups users may unlock
    Expiration,        \* the expirations of temporal units
    MaxOrders, MaxEvents

Kind == {"EXPLORE", "GATHER", "ESTABLISH_BASE", "ATTACK", "COUNTERATTACK", "CONQUEST", "DEPLOY"}
OnlyOnce == {"ONLY_ONCE_RETURN_DEPLOYED", "ONLY_ONCE_RETURN_SOURCE"}

ASSUME UniverseAssumption ==
    /\ None \notin User \cup Planet /\ Owner \in [Planet -> User \cup {None}]
    /\ HomePlanet \subseteq Planet /\ Related \subseteq Group
    /\ Permits \subseteq User \X Group /\ Explored0 \subseteq User \X Planet
    /\ DeployConfig \in {"FREEDOM", "DISALLOWED"} \cup OnlyOnce
ASSUME OrdersAssumption == \A o \in Order :
    /\ o.user \in User /\ {o.source, o.target} \subseteq Planet /\ o.kind \in Kind
    /\ o.wanted \in Nat /\ o.units \in Seq([unit : Unit, count : Nat, inside : Nat,
                                            expiration : Expiration \cup {None}])
    \* inside is 0, or the item that carries it: stored_units have none of their own
    /\ \A k \in DOMAIN o.units :
          o.units[k].inside # 0 =>
              o.units[k].inside \in 1 .. k - 1 /\ o.units[o.units[k].inside].inside = 0
(* The rows of obtained_units and of missions.                             *)
Row == [user : User, unit : Unit, count : Nat \ {0}, mission : Nat \cup {None},
        source : Planet, target : Planet \cup {None}, expiration : Expiration \cup {None},
        carrier : Nat \cup {None}]
MissionRow == [user : User, type : Kind \cup {"DEPLOYED", "RETURN_MISSION"}, source : Planet,
               target : Planet, time : Nat, resolved : BOOLEAN, invisible : BOOLEAN,
               boosted : BOOLEAN, aged : BOOLEAN]

(* At first nobody travels: who is not at home is under the marker of its  *)
(* user on the planet.                                                     *)
ASSUME StartAssumption ==
    /\ None \notin Nat
    /\ BaseTime \in [Kind -> Nat] /\ DOMAIN Position = Planet
    /\ DOMAIN Rows0 \cup DOMAIN Missions0 \subseteq Nat \ {0}
    /\ IsFiniteSet(DOMAIN Rows0) /\ IsFiniteSet(DOMAIN Missions0)
    /\ Rows0 \in [DOMAIN Rows0 -> Row] /\ Missions0 \in [DOMAIN Missions0 -> MissionRow]
    /\ \A i \in DOMAIN Rows0 :
          /\ Rows0[i].carrier = None
          /\ Rows0[i].mission # None => Rows0[i].mission \in DOMAIN Missions0
                                       /\ Missions0[Rows0[i].mission].user = Rows0[i].user
    /\ \A m \in DOMAIN Missions0 :
          /\ Missions0[m].type = "DEPLOYED" /\ ~Missions0[m].resolved
          /\ \E i \in DOMAIN Rows0 : Rows0[i].mission = m
    /\ \A m, n \in DOMAIN Missions0 :
          Missions0[m].user = Missions0[n].user /\ Missions0[m].target = Missions0[n].target => m = n
ASSUME BoundsAssumption == {MaxOrders, MaxEvents} \subseteq Nat

VARIABLES
    rows,      \* obtained_units: id :> row
    missions,  \* missions: id :> row
    ids,       \* the last id given to either
    alliance,  \* alliance[u]
    special,   \* the users whose time special is active
    unlocked,  \* <<user, group>>: unlocked relations of speed impact groups
    explored,  \* <<user, planet>>
    reports,   \* mission_reports with what they say of an interception
    shot,      \* history: the rows interceptors took: id :> row
    taker,     \* history: taker[i]: whose interceptor took stack i
    expired,   \* the temporal rows that expired: id :> row
    orders, events  \* how many there were

tables == <<rows, missions, ids>>
vars == <<rows, missions, ids, alliance, special, unlocked, explored, reports, shot,
          taker, expired, orders, events>>

Init ==
    /\ rows = Rows0 /\ missions = Missions0
    /\ ids = Max({0} \cup DOMAIN Rows0 \cup DOMAIN Missions0)
    /\ alliance = Allies0 /\ special = {} /\ unlocked = {} /\ explored = Explored0
    /\ reports = {} /\ shot = <<>> /\ taker = <<>> /\ expired = <<>>
    /\ orders = 0 /\ events = 0

Owns(u, p) == Owner[p] = u

Type_(m, M) == IF m \in DOMAIN M THEN M[m].type ELSE "GONE"

Aboard(m) == {i \in DOMAIN rows : rows[i].mission = m}

Without(f, S) == [x \in DOMAIN f \ S |-> f[x]]

(* INSERT: what is there stays.                                            *)
With(f, g) == [x \in DOMAIN f \cup DOMAIN g |-> IF x \in DOMAIN f THEN f[x] ELSE g[x]]

Put(f, x, v) == With(f, [y \in {x} |-> v])

------------------------------------------------------------------------------
(* Registration.                                                           *)

IsExplored(u, p) == Owns(u, p) \/ <<u, p>> \in explored

(* The switch of the universe for all deployments.                         *)
CheckDeployAllowed(o) == o.kind = "DEPLOY" => DeployConfig # "DISALLOWED"

(* The guards of my_register_counterattack_mission, .._conquest_mission    *)
(* and .._deploy; and commonMissionRegister's own, check_deploy_allowed    *)
(* with it.  UnitMission has the limit on missions.                        *)
MayAsk(o) ==
    /\ o.kind = "COUNTERATTACK" => Owns(o.user, o.target)
    /\ o.kind = "CONQUEST" => ~Owns(o.user, o.target) /\ o.target \notin HomePlanet
    /\ o.kind = "DEPLOY" => o.source # o.target
    /\ CheckDeployAllowed(o)
    /\ o.kind # "EXPLORE" => IsExplored(o.user, o.target)

(* check_repeated_unit                                                     *)
NoRepeatedUnit(o) ==
    \A j, k \in DOMAIN o.units :
        o.units[j].unit = o.units[k].unit /\ o.units[j].expiration = o.units[k].expiration => j = k

(* find_source_obtained_unit: the stack of this unit at home, or, on a     *)
(* planet of another, among those deployed there - where the expiration    *)
(* counts only if the player names one.                                    *)
SourceStacks(R, o, item) ==
    {i \in DOMAIN R :
        /\ R[i].user = o.user /\ R[i].unit = item.unit
        /\ IF Owns(o.user, o.source)
           THEN /\ R[i].source = o.source /\ R[i].mission = None
                /\ R[i].expiration = item.expiration
           ELSE /\ R[i].target = o.source /\ Type_(R[i].mission, missions) = "DEPLOYED"
                /\ item.expiration \in {None, R[i].expiration}}

(* check_unit_can_deploy, for what is not carried.                         *)
UnitCanDeploy(o, item, row) ==
    ~ /\ item.inside = 0 /\ o.kind = "DEPLOY" /\ DeployConfig \in OnlyOnce
      /\ ~Owns(o.user, o.target) /\ Type_(row.mission, missions) = "DEPLOYED"

(* check_can_store_unit, for what is carried: a rule says who stores whom. *)
CanStoreUnit(o, item) == item.inside # 0 => <<o.units[item.inside].unit, item.unit>> \in Stores

(* saveWithSubtraction                                                     *)
Subtracted(R, i, n) ==
    IF R[i].count = n THEN Without(R, {i}) ELSE [R EXCEPT ![i].count = @ - n]

(* handle_selected_unit: one item is taken; acc.taken has the stacks that  *)
(* the items came from, as they were.                                      *)
HandleSelectedUnit(o, acc, item) ==
    LET found == SourceStacks(acc.rows, o, item)
        i == Min(found)
    IN  IF /\ acc.ok /\ found # {} /\ item.count \in 1 .. acc.rows[i].count
           /\ UnitCanDeploy(o, item, acc.rows[i])
           /\ CanStoreUnit(o, item)
        THEN [rows |-> Subtracted(acc.rows, i, item.count),
              taken |-> Append(acc.taken, acc.rows[i]), ok |-> TRUE]
        ELSE [rows |-> acc.rows, taken |-> acc.taken, ok |-> FALSE]

(* load_and_subtract_units, item by item.                                  *)
Loaded(o) ==
    LET load[k \in 0 .. Len(o.units)] ==
            IF k = 0 THEN [rows |-> rows, taken |-> <<>>, ok |-> NoRepeatedUnit(o)]
            ELSE HandleSelectedUnit(o, load[k - 1], o.units[k])
    IN  load[Len(o.units)]

(* check_total_weight                                                      *)
WeightFits(o) ==
    LET inside(k) == {j \in DOMAIN o.units : o.units[j].inside = k}
        weight(j) == Weight[o.units[j].unit] * o.units[j].count
    IN  \A k \in DOMAIN o.units :
            MapThenSumSet(weight, inside(k)) <= Capacity[o.units[k].unit] * o.units[k].count

(* check_units_can_do_mission, on the stacks as they were: none of them is *)
(* carried there, so the group of the cargo counts too.                    *)
CheckUnitsCanDoMission(o, taken) ==
    \A k \in DOMAIN taken :
        LET unit == taken[k].unit
            owned == Owns(o.user, o.target)
        IN  /\ MissionSupportAllows(Support[TypeOf[unit]][o.kind], owned)
            /\ taken[k].carrier = None /\ UnitGroup[unit] # None =>
                   MissionSupportAllows(Support[UnitGroup[unit]][o.kind], owned)

(* check_cross_galaxy: to leave the galaxy a group needs an explicit       *)
(* policy and, if it has a relation, its unlock.                           *)
CheckCrossGalaxy(o, taken) ==
    Position[o.source].galaxy # Position[o.target].galaxy =>
        \A k \in DOMAIN taken :
            LET group == ResolveUnitSpeedGroup(taken[k].unit)
            IN  taken[k].carrier = None /\ group # None =>
                    /\ SpeedGroupCanDoMission(group, o.kind, Owns(o.user, o.target))
                    /\ group \in Related => <<o.user, group>> \in unlocked

(* Mutant of OrphansResolved: whatever else is left there.                 *)
EmptiedResolved(M, emptied, left) ==
    [m \in DOMAIN M |-> IF m \in emptied THEN [M[m] EXCEPT !.resolved = TRUE] ELSE M[m]]

(* mark_orphan_missions_resolved: of the markers a stack was taken from    *)
(* whole, those that have no other.                                        *)
OrphansResolved(M, emptied, left) ==
    [m \in DOMAIN M |->
        IF m \in emptied /\ \A i \in DOMAIN left : left[i].mission # m
        THEN [M[m] EXCEPT !.resolved = TRUE] ELSE M[m]]

NewMission(user, type, source, target, time) ==
    [user |-> user, type |-> type, source |-> source, target |-> target, time |-> time,
     resolved |-> FALSE, invisible |-> FALSE, boosted |-> FALSE, aged |-> FALSE]

(* configure_obtained_unit, for the k-th stack of an order; main units are *)
(* written before what they carry.                                         *)
Traveller(o, k, m, was) ==
    [user |-> o.user, unit |-> o.units[k].unit, count |-> o.units[k].count, mission |-> m,
     source |-> o.source, target |-> o.target, expiration |-> was.expiration,
     carrier |-> IF o.units[k].inside = 0 THEN None ELSE m + o.units[k].inside]

(* A player may ask for more time than the units take, not for less.       *)
HandleCustomDuration(o, required) == IF o.wanted > required THEN o.wanted ELSE required

(* handle_define_mission_as_invisible: one unit that is seen shows all.    *)
DefinedAsInvisible(o) ==
    \A k \in DOMAIN o.units : IsHiddenUnit(o.user \in special, o.units[k].unit)

(* do_common_mission_register, one transaction under the locks of the two  *)
(* planets; boosted is history: whether an improvement counted.            *)
Register(o) ==
    LET from == Loaded(o)
        m == ids + 1
        active == o.user \in special
        aboard == [i \in m + 1 .. m + Len(o.units) |-> Traveller(o, i - m, m, from.taken[i - m])]
        crew == {[unit |-> aboard[i].unit, carrier |-> aboard[i].carrier, id |-> i] :
                     i \in DOMAIN aboard}
        required == RequiredTime(crew, active, o.kind, o.source, o.target)
        emptied == {from.taken[k].mission : k \in {j \in DOMAIN o.units :
                        from.taken[j].count = o.units[j].count}} \ {None}
        asked == [NewMission(o.user, o.kind, o.source, o.target, HandleCustomDuration(o, required))
                  EXCEPT !.boosted = active /\ Paced(crew) # {}
                                     /\ SpeedImprovement(crew, active) # 0]
    IN  /\ orders < MaxOrders /\ orders' = orders + 1
        /\ MayAsk(o)
        /\ from.ok /\ WeightFits(o)
        /\ CheckUnitsCanDoMission(o, from.taken)
        /\ CheckCrossGalaxy(o, from.taken)
        /\ rows' = With(from.rows, aboard)
        /\ missions' = Put(OrphansResolved(missions, emptied, from.rows), m,
                           [asked EXCEPT !.invisible = DefinedAsInvisible(o)])
        /\ ids' = m + Len(o.units)
        /\ UNCHANGED <<alliance, special, unlocked, explored, reports, shot, taker,
                       expired, events>>

------------------------------------------------------------------------------
(* The arrival.                                                            *)

(* findInvolvedInAttack: who defends the planet.                           *)
FindInvolvedInAttack(p) ==
    {i \in DOMAIN rows :
        \/ rows[i].mission = None /\ rows[i].source = p
        \/ /\ rows[i].target = p
           /\ \/ Type_(rows[i].mission, missions) = "DEPLOYED"
              \/ Type_(rows[i].mission, missions) = "CONQUEST" /\ missions[rows[i].mission].aged}

(* Mutant of InterceptedAs: cargo is taken for what it is itself.          *)
InterceptedAlone(i) == rows[i].unit

(* determineTargetUnit: cargo is intercepted as its carrier is, if that is *)
(* still there.                                                            *)
InterceptedAs(i) ==
    IF rows[i].carrier \in DOMAIN rows THEN rows[rows[i].carrier].unit ELSE rows[i].unit

CanIntercept(d, i) ==
    /\ FindApplicable(rows[i].user \in special, InterceptedAs(i)) \in Intercepts[rows[d].unit]
    /\ AreEnemies(rows[d].user, rows[i].user, alliance)

(* Mutant of Interceptions: what one interceptor took the next takes too.  *)
InterceptionsAgain(m) ==
    {x \in FindInvolvedInAttack(missions[m].target) \X Aboard(m) : CanIntercept(x[1], x[2])}

(* check_intercepts_speed_impact_group: pairs of a defender and a stack it *)
(* takes, which is the first that can, in the order of the rows.           *)
Interceptions(m) ==
    {x \in FindInvolvedInAttack(missions[m].target) \X Aboard(m) :
        /\ CanIntercept(x[1], x[2])
        /\ \A d \in FindInvolvedInAttack(missions[m].target) :
               CanIntercept(d, x[2]) => x[1] <= d}

(* load_information: nothing stops who returns; of the others the stacks   *)
(* taken are deleted at once.                                              *)
TakenFrom(m) == IF missions[m].type = "RETURN_MISSION" THEN {} ELSE Interceptions(m)

Shot(taken) == {x[2] : x \in taken}

(* The user of the first defender that can take it takes a stack.          *)
TakerOf(taken, i) == rows[(CHOOSE x \in taken : x[2] = i)[1]].user

(* build_interception_info_json: one block for each user that intercepted, *)
(* with an entry for each stack of theirs; that is null, for the rows are  *)
(* deleted by now, so a block says how many there were and no more.        *)
InterceptionInfo(taken) ==
    [u \in {rows[x[1]].user : x \in taken} |-> Cardinality({x \in taken : rows[x[1]].user = u})]

(* The owner's report has all blocks, and of the involved stacks those     *)
(* whose rows are still there (obtained_units_to_report_dtos,              *)
(* involved_units_to_dtos); each interceptor gets one with the own block   *)
(* and stack, which the program does not link to the mission.              *)
InterceptionReports(m, taken) ==
    LET info == InterceptionInfo(taken)
    IN  IF taken = {} THEN {}
        ELSE {[mission |-> m, to |-> missions[m].user, enemy |-> FALSE,
               involved |-> Aboard(m) \ Shot(taken), info |-> info]} \cup
             {[mission |-> m, to |-> u, enemy |-> TRUE,
               involved |-> {Min({x[1] : x \in {y \in taken : rows[y[1]].user = u}})},
               info |-> [v \in {u} |-> info[v]]] : u \in DOMAIN info}

(* Mutant of Joined: the stack that was there keeps its count.             *)
JoinedForgets(R, i, there, rest) ==
    IF there # {} THEN Without(R, {i}) ELSE [R EXCEPT ![i] = rest]

(* saveWithAdding: stack i is added to one of those there, or becomes rest *)
Joined(R, i, there, rest) ==
    IF there # {}
    THEN LET j == Min(there) IN Without([R EXCEPT ![j].count = @ + R[i].count], {i})
    ELSE [R EXCEPT ![i] = rest]

Like(R, i, j) ==
    i # j /\ R[i].user = R[j].user /\ R[i].unit = R[j].unit /\ R[i].expiration = R[j].expiration

(* move_unit_to_planet                                                     *)
MoveUnitToPlanet(R, i, p) ==
    Joined(R, i,
           {j \in DOMAIN R : /\ Like(R, i, j) /\ R[j].source = p
                             /\ R[j].mission = None /\ R[j].carrier = None},
           [R[i] EXCEPT !.source = p, !.target = None, !.mission = None, !.carrier = None])

(* move_unit_to_foreign_planet with find_or_create_deployed_mission, on    *)
(* [rows, missions, ids].                                                  *)
MoveUnitToForeignPlanet(T, i, p) ==
    LET user == T.rows[i].user
        Deployed(j) == T.rows[j].target = p /\ Type_(T.rows[j].mission, T.missions) = "DEPLOYED"
        there == {j \in DOMAIN T.rows : Like(T.rows, i, j) /\ Deployed(j)}
        markers == {m \in DOMAIN T.missions :
                       /\ T.missions[m].user = user /\ T.missions[m].type = "DEPLOYED"
                       /\ T.missions[m].target = p /\ ~T.missions[m].resolved}
        made == there = {} /\ markers = {}
        marker == IF markers = {} THEN T.ids + 1 ELSE Min(markers)
    IN  [rows |-> Joined(T.rows, i, there,
                         [T.rows[i] EXCEPT !.target = p, !.mission = marker, !.carrier = None]),
         missions |-> IF made
                      THEN Put(T.missions, marker,
                               NewMission(user, "DEPLOYED", T.rows[i].source, p, 0))
                      ELSE T.missions,
         ids |-> IF made THEN T.ids + 1 ELSE T.ids]

MoveUnit(T, user, i, p) ==
    IF Owns(user, p)
    THEN [rows |-> MoveUnitToPlanet(T.rows, i, p), missions |-> T.missions, ids |-> T.ids]
    ELSE MoveUnitToForeignPlanet(T, i, p)

(* The stacks of mission m go to p, one by one.                            *)
Moved(T, m, p) ==
    LET units == {i \in DOMAIN T.rows : T.rows[i].mission = m}
        move[n \in 0 .. T.ids] ==
            IF n = 0 THEN T
            ELSE IF n \in units THEN MoveUnit(move[n - 1], missions[m].user, n, p) ELSE move[n - 1]
    IN  move[T.ids]

Becomes(T) == rows' = T.rows /\ missions' = T.missions /\ ids' = T.ids

(* What the units that were not intercepted do; UnitMission and Combat     *)
(* have the other kinds.                                                   *)
Explore(T, m) ==
    LET back == T.ids + 1
        gone == {i \in DOMAIN T.rows : T.rows[i].mission = m}
    IN  /\ explored' = IF Owns(missions[m].user, missions[m].target) THEN explored
                       ELSE explored \cup {<<missions[m].user, missions[m].target>>}
        \* register_return_mission
        /\ Becomes([rows |-> [i \in DOMAIN T.rows |->
                                 IF i \in gone THEN [T.rows[i] EXCEPT !.mission = back]
                                 ELSE T.rows[i]],
                    missions |-> Put(T.missions, back,
                        [missions[m] EXCEPT !.type = "RETURN_MISSION", !.resolved = FALSE]),
                    ids |-> back])

Deploy(T, m) == Becomes(Moved(T, m, missions[m].target)) /\ UNCHANGED explored

ReturnMission(T, m) == Becomes(Moved(T, m, missions[m].source)) /\ UNCHANGED explored

(* do_run_unit_mission for the kinds above.  Only a mission that makes a   *)
(* report, or that was stopped altogether, tells what was intercepted.     *)
Arrive(m) ==
    LET taken == TakenFrom(m)
        T == [rows |-> Without(rows, Shot(taken)),
              missions |-> [missions EXCEPT ![m].resolved = TRUE], ids |-> ids]
        stopped == missions[m].type # "RETURN_MISSION" /\ Cardinality(taken) = Cardinality(Aboard(m))
    IN  /\ ~missions[m].resolved
        /\ missions[m].type \in {"EXPLORE", "DEPLOY", "RETURN_MISSION"}
        /\ shot' = With(shot, [i \in Shot(taken) |-> rows[i]])
        /\ taker' = With(taker, [i \in Shot(taken) |-> TakerOf(taken, i)])
        /\ reports' = IF stopped \/ missions[m].type = "EXPLORE"
                      THEN reports \cup InterceptionReports(m, taken) ELSE reports
        /\ \/ stopped /\ Becomes(T) /\ UNCHANGED explored
           \/ ~stopped /\ missions[m].type = "EXPLORE" /\ Explore(T, m)
           \/ ~stopped /\ missions[m].type = "DEPLOY" /\ Deploy(T, m)
           \/ missions[m].type = "RETURN_MISSION" /\ ReturnMission(T, m)
        /\ UNCHANGED <<alliance, special, unlocked, expired, orders, events>>

------------------------------------------------------------------------------
(* What happens meanwhile.                                                 *)
Event == events < MaxEvents /\ events' = events + 1

(* A tenth of a conquest's time has gone by.                               *)
Age(m) ==
    /\ missions[m].type = "CONQUEST" /\ ~missions[m].resolved /\ ~missions[m].aged
    /\ missions' = [missions EXCEPT ![m].aged = TRUE]
    /\ UNCHANGED <<rows, ids, alliance, special, unlocked, explored, reports, shot, taker,
                   expired, orders, events>>

ToggleSpecial(u) ==
    /\ Event
    /\ special' = IF u \in special THEN special \ {u} ELSE special \cup {u}
    /\ UNCHANGED <<tables, alliance, unlocked, explored, reports, shot, taker, expired, orders>>

(* The requirement engine gives or takes the relation of a group: Unlocks. *)
Regroup(permit) ==
    /\ Event
    /\ unlocked' = IF permit \in unlocked THEN unlocked \ {permit} ELSE unlocked \cup {permit}
    /\ UNCHANGED <<tables, alliance, special, explored, reports, shot, taker, expired, orders>>

(* Joining an alliance or leaving it: Accounts.                            *)
Ally(u, a) ==
    /\ Event
    /\ alliance[u] # a /\ alliance' = [alliance EXCEPT ![u] = a]
    /\ UNCHANGED <<tables, special, unlocked, explored, reports, shot, taker, expired, orders>>

(* do_delete_expired, one transaction under the locks of the planets:      *)
(* Unlocks has how it takes them.                                          *)
Expire(e) ==
    LET gone == {i \in DOMAIN rows : rows[i].expiration = e}
        left == Without(rows, gone)
        emptied == {m \in {rows[i].mission : i \in gone} \ {None} :
                       \A i \in DOMAIN left : left[i].mission # m}
    IN  /\ gone # {}
        /\ expired' = With(expired, [i \in gone |-> rows[i]])
        /\ rows' = left
        /\ missions' = Without(missions, emptied)
        /\ UNCHANGED <<ids, alliance, special, unlocked, explored, reports, shot, taker, orders,
                       events>>

Next ==
    \/ \E o \in Order : Register(o)
    \/ \E m \in DOMAIN missions : Arrive(m) \/ Age(m)
    \/ \E u \in User : ToggleSpecial(u)
    \/ \E permit \in Permits : Regroup(permit)
    \/ \E u \in User, a \in {Allies0[v] : v \in User} \cup {None} : Ally(u, a)
    \/ \E e \in Expiration : Expire(e)

Spec == Init /\ [][Next]_vars

------------------------------------------------------------------------------
InFlight(m) == ~missions[m].resolved /\ missions[m].type # "DEPLOYED"

(* What a carrier carries shares its fate: whoever is said to be carried   *)
(* is on the mission of the carrier, and the carrier is still there unless *)
(* it expired (load_information, move_unit_to_planet).                     *)
CargoStaysAboard ==
    \A i \in DOMAIN rows : rows[i].carrier # None =>
        \/ rows[i].carrier \in DOMAIN expired
        \/ /\ rows[i].carrier \in DOMAIN rows
           /\ rows[rows[i].carrier].mission = rows[i].mission

(* What interceptors of u took of the units of mission m.                  *)
LostTo(u, m) == {i \in DOMAIN shot : taker[i] = u /\ shot[i].mission = m}

(* The reports of an interception count what was taken, each stack once    *)
(* and for the user whose unit took it; and of a stack that interceptors   *)
(* took are told, with one report each, who lost it and that user, an      *)
(* enemy - save what a DEPLOY lost: when the rest of it arrives nobody is  *)
(* told (handle_mission_interception, maybe_append_data_to_mission_report).*)
InterceptionsAreReported ==
    /\ \A r \in reports : \A u \in DOMAIN r.info :
           r.info[u] = Cardinality(LostTo(u, r.mission))
    /\ \A i \in DOMAIN shot :
           LET m == shot[i].mission
               about == {r \in reports : r.mission = m /\ taker[i] \in DOMAIN r.info}
           IN  \/ missions[m].type = "DEPLOY" /\ about = {}
               \/ /\ Cardinality(about) = 2 /\ shot[i].user # taker[i]
                  /\ {<<r.to, r.enemy>> : r \in about} =
                         {<<shot[i].user, FALSE>>, <<taker[i], TRUE>>}

(* A known gap, which no run checks: the owner's report does not show the  *)
(* units "as they were before interception removal"                        *)
(* (mission_interception_manager_bo.rs:117).                               *)
ReportsShowTheFleet ==
    \A r \in reports : ~r.enemy => {i \in DOMAIN shot : shot[i].mission = r.mission} \subseteq r.involved

(* No unit appears or vanishes on its travels: what a user has of a unit,  *)
(* with what interceptors took and what expired, is what there was at      *)
(* first (saveWithSubtraction, saveWithAdding, deleteAll).                 *)
UnitsAccountedFor ==
    \A u \in User, unit \in Unit :
        LET count(R) == [i \in DOMAIN R |-> R[i].count]
            amount(R) == MapThenSumSet(LAMBDA i : count(R)[i],
                             {i \in DOMAIN R : R[i].user = u /\ R[i].unit = unit})
        IN  amount(rows) + amount(shot) + amount(expired) = amount(Rows0)

(* The units a player keeps on a foreign planet are under one open         *)
(* DEPLOYED mission, and there is no such mission without units            *)
(* (find_or_create_deployed_mission, mark_orphan_missions_resolved,        *)
(* deleteNonUnitsLeftMissions).                                            *)
MarkersHoldUnits ==
    /\ \A m \in DOMAIN missions : missions[m].type = "DEPLOYED" =>
           (~missions[m].resolved <=> Aboard(m) # {})
    /\ \A m, n \in DOMAIN missions :
           /\ {missions[m].type, missions[n].type} = {"DEPLOYED"}
           /\ ~missions[m].resolved /\ ~missions[n].resolved
           /\ missions[m].user = missions[n].user /\ missions[m].target = missions[n].target
           => m = n

(* A fleet is never faster than any unit in it, carried or not, would be   *)
(* on its own - unless an improvement counted, and units of fixed groups   *)
(* apart (handle_mission_time_calculation, handle_custom_duration).        *)
NobodyOutrunsTheFleet ==
    \A m \in DOMAIN missions : \A i \in Aboard(m) :
        InFlight(m) /\ ~missions[m].boosted /\ Speed[rows[i].unit] > 0
                    /\ UnitGroup[rows[i].unit] \notin FixedGroup =>
            missions[m].time >=
                CalculateTimeUsingSpeed(
                    BaseTime[IF missions[m].type = "RETURN_MISSION" THEN "EXPLORE"
                             ELSE missions[m].type],
                    100 * Speed[rows[i].unit],
                    Position[missions[m].source], Position[missions[m].target])
================================================================================
