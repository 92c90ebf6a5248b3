---------------------------------- MODULE Sync ----------------------------------
(***************************************************************************)
(* What the browser of a player shows and what the database holds:         *)
(* websocket/emitter.rs, websocket/sync.rs, owge-rest/src/socketio.rs and  *)
(* the emitters of the bo/ modules, with the cache of the game frontend    *)
(* (ws-event-cache.service.ts, websocket.service.ts).                      *)
(*                                                                         *)
(* An operation commits and then, in steps of its own, emits: for every    *)
(* key whose view it changed it saves a watermark (last_sent), computes    *)
(* the view if the player is connected, and delivers it.  A browser that   *)
(* reconnects compares the watermarks with those it has seen and fetches   *)
(* the views whose watermark differs.                                      *)
(*                                                                         *)
(* A last_sent is the second in which the send began, and is compared for  *)
(* equality only; the seconds in which a key was sent are numbered from 1. *)
(* Two sends of a key may be of one second, and one may be saved after     *)
(* another that began later.  Each player of Client has one browser; what  *)
(* is saved for the others is read by nobody and is left out.  A view has  *)
(* the missions and planets a payload lists, without the copies of other   *)
(* rows embedded in them.                                                  *)
(***************************************************************************)
EXTENDS Integers, Sequences, FiniteSets, SequencesExt

CONSTANTS
    User, Planet, Client, Worker,
    Home,       \* the planets nobody can take or leave
    NoUser,     \* planets.owner is NULL
    Nothing,    \* no information of a key, no view
    Orders,     \* the fleets that may be sent: source, target, visible
    Yards,      \* the planets where something is built or that are listed
    Start,      \* the tables a behaviour starts with: owner, mission, listed, explored
    MaxOps,     \* how many operations commit
    MaxEvents   \* operations, connections, faults (lost emits, failed, skipped
                \* and abandoned fetches) and sends of one second together

Key == {"unit_mission_change", "enemy_mission_change", "unit_build_mission_change",
        "planet_owned_change", "planet_user_list_change"}

UnitKinds == {"trip", "return", "deployed"}

Mission == [user : User, kind : UnitKinds \cup {"build"}, source : Planet, target : Planet,
            visible : BOOLEAN]

ASSUME SyncAssumption ==
    /\ IsFiniteSet(User) /\ Client \subseteq User
    /\ NoUser \notin User /\ Nothing \notin Nat
    /\ Yards \subseteq Planet /\ Orders \subseteq Planet \X Planet \X BOOLEAN

(* A behaviour starts with tables as the operations leave them: the ids    *)
(* that follow are new, and a fleet has no marker on a planet of its owner *)
(* (see Deploy).                                                           *)
ASSUME StartAssumption ==
    \A t \in Start :
        /\ t.owner \in [Planet -> User \cup {NoUser}]
        /\ t.listed \in [User -> SUBSET Planet] /\ t.explored \in [User -> SUBSET Planet]
        /\ \A m \in DOMAIN t.mission :
              /\ m \in Int /\ m <= 0 /\ t.mission[m] \in Mission
              /\ t.mission[m].kind = "deployed"
                    => t.owner[t.mission[m].target] # t.mission[m].user

VARIABLES
    owner,      \* planets.owner
    mission,    \* id -> [user, kind, source, target, visible], those not resolved
    listed,     \* planet_list: the planets in the list of a player
    explored,   \* explored_planets
    watermark,  \* websocket_events_information.last_sent, 0 without a row
    token,      \* the last second in which a key of a player was sent
    job,        \* per worker: what it has to emit, and how far it is
    room,       \* the players with an authenticated socket (the registry)
    phase,      \* of a browser: "off", "asking", "fetching", "ready" or "deaf"
    trusts,     \* the browsers with _isAuthenticated
    wire,       \* the messages on their way or in the buffer of a browser
    reply,      \* the watermarks the server sent after the authentication
    fetch,      \* the websocket-sync request: keys, those not done, data, tokens
    store,      \* the views a browser has
    info,       \* the tokens it has seen
    untold,     \* ghost: the views that changed since their watermark was last saved
    crowded,    \* ghost: the views whose watermark is a second of two saves
    silent,     \* ghost: the views whose change the code does not announce
    lapsed,     \* ghost: the keys a browser saw change and did not fetch
    ops,        \* how many operations have committed, of MaxOps
    events      \* what has happened, of MaxEvents

tables == <<owner, mission, listed, explored>>
browser == <<room, phase, trusts, wire, reply, fetch, store, info, lapsed>>
sends == <<watermark, token, crowded, untold, silent>>
vars == <<tables, browser, sends, job, ops, events>>

------------------------------------------------------------------------------
(* The views.                                                              *)

MissionsOf(u, kinds) == {m \in DOMAIN mission : mission[m].user = u /\ mission[m].kind \in kinds}

UnitMissions(u) == MissionsOf(u, UnitKinds)

BuildMissions(u) == MissionsOf(u, {"build"})

(* The visible missions of others on their way to, or at, its planets.     *)
Threats(u) ==
    {m \in DOMAIN mission : /\ mission[m].kind \in UnitKinds /\ mission[m].visible
                            /\ mission[m].user # u /\ owner[mission[m].target] = u}

IsExplored(u, p) == p \in explored[u]

(* The source of a mission is hidden from who has not explored it.         *)
EnemyMissions(u) == {<<m, IsExplored(u, mission[m].source)>> : m \in Threats(u)}

OwnedPlanets(u) == {p \in Planet : owner[p] = u}

ListedPlanets(u) == {<<p, IF IsExplored(u, p) THEN owner[p] ELSE Nothing>> : p \in listed[u]}

Dispatch(u, k) ==
    CASE k = "unit_mission_change" -> UnitMissions(u)
      [] k = "enemy_mission_change" -> EnemyMissions(u)
      [] k = "unit_build_mission_change" -> BuildMissions(u)
      [] k = "planet_owned_change" -> OwnedPlanets(u)
      [] k = "planet_user_list_change" -> ListedPlanets(u)

------------------------------------------------------------------------------
(* The operations: what they commit, and what they emit afterwards, in     *)
(* their order.                                                            *)

UnitMissionChange(u) == <<"send", u, "unit_mission_change">>

EnemyMissionChange(u) == <<"send", u, "enemy_mission_change">>

UnitBuildChange(u) == <<"send", u, "unit_build_mission_change">>

PlanetOwnedChange(u) == <<"send", u, "planet_owned_change">>

PlanetUserListChange(u) == <<"send", u, "planet_user_list_change">>

(* Those whose recipients are looked up when they are done: a mission, the *)
(* owner of a planet unless it is u, the holders of a planet in a list.    *)
LocalChange(r) == <<"local", r>>

OwnerChange(p, u) == <<"owner", p, u>>

HoldersChange(p) == <<"holders", p>>

Resting(w) == job[w].at = "rest"

(* Operations, connections, faults and coincidences share one bound.       *)
Happens == events < MaxEvents /\ events' = events + 1

(* Commit the tables (the caller primes them) and start to emit.  The      *)
(* worker has nothing else to emit (see Next).                             *)
Commit(w, todo, silence) ==
    /\ Happens /\ ops' = ops + 1
    /\ job' = [job EXCEPT ![w] = [@ EXCEPT !.todo = todo,
                                           !.at = IF todo = <<>> THEN "rest" ELSE "emit"]]
    /\ silent' = silent \cup silence
    /\ untold' = untold \cup {uk \in User \X Key : Dispatch(uk[1], uk[2])' # Dispatch(uk[1], uk[2])}
    /\ UNCHANGED <<browser, watermark, token, crowded>>

NewId == ops + 1

Put(f, x, v) == [y \in DOMAIN f \cup {x} |-> IF y = x THEN v ELSE f[y]]

Over(f, g) == [y \in DOMAIN f \cup DOMAIN g |-> IF y \in DOMAIN f THEN f[y] ELSE g[y]]

(* The missions S are over, and r takes their place.                       *)
Without(S) == [m \in DOMAIN mission \ S |-> mission[m]]

Instead(S, r) == Put(Without(S), NewId, r)

Enemy(u, p) == {v \in {owner[p]} : v \notin {u, NoUser}}

(* The mission on the way of which r was a leg, as it goes on.             *)
Leg(r, kind) == [r EXCEPT !.kind = kind]

(* A fleet leaves a planet of its own or one it is stationed at, maybe the *)
(* last of its units there.                                                *)
RegisterMission(w, u, p, q, visible) ==
    LET trip == [user |-> u, kind |-> "trip", source |-> p, target |-> q, visible |-> visible]
        stationed == {m \in MissionsOf(u, {"deployed"}) : mission[m].target = p}
    IN  /\ p # q /\ (owner[p] = u \/ stationed # {})
        /\ \E emptied \in SUBSET stationed : mission' = Instead(emptied, trip)
        /\ UNCHANGED <<owner, listed, explored>>
        /\ Commit(w, <<LocalChange(trip), OwnerChange(p, u)>>, {})

(* my_cancel_mission tells the player alone: the return mission has the    *)
(* same target, and its owner keeps the mission that is gone.              *)
CancelMission(w, m) ==
    LET r == mission[m]
    IN  /\ r.kind \in {"trip", "deployed"}
        /\ mission' = Instead({m}, Leg(r, "return"))
        /\ UNCHANGED <<owner, listed, explored>>
        /\ Commit(w, <<UnitMissionChange(r.user)>>,
                  {<<v, "enemy_mission_change">> :
                      v \in IF r.visible THEN Enemy(r.user, r.target) ELSE {}})

(* Of a planet explored now, the list and the sources of enemies show more *)
(* and nobody says so.                                                     *)
Explore(w, m) ==
    LET r == mission[m]
        back == Leg(r, "return")
    IN  /\ r.kind = "trip"
        /\ mission' = Instead({m}, back)
        /\ explored' = [explored EXCEPT ![r.user] = @ \cup {r.target}]
        /\ UNCHANGED <<owner, listed>>
        /\ Commit(w, <<LocalChange(back)>>,
                  {<<r.user, k>> : k \in {"planet_user_list_change", "enemy_mission_change"}})

(* What a fight at the target of r does to others: the markers of wiped    *)
(* garrisons go, and the players who lost a stack or a part of it are      *)
(* changed: nobody but the wiped ones, or everybody.                       *)
Fights(r) ==
    LET others == {n \in DOMAIN mission : /\ mission[n].kind = "deployed"
                                          /\ mission[n].target = r.target
                                          /\ mission[n].user # r.user}
        foes == {mission[n].user : n \in others} \cup Enemy(r.user, r.target)
    IN  {[lost |-> L, changed |-> {mission[n].user : n \in L}] : L \in SUBSET others}
        \cup {[lost |-> L, changed |-> foes \cup {r.user}] :
                 L \in IF foes = {} THEN {} ELSE SUBSET others}

(* The DeferredEmit::Attack of a fight, told by the owner at that time.    *)
FightEmits(r, f, removed) ==
    LET v == owner[r.target]
        deleted == {mission[n].user : n \in f.lost}
        changed == f.changed \ deleted
    IN  SetToSeq({UnitMissionChange(u) : u \in deleted})
        \o SetToSeq({UnitMissionChange(u) : u \in changed \ {v}})
        \o (IF v \in changed /\ (deleted # {} \/ Cardinality(changed) > 1)
            THEN <<OwnerChange(r.target, NoUser)>> ELSE <<>>)
        \o (IF v \in changed THEN <<UnitMissionChange(v)>> ELSE <<>>)
        \o (IF removed \/ (v # NoUser /\ deleted # {}) THEN <<LocalChange(r)>> ELSE <<>>)

(* The owner is not told that garrisons of others are gone from its planet *)
(* when the fleet is not announced to it and it lost nothing itself.       *)
FightSilence(r, f) ==
    {<<v, "enemy_mission_change">> :
        v \in {owner[r.target]} \ (f.changed \cup {NoUser}
                                  \cup IF f.lost = {} THEN User
                                       ELSE IF r.visible THEN User \ {r.user} ELSE {})}

(* process_attack with survivors_do_return; a fleet that is wiped where it *)
(* gathers, settles or conquers ends the same way.                         *)
Attack(w, m) ==
    LET r == mission[m]
        back == Leg(r, "return")
    IN  /\ r.kind = "trip"
        /\ UNCHANGED <<owner, listed, explored>>
        /\ \E f \in Fights(r), removed \in BOOLEAN :
              /\ removed => r.user \in f.changed
              /\ mission' = IF removed THEN Without({m} \cup f.lost)
                            ELSE Instead({m} \cup f.lost, back)
              /\ Commit(w, (IF removed THEN <<>> ELSE <<LocalChange(back)>>)
                           \o FightEmits(r, f, removed), FightSilence(r, f))

(* gather, a base or a conquest that fails after its fight, a give-up.     *)
FlyHome(w, m) ==
    LET r == mission[m]
        back == Leg(r, "return")
    IN  /\ r.kind = "trip"
        /\ UNCHANGED <<owner, listed, explored>>
        /\ \E f \in Fights(r) :
              /\ mission' = Instead({m} \cup f.lost, back)
              /\ Commit(w, FightEmits(r, f, FALSE) \o <<LocalChange(back)>>,
                        FightSilence(r, f))

(* Mutant of Deploy: the emit that reads the row after the run is missing. *)
DeployQuietly(w, m) ==
    LET r == mission[m]
    IN  /\ r.kind = "trip"
        /\ mission' = Instead({m}, [Leg(r, "deployed") EXCEPT !.visible = TRUE])
        /\ UNCHANGED <<owner, listed, explored>>
        /\ Commit(w, <<UnitMissionChange(r.user)>>, {})

(* The marker is visible even if the fleet was not, and then nobody hears  *)
(* of it; the units may join an older marker.                              *)
Deploy(w, m) ==
    LET r == mission[m]
        marker == [Leg(r, "deployed") EXCEPT !.visible = TRUE]
        older == {n \in MissionsOf(r.user, {"deployed"}) : mission[n].target = r.target}
    IN  /\ r.kind = "trip"
        /\ mission' = IF older = {} /\ owner[r.target] # r.user
                      THEN Instead({m}, marker) ELSE Without({m})
        /\ UNCHANGED <<owner, listed, explored>>
        /\ Commit(w, <<LocalChange(r)>>,
                  {<<v, "enemy_mission_change">> :
                      v \in IF r.visible THEN {} ELSE Enemy(r.user, r.target)})

(* A return mission lands, or a fleet is wholly intercepted.               *)
EndMission(w, m) ==
    LET r == mission[m]
    IN  /\ r.kind \in {"trip", "return"}
        /\ mission' = Without({m})
        /\ UNCHANGED <<owner, listed, explored>>
        /\ Commit(w, <<LocalChange(r)>>, {})

(* A failed run that is tried again.                                       *)
RetryMission(w, m) ==
    LET r == mission[m]
    IN  /\ r.kind # "deployed"
        /\ UNCHANGED tables
        /\ Commit(w, IF r.kind = "build" THEN <<UnitBuildChange(r.user)>>
                     ELSE <<UnitMissionChange(r.user), OwnerChange(r.target, r.user)>>, {})

(* definePlanetAsOwnedBy: DeferredEmit::ConquestSuccess.                   *)
ConquestSuccess(new, p, old) ==
    <<PlanetOwnedChange(new), EnemyMissionChange(new), HoldersChange(p)>>
    \o IF old = NoUser THEN <<>>
       ELSE <<PlanetOwnedChange(old), EnemyMissionChange(old)>>

(* The markers of the new owner go with its units.                         *)
Settled(u, p) == {m \in MissionsOf(u, {"deployed"}) : mission[m].target = p}

(* The fight, if any, was with the fleets of others over a free planet.    *)
EstablishBase(w, m) ==
    LET r == mission[m]
    IN  /\ r.kind = "trip" /\ owner[r.target] = NoUser
        /\ owner' = [owner EXCEPT ![r.target] = r.user]
        /\ UNCHANGED <<listed, explored>>
        /\ \E f \in Fights(r) :
              /\ mission' = Without({m} \cup f.lost \cup Settled(r.user, r.target))
              /\ Commit(w, FightEmits(r, f, FALSE) \o <<LocalChange(r)>>
                           \o ConquestSuccess(r.user, r.target, NoUser), {})

(* The build of the old owner on the planet is cancelled first.            *)
Conquer(w, m) ==
    LET r == mission[m]
        old == owner[r.target]
        builds == {b \in BuildMissions(old) : mission[b].source = r.target}
    IN  /\ r.kind = "trip" /\ r.target \notin Home /\ old # r.user
        /\ owner' = [owner EXCEPT ![r.target] = r.user]
        /\ UNCHANGED <<listed, explored>>
        /\ \E f \in Fights(r) :
              /\ mission' = Without({m} \cup f.lost \cup builds \cup Settled(r.user, r.target))
              /\ Commit(w, (IF builds = {} THEN <<>>
                            ELSE <<UnitBuildChange(old)>>)
                           \o FightEmits(r, f, FALSE)
                           \o ConquestSuccess(r.user, r.target, old) \o <<LocalChange(r)>>, {})

(* Temporal units of the missions S expire; gone had no others.  Whose     *)
(* planets they head for is read before the missions are deleted.          *)
ExpireUnits(w, u) ==
    \E S \in (SUBSET UnitMissions(u)) \ {{}} :
        /\ \E gone \in SUBSET S : mission' = Without(gone)
        /\ UNCHANGED <<owner, listed, explored>>
        /\ Commit(w, <<UnitMissionChange(u)>>
                     \o SetToSeq({EnemyMissionChange(v) :
                           v \in {owner[mission[m].target] : m \in S} \ {u, NoUser}}), {})

(* One build at a time on a planet.                                        *)
RegisterBuild(w, u, p) ==
    /\ owner[p] = u
    /\ \A m \in BuildMissions(u) : mission[m].source # p
    /\ mission' = Instead({}, [user |-> u, kind |-> "build", source |-> p, target |-> p,
                               visible |-> TRUE])
    /\ UNCHANGED <<owner, listed, explored>>
    /\ Commit(w, <<UnitBuildChange(u)>>, {})

(* Completed, cancelled or given up.                                       *)
EndBuild(w, m) ==
    LET r == mission[m]
    IN  /\ r.kind = "build"
        /\ mission' = Without({m})
        /\ UNCHANGED <<owner, listed, explored>>
        /\ Commit(w, <<UnitBuildChange(r.user)>>, {})

CanLeavePlanet(u, p) ==
    /\ p \notin Home /\ owner[p] = u
    /\ \A m \in BuildMissions(u) : mission[m].source # p

(* Nobody tells the one who leaves that the missions on their way there    *)
(* are no longer its enemies.                                              *)
LeavePlanet(w, u, p) ==
    /\ CanLeavePlanet(u, p)
    /\ owner' = [owner EXCEPT ![p] = NoUser]
    /\ UNCHANGED <<mission, listed, explored>>
    /\ Commit(w, <<HoldersChange(p), PlanetOwnedChange(u)>>, {<<u, "enemy_mission_change">>})

AddToList(w, u, p) ==
    /\ listed' = [listed EXCEPT ![u] = @ \cup {p}]
    /\ UNCHANGED <<owner, mission, explored>>
    /\ Commit(w, <<PlanetUserListChange(u)>>, {})

DeleteFromList(w, u, p) ==
    /\ listed' = [listed EXCEPT ![u] = @ \ {p}]
    /\ UNCHANGED <<owner, mission, explored>>
    /\ Commit(w, <<PlanetUserListChange(u)>>, {})

------------------------------------------------------------------------------
(* The emits, after the commit, against whatever the tables hold by then.  *)

Head1(w) == job[w].todo[1]

Advance(w) == [todo |-> Tail(job[w].todo), token |-> 0, value |-> Nothing,
               at |-> IF Len(job[w].todo) = 1 THEN "rest" ELSE "emit"]

Holders(p) == {u \in User : p \in listed[u]}

(* Who has to be told of what: read from the tables.                       *)
Expand(item) ==
    CASE item[1] = "local" ->
            (IF item[2].visible
             THEN SetToSeq({EnemyMissionChange(v) :
                               v \in Enemy(item[2].user, item[2].target)})
             ELSE <<>>) \o <<UnitMissionChange(item[2].user)>>
      [] item[1] = "owner" ->
            SetToSeq({EnemyMissionChange(v) : v \in Enemy(item[3], item[2])})
      [] item[1] = "holders" ->
            SetToSeq({PlanetUserListChange(v) : v \in Holders(item[2])})

Resolve(w) ==
    /\ job[w].at = "emit" /\ Head1(w)[1] # "send"
    /\ LET todo == Expand(Head1(w)) \o Tail(job[w].todo)
       IN  job' = [job EXCEPT ![w].todo = todo, ![w].at = IF todo = <<>> THEN "rest" ELSE "emit"]
    /\ UNCHANGED <<tables, browser, sends, ops, events>>

(* The second in which a send that is saved now began: a new one, or that  *)
(* of a send before.                                                       *)
Seconds(u, k) == 1 .. token[u][k] + 1

(* WebsocketEventsInformationBo::save                                      *)
Save(u, k, n) ==
    /\ watermark' = [watermark EXCEPT ![u][k] = n]
    /\ \/ /\ n > token[u][k]
          /\ token' = [token EXCEPT ![u][k] = n]
          /\ crowded' = crowded \ {<<u, k>>}
          /\ UNCHANGED events
       \/ /\ n <= token[u][k] /\ Happens
          /\ crowded' = crowded \cup {<<u, k>>}
          /\ UNCHANGED token

(* send_message: the watermark first, whoever is connected.                *)
SaveWatermark(w) ==
    LET u == Head1(w)[2]
        k == Head1(w)[3]
    IN  /\ job[w].at = "emit" /\ Head1(w)[1] = "send"
        /\ untold' = untold \ {<<u, k>>}
        /\ silent' = silent \ {<<u, k>>}
        /\ \/ /\ u \in Client
              /\ \E n \in Seconds(u, k) :
                    /\ Save(u, k, n)
                    /\ job' = [job EXCEPT ![w].at = "saved", ![w].token = n]
           \/ /\ u \notin Client
              /\ job' = [job EXCEPT ![w] = Advance(w)]
              /\ UNCHANGED <<token, watermark, crowded, events>>
        /\ UNCHANGED <<tables, browser, ops>>

(* The value is computed for a connected player only.                      *)
ComputeValue(w) ==
    LET u == Head1(w)[2]
        k == Head1(w)[3]
    IN  /\ job[w].at = "saved"
        /\ job' = IF u \in room
                  THEN [job EXCEPT ![w].at = "computed", ![w].value = Dispatch(u, k)]
                  ELSE [job EXCEPT ![w] = Advance(w)]
        /\ UNCHANGED <<tables, browser, sends, ops, events>>

Deliver(w) ==
    LET u == Head1(w)[2]
        message == [key |-> Head1(w)[3], token |-> job[w].token, value |-> job[w].value]
    IN  /\ job[w].at = "computed"
        /\ wire' = IF u \in room THEN [wire EXCEPT ![u] = Append(@, message)] ELSE wire
        /\ job' = [job EXCEPT ![w] = Advance(w)]
        /\ UNCHANGED <<tables, sends, room, phase, trusts, reply, fetch, store, info, lapsed,
                       ops, events>>

(* The process dies, or an emit fails: the others are not done.            *)
LoseEmits(w) ==
    /\ ~Resting(w) /\ Happens
    /\ job' = [job EXCEPT ![w] = [todo |-> <<>>, at |-> "rest", token |-> 0, value |-> Nothing]]
    /\ silent' = silent \cup untold
    /\ UNCHANGED <<tables, browser, watermark, token, crowded, untold, ops>>

------------------------------------------------------------------------------
(* The browser of a player.                                                *)

NoFetch == [keys |-> {}, todo |-> {}, data |-> <<>>, sent |-> <<>>, at |-> "idle"]

(* A socket connects.  It is authenticated only by a browser that does not *)
(* believe it is (authenticate()).                                         *)
Connect(c) ==
    /\ phase[c] = "off" /\ fetch[c] = NoFetch /\ Happens
    /\ IF c \in trusts
       THEN phase' = [phase EXCEPT ![c] = "deaf"] /\ UNCHANGED room
       ELSE phase' = [phase EXCEPT ![c] = "asking"] /\ room' = room \cup {c}
    /\ UNCHANGED <<tables, sends, job, trusts, wire, reply, fetch, store, info, lapsed, ops>>

(* on_authentication registered the socket, now it reads the watermarks.   *)
BuildEventsInfo(c) ==
    /\ phase[c] = "asking" /\ reply[c] = Nothing
    /\ reply' = [reply EXCEPT ![c] = watermark[c]]
    /\ UNCHANGED <<tables, sends, job, room, phase, trusts, wire, fetch, store, info, lapsed,
                   ops, events>>

(* The keys the server has no row for, or another token than the browser.  *)
Changed(c) == {k \in Key : reply[c][k] = 0 \/ info[c][k] # reply[c][k]}

(* setEventsInformation: what the server sent is what the browser has seen.*)
SetEventsInformation(c) ==
    /\ phase[c] = "asking" /\ reply[c] # Nothing
    /\ info' = [info EXCEPT ![c] = [k \in Key |-> IF reply[c][k] = 0 THEN Nothing
                                                  ELSE reply[c][k]]]
    /\ reply' = [reply EXCEPT ![c] = Nothing]
    /\ UNCHANGED <<tables, sends, job, room, wire, store, ops>>

StartSync(c) ==
    /\ SetEventsInformation(c)
    /\ IF Changed(c) = {}
       THEN /\ phase' = [phase EXCEPT ![c] = "ready"]
            /\ trusts' = trusts \cup {c}
            /\ UNCHANGED fetch
       ELSE /\ phase' = [phase EXCEPT ![c] = "fetching"]
            /\ fetch' = [fetch EXCEPT ![c] = [keys |-> Changed(c), todo |-> Changed(c),
                                              data |-> <<>>, sent |-> <<>>, at |-> "reading"]]
            /\ UNCHANGED trusts
    /\ UNCHANGED <<lapsed, ops, events>>

(* The throttle of the sync: what changed is marked as seen and not asked. *)
SkipSync(c) ==
    /\ SetEventsInformation(c) /\ Changed(c) # {} /\ Happens
    /\ phase' = [phase EXCEPT ![c] = "ready"]
    /\ trusts' = trusts \cup {c}
    /\ lapsed' = [lapsed EXCEPT ![c] = @ \cup Changed(c)]
    /\ UNCHANGED fetch

(* find_wanted_data, key by key: the data, then the watermark.             *)
NextKey(c) == CHOOSE k \in fetch[c].todo : TRUE

DispatchKey(c) ==
    /\ fetch[c].at = "reading"
    /\ fetch' = [fetch EXCEPT ![c].data = Put(@, NextKey(c), Dispatch(c, NextKey(c))),
                              ![c].at = "saving"]
    /\ UNCHANGED <<tables, sends, job, room, phase, trusts, wire, reply, store, info, lapsed,
                   ops, events>>

SaveKey(c) ==
    LET k == NextKey(c)
    IN  /\ fetch[c].at = "saving"
        /\ \E n \in Seconds(c, k) :
              /\ Save(c, k, n)
              /\ fetch' = [fetch EXCEPT
                    ![c].todo = @ \ {k},
                    ![c].sent = Put(@, k, n),
                    ![c].at = IF fetch[c].todo = {k} THEN "answered" ELSE "reading"]
        /\ UNCHANGED <<tables, untold, silent, job, room, phase, trusts, wire, reply, store, info,
                       lapsed, ops>>

(* Mutant of HttpToken: the answer has the seconds of the socket.          *)
HttpTokenInSeconds(n) == n

(* The answer has milliseconds, which no watermark ever equals.            *)
HttpToken(n) == -n

(* The sync ended, with its data or with an error, maybe after the socket. *)
SyncEnds(c) ==
    /\ fetch' = [fetch EXCEPT ![c] = NoFetch]
    /\ trusts' = trusts \cup {c}
    /\ phase' = [phase EXCEPT ![c] = IF @ = "fetching" THEN "ready" ELSE @]
    /\ lapsed' = [lapsed EXCEPT ![c] = @ \ fetch[c].keys]
    /\ UNCHANGED <<tables, sends, job, room, wire, reply, ops>>

StoreKeys(c) ==
    /\ fetch[c].at = "answered"
    /\ store' = [store EXCEPT ![c] = Over(fetch[c].data, @)]
    /\ info' = [info EXCEPT ![c] = [k \in Key |-> IF k \in fetch[c].keys
                                                  THEN HttpToken(fetch[c].sent[k]) ELSE @[k]]]
    /\ SyncEnds(c)
    /\ UNCHANGED events

(* deleteEvents: what was asked for is asked for again by the next sync.   *)
FetchFails(c) ==
    /\ fetch[c] # NoFetch /\ Happens
    /\ info' = [info EXCEPT ![c] = [k \in Key |-> IF k \in fetch[c].keys
                                                  THEN Nothing ELSE @[k]]]
    /\ SyncEnds(c)
    /\ UNCHANGED store

ProcessMessage(c) ==
    /\ phase[c] = "ready" /\ wire[c] # <<>>
    /\ LET message == Head(wire[c])
       IN  /\ store' = [store EXCEPT ![c][message.key] = message.value]
           /\ info' = [info EXCEPT ![c][message.key] = message.token]
           /\ lapsed' = [lapsed EXCEPT ![c] = @ \ {message.key}]
    /\ wire' = [wire EXCEPT ![c] = Tail(@)]
    /\ UNCHANGED <<tables, sends, job, room, phase, trusts, reply, fetch, ops, events>>

(* The buffer and the messages on their way are lost; the request is not.  *)
Disconnect(c) ==
    /\ phase[c] # "off"
    /\ phase' = [phase EXCEPT ![c] = "off"]
    /\ room' = room \ {c}
    /\ trusts' = trusts \ {c}
    /\ wire' = [wire EXCEPT ![c] = <<>>]
    /\ reply' = [reply EXCEPT ![c] = Nothing]
    /\ UNCHANGED <<tables, sends, job, fetch, store, info, lapsed, ops, events>>

(* The page is loaded again before the answer came.                        *)
Reload(c) ==
    /\ fetch[c] # NoFetch /\ Happens
    /\ phase' = [phase EXCEPT ![c] = "off"]
    /\ room' = room \ {c}
    /\ trusts' = trusts \ {c}
    /\ wire' = [wire EXCEPT ![c] = <<>>]
    /\ fetch' = [fetch EXCEPT ![c] = NoFetch]
    /\ lapsed' = [lapsed EXCEPT ![c] = @ \cup fetch[c].keys]
    /\ UNCHANGED <<tables, sends, job, reply, store, info, ops>>

------------------------------------------------------------------------------

(* A browser is offline since it had seen all.                             *)
Init ==
    /\ \E t \in Start : /\ owner = t.owner /\ mission = t.mission
                        /\ listed = t.listed /\ explored = t.explored
    /\ job = [w \in Worker |-> [todo |-> <<>>, at |-> "rest", token |-> 0, value |-> Nothing]]
    /\ room = {} /\ trusts = {} /\ untold = {} /\ silent = {} /\ crowded = {}
    /\ phase = [c \in Client |-> "off"] /\ wire = [c \in Client |-> <<>>]
    /\ reply = [c \in Client |-> Nothing] /\ fetch = [c \in Client |-> NoFetch]
    /\ lapsed = [c \in Client |-> {}]
    /\ token = [c \in Client |-> [k \in Key |-> 1]]
    /\ info = token
    /\ store = [c \in Client |-> [k \in Key |-> Dispatch(c, k)]]
    /\ watermark = token
    /\ ops = 0 /\ events = 0

MissionStep(w, m) ==
    \/ CancelMission(w, m) \/ Explore(w, m) \/ Attack(w, m) \/ FlyHome(w, m) \/ Deploy(w, m)
    \/ EndMission(w, m) \/ RetryMission(w, m) \/ EstablishBase(w, m) \/ Conquer(w, m)
    \/ EndBuild(w, m)

UserStep(w, u) ==
    \/ ExpireUnits(w, u)
    \/ \E p \in Yards : \/ RegisterBuild(w, u, p) \/ LeavePlanet(w, u, p)
                        \/ AddToList(w, u, p) \/ DeleteFromList(w, u, p)
    \/ \E o \in Orders : RegisterMission(w, u, o[1], o[2], o[3])

Emit(w) ==
    \/ Resolve(w) \/ SaveWatermark(w) \/ ComputeValue(w) \/ Deliver(w) \/ LoseEmits(w)

Browse(c) ==
    \/ Connect(c) \/ BuildEventsInfo(c) \/ StartSync(c) \/ SkipSync(c)
    \/ DispatchKey(c) \/ SaveKey(c) \/ StoreKeys(c) \/ FetchFails(c)
    \/ ProcessMessage(c) \/ Disconnect(c) \/ Reload(c)

Next ==
    \/ \E w \in Worker : /\ Resting(w) /\ ops < MaxOps
                         /\ \/ \E m \in DOMAIN mission : MissionStep(w, m)
                            \/ \E u \in User : UserStep(w, u)
    \/ \E w \in Worker : Emit(w)
    \/ \E c \in Client : Browse(c)

Spec == Init /\ [][Next]_vars

------------------------------------------------------------------------------

AllRest == \A w \in Worker : Resting(w)

(* Each emitter of the backend knows what the others change: when all have *)
(* ended, the watermark of every view was saved since the view changed,    *)
(* even if it changed back, but for the changes the code leaves            *)
(* unannounced (see silent).                                               *)
EveryChangeIsTold == AllRest => untold \subseteq silent

(* A browser whose token of a key equals the watermark, so that a          *)
(* connection would not fetch the key, has the view the player has by now, *)
(* unless an operation changed it and has not said so: neither the order   *)
(* of saving, computing and delivering, nor a save that is late, nor a     *)
(* fetch that races an operation or outlives its socket leaves it behind   *)
(* unnoticed.  The throttled and the abandoned syncs (see lapsed) do, and  *)
(* so do two sends of the key within one second (see crowded): of those    *)
(* the handshake, in whole seconds, cannot tell which one was seen.        *)
StaleIsNoticed ==
    \A c \in Client : \A k \in Key \ (lapsed[c] \cup fetch[c].keys) :
        info[c][k] = watermark[c][k] /\ <<c, k>> \notin untold \cup crowded
            => store[c][k] = Dispatch(c, k)

(* The same of any sends, which does not hold.                             *)
StaleIsNoticedAtOnce ==
    \A c \in Client : \A k \in Key \ (lapsed[c] \cup fetch[c].keys) :
        info[c][k] = watermark[c][k] /\ <<c, k>> \notin untold => store[c][k] = Dispatch(c, k)
================================================================================
