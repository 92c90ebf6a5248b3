-------------------------------- MODULE Unlocks --------------------------------
(***************************************************************************)
(* What players unlock, their time specials and the units these lend:      *)
(* bo/active_time_special_bo.rs, bo/temporal_units_bo.rs, and the          *)
(* operations that run the requirement engine (module Requirements).       *)
(*                                                                         *)
(* A transaction is two steps: it begins, on the snapshot of its first     *)
(* read, and it commits its changes to the rows as they are by then.  The  *)
(* engine takes no lock; LEVEL_UP, activations, the effects of specials    *)
(* and planets left run without any, so transactions overlap.  After the   *)
(* commit the process drains what the engine queued: the temporal units of *)
(* lost relations are deleted under the locks of the planets they are on.  *)
(***************************************************************************)
EXTENDS Requirements

CONSTANTS
    User, Newcomer,  \* players; those who are not subscribed at first
    Worker,      \* mission pollers
    Client,      \* requests
    Poller,      \* effect pollers (spawn_effect_poller)
    Planet, HomeOf, ColonyOf,  \* [User -> Planet], [User -> SUBSET Planet]
    Upgrade, MaxLevel, Unit,
    TimeSpecial,
    Lends,       \* [TimeSpecial -> [Unit -> Nat]]: the temporal units it grants
    MaxLockAttempts,  \* lock.rs
    Editable, Edits,  \* relations the administrator edits; the requirements he adds
    Operations,  \* which operations happen
    Faults,      \* "fail": a handler of a task; "stop": a process
    MaxOps, MaxFaults,  \* bounds of a behaviour
    Nobody

Process == Worker \cup Client \cup Poller

ASSUME WorldAssumption ==
    /\ Newcomer \subseteq User /\ Nobody \notin User \cup Planet \cup Process
    /\ HomeOf \in [User -> Planet] /\ ColonyOf \in [User -> SUBSET Planet]
    /\ DOMAIN LocationOf \subseteq Planet
    /\ Lends \in [TimeSpecial -> [Unit -> Nat]]
ASSUME BoundAssumption ==
    MaxLockAttempts \in Nat \ {0} /\ {MaxLevel, MaxOps, MaxFaults} \subseteq Nat

VARIABLES
    db,      \* the committed tables (module Requirements) and
             \*   db.lent  obtained_unit_temporal_information: id :> relation
             \*   db.groups  the REQUIREMENT_GROUP relations there are
    lock,    \* lock[p]: the process that holds the lock of planet p
    pc,      \* pc[x]: where process x is
    view,    \* view[x]: the tables as the transaction of x leaves them
    base,    \* base[x]: its snapshot
    task,    \* task[e]: the task poller e has claimed
    drain,   \* drain[x]: the lost relations x still has to handle
    expiry,  \* expiry[x]: the temporal units it deletes, the planets it
             \*   read them on, the rounds so far
    nextId,  \* AUTO_INCREMENT, one for all tables
    edited,  \* history: relations that were edited, and their masters
    raced,   \* history: two transactions overlapped
    failed,  \* history: a handler failed, or a process stopped half-way
    taken,   \* history: temporal units that went before their time although
             \*   their owner did not lose their special
    ops, faults  \* how many so far

locals == <<pc, view, base, task, drain, expiry>>
history == <<edited, raced, failed, taken>>
vars == <<db, lock, locals, nextId, history, ops, faults>>

NoTask == <<"none", 0>>
NoTables == [stacks |-> {}]
NoExpiry == [ids |-> <<>>, planets |-> {}, rounds |-> 0]

Empty ==
    [owner |-> [p \in Planet |-> Nobody], stacks |-> {}, level |-> [u \in User |-> <<>>],
     available |-> <<>>, unlocked |-> {}, special |-> <<>>, tasks |-> {}, lost |-> <<>>,
     lent |-> <<>>, needs |-> Needs, master |-> Master, groups |-> DOMAIN Master]

Settled(t, u) == TriggerHomeGalaxySelection(TriggerFactionSelection(t, u), u)

Visit(t, u, p) ==
    LET w == [t EXCEPT !.owner[p] = u] IN
    IF p \in DOMAIN LocationOf THEN TriggerSpecialLocation(w, u, LocationOf[p]) ELSE w

(* Players who have subscribed and have conquered their colonies.          *)
Init ==
    /\ db = LET Start(t, u) ==
                    FoldSet(LAMBDA p, v : Visit(v, u, p),
                            Settled([t EXCEPT !.owner[HomeOf[u]] = u], u), ColonyOf[u])
            IN  [FoldSet(LAMBDA u, t : Start(t, u), Empty, User \ Newcomer)
                    EXCEPT !.lost = <<>>]
    /\ lock = [p \in Planet |-> Nobody]
    /\ pc = [x \in Process |-> "idle"]
    /\ view = [x \in Process |-> NoTables] /\ base = [x \in Process |-> NoTables]
    /\ task = [x \in Process |-> NoTask]
    /\ drain = [x \in Process |-> <<>>]
    /\ expiry = [x \in Process |-> NoExpiry]
    /\ nextId = 1
    /\ edited = {} /\ raced = FALSE /\ failed = FALSE /\ taken = {}
    /\ ops = 0 /\ faults = 0

------------------------------------------------------------------------------
(* Transactions.                                                           *)

Goto(x, place) == pc' = [pc EXCEPT ![x] = place]

LocksFree(K) == \A p \in K : lock[p] = Nobody
Take(x, K) == lock' = [p \in Planet |-> IF p \in K THEN x ELSE lock[p]]
Drop(x) == lock' = [p \in Planet |-> IF lock[p] = x THEN Nobody ELSE lock[p]]

Subscribed(u) == db.owner[HomeOf[u]] = u

(* The body of a transaction under the locks K: t, with n new ids.         *)
Begin(x, K, t, n) ==
    /\ LocksFree(K) /\ Take(x, K)
    /\ view' = [view EXCEPT ![x] = t]
    /\ base' = [base EXCEPT ![x] = db]
    /\ nextId' = nextId + n
    /\ Goto(x, "writing")

Operation(x, name) ==
    /\ pc[x] = "idle" /\ name \in Operations
    /\ ops < MaxOps /\ ops' = ops + 1
    /\ UNCHANGED <<db, task, drain, expiry, history, faults>>

(* What the transaction b -> t makes of the tables d, a row at a time: a   *)
(* row it deleted or inserted, a column it wrote.  An UPDATE of a row that *)
(* is gone does nothing.                                                   *)
Apply(d, b, t) ==
    LET Rows(now, was, is) == (now \ (was \ is)) \cup (is \ was)
        Write(now, was, is) ==
            LET new == DOMAIN is \ DOMAIN was
                changed == {i \in DOMAIN is \cap DOMAIN was : is[i] # was[i]}
            IN  [i \in DOMAIN now \cup new |->
                    IF i \in new \cup changed THEN is[i] ELSE now[i]]
    IN  [owner |-> Write(d.owner, b.owner, t.owner),
         stacks |-> Rows(d.stacks, b.stacks, t.stacks),
         level |-> [u \in User |-> Write(d.level[u], b.level[u], t.level[u])],
         available |-> t.available @@ d.available,
         unlocked |-> Rows(d.unlocked, b.unlocked, t.unlocked),
         special |-> Write(d.special, b.special, t.special),
         tasks |-> Rows(d.tasks, b.tasks, t.tasks),
         lost |-> <<>>,
         lent |-> Write(d.lent, b.lent, t.lent),
         needs |-> d.needs, master |-> d.master, groups |-> d.groups]

(* What the engine reads.                                                  *)
Evaluated(t) ==
    <<t.owner, t.stacks, t.level, t.unlocked, t.special, t.needs, t.master, t.groups>>

(* Two transactions inserted the same unlocked_relation, or the relation   *)
(* has been deleted: the second fails.                                     *)
Duplicate(x) ==
    \E k \in view[x].unlocked \ base[x].unlocked :
        k \in db.unlocked \/ (Kind[k[2]] = "REQUIREMENT_GROUP" /\ k[2] \notin db.groups)

(* A poller clears the task it has claimed, however its handler ended.     *)
Done(x) == IF x \in Poller THEN "clearing" ELSE "idle"

Commit(x) ==
    /\ pc[x] = "writing"
    /\ ~Duplicate(x)
    /\ db' = Apply(db, base[x], view[x])
    /\ raced' = (raced \/ Evaluated(base[x]) # Evaluated(db))
    /\ drain' = [drain EXCEPT ![x] = view[x].lost]
    /\ view' = [view EXCEPT ![x] = NoTables] /\ base' = [base EXCEPT ![x] = NoTables]
    /\ Drop(x)
    /\ Goto(x, IF view[x].lost = <<>> THEN Done(x) ELSE "draining")
    /\ UNCHANGED <<task, expiry, nextId, edited, failed, taken, ops, faults>>

Rest(x) ==
    /\ view' = [view EXCEPT ![x] = NoTables] /\ base' = [base EXCEPT ![x] = NoTables]
    /\ drain' = [drain EXCEPT ![x] = <<>>]
    /\ expiry' = [expiry EXCEPT ![x] = NoExpiry]
    /\ Drop(x)

RollBack(x) == Rest(x) /\ Goto(x, Done(x))

DuplicateKey(x) ==
    /\ pc[x] = "writing" /\ Duplicate(x)
    /\ RollBack(x)
    /\ raced' = TRUE /\ failed' = (failed \/ x \in Poller)
    /\ UNCHANGED <<db, task, nextId, edited, taken, ops, faults>>

------------------------------------------------------------------------------
(* The operations of players and missions.                                 *)

(* user_storage_bo.rs: the new player gets a free home and its unlocks.    *)
Subscribe(c) ==
    /\ Operation(c, "subscribe")
    /\ \E u \in Newcomer :
          /\ ~Subscribed(u) /\ db.owner[HomeOf[u]] = Nobody
          /\ Begin(c, {}, Settled([db EXCEPT !.owner[HomeOf[u]] = u], u), 0)

(* A LEVEL_UP mission completes: no locks.                                 *)
LevelUp(w) ==
    /\ Operation(w, "level")
    /\ \E u \in User : \E a \in DOMAIN db.level[u] :
          /\ db.level[u][a] < MaxLevel
          /\ Begin(w, {}, TriggerLevelUpCompleted([db EXCEPT !.level[u][a] = @ + 1], u, a), 0)

Stack(u, unit, n, p, q, id, lent) ==
    [user |-> u, unit |-> unit, count |-> n, source |-> p, target |-> q, id |-> id,
     lent |-> lent]

(* A BUILD_UNIT mission of one unit completes, under the lock of its       *)
(* planet; stacks are merged in module BuildMission.                       *)
BuildUnit(w) ==
    /\ Operation(w, "build")
    /\ \E u \in User, p \in Planet, unit \in Unit :
          /\ db.owner[p] = u
          /\ Begin(w, {p}, TriggerUnitBuildCompletedOrKilled(
                        [db EXCEPT !.stacks = @ \cup {Stack(u, unit, 1, p, Nobody, nextId, 0)}],
                        u, unit), 1)

(* A whole stack is sent: it is gone when the requirements are evaluated,  *)
(* and back, on the mission, in the same transaction.                      *)
SendUnits(c) ==
    /\ Operation(c, "send")
    /\ \E s \in db.stacks, q \in Planet :
          /\ s.target = Nobody /\ q # s.source
          /\ LET gone == TriggerUnitBuildCompletedOrKilled(
                            [db EXCEPT !.stacks = @ \ {s}], s.user, s.unit)
             IN  Begin(c, {s.source, q},
                       [gone EXCEPT !.stacks = @ \cup {[s EXCEPT !.target = q]}], 0)

(* The RETURN_MISSION of a stack ends, under the locks of both planets.    *)
ReturnUnits(w) ==
    /\ Operation(w, "send")
    /\ \E s \in db.stacks :
          LET home == [db EXCEPT !.stacks = (@ \ {s}) \cup {[s EXCEPT !.target = Nobody]}] IN
          /\ s.target # Nobody
          /\ Begin(w, {s.source, s.target},
                   IF db.owner[s.source] = s.user
                   THEN TriggerUnitBuildCompletedOrKilled(home, s.user, s.unit) ELSE home, 0)

(* ObtainedUnitBo::save_with_subtraction, of a whole stack: no locks.      *)
DeleteUnits(c) ==
    /\ Operation(c, "delete")
    /\ \E s \in db.stacks :
          /\ s.target = Nobody
          /\ Begin(c, {}, TriggerUnitBuildCompletedOrKilled(
                              [db EXCEPT !.stacks = @ \ {s}], s.user, s.unit), 0)

(* A conquest, or a base: the new owner is evaluated, then the old one.    *)
TakePlanet(w) ==
    /\ Operation(w, "conquer")
    /\ \E u \in User, p \in Planet :
          LET old == db.owner[p]
              won == Visit(db, u, p)
          IN  /\ Subscribed(u) /\ u # old /\ p \notin {HomeOf[v] : v \in User}
              /\ Begin(w, {p}, IF old = Nobody \/ p \notin DOMAIN LocationOf THEN won
                               ELSE TriggerSpecialLocation(won, old, LocationOf[p]), 0)

(* PlanetBo::leave_planet: the owner goes in autocommit ...                *)
LeavePlanet(c) ==
    /\ pc[c] = "idle" /\ "leave" \in Operations /\ ops < MaxOps /\ ops' = ops + 1
    /\ \E u \in User, p \in Planet \ {HomeOf[v] : v \in User} :
          /\ db.owner[p] = u
          /\ {s \in db.stacks : s.user = u /\ s.source = p /\ s.target = Nobody} = {}
          /\ db' = [db EXCEPT !.owner[p] = Nobody]
          /\ view' = [view EXCEPT ![c] = [user |-> u, planet |-> p]]
          /\ Goto(c, "left")
    /\ UNCHANGED <<lock, base, task, drain, expiry, nextId, history, faults>>

(* ... and the requirements follow in a transaction of their own.          *)
EvaluateLeft(c) ==
    LET u == view[c].user
        p == view[c].planet
    IN  /\ pc[c] = "left"
        /\ Begin(c, {}, IF p \in DOMAIN LocationOf
                        THEN TriggerSpecialLocation(db, u, LocationOf[p]) ELSE db, 0)
        /\ UNCHANGED <<db, task, drain, expiry, history, ops, faults>>

(* repair_special_location_unlocks: every location that is owned, again.   *)
Repair(c) ==
    /\ Operation(c, "repair")
    /\ Begin(c, {}, FoldSet(LAMBDA p, t :
                        IF t.owner[p] = Nobody THEN t
                        ELSE TriggerSpecialLocation(t, t.owner[p], LocationOf[p]),
                        db, DOMAIN LocationOf), 0)

------------------------------------------------------------------------------
(* The administrator.  Nobody's unlocks are evaluated after an edit.       *)

Edit(c, r, t) ==
    /\ pc[c] = "idle" /\ "edit" \in Operations /\ ops < MaxOps /\ ops' = ops + 1
    /\ db' = t
    /\ edited' = edited \cup {r} \cup {db.master[g] : g \in {r} \cap DOMAIN db.master}
    /\ UNCHANGED <<lock, base, task, drain, expiry, nextId, raced, failed, taken, faults>>

(* What the page of the administrator shows.                               *)
HasRelation(r) == Kind[r] = "REQUIREMENT_GROUP" => r \in db.groups

AddRequirement(c) ==
    \E r \in Editable, q \in Edits :
        /\ HasRelation(r)
        /\ Edit(c, r, [db EXCEPT !.needs[r] = @ \cup {q}])
        /\ UNCHANGED <<pc, view>>

DeleteRequirement(c) ==
    \E r \in Editable : \E q \in db.needs[r] :
        /\ Edit(c, r, [db EXCEPT !.needs[r] = @ \ {q}])
        /\ UNCHANGED <<pc, view>>

(* RequirementGroupBo::add: the group and its link, then its requirements, *)
(* one transaction each.                                                   *)
AddGroup(c) ==
    \E g \in Editable, m \in Relation :
        /\ Kind[g] = "REQUIREMENT_GROUP" /\ g \notin db.groups
        /\ Kind[m] = "SPEED_IMPACT_GROUP"
        /\ Edit(c, m, [db EXCEPT !.master = @ @@ (g :> m), !.groups = @ \cup {g},
                                 !.needs[g] = {}])
        /\ view' = [view EXCEPT ![c] = [group |-> g]]
        /\ Goto(c, "grouping")

AddToGroup(c) ==
    LET g == view[c].group IN
    /\ pc[c] = "grouping"
    /\ \E q \in Edits :
          db' = [db EXCEPT !.needs[g] = @ \cup {q}, !.groups = @ \cup {g}]
    /\ edited' = edited \cup {g}
    /\ view' = [view EXCEPT ![c] = NoTables]
    /\ Goto(c, "idle")
    /\ UNCHANGED <<lock, base, task, drain, expiry, nextId, raced, failed, taken, ops, faults>>

(* find_groups: the slaves of the relation that are groups.                *)
GroupsOf(m) == {g \in Slaves(db, m) : Kind[g] = "REQUIREMENT_GROUP"}

DeleteGroup(c) ==
    \E m \in Relation : \E g \in GroupsOf(m) \cap Editable :
        /\ Edit(c, g, [db EXCEPT !.needs[g] = {}, !.groups = @ \ {g},
                                 !.master = [s \in DOMAIN @ \ {g} |-> @[s]],
                                 !.unlocked = {k \in @ : k[2] # g}])
        /\ UNCHANGED <<pc, view>>

------------------------------------------------------------------------------
(* Time specials.                                                          *)

RelationOf(special) ==
    CHOOSE r \in Relation : Kind[r] = "TIME_SPECIAL" /\ Target[r] = special

(* Its row, active or recharging.                                          *)
FindOneByTimeSpecial(u, s) ==
    {i \in DOMAIN db.special : db.special[i].user = u /\ db.special[i].special = s}

(* activate: that the special is unlocked, and neither active nor          *)
(* recharging, is read before the transaction ...                          *)
AskActivate(c) ==
    /\ pc[c] = "idle" /\ "activate" \in Operations /\ ops < MaxOps /\ ops' = ops + 1
    /\ \E u \in User, s \in TimeSpecial :
          /\ TimeSpecialUnlocked(db, u, s)
          /\ FindOneByTimeSpecial(u, s) = {}
          /\ view' = [view EXCEPT ![c] = [user |-> u, special |-> s]]
    /\ Goto(c, "activating")
    /\ UNCHANGED <<db, lock, base, task, drain, expiry, nextId, history, faults>>

FindTemporalUnitRules(s) == {unit \in Unit : Lends[s][unit] > 0}

ScheduleUnitExpired(t, id) == [t EXCEPT !.tasks = @ \cup {<<"UNIT_EXPIRED", id>>}]

(* grant_on_activation: to the home planet, one duration for them all.     *)
Grant(t, u, s, id) ==
    IF FindTemporalUnitRules(s) = {} THEN t
    ELSE ScheduleUnitExpired(
            [t EXCEPT
               !.lent = @ @@ (id :> RelationOf(s)),
               !.stacks = @ \cup {Stack(u, unit, Lends[s][unit], HomeOf[u], Nobody, id, id) :
                                       unit \in FindTemporalUnitRules(s)}], id)

ScheduleEffectEnd(t, id) == [t EXCEPT !.tasks = @ \cup {<<"EFFECT_END", id>>}]

(* ... which inserts the row, its task, and what follows from both.        *)
Activate(c) ==
    LET u == view[c].user
        s == view[c].special
        row == [user |-> u, special |-> s, state |-> "ACTIVE"]
        on == ScheduleEffectEnd([db EXCEPT !.special = @ @@ (nextId :> row)], nextId)
    IN  /\ pc[c] = "activating"
        /\ Begin(c, {}, Grant(TriggerTimeSpecialStateChange(on, u, s), u, s, nextId), 1)
        /\ UNCHANGED <<db, task, drain, expiry, history, ops, faults>>

------------------------------------------------------------------------------
(* The effect poller; a claim is a comparison of versions, as in module    *)
(* MissionScheduler.                                                       *)

(* A task is due; nobody has it, or who had it stopped.                    *)
Claim(e) ==
    /\ pc[e] = "idle"
    /\ \E t \in db.tasks :
          /\ \A x \in Poller : task[x] # t
          /\ task' = [task EXCEPT ![e] = t]
    /\ Goto(e, "handling")
    /\ UNCHANGED <<db, lock, view, base, drain, expiry, nextId, history, ops, faults>>

HandleEffectEnd(e) ==
    /\ pc[e] = "handling" /\ task[e][1] = "EFFECT_END"
    /\ Begin(e, {}, Deactivate(db, task[e][2]), 0)
    /\ UNCHANGED <<db, task, drain, expiry, history, ops, faults>>

HandleIsReady(e) ==
    /\ pc[e] = "handling" /\ task[e][1] = "IS_READY"
    /\ db' = [db EXCEPT !.special = [i \in DOMAIN @ \ {task[e][2]} |-> @[i]]]
    /\ Goto(e, "clearing")
    /\ UNCHANGED <<lock, view, base, task, drain, expiry, nextId, history, ops, faults>>

HandleUnitExpired(e) ==
    LET id == task[e][2] IN
    /\ pc[e] = "handling" /\ task[e][1] = "UNIT_EXPIRED"
    /\ \/ id \in DOMAIN db.lent /\ expiry' = [expiry EXCEPT ![e].ids = <<id>>]
          /\ Goto(e, "draining")
       \/ id \notin DOMAIN db.lent /\ Goto(e, "clearing") /\ UNCHANGED expiry
    /\ UNCHANGED <<db, lock, view, base, task, drain, nextId, history, ops, faults>>

(* The row of the task is deleted, however its handler ended.              *)
ClearTask(e) ==
    /\ pc[e] = "clearing"
    /\ db' = [db EXCEPT !.tasks = @ \ {task[e]}]
    /\ task' = [task EXCEPT ![e] = NoTask]
    /\ Goto(e, "idle")
    /\ UNCHANGED <<lock, view, base, drain, expiry, nextId, history, ops, faults>>

------------------------------------------------------------------------------
(* After the commit: drain_requirement_emits and aggressive_lock_and_delete*)

PlanetsOf(id) ==
    {s.source : s \in {z \in db.stacks : z.lent = id}}
        \cup ({s.target : s \in {z \in db.stacks : z.lent = id}} \ {Nobody})

NextExpiry(x) == [ids |-> Tail(expiry[x].ids), planets |-> {}, rounds |-> 0]

(* The next lost relation: whoever has the temporal units of the special.  *)
DrainLost(x) ==
    /\ pc[x] = "draining" /\ expiry[x].ids = <<>> /\ drain[x] # <<>>
    /\ expiry' = [expiry EXCEPT ![x].ids =
                    SetToSeq({i \in DOMAIN db.lent : db.lent[i] = Head(drain[x])})]
    /\ drain' = [drain EXCEPT ![x] = Tail(@)]
    /\ UNCHANGED <<db, lock, pc, view, base, task, nextId, history, ops, faults>>

(* Their planets, before the locks; none, and their row stays.             *)
ReadPlanets(x) ==
    LET planets == PlanetsOf(Head(expiry[x].ids)) IN
    /\ pc[x] = "draining" /\ expiry[x].ids # <<>>
    /\ \/ /\ planets = {}
          /\ expiry' = [expiry EXCEPT ![x] = NextExpiry(x)]
          /\ UNCHANGED pc
       \/ /\ planets # {}
          /\ expiry' = [expiry EXCEPT ![x].planets = planets]
          /\ Goto(x, "locking")
    /\ UNCHANGED <<db, lock, view, base, task, drain, nextId, history, ops, faults>>

(* Whose task this is, or whose relation has been lost.                    *)
Entitled(x, id) ==
    \/ task[x] = <<"UNIT_EXPIRED", id>>
    \/ \A s \in db.stacks : s.lent = id => <<s.user, db.lent[id]>> \notin db.unlocked

(* Mutant of DeleteExpired: the planets are not read again.                *)
DeleteExpiredUnread(x) ==
    LET id == Head(expiry[x].ids) IN
    /\ pc[x] = "locking" /\ LocksFree(expiry[x].planets)
    /\ db' = [db EXCEPT !.stacks = {s \in @ : s.lent # id \/ s.source \notin expiry[x].planets
                                                 \/ s.target \notin expiry[x].planets \cup {Nobody}},
                        !.lent = [i \in DOMAIN @ \ {id} |-> @[i]]]
    /\ expiry' = [expiry EXCEPT ![x] = NextExpiry(x)]
    /\ Goto(x, "draining")
    /\ UNCHANGED <<lock, view, base, task, drain, nextId, history, ops, faults>>

(* Under the locks of the planets, if they still are the planets.          *)
DeleteExpired(x) ==
    LET id == Head(expiry[x].ids) IN
    /\ pc[x] = "locking" /\ LocksFree(expiry[x].planets)
    /\ PlanetsOf(id) = expiry[x].planets
    /\ db' = [db EXCEPT !.stacks = {s \in @ : s.lent # id},
                        !.lent = [i \in DOMAIN @ \ {id} |-> @[i]]]
    /\ taken' = IF Entitled(x, id) THEN taken ELSE taken \cup {id}
    /\ expiry' = [expiry EXCEPT ![x] = NextExpiry(x)]
    /\ Goto(x, "draining")
    /\ UNCHANGED <<lock, view, base, task, drain, nextId, edited, raced, failed, ops, faults>>

(* They have moved meanwhile: another round, or a Conflict, which ends the *)
(* draining.                                                               *)
PlanetsShifted(x) ==
    LET e == expiry[x] IN
    /\ pc[x] = "locking" /\ LocksFree(e.planets)
    /\ PlanetsOf(Head(e.ids)) # e.planets
    /\ \/ /\ e.rounds + 1 < MaxLockAttempts
          /\ expiry' = [expiry EXCEPT ![x].rounds = @ + 1, ![x].planets = {}]
          /\ Goto(x, "draining")
          /\ UNCHANGED <<view, base, drain, failed, lock>>
       \/ /\ e.rounds + 1 = MaxLockAttempts
          /\ RollBack(x)
          /\ failed' = TRUE
    /\ UNCHANGED <<db, task, nextId, edited, raced, taken, ops, faults>>

Drained(x) ==
    /\ pc[x] = "draining" /\ expiry[x].ids = <<>> /\ drain[x] = <<>>
    /\ Goto(x, Done(x))
    /\ UNCHANGED <<db, lock, view, base, task, drain, expiry, nextId, history, ops, faults>>

------------------------------------------------------------------------------
(* Faults.                                                                 *)

(* Bounded to where an operation may still follow; a failure, which        *)
(* excuses much, takes its place.                                          *)
Fault(kind) ==
    /\ kind \in Faults /\ ops < MaxOps
    /\ faults < MaxFaults /\ faults' = faults + 1

(* A handler of the poller fails: logged, and its task is deleted.         *)
HandlerFails(e) ==
    /\ pc[e] \in {"handling", "writing", "draining", "locking"}
    /\ Fault("fail") /\ ops' = ops + 1
    /\ RollBack(e)
    /\ failed' = TRUE
    /\ UNCHANGED <<db, task, nextId, edited, raced, taken>>

(* A process dies, or its request is dropped.  A task it had claimed is    *)
(* taken over; nothing takes over what a request or a mission had to       *)
(* drain, or the requirements of a planet that was left.  Before its first *)
(* write a process leaves nothing behind.                                  *)
Stop(x) ==
    /\ \/ pc[x] \in {"left", "grouping", "draining", "locking", "clearing"}
       \/ pc[x] = "writing" /\ x \in Client
    /\ Fault("stop")
    /\ Rest(x)
    /\ task' = [task EXCEPT ![x] = NoTask]
    /\ Goto(x, "idle")
    /\ failed' = (failed \/ (x \in Client /\ pc[x] \in {"left", "writing"}))
    /\ UNCHANGED <<db, nextId, edited, raced, taken, ops>>

------------------------------------------------------------------------------
MissionStep(w) ==
    LevelUp(w) \/ BuildUnit(w) \/ ReturnUnits(w) \/ TakePlanet(w)

RequestStep(c) ==
    \/ Subscribe(c) \/ SendUnits(c) \/ DeleteUnits(c) \/ LeavePlanet(c) \/ AskActivate(c)
    \/ Repair(c)

AdministratorStep(c) ==
    \/ AddRequirement(c) \/ DeleteRequirement(c)
    \/ AddGroup(c) \/ AddToGroup(c) \/ DeleteGroup(c)

Proceed(x) ==
    \/ Commit(x) \/ DuplicateKey(x) \/ EvaluateLeft(x) \/ Activate(x)
    \/ DrainLost(x) \/ ReadPlanets(x) \/ DeleteExpired(x) \/ PlanetsShifted(x)
    \/ Drained(x)

PollerStep(e) ==
    \/ Claim(e) \/ HandleEffectEnd(e) \/ HandleIsReady(e) \/ HandleUnitExpired(e)
    \/ ClearTask(e)

Next ==
    \/ \E w \in Worker : MissionStep(w)
    \/ \E c \in Client : RequestStep(c) \/ AdministratorStep(c)
    \/ \E x \in Process : Proceed(x)
    \/ \E e \in Poller : PollerStep(e) \/ HandlerFails(e)
    \/ \E x \in Process : Stop(x)

Spec == Init /\ [][Next]_vars

------------------------------------------------------------------------------
TypeOK ==
    /\ db.owner \in [Planet -> User \cup {Nobody}]
    /\ \A s \in db.stacks :
          /\ s.user \in User /\ s.unit \in Unit /\ s.count \in Nat \ {0}
          /\ s.source \in Planet /\ s.target \in Planet \cup {Nobody}
    /\ \A u \in User : /\ DOMAIN db.level[u] \subseteq Upgrade
                        /\ \A a \in DOMAIN db.level[u] : db.level[u][a] \in 0 .. MaxLevel
    /\ DOMAIN db.available \subseteq User \X Upgrade
    /\ db.unlocked \subseteq User \X Relation
    /\ \A i \in DOMAIN db.special :
          db.special[i] \in [user : User, special : TimeSpecial, state : {"ACTIVE", "RECHARGE"}]
    /\ db.tasks \subseteq {"EFFECT_END", "IS_READY", "UNIT_EXPIRED"} \X (1 .. nextId)
    /\ db.lost = <<>>
    /\ \A p \in Planet : lock[p] # Nobody => pc[lock[p]] = "writing"
    /\ \A x \in Process : pc[x] \in {"idle", "writing", "left", "activating", "grouping", "handling",
                                     "draining", "locking", "clearing"}

(* The codes whose every change is followed by a trigger.  Units are not   *)
(* among them: a stack that is sent, granted or expires is not evaluated   *)
(* as it then is.                                                          *)
Watched == {"UPGRADE_LEVEL", "BEEN_RACE", "HOME_GALAXY", "HAVE_SPECIAL_LOCATION",
            "HAVE_SPECIAL_ENABLED"}

(* A player has unlocked what the requirements say, and has it as long as  *)
(* they are met: through levels, planets that come and go, specials that   *)
(* start and end, and the specials these take along.  Transactions that    *)
(* overlap can miss each other's changes, a planet is left before its      *)
(* requirements are evaluated, and an edited relation is not evaluated.    *)
UnlockedAsDeserved ==
    raced \/ failed \/ (\E x \in Client : pc[x] \in {"left", "writing"}) \/
        \A u \in User, r \in Relation \ edited :
            /\ Subscribed(u)
            /\ db.needs[r] # {} /\ \A q \in db.needs[r] : q.code \in Watched
            =>
                (<<u, r>> \in db.unlocked <=> RequirementsAreMet(db, u, r))

(* A speed impact group is unlocked while one of its requirement groups is *)
(* (processRelationList).                                                  *)
MasterFollowsSlaves ==
    raced \/
        \A u \in User, m \in {db.master[s] : s \in DOMAIN db.master} \ edited :
            <<u, m>> \in db.unlocked <=>
                \E s \in DOMAIN db.master : db.master[s] = m /\ <<u, s>> \in db.unlocked

(* Whatever stops, overlaps or shifts, as long as no handler fails: a      *)
(* special that is active or recharging has the task that ends this, and   *)
(* temporal units have their row and the task that takes them away.        *)
NothingLastsForEver ==
    failed \/
        /\ \A i \in DOMAIN db.special :
              <<IF db.special[i].state = "ACTIVE" THEN "EFFECT_END" ELSE "IS_READY", i>>
                  \in db.tasks
        /\ \A s \in db.stacks :
              s.lent # 0 => s.lent \in DOMAIN db.lent /\ <<"UNIT_EXPIRED", s.lent>> \in db.tasks

(* relationLost: "a lost TIME_SPECIAL unlock relation force-removes that   *)
(* special's temporal units" (temporal_units_bo.rs) - of who lost it.      *)
OnlyTheLoserPays == taken = {}
================================================================================
