# A formal model of the OWGE backend

OWGE is a browser strategy game. Players own planets, build units, research
upgrades, and send units on missions that a scheduler executes when their time
has come. This directory models the Rust backend (`src/rust-backend/`), the
port of the Java engine in `src/business/`: TLA+ modules translated from its
source, configurations that model-check them with TLC, and proofs checked by
TLAPS. `PROJECT.json` maps every definition to the lines it models.

1. [The system](#1-the-system)
2. [The modules and the code](#2-the-modules-and-the-code)
3. [What is checked](#3-what-is-checked)
4. [What is proved](#4-what-is-proved)
5. [Disagreements between the code and what is said of it](#5-disagreements)
6. [Known gaps without a run](#6-known-gaps-without-a-run)
7. [What is not modelled](#7-what-is-not-modelled)
8. [Plan](#8-plan)

## 1. The system

One or more processes serve REST requests (axum) over one MySQL database; a
request or a poller takes one connection of the `sqlx` pool and works on it.
All state is in the database. There is no actor or message queue: processes
interact through rows, through named locks of the database server, and through
the websocket pushes that follow a commit.

| Component | State | Operations | Talks to |
|---|---|---|---|
| Named locks, `lock.rs`, `run_locked` | the locks of each MySQL session, a count per name | `acquire`, `release`, `run_locked` | everything that changes planets, units or resources |
| Mission scheduler, `mission_scheduler_bo.rs` | `scheduled_tasks`: due time, picked, heartbeat, version | `poll_once`, claim by version, `rearm_row`, `delete_row` | calls the mission runner inline |
| Mission runner, `unit_mission_bo.rs` (`MissionRunner`), `mission_base_service_bo.rs` | `missions.attemps`, `resolved` | `execute`, `retry_mission_if_possible`, `give_up`, `reschedule` | the processors, the report manager, the emitters |
| Unit mission registration, `unit_mission_registration_bo.rs` | `missions`, `obtained_units`, `scheduled_tasks` | `do_common_mission_register` | named locks |
| Return and cancellation, `return_mission_registration_bo.rs`, `my_cancel_mission` | the same | `register_return_mission`, `my_cancel_mission` | named locks |
| Processors, `mission_processor/` | the same, `planets.owner`, `explored_planets`, resources | explore, gather, deploy, return, establish base, conquest, attack, counterattack | requirement engine, combat |
| Interception, `mission_interception_manager_bo.rs`, `unit_interception_finder_bo.rs` | `obtained_units`, reports | `load_information`, `handle_mission_interception` | runs before a processor |
| Build and upgrade missions, `mission_bo.rs` | `missions`, `mission_information`, `user_storage`, `obtained_upgrades` | register, cancel, complete | named locks, scheduler, conquest |
| Temporal units, time specials | `obtained_unit_temporal_information`, `active_time_specials`, their tasks | activation, effects, expiry | a second poller, the named locks, the requirement engine |
| Requirement engine, `requirement_engine.rs`, `requirement_bo.rs` | `unlocked_relation`, requirement groups | re-evaluation after every change, removal of what was lost | everything that changes levels, units, planets, specials |
| Combat, `attack_mission_manager_bo.rs` | `obtained_units`, `points` | `start_attack`, captures, update of the rows | attack, counterattack, conquest; gather and establish base by configuration |
| Improvements and resources | a cache of aggregates per player, `user_storage` | `find_user_improvement`, eviction, accrual before each request | registration, processors, administration |
| Accounts and alliances | `user_storage`, `alliances`, `alliance_join_request`, `planets.owner` | subscribe, delete, create, request, accept, leave, dissolve | each other, without locks |
| Websocket sync | `websocket_events_information` (last-sent times), the browser's cache | emit after commit, synchronise, fetch | every operation, the browser |
| Administration | the catalogue: units, upgrades, types, factions, rules, texts, images, settings | save, delete, upload | evicts the improvements of players |
| Read models, wiki, frontends | none of their own | queries, page assembly | read only |

### What is hard about it

* **Interleaving.** Every request and every poller runs beside the others; a
  mission can be executed, cancelled and conquered upon at once. Planet locks
  are the only mutual exclusion, their keys are computed from rows that can
  change before they are granted, and several operations take none.
* **Snapshots.** A transaction reads from the snapshot of its first SELECT
  (MySQL REPEATABLE READ) and writes to the rows as they are: checks and
  effects see different databases.
* **Autocommit sequences.** Cancellation and give-up change several tables
  without a transaction.
* **Crash, stall and retry.** A claimed task survives its worker and is taken
  over after `STALE_PICK_MINUTES`; nothing renews a heartbeat, so a slow worker
  gets a double. A failed mission is retried, and given up at `MAX_ATTEMPTS`.
* **Errors outside the happy path.** A `?` between two steps skips what
  follows: before the retry handling, after a commit, before a re-arm.
* **Dropped requests.** A handler future is dropped with its client at any
  `await`, and takes what follows with it, a lock release included.
* **Rounded times.** Columns and messages keep whole seconds of what the program
  knows in milliseconds: the accrual, the watermarks.
* **One transaction, many rows.** A fight, an expedition and a re-evaluation of
  requirements are each one transaction, but of dozens of steps over rows that
  refer to each other; what goes wrong there is order, not interleaving.
* **Nothing follows by itself.** Watermarks, cached improvements and unlocked
  relations are kept right only because each operation remembers to push, evict
  or re-evaluate what it has changed.

### What makes it correct

* Locks: a section is exclusive, nobody waits in a circle, nothing stays held
  but what a request could not release, everybody gets an answer.
* Scheduler: no mission is lost, none is run by two workers at once unless one
  is taken for dead, a mission commits once, every mission ends.
* Unit missions: units are neither lost nor made, none is stranded on a mission
  nobody will run, an effect happens once and never after a cancellation,
  garrisons stay consistent with the ownership of planets.
* Expeditions: a stack is in one place; cargo travels, is intercepted and lands
  with its carrier; a fleet is not faster than its slowest unit.
* Build missions: nobody builds on credit or beyond a limit, one build per
  planet, one unique unit, nothing that was paid for is lost.
* Unlocks: what a player has unlocked is what he deserves, a master follows its
  groups, what is lent is taken back.
* Combat: report and rows agree, every loss has an enemy, no fleet or cargo is
  left behind, a conquered planet has no defenders.
* Sync: every change of a view is told, and a browser that missed one notices.
* Accounts: an alliance has its owner and its size, time is paid as exactly as it
  is recorded, a cached improvement is current.
* Administration: nothing is saved by half, an edit takes nothing from another
  entity, and reaches the players.

`PROJECT.json` lists, under `hazards`, each place of the code where one of
these could go wrong, with the properties that would notice.

## 2. The modules and the code

| Module | Models |
|---|---|
| `LockService` | the promise of the named locks, as an abstract specification |
| `NamedLocks` | `lock.rs` and `run_locked`; implements `LockService` |
| `MissionScheduler` | the pollers, the runner, retry and give-up |
| `SchedulerPromises` | what the scheduler promises of a mission, whichever poller runs it: the properties of `MissionScheduler` |
| `AccountsPromises` | what players are promised, whichever requests overlap: the properties of `Accounts` |
| `UnitMission` | registration, cancellation, execution and return of unit missions, step by step, for one kind of unit |
| `TravelRules` | who may travel where, how fast, and who intercepts (pure definitions) |
| `Expeditions` | registration, interception, landing and expiry for fleets of several kinds, with cargo, transaction by transaction |
| `BuildMission` | BUILD_UNIT and LEVEL_UP: charge, limits, delivery, refund, give-up, conquest |
| `Requirements` | the requirement engine as a function on the tables a transaction sees |
| `Unlocks` | the operations that trigger it, time specials, temporal units, repairs, edits of requirements and groups |
| `CombatRules` | who is an enemy, who may hit whom, damage, captures (pure definitions) |
| `Combat` | a fight, from the stacks that join it to the rows, the report and the outcome |
| `Sync` | the emitters, their watermarks, the browser's cache |
| `Accounts` | accounts, alliances, accrual, the cache of improvements |
| `Catalog` | the administration, statement by statement |
| `ProtocolProofs`, `UnitMissionProofs`, `ExpeditionsProofs`, `BuildMissionProofs`, `CombatProofs`, `CatalogProofs`, `SyncProofs` | the theorems of section 4 |
| `TableTheorems` | lemmas about sums, recursion and tables that they share |
| `MC...` | values and symmetries for TLC |

The modules stack. `NamedLocks` is the protocol; `UnitMission`, `BuildMission`
and `Unlocks` use only what it is shown to implement, a set of locks taken and
released in one step. `MissionScheduler` has the full row protocol of
`scheduled_tasks` and an abstract mission body; the mission modules have the
bodies and reduce the scheduler to a task that is armed, picked or gone.
`UnitMission` has the interleavings of one mission; `Expeditions` and `Combat`
have the inside of its transactions, under locks that exclude everybody else.
`Requirements` is `Unlocks`'s engine, as `CombatRules` and `TravelRules` are the
rules of `Combat` and `Expeditions`. `Catalog` edits what the others read.

**NamedLocks.** `Call` is the entry of `run_locked`. `acquire` sorts and
deduplicates, so the next statement names the least pending key (`IsNext`); a
statement is granted (`GetLock`), refused (`GetLockRefused`: 0 after the
timeout, NULL, a deadlock error) or fails (`GetLockError`). The server counts
grants (`grants`), the program has its own list (`got`); the difference is the
subject of the module. `release` is one SELECT whose `RELEASE_LOCK` calls
interleave with other sessions (`ReleaseKey`). `Retry`, `UndoDone` are the
backoff and the surrender. `ConnectionLost` frees the locks of a session.
Two things put a session back into the pool with its locks (`EndsWithGrants`): a
request that is dropped (`RequestDropped`), and a `RELEASE_LOCK` that fails
(`ReleaseFails`), whose error `acquire` returns after a refusal (`lock.rs:138`) and
discards after a failed `GET_LOCK` (`lock.rs:129`), as `run_locked` does after the
body (`unit_mission_bo.rs:621`). `left` remembers the grants they left to a
session; the sessions of `Clean` have none.

**MissionScheduler.** `PollOnce` is the SELECT of a tick, `Claim`/`LoseClaim`
the UPDATE that compares the version, `Load`, `RunCommits`, `RunFails`,
`RetryMissionIfPossible`, `EmitAfterFailure` are `MissionRunner::execute`,
`RearmRow`/`DeleteRow` the end of the iteration. Time is `BecomeDue` and
`HeartbeatAges`. `Crash`, `TickFails`, `RunnerError`, `RetryHandlingFails` are
the ways out: the death of the process, and each `?`.

**UnitMission.** One player with one kind of unit; the others are the owners of
the planets that are not his, and one action, `PlanetConquered`, which takes any
planet of his but a home planet, the one his units are on or fly to included.
He leaves planets, too: `AskToLeave` and `CanLeavePlanet` are the two queries of
`can_leave_planet`, `LeavePlanet` the UPDATE, in autocommit and without a lock; `hasty`
remembers the planets left while units were on them or their lock was taken. The rows of
`missions` (with their task) and of `obtained_units` are sequences in id order.
`Order` is the part of `common_mission_register` before the locks, `Register`
the transaction under them. `Cancel`, `CancelLocked`, then `Resolve`,
`InsertReturn`, `Repoint`, `ScheduleReturn`: the statements of a cancellation
under its locks, and of a give-up without any. `Claim`, `Load`, `LockAndBegin`
lead to the processors `Explore`, `Deploy`, `ComeHome`, `EstablishBase`,
`EstablishFails`, or to `Intercepted`, each one transaction. `Merge`, `Land`,
`Station`, `Move`, `FlyHome` are what the processors share. Gather has the
protocol of explore and is not a type of its own.

**BuildMission.** A transaction is two steps, its snapshot and its commit:
`BeginRegister`/`CommitRegister` under the lock of the user (and the planet),
`BeginCancel...`/`CommitCancel` and `BeginLeave`/`CommitLeave` under none,
`BeginRun` and `ProcessBuildUnit` or `ProcessLevelUp`, `BeginConquest`/
`CommitConquest`. `ReportError`, `DropUnits`, `DeleteMission` are the autocommit
statements of a give-up. `MayRegister` has every limit of a registration: one
running build, the slots of missions, the unique unit, resources, energy, the
limits of unit types with the type they share, all with the improvements of the
levels obtained by then (`Improved` is `compute_improvement_value`). That a unit
is unlocked is in `Unlocks`; `Refuse` may always happen.

**TravelRules and Expeditions.** `Register` is the whole of
`do_common_mission_register`: the items of an order and what each is inside of
(`inside`), the checks of weight, types, groups, galaxies and
configuration, the split of stacks, the time (`RequiredTime`: the slowest unit
outside fixed groups, the improvement, the distance, a custom duration), and the
rows it writes. `Arrive` is `MissionRunner::execute` for the kind: interceptors
first (`unit_interception_finder_bo.rs`), then what lands, returns or settles.
What they took is in `shot`, whose interceptor took it in `taker`; a report counts
it per interceptor (`InterceptionInfo`) and does not name it, because its rows are
deleted before the report is built.
`Expire` takes temporal stacks, `ToggleSpecial` and `Ally` change invisibility
and enmity in flight, `Regroup` an unlocked speed group, `Age` brings a
conquest to the tenth of its time after which it cannot be cancelled.

**Requirements and Unlocks.** A record `t` holds the tables a transaction sees;
each trigger (`TriggerLevelUpCompleted`, `TriggerSpecialLocation`, ...) is an operator from `t`
to `t`, in the order of the code, with the queue of relations whose temporal
units are to go (`RequirementEmit`). An operation of `Unlocks` begins on a
snapshot and commits its difference; `Proceed` is what follows the commit: the
locks of the planets the lost units are on, re-read up to five times, and the
removal. `Claim`, `HandleIsReady`, `HandleEffectEnd`, `HandleUnitExpired`,
`ClearTask` are the effect poller. `raced` remembers that two transactions
overlapped, `edited` which relations the administrator changed: the properties
say what holds of the others.

**CombatRules and Combat.** `BuildAttackInformation` gathers the stacks and
shuffles them into any order; `NextTurn` gives a stack its targets, sorted by
critical score; `Wound`, `Wipe` and `Skip` are a hit, a kill with its detached
cargo, captures and missions, and a target it may not hit. `UpdatePoints`,
`TriggerUnitRequirementChanges`, then `Attack`, `Gather`, `EstablishBase`,
`Conquest` or `NobodyIsLeft` are the end of the processor. Fractions are
multiples of `1 / Scale`; the generator of `java_random.rs` becomes any order
and any roll.

**Sync.** An operation is its commit and the list of keys it will emit, in the
order of the code; `Emit` saves a watermark, computes a view if the player is
connected, and delivers, three steps that interleave with those of other
operations. `Browse` is the browser: connect, compare, fetch, receive, drop,
reload, with the throttle of `ws-event-cache.service.ts`. A watermark is the second
in which its send began (`send_message` takes the time first), for that is all the
handshake tells the browser; the seconds in which a key was sent are numbered. A
save (`Save`) may be of a new second or of an earlier one: because two sends fell
into it, or because one was saved after another that began later. The views whose
last save was of such a second are in `crowded`.
`untold` holds the views that an operation changed (`Commit` compares them before
and after) and whose watermark was not saved since (`SaveWatermark`); `silent` those
the code changes without an emit, and those a crash left so.

**Accounts.** The reads of a handler are one step (`Handle`), its writes another
(`Go`), and each eviction one more. A request carries what it has read of whom
(`reads`); a write of another request to it makes it `stale`, and a stale
request that writes leaves a mark in `crossed`. The properties are stated for
what was not crossed, so that they say exactly which overlaps the code survives.
Resources are the time they were paid for, in half seconds of the run: an accrual
pays what has passed since `last_action` by the clock (`Credit`), and stores the
time of the request rounded to seconds, as the column does (`Rounded`, `Stamp`).
`paid` has the time and the number of the accruals.

**Catalog.** A handler with one statement is `Edit`; the others are a request
with steps: `SaveOwner`, then its lists (`SaveList`, `InsertEntry`, `CommitList`), its
improvement (`Improve`, `CreateImprovement`, `LinkImprovement`, `InsertGrant`,
`DeleteGrant`, `EvictAll`), an upload (`SaveImage`, `SaveToDisk`, `WriteEnds`,
`LookUpImage`, `InsertImage`), or a look-up and a write (`LookUp`, `Write`).
Foreign and unique keys refuse as the schema says; `Vanish` ends a request
anywhere, `Crash` all of them.

## 3. What is checked

Every property of a passing run has a mutant in `PROJECT.json`: a plausible
mistake in one definition, with which TLC finds the property violated.

| Run | Question | Bounds |
|---|---|---|
| `NamedLocks` | with every refusal, error, lost connection, dropped request and failed release: are sections exclusive (`BodyProtected`), the waits of clean sessions acyclic (`NoWaitCycle`), does a session at rest hold what was left to it and nothing else (`NothingHeldAtRest`), is `LockService` implemented (`ImplementsSections`), does every acquire end (`AcquireReturns`)? | 2 sessions, 3 keys, 2 attempts, 1 request that ends without its release |
| `SchedulerSafety` | with crashes, failed ticks and errors of the runner outside the body: does one worker at a time run a mission (`OneRunner`), does it commit once (`CommitsOnce`)? | 2 workers, a unit and a build mission, 2 attempts, 2 faults |
| `SchedulerLive` | with a crash, a failed tick, a late error or a worker taken for dead: is no mission lost (`NoLostMission`), does every one end (`EveryMissionEnds`)? | the same, 1 fault |
| `UnitMissionRace` | with runs that fail, crash, stall, fail late or are intercepted, a conquest and a departure: are units conserved (`UnitsConserved`), never stranded (`NoStrandedUnits`), garrisons on their owner's planets, but for one left in haste (`RestsOnOwnPlanet`); do effects happen once (`ActsOnce`), and never after a cancellation (`CancelHolds`); do units arrive (`UnitsArrive`)? | 2 workers, 1 client, 3 planets (own, enemy's home, free), 2 units, 1 order of any type, 1 cancellation or departure, 2 attempts, 2 faults |
| `BuildMissionRace` | `NeverOverdrawn`, `OneAtATime`, `UniqueOnce`, `NothingLost`, `LevelIsPaid` | 2 clients, 2 workers, 2 planets, 2 kinds of unit, 3 orders, 1 cancellation, 2 attempts, 2 faults |
| `BuildMissionRefund` | a violation, see section 5 | no fault |
| `Unlocks` | is what is unlocked what is deserved (`UnlockedAsDeserved`), does a master follow its groups (`MasterFollowsSlaves`), is what is lent taken back (`NothingLastsForEver`)? | 2 players, one of them a newcomer, 1 client, 1 worker, 1 effect poller, 11 relations, 3 operations, 1 fault |
| `Combat` | do the rows follow the report where no unit has `bypass_shield` (`RowsFollowPlainReport`), does everything keep its mission and cargo (`FleetsAndMissions`), has every loss an enemy (`LossesHaveEnemies`), is a conquered planet cleared (`ConqueredIsCleared`)? | 3 fleets, 5 garrisons, the four kinds of mission that fight, every order of the stacks, every roll |
| `Expeditions` | does cargo stay with its carrier (`CargoStaysAboard`), is what interceptors took counted and told to those it concerns (`InterceptionsAreReported`), are `UnitsAccountedFor`, `MarkersHoldUnits`, `NobodyOutrunsTheFleet` true? | 3 orders, 2 events (expiry, special, alliance, group, age) |
| `Sync` | is every change of a view told (`EveryChangeIsTold`), does a browser that missed one notice, unless two sends were of one second (`StaleIsNoticed`)? | 2 players, 1 browser, 2 operations at once, 2 operations, 3 events (of the browser, lost emits, sends of one second) |
| `Accounts` | `AlliancesAreOwned`; is the time up to `last_action` paid, give or take half a second an accrual (`SecondsArePaid`); `CacheIsCurrent` | 3 players, 2 requests at once, alliances of 2, 3 operations, 3 half seconds |
| `Catalog` | `NothingIsHalfSaved`, `GrantsAreKept`, `EditsReachPlayers` | 2 administrators, 2 requests of several statements, 1 of one, 1 fault |

### Why the bounds are enough

*Locks.* Two sessions and two keys are what a wait cycle needs; with three keys
a session can hold one, wait for one and have one to come. One refused attempt
and one more show the undo and the retry.

*Scheduler.* Two workers race for a row; a third adds no new pair, since a
claim compares a version. A unit mission and a build mission are the two ways
a mission is closed. Two faults allow a crash while the consequences of another
fault are open.

*Unit missions.* A planet of the player, of an enemy and of nobody are the cases
the processors tell apart, and the player's is no home planet: it is conquered or
left while units fly home to it, rest on it or are being sent, and the one he
settles on as well. A departure beside a cancellation has one statement more to
interleave, which the run leaves out for its size; the proofs have both. Two units allow a stack to be split, sent away and
merged again, and one order has a run, a double of it, a cancellation and a
give-up at work on it. Orders that build on each other are in `Expeditions`.

*Build missions.* Two clients ask at once, or one asks while the other's order
is delivered, cancelled or given up. Two faults exhaust the two attempts. A
unique unit costs two and the purse holds three; energy, missions and the types'
limit are chosen so that a level, and only a level, makes room for one more.

*Unlocks.* Three operations are a build, what makes it lost, and what gives it
back, or two triggers that overlap and a third that could repair; the relations
form the chains the engine is written for (a planet that brings a special that
brings a unit, groups that unlock a master). A failure takes the place of an
operation.

*Combat and expeditions.* The garrisons are chosen by case: allies, cargo,
shields that bypass, captures, an empty planet. Three orders are a fleet that
goes out, one that intercepts it and one that meets what is left.

*Sync, accounts, catalogue.* Two requests overlap, and the third operation (or
the edit of one statement) is what one of them has made stale. Half seconds are the
coarsest clock on which rounding to a second goes both ways, exact and up.

`CHECK_DEADLOCK FALSE` everywhere but for the locks: when every operation that
the bound allows is finished and no fault is left, a bounded behaviour ends. The
lock run checks for deadlock.

Symmetry is used for workers, clients, requests and administrators, in runs
without temporal properties.

### Fairness

* `NamedLocks!Fairness`: a pinned session goes on with its statements (weak
  fairness of `AcquireStep` and `BodyEnds`), because every wait in `acquire` has
  a timeout (`TIMEOUT_SECONDS`) or is a sleep, and a body ends.
* `MissionScheduler!Fairness`: each poller loops for ever (`spawn_poller`), time
  passes for each row. No fairness of faults, registrations or cancellations.
* `UnitMission!Fairness`: pollers and requests go on once they started. Nothing
  obliges a player to order or cancel.

The other modules state no liveness: what must follow in them follows inside a
transaction, or not at all.

## 4. What is proved

TLAPS proves these for every value of the constants: any number of sessions,
workers, requests, planets, kinds of unit, orders and faults. A theorem assumes
the `ASSUME`s of its module, which TLC evaluates in the runs, and where it says
so that a fault is not in `Faults`. The invariants were checked by TLC first.
`PROJECT.json` lists the theorems; the argument is in the proof modules, one step
per action.

**`ProtocolProofs`: the locks.** `IndInv` is `TypeOK` and four facts about one session:
what the program remembers is granted (`GotIsGranted`), grants exclude each other
(`GrantsExclude`), and what is held agrees with the place in the protocol
(`GotAtPlace`, `NoStrayGrants`). `Invariance`, `TypeCorrect` and `BodyIsProtected`
follow with every fault. With a dropped request a session may keep what nobody
remembers, and so it may with a release that fails. What they left is on record
(`left`), and `NoStrayGrants` says that the rest is what the program
remembers: the server has for a session the grants left to it and one for each key
of its request. `RestIsEmpty` follows, whatever requests the session served since.
`OrderIsAscending` and `WaitsAreAcyclic` are about the sessions to which nothing was
left (`Clean`): such a session holds only keys below the one it waits
for, so the one that waits for the greatest key in a circle waits for nobody in
it. `Refinement` maps the protocol to `LockService` (a section has the keys of
its grants), step by step, dropped requests and failed releases included.

**`ProtocolProofs`: the scheduler.** The protocols of this module share names, so
the scheduler is an instance here (`Scheduler!Spec`) and what its module assumes of
its constants is a hypothesis (`SchedulerParameters`), which all theorems about it
have. `SchedulerTypeCorrect` and `CurAtPlace` need nothing else.
`OneRunsIt` and `CommitsAreSingle` assume that nobody who still runs is taken for
dead (`"stall" \notin Faults`): `RunInv` says that whoever works on a mission has
the version of its row (`ClaimsAreHeld`), that a version a poller read is not
newer than the row (`BatchIsOld`), and that a mission that is not registered yet
is untouched (`UnregisteredIsFresh`); `CountInv` counts commits and failures along
the places of the runner, which gives `GiveUpIsLate` too. `GivenUpIsUndone`
excludes `"late"` as well. `NoMissionIsLost` excludes the runner's
errors outside the body (`"dispatch"`, `"retry"`, `"emit"`), not crashes or stalls:
a worker that is about to delete a task knows that its mission is over
(`ClosingKnowsWhy`).

**`ProtocolProofs`: the accounts.** An instance too (`Accounts!Spec`, under
`AccountsParameters`). `SecondsArePaid` comes of `Accounted`: what a player was paid
is what his row was paid for and what open requests counted without writing yet,
up to half a second for each accrual (`PaidUp`, `PaidOnce`), since the `last_action`
that a request stores is off by no more from the clock it paid by (`RoundedFacts`).
`CacheIsCurrent` comes of `Cached`: an entry lacks only what an open request has
written and is going to evict; the time to live plays no part.
`AlliancesAreOwned` comes of `Allied`: what a request has checked (`Checked`)
still holds when it writes, or it was crossed.

**`BuildMissionProofs`.** A request that is about to commit has the locks of its
order, and the planet and the upgrade are still free (`Checked`); two of them would
both have the lock of the user (`OneCommits`), whence `OneAtATime`; levels are
numbered by the missions that ask for them (`Numbered`), whence `LevelIsPaid`.
`Stock` describes the units: a stack in build is the order of its mission, once
(`Stocked`), its price is on the mission (`Sold`), a request has an order that
may be charged (`Requested`), and what a worker read before a delivery is still in
build or gone while it holds the lock of the planet (`Snaps`). Every step moves
the stacks by `StackStep`: a stack stays, goes, is `Shipped` by a worker, or is the
one a registration inserts. `UniqueOnce` needs `Single`, too: a request for a
unique unit commits while there is none. `NothingLost` is an invariant because
no step lowers `Balance`, the purse, the researches, the units and what is gone
(`NextBalance`): a refund gives at least what it deletes, a delivery lands at
least what it takes. `SpecSolvent` proves the first and the last conjunct of
`NeverOverdrawn`. Its limits of energy and of types do not hold for all constants:
with `"stall"` a worker that is late by more than a level sets the level back to
the one it was paid for, and the improvements with it; the run is too short for
that, and for a level that is worth so much.

**`TableTheorems`.** Sums over finite sets (`Total`, the `MapThenSumSet` of the
models), recursion on the numbers for a step that is a function, and tables as
sequences. The library's induction theorems take an operator, which no
prover here can instantiate. So a claim is a set, of subsets or of numbers, and
`WFMin` gives a smallest one outside of it. `TotalGather`, `TotalClear`,
`TotalChange` and `TotalSplit` are what the proofs about units cite.

**`UnitMissionProofs`.** `Inv` has eight parts: types (`Typed`), what kind of row a
mission is (`Kinds`), that a mission that had its effect is over (`IsOver`), that
units at rest are on a planet of the player (`IsOwn`), that whoever is past the locks has them
(`IsLocked`), that the units it read are still there (`IsRead`), that the planets it read as the
player's still are if it has their lock, unless they were left in haste (`IsSeen`),
that it is the only one to act (`IsOnce`). Every action is shown to be a `Step`: of the tables row by row and
stack by stack with the sum of the units kept, and of one process along its path.
That a `Step` keeps `Inv` is proved once. `UnitsConserved`, `ActsOnce`,
`RestsOnOwnPlanet` and `TypeOK` follow, with runs that fail, stall, crash, fail late
or are intercepted, with sequences cut short and planets conquered or left.
`RestsOnOwnPlanet` is about the units on a planet that was not left in haste, since
nothing keeps `leave_planet` from it (section 6).
`NoStrandedUnits` and `CancelHolds` assume `"cut" \notin Faults`: a cancellation
that resolved its mission has the locks until the units are repointed
(`IsCancelled`), and units under a mission are under one that will run or that
somebody is about to send home (`Cared`).

**`ExpeditionsProofs`.** For any catalogue of units, any planets, players and
interceptors, and any orders, whose items are inside of an earlier one if of any
(`OrdersAssumption`), from any tables with units at rest or deployed under one
marker a planet (`StartAssumption`). All five properties are part of one `IndInv`
(`TablesStaySound`), because each step needs several. Units are on a mission of
their user that is a marker or still under way (`OnMissions`): otherwise what
arrives could take others along. A carrier is not carried itself (`Carried`), so
a split or a landing has one level to follow. A marker is open exactly as long as
it has units (`MarkersHold`), and one per player and planet (`MarkersDiffer`), which
is what lets `move_unit_to_planet` use the first it finds. `UnitsAccountedFor` is
inductive as a sum over the rows, the shot and the expired (`Accounted`): a split, a
join and a landing keep it, an interception and an expiry move rows from one
table to the other. `InterceptionsAreReported` needs that a mission that lost units
is over and stays so (`ShotAreOver`), or a later arrival would lose more of it; that the
blocks of a report count what was taken is the bijection of the taken stacks and
their pairs with the interceptor. `NobodyOutrunsTheFleet` compares with each row aboard (`Outruns`): a
registration takes the slowest speed, and `SlowerTakesLonger` is the arithmetic; a
return copies the time of a mission whose crew it takes over. Two lists are
worked off item by item, the items of an order (`Loads`, `LoadStep`) and the stacks
that land (`Moving`, `MovingStep`); for each the claim about the first n items is a
set of pairs of n and what they come to, which `TableTheorems` carries to the end.

**`CombatProofs`.** For any units and types, rules of attack, critical scores and
improvements, any alliances and scenarios (`RulesAssumption`, `CombatAssumption`,
`ScenarioAssumption`), any order of the stacks and any rolls of the captures. All
four properties are part of one `IInv`:
* Who shoots: the targets of a turn are enemies whose type the attacker may hit
  (`Aimed`), so `LossesHaveEnemies` is kept hit by hit, as sums over the stacks.
* Who is there: our mission has the rows it brought (`Mine`), every row is on an
  open mission of its user (`UnderWay`), every open mission has rows (`Manned`),
  and cargo has its carrier unless that was just wiped out, in which case its stack
  is in `detached` (`Cargo`, `Aware`).
* What is counted: stacks and rows are of the same units, and what is no stack was
  captured or passes by (`Known`); a row counts what its stack does, or more by
  captures, unless the stack counts none (`Counts`). Where no unit has
  `bypass_shield`, the units a stack still counts cover the health and the shield it has
  left (`Worn`), whatever was rounded: so it loses its last unit only by `Wipe`,
  which deletes the row.
* How it ends: `FleetsAndMissions` and `ConqueredIsCleared` are claims about the end
  (`Settled`), which the five ways to end establish from the above. What lands or
  goes home is moved item by item, as in `ExpeditionsProofs`; a conquest leaves no
  defender, because it needs all of them wiped out and every garrison was a stack.

**`CatalogProofs`.** For any catalogue whose rows are numbered as `AUTO_INCREMENT`
numbers them and whose improvements are of one entity each (`StartAssumption`),
and for any bodies (`BodyAssumption`: none names an improvement, because
`save_for_entity` and `add_unit_type_improvement` alone write that column). `Typed`
says that no id is given twice and that a request carries what the statement it
comes to uses. `EditsReachPlayers` is inductive with it. `NothingIsHalfSaved` comes
of `WholeLists`, where what a request has inserted and has to insert together is
what was asked of its list, and of `FilesFound`, where an upload comes to its
INSERT only with the file written whole. `GrantsAreKept` is about who may change
or delete what hangs on an improvement, and needs that an improvement is never
of two entities: not of one that has it in its row, one for which a request has read
it or just made it, nor one it was given to by a grant (`OneHolder`). What an INSERT
of an owner brings is nobody's yet (`OwnIsSpare`), and what a request read of an
entity is still in its row or was overtaken by a second first edit (`Current`).

**`SyncProofs`.** For finitely many players, any planets, clients, missions and
operations (`SyncAssumption`), and any tables to start from in which the ids to come
are new and no fleet has a marker on a planet of its owner (`StartAssumption`).
`EveryChangeIsTold` comes of `AllToTell`: an untold view is silent, or some worker has
an item left that reaches its player, resolved against the owners and the lists of
the moment at which it is sent. An operation touches a view only through the
missions that go and begin, the owners, the lists and the explorations
(`Touched`); for each operation one lemma shows that whoever is touched is told by
an item of its job or is in the silence. Commits of others may not take an item
its audience away either, whence those of an owner and of a list tell both the
old and the new one. A conquest needs `NoMarkerAtHome`: the view of a player's
planet leaves his own markers out. `StaleIsNoticed` needs `Fresh` as well: each
message, job and reply has a second that is not after the last, and what has the
last one of a view that is neither untold nor crowded is that view (`Current`). Every
step is one of `Ages`: seconds grow, what changes is untold, and a save of a second
that was used before makes its view crowded. A fetch that outlives an
operation needs no such claim: the token it stores is never a watermark (`HttpToken`).

### What is only model-checked

* Liveness (`AcquireReturns`, `EveryMissionEnds`, `UnitsArrive`): the prover knows
  neither `ENABLED` nor a measure of progress.
* The limits of energy and types in `NeverOverdrawn`, for the reason above.
* `UnlockedAsDeserved`, `MasterFollowsSlaves` and `NothingLastsForEver` of `Unlocks`.
  A re-evaluation is a chain of recursive passes over relations, groups and
  players in one transaction, and what it computes is an induction over data.
* What `Improved`, `ShareRoot` and the other recursive functions compute. The
  proofs use what holds of any value they may have; `LevelCost` is shown to be a
  number.

## 5. Disagreements

One run ends in a violation, of a sentence in the sources:

* `BuildMissionRefund`: a cancellation that read the mission before its
  completion committed refunds the price although the units or the level are
  delivered; two cancellations refund it twice.

## 6. Known gaps without a run

Found while modelling. Those with the name of a definition can be reproduced by
adding it to a configuration; the others are behaviours of the modules that the
properties above exclude, or details of the source.

*Locks and scheduler*

* A request that is dropped, or whose `RELEASE_LOCK` fails (`lock.rs:129` and
  `unit_mission_bo.rs:621` discard its error, `lock.rs:138` returns it with the keys still
  held), leaves its session in the pool with its locks. The next request on it
  does not know of them, nobody releases them before the connection closes, others
  are refused meanwhile, and two such sessions can wait for each other until the
  timeout. `NothingHeldAtRest` says that nothing else is held, `NoWaitCycle` excludes
  these sessions (`left`). `lock.rs:25-27` says "a session never holds a key greater than one it is
  waiting for, which makes such cycles impossible".
* An error in `execute` before the body (`unit_mission_bo.rs:695`: no
  connection, a failing SELECT) is not a failed attempt: `run_mission` returns
  `None` and `poll_once` deletes the task of a mission that is still open.
  `NoLostMission` with `Faults = {"dispatch"}`.
* An emit that fails after the attempt was counted discards the retry instant:
  `RetryIsKept` with `Faults = {"emit"}`.
* An emit that fails after the commit is a failed attempt, and the last one gives
  up a mission that succeeded: `GivenUpDidNothing` with `Faults = {"late"}`.
* A poller keeps its connection while `run_mission` takes another
  (`mission_scheduler_bo.rs:89`): as many pollers and requests as connections
  wait for each other. No module has the pool.

*Unit missions*

* A cancellation or give-up that stops between two of its autocommit statements
  (`unit_mission_bo.rs:302`) leaves a RETURN_MISSION without a task, units and
  all, although `return_mission_registration_bo.rs:80-81` says the row "commits
  atomically": `ReturnIsScheduled` with `Faults = {"cut"}`.
* A run that waited for the locks of a cancellation finds no units, and 0 of 0
  intercepted is reported as a full interception: `InterceptedHadUnits`.
* The mission limit is checked before the locks (`LimitHolds`, two clients); two
  bases founded from planets of different owners share no lock, and each counts
  the planets before the other's commit (`PlanetLimitHolds`, two workers).
* `leave_planet` (`planet_bo.rs:157-183`) looks whether units are on the planet and then
  takes its owner away, in autocommit and without its lock. Units that land between
  the two stay on a planet of nobody, from where they cannot be ordered until the
  player settles it again; the UPDATE does not ask for the owner either, and takes
  the planet from whoever conquered it in between. `LeftPlanetsAreEmpty` in the run
  `UnitMissionRace`.
* `register_build_unit` checks the owner before it waits for the locks: a
  conquest in between leaves a build on a planet the player lost.

*Expeditions*

* Cargo is checked for the support of its group and of the galaxy, which the
  comment on `collect_loaded_units` says only carriers are.
* `load_information` deletes the intercepted stacks
  (`mission_interception_manager_bo.rs:90-92`) before `handle_mission_interception` reads
  them, it says, "BEFORE the intercepted stacks are deleted (so the report can still load
  their data)" (167-169): each entry of the breakdown is null, and the involved units
  lack those that were taken, where lines 118-119 have "the units as they were
  before interception removal". `ReportsShowTheFleet`; what a report does say is how
  many were taken and by whom (`InterceptionsAreReported`). A partial interception of a
  DEPLOY is reported to nobody.
* The check for a single deployment skips stored units. The improvement of the
  speed is that of the first slowest unit, even in a group of fixed speed.
* A carrier that expires in flight leaves its cargo with a dangling
  `owner_unit_id`. Deleting a mission row leaves its `scheduled_tasks` row. The
  walk over parent types has no guard against a cycle.

*Build missions*

* Units that were refunded and delivered (section 5) exceed limits and energy:
  `NeverOverdrawn` discounts them.
* The limit of a type counts the direct children of a root only, and
  `find_unit_types_with_user_info` shows a limit that is not the enforced one.
* `leave_planet` may overtake a registration of a build as it does a landing.

*Unlocks*

* Two overlapping triggers of a player can each miss what the other did (`raced`).
* A count of units that jumps over a threshold is never evaluated at it; a stack
  sent away as a whole loses `HAVE_UNIT` until it returns; grants and expiries of
  temporal units trigger nothing.
* `activate` checks that a special is unlocked outside its transaction, and no
  key keeps it unique. A handler that fails has its task deleted all the same.
* Two subscriptions can be given one planet. Edits of requirements re-evaluate
  nobody; a deleted group leaves its master stale; a group without requirements
  counts as met; a requirement is deleted without looking at the entity of the
  path; a requirement added to a deleted group makes its relation anew.
* A lost relation of one player removes the temporal units of others:
  `OnlyTheLoserPays`.

*Combat*

* The killed of a report and the rows part when damage crosses a shield in part
  (`attack_mission_manager_bo.rs:714`, against its comment at 1378):
  `RowsFollowReport` on the fleet `Sappers`.
* Gather counts the units loaded before the fight. A conquest succeeds with no
  attacker left. Captives merged into a stack that fights on die with it, and
  the captor is not told of what he has. A wiped stack still takes its turn.

*Sync*

* After a throttled reconnection or a reload the browser records the server's
  times before it fetches, and a fetch that is lost is never repeated
  (`ws-event-cache.service.ts:103`, `websocket.service.ts:419`).
* A socket that authenticates and then misses its handler stays deaf
  (`websocket.service.ts:256`, against its own comment).
* Not told of a change: the enemy of a cancelled mission, the enemies of a planet
  that is left, those who see an invisible fleet's marker, the owner of garrisons
  an invisible fleet wipes out, whoever an exploration lets see more of a list.
* Cancelling a build does not announce `user_data`. A crash between commit
  and emit is not made up for.
* The handshake truncates the time of a send to its second
  (`websocket_events_information_bo.rs:65-68`): of two sends of a key within one second a
  browser that got only the first has the last time, and notices nothing until the
  key is sent again; a send that is saved after one that began later can have the same
  effect. `StaleIsNoticedAtOnce`; `StaleIsNoticed` excludes the views in `crowded`. The column
  rounds to milliseconds before that, which costs a fetch.
* `send_warning` is called nowhere, and keeps the time of a message only.

*Accounts*

* Requests that overtake each other can leave an alliance over its size, or
  whose owner is not a member (`crossed`).
* An account cannot be deleted while it has a join request, a visited tutorial
  entry, a read message, or a DEPLOYED mission row; deletion forgets the reports
  of every mission, leaves tasks, and evicts nothing.
* `members()` asks for alliance 4 (`alliance_bo.rs:92`). A join request is
  withdrawn by id, whosever it is.
* `last_action` has no fraction (`02_schema.sql:985`): the column rounds the time that is
  bound to it, and the next accrual pays the milliseconds since the rounded time, so
  that up to half a second is paid twice or lost each time, although
  `user_storage_bo.rs:190-192` has "the time elapsed since `last_action`". `SecondsAreExact`;
  `SecondsArePaid` has the bound that is true. An accrual within the half second after
  it was rounded up pays less than nothing.
* Overlapping accruals pay the time between twice and may move `last_action` back; a
  new level pays for the time before it. Splits and merges of stacks change
  improvements without an eviction; evictions come after emits whose errors skip
  them.

*Administration*

* A critical attack is saved in autocommit: a fight can see half of it, and one
  that cannot be deleted loses its entries first. A unit whose row is refused
  leaves its improvement behind. Two first edits make two improvements (`raced`).
* Edits of a special location's improvement evict nobody, against the comments of
  `improvement_bo.rs`. A request that ends before its eviction leaves players
  with what they had (`broken`).
* An upload that dies leaves a partial file that is never written again. Marks of
  visited and read are not unique. A translation can be moved to another text, and
  is deleted by the id of its text. Rules, entries and spawn locations may
  refer to nothing. Parents and shared counts may form a cycle.

## 7. What is not modelled

* The pool of connections, TLS, routing, start-up, configuration files.
* Row locks of InnoDB: the writes of a transaction happen at its commit; two
  transactions that write the same rows are serialised by them anyway.
* Floating-point formulas (production, distance): times are abstract or small
  integers, aggregates are the set of what they count.
* DTOs, ranking, browser tracking, searches: queries without a protocol. The
  pushes of time specials, unlocks, tutorials and broadcasts: the mechanism of
  `Sync` once more.
* The wiki generator reads the catalogue once and writes files. The Java engine is
  the program that was ported. Of the frontends, the event cache and the
  connection are in `Sync`; pages and forms are not modelled.
* `SaveConfiguration` omits the flag of privileged settings.

## 8. Plan

Written: every module of section 2, their runs, and the proofs of section 4 about
the locks, the scheduler, unit missions, expeditions, build missions, combat,
accounts, the catalogue and the emitters.

Left, the most useful first:

1. Proofs about `Unlocks`: first lemmas on one pass of `Requirements` (what it
   grants, loses and leaves alone), with the passes as recursive functions.
2. A module for the pool of connections, which the pollers, `run_mission` and the
   requests share (section 6).
