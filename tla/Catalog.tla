-------------------------------- MODULE Catalog --------------------------------
(***************************************************************************)
(* The administration of a universe's definitions: upgrades, units, types, *)
(* factions, special locations, galaxies, speed groups, attack rules,      *)
(* critical attacks, rules, images, texts and settings (the bo modules     *)
(* behind owge-rest/src/routes/admin), and the improvements that four of   *)
(* them own (improvement_bo.rs).                                           *)
(*                                                                         *)
(* A handler is a sequence of SQL statements on a connection in autocommit *)
(* unless it opens a transaction: a handler of one statement is one step,  *)
(* a longer one is a request whose steps interleave with those of others   *)
(* and which can end between any two of them.  The reads that begin a      *)
(* request are one step.  A row keeps the columns that refer to other      *)
(* rows; a refused request changes nothing and is not shown.               *)
(***************************************************************************)
EXTENDS Integers, Sequences, FiniteSets, Functions

CONSTANTS
    Admin,        \* requests that can be in progress at once
    Start,        \* [db, lists]: the definitions a behaviour starts with
    Body,         \* per table, the bodies an administrator may send
    ListBody,     \* per table of entries, the lists he may send
    Image,        \* contents that may be uploaded
    Lang, User,
    MaxRequests,  \* of several statements
    MaxEdits,     \* of one statement
    MaxFaults

VARIABLES
    db,       \* table -> id -> row
    ids,      \* AUTO_INCREMENT of each table
    lists,    \* table of entries -> owner -> sequence of reference ids
    files,    \* DYNAMIC_FILES_PATH: content -> "partial" or "whole"
    work,     \* the requests in progress
    dirty,    \* tables with improvements edited since IMPROVEMENT_CACHE was emptied
    saved,    \* ghost: every list somebody asked for, by table and owner
    kept,     \* ghost: the unit type improvements given to an entity and not taken away
    raced,    \* ghost: entities given an improvement by two requests at once
    broken,   \* ghost: a request ended after an edit and before its eviction
    requests, edits, faults

vars == <<db, ids, lists, files, work, dirty, saved, kept, raced, broken, requests, edits, faults>>
ghosts == <<saved, kept, raced, broken>>

Null == 0
Idle == [do |-> "idle"]
Improvable == {"units", "upgrades", "factions", "special_locations"}

(* The foreign keys between the tables of definitions, all RESTRICT.       *)
Key(t, c, u) == [table |-> t, column |-> c, target |-> u]
ForeignKeys ==
    {Key(t, "image", "images_store") : t \in {"units", "unit_types", "upgrades", "factions", "special_locations", "speed_impact_groups"}}
    \cup {Key(t, "improvement", "improvements") : t \in Improvable \cup {"improvements_unit_types"}}
    \cup {Key("unit_types", c, "unit_types") : c \in {"parent", "share"}}
    \cup {Key(t, "group", "speed_impact_groups") : t \in {"units", "unit_types"}}
    \cup {Key(t, "critical", "critical_attack") : t \in {"units", "unit_types"}}
    \cup {Key("unit_types", "attack", "attack_rules"), Key("units", "type", "unit_types"),
          Key("upgrades", "type", "upgrade_types"), Key("improvements_unit_types", "type", "unit_types"),
          Key("special_locations", "galaxy", "galaxies"), Key("planets", "galaxy", "galaxies"),
          Key("planets", "special", "special_locations"), Key("obtained_upgrades", "upgrade", "upgrades"),
          Key("translatables_translations", "translatable", "translatables"),
          Key("tutorial_sections_entries", "symbol", "symbols"),
          Key("user_read_system_messages", "message", "system_messages")}

(* The tables of entries: whose they are, and what MySQL checks of them.   *)
OwnerOf == [attack_rule_entries |-> "attack_rules", critical_attack_entries |-> "critical_attack",
            factions_unit_types |-> "factions", faction_spawn_location |-> "factions"]
OwnerKeyed == {"attack_rule_entries", "factions_unit_types"}
EntryKeyed(l, e) == l = "factions_unit_types" => e \in DOMAIN db["unit_types"]

(* What a behaviour starts with: rows numbered as AUTO_INCREMENT numbers   *)
(* them, and improvements as save_for_entity leaves them, of one entity    *)
(* each.                                                                   *)
Numbered == Improvable \cup {"improvements", "improvements_unit_types"}
ASSUME StartAssumption ==
    /\ Numbered \cup {"images_store"} \subseteq DOMAIN Start.db
    /\ DOMAIN Start.lists = DOMAIN OwnerOf
    /\ \A t \in Numbered :
          /\ IsFiniteSet(DOMAIN Start.db[t])
          /\ DOMAIN Start.db[t] = 1 .. Cardinality(DOMAIN Start.db[t])
    /\ \A t \in Improvable : \A id \in DOMAIN Start.db[t] :
          /\ "improvement" \in DOMAIN Start.db[t][id]
          /\ Start.db[t][id].improvement \in DOMAIN Start.db["improvements"] \cup {Null}
    /\ \A g \in DOMAIN Start.db["improvements_unit_types"] :
          /\ "improvement" \in DOMAIN Start.db["improvements_unit_types"][g]
          /\ Start.db["improvements_unit_types"][g].improvement \in DOMAIN Start.db["improvements"]
    /\ \A t, u \in Improvable : \A x \in DOMAIN Start.db[t], y \in DOMAIN Start.db[u] :
          Start.db[t][x].improvement = Start.db[u][y].improvement
             => <<t, x>> = <<u, y>> \/ Start.db[t][x].improvement = Null

(* No body names an improvement, and lists are lists of ids.               *)
ASSUME BodyAssumption ==
    /\ \A b \in Body.units : "improvement" \notin DOMAIN b
    /\ \A b \in Body.special_locations : "improvement" \notin DOMAIN b
    /\ \A l \in DOMAIN OwnerOf : ListBody[l] \subseteq Seq(Nat)

------------------------------------------------------------------------------
(* MySQL: one statement.                                                   *)

Entries(l, id) == IF id \in DOMAIN lists[l] THEN lists[l][id] ELSE <<>>

Keyed(t, row) ==
    \A k \in ForeignKeys : k.table = t /\ k.column \in DOMAIN row
        => row[k.column] \in DOMAIN db[k.target] \cup {Null}

Referenced(t, id) ==
    \/ \E k \in ForeignKeys : k.target = t /\ \E r \in DOMAIN db[k.table] : db[k.table][r][k.column] = id
    \/ \E l \in OwnerKeyed : OwnerOf[l] = t /\ Entries(l, id) # <<>>
    \/ t = "unit_types" /\ \E f \in DOMAIN lists["factions_unit_types"] : id \in Range(Entries("factions_unit_types", f))

Without(f, S) == [x \in DOMAIN f \ S |-> f[x]]
Put(f, x, v) == [y \in DOMAIN f \cup {x} |-> IF y = x THEN v ELSE f[y]]
Over(columns, row) == [c \in DOMAIN columns \cup DOMAIN row |-> IF c \in DOMAIN columns THEN columns[c] ELSE row[c]]
Rows(t) == {db[t][r] : r \in DOMAIN db[t]}

InsertRow(t, row) ==
    /\ Keyed(t, row)
    /\ ids' = [ids EXCEPT ![t] = @ + 1]
    /\ db' = [db EXCEPT ![t] = Put(@, ids[t] + 1, row)]

UpdateRow(t, id, columns) ==
    /\ id \in DOMAIN db[t] /\ Keyed(t, columns)
    /\ db' = [db EXCEPT ![t][id] = Over(columns, @)]
    /\ UNCHANGED ids

DeleteRow(t, id) ==
    /\ id \in DOMAIN db[t] /\ ~Referenced(t, id)
    /\ db' = [db EXCEPT ![t] = Without(@, {id})]
    /\ UNCHANGED ids

------------------------------------------------------------------------------
(* Handlers of one statement.                                              *)

(* A time under five seconds, or none, becomes a minute.                   *)
UpgradeTime(time) == IF time >= 5 THEN time ELSE 60
UpgradeColumns(b) == [type |-> b.type, image |-> b.image, time |-> UpgradeTime(b.time)]

SaveNewUpgrade(b) ==
    /\ b.type # Null
    /\ InsertRow("upgrades", Over([improvement |-> Null], UpgradeColumns(b)))
SaveExistingUpgrade(id, b) ==
    /\ b.type # Null
    /\ UpdateRow("upgrades", id, UpgradeColumns(b))
DeleteUpgrade(id) == DeleteRow("upgrades", id)

SaveNewUpgradeType(b) == InsertRow("upgrade_types", b)
SaveExistingUpgradeType(id, b) == UpdateRow("upgrade_types", id, b)
DeleteUpgradeType(id) == DeleteRow("upgrade_types", id)

SaveExistingUnit(id, b) ==
    /\ b.type # Null
    /\ UpdateRow("units", id, b)
DeleteUnit(id) == DeleteRow("units", id)
UnsetUnitCriticalAttack(id) == UpdateRow("units", id, [critical |-> Null])

SaveNewUnitType(b) == InsertRow("unit_types", b)
SaveExistingUnitType(id, b) == UpdateRow("unit_types", id, b)
DeleteUnitType(id) == DeleteRow("unit_types", id)
UnsetTypeAttackRule(id) == UpdateRow("unit_types", id, [attack |-> Null])
UnsetTypeCriticalAttack(id) == UpdateRow("unit_types", id, [critical |-> Null])

(* A faction that gathers its own shares may not gather more than it all;  *)
(* a share that is not given counts as one.                                *)
Share(s) == IF s = Null THEN 1 ELSE s
GatherIsValid(b) == Share(b.primary) + Share(b.secondary) <= 100
FactionColumns(b) == [image |-> b.image]

SaveNewFaction(b) ==
    /\ GatherIsValid(b)
    /\ InsertRow("factions", Over([improvement |-> Null], FactionColumns(b)))
SaveExistingFaction(id, b) ==
    /\ GatherIsValid(b)
    /\ UpdateRow("factions", id, FactionColumns(b))
DeleteFaction(id) == DeleteRow("factions", id)

SaveExistingSpecialLocation(id, b) == UpdateRow("special_locations", id, b)
DeleteSpecialLocation(id) == DeleteRow("special_locations", id)

SaveNewSpeedImpactGroup(b) == InsertRow("speed_impact_groups", b)
SaveExistingSpeedImpactGroup(id, b) == UpdateRow("speed_impact_groups", id, b)
DeleteSpeedImpactGroup(id) == DeleteRow("speed_impact_groups", id)

SaveNewGalaxy(b) == InsertRow("galaxies", b)
SaveExistingGalaxy(id, b) == UpdateRow("galaxies", id, b)
DeleteGalaxy(id) == DeleteRow("galaxies", id)

(* What a rule is about is not a key: any id will do.                      *)
SaveRule(id, b) ==
    IF id = Null THEN InsertRow("rules", b) ELSE UpdateRow("rules", id, b)
DeleteRule(id) == DeleteRow("rules", id)

UpdateImage(id, b) ==
    /\ b.display /\ b.description
    /\ id \in DOMAIN db["images_store"]
    /\ UNCHANGED <<db, ids>>
DeleteImage(id) == DeleteRow("images_store", id)

SaveNewTranslatable(b) == InsertRow("translatables", b)
SaveExistingTranslatable(id, b) == UpdateRow("translatables", id, b)
DeleteTranslatable(id) == DeleteRow("translatables", id)
(* The id of a translation is taken for that of a translatable.            *)
DeleteTranslation(translation) == DeleteRow("translatables", translation)

(* An entry whose id is not known is inserted under a new one.             *)
AddUpdateEntry(id, b) ==
    IF id \in DOMAIN db["tutorial_sections_entries"]
    THEN UpdateRow("tutorial_sections_entries", id, b)
    ELSE InsertRow("tutorial_sections_entries", b)
DeleteEntry(id) == DeleteRow("tutorial_sections_entries", id)

SaveSystemMessage(b) == InsertRow("system_messages", b)

(* Settings are kept by name; the time of a mission is ten seconds at      *)
(* least.                                                                  *)
IsMissionTime(name) == name \in {"MISSION_TIME_EXPLORE"}
SaveConfiguration(name, value) ==
    /\ IsMissionTime(name) => value >= 10
    /\ db' = [db EXCEPT !["configuration"] = Put(@, name, [value |-> value])]
    /\ UNCHANGED ids
DeleteConfiguration(name) == DeleteRow("configuration", name)

DeleteAdmin(id) == DeleteRow("admin_users", id)
(* Logging in as an administrator renames the row after the account.       *)
AdminLogin(id, name) ==
    /\ id \in DOMAIN db["admin_users"] /\ db["admin_users"][id].enabled
    /\ UpdateRow("admin_users", id, [name |-> name])

EditOne ==
    \/ \E b \in Body.upgrades : SaveNewUpgrade(b) \/ \E id \in DOMAIN db["upgrades"] : SaveExistingUpgrade(id, b)
    \/ \E id \in DOMAIN db["upgrades"] : DeleteUpgrade(id)
    \/ \E b \in Body.upgrade_types : SaveNewUpgradeType(b) \/ \E id \in DOMAIN db["upgrade_types"] : SaveExistingUpgradeType(id, b)
    \/ \E id \in DOMAIN db["upgrade_types"] : DeleteUpgradeType(id)
    \/ \E id \in DOMAIN db["units"] :
          DeleteUnit(id) \/ UnsetUnitCriticalAttack(id) \/ \E b \in Body.units : SaveExistingUnit(id, b)
    \/ \E b \in Body.unit_types : SaveNewUnitType(b)
    \/ \E id \in DOMAIN db["unit_types"] :
          \/ DeleteUnitType(id) \/ UnsetTypeAttackRule(id) \/ UnsetTypeCriticalAttack(id)
          \/ \E b \in Body.unit_types : SaveExistingUnitType(id, b)
    \/ \E b \in Body.factions : SaveNewFaction(b) \/ \E id \in DOMAIN db["factions"] : SaveExistingFaction(id, b)
    \/ \E id \in DOMAIN db["factions"] : DeleteFaction(id)
    \/ \E id \in DOMAIN db["special_locations"] :
          DeleteSpecialLocation(id) \/ \E b \in Body.special_locations : SaveExistingSpecialLocation(id, b)
    \/ \E b \in Body.speed_impact_groups :
          SaveNewSpeedImpactGroup(b) \/ \E id \in DOMAIN db["speed_impact_groups"] : SaveExistingSpeedImpactGroup(id, b)
    \/ \E id \in DOMAIN db["speed_impact_groups"] : DeleteSpeedImpactGroup(id)
    \/ \E b \in Body.galaxies : SaveNewGalaxy(b) \/ \E id \in DOMAIN db["galaxies"] : SaveExistingGalaxy(id, b)
    \/ \E id \in DOMAIN db["galaxies"] : DeleteGalaxy(id)
    \/ \E b \in Body.rules, id \in DOMAIN db["rules"] \cup {Null} : SaveRule(id, b)
    \/ \E id \in DOMAIN db["rules"] : DeleteRule(id)
    \/ \E id \in DOMAIN db["images_store"] : DeleteImage(id) \/ \E b \in Body.images_store : UpdateImage(id, b)
    \/ \E b \in Body.translatables :
          SaveNewTranslatable(b) \/ \E id \in DOMAIN db["translatables"] : SaveExistingTranslatable(id, b)
    \/ \E id \in DOMAIN db["translatables"] : DeleteTranslatable(id)
    \/ \E id \in DOMAIN db["translatables_translations"] : DeleteTranslation(id)
    \/ \E b \in Body.tutorial_sections_entries, id \in DOMAIN db["tutorial_sections_entries"] \cup {Null} : AddUpdateEntry(id, b)
    \/ \E id \in DOMAIN db["tutorial_sections_entries"] : DeleteEntry(id)
    \/ \E b \in Body.system_messages : SaveSystemMessage(b)
    \/ \E c \in Body.configuration : SaveConfiguration(c.name, c.value)
    \/ \E n \in DOMAIN db["configuration"] : DeleteConfiguration(n)
    \/ \E id \in DOMAIN db["admin_users"] : DeleteAdmin(id) \/ \E u \in User : AdminLogin(id, u)

------------------------------------------------------------------------------
(* Requests of several statements.                                         *)

Begin(a, w) ==
    /\ work[a].do = "idle" /\ requests < MaxRequests
    /\ work' = [work EXCEPT ![a] = w]
    /\ requests' = requests + 1
Goto(a, step) == work' = [work EXCEPT ![a].do = step]
End(a) == work' = [work EXCEPT ![a] = Idle]

(* A unit and a special location are saved after an improvement of their   *)
(* own, in a statement of its own: when the row is then refused, the       *)
(* improvement is nobody's.                                                *)
CreateEmpty == InsertRow("improvements", [value |-> 0])

SaveNewUnit(a, b) ==
    /\ b.type # Null
    /\ Begin(a, [do |-> "own", table |-> "units", row |-> b, improvement |-> ids["improvements"] + 1])
    /\ CreateEmpty
SaveNewSpecialLocation(a, b) ==
    /\ Begin(a, [do |-> "own", table |-> "special_locations", row |-> b, improvement |-> ids["improvements"] + 1])
    /\ CreateEmpty
InsertOwner(a) ==
    /\ work[a].do = "own"
    /\ InsertRow(work[a].table, Over([improvement |-> work[a].improvement], work[a].row))
    /\ End(a)
RefuseOwner(a) ==
    /\ work[a].do = "own" /\ ~Keyed(work[a].table, work[a].row)
    /\ End(a)
    /\ UNCHANGED <<db, ids>>

NewOwner(a) ==
    /\ \/ \E b \in Body.units : SaveNewUnit(a, b)
       \/ \E b \in Body.special_locations : SaveNewSpecialLocation(a, b)
    /\ UNCHANGED <<lists, files, dirty, ghosts, edits, faults>>
SaveOwner(a) ==
    /\ InsertOwner(a) \/ RefuseOwner(a)
    /\ UNCHANGED <<lists, files, dirty, ghosts, requests, edits, faults>>

(* The improvement of an entity: found, or made and linked, then updated.  *)
SaveForEntity(a, t, id) ==
    /\ id \in DOMAIN db[t]
    /\ Begin(a, [do |-> IF db[t][id].improvement = Null THEN "create" ELSE "update",
                 table |-> t, id |-> id, improvement |-> db[t][id].improvement, grant |-> Null])
    /\ UNCHANGED <<db, ids, lists, files, dirty, ghosts, edits, faults>>
CreateImprovement(a) ==
    /\ work[a].do = "create"
    /\ CreateEmpty
    /\ work' = [work EXCEPT ![a] = [@ EXCEPT !.do = "link", !.improvement = ids["improvements"] + 1]]
    /\ UNCHANGED <<lists, files, dirty, ghosts, requests, edits, faults>>
LinkImprovement(a) ==
    LET t == work[a].table  id == work[a].id IN
    /\ work[a].do = "link"
    /\ IF id \in DOMAIN db[t]
       THEN /\ UpdateRow(t, id, [improvement |-> work[a].improvement])
            /\ raced' = raced \cup (IF db[t][id].improvement = Null THEN {} ELSE {<<t, id>>})
       ELSE UNCHANGED <<db, ids, raced>>
    /\ Goto(a, "update")
    /\ UNCHANGED <<lists, files, dirty, saved, kept, broken, requests, edits, faults>>
(* Those of a special location do not go through save_for_entity, and      *)
(* nothing empties the cache after them.                                   *)
Evicts(t) == t # "special_locations"
(* Mutant of AfterEdit: the caches are left as they are.                   *)
AfterEditEnds(a) == End(a)
AfterEdit(a) == IF Evicts(work[a].table) THEN Goto(a, "evict") ELSE End(a)
UpdateImprovement(a) ==
    /\ work[a].do = "update"
    /\ UpdateRow("improvements", work[a].improvement, [value |-> 1])
    /\ dirty' = dirty \cup {work[a].table}
    /\ AfterEdit(a)
    /\ UNCHANGED <<lists, files, ghosts, requests, edits, faults>>

(* A unit type improvement: type, value and entity are checked and the row *)
(* inserted, one of a kind by a unique key; or it is found and deleted.    *)
Given(row) == row \in Rows("improvements_unit_types")
AddUnitTypeImprovement(a, t, id, type, value) ==
    /\ id \in DOMAIN db[t] /\ db[t][id].improvement # Null
    /\ type \in DOMAIN db["unit_types"] /\ value # 0
    /\ LET row == [improvement |-> db[t][id].improvement, type |-> type] IN
       /\ ~Given(row)
       /\ Begin(a, [do |-> "grant", table |-> t, id |-> id, improvement |-> row.improvement, grant |-> type])
    /\ UNCHANGED <<db, ids, lists, files, dirty, ghosts, edits, faults>>
Granted(a) == [improvement |-> work[a].improvement, type |-> work[a].grant]
InsertGrant(a) ==
    /\ work[a].do = "grant" /\ ~Given(Granted(a))
    /\ InsertRow("improvements_unit_types", Granted(a))
    /\ kept' = kept \cup {[table |-> work[a].table, id |-> work[a].id, grant |-> ids["improvements_unit_types"] + 1]}
    /\ dirty' = dirty \cup {work[a].table}
    /\ AfterEdit(a)
    /\ UNCHANGED <<lists, files, saved, raced, broken, requests, edits, faults>>
RefuseGrant(a) ==
    /\ work[a].do = "grant"
    /\ Given(Granted(a)) \/ ~Keyed("improvements_unit_types", Granted(a))
    /\ End(a)
    /\ UNCHANGED <<db, ids, lists, files, dirty, ghosts, requests, edits, faults>>

(* Mutant of Belongs: any improvement will do.                             *)
BelongsToAny(g, improvement) == g \in DOMAIN db["improvements_unit_types"]
Belongs(g, improvement) ==
    g \in DOMAIN db["improvements_unit_types"] /\ db["improvements_unit_types"][g].improvement = improvement

RemoveUnitTypeImprovement(a, t, id, g) ==
    /\ id \in DOMAIN db[t] /\ db[t][id].improvement # Null
    /\ Belongs(g, db[t][id].improvement)
    /\ Begin(a, [do |-> "ungrant", table |-> t, id |-> id, improvement |-> db[t][id].improvement, grant |-> g])
    /\ UNCHANGED <<db, ids, lists, files, dirty, ghosts, edits, faults>>
DeleteGrant(a) ==
    /\ work[a].do = "ungrant"
    /\ db' = [db EXCEPT !["improvements_unit_types"] = Without(@, {work[a].grant})]
    /\ kept' = kept \ {[table |-> work[a].table, id |-> work[a].id, grant |-> work[a].grant]}
    /\ dirty' = dirty \cup {work[a].table}
    /\ AfterEdit(a)
    /\ UNCHANGED <<ids, lists, files, saved, raced, broken, requests, edits, faults>>

EvictAll(a) ==
    /\ work[a].do = "evict"
    /\ dirty' = {}
    /\ End(a)
    /\ UNCHANGED <<db, ids, lists, files, ghosts, requests, edits, faults>>

------------------------------------------------------------------------------
(* Lists are replaced: all entries deleted, then the new ones inserted one *)
(* by one.  For attack rules, overrides and spawn locations in one         *)
(* transaction, whose locks keep others from the list; for a critical      *)
(* attack in autocommit.                                                   *)

(* Mutant of Transactional: every list is replaced in autocommit.          *)
NeverTransactional(l) == FALSE
Transactional(l) == l # "critical_attack_entries"

Locked(l, id) ==
    \E a \in Admin : work[a].do = "list" /\ work[a].table = l /\ work[a].id = id /\ Transactional(l)
ListWork(l, id, body) == [do |-> "list", table |-> l, id |-> id, todo |-> body, done |-> <<>>]
Asked(l, id, body) ==
    saved' = [saved EXCEPT ![l] = Put(@, id, {body} \cup (IF id \in DOMAIN @ THEN @[id] ELSE {}))]
SetList(l, id, s) == lists' = [lists EXCEPT ![l] = Put(@, id, s)]

(* save_new: the owner is inserted, in the transaction when there is one;  *)
(* it has no entries yet and nobody else can name it.                      *)
SaveNewAttackRule(body) ==
    /\ InsertRow("attack_rules", <<>>)
    /\ SetList("attack_rule_entries", ids["attack_rules"] + 1, body)
    /\ Asked("attack_rule_entries", ids["attack_rules"] + 1, body)
SaveNewCriticalAttack(a, body) ==
    LET id == ids["critical_attack"] + 1 IN
    /\ Begin(a, ListWork("critical_attack_entries", id, body))
    /\ InsertRow("critical_attack", <<>>)
    /\ SetList("critical_attack_entries", id, <<>>)
    /\ Asked("critical_attack_entries", id, body)

DeleteEntries(a, l, id, body) ==
    /\ ~Locked(l, id)
    /\ Begin(a, ListWork(l, id, body))
    /\ IF Transactional(l) THEN UNCHANGED lists ELSE SetList(l, id, <<>>)
    /\ Asked(l, id, body)
    /\ UNCHANGED <<db, ids>>
SaveExistingAttackRule(a, id, body) == DeleteEntries(a, "attack_rule_entries", id, body)
SaveExistingCriticalAttack(a, id, body) == DeleteEntries(a, "critical_attack_entries", id, body)
SaveOverrides(a, faction, body) == DeleteEntries(a, "factions_unit_types", faction, body)
SaveSpawnLocations(a, faction, body) == DeleteEntries(a, "faction_spawn_location", faction, body)

SaveList(a) ==
    /\ \/ \E body \in ListBody.attack_rule_entries :
             \E id \in DOMAIN db["attack_rules"] : SaveExistingAttackRule(a, id, body)
       \/ \E body \in ListBody.critical_attack_entries :
             \/ SaveNewCriticalAttack(a, body)
             \/ \E id \in DOMAIN db["critical_attack"] : SaveExistingCriticalAttack(a, id, body)
       \/ \E body \in ListBody.factions_unit_types :
             \E id \in DOMAIN db["factions"] : SaveOverrides(a, id, body)
       \/ \E body \in ListBody.faction_spawn_location :
             \E id \in DOMAIN db["factions"] : SaveSpawnLocations(a, id, body)
    /\ UNCHANGED <<files, dirty, kept, raced, broken, edits, faults>>

InsertEntry(a) ==
    LET w == work[a] IN
    /\ w.do = "list" /\ w.todo # <<>> /\ EntryKeyed(w.table, Head(w.todo))
    /\ IF Transactional(w.table) THEN UNCHANGED lists
       ELSE SetList(w.table, w.id, Append(Entries(w.table, w.id), Head(w.todo)))
    /\ work' = [work EXCEPT ![a].todo = Tail(@), ![a].done = Append(@, Head(w.todo))]
    /\ UNCHANGED <<db, ids, files, dirty, ghosts, requests, edits, faults>>
(* A key refuses an entry: the transaction is rolled back, autocommit      *)
(* keeps what it has.                                                      *)
RefuseEntry(a) ==
    /\ work[a].do = "list" /\ work[a].todo # <<>> /\ ~EntryKeyed(work[a].table, Head(work[a].todo))
    /\ End(a)
    /\ UNCHANGED <<db, ids, lists, files, dirty, ghosts, requests, edits, faults>>
CommitList(a) ==
    LET w == work[a] IN
    /\ w.do = "list" /\ w.todo = <<>>
    /\ IF Transactional(w.table) THEN SetList(w.table, w.id, w.done) ELSE UNCHANGED lists
    /\ End(a)
    /\ UNCHANGED <<db, ids, files, dirty, ghosts, requests, edits, faults>>

(* The entries go with their rule, in one transaction; a critical attack   *)
(* that is still in use loses its entries and stays.                       *)
DeleteAttackRule(id) ==
    /\ ~Locked("attack_rule_entries", id)
    /\ ~\E r \in Rows("unit_types") : r.attack = id
    /\ db' = [db EXCEPT !["attack_rules"] = Without(@, {id})]
    /\ lists' = [lists EXCEPT !["attack_rule_entries"] = Without(@, {id})]
    /\ UNCHANGED <<ids, saved>>
DeleteCriticalAttack(id) ==
    /\ lists' = [lists EXCEPT !["critical_attack_entries"] = Put(@, id, <<>>)]
    /\ db' = IF Referenced("critical_attack", id) THEN db
             ELSE [db EXCEPT !["critical_attack"] = Without(@, {id})]
    /\ UNCHANGED <<ids, saved>>

------------------------------------------------------------------------------
(* An image is written to disk unless a file of its name exists - the name *)
(* is a digest of the content -, then looked up by its checksum, then      *)
(* inserted.  The row goes without the file.                               *)
SaveImage(a, i) ==
    /\ Begin(a, [do |-> IF i \in DOMAIN files THEN "look" ELSE "write", image |-> i])
    /\ UNCHANGED <<db, ids, lists, files, dirty, ghosts, edits, faults>>
(* Mutant of SaveToDisk: the row is inserted first.                        *)
SaveToDiskLast(a) ==
    /\ work[a].do = "write"
    /\ InsertRow("images_store", [content |-> work[a].image])
    /\ Goto(a, "whole")
    /\ UNCHANGED <<lists, files, dirty, ghosts, requests, edits, faults>>
SaveToDisk(a) ==
    /\ work[a].do = "write"
    /\ files' = Put(files, work[a].image, "partial")
    /\ Goto(a, "whole")
    /\ UNCHANGED <<db, ids, lists, dirty, ghosts, requests, edits, faults>>
WriteEnds(a) ==
    /\ work[a].do = "whole"
    /\ files' = Put(files, work[a].image, "whole")
    /\ Goto(a, "look")
    /\ UNCHANGED <<db, ids, lists, dirty, ghosts, requests, edits, faults>>
ImageRows(i) == {r \in Rows("images_store") : r.content = i}
LookUpImage(a) ==
    /\ work[a].do = "look"
    /\ IF ImageRows(work[a].image) = {} THEN Goto(a, "insert") ELSE End(a)
    /\ UNCHANGED <<db, ids, lists, files, dirty, ghosts, requests, edits, faults>>
InsertImage(a) ==
    /\ work[a].do = "insert"
    /\ IF ImageRows(work[a].image) = {} THEN InsertRow("images_store", [content |-> work[a].image])
       ELSE UNCHANGED <<db, ids>>
    /\ End(a)
    /\ UNCHANGED <<lists, files, dirty, ghosts, requests, edits, faults>>

------------------------------------------------------------------------------
(* Looked up, then written: a translation, what a player has seen or read, *)
(* a setting's default, an administrator.                                  *)
AddTranslation(a, t, lang, id) ==
    /\ t \in DOMAIN db["translatables"]
    /\ \A x \in DOMAIN db["translatables_translations"] :
          LET r == db["translatables_translations"][x] IN
          r.translatable = t /\ r.lang = lang => x = id
    /\ Begin(a, [do |-> "translate", id |-> id, row |-> [translatable |-> t, lang |-> lang]])
    /\ UNCHANGED <<db, ids>>
WriteTranslation(a) ==
    /\ work[a].do = "translate"
    /\ IF work[a].id \in DOMAIN db["translatables_translations"]
       THEN UpdateRow("translatables_translations", work[a].id, work[a].row)
       ELSE IF Keyed("translatables_translations", work[a].row)
       THEN InsertRow("translatables_translations", work[a].row)
       ELSE UNCHANGED <<db, ids>>
    /\ End(a)

MarkIfNew(a, t, row) ==
    /\ row \notin Rows(t)
    /\ Begin(a, [do |-> "mark", table |-> t, row |-> row])
    /\ UNCHANGED <<db, ids>>
AddVisitedEntry(a, u, e) == MarkIfNew(a, "visited_tutorial_entries", [user |-> u, entry |-> e])
MarkAsRead(a, u, m) == MarkIfNew(a, "user_read_system_messages", [user |-> u, message |-> m])
WriteMark(a) ==
    /\ work[a].do = "mark"
    /\ InsertRow(work[a].table, work[a].row)
    /\ End(a)

(* The primary key refuses the second of two: its request fails.           *)
NameIfNew(a, t, name, row) ==
    /\ name \notin DOMAIN db[t]
    /\ Begin(a, [do |-> "name", table |-> t, name |-> name, row |-> row])
    /\ UNCHANGED <<db, ids>>
FindOrSetDefault(a, name, value) == NameIfNew(a, "configuration", name, [value |-> value])
AddAdmin(a, id, name) == NameIfNew(a, "admin_users", id, [name |-> name, enabled |-> TRUE])
WriteName(a) ==
    LET w == work[a] IN
    /\ w.do = "name"
    /\ db' = IF w.name \in DOMAIN db[w.table] THEN db ELSE [db EXCEPT ![w.table] = Put(@, w.name, w.row)]
    /\ UNCHANGED ids
    /\ End(a)

LookUp(a) ==
    /\ \/ \E t \in DOMAIN db["translatables"], lang \in Lang,
             id \in DOMAIN db["translatables_translations"] \cup {Null} : AddTranslation(a, t, lang, id)
       \/ \E u \in User, e \in DOMAIN db["tutorial_sections_entries"] : AddVisitedEntry(a, u, e)
       \/ \E u \in User, m \in DOMAIN db["system_messages"] : MarkAsRead(a, u, m)
       \/ \E c \in Body.configuration : FindOrSetDefault(a, c.name, c.value)
       \/ \E u \in User : AddAdmin(a, u, u)
    /\ UNCHANGED <<lists, files, dirty, ghosts, edits, faults>>
Write(a) ==
    /\ WriteTranslation(a) \/ WriteMark(a) \/ WriteName(a)
    /\ UNCHANGED <<lists, files, dirty, ghosts, requests, edits, faults>>

------------------------------------------------------------------------------
Edit ==
    /\ edits < MaxEdits /\ edits' = edits + 1
    /\ \/ EditOne /\ UNCHANGED <<lists, saved>>
       \/ \E body \in ListBody.attack_rule_entries : SaveNewAttackRule(body)
       \/ \E id \in DOMAIN db["attack_rules"] : DeleteAttackRule(id)
       \/ \E id \in DOMAIN db["critical_attack"] : DeleteCriticalAttack(id)
    /\ UNCHANGED <<files, work, dirty, kept, raced, broken, requests, faults>>

(* A request ends between two statements: its connection fails, or its     *)
(* client goes away and the handler is dropped.  The file is written by a  *)
(* call that is not interrupted.                                           *)
Vanish(a) ==
    /\ work[a].do \notin {"idle", "whole"} /\ faults < MaxFaults
    /\ broken' = (broken \/ work[a].do = "evict")
    /\ End(a)
    /\ faults' = faults + 1
    /\ UNCHANGED <<db, ids, lists, files, dirty, saved, kept, raced, requests, edits>>

(* The process dies: transactions are rolled back, caches are gone, a file *)
(* half written stays.                                                     *)
Crash ==
    /\ faults < MaxFaults
    /\ work' = [a \in Admin |-> Idle]
    /\ dirty' = {}
    /\ faults' = faults + 1
    /\ UNCHANGED <<db, ids, lists, files, ghosts, requests, edits>>

Init ==
    /\ db = Start.db /\ lists = Start.lists
    /\ ids = [t \in DOMAIN db |-> Cardinality(DOMAIN db[t])]
    /\ files = [i \in {r.content : r \in Rows("images_store")} |-> "whole"]
    /\ work = [a \in Admin |-> Idle]
    /\ dirty = {}
    /\ saved = [l \in DOMAIN lists |-> [id \in DOMAIN lists[l] |-> {lists[l][id]}]]
    /\ kept = {k \in UNION {[table : {t}, id : DOMAIN db[t], grant : DOMAIN db["improvements_unit_types"]] : t \in Improvable} :
                 db[k.table][k.id].improvement = db["improvements_unit_types"][k.grant].improvement}
    /\ raced = {} /\ broken = FALSE
    /\ requests = 0 /\ edits = 0 /\ faults = 0

Improve(a) ==
    \E t \in Improvable : \E id \in DOMAIN db[t] :
       \/ SaveForEntity(a, t, id)
       \/ \E type \in DOMAIN db["unit_types"], value \in {0, 5} : AddUnitTypeImprovement(a, t, id, type, value)
       \/ \E g \in DOMAIN db["improvements_unit_types"] : RemoveUnitTypeImprovement(a, t, id, g)

Next ==
    \/ Edit \/ Crash
    \/ \E a \in Admin :
          \/ NewOwner(a) \/ SaveOwner(a)
          \/ Improve(a) \/ CreateImprovement(a) \/ LinkImprovement(a) \/ UpdateImprovement(a)
          \/ InsertGrant(a) \/ RefuseGrant(a) \/ DeleteGrant(a) \/ EvictAll(a)
          \/ SaveList(a) \/ InsertEntry(a) \/ RefuseEntry(a) \/ CommitList(a)
          \/ \E i \in Image : SaveImage(a, i)
          \/ SaveToDisk(a) \/ WriteEnds(a) \/ LookUpImage(a) \/ InsertImage(a)
          \/ LookUp(a) \/ Write(a) \/ Vanish(a)

Spec == Init /\ [][Next]_vars

------------------------------------------------------------------------------
(* Lists saved in a transaction are never seen half replaced, whoever      *)
(* saves them at once and wherever it stops: what is stored is one of the  *)
(* lists that were asked for (attack_rule_bo, faction_bo).                 *)
ListsAreWhole ==
    \A l \in DOMAIN lists : l # "critical_attack_entries"
        => \A id \in DOMAIN lists[l] : lists[l][id] \in saved[l][id]

(* Every image of the store has its file, though neither knows of the      *)
(* other and both outlive the process (image_store_bo).                    *)
ImagesHaveFiles == \A r \in Rows("images_store") : r.content \in DOMAIN files

(* What administrators save is saved whole, or not at all.                 *)
NothingIsHalfSaved == ListsAreWhole /\ ImagesHaveFiles

(* A unit type improvement given to an entity stays with it until it is    *)
(* taken from that entity: no edit of another entity, of its scalars or of *)
(* its row takes it.  Two first edits of an entity without improvement at  *)
(* once make two improvements, and the entity keeps the last               *)
(* (improvement_bo.rs, save_for_entity).                                   *)
GrantsAreKept ==
    \A k \in kept :
       \/ k.id \notin DOMAIN db[k.table] \/ <<k.table, k.id>> \in raced
       \/ /\ k.grant \in DOMAIN db["improvements_unit_types"]
          /\ db["improvements_unit_types"][k.grant].improvement = db[k.table][k.id].improvement

(* No aggregate older than an edit of an improvement stays cached, except  *)
(* after the edits of special locations, which evict nobody, and those of  *)
(* a request that ended before its eviction.                               *)
EditsReachPlayers ==
    \/ broken
    \/ \A t \in dirty \ {"special_locations"} :
          \E a \in Admin : work[a].do = "evict"
=============================================================================
