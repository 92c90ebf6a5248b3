----------------------------- MODULE CatalogProofs -----------------------------
(***************************************************************************)
(* Proofs about Catalog, for any number of administrators, requests, edits*)
(* and faults, and any definitions and bodies that satisfy its assumptions.*)
(***************************************************************************)
EXTENDS Catalog, FiniteSetTheorems, SequenceTheorems, TLAPS

(* Rows of an entity and of a unit type improvement, with ids below n and *)
(* improvements below m.                                                  *)
Entity(rows, n, m) ==
    /\ n \in Nat /\ DOMAIN rows \subseteq 1 .. n
    /\ \A id \in DOMAIN rows : "improvement" \in DOMAIN rows[id] /\ rows[id].improvement \in 0 .. m
Grant(rows, n, m) ==
    /\ n \in Nat /\ DOMAIN rows \subseteq 1 .. n
    /\ \A g \in DOMAIN rows : "improvement" \in DOMAIN rows[g] /\ rows[g].improvement \in 1 .. m

TablesTyped ==
    /\ DOMAIN db = DOMAIN Start.db /\ DOMAIN ids = DOMAIN Start.db
    /\ ids["improvements"] \in Nat
    /\ \A t \in Improvable : Entity(db[t], ids[t], ids["improvements"])
    /\ Grant(db["improvements_unit_types"], ids["improvements_unit_types"], ids["improvements"])

(* What a request in progress carries, by the statement it comes to.      *)
Improving == {"create", "link", "update", "grant", "ungrant", "evict"}
Imaging == {"write", "whole", "look", "insert"}

Carries(w, n) ==
    /\ "do" \in DOMAIN w
    /\ w.do \in {"idle", "own", "list", "translate", "mark", "name"} \cup Improving \cup Imaging
    /\ w.do = "own" =>
          /\ {"table", "row", "improvement"} \subseteq DOMAIN w
          /\ w.table \in {"units", "special_locations"} /\ w.improvement \in 1 .. n["improvements"]
    /\ w.do \in Improving =>
          /\ {"table", "id", "improvement", "grant"} \subseteq DOMAIN w
          /\ w.table \in Improvable /\ w.id \in 1 .. n[w.table] /\ w.improvement \in 0 .. n["improvements"]
    /\ w.do \in {"link", "grant", "ungrant"} => w.improvement # Null
    /\ w.do = "ungrant" => w.grant \in 1 .. n["improvements_unit_types"]
    /\ w.do = "list" =>
          /\ {"table", "id", "todo", "done"} \subseteq DOMAIN w
          /\ w.table \in DOMAIN OwnerOf /\ w.todo \in Seq(Nat) /\ w.done \in Seq(Nat)
    /\ w.do \in Imaging => "image" \in DOMAIN w
    /\ w.do = "translate" => {"id", "row"} \subseteq DOMAIN w
    /\ w.do = "mark" => w.table \in {"visited_tutorial_entries", "user_read_system_messages"}
    /\ w.do = "name" => w.table \in {"configuration", "admin_users"}

WorkTyped == DOMAIN work = Admin /\ \A a \in Admin : Carries(work[a], ids)

Typed == TablesTyped /\ WorkTyped

------------------------------------------------------------------------------
(* A table of entities after a statement that gives no improvement and    *)
(* takes none.                                                            *)
Follows(old, n, new, m) ==
    /\ m \in Nat /\ n <= m /\ DOMAIN new \subseteq 1 .. m
    /\ \A id \in DOMAIN new :
          /\ "improvement" \in DOMAIN new[id]
          /\ \/ id \in DOMAIN old /\ new[id].improvement = old[id].improvement
             \/ id > n /\ id \notin DOMAIN old /\ new[id].improvement = Null

(* A new entity without improvement, under the next id.                   *)
LEMMA FollowsInsert ==
    ASSUME NEW rows, NEW n, NEW m, Entity(rows, n, m),
           NEW row, "improvement" \in DOMAIN row, row.improvement = Null
    PROVE  Follows(rows, n, Put(rows, n + 1, row), n + 1)
<1> DEFINE new == Put(rows, n + 1, row)
<1>1. n \in Nat /\ DOMAIN rows \subseteq 1 .. n /\ n + 1 \notin DOMAIN rows
  BY DEF Entity
<1>2. /\ DOMAIN new = DOMAIN rows \cup {n + 1} /\ new[n + 1] = row
      /\ \A y \in DOMAIN rows : y # n + 1 => new[y] = rows[y]
  BY DEF Put
<1> HIDE DEF new
<1>3. \A y \in DOMAIN rows : new[y] = rows[y]
  BY <1>1, <1>2
<1>4. DOMAIN new \subseteq 1 .. n + 1
  BY <1>1, <1>2
<1>5. ASSUME NEW id \in DOMAIN new
      PROVE  /\ "improvement" \in DOMAIN new[id]
             /\ \/ id \in DOMAIN rows /\ new[id].improvement = rows[id].improvement
                \/ id > n /\ id \notin DOMAIN rows /\ new[id].improvement = Null
  <2>1. CASE id = n + 1
    BY <2>1, <1>1, <1>2
  <2>2. CASE id \in DOMAIN rows
    BY <2>2, <1>3 DEF Entity
  <2> QED
    BY <1>2, <2>1, <2>2
<1>6. n + 1 \in Nat /\ n <= n + 1
  BY <1>1
<1>7. Follows(rows, n, new, n + 1)
  BY <1>4, <1>5, <1>6 DEF Follows
<1> QED
  BY <1>7 DEF new

(* An update that names no improvement.                                   *)
LEMMA FollowsUpdate ==
    ASSUME NEW rows, NEW n, NEW m, Entity(rows, n, m),
           NEW x \in DOMAIN rows, NEW columns, "improvement" \notin DOMAIN columns
    PROVE  Follows(rows, n, [rows EXCEPT ![x] = Over(columns, @)], n)
<1> DEFINE row == Over(columns, rows[x])
           new == [rows EXCEPT ![x] = row]
<1>1. "improvement" \in DOMAIN row /\ row.improvement = rows[x].improvement
  BY DEF Over, Entity
<1> HIDE DEF row
<1>2. DOMAIN new = DOMAIN rows /\ new[x] = row /\ \A y \in DOMAIN rows \ {x} : new[y] = rows[y]
  OBVIOUS
<1> HIDE DEF new
<1>3. n \in Nat /\ n <= n /\ DOMAIN rows \subseteq 1 .. n /\ \A id \in DOMAIN rows : "improvement" \in DOMAIN rows[id]
  BY DEF Entity
<1>4. \A id \in DOMAIN new : "improvement" \in DOMAIN new[id] /\ new[id].improvement = rows[id].improvement
  BY <1>1, <1>2, <1>3
<1>5. Follows(rows, n, new, n)
  BY <1>2, <1>3, <1>4 DEF Follows
<1> QED
  BY <1>5 DEF new, row

(* Rows that go, or none.                                                 *)
LEMMA FollowsDelete ==
    ASSUME NEW rows, NEW n, NEW m, Entity(rows, n, m), NEW S
    PROVE  Follows(rows, n, Without(rows, S), n) /\ Follows(rows, n, rows, n)
<1> DEFINE new == Without(rows, S)
<1>1. n \in Nat /\ n <= n /\ DOMAIN rows \subseteq 1 .. n /\ \A id \in DOMAIN rows : "improvement" \in DOMAIN rows[id]
  BY DEF Entity
<1>2. DOMAIN new \subseteq DOMAIN rows /\ \A id \in DOMAIN new : new[id] = rows[id]
  BY DEF Without
<1> HIDE DEF new
<1>3. Follows(rows, n, rows, n)
  BY <1>1 DEF Follows
<1>4. Follows(rows, n, new, n)
  BY <1>1, <1>2 DEF Follows
<1> QED
  BY <1>3, <1>4 DEF new

(* A statement that leaves the improvements alone.                        *)
Leaves(table, next) ==
    /\ DOMAIN table = DOMAIN db /\ DOMAIN next = DOMAIN ids
    /\ next["improvements"] = ids["improvements"]
    /\ next["improvements_unit_types"] = ids["improvements_unit_types"]
    /\ table["improvements_unit_types"] = db["improvements_unit_types"]
    /\ \A t \in Improvable : Follows(db[t], ids[t], table[t], next[t])

(* A statement that adds and changes no image.                            *)
Pictures(table) ==
    /\ DOMAIN table["images_store"] \subseteq DOMAIN db["images_store"]
    /\ \A r \in DOMAIN table["images_store"] : table["images_store"][r] = db["images_store"][r]

Tame == Leaves(db', ids') /\ Pictures(db')

Watched == Improvable \cup {"improvements_unit_types", "images_store"}

(* The tables that the improvements depend on are there.                  *)
LEMMA Tables ==
    ASSUME TablesTyped
    PROVE  /\ Watched \cup {"improvements"} \subseteq DOMAIN db /\ DOMAIN db = DOMAIN ids
           /\ \A t \in Improvable \cup {"improvements", "improvements_unit_types"} : ids[t] \in Nat
  BY StartAssumption DEF TablesTyped, Watched, Numbered, Entity, Grant

(* A statement on one table.                                              *)
LEMMA OneTable ==
    ASSUME TablesTyped, NEW t, t # "improvements_unit_types", NEW table, NEW next,
           DOMAIN table = DOMAIN db, DOMAIN next = DOMAIN ids,
           \A u \in DOMAIN db : u # t => table[u] = db[u] /\ next[u] = ids[u],
           next["improvements"] = ids["improvements"],
           t \in Improvable => Follows(db[t], ids[t], table[t], next[t]),
           t = "images_store" => /\ DOMAIN table[t] \subseteq DOMAIN db[t]
                                 /\ \A r \in DOMAIN table[t] : table[t][r] = db[t][r]
    PROVE  Leaves(table, next) /\ Pictures(table)
<1>1. \A u \in Improvable : Follows(db[u], ids[u], table[u], next[u])
  BY Tables, FollowsDelete DEF TablesTyped, Watched
<1> QED
  BY <1>1, Tables DEF Leaves, Pictures, Watched

(* A row is inserted, an entity without improvement.                      *)
LEMMA TameInsert ==
    ASSUME TablesTyped, NEW t, t \notin {"improvements_unit_types", "improvements", "images_store"}, NEW row,
           t \in Improvable => "improvement" \in DOMAIN row /\ row.improvement = Null,
           InsertRow(t, row)
    PROVE  Tame
<1>1. /\ db' = [db EXCEPT ![t] = Put(db[t], ids[t] + 1, row)]
      /\ ids' = [ids EXCEPT ![t] = ids[t] + 1]
  BY DEF InsertRow
<1>2. /\ DOMAIN db' = DOMAIN db /\ DOMAIN ids' = DOMAIN ids
      /\ \A u \in DOMAIN db : u # t => db'[u] = db[u]
      /\ \A u \in DOMAIN ids : u # t => ids'[u] = ids[u]
      /\ t \in DOMAIN db => db'[t] = Put(db[t], ids[t] + 1, row)
      /\ t \in DOMAIN ids => ids'[t] = ids[t] + 1
  BY <1>1
<1>3. ASSUME t \in Improvable PROVE Follows(db[t], ids[t], db'[t], ids'[t])
  <2>1. Entity(db[t], ids[t], ids["improvements"])
    BY <1>3 DEF TablesTyped
  <2>2. Follows(db[t], ids[t], Put(db[t], ids[t] + 1, row), ids[t] + 1)
    BY <1>3, <2>1, FollowsInsert
  <2> QED
    BY <1>2, <1>3, <2>2, Tables DEF Watched
<1>4. Leaves(db', ids') /\ Pictures(db')
  BY <1>2, <1>3, Tables, OneTable
<1> QED
  BY <1>4 DEF Tame

(* A row is updated, the improvement of an entity left alone.             *)
LEMMA TameUpdate ==
    ASSUME TablesTyped, NEW t, t \notin {"improvements_unit_types", "images_store"}, NEW id, NEW columns,
           t \in Improvable => "improvement" \notin DOMAIN columns,
           UpdateRow(t, id, columns)
    PROVE  Tame
<1>1. /\ db' = [db EXCEPT ![t] = [db[t] EXCEPT ![id] = Over(columns, @)]]
      /\ ids' = ids /\ id \in DOMAIN db[t]
  BY DEF UpdateRow
<1>2. /\ DOMAIN db' = DOMAIN db
      /\ \A u \in DOMAIN db : u # t => db'[u] = db[u]
      /\ t \in DOMAIN db => db'[t] = [db[t] EXCEPT ![id] = Over(columns, @)]
  BY <1>1
<1>3. ASSUME t \in Improvable PROVE Follows(db[t], ids[t], db'[t], ids'[t])
  <2>1. Entity(db[t], ids[t], ids["improvements"])
    BY <1>3 DEF TablesTyped
  <2>2. Follows(db[t], ids[t], [db[t] EXCEPT ![id] = Over(columns, @)], ids[t])
    BY <1>1, <1>3, <2>1, FollowsUpdate
  <2> QED
    BY <1>1, <1>2, <1>3, <2>2, Tables DEF Watched
<1>4. Leaves(db', ids') /\ Pictures(db')
  BY <1>1, <1>2, <1>3, Tables, OneTable
<1> QED
  BY <1>4 DEF Tame

(* Rows are deleted, or none.                                             *)
LEMMA TameDelete ==
    ASSUME TablesTyped, NEW t, t # "improvements_unit_types", NEW S,
           db' = [db EXCEPT ![t] = Without(@, S)], ids' = ids
    PROVE  Tame
<1>1. /\ DOMAIN db' = DOMAIN db
      /\ \A u \in DOMAIN db : u # t => db'[u] = db[u]
      /\ t \in DOMAIN db => db'[t] = Without(db[t], S)
  OBVIOUS
<1>2. ASSUME t \in Improvable PROVE Follows(db[t], ids[t], db'[t], ids'[t])
  <2>1. Entity(db[t], ids[t], ids["improvements"])
    BY <1>2 DEF TablesTyped
  <2>2. Follows(db[t], ids[t], Without(db[t], S), ids[t])
    BY <2>1, FollowsDelete
  <2> QED
    BY <1>1, <1>2, <2>2, Tables DEF Watched
<1>3. t = "images_store" => DOMAIN db'[t] \subseteq DOMAIN db[t] /\ \A r \in DOMAIN db'[t] : db'[t][r] = db[t][r]
  BY <1>1, Tables DEF Without, Watched
<1>4. Leaves(db', ids') /\ Pictures(db')
  BY <1>1, <1>2, <1>3, OneTable
<1> QED
  BY <1>4 DEF Tame

(* Nothing is written.                                                    *)
LEMMA TameStays ==
    ASSUME TablesTyped, UNCHANGED <<db, ids>>
    PROVE  Tame
<1>1. Leaves(db, ids) /\ Pictures(db)
  BY Tables, FollowsDelete DEF TablesTyped, Leaves, Pictures, Watched
<1> QED
  BY <1>1 DEF Tame

(* A row is deleted.                                                      *)
LEMMA TameDeleteRow ==
    ASSUME TablesTyped, NEW t, t # "improvements_unit_types", NEW id, DeleteRow(t, id)
    PROVE  Tame
  BY TameDelete DEF DeleteRow

(* A body's columns name no improvement.                                  *)
LEMMA ColumnsNameNone ==
    ASSUME NEW b
    PROVE  /\ "improvement" \notin DOMAIN UpgradeColumns(b)
           /\ "improvement" \notin DOMAIN FactionColumns(b)
           /\ "improvement" \in DOMAIN Over([improvement |-> Null], UpgradeColumns(b))
           /\ Over([improvement |-> Null], UpgradeColumns(b)).improvement = Null
           /\ "improvement" \in DOMAIN Over([improvement |-> Null], FactionColumns(b))
           /\ Over([improvement |-> Null], FactionColumns(b)).improvement = Null
  BY DEF UpgradeColumns, FactionColumns, Over

(* An edit of one row takes no improvement from an entity and gives none  *)
(* that another has.                                                      *)
LEMMA EditOneIsTame ==
    ASSUME TablesTyped, EditOne
    PROVE  Tame
<1>1. ASSUME NEW b, SaveNewUpgrade(b) \/ \E id \in DOMAIN db["upgrades"] : SaveExistingUpgrade(id, b)
      PROVE Tame
  <2>1. CASE SaveNewUpgrade(b)
    BY <2>1, TameInsert, ColumnsNameNone DEF SaveNewUpgrade
  <2>2. ASSUME NEW id, SaveExistingUpgrade(id, b) PROVE Tame
    BY <2>2, TameUpdate, ColumnsNameNone DEF SaveExistingUpgrade
  <2> QED
    BY <1>1, <2>1, <2>2
<1>2. ASSUME NEW id, DeleteUpgrade(id) PROVE Tame
  BY <1>2, TameDeleteRow DEF DeleteUpgrade
<1>3. ASSUME NEW b, SaveNewUpgradeType(b) \/ \E id \in DOMAIN db["upgrade_types"] : SaveExistingUpgradeType(id, b)
      PROVE Tame
  <2>1. CASE SaveNewUpgradeType(b)
    BY <2>1, TameInsert DEF SaveNewUpgradeType, Improvable
  <2>2. ASSUME NEW id, SaveExistingUpgradeType(id, b) PROVE Tame
    BY <2>2, TameUpdate DEF SaveExistingUpgradeType, Improvable
  <2> QED
    BY <1>3, <2>1, <2>2
<1>4. ASSUME NEW id, DeleteUpgradeType(id) PROVE Tame
  BY <1>4, TameDeleteRow DEF DeleteUpgradeType
<1>5. ASSUME NEW id, DeleteUnit(id) \/ UnsetUnitCriticalAttack(id) \/ \E b \in Body.units : SaveExistingUnit(id, b)
      PROVE Tame
  <2>1. CASE DeleteUnit(id)
    BY <2>1, TameDeleteRow DEF DeleteUnit
  <2>2. CASE UnsetUnitCriticalAttack(id)
    <3>1. "improvement" \notin DOMAIN [critical |-> Null]
      OBVIOUS
    <3> QED
      BY <2>2, <3>1, TameUpdate DEF UnsetUnitCriticalAttack
  <2>3. ASSUME NEW b \in Body.units, SaveExistingUnit(id, b) PROVE Tame
    <3>1. "improvement" \notin DOMAIN b
      BY BodyAssumption
    <3> QED
      BY <2>3, <3>1, TameUpdate DEF SaveExistingUnit
  <2> QED
    BY <1>5, <2>1, <2>2, <2>3
<1>6. ASSUME NEW b, SaveNewUnitType(b) PROVE Tame
  BY <1>6, TameInsert DEF SaveNewUnitType, Improvable
<1>7. ASSUME NEW id,
             \/ DeleteUnitType(id) \/ UnsetTypeAttackRule(id) \/ UnsetTypeCriticalAttack(id)
             \/ \E b \in Body.unit_types : SaveExistingUnitType(id, b)
      PROVE Tame
  <2>1. CASE DeleteUnitType(id)
    BY <2>1, TameDeleteRow DEF DeleteUnitType
  <2>2. CASE UnsetTypeAttackRule(id)
    BY <2>2, TameUpdate DEF UnsetTypeAttackRule, Improvable
  <2>3. CASE UnsetTypeCriticalAttack(id)
    BY <2>3, TameUpdate DEF UnsetTypeCriticalAttack, Improvable
  <2>4. ASSUME NEW b, SaveExistingUnitType(id, b) PROVE Tame
    BY <2>4, TameUpdate DEF SaveExistingUnitType, Improvable
  <2> QED
    BY <1>7, <2>1, <2>2, <2>3, <2>4
<1>8. ASSUME NEW b, SaveNewFaction(b) \/ \E id \in DOMAIN db["factions"] : SaveExistingFaction(id, b)
      PROVE Tame
  <2>1. CASE SaveNewFaction(b)
    BY <2>1, TameInsert, ColumnsNameNone DEF SaveNewFaction
  <2>2. ASSUME NEW id, SaveExistingFaction(id, b) PROVE Tame
    BY <2>2, TameUpdate, ColumnsNameNone DEF SaveExistingFaction
  <2> QED
    BY <1>8, <2>1, <2>2
<1>9. ASSUME NEW id, DeleteFaction(id) PROVE Tame
  BY <1>9, TameDeleteRow DEF DeleteFaction
<1>10. ASSUME NEW id, DeleteSpecialLocation(id) \/ \E b \in Body.special_locations : SaveExistingSpecialLocation(id, b)
       PROVE Tame
  <2>1. CASE DeleteSpecialLocation(id)
    BY <2>1, TameDeleteRow DEF DeleteSpecialLocation
  <2>2. ASSUME NEW b \in Body.special_locations, SaveExistingSpecialLocation(id, b) PROVE Tame
    <3>1. "improvement" \notin DOMAIN b
      BY BodyAssumption
    <3> QED
      BY <2>2, <3>1, TameUpdate DEF SaveExistingSpecialLocation
  <2> QED
    BY <1>10, <2>1, <2>2
<1>11. ASSUME NEW b, SaveNewSpeedImpactGroup(b) \/ \E id \in DOMAIN db["speed_impact_groups"] : SaveExistingSpeedImpactGroup(id, b)
       PROVE Tame
  <2>1. CASE SaveNewSpeedImpactGroup(b)
    BY <2>1, TameInsert DEF SaveNewSpeedImpactGroup, Improvable
  <2>2. ASSUME NEW id, SaveExistingSpeedImpactGroup(id, b) PROVE Tame
    BY <2>2, TameUpdate DEF SaveExistingSpeedImpactGroup, Improvable
  <2> QED
    BY <1>11, <2>1, <2>2
<1>12. ASSUME NEW id, DeleteSpeedImpactGroup(id) PROVE Tame
  BY <1>12, TameDeleteRow DEF DeleteSpeedImpactGroup
<1>13. ASSUME NEW b, SaveNewGalaxy(b) \/ \E id \in DOMAIN db["galaxies"] : SaveExistingGalaxy(id, b)
       PROVE Tame
  <2>1. CASE SaveNewGalaxy(b)
    BY <2>1, TameInsert DEF SaveNewGalaxy, Improvable
  <2>2. ASSUME NEW id, SaveExistingGalaxy(id, b) PROVE Tame
    BY <2>2, TameUpdate DEF SaveExistingGalaxy, Improvable
  <2> QED
    BY <1>13, <2>1, <2>2
<1>14. ASSUME NEW id, DeleteGalaxy(id) PROVE Tame
  BY <1>14, TameDeleteRow DEF DeleteGalaxy
<1>15. ASSUME NEW b, NEW id, SaveRule(id, b) PROVE Tame
  BY <1>15, TameInsert, TameUpdate DEF SaveRule, Improvable
<1>16. ASSUME NEW id, DeleteRule(id) PROVE Tame
  BY <1>16, TameDeleteRow DEF DeleteRule
<1>17. ASSUME NEW id, DeleteImage(id) \/ \E b \in Body.images_store : UpdateImage(id, b) PROVE Tame
  BY <1>17, TameDeleteRow, TameStays DEF DeleteImage, UpdateImage
<1>18. ASSUME NEW b, SaveNewTranslatable(b) \/ \E id \in DOMAIN db["translatables"] : SaveExistingTranslatable(id, b)
       PROVE Tame
  <2>1. CASE SaveNewTranslatable(b)
    BY <2>1, TameInsert DEF SaveNewTranslatable, Improvable
  <2>2. ASSUME NEW id, SaveExistingTranslatable(id, b) PROVE Tame
    BY <2>2, TameUpdate DEF SaveExistingTranslatable, Improvable
  <2> QED
    BY <1>18, <2>1, <2>2
<1>19. ASSUME NEW id, DeleteTranslatable(id) \/ DeleteTranslation(id) PROVE Tame
  BY <1>19, TameDeleteRow DEF DeleteTranslatable, DeleteTranslation
<1>20. ASSUME NEW b, NEW id, AddUpdateEntry(id, b) PROVE Tame
  BY <1>20, TameInsert, TameUpdate DEF AddUpdateEntry, Improvable
<1>21. ASSUME NEW id, DeleteEntry(id) PROVE Tame
  BY <1>21, TameDeleteRow DEF DeleteEntry
<1>22. ASSUME NEW b, SaveSystemMessage(b) PROVE Tame
  BY <1>22, TameInsert DEF SaveSystemMessage, Improvable
<1>23. ASSUME NEW n, NEW value, SaveConfiguration(n, value) PROVE Tame
  <2>1. /\ DOMAIN db' = DOMAIN db /\ ids' = ids
        /\ \A u \in DOMAIN db : u # "configuration" => db'[u] = db[u]
    BY <1>23 DEF SaveConfiguration
  <2>2. Leaves(db', ids') /\ Pictures(db')
    BY <2>1, OneTable DEF Improvable
  <2> QED
    BY <2>2 DEF Tame
<1>24. ASSUME NEW n, DeleteConfiguration(n) PROVE Tame
  BY <1>24, TameDeleteRow DEF DeleteConfiguration
<1>25. ASSUME NEW id, DeleteAdmin(id) \/ \E u \in User : AdminLogin(id, u) PROVE Tame
  BY <1>25, TameDeleteRow, TameUpdate DEF DeleteAdmin, AdminLogin, Improvable
<1> QED
  BY <1>1, <1>2, <1>3, <1>4, <1>5, <1>6, <1>7, <1>8, <1>9, <1>10, <1>11, <1>12, <1>13, <1>14,
     <1>15, <1>16,
     <1>17, <1>18, <1>19, <1>20, <1>21, <1>22, <1>23, <1>24, <1>25, EditOne DEF EditOne

(* So do the edits of lists.                                              *)
LEMMA EditIsTame ==
    ASSUME TablesTyped, Edit
    PROVE  Tame
<1>1. ASSUME NEW body, SaveNewAttackRule(body) PROVE Tame
  BY <1>1, TameInsert DEF SaveNewAttackRule, Improvable
<1>2. ASSUME NEW id, DeleteAttackRule(id) PROVE Tame
  BY <1>2, TameDelete DEF DeleteAttackRule
<1>3. ASSUME NEW id, DeleteCriticalAttack(id) PROVE Tame
  BY <1>3, TameDelete, TameStays DEF DeleteCriticalAttack
<1> QED
  BY <1>1, <1>2, <1>3, EditOneIsTame DEF Edit

(* So do the requests about lists.                                        *)
LEMMA SaveListIsTame ==
    ASSUME TablesTyped, NEW a, SaveList(a)
    PROVE  Tame
<1>1. ASSUME NEW body, SaveNewCriticalAttack(a, body) PROVE Tame
  BY <1>1, TameInsert DEF SaveNewCriticalAttack, Improvable
<1>2. ASSUME NEW l, NEW id, NEW body, DeleteEntries(a, l, id, body) PROVE Tame
  BY <1>2, TameStays DEF DeleteEntries
<1> QED
  BY <1>1, <1>2 DEF SaveList, SaveExistingAttackRule, SaveExistingCriticalAttack, SaveOverrides,
     SaveSpawnLocations

(* So do the writes of what was looked up.                                *)
LEMMA WriteIsTame ==
    ASSUME Typed, NEW a \in Admin, Write(a)
    PROVE  Tame
<1>1. TablesTyped /\ Carries(work[a], ids)
  BY DEF Typed, WorkTyped
<1>2. CASE WriteTranslation(a)
  BY <1>1, <1>2, TameInsert, TameUpdate, TameStays DEF WriteTranslation, Improvable
<1>3. CASE WriteMark(a)
  <2>1. work[a].table \in {"visited_tutorial_entries", "user_read_system_messages"}
    BY <1>1, <1>3 DEF WriteMark, Carries
  <2> QED
    BY <1>1, <1>3, <2>1, TameInsert DEF WriteMark, Improvable
<1>4. CASE WriteName(a)
  <2>1. work[a].table \in {"configuration", "admin_users"}
    BY <1>1, <1>4 DEF WriteName, Carries
  <2>2. /\ DOMAIN db' = DOMAIN db /\ ids' = ids
        /\ \A u \in DOMAIN db : u # work[a].table => db'[u] = db[u]
    BY <1>4 DEF WriteName
  <2>3. Leaves(db', ids') /\ Pictures(db')
    BY <1>1, <2>1, <2>2, OneTable DEF Improvable
  <2> QED
    BY <2>3 DEF Tame
<1> QED
  BY <1>2, <1>3, <1>4 DEF Write

(* An update of an improvement's scalars leaves whose it is.              *)
LEMMA UpdateImprovementIsTame ==
    ASSUME TablesTyped, NEW a, UpdateImprovement(a)
    PROVE  Tame
  BY TameUpdate DEF UpdateImprovement, Improvable

(* An image that is inserted is no improvement.                           *)
LEMMA InsertImageLeaves ==
    ASSUME TablesTyped, NEW a, InsertImage(a)
    PROVE  Leaves(db', ids')
<1>1. CASE UNCHANGED <<db, ids>>
  BY <1>1, TameStays DEF Tame
<1>2. ASSUME NEW row, InsertRow("images_store", row) PROVE Leaves(db', ids')
  <2>1. /\ DOMAIN db' = DOMAIN db /\ DOMAIN ids' = DOMAIN ids
        /\ \A u \in DOMAIN db : u # "images_store" => db'[u] = db[u]
        /\ \A u \in DOMAIN ids : u # "images_store" => ids'[u] = ids[u]
    BY <1>2 DEF InsertRow
  <2>2. \A t \in Improvable : t # "images_store" /\ Follows(db[t], ids[t], db[t], ids[t])
    BY FollowsDelete DEF TablesTyped, Improvable
  <2> QED
    BY <2>1, <2>2, Tables DEF Leaves, Watched
<1> QED
  BY <1>1, <1>2 DEF InsertImage

------------------------------------------------------------------------------
(* No id is given twice.                                                  *)
Grows == \A t \in Numbered : ids[t] \in Nat /\ ids'[t] \in Nat /\ ids[t] <= ids'[t]

(* What a request carries stays what it is while ids grow.                *)
LEMMA CarriesGrows ==
    ASSUME NEW w, NEW n, NEW m, Carries(w, n),
           \A t \in Numbered : n[t] \in Nat /\ m[t] \in Nat /\ n[t] <= m[t]
    PROVE  Carries(w, m)
<1>1. \A t \in Numbered : \A i \in 1 .. n[t] : i \in 1 .. m[t]
  OBVIOUS
<1>2. \A t \in Numbered : \A i \in 0 .. n[t] : i \in 0 .. m[t]
  OBVIOUS
<1>3. Improvable \subseteq Numbered /\ {"improvements", "improvements_unit_types"} \subseteq Numbered
  BY DEF Numbered
<1>4. w.do = "own" => w.improvement \in 1 .. m["improvements"]
  BY <1>1, <1>3 DEF Carries
<1>5. w.do \in Improving => w.id \in 1 .. m[w.table] /\ w.improvement \in 0 .. m["improvements"]
  BY <1>1, <1>2, <1>3 DEF Carries
<1>6. w.do = "ungrant" => w.grant \in 1 .. m["improvements_unit_types"]
  BY <1>1, <1>3 DEF Carries
<1> QED
  BY <1>4, <1>5, <1>6 DEF Carries

(* Tables stay typed when improvements are left alone.                    *)
LEMMA LeavesTyped ==
    ASSUME TablesTyped, Leaves(db', ids')
    PROVE  TablesTyped' /\ Grows
<1>1. \A t \in Improvable : Entity(db[t], ids[t], ids["improvements"]) /\ Follows(db[t], ids[t], db'[t], ids'[t])
  BY DEF TablesTyped, Leaves
<1>2. ASSUME NEW t \in Improvable
      PROVE  Entity(db'[t], ids'[t], ids["improvements"])
  <2>1. ids'[t] \in Nat /\ DOMAIN db'[t] \subseteq 1 .. ids'[t]
    BY <1>1 DEF Follows
  <2>2. ASSUME NEW id \in DOMAIN db'[t]
        PROVE  "improvement" \in DOMAIN db'[t][id] /\ db'[t][id].improvement \in 0 .. ids["improvements"]
    BY <1>1, Tables DEF Follows, Entity, Null
  <2> QED
    BY <2>1, <2>2 DEF Entity
<1>3. /\ ids'["improvements"] = ids["improvements"] /\ ids["improvements"] \in Nat
      /\ ids'["improvements_unit_types"] = ids["improvements_unit_types"] /\ ids["improvements_unit_types"] \in Nat
  BY Tables DEF Leaves
<1>4. \A t \in Improvable : ids[t] \in Nat /\ ids'[t] \in Nat /\ ids[t] <= ids'[t]
  BY <1>1, Tables DEF Follows
<1>5. Grows
  BY <1>3, <1>4 DEF Grows, Numbered
<1> QED
  BY <1>2, <1>3, <1>5 DEF TablesTyped, Leaves

(* An improvement of nobody is made.                                      *)
LEMMA CreateEmptyTyped ==
    ASSUME TablesTyped, CreateEmpty
    PROVE  /\ TablesTyped' /\ Grows
           /\ ids'["improvements"] = ids["improvements"] + 1
           /\ \A t \in Watched : db'[t] = db[t]
           /\ \A t \in Improvable \cup {"improvements_unit_types"} : ids'[t] = ids[t]
<1>1. /\ DOMAIN db' = DOMAIN db /\ DOMAIN ids' = DOMAIN ids
      /\ \A u \in DOMAIN db : u # "improvements" => db'[u] = db[u]
      /\ \A u \in DOMAIN ids : u # "improvements" => ids'[u] = ids[u]
      /\ ids'["improvements"] = ids["improvements"] + 1
  BY Tables DEF CreateEmpty, InsertRow
<1>2. /\ \A t \in Watched : db'[t] = db[t]
      /\ \A t \in Improvable \cup {"improvements_unit_types"} : ids'[t] = ids[t]
  BY <1>1, Tables DEF Watched, Improvable
<1>3. Grows
  BY <1>1, <1>2, Tables DEF Grows, Numbered
<1>4. ASSUME NEW t \in Improvable PROVE Entity(db'[t], ids'[t], ids'["improvements"])
  BY <1>1, <1>2, Tables DEF TablesTyped, Entity, Watched
<1>5. Grant(db'["improvements_unit_types"], ids'["improvements_unit_types"], ids'["improvements"])
  BY <1>1, <1>2, Tables DEF TablesTyped, Grant, Watched
<1> QED
  BY <1>1, <1>2, <1>3, <1>4, <1>5, Tables DEF TablesTyped

(* An entity is inserted with its improvement, or nothing is.             *)
LEMMA SaveOwnerTyped ==
    ASSUME Typed, NEW a \in Admin, InsertOwner(a)
    PROVE  LET t == work[a].table IN
           /\ TablesTyped' /\ Grows
           /\ t \in {"units", "special_locations"}
           /\ ids'[t] = ids[t] + 1 /\ DOMAIN db'[t] = DOMAIN db[t] \cup {ids[t] + 1}
           /\ db'[t][ids[t] + 1].improvement = work[a].improvement
           /\ \A id \in DOMAIN db[t] : db'[t][id] = db[t][id]
           /\ \A u \in DOMAIN db : u # t => db'[u] = db[u] /\ ids'[u] = ids[u]
<1> DEFINE t == work[a].table
           row == Over([improvement |-> work[a].improvement], work[a].row)
<1>1. t \in {"units", "special_locations"} /\ work[a].improvement \in 1 .. ids["improvements"]
  BY DEF InsertOwner, Typed, WorkTyped, Carries
<1>2. "improvement" \in DOMAIN row /\ row.improvement = work[a].improvement
  BY DEF Over
<1>3. TablesTyped /\ InsertRow(t, row)
  BY DEF Typed, InsertOwner
<1> HIDE DEF row, t
<1>4. /\ t \in DOMAIN db /\ t \in DOMAIN ids /\ t \in Improvable
      /\ \A u \in Improvable \cup {"improvements", "improvements_unit_types"} : ids[u] \in Nat
  BY <1>1, <1>3, Tables DEF Watched, Improvable
<1>5. /\ DOMAIN db' = DOMAIN db /\ DOMAIN ids' = DOMAIN ids
      /\ \A u \in DOMAIN db : u # t => db'[u] = db[u]
      /\ \A u \in DOMAIN ids : u # t => ids'[u] = ids[u]
      /\ db'[t] = Put(db[t], ids[t] + 1, row) /\ ids'[t] = ids[t] + 1
  BY <1>3, <1>4 DEF InsertRow
<1>6. Entity(db[t], ids[t], ids["improvements"])
  BY <1>3, <1>4 DEF TablesTyped
<1>7. /\ DOMAIN db'[t] = DOMAIN db[t] \cup {ids[t] + 1} /\ db'[t][ids[t] + 1] = row
      /\ ids[t] + 1 \notin DOMAIN db[t] /\ \A id \in DOMAIN db[t] : db'[t][id] = db[t][id]
  BY <1>5, <1>6 DEF Put, Entity
<1>8. ids'["improvements"] = ids["improvements"] /\ ids'["improvements_unit_types"] = ids["improvements_unit_types"]
      /\ db'["improvements_unit_types"] = db["improvements_unit_types"]
  BY <1>1, <1>3, <1>5, Tables DEF Watched
<1>9. Entity(db'[t], ids'[t], ids["improvements"])
  BY <1>1, <1>2, <1>4, <1>5, <1>6, <1>7 DEF Entity
<1>10. \A u \in Improvable : Entity(db'[u], ids'[u], ids["improvements"])
  BY <1>3, <1>5, <1>9, Tables DEF TablesTyped, Watched
<1>11. TablesTyped'
  BY <1>3, <1>5, <1>8, <1>10 DEF TablesTyped
<1>12. \A u \in Numbered : u \in DOMAIN ids
  BY <1>3, Tables DEF Watched, Numbered
<1>13. Grows
  BY <1>4, <1>5, <1>12 DEF Grows, Numbered
<1> QED
  BY <1>1, <1>2, <1>3, <1>5, <1>7, <1>11, <1>13, Tables DEF t

(* An improvement is linked to an entity that is still there.             *)
LEMMA LinkTyped ==
    ASSUME Typed, NEW a \in Admin, LinkImprovement(a)
    PROVE  LET t == work[a].table  id == work[a].id IN
           /\ TablesTyped' /\ Grows
           /\ t \in Improvable /\ ids' = ids
           /\ \A u \in DOMAIN db : u # t => db'[u] = db[u]
           /\ DOMAIN db'[t] = DOMAIN db[t]
           /\ \A x \in DOMAIN db[t] : x # id => db'[t][x] = db[t][x]
           /\ id \in DOMAIN db[t] => db'[t][id].improvement = work[a].improvement
<1> DEFINE t == work[a].table
           id == work[a].id
           row == Over([improvement |-> work[a].improvement], db[t][id])
<1>1. t \in Improvable /\ work[a].improvement \in 1 .. ids["improvements"]
  BY DEF LinkImprovement, Typed, WorkTyped, Carries, Improving, Null
<1>2. "improvement" \in DOMAIN row /\ row.improvement = work[a].improvement
  BY DEF Over
<1>3. /\ TablesTyped
      /\ ids' = ids
      /\ id \in DOMAIN db[t] => db' = [db EXCEPT ![t] = [db[t] EXCEPT ![id] = row]]
      /\ id \notin DOMAIN db[t] => db' = db
  BY DEF Typed, LinkImprovement, UpdateRow
<1> HIDE DEF row, t, id
<1>4. t \in DOMAIN db /\ Entity(db[t], ids[t], ids["improvements"]) /\ \A u \in Numbered : ids[u] \in Nat
  BY <1>1, <1>3, Tables DEF Watched, TablesTyped, Numbered
<1>5. /\ DOMAIN db' = DOMAIN db
      /\ \A u \in DOMAIN db : u # t => db'[u] = db[u]
      /\ DOMAIN db'[t] = DOMAIN db[t]
      /\ \A x \in DOMAIN db[t] : x # id => db'[t][x] = db[t][x]
      /\ id \in DOMAIN db[t] => db'[t][id] = row
  BY <1>3, <1>4
<1>6. Entity(db'[t], ids[t], ids["improvements"])
  <2>1. ASSUME NEW x \in DOMAIN db'[t]
        PROVE  "improvement" \in DOMAIN db'[t][x] /\ db'[t][x].improvement \in 0 .. ids["improvements"]
    <3>1. CASE x = id
      BY <1>1, <1>2, <1>5, <2>1, <3>1
    <3>2. CASE x # id
      BY <1>4, <1>5, <2>1, <3>2 DEF Entity
    <3> QED
      BY <3>1, <3>2
  <2> QED
    BY <1>4, <1>5, <2>1 DEF Entity
<1>7. "improvements_unit_types" # t /\ "improvements_unit_types" \in DOMAIN db
  BY <1>1, <1>3, Tables DEF Watched, Improvable
<1>8. \A u \in Improvable : Entity(db'[u], ids[u], ids["improvements"])
  BY <1>3, <1>5, <1>6, Tables DEF TablesTyped, Watched
<1>9. TablesTyped'
  BY <1>3, <1>5, <1>7, <1>8 DEF TablesTyped
<1>10. Grows
  BY <1>3, <1>4 DEF Grows
<1> QED
  BY <1>1, <1>2, <1>3, <1>5, <1>9, <1>10 DEF t, id

(* A unit type improvement is inserted.                                   *)
LEMMA InsertGrantTyped ==
    ASSUME Typed, NEW a \in Admin, InsertGrant(a)
    PROVE  LET g == ids["improvements_unit_types"] + 1  u == "improvements_unit_types" IN
           /\ TablesTyped' /\ Grows
           /\ ids'["improvements"] = ids["improvements"]
           /\ \A t \in Improvable \cup {"images_store"} : db'[t] = db[t]
           /\ \A t \in Improvable : ids'[t] = ids[t]
           /\ ids'[u] = g /\ g \notin DOMAIN db[u] /\ DOMAIN db'[u] = DOMAIN db[u] \cup {g}
           /\ db'[u][g].improvement = work[a].improvement
           /\ \A x \in DOMAIN db[u] : db'[u][x] = db[u][x]
<1> DEFINE u == "improvements_unit_types"
           g == ids[u] + 1
           row == Granted(a)
<1>1. work[a].improvement \in 1 .. ids["improvements"]
  BY DEF InsertGrant, Typed, WorkTyped, Carries, Improving, Null
<1>2. "improvement" \in DOMAIN row /\ row.improvement = work[a].improvement
  BY DEF Granted
<1>3. TablesTyped /\ InsertRow(u, row)
  BY DEF Typed, InsertGrant
<1> HIDE DEF row
<1>4. u \in DOMAIN db /\ u \in DOMAIN ids /\ Grant(db[u], ids[u], ids["improvements"]) /\ \A t \in Numbered : ids[t] \in Nat
  BY <1>3, Tables DEF Watched, TablesTyped, Numbered
<1>5. /\ DOMAIN db' = DOMAIN db /\ DOMAIN ids' = DOMAIN ids
      /\ \A t \in DOMAIN db : t # u => db'[t] = db[t]
      /\ \A t \in DOMAIN ids : t # u => ids'[t] = ids[t]
      /\ db'[u] = Put(db[u], g, row) /\ ids'[u] = g
  BY <1>3, <1>4 DEF InsertRow
<1>6. /\ DOMAIN db'[u] = DOMAIN db[u] \cup {g} /\ db'[u][g] = row
      /\ g \notin DOMAIN db[u] /\ \A x \in DOMAIN db[u] : db'[u][x] = db[u][x]
  BY <1>4, <1>5 DEF Put, Grant
<1>7. Grant(db'[u], ids'[u], ids["improvements"])
  BY <1>1, <1>2, <1>4, <1>5, <1>6 DEF Grant
<1>8. /\ \A t \in Improvable \cup {"images_store"} : db'[t] = db[t]
      /\ \A t \in Improvable \cup {"improvements"} : ids'[t] = ids[t]
  BY <1>3, <1>5, Tables DEF Watched, Improvable
<1>9. \A t \in Improvable : Entity(db'[t], ids'[t], ids'["improvements"])
  BY <1>3, <1>8 DEF TablesTyped
<1>10. TablesTyped'
  BY <1>3, <1>5, <1>7, <1>8, <1>9, Tables DEF TablesTyped
<1>11. Grows
  BY <1>4, <1>5, <1>8 DEF Grows, Numbered
<1> QED
  BY <1>2, <1>5, <1>6, <1>8, <1>10, <1>11

(* A unit type improvement is deleted.                                    *)
LEMMA DeleteGrantTyped ==
    ASSUME Typed, NEW a, DeleteGrant(a)
    PROVE  LET u == "improvements_unit_types" IN
           /\ TablesTyped' /\ Grows /\ ids' = ids
           /\ \A t \in Improvable \cup {"images_store"} : db'[t] = db[t]
           /\ DOMAIN db'[u] = DOMAIN db[u] \ {work[a].grant}
           /\ \A x \in DOMAIN db'[u] : db'[u][x] = db[u][x]
<1> DEFINE u == "improvements_unit_types"
<1>1. /\ TablesTyped /\ ids' = ids
      /\ db' = [db EXCEPT ![u] = Without(db[u], {work[a].grant})]
  BY DEF Typed, DeleteGrant
<1>2. u \in DOMAIN db /\ Grant(db[u], ids[u], ids["improvements"]) /\ \A t \in Numbered : ids[t] \in Nat
  BY <1>1, Tables DEF Watched, TablesTyped, Numbered
<1>3. /\ DOMAIN db' = DOMAIN db
      /\ \A t \in DOMAIN db : t # u => db'[t] = db[t]
      /\ DOMAIN db'[u] = DOMAIN db[u] \ {work[a].grant}
      /\ \A x \in DOMAIN db'[u] : db'[u][x] = db[u][x]
  BY <1>1, <1>2 DEF Without
<1>4. Grant(db'[u], ids[u], ids["improvements"])
  BY <1>2, <1>3 DEF Grant
<1>5. \A t \in Improvable \cup {"images_store"} : db'[t] = db[t]
  BY <1>1, <1>3, Tables DEF Watched, Improvable
<1>6. TablesTyped'
  BY <1>1, <1>3, <1>4, <1>5 DEF TablesTyped
<1>7. Grows
  BY <1>1, <1>2 DEF Grows
<1> QED
  BY <1>1, <1>3, <1>5, <1>6, <1>7

------------------------------------------------------------------------------
(* One request goes on.                                                   *)
LEMMA OneGoesOn ==
    ASSUME WorkTyped, Grows, NEW a \in Admin, NEW w,
           work' = [work EXCEPT ![a] = w], Carries(w, ids')
    PROVE  WorkTyped'
<1>1. /\ DOMAIN work' = Admin /\ work'[a] = w
      /\ \A b \in Admin \ {a} : work'[b] = work[b]
  BY DEF WorkTyped
<1>2. \A b \in Admin : Carries(work[b], ids')
  BY CarriesGrows DEF WorkTyped, Grows
<1> QED
  BY <1>1, <1>2 DEF WorkTyped

(* A request that ends.                                                   *)
LEMMA IdleCarries ==
    ASSUME NEW n
    PROVE  Carries(Idle, n)
  BY DEF Carries, Idle, Improving, Imaging

(* A request that ends carries nothing.                                   *)
LEMMA OneEnds ==
    ASSUME WorkTyped, Grows, NEW a \in Admin, End(a)
    PROVE  WorkTyped'
  BY IdleCarries, OneGoesOn DEF End

(* Where a request on an improvement or an image may go.                  *)
LEMMA GotoCarries ==
    ASSUME NEW w, NEW n, Carries(w, n), NEW step,
           \/ w.do \in Improving /\ step \in {"update", "evict"}
           \/ w.do \in Imaging /\ step \in Imaging
    PROVE  Carries([w EXCEPT !.do = step], n)
<1> DEFINE v == [w EXCEPT !.do = step]
<1>1. DOMAIN v = DOMAIN w /\ v.do = step /\ \A x \in DOMAIN w : x # "do" => v[x] = w[x]
  BY DEF Carries
<1> HIDE DEF v
<1>2. ASSUME w.do \in Improving, step \in {"update", "evict"} PROVE Carries(v, n)
  <2>1. /\ {"table", "id", "improvement", "grant"} \subseteq DOMAIN v
        /\ v.table = w.table /\ v.id = w.id /\ v.improvement = w.improvement
        /\ w.table \in Improvable /\ w.id \in 1 .. n[w.table] /\ w.improvement \in 0 .. n["improvements"]
    BY <1>1, <1>2 DEF Carries
  <2> QED
    BY <1>1, <1>2, <2>1 DEF Carries, Improving, Imaging
<1>3. ASSUME w.do \in Imaging, step \in Imaging PROVE Carries(v, n)
  <2>1. "image" \in DOMAIN v /\ "do" \in DOMAIN v
    BY <1>1, <1>3 DEF Carries
  <2> QED
    BY <1>1, <1>3, <2>1 DEF Carries, Improving, Imaging
<1>4. Carries(v, n)
  BY <1>2, <1>3
<1> QED
  BY <1>4 DEF v

(* A request that goes on to another statement of its handler carries     *)
(* what that statement uses.                                              *)
LEMMA OneGoes ==
    ASSUME WorkTyped, Grows, NEW a \in Admin, NEW step, Goto(a, step),
           \/ work[a].do \in Improving /\ step \in {"update", "evict"}
           \/ work[a].do \in Imaging /\ step \in Imaging
    PROVE  WorkTyped'
<1>1. Carries(work[a], ids')
  BY CarriesGrows DEF WorkTyped, Grows
<1>2. Carries([work[a] EXCEPT !.do = step], ids')
  BY <1>1, GotoCarries
<1>3. work' = [work EXCEPT ![a] = [work[a] EXCEPT !.do = step]]
  BY DEF Goto
<1> QED
  BY <1>2, <1>3, OneGoesOn

(* After an edit a request evicts or ends.                                *)
LEMMA AfterEditTyped ==
    ASSUME WorkTyped, Grows, NEW a \in Admin, work[a].do \in Improving, AfterEdit(a)
    PROVE  WorkTyped'
  BY OneEnds, OneGoes DEF AfterEdit

(* Nothing is written.                                                    *)
LEMMA StaysTyped ==
    ASSUME TablesTyped, UNCHANGED <<db, ids>>
    PROVE  TablesTyped' /\ Grows
  BY TameStays, LeavesTyped DEF Tame

(* A list is taken entry by entry.                                        *)
LEMMA HeadToDone ==
    ASSUME NEW todo \in Seq(Nat), NEW done \in Seq(Nat), todo # <<>>
    PROVE  /\ Tail(todo) \in Seq(Nat) /\ Append(done, Head(todo)) \in Seq(Nat)
           /\ Append(done, Head(todo)) \o Tail(todo) = done \o todo
<1>1. /\ Head(todo) \in Nat /\ Tail(todo) \in Seq(Nat)
      /\ Head(todo) = todo[1]
      /\ Len(todo) \in Nat \ {0}
      /\ Len(Tail(todo)) = Len(todo) - 1
      /\ \A i \in 1 .. Len(Tail(todo)) : Tail(todo)[i] = todo[i + 1]
  BY EmptySeq, HeadTailProperties
<1> DEFINE head == Head(todo)
           tail == Tail(todo)
           more == Append(done, head)
<1>2. /\ more \in Seq(Nat) /\ Len(more) = Len(done) + 1 /\ Len(done) \in Nat
      /\ \A i \in 1 .. Len(done) : more[i] = done[i]
      /\ more[Len(done) + 1] = head
  BY <1>1
<1> HIDE DEF head, tail, more
<1>3. /\ tail \in Seq(Nat) /\ Len(tail) = Len(todo) - 1 /\ head = todo[1]
      /\ \A i \in 1 .. Len(tail) : tail[i] = todo[i + 1]
  BY <1>1 DEF tail, head
<1>4. Len(done) \in Nat /\ Len(todo) \in Nat /\ Len(more) + Len(tail) = Len(done) + Len(todo)
  BY <1>1, <1>2, <1>3
<1>8. /\ more \o tail \in Seq(Nat) /\ Len(more \o tail) = Len(more) + Len(tail)
      /\ \A i \in 1 .. Len(more) + Len(tail) : (more \o tail)[i] = IF i <= Len(more) THEN more[i] ELSE tail[i - Len(more)]
  BY <1>2, <1>3, ConcatProperties
<1>5. /\ done \o todo \in Seq(Nat) /\ Len(done \o todo) = Len(done) + Len(todo)
      /\ \A i \in 1 .. Len(done) + Len(todo) : (done \o todo)[i] = IF i <= Len(done) THEN done[i] ELSE todo[i - Len(done)]
  BY ConcatProperties
<1>6. ASSUME NEW i \in 1 .. Len(done) + Len(todo)
      PROVE  (more \o tail)[i] = (done \o todo)[i]
  <2>1. /\ (more \o tail)[i] = IF i <= Len(more) THEN more[i] ELSE tail[i - Len(more)]
        /\ (done \o todo)[i] = IF i <= Len(done) THEN done[i] ELSE todo[i - Len(done)]
    BY <1>4, <1>5, <1>8
  <2>2. CASE i <= Len(done)
    <3>1. i <= Len(more) /\ i \in 1 .. Len(done)
      BY <1>2, <1>4, <2>2
    <3> QED
      BY <1>2, <2>1, <2>2, <3>1
  <2>3. CASE i = Len(done) + 1
    <3>1. i <= Len(more) /\ ~ i <= Len(done) /\ i - Len(done) = 1
      BY <1>2, <1>4, <2>3
    <3> QED
      BY <1>2, <1>3, <2>1, <2>3, <3>1
  <2>4. CASE i > Len(done) + 1
    <3>1. /\ ~ i <= Len(more) /\ ~ i <= Len(done) /\ i - Len(more) + 1 = i - Len(done)
          /\ i - Len(more) \in 1 .. Len(tail)
      BY <1>1, <1>2, <1>3, <1>4, <2>4
    <3> QED
      BY <1>3, <2>1, <3>1
  <2>5. i <= Len(done) \/ i = Len(done) + 1 \/ i > Len(done) + 1
    BY <1>4
  <2> QED
    BY <2>2, <2>3, <2>4, <2>5
<1>7. more \o tail = done \o todo
  BY <1>4, <1>5, <1>6, <1>8, SeqEqual
<1> QED
  BY <1>1, <1>2, <1>7 DEF more, tail, head

------------------------------------------------------------------------------
(* The invariant: what is stored and what requests carry.                 *)

(* The tables are as they are started.                                    *)
LEMMA InitTyped ==
    ASSUME Init
    PROVE  Typed
<1>1. db = Start.db /\ work = [a \in Admin |-> Idle] /\ ids = [t \in DOMAIN db |-> Cardinality(DOMAIN db[t])]
  BY DEF Init
<1>2. \A t \in Numbered : t \in DOMAIN Start.db /\ ids[t] = Cardinality(DOMAIN Start.db[t]) /\ ids[t] \in Nat
                          /\ DOMAIN Start.db[t] = 1 .. ids[t]
  BY <1>1, StartAssumption, FS_CardinalityType
<1>3. ASSUME NEW t \in Improvable PROVE Entity(db[t], ids[t], ids["improvements"])
  <2>1. t \in Numbered /\ "improvements" \in Numbered
    BY DEF Numbered
  <2>2. DOMAIN db[t] = 1 .. ids[t] /\ ids[t] \in Nat
    BY <1>1, <1>2, <2>1
  <2>3. ids["improvements"] \in Nat /\ DOMAIN Start.db["improvements"] = 1 .. ids["improvements"]
    BY <1>2, <2>1
  <2>4. ASSUME NEW id \in DOMAIN db[t]
        PROVE  "improvement" \in DOMAIN db[t][id] /\ db[t][id].improvement \in 0 .. ids["improvements"]
    <3>1. /\ "improvement" \in DOMAIN db[t][id]
          /\ db[t][id].improvement \in 1 .. ids["improvements"] \cup {0}
      BY <1>1, <2>3, StartAssumption DEF Null
    <3> QED
      BY <2>3, <3>1
  <2> QED
    BY <2>2, <2>4 DEF Entity
<1>4. Grant(db["improvements_unit_types"], ids["improvements_unit_types"], ids["improvements"])
  BY <1>1, <1>2, StartAssumption DEF Grant, Numbered
<1>5. TablesTyped
  BY <1>1, <1>2, <1>3, <1>4 DEF TablesTyped, Numbered
<1>6. WorkTyped
  BY <1>1, IdleCarries DEF WorkTyped
<1> QED
  BY <1>5, <1>6 DEF Typed

(* A request is taken up with what its handler has read.                  *)
LEMMA BeginTyped ==
    ASSUME WorkTyped, Grows, NEW a \in Admin, NEW w, Begin(a, w), Carries(w, ids')
    PROVE  WorkTyped'
  BY OneGoesOn DEF Begin

(* A new unit or special location.                                        *)
LEMMA NewOwnerTyped ==
    ASSUME Typed, NEW a \in Admin, NewOwner(a)
    PROVE  Typed'
<1>1. CreateEmpty /\ TablesTyped /\ WorkTyped
  BY DEF NewOwner, SaveNewUnit, SaveNewSpecialLocation, Typed
<1>2. TablesTyped' /\ Grows /\ ids'["improvements"] = ids["improvements"] + 1 /\ ids["improvements"] \in Nat
  BY <1>1, CreateEmptyTyped, Tables
<1>3. ASSUME NEW t \in {"units", "special_locations"}, NEW b
      PROVE  Carries([do |-> "own", table |-> t, row |-> b, improvement |-> ids["improvements"] + 1], ids')
  BY <1>2 DEF Carries, Improving, Imaging
<1>4. WorkTyped'
  BY <1>1, <1>2, <1>3, BeginTyped DEF NewOwner, SaveNewUnit, SaveNewSpecialLocation
<1> QED
  BY <1>2, <1>4 DEF Typed

(* The insert of a unit or special location, or its refusal.              *)
LEMMA SaveOwnerKeepsTyped ==
    ASSUME Typed, NEW a \in Admin, SaveOwner(a)
    PROVE  Typed'
<1>1. TablesTyped' /\ Grows
  BY SaveOwnerTyped, StaysTyped DEF SaveOwner, RefuseOwner, Typed
<1>2. End(a) /\ WorkTyped
  BY DEF SaveOwner, InsertOwner, RefuseOwner, Typed
<1> QED
  BY <1>1, <1>2, OneEnds DEF Typed

(* The improvement of an entity, by the steps of its request.             *)
LEMMA ImproveTyped ==
    ASSUME Typed, NEW a \in Admin, Improve(a)
    PROVE  Typed'
<1>1. TablesTyped /\ WorkTyped
  BY DEF Typed
<1>2. UNCHANGED <<db, ids>>
  BY ZenonT(60) DEF Improve, SaveForEntity, AddUnitTypeImprovement, RemoveUnitTypeImprovement
<1>3. TablesTyped' /\ Grows
  BY <1>1, <1>2, StaysTyped
<1>4. ASSUME NEW t \in Improvable, NEW id \in DOMAIN db[t], NEW g, NEW step,
             \/ step = "create" \/ step = "update"
             \/ step = "grant" /\ db[t][id].improvement # Null
             \/ step = "ungrant" /\ db[t][id].improvement # Null /\ g \in DOMAIN db["improvements_unit_types"]
      PROVE  Carries([do |-> step, table |-> t, id |-> id, improvement |-> db[t][id].improvement, grant |-> g], ids')
  <2>1. id \in 1 .. ids[t] /\ db[t][id].improvement \in 0 .. ids["improvements"]
    BY <1>1 DEF TablesTyped, Entity
  <2>2. DOMAIN db["improvements_unit_types"] \subseteq 1 .. ids["improvements_unit_types"]
    BY <1>1 DEF TablesTyped, Grant
  <2> QED
    BY <1>2, <1>4, <2>1, <2>2 DEF Carries, Improving, Imaging
<1>5. ASSUME NEW t \in Improvable, NEW id, SaveForEntity(a, t, id)
      PROVE  WorkTyped'
  <2> DEFINE step == IF db[t][id].improvement = Null THEN "create" ELSE "update"
             w == [do |-> step, table |-> t, id |-> id, improvement |-> db[t][id].improvement, grant |-> Null]
  <2>1. id \in DOMAIN db[t] /\ Begin(a, w)
    BY <1>5 DEF SaveForEntity
  <2>2. Carries(w, ids')
    BY <1>4, <2>1
  <2> QED
    BY <1>1, <1>3, <2>1, <2>2, BeginTyped
<1>6. ASSUME NEW t \in Improvable, NEW id, NEW type, NEW value, AddUnitTypeImprovement(a, t, id, type, value)
      PROVE  WorkTyped'
  <2> DEFINE w == [do |-> "grant", table |-> t, id |-> id, improvement |-> db[t][id].improvement, grant |-> type]
  <2>1. id \in DOMAIN db[t] /\ db[t][id].improvement # Null /\ Begin(a, w)
    BY <1>6 DEF AddUnitTypeImprovement
  <2>2. Carries(w, ids')
    BY <1>4, <2>1
  <2> QED
    BY <1>1, <1>3, <2>1, <2>2, BeginTyped
<1>7. ASSUME NEW t \in Improvable, NEW id, NEW g, RemoveUnitTypeImprovement(a, t, id, g)
      PROVE  WorkTyped'
  <2> DEFINE w == [do |-> "ungrant", table |-> t, id |-> id, improvement |-> db[t][id].improvement, grant |-> g]
  <2>1. id \in DOMAIN db[t] /\ db[t][id].improvement # Null /\ Begin(a, w) /\ g \in DOMAIN db["improvements_unit_types"]
    BY <1>7 DEF RemoveUnitTypeImprovement, Belongs
  <2>2. Carries(w, ids')
    BY <1>4, <2>1
  <2> QED
    BY <1>1, <1>3, <2>1, <2>2, BeginTyped
<1> QED
  BY <1>3, <1>5, <1>6, <1>7 DEF Typed, Improve

(* The empty improvement a first edit makes, and its link to come.        *)
LEMMA CreateImprovementTyped ==
    ASSUME Typed, NEW a \in Admin, CreateImprovement(a)
    PROVE  Typed'
<1> DEFINE m == ids["improvements"] + 1
           w == [work[a] EXCEPT !.do = "link", !.improvement = m]
<1>1. TablesTyped /\ WorkTyped /\ CreateEmpty /\ work[a].do = "create" /\ work' = [work EXCEPT ![a] = w]
  BY DEF CreateImprovement, Typed
<1>2. TablesTyped' /\ Grows /\ ids'["improvements"] = m /\ ids["improvements"] \in Nat
  BY <1>1, CreateEmptyTyped, Tables
<1>3. Carries(work[a], ids')
  BY <1>1, <1>2, CarriesGrows DEF WorkTyped, Grows
<1>4. /\ {"do", "table", "id", "improvement", "grant"} \subseteq DOMAIN work[a]
      /\ work[a].table \in Improvable /\ work[a].id \in 1 .. ids'[work[a].table]
  BY <1>1, <1>3 DEF Carries, Improving
<1>5. /\ DOMAIN w = DOMAIN work[a] /\ w.do = "link" /\ w.improvement = m
      /\ w.table = work[a].table /\ w.id = work[a].id
  BY <1>4
<1>6. m # Null /\ m \in 0 .. ids'["improvements"]
  BY <1>2 DEF Null
<1> HIDE DEF w, m
<1>7. Carries(w, ids')
  BY <1>4, <1>5, <1>6 DEF Carries, Improving, Imaging
<1>8. WorkTyped'
  BY <1>1, <1>2, <1>7, OneGoesOn
<1> QED
  BY <1>2, <1>8 DEF Typed

(* The steps that follow.                                                 *)
LEMMA ImprovingTyped ==
    ASSUME Typed, NEW a \in Admin,
           LinkImprovement(a) \/ UpdateImprovement(a) \/ InsertGrant(a) \/ RefuseGrant(a) \/ DeleteGrant(a) \/ EvictAll(a)
    PROVE  Typed'
<1>1. TablesTyped /\ WorkTyped
  BY DEF Typed
<1>2. TablesTyped' /\ Grows
  <2>1. CASE UpdateImprovement(a)
    BY <1>1, <2>1, UpdateImprovementIsTame, LeavesTyped DEF Tame
  <2>2. CASE RefuseGrant(a) \/ EvictAll(a)
    BY <1>1, <2>2, StaysTyped DEF RefuseGrant, EvictAll
  <2> QED
    BY <2>1, <2>2, LinkTyped, InsertGrantTyped, DeleteGrantTyped
<1>3. WorkTyped'
  <2>1. CASE LinkImprovement(a)
    BY <1>1, <1>2, <2>1, OneGoes DEF LinkImprovement, Improving
  <2>2. CASE UpdateImprovement(a) \/ InsertGrant(a) \/ DeleteGrant(a)
    BY <1>1, <1>2, <2>2, AfterEditTyped DEF UpdateImprovement, InsertGrant, DeleteGrant, Improving
  <2>3. CASE RefuseGrant(a) \/ EvictAll(a)
    BY <1>1, <1>2, <2>3, OneEnds DEF RefuseGrant, EvictAll
  <2> QED
    BY <2>1, <2>2, <2>3
<1> QED
  BY <1>2, <1>3 DEF Typed

(* Lists, entry by entry.                                                 *)
LEMMA ListTyped ==
    ASSUME Typed, NEW a \in Admin, SaveList(a) \/ InsertEntry(a) \/ RefuseEntry(a) \/ CommitList(a)
    PROVE  Typed'
<1>1. TablesTyped /\ WorkTyped
  BY DEF Typed
<1>2. CASE SaveList(a)
  <2>1. TablesTyped' /\ Grows
    BY <1>1, <1>2, SaveListIsTame, LeavesTyped DEF Tame
  <2>2. ASSUME NEW l \in DOMAIN OwnerOf, NEW id, NEW body \in ListBody[l]
        PROVE Carries(ListWork(l, id, body), ids')
    <3>1. body \in Seq(Nat) /\ <<>> \in Seq(Nat)
      BY BodyAssumption
    <3> QED
      BY <3>1 DEF Carries, ListWork, Improving, Imaging
  <2>3. {"attack_rule_entries", "critical_attack_entries", "factions_unit_types", "faction_spawn_location"} \subseteq DOMAIN OwnerOf
    BY DEF OwnerOf
  <2>4. \E id : \E l \in DOMAIN OwnerOf : \E body \in ListBody[l] : Begin(a, ListWork(l, id, body))
    BY <1>2, <2>3 DEF SaveList, SaveNewCriticalAttack, DeleteEntries, SaveExistingAttackRule,
       SaveExistingCriticalAttack, SaveOverrides, SaveSpawnLocations
  <2>5. WorkTyped'
    BY <1>1, <2>1, <2>2, <2>4, BeginTyped
  <2> QED
    BY <2>1, <2>5 DEF Typed
<1>3. CASE InsertEntry(a)
  <2> DEFINE w == work[a]
             v == [w EXCEPT !.todo = Tail(@), !.done = Append(@, Head(w.todo))]
  <2>1. TablesTyped' /\ Grows
    BY <1>1, <1>3, StaysTyped DEF InsertEntry
  <2>2. Carries(w, ids')
    BY <1>1, <2>1, CarriesGrows DEF WorkTyped, Grows
  <2>3. w.do = "list" /\ w.todo # <<>> /\ work' = [work EXCEPT ![a] = v]
    BY <1>3 DEF InsertEntry
  <2>4. {"do", "table", "id", "todo", "done"} \subseteq DOMAIN w /\ w.table \in DOMAIN OwnerOf
        /\ w.todo \in Seq(Nat) /\ w.done \in Seq(Nat)
    BY <2>2, <2>3 DEF Carries
  <2>5. /\ DOMAIN v = DOMAIN w /\ v.do = "list" /\ v.table = w.table
        /\ v.todo = Tail(w.todo) /\ v.done = Append(w.done, Head(w.todo))
    BY <2>3, <2>4
  <2>6. v.todo \in Seq(Nat) /\ v.done \in Seq(Nat)
    BY <2>3, <2>4, <2>5, HeadToDone
  <2> HIDE DEF v, w
  <2>7. Carries(v, ids')
    BY <2>4, <2>5, <2>6 DEF Carries, Improving, Imaging
  <2>8. WorkTyped'
    BY <1>1, <2>1, <2>3, <2>7, OneGoesOn
  <2> QED
    BY <2>1, <2>8 DEF Typed
<1>4. CASE RefuseEntry(a) \/ CommitList(a)
  BY <1>1, <1>4, StaysTyped, OneEnds DEF RefuseEntry, CommitList, Typed
<1> QED
  BY <1>2, <1>3, <1>4

(* Images.                                                                *)
LEMMA ImageTyped ==
    ASSUME Typed, NEW a \in Admin,
           (\E i \in Image : SaveImage(a, i)) \/ SaveToDisk(a) \/ WriteEnds(a) \/ LookUpImage(a) \/ InsertImage(a)
    PROVE  Typed'
<1>1. TablesTyped /\ WorkTyped
  BY DEF Typed
<1>2. TablesTyped' /\ Grows
  <2>1. CASE InsertImage(a)
    BY <1>1, <2>1, InsertImageLeaves, LeavesTyped
  <2>2. CASE UNCHANGED <<db, ids>>
    BY <1>1, <2>2, StaysTyped
  <2> QED
    BY <2>1, <2>2 DEF SaveImage, SaveToDisk, WriteEnds, LookUpImage
<1>3. ASSUME NEW i, SaveImage(a, i) PROVE WorkTyped'
  <2> DEFINE w == [do |-> IF i \in DOMAIN files THEN "look" ELSE "write", image |-> i]
  <2>1. Carries(w, ids')
    BY DEF Carries, Improving, Imaging
  <2>2. Begin(a, w)
    BY <1>3 DEF SaveImage
  <2> QED
    BY <1>1, <1>2, <2>1, <2>2, BeginTyped
<1>4. ASSUME SaveToDisk(a) \/ WriteEnds(a) \/ LookUpImage(a) PROVE WorkTyped'
  BY <1>1, <1>2, <1>4, OneGoes, OneEnds DEF SaveToDisk, WriteEnds, LookUpImage, Imaging
<1>5. ASSUME InsertImage(a) PROVE WorkTyped'
  BY <1>1, <1>2, <1>5, OneEnds DEF InsertImage
<1> QED
  BY <1>2, <1>3, <1>4, <1>5 DEF Typed

(* What is looked up and then written.                                    *)
LEMMA LookUpTyped ==
    ASSUME Typed, NEW a \in Admin, LookUp(a) \/ Write(a)
    PROVE  Typed'
<1>1. TablesTyped /\ WorkTyped
  BY DEF Typed
<1>2. CASE LookUp(a)
  <2>1. UNCHANGED <<db, ids>>
    BY <1>2 DEF LookUp, AddTranslation, AddVisitedEntry, MarkAsRead, MarkIfNew, FindOrSetDefault,
       AddAdmin, NameIfNew
  <2>2. TablesTyped' /\ Grows
    BY <1>1, <2>1, StaysTyped
  <2>3. ASSUME NEW t, NEW l, NEW id, AddTranslation(a, t, l, id) PROVE WorkTyped'
    <3>1. Carries([do |-> "translate", id |-> id, row |-> [translatable |-> t, lang |-> l]], ids')
      BY DEF Carries, Improving, Imaging
    <3> QED
      BY <1>1, <2>2, <2>3, <3>1, BeginTyped DEF AddTranslation
  <2>4. ASSUME NEW t \in {"visited_tutorial_entries", "user_read_system_messages"}, NEW row, MarkIfNew(a, t, row)
        PROVE WorkTyped'
    <3>1. Carries([do |-> "mark", table |-> t, row |-> row], ids')
      BY DEF Carries, Improving, Imaging
    <3> QED
      BY <1>1, <2>2, <2>4, <3>1, BeginTyped DEF MarkIfNew
  <2>5. ASSUME NEW t \in {"configuration", "admin_users"}, NEW n, NEW row, NameIfNew(a, t, n, row)
        PROVE WorkTyped'
    <3>1. Carries([do |-> "name", table |-> t, name |-> n, row |-> row], ids')
      BY DEF Carries, Improving, Imaging
    <3> QED
      BY <1>1, <2>2, <2>5, <3>1, BeginTyped DEF NameIfNew
  <2>6. WorkTyped'
    BY <1>2, <2>3, <2>4, <2>5 DEF LookUp, AddVisitedEntry, MarkAsRead, FindOrSetDefault, AddAdmin
  <2> QED
    BY <2>2, <2>6 DEF Typed
<1>3. CASE Write(a)
  <2>1. TablesTyped' /\ Grows
    BY <1>1, <1>3, WriteIsTame, LeavesTyped DEF Tame
  <2>2. End(a)
    BY <1>3 DEF Write, WriteTranslation, WriteMark, WriteName
  <2> QED
    BY <1>1, <2>1, <2>2, OneEnds DEF Typed
<1> QED
  BY <1>2, <1>3

(* Edits of one statement, and faults.                                    *)
LEMMA OtherTyped ==
    ASSUME Typed, Edit \/ Crash \/ (\E a \in Admin : Vanish(a)) \/ UNCHANGED vars
    PROVE  Typed'
<1>1. TablesTyped /\ WorkTyped
  BY DEF Typed
<1>2. CASE Edit
  <2>1. TablesTyped' /\ Grows
    BY <1>1, <1>2, EditIsTame, LeavesTyped DEF Tame
  <2>2. work' = work
    BY <1>2 DEF Edit
  <2>3. WorkTyped'
    BY <1>1, <2>1, <2>2, CarriesGrows DEF WorkTyped, Grows
  <2> QED
    BY <2>1, <2>3 DEF Typed
<1>3. CASE Crash
  <2>1. TablesTyped'
    BY <1>1, <1>3, StaysTyped DEF Crash
  <2>2. WorkTyped'
    BY <1>3, IdleCarries DEF Crash, WorkTyped
  <2> QED
    BY <2>1, <2>2 DEF Typed
<1>4. ASSUME NEW a \in Admin, Vanish(a) PROVE Typed'
  BY <1>1, <1>4, StaysTyped, OneEnds DEF Vanish, Typed
<1>5. CASE UNCHANGED vars
  <2>1. TablesTyped' /\ work' = work /\ ids' = ids
    BY <1>1, <1>5, StaysTyped DEF vars
  <2> QED
    BY <1>1, <2>1 DEF Typed, WorkTyped
<1> QED
  BY <1>2, <1>3, <1>4, <1>5

(* Every step leaves tables and requests typed.                           *)
LEMMA StepTyped ==
    ASSUME Typed, [Next]_vars
    PROVE  Typed'
<1>1. ASSUME NEW a \in Admin,
             \/ NewOwner(a) \/ SaveOwner(a)
             \/ Improve(a) \/ CreateImprovement(a) \/ LinkImprovement(a) \/ UpdateImprovement(a)
             \/ InsertGrant(a) \/ RefuseGrant(a) \/ DeleteGrant(a) \/ EvictAll(a)
      PROVE  Typed'
  BY <1>1, NewOwnerTyped, SaveOwnerKeepsTyped, ImproveTyped, CreateImprovementTyped,
     ImprovingTyped
<1>2. ASSUME NEW a \in Admin,
             \/ SaveList(a) \/ InsertEntry(a) \/ RefuseEntry(a) \/ CommitList(a)
             \/ \E i \in Image : SaveImage(a, i)
             \/ SaveToDisk(a) \/ WriteEnds(a) \/ LookUpImage(a) \/ InsertImage(a)
             \/ LookUp(a) \/ Write(a) \/ Vanish(a)
      PROVE  Typed'
  BY <1>2, ListTyped, ImageTyped, LookUpTyped, OtherTyped
<1>3. ASSUME Edit \/ Crash \/ UNCHANGED vars PROVE Typed'
  BY <1>3, OtherTyped
<1> QED
  BY <1>1, <1>2, <1>3 DEF Next

(* Ids are given once and in order, the rows and requests of entities and *)
(* of improvements name improvements that were made, and a request carries*)
(* what its next statement needs.                                         *)
THEOREM SpecTyped == Spec => []Typed
<1>1. Init => Typed
  BY InitTyped
<1>2. Typed /\ [Next]_vars => Typed'
  BY StepTyped
<1> QED
  BY <1>1, <1>2, PTL DEF Spec

------------------------------------------------------------------------------
(* How requests move.                                                     *)
Moves(a, S) == \E w : work' = [work EXCEPT ![a] = w] /\ w.do \in S

(* Steps that are about no list and no image.                             *)
Elsewhere(a) ==
    \/ NewOwner(a) \/ SaveOwner(a)
    \/ Improve(a) \/ CreateImprovement(a) \/ LinkImprovement(a) \/ UpdateImprovement(a)
    \/ InsertGrant(a) \/ RefuseGrant(a) \/ DeleteGrant(a) \/ EvictAll(a)
    \/ LookUp(a) \/ Write(a) \/ Vanish(a)
Listing(a) == SaveList(a) \/ InsertEntry(a) \/ RefuseEntry(a) \/ CommitList(a)
Picturing(a) ==
    (\E i \in Image : SaveImage(a, i)) \/ SaveToDisk(a) \/ WriteEnds(a) \/ LookUpImage(a) \/ InsertImage(a)

(* The steps, in the groups the proofs tell apart.                        *)
LEMMA NextSplit ==
    ASSUME [Next]_vars
    PROVE  Edit \/ Crash \/ UNCHANGED vars \/ \E a \in Admin : Elsewhere(a) \/ Listing(a) \/ Picturing(a)
  BY DEF Next, Elsewhere, Listing, Picturing

(* A request that is sent on.                                             *)
LEMMA GotoMoves ==
    ASSUME Typed, NEW a \in Admin, NEW step, NEW S, Goto(a, step), step \in S
    PROVE  Moves(a, S)
<1>1. work' = [work EXCEPT ![a] = [work[a] EXCEPT !.do = step]]
  BY DEF Goto
<1>2. [work[a] EXCEPT !.do = step].do = step
  BY DEF Typed, WorkTyped, Carries
<1> QED
  BY <1>1, <1>2 DEF Moves

(* A request that ends.                                                   *)
LEMMA EndMoves ==
    ASSUME NEW a \in Admin, NEW S, End(a), "idle" \in S
    PROVE  Moves(a, S)
<1>1. Idle.do = "idle"
  BY DEF Idle
<1>2. work' = [work EXCEPT ![a] = Idle]
  BY DEF End
<1> QED
  BY <1>1, <1>2 DEF Moves

(* A request that arrives.                                                *)
LEMMA BeginMoves ==
    ASSUME NEW a, NEW w, NEW S, Begin(a, w), w.do \in S
    PROVE  Moves(a, S)
  BY DEF Begin, Moves

(* The statements of a request that is neither about a list nor an image. *)
Apart == {"idle", "own", "translate", "mark", "name"} \cup Improving

(* Outside of lists and images a request comes to neither.                *)
LEMMA ElsewhereMoves ==
    ASSUME Typed, NEW a \in Admin, Elsewhere(a)
    PROVE  Moves(a, Apart)
<1>1. CASE NewOwner(a)
  BY <1>1, BeginMoves DEF NewOwner, SaveNewUnit, SaveNewSpecialLocation, Apart
<1>2. CASE Improve(a)
  <2>1. ASSUME NEW t, NEW id, SaveForEntity(a, t, id) PROVE Moves(a, Apart)
    BY <2>1, BeginMoves DEF SaveForEntity, Apart, Improving
  <2>2. ASSUME NEW t, NEW id, NEW type, NEW value, AddUnitTypeImprovement(a, t, id, type, value)
        PROVE Moves(a, Apart)
    BY <2>2, BeginMoves DEF AddUnitTypeImprovement, Apart, Improving
  <2>3. ASSUME NEW t, NEW id, NEW g, RemoveUnitTypeImprovement(a, t, id, g) PROVE Moves(a, Apart)
    BY <2>3, BeginMoves DEF RemoveUnitTypeImprovement, Apart, Improving
  <2> QED
    BY <1>2, <2>1, <2>2, <2>3 DEF Improve
<1>3. CASE CreateImprovement(a)
  <2> DEFINE w == [work[a] EXCEPT !.do = "link", !.improvement = ids["improvements"] + 1]
  <2>1. work' = [work EXCEPT ![a] = w]
    BY <1>3 DEF CreateImprovement
  <2>2. w.do \in Apart
    BY DEF Typed, WorkTyped, Carries, Apart, Improving
  <2> QED
    BY <2>1, <2>2 DEF Moves
<1>4. CASE LinkImprovement(a)
  BY <1>4, GotoMoves DEF LinkImprovement, Apart, Improving
<1>5. CASE UpdateImprovement(a) \/ InsertGrant(a) \/ DeleteGrant(a)
  BY <1>5, GotoMoves, EndMoves DEF UpdateImprovement, InsertGrant, DeleteGrant, AfterEdit, Apart,
     Improving
<1>6. CASE SaveOwner(a) \/ RefuseGrant(a) \/ EvictAll(a) \/ Write(a) \/ Vanish(a)
  <2>1. End(a)
    BY <1>6 DEF SaveOwner, InsertOwner, RefuseOwner, RefuseGrant, EvictAll, Write,
       WriteTranslation, WriteMark, WriteName, Vanish
  <2> QED
    BY <2>1, EndMoves DEF Apart
<1>7. CASE LookUp(a)
  <2>1. ASSUME NEW t, NEW l, NEW id, AddTranslation(a, t, l, id) PROVE Moves(a, Apart)
    BY <2>1, BeginMoves DEF AddTranslation, Apart
  <2>2. ASSUME NEW t, NEW row, MarkIfNew(a, t, row) PROVE Moves(a, Apart)
    BY <2>2, BeginMoves DEF MarkIfNew, Apart
  <2>3. ASSUME NEW t, NEW n, NEW row, NameIfNew(a, t, n, row) PROVE Moves(a, Apart)
    BY <2>3, BeginMoves DEF NameIfNew, Apart
  <2> QED
    BY <1>7, <2>1, <2>2, <2>3 DEF LookUp, AddVisitedEntry, MarkAsRead, FindOrSetDefault, AddAdmin
<1> QED
  BY <1>1, <1>2, <1>3, <1>4, <1>5, <1>6, <1>7 DEF Elsewhere

(* Outside of lists and images no list, file or promise changes.          *)
LEMMA ElsewhereLeaves ==
    ASSUME NEW a, Elsewhere(a)
    PROVE  UNCHANGED <<files, lists, saved>>
<1>1. CASE NewOwner(a) \/ SaveOwner(a) \/ LookUp(a) \/ Write(a) \/ Vanish(a)
  BY <1>1 DEF NewOwner, SaveOwner, LookUp, Write, Vanish, ghosts
<1>2. CASE Improve(a) \/ CreateImprovement(a) \/ LinkImprovement(a) \/ UpdateImprovement(a)
  BY ZenonT(60), <1>2 DEF Improve, SaveForEntity, AddUnitTypeImprovement, RemoveUnitTypeImprovement,
     CreateImprovement, LinkImprovement, UpdateImprovement, ghosts
<1>3. CASE InsertGrant(a) \/ RefuseGrant(a) \/ DeleteGrant(a) \/ EvictAll(a)
  BY <1>3 DEF InsertGrant, RefuseGrant, DeleteGrant, EvictAll, ghosts
<1> QED
  BY <1>1, <1>2, <1>3 DEF Elsewhere

(* And the images are those there were.                                   *)
LEMMA ElsewherePictures ==
    ASSUME Typed, NEW a \in Admin, Elsewhere(a)
    PROVE  Pictures(db')
<1>1. TablesTyped
  BY DEF Typed
<1>2. ASSUME db'["images_store"] = db["images_store"] PROVE Pictures(db')
  BY <1>2 DEF Pictures
<1>3. CASE UNCHANGED <<db, ids>>
  BY <1>1, <1>3, TameStays DEF Tame
<1>4. CASE CreateEmpty
  BY <1>1, <1>2, <1>4, CreateEmptyTyped DEF Watched
<1>5. CASE InsertOwner(a)
  BY <1>1, <1>2, <1>5, SaveOwnerTyped, Tables DEF Watched
<1>6. CASE LinkImprovement(a)
  <2>1. work[a].table # "images_store"
    BY <1>6, LinkTyped DEF Improvable
  <2> QED
    BY <1>1, <1>2, <1>6, <2>1, LinkTyped, Tables DEF Watched
<1>7. CASE UpdateImprovement(a)
  BY <1>1, <1>7, UpdateImprovementIsTame DEF Tame
<1>8. CASE InsertGrant(a)
  BY <1>2, <1>8, InsertGrantTyped
<1>9. CASE DeleteGrant(a)
  BY <1>2, <1>9, DeleteGrantTyped
<1>10. CASE Write(a)
  BY <1>10, WriteIsTame DEF Tame
<1>11. NewOwner(a) => CreateEmpty
  BY DEF NewOwner, SaveNewUnit, SaveNewSpecialLocation
<1>12. SaveOwner(a) => InsertOwner(a) \/ UNCHANGED <<db, ids>>
  BY DEF SaveOwner, RefuseOwner
<1>13. Improve(a) \/ LookUp(a) => UNCHANGED <<db, ids>>
  BY ZenonT(60) DEF Improve, SaveForEntity, AddUnitTypeImprovement, RemoveUnitTypeImprovement, LookUp,
     AddTranslation, AddVisitedEntry, MarkAsRead, MarkIfNew, FindOrSetDefault, AddAdmin, NameIfNew
<1>14. RefuseGrant(a) \/ EvictAll(a) \/ Vanish(a) => UNCHANGED <<db, ids>>
  BY DEF RefuseGrant, EvictAll, Vanish
<1>15. CreateImprovement(a) => CreateEmpty
  BY DEF CreateImprovement
<1> QED
  BY <1>3, <1>4, <1>5, <1>6, <1>7, <1>8, <1>9, <1>10, <1>11, <1>12, <1>13, <1>14, <1>15
     DEF Elsewhere

(* What is left of a list or an image when another request moves.         *)
LEMMA MovesOne ==
    ASSUME WorkTyped, NEW a \in Admin, NEW S, Moves(a, S)
    PROVE  /\ DOMAIN work' = Admin /\ work'[a].do \in S
           /\ \A b \in Admin \ {a} : work'[b] = work[b]
  BY DEF Moves, WorkTyped

------------------------------------------------------------------------------
(* Edits of improvements reach the players.                               *)
Evicting == \E a \in Admin : work[a].do = "evict"

(* A step that edits no improvement leaves a request that evicts to it.   *)
LEMMA StaysCurrent ==
    ASSUME Typed, EditsReachPlayers, NEW a \in Admin, NEW S, Moves(a, S),
           work[a].do # "evict", UNCHANGED <<dirty, broken>>
    PROVE  EditsReachPlayers'
<1>1. \A b \in Admin : work[b].do = "evict" => work'[b].do = "evict"
  BY MovesOne DEF Typed
<1> QED
  BY <1>1 DEF EditsReachPlayers

(* An edit of an improvement goes on to the eviction, where the type of   *)
(* its owner has one.                                                     *)
LEMMA EditStaysCurrent ==
    ASSUME Typed, EditsReachPlayers, NEW a \in Admin, work[a].do # "evict",
           dirty' = dirty \cup {work[a].table}, broken' = broken, AfterEdit(a)
    PROVE  EditsReachPlayers'
<1>1. CASE Evicts(work[a].table)
  <2>1. work'[a].do = "evict"
    BY <1>1, GotoMoves, MovesOne DEF AfterEdit, Typed
  <2> QED
    BY <2>1 DEF EditsReachPlayers
<1>2. CASE ~Evicts(work[a].table)
  <2>1. \A b \in Admin : work[b].do = "evict" => work'[b].do = "evict"
    BY <1>2, EndMoves, MovesOne DEF AfterEdit, Typed
  <2>2. work[a].table = "special_locations"
    BY <1>2 DEF Evicts
  <2> QED
    BY <2>1, <2>2 DEF EditsReachPlayers
<1> QED
  BY <1>1, <1>2

(* Every step leaves an eviction to come for what it changed.             *)
LEMMA StepStaysCurrent ==
    ASSUME Typed, EditsReachPlayers, [Next]_vars
    PROVE  EditsReachPlayers'
<1>1. CASE Edit
  BY <1>1 DEF Edit, EditsReachPlayers
<1>2. CASE Crash
  BY <1>2 DEF Crash, EditsReachPlayers
<1>3. CASE UNCHANGED vars
  BY <1>3 DEF vars, EditsReachPlayers
<1>4. ASSUME NEW a \in Admin, Listing(a) PROVE EditsReachPlayers'
  <2>1. UNCHANGED <<dirty, broken>> /\ work[a].do # "evict"
    BY <1>4 DEF Listing, SaveList, SaveNewCriticalAttack, SaveExistingAttackRule,
       SaveExistingCriticalAttack, SaveOverrides, SaveSpawnLocations, DeleteEntries, Begin,
       InsertEntry, RefuseEntry, CommitList, ghosts
  <2>2. \A b \in Admin : b # a => work'[b] = work[b]
    BY <1>4 DEF Listing, SaveList, SaveNewCriticalAttack, SaveExistingAttackRule,
       SaveExistingCriticalAttack, SaveOverrides, SaveSpawnLocations, DeleteEntries, Begin,
       InsertEntry, RefuseEntry, CommitList, End, Typed, WorkTyped
  <2> QED
    BY <2>1, <2>2 DEF EditsReachPlayers
<1>5. ASSUME NEW a \in Admin, Picturing(a) PROVE EditsReachPlayers'
  <2>1. UNCHANGED <<dirty, broken>> /\ work[a].do # "evict"
    BY <1>5 DEF Picturing, SaveImage, Begin, SaveToDisk, WriteEnds, LookUpImage, InsertImage,
       ghosts
  <2>2. \A b \in Admin : b # a => work'[b] = work[b]
    BY <1>5 DEF Picturing, SaveImage, Begin, SaveToDisk, WriteEnds, LookUpImage, InsertImage, End,
       Goto, Typed, WorkTyped
  <2> QED
    BY <2>1, <2>2 DEF EditsReachPlayers
<1>6. ASSUME NEW a \in Admin, Elsewhere(a) PROVE EditsReachPlayers'
  <2>1. Moves(a, Apart)
    BY <1>6, ElsewhereMoves
  <2>2. CASE NewOwner(a) \/ Improve(a) \/ LookUp(a)
    <3>1. UNCHANGED <<dirty, broken>>
      BY ZenonT(60), <2>2 DEF NewOwner, Improve, SaveForEntity, AddUnitTypeImprovement,
         RemoveUnitTypeImprovement, LookUp, ghosts
    <3>2. NewOwner(a) => work[a].do = "idle"
      BY DEF NewOwner, SaveNewUnit, SaveNewSpecialLocation, Begin
    <3>3. Improve(a) => work[a].do = "idle"
      BY ZenonT(60) DEF Improve, SaveForEntity, AddUnitTypeImprovement, RemoveUnitTypeImprovement, Begin
    <3>4. LookUp(a) => work[a].do = "idle"
      BY DEF LookUp, AddTranslation, AddVisitedEntry, MarkAsRead, MarkIfNew, FindOrSetDefault,
         AddAdmin, NameIfNew, Begin
    <3> QED
      BY <2>1, <2>2, <3>1, <3>2, <3>3, <3>4, StaysCurrent
  <2>3. CASE SaveOwner(a) \/ CreateImprovement(a) \/ LinkImprovement(a) \/ RefuseGrant(a) \/ Write(a)
    <3>1. UNCHANGED <<dirty, broken>> /\ work[a].do # "evict"
      BY <2>3 DEF SaveOwner, InsertOwner, RefuseOwner, CreateImprovement, LinkImprovement,
         RefuseGrant, Write, WriteTranslation, WriteMark, WriteName, ghosts
    <3> QED
      BY <2>1, <3>1, StaysCurrent
  <2>4. CASE UpdateImprovement(a) \/ InsertGrant(a) \/ DeleteGrant(a)
    BY <2>4, EditStaysCurrent DEF UpdateImprovement, InsertGrant, DeleteGrant, ghosts
  <2>5. CASE EvictAll(a)
    BY <2>5 DEF EvictAll, EditsReachPlayers
  <2>6. CASE Vanish(a)
    <3>1. CASE work[a].do = "evict"
      BY <2>6, <3>1 DEF Vanish, EditsReachPlayers
    <3>2. CASE work[a].do # "evict"
      <4>1. dirty' = dirty /\ (broken' <=> broken)
        BY <2>6, <3>2 DEF Vanish
      <4>2. \A b \in Admin : work[b].do = "evict" => work'[b].do = "evict"
        BY <2>1, <3>2, MovesOne DEF Typed
      <4> QED
        BY <4>1, <4>2 DEF EditsReachPlayers
    <3> QED
      BY <3>1, <3>2
  <2> QED
    BY <1>6, <2>2, <2>3, <2>4, <2>5, <2>6 DEF Elsewhere
<1> QED
  BY <1>1, <1>2, <1>3, <1>4, <1>5, <1>6, NextSplit

(* No aggregate older than an edit stays cached, but for special locations*)
(* and for requests that ended before their eviction (improvement_bo.rs). *)
THEOREM SpecEditsReachPlayers == Spec => []EditsReachPlayers
<1>1. Init => EditsReachPlayers
  BY DEF Init, EditsReachPlayers
<1>2. Typed /\ EditsReachPlayers /\ [Next]_vars => EditsReachPlayers'
  BY StepStaysCurrent
<1> QED
  BY <1>1, <1>2, SpecTyped, PTL DEF Spec

------------------------------------------------------------------------------
(* Lists saved in a transaction.                                          *)
Listed == DOMAIN OwnerOf \ {"critical_attack_entries"}

(* What a request has taken of a list and what it has left make one that  *)
(* was asked for.                                                         *)
WholeWork(w, asked) ==
    w.do = "list" /\ w.table \in Listed
       => w.id \in DOMAIN asked[w.table] /\ w.done \o w.todo \in asked[w.table][w.id]

WholeLists ==
    /\ DOMAIN lists = DOMAIN OwnerOf /\ DOMAIN saved = DOMAIN OwnerOf
    /\ \A l \in Listed : \A id \in DOMAIN lists[l] : id \in DOMAIN saved[l] /\ lists[l][id] \in saved[l][id]
    /\ \A a \in Admin : WholeWork(work[a], saved)

(* What was asked for is not forgotten.                                   *)
Remembers ==
    /\ DOMAIN saved' = DOMAIN saved
    /\ \A l \in DOMAIN saved : /\ DOMAIN saved[l] \subseteq DOMAIN saved'[l]
                               /\ \A id \in DOMAIN saved[l] : saved[l][id] \subseteq saved'[l][id]

(* A request for a list is added to what was asked of it.                 *)
LEMMA AskedRemembers ==
    ASSUME NEW l \in DOMAIN saved, NEW id, NEW body, Asked(l, id, body)
    PROVE  Remembers /\ id \in DOMAIN saved'[l] /\ body \in saved'[l][id]
<1> DEFINE old == saved[l]
           now == {body} \cup (IF id \in DOMAIN old THEN old[id] ELSE {})
<1>1. saved' = [saved EXCEPT ![l] = Put(old, id, now)]
  BY DEF Asked
<1>2. /\ DOMAIN saved' = DOMAIN saved /\ saved'[l] = Put(old, id, now)
      /\ \A k \in DOMAIN saved : k # l => saved'[k] = saved[k]
  BY <1>1
<1>3. body \in now /\ (id \in DOMAIN old => old[id] \subseteq now)
  OBVIOUS
<1> HIDE DEF now
<1>4. /\ DOMAIN Put(old, id, now) = DOMAIN old \cup {id} /\ Put(old, id, now)[id] = now
      /\ \A x \in DOMAIN old : x # id => Put(old, id, now)[x] = old[x]
  BY DEF Put
<1>5. \A x \in DOMAIN old : old[x] \subseteq Put(old, id, now)[x]
  BY <1>3, <1>4
<1> QED
  BY <1>2, <1>3, <1>4, <1>5 DEF Remembers

(* What a request still has to write was asked of its list, later too.    *)
LEMMA WorkRemembers ==
    ASSUME Remembers, DOMAIN saved = DOMAIN OwnerOf, NEW w, WholeWork(w, saved)
    PROVE  WholeWork(w, saved')
  BY DEF Remembers, WholeWork, Listed

(* Steps that touch no list.                                              *)
LEMMA NoListMoves ==
    ASSUME Typed, WholeLists, NEW a \in Admin, NEW S, Moves(a, S), "list" \notin S, UNCHANGED <<lists, saved>>
    PROVE  WholeLists'
<1>1. \A b \in Admin : WholeWork(work'[b], saved')
  BY MovesOne DEF Typed, WholeLists, WholeWork
<1> QED
  BY <1>1 DEF WholeLists

(* An upload stays an upload until it ends, and touches no list.          *)
LEMMA PicturingMoves ==
    ASSUME Typed, NEW a \in Admin, Picturing(a)
    PROVE  /\ Moves(a, Imaging \cup {"idle"})
           /\ UNCHANGED <<lists, saved>>
<1>1. ASSUME NEW i, SaveImage(a, i) PROVE Moves(a, Imaging \cup {"idle"})
  BY <1>1, BeginMoves DEF SaveImage, Imaging
<1>2. CASE SaveToDisk(a) \/ WriteEnds(a) \/ LookUpImage(a) \/ InsertImage(a)
  <2>1. \/ Goto(a, "whole") \/ Goto(a, "look") \/ Goto(a, "insert") \/ End(a)
    BY <1>2 DEF SaveToDisk, WriteEnds, LookUpImage, InsertImage
  <2>2. Moves(a, Imaging \cup {"idle"})
    BY <2>1, GotoMoves, EndMoves DEF Imaging
  <2>3. UNCHANGED <<lists, saved>>
    BY <1>2 DEF SaveToDisk, WriteEnds, LookUpImage, InsertImage, ghosts
  <2> QED
    BY <2>2, <2>3
<1> QED
  BY <1>1, <1>2 DEF Picturing, SaveImage, ghosts

(* An attack rule is saved or deleted with its entries.                   *)
LEMMA EditKeepsLists ==
    ASSUME WholeLists, Edit
    PROVE  WholeLists'
<1>1. work' = work
  BY DEF Edit
<1>2. CASE UNCHANGED <<lists, saved>>
  BY <1>1, <1>2 DEF WholeLists
<1>3. ASSUME NEW body, SaveNewAttackRule(body) PROVE WholeLists'
  <2> DEFINE l == "attack_rule_entries"
             id == ids["attack_rules"] + 1
  <2>1. Asked(l, id, body) /\ lists' = [lists EXCEPT ![l] = Put(lists[l], id, body)]
    BY <1>3 DEF SaveNewAttackRule, SetList
  <2>2. l \in DOMAIN OwnerOf
    BY DEF OwnerOf
  <2> HIDE DEF id, l
  <2>3. Remembers /\ id \in DOMAIN saved'[l] /\ body \in saved'[l][id]
    BY <2>1, <2>2, AskedRemembers DEF WholeLists
  <2>4. /\ DOMAIN lists' = DOMAIN lists /\ \A k \in DOMAIN lists : k # l => lists'[k] = lists[k]
        /\ DOMAIN lists'[l] = DOMAIN lists[l] \cup {id} /\ lists'[l][id] = body
        /\ \A x \in DOMAIN lists[l] : x # id => lists'[l][x] = lists[l][x]
    BY <2>1, <2>2 DEF WholeLists, Put
  <2>5. ASSUME NEW k \in Listed, NEW x \in DOMAIN lists'[k]
        PROVE  x \in DOMAIN saved'[k] /\ lists'[k][x] \in saved'[k][x]
    <3>1. CASE k = l /\ x = id
      BY <2>3, <2>4, <3>1
    <3>2. CASE ~(k = l /\ x = id)
      <4>1. k \in DOMAIN lists /\ x \in DOMAIN lists[k] /\ lists'[k][x] = lists[k][x]
        BY <2>4, <2>5, <3>2 DEF WholeLists, Listed
      <4>2. x \in DOMAIN saved[k] /\ lists[k][x] \in saved[k][x] /\ k \in DOMAIN saved
        BY <4>1 DEF WholeLists, Listed
      <4> QED
        BY <2>3, <4>1, <4>2 DEF Remembers
    <3> QED
      BY <3>1, <3>2
  <2>6. \A a \in Admin : WholeWork(work'[a], saved')
    BY <1>1, <2>3, WorkRemembers DEF WholeLists
  <2>7. DOMAIN lists' = DOMAIN OwnerOf /\ DOMAIN saved' = DOMAIN OwnerOf
    BY <2>3, <2>4 DEF WholeLists, Remembers
  <2> QED
    BY <2>5, <2>6, <2>7 DEF WholeLists
<1>4. ASSUME NEW id, DeleteAttackRule(id) PROVE WholeLists'
  <2>1. /\ saved' = saved
        /\ lists' = [lists EXCEPT !["attack_rule_entries"] = Without(lists["attack_rule_entries"], {id})]
    BY <1>4 DEF DeleteAttackRule
  <2>2. /\ DOMAIN lists' = DOMAIN lists
        /\ \A l \in DOMAIN lists : \A x \in DOMAIN lists'[l] : x \in DOMAIN lists[l] /\ lists'[l][x] = lists[l][x]
    BY <2>1 DEF Without
  <2> QED
    BY <1>1, <2>1, <2>2 DEF WholeLists, Listed
<1>5. ASSUME NEW id, DeleteCriticalAttack(id) PROVE WholeLists'
  <2>1. /\ saved' = saved /\ DOMAIN lists' = DOMAIN lists
        /\ \A l \in DOMAIN lists : l # "critical_attack_entries" => lists'[l] = lists[l]
    BY <1>5 DEF DeleteCriticalAttack
  <2> QED
    BY <1>1, <2>1 DEF WholeLists, Listed
<1> QED
  BY <1>2, <1>3, <1>4, <1>5 DEF Edit

(* A list that is asked for is remembered; a critical attack's is emptied *)
(* at once, another is left until the commit.                             *)
LEMMA SaveListKeepsLists ==
    ASSUME Typed, WholeLists, NEW a \in Admin, SaveList(a)
    PROVE  WholeLists'
<1>1. ASSUME NEW l \in DOMAIN OwnerOf, NEW id, NEW body \in ListBody[l],
             Begin(a, ListWork(l, id, body)), Asked(l, id, body),
             DOMAIN lists' = DOMAIN lists, \A k \in Listed : lists'[k] = lists[k]
      PROVE  WholeLists'
  <2>1. Remembers /\ id \in DOMAIN saved'[l] /\ body \in saved'[l][id]
    BY <1>1, AskedRemembers DEF WholeLists
  <2>2. DOMAIN saved' = DOMAIN OwnerOf /\ DOMAIN lists' = DOMAIN OwnerOf
    BY <1>1, <2>1 DEF WholeLists, Remembers
  <2>3. \A k \in Listed : \A x \in DOMAIN lists'[k] : x \in DOMAIN saved'[k] /\ lists'[k][x] \in saved'[k][x]
    BY <1>1, <2>1 DEF WholeLists, Remembers, Listed
  <2>4. work' = [work EXCEPT ![a] = ListWork(l, id, body)]
    BY <1>1 DEF Begin
  <2>5. /\ work'[a] = ListWork(l, id, body)
        /\ \A b \in Admin \ {a} : work'[b] = work[b]
    BY <2>4 DEF Typed, WorkTyped
  <2>6. <<>> \o body = body
    BY BodyAssumption, ConcatEmptySeq
  <2>7. WholeWork(ListWork(l, id, body), saved')
    BY <2>1, <2>6 DEF WholeWork, ListWork
  <2>8. \A b \in Admin : WholeWork(work[b], saved')
    BY <2>1, WorkRemembers DEF WholeLists
  <2>9. \A b \in Admin : WholeWork(work'[b], saved')
    BY <2>5, <2>7, <2>8
  <2> QED
    BY <2>2, <2>3, <2>9 DEF WholeLists
<1>2. {"attack_rule_entries", "critical_attack_entries", "factions_unit_types", "faction_spawn_location"} \subseteq DOMAIN OwnerOf
  BY DEF OwnerOf
<1>3. ASSUME NEW l, NEW id, NEW s, SetList(l, id, s), l = "critical_attack_entries"
      PROVE  DOMAIN lists' = DOMAIN lists /\ \A k \in Listed : lists'[k] = lists[k]
  <2>1. lists' = [lists EXCEPT ![l] = Put(lists[l], id, s)]
    BY <1>3 DEF SetList
  <2> QED
    BY <1>3, <2>1 DEF Listed, WholeLists
<1>4. ASSUME NEW body \in ListBody["critical_attack_entries"], SaveNewCriticalAttack(a, body)
      PROVE WholeLists'
  BY <1>1, <1>2, <1>3, <1>4 DEF SaveNewCriticalAttack
<1>5. ASSUME NEW l \in DOMAIN OwnerOf, NEW id, NEW body \in ListBody[l], DeleteEntries(a, l, id, body)
      PROVE WholeLists'
  <2>1. Begin(a, ListWork(l, id, body)) /\ Asked(l, id, body)
    BY <1>5 DEF DeleteEntries
  <2>2. DOMAIN lists' = DOMAIN lists /\ \A k \in Listed : lists'[k] = lists[k]
    BY <1>3, <1>5 DEF DeleteEntries, Transactional
  <2> QED
    BY <1>1, <2>1, <2>2
<1> QED
  BY <1>2, <1>4, <1>5 DEF SaveList, SaveExistingAttackRule, SaveExistingCriticalAttack,
     SaveOverrides, SaveSpawnLocations

(* The next entry, and the end.                                           *)
LEMMA ListingKeepsLists ==
    ASSUME Typed, WholeLists, NEW a \in Admin, Listing(a)
    PROVE  WholeLists'
<1> DEFINE w == work[a]
<1>1. w.do = "list" => w.table \in DOMAIN OwnerOf /\ w.todo \in Seq(Nat) /\ w.done \in Seq(Nat)
                       /\ {"do", "table", "id", "todo", "done"} \subseteq DOMAIN w
  BY DEF Typed, WorkTyped, Carries
<1>2. CASE InsertEntry(a)
  <2> DEFINE v == [w EXCEPT !.todo = Tail(@), !.done = Append(@, Head(w.todo))]
  <2>1. /\ w.do = "list" /\ w.todo # <<>> /\ work' = [work EXCEPT ![a] = v] /\ saved' = saved
        /\ Transactional(w.table) => lists' = lists
        /\ ~Transactional(w.table) => lists' = [lists EXCEPT ![w.table] = Put(@, w.id, Append(Entries(w.table, w.id), Head(w.todo)))]
    BY <1>2 DEF InsertEntry, SetList, ghosts
  <2>2. /\ v.do = "list" /\ v.table = w.table /\ v.id = w.id
        /\ v.todo = Tail(w.todo) /\ v.done = Append(w.done, Head(w.todo))
    BY <1>1, <2>1
  <2>3. v.done \o v.todo = w.done \o w.todo
    BY <1>1, <2>1, <2>2, HeadToDone
  <2> HIDE DEF v
  <2>4. WholeWork(v, saved)
    BY <2>1, <2>2, <2>3 DEF WholeWork, WholeLists
  <2>5. \A b \in Admin : WholeWork(work'[b], saved')
    BY <2>1, <2>4 DEF WholeLists, Typed, WorkTyped
  <2>6. DOMAIN lists' = DOMAIN lists /\ \A k \in Listed : lists'[k] = lists[k]
    BY <2>1 DEF Transactional, Listed, WholeLists
  <2> QED
    BY <2>1, <2>5, <2>6 DEF WholeLists
<1>3. CASE RefuseEntry(a)
  BY <1>3, EndMoves, NoListMoves DEF RefuseEntry, ghosts
<1>4. CASE CommitList(a)
  <2>1. w.do = "list" /\ w.todo = <<>> /\ saved' = saved /\ End(a)
    BY <1>4 DEF CommitList, ghosts
  <2>2. Moves(a, {"idle"})
    BY <2>1, EndMoves
  <2>3. \A b \in Admin : WholeWork(work'[b], saved')
    BY <2>1, <2>2, MovesOne DEF Typed, WholeLists, WholeWork
  <2>4. CASE w.table \in Listed
    <3>1. w.id \in DOMAIN saved[w.table] /\ w.done \o w.todo \in saved[w.table][w.id]
      BY <2>1, <2>4 DEF WholeLists, WholeWork
    <3>2. w.done \o w.todo = w.done
      BY <1>1, <2>1, ConcatEmptySeq
    <3>3. lists' = [lists EXCEPT ![w.table] = Put(lists[w.table], w.id, w.done)]
      BY <1>4, <2>4 DEF CommitList, SetList, Transactional, Listed
    <3>4. /\ DOMAIN lists' = DOMAIN lists /\ \A k \in DOMAIN lists : k # w.table => lists'[k] = lists[k]
          /\ DOMAIN lists'[w.table] = DOMAIN lists[w.table] \cup {w.id} /\ lists'[w.table][w.id] = w.done
          /\ \A x \in DOMAIN lists[w.table] : x # w.id => lists'[w.table][x] = lists[w.table][x]
      BY <2>4, <3>3 DEF Put, WholeLists, Listed
    <3> HIDE DEF w
    <3>5. \A k \in Listed : \A x \in DOMAIN lists'[k] : x \in DOMAIN saved[k] /\ lists'[k][x] \in saved[k][x]
      <4>1. ASSUME NEW k \in Listed, NEW x \in DOMAIN lists'[k]
            PROVE  x \in DOMAIN saved[k] /\ lists'[k][x] \in saved[k][x]
        <5>1. CASE k = w.table /\ x = w.id
          BY <3>1, <3>2, <3>4, <5>1
        <5>2. CASE ~(k = w.table /\ x = w.id)
          <6>1. k \in DOMAIN lists
            BY DEF WholeLists, Listed
          <6>2. x \in DOMAIN lists[k] /\ lists'[k][x] = lists[k][x]
            BY <3>4, <4>1, <5>2, <6>1
          <6> QED
            BY <6>2 DEF WholeLists
        <5> QED
          BY <5>1, <5>2
      <4> QED
        BY <4>1
    <3> QED
      BY <2>1, <2>3, <3>4, <3>5 DEF WholeLists
  <2>5. CASE w.table \notin Listed
    <3>1. lists' = lists
      BY <1>1, <1>4, <2>1, <2>5 DEF CommitList, Transactional, Listed
    <3> QED
      BY <2>1, <2>3, <3>1 DEF WholeLists
  <2> QED
    BY <2>4, <2>5
<1> QED
  BY <1>2, <1>3, <1>4, SaveListKeepsLists DEF Listing

(* Every step keeps each list one that somebody asked for.                *)
LEMMA StepKeepsLists ==
    ASSUME Typed, WholeLists, [Next]_vars
    PROVE  WholeLists'
<1>1. CASE Crash
  BY <1>1 DEF Crash, ghosts, WholeLists, WholeWork, Idle
<1>2. CASE UNCHANGED vars
  BY <1>2 DEF vars, ghosts, WholeLists
<1>3. ASSUME NEW a \in Admin, Elsewhere(a) PROVE WholeLists'
  BY <1>3, ElsewhereMoves, ElsewhereLeaves, NoListMoves DEF Apart, Improving
<1>4. ASSUME NEW a \in Admin, Picturing(a) PROVE WholeLists'
  BY <1>4, PicturingMoves, NoListMoves DEF Imaging
<1> QED
  BY <1>1, <1>2, <1>3, <1>4, EditKeepsLists, ListingKeepsLists, NextSplit

------------------------------------------------------------------------------
(* Images that are looked up or inserted have their file.                 *)
FoundWork(w, there) == w.do \in {"whole", "look", "insert"} => w.image \in there
FilesFound == ImagesHaveFiles /\ \A a \in Admin : FoundWork(work[a], DOMAIN files)

(* Where no image is inserted and no file goes, images keep their files.  *)
LEMMA PicturesHaveFiles ==
    ASSUME ImagesHaveFiles, Pictures(db'), DOMAIN files \subseteq DOMAIN files'
    PROVE  ImagesHaveFiles'
  BY DEF ImagesHaveFiles, Pictures, Rows

(* Steps that are about no image.                                         *)
LEMMA NoImageMoves ==
    ASSUME Typed, FilesFound, NEW a \in Admin, NEW S, Moves(a, S), S \cap Imaging = {},
           Pictures(db'), files' = files
    PROVE  FilesFound'
<1>1. \A b \in Admin : FoundWork(work'[b], DOMAIN files')
  BY MovesOne DEF Typed, FilesFound, FoundWork, Imaging
<1> QED
  BY <1>1, PicturesHaveFiles DEF FilesFound

(* A request for a list stays one until it ends, and touches no image.    *)
LEMMA ListingMoves ==
    ASSUME Typed, NEW a \in Admin, Listing(a)
    PROVE  /\ Moves(a, {"list", "idle"}) /\ Pictures(db') /\ files' = files
<1>1. TablesTyped
  BY DEF Typed
<1>2. CASE SaveList(a)
  <2>1. \E l, id, body : Begin(a, ListWork(l, id, body))
    BY <1>2 DEF SaveList, SaveNewCriticalAttack, DeleteEntries, SaveExistingAttackRule,
       SaveExistingCriticalAttack, SaveOverrides, SaveSpawnLocations
  <2>2. \A l, id, body : ListWork(l, id, body).do \in {"list", "idle"}
    BY DEF ListWork
  <2> QED
    BY <1>1, <1>2, <2>1, <2>2, BeginMoves, SaveListIsTame DEF Tame, SaveList
<1>3. CASE InsertEntry(a)
  <2> DEFINE v == [work[a] EXCEPT !.todo = Tail(@), !.done = Append(@, Head(work[a].todo))]
  <2>1. work' = [work EXCEPT ![a] = v] /\ work[a].do = "list"
    BY <1>3 DEF InsertEntry
  <2>2. v.do = "list"
    BY <2>1 DEF Typed, WorkTyped, Carries
  <2>3. Pictures(db') /\ files' = files
    BY <1>1, <1>3, TameStays DEF InsertEntry, Tame
  <2> HIDE DEF v
  <2> QED
    BY <2>1, <2>2, <2>3 DEF Moves
<1>4. CASE RefuseEntry(a) \/ CommitList(a)
  <2>1. End(a) /\ UNCHANGED <<db, ids, files>>
    BY <1>4 DEF RefuseEntry, CommitList
  <2> QED
    BY <1>1, <2>1, EndMoves, TameStays DEF Tame
<1> QED
  BY <1>2, <1>3, <1>4 DEF Listing

(* An upload inserts its row after its file is written.                   *)
LEMMA PicturingFinds ==
    ASSUME Typed, FilesFound, NEW a \in Admin, Picturing(a)
    PROVE  FilesFound'
<1>1. /\ TablesTyped /\ "do" \in DOMAIN work[a] /\ DOMAIN work = Admin
      /\ \A b \in Admin : FoundWork(work[b], DOMAIN files)
      /\ ImagesHaveFiles
      /\ work[a].do \in Imaging => "image" \in DOMAIN work[a]
  BY DEF Typed, WorkTyped, Carries, FilesFound
<1>2. ASSUME NEW w, work' = [work EXCEPT ![a] = w], FoundWork(w, DOMAIN files'),
             Pictures(db'), DOMAIN files \subseteq DOMAIN files'
      PROVE  FilesFound'
  <2>1. \A b \in Admin : FoundWork(work'[b], DOMAIN files')
    BY <1>1, <1>2 DEF FoundWork
  <2> QED
    BY <1>1, <1>2, <2>1, PicturesHaveFiles DEF FilesFound
<1>3. ASSUME NEW step, Goto(a, step), work[a].do \in Imaging, UNCHANGED <<db, ids>>,
             DOMAIN files \subseteq DOMAIN files', work[a].image \in DOMAIN files'
      PROVE  FilesFound'
  <2> DEFINE w == [work[a] EXCEPT !.do = step]
  <2>1. work' = [work EXCEPT ![a] = w]
    BY <1>3 DEF Goto
  <2>2. w.image = work[a].image
    BY <1>1, <1>3
  <2>3. FoundWork(w, DOMAIN files')
    BY <1>3, <2>2 DEF FoundWork
  <2>4. Pictures(db')
    BY <1>1, <1>3, TameStays DEF Tame
  <2> QED
    BY <1>2, <1>3, <2>1, <2>3, <2>4
<1>4. FoundWork(Idle, DOMAIN files')
  BY DEF FoundWork, Idle
<1>5. ASSUME NEW i, SaveImage(a, i) PROVE FilesFound'
  <2> DEFINE w == [do |-> IF i \in DOMAIN files THEN "look" ELSE "write", image |-> i]
  <2>1. work' = [work EXCEPT ![a] = w] /\ UNCHANGED <<db, ids, files>>
    BY <1>5 DEF SaveImage, Begin
  <2>2. FoundWork(w, DOMAIN files')
    BY <2>1 DEF FoundWork
  <2>3. Pictures(db')
    BY <1>1, <2>1, TameStays DEF Tame
  <2> HIDE DEF w
  <2> QED
    BY <1>2, <2>1, <2>2, <2>3
<1>6. ASSUME SaveToDisk(a) \/ WriteEnds(a) PROVE FilesFound'
  <2>1. DOMAIN files' = DOMAIN files \cup {work[a].image}
    BY <1>6 DEF SaveToDisk, WriteEnds, Put
  <2>2. UNCHANGED <<db, ids>> /\ work[a].do \in Imaging /\ (Goto(a, "whole") \/ Goto(a, "look"))
    BY <1>6 DEF SaveToDisk, WriteEnds, Imaging
  <2> QED
    BY <1>3, <2>1, <2>2
<1>7. ASSUME LookUpImage(a) PROVE FilesFound'
  <2>1. UNCHANGED <<db, ids>> /\ files' = files /\ work[a].do = "look" /\ (Goto(a, "insert") \/ End(a))
    BY <1>7 DEF LookUpImage
  <2>2. work[a].image \in DOMAIN files
    BY <1>1, <2>1 DEF FoundWork
  <2>3. Pictures(db')
    BY <1>1, <2>1, TameStays DEF Tame
  <2> QED
    BY <1>2, <1>3, <1>4, <2>1, <2>2, <2>3 DEF End, Imaging
<1>8. ASSUME InsertImage(a) PROVE FilesFound'
  <2>1. files' = files /\ work' = [work EXCEPT ![a] = Idle] /\ work[a].do = "insert"
    BY <1>8 DEF InsertImage, End
  <2>2. work[a].image \in DOMAIN files
    BY <1>1, <2>1 DEF FoundWork
  <2>3. \A b \in Admin : FoundWork(work'[b], DOMAIN files')
    BY <1>1, <1>4, <2>1
  <2>4. CASE UNCHANGED <<db, ids>>
    BY <1>1, <1>2, <1>4, <2>1, <2>4, TameStays DEF Tame
  <2>5. CASE InsertRow("images_store", [content |-> work[a].image])
    <3> DEFINE s == "images_store"
               row == [content |-> work[a].image]
    <3>1. db' = [db EXCEPT ![s] = Put(db[s], ids[s] + 1, row)] /\ s \in DOMAIN db
      BY <1>1, <2>5, Tables DEF InsertRow, Watched
    <3>2. db'[s] = Put(db[s], ids[s] + 1, row)
      BY <3>1
    <3>3. \A r \in DOMAIN db'[s] : db'[s][r] = row \/ (r \in DOMAIN db[s] /\ db'[s][r] = db[s][r])
      BY <3>2 DEF Put
    <3>4. row.content = work[a].image
      OBVIOUS
    <3>5. ImagesHaveFiles'
      BY <1>1, <2>1, <2>2, <3>3, <3>4 DEF ImagesHaveFiles, Rows
    <3> QED
      BY <2>3, <3>5 DEF FilesFound
  <2> QED
    BY <1>8, <2>4, <2>5 DEF InsertImage
<1> QED
  BY <1>5, <1>6, <1>7, <1>8 DEF Picturing

(* Every step keeps the file of each image.                               *)
LEMMA StepFindsFiles ==
    ASSUME Typed, FilesFound, [Next]_vars
    PROVE  FilesFound'
<1>1. TablesTyped
  BY DEF Typed
<1>2. CASE Edit
  <2>1. Pictures(db') /\ files' = files /\ work' = work
    BY <1>1, <1>2, EditIsTame DEF Tame, Edit
  <2> QED
    BY <2>1, PicturesHaveFiles DEF FilesFound
<1>3. CASE Crash
  <2>1. Pictures(db') /\ files' = files
    BY <1>1, <1>3, TameStays DEF Tame, Crash
  <2>2. \A a \in Admin : FoundWork(work'[a], DOMAIN files')
    BY <1>3 DEF Crash, FoundWork, Idle
  <2> QED
    BY <2>1, <2>2, PicturesHaveFiles DEF FilesFound
<1>4. CASE UNCHANGED vars
  <2>1. Pictures(db') /\ files' = files /\ work' = work
    BY <1>1, <1>4, TameStays DEF Tame, vars
  <2> QED
    BY <2>1, PicturesHaveFiles DEF FilesFound
<1>5. ASSUME NEW a \in Admin, Elsewhere(a) PROVE FilesFound'
  <2>1. Apart \cap Imaging = {}
    BY DEF Apart, Improving, Imaging
  <2> QED
    BY <1>5, <2>1, ElsewhereMoves, ElsewhereLeaves, ElsewherePictures, NoImageMoves
<1>6. ASSUME NEW a \in Admin, Listing(a) PROVE FilesFound'
  <2>1. {"list", "idle"} \cap Imaging = {}
    BY DEF Imaging
  <2> QED
    BY <1>6, <2>1, ListingMoves, NoImageMoves
<1> QED
  BY <1>2, <1>3, <1>4, <1>5, <1>6, PicturingFinds, NextSplit

(* Nothing is saved and nobody is busy.                                   *)
LEMMA InitWhole ==
    ASSUME Init
    PROVE  WholeLists /\ FilesFound
<1>1. work = [a \in Admin |-> Idle] /\ lists = Start.lists
      /\ saved = [l \in DOMAIN lists |-> [id \in DOMAIN lists[l] |-> {lists[l][id]}]]
      /\ files = [i \in {r.content : r \in Rows("images_store")} |-> "whole"]
  BY DEF Init
<1>2. WholeLists
  BY <1>1, StartAssumption DEF WholeLists, WholeWork, Listed, Idle
<1>3. FilesFound
  BY <1>1 DEF FilesFound, FoundWork, ImagesHaveFiles, Idle
<1> QED
  BY <1>2, <1>3

(* A list saved in a transaction is never seen half replaced, and every   *)
(* image of the store has its file: wherever requests stop, and whatever  *)
(* others do at once (attack_rule_bo, faction_bo, image_store_bo).        *)
THEOREM SpecNothingIsHalfSaved == Spec => []NothingIsHalfSaved
<1> DEFINE IInv == Typed /\ WholeLists /\ FilesFound
<1>1. Init => IInv
  BY InitTyped, InitWhole
<1>2. IInv /\ [Next]_vars => IInv'
  BY StepTyped, StepKeepsLists, StepFindsFiles
<1>3. IInv => NothingIsHalfSaved
  BY DEF NothingIsHalfSaved, ListsAreWhole, ImagesHaveFiles, WholeLists, Listed, FilesFound
<1> QED
  BY <1>1, <1>2, <1>3, PTL DEF Spec

------------------------------------------------------------------------------
(* Whose an improvement is: it is in the row of an entity, or a request   *)
(* has read it there or is about to put it there, or one of its unit type *)
(* improvements was given to the entity.                                  *)
Grants == db["improvements_unit_types"]
Has(t, x, m) == x \in DOMAIN db[t] /\ db[t][x].improvement = m
Asks(t, x, m) ==
    \E a \in Admin : /\ work[a].do \in {"link", "grant", "ungrant"}
                     /\ work[a].table = t /\ work[a].id = x /\ work[a].improvement = m
Keeps(t, x, m) ==
    \E k \in kept : /\ k.table = t /\ k.id = x
                    /\ k.grant \in DOMAIN Grants /\ Grants[k.grant].improvement = m
Holder(t, x, m) == Has(t, x, m) \/ Asks(t, x, m) \/ Keeps(t, x, m)

(* No improvement is of two entities, not even of one that it was taken   *)
(* from by a race or that is gone.                                        *)
OneHolder ==
    \A t, u \in Improvable : \A x, y, m :
       m # Null /\ Holder(t, x, m) /\ Holder(u, y, m) => t = u /\ x = y

(* That of an entity to be inserted is of nobody else.                    *)
Owns(a, m) == work[a].do = "own" /\ work[a].improvement = m
OwnIsSpare ==
    \A a \in Admin : \A m :
       Owns(a, m) => /\ \A t \in Improvable : \A x : ~Holder(t, x, m)
                     /\ \A b \in Admin : Owns(b, m) => b = a

(* An entity still has an improvement, unless it is gone or was raced for.*)
Attached(t, x, m) == x \notin DOMAIN db[t] \/ <<t, x>> \in raced \/ db[t][x].improvement = m

KeptTyped ==
    /\ kept \subseteq [table : Improvable, id : Nat, grant : Nat]
    /\ \A k \in kept : k.id <= ids[k.table] /\ k.grant <= ids["improvements_unit_types"]

(* What a request about to grant or to ungrant has read still holds.      *)
Current(w) ==
    /\ w.do = "grant" => Attached(w.table, w.id, w.improvement)
    /\ w.do = "ungrant" /\ w.grant \in DOMAIN Grants => Grants[w.grant].improvement = w.improvement

Owned ==
    /\ KeptTyped
    /\ OneHolder
    /\ OwnIsSpare
    /\ \A a \in Admin : Current(work[a])
    /\ GrantsAreKept

(* Only improvements that were made are anybody's.                        *)
LEMMA HoldersAreMade ==
    ASSUME Typed
    PROVE  /\ \A t \in Improvable : \A x, m : Holder(t, x, m) => m \in 0 .. ids["improvements"]
           /\ \A a \in Admin : \A m : Owns(a, m) => m \in 0 .. ids["improvements"]
<1>1. ASSUME NEW t \in Improvable, NEW x, NEW m, Has(t, x, m) PROVE m \in 0 .. ids["improvements"]
  BY <1>1 DEF Has, Typed, TablesTyped, Entity
<1>2. ASSUME NEW t \in Improvable, NEW x, NEW m, Asks(t, x, m) PROVE m \in 0 .. ids["improvements"]
  BY <1>2 DEF Asks, Typed, WorkTyped, Carries, Improving
<1>3. ASSUME NEW t \in Improvable, NEW x, NEW m, Keeps(t, x, m) PROVE m \in 0 .. ids["improvements"]
  <2>1. m \in 1 .. ids["improvements"] /\ ids["improvements"] \in Nat
    BY <1>3 DEF Keeps, Typed, TablesTyped, Grant, Grants
  <2> QED
    BY <2>1
<1>4. ASSUME NEW a \in Admin, NEW m, Owns(a, m) PROVE m \in 0 .. ids["improvements"]
  <2>1. m \in 1 .. ids["improvements"] /\ ids["improvements"] \in Nat
    BY <1>4 DEF Owns, Typed, WorkTyped, TablesTyped, Carries
  <2> QED
    BY <2>1
<1> QED
  BY <1>1, <1>2, <1>3, <1>4 DEF Holder

(* Where nobody gets an improvement that he had not, each stays of one.   *)
LEMMA HoldersShrink ==
    ASSUME OneHolder, OwnIsSpare,
           \A t \in Improvable : \A x, m : m # Null /\ Holder(t, x, m)' => Holder(t, x, m),
           \A a \in Admin : \A m : Owns(a, m)' => m # Null /\ Owns(a, m)
    PROVE  OneHolder' /\ OwnIsSpare'
<1>1. ASSUME NEW t \in Improvable, NEW u \in Improvable, NEW x, NEW y, NEW m,
             m # Null, Holder(t, x, m)', Holder(u, y, m)'
      PROVE  t = u /\ x = y
  BY <1>1 DEF OneHolder
<1>2. ASSUME NEW a \in Admin, NEW m, Owns(a, m)'
      PROVE  /\ \A t \in Improvable : \A x : ~Holder(t, x, m)'
             /\ \A b \in Admin : Owns(b, m)' => b = a
  BY <1>2 DEF OwnIsSpare
<1>3. OneHolder'
  BY <1>1 DEF OneHolder
<1>4. OwnIsSpare'
  BY <1>2 DEF OwnIsSpare
<1> QED
  BY <1>3, <1>4

(* Entities that follow keep what is attached to them.                    *)
LEMMA StaysAttached ==
    ASSUME TablesTyped, Leaves(db', ids'), raced \subseteq raced', NEW t \in Improvable, NEW x, NEW m,
           x <= ids[t]
    PROVE  /\ x \notin DOMAIN db[t] => x \notin DOMAIN db'[t]
           /\ Attached(t, x, m) => Attached(t, x, m)'
<1>1. Follows(db[t], ids[t], db'[t], ids'[t])
  BY DEF Leaves
<1>2. ASSUME x \in DOMAIN db'[t]
      PROVE x \in DOMAIN db[t] /\ db'[t][x].improvement = db[t][x].improvement
  <2>1. x \in Nat /\ ids[t] \in Nat
    BY <1>1, <1>2, Tables DEF Follows
  <2>2. ~(x > ids[t])
    BY <2>1
  <2> QED
    BY <1>1, <1>2, <2>2 DEF Follows
<1> QED
  BY <1>2 DEF Attached

(* A step that leaves the improvements alone and claims none.             *)
LEMMA LeavesOwned ==
    ASSUME Typed, Owned, Leaves(db', ids'), UNCHANGED <<kept, raced>>,
           \A a \in Admin : work'[a] = work[a] \/ work'[a].do \notin {"own", "link", "grant", "ungrant"}
    PROVE  Owned'
<1>1. TablesTyped /\ Grants' = Grants
  BY DEF Typed, Leaves, Grants
<1>2. ASSUME NEW t \in Improvable, NEW x, NEW m, m # Null, Holder(t, x, m)'
      PROVE  Holder(t, x, m)
  <2>1. CASE Has(t, x, m)'
    <3>1. Follows(db[t], ids[t], db'[t], ids'[t])
      BY DEF Leaves
    <3>2. Has(t, x, m)
      BY <1>2, <2>1, <3>1 DEF Has, Follows
    <3> QED
      BY <3>2 DEF Holder
  <2>2. CASE Asks(t, x, m)'
    <3>1. Asks(t, x, m)
      BY <2>2 DEF Asks
    <3> QED
      BY <3>1 DEF Holder
  <2>3. CASE Keeps(t, x, m)'
    <3>1. Keeps(t, x, m)
      BY <1>1, <2>3 DEF Keeps
    <3> QED
      BY <3>1 DEF Holder
  <2> QED
    BY <1>2, <2>1, <2>2, <2>3 DEF Holder
<1>3. ASSUME NEW a \in Admin, NEW m, Owns(a, m)'
      PROVE  m # Null /\ Owns(a, m)
  <2>1. Owns(a, m)
    BY <1>3 DEF Owns
  <2>2. m # Null
    BY <2>1 DEF Owns, Typed, WorkTyped, TablesTyped, Carries, Null
  <2> QED
    BY <2>1, <2>2
<1>4. OneHolder' /\ OwnIsSpare'
  BY <1>2, <1>3, HoldersShrink DEF Owned
<1>5. KeptTyped'
  <2>1. \A t \in Improvable : ids[t] \in Nat /\ ids'[t] \in Nat /\ ids[t] <= ids'[t]
    BY <1>1, Tables DEF Leaves, Follows
  <2>2. ids'["improvements_unit_types"] = ids["improvements_unit_types"]
    BY DEF Leaves
  <2> QED
    BY <2>1, <2>2 DEF Owned, KeptTyped
<1>6. ASSUME NEW a \in Admin PROVE Current(work[a])'
  <2>1. CASE work'[a] = work[a]
    <3>1. work[a].do = "grant" => work[a].table \in Improvable /\ work[a].id <= ids[work[a].table]
      <4>1. work[a].do = "grant" => work[a].table \in Improvable /\ work[a].id \in 1 .. ids[work[a].table]
        BY DEF Typed, WorkTyped, Carries, Improving
      <4> QED
        BY <1>1, <4>1, Tables
    <3>2. work[a].do = "grant" => Attached(work[a].table, work[a].id, work[a].improvement)
      BY DEF Owned, Current
    <3>3. \A t \in Improvable : \A x, m : x <= ids[t] /\ Attached(t, x, m) => Attached(t, x, m)'
      BY <1>1, StaysAttached
    <3>4. \A w : w.do = "grant" /\ w = work[a] => Attached(w.table, w.id, w.improvement)'
      BY <3>1, <3>2, <3>3
    <3> QED
      BY <1>1, <2>1, <3>4 DEF Owned, Current
  <2>2. CASE work'[a].do \notin {"own", "link", "grant", "ungrant"}
    BY <2>2 DEF Current
  <2> QED
    BY <2>1, <2>2
<1>7. ASSUME NEW k \in kept
      PROVE  \/ k.id \notin DOMAIN db'[k.table] \/ <<k.table, k.id>> \in raced
             \/ k.grant \in DOMAIN Grants /\ Grants[k.grant].improvement = db'[k.table][k.id].improvement
  <2>1. k.table \in Improvable /\ k.id <= ids[k.table]
    BY DEF Owned, KeptTyped
  <2>2. \/ k.id \notin DOMAIN db[k.table] \/ <<k.table, k.id>> \in raced
        \/ k.grant \in DOMAIN Grants /\ Grants[k.grant].improvement = db[k.table][k.id].improvement
    BY DEF Owned, GrantsAreKept, Grants
  <2>3. \/ k.id \notin DOMAIN db[k.table] \/ <<k.table, k.id>> \in raced
        \/ k.grant \in DOMAIN Grants /\ Attached(k.table, k.id, Grants[k.grant].improvement)
    BY <2>2 DEF Attached
  <2>4. PICK m : m = Grants[k.grant].improvement
    OBVIOUS
  <2>5. Attached(k.table, k.id, m) => Attached(k.table, k.id, m)'
    BY <1>1, <2>1, StaysAttached
  <2>6. k.id \notin DOMAIN db[k.table] => k.id \notin DOMAIN db'[k.table]
    BY <1>1, <2>1, StaysAttached
  <2> QED
    BY <2>2, <2>3, <2>4, <2>5, <2>6 DEF Attached
<1>8. GrantsAreKept'
  BY <1>1, <1>7 DEF GrantsAreKept, Grants
<1> QED
  BY <1>4, <1>5, <1>6, <1>8 DEF Owned

(* A request that has read the improvement of an entity asks for what is  *)
(* that entity's.                                                         *)
LEMMA ReadOwned ==
    ASSUME Typed, Owned, UNCHANGED <<db, ids, kept, raced>>, NEW a \in Admin, NEW w,
           work' = [work EXCEPT ![a] = w], w.do \in {"grant", "ungrant"},
           w.table \in Improvable, Has(w.table, w.id, w.improvement),
           w.do = "ungrant" => Grants[w.grant].improvement = w.improvement
    PROVE  Owned'
<1>1. work'[a] = w /\ \A b \in Admin \ {a} : work'[b] = work[b]
  BY DEF Typed, WorkTyped
<1>2. Grants' = Grants
  BY DEF Grants
<1>3. ASSUME NEW t \in Improvable, NEW x, NEW m, Holder(t, x, m)'
      PROVE  Holder(t, x, m)
  <2>1. Has(t, x, m)' => Has(t, x, m)
    BY DEF Has
  <2>2. Asks(t, x, m)' => Asks(t, x, m) \/ Has(t, x, m)
    BY <1>1 DEF Asks
  <2>3. Keeps(t, x, m)' => Keeps(t, x, m)
    BY <1>2 DEF Keeps
  <2> QED
    BY <1>3, <2>1, <2>2, <2>3 DEF Holder
<1>4. ASSUME NEW b \in Admin, NEW m, Owns(b, m)'
      PROVE  m # Null /\ Owns(b, m)
  <2>1. Owns(b, m)
    BY <1>1, <1>4 DEF Owns
  <2>2. m # Null
    BY <2>1 DEF Owns, Typed, WorkTyped, TablesTyped, Carries, Null
  <2> QED
    BY <2>1, <2>2
<1>5. OneHolder' /\ OwnIsSpare'
  BY <1>3, <1>4, HoldersShrink DEF Owned
<1>6. Attached(w.table, w.id, w.improvement)
  BY DEF Has, Attached
<1>7. \A v : Current(v) => Current(v)'
  BY DEF Current, Attached, Grants
<1>8. Current(w)
  BY <1>6 DEF Current
<1>9. \A b \in Admin : Current(work[b])'
  BY <1>1, <1>7, <1>8 DEF Owned, Current, Attached, Grants
<1>10. KeptTyped' /\ GrantsAreKept'
  BY DEF Owned, KeptTyped, GrantsAreKept
<1> QED
  BY <1>5, <1>9, <1>10 DEF Owned

(* A new improvement is of nobody but the request that made it.           *)
LEMMA CreateOwned ==
    ASSUME Typed, Owned, CreateEmpty, UNCHANGED <<kept, raced>>, NEW a \in Admin, NEW w,
           work' = [work EXCEPT ![a] = w], w.do \in {"own", "link"},
           w.improvement = ids["improvements"] + 1
    PROVE  Owned'
<1> DEFINE n == ids["improvements"] + 1
<1>1. work'[a] = w /\ \A b \in Admin \ {a} : work'[b] = work[b]
  BY DEF Typed, WorkTyped
<1>2. /\ \A t \in Watched : db'[t] = db[t]
      /\ \A t \in Improvable \cup {"improvements_unit_types"} : ids'[t] = ids[t]
      /\ ids["improvements"] \in Nat
  BY CreateEmptyTyped, Tables DEF Typed
<1>3. Grants' = Grants /\ \A t \in Improvable : db'[t] = db[t]
  BY <1>2 DEF Grants, Watched
<1>4. n \notin 0 .. ids["improvements"] /\ n # Null
  BY <1>2 DEF Null
<1> HIDE DEF n
<1>5. ASSUME NEW t \in Improvable, NEW x, NEW m, Holder(t, x, m)'
      PROVE  Holder(t, x, m) \/ (m = n /\ w.do = "link" /\ t = w.table /\ x = w.id)
  <2>1. Has(t, x, m)' => Has(t, x, m)
    BY <1>3 DEF Has
  <2>2. Asks(t, x, m)' => Asks(t, x, m) \/ (m = n /\ w.do = "link" /\ t = w.table /\ x = w.id)
    BY <1>1 DEF Asks, n
  <2>3. Keeps(t, x, m)' => Keeps(t, x, m)
    BY <1>3 DEF Keeps
  <2> QED
    BY <1>5, <2>1, <2>2, <2>3 DEF Holder
<1>6. ASSUME NEW b \in Admin, NEW m, Owns(b, m)'
      PROVE  Owns(b, m) \/ (m = n /\ w.do = "own" /\ b = a)
  BY <1>1, <1>6 DEF Owns, n
<1>7. /\ \A t \in Improvable : \A x : ~Holder(t, x, n)
      /\ \A b \in Admin : ~Owns(b, n)
  BY <1>4, HoldersAreMade
<1>8. OneHolder'
  <2>1. ASSUME NEW t \in Improvable, NEW u \in Improvable, NEW x, NEW y, NEW m,
               m # Null, Holder(t, x, m)', Holder(u, y, m)'
        PROVE  t = u /\ x = y
    <3>1. CASE m = n
      BY <1>5, <1>7, <2>1, <3>1
    <3>2. CASE m # n
      <4>1. Holder(t, x, m) /\ Holder(u, y, m)
        BY <1>5, <2>1, <3>2
      <4> QED
        BY <2>1, <4>1 DEF Owned, OneHolder
    <3> QED
      BY <3>1, <3>2
  <2> QED
    BY <2>1 DEF OneHolder
<1>9. OwnIsSpare'
  <2>1. ASSUME NEW b \in Admin, NEW m, Owns(b, m)'
        PROVE  /\ \A t \in Improvable : \A x : ~Holder(t, x, m)'
               /\ \A c \in Admin : Owns(c, m)' => c = b
    <3>1. CASE m = n
      BY <1>5, <1>6, <1>7, <2>1, <3>1
    <3>2. CASE m # n
      <4>1. Owns(b, m)
        BY <1>6, <2>1, <3>2
      <4>2. /\ \A t \in Improvable : \A x : ~Holder(t, x, m)
            /\ \A c \in Admin : Owns(c, m) => c = b
        BY <4>1 DEF Owned, OwnIsSpare
      <4> QED
        BY <1>5, <1>6, <3>2, <4>2
    <3> QED
      BY <3>1, <3>2
  <2> QED
    BY <2>1 DEF OwnIsSpare
<1>10. \A t \in Improvable : \A x, m : Attached(t, x, m) => Attached(t, x, m)'
  BY <1>3 DEF Attached
<1>11. ASSUME NEW b \in Admin PROVE Current(work[b])'
  <2>1. CASE b = a
    BY <1>1, <2>1 DEF Current
  <2>2. CASE b # a
    <3>1. work'[b] = work[b] /\ Current(work[b])
      BY <1>1, <2>2 DEF Owned
    <3>2. work[b].do = "grant" => work[b].table \in Improvable
      BY DEF Typed, WorkTyped, Carries, Improving
    <3>3. \A v : v.do = "grant" => (v.table \in Improvable /\ Attached(v.table, v.id, v.improvement) => Attached(v.table, v.id, v.improvement)')
      BY <1>10
    <3> QED
      BY <1>3, <3>1, <3>2, <3>3 DEF Current
  <2> QED
    BY <2>1, <2>2
<1>12. KeptTyped'
  BY <1>2 DEF Owned, KeptTyped
<1>13. GrantsAreKept'
  BY <1>3 DEF Owned, KeptTyped, GrantsAreKept, Grants
<1> QED
  BY <1>8, <1>9, <1>11, <1>12, <1>13 DEF Owned

(* An entity inserted with its own improvement.                           *)
LEMMA InsertOwnerOwned ==
    ASSUME Typed, Owned, NEW a \in Admin, InsertOwner(a), UNCHANGED <<kept, raced>>
    PROVE  Owned'
<1> DEFINE s == work[a].table
           n == ids[s] + 1
           own == work[a].improvement
<1>1. /\ s \in {"units", "special_locations"}
      /\ ids'[s] = n /\ DOMAIN db'[s] = DOMAIN db[s] \cup {n}
      /\ db'[s][n].improvement = own
      /\ \A id \in DOMAIN db[s] : db'[s][id] = db[s][id]
      /\ \A u \in DOMAIN db : u # s => db'[u] = db[u] /\ ids'[u] = ids[u]
  BY SaveOwnerTyped
<1>2. /\ TablesTyped /\ Watched \subseteq DOMAIN db /\ s \in Improvable /\ ids[s] \in Nat
      /\ s # "improvements_unit_types" /\ "improvements_unit_types" \in DOMAIN db
  BY <1>1, Tables DEF Typed, Improvable, Watched
<1>3. work'[a] = Idle /\ \A b \in Admin \ {a} : work'[b] = work[b]
  BY DEF Typed, WorkTyped, InsertOwner, End
<1>4. Owns(a, own)
  BY DEF Owns, InsertOwner
<1> HIDE DEF s, n, own
<1>5. /\ \A t \in Improvable : \A x : ~Holder(t, x, own)
      /\ \A b \in Admin : Owns(b, own) => b = a
  BY <1>4 DEF Owned, OwnIsSpare
<1>6. Grants' = Grants /\ ids'["improvements_unit_types"] = ids["improvements_unit_types"]
  BY <1>1, <1>2 DEF Grants
<1>7. ASSUME NEW t \in Improvable, NEW x, NEW m, Holder(t, x, m)'
      PROVE  Holder(t, x, m) \/ (m = own /\ t = s /\ x = n)
  <2>1. Has(t, x, m)' => Has(t, x, m) \/ (m = own /\ t = s /\ x = n)
    BY <1>1, <1>2 DEF Has, Watched
  <2>2. Asks(t, x, m)' => Asks(t, x, m)
    BY <1>3 DEF Asks, Idle
  <2>3. Keeps(t, x, m)' => Keeps(t, x, m)
    BY <1>6 DEF Keeps
  <2> QED
    BY <1>7, <2>1, <2>2, <2>3 DEF Holder
<1>8. ASSUME NEW b \in Admin, NEW m, Owns(b, m)'
      PROVE  Owns(b, m) /\ b # a
  BY <1>3, <1>8 DEF Owns, Idle
<1>9. OneHolder'
  <2>1. ASSUME NEW t \in Improvable, NEW u \in Improvable, NEW x, NEW y, NEW m,
               m # Null, Holder(t, x, m)', Holder(u, y, m)'
        PROVE  t = u /\ x = y
    <3>1. CASE m = own
      BY <1>5, <1>7, <2>1, <3>1
    <3>2. CASE m # own
      <4>1. Holder(t, x, m) /\ Holder(u, y, m)
        BY <1>7, <2>1, <3>2
      <4> QED
        BY <2>1, <4>1 DEF Owned, OneHolder
    <3> QED
      BY <3>1, <3>2
  <2> QED
    BY <2>1 DEF OneHolder
<1>10. OwnIsSpare'
  <2>1. ASSUME NEW b \in Admin, NEW m, Owns(b, m)'
        PROVE  /\ \A t \in Improvable : \A x : ~Holder(t, x, m)'
               /\ \A c \in Admin : Owns(c, m)' => c = b
    <3>1. Owns(b, m) /\ b # a
      BY <1>8, <2>1
    <3>2. m # own
      BY <1>5, <3>1
    <3>3. /\ \A t \in Improvable : \A x : ~Holder(t, x, m)
          /\ \A c \in Admin : Owns(c, m) => c = b
      BY <3>1 DEF Owned, OwnIsSpare
    <3> QED
      BY <1>7, <1>8, <3>2, <3>3
  <2> QED
    BY <2>1 DEF OwnIsSpare
<1>11. \A t \in Improvable : ids[t] \in Nat /\ ids'[t] \in Nat /\ ids[t] <= ids'[t]
  BY <1>1, <1>2, Tables DEF Watched, n
<1>12. ASSUME NEW t \in Improvable, NEW x, x <= ids[t]
       PROVE  /\ x \notin DOMAIN db[t] => x \notin DOMAIN db'[t]
              /\ x \in DOMAIN db[t] => db'[t][x] = db[t][x]
  <2>1. t = s => x # n
    BY <1>11, <1>12 DEF n
  <2> QED
    BY <1>1, <1>2, <2>1 DEF Watched
<1>13. ASSUME NEW b \in Admin PROVE Current(work[b])'
  <2>1. CASE b = a
    BY <1>3, <2>1 DEF Current, Idle
  <2>2. CASE b # a
    <3>1. work'[b] = work[b] /\ Current(work[b])
      BY <1>3, <2>2 DEF Owned
    <3>2. work[b].do = "grant" => work[b].table \in Improvable /\ work[b].id \in 1 .. ids[work[b].table]
      BY DEF Typed, WorkTyped, Carries, Improving
    <3>3. work[b].do = "grant" => work[b].id <= ids[work[b].table]
      BY <1>11, <3>2
    <3>4. \A v : v.table \in Improvable /\ v.id <= ids[v.table] /\ Attached(v.table, v.id, v.improvement)
                    => Attached(v.table, v.id, v.improvement)'
      BY <1>12 DEF Attached
    <3> QED
      BY <1>6, <3>1, <3>2, <3>3, <3>4 DEF Current
  <2> QED
    BY <2>1, <2>2
<1>14. KeptTyped'
  <2>1. \A k \in kept : k.table \in Improvable /\ k.id \in Nat /\ k.id <= ids[k.table]
    BY DEF Owned, KeptTyped
  <2>2. \A k \in kept : k.id <= ids'[k.table]
    BY <1>11, <2>1
  <2> QED
    BY <1>6, <2>2 DEF Owned, KeptTyped
<1>15. GrantsAreKept'
  <2>1. \A k \in kept : k.table \in Improvable /\ k.id <= ids[k.table]
    BY DEF Owned, KeptTyped
  <2> QED
    BY <1>6, <1>12, <2>1 DEF Owned, GrantsAreKept, Grants
<1> QED
  BY <1>9, <1>10, <1>13, <1>14, <1>15 DEF Owned

(* The link of a made improvement: of two requests that made one for the  *)
(* same entity, the first is overwritten by the second and is raced.      *)
LEMMA LinkOwned ==
    ASSUME Typed, Owned, NEW a \in Admin, LinkImprovement(a)
    PROVE  Owned'
<1> DEFINE s == work[a].table
           n == work[a].id
           own == work[a].improvement
<1>1. /\ s \in Improvable /\ ids' = ids
      /\ \A u \in DOMAIN db : u # s => db'[u] = db[u]
      /\ DOMAIN db'[s] = DOMAIN db[s]
      /\ \A x \in DOMAIN db[s] : x # n => db'[s][x] = db[s][x]
      /\ n \in DOMAIN db[s] => db'[s][n].improvement = own
  BY LinkTyped
<1>2. /\ TablesTyped /\ Watched \subseteq DOMAIN db
      /\ s # "improvements_unit_types" /\ "improvements_unit_types" \in DOMAIN db
  BY <1>1, Tables DEF Typed, Improvable, Watched
<1>3. /\ kept' = kept /\ raced \subseteq raced'
      /\ n \in DOMAIN db[s] /\ db[s][n].improvement # Null => <<s, n>> \in raced'
  BY DEF LinkImprovement
<1>4. /\ work'[a].do = "update" /\ \A b \in Admin \ {a} : work'[b] = work[b]
      /\ Asks(s, n, own)
  <2>1. Moves(a, {"update"})
    BY GotoMoves DEF LinkImprovement
  <2> QED
    BY <2>1, MovesOne DEF Typed, LinkImprovement, Asks
<1> HIDE DEF s, n, own
<1>5. Grants' = Grants
  BY <1>1, <1>2 DEF Grants
<1>6. ASSUME NEW t \in Improvable, NEW x, NEW m, Holder(t, x, m)'
      PROVE  Holder(t, x, m)
  <2>1. Has(t, x, m)' => Has(t, x, m) \/ (m = own /\ t = s /\ x = n)
    BY <1>1, <1>2 DEF Has, Watched
  <2>2. Asks(t, x, m)' => Asks(t, x, m)
    BY <1>4 DEF Asks
  <2>3. Keeps(t, x, m)' => Keeps(t, x, m)
    BY <1>3, <1>5 DEF Keeps
  <2> QED
    BY <1>4, <1>6, <2>1, <2>2, <2>3 DEF Holder
<1>7. ASSUME NEW b \in Admin, NEW m, Owns(b, m)'
      PROVE  m # Null /\ Owns(b, m)
  <2>1. Owns(b, m)
    BY <1>4, <1>7 DEF Owns
  <2>2. m # Null
    BY <2>1 DEF Owns, Typed, WorkTyped, TablesTyped, Carries, Null
  <2> QED
    BY <2>1, <2>2
<1>8. OneHolder' /\ OwnIsSpare'
  BY <1>6, <1>7, HoldersShrink DEF Owned
<1>9. ASSUME NEW t \in Improvable, NEW x, NEW m, m # Null, Attached(t, x, m)
      PROVE  Attached(t, x, m)'
  <2>1. CASE t = s /\ x = n
    BY <1>1, <1>3, <1>9, <2>1 DEF Attached
  <2>2. CASE ~(t = s /\ x = n)
    BY <1>1, <1>2, <1>3, <1>9, <2>2 DEF Attached, Watched
  <2> QED
    BY <2>1, <2>2
<1>10. ASSUME NEW b \in Admin PROVE Current(work[b])'
  <2>1. CASE b = a
    BY <1>4, <2>1 DEF Current
  <2>2. CASE b # a
    <3>1. work'[b] = work[b] /\ Current(work[b])
      BY <1>4, <2>2 DEF Owned
    <3>2. work[b].do = "grant" => work[b].table \in Improvable /\ work[b].improvement # Null
      BY DEF Typed, WorkTyped, Carries, Improving
    <3>3. \A v : v.table \in Improvable /\ v.improvement # Null /\ Attached(v.table, v.id, v.improvement)
                    => Attached(v.table, v.id, v.improvement)'
      BY <1>9
    <3> QED
      BY <1>5, <3>1, <3>2, <3>3 DEF Current
  <2> QED
    BY <2>1, <2>2
<1>11. KeptTyped'
  BY <1>1, <1>3 DEF Owned, KeptTyped
<1>12. GrantsAreKept'
  <2>1. ASSUME NEW k \in kept
        PROVE  \/ k.id \notin DOMAIN db'[k.table] \/ <<k.table, k.id>> \in raced'
               \/ k.grant \in DOMAIN Grants /\ Grants[k.grant].improvement = db'[k.table][k.id].improvement
    <3>1. k.table \in Improvable
      BY DEF Owned, KeptTyped
    <3>2. \/ k.id \notin DOMAIN db[k.table] \/ <<k.table, k.id>> \in raced
          \/ k.grant \in DOMAIN Grants /\ Grants[k.grant].improvement = db[k.table][k.id].improvement
      BY DEF Owned, GrantsAreKept, Grants
    <3>3. k.grant \in DOMAIN Grants => Grants[k.grant].improvement # Null
      BY <1>2 DEF TablesTyped, Grant, Grants, Null
    <3>4. PICK m : m = Grants[k.grant].improvement
      OBVIOUS
    <3>5. Attached(k.table, k.id, m) /\ m # Null => Attached(k.table, k.id, m)'
      BY <1>9, <3>1
    <3>6. k.id \notin DOMAIN db[k.table] => k.id \notin DOMAIN db'[k.table]
      BY <1>1, <1>2, <3>1 DEF Watched
    <3> QED
      BY <1>3, <3>2, <3>3, <3>4, <3>5, <3>6 DEF Attached
  <2> QED
    BY <1>3, <1>5, <2>1 DEF GrantsAreKept, Grants
<1> QED
  BY <1>8, <1>10, <1>11, <1>12 DEF Owned

(* A unit type improvement that is given.                                 *)
LEMMA InsertGrantOwned ==
    ASSUME Typed, Owned, NEW a \in Admin, InsertGrant(a)
    PROVE  Owned'
<1> DEFINE s == work[a].table
           n == work[a].id
           own == work[a].improvement
           g == ids["improvements_unit_types"] + 1
           new == [table |-> s, id |-> n, grant |-> g]
<1>1. /\ \A t \in Improvable : db'[t] = db[t] /\ ids'[t] = ids[t]
      /\ ids'["improvements_unit_types"] = g /\ g \notin DOMAIN Grants
      /\ DOMAIN Grants' = DOMAIN Grants \cup {g} /\ Grants'[g].improvement = own
      /\ \A x \in DOMAIN Grants : Grants'[x] = Grants[x]
  BY InsertGrantTyped DEF Grants
<1>2. /\ TablesTyped /\ ids["improvements_unit_types"] \in Nat
      /\ s \in Improvable /\ n \in 1 .. ids[s] /\ ids[s] \in Nat
  BY Tables DEF Typed, WorkTyped, Carries, Improving, InsertGrant
<1>3. kept' = kept \cup {new} /\ raced' = raced
  BY DEF InsertGrant
<1>4. /\ work'[a].do \in {"evict", "idle"} /\ \A b \in Admin \ {a} : work'[b] = work[b]
      /\ Asks(s, n, own) /\ Attached(s, n, own)
  <2>1. Moves(a, {"evict", "idle"})
    BY GotoMoves, EndMoves DEF InsertGrant, AfterEdit
  <2>2. Attached(s, n, own)
    BY DEF Owned, Current, InsertGrant
  <2> QED
    BY <2>1, <2>2, MovesOne DEF Typed, InsertGrant, Asks
<1>5. new.table = s /\ new.id = n /\ new.grant = g /\ new \in [table : Improvable, id : Nat, grant : Nat]
  BY <1>2
<1>6. \A k \in kept : k.grant \in Nat /\ k.grant # g
  BY <1>2 DEF Owned, KeptTyped
<1>7. g \in Nat /\ ids["improvements_unit_types"] <= g /\ n \in Nat /\ n <= ids[s]
  BY <1>2
<1> HIDE DEF s, n, own, g, new
<1>8. ASSUME NEW t \in Improvable, NEW x, NEW m, Holder(t, x, m)'
      PROVE  Holder(t, x, m)
  <2>1. Has(t, x, m)' => Has(t, x, m)
    BY <1>1 DEF Has
  <2>2. Asks(t, x, m)' => Asks(t, x, m)
    BY <1>4 DEF Asks
  <2>3. Keeps(t, x, m)' => Keeps(t, x, m) \/ (t = s /\ x = n /\ m = own)
    <3>1. ASSUME NEW k \in kept', k.table = t, k.id = x, k.grant \in DOMAIN Grants', Grants'[k.grant].improvement = m
          PROVE  Keeps(t, x, m) \/ (t = s /\ x = n /\ m = own)
      <4>1. CASE k = new
        BY <1>1, <1>5, <3>1, <4>1
      <4>2. CASE k \in kept
        BY <1>1, <1>6, <3>1, <4>2 DEF Keeps
      <4> QED
        BY <1>3, <3>1, <4>1, <4>2
    <3> QED
      BY <3>1 DEF Keeps
  <2> QED
    BY <1>4, <1>8, <2>1, <2>2, <2>3 DEF Holder
<1>9. ASSUME NEW b \in Admin, NEW m, Owns(b, m)'
      PROVE  m # Null /\ Owns(b, m)
  <2>1. Owns(b, m)
    BY <1>4, <1>9 DEF Owns
  <2>2. m # Null
    BY <2>1 DEF Owns, Typed, WorkTyped, TablesTyped, Carries, Null
  <2> QED
    BY <2>1, <2>2
<1>10. OneHolder' /\ OwnIsSpare'
  BY <1>8, <1>9, HoldersShrink DEF Owned
<1>11. ASSUME NEW b \in Admin PROVE Current(work[b])'
  <2>1. CASE b = a
    BY <1>4, <2>1 DEF Current
  <2>2. CASE b # a
    <3>1. work'[b] = work[b] /\ Current(work[b])
      BY <1>4, <2>2 DEF Owned
    <3>2. work[b].do = "grant" => work[b].table \in Improvable
      BY DEF Typed, WorkTyped, Carries, Improving
    <3>3. \A v : v.table \in Improvable /\ Attached(v.table, v.id, v.improvement) => Attached(v.table, v.id, v.improvement)'
      BY <1>1, <1>3 DEF Attached
    <3>4. work[b].do = "ungrant" => work[b].grant # g
      <4>1. work[b].do = "ungrant" => work[b].grant \in 1 .. ids["improvements_unit_types"]
        BY DEF Typed, WorkTyped, Carries
      <4> QED
        BY <1>2, <4>1 DEF g
    <3> QED
      BY <1>1, <3>1, <3>2, <3>3, <3>4 DEF Current
  <2> QED
    BY <2>1, <2>2
<1>12. KeptTyped'
  <2>1. \A k \in kept : /\ k.table \in Improvable /\ k.id <= ids[k.table] /\ k.grant \in Nat
                        /\ k.grant <= ids["improvements_unit_types"]
    BY DEF Owned, KeptTyped
  <2>2. \A k \in kept' : k.id <= ids'[k.table]
    BY <1>1, <1>2, <1>3, <1>5, <1>7, <2>1
  <2>3. \A k \in kept' : k.grant <= g
    BY <1>2, <1>3, <1>5, <1>7, <2>1
  <2>4. kept' \subseteq [table : Improvable, id : Nat, grant : Nat]
    BY <1>3, <1>5 DEF Owned, KeptTyped
  <2> QED
    BY <1>1, <2>2, <2>3, <2>4 DEF KeptTyped
<1>13. GrantsAreKept'
  <2>1. ASSUME NEW k \in kept'
        PROVE  \/ k.id \notin DOMAIN db'[k.table] \/ <<k.table, k.id>> \in raced
               \/ k.grant \in DOMAIN Grants' /\ Grants'[k.grant].improvement = db'[k.table][k.id].improvement
    <3>1. CASE k = new
      BY <1>1, <1>2, <1>4, <1>5, <3>1 DEF Attached
    <3>2. CASE k \in kept
      <4>1. k.table \in Improvable
        BY <3>2 DEF Owned, KeptTyped
      <4>2. \/ k.id \notin DOMAIN db[k.table] \/ <<k.table, k.id>> \in raced
            \/ k.grant \in DOMAIN Grants /\ Grants[k.grant].improvement = db[k.table][k.id].improvement
        BY <3>2 DEF Owned, GrantsAreKept, Grants
      <4> QED
        BY <1>1, <4>1, <4>2
    <3> QED
      BY <1>3, <3>1, <3>2
  <2> QED
    BY <1>3, <2>1 DEF GrantsAreKept, Grants
<1> QED
  BY <1>10, <1>11, <1>12, <1>13 DEF Owned

(* A unit type improvement that is taken: it was given to the entity it is*)
(* taken from.                                                            *)
LEMMA DeleteGrantOwned ==
    ASSUME Typed, Owned, NEW a \in Admin, DeleteGrant(a)
    PROVE  Owned'
<1> DEFINE s == work[a].table
           n == work[a].id
           own == work[a].improvement
           g == work[a].grant
           old == [table |-> s, id |-> n, grant |-> g]
<1>1. /\ \A t \in Improvable : db'[t] = db[t]
      /\ ids' = ids
      /\ DOMAIN Grants' = DOMAIN Grants \ {g}
      /\ \A x \in DOMAIN Grants' : Grants'[x] = Grants[x]
  BY DeleteGrantTyped DEF Grants
<1>2. TablesTyped /\ s \in Improvable
  BY DEF Typed, WorkTyped, Carries, Improving, DeleteGrant
<1>3. kept' = kept \ {old} /\ raced' = raced
  BY DEF DeleteGrant
<1>4. /\ work'[a].do \in {"evict", "idle"} /\ \A b \in Admin \ {a} : work'[b] = work[b]
      /\ Asks(s, n, own) /\ (g \in DOMAIN Grants => Grants[g].improvement = own)
  <2>1. Moves(a, {"evict", "idle"})
    BY GotoMoves, EndMoves DEF DeleteGrant, AfterEdit
  <2>2. g \in DOMAIN Grants => Grants[g].improvement = own
    BY DEF Owned, Current, DeleteGrant
  <2> QED
    BY <2>1, <2>2, MovesOne DEF Typed, DeleteGrant, Asks
<1>5. \A k \in kept : k.table = s /\ k.id = n /\ k.grant = g => k = old
  BY DEF Owned, KeptTyped
<1> HIDE DEF s, n, own, g, old
<1>6. ASSUME NEW t \in Improvable, NEW x, NEW m, Holder(t, x, m)'
      PROVE  Holder(t, x, m)
  <2>1. Has(t, x, m)' => Has(t, x, m)
    BY <1>1 DEF Has
  <2>2. Asks(t, x, m)' => Asks(t, x, m)
    BY <1>4 DEF Asks
  <2>3. Keeps(t, x, m)' => Keeps(t, x, m)
    BY <1>1, <1>3 DEF Keeps
  <2> QED
    BY <1>6, <2>1, <2>2, <2>3 DEF Holder
<1>7. ASSUME NEW b \in Admin, NEW m, Owns(b, m)'
      PROVE  m # Null /\ Owns(b, m)
  <2>1. Owns(b, m)
    BY <1>4, <1>7 DEF Owns
  <2>2. m # Null
    BY <2>1 DEF Owns, Typed, WorkTyped, TablesTyped, Carries, Null
  <2> QED
    BY <2>1, <2>2
<1>8. OneHolder' /\ OwnIsSpare'
  BY <1>6, <1>7, HoldersShrink DEF Owned
<1>9. ASSUME NEW b \in Admin PROVE Current(work[b])'
  <2>1. CASE b = a
    BY <1>4, <2>1 DEF Current
  <2>2. CASE b # a
    <3>1. work'[b] = work[b] /\ Current(work[b])
      BY <1>4, <2>2 DEF Owned
    <3>2. work[b].do = "grant" => work[b].table \in Improvable
      BY DEF Typed, WorkTyped, Carries, Improving
    <3>3. \A v : v.table \in Improvable /\ Attached(v.table, v.id, v.improvement) => Attached(v.table, v.id, v.improvement)'
      BY <1>1, <1>3 DEF Attached
    <3> QED
      BY <1>1, <3>1, <3>2, <3>3 DEF Current
  <2> QED
    BY <2>1, <2>2
<1>10. KeptTyped'
  BY <1>1, <1>3 DEF Owned, KeptTyped
<1>11. GrantsAreKept'
  <2>1. ASSUME NEW k \in kept'
        PROVE  \/ k.id \notin DOMAIN db'[k.table] \/ <<k.table, k.id>> \in raced
               \/ k.grant \in DOMAIN Grants' /\ Grants'[k.grant].improvement = db'[k.table][k.id].improvement
    <3>1. k \in kept /\ k # old /\ k.table \in Improvable
      BY <1>3 DEF Owned, KeptTyped
    <3>2. \/ k.id \notin DOMAIN db[k.table] \/ <<k.table, k.id>> \in raced
          \/ k.grant \in DOMAIN Grants /\ Grants[k.grant].improvement = db[k.table][k.id].improvement
      BY <3>1 DEF Owned, GrantsAreKept, Grants
    <3>3. ASSUME k.grant \in DOMAIN Grants PROVE k.grant # g
      <4>1. SUFFICES ASSUME k.grant = g PROVE FALSE
        OBVIOUS
      <4>2. Grants[g].improvement = own
        BY <1>4, <3>3, <4>1
      <4>3. Keeps(k.table, k.id, own)
        BY <3>1, <3>3, <4>1, <4>2 DEF Keeps
      <4>4. own # Null
        BY <1>2, <3>3, <4>1, <4>2 DEF TablesTyped, Grant, Grants, Null
      <4>5. Holder(k.table, k.id, own) /\ Holder(s, n, own)
        BY <1>4, <4>3 DEF Holder
      <4>6. k.table = s /\ k.id = n
        BY <1>2, <3>1, <4>4, <4>5 DEF Owned, OneHolder
      <4> QED
        BY <1>5, <3>1, <4>1, <4>6
    <3> QED
      BY <1>1, <3>1, <3>2, <3>3
  <2> QED
    BY <1>3, <2>1 DEF GrantsAreKept, Grants
<1> QED
  BY <1>8, <1>9, <1>10, <1>11 DEF Owned

(* What a request on an improvement reads is the entity's.                *)
LEMMA ImproveOwned ==
    ASSUME Typed, Owned, NEW a \in Admin, Improve(a)
    PROVE  Owned'
<1>1. TablesTyped
  BY DEF Typed
<1>2. UNCHANGED <<db, ids, kept, raced>>
  BY ZenonT(60) DEF Improve, SaveForEntity, AddUnitTypeImprovement, RemoveUnitTypeImprovement, ghosts
<1>3. ASSUME NEW t \in Improvable, NEW id, SaveForEntity(a, t, id) PROVE Owned'
  <2>1. Moves(a, {"create", "update"})
    BY <1>3, BeginMoves DEF SaveForEntity
  <2>2. Leaves(db', ids')
    BY <1>1, <1>2, TameStays DEF Tame
  <2>3. \A b \in Admin : work'[b] = work[b] \/ work'[b].do \notin {"own", "link", "grant", "ungrant"}
    BY <2>1, MovesOne DEF Typed
  <2> QED
    BY <1>2, <2>2, <2>3, LeavesOwned
<1>4. ASSUME NEW t \in Improvable, NEW id, NEW type, NEW value, AddUnitTypeImprovement(a, t, id, type, value)
      PROVE Owned'
  <2> DEFINE w == [do |-> "grant", table |-> t, id |-> id, improvement |-> db[t][id].improvement, grant |-> type]
  <2>1. id \in DOMAIN db[t] /\ work' = [work EXCEPT ![a] = w]
    BY <1>4 DEF AddUnitTypeImprovement, Begin
  <2>2. w.do = "grant" /\ w.table = t /\ Has(w.table, w.id, w.improvement)
    BY <2>1 DEF Has
  <2> HIDE DEF w
  <2> QED
    BY <1>2, <2>1, <2>2, ReadOwned
<1>5. ASSUME NEW t \in Improvable, NEW id, NEW g, RemoveUnitTypeImprovement(a, t, id, g)
      PROVE Owned'
  <2> DEFINE w == [do |-> "ungrant", table |-> t, id |-> id, improvement |-> db[t][id].improvement, grant |-> g]
  <2>1. /\ id \in DOMAIN db[t] /\ work' = [work EXCEPT ![a] = w]
        /\ Grants[g].improvement = db[t][id].improvement
    BY <1>5 DEF RemoveUnitTypeImprovement, Begin, Belongs, Grants
  <2>2. /\ w.do = "ungrant" /\ w.table = t /\ Has(w.table, w.id, w.improvement)
        /\ Grants[w.grant].improvement = w.improvement
    BY <2>1 DEF Has
  <2> HIDE DEF w
  <2> QED
    BY <1>2, <2>1, <2>2, ReadOwned
<1> QED
  BY <1>3, <1>4, <1>5 DEF Improve

(* What makes an improvement.                                             *)
LEMMA MakeOwned ==
    ASSUME Typed, Owned, NEW a \in Admin, NewOwner(a) \/ CreateImprovement(a)
    PROVE  Owned'
<1>1. ASSUME NEW t, NEW b,
             Begin(a, [do |-> "own", table |-> t, row |-> b, improvement |-> ids["improvements"] + 1]),
             CreateEmpty, UNCHANGED ghosts
      PROVE  Owned'
  <2> DEFINE w == [do |-> "own", table |-> t, row |-> b, improvement |-> ids["improvements"] + 1]
  <2>1. work' = [work EXCEPT ![a] = w] /\ UNCHANGED <<kept, raced>>
    BY <1>1 DEF Begin, ghosts
  <2>2. w.do = "own" /\ w.improvement = ids["improvements"] + 1
    OBVIOUS
  <2> HIDE DEF w
  <2> QED
    BY <1>1, <2>1, <2>2, CreateOwned
<1>2. CASE NewOwner(a)
  BY <1>1, <1>2 DEF NewOwner, SaveNewUnit, SaveNewSpecialLocation
<1>3. CASE CreateImprovement(a)
  <2> DEFINE w == [work[a] EXCEPT !.do = "link", !.improvement = ids["improvements"] + 1]
  <2>1. work' = [work EXCEPT ![a] = w] /\ UNCHANGED <<kept, raced>> /\ CreateEmpty /\ work[a].do = "create"
    BY <1>3 DEF CreateImprovement, ghosts
  <2>2. {"do", "improvement"} \subseteq DOMAIN work[a]
    BY <2>1 DEF Typed, WorkTyped, Carries, Improving
  <2>3. w.do = "link" /\ w.improvement = ids["improvements"] + 1
    BY <2>2
  <2> HIDE DEF w
  <2> QED
    BY <2>1, <2>3, CreateOwned
<1> QED
  BY <1>2, <1>3

(* The steps that leave whose improvements are.                           *)
LEMMA QuietOwned ==
    ASSUME Typed, Owned, NEW a \in Admin,
           \/ UpdateImprovement(a) \/ RefuseGrant(a) \/ EvictAll(a) \/ (RefuseOwner(a) /\ SaveOwner(a))
           \/ LookUp(a) \/ Write(a) \/ Vanish(a) \/ Listing(a) \/ Picturing(a)
    PROVE  Owned'
<1>1. TablesTyped
  BY DEF Typed
<1> DEFINE Quiet == {"idle", "evict", "translate", "mark", "name", "list"} \cup Imaging
<1>2. ASSUME Leaves(db', ids'), UNCHANGED <<kept, raced>>, Moves(a, Quiet)
      PROVE  Owned'
  <2>1. \A b \in Admin : work'[b] = work[b] \/ work'[b].do \notin {"own", "link", "grant", "ungrant"}
    BY <1>2, MovesOne DEF Typed, Imaging
  <2> QED
    BY <1>2, <2>1, LeavesOwned
<1>3. ASSUME UNCHANGED <<db, ids>> PROVE Leaves(db', ids')
  BY <1>1, <1>3, TameStays DEF Tame
<1>4. CASE UpdateImprovement(a)
  <2>1. Moves(a, Quiet) /\ UNCHANGED <<kept, raced>>
    BY <1>4, GotoMoves, EndMoves DEF UpdateImprovement, AfterEdit, ghosts
  <2> QED
    BY <1>1, <1>2, <1>4, <2>1, UpdateImprovementIsTame DEF Tame
<1>5. CASE RefuseGrant(a) \/ EvictAll(a) \/ (RefuseOwner(a) /\ SaveOwner(a)) \/ Vanish(a)
  <2>1. End(a) /\ UNCHANGED <<db, ids, kept, raced>>
    BY <1>5 DEF RefuseGrant, EvictAll, RefuseOwner, SaveOwner, Vanish, ghosts
  <2> QED
    BY <1>2, <1>3, <2>1, EndMoves
<1>6. CASE LookUp(a)
  <2>1. UNCHANGED <<db, ids, kept, raced>>
    BY <1>6 DEF LookUp, AddTranslation, AddVisitedEntry, MarkAsRead, MarkIfNew, FindOrSetDefault,
       AddAdmin, NameIfNew, ghosts
  <2>2. ASSUME NEW w, Begin(a, w), w.do \in {"translate", "mark", "name"} PROVE Moves(a, Quiet)
    BY <2>2, BeginMoves
  <2>3. ASSUME NEW t, NEW l, NEW id, AddTranslation(a, t, l, id) PROVE Moves(a, Quiet)
    BY <2>2, <2>3 DEF AddTranslation
  <2>4. ASSUME NEW t, NEW row, MarkIfNew(a, t, row) PROVE Moves(a, Quiet)
    BY <2>2, <2>4 DEF MarkIfNew
  <2>5. ASSUME NEW t, NEW n, NEW row, NameIfNew(a, t, n, row) PROVE Moves(a, Quiet)
    BY <2>2, <2>5 DEF NameIfNew
  <2>6. Moves(a, Quiet)
    BY <1>6, <2>3, <2>4, <2>5 DEF LookUp, AddVisitedEntry, MarkAsRead, FindOrSetDefault, AddAdmin
  <2> QED
    BY <1>2, <1>3, <2>1, <2>6
<1>7. CASE Write(a)
  <2>1. End(a) /\ UNCHANGED <<kept, raced>>
    BY <1>7 DEF Write, WriteTranslation, WriteMark, WriteName, ghosts
  <2> QED
    BY <1>2, <1>7, <2>1, WriteIsTame, EndMoves DEF Tame
<1>8. CASE Listing(a)
  <2>1. UNCHANGED <<kept, raced>>
    BY <1>8 DEF Listing, SaveList, InsertEntry, RefuseEntry, CommitList, ghosts
  <2>2. Moves(a, {"list", "idle"})
    BY <1>8, ListingMoves
  <2>3. Moves(a, Quiet)
    BY <2>2 DEF Moves
  <2>4. Leaves(db', ids')
    BY <1>1, <1>3, <1>8, SaveListIsTame DEF Listing, InsertEntry, RefuseEntry, CommitList, Tame
  <2> QED
    BY <1>2, <2>1, <2>3, <2>4
<1>9. CASE Picturing(a)
  <2>1. UNCHANGED <<kept, raced>>
    BY <1>9 DEF Picturing, SaveImage, SaveToDisk, WriteEnds, LookUpImage, InsertImage, ghosts
  <2>2. Moves(a, Imaging \cup {"idle"})
    BY <1>9, PicturingMoves
  <2>3. Moves(a, Quiet)
    BY <2>2 DEF Moves
  <2>4. Leaves(db', ids')
    BY <1>1, <1>3, <1>9, InsertImageLeaves
       DEF Picturing, SaveImage, SaveToDisk, WriteEnds, LookUpImage
  <2> QED
    BY <1>2, <2>1, <2>3, <2>4
<1> QED
  BY <1>4, <1>5, <1>6, <1>7, <1>8, <1>9

(* Every step keeps an improvement with one entity.                       *)
LEMMA StepOwned ==
    ASSUME Typed, Owned, [Next]_vars
    PROVE  Owned'
<1>1. TablesTyped
  BY DEF Typed
<1>2. CASE Edit
  <2>1. Leaves(db', ids') /\ work' = work /\ UNCHANGED <<kept, raced>>
    BY <1>1, <1>2, EditIsTame DEF Tame, Edit
  <2> QED
    BY <2>1, LeavesOwned
<1>3. CASE Crash
  <2>1. Leaves(db', ids') /\ UNCHANGED <<kept, raced>>
    BY <1>1, <1>3, TameStays DEF Tame, Crash, ghosts
  <2>2. \A a \in Admin : work'[a].do \notin {"own", "link", "grant", "ungrant"}
    BY <1>3 DEF Crash, Idle
  <2> QED
    BY <2>1, <2>2, LeavesOwned
<1>4. CASE UNCHANGED vars
  <2>1. Leaves(db', ids') /\ work' = work /\ UNCHANGED <<kept, raced>>
    BY <1>1, <1>4, TameStays DEF Tame, vars, ghosts
  <2> QED
    BY <2>1, LeavesOwned
<1>5. ASSUME NEW a \in Admin, SaveOwner(a) PROVE Owned'
  <2>1. CASE InsertOwner(a)
    BY <1>5, <2>1, InsertOwnerOwned DEF SaveOwner, ghosts
  <2>2. CASE RefuseOwner(a)
    BY <1>5, <2>2, QuietOwned
  <2> QED
    BY <1>5, <2>1, <2>2 DEF SaveOwner
<1>6. ASSUME NEW a \in Admin, Elsewhere(a) PROVE Owned'
  BY <1>5, <1>6, ImproveOwned, MakeOwned, LinkOwned, InsertGrantOwned, DeleteGrantOwned,
     QuietOwned
     DEF Elsewhere
<1>7. ASSUME NEW a \in Admin, Listing(a) \/ Picturing(a) PROVE Owned'
  BY <1>7, QuietOwned
<1> QED
  BY <1>2, <1>3, <1>4, <1>6, <1>7, NextSplit

(* Improvements start with one entity each.                               *)
LEMMA InitOwned ==
    ASSUME Init
    PROVE  Owned
<1> DEFINE u == "improvements_unit_types"
           all == UNION {[table : {t}, id : DOMAIN db[t], grant : DOMAIN db[u]] : t \in Improvable}
<1>1. /\ db = Start.db /\ work = [a \in Admin |-> Idle] /\ raced = {}
      /\ kept = {k \in all : db[k.table][k.id].improvement = db[u][k.grant].improvement}
  BY DEF Init
<1>2. TablesTyped
  BY InitTyped DEF Typed
<1>3. ASSUME NEW k \in kept
      PROVE  /\ k.table \in Improvable /\ k.id \in DOMAIN db[k.table] /\ k.grant \in DOMAIN db[u]
             /\ k \in [table : Improvable, id : Nat, grant : Nat]
             /\ k.id <= ids[k.table] /\ k.grant <= ids[u]
             /\ db[k.table][k.id].improvement = db[u][k.grant].improvement
  <2>1. PICK t \in Improvable : k \in [table : {t}, id : DOMAIN db[t], grant : DOMAIN db[u]]
    BY <1>1
  <2>2. /\ ids[t] \in Nat /\ DOMAIN db[t] \subseteq 1 .. ids[t]
        /\ ids[u] \in Nat /\ DOMAIN db[u] \subseteq 1 .. ids[u]
    BY <1>2 DEF TablesTyped, Entity, Grant
  <2>3. k.table = t /\ k.id \in 1 .. ids[t] /\ k.grant \in 1 .. ids[u]
    BY <2>1, <2>2
  <2>4. k.id \in Nat /\ k.id <= ids[t] /\ k.grant \in Nat /\ k.grant <= ids[u]
    BY <2>2, <2>3
  <2>5. k \in [table : Improvable, id : Nat, grant : Nat]
    BY <2>1, <2>4
  <2> QED
    BY <1>1, <2>1, <2>3, <2>4, <2>5
<1> HIDE DEF all
<1>4. KeptTyped /\ GrantsAreKept
  BY <1>3 DEF KeptTyped, GrantsAreKept
<1>5. \A a \in Admin : work[a].do = "idle"
  BY <1>1 DEF Idle
<1>6. ASSUME NEW t \in Improvable, NEW x, NEW m, Holder(t, x, m) PROVE Has(t, x, m)
  BY <1>3, <1>5, <1>6 DEF Holder, Has, Asks, Keeps, Grants
<1>7. ASSUME NEW t \in Improvable, NEW v \in Improvable, NEW x, NEW y, NEW m, m # Null, Holder(t, x, m), Holder(v, y, m)
      PROVE  t = v /\ x = y
  <2>1. Has(t, x, m) /\ Has(v, y, m)
    BY <1>6, <1>7
  <2>2. <<t, x>> = <<v, y>>
    BY <1>1, <1>7, <2>1, StartAssumption DEF Has
  <2> QED
    BY <2>2
<1>8. OneHolder
  BY <1>7 DEF OneHolder
<1>9. OwnIsSpare /\ \A a \in Admin : Current(work[a])
  BY <1>5 DEF OwnIsSpare, Owns, Current
<1> QED
  BY <1>4, <1>8, <1>9 DEF Owned

(* A unit type improvement given to an entity stays with it until it is   *)
(* taken from that entity, but where two first edits raced for the entity:*)
(* an improvement is never of two entities (improvement_bo.rs).           *)
THEOREM SpecGrantsAreKept == Spec => []GrantsAreKept
<1>1. Init => Owned
  BY InitOwned
<1>2. Typed /\ Owned /\ [Next]_vars => Owned'
  BY StepOwned
<1>3. Owned => GrantsAreKept
  BY DEF Owned
<1> QED
  BY <1>1, <1>2, <1>3, SpecTyped, PTL DEF Spec
===============================================================================
