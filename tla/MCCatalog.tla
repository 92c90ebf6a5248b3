------------------------------ MODULE MCCatalog ------------------------------
(* A small universe: one planet with a special location, two types, one of *)
(* them free to go, a unit, a researched upgrade and one without an        *)
(* improvement, two attack rules of which one is in use, and texts.        *)
EXTENDS Catalog, TLC

CONSTANTS a1, a2

Admins == Permutations(Admin)
Empty == [x \in {} |-> 0]
One(row) == 1 :> row

MCStart ==
    [db |-> [
        images_store |-> One([content |-> "i1"]),
        improvements |-> [i \in 1 .. 3 |-> [value |-> 0]],
        improvements_unit_types |-> 1 :> [improvement |-> 1, type |-> 1] @@ 2 :> [improvement |-> 2, type |-> 1],
        unit_types |-> 1 :> [image |-> 1, parent |-> Null, share |-> Null, group |-> 1, attack |-> 1, critical |-> 1]
                    @@ 2 :> [image |-> Null, parent |-> 1, share |-> 1, group |-> Null, attack |-> Null, critical |-> Null],
        units |-> One([image |-> Null, type |-> 1, group |-> Null, critical |-> Null, improvement |-> 1]),
        upgrades |-> 1 :> [image |-> Null, type |-> 1, time |-> 60, improvement |-> Null]
                  @@ 2 :> [image |-> Null, type |-> 1, time |-> 60, improvement |-> 2],
        upgrade_types |-> 1 :> <<>> @@ 2 :> <<>>,
        factions |-> One([image |-> Null, improvement |-> Null]),
        special_locations |-> One([image |-> Null, galaxy |-> 1, improvement |-> 3]),
        speed_impact_groups |-> 1 :> [image |-> Null] @@ 2 :> [image |-> Null],
        galaxies |-> 1 :> <<>> @@ 2 :> <<>>,
        planets |-> One([galaxy |-> 1, special |-> 1]),
        obtained_upgrades |-> One([upgrade |-> 2]),
        attack_rules |-> 1 :> <<>> @@ 2 :> <<>>,
        critical_attack |-> One(<<>>),
        rules |-> One([origin |-> 1, destination |-> 1]),
        translatables |-> 1 :> <<>> @@ 2 :> <<>>,
        translatables_translations |-> One([translatable |-> 1, lang |-> "en"]),
        symbols |-> One(<<>>),
        tutorial_sections_entries |-> One([symbol |-> 1, text |-> 1]),
        visited_tutorial_entries |-> Empty,
        system_messages |-> One(<<>>),
        user_read_system_messages |-> Empty,
        configuration |-> "MISSION_TIME_EXPLORE" :> [value |-> 60],
        admin_users |-> One([name |-> "root", enabled |-> TRUE])],
     lists |-> [
        attack_rule_entries |-> 1 :> <<1, 2>> @@ 2 :> <<>>,
        critical_attack_entries |-> 1 :> <<1, 2>>,
        factions_unit_types |-> 1 :> <<2>>,
        faction_spawn_location |-> 1 :> <<1>>]]

MCBody ==
    [upgrades |-> {[type |-> 1, image |-> 1, time |-> 3], [type |-> 2, image |-> Null, time |-> 90], [type |-> Null, image |-> Null, time |-> 90]},
     upgrade_types |-> {<<>>},
     units |-> {[type |-> 2, image |-> Null, group |-> 1, critical |-> Null]},
     unit_types |-> {[image |-> Null, parent |-> 2, share |-> Null, group |-> Null, attack |-> 2, critical |-> Null]},
     factions |-> {[image |-> 1, primary |-> Null, secondary |-> 99], [image |-> Null, primary |-> 60, secondary |-> 50]},
     special_locations |-> {[image |-> Null, galaxy |-> 1], [image |-> Null, galaxy |-> 2]},
     speed_impact_groups |-> {[image |-> 1]},
     galaxies |-> {<<>>},
     rules |-> {[origin |-> 1, destination |-> 7]},
     images_store |-> {[display |-> TRUE, description |-> TRUE], [display |-> TRUE, description |-> FALSE]},
     translatables |-> {<<>>},
     tutorial_sections_entries |-> {[symbol |-> 1, text |-> 2]},
     system_messages |-> {<<>>},
     configuration |-> {[name |-> "MISSION_TIME_EXPLORE", value |-> 5], [name |-> "MISSION_TIME_EXPLORE", value |-> 30], [name |-> "ZERO_BUILD_TIME", value |-> 1]}]

MCListBody ==
    [attack_rule_entries |-> {<<>>, <<2, 1>>}, critical_attack_entries |-> {<<1>>},
     factions_unit_types |-> {<<>>, <<2, 1>>, <<2, 9>>}, faction_spawn_location |-> {<<1, 1>>}]
===============================================================================
