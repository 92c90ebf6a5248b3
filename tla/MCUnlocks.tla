-------------------------------- MODULE MCUnlocks --------------------------------
(* Instances of Unlocks for TLC.  One universe: an upgrade of the race, a  *)
(* unit that needs it, a special that goes with a location, what needs     *)
(* that special - an upgrade, another special - and two requirement groups *)
(* of one speed impact group.                                              *)
EXTENDS Unlocks

Need(code, on, n) == [code |-> code, on |-> on, n |-> n]

MCKind == <<"UPGRADE", "UNIT", "TIME_SPECIAL", "UPGRADE", "TIME_SPECIAL",
            "REQUIREMENT_GROUP", "REQUIREMENT_GROUP", "SPEED_IMPACT_GROUP", "UNIT", "UNIT",
            "REQUIREMENT_GROUP">>
MCTarget == <<"mining", "tank", "storm", "magic", "calm", 1, 2, 3, "ghost", "elite", 4>>
MCNeeds ==
    <<{Need("BEEN_RACE", "human", 0)},
      {Need("UPGRADE_LEVEL", "mining", 1)},
      {Need("BEEN_RACE", "human", 0), Need("HAVE_SPECIAL_LOCATION", "volcano", 0)},
      {Need("HAVE_SPECIAL_ENABLED", "storm", 0)},
      {Need("HAVE_SPECIAL_ENABLED", "storm", 0), Need("HOME_GALAXY", "g", 0)},
      {Need("UPGRADE_LEVEL", "mining", 1)},
      {Need("HAVE_SPECIAL_ENABLED", "calm", 0)},
      {},
      {Need("HAVE_UNIT", "tank", 0), Need("HAVE_SPECIAL_AVAILABLE", "storm", 0)},
      {Need("UNIT_AMOUNT", "tank", 2), Need("UPGRADE_LEVEL_LOWER_THAN", "mining", 2)},
      {}>>

(* The administrator edits the groups of the speed impact group, and adds  *)
(* one for another race.                                                   *)
Another == {Need("BEEN_RACE", "orc", 0)}
MCMaster == (6 :> 8) @@ (7 :> 8)
MCRace == [u \in User |-> "human"]
MCGalaxy == [u \in User |-> "g"]

Ghosts(special) == [u \in Unit |-> IF special = "storm" /\ u = "tank" THEN 1 ELSE 0]
MCLends == [s \in TimeSpecial |-> Ghosts(s)]

Volcano == ("v" :> "volcano")

(* A player with the special and the colony with its location, and one who has not subscribed. *)
Two == {"ann", "bob"}
TwoHomes == [u \in Two |-> IF u = "ann" THEN "h1" ELSE "h2"]
TwoColonies == [u \in Two |-> IF u = "ann" THEN {"v"} ELSE {}]
================================================================================
