----------------------------- MODULE MCBuildMission -----------------------------
(* Instances of BuildMission for TLC.                                      *)
EXTENDS BuildMission, TLC

(* A unit costs 1, a unique one 2.                                         *)
Costs == [u \in Unit |-> IF u \in Unique THEN 2 ELSE 1]

(* Capital ships count with the warships, of which the faction allows two; *)
(* a level of the upgrade makes the two kinds' energy and limit suffice for *)
(* one more.                                                               *)
Types == {"warship", "capital"}
KindOf == [u \in Unit |-> IF u \in Unique THEN "capital" ELSE "warship"]
Shares == [t \in Types |-> IF t = "capital" THEN "warship" ELSE Nobody]
Capped == [t \in Types |-> IF t = "warship" THEN 2 ELSE 0]
Uncapped == [t \in Types |-> IF t = "warship" THEN 1 ELSE 0]
Consumption == [u \in Unit |-> IF u \in Unique THEN 1 ELSE 2]

Symmetry == Permutations(Worker) \cup Permutations(Client)
================================================================================
