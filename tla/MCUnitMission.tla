----------------------------- MODULE MCUnitMission -----------------------------
(* Instances of UnitMission for TLC.                                       *)
EXTENDS UnitMission, TLC

CONSTANTS p1, p2, p3, me, them

(* p1 is the player's and p2 his home; the others are free.                *)
Owners == [p \in Planet |-> IF p \in {p1, p2} THEN me ELSE Nobody]

WorkerSymmetry == Permutations(Worker)
================================================================================
