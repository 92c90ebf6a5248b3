-------------------------- MODULE MCMissionScheduler --------------------------
(* Instances of MissionScheduler for TLC.                                  *)
EXTENDS MissionScheduler, TLC

WorkerSymmetry == Permutations(Worker)
==============================================================================
