--------------------------- MODULE SchedulerPromises ---------------------------
(***************************************************************************)
(* What the scheduler of missions promises, in terms of the mission rows,  *)
(* their scheduled_tasks, what each worker runs and what came of it.       *)
(* MissionScheduler is how it keeps these promises.                        *)
(***************************************************************************)
EXTENDS Naturals

CONSTANTS
    Worker,       \* one poller per running process
    Mission,      \* mission ids
    MaxAttempts,  \* MAX_ATTEMPTS (3)
    NoMission     \* not a mission

VARIABLES
    status,    \* status[m]: the missions row
    row,       \* row[m]: the scheduled_tasks row
    cur,       \* cur[w]: the mission worker w runs
    failures,  \* history: failed executions of m
    commits,   \* history: committed executions of m
    gaveUp     \* history: missions given up

(* A mission still to be run has its task: whatever crashed, there is a    *)
(* row from which a poller will run it (scheduler module comment: "a       *)
(* claimed row is always deleted after a run" and only then).              *)
NoLostMission == \A m \in Mission : status[m] = "open" => row[m].state # "none"

(* The version CAS lets one worker at a time run a mission.                *)
OneRunner ==
    \A v, w \in Worker : v # w => cur[v] = NoMission \/ cur[v] # cur[w]

(* A mission commits its effects once.                                     *)
CommitsOnce == \A m \in Mission : commits[m] <= 1

(* A mission is given up only after MAX_ATTEMPTS executions failed.        *)
GivesUpLate == \A m \in gaveUp : failures[m] >= MaxAttempts

(* A mission that was given up had no effect: the error report it gets     *)
(* ("only notified when the mission is definitively given up",             *)
(* mission_base_service_bo.rs) never follows an execution that committed.  *)
GivenUpDidNothing == \A m \in gaveUp : commits[m] = 0
================================================================================
