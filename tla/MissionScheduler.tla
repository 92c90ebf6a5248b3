--------------------------- MODULE MissionScheduler ---------------------------
(***************************************************************************)
(* The db-scheduler protocol of bo/mission_scheduler_bo.rs over the        *)
(* scheduled_tasks table, together with MissionRunner::execute of          *)
(* bo/unit_mission_bo.rs and retry_mission_if_possible of                  *)
(* bo/mission_base_service_bo.rs: pollers claim due rows by version,       *)
(* run the mission inline, and re-arm or delete the row.                   *)
(*                                                                         *)
(* Time is abstract: a row becomes due, and the heartbeat of a picked row  *)
(* grows older than STALE_PICK_MINUTES, at any moment.  The body of a      *)
(* mission either commits or fails.                                        *)
(***************************************************************************)
EXTENDS FiniteSets, SchedulerPromises

CONSTANTS
    UnitMissions, \* those that are unit missions; the rest are BUILD_UNIT/LEVEL_UP
    PollBatch,    \* POLL_BATCH (50)
    Faults,       \* which of the faults below can happen
    MaxFaults     \* bound: how many faults happen in a behaviour

ASSUME MissionAssumption == UnitMissions \subseteq Mission /\ NoMission \notin Mission
ASSUME BoundAssumption ==
    MaxAttempts \in Nat \ {0} /\ PollBatch \in Nat \ {0} /\ MaxFaults \in Nat
ASSUME FaultsAssumption ==
    Faults \subseteq {"crash", "tick", "stall", "dispatch", "retry", "emit", "late"}

VARIABLES
    attemps,   \* attemps[m]: its attempt counter (the column's spelling)
    pc,        \* pc[w]: where worker w is
    batch,     \* batch[w]: candidates <<mission, version>> still to claim
    retryAt,   \* retryAt[w]: the run returned an instant to retry at
    faults     \* faults so far

missionVars == <<status, attemps>>
history == <<failures, commits, gaveUp>>
workerVars == <<pc, batch, cur, retryAt>>
vars == <<missionVars, row, workerVars, history, faults>>

Rows == [state : {"none", "armed", "picked"}, due : BOOLEAN, stale : BOOLEAN,
         version : Nat]

NoRow == [state |-> "none", due |-> FALSE, stale |-> FALSE, version |-> 0]

TypeOK ==
    /\ status \in [Mission -> {"unregistered", "open", "resolved", "deleted"}]
    /\ attemps \in [Mission -> 1 .. MaxAttempts]
    /\ row \in [Mission -> Rows]
    /\ pc \in [Worker -> {"idle", "claiming", "loading", "running", "failed",
                          "emitting", "closing"}]
    /\ batch \in [Worker -> SUBSET (Mission \X Nat)]
    /\ cur \in [Worker -> Mission \cup {NoMission}]
    /\ retryAt \in [Worker -> BOOLEAN]
    /\ failures \in [Mission -> Nat]
    /\ commits \in [Mission -> Nat]
    /\ gaveUp \subseteq Mission
    /\ faults \in 0 .. MaxFaults

Init ==
    /\ status = [m \in Mission |-> "unregistered"]
    /\ attemps = [m \in Mission |-> 1]
    /\ row = [m \in Mission |-> NoRow]
    /\ pc = [w \in Worker |-> "idle"]
    /\ batch = [w \in Worker |-> {}]
    /\ cur = [w \in Worker |-> NoMission]
    /\ retryAt = [w \in Worker |-> FALSE]
    /\ failures = [m \in Mission |-> 0]
    /\ commits = [m \in Mission |-> 0]
    /\ gaveUp = {}
    /\ faults = 0

------------------------------------------------------------------------------
Goto(w, place) == pc' = [pc EXCEPT ![w] = place]

(* The next candidate of the tick, or the sleep until the next tick.       *)
NextCandidate(w) ==
    /\ Goto(w, IF batch[w] = {} THEN "idle" ELSE "claiming")
    /\ cur' = [cur EXCEPT ![w] = NoMission]
    /\ retryAt' = [retryAt EXCEPT ![w] = FALSE]
    /\ UNCHANGED batch

Fault(kind) == kind \in Faults /\ faults < MaxFaults /\ faults' = faults + 1

(* Mutants of Candidate: a row another worker just picked is a candidate;  *)
(* a picked row never is one again.                                        *)
CandidatePicked(m) == row[m].state # "none" /\ row[m].due

CandidateArmed(m) == row[m].state = "armed" /\ row[m].due

Candidate(m) ==
    /\ row[m].state # "none"
    /\ row[m].due
    /\ row[m].state = "picked" => row[m].stale

(* A finished unit mission keeps its row, resolved; BUILD_UNIT and         *)
(* LEVEL_UP delete theirs.                                                 *)
Closed(m) == IF m \in UnitMissions THEN "resolved" ELSE "deleted"

------------------------------------------------------------------------------
(* A request registers the mission and its task in one transaction.        *)
Register(m) ==
    /\ status[m] = "unregistered"
    /\ status' = [status EXCEPT ![m] = "open"]
    /\ row' = [row EXCEPT ![m] = [NoRow EXCEPT !.state = "armed", !.version = 1]]
    /\ UNCHANGED <<attemps, workerVars, history, faults>>

(* my_cancel_mission resolves a unit mission and leaves its task alone;    *)
(* cancel_build_unit and cancel_upgrade_mission delete mission and task.   *)
Cancel(m) ==
    /\ status[m] = "open"
    /\ status' = [status EXCEPT ![m] = Closed(m)]
    /\ row' = IF m \in UnitMissions THEN row ELSE [row EXCEPT ![m] = NoRow]
    /\ UNCHANGED <<attemps, workerVars, history, faults>>

(* execution_time <= NOW(6)                                                *)
BecomeDue(m) ==
    /\ row[m].state = "armed" /\ ~row[m].due
    /\ row' = [row EXCEPT ![m].due = TRUE]
    /\ UNCHANGED <<missionVars, workerVars, history, faults>>

RunsIt(w, m) == cur[w] = m

(* The row was picked more than STALE_PICK_MINUTES ago.  Its worker is not *)
(* running it any more, or (a stall) still is: nothing renews a heartbeat. *)
HeartbeatAges(m) ==
    /\ row[m].state = "picked" /\ ~row[m].stale
    /\ row' = [row EXCEPT ![m].stale = TRUE]
    /\ \/ /\ \A w \in Worker : ~RunsIt(w, m)
          /\ UNCHANGED faults
       \/ /\ \E w \in Worker : RunsIt(w, m)
          /\ Fault("stall")
    /\ UNCHANGED <<missionVars, workerVars, history>>

------------------------------------------------------------------------------
(* poll_once: select the due rows, fresh or stale.                         *)
PollOnce(w) ==
    /\ pc[w] = "idle"
    /\ \E S \in SUBSET {m \in Mission : Candidate(m)} :
          /\ S # {} /\ Cardinality(S) <= PollBatch
          /\ batch' = [batch EXCEPT ![w] = {<<m, row[m].version>> : m \in S}]
    /\ Goto(w, "claiming")
    /\ UNCHANGED <<missionVars, row, cur, retryAt, history, faults>>

(* Mutant of Claim: the UPDATE does not compare the version.               *)
ClaimUnversioned(w) ==
    /\ pc[w] = "claiming"
    /\ \E c \in batch[w] :
          /\ row[c[1]].state # "none"
          /\ row' = [row EXCEPT ![c[1]].state = "picked", ![c[1]].stale = FALSE,
                                ![c[1]].version = @ + 1]
          /\ batch' = [batch EXCEPT ![w] = @ \ {c}]
          /\ cur' = [cur EXCEPT ![w] = c[1]]
    /\ Goto(w, "loading")
    /\ UNCHANGED <<missionVars, retryAt, history, faults>>

(* The UPDATE ... WHERE version = ?: won, and the mission is dispatched.   *)
Claim(w) ==
    /\ pc[w] = "claiming"
    /\ \E c \in batch[w] :
          /\ row[c[1]].state # "none" /\ row[c[1]].version = c[2]
          /\ row' = [row EXCEPT ![c[1]].state = "picked", ![c[1]].stale = FALSE,
                                ![c[1]].version = @ + 1]
          /\ batch' = [batch EXCEPT ![w] = @ \ {c}]
          /\ cur' = [cur EXCEPT ![w] = c[1]]
    /\ Goto(w, "loading")
    /\ UNCHANGED <<missionVars, retryAt, history, faults>>

(* rows_affected() is 0: another worker was faster, or the row is gone.    *)
LoseClaim(w) ==
    /\ pc[w] = "claiming"
    /\ \E c \in batch[w] :
          /\ row[c[1]].state = "none" \/ row[c[1]].version # c[2]
          /\ batch' = [batch EXCEPT ![w] = @ \ {c}]
    /\ Goto(w, IF batch'[w] = {} THEN "idle" ELSE "claiming")
    /\ UNCHANGED <<missionVars, row, cur, retryAt, history, faults>>

------------------------------------------------------------------------------
(* Mutant of Load: the resolved flag is not looked at.                     *)
LoadUnchecked(w) ==
    /\ pc[w] = "loading"
    /\ Goto(w, IF status[cur[w]] # "deleted" THEN "running" ELSE "closing")
    /\ UNCHANGED <<missionVars, row, batch, cur, retryAt, history, faults>>

(* MissionRunner::execute loads the mission; nothing to do when it is gone *)
(* or resolved.                                                            *)
Load(w) ==
    /\ pc[w] = "loading"
    /\ Goto(w, IF status[cur[w]] = "open" THEN "running" ELSE "closing")
    /\ UNCHANGED <<missionVars, row, batch, cur, retryAt, history, faults>>

(* The body commits.  It does not look at the resolved flag again.  (A     *)
(* BUILD_UNIT or LEVEL_UP body finds its mission row gone and fails.)      *)
RunCommits(w) ==
    /\ pc[w] = "running"
    /\ status[cur[w]] # "deleted"
    /\ status' = [status EXCEPT ![cur[w]] = Closed(cur[w])]
    /\ commits' = [commits EXCEPT ![cur[w]] = @ + 1]
    /\ \/ Goto(w, "closing") /\ UNCHANGED <<failures, faults>>
       \* an emit after the commit fails: the run counts as failed all the same
       \/ /\ Goto(w, "failed")
          /\ failures' = [failures EXCEPT ![cur[w]] = @ + 1]
          /\ Fault("late")
    /\ UNCHANGED <<attemps, row, batch, cur, retryAt, gaveUp>>

(* The body fails and is rolled back.                                      *)
RunFails(w) ==
    /\ pc[w] = "running"
    /\ failures' = [failures EXCEPT ![cur[w]] = @ + 1]
    /\ Goto(w, "failed")
    /\ UNCHANGED <<missionVars, row, batch, cur, retryAt, commits, gaveUp, faults>>

(* Mutant of OutOfAttempts: one attempt too few.                           *)
OutOfAttemptsEarly(m) == attemps[m] >= MaxAttempts - 1

(* should_retry is false.                                                  *)
OutOfAttempts(m) == attemps[m] >= MaxAttempts

(* retry_mission_if_possible: bump attemps and return a retry instant, or  *)
(* give up at the cap.  A missing mission is an error, which is logged.    *)
RetryMissionIfPossible(w) ==
    LET m == cur[w] IN
    /\ pc[w] = "failed"
    /\ \/ /\ status[m] = "deleted"
          /\ UNCHANGED <<missionVars, retryAt, gaveUp>>
       \/ /\ status[m] # "deleted" /\ ~OutOfAttempts(m)
          /\ attemps' = [attemps EXCEPT ![m] = @ + 1]
          /\ retryAt' = [retryAt EXCEPT ![w] = TRUE]
          /\ UNCHANGED <<status, gaveUp>>
       \/ /\ status[m] # "deleted" /\ OutOfAttempts(m)
          /\ status' = [status EXCEPT ![m] = Closed(m)]
          /\ gaveUp' = gaveUp \cup {m}
          /\ UNCHANGED <<attemps, retryAt>>
    /\ Goto(w, "emitting")
    /\ UNCHANGED <<row, batch, cur, failures, commits, faults>>

(* The catch block's websocket emits.                                      *)
EmitAfterFailure(w) ==
    /\ pc[w] = "emitting"
    /\ Goto(w, "closing")
    /\ UNCHANGED <<missionVars, row, batch, cur, retryAt, history, faults>>

(* Mutant of RearmRow: the row is deleted although a retry is due.         *)
RearmRowDeletes(w) ==
    /\ pc[w] = "closing" /\ retryAt[w]
    /\ row' = [row EXCEPT ![cur[w]] = NoRow]
    /\ NextCandidate(w)
    /\ UNCHANGED <<missionVars, history, faults>>

(* Some(retry_at): re-arm the row.  The UPDATE names the task only.        *)
RearmRow(w) ==
    /\ pc[w] = "closing" /\ retryAt[w]
    /\ row' = IF row[cur[w]].state = "none" THEN row
              ELSE [row EXCEPT ![cur[w]] =
                       [NoRow EXCEPT !.state = "armed",
                                     !.version = row[cur[w]].version + 1]]
    /\ NextCandidate(w)
    /\ UNCHANGED <<missionVars, history, faults>>

(* None: delete the row.  The DELETE names the task only.                  *)
DeleteRow(w) ==
    /\ pc[w] = "closing" /\ ~retryAt[w]
    /\ row' = [row EXCEPT ![cur[w]] = NoRow]
    /\ NextCandidate(w)
    /\ UNCHANGED <<missionVars, history, faults>>

------------------------------------------------------------------------------
(* The process dies anywhere and is started again.                         *)
Crash(w) ==
    /\ pc[w] # "idle"
    /\ Fault("crash")
    /\ Goto(w, "idle")
    /\ batch' = [batch EXCEPT ![w] = {}]
    /\ cur' = [cur EXCEPT ![w] = NoMission]
    /\ retryAt' = [retryAt EXCEPT ![w] = FALSE]
    /\ UNCHANGED <<missionVars, row, history>>

(* A statement of poll_once fails and the `?` ends the tick.               *)
TickFails(w) ==
    /\ pc[w] \in {"claiming", "closing"}
    /\ Fault("tick")
    /\ Goto(w, "idle")
    /\ batch' = [batch EXCEPT ![w] = {}]
    /\ cur' = [cur EXCEPT ![w] = NoMission]
    /\ retryAt' = [retryAt EXCEPT ![w] = FALSE]
    /\ UNCHANGED <<missionVars, row, history>>

(* `?` in execute before the body (db.acquire, load_mission) or in the     *)
(* emits after the retry decision: run_mission returns None.               *)
RunnerError(w) ==
    /\ \/ pc[w] = "loading" /\ Fault("dispatch")
       \/ pc[w] = "emitting" /\ Fault("emit")
    /\ retryAt' = [retryAt EXCEPT ![w] = FALSE]
    /\ Goto(w, "closing")
    /\ UNCHANGED <<missionVars, row, batch, cur, history>>

(* retry_mission_if_possible fails part-way, which is only logged.  At the *)
(* cap its error report may already have resolved the mission.             *)
RetryHandlingFails(w) ==
    LET m == cur[w] IN
    /\ pc[w] = "failed"
    /\ Fault("retry")
    /\ \/ UNCHANGED status
       \/ /\ status[m] = "open" /\ OutOfAttempts(m)
          /\ status' = [status EXCEPT ![m] = "resolved"]
    /\ Goto(w, "emitting")
    /\ UNCHANGED <<attemps, row, batch, cur, retryAt, history>>

------------------------------------------------------------------------------
RunStep(w) ==
    \/ Load(w) \/ RunCommits(w) \/ RunFails(w)
    \/ RetryMissionIfPossible(w) \/ EmitAfterFailure(w)

WorkerStep(w) ==
    \/ PollOnce(w) \/ Claim(w) \/ LoseClaim(w)
    \/ RunStep(w)
    \/ RearmRow(w) \/ DeleteRow(w)

Next ==
    \/ \E m \in Mission : Register(m) \/ Cancel(m) \/ BecomeDue(m) \/ HeartbeatAges(m)
    \/ \E w \in Worker : WorkerStep(w) \/ Crash(w) \/ TickFails(w)
                         \/ RunnerError(w) \/ RetryHandlingFails(w)

Spec == Init /\ [][Next]_vars

(* The pollers loop for ever, and time passes for every row.               *)
Fairness ==
    /\ \A w \in Worker : WF_vars(WorkerStep(w))
    /\ \A m \in Mission :
          /\ WF_vars(BecomeDue(m))
          /\ WF_vars(HeartbeatAges(m) /\ UNCHANGED faults)

FairSpec == Spec /\ Fairness

------------------------------------------------------------------------------
(* A counted attempt leaves a retry to come: the row is re-armed, "deleting *)
(* would lose the retry" (poll_once).                                      *)
RetryIsKept ==
    \A m \in Mission :
        status[m] = "open" /\ attemps[m] > 1 => row[m].state # "none"

(* Every registered mission is eventually resolved or deleted.             *)
EveryMissionEnds == \A m \in Mission : status[m] = "open" ~> status[m] # "open"

(* The task of a finished mission is eventually cleared.                   *)
TasksAreCleared ==
    \A m \in Mission :
        status[m] \in {"resolved", "deleted"} ~> row[m].state = "none"
==============================================================================
