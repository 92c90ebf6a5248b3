-------------------------- MODULE BuildMissionProofs --------------------------
(***************************************************************************)
(* Proofs about BuildMission, for any clients, workers, planets, kinds of  *)
(* unit, prices, limits and number of faults.                              *)
(***************************************************************************)
EXTENDS BuildMission, TableTheorems

Orders == BuildOrders \cup [type : {"LEVEL_UP"}, level : Nat]

(* A missions row; whether a price is a number is of no consequence here.  *)
Row == [order : Orders, paid : {UpgradeCost} \cup {Price(o) : o \in Orders},
        state : {"open", "resolved", "deleted"}, attemps : Nat,
        task : {"none", "armed", "picked"}, refunds : Nat, landed : BOOLEAN]

Places ==
    {"idle", "ordered", "registering", "cancelling", "loading", "locking", "running",
     "failed", "resolving", "dropping", "deleting", "rearming", "closing", "leaving"}

(* Who works on a mission has one.                                         *)
AtWork ==
    /\ \A w \in Worker : pc[w] # "idle" => cur[w] # 0
    /\ \A c \in Client : pc[c] = "cancelling" => cur[c] # 0

Typed ==
    /\ mission \in Seq(Row) /\ level \in Nat
    /\ DOMAIN lock = Key /\ DOMAIN order = Process
    /\ pc \in [Process -> Places]
    /\ cur \in [Process -> MissionId \cup {0}]
    /\ AtWork
    /\ \A c \in Client : pc[c] \in {"ordered", "registering"} => order[c] \in Orders

(* The transaction of a registration has its locks, and what it checked    *)
(* still holds.                                                            *)
Checked ==
    \A c \in Client : pc[c] = "registering" =>
        /\ \A k \in KeysOf(order[c]) : lock[k] = c
        /\ ~Busy(order[c])

Researches == {m \in MissionId : ~IsBuild(m)}

Asked == Cardinality(Researches)

(* The levels asked for are numbered one by one.                           *)
Numbered ==
    /\ level <= Asked
    /\ \A m \in Researches : mission[m].order.level <= Asked
    /\ \A c \in Client : pc[c] = "registering" /\ order[c].type = "LEVEL_UP" =>
          order[c].level <= Asked + 1

------------------------------------------------------------------------------
(* Missions keep what was ordered, and close for good.                     *)
Onward ==
    /\ mission' \in Seq(Row) /\ Len(mission') = Len(mission)
    /\ \A m \in MissionId :
          /\ mission'[m].order = mission[m].order
          /\ mission'[m].state = "open" => mission[m].state = "open"
          /\ mission[m].state = "deleted" => mission'[m].state = "deleted"

(* UPDATE of one row that keeps its order moves the table onward.          *)
LEMMA OneUpdated ==
    ASSUME mission \in Seq(Row), NEW m \in MissionId, NEW r \in Row,
           r.order = mission[m].order,
           r.state = "open" => mission[m].state = "open",
           mission[m].state = "deleted" => r.state = "deleted",
           mission' = [mission EXCEPT ![m] = r]
    PROVE  Onward
  BY DEF Onward, MissionId

(* A table that stays as it is goes on.                                    *)
LEMMA Unchanged == ASSUME mission \in Seq(Row), UNCHANGED mission PROVE Onward
  BY DEF Onward, MissionId

(* The first of the research missions, if there is one, is a row.          *)
LEMMA SomeResearch ==
    ASSUME mission \in Seq(Row), LevelUpMission # {}
    PROVE  Min(LevelUpMission) \in MissionId
<1> DEFINE S == LevelUpMission
<1>1. S \subseteq MissionId /\ MissionId \subseteq Nat
  BY DEF LevelUpMission, MissionId
<1>2. PICK x \in S : \A y \in S : <<y, x>> \notin OpToRel(<, Nat)
  BY <1>1, WFMin, NatLessThanWellFounded, Zenon
<1>3. \A y \in S : x <= y
  <2>1. \A y \in S : ~(y < x)
    BY <1>1, <1>2, Zenon DEF OpToRel
  <2> QED
    BY <1>1, <2>1
<1>4. Min(S) \in S
  BY <1>3 DEF Min
<1> QED
  BY <1>1, <1>4

(* What a refund, a delivery and the statements of a run write.            *)
LEMMA RefundOnward ==
    ASSUME mission \in Seq(Row), NEW m \in MissionId, Refund(m)
    PROVE  Onward
<1> DEFINE q == [mission[m] EXCEPT !.state = "deleted"]
           r == [mission[m] EXCEPT !.state = "deleted", !.task = "none", !.refunds = @ + 1]
<1>1. mission[m] \in Row
  BY DEF MissionId
<1>2. r \in Row /\ r.order = mission[m].order /\ r.state = "deleted"
  <2>1. q \in Row /\ q.order = mission[m].order /\ q.state = "deleted" /\ q.refunds = mission[m].refunds
    BY <1>1 DEF Row
  <2>2. r = [[q EXCEPT !.task = "none"] EXCEPT !.refunds = q.refunds + 1]
    BY <2>1
  <2> HIDE DEF q, r
  <2>3. [q EXCEPT !.task = "none"] \in Row /\ [q EXCEPT !.task = "none"].order = q.order
        /\ [q EXCEPT !.task = "none"].state = q.state
    BY <2>1 DEF Row
  <2> DEFINE p == [q EXCEPT !.task = "none"]
  <2> HIDE DEF p
  <2>4. r = [p EXCEPT !.refunds = q.refunds + 1]
    BY <2>2 DEF p
  <2>5. q.refunds + 1 \in Nat
    BY SMTT(60), <2>1 DEF Row
  <2>6. p \in Row /\ p.order = mission[m].order /\ p.state = "deleted"
    BY <2>1, <2>3 DEF p
  <2> QED
    BY <2>4, <2>5, <2>6 DEF Row
<1>3. mission' = [mission EXCEPT ![m] = r]
  BY DEF Refund, MissionId
<1> QED
  BY <1>2, <1>3, OneUpdated

(* The delivery of a mission marks it.                                     *)
LEMMA DeliveryOnward ==
    ASSUME mission \in Seq(Row), NEW m \in MissionId, mission' = Delivered(m)
    PROVE  Onward
<1> DEFINE r == [mission[m] EXCEPT !.state = "deleted", !.landed = TRUE]
<1>1. mission[m] \in Row
  BY DEF MissionId
<1>2. r \in Row /\ r.order = mission[m].order /\ r.state = "deleted"
  BY <1>1 DEF Row
<1>3. mission' = [mission EXCEPT ![m] = r]
  BY DEF Delivered, MissionId
<1> QED
  BY <1>2, <1>3, OneUpdated

(* The steps on the task table touch no mission.                           *)
LEMMA TaskOnward ==
    ASSUME mission \in Seq(Row), NEW m \in MissionId, NEW t \in {"none", "armed", "picked"},
           mission' = [mission EXCEPT ![m].task = t]
    PROVE  Onward
<1> DEFINE r == [mission[m] EXCEPT !.task = t]
<1>1. mission[m] \in Row
  BY DEF MissionId
<1>2. r \in Row /\ r.order = mission[m].order /\ r.state = mission[m].state
  BY <1>1 DEF Row
<1>3. mission' = [mission EXCEPT ![m] = r]
  BY DEF MissionId
<1> QED
  BY <1>2, <1>3, OneUpdated

(* The steps that resolve or delete a mission.                             *)
LEMMA StateOnward ==
    ASSUME mission \in Seq(Row), NEW m \in MissionId, NEW t \in {"resolved", "deleted"},
           mission[m].state = "deleted" => t = "deleted",
           mission' = [mission EXCEPT ![m].state = t]
    PROVE  Onward
<1> DEFINE r == [mission[m] EXCEPT !.state = t]
<1>1. mission[m] \in Row
  BY DEF MissionId
<1>2. r \in Row /\ r.order = mission[m].order /\ r.state = t
  BY <1>1 DEF Row
<1>3. mission' = [mission EXCEPT ![m] = r]
  BY DEF MissionId
<1> QED
  BY <1>2, <1>3, OneUpdated

(* Every step but the commit of a registration.                            *)
Commit == \E c \in Client : CommitRegister(c)

(* Every step moves the table onward.                                      *)
LEMMA NextOnward ==
    ASSUME Typed, [Next]_vars
    PROVE  Onward \/ Commit
<1> USE ProcessAssumption DEF Process
<1>1. /\ mission \in Seq(Row)
      /\ \A w \in Worker : pc[w] # "idle" => cur[w] \in MissionId
      /\ \A c \in Client : pc[c] = "cancelling" => cur[c] \in MissionId
      /\ cur[Rival] # 0 => cur[Rival] \in MissionId
  BY DEF Typed, AtWork
<1>2. CASE UNCHANGED mission
  BY <1>1, <1>2, Unchanged
<1>3. ASSUME NEW c \in Client, ClientStep(c), ~UNCHANGED mission
      PROVE  Onward \/ Commit
  <2>1. CASE CommitCancel(c)
    BY <1>1, <2>1, RefundOnward DEF CommitCancel
  <2>2. CASE CommitRegister(c)
    BY <2>2 DEF Commit
  <2> QED
    BY <1>3, <2>1, <2>2 DEF ClientStep, AskBuild, AskLevelUp, AskFor, BeginRegister, Refuse,
       BeginCancelBuild, BeginCancelLevelUp, BeginLeave, CommitLeave, rows
<1>4. ASSUME NEW w \in Worker, WorkerStep(w), ~UNCHANGED mission
      PROVE  Onward
  <2>1. CASE Claim(w)
    BY <1>1, <2>1, TaskOnward DEF Claim
  <2>2. CASE ProcessBuildUnit(w)
    BY <1>1, <2>2, DeliveryOnward DEF ProcessBuildUnit
  <2>3. CASE ProcessLevelUp(w)
    BY <1>1, <2>3, DeliveryOnward DEF ProcessLevelUp
  <2>4. CASE RetryMissionIfPossible(w)
    <3> DEFINE m == cur[w]
               r == [mission[m] EXCEPT !.attemps = @ + 1]
    <3>1. m \in MissionId /\ mission[m] \in Row
      BY <1>1, <2>4 DEF RetryMissionIfPossible, MissionId
    <3>2. r \in Row /\ r.order = mission[m].order /\ r.state = mission[m].state
      BY <3>1 DEF Row
    <3>3. mission' = [mission EXCEPT ![m] = r]
      BY <1>4, <2>4 DEF RetryMissionIfPossible
    <3> QED
      BY <1>1, <3>1, <3>2, <3>3, OneUpdated
  <2>5. CASE ReportError(w)
    <3> DEFINE m == cur[w]
               t == IF mission[m].state = "deleted" THEN "deleted" ELSE "resolved"
    <3>1. m \in MissionId
      BY <1>1, <2>5 DEF ReportError
    <3>2. mission' = [mission EXCEPT ![m].state = t]
      BY <2>5 DEF ReportError
    <3> QED
      BY <1>1, <3>1, <3>2, StateOnward
  <2>6. CASE DeleteMission(w)
    BY <1>1, <2>6, StateOnward DEF DeleteMission
  <2>7. CASE Rearm(w)
    <3> DEFINE m == cur[w]
               t == IF mission[m].task = "none" THEN "none" ELSE "armed"
    <3>1. m \in MissionId
      BY <1>1, <2>7 DEF Rearm
    <3>2. mission' = [mission EXCEPT ![m].task = t]
      BY <2>7 DEF Rearm
    <3> QED
      BY <1>1, <3>1, <3>2, TaskOnward
  <2>8. CASE Close(w)
    BY <1>1, <2>8, TaskOnward DEF Close
  <2> QED
    BY <1>4, <2>1, <2>2, <2>3, <2>4, <2>5, <2>6, <2>7, <2>8 DEF WorkerStep, Load, BeginRun,
       NothingToProcess, RunFails, GiveUp, DropUnits, rows
<1>5. CASE BeginConquest
  BY <1>2, <1>5 DEF BeginConquest, rows
<1>6. CASE CommitConquest
  BY <1>1, <1>2, <1>6, RefundOnward DEF CommitConquest
<1>7. ASSUME NEW x \in Process, Stops(x)
      PROVE  UNCHANGED mission
  BY <1>7 DEF Stops, rows
<1>8. CASE UNCHANGED vars
  BY <1>2, <1>8 DEF vars, rows
<1> QED
  BY <1>2, <1>3, <1>4, <1>5, <1>6, <1>7, <1>8 DEF Next

(* The mission a registration appends.                                     *)
LEMMA CommitAppends ==
    ASSUME Typed, NEW c \in Client, CommitRegister(c)
    PROVE  /\ mission' \in Seq(Row) /\ Len(mission') = Len(mission) + 1
           /\ MissionId' = MissionId \cup {Len(mission) + 1}
           /\ \A m \in MissionId : mission'[m] = mission[m]
           /\ mission'[Len(mission) + 1] = NewMission(order[c])
           /\ MissionId = 1 .. Len(mission) /\ Len(mission) \in Nat
<1> DEFINE o == order[c]
<1>1. o \in Orders
  BY DEF Typed, CommitRegister
<1>2. Price(o) \in {Price(q) : q \in Orders}
  BY <1>1
<1>3. NewMission(o) \in Row
  BY <1>1, <1>2 DEF NewMission, Row
<1>4. mission \in Seq(Row) /\ mission' = Append(mission, NewMission(o))
  BY DEF Typed, CommitRegister
<1> HIDE DEF o
<1> QED
  BY <1>3, <1>4, AppendProperties DEF MissionId, o

(* The types hold at first.                                                *)
LEMMA InitTyped == Init => Typed
<1> SUFFICES ASSUME Init PROVE Typed
  OBVIOUS
<1> USE ProcessAssumption DEF Process
<1> DEFINE first == [order |-> [type |-> "LEVEL_UP", level |-> 1], paid |-> UpgradeCost,
                     state |-> "open", attemps |-> 1, task |-> "armed",
                     refunds |-> 0, landed |-> FALSE]
<1>1. first \in Row
  BY DEF Row, Orders
<1>2. mission = <<first>>
  BY DEF Init
<1>3. mission \in Seq(Row)
  BY <1>1, <1>2
<1> QED
  BY <1>3 DEF Init, Typed, AtWork, Places

(* One process moves; the others stay where they are.                      *)
Orderly(x) == DOMAIN order' = Process /\ \A y \in Process \ {x} : order'[y] = order[y]

Moved(x, place, m) ==
    /\ x \in Process /\ place \in Places /\ m \in MissionId \cup {0}
    /\ Orderly(x)
    /\ pc' = [pc EXCEPT ![x] = place] /\ cur' = [cur EXCEPT ![x] = m]
    /\ x \in Worker /\ place # "idle" => m # 0
    /\ x \in Client /\ place = "cancelling" => m # 0
    /\ x \in Client /\ place \in {"ordered", "registering"} => order'[x] \in Orders

(* Every action keeps the types.                                           *)
LEMMA StepTyped ==
    ASSUME Typed, NEW x, NEW place, NEW m, Moved(x, place, m),
           mission' \in Seq(Row), MissionId \subseteq MissionId', level' \in Nat,
           DOMAIN lock' = Key
    PROVE  Typed'
<1> USE DEF Moved
<1> USE ProcessAssumption DEF Process
<1>1. pc \in [Process -> Places] /\ cur \in [Process -> MissionId \cup {0}] /\ AtWork
  BY DEF Typed
<1>2. pc' \in [Process -> Places]
  BY <1>1
<1>3. cur' \in [Process -> MissionId \cup {0}]
  BY <1>1
<1>4. cur' \in [Process -> MissionId' \cup {0}]
  BY <1>3
<1>5. pc'[x] = place /\ cur'[x] = m
  BY <1>1
<1>6. \A y \in Process \ {x} : pc'[y] = pc[y] /\ cur'[y] = cur[y]
  BY <1>1
<1>7. AtWork'
  BY <1>1, <1>5, <1>6 DEF AtWork
<1>8. ASSUME NEW c \in Client, pc'[c] \in {"ordered", "registering"}
      PROVE  order'[c] \in Orders
  <2>1. CASE c = x
    BY <1>5, <1>8, <2>1
  <2>2. CASE c # x
    BY <1>6, <1>8, <2>2 DEF Orderly, Typed
  <2> QED
    BY <2>1, <2>2
<1> QED
  BY <1>2, <1>4, <1>7, <1>8 DEF Typed, Orderly, Orders, BuildOrders

(* Every step keeps the types.                                             *)
LEMMA NextTyped ==
    ASSUME Typed, [Next]_vars
    PROVE  Typed'
<1> USE ProcessAssumption DEF Process
<1>1. mission \in Seq(Row) /\ MissionId \subseteq Nat /\ 0 \notin MissionId
  BY DEF Typed, MissionId
<1>2. /\ mission' \in Seq(Row)
      /\ MissionId \subseteq MissionId'
  <2>1. CASE Onward
    BY <1>1, <2>1 DEF Onward, MissionId
  <2>2. CASE Commit
    BY <2>2, CommitAppends DEF Commit
  <2> QED
    BY <2>1, <2>2, NextOnward
<1> DEFINE Locks == DOMAIN lock' = Key
<1>0. level \in Nat /\ DOMAIN order = Process /\ pc \in [Process -> Places]
      /\ cur \in [Process -> MissionId \cup {0}]
  BY DEF Typed
<1>3. ASSUME NEW x \in Process, Rest(x), level' \in Nat, Locks
      PROVE  Typed'
  <2>1. Orderly(x)
    BY <1>0, <1>3 DEF Rest, Orderly
  <2>2. pc' = [pc EXCEPT ![x] = "idle"] /\ cur' = [cur EXCEPT ![x] = 0]
    BY <1>3 DEF Rest, Goto
  <2>3. Moved(x, "idle", 0)
    BY <2>1, <2>2, ProcessAssumption DEF Moved, Places
  <2> QED
    BY <1>2, <1>3, <2>3, StepTyped
<1>4. ASSUME NEW x \in Process, NEW place \in Places, Goto(x, place), UNCHANGED <<cur, order>>,
             level' \in Nat, Locks, cur[x] # 0,
             x \in Client => place \notin {"ordered", "registering"}
      PROVE  Typed'
  <2>1. cur' = [cur EXCEPT ![x] = cur[x]] /\ cur[x] \in MissionId \cup {0}
    BY <1>0, <1>4
  <2>2. Orderly(x)
    BY <1>0, <1>4 DEF Orderly
  <2>3. Moved(x, place, cur[x])
    BY <1>4, <2>1, <2>2 DEF Moved, Goto
  <2> QED
    BY <1>2, <1>4, <2>3, StepTyped
<1>5. ASSUME NEW x \in Process, Drop(x) PROVE Locks
  BY <1>5 DEF Drop
<1>6. ASSUME NEW x \in Process, NEW K, Take(x, K) PROVE Locks
  BY <1>6 DEF Take
<1>7. ASSUME UNCHANGED lock PROVE Locks
  BY <1>7 DEF Typed
<1> HIDE DEF Locks
<1>8. ASSUME NEW c \in Client, ClientStep(c)
      PROVE  Typed'
  <2>1. CASE AskBuild(c) \/ AskLevelUp(c)
    <3>1. PICK o \in Orders : AskFor(c, o)
      BY <2>1 DEF AskBuild, AskLevelUp, Orders
    <3>2. Locks
      BY <3>1, <1>7 DEF AskFor
    <3>3. Orderly(c) /\ order'[c] = o
      BY <1>0, <3>1 DEF AskFor, Orderly
    <3>4. cur' = [cur EXCEPT ![c] = cur[c]] /\ cur[c] \in MissionId \cup {0}
      BY <1>0, <3>1 DEF AskFor
    <3>5. pc' = [pc EXCEPT ![c] = "ordered"] /\ level' = level
      BY <3>1 DEF AskFor, Goto, rows
    <3>6. Moved(c, "ordered", cur[c])
      BY <3>3, <3>4, <3>5 DEF Moved, Places
    <3> QED
      BY <3>2, <3>5, <3>6, <1>0, <1>2, StepTyped DEF Locks
  <2>2. CASE BeginRegister(c)
    <3> DEFINE o == IF order[c].type = "LEVEL_UP" THEN NextLevel ELSE order[c]
    <3>1. o \in Orders
      BY <2>2 DEF BeginRegister, NextLevel, Orders, Typed
    <3>2. Locks
      BY <2>2, <1>6 DEF BeginRegister
    <3>3. Orderly(c) /\ order'[c] = o
      BY <1>0, <2>2 DEF BeginRegister, Orderly
    <3>4. cur' = [cur EXCEPT ![c] = cur[c]] /\ cur[c] \in MissionId \cup {0}
      BY <1>0, <2>2 DEF BeginRegister
    <3>5. pc' = [pc EXCEPT ![c] = "registering"] /\ level' = level
      BY <2>2 DEF BeginRegister, Goto, rows
    <3> HIDE DEF o
    <3>6. Moved(c, "registering", cur[c])
      BY <3>1, <3>3, <3>4, <3>5 DEF Moved, Places
    <3> QED
      BY <3>2, <3>5, <3>6, <1>0, <1>2, StepTyped DEF Locks
  <2>3. CASE Refuse(c)
    BY <2>3, <1>0, <1>3, <1>7 DEF Refuse, rows
  <2>4. CASE CommitRegister(c)
    BY <2>4, <1>0, <1>3, <1>5 DEF CommitRegister
  <2>5. CASE BeginCancelBuild(c) \/ BeginCancelLevelUp(c)
    <3>1. PICK m \in MissionId : cur' = [cur EXCEPT ![c] = m]
      BY <2>5, <1>1, SomeResearch DEF BeginCancelBuild, BeginCancelLevelUp
    <3>2. Locks
      BY <2>5, <1>7 DEF BeginCancelBuild, BeginCancelLevelUp
    <3>3. Orderly(c) /\ level' = level /\ pc' = [pc EXCEPT ![c] = "cancelling"]
      BY <1>0, <2>5 DEF BeginCancelBuild, BeginCancelLevelUp, Orderly, Goto, rows
    <3>4. Moved(c, "cancelling", m)
      BY <3>1, <3>2, <3>3, <1>1 DEF Moved, Places
    <3> QED
      BY <3>2, <3>3, <3>4, <1>0, <1>2, StepTyped DEF Locks
  <2>6. CASE CommitCancel(c)
    BY <2>6, <1>0, <1>3, <1>7 DEF CommitCancel
  <2>7. CASE BeginLeave(c)
    <3>1. Locks
      BY <2>7, <1>7 DEF BeginLeave
    <3>2. Orderly(c) /\ level' = level /\ pc' = [pc EXCEPT ![c] = "leaving"]
      BY <1>0, <2>7 DEF BeginLeave, Orderly, Goto, rows
    <3>3. cur' = [cur EXCEPT ![c] = cur[c]] /\ cur[c] \in MissionId \cup {0}
      BY <1>0, <2>7 DEF BeginLeave
    <3>4. Moved(c, "leaving", cur[c])
      BY <3>1, <3>2, <3>3, <1>1 DEF Moved, Places
    <3> QED
      BY <3>1, <3>2, <3>4, <1>0, <1>2, StepTyped DEF Locks
  <2>8. CASE CommitLeave(c)
    BY <2>8, <1>0, <1>3, <1>7 DEF CommitLeave
  <2> QED
    BY <1>8, <2>1, <2>2, <2>3, <2>4, <2>5, <2>6, <2>7, <2>8 DEF ClientStep
<1>9. ASSUME NEW w \in Worker, WorkerStep(w)
      PROVE  Typed'
  <2>1. CASE Claim(w)
    <3>1. Locks
      BY <2>1, <1>7 DEF Claim
    <3>2. PICK m \in MissionId : cur' = [cur EXCEPT ![w] = m]
      BY <2>1 DEF Claim
    <3>3. Orderly(w) /\ level' = level /\ pc' = [pc EXCEPT ![w] = "loading"]
      BY <1>0, <2>1 DEF Claim, Orderly, Goto
    <3>4. Moved(w, "loading", m)
      BY <3>1, <3>2, <3>3, <1>1 DEF Moved, Places
    <3> QED
      BY <3>1, <3>3, <3>4, <1>0, <1>2, StepTyped DEF Locks
  <2>2. CASE Load(w) \/ BeginRun(w) \/ ProcessBuildUnit(w) \/ NothingToProcess(w)
             \/ RunFails(w) \/ RetryMissionIfPossible(w) \/ GiveUp(w)
    <3>1. Locks
      BY <2>2, <1>5, <1>6, <1>7 DEF Load, BeginRun, ProcessBuildUnit, NothingToProcess,
         RunFails, RetryMissionIfPossible, GiveUp, ReportError, DropUnits, DeleteMission
    <3>2. cur[w] # 0
      BY <2>2 DEF Load, BeginRun, ProcessBuildUnit, NothingToProcess,
         RunFails, RetryMissionIfPossible, GiveUp, ReportError, DropUnits, DeleteMission, Typed, AtWork
    <3>3. UNCHANGED <<cur, order, level>>
      BY <2>2 DEF Load, BeginRun, ProcessBuildUnit, NothingToProcess, rows, locals,
         RunFails, RetryMissionIfPossible, GiveUp, ReportError, DropUnits, DeleteMission
    <3>4. PICK place \in Places : Goto(w, place)
      <4>1. "locking" \in Places /\ "closing" \in Places /\ "running" \in Places
            /\ "failed" \in Places /\ "rearming" \in Places /\ "resolving" \in Places
            /\ "dropping" \in Places /\ "deleting" \in Places
        BY DEF Places
      <4>2. CASE Load(w) \/ ReportError(w)
        BY <4>1, <4>2 DEF Load, ReportError
      <4>3. CASE RetryMissionIfPossible(w)
        BY <4>1, <4>3 DEF RetryMissionIfPossible
      <4> QED
        BY <2>2, <4>1, <4>2, <4>3 DEF BeginRun, ProcessBuildUnit, NothingToProcess,
           RunFails, GiveUp, DropUnits, DeleteMission
    <3> QED
      BY <3>1, <3>2, <3>3, <3>4, <1>0, <1>4
  <2>3. CASE ProcessLevelUp(w)
    <3>1. Locks
      BY <2>3, <1>7 DEF ProcessLevelUp
    <3>2. cur[w] \in MissionId
      BY <2>3 DEF ProcessLevelUp, Typed, AtWork
    <3>3. mission[cur[w]].order \in Orders
      <4>1. mission[cur[w]] \in Row
        BY <3>2, <1>1 DEF MissionId
      <4> QED
        BY <4>1 DEF Row
    <3>4. level' \in Nat
      BY <2>3, <3>3 DEF ProcessLevelUp, IsBuild, Orders, BuildOrders
    <3> QED
      BY <2>3, <3>1, <3>2, <3>4, <1>1, <1>4 DEF ProcessLevelUp, locals, Places
  <2>4. CASE Rearm(w) \/ Close(w)
    BY <2>4, <1>0, <1>3, <1>7 DEF Rearm, Close
  <2> QED
    BY <1>9, <2>1, <2>2, <2>3, <2>4 DEF WorkerStep
<1>10. CASE BeginConquest
  <2>1. Locks
    BY <1>6, <1>10 DEF BeginConquest
  <2>2. PICK p \in mine \ {Home} :
           LET builds == {m \in MissionId : /\ IsBuild(m) /\ mission[m].state = "open"
                                            /\ mission[m].order.planet = p}
           IN  /\ order' = [order EXCEPT ![Rival] = [type |-> "CONQUEST", planet |-> p]]
               /\ cur' = [cur EXCEPT ![Rival] = IF builds = {} THEN 0
                                                ELSE CHOOSE m \in builds : TRUE]
    BY <1>10 DEF BeginConquest
  <2>3. PICK m \in MissionId \cup {0} : cur' = [cur EXCEPT ![Rival] = m]
    BY <2>2
  <2>4. Orderly(Rival) /\ level' = level /\ pc' = [pc EXCEPT ![Rival] = "running"]
    BY <1>0, <1>10, <2>2 DEF BeginConquest, Orderly, Goto, rows
  <2>5. Moved(Rival, "running", m)
    BY <2>3, <2>4 DEF Moved, Places
  <2> QED
    BY <2>1, <2>4, <2>5, <1>0, <1>2, StepTyped DEF Locks
<1>11. CASE CommitConquest
  BY <1>0, <1>3, <1>5, <1>11 DEF CommitConquest
<1>12. ASSUME NEW x \in Process, Stops(x)
       PROVE  Typed'
  BY <1>0, <1>3, <1>5, <1>12 DEF Stops, rows
<1>13. CASE UNCHANGED vars
  BY <1>13, <1>1, <1>2 DEF vars, rows, locals, Typed, AtWork
<1> QED
  BY <1>8, <1>9, <1>10, <1>11, <1>12, <1>13 DEF Next

------------------------------------------------------------------------------
(* A step leaves every other request its order, its place and its locks.   *)
Undisturbed(d) ==
    /\ order'[d] = order[d] /\ pc'[d] = pc[d]
    /\ \A k \in Key : lock[k] = d => lock'[k] = d

Moves(x) ==
    /\ \A d \in Client \ {x} : Undisturbed(d)
    /\ x \in Client => pc'[x] # "registering" \/ BeginRegister(x)

(* Releasing locks takes none of another process.                          *)
LEMMA DropKeeps ==
    ASSUME NEW x, NEW d, d # x, Drop(x)
    PROVE  \A k \in Key : lock[k] = d => lock'[k] = d
  BY DEF Drop

(* Taking free locks takes none of another process.                        *)
LEMMA TakeKeeps ==
    ASSUME NEW x, NEW d, d # Nobody, NEW K, LocksFree(K), Take(x, K)
    PROVE  \A k \in Key : lock[k] = d => lock'[k] = d
  BY DEF Take, LocksFree

(* One process moves, the others stay where they are.                      *)
LEMMA OneMoves ==
    ASSUME Typed, [Next]_vars
    PROVE  \E x \in Process : Moves(x)
<1> USE ProcessAssumption DEF Process
<1>1. pc \in [Process -> Places] /\ DOMAIN order = Process /\ Client \subseteq Process \ {Nobody}
  BY DEF Typed
<1>2. ASSUME NEW x \in Process, Rest(x), Drop(x) \/ UNCHANGED lock
      PROVE  Moves(x)
  <2>1. \A d \in Client \ {x} : order'[d] = order[d] /\ pc'[d] = pc[d]
    BY <1>1, <1>2 DEF Rest, Goto
  <2>2. x \in Client => pc'[x] = "idle"
    BY <1>1, <1>2 DEF Rest, Goto
  <2>3. \A d \in Client \ {x} : \A k \in Key : lock[k] = d => lock'[k] = d
    BY <1>2, DropKeeps
  <2> QED
    BY <2>1, <2>2, <2>3 DEF Moves, Undisturbed
<1>3. ASSUME NEW x \in Process \ Client, NEW place, Goto(x, place),
             \A d \in Client : order'[d] = order[d],
             \A d \in Client : \A k \in Key : lock[k] = d => lock'[k] = d
      PROVE  Moves(x)
  BY <1>1, <1>3 DEF Moves, Undisturbed, Goto
<1>4. ASSUME NEW c \in Client, NEW place, place # "registering", Goto(c, place),
             \A d \in Client \ {c} : order'[d] = order[d], UNCHANGED lock
      PROVE  Moves(c)
  BY <1>1, <1>4 DEF Moves, Undisturbed, Goto
<1>5. ASSUME NEW c \in Client, ClientStep(c)
      PROVE  Moves(c)
  <2>1. CASE AskBuild(c) \/ AskLevelUp(c)
    <3>1. PICK o : AskFor(c, o)
      BY <2>1 DEF AskBuild, AskLevelUp
    <3>2. Goto(c, "ordered") /\ UNCHANGED lock /\ \A d \in Client \ {c} : order'[d] = order[d]
      BY <1>1, <3>1 DEF AskFor
    <3> QED
      BY <3>2, <1>4
  <2>2. CASE BeginRegister(c)
    <3> DEFINE o == IF order[c].type = "LEVEL_UP" THEN NextLevel ELSE order[c]
    <3>1. LocksFree(KeysOf(o)) /\ Take(c, KeysOf(o)) /\ order' = [order EXCEPT ![c] = o]
          /\ Goto(c, "registering")
      BY <2>2 DEF BeginRegister
    <3> HIDE DEF o
    <3>2. \A d \in Client \ {c} : order'[d] = order[d] /\ pc'[d] = pc[d]
      BY <1>1, <3>1 DEF Goto
    <3>3. \A d \in Client \ {c} : \A k \in Key : lock[k] = d => lock'[k] = d
      BY <1>1, <3>1, TakeKeeps
    <3> QED
      BY <2>2, <3>2, <3>3 DEF Moves, Undisturbed
  <2>3. CASE Refuse(c) \/ CommitRegister(c) \/ CommitCancel(c) \/ CommitLeave(c)
    BY <2>3, <1>2 DEF Refuse, CommitRegister, CommitCancel, CommitLeave
  <2>4. CASE BeginCancelBuild(c) \/ BeginCancelLevelUp(c)
    BY <2>4, <1>4 DEF BeginCancelBuild, BeginCancelLevelUp
  <2>5. CASE BeginLeave(c)
    <3>1. \A d \in Client \ {c} : order'[d] = order[d]
      BY <1>1, <2>5 DEF BeginLeave
    <3> QED
      BY <3>1, <2>5, <1>4 DEF BeginLeave
  <2> QED
    BY <1>5, <2>1, <2>2, <2>3, <2>4, <2>5 DEF ClientStep
<1>6. ASSUME NEW w \in Worker, WorkerStep(w)
      PROVE  Moves(w)
  <2>0. \A d \in Client : d # w
    OBVIOUS
  <2>1. CASE Rearm(w) \/ Close(w)
    BY <2>1, <1>2 DEF Rearm, Close
  <2>2. CASE Claim(w) \/ Load(w) \/ ProcessLevelUp(w) \/ RetryMissionIfPossible(w) \/ GiveUp(w)
    <3>1. UNCHANGED <<order, lock>> /\ \E place : Goto(w, place)
      BY <2>2 DEF Claim, Load, ProcessLevelUp, RetryMissionIfPossible, GiveUp, ReportError,
         DropUnits, DeleteMission, locals
    <3> QED
      BY <3>1, <1>3
  <2>3. CASE ProcessBuildUnit(w) \/ NothingToProcess(w) \/ RunFails(w)
    <3>1. UNCHANGED order /\ Drop(w) /\ \E place : Goto(w, place)
      BY <2>3 DEF ProcessBuildUnit, NothingToProcess, RunFails, locals
    <3> QED
      BY <2>0, <3>1, <1>3, DropKeeps
  <2>4. CASE BeginRun(w)
    <3>1. PICK K : LocksFree(K) /\ Take(w, K)
      BY <2>4 DEF BeginRun
    <3>2. UNCHANGED order /\ Goto(w, "running")
      BY <2>4 DEF BeginRun
    <3> QED
      BY <1>1, <3>1, <3>2, <1>3, TakeKeeps
  <2> QED
    BY <1>6, <2>1, <2>2, <2>3, <2>4 DEF WorkerStep
<1>7. CASE BeginConquest
  <2>1. \A d \in Client : order'[d] = order[d]
    BY <1>1, <1>7 DEF BeginConquest
  <2>2. LocksFree(mine) /\ Take(Rival, mine) /\ Goto(Rival, "running")
    BY <1>7 DEF BeginConquest
  <2> QED
    BY <1>1, <2>1, <2>2, <1>3, TakeKeeps
<1>8. CASE CommitConquest
  BY <1>2, <1>8 DEF CommitConquest
<1>9. ASSUME NEW x \in Process, Stops(x)
      PROVE  Moves(x)
  BY <1>2, <1>9 DEF Stops
<1>10. CASE UNCHANGED vars
  BY <1>10 DEF vars, locals, Moves, Undisturbed
<1> QED
  BY <1>5, <1>6, <1>7, <1>8, <1>9, <1>10 DEF Next

------------------------------------------------------------------------------
(* One build on a planet, one research: what a registration checked still  *)
(* holds at its commit, since no other one commits while it has its locks. *)
LEMMA KeysAreKeys ==
    ASSUME NEW o \in Orders
    PROVE  KeysOf(o) \subseteq Key /\ Me \in KeysOf(o)
  BY DEF Orders, BuildOrders, KeysOf, Key

(* No two registrations are past the lock: both would hold it.             *)
LEMMA OneCommits ==
    ASSUME Typed, Checked, NEW c \in Client, pc[c] = "registering"
    PROVE  \A d \in Client : pc[d] = "registering" => d = c
<1>1. lock[Me] = c
  BY KeysAreKeys DEF Typed, Checked
<1>2. ASSUME NEW d \in Client, pc[d] = "registering" PROVE lock[Me] = d
  BY <1>2, KeysAreKeys DEF Typed, Checked
<1> QED
  BY <1>1, <1>2

(* Steps that insert no mission leave free what was free.                  *)
LEMMA FreeStays ==
    ASSUME Typed, Onward, NEW d, ~Busy(order[d]), order'[d] = order[d]
    PROVE  ~Busy(order[d])'
  BY SMTT(60) DEF Busy, IsBuild, Exists, Onward, MissionId, Typed

(* OneAtATime, for the rows of two missions.                               *)
Built(q) == q.order.type = "BUILD_UNIT"

Apart(q, r) ==
    q.state = "open" /\ r.state = "open" /\ (Built(q) <=> Built(r)) =>
        Built(q) /\ q.order.planet # r.order.planet

(* Steps that insert no mission keep the missions apart.                   *)
LEMMA ApartStays ==
    ASSUME Typed, Onward, OneAtATime
    PROVE  OneAtATime'
<1>1. MissionId' = MissionId
  BY DEF Onward, MissionId, Typed
<1>2. \A m \in MissionId :
         /\ mission'[m].order = mission[m].order
         /\ mission'[m].state = "open" => mission[m].state = "open"
  BY DEF Onward
<1>3. \A m, n \in MissionId : m # n => Apart(mission[m], mission[n])
  BY DEF OneAtATime, Apart, Built, IsBuild
<1>4. ASSUME NEW m \in MissionId, NEW n \in MissionId, m # n
      PROVE  Apart(mission'[m], mission'[n])
  <2> DEFINE q == mission[m]
             r == mission[n]
             s == mission'[m]
             t == mission'[n]
  <2>1. /\ s.order = q.order /\ t.order = r.order
        /\ s.state = "open" => q.state = "open"
        /\ t.state = "open" => r.state = "open"
    BY <1>2, <1>4
  <2>2. Apart(q, r)
    BY <1>3, <1>4
  <2> HIDE DEF q, r, s, t
  <2>3. Apart(s, t)
    BY <2>1, <2>2 DEF Apart, Built
  <2> QED
    BY <2>3 DEF s, t
<1> QED
  BY <1>1, <1>4 DEF OneAtATime, Apart, Built, IsBuild

(* A registration that commits adds a mission apart from the open ones.    *)
LEMMA CommitApart ==
    ASSUME Typed, Checked, OneAtATime, NEW c \in Client, CommitRegister(c)
    PROVE  OneAtATime'
<1> DEFINE o == order[c]
           n == Len(mission) + 1
<1>1. /\ MissionId' = MissionId \cup {n} /\ n \notin MissionId
      /\ \A m \in MissionId : mission'[m] = mission[m]
      /\ mission'[n].order = o
  <2>1. /\ MissionId' = MissionId \cup {n} /\ mission'[n] = NewMission(o)
        /\ \A m \in MissionId : mission'[m] = mission[m]
        /\ MissionId = 1 .. Len(mission) /\ Len(mission) \in Nat
    BY CommitAppends
  <2>2. n \notin MissionId
    BY <2>1
  <2> HIDE DEF n, o
  <2>3. NewMission(o).order = o
    BY DEF NewMission
  <2> QED
    BY <2>1, <2>2, <2>3
<1>2. ~Busy(o) /\ o \in Orders
  BY DEF Checked, CommitRegister, Typed
<1> HIDE DEF o, n
<1>3. ASSUME NEW m \in MissionId
      PROVE  Apart(mission[m], mission'[n]) /\ Apart(mission'[n], mission[m])
  BY <1>1, <1>2 DEF Busy, IsBuild, Exists, Apart, Built, Orders, BuildOrders
<1>4. \A k, m \in MissionId : k # m => Apart(mission[k], mission[m])
  BY DEF OneAtATime, Apart, Built, IsBuild
<1>5. \A k, m \in MissionId' : k # m => Apart(mission'[k], mission'[m])
  BY <1>1, <1>3, <1>4
<1> QED
  BY <1>5 DEF OneAtATime, Apart, Built, IsBuild

(* What a registration checked still holds when it commits.                *)
LEMMA NextChecked ==
    ASSUME Typed, Checked, OneAtATime, [Next]_vars
    PROVE  Checked' /\ OneAtATime'
<1> USE ProcessAssumption DEF Process
<1>1. ASSUME NEW c \in Client, CommitRegister(c)
      PROVE  Checked' /\ OneAtATime'
  <2>1. pc[c] = "registering" /\ pc' = [pc EXCEPT ![c] = "idle"] /\ pc \in [Process -> Places]
    BY <1>1 DEF CommitRegister, Rest, Goto, Typed
  <2>2. \A d \in Client : pc'[d] # "registering"
    BY <2>1, OneCommits
  <2> QED
    BY <1>1, <2>2, CommitApart DEF Checked
<1>2. CASE Onward
  <2>1. PICK x \in Process : Moves(x)
    BY OneMoves
  <2>2. ASSUME NEW d \in Client, pc'[d] = "registering", d # x
        PROVE  (\A k \in KeysOf(order'[d]) : lock'[k] = d) /\ ~Busy(order[d])'
    <3>1. Undisturbed(d) /\ pc[d] = "registering" /\ order[d] \in Orders
      BY <2>1, <2>2 DEF Moves, Undisturbed, Typed
    <3>2. (\A k \in KeysOf(order[d]) : lock[k] = d) /\ ~Busy(order[d])
      BY <3>1 DEF Checked
    <3> QED
      BY <1>2, <3>1, <3>2, KeysAreKeys, FreeStays DEF Undisturbed
  <2>3. ASSUME NEW d \in Client, pc'[d] = "registering", d = x
        PROVE  (\A k \in KeysOf(order'[d]) : lock'[k] = d) /\ ~Busy(order[d])'
    <3> DEFINE o == IF order[d].type = "LEVEL_UP" THEN NextLevel ELSE order[d]
    <3>1. BeginRegister(d) /\ DOMAIN order = Process
      BY <2>1, <2>3 DEF Moves, Typed
    <3>2. o \in Orders
      BY <3>1 DEF BeginRegister, NextLevel, Orders, Typed
    <3>3. Take(d, KeysOf(o)) /\ ~Busy(o) /\ order'[d] = o /\ UNCHANGED mission
      BY <3>1 DEF BeginRegister, MayRegister, rows
    <3> HIDE DEF o
    <3>4. \A k \in KeysOf(o) : lock'[k] = d
      BY <3>2, <3>3, KeysAreKeys DEF Take
    <3>5. ~Busy(order[d])'
      BY <3>3 DEF Busy, IsBuild, Exists, MissionId
    <3> QED
      BY <3>3, <3>4, <3>5
  <2>4. Checked'
    BY <2>2, <2>3 DEF Checked
  <2> QED
    BY <1>2, <2>4, ApartStays
<1> QED
  BY <1>1, <1>2, NextOnward DEF Commit

(* One running build on a planet and one research of the user, whoever     *)
(* asks, cancels, completes, crashes or conquers meanwhile.                *)
THEOREM SpecOneAtATime == Spec => []OneAtATime
<1>1. Init => Typed /\ Checked /\ OneAtATime
  BY InitTyped, ProcessAssumption DEF Init, Checked, OneAtATime, MissionId, Process
<1>2. Typed /\ Checked /\ OneAtATime /\ [Next]_vars => (Typed /\ Checked /\ OneAtATime)'
  BY NextTyped, NextChecked
<1> QED
  BY <1>1, <1>2, PTL DEF Spec

------------------------------------------------------------------------------
(* A level is that of a mission, and missions are asked for one after the  *)
(* other: the lock of the user keeps the level a registration read current.*)
LEMMA ResearchesFinite ==
    ASSUME mission \in Seq(Row)
    PROVE  IsFiniteSet(Researches) /\ Asked \in Nat
<1>1. MissionId = 1 .. Len(mission) /\ Len(mission) \in Nat
  BY DEF MissionId
<1>2. IsFiniteSet(MissionId)
  BY <1>1, FS_Interval
<1>3. Researches \subseteq MissionId
  BY DEF Researches
<1> QED
  BY <1>2, <1>3, FS_Subset, FS_CardinalityType DEF Asked

(* The level of a research is a number.                                    *)
LEMMA ResearchLevel ==
    ASSUME mission \in Seq(Row), NEW m \in Researches
    PROVE  mission[m].order.level \in Nat
<1>1. mission[m] \in Row /\ mission[m].order.type # "BUILD_UNIT"
  BY DEF Researches, MissionId, IsBuild
<1>2. mission[m].order \in Orders
  BY <1>1 DEF Row
<1> QED
  BY <1>1, <1>2 DEF Orders, BuildOrders

(* The level a mission asks for is the next one.                           *)
LEMMA LevelOfMission ==
    ASSUME Typed, [Next]_vars
    PROVE  level' = level \/ \E m \in Researches : level' = mission[m].order.level
<1>1. ASSUME NEW w \in Worker, ProcessLevelUp(w)
      PROVE  cur[w] \in Researches /\ level' = mission[cur[w]].order.level
  BY <1>1, ProcessAssumption DEF ProcessLevelUp, Typed, AtWork, Researches, Process
<1>2. ASSUME NEW c \in Client, ClientStep(c) PROVE level' = level
  BY <1>2 DEF ClientStep, AskBuild, AskLevelUp, AskFor, BeginRegister, Refuse, CommitRegister,
     BeginCancelBuild, BeginCancelLevelUp, CommitCancel, BeginLeave, CommitLeave, rows
<1>3. ASSUME NEW w \in Worker, WorkerStep(w), ~ProcessLevelUp(w) PROVE level' = level
  BY <1>3 DEF WorkerStep, Claim, Load, BeginRun, ProcessBuildUnit, NothingToProcess, RunFails,
     RetryMissionIfPossible, GiveUp, ReportError, DropUnits, DeleteMission, Rearm, Close, rows
<1>4. BeginConquest \/ CommitConquest \/ (\E x \in Process : Stops(x)) \/ UNCHANGED vars
      => level' = level
  BY DEF BeginConquest, CommitConquest, Stops, rows, vars
<1> QED
  BY <1>1, <1>2, <1>3, <1>4 DEF Next

(* Steps that insert no mission keep the levels in order.                  *)
LEMMA OnwardNumbered ==
    ASSUME Typed, Numbered, Onward, [Next]_vars
    PROVE  Numbered'
<1> USE ProcessAssumption DEF Process
<1>1. mission \in Seq(Row) /\ MissionId' = MissionId
  BY DEF Typed, Onward, MissionId
<1>2. \A m \in MissionId : mission'[m].order = mission[m].order
  BY DEF Onward
<1>3. Researches' = Researches
  BY <1>1, <1>2 DEF Researches, IsBuild
<1>4. Asked' = Asked /\ Asked \in Nat
  BY <1>1, <1>3, ResearchesFinite DEF Asked
<1>5. \A m \in Researches : m \in MissionId
  BY DEF Researches
<1>6. (level <= Asked)'
  BY <1>4, LevelOfMission DEF Numbered
<1>7. \A m \in Researches : mission'[m].order.level <= Asked
  BY <1>2, <1>5 DEF Numbered
<1>8. PICK x \in Process : Moves(x)
  BY OneMoves
<1>9. ASSUME NEW c \in Client, pc'[c] = "registering", order'[c].type = "LEVEL_UP"
      PROVE  order'[c].level <= Asked + 1
  <2>1. CASE c # x
    BY <1>8, <1>9, <2>1 DEF Moves, Undisturbed, Numbered
  <2>2. CASE c = x
    <3>1. BeginRegister(c) /\ DOMAIN order = Process /\ level \in Nat
      BY <1>8, <1>9, <2>2 DEF Moves, Typed
    <3>2. order'[c] = IF order[c].type = "LEVEL_UP" THEN NextLevel ELSE order[c]
      BY <3>1 DEF BeginRegister
    <3>3. order'[c].level = level + 1
      BY <1>9, <3>2 DEF NextLevel
    <3> QED
      BY <1>4, <3>1, <3>3 DEF Numbered
  <2> QED
    BY <2>1, <2>2
<1> QED
  BY <1>3, <1>4, <1>6, <1>7, <1>9 DEF Numbered

(* A registration that commits keeps the levels in order.                  *)
LEMMA CommitNumbered ==
    ASSUME Typed, Checked, Numbered, NEW c \in Client, CommitRegister(c)
    PROVE  Numbered'
<1> USE ProcessAssumption DEF Process
<1> DEFINE o == order[c]
           n == Len(mission) + 1
<1>1. /\ MissionId' = MissionId \cup {n} /\ mission'[n] = NewMission(o)
      /\ \A m \in MissionId : mission'[m] = mission[m]
      /\ MissionId = 1 .. Len(mission) /\ Len(mission) \in Nat
  BY CommitAppends
<1>2. mission \in Seq(Row) /\ pc[c] = "registering" /\ o \in Orders /\ UNCHANGED level
  BY DEF Typed, CommitRegister
<1>3. \A d \in Client : pc'[d] # "registering"
  <2>1. pc' = [pc EXCEPT ![c] = "idle"] /\ pc \in [Process -> Places]
    BY DEF CommitRegister, Rest, Goto, Typed
  <2> QED
    BY <1>2, <2>1, OneCommits
<1>4. IsFiniteSet(Researches) /\ Asked \in Nat
  BY <1>2, ResearchesFinite
<1>5. NewMission(o).order = o
  BY DEF NewMission
<1>6. n \notin MissionId
  BY <1>1
<1>7. level \in Nat /\ level <= Asked
  BY DEF Typed, Numbered
<1>8. o.type = "LEVEL_UP" => o.level <= Asked + 1 /\ o.level \in Nat
  BY <1>2 DEF Numbered, Orders, BuildOrders
<1>9. \A m \in Researches : mission[m].order.level <= Asked /\ mission[m].order.level \in Nat
  BY <1>2, ResearchLevel DEF Numbered
<1> HIDE DEF o, n
<1>10. CASE o.type = "BUILD_UNIT"
  <2>1. Researches' = Researches
    BY <1>1, <1>5, <1>6, <1>10 DEF Researches, IsBuild
  <2>2. Asked' = Asked
    BY <2>1 DEF Asked
  <2>3. \A m \in Researches : mission'[m] = mission[m]
    BY <1>1 DEF Researches
  <2> QED
    BY <1>2, <1>3, <1>7, <1>9, <2>1, <2>2, <2>3 DEF Numbered
<1>11. CASE o.type # "BUILD_UNIT"
  <2>1. o.type = "LEVEL_UP"
    BY <1>2, <1>11 DEF Orders, BuildOrders
  <2>2. Researches' = Researches \cup {n} /\ n \notin Researches
    BY <1>1, <1>5, <1>6, <1>11 DEF Researches, IsBuild
  <2>3. Asked' = Asked + 1
    BY <1>4, <2>2, FS_AddElement DEF Asked
  <2>4. \A m \in Researches : mission'[m] = mission[m]
    BY <1>1 DEF Researches
  <2>5. \A m \in Researches' : mission'[m].order.level <= Asked + 1
    <3>1. mission'[n].order.level <= Asked + 1
      BY <1>1, <1>5, <1>8, <2>1
    <3>2. \A m \in Researches : mission'[m].order.level <= Asked + 1
      BY <1>4, <1>9, <2>4
    <3> QED
      BY <2>2, <3>1, <3>2
  <2> QED
    BY <1>2, <1>3, <1>4, <1>7, <2>3, <2>5 DEF Numbered
<1> QED
  BY <1>10, <1>11

(* The levels are in order at first.                                       *)
LEMMA InitNumbered == Init => Numbered
<1> SUFFICES ASSUME Init PROVE Numbered
  OBVIOUS
<1>1. /\ MissionId = {1} /\ mission[1].order = [type |-> "LEVEL_UP", level |-> 1]
      /\ level = 0 /\ \A c \in Client : pc[c] = "idle"
  BY ProcessAssumption DEF Init, MissionId, Process
<1>2. Researches = {1}
  BY <1>1 DEF Researches, IsBuild
<1>3. Asked = 1
  BY <1>2, FS_Singleton DEF Asked
<1> QED
  BY <1>1, <1>2, <1>3 DEF Numbered

(* No level comes of itself: there was an order for each, however many     *)
(* workers complete one, and whatever they and the clients fail at.        *)
THEOREM SpecLevelIsPaid == Spec => []LevelIsPaid
<1>1. Init => Typed /\ Checked /\ OneAtATime /\ Numbered
  BY InitTyped, InitNumbered, ProcessAssumption DEF Init, Checked, OneAtATime, MissionId, Process
<1>2. Typed /\ Checked /\ OneAtATime /\ Numbered /\ [Next]_vars
      => (Typed /\ Checked /\ OneAtATime /\ Numbered)'
  BY NextTyped, NextChecked, NextOnward, OnwardNumbered, CommitNumbered DEF Commit
<1>3. Numbered => LevelIsPaid
  BY DEF Numbered, LevelIsPaid, Asked, Researches
<1> QED
  BY <1>1, <1>2, <1>3, PTL DEF Spec

(* Type correctness: what the invariants above need of rows and requests.  *)
THEOREM SpecTyped == Spec => []Typed
<1>1. Typed /\ [Next]_vars => Typed'
  BY NextTyped
<1> QED
  BY <1>1, InitTyped, PTL DEF Spec

------------------------------------------------------------------------------
(* What is paid, built and delivered.                                      *)

(* The prices of the levels are numbers.                                   *)
LEMMA LevelCostTyped ==
    \A n \in Nat : LevelCost[n] \in Nat
<1> DEFINE F == [x \in Nat |-> x + x * LevelEffect]
           Is(f) == f = [n \in Nat |-> IF n = 0 THEN UpgradeCost
                                       ELSE f[n - 1] + f[n - 1] * LevelEffect]
<1>1. UpgradeCost \in Nat /\ LevelEffect \in Nat
  BY PriceAssumption
<1>2. \A x \in Nat : x + x * LevelEffect \in Nat
  <2> SUFFICES ASSUME NEW x \in Nat PROVE x + x * LevelEffect \in Nat
    OBVIOUS
  <2>1. x * LevelEffect \in Nat
    BY <1>1
  <2> QED
    BY <2>1
<1>3. PICK f : f = [n \in Nat |-> IF n = 0 THEN UpgradeCost ELSE F[f[n - 1]]]
  <2> HIDE DEF F
  <2> QED
    BY RecursionExists
<1>4. \A n \in Nat : f[n] \in Nat
  <2> DEFINE T == {n \in Nat : f[n] \in Nat}
  <2>1. 0 \in T
    BY <1>1, <1>3
  <2>2. ASSUME NEW n \in Nat \ {0}, n - 1 \in T PROVE n \in T
    BY <1>2, <1>3, <2>2
  <2> HIDE DEF T
  <2>3. \A n \in Nat : n \in T
    BY <2>1, <2>2, AllNumbers
  <2> QED
    BY <2>3 DEF T
<1>5. Is(f)
  <2>1. \A n \in Nat : f[n] = IF n = 0 THEN UpgradeCost ELSE f[n - 1] + f[n - 1] * LevelEffect
    <3> SUFFICES ASSUME NEW n \in Nat
                 PROVE  f[n] = IF n = 0 THEN UpgradeCost ELSE f[n - 1] + f[n - 1] * LevelEffect
      OBVIOUS
    <3>1. f[n] = IF n = 0 THEN UpgradeCost ELSE F[f[n - 1]]
      BY <1>3
    <3>2. n # 0 => n - 1 \in Nat /\ f[n - 1] \in Nat
      BY <1>4
    <3>3. n # 0 => F[f[n - 1]] = f[n - 1] + f[n - 1] * LevelEffect
      BY <3>2
    <3> QED
      BY <3>1, <3>3
  <2>2. f = [n \in Nat |-> f[n]]
    BY <1>3
  <2> QED
    BY <2>1, <2>2
<1>6. LevelCost = CHOOSE g : Is(g)
  BY DEF LevelCost
<1> HIDE DEF Is
<1>7. Is(LevelCost)
  BY <1>5, <1>6
<1> USE DEF Is
<1> DEFINE T == {n \in Nat : LevelCost[n] \in Nat}
<1> HIDE DEF LevelCost
<1>8. 0 \in T
  BY <1>1, <1>7
<1>9. ASSUME NEW n \in Nat \ {0}, n - 1 \in T PROVE n \in T
  BY <1>2, <1>7, <1>9
<1> HIDE DEF T
<1>10. \A n \in Nat : n \in T
  BY <1>8, <1>9, AllNumbers
<1> QED
  BY <1>10 DEF T

StackRow == [unit : Unit, count : Nat, mission : Nat, planet : Planet \cup {Nobody}]

(* A research that is paid is for a level after the one there is.          *)
Payable == BuildOrders \cup [type : {"LEVEL_UP"}, level : Nat \ {0}]

Fit(o) == o.type = "BUILD_UNIT" /\ o.unit \in Unique => o.count = 1

(* A row of missions with its price.                                       *)
Sold ==
    \A m \in MissionId :
        /\ mission[m].paid \in Nat
        /\ IsBuild(m) => mission[m].paid = UnitCost[mission[m].order.unit] * mission[m].order.count

Requested ==
    \A c \in Client :
        /\ pc[c] = "registering" => order[c] \in Payable
        /\ pc[c] \in {"ordered", "registering"} => Fit(order[c])

(* The units in build are those of the order, in one stack.                *)
Stocked ==
    /\ stack \in Seq(StackRow) /\ purse \in Int /\ lost \in Nat
    /\ \A s \in StackId : stack[s].mission # 0 =>
          LET m == stack[s].mission
          IN  /\ m \in MissionId /\ IsBuild(m)
              /\ stack[s].unit = mission[m].order.unit
              /\ stack[s].count \in {0, mission[m].order.count}
    /\ \A s, t \in StackId : stack[s].mission # 0 /\ stack[s].mission = stack[t].mission => s = t

(* A worker that delivers a build has the lock of the planet, and the      *)
(* units it read are still in build, or gone; it read none of a unique     *)
(* unit that is there already.                                             *)
Delivers(w) == pc[w] = "running" /\ snap[w].seen /\ IsBuild(cur[w])

Snapped(w) ==
    LET o == mission[cur[w]].order
    IN  /\ lock[o.planet] = w
        /\ snap[w].units \subseteq StackId
        /\ \A s \in snap[w].units : stack[s].count = 0 \/ stack[s].mission = cur[w]
        /\ o.unit \in Unique /\ snap[w].units # {} => AtHome(o.planet, o.unit) = {}

Snaps == DOMAIN snap = Process /\ \A w \in Worker : Delivers(w) => Snapped(w)

Stock == Typed /\ Sold /\ Requested /\ Stocked /\ Snaps

------------------------------------------------------------------------------
(* What a step does to the processes.                                      *)

Acts(x, place) ==
    /\ Goto(x, place)
    /\ \A v \in Process \ {x} : cur'[v] = cur[v] /\ snap'[v] = snap[v] /\ order'[v] = order[v]
    /\ UNCHANGED lock \/ Drop(x) \/ \E K : LocksFree(K) /\ Take(x, K)
    /\ x \in Worker /\ place = "running" => BeginRun(x)
    /\ x \in Client /\ place = "registering" => BeginRegister(x)
    /\ x \in Client /\ place = "ordered" => AskBuild(x) \/ AskLevelUp(x)
    /\ DOMAIN snap' = Process

(* Every step is taken by one process, or by none.                         *)
LEMMA OneActs ==
    ASSUME Typed, DOMAIN snap = Process, [Next]_vars
    PROVE  UNCHANGED <<pc, lock, locals>> \/ \E x \in Process, place \in Places : Acts(x, place)
<1> USE ProcessAssumption DEF Process
<1>1. /\ cur \in [Process -> MissionId \cup {0}] /\ DOMAIN order = Process /\ DOMAIN snap = Process
      /\ \A place \in {"idle", "ordered", "registering", "cancelling", "loading", "locking", "running",
                       "failed", "resolving", "dropping", "deleting", "rearming", "closing", "leaving"} :
            place \in Places
  BY DEF Typed, Places
<1>2. ASSUME NEW x \in Process, Rest(x), Drop(x) \/ UNCHANGED lock
      PROVE  Acts(x, "idle")
  BY <1>1, <1>2 DEF Rest, Acts
<1>3. ASSUME NEW c \in Client, ClientStep(c)
      PROVE  \E place \in Places : Acts(c, place)
  <2>1. CASE AskBuild(c) \/ AskLevelUp(c)
    <3>1. PICK o : AskFor(c, o)
      BY <2>1 DEF AskBuild, AskLevelUp
    <3>2. Acts(c, "ordered")
      BY <1>1, <2>1, <3>1 DEF AskFor, Acts
    <3> QED
      BY <1>1, <3>2
  <2>2. CASE BeginRegister(c)
    <3>1. PICK o : LocksFree(KeysOf(o)) /\ Take(c, KeysOf(o)) /\ order' = [order EXCEPT ![c] = o]
      BY <2>2 DEF BeginRegister
    <3>2. Goto(c, "registering") /\ UNCHANGED <<cur, snap>>
      BY <2>2 DEF BeginRegister
    <3>3. Acts(c, "registering")
      BY <1>1, <2>2, <3>1, <3>2 DEF Acts
    <3> QED
      BY <1>1, <3>3
  <2>3. CASE Refuse(c) \/ CommitRegister(c) \/ CommitCancel(c) \/ CommitLeave(c)
    BY <1>1, <1>2, <2>3 DEF Refuse, CommitRegister, CommitCancel, CommitLeave
  <2>4. CASE BeginCancelBuild(c) \/ BeginCancelLevelUp(c)
    <3>1. Acts(c, "cancelling")
      BY <1>1, <2>4 DEF BeginCancelBuild, BeginCancelLevelUp, Acts
    <3> QED
      BY <1>1, <3>1
  <2>5. CASE BeginLeave(c)
    <3>1. Acts(c, "leaving")
      BY <1>1, <2>5 DEF BeginLeave, Acts
    <3> QED
      BY <1>1, <3>1
  <2> QED
    BY <1>3, <2>1, <2>2, <2>3, <2>4, <2>5 DEF ClientStep
<1>4. ASSUME NEW w \in Worker, WorkerStep(w)
      PROVE  \E place \in Places : Acts(w, place)
  <2>1. CASE Rearm(w) \/ Close(w)
    BY <1>1, <1>2, <2>1 DEF Rearm, Close
  <2>2. CASE Claim(w)
    <3>1. Acts(w, "loading")
      BY <1>1, <2>2 DEF Claim, Acts
    <3> QED
      BY <1>1, <3>1
  <2>3. ASSUME NEW place \in Places, place # "running", Goto(w, place),
               UNCHANGED locals, Drop(w) \/ UNCHANGED lock
        PROVE  Acts(w, place)
    BY <1>1, <2>3 DEF Acts, locals
  <2>4. CASE Load(w)
    <3>1. CASE mission[cur[w]].state = "open"
      BY <1>1, <2>3, <2>4, <3>1 DEF Load
    <3>2. CASE mission[cur[w]].state # "open"
      BY <1>1, <2>3, <2>4, <3>2 DEF Load
    <3> QED
      BY <3>1, <3>2
  <2>5. CASE BeginRun(w)
    <3>1. PICK K : LocksFree(K) /\ Take(w, K)
      BY <2>5 DEF BeginRun
    <3>2. Acts(w, "running")
      BY <1>1, <2>5, <3>1 DEF BeginRun, Acts
    <3> QED
      BY <1>1, <3>2
  <2>6. CASE ProcessBuildUnit(w) \/ ProcessLevelUp(w) \/ NothingToProcess(w) \/ RunFails(w)
    BY <1>1, <2>3, <2>6 DEF ProcessBuildUnit, ProcessLevelUp, NothingToProcess, RunFails
  <2>7. CASE RetryMissionIfPossible(w)
    BY <1>1, <2>3, <2>7 DEF RetryMissionIfPossible
  <2>8. CASE ReportError(w)
    <3>1. CASE IsBuild(cur[w])
      BY <1>1, <2>3, <2>8, <3>1 DEF ReportError
    <3>2. CASE ~IsBuild(cur[w])
      BY <1>1, <2>3, <2>8, <3>2 DEF ReportError
    <3> QED
      BY <3>1, <3>2
  <2>9. CASE DropUnits(w) \/ DeleteMission(w)
    BY <1>1, <2>3, <2>9 DEF DropUnits, DeleteMission
  <2> QED
    BY <1>4, <2>1, <2>2, <2>4, <2>5, <2>6, <2>7, <2>8, <2>9 DEF WorkerStep, GiveUp
<1>5. CASE BeginConquest
  <2>1. Acts(Rival, "running")
    <3>1. PICK K : LocksFree(K) /\ Take(Rival, K)
      BY <1>5 DEF BeginConquest
    <3>2. /\ Goto(Rival, "running") /\ UNCHANGED snap
          /\ \A v \in Process \ {Rival} : cur'[v] = cur[v] /\ order'[v] = order[v]
      BY <1>1, <1>5 DEF BeginConquest
    <3> QED
      BY <1>1, <3>1, <3>2 DEF Acts
  <2> QED
    BY <1>1, <2>1
<1>6. CASE CommitConquest
  BY <1>1, <1>2, <1>6 DEF CommitConquest
<1>7. ASSUME NEW x \in Process, Stops(x)
      PROVE  Acts(x, "idle")
  BY <1>2, <1>7 DEF Stops
<1>8. CASE UNCHANGED vars
  BY <1>8 DEF vars
<1> QED
  BY <1>1, <1>3, <1>4, <1>5, <1>6, <1>7, <1>8 DEF Next

------------------------------------------------------------------------------
(* What a step does to the tables.                                         *)

(* No units, no money: the rows keep their price and what became of it.    *)
SameSales ==
    /\ mission' \in Seq(Row) /\ Len(mission') = Len(mission)
    /\ \A m \in MissionId :
          /\ mission'[m].order = mission[m].order /\ mission'[m].paid = mission[m].paid
          /\ mission'[m].refunds = mission[m].refunds

Quiet == SameSales /\ UNCHANGED <<stack, purse, lost>>

Trade ==
    \/ \E c \in Client : CommitRegister(c) \/ CommitCancel(c)
    \/ \E w \in Worker : ProcessBuildUnit(w) \/ DropUnits(w)
    \/ CommitConquest

(* UPDATE of one row that keeps order, price and refunds.                  *)
LEMMA OneSale ==
    ASSUME Typed, NEW m \in MissionId, NEW r \in Row,
           r.order = mission[m].order, r.paid = mission[m].paid, r.refunds = mission[m].refunds,
           mission' = [mission EXCEPT ![m] = r]
    PROVE  SameSales
  BY DEF SameSales, MissionId, Typed

(* A delivery keeps the sales.                                             *)
LEMMA DeliveredSales ==
    ASSUME Typed, NEW m \in MissionId, mission' = Delivered(m)
    PROVE  SameSales
<1> DEFINE r == [mission[m] EXCEPT !.state = "deleted", !.landed = TRUE]
<1>1. mission[m] \in Row
  BY DEF Typed, MissionId
<1>2. /\ r \in Row /\ r.order = mission[m].order /\ r.paid = mission[m].paid
      /\ r.refunds = mission[m].refunds
  BY <1>1 DEF Row
<1>3. mission' = [mission EXCEPT ![m] = r]
  BY DEF Delivered, MissionId, Typed
<1> HIDE DEF r
<1> QED
  BY <1>2, <1>3, OneSale

(* So do the steps on the task, the state and the attempts.                *)
LEMMA FieldSales ==
    ASSUME Typed, NEW m \in MissionId
    PROVE  /\ \A t \in {"none", "armed", "picked"} :
                 mission' = [mission EXCEPT ![m].task = t] => SameSales
           /\ \A t \in {"open", "resolved", "deleted"} :
                 mission' = [mission EXCEPT ![m].state = t] => SameSales
           /\ mission' = [mission EXCEPT ![m].attemps = @ + 1] => SameSales
<1>1. mission[m] \in Row /\ mission \in Seq(Row)
  BY DEF Typed, MissionId
<1>2. ASSUME NEW t \in {"none", "armed", "picked"}, mission' = [mission EXCEPT ![m].task = t]
      PROVE  SameSales
  <2> DEFINE r == [mission[m] EXCEPT !.task = t]
  <2>1. r \in Row /\ r.order = mission[m].order /\ r.paid = mission[m].paid /\ r.refunds = mission[m].refunds
    BY <1>1 DEF Row
  <2> QED
    BY <1>2, <2>1, OneSale
<1>3. ASSUME NEW t \in {"open", "resolved", "deleted"}, mission' = [mission EXCEPT ![m].state = t]
      PROVE  SameSales
  <2> DEFINE r == [mission[m] EXCEPT !.state = t]
  <2>1. r \in Row /\ r.order = mission[m].order /\ r.paid = mission[m].paid /\ r.refunds = mission[m].refunds
    BY <1>1 DEF Row
  <2> QED
    BY <1>3, <2>1, OneSale
<1>4. ASSUME mission' = [mission EXCEPT ![m].attemps = @ + 1]
      PROVE  SameSales
  <2> DEFINE r == [mission[m] EXCEPT !.attemps = @ + 1]
  <2>0. mission[m].attemps + 1 \in Nat
    BY <1>1 DEF Row
  <2>1. r \in Row /\ r.order = mission[m].order /\ r.paid = mission[m].paid /\ r.refunds = mission[m].refunds
    BY <1>1, <2>0 DEF Row
  <2> QED
    BY <1>4, <2>1, OneSale
<1> QED
  BY <1>2, <1>3, <1>4

(* Every step is quiet, or one of five.                                    *)
LEMMA QuietOrTrade ==
    ASSUME Typed, [Next]_vars
    PROVE  Quiet \/ Trade
<1> USE ProcessAssumption DEF Process
<1>1. UNCHANGED mission => SameSales
  BY DEF SameSales, Typed
<1>2. \A w \in Worker : pc[w] # "idle" => cur[w] \in MissionId
  BY DEF Typed, AtWork
<1>3. ASSUME NEW c \in Client, ClientStep(c)
      PROVE  Quiet \/ Trade
  BY <1>1, <1>3 DEF ClientStep, AskBuild, AskLevelUp, AskFor, BeginRegister, Refuse, BeginCancelBuild,
     BeginCancelLevelUp, BeginLeave, CommitLeave, rows, Quiet, Trade
<1>4. ASSUME NEW w \in Worker, WorkerStep(w)
      PROVE  Quiet \/ Trade
  <2>1. CASE Claim(w)
    <3>1. PICK m \in MissionId : mission' = [mission EXCEPT ![m].task = "picked"]
      BY <2>1 DEF Claim
    <3> QED
      BY <2>1, <3>1, FieldSales DEF Claim, Quiet
  <2>2. CASE Load(w) \/ BeginRun(w) \/ NothingToProcess(w) \/ RunFails(w)
    BY <1>1, <2>2 DEF Load, BeginRun, NothingToProcess, RunFails, rows, Quiet
  <2>3. CASE ProcessBuildUnit(w) \/ DropUnits(w)
    BY <2>3 DEF Trade
  <2>4. CASE ProcessLevelUp(w)
    BY <1>2, <2>4, DeliveredSales DEF ProcessLevelUp, Quiet
  <2>5. CASE RetryMissionIfPossible(w)
    <3>1. cur[w] \in MissionId
      BY <1>2, <2>5 DEF RetryMissionIfPossible
    <3> QED
      BY <1>1, <2>5, <3>1, FieldSales DEF RetryMissionIfPossible, Quiet
  <2>6. CASE ReportError(w)
    <3> DEFINE m == cur[w]
               t == IF mission[m].state = "deleted" THEN mission[m].state ELSE "resolved"
    <3>1. m \in MissionId /\ mission' = [mission EXCEPT ![m].state = t]
      BY <1>2, <2>6 DEF ReportError
    <3>2. t \in {"open", "resolved", "deleted"}
      OBVIOUS
    <3> HIDE DEF m, t
    <3>3. SameSales
      BY <3>1, <3>2, FieldSales
    <3> QED
      BY <2>6, <3>3 DEF ReportError, Quiet
  <2>7. CASE DeleteMission(w)
    <3>1. cur[w] \in MissionId
      BY <1>2, <2>7 DEF DeleteMission
    <3> QED
      BY <2>7, <3>1, FieldSales DEF DeleteMission, Quiet
  <2>8. CASE Rearm(w)
    <3> DEFINE m == cur[w]
               t == IF mission[m].task = "none" THEN "none" ELSE "armed"
    <3>1. m \in MissionId /\ mission' = [mission EXCEPT ![m].task = t]
      BY <1>2, <2>8 DEF Rearm
    <3>2. t \in {"none", "armed", "picked"}
      OBVIOUS
    <3> HIDE DEF m, t
    <3>3. SameSales
      BY <3>1, <3>2, FieldSales
    <3> QED
      BY <2>8, <3>3 DEF Rearm, Quiet
  <2>9. CASE Close(w)
    <3>1. cur[w] \in MissionId
      BY <1>2, <2>9 DEF Close
    <3> QED
      BY <2>9, <3>1, FieldSales DEF Close, Quiet
  <2> QED
    BY <1>4, <2>1, <2>2, <2>3, <2>4, <2>5, <2>6, <2>7, <2>8, <2>9 DEF WorkerStep, GiveUp
<1>5. CASE BeginConquest
  BY <1>1, <1>5 DEF BeginConquest, rows, Quiet
<1>6. CASE CommitConquest
  BY <1>6 DEF Trade
<1>7. ASSUME NEW x \in Process, Stops(x)
      PROVE  Quiet
  BY <1>1, <1>7 DEF Stops, rows, Quiet
<1>8. CASE UNCHANGED vars
  BY <1>1, <1>8 DEF vars, rows, Quiet
<1> QED
  BY <1>3, <1>4, <1>5, <1>6, <1>7, <1>8 DEF Next

------------------------------------------------------------------------------
(* What a step does to the stacks.                                         *)

(* The ids and rows of the stacks.                                         *)
LEMMA Rows ==
    ASSUME Typed, Stocked
    PROVE  /\ StackId = 1 .. Len(stack) /\ Len(stack) \in Nat /\ IsFiniteSet(StackId)
           /\ \A s \in StackId : stack[s] \in StackRow
           /\ MissionId = 1 .. Len(mission) /\ Len(mission) \in Nat /\ IsFiniteSet(MissionId)
           /\ \A m \in MissionId : mission[m] \in Row /\ m # 0 /\ m \in Nat
<1>1. stack \in Seq(StackRow) /\ mission \in Seq(Row)
  BY DEF Typed, Stocked
<1>2. /\ StackId = 1 .. Len(stack) /\ Len(stack) \in Nat
      /\ MissionId = 1 .. Len(mission) /\ Len(mission) \in Nat
      /\ \A s \in StackId : stack[s] \in StackRow
      /\ \A m \in MissionId : mission[m] \in Row
  BY <1>1, Table DEF StackId, MissionId
<1>3. IsFiniteSet(1 .. Len(stack)) /\ IsFiniteSet(1 .. Len(mission))
  BY <1>2, FS_Interval
<1> QED
  BY <1>2, <1>3

(* The order of a build.                                                   *)
LEMMA BuildOrder ==
    ASSUME Typed, Stocked, NEW m \in MissionId, IsBuild(m)
    PROVE  /\ mission[m].order \in BuildOrders
           /\ mission[m].order.planet \in Planet /\ mission[m].order.unit \in Unit
           /\ mission[m].order.count \in Nat /\ mission[m].order.count > 0
<1>1. mission[m].order \in BuildOrders
  BY Rows DEF Row, Orders, IsBuild
<1> QED
  BY <1>1, BoundAssumption DEF BuildOrders

(* What an order that is registered costs is a number.                     *)
LEMMA PriceTyped ==
    ASSUME NEW o \in Payable
    PROVE  Price(o) \in Nat
<1>1. CASE o \in BuildOrders
  <2>1. UnitCost[o.unit] \in Nat /\ o.count \in Nat
    BY <1>1, PriceAssumption, BoundAssumption DEF BuildOrders
  <2>2. UnitCost[o.unit] * o.count \in Nat
    BY <2>1
  <2> QED
    BY <1>1, <2>2 DEF Price, BuildOrders
<1>2. CASE o \in [type : {"LEVEL_UP"}, level : Nat \ {0}]
  <2>1. o.level - 1 \in Nat /\ o.type = "LEVEL_UP"
    BY <1>2
  <2> QED
    BY <2>1, LevelCostTyped DEF Price
<1> QED
  BY <1>1, <1>2 DEF Payable

------------------------------------------------------------------------------
(* Sums of units and of prices.                                            *)

Worths == [s \in StackId |-> stack[s].count * UnitCost[stack[s].unit]]

Counts == [s \in StackId |-> stack[s].count]

Spent == [m \in MissionId |-> IF IsBuild(m) THEN 0 ELSE mission[m].paid * (1 - mission[m].refunds)]

Research == MapThenSumSet(
    LAMBDA m : IF IsBuild(m) THEN 0 ELSE mission[m].paid * (1 - mission[m].refunds), MissionId)

(* The folds that Worth, Count and the price of the researches are.        *)
AddsWorth(S, g) ==
    g = [t \in SUBSET S |->
            IF t = {} THEN 0
            ELSE stack[Pick(t)].count * UnitCost[stack[Pick(t)].unit] + g[t \ {Pick(t)}]]

AddsCount(S, g) ==
    g = [t \in SUBSET S |-> IF t = {} THEN 0 ELSE stack[Pick(t)].count + g[t \ {Pick(t)}]]

AddsSpent(S, g) ==
    g = [t \in SUBSET S |->
            IF t = {} THEN 0
            ELSE (IF IsBuild(Pick(t)) THEN 0
                  ELSE mission[Pick(t)].paid * (1 - mission[Pick(t)].refunds)) + g[t \ {Pick(t)}]]

(* Worth is a total.                                                       *)
LEMMA WorthIsTotal ==
    ASSUME NEW S, S \subseteq StackId
    PROVE  Worth(S) = Total(Worths, S)
<1>1. Worth(S) = (CHOOSE g : AddsWorth(S, g))[S]
  BY DEF Worth, MapThenSumSet, MapThenFoldSet, AddsWorth, Pick
<1>2. \A t \in SUBSET S : t # {} => Worths[Pick(t)] = stack[Pick(t)].count * UnitCost[stack[Pick(t)].unit]
  BY PickIn DEF Worths
<1>3. ASSUME NEW g PROVE Adds(Worths, S, g) <=> AddsWorth(S, g)
  BY <1>2 DEF Adds, AddsWorth
<1> QED
  BY <1>1, <1>3, TotalIsFold

(* The same of Worth in the next state.                                    *)
LEMMA WorthIsTotalNext ==
    ASSUME NEW S, S \subseteq StackId'
    PROVE  Worth(S)' = Total(Worths', S)
<1>1. Worth(S)' = (CHOOSE g : AddsWorth(S, g)')[S]
  BY DEF Worth, MapThenSumSet, MapThenFoldSet, AddsWorth, Pick
<1>2. \A t \in SUBSET S : t # {} => Worths'[Pick(t)] = stack'[Pick(t)].count * UnitCost[stack'[Pick(t)].unit]
  BY PickIn DEF Worths
<1>3. ASSUME NEW g PROVE Adds(Worths', S, g) <=> AddsWorth(S, g)'
  BY <1>2 DEF Adds, AddsWorth
<1> QED
  BY <1>1, <1>3, TotalIsFold

(* Count is a total.                                                       *)
LEMMA CountIsTotal ==
    ASSUME NEW S, S \subseteq StackId
    PROVE  Count(S) = Total(Counts, S)
<1>1. Count(S) = (CHOOSE g : AddsCount(S, g))[S]
  BY DEF Count, MapThenSumSet, MapThenFoldSet, AddsCount, Pick
<1>2. \A t \in SUBSET S : t # {} => Counts[Pick(t)] = stack[Pick(t)].count
  BY PickIn DEF Counts
<1>3. ASSUME NEW g PROVE Adds(Counts, S, g) <=> AddsCount(S, g)
  BY <1>2 DEF Adds, AddsCount
<1> QED
  BY <1>1, <1>3, TotalIsFold

(* The same of Count in the next state.                                    *)
LEMMA CountIsTotalNext ==
    ASSUME NEW S, S \subseteq StackId'
    PROVE  Count(S)' = Total(Counts', S)
<1>1. Count(S)' = (CHOOSE g : AddsCount(S, g)')[S]
  BY DEF Count, MapThenSumSet, MapThenFoldSet, AddsCount, Pick
<1>2. \A t \in SUBSET S : t # {} => Counts'[Pick(t)] = stack'[Pick(t)].count
  BY PickIn DEF Counts
<1>3. ASSUME NEW g PROVE Adds(Counts', S, g) <=> AddsCount(S, g)'
  BY <1>2 DEF Adds, AddsCount
<1> QED
  BY <1>1, <1>3, TotalIsFold

(* What the researches cost is a total.                                    *)
LEMMA ResearchIsTotal == Research = Total(Spent, MissionId)
<1>1. Research = (CHOOSE g : AddsSpent(MissionId, g))[MissionId]
  BY DEF Research, MapThenSumSet, MapThenFoldSet, AddsSpent, Pick
<1>2. \A t \in SUBSET MissionId : t # {} =>
         Spent[Pick(t)] = IF IsBuild(Pick(t)) THEN 0
                          ELSE mission[Pick(t)].paid * (1 - mission[Pick(t)].refunds)
  BY PickIn DEF Spent
<1>3. ASSUME NEW g PROVE Adds(Spent, MissionId, g) <=> AddsSpent(MissionId, g)
  BY <1>2 DEF Adds, AddsSpent
<1> QED
  BY <1>1, <1>3, TotalIsFold

(* The same in the next state.                                             *)
LEMMA ResearchIsTotalNext == Research' = Total(Spent', MissionId')
<1>1. Research' = (CHOOSE g : AddsSpent(MissionId, g)')[MissionId']
  BY DEF Research, MapThenSumSet, MapThenFoldSet, AddsSpent, Pick
<1>2. \A t \in SUBSET MissionId' : t # {} =>
         Spent'[Pick(t)] = IF IsBuild(Pick(t))' THEN 0
                           ELSE mission'[Pick(t)].paid * (1 - mission'[Pick(t)].refunds)
  BY PickIn DEF Spent
<1>3. ASSUME NEW g PROVE Adds(Spent', MissionId', g) <=> AddsSpent(MissionId, g)'
  BY <1>2 DEF Adds, AddsSpent
<1> QED
  BY <1>1, <1>3, TotalIsFold

(* What stacks are worth, and how many units they are, are numbers.        *)
LEMMA WorthTyped ==
    ASSUME Typed, Stocked
    PROVE  /\ \A s \in StackId : /\ Worths[s] = stack[s].count * UnitCost[stack[s].unit]
                                 /\ Worths[s] \in Nat /\ Worths[s] \in Int
           /\ \A S \in SUBSET StackId : Worth(S) \in Nat /\ Worth(S) = Total(Worths, S) /\ IsFiniteSet(S)
<1>1. ASSUME NEW s \in StackId
      PROVE  /\ Worths[s] = stack[s].count * UnitCost[stack[s].unit]
             /\ Worths[s] \in Nat /\ Worths[s] \in Int
  <2>1. stack[s].count \in Nat /\ UnitCost[stack[s].unit] \in Nat
    BY Rows, PriceAssumption DEF StackRow
  <2>2. stack[s].count * UnitCost[stack[s].unit] \in Nat
    BY <2>1
  <2> QED
    BY <2>2 DEF Worths
<1>2. ASSUME NEW S \in SUBSET StackId
      PROVE  Worth(S) \in Nat /\ Worth(S) = Total(Worths, S) /\ IsFiniteSet(S)
  <2>1. IsFiniteSet(S)
    BY Rows, FS_Subset
  <2>2. \A s \in S : Worths[s] \in Nat
    BY <1>1
  <2> QED
    BY <2>1, <2>2, TotalNat, WorthIsTotal
<1> QED
  BY <1>1, <1>2

------------------------------------------------------------------------------
(* A stack that a delivery put on its planet, or made larger there.        *)
Shipped(s) ==
    \E w \in Worker :
        LET o == mission[cur[w]].order
        IN  /\ Delivers(w) /\ pc'[w] = "closing" /\ snap[w].units # {} /\ stack[s].count > 0
            /\ stack'[s].mission = 0 /\ stack'[s].planet = o.planet
            /\ stack'[s].unit = stack[s].unit
            /\ \/ s \in snap[w].units /\ stack'[s].count = stack[s].count
               \/ s \in AtHome(o.planet, o.unit)

Gone(s) ==
    /\ stack'[s].count = 0 /\ stack'[s].unit = stack[s].unit
    /\ stack'[s].mission = stack[s].mission /\ stack'[s].planet = stack[s].planet

OrdersKept == \A m \in MissionId : m \in MissionId' /\ mission'[m].order = mission[m].order

StackStep ==
    /\ stack' \in Seq(StackRow) /\ StackId \subseteq StackId'
    /\ \A s \in StackId : stack'[s] = stack[s] \/ Gone(s) \/ Shipped(s)
    /\ \A s \in StackId' \ StackId :
          /\ stack'[s].mission \in MissionId' \ MissionId
          /\ mission'[stack'[s].mission].order.type = "BUILD_UNIT"
          /\ stack'[s].unit = mission'[stack'[s].mission].order.unit
          /\ stack'[s].count = mission'[stack'[s].mission].order.count
    /\ \A s, t \in StackId' \ StackId : s = t

(* DELETE of the stacks S.                                                 *)
LEMMA WithoutRows ==
    ASSUME Typed, Stocked, NEW S \in SUBSET StackId, stack' = Without(S)
    PROVE  /\ StackStep /\ StackId' = StackId
           /\ \A s \in S : Gone(s)
           /\ \A s \in StackId \ S : stack'[s] = stack[s]
<1>1. \A s \in StackId : [stack[s] EXCEPT !.count = 0] \in StackRow
  BY Rows DEF StackRow
<1>2. stack' \in [StackId -> StackRow]
  BY <1>1, Rows DEF Without
<1>3. stack' \in Seq(StackRow) /\ StackId' = StackId
  BY <1>2, IsTable DEF Stocked, StackId
<1>4. \A s \in S : Gone(s)
  BY Rows DEF Without, Gone, StackRow
<1>5. \A s \in StackId \ S : stack'[s] = stack[s]
  BY DEF Without
<1> QED
  BY <1>3, <1>4, <1>5 DEF StackStep

(* A refund keeps the prices, and counts.                                  *)
Refunded(m) ==
    /\ mission' \in Seq(Row) /\ Len(mission') = Len(mission)
    /\ purse' = purse + mission[m].paid
    /\ \A k \in MissionId :
          /\ mission'[k].order = mission[k].order /\ mission'[k].paid = mission[k].paid
          /\ mission'[k].refunds = IF k = m THEN mission[k].refunds + 1 ELSE mission[k].refunds

(* Refund does that.                                                       *)
LEMMA RefundSales ==
    ASSUME Typed, NEW m \in MissionId, Refund(m)
    PROVE  Refunded(m)
<1>1. mission' \in Seq(Row) /\ Len(mission') = Len(mission)
  BY RefundOnward DEF Onward, Typed
<1>2. mission[m] \in Row /\ MissionId = DOMAIN mission
  BY DEF Typed, MissionId
<1> DEFINE r == [mission[m] EXCEPT !.state = "deleted", !.task = "none", !.refunds = @ + 1]
<1>3. /\ r.order = mission[m].order /\ r.paid = mission[m].paid
      /\ r.refunds = mission[m].refunds + 1
  BY <1>2 DEF Row
<1>4. mission' = [mission EXCEPT ![m] = r]
  BY DEF Refund, MissionId, Typed
<1> HIDE DEF r
<1>5. mission'[m] = r /\ \A k \in MissionId \ {m} : mission'[k] = mission[k]
  BY <1>2, <1>4
<1> QED
  <2>1. purse' = purse + mission[m].paid
    BY DEF Refund
  <2>2. ASSUME NEW k \in MissionId
        PROVE  /\ mission'[k].order = mission[k].order /\ mission'[k].paid = mission[k].paid
               /\ mission'[k].refunds = IF k = m THEN mission[k].refunds + 1 ELSE mission[k].refunds
    <3>1. CASE k = m
      BY <1>3, <1>5, <3>1
    <3>2. CASE k # m
      BY <1>5, <3>2
    <3> QED
      BY <3>1, <3>2
  <2> QED
    BY ONLY <1>1, <2>1, <2>2 DEF Refunded

(* move_unit_to_planet: the units land beside those that are there, or     *)
(* they become the stack on the planet.                                    *)
Joined(w) ==
    LET o == mission[cur[w]].order
    IN  \E into \in AtHome(o.planet, o.unit) :
            /\ into \notin snap[w].units
            /\ stack'[into].count = stack[into].count + o.count
            /\ \A s \in snap[w].units : Gone(s)
            /\ \A s \in StackId \ (snap[w].units \cup {into}) : stack'[s] = stack[s]

(* Land does that, or moves the stacks and keeps their counts.             *)
LEMMA Landing ==
    ASSUME Stock, NEW w \in Worker, ProcessBuildUnit(w)
    PROVE  /\ StackStep /\ StackId' = StackId
           /\ \/ Joined(w)
              \/ \A s \in StackId : stack'[s].count = stack[s].count
<1> DEFINE m == cur[w]
           S == snap[w].units
           o == mission[m].order
           p == o.planet
           there == AtHome(p, o.unit)
<1>1. /\ Typed /\ Stocked /\ Delivers(w) /\ Snapped(w) /\ m \in MissionId
      /\ stack' = Land(m, S) /\ pc'[w] = "closing"
  BY DEF Stock, Snaps, ProcessBuildUnit, Delivers, Typed, AtWork, Goto, Process
<1>2. /\ o \in BuildOrders /\ o.count \in Nat /\ o.count > 0 /\ p \in Planet
      /\ S \subseteq StackId
      /\ \A s \in S : stack[s].count = 0 \/ stack[s].mission = m
      /\ m # 0
  BY <1>1, BuildOrder, Rows DEF Delivers, Snapped
<1>3. /\ \A s \in StackId : stack[s] \in StackRow
      /\ \A s \in there : /\ s \in StackId /\ stack[s].count > 0 /\ stack[s].mission = 0
                          /\ stack[s].planet = p /\ stack[s].unit = o.unit
  BY <1>1, Rows DEF AtHome
<1>4. CASE p \in mine /\ there # {} /\ S # {}
  <2> DEFINE into == CHOOSE s \in there : TRUE
             W == Without(S)
  <2>1. into \in there
    BY <1>4
  <2>2. into \in StackId /\ into \notin S
    BY SMTT(60), <1>2, <1>3, <2>1
  <2>3. stack' = [W EXCEPT ![into].count = @ + o.count]
    BY <1>1, <1>4 DEF Land
  <2>4. DOMAIN W = StackId /\ W[into] = stack[into]
    BY <2>2 DEF Without
  <2>5. /\ \A s \in S : /\ W[s].count = 0 /\ W[s].unit = stack[s].unit /\ W[s].mission = stack[s].mission
                        /\ W[s].planet = stack[s].planet /\ W[s] \in StackRow
        /\ \A s \in StackId \ S : W[s] = stack[s]
    BY <1>2, <1>3 DEF Without, StackRow
  <2> DEFINE r == [stack[into] EXCEPT !.count = @ + o.count]
  <2>6. /\ r \in StackRow /\ r.count = stack[into].count + o.count /\ r.unit = stack[into].unit
        /\ r.mission = 0 /\ r.planet = p
    <3>1. stack[into] \in StackRow /\ stack[into].count + o.count \in Nat
      BY <1>2, <1>3, <2>2 DEF StackRow
    <3> HIDE DEF into
    <3> QED
      BY SMTT(60), <1>3, <2>1, <3>1 DEF StackRow
  <2> HIDE DEF W, into
  <2>7. stack' = [W EXCEPT ![into] = r]
    BY <2>3, <2>4
  <2> HIDE DEF r
  <2>8. stack'[into] = r /\ \A s \in StackId \ {into} : stack'[s] = W[s]
    BY <2>2, <2>4, <2>7
  <2>9. stack' \in [StackId -> StackRow]
    BY <1>3, <2>2, <2>4, <2>5, <2>6, <2>7
  <2>10. stack' \in Seq(StackRow) /\ StackId' = StackId
    BY <1>1, <2>9, IsTable DEF Stocked, StackId
  <2>11. \A s \in S : Gone(s)
    BY <1>2, <2>2, <2>5, <2>8 DEF Gone
  <2>12. Joined(w)
    BY <2>1, <2>2, <2>5, <2>6, <2>8, <2>11 DEF Joined
  <2>13. Shipped(into)
    BY <1>1, <1>3, <1>4, <2>1, <2>6, <2>8 DEF Shipped
  <2> QED
    BY <2>2, <2>5, <2>8, <2>10, <2>11, <2>12, <2>13 DEF StackStep
<1>5. CASE ~(p \in mine /\ there # {} /\ S # {})
  <2> DEFINE row(s) == IF s \in S /\ stack[s].count > 0
                       THEN [stack[s] EXCEPT !.planet = p, !.mission = 0] ELSE stack[s]
  <2>1. stack' = [s \in StackId |-> row(s)]
    BY <1>1, <1>5 DEF Land
  <2>2. \A s \in StackId : /\ row(s) \in StackRow /\ row(s).count = stack[s].count
                           /\ row(s).unit = stack[s].unit
                           /\ s \in S /\ stack[s].count > 0 => row(s).planet = p /\ row(s).mission = 0
                           /\ ~(s \in S /\ stack[s].count > 0) => row(s) = stack[s]
    BY <1>2, <1>3 DEF StackRow
  <2> HIDE DEF row
  <2>3. stack' \in [StackId -> StackRow] /\ \A s \in StackId : stack'[s] = row(s)
    BY <2>1, <2>2
  <2>4. stack' \in Seq(StackRow) /\ StackId' = StackId
    BY <1>1, <2>3, IsTable DEF Stocked, StackId
  <2>5. \A s \in S : stack[s].count > 0 => Shipped(s)
    BY <1>1, <1>2, <2>2, <2>3 DEF Shipped
  <2> QED
    BY SMTT(60), <2>2, <2>3, <2>4, <2>5 DEF StackStep
<1> QED
  BY <1>4, <1>5

(* The order a registration commits is one that has a price.               *)
LEMMA CommitStacks ==
    ASSUME Stock, NEW c \in Client, CommitRegister(c)
    PROVE  /\ StackStep /\ OrdersKept
           /\ order[c] \in Payable /\ Fit(order[c]) /\ Price(order[c]) \in Nat
           /\ MissionId' = MissionId \cup {Len(mission) + 1} /\ Len(mission) + 1 \notin MissionId
           /\ \A m \in MissionId : mission'[m] = mission[m]
           /\ mission'[Len(mission) + 1] = NewMission(order[c])
           /\ \/ order[c].type = "LEVEL_UP" /\ stack' = stack
              \/ /\ order[c] \in BuildOrders
                 /\ StackId' = StackId \cup {Len(stack) + 1} /\ Len(stack) + 1 \notin StackId
                 /\ \A s \in StackId : stack'[s] = stack[s]
                 /\ stack'[Len(stack) + 1].unit = order[c].unit
                 /\ stack'[Len(stack) + 1].count = order[c].count
<1> DEFINE o == order[c]
           n == Len(mission) + 1
           e == [unit |-> o.unit, count |-> o.count, mission |-> n, planet |-> Nobody]
<1>1. Typed /\ Stocked /\ o \in Payable /\ Fit(o) /\ Price(o) \in Nat
  BY PriceTyped DEF Stock, Requested, CommitRegister
<1>2. /\ MissionId' = MissionId \cup {n} /\ n \notin MissionId /\ n \in Nat
      /\ \A m \in MissionId : mission'[m] = mission[m]
      /\ mission'[n] = NewMission(o)
  <2>1. /\ MissionId' = MissionId \cup {n}
        /\ \A m \in MissionId : mission'[m] = mission[m]
        /\ mission'[n] = NewMission(o)
        /\ MissionId = 1 .. Len(mission) /\ Len(mission) \in Nat
    BY <1>1, CommitAppends
  <2> QED
    BY <2>1
<1>3. mission'[n].order = o
  BY <1>2 DEF NewMission
<1>4. stack' = IF o.type # "BUILD_UNIT" THEN stack ELSE Append(stack, e)
  BY DEF CommitRegister
<1>5. CASE o \in BuildOrders
  <2>1. o.type = "BUILD_UNIT" /\ o.unit \in Unit /\ o.count \in Nat
    BY <1>5, BoundAssumption DEF BuildOrders
  <2>2. e \in StackRow
    BY <1>2, <2>1 DEF StackRow
  <2>3. stack \in Seq(StackRow) /\ stack' = Append(stack, e)
    BY <1>1, <1>4, <2>1 DEF Stocked
  <2>4. e.mission = n /\ e.unit = o.unit /\ e.count = o.count
    OBVIOUS
  <2> HIDE DEF e, n, o
  <2>5. /\ stack' \in Seq(StackRow) /\ stack'[Len(stack) + 1] = e
        /\ \A s \in StackId : stack'[s] = stack[s]
        /\ StackId' = StackId \cup {Len(stack) + 1} /\ Len(stack) + 1 \notin StackId
    BY <2>2, <2>3, Longer DEF StackId
  <2>6. StackStep
    BY <1>2, <1>3, <2>1, <2>4, <2>5 DEF StackStep
  <2>7. OrdersKept
    BY <1>2 DEF OrdersKept
  <2> QED
    BY <1>1, <1>2, <1>5, <2>4, <2>5, <2>6, <2>7 DEF n, o
<1>6. CASE o \in [type : {"LEVEL_UP"}, level : Nat \ {0}]
  <2>1. o.type = "LEVEL_UP" /\ stack' = stack
    BY <1>4, <1>6
  <2>2. StackStep /\ OrdersKept
    BY <1>1, <1>2, <2>1 DEF StackStep, OrdersKept, Stocked, StackId
  <2> QED
    BY <1>1, <1>2, <2>1, <2>2
<1> QED
  BY <1>1, <1>5, <1>6 DEF Payable

(* Those who are on a planet that is conquered.                            *)
Dead(p) == UNION {AtHome(p, u) : u \in Unit}

(* Every step moves the stacks that way, and the prices stay.              *)
LEMMA AllStacks ==
    ASSUME Stock, [Next]_vars
    PROVE  StackStep /\ OrdersKept /\ purse' \in Int /\ lost' \in Nat /\ Sold'
<1>1. /\ Typed /\ Stocked /\ Sold /\ purse \in Int /\ lost \in Nat
      /\ \A m \in MissionId : mission[m].paid \in Nat
  BY DEF Stock, Stocked, Sold
<1>2. ASSUME SameSales \/ \E m \in MissionId : Refunded(m)
      PROVE  OrdersKept /\ Sold'
  BY <1>1, <1>2 DEF SameSales, Refunded, OrdersKept, Sold, IsBuild, MissionId, Typed
<1>3. \A S \in SUBSET StackId : Worth(S) \in Nat
  BY <1>1, WorthTyped
<1>4. CASE Quiet
  BY <1>1, <1>2, <1>4 DEF Quiet, StackStep, Stocked, StackId
<1>5. ASSUME NEW c \in Client, CommitRegister(c)
      PROVE  StackStep /\ OrdersKept /\ purse' \in Int /\ lost' \in Nat /\ Sold'
  <2> DEFINE o == order[c]
             n == Len(mission) + 1
  <2>1. /\ StackStep /\ OrdersKept /\ o \in Payable /\ Price(o) \in Nat
        /\ MissionId' = MissionId \cup {n}
        /\ \A m \in MissionId : mission'[m] = mission[m]
        /\ mission'[n] = NewMission(o)
    BY <1>5, CommitStacks
  <2>2. purse' = purse - Price(o) /\ lost' = lost
    BY <1>5 DEF CommitRegister
  <2>3. mission'[n].order = o /\ mission'[n].paid = Price(o)
    BY <2>1 DEF NewMission
  <2>4. Sold'
    BY <1>1, <2>1, <2>3 DEF Sold, IsBuild, Price
  <2> QED
    BY <1>1, <2>1, <2>2, <2>4
<1>6. ASSUME NEW c \in Client, CommitCancel(c)
      PROVE  StackStep /\ OrdersKept /\ purse' \in Int /\ lost' \in Nat /\ Sold'
  <2>1. cur[c] \in MissionId /\ lost' = lost /\ stack' = Without(InBuild(cur[c]))
    BY <1>1, <1>6 DEF CommitCancel, Typed, AtWork, Process
  <2>2. Refunded(cur[c])
    BY <1>1, <1>6, <2>1, RefundSales DEF CommitCancel
  <2>3. StackStep
    BY <1>1, <2>1, WithoutRows DEF InBuild
  <2> QED
    BY <1>1, <1>2, <2>1, <2>2, <2>3 DEF Refunded
<1>7. ASSUME NEW w \in Worker, ProcessBuildUnit(w)
      PROVE  StackStep /\ OrdersKept /\ purse' \in Int /\ lost' \in Nat /\ Sold'
  <2>1. cur[w] \in MissionId /\ mission' = Delivered(cur[w]) /\ UNCHANGED <<purse, lost>>
    BY <1>1, <1>7 DEF ProcessBuildUnit, Typed, AtWork, Process
  <2> QED
    BY <1>1, <1>2, <1>7, <2>1, Landing, DeliveredSales
<1>8. ASSUME NEW w \in Worker, DropUnits(w)
      PROVE  StackStep /\ OrdersKept /\ purse' \in Int /\ lost' \in Nat /\ Sold'
  <2>1. /\ UNCHANGED <<mission, purse>> /\ InBuild(cur[w]) \subseteq StackId
        /\ lost' = lost + Worth(InBuild(cur[w])) /\ stack' = Without(InBuild(cur[w]))
    BY <1>8 DEF DropUnits, InBuild
  <2>2. SameSales
    BY <1>1, <2>1 DEF SameSales, Typed
  <2> QED
    BY <1>1, <1>2, <1>3, <2>1, <2>2, WithoutRows
<1>9. CASE CommitConquest
  <2> DEFINE p == order[Rival].planet
             B == IF cur[Rival] = 0 THEN {} ELSE InBuild(cur[Rival])
  <2>1. /\ stack' = Without(Dead(p) \cup B) /\ lost' = lost + Worth(Dead(p))
        /\ \/ cur[Rival] = 0 /\ UNCHANGED <<mission, purse>>
           \/ cur[Rival] # 0 /\ Refund(cur[Rival])
    BY <1>9 DEF CommitConquest, Dead
  <2>2. Dead(p) \subseteq StackId /\ B \subseteq StackId
    BY DEF Dead, AtHome, InBuild
  <2>3. StackStep
    <3>1. Dead(p) \cup B \in SUBSET StackId
      BY <2>2
    <3> HIDE DEF B, p
    <3> QED
      BY <1>1, <2>1, <3>1, WithoutRows
  <2>4. lost' \in Nat
    BY <1>1, <1>3, <2>1, <2>2
  <2>5. CASE cur[Rival] = 0 /\ UNCHANGED <<mission, purse>>
    <3>1. SameSales
      BY <1>1, <2>5 DEF SameSales, Typed
    <3> QED
      BY <1>1, <1>2, <2>3, <2>4, <2>5, <3>1
  <2>6. CASE cur[Rival] # 0 /\ Refund(cur[Rival])
    <3>1. cur[Rival] \in MissionId
      BY <1>1, <2>6 DEF Typed, Process
    <3>2. Refunded(cur[Rival])
      BY <1>1, <2>6, <3>1, RefundSales
    <3> QED
      BY SMTT(60), <1>1, <1>2, <2>3, <2>4, <3>1, <3>2 DEF Refunded
  <2> QED
    BY <2>1, <2>5, <2>6
<1>10. CASE Trade
  <2>1. \/ \E c \in Client : CommitRegister(c)
        \/ \E c \in Client : CommitCancel(c)
        \/ \E w \in Worker : ProcessBuildUnit(w)
        \/ \E w \in Worker : DropUnits(w)
        \/ CommitConquest
    BY <1>10, Zenon DEF Trade
  <2> QED
    BY ONLY <2>1, <1>5, <1>6, <1>7, <1>8, <1>9, Zenon
<1> QED
  BY <1>1, <1>4, <1>10, QuietOrTrade

(* The units in build stay those of the orders.                            *)
LEMMA NextStocked ==
    ASSUME Stock, [Next]_vars
    PROVE  Stocked'
<1>1. /\ Typed /\ Stocked /\ StackStep /\ OrdersKept /\ purse' \in Int /\ lost' \in Nat
  BY AllStacks DEF Stock
<1>2. stack' \in Seq(StackRow)
  BY <1>1 DEF StackStep
<1>3. ASSUME NEW s \in StackId, stack'[s].mission # 0
      PROVE  /\ stack'[s].mission = stack[s].mission /\ stack'[s].unit = stack[s].unit
             /\ stack'[s].count \in {0, stack[s].count}
  <2>1. stack'[s] = stack[s] \/ Gone(s) \/ Shipped(s)
    BY <1>1 DEF StackStep
  <2>2. ~Shipped(s)
    BY <1>3 DEF Shipped
  <2> QED
    BY <2>1, <2>2 DEF Gone
<1>4. \A s \in StackId : stack[s].mission # 0 =>
          LET m == stack[s].mission
          IN  /\ m \in MissionId /\ mission[m].order.type = "BUILD_UNIT"
              /\ stack[s].unit = mission[m].order.unit
              /\ stack[s].count \in {0, mission[m].order.count}
  BY <1>1 DEF Stocked, IsBuild
<1>5. ASSUME NEW s \in StackId', stack'[s].mission # 0
      PROVE  LET m == stack'[s].mission
             IN  /\ m \in MissionId' /\ mission'[m].order.type = "BUILD_UNIT"
                 /\ stack'[s].unit = mission'[m].order.unit
                 /\ stack'[s].count \in {0, mission'[m].order.count}
  <2>1. CASE s \in StackId
    BY <1>1, <1>3, <1>4, <1>5, <2>1 DEF OrdersKept
  <2>2. CASE s \notin StackId
    BY <1>1, <1>5, <2>2 DEF StackStep
  <2> QED
    BY <2>1, <2>2
<1>6. ASSUME NEW s \in StackId', NEW t \in StackId',
             stack'[s].mission # 0, stack'[s].mission = stack'[t].mission
      PROVE  s = t
  <2>1. CASE s \in StackId /\ t \in StackId
    BY <1>1, <1>3, <1>6, <2>1 DEF Stocked
  <2>2. CASE s \notin StackId /\ t \notin StackId
    BY <1>1, <2>2 DEF StackStep
  <2>3. ASSUME NEW a \in StackId, NEW b \in StackId' \ StackId,
               stack'[a].mission # 0, stack'[a].mission = stack'[b].mission
        PROVE  FALSE
    BY <1>1, <1>3, <1>4, <2>3 DEF StackStep
  <2> QED
    BY <1>6, <2>1, <2>2, <2>3
<1> QED
  BY <1>1, <1>2, <1>5, <1>6 DEF Stocked, IsBuild

(* What is registered has a price, and its count suits the unit.           *)
LEMMA NextRequested ==
    ASSUME Stock, [Next]_vars
    PROVE  Requested'
<1>1. /\ Typed /\ Requested /\ DOMAIN snap = Process /\ pc \in [Process -> Places] /\ level \in Nat
      /\ \A d \in Client : pc[d] \in {"ordered", "registering"} => order[d] \in Orders
  BY DEF Stock, Snaps, Typed
<1> SUFFICES ASSUME NEW c \in Client
             PROVE  /\ pc'[c] = "registering" => order'[c] \in Payable
                    /\ pc'[c] \in {"ordered", "registering"} => Fit(order'[c])
  BY DEF Requested, Fit
<1>2. /\ pc[c] = "registering" => order[c] \in Payable
      /\ pc[c] \in {"ordered", "registering"} => Fit(order[c])
  BY <1>1 DEF Requested
<1>3. c \in Process
  BY DEF Process
<1>4. CASE UNCHANGED <<pc, lock, locals>>
  BY <1>2, <1>4 DEF locals
<1>5. ASSUME NEW x \in Process, NEW place \in Places, Acts(x, place), x # c
      PROVE  pc'[c] = pc[c] /\ order'[c] = order[c]
  BY <1>1, <1>3, <1>5 DEF Acts, Goto
<1>6. ASSUME NEW place \in Places, Acts(c, place)
      PROVE  /\ pc'[c] = "registering" => order'[c] \in Payable
             /\ pc'[c] \in {"ordered", "registering"} => Fit(order'[c])
  <2>1. pc'[c] = place
    BY <1>1, <1>3, <1>6 DEF Acts, Goto
  <2>2. CASE place = "registering"
    <3>1. BeginRegister(c)
      BY <1>6, <2>2 DEF Acts
    <3>2. pc[c] = "ordered" /\ order'[c] = IF order[c].type = "LEVEL_UP" THEN NextLevel ELSE order[c]
      BY <1>1, <1>3, <3>1 DEF BeginRegister, Typed
    <3>3. NextLevel \in Payable /\ Fit(NextLevel)
      BY <1>1 DEF NextLevel, Payable, Fit
    <3>4. order[c].type # "LEVEL_UP" => order[c] \in Payable /\ Fit(order[c])
      BY <1>1, <1>2, <3>2 DEF Orders, Payable
    <3> QED
      BY <2>1, <2>2, <3>2, <3>3, <3>4
  <2>3. CASE place = "ordered"
    <3>1. AskBuild(c) \/ AskLevelUp(c)
      BY <1>6, <2>3 DEF Acts
    <3>2. ASSUME NEW o, AskFor(c, o) PROVE order'[c] = o
      BY <1>1, <1>3, <3>2 DEF AskFor, Typed
    <3>3. Fit(order'[c])
      BY <3>1, <3>2 DEF AskBuild, AskLevelUp, Fit, BuildOrders
    <3> QED
      BY <2>1, <2>3, <3>3
  <2> QED
    BY <2>1, <2>2, <2>3
<1> QED
  BY <1>1, <1>2, <1>4, <1>5, <1>6, OneActs

(* How many units a set of stacks has.                                     *)
LEMMA CountTyped ==
    ASSUME Typed, Stocked
    PROVE  /\ \A s \in StackId : Counts[s] = stack[s].count /\ Counts[s] \in Nat /\ Counts[s] \in Int
           /\ \A S \in SUBSET StackId : Count(S) \in Nat /\ Count(S) = Total(Counts, S) /\ IsFiniteSet(S)
<1>1. ASSUME NEW s \in StackId
      PROVE  Counts[s] = stack[s].count /\ Counts[s] \in Nat /\ Counts[s] \in Int
  BY Rows DEF StackRow, Counts
<1>2. ASSUME NEW S \in SUBSET StackId
      PROVE  Count(S) \in Nat /\ Count(S) = Total(Counts, S) /\ IsFiniteSet(S)
  <2>1. IsFiniteSet(S)
    BY Rows, FS_Subset
  <2>2. \A s \in S : Counts[s] \in Nat
    BY <1>1
  <2> QED
    BY <2>1, <2>2, TotalNat, CountIsTotal
<1> QED
  BY <1>1, <1>2

OfUnit(u) == {s \in StackId : stack[s].unit = u}

(* Where there is one of a kind, it is in one stack.                       *)
LEMMA OneStack ==
    ASSUME Typed, Stocked, NEW u, Count(OfUnit(u)) <= 1,
           NEW s \in OfUnit(u), NEW t \in OfUnit(u), stack[s].count > 0, stack[t].count > 0
    PROVE  s = t
<1> SUFFICES ASSUME s # t PROVE FALSE
  OBVIOUS
<1> DEFINE S == OfUnit(u)
<1>1. S \in SUBSET StackId /\ s \in StackId /\ t \in StackId
  BY DEF OfUnit
<1>2. /\ \A x \in S : Counts[x] \in Nat /\ Counts[x] \in Int
      /\ Counts[s] = stack[s].count /\ Counts[t] = stack[t].count
      /\ Count(S) = Total(Counts, S) /\ IsFiniteSet(S)
  BY <1>1, CountTyped
<1> HIDE DEF S
<1>3. s \in S /\ t \in S \ {s} /\ IsFiniteSet(S \ {s})
  BY <1>2, FS_RemoveElement DEF S
<1>4. Total(Counts, S) = Counts[s] + Total(Counts, S \ {s})
  BY <1>2, <1>3, TotalTake
<1>5. Counts[t] <= Total(Counts, S \ {s}) /\ Total(Counts, S \ {s}) \in Nat
  <2>1. \A x \in S \ {s} : Counts[x] \in Nat
    BY <1>2
  <2> QED
    BY <1>3, <2>1, TotalAtLeast, TotalNat
<1>6. Counts[s] \in Nat /\ Counts[t] \in Nat /\ Counts[s] > 0 /\ Counts[t] > 0
  BY <1>2, <1>3
<1>7. Total(Counts, S) <= 1
  BY <1>2 DEF S
<1> QED
  BY <1>4, <1>5, <1>6, <1>7

(* A worker that another one does not disturb keeps the lock.              *)
LEMMA LockKept ==
    ASSUME NEW x, NEW w \in Worker, w # x, NEW place, Acts(x, place), NEW k \in Key, lock[k] = w
    PROVE  lock'[k] = w
<1>1. w # Nobody
  BY ProcessAssumption DEF Process
<1> QED
  BY <1>1, DropKeeps, TakeKeeps DEF Acts

(* What a worker read before its delivery stays true until then: the lock  *)
(* of the planet keeps the other workers from it.                          *)
LEMMA NextSnapped ==
    ASSUME Stock, [Next]_vars, NEW w \in Worker, Delivers(w),
           pc'[w] = "running", cur'[w] = cur[w], snap'[w] = snap[w],
           \A k \in Key : lock[k] = w => lock'[k] = w
    PROVE  Snapped(w)'
<1> DEFINE o == mission[cur[w]].order
<1>1. /\ Typed /\ Stocked /\ StackStep /\ OrdersKept /\ Snapped(w) /\ Typed'
      /\ \A v \in Worker : Delivers(v) => Snapped(v)
  BY AllStacks, NextTyped DEF Stock, Snaps
<1>2. cur[w] \in MissionId /\ cur[w] # 0
  BY <1>1, ProcessAssumption DEF Delivers, Typed, AtWork, Process
<1>3. mission'[cur'[w]].order = o
  BY <1>1, <1>2 DEF OrdersKept
<1>4. o.planet \in Key /\ lock[o.planet] = w /\ lock'[o.planet] = w
  BY <1>1, <1>2, BuildOrder DEF Delivers, Snapped, Key
<1>5. ASSUME NEW v \in Worker, Delivers(v), pc'[v] = "closing"
      PROVE  cur[v] # cur[w] /\ mission[cur[v]].order.planet # o.planet
  <2>1. v # w /\ lock[mission[cur[v]].order.planet] = v
    BY <1>1, <1>5 DEF Snapped
  <2> QED
    BY <1>4, <2>1
<1>6. ASSUME NEW s \in StackId, Shipped(s), s \in snap[w].units
      PROVE  FALSE
  <2>1. PICK v \in Worker : /\ Delivers(v) /\ pc'[v] = "closing" /\ stack[s].count > 0
                            /\ s \in snap[v].units \/ s \in AtHome(mission[cur[v]].order.planet, mission[cur[v]].order.unit)
    BY <1>6 DEF Shipped
  <2>2. Snapped(v) /\ cur[v] # cur[w]
    BY <1>1, <1>5, <2>1
  <2>3. stack[s].count \in Nat /\ stack[s].count # 0
    BY <1>1, <2>1, Rows DEF StackRow
  <2>4. stack[s].mission = cur[w]
    BY <1>1, <1>6, <2>3 DEF Snapped
  <2> QED
    BY <1>2, <2>1, <2>2, <2>3, <2>4 DEF Snapped, AtHome
<1>7. \A s \in snap[w].units : s \in StackId' /\ (stack'[s].count = 0 \/ stack'[s].mission = cur[w])
  <2> SUFFICES ASSUME NEW s \in snap[w].units
               PROVE  s \in StackId' /\ (stack'[s].count = 0 \/ stack'[s].mission = cur[w])
    OBVIOUS
  <2>1. s \in StackId /\ (stack[s].count = 0 \/ stack[s].mission = cur[w])
    BY <1>1 DEF Snapped
  <2>2. s \in StackId' /\ (stack'[s] = stack[s] \/ Gone(s))
    BY <1>1, <1>6, <2>1 DEF StackStep
  <2> QED
    BY <2>1, <2>2 DEF Gone
<1>8. ASSUME AtHome(o.planet, o.unit) = {}, NEW t \in StackId', stack'[t].count > 0,
             stack'[t].mission = 0, stack'[t].planet = o.planet, stack'[t].unit = o.unit
      PROVE  FALSE
  <2>1. t \in StackId
    <3>1. \A m \in MissionId' : m # 0
      BY <1>1 DEF Typed, MissionId
    <3> QED
      BY <1>1, <1>8, <3>1 DEF StackStep
  <2>2. stack'[t] # stack[t]
    BY <1>8, <2>1 DEF AtHome
  <2>3. ~Shipped(t)
    BY <1>5, <1>8 DEF Shipped
  <2> QED
    BY <1>1, <1>8, <2>1, <2>2, <2>3 DEF StackStep, Gone
<1>9. o.unit \in Unique /\ snap[w].units # {} => AtHome(o.planet, o.unit)' = {}
  <2> SUFFICES ASSUME o.unit \in Unique, snap[w].units # {}, NEW t \in AtHome(o.planet, o.unit)'
               PROVE  FALSE
    OBVIOUS
  <2>1. AtHome(o.planet, o.unit) = {}
    BY <1>1 DEF Snapped
  <2>2. /\ t \in StackId' /\ stack'[t].count > 0 /\ stack'[t].mission = 0
        /\ stack'[t].planet = (o.planet)' /\ stack'[t].unit = (o.unit)'
    BY DEF AtHome
  <2> QED
    BY <1>8, <2>1, <2>2, <1>3
<1> QED
  BY <1>3, <1>4, <1>7, <1>9 DEF Snapped

(* What BeginRun reads.                                                    *)
LEMMA BeginSnapped ==
    ASSUME Stock, UniqueOnce, [Next]_vars, NEW w \in Worker, BeginRun(w), Delivers(w)'
    PROVE  Snapped(w)'
<1> DEFINE m == cur[w]
           o == mission[m].order
<1>1. /\ Typed /\ Stocked /\ DOMAIN snap = Process /\ w \in Process
      /\ UNCHANGED <<mission, stack, cur>>
  BY DEF Stock, Snaps, Process, BeginRun, rows
<1>2. snap'[w] = [seen |-> Exists(m), units |-> InBuild(m)]
  BY <1>1 DEF BeginRun
<1>3. IsBuild(m) /\ Exists(m)
  BY <1>1, <1>2 DEF Delivers, IsBuild
<1>4. m \in MissionId
  BY <1>1 DEF BeginRun, Typed, AtWork, Process
<1>5. o.planet \in Key /\ o.unit \in Unit
  BY <1>1, <1>3, <1>4, BuildOrder DEF Key
<1>6. lock'[o.planet] = w
  BY <1>3, <1>5 DEF BeginRun, Take
<1>7. InBuild(m) \subseteq StackId /\ \A s \in InBuild(m) : stack[s].mission = m /\ stack[s].count > 0
  BY DEF InBuild
<1>8. ASSUME o.unit \in Unique, NEW s \in InBuild(m), NEW t \in AtHome(o.planet, o.unit)
      PROVE  FALSE
  <2>1. Count(OfUnit(o.unit)) <= 1
    BY <1>8 DEF UniqueOnce, OfUnit
  <2>2. s \in StackId /\ stack[s].mission = m /\ stack[s].count > 0 /\ m # 0
    BY <1>1, <1>4, Rows DEF InBuild
  <2>3. stack[s].unit = o.unit
    BY <1>1, <2>2 DEF Stocked
  <2>4. t \in StackId /\ stack[t].unit = o.unit /\ stack[t].count > 0 /\ stack[t].mission = 0
    BY DEF AtHome
  <2>5. s \in OfUnit(o.unit) /\ t \in OfUnit(o.unit)
    BY <2>2, <2>3, <2>4 DEF OfUnit
  <2>6. s = t
    BY <1>1, <2>1, <2>2, <2>4, <2>5, OneStack
  <2> QED
    BY <2>2, <2>4, <2>6
<1>9. o.unit \in Unique /\ InBuild(m) # {} => AtHome(o.planet, o.unit) = {}
  BY <1>8
<1>10. AtHome(o.planet, o.unit)' = AtHome(o.planet, o.unit)
  BY <1>1 DEF AtHome, StackId
<1> QED
  BY <1>1, <1>2, <1>6, <1>7, <1>9, <1>10 DEF Snapped, StackId

(* The deliveries at hand are as they were read.                           *)
LEMMA NextSnaps ==
    ASSUME Stock, UniqueOnce, [Next]_vars
    PROVE  Snaps'
<1>1. /\ Typed /\ DOMAIN snap = Process /\ pc \in [Process -> Places] /\ Worker \subseteq Process
      /\ OrdersKept
  BY AllStacks DEF Stock, Snaps, Typed, Process
<1>2. DOMAIN snap' = Process
  BY <1>1, OneActs DEF Acts, locals
<1>3. ASSUME NEW w \in Worker, Delivers(w)', pc'[w] = pc[w], cur'[w] = cur[w], snap'[w] = snap[w],
             \A k \in Key : lock[k] = w => lock'[k] = w
      PROVE  Snapped(w)'
  <2>1. pc'[w] = "running" /\ pc[w] = "running" /\ snap[w].seen /\ mission'[cur[w]].order.type = "BUILD_UNIT"
    BY <1>3 DEF Delivers, IsBuild
  <2>2. cur[w] \in MissionId
    BY <1>1, <2>1 DEF Typed, AtWork
  <2>3. Delivers(w)
    BY <1>1, <2>1, <2>2 DEF OrdersKept, Delivers, IsBuild
  <2> QED
    BY <1>3, <2>1, <2>3, NextSnapped
<1>4. ASSUME NEW w \in Worker, Delivers(w)' PROVE Snapped(w)'
  <2>1. CASE UNCHANGED <<pc, lock, locals>>
    BY <1>3, <1>4, <2>1 DEF locals
  <2>2. ASSUME NEW x \in Process, NEW place \in Places, Acts(x, place)
        PROVE  Snapped(w)'
    <3>1. CASE x = w
      <4>1. pc'[w] = place /\ pc'[w] = "running"
        BY <1>1, <1>4, <2>2, <3>1 DEF Acts, Goto, Delivers
      <4>2. BeginRun(w)
        BY <2>2, <3>1, <4>1 DEF Acts
      <4> QED
        BY <1>4, <4>2, BeginSnapped
    <3>2. CASE x # w
      <4>1. pc'[w] = pc[w] /\ cur'[w] = cur[w] /\ snap'[w] = snap[w]
        BY <1>1, <2>2, <3>2 DEF Acts, Goto
      <4>2. \A k \in Key : lock[k] = w => lock'[k] = w
        BY <2>2, <3>2, LockKept
      <4> QED
        BY <1>3, <1>4, <4>1, <4>2
    <3> QED
      BY <3>1, <3>2
  <2> QED
    BY <1>1, <2>1, <2>2, OneActs
<1> QED
  BY <1>2, <1>4 DEF Snaps

(* What every step keeps of the stock.                                     *)
LEMMA NextStock ==
    ASSUME Stock, UniqueOnce, [Next]_vars
    PROVE  Stock'
  BY AllStacks, NextStocked, NextRequested, NextSnaps, NextTyped DEF Stock

(* What it starts with.                                                    *)
LEMMA InitStock == Init => Stock
<1> SUFFICES ASSUME Init PROVE Stock
  OBVIOUS
<1>1. Typed
  BY InitTyped
<1>2. /\ mission = <<[order |-> [type |-> "LEVEL_UP", level |-> 1], paid |-> UpgradeCost,
                      state |-> "open", attemps |-> 1, task |-> "armed",
                      refunds |-> 0, landed |-> FALSE]>>
      /\ stack = <<[unit |-> FirstUnit, count |-> 1, mission |-> 0, planet |-> Home]>>
      /\ \A x \in Process : pc[x] = "idle"
      /\ purse = Purse /\ lost = 0 /\ DOMAIN snap = Process
  BY DEF Init
<1>3. Sold
  BY <1>2, PriceAssumption DEF Sold, MissionId, IsBuild
<1>4. Requested /\ Snaps
  BY <1>2 DEF Requested, Snaps, Delivers, Process
<1>5. FirstUnit \in Unit
  BY WorldAssumption DEF FirstUnit
<1>6. Stocked
  <2>1. [unit |-> FirstUnit, count |-> 1, mission |-> 0, planet |-> Home] \in StackRow
    BY <1>5, WorldAssumption DEF StackRow
  <2>2. stack \in Seq(StackRow)
    BY <1>2, <2>1
  <2> QED
    BY <1>2, <2>2, PriceAssumption DEF Stocked, StackId
<1> QED
  BY <1>1, <1>3, <1>4, <1>6 DEF Stock

------------------------------------------------------------------------------
(* Unique units: a registration commits while there is none of the kind,   *)
(* and no other step makes them more.                                      *)
Single ==
    \A c \in Client :
        pc[c] = "registering" /\ order[c].type = "BUILD_UNIT" /\ order[c].unit \in Unique =>
            Count(OfUnit(order[c].unit)) = 0

(* The stacks there are hold no more units of a unique kind afterwards.    *)
LEMMA NoneAdded ==
    ASSUME Stock, [Next]_vars, NEW u \in Unique
    PROVE  /\ OfUnit(u) \subseteq StackId /\ OfUnit(u)' \cap StackId = OfUnit(u)
           /\ \A s \in StackId' : Counts'[s] = stack'[s].count /\ Counts'[s] \in Nat /\ Counts'[s] \in Int
           /\ Total(Counts', OfUnit(u)) \in Nat /\ Total(Counts', OfUnit(u)) <= Count(OfUnit(u))
<1>1. /\ Typed /\ Stocked /\ StackStep /\ Typed' /\ Stocked'
      /\ \A w \in Worker : Delivers(w) => Snapped(w)
  BY AllStacks, NextTyped, NextStocked DEF Stock, Snaps
<1>2. StackId \subseteq StackId' /\ \A s \in StackId : stack'[s] = stack[s] \/ Gone(s) \/ Shipped(s)
  BY <1>1 DEF StackStep
<1>3. \A s \in StackId : stack'[s].unit = stack[s].unit
  BY <1>2 DEF Gone, Shipped
<1>4. OfUnit(u) \subseteq StackId /\ OfUnit(u)' \cap StackId = OfUnit(u)
  BY <1>2, <1>3 DEF OfUnit
<1>5. \A s \in StackId' : Counts'[s] = stack'[s].count /\ Counts'[s] \in Nat /\ Counts'[s] \in Int
  <2> SUFFICES ASSUME NEW s \in StackId'
               PROVE  Counts'[s] = stack'[s].count /\ Counts'[s] \in Nat /\ Counts'[s] \in Int
    OBVIOUS
  <2>1. stack' \in Seq(StackRow) /\ StackId' = DOMAIN stack'
    BY <1>1 DEF Stocked, StackId
  <2>2. stack'[s] \in StackRow
    BY <2>1
  <2> QED
    BY <2>2 DEF Counts, StackRow
<1>6. \A s \in StackId : Counts[s] = stack[s].count /\ Counts[s] \in Nat /\ Counts[s] \in Int
  BY <1>1, CountTyped
<1>7. ASSUME NEW s \in OfUnit(u)
      PROVE  Counts'[s] <= Counts[s]
  <2>1. s \in StackId /\ s \in StackId' /\ stack[s].unit = u
    BY <1>2 DEF OfUnit
  <2>2. CASE Shipped(s)
    <3>1. PICK w \in Worker :
             LET o == mission[cur[w]].order
             IN  /\ Delivers(w) /\ snap[w].units # {}
                 /\ \/ s \in snap[w].units /\ stack'[s].count = stack[s].count
                    \/ s \in AtHome(o.planet, o.unit)
      BY <2>2 DEF Shipped
    <3>2. s \notin AtHome(mission[cur[w]].order.planet, mission[cur[w]].order.unit)
      BY <1>1, <2>1, <3>1 DEF Snapped, AtHome
    <3> QED
      BY <1>5, <1>6, <2>1, <3>1, <3>2
  <2>3. CASE stack'[s] = stack[s] \/ Gone(s)
    BY <1>5, <1>6, <2>1, <2>3 DEF Gone
  <2> QED
    BY <1>2, <2>1, <2>2, <2>3
<1>8. IsFiniteSet(OfUnit(u)) /\ Count(OfUnit(u)) = Total(Counts, OfUnit(u))
  BY <1>1, <1>4, CountTyped
<1>9. \A s \in OfUnit(u) : Counts'[s] \in Nat /\ Counts'[s] \in Int /\ Counts[s] \in Int
  BY <1>2, <1>4, <1>5, <1>6
<1>10. Total(Counts', OfUnit(u)) \in Nat /\ Total(Counts, OfUnit(u)) <= Count(OfUnit(u))
  <2>1. \A s \in OfUnit(u) : Counts'[s] \in Nat
    BY <1>9
  <2>2. Total(Counts', OfUnit(u)) \in Nat
    BY ONLY <1>8, <2>1, TotalNat
  <2>3. Count(OfUnit(u)) \in Nat
    BY <1>1, <1>4, CountTyped
  <2> QED
    BY <1>8, <2>2, <2>3
<1>11. Total(Counts', OfUnit(u)) <= Total(Counts, OfUnit(u))
  <2>1. \A s \in OfUnit(u) : Counts'[s] \in Int /\ Counts[s] \in Int /\ Counts'[s] <= Counts[s]
    BY <1>7, <1>9
  <2> QED
    BY ONLY <1>8, <2>1, TotalMonotone
<1> QED
  BY <1>4, <1>5, <1>8, <1>10, <1>11

(* Only a registration makes new stacks.                                   *)
LEMMA NoNewStacks ==
    ASSUME Stock, [Next]_vars, ~Commit
    PROVE  StackId' = StackId
<1>1. StackStep /\ Onward /\ Typed
  BY AllStacks, NextOnward DEF Stock
<1>2. MissionId' = MissionId
  BY <1>1 DEF Onward, Typed, MissionId
<1> QED
  BY <1>1, <1>2 DEF StackStep

(* So a kind that did not grow has as many units afterwards.               *)
LEMMA CountFalls ==
    ASSUME Stock, [Next]_vars, NEW u \in Unique, OfUnit(u)' = OfUnit(u)
    PROVE  Count(OfUnit(u))' \in Nat /\ Count(OfUnit(u))' <= Count(OfUnit(u))
<1>1. OfUnit(u)' \subseteq StackId'
  BY DEF OfUnit
<1>2. \A S : S = OfUnit(u)' => Count(S)' = Count(OfUnit(u))'
  BY DEF Count
<1>3. Count(OfUnit(u))' = Total(Counts', OfUnit(u)')
  BY <1>1, CountIsTotalNext
<1> QED
  BY <1>3, NoneAdded

(* One unit of a unique kind, whatever is registered and delivered.        *)
LEMMA NextUnique ==
    ASSUME Stock, Checked, Single, UniqueOnce, [Next]_vars
    PROVE  UniqueOnce'
<1> SUFFICES ASSUME NEW u \in Unique PROVE Count(OfUnit(u))' <= 1
  BY DEF UniqueOnce, OfUnit
<1>1. Count(OfUnit(u)) <= 1 /\ Count(OfUnit(u)) \in Nat
  <2>1. OfUnit(u) \in SUBSET StackId /\ Typed /\ Stocked
    BY DEF OfUnit, Stock
  <2> QED
    BY <2>1, CountTyped DEF UniqueOnce, OfUnit
<1>2. CASE OfUnit(u)' = OfUnit(u)
  BY <1>1, <1>2, CountFalls
<1>3. CASE ~Commit
  <2>1. StackId' = StackId
    BY <1>3, NoNewStacks
  <2>2. OfUnit(u)' = OfUnit(u)
    BY <2>1, NoneAdded DEF OfUnit
  <2> QED
    BY <1>2, <2>2
<1>4. ASSUME NEW c \in Client, CommitRegister(c)
      PROVE  Count(OfUnit(u))' <= 1
  <2> DEFINE o == order[c]
             n == Len(stack) + 1
  <2>1. CASE stack' = stack
    <3>1. OfUnit(u)' = OfUnit(u)
      BY <2>1 DEF OfUnit, StackId
    <3> QED
      BY <1>2, <3>1
  <2>2. CASE /\ o \in BuildOrders /\ StackId' = StackId \cup {n} /\ n \notin StackId
             /\ \A s \in StackId : stack'[s] = stack[s]
             /\ stack'[n].unit = o.unit /\ stack'[n].count = o.count
    <3>1. CASE o.unit # u
      <4>1. OfUnit(u)' = OfUnit(u)
        BY <2>2, <3>1 DEF OfUnit
      <4> QED
        BY <1>2, <4>1
    <3>2. CASE o.unit = u
      <4>1. Fit(o) /\ o.type = "BUILD_UNIT" /\ pc[c] = "registering"
        BY <1>4, <2>2, CommitStacks DEF CommitRegister, BuildOrders
      <4>2. Count(OfUnit(u)) = 0 /\ stack'[n].count = 1
        BY <2>2, <3>2, <4>1 DEF Single, Fit
      <4>3. OfUnit(u)' = OfUnit(u) \cup {n} /\ n \notin OfUnit(u)
        BY <2>2, <3>2 DEF OfUnit
      <4>4. /\ IsFiniteSet(OfUnit(u)) /\ Total(Counts', OfUnit(u)) = 0
            /\ \A s \in OfUnit(u)' : Counts'[s] \in Int
            /\ Counts'[n] = 1
        <5>1. IsFiniteSet(OfUnit(u))
          BY NoneAdded, CountTyped DEF Stock
        <5>2. Total(Counts', OfUnit(u)) = 0
          BY <4>2, NoneAdded
        <5>3. \A s \in OfUnit(u)' : s \in StackId'
          BY DEF OfUnit
        <5> QED
          BY <2>2, <4>2, <5>1, <5>2, <5>3, NoneAdded
      <4> HIDE DEF n
      <4>5. Total(Counts', OfUnit(u) \cup {n}) = Counts'[n] + Total(Counts', OfUnit(u))
        <5>1. \A s \in OfUnit(u) \cup {n} : Counts'[s] \in Int
          BY <4>3, <4>4
        <5> QED
          BY ONLY <4>3, <4>4, <5>1, TotalAdd
      <4>6. OfUnit(u)' \subseteq StackId' /\ \A S : S = OfUnit(u)' => Count(S)' = Count(OfUnit(u))'
        BY DEF OfUnit, Count
      <4>7. Count(OfUnit(u))' = Total(Counts', OfUnit(u)')
        BY <4>6, CountIsTotalNext
      <4> QED
        BY <4>3, <4>4, <4>5, <4>7
    <3> QED
      BY <3>1, <3>2
  <2> QED
    BY <1>4, <2>1, <2>2, CommitStacks
<1> QED
  BY <1>3, <1>4 DEF Commit

(* The lock of the user keeps the count a registration checked.            *)
LEMMA NextSingle ==
    ASSUME Stock, Checked, Single, UniqueOnce, [Next]_vars
    PROVE  Single'
<1> SUFFICES ASSUME NEW c \in Client, pc'[c] = "registering", order'[c].type = "BUILD_UNIT",
                    order'[c].unit \in Unique
             PROVE  Count(OfUnit(order[c].unit))' = 0
  BY DEF Single
<1>0. PICK u \in Unique : u = order'[c].unit
  OBVIOUS
<1>1. Typed /\ Stocked /\ pc \in [Process -> Places] /\ DOMAIN order = Process /\ c \in Process
  BY DEF Stock, Typed, Process
<1>2. ~Commit
  <2> SUFFICES ASSUME NEW d \in Client, CommitRegister(d) PROVE FALSE
    BY DEF Commit
  <2>1. pc[d] = "registering" /\ pc' = [pc EXCEPT ![d] = "idle"]
    BY DEF CommitRegister, Rest, Goto
  <2>2. pc[c] = "registering" /\ c # d
    BY <1>1, <2>1
  <2> QED
    BY <1>1, <2>1, <2>2, OneCommits
<1>3. StackId' = StackId
  BY <1>2, NoNewStacks
<1>4. u \in Unique /\ OfUnit(u)' = OfUnit(u)
  <2>1. OfUnit(u)' \cap StackId = OfUnit(u)
    BY NoneAdded
  <2> QED
    BY <1>3, <2>1 DEF OfUnit
<1>5. Count(OfUnit(u)) = 0
  <2>1. PICK x \in Process : Moves(x)
    BY <1>1, OneMoves
  <2>2. CASE x # c
    BY <1>0, <2>1, <2>2 DEF Moves, Undisturbed, Single
  <2>3. CASE x = c
    <3>1. BeginRegister(c)
      BY <2>1, <2>3 DEF Moves
    <3>2. ~AlreadyBuilt(order'[c])
      BY <1>1, <3>1 DEF BeginRegister, MayRegister
    <3>3. OfUnit(u) \in SUBSET StackId
      BY DEF OfUnit
    <3>4. Count(OfUnit(u)) \in Nat
      BY <1>1, <3>3, CountTyped
    <3>5. ~(Count(OfUnit(u)) > 0)
      BY <1>0, <3>2 DEF AlreadyBuilt, OfUnit
    <3> QED
      BY <3>4, <3>5
  <2> QED
    BY <2>2, <2>3
<1>6. Count(OfUnit(u))' = 0
  <2>1. Count(OfUnit(u))' \in Nat /\ Count(OfUnit(u))' <= 0
    BY <1>4, <1>5, CountFalls
  <2> QED
    BY <2>1
<1>7. OfUnit(order[c].unit)' = OfUnit(u)'
  BY <1>0 DEF OfUnit
<1> QED
  BY <1>6, <1>7 DEF Count

(* Before anything is registered.                                          *)
LEMMA InitUnique == Init => Stock /\ Checked /\ OneAtATime /\ Single /\ UniqueOnce
<1> SUFFICES ASSUME Init PROVE Stock /\ Checked /\ OneAtATime /\ Single /\ UniqueOnce
  OBVIOUS
<1>1. Stock
  BY InitStock
<1>2. Checked /\ OneAtATime /\ Single
  BY ProcessAssumption DEF Init, Checked, OneAtATime, MissionId, Process, Single
<1>3. ASSUME NEW u \in Unique PROVE Count(OfUnit(u)) <= 1
  <2>1. FirstUnit \notin Unique
    <3>1. \E v \in Unit : v \notin Unique
      BY WorldAssumption
    <3> QED
      BY <3>1 DEF FirstUnit
  <2>2. \A s \in StackId : stack[s].unit = FirstUnit
    BY DEF Init, StackId
  <2>3. OfUnit(u) = {}
    BY <2>1, <2>2 DEF OfUnit
  <2>4. Count(OfUnit(u)) = 0
    BY <2>3, CountIsTotal, TotalEmpty
  <2> QED
    BY <2>4
<1> QED
  BY <1>1, <1>2, <1>3 DEF UniqueOnce, OfUnit

(* The invariant of the stock, with what the registrations checked.        *)
LEMMA NextKept ==
    ASSUME Stock, Checked, OneAtATime, Single, UniqueOnce, [Next]_vars
    PROVE  Stock' /\ Checked' /\ OneAtATime' /\ Single' /\ UniqueOnce'
  BY NextStock, NextChecked, NextUnique, NextSingle DEF Stock

(* Of a unique kind a player has one, wherever he builds it: the lock of   *)
(* the user covers the check, and a delivery only moves the unit.          *)
THEOREM SpecUniqueOnce == Spec => []UniqueOnce
<1>1. Stock /\ Checked /\ OneAtATime /\ Single /\ UniqueOnce /\ [Next]_vars
      => (Stock /\ Checked /\ OneAtATime /\ Single /\ UniqueOnce)'
  BY NextKept
<1> QED
  BY <1>1, InitUnique, PTL DEF Spec

------------------------------------------------------------------------------
(* Nothing is lost: what the player has, in his purse, in researches, in   *)
(* units and in those that are gone, never gets less.                      *)
Balance == purse + Research + Worth(StackId) + lost

(* All of it are numbers.                                                  *)
LEMMA SpentTyped ==
    ASSUME Typed, Sold
    PROVE  /\ \A m \in MissionId : Spent[m] = IF IsBuild(m) THEN 0 ELSE mission[m].paid * (1 - mission[m].refunds)
           /\ \A m \in MissionId : Spent[m] \in Int
           /\ Research \in Int
<1>1. \A m \in MissionId : Spent[m] = IF IsBuild(m) THEN 0 ELSE mission[m].paid * (1 - mission[m].refunds)
  BY DEF Spent
<1>2. ASSUME NEW m \in MissionId PROVE Spent[m] \in Int
  <2>0. mission[m] \in Row
    BY DEF Typed, MissionId
  <2>1. mission[m].paid \in Nat /\ mission[m].refunds \in Nat
    BY <2>0 DEF Sold, Row
  <2>2. 1 - mission[m].refunds \in Int
    BY <2>1
  <2>3. mission[m].paid * (1 - mission[m].refunds) \in Int
    BY <2>1, <2>2
  <2> QED
    BY <1>1, <2>3
<1>3. IsFiniteSet(MissionId)
  <2>1. MissionId = 1 .. Len(mission) /\ Len(mission) \in Nat
    BY DEF Typed, MissionId
  <2> QED
    BY <2>1, FS_Interval
<1> QED
  BY <1>1, <1>2, <1>3, TotalInt, ResearchIsTotal

(* The same for the missions, in the next state.                           *)
LEMMA SpentTypedNext ==
    ASSUME Typed', Sold'
    PROVE  /\ \A m \in MissionId' : Spent'[m] = IF mission'[m].order.type = "BUILD_UNIT" THEN 0
                                                ELSE mission'[m].paid * (1 - mission'[m].refunds)
           /\ \A m \in MissionId' : Spent'[m] \in Int
           /\ Research' \in Int /\ Research' = Total(Spent', MissionId')
<1>1. \A m \in MissionId' : Spent'[m] = IF mission'[m].order.type = "BUILD_UNIT" THEN 0
                                        ELSE mission'[m].paid * (1 - mission'[m].refunds)
  BY DEF Spent, IsBuild
<1>2. ASSUME NEW m \in MissionId' PROVE Spent'[m] \in Int
  <2>0. mission'[m] \in Row
    BY DEF Typed, MissionId
  <2>1. mission'[m].paid \in Nat /\ mission'[m].refunds \in Nat
    BY <2>0 DEF Sold, Row
  <2>2. 1 - mission'[m].refunds \in Int
    BY <2>1
  <2>3. mission'[m].paid * (1 - mission'[m].refunds) \in Int
    BY <2>1, <2>2
  <2> QED
    BY <1>1, <2>3
<1>3. IsFiniteSet(MissionId')
  <2>1. MissionId' = 1 .. Len(mission') /\ Len(mission') \in Nat
    BY DEF Typed, MissionId
  <2> QED
    BY <2>1, FS_Interval
<1> QED
  BY <1>1, <1>2, <1>3, TotalInt, ResearchIsTotalNext

(* The same for the stacks, in the next state.                             *)
LEMMA WorthTypedNext ==
    ASSUME Stocked'
    PROVE  /\ \A s \in StackId' : /\ Worths'[s] = stack'[s].count * UnitCost[stack'[s].unit]
                                  /\ Worths'[s] \in Nat /\ Worths'[s] \in Int
           /\ Worth(StackId)' \in Nat /\ Worth(StackId)' = Total(Worths', StackId')
<1>1. stack' \in Seq(StackRow) /\ StackId' = 1 .. Len(stack') /\ Len(stack') \in Nat
  BY DEF Stocked, StackId
<1>2. ASSUME NEW s \in StackId'
      PROVE  /\ Worths'[s] = stack'[s].count * UnitCost[stack'[s].unit]
             /\ Worths'[s] \in Nat /\ Worths'[s] \in Int
  <2>1. stack'[s] \in StackRow
    BY <1>1
  <2>2. stack'[s].count \in Nat /\ UnitCost[stack'[s].unit] \in Nat
    BY <2>1, PriceAssumption DEF StackRow
  <2>3. stack'[s].count * UnitCost[stack'[s].unit] \in Nat
    BY <2>2
  <2> QED
    BY <2>3 DEF Worths
<1>3. IsFiniteSet(StackId')
  BY <1>1, FS_Interval
<1>4. Worth(StackId)' = Total(Worths', StackId')
  <2>1. \A S : S = StackId' => Worth(S)' = Worth(StackId)'
    BY DEF Worth
  <2> QED
    BY <2>1, WorthIsTotalNext
<1> QED
  BY <1>2, <1>3, <1>4, TotalNat

(* Stacks that stay are worth the same.                                    *)
LEMMA WorthStays ==
    ASSUME Typed, Stocked, Stocked', stack' = stack
    PROVE  Worth(StackId)' = Worth(StackId)
<1>1. Worth(StackId)' = Total(Worths', StackId') /\ Worth(StackId) = Total(Worths, StackId)
  BY WorthTyped, WorthTypedNext
<1> QED
  BY <1>1 DEF Worths, StackId

(* Deleted stacks take their worth with them.                              *)
LEMMA WithoutWorth ==
    ASSUME Typed, Stocked, Stocked', NEW S \in SUBSET StackId, stack' = Without(S)
    PROVE  Worth(StackId) = Worth(StackId)' + Total(Worths, S)
<1>1. /\ StackId' = StackId /\ IsFiniteSet(StackId) /\ S \subseteq StackId
      /\ Worth(StackId) = Total(Worths, StackId) /\ Worth(StackId)' = Total(Worths', StackId)
  <2>1. StackId' = StackId
    BY WithoutRows
  <2>2. Worth(StackId)' = Total(Worths', StackId')
    BY WorthTypedNext
  <2>3. Worth(StackId) = Total(Worths, StackId) /\ IsFiniteSet(StackId)
    BY WorthTyped
  <2> QED
    BY <2>1, <2>2, <2>3
<1>2. \A s \in StackId : Worths[s] \in Int /\ Worths'[s] \in Int
  BY <1>1, WorthTyped, WorthTypedNext
<1>3. \A s \in S : Worths'[s] = 0
  <2> SUFFICES ASSUME NEW s \in S PROVE Worths'[s] = 0
    OBVIOUS
  <2>1. stack'[s].count = 0 /\ s \in StackId' /\ stack'[s] \in StackRow
    BY <1>1, WithoutRows DEF Gone, Stocked, StackId
  <2>2. UnitCost[stack'[s].unit] \in Nat
    BY <2>1, PriceAssumption DEF StackRow
  <2>3. Worths'[s] = stack'[s].count * UnitCost[stack'[s].unit]
    BY <2>1, WorthTypedNext
  <2> QED
    BY <2>1, <2>2, <2>3
<1>4. \A s \in StackId \ S : Worths'[s] = Worths[s]
  <2> SUFFICES ASSUME NEW s \in StackId \ S PROVE Worths'[s] = Worths[s]
    OBVIOUS
  <2>1. stack'[s] = stack[s] /\ s \in StackId'
    BY <1>1, WithoutRows
  <2> QED
    BY <2>1, WorthTyped, WorthTypedNext
<1>5. Total(Worths, StackId) = Total(Worths', StackId) + Total(Worths, S)
  BY ONLY <1>1, <1>2, <1>3, <1>4, TotalClear
<1> QED
  BY <1>1, <1>5

(* The stacks of a build are worth what was paid for it, at most.          *)
LEMMA BuildWorth ==
    ASSUME Typed, Stocked, Sold, NEW m \in MissionId, IsBuild(m), NEW S \in SUBSET StackId,
           \A s \in S : stack[s].count = 0 \/ stack[s].mission = m
    PROVE  Total(Worths, S) \in Nat /\ Total(Worths, S) <= mission[m].paid
<1>1. mission[m].paid \in Nat /\ mission[m].paid = UnitCost[mission[m].order.unit] * mission[m].order.count
  BY DEF Sold
<1>2. UnitCost[mission[m].order.unit] \in Nat /\ mission[m].order.count \in Nat /\ m # 0
  BY BuildOrder, Rows, PriceAssumption
<1>3. ASSUME NEW s \in S
      PROVE  /\ Worths[s] \in {0, mission[m].paid}
             /\ Worths[s] # 0 => stack[s].mission = m
  <2>1. s \in StackId /\ stack[s] \in StackRow /\ Worths[s] = stack[s].count * UnitCost[stack[s].unit]
    BY Rows, WorthTyped
  <2>2. CASE stack[s].count = 0
    <3>1. UnitCost[stack[s].unit] \in Nat
      BY <2>1, PriceAssumption DEF StackRow
    <3>2. Worths[s] = 0
      BY <2>1, <2>2, <3>1
    <3> QED
      BY <3>2
  <2>3. CASE stack[s].count # 0
    <3>1. stack[s].mission = m /\ stack[s].mission # 0
      BY <1>2, <1>3, <2>3
    <3>2. stack[s].unit = mission[m].order.unit /\ stack[s].count = mission[m].order.count
      BY <2>1, <2>3, <3>1 DEF Stocked
    <3>3. Worths[s] = mission[m].order.count * UnitCost[mission[m].order.unit]
      BY <2>1, <3>2
    <3>4. Worths[s] = mission[m].paid
      BY <1>1, <1>2, <3>3
    <3> QED
      BY <3>1, <3>4
  <2> QED
    BY <2>2, <2>3
<1>4. \A s, t \in S : Worths[s] # 0 /\ Worths[t] # 0 => s = t
  BY <1>2, <1>3 DEF Stocked
<1>5. IsFiniteSet(S)
  BY WorthTyped
<1> QED
  BY <1>1, <1>3, <1>4, <1>5, TotalOne

(* A refund gives back what the mission was paid.                          *)
LEMMA RefundKeeps ==
    ASSUME Stock, Stock', NEW m \in MissionId, Refunded(m)
    PROVE  /\ purse + Research + Total(Worths, InBuild(m)) <= purse' + Research'
           /\ Total(Worths, InBuild(m)) \in Nat /\ Research' \in Int /\ Research \in Int
<1>1. Typed /\ Stocked /\ Sold /\ Typed' /\ Sold' /\ purse \in Int
  BY DEF Stock, Stocked
<1>2. /\ MissionId' = MissionId /\ purse' = purse + mission[m].paid
      /\ \A k \in MissionId :
            /\ mission'[k].order = mission[k].order /\ mission'[k].paid = mission[k].paid
            /\ mission'[k].refunds = IF k = m THEN mission[k].refunds + 1 ELSE mission[k].refunds
  BY <1>1 DEF Refunded, MissionId, Typed
<1>3. /\ Research = Total(Spent, MissionId) /\ Research' = Total(Spent', MissionId)
      /\ Research \in Int /\ Research' \in Int /\ IsFiniteSet(MissionId)
      /\ \A k \in MissionId : Spent[k] \in Int /\ Spent'[k] \in Int
  BY <1>1, <1>2, SpentTyped, SpentTypedNext, ResearchIsTotal, Rows
<1>4. \A k \in MissionId \ {m} : Spent'[k] = Spent[k]
  BY <1>1, <1>2, SpentTyped, SpentTypedNext DEF IsBuild
<1>5. Research' = Research + Spent'[m] - Spent[m]
  BY ONLY <1>3, <1>4, m \in MissionId, TotalChange
<1>6. mission[m].paid \in Nat /\ mission[m].refunds \in Nat
  <2>1. mission[m] \in Row
    BY <1>1, Rows
  <2> QED
    BY <1>1, <2>1 DEF Sold, Row
<1>7. CASE IsBuild(m)
  <2>1. Spent[m] = 0 /\ Spent'[m] = 0
    BY <1>1, <1>2, <1>7, SpentTyped, SpentTypedNext DEF IsBuild
  <2>2. Total(Worths, InBuild(m)) \in Nat /\ Total(Worths, InBuild(m)) <= mission[m].paid
    <3>1. InBuild(m) \in SUBSET StackId /\ \A s \in InBuild(m) : stack[s].mission = m
      BY DEF InBuild
    <3> QED
      BY <1>1, <1>7, <3>1, BuildWorth
  <2> QED
    BY <1>1, <1>2, <1>3, <1>5, <1>6, <2>1, <2>2
<1>8. CASE ~IsBuild(m)
  <2>1. InBuild(m) = {}
    BY <1>1, <1>8, Rows DEF InBuild, Stocked
  <2>2. Total(Worths, InBuild(m)) = 0
    BY <2>1, TotalEmpty
  <2>3. /\ Spent[m] = mission[m].paid * (1 - mission[m].refunds)
        /\ Spent'[m] = mission[m].paid * (1 - (mission[m].refunds + 1))
    BY <1>1, <1>2, <1>8, SpentTyped, SpentTypedNext DEF IsBuild
  <2>4. Spent'[m] = Spent[m] - mission[m].paid
    BY <1>6, <2>3
  <2> QED
    BY <1>1, <1>2, <1>3, <1>5, <1>6, <2>2, <2>4
<1> QED
  BY <1>7, <1>8

(* The steps that cost nothing keep the researches.                        *)
LEMMA ResearchStays ==
    ASSUME Stock, Stock', SameSales
    PROVE  Research' = Research /\ Research \in Int
<1>1. Typed /\ Stocked /\ Sold /\ Typed' /\ Sold' /\ MissionId' = MissionId
  BY DEF Stock, SameSales, MissionId, Typed
<1>2. IsFiniteSet(MissionId) /\ \A m \in MissionId : Spent'[m] = Spent[m]
  BY <1>1, Rows, SpentTyped, SpentTypedNext DEF SameSales, IsBuild
<1>3. Total(Spent', MissionId) = Total(Spent, MissionId)
  BY ONLY <1>2, TotalSame
<1> QED
  BY <1>1, <1>3, SpentTyped, SpentTypedNext, ResearchIsTotal

(* A delivery adds the units of the order, whose stack is worth no more.   *)
LEMMA DeliveryWorth ==
    ASSUME Stock, Stock', [Next]_vars, NEW w \in Worker, ProcessBuildUnit(w)
    PROVE  Worth(StackId) <= Worth(StackId)'
<1> DEFINE o == mission[cur[w]].order
           S == snap[w].units
<1>1. /\ Typed /\ Stocked /\ Sold /\ Stocked' /\ cur[w] \in MissionId /\ IsBuild(cur[w])
      /\ S \in SUBSET StackId /\ \A s \in S : stack[s].count = 0 \/ stack[s].mission = cur[w]
      /\ StackStep /\ StackId' = StackId
  <2>1. Typed /\ Stocked /\ Sold /\ Stocked' /\ \A v \in Worker : Delivers(v) => Snapped(v)
    BY DEF Stock, Snaps
  <2>2. Delivers(w) /\ pc[w] # "idle" /\ IsBuild(cur[w])
    BY DEF ProcessBuildUnit, Delivers
  <2>3. cur[w] \in MissionId
    BY <2>1, <2>2 DEF Typed, AtWork, Process
  <2>4. S \in SUBSET StackId /\ \A s \in S : stack[s].count = 0 \/ stack[s].mission = cur[w]
    BY <2>1, <2>2 DEF Snapped
  <2> QED
    BY <2>1, <2>2, <2>3, <2>4, Landing
<1>2. /\ Worth(StackId) = Total(Worths, StackId) /\ Worth(StackId)' = Total(Worths', StackId)
      /\ IsFiniteSet(StackId) /\ Worth(StackId) \in Nat /\ Worth(StackId)' \in Nat
      /\ \A s \in StackId : /\ Worths[s] \in Int /\ Worths'[s] \in Int
                            /\ Worths[s] = stack[s].count * UnitCost[stack[s].unit]
                            /\ Worths'[s] = stack'[s].count * UnitCost[stack'[s].unit]
  BY <1>1, WorthTyped, WorthTypedNext
<1>3. \A s \in StackId : stack'[s].unit = stack[s].unit
  BY <1>1 DEF StackStep, Gone, Shipped
<1>4. CASE \A s \in StackId : stack'[s].count = stack[s].count
  <2>1. \A s \in StackId : Worths'[s] = Worths[s]
    BY <1>2, <1>3, <1>4
  <2>2. Total(Worths', StackId) = Total(Worths, StackId)
    BY ONLY <1>2, <2>1, TotalSame
  <2> QED
    BY <1>2, <2>2
<1>5. CASE Joined(w)
  <2>1. PICK into \in AtHome(o.planet, o.unit) :
            /\ into \notin S
            /\ stack'[into].count = stack[into].count + o.count
            /\ \A s \in S : Gone(s)
            /\ \A s \in StackId \ (S \cup {into}) : stack'[s] = stack[s]
    BY <1>5 DEF Joined
  <2>2. into \in StackId /\ into \notin S /\ stack[into].unit = o.unit /\ stack[into].count \in Nat
    BY <1>1, <2>1, Rows DEF AtHome, StackRow
  <2>3. /\ o.count \in Nat /\ UnitCost[o.unit] \in Nat /\ UnitCost[o.unit] * o.count \in Nat
        /\ mission[cur[w]].paid = UnitCost[o.unit] * o.count
    <3>1. o.count \in Nat /\ o.unit \in Unit /\ mission[cur[w]].paid \in Nat
      BY <1>1, BuildOrder DEF Sold
    <3> QED
      BY <1>1, <3>1, PriceAssumption DEF Sold
  <2> DEFINE e == [s \in StackId |-> IF s \in S THEN 0 ELSE Worths[s]]
  <2>4. /\ \A s \in StackId : e[s] \in Int
        /\ \A s \in S : e[s] = 0
        /\ \A s \in StackId \ S : e[s] = Worths[s]
        /\ e[into] = Worths[into]
    BY <1>1, <1>2, <2>2
  <2>5. \A s \in StackId \ {into} : Worths'[s] = e[s]
    <3> SUFFICES ASSUME NEW s \in StackId \ {into} PROVE Worths'[s] = e[s]
      OBVIOUS
    <3>1. CASE s \in S
      <4>1. stack'[s].count = 0 /\ UnitCost[stack'[s].unit] \in Nat
        BY <1>1, <1>3, <2>1, <3>1, Rows, PriceAssumption DEF Gone, StackRow
      <4> QED
        BY <1>2, <2>4, <3>1, <4>1
    <3>2. CASE s \notin S
      BY <1>2, <2>1, <2>4, <3>2
    <3> QED
      BY <3>1, <3>2
  <2> HIDE DEF e, S, o
  <2>6. Worths'[into] = Worths[into] + UnitCost[o.unit] * o.count
    <3>1. /\ Worths'[into] = (stack[into].count + o.count) * UnitCost[o.unit]
          /\ Worths[into] = stack[into].count * UnitCost[o.unit]
      BY <1>2, <1>3, <2>1, <2>2
    <3> QED
      BY <2>2, <2>3, <3>1
  <2>7. Total(Worths, StackId) = Total(e, StackId) + Total(Worths, S)
    <3>1. S \subseteq StackId
      BY <1>1
    <3>2. \A s \in StackId : Worths[s] \in Int
      BY <1>2
    <3> QED
      BY ONLY <1>2, <2>4, <3>1, <3>2, TotalClear
  <2>8. Total(Worths', StackId) = Total(e, StackId) + Worths'[into] - e[into]
    <3>1. \A s \in StackId : Worths'[s] \in Int
      BY <1>2
    <3> QED
      BY ONLY <1>2, <2>2, <2>4, <2>5, <3>1, TotalChange
  <2>9. Total(Worths, S) \in Nat /\ Total(Worths, S) <= UnitCost[o.unit] * o.count
    BY <1>1, <2>3, BuildWorth
  <2>10. Total(e, StackId) \in Int
    BY ONLY <1>2, <2>4, TotalInt
  <2> QED
    BY <1>2, <2>2, <2>3, <2>4, <2>6, <2>7, <2>8, <2>9, <2>10
<1> QED
  BY <1>4, <1>5, Landing

(* A registration turns money into units, or into a research.              *)
LEMMA RegistrationKeeps ==
    ASSUME Stock, Stock', NEW c \in Client, CommitRegister(c)
    PROVE  Balance' = Balance
<1> DEFINE o == order[c]
           n == Len(mission) + 1
           k == Len(stack) + 1
<1>1. Typed /\ Stocked /\ Sold /\ Typed' /\ Sold' /\ Stocked' /\ purse \in Int /\ lost \in Nat
  BY DEF Stock, Stocked
<1>2. /\ o \in Payable /\ Price(o) \in Nat
      /\ MissionId' = MissionId \cup {n} /\ n \notin MissionId
      /\ \A m \in MissionId : mission'[m] = mission[m]
      /\ mission'[n] = NewMission(o)
      /\ \/ o.type = "LEVEL_UP" /\ stack' = stack
         \/ /\ o \in BuildOrders
            /\ StackId' = StackId \cup {k} /\ k \notin StackId
            /\ \A s \in StackId : stack'[s] = stack[s]
            /\ stack'[k].unit = o.unit /\ stack'[k].count = o.count
  BY CommitStacks
<1>3. purse' = purse - Price(o) /\ lost' = lost
  BY DEF CommitRegister
<1>4. /\ mission'[n].order = o /\ mission'[n].paid = Price(o) /\ mission'[n].refunds = 0
  BY <1>2 DEF NewMission
<1>5. Spent'[n] = IF o.type = "BUILD_UNIT" THEN 0 ELSE Price(o)
  <2>1. Spent'[n] = IF o.type = "BUILD_UNIT" THEN 0 ELSE Price(o) * (1 - 0)
    BY <1>1, <1>2, <1>4, SpentTypedNext
  <2> HIDE DEF o, n
  <2> QED
    BY <1>2, <2>1
<1> HIDE DEF n, k
<1>6. /\ \A m \in MissionId : Spent'[m] = Spent[m] /\ Spent'[m] \in Int
      /\ Spent'[n] \in Int /\ IsFiniteSet(MissionId)
      /\ Research' = Total(Spent', MissionId \cup {n}) /\ Research = Total(Spent, MissionId)
      /\ Research \in Int
  BY <1>1, <1>2, SpentTyped, SpentTypedNext, ResearchIsTotal, Rows DEF IsBuild
<1>7. Research' = Research + Spent'[n]
  <2>1. Total(Spent', MissionId \cup {n}) = Spent'[n] + Total(Spent', MissionId)
    <3>1. \A m \in MissionId \cup {n} : Spent'[m] \in Int
      BY <1>6
    <3> QED
      BY ONLY <1>2, <1>6, <3>1, TotalAdd
  <2>2. Total(Spent', MissionId) = Total(Spent, MissionId)
    BY ONLY <1>6, TotalSame
  <2> QED
    BY <1>6, <2>1, <2>2
<1>8. Worth(StackId) \in Nat /\ Worth(StackId) = Total(Worths, StackId) /\ IsFiniteSet(StackId)
  BY <1>1, WorthTyped
<1>9. CASE o.type = "LEVEL_UP" /\ stack' = stack
  <2>1. Worth(StackId)' = Worth(StackId)
    BY <1>1, <1>9, WorthStays
  <2> QED
    BY <1>1, <1>2, <1>3, <1>5, <1>6, <1>7, <1>8, <1>9, <2>1 DEF Balance
<1>10. CASE /\ o \in BuildOrders
            /\ StackId' = StackId \cup {k} /\ k \notin StackId
            /\ \A s \in StackId : stack'[s] = stack[s]
            /\ stack'[k].unit = o.unit /\ stack'[k].count = o.count
  <2>1. /\ o.type = "BUILD_UNIT" /\ o.count \in Nat /\ UnitCost[o.unit] \in Nat
        /\ Price(o) = UnitCost[o.unit] * o.count
    BY <1>10, PriceAssumption, BoundAssumption DEF BuildOrders, Price
  <2>2. Worths'[k] = o.count * UnitCost[o.unit] /\ Worths'[k] = Price(o)
    <3>1. Worths'[k] = o.count * UnitCost[o.unit]
      BY <1>1, <1>10, WorthTypedNext
    <3> QED
      BY <2>1, <3>1
  <2>3. /\ Worth(StackId)' = Total(Worths', StackId \cup {k})
        /\ \A s \in StackId : Worths'[s] = Worths[s]
        /\ \A s \in StackId \cup {k} : Worths'[s] \in Int
    BY <1>1, <1>10, WorthTyped, WorthTypedNext
  <2>4. Total(Worths', StackId \cup {k}) = Worths'[k] + Total(Worths', StackId)
    BY ONLY <1>8, <1>10, <2>3, TotalAdd
  <2>5. Total(Worths', StackId) = Total(Worths, StackId)
    BY ONLY <1>8, <2>3, TotalSame
  <2>6. Worth(StackId)' = Worth(StackId) + Price(o)
    BY <1>8, <2>2, <2>3, <2>4, <2>5
  <2> HIDE DEF o
  <2> QED
    BY <1>1, <1>2, <1>3, <1>5, <1>6, <1>7, <1>8, <2>1, <2>6 DEF Balance
<1> QED
  BY <1>2, <1>9, <1>10

(* A conquest kills those at home, and refunds the build.                  *)
LEMMA ConquestKeeps ==
    ASSUME Stock, Stock', CommitConquest
    PROVE  Balance <= Balance' /\ Balance' \in Int
<1> DEFINE m == cur[Rival]
           p == order[Rival].planet
           B == IF m = 0 THEN {} ELSE InBuild(m)
<1>1. /\ Typed /\ Stocked /\ Sold /\ Typed' /\ Sold' /\ Stocked'
      /\ purse \in Int /\ purse' \in Int /\ lost \in Nat /\ lost' \in Nat
  BY DEF Stock, Stocked
<1>2. /\ stack' = Without(Dead(p) \cup B) /\ lost' = lost + Worth(Dead(p))
      /\ \/ m = 0 /\ UNCHANGED <<mission, purse>>
         \/ m # 0 /\ Refund(m)
  BY DEF CommitConquest, Dead
<1>3. Dead(p) \in SUBSET StackId /\ B \in SUBSET StackId /\ Dead(p) \cap B = {}
  <2>1. Dead(p) \in SUBSET StackId /\ \A s \in Dead(p) : stack[s].mission = 0
    BY DEF Dead, AtHome
  <2>2. B \in SUBSET StackId /\ \A s \in B : stack[s].mission = m /\ m # 0
    BY DEF InBuild
  <2> HIDE DEF B, m
  <2> QED
    BY <2>1, <2>2
<1>4. Worth(Dead(p)) = Total(Worths, Dead(p)) /\ Worth(Dead(p)) \in Nat
  <2> HIDE DEF p
  <2> QED
    BY <1>1, <1>3, WorthTyped
<1> HIDE DEF B, p
<1>5. Total(Worths, Dead(p) \cup B) = Total(Worths, Dead(p)) + Total(Worths, B)
  <2>1. IsFiniteSet(Dead(p)) /\ IsFiniteSet(B) /\ \A s \in Dead(p) \cup B : Worths[s] \in Int
    BY <1>1, <1>3, WorthTyped
  <2> QED
    BY ONLY <1>3, <2>1, TotalSplit
<1>6. Worth(StackId) = Worth(StackId)' + Total(Worths, Dead(p) \cup B)
  <2>1. Dead(p) \cup B \in SUBSET StackId
    BY <1>3
  <2> QED
    BY <1>1, <1>2, <2>1, WithoutWorth
<1>7. /\ Worth(StackId) \in Nat /\ Worth(StackId)' \in Nat
  BY <1>1, WorthTyped, WorthTypedNext
<1>8. CASE m = 0 /\ UNCHANGED <<mission, purse>>
  <2>1. B = {}
    BY <1>8 DEF B
  <2>2. Total(Worths, B) = 0
    BY <2>1, TotalEmpty
  <2>3. SameSales
    BY <1>1, <1>8 DEF SameSales, Typed
  <2>4. Research' = Research /\ Research \in Int
    BY <2>3, ResearchStays
  <2> HIDE DEF m
  <2> QED
    BY <1>1, <1>2, <1>4, <1>5, <1>6, <1>7, <1>8, <2>2, <2>4 DEF Balance
<1>9. CASE m # 0 /\ Refund(m)
  <2>1. m \in MissionId
    BY <1>1, <1>9 DEF Typed, Process
  <2>2. B = InBuild(m)
    BY <1>9 DEF B
  <2>3. Refunded(m)
    BY <1>1, <1>9, <2>1, RefundSales
  <2> HIDE DEF m
  <2>4. /\ purse + Research + Total(Worths, B) <= purse' + Research'
        /\ Total(Worths, B) \in Nat /\ Research' \in Int /\ Research \in Int
    BY <2>1, <2>2, <2>3, RefundKeeps
  <2> QED
    BY <1>1, <1>2, <1>4, <1>5, <1>6, <1>7, <2>4 DEF Balance
<1> QED
  BY <1>2, <1>8, <1>9

(* No step makes the player poorer.                                        *)
LEMMA NextBalance ==
    ASSUME Stock, Stock', [Next]_vars
    PROVE  Balance <= Balance' /\ Balance \in Int /\ Balance' \in Int
<1>1. /\ Typed /\ Stocked /\ Sold /\ Typed' /\ Sold' /\ Stocked'
      /\ purse \in Int /\ purse' \in Int /\ lost \in Nat /\ lost' \in Nat
  BY DEF Stock, Stocked
<1>2. /\ Worth(StackId) \in Nat /\ Worth(StackId)' \in Nat /\ Research \in Int /\ Research' \in Int
  BY <1>1, WorthTyped, WorthTypedNext, SpentTyped, SpentTypedNext
<1>3. Balance \in Int /\ Balance' \in Int
  BY <1>1, <1>2 DEF Balance
<1>4. CASE Quiet
  <2>1. Research' = Research /\ Worth(StackId)' = Worth(StackId)
    BY <1>1, <1>4, ResearchStays, WorthStays DEF Quiet
  <2> QED
    BY <1>1, <1>2, <1>4, <2>1 DEF Quiet, Balance
<1>5. ASSUME NEW c \in Client, CommitRegister(c)
      PROVE  Balance <= Balance'
  BY <1>3, <1>5, RegistrationKeeps
<1>6. ASSUME NEW c \in Client, CommitCancel(c)
      PROVE  Balance <= Balance'
  <2>1. PICK m \in MissionId : m = cur[c]
    BY <1>1, <1>6 DEF CommitCancel, Typed, AtWork, Process
  <2>2. /\ Refunded(m) /\ stack' = Without(InBuild(m)) /\ lost' = lost
        /\ InBuild(m) \in SUBSET StackId
    BY <1>1, <1>6, <2>1, RefundSales DEF CommitCancel, InBuild
  <2>3. Worth(StackId) = Worth(StackId)' + Total(Worths, InBuild(m))
    BY <1>1, <2>2, WithoutWorth
  <2>4. /\ purse + Research + Total(Worths, InBuild(m)) <= purse' + Research'
        /\ Total(Worths, InBuild(m)) \in Nat
    BY <2>2, RefundKeeps
  <2> QED
    BY <1>1, <1>2, <2>2, <2>3, <2>4 DEF Balance
<1>7. ASSUME NEW w \in Worker, ProcessBuildUnit(w)
      PROVE  Balance <= Balance'
  <2>1. cur[w] \in MissionId /\ mission' = Delivered(cur[w]) /\ UNCHANGED <<purse, lost>>
    BY <1>1, <1>7 DEF ProcessBuildUnit, Typed, AtWork, Process
  <2>2. Research' = Research
    BY <1>1, <2>1, DeliveredSales, ResearchStays
  <2>3. Worth(StackId) <= Worth(StackId)'
    BY <1>7, DeliveryWorth
  <2> QED
    BY <1>1, <1>2, <2>1, <2>2, <2>3 DEF Balance
<1>8. ASSUME NEW w \in Worker, DropUnits(w)
      PROVE  Balance <= Balance'
  <2>1. /\ UNCHANGED <<mission, purse>> /\ lost' = lost + Worth(InBuild(cur[w]))
        /\ stack' = Without(InBuild(cur[w])) /\ InBuild(cur[w]) \in SUBSET StackId
    BY <1>8 DEF DropUnits, InBuild
  <2>2. SameSales
    BY <1>1, <2>1 DEF SameSales, Typed
  <2>3. Research' = Research
    BY <2>2, ResearchStays
  <2>4. Worth(StackId) = Worth(StackId)' + Total(Worths, InBuild(cur[w]))
    BY <1>1, <2>1, WithoutWorth
  <2>5. Worth(InBuild(cur[w])) = Total(Worths, InBuild(cur[w])) /\ Worth(InBuild(cur[w])) \in Nat
    BY <1>1, <2>1, WorthTyped
  <2> QED
    BY <1>1, <1>2, <2>1, <2>3, <2>4, <2>5 DEF Balance
<1>9. ASSUME Trade PROVE Balance <= Balance'
  <2>1. \/ \E c \in Client : CommitRegister(c)
        \/ \E c \in Client : CommitCancel(c)
        \/ \E w \in Worker : ProcessBuildUnit(w)
        \/ \E w \in Worker : DropUnits(w)
        \/ CommitConquest
    BY <1>9, Zenon DEF Trade
  <2>2. CommitConquest => Balance <= Balance'
    BY ConquestKeeps
  <2> QED
    BY ONLY <2>1, <2>2, <1>5, <1>6, <1>7, <1>8, Zenon
<1> QED
  BY <1>1, <1>3, <1>4, <1>9, QuietOrTrade

(* What a player paid is in his purse, in his researches, in his units, or *)
(* in those that were given up or killed: the price of an order is charged *)
(* once, and a delivery, a cancellation and a conquest that meet leave him *)
(* with no less.                                                           *)
THEOREM SpecNothingLost == Spec => []NothingLost
<1> DEFINE Start == Purse + UpgradeCost + UnitCost[FirstUnit]
           I == Stock /\ Checked /\ OneAtATime /\ Single /\ UniqueOnce /\ Start <= Balance
<1>1. Start \in Int
  BY PriceAssumption, WorldAssumption DEF FirstUnit
<1> HIDE DEF Start
<1>2. Init => Start <= Balance
  <2> SUFFICES ASSUME Init PROVE Start <= Balance
    OBVIOUS
  <2>1. Stock
    BY InitStock
  <2>2. Typed /\ Stocked /\ Sold
    BY <2>1 DEF Stock
  <2>3. /\ MissionId = {1} /\ StackId = {1} /\ ~IsBuild(1) /\ purse = Purse /\ lost = 0
        /\ mission[1].paid = UpgradeCost /\ mission[1].refunds = 0
        /\ stack[1].count = 1 /\ stack[1].unit = FirstUnit
    BY DEF Init, MissionId, StackId, IsBuild
  <2>4. FirstUnit \in Unit /\ UnitCost[FirstUnit] \in Nat /\ UpgradeCost \in Nat /\ Purse \in Nat
    BY PriceAssumption, WorldAssumption DEF FirstUnit
  <2>5. Spent[1] = UpgradeCost /\ Worths[1] = UnitCost[FirstUnit]
    BY <2>2, <2>3, <2>4, SpentTyped, WorthTyped
  <2>6. ASSUME NEW f, f[1] \in Int PROVE Total(f, {1}) = f[1]
    <3>1. IsFiniteSet({}) /\ Total(f, {}) = 0 /\ {} \cup {1} = {1}
      BY FS_EmptySet, TotalEmpty
    <3>2. Total(f, {} \cup {1}) = f[1] + Total(f, {})
      BY <2>6, <3>1, TotalAdd
    <3> QED
      BY <2>6, <3>1, <3>2
  <2>7. Research = UpgradeCost /\ Worth(StackId) = UnitCost[FirstUnit]
    <3>1. Total(Spent, {1}) = Spent[1] /\ Total(Worths, {1}) = Worths[1]
      BY <2>4, <2>5, <2>6
    <3> QED
      BY <2>2, <2>3, <2>5, <3>1, ResearchIsTotal, WorthTyped
  <2> QED
    BY <2>3, <2>4, <2>7 DEF Balance, Start
<1>3. I /\ [Next]_vars => I'
  <2> SUFFICES ASSUME I, [Next]_vars PROVE I'
    OBVIOUS
  <2>1. Stock' /\ Checked' /\ OneAtATime' /\ Single' /\ UniqueOnce'
    BY NextKept
  <2>2. Start <= Balance'
    BY <1>1, <2>1, NextBalance
  <2> QED
    BY <2>1, <2>2 DEF Start
<1>4. I => NothingLost
  BY DEF NothingLost, Balance, Research, Start
<1> QED
  BY <1>2, <1>3, <1>4, InitUnique, PTL DEF Spec

------------------------------------------------------------------------------
(* Neither the money nor the mission slots run short: what a registration  *)
(* checked under the lock of the user still holds when it charges.         *)
Open == {m \in MissionId : mission[m].state = "open"}

Solvent ==
    /\ purse \in Nat /\ (MoreMissions # 0 => Unresolved <= MoreMissions)
    /\ \A c \in Client : pc[c] = "registering" =>
          Price(order[c]) <= purse /\ Unresolved < MoreMissions

(* The unresolved missions are counted.                                    *)
LEMMA OpenFinite ==
    ASSUME Typed
    PROVE  Unresolved = Cardinality(Open) /\ IsFiniteSet(Open) /\ Unresolved \in Nat
<1>1. MissionId = 1 .. Len(mission) /\ Len(mission) \in Nat /\ Open \subseteq MissionId
  BY DEF Typed, MissionId, Open
<1>2. IsFiniteSet(Open)
  <2>1. IsFiniteSet(MissionId)
    BY <1>1, FS_Interval
  <2> QED
    BY <1>1, <2>1, FS_Subset
<1>3. Unresolved = Cardinality(Open)
  BY DEF Unresolved, Open
<1> QED
  BY <1>2, <1>3, FS_CardinalityType

(* What the other steps do to both.                                        *)
LEMMA NothingSpent ==
    ASSUME Stock, Stock', [Next]_vars, ~Commit
    PROVE  purse <= purse' /\ Unresolved' <= Unresolved /\ Unresolved' \in Nat
<1>1. Typed /\ Sold /\ Stocked /\ purse \in Int /\ purse' \in Int
  BY DEF Stock, Stocked
<1>2. ASSUME NEW m \in MissionId, Refunded(m) PROVE purse <= purse'
  BY <1>1, <1>2 DEF Refunded, Sold
<1>3. ASSUME Quiet PROVE purse <= purse'
  BY <1>1, <1>3 DEF Quiet
<1>4. ASSUME NEW c \in Client, CommitCancel(c) PROVE purse <= purse'
  <2>1. cur[c] \in MissionId /\ Refund(cur[c])
    BY <1>1, <1>4 DEF CommitCancel, Typed, AtWork, Process
  <2> QED
    BY <1>1, <1>2, <2>1, RefundSales
<1>5. ASSUME NEW w \in Worker, ProcessBuildUnit(w) \/ DropUnits(w) PROVE purse <= purse'
  BY <1>1, <1>5 DEF ProcessBuildUnit, DropUnits
<1>6. ASSUME CommitConquest PROVE purse <= purse'
  <2>1. cur[Rival] \in MissionId \cup {0}
    BY <1>1 DEF Typed, Process
  <2>2. (cur[Rival] = 0 /\ purse' = purse) \/ (cur[Rival] # 0 /\ Refund(cur[Rival]))
    BY <1>6 DEF CommitConquest
  <2> QED
    BY <1>1, <1>2, <2>1, <2>2, RefundSales
<1>7. purse <= purse'
  BY <1>3, <1>4, <1>5, <1>6, QuietOrTrade, <1>1 DEF Trade, Commit
<1>8. Open' \subseteq Open
  <2>1. Onward
    BY <1>1, NextOnward
  <2> QED
    BY <1>1, <2>1 DEF Onward, Open, MissionId, Typed
<1>9. /\ Unresolved = Cardinality(Open) /\ IsFiniteSet(Open)
      /\ Unresolved' = Cardinality(Open')
  BY <1>1, OpenFinite DEF Unresolved, Open
<1>10. IsFiniteSet(Open') /\ Cardinality(Open') <= Cardinality(Open)
  BY <1>8, <1>9, FS_Subset
<1> QED
  BY <1>7, <1>9, <1>10, FS_CardinalityType

(* The charge is the price that was checked, and the slot is free.         *)
LEMMA NextSolvent ==
    ASSUME Stock, Stock', Checked, Solvent, [Next]_vars
    PROVE  Solvent'
<1>1. /\ Typed /\ pc \in [Process -> Places] /\ Client \subseteq Process /\ MoreMissions \in Nat
      /\ purse \in Nat /\ Unresolved \in Nat /\ (MoreMissions # 0 => Unresolved <= MoreMissions)
  BY OpenFinite, LimitAssumption DEF Stock, Typed, Process, Solvent
<1>2. ASSUME NEW c \in Client, CommitRegister(c) PROVE Solvent'
  <2>1. pc[c] = "registering" /\ pc' = [pc EXCEPT ![c] = "idle"] /\ purse' = purse - Price(order[c])
    BY <1>2 DEF CommitRegister, Rest, Goto
  <2>2. \A d \in Client : pc'[d] # "registering"
    BY <1>1, <2>1, OneCommits
  <2>3. purse' \in Nat /\ Unresolved < MoreMissions
    <3>1. Price(order[c]) \in Nat /\ Price(order[c]) <= purse /\ Unresolved < MoreMissions
      BY <1>2, <2>1, CommitStacks DEF Solvent
    <3> QED
      BY <1>1, <2>1, <3>1
  <2> DEFINE n == Len(mission) + 1
  <2>4. Open' = Open \cup {n} /\ n \notin Open
    <3>1. /\ MissionId' = MissionId \cup {n} /\ n \notin MissionId
          /\ \A m \in MissionId : mission'[m] = mission[m]
          /\ mission'[n] = NewMission(order[c])
      BY <1>2, CommitStacks
    <3>2. mission'[n].state = "open"
      BY <3>1 DEF NewMission
    <3> HIDE DEF n
    <3> QED
      BY <3>1, <3>2 DEF Open
  <2> HIDE DEF n
  <2>5. /\ Unresolved = Cardinality(Open) /\ IsFiniteSet(Open) /\ Unresolved' = Cardinality(Open')
    BY <1>1, OpenFinite DEF Unresolved, Open
  <2>6. Unresolved' = Unresolved + 1
    BY <2>4, <2>5, FS_AddElement
  <2>7. Unresolved' <= MoreMissions
    BY <1>1, <2>3, <2>6
  <2> QED
    BY <2>2, <2>3, <2>7 DEF Solvent
<1>3. CASE ~Commit
  <2>1. /\ purse <= purse' /\ Unresolved' <= Unresolved /\ Unresolved' \in Nat
        /\ purse' \in Int
    BY <1>3, NothingSpent DEF Stock, Stocked
  <2>2. purse' \in Nat /\ (MoreMissions # 0 => Unresolved' <= MoreMissions)
    BY <1>1, <2>1
  <2>3. PICK x \in Process : Moves(x)
    BY <1>1, OneMoves
  <2>4. ASSUME NEW d \in Client, pc'[d] = "registering"
        PROVE  Price(order'[d]) <= purse /\ Unresolved < MoreMissions
    <3>1. CASE d # x
      BY <2>3, <2>4, <3>1 DEF Moves, Undisturbed, Solvent
    <3>2. CASE d = x
      <4>1. BeginRegister(d)
        BY <2>3, <2>4, <3>2 DEF Moves
      <4>2. MayRegister(order'[d])
        BY <1>1, <4>1 DEF BeginRegister, Typed
      <4>3. Price(order'[d]) <= purse /\ ~(Unresolved + 1 >= MoreMissions + 1)
        BY <4>2 DEF MayRegister, CanRun, MissionLimitReached, MaxAllowedMissions
      <4> QED
        BY <1>1, <4>3
    <3> QED
      BY <3>1, <3>2
  <2>5. ASSUME NEW d \in Client, pc'[d] = "registering"
        PROVE  Price(order'[d]) <= purse' /\ Unresolved' < MoreMissions
    <3>1. order'[d] \in Payable
      BY <2>5 DEF Stock, Requested
    <3>2. Price(order'[d]) \in Nat
      BY <3>1, PriceTyped
    <3> QED
      BY <1>1, <2>1, <2>4, <2>5, <3>2
  <2>6. \A d \in Client : Price(order[d])' = Price(order'[d])
    BY DEF Price
  <2> QED
    BY <2>2, <2>5, <2>6 DEF Solvent
<1> QED
  BY <1>2, <1>3 DEF Commit

(* The resources never run below nothing, nor the missions above the slots *)
(* a player has: the first and the last part of NeverOverdrawn.            *)
THEOREM SpecSolvent == Spec => [](purse >= 0 /\ (MoreMissions # 0 => Unresolved <= MoreMissions))
<1> DEFINE I == Stock /\ Checked /\ OneAtATime /\ Single /\ UniqueOnce /\ Solvent
<1>1. Init => Solvent
  <2> SUFFICES ASSUME Init PROVE Solvent
    OBVIOUS
  <2>1. MoreMissions \in Nat /\ Purse \in Nat /\ purse = Purse /\ \A c \in Client : pc[c] = "idle"
    BY LimitAssumption, PriceAssumption DEF Init, Process
  <2>2. Open = {1}
    BY DEF Init, Open, MissionId
  <2>3. Unresolved = 1
    BY <2>2, FS_Singleton DEF Unresolved, Open
  <2> QED
    BY <2>1, <2>3 DEF Solvent
<1>2. I /\ [Next]_vars => I'
  BY NextKept, NextSolvent
<1>3. I => purse >= 0 /\ (MoreMissions # 0 => Unresolved <= MoreMissions)
  BY DEF Solvent
<1> QED
  BY <1>1, <1>2, <1>3, InitUnique, PTL DEF Spec
===============================================================================
