--------------------------- MODULE UnitMissionProofs ---------------------------
(***************************************************************************)
(* Proofs about UnitMission, for any planets, workers, clients, fleets and *)
(* bounds, and, unless a theorem says otherwise, any faults.               *)
(***************************************************************************)
EXTENDS UnitMission, TableTheorems

(* A stack; TypeOK bounds the count by FleetSize, here it is a number.     *)
Stack == [count : Nat, mission : Nat, planet : Planet]

ClientPlaces ==
    {"idle", "ordered", "asked", "leaving", "cancelling", "resolve", "insert", "repoint",
     "schedule", "unlock"}

RowsTyped ==
    /\ mission \in Seq(Missions) /\ stack \in Seq(Stack)
    /\ \A s \in StackId : stack[s].mission \in MissionId \cup {0}
    /\ owner \in [Planet -> User \cup {Nobody}] /\ known \subseteq Planet
    /\ emptied \subseteq MissionId /\ hasty \subseteq Planet /\ killed \in Nat
    /\ requests \in 0 .. MaxRequests /\ faults \in 0 .. MaxFaults

(* What process x has at each place of the code.                           *)
PlaceTyped(x) ==
    /\ x \in Client => pc[x] \in ClientPlaces
    /\ x \in Worker => pc[x] \notin {"ordered", "asked", "leaving", "cancelling"}
    /\ cur[x] = 0 <=> pc[x] \in {"idle", "ordered", "asked", "leaving"}
    /\ pc[x] = "ordered" => order[x] \in Orders
    /\ pc[x] \in {"asked", "leaving"} => order[x] \in Departures
    /\ pc[x] \in {"repoint", "schedule"} => back[x] # 0

LocalsTyped ==
    /\ lock \in [Planet -> Process \cup {Nobody}]
    /\ pc \in [Process -> Places]
    /\ cur \in [Process -> MissionId \cup {0}]
    /\ keys \in [Process -> SUBSET Planet]
    /\ snap \in [Process -> [units : SUBSET StackId, planets : SUBSET Planet]]
    /\ back \in [Process -> MissionId \cup {0}]
    /\ order \in [Process -> Orders \cup Departures \cup {NoOrder}]
    /\ \A x \in Process : PlaceTyped(x)

Typed == RowsTyped /\ LocalsTyped

------------------------------------------------------------------------------
(* The ids and rows of the two tables.                                     *)
LEMMA Tables ==
    ASSUME RowsTyped
    PROVE  /\ MissionId = 1 .. Len(mission) /\ Len(mission) \in Nat
           /\ \A k \in MissionId : mission[k] \in Missions /\ k # 0 /\ k \in Nat
           /\ StackId = 1 .. Len(stack) /\ Len(stack) \in Nat
           /\ \A s \in StackId : stack[s] \in Stack /\ s # 0
           /\ IsFiniteSet(StackId)
<1>1. mission \in Seq(Missions) /\ stack \in Seq(Stack)
  BY DEF RowsTyped
<1>2. /\ MissionId = 1 .. Len(mission) /\ Len(mission) \in Nat
      /\ StackId = 1 .. Len(stack) /\ Len(stack) \in Nat
      /\ \A k \in MissionId : mission[k] \in Missions
      /\ \A s \in StackId : stack[s] \in Stack
  BY <1>1, Table DEF MissionId, StackId
<1>3. IsFiniteSet(1 .. Len(stack))
  BY <1>2, FS_Interval
<1> QED
  BY <1>2, <1>3

------------------------------------------------------------------------------
(* Sums of units.                                                          *)

Counts == [s \in StackId |-> stack[s].count]

(* The fold that Units is.                                                 *)
AddsUnits(S, g) ==
    g = [t \in SUBSET S |-> IF t = {} THEN 0 ELSE stack[Pick(t)].count + g[t \ {Pick(t)}]]

(* Units is a Total.                                                       *)
LEMMA UnitsIsTotal ==
    ASSUME NEW S, S \subseteq StackId
    PROVE  Units(S) = Total(Counts, S)
<1>1. Units(S) = (CHOOSE g : AddsUnits(S, g))[S]
  BY DEF Units, MapThenSumSet, MapThenFoldSet, AddsUnits, Pick
<1>2. \A t \in SUBSET S : t # {} => Counts[Pick(t)] = stack[Pick(t)].count
  BY PickIn DEF Counts
<1>3. ASSUME NEW g PROVE Adds(Counts, S, g) <=> AddsUnits(S, g)
  BY <1>2 DEF Adds, AddsUnits
<1> QED
  BY <1>1, <1>3, TotalIsFold

(* The same of the next state.                                             *)
LEMMA UnitsIsTotalNext ==
    ASSUME NEW S, S \subseteq StackId'
    PROVE  Units(S)' = Total(Counts', S)
<1>1. Units(S)' = (CHOOSE g : AddsUnits(S, g)')[S]
  BY DEF Units, MapThenSumSet, MapThenFoldSet, AddsUnits, Pick
<1>2. \A t \in SUBSET S : t # {} => Counts'[Pick(t)] = stack'[Pick(t)].count
  BY PickIn DEF Counts
<1>3. ASSUME NEW g PROVE Adds(Counts', S, g) <=> AddsUnits(S, g)'
  BY <1>2 DEF Adds, AddsUnits
<1> QED
  BY <1>1, <1>3, TotalIsFold

(* The number of units of any stacks is a number.                          *)
LEMMA CountsTyped ==
    ASSUME RowsTyped
    PROVE  /\ \A s \in StackId : Counts[s] = stack[s].count /\ Counts[s] \in Nat /\ Counts[s] \in Int
           /\ \A S \in SUBSET StackId : Units(S) \in Nat /\ Units(S) = Total(Counts, S) /\ IsFiniteSet(S)
<1>1. \A s \in StackId : Counts[s] = stack[s].count /\ Counts[s] \in Nat /\ Counts[s] \in Int
  BY Tables DEF Counts, Stack
<1>2. ASSUME NEW S \in SUBSET StackId
      PROVE  Units(S) \in Nat /\ Units(S) = Total(Counts, S) /\ IsFiniteSet(S)
  <2>1. IsFiniteSet(S)
    BY Tables, FS_Subset
  <2>2. \A s \in S : Counts[s] \in Nat
    BY <1>1
  <2> QED
    BY <2>1, <2>2, TotalNat, UnitsIsTotal
<1> QED
  BY <1>1, <1>2
(* The stacks S are merged into one of them, or into one that was there.   *)
Merged(M, there, S, rest, into) ==
    /\ into \in IF there # {} THEN there ELSE S
    /\ M \in Seq(Stack) /\ Len(M) = Len(stack) /\ DOMAIN M = StackId
    /\ M[into].mission = rest.mission /\ M[into].planet = rest.planet
    /\ M[into].count = Units(S \cup {into})
    /\ \A s \in S \ {into} : M[s].count = 0 /\ M[s].mission = stack[s].mission
    /\ \A s \in StackId \ (S \cup {into}) : M[s] = stack[s]

(* saveWithAdding leaves one stack of the merged ones.                     *)
LEMMA MergeMerges ==
    ASSUME RowsTyped, NEW there \in SUBSET StackId, NEW S \in SUBSET StackId, S # {},
           NEW rest \in Stack
    PROVE  \E into \in StackId : Merged(Merge(there, S, rest), there, S, rest, into)
<1> DEFINE into == IF there # {} THEN CHOOSE s \in there : TRUE ELSE CHOOSE s \in S : TRUE
           M == Merge(there, S, rest)
           row(s) == IF s = into THEN [rest EXCEPT !.count = Units(S \cup {into})]
                     ELSE IF s \in S THEN [stack[s] EXCEPT !.count = 0] ELSE stack[s]
<1>1. into \in IF there # {} THEN there ELSE S
  OBVIOUS
<1>2. into \in StackId
  BY <1>1
<1>3. M = [s \in StackId |-> row(s)]
  BY DEF Merge
<1>4. Units(S \cup {into}) \in Nat
  BY <1>2, CountsTyped
<1>5. \A s \in StackId : stack[s] \in Stack
  BY Tables
<1>6. /\ [rest EXCEPT !.count = Units(S \cup {into})] \in Stack
      /\ [rest EXCEPT !.count = Units(S \cup {into})].mission = rest.mission
      /\ [rest EXCEPT !.count = Units(S \cup {into})].planet = rest.planet
      /\ [rest EXCEPT !.count = Units(S \cup {into})].count = Units(S \cup {into})
  BY <1>4 DEF Stack
<1>7. \A s \in StackId : /\ [stack[s] EXCEPT !.count = 0] \in Stack
                         /\ [stack[s] EXCEPT !.count = 0].mission = stack[s].mission
                         /\ [stack[s] EXCEPT !.count = 0].count = 0
  BY <1>5 DEF Stack
<1>8. \A s \in StackId : row(s) \in Stack
  BY <1>5, <1>6, <1>7
<1>9. M \in [StackId -> Stack]
  <2> HIDE DEF M, row
  <2> QED
    BY <1>3, <1>8
<1>10. M \in Seq(Stack) /\ Len(M) = Len(stack) /\ DOMAIN M = StackId
  <2> stack \in Seq(Stack)
    BY DEF RowsTyped
  <2> HIDE DEF M
  <2> QED
    BY <1>9, IsTable DEF StackId
<1>11. M[into] = row(into) /\ \A s \in StackId : M[s] = row(s)
  <2> HIDE DEF M, row, into
  <2> QED
    BY <1>2, <1>3
<1>12. Merged(M, there, S, rest, into)
  <2> HIDE DEF M, into
  <2> QED
    BY <1>1, <1>2, <1>6, <1>7, <1>10, <1>11 DEF Merged
<1> QED
  BY <1>2, <1>12

(* A merge makes no unit and loses none.                                   *)
LEMMA MergeConserves ==
    ASSUME RowsTyped, NEW there \in SUBSET StackId, NEW S \in SUBSET StackId,
           NEW rest \in Stack, NEW into \in StackId, Merged(stack', there, S, rest, into)
    PROVE  Units(StackId)' = Units(StackId)
<1> DEFINE A == S \cup {into}
<1>1. IsFiniteSet(StackId) /\ A \subseteq StackId /\ into \in A
  BY Tables
<1>2. /\ StackId' = StackId /\ \A s \in StackId : stack'[s].count \in Nat
      /\ stack'[into].count = Units(A)
      /\ \A s \in A \ {into} : stack'[s].count = 0
      /\ \A s \in StackId \ A : stack'[s] = stack[s]
  <2>1. \A s \in DOMAIN stack' : stack'[s] \in Stack
    BY Table DEF Merged
  <2> QED
    BY <2>1 DEF Merged, StackId, Stack
<1>3. \A s \in StackId : Counts'[s] = stack'[s].count /\ Counts'[s] \in Int /\ Counts[s] \in Int
  BY <1>2, CountsTyped DEF Counts
<1>4. Counts'[into] = Total(Counts, A)
  BY <1>1, <1>2, <1>3, UnitsIsTotal
<1>5. /\ \A s \in A \ {into} : Counts'[s] = 0
      /\ \A s \in StackId \ A : Counts'[s] = Counts[s]
  BY <1>1, <1>2, <1>3, CountsTyped
<1> HIDE DEF A
<1>6. Total(Counts', StackId) = Total(Counts, StackId)
  BY <1>1, <1>3, <1>4, <1>5, TotalGather
<1> QED
  BY <1>2, <1>6, UnitsIsTotal, UnitsIsTotalNext

(* Stacks that keep their counts keep the sum.                             *)
LEMMA SameCounts ==
    ASSUME RowsTyped, StackId' = StackId, \A s \in StackId : stack'[s].count = stack[s].count
    PROVE  Units(StackId)' = Units(StackId)
<1>1. \A s \in StackId : Counts'[s] = Counts[s]
  BY DEF Counts
<1>2. Total(Counts', StackId) = Total(Counts, StackId)
  BY <1>1, Tables, TotalSame
<1> QED
  BY <1>2, UnitsIsTotal, UnitsIsTotalNext

(* The stacks S are wiped out.                                             *)
LEMMA Wiped ==
    ASSUME RowsTyped, NEW S \in SUBSET StackId, StackId' = StackId,
           \A s \in S : stack'[s].count = 0, \A s \in StackId \ S : stack'[s] = stack[s]
    PROVE  Units(StackId) = Units(StackId)' + Units(S)
<1>1. /\ \A s \in S : Counts'[s] = 0
      /\ \A s \in StackId \ S : Counts'[s] = Counts[s]
      /\ \A s \in StackId : Counts[s] \in Int /\ Counts'[s] \in Int
  <2>1. \A s \in StackId : Counts'[s] = stack'[s].count /\ Counts[s] \in Int /\ Counts[s] = stack[s].count
    BY CountsTyped DEF Counts
  <2> QED
    BY <2>1
<1>2. Total(Counts, StackId) = Total(Counts', StackId) + Total(Counts, S)
  <2>1. IsFiniteSet(StackId) /\ S \subseteq StackId
    BY Tables
  <2> QED
    BY ONLY <1>1, <2>1, TotalClear
<1> QED
  BY <1>2, UnitsIsTotal, UnitsIsTotalNext

------------------------------------------------------------------------------
(* The inductive invariant.                                                *)

OnDuty == {"EXPLORE", "DEPLOY", "ESTABLISH_BASE", "RETURN_MISSION"}

(* Only missions that can run have a task, an effect or a worker.          *)
Kinds ==
    /\ \A m \in MissionId : mission[m].task # "none" => mission[m].type \in OnDuty
    /\ \A m \in MissionId : mission[m].acted # 0 => mission[m].type \in OnDuty
    /\ \A w \in Worker : cur[w] # 0 => mission[cur[w]].type \in OnDuty
    /\ \A c \in Client : cur[c] # 0 => mission[cur[c]].type # "RETURN_MISSION"

(* What is left to do is left to do for a mission that is over.            *)
Over(x) ==
    \/ pc[x] \in {"insert", "repoint", "schedule"}
    \/ x \in Worker /\ pc[x] \in {"unlock", "closing"}

IsOver == \A x \in Process : Over(x) => mission[cur[x]].resolved

(* A RETURN_MISSION without a task belongs to the process that made it.    *)
Returning(x) == pc[x] \in {"repoint", "schedule"}

IsOwn ==
    \A x \in Process : Returning(x) =>
        /\ mission[back[x]].type = "RETURN_MISSION"
        /\ mission[back[x]].task = "none"
        /\ ~mission[back[x]].resolved
        /\ \A w \in Worker : cur[w] # back[x]
        /\ \A y \in Process : y # x /\ Returning(y) => back[y] # back[x]

(* The two planets of a mission are locked while it runs or is cancelled.  *)
Holds(x) ==
    \/ pc[x] = "running"
    \/ x \in Client /\ pc[x] \in {"resolve", "insert", "repoint", "schedule"}

IsLocked ==
    \A x \in Process :
        /\ pc[x] \in {"locking", "cancelling"} =>
              mission[cur[x]].src \in keys[x] /\ mission[cur[x]].tgt \in keys[x]
        /\ Holds(x) => lock[mission[cur[x]].src] = x /\ lock[mission[cur[x]].tgt] = x

(* A worker that runs a mission has read all units that are still aboard.  *)
IsRead ==
    \A w \in Worker : pc[w] = "running" => Aboard(cur[w]) \subseteq snap[w].units

(* What a worker has read of the owner of a planet it locks still holds.   *)
IsSeen ==
    \A w \in Worker : pc[w] = "running" =>
        \A p \in snap[w].planets : lock[p] = w => owner[p] = Me \/ p \in hasty

(* A mission that had its effect carries nothing, and none that runs it    *)
(* has read that it did.                                                   *)
IsOnce ==
    \A m \in MissionId : mission[m].type # "RETURN_MISSION" =>
        /\ mission[m].acted <= 1
        /\ mission[m].acted = 1 =>
              /\ Aboard(m) = {}
              /\ \A w \in Worker : pc[w] = "running" /\ cur[w] = m => snap[w].units = {}

Inv == Typed /\ Kinds /\ IsOver /\ IsOwn /\ IsLocked /\ IsRead /\ IsSeen /\ IsOnce

------------------------------------------------------------------------------
(* What a step does to the tables.  x is the process that takes it, and    *)
(* Nobody for a conquest.                                                  *)

At(x, place) == x \in Process /\ pc[x] = place

(* A mission keeps its planets, a DEPLOYED one may be deleted, what is     *)
(* resolved stays resolved, what was cancelled stays cancelled.            *)
Later(r, q) ==
    /\ q.src = r.src /\ q.tgt = r.tgt
    /\ \/ q.type = r.type
       \/ r.type = "DEPLOYED" /\ q.type = "deleted"
    /\ r.resolved => q.resolved
    /\ r.cancelled => q.cancelled

Fresh(r) ==
    /\ ~r.resolved /\ ~r.cancelled /\ r.acted = 0 /\ r.type # "deleted"
    /\ r.type = "DEPLOYED" => r.task = "none"

(* A process touches the mission it works on, a task that is there,        *)
(* DEPLOYED missions, and the one it made.                                 *)
Rowwise(x) ==
    /\ mission' \in Seq(Missions) /\ MissionId \subseteq MissionId'
    /\ \A k \in MissionId :
          /\ Later(mission[k], mission'[k])
          /\ \/ mission'[k] = mission[k]
             \/ x \in Process /\ k = cur[x]
             \/ mission[k].task # "none" \/ mission[k].type = "DEPLOYED"
             \/ At(x, "schedule") /\ k = back[x]
          /\ mission'[k].task # mission[k].task =>
                \/ mission[k].task # "none" /\ mission'[k].task # "none"
                \/ At(x, "closing") /\ x \in Worker /\ k = cur[x] /\ mission'[k].task = "none"
                \/ At(x, "schedule") /\ k = back[x] /\ mission'[k].task # "none"
          /\ mission'[k].acted # mission[k].acted =>
                /\ mission'[k].acted = mission[k].acted + 1
                /\ x \in Worker /\ At(x, "running") /\ pc'[x] = "unlock" /\ k = cur[x]
                /\ mission[k].type = "RETURN_MISSION" \/ snap[x].units # {}
          /\ mission'[k].cancelled # mission[k].cancelled =>
                x \in Client /\ At(x, "resolve") /\ k = cur[x] /\ pc'[x] = "insert"
    /\ \A k \in MissionId' \ MissionId : Fresh(mission'[k])

(* Units stay with their mission, are stationed, leave with a mission that *)
(* is made and scheduled at once, or with the one the process made; and    *)
(* they land on a planet of Me, unless it was left in haste.               *)
Stackwise(x) ==
    /\ stack' \in Seq(Stack) /\ StackId \subseteq StackId'
    /\ \A s \in StackId' : stack'[s].mission \in MissionId' \cup {0}
    /\ \A s \in StackId' : stack'[s].count > 0 /\ stack'[s].mission # 0 =>
          LET k == stack'[s].mission
          IN  \/ s \in Aboard(k)
              \/ mission'[k].type = "DEPLOYED" /\ ~mission'[k].resolved
              \/ k \notin MissionId /\ mission'[k].task # "none"
              \/ At(x, "repoint") /\ k = back[x]
    /\ \A s \in StackId' : stack'[s].count > 0 /\ stack'[s].mission = 0 =>
          \/ owner'[stack'[s].planet] = Me
          \/ stack'[s].planet \in hasty'
          \/ s \in AtHome(stack'[s].planet)
             /\ owner'[stack'[s].planet] = owner[stack'[s].planet]

(* A mission that is over carries nothing, or the process that resolved it *)
(* goes on to send its units home.                                         *)
Settled(x) ==
    /\ \A k \in MissionId :
          \/ mission'[k].resolved # mission[k].resolved
          \/ mission'[k].type # mission[k].type
          \/ mission'[k].acted # mission[k].acted
          => \/ Aboard(k)' = {}
             \/ At(x, "resolve") /\ k = cur[x] /\ pc'[x] = "insert"
    /\ At(x, "schedule") /\ pc'[x] \in {"unlock", "closing"} => mission'[back[x]].task # "none"
    /\ At(x, "repoint") /\ pc'[x] = "schedule" =>
          \A m \in MissionId : m = cur[x] => Aboard(m)' = {}
    /\ At(x, "running") /\ pc'[x] = "unlock" => mission'[cur[x]].resolved
    /\ At(x, "resolve") /\ pc'[x] = "insert" => mission'[cur[x]].resolved
    /\ At(x, "insert") /\ pc'[x] = "repoint" =>
          /\ back'[x] \in MissionId' \ MissionId
          /\ mission'[back'[x]].type = "RETURN_MISSION" /\ mission'[back'[x]].task = "none"

(* Me loses a planet that is not locked, or leaves it in haste.            *)
Ownerwise ==
    /\ hasty \subseteq hasty'
    /\ \A p \in Planet :
          owner'[p] = owner[p] \/ owner'[p] = Me \/ lock[p] = Nobody \/ p \in hasty'

Tablewise(x) ==
    /\ RowsTyped' /\ Rowwise(x) /\ Stackwise(x) /\ Settled(x) /\ Ownerwise
    /\ Units(StackId)' + killed' = Units(StackId) + killed

------------------------------------------------------------------------------
(* What a step does to the processes.                                      *)

(* The others stay where they are; a lock is taken when it is free.        *)
Alone(x) ==
    /\ \A y \in Process \ {x} :
          /\ pc'[y] = pc[y] /\ cur'[y] = cur[y] /\ keys'[y] = keys[y]
          /\ snap'[y] = snap[y] /\ back'[y] = back[y] /\ order'[y] = order[y]
    /\ \A p \in Planet :
          \/ lock'[p] = lock[p]
          \/ x \in Process /\ lock[p] = Nobody /\ lock'[p] = x
          \/ x \in Process /\ lock[p] = x /\ lock'[p] = Nobody

Takes(x) ==
    /\ keys'[x] = keys[x]
    /\ \A p \in keys[x] : lock[p] = Nobody /\ lock'[p] = x

(* The way of a process through the code.                                  *)
Stands(x) == cur'[x] = cur[x] /\ cur[x] # 0

Path(x) ==
    \/ cur'[x] = 0 /\ pc'[x] \in {"idle", "ordered", "asked", "leaving"}
    \/ /\ pc[x] = "idle" /\ pc'[x] = "loading" /\ x \in Worker
       /\ cur'[x] \in MissionId /\ mission[cur'[x]].task # "none"
    \/ /\ pc[x] = "idle" /\ pc'[x] = "cancelling" /\ x \in Client
       /\ cur'[x] \in MissionId /\ mission[cur'[x]].type # "RETURN_MISSION"
       /\ mission[cur'[x]].src \in keys'[x] /\ mission[cur'[x]].tgt \in keys'[x]
    \/ /\ Stands(x) /\ pc[x] = "loading" /\ pc'[x] = "locking" /\ x \in Worker
       /\ mission[cur[x]].src \in keys'[x] /\ mission[cur[x]].tgt \in keys'[x]
    \/ /\ Stands(x) /\ pc[x] = "loading" /\ pc'[x] = "closing" /\ x \in Worker
       /\ mission[cur[x]].resolved
    \/ /\ Stands(x) /\ pc[x] = "locking" /\ pc'[x] = "running" /\ x \in Worker
       /\ Takes(x) /\ mission' = mission /\ stack' = stack /\ owner' = owner
       /\ snap'[x].units = Aboard(cur[x]) /\ snap'[x].planets = OwnedBy(Me)
    \/ /\ Stands(x) /\ pc[x] = "cancelling" /\ pc'[x] = "resolve" /\ x \in Client
       /\ Takes(x)
    \/ /\ Stands(x) /\ pc[x] \in {"locking", "running", "unlock", "failed"}
       /\ pc'[x] \in {"failed", "rearming", "resolve"} /\ x \in Worker
    \/ Stands(x) /\ pc[x] = "running" /\ pc'[x] = "unlock" /\ x \in Worker /\ lock' = lock
    \/ Stands(x) /\ pc[x] = "resolve" /\ pc'[x] = "insert" /\ lock' = lock
    \/ Stands(x) /\ pc[x] = "insert" /\ pc'[x] = "repoint" /\ lock' = lock
    \/ /\ Stands(x) /\ pc[x] = "repoint" /\ pc'[x] = "schedule" /\ lock' = lock
       /\ back'[x] = back[x] /\ mission' = mission
    \/ Stands(x) /\ pc[x] = "schedule" /\ pc'[x] = "unlock" /\ x \in Client
    \/ /\ Stands(x) /\ pc[x] \in {"schedule", "unlock"} /\ pc'[x] = "closing"
       /\ x \in Worker

Processwise(x) == LocalsTyped' /\ Alone(x) /\ (x \in Process => Path(x))

------------------------------------------------------------------------------
(* The invariant is kept by any such step.                                 *)

(* The missions rows before and after a step.                              *)
LEMMA RowsNext ==
    ASSUME Typed, NEW x, Tablewise(x)
    PROVE  /\ MissionId \subseteq MissionId'
           /\ \A k \in MissionId : mission[k] \in Missions /\ k # 0
           /\ \A k \in MissionId' : mission'[k] \in Missions /\ k # 0
<1>1. mission \in Seq(Missions) /\ mission' \in Seq(Missions) /\ MissionId \subseteq MissionId'
  BY DEF Typed, RowsTyped, Tablewise, Rowwise
<1> QED
  BY <1>1, Table DEF MissionId

(* The locals of a process.                                                *)
LEMMA ProcessTypes ==
    ASSUME Typed
    PROVE  \A x \in Process :
              /\ cur[x] \in MissionId \cup {0} /\ back[x] \in MissionId \cup {0}
              /\ pc[x] \in Places /\ keys[x] \subseteq Planet
              /\ cur[x] = 0 <=> pc[x] \in {"idle", "ordered", "asked", "leaving"}
              /\ x \in Client => pc[x] \in ClientPlaces
              /\ x \in Worker => pc[x] \notin {"ordered", "asked", "leaving", "cancelling"}
              /\ Returning(x) => back[x] \in MissionId
              /\ pc[x] \notin {"idle", "ordered", "asked", "leaving"} => cur[x] \in MissionId
  BY DEF Typed, LocalsTyped, PlaceTyped, Returning

(* Kinds is kept.                                                          *)
LEMMA KindsNext ==
    ASSUME Inv, NEW x, Tablewise(x), Processwise(x)
    PROVE  Kinds'
<1> USE RowsNext, ProcessTypes DEF Inv
<1>1. ASSUME NEW m \in MissionId PROVE Later(mission[m], mission'[m])
  BY DEF Tablewise, Rowwise
<1>2. \A m \in MissionId : mission[m].type \in OnDuty => mission'[m].type = mission[m].type
  BY <1>1 DEF Later, OnDuty
<1>3. ASSUME NEW m \in MissionId', mission'[m].task # "none"
      PROVE  mission'[m].type \in OnDuty
  <2>1. CASE m \in MissionId
    <3>1. \/ mission[m].task # "none"
          \/ At(x, "schedule") /\ m = back[x]
      BY <1>3, <2>1 DEF Tablewise, Rowwise
    <3>2. CASE mission[m].task # "none"
      BY <2>1, <3>2, <1>2 DEF Kinds
    <3>3. CASE At(x, "schedule") /\ m = back[x]
      BY <2>1, <3>3, <1>2 DEF IsOwn, At, Returning, OnDuty
    <3> QED
      BY <3>1, <3>2, <3>3
  <2>2. CASE m \notin MissionId
    <3>1. Fresh(mission'[m])
      BY <2>2 DEF Tablewise, Rowwise
    <3> QED
      BY <3>1, <1>3 DEF Fresh, Missions, OnDuty
  <2> QED
    BY <2>1, <2>2
<1>4. ASSUME NEW m \in MissionId', mission'[m].acted # 0
      PROVE  mission'[m].type \in OnDuty
  <2>1. CASE m \in MissionId
    <3>1. \/ mission[m].acted # 0
          \/ x \in Worker /\ At(x, "running") /\ m = cur[x]
      BY <1>4, <2>1 DEF Tablewise, Rowwise
    <3>2. mission[m].type \in OnDuty
      BY <2>1, <3>1 DEF Kinds, At, Process
    <3> QED
      BY <2>1, <3>2, <1>2
  <2>2. CASE m \notin MissionId
    BY <2>2, <1>4 DEF Tablewise, Rowwise, Fresh
  <2> QED
    BY <2>1, <2>2
<1>5. ASSUME NEW w \in Worker, cur'[w] # 0
      PROVE  mission'[cur'[w]].type \in OnDuty
  <2>0. w \in Process
    BY DEF Process
  <2>1. \/ cur'[w] = cur[w]
        \/ cur'[w] \in MissionId /\ mission[cur'[w]].task # "none"
    BY <2>0, <1>5, ProcessAssumption DEF Processwise, Alone, Path, Stands
  <2>2. cur'[w] \in MissionId /\ mission[cur'[w]].type \in OnDuty
    BY <2>0, <2>1, <1>5 DEF Kinds
  <2> QED
    BY <2>2, <1>2
<1>6. ASSUME NEW c \in Client, cur'[c] # 0
      PROVE  mission'[cur'[c]].type # "RETURN_MISSION"
  <2>0. c \in Process
    BY DEF Process
  <2>1. \/ cur'[c] = cur[c]
        \/ cur'[c] \in MissionId /\ mission[cur'[c]].type # "RETURN_MISSION"
    BY <2>0, <1>6, ProcessAssumption DEF Processwise, Alone, Path, Stands
  <2>2. cur'[c] \in MissionId /\ mission[cur'[c]].type # "RETURN_MISSION"
    BY <2>0, <2>1, <1>6 DEF Kinds
  <2> QED
    BY <2>2, <1>1 DEF Later
<1> QED
  BY <1>3, <1>4, <1>5, <1>6 DEF Kinds

(* IsOver is kept.                                                         *)
LEMMA IsOverNext ==
    ASSUME Inv, NEW x, Tablewise(x), Processwise(x)
    PROVE  IsOver'
<1> SUFFICES ASSUME NEW y \in Process, Over(y)' PROVE mission'[cur'[y]].resolved
  BY DEF IsOver
<1> USE RowsNext, ProcessTypes DEF Inv
<1>1. \A m \in MissionId : mission[m].resolved => mission'[m].resolved
  BY DEF Tablewise, Rowwise, Later
<1>2. CASE y # x
  <2>1. Over(y) /\ cur'[y] = cur[y]
    BY <1>2 DEF Processwise, Alone, Over
  <2>2. cur[y] \in MissionId
    BY <2>1 DEF Over
  <2> QED
    BY <2>1, <2>2, <1>1 DEF IsOver
<1>3. CASE y = x
  <2>1. Path(x)
    BY <1>3 DEF Processwise
  <2>2. Stands(x) /\ cur[x] \in MissionId
    BY <2>1, <1>3, ProcessAssumption DEF Path, Over, Stands
  <2>3. \/ mission[cur[x]].resolved
        \/ Over(x)
        \/ pc[x] = "running" /\ pc'[x] = "unlock"
        \/ pc[x] = "resolve" /\ pc'[x] = "insert"
    BY <2>1, <2>2, <1>3, ProcessAssumption DEF Path, Over, Stands
  <2>4. CASE mission[cur[x]].resolved \/ Over(x)
    BY <2>2, <2>4, <1>1, <1>3 DEF IsOver, Stands
  <2>5. CASE \/ pc[x] = "running" /\ pc'[x] = "unlock"
             \/ pc[x] = "resolve" /\ pc'[x] = "insert"
    BY <2>2, <2>5, <1>3 DEF Tablewise, Settled, At, Stands
  <2> QED
    BY <2>3, <2>4, <2>5
<1> QED
  BY <1>2, <1>3

(* IsLocked is kept: a lock is taken when it is free, and not given up     *)
(* before the end.                                                         *)
LEMMA IsLockedNext ==
    ASSUME Inv, NEW x, Tablewise(x), Processwise(x)
    PROVE  IsLocked'
<1> SUFFICES ASSUME NEW y \in Process
             PROVE  /\ pc'[y] \in {"locking", "cancelling"} =>
                          /\ mission'[cur'[y]].src \in keys'[y]
                          /\ mission'[cur'[y]].tgt \in keys'[y]
                    /\ Holds(y)' => /\ lock'[mission'[cur'[y]].src] = y
                                    /\ lock'[mission'[cur'[y]].tgt] = y
  BY DEF IsLocked
<1> USE RowsNext, ProcessTypes DEF Inv
<1>1. \A m \in MissionId : /\ mission'[m].src = mission[m].src /\ mission[m].src \in Planet
                           /\ mission'[m].tgt = mission[m].tgt /\ mission[m].tgt \in Planet
  BY DEF Tablewise, Rowwise, Later, Missions
<1>2. CASE y # x
  <2>1. /\ pc'[y] = pc[y] /\ cur'[y] = cur[y] /\ keys'[y] = keys[y] /\ (Holds(y)' => Holds(y))
        /\ \A p \in Planet : lock[p] = y => lock'[p] = y
    <3> y # Nobody
      BY UniverseAssumption
    <3> QED
      BY <1>2 DEF Processwise, Alone, Holds
  <2> QED
    BY <2>1, <1>1 DEF IsLocked, Holds
<1>3. CASE y = x
  <2>1. Path(x)
    BY <1>3 DEF Processwise
  <2>2. ASSUME pc'[x] \in {"locking", "cancelling"}
        PROVE  mission'[cur'[x]].src \in keys'[x] /\ mission'[cur'[x]].tgt \in keys'[x]
    BY <2>1, <2>2, <1>1, <1>3 DEF Path, Stands
  <2>3. ASSUME Holds(x)'
        PROVE  lock'[mission'[cur'[x]].src] = x /\ lock'[mission'[cur'[x]].tgt] = x
    <3>1. /\ Stands(x) /\ cur[x] \in MissionId
          /\ \/ pc[x] \in {"locking", "cancelling"} /\ Takes(x)
             \/ Holds(x) /\ lock' = lock
      BY <2>1, <2>3, <1>3, ProcessAssumption DEF Path, Stands, Holds
    <3> QED
      BY <3>1, <1>1, <1>3 DEF IsLocked, Takes, Stands
  <2> QED
    BY <1>3, <2>2, <2>3
<1> QED
  BY <1>2, <1>3

(* IsOwn is kept: a return that was just inserted has no task a worker     *)
(* could claim.                                                            *)
LEMMA IsOwnNext ==
    ASSUME Inv, NEW x, Tablewise(x), Processwise(x)
    PROVE  IsOwn'
<1> SUFFICES ASSUME NEW y \in Process, Returning(y)'
             PROVE  /\ mission'[back'[y]].type = "RETURN_MISSION"
                    /\ mission'[back'[y]].task = "none"
                    /\ ~mission'[back'[y]].resolved
                    /\ \A w \in Worker : cur'[w] # back'[y]
                    /\ \A z \in Process : z # y /\ Returning(z)' => back'[z] # back'[y]
  BY DEF IsOwn
<1> USE RowsNext, ProcessTypes DEF Inv
<1>1. CASE y # x
  <2> DEFINE b == back[y]
  <2>1. Returning(y) /\ back'[y] = b /\ b \in MissionId
    BY <1>1 DEF Processwise, Alone, Returning
  <2>2. /\ mission[b].type = "RETURN_MISSION" /\ mission[b].task = "none" /\ ~mission[b].resolved
        /\ \A w \in Worker : cur[w] # b
        /\ \A z \in Process : z # y /\ Returning(z) => back[z] # b
    BY <2>1 DEF IsOwn
  <2> HIDE DEF b
  <2>3. x \in Process => cur[x] # b
    <3> SUFFICES ASSUME x \in Process, cur[x] = b PROVE FALSE
      OBVIOUS
    <3>1. x \in Client /\ cur[x] # 0
      BY <2>1, <2>2 DEF Process
    <3> QED
      BY <3>1, <2>2 DEF Kinds
  <2>4. mission'[b] = mission[b]
    <3>1. \/ mission'[b] = mission[b]
          \/ x \in Process /\ b = cur[x]
          \/ mission[b].task # "none" \/ mission[b].type = "DEPLOYED"
          \/ At(x, "schedule") /\ b = back[x]
      BY <2>1 DEF Tablewise, Rowwise
    <3>2. ~(At(x, "schedule") /\ b = back[x])
      BY <1>1, <2>2 DEF At, Returning
    <3> QED
      BY <3>1, <3>2, <2>2, <2>3
  <2>5. ASSUME NEW w \in Worker PROVE cur'[w] # b
    <3>1. w \in Process
      BY DEF Process
    <3>2. \/ cur'[w] = cur[w] \/ cur'[w] = 0
          \/ cur'[w] \in MissionId /\ mission[cur'[w]].task # "none"
      BY <3>1, ProcessAssumption DEF Processwise, Alone, Path, Stands
    <3> QED
      BY <3>1, <3>2, <2>1, <2>2
  <2>6. ASSUME NEW z \in Process, z # y, Returning(z)' PROVE back'[z] # b
    <3>1. CASE z # x
      BY <3>1, <2>6, <2>2 DEF Processwise, Alone, Returning
    <3>2. CASE z = x
      <4>1. \/ At(x, "insert") /\ pc'[x] = "repoint"
            \/ At(x, "repoint") /\ back'[x] = back[x]
        BY <2>6, <3>2 DEF Processwise, Path, Returning, At
      <4>2. CASE At(x, "insert") /\ pc'[x] = "repoint"
        BY <4>2, <3>2, <2>1 DEF Tablewise, Settled
      <4>3. CASE At(x, "repoint") /\ back'[x] = back[x]
        BY <4>3, <3>2, <2>6, <2>2 DEF At, Returning
      <4> QED
        BY <4>1, <4>2, <4>3
    <3> QED
      BY <3>1, <3>2
  <2> QED
    BY <2>1, <2>2, <2>4, <2>5, <2>6
<1>2. CASE y = x
  <2>1. \/ At(x, "insert") /\ pc'[x] = "repoint" /\ Stands(x)
        \/ At(x, "repoint") /\ back'[x] = back[x] /\ mission' = mission /\ Stands(x)
    BY <1>2 DEF Processwise, Path, Returning, At
  <2>2. \A w \in Worker : w \in Process /\ cur'[w] = cur[w]
    BY <2>1, <1>2 DEF Processwise, Alone, Stands, Process
  <2>3. \A z \in Process : z # y => Returning(z)' = Returning(z) /\ back'[z] = back[z]
    BY <1>2 DEF Processwise, Alone, Returning
  <2>4. CASE At(x, "insert") /\ pc'[x] = "repoint"
    <3>1. /\ back'[x] \in MissionId' \ MissionId
          /\ mission'[back'[x]].type = "RETURN_MISSION" /\ mission'[back'[x]].task = "none"
      BY <2>4 DEF Tablewise, Settled
    <3>2. Fresh(mission'[back'[x]])
      BY <3>1 DEF Tablewise, Rowwise
    <3>3. \A w \in Worker : cur[w] # back'[x]
      BY <3>1, <2>2
    <3> QED
      BY <3>1, <3>2, <3>3, <2>2, <2>3, <1>2 DEF Fresh
  <2>5. CASE At(x, "repoint") /\ back'[x] = back[x] /\ mission' = mission
    BY <2>5, <2>2, <2>3, <1>2 DEF IsOwn, At, Returning
  <2> QED
    BY <2>1, <2>4, <2>5
<1> QED
  BY <1>1, <1>2

(* A mission that is not DEPLOYED takes no units on board, unless it is    *)
(* the return that the process just made.                                  *)
LEMMA NoneBoards ==
    ASSUME Inv, NEW x, Tablewise(x), NEW m \in MissionId, mission[m].type # "DEPLOYED",
           At(x, "repoint") => m # back[x]
    PROVE  Aboard(m)' \subseteq Aboard(m)
<1> SUFFICES ASSUME NEW s \in Aboard(m)' PROVE s \in Aboard(m)
  OBVIOUS
<1>1. s \in StackId' /\ stack'[s].count > 0 /\ stack'[s].mission = m
  BY DEF Aboard, Live
<1>2. m # 0
  BY RowsNext DEF Inv
<1>3. mission'[m].type # "DEPLOYED"
  BY DEF Tablewise, Rowwise, Later
<1>4. \/ s \in Aboard(m)
      \/ mission'[m].type = "DEPLOYED" /\ ~mission'[m].resolved
      \/ m \notin MissionId /\ mission'[m].task # "none"
      \/ At(x, "repoint") /\ m = back[x]
  BY <1>1, <1>2 DEF Tablewise, Stackwise
<1> QED
  BY <1>3, <1>4

(* IsRead is kept: nothing boards a mission that is running.               *)
LEMMA IsReadNext ==
    ASSUME Inv, NEW x, Tablewise(x), Processwise(x)
    PROVE  IsRead'
<1> SUFFICES ASSUME NEW w \in Worker, pc'[w] = "running"
             PROVE  Aboard(cur[w])' \subseteq snap'[w].units /\ cur'[w] = cur[w]
  BY DEF IsRead, Aboard
<1> USE RowsNext, ProcessTypes DEF Inv
<1>0. w \in Process
  BY DEF Process
<1>1. CASE w # x
  <2>1. pc[w] = "running" /\ cur'[w] = cur[w] /\ snap'[w] = snap[w] /\ cur[w] \in MissionId
    BY <1>0, <1>1 DEF Processwise, Alone
  <2>2. Aboard(cur[w]) \subseteq snap[w].units
    BY <2>1 DEF IsRead
  <2>3. mission[cur[w]].type # "DEPLOYED"
    BY <2>1, <1>0 DEF Kinds, OnDuty
  <2>4. At(x, "repoint") => cur[w] # back[x]
    BY DEF IsOwn, At, Returning
  <2>5. Aboard(cur[w])' \subseteq Aboard(cur[w])
    BY <2>1, <2>3, <2>4, NoneBoards
  <2> QED
    BY <2>1, <2>2, <2>5
<1>2. CASE w = x
  <2>1. /\ Stands(x) /\ mission' = mission /\ stack' = stack
        /\ snap'[x].units = Aboard(cur[x])
    BY <1>0, <1>2 DEF Processwise, Path
  <2> QED
    BY <2>1, <1>2 DEF Aboard, Live, StackId, Stands
<1> QED
  BY <1>1, <1>2

(* IsSeen is kept: a planet that is locked is lost only in haste.          *)
LEMMA IsSeenNext ==
    ASSUME Inv, NEW x, Tablewise(x), Processwise(x)
    PROVE  IsSeen'
<1> SUFFICES ASSUME NEW w \in Worker, pc'[w] = "running",
                    NEW p \in snap'[w].planets, lock'[p] = w
             PROVE  owner'[p] = Me \/ p \in hasty'
  BY DEF IsSeen
<1>0. w \in Process /\ w # Nobody
  BY UniverseAssumption DEF Process
<1>1. snap'[w].planets \subseteq Planet
  BY <1>0 DEF Processwise, LocalsTyped
<1>2. CASE w # x
  <2>1. pc[w] = "running" /\ snap'[w] = snap[w] /\ lock[p] = w
    BY <1>0, <1>1, <1>2 DEF Processwise, Alone
  <2>2. owner[p] = Me \/ p \in hasty
    BY <2>1 DEF Inv, IsSeen
  <2> QED
    BY <1>0, <1>1, <2>1, <2>2 DEF Tablewise, Ownerwise
<1>3. CASE w = x
  <2>1. owner' = owner /\ snap'[w].planets = OwnedBy(Me)
    BY <1>0, <1>3 DEF Processwise, Path
  <2> QED
    BY <2>1 DEF OwnedBy
<1> QED
  BY <1>2, <1>3

(* IsOnce is kept: the effect empties the mission, and who runs it next    *)
(* reads that.                                                             *)
LEMMA IsOnceNext ==
    ASSUME Inv, NEW x, Tablewise(x), Processwise(x)
    PROVE  IsOnce'
<1> SUFFICES ASSUME NEW m \in MissionId', mission'[m].type # "RETURN_MISSION"
             PROVE  /\ mission'[m].acted <= 1
                    /\ mission'[m].acted = 1 =>
                          /\ Aboard(m)' = {}
                          /\ \A w \in Worker :
                                pc'[w] = "running" /\ cur'[w] = m => snap'[w].units = {}
  BY DEF IsOnce, Aboard
<1> USE RowsNext, ProcessTypes DEF Inv
<1>1. CASE m \notin MissionId
  BY <1>1 DEF Tablewise, Rowwise, Fresh
<1>2. CASE m \in MissionId
  <2>1. mission[m].type # "RETURN_MISSION"
    BY <1>2 DEF Tablewise, Rowwise, Later
  <2>2. /\ mission[m].acted <= 1 /\ mission[m].acted \in Nat
        /\ mission[m].acted = 1 => /\ Aboard(m) = {}
                                   /\ \A w \in Worker : pc[w] = "running" /\ cur[w] = m
                                         => snap[w].units = {}
    BY <1>2, <2>1 DEF IsOnce, Missions
  <2>3. CASE mission'[m].acted = mission[m].acted
    <3> SUFFICES ASSUME mission[m].acted = 1
                 PROVE  /\ Aboard(m)' = {}
                        /\ \A w \in Worker : pc'[w] = "running" /\ cur'[w] = m
                              => snap'[w].units = {}
      BY <2>2, <2>3
    <3>1. mission[m].type # "DEPLOYED"
      BY <1>2 DEF Kinds, OnDuty
    <3>2. At(x, "repoint") => m # back[x]
      BY <2>1 DEF IsOwn, At, Returning
    <3>3. Aboard(m)' = {}
      BY <1>2, <2>2, <3>1, <3>2, NoneBoards
    <3>4. ASSUME NEW w \in Worker, pc'[w] = "running", cur'[w] = m
          PROVE  snap'[w].units = {}
      <4>1. w \in Process
        BY DEF Process
      <4>2. CASE w # x
        BY <2>2, <3>4, <4>1, <4>2 DEF Processwise, Alone
      <4>3. CASE w = x
        BY <2>2, <3>4, <4>1, <4>3 DEF Processwise, Path, Stands
      <4> QED
        BY <4>2, <4>3
    <3> QED
      BY <3>3, <3>4
  <2>4. CASE mission'[m].acted # mission[m].acted
    <3>1. /\ mission'[m].acted = mission[m].acted + 1
          /\ x \in Worker /\ At(x, "running") /\ pc'[x] = "unlock" /\ m = cur[x]
          /\ snap[x].units # {}
      BY <1>2, <2>1, <2>4 DEF Tablewise, Rowwise
    <3>2. mission[m].acted = 0
      BY <2>2, <3>1 DEF At
    <3>3. Aboard(m)' = {}
      BY <1>2, <2>4, <3>1 DEF Tablewise, Settled, At
    <3>4. ASSUME NEW w \in Worker, pc'[w] = "running", cur'[w] = m
          PROVE  FALSE
      <4>1. w \in Process /\ w # x
        BY <3>1, <3>4 DEF Process
      <4>2. pc[w] = "running" /\ cur[w] = m
        BY <3>4, <4>1 DEF Processwise, Alone
      <4> QED
        BY <3>1, <4>1, <4>2 DEF IsLocked, Holds, At
    <3> QED
      BY <3>1, <3>2, <3>3, <3>4
  <2> QED
    BY <2>3, <2>4
<1> QED
  BY <1>1, <1>2

------------------------------------------------------------------------------
(* The locks.                                                              *)

LockStep(x) ==
    /\ lock' \in [Planet -> Process \cup {Nobody}]
    /\ \A p \in Planet :
          \/ lock'[p] = lock[p]
          \/ x \in Process /\ lock[p] = Nobody /\ lock'[p] = x
          \/ x \in Process /\ lock[p] = x /\ lock'[p] = Nobody

(* The locks stay as they are.                                             *)
LEMMA LockKept == ASSUME Typed, NEW x, lock' = lock PROVE LockStep(x)
  BY DEF LockStep, Typed, LocalsTyped

(* The process takes free locks.                                           *)
LEMMA LockTaken ==
    ASSUME Typed, NEW x \in Process, NEW K \in SUBSET Planet, LocksFree(K), Take(x, K)
    PROVE  LockStep(x) /\ \A p \in K : lock[p] = Nobody /\ lock'[p] = x
  BY DEF LockStep, Typed, LocalsTyped, LocksFree, Take

(* The process gives up its locks.                                         *)
LEMMA LockDropped ==
    ASSUME Typed, NEW x \in Process, Drop(x)
    PROVE  LockStep(x)
  BY DEF LockStep, Typed, LocalsTyped, Drop

(* The planets of a mission are among its lock keys.                       *)
LEMMA KeysArePlanets ==
    ASSUME Typed, NEW m \in MissionId
    PROVE  /\ KeysOf(m) \subseteq Planet
           /\ mission[m].src \in KeysOf(m) /\ mission[m].tgt \in KeysOf(m)
  BY Tables DEF Typed, KeysOf, WithOwnerPlanets, OwnedBy, Missions

------------------------------------------------------------------------------
(* The processes.                                                          *)

Grows == MissionId \subseteq MissionId' /\ StackId \subseteq StackId'

(* A process that only goes to another place.                              *)
LEMMA Goes ==
    ASSUME Typed, Grows, NEW x \in Process, NEW place \in Places,
           Goto(x, place), UNCHANGED locals, LockStep(x),
           pc[x] \notin {"idle", "ordered", "asked", "leaving"},
           place \notin {"idle", "ordered", "asked", "leaving"},
           x \in Client => place \in ClientPlaces,
           x \in Worker => place # "cancelling",
           place \in {"repoint", "schedule"} => back[x] # 0
    PROVE  LocalsTyped' /\ Alone(x) /\ Stands(x) /\ pc'[x] = place
<1>1. /\ pc' \in [Process -> Places] /\ pc'[x] = place
      /\ \A y \in Process \ {x} : pc'[y] = pc[y]
  BY DEF Typed, LocalsTyped, Goto
<1>2. /\ cur' \in [Process -> MissionId' \cup {0}]
      /\ back' \in [Process -> MissionId' \cup {0}]
      /\ snap' \in [Process -> [units : SUBSET StackId', planets : SUBSET Planet]]
      /\ keys' \in [Process -> SUBSET Planet]
      /\ order' \in [Process -> Orders \cup Departures \cup {NoOrder}]
  <2>1. cur \in [Process -> MissionId \cup {0}] /\ back \in [Process -> MissionId \cup {0}]
    BY DEF Typed, LocalsTyped
  <2>2. snap \in [Process -> [units : SUBSET StackId, planets : SUBSET Planet]]
    BY DEF Typed, LocalsTyped
  <2>3. \A y \in Process : snap[y] \in [units : SUBSET StackId', planets : SUBSET Planet]
    BY <2>2 DEF Grows
  <2> QED
    BY <2>1, <2>2, <2>3 DEF Typed, LocalsTyped, Grows, locals
<1>3. \A y \in Process : PlaceTyped(y)'
  <2>1. \A y \in Process : PlaceTyped(y)
    BY DEF Typed, LocalsTyped
  <2> QED
    BY <1>1, <2>1 DEF PlaceTyped, locals
<1>4. LocalsTyped'
  BY <1>1, <1>2, <1>3 DEF LocalsTyped, LockStep
<1>5. Alone(x)
  BY <1>1 DEF Alone, locals, LockStep
<1>6. Stands(x)
  BY ProcessTypes DEF Stands, locals
<1> QED
  BY <1>1, <1>4, <1>5, <1>6

(* A process that is done.                                                 *)
LEMMA Rests ==
    ASSUME Typed, Grows, NEW x \in Process, Rest(x), LockStep(x)
    PROVE  Processwise(x) /\ pc'[x] = "idle"
<1>1. /\ pc' \in [Process -> Places] /\ pc'[x] = "idle"
      /\ \A y \in Process \ {x} : pc'[y] = pc[y]
  BY DEF Typed, LocalsTyped, Rest, Goto, Places
<1>2. /\ cur' \in [Process -> MissionId' \cup {0}] /\ cur'[x] = 0
      /\ \A y \in Process \ {x} : cur'[y] = cur[y]
  BY DEF Typed, LocalsTyped, Rest, Grows
<1>3. /\ back' \in [Process -> MissionId' \cup {0}]
      /\ \A y \in Process \ {x} : back'[y] = back[y]
  BY DEF Typed, LocalsTyped, Rest, Grows
<1>4. /\ snap' \in [Process -> [units : SUBSET StackId', planets : SUBSET Planet]]
      /\ \A y \in Process \ {x} : snap'[y] = snap[y]
  <2>1. snap \in [Process -> [units : SUBSET StackId, planets : SUBSET Planet]]
    BY DEF Typed, LocalsTyped
  <2>2. \A y \in Process : snap[y] \in [units : SUBSET StackId', planets : SUBSET Planet]
    BY <2>1 DEF Grows
  <2> QED
    BY <2>1, <2>2 DEF Rest
<1>5. /\ keys' \in [Process -> SUBSET Planet]
      /\ \A y \in Process \ {x} : keys'[y] = keys[y]
  BY DEF Typed, LocalsTyped, Rest
<1>6. /\ order' \in [Process -> Orders \cup Departures \cup {NoOrder}]
      /\ \A y \in Process \ {x} : order'[y] = order[y]
  BY DEF Typed, LocalsTyped, Rest
<1>7. \A y \in Process : PlaceTyped(y)'
  <2>1. \A y \in Process : PlaceTyped(y)
    BY DEF Typed, LocalsTyped
  <2>2. \A y \in Process \ {x} : PlaceTyped(y)'
    BY <1>1, <1>2, <1>3, <1>6, <2>1 DEF PlaceTyped
  <2>3. PlaceTyped(x)'
    BY <1>1, <1>2 DEF PlaceTyped, ClientPlaces
  <2> QED
    BY <2>2, <2>3
<1>8. LocalsTyped'
  BY <1>1, <1>2, <1>3, <1>4, <1>5, <1>6, <1>7 DEF LocalsTyped, LockStep
<1>9. Alone(x)
  BY <1>1, <1>2, <1>3, <1>4, <1>5, <1>6 DEF Alone, LockStep
<1> QED
  BY <1>1, <1>2, <1>8, <1>9 DEF Processwise, Path

(* A process that goes on and takes something with it.                     *)
LEMMA Turns ==
    ASSUME Typed, Grows, NEW x \in Process, NEW place \in Places, Goto(x, place),
           LockStep(x),
           cur' \in [Process -> MissionId' \cup {0}], \A y \in Process \ {x} : cur'[y] = cur[y],
           keys' \in [Process -> SUBSET Planet], \A y \in Process \ {x} : keys'[y] = keys[y],
           back' \in [Process -> MissionId' \cup {0}],
           \A y \in Process \ {x} : back'[y] = back[y],
           snap' \in [Process -> [units : SUBSET StackId', planets : SUBSET Planet]],
           \A y \in Process \ {x} : snap'[y] = snap[y],
           order' \in [Process -> Orders \cup Departures \cup {NoOrder}],
           \A y \in Process \ {x} : order'[y] = order[y],
           PlaceTyped(x)'
    PROVE  LocalsTyped' /\ Alone(x) /\ pc'[x] = place
<1>1. /\ pc' \in [Process -> Places] /\ pc'[x] = place
      /\ \A y \in Process \ {x} : pc'[y] = pc[y]
  BY DEF Typed, LocalsTyped, Goto
<1>2. \A y \in Process : PlaceTyped(y)'
  <2>1. \A y \in Process : PlaceTyped(y)
    BY DEF Typed, LocalsTyped
  <2>2. \A y \in Process \ {x} : PlaceTyped(y)'
    BY <1>1, <2>1 DEF PlaceTyped
  <2> QED
    BY <2>2
<1> QED
  BY <1>1, <1>2 DEF LocalsTyped, Alone, LockStep

(* What the others leave alone is still typed when the tables grow.        *)
LEMMA StillTyped ==
    ASSUME Typed, Grows
    PROVE  /\ cur \in [Process -> MissionId' \cup {0}]
           /\ back \in [Process -> MissionId' \cup {0}]
           /\ snap \in [Process -> [units : SUBSET StackId', planets : SUBSET Planet]]
           /\ keys \in [Process -> SUBSET Planet]
           /\ order \in [Process -> Orders \cup Departures \cup {NoOrder}]
<1>1. snap \in [Process -> [units : SUBSET StackId, planets : SUBSET Planet]]
  BY DEF Typed, LocalsTyped
<1>2. \A y \in Process : snap[y] \in [units : SUBSET StackId', planets : SUBSET Planet]
  BY <1>1 DEF Grows
<1> QED
  BY <1>1, <1>2 DEF Typed, LocalsTyped, Grows

(* A worker whose attempt to run its mission is over.                      *)
LEMMA Forgets ==
    ASSUME Typed, Grows, NEW w \in Worker, NEW place \in {"closing", "failed"},
           Goto(w, place), Forget(w), LockStep(w), pc[w] \in {"locking", "running", "unlock"}
    PROVE  LocalsTyped' /\ Alone(w) /\ Stands(w) /\ pc'[w] = place
<1>1. w \in Process /\ w \notin Client /\ place \in Places /\ UNCHANGED <<cur, back, order>>
  BY ProcessAssumption DEF Process, Places, Forget
<1>2. /\ keys' \in [Process -> SUBSET Planet]
      /\ \A y \in Process \ {w} : keys'[y] = keys[y]
  BY <1>1, StillTyped DEF Forget
<1>3. /\ snap' \in [Process -> [units : SUBSET StackId', planets : SUBSET Planet]]
      /\ \A y \in Process \ {w} : snap'[y] = snap[y]
  BY <1>1, StillTyped DEF Forget
<1>4. cur[w] # 0 /\ pc'[w] = place
  BY <1>1, ProcessTypes DEF Goto, Typed, LocalsTyped
<1>5. PlaceTyped(w)'
  BY <1>1, <1>4 DEF PlaceTyped
<1> QED
  BY <1>1, <1>2, <1>3, <1>4, <1>5, StillTyped, Turns DEF Stands

(* A step that leaves the tables alone.                                    *)
LEMMA QuietTables ==
    ASSUME Typed, NEW x, UNCHANGED rows, UNCHANGED ghosts,
           requests' \in 0 .. MaxRequests, faults' \in 0 .. MaxFaults,
           x \in Process => pc'[x] \notin {"schedule", "unlock", "insert", "repoint"},
           x \in Process => pc[x] # "schedule" \/ pc'[x] = "idle"
    PROVE  Tablewise(x) /\ Grows
<1>1. RowsTyped' /\ Grows
  BY DEF Typed, RowsTyped, rows, ghosts, Grows, MissionId, StackId
<1>2. Rowwise(x)
  BY <1>1 DEF Rowwise, Later, rows, Typed, RowsTyped, MissionId
<1>3. Stackwise(x)
  BY <1>1 DEF Stackwise, rows, Typed, RowsTyped, MissionId, StackId, Aboard, AtHome, Live
<1>4. Settled(x)
  BY DEF Settled, At, rows
<1>5. Units(StackId)' = Units(StackId)
  BY SameCounts DEF Typed, rows, StackId
<1> QED
  BY <1>1, <1>2, <1>3, <1>4, <1>5 DEF Tablewise, Ownerwise, rows, ghosts

(* A fault is counted within its bound.                                    *)
LEMMA FaultCounted ==
    ASSUME Typed, NEW kind, Fault(kind)
    PROVE  faults' \in 0 .. MaxFaults
  BY BoundAssumption DEF Typed, RowsTyped, Fault

------------------------------------------------------------------------------
(* The steps that leave the tables alone.                                  *)

Step(x) == Tablewise(x) /\ Processwise(x)

(* The counters stay within their bounds.                                  *)
LEMMA BoundsKept ==
    ASSUME Typed
    PROVE  /\ UNCHANGED requests => requests' \in 0 .. MaxRequests
           /\ UNCHANGED faults => faults' \in 0 .. MaxFaults
  BY DEF Typed, RowsTyped

(* A request that passes the checks.                                       *)
LEMMA OrderStep ==
    ASSUME Inv, NEW c \in Client, Order(c)
    PROVE  Step(c)
<1> USE DEF Inv
<1>1. c \in Process
  BY DEF Process
<1>2. PICK o \in Orders : order' = [order EXCEPT ![c] = o]
  BY DEF Order
<1>3. pc'[c] = "ordered"
  BY <1>1 DEF Order, Goto, Typed, LocalsTyped
<1>4. Tablewise(c) /\ Grows
  BY <1>3, QuietTables, BoundsKept DEF Order, bounds
<1>5. order' \in [Process -> Orders \cup Departures \cup {NoOrder}] /\ order'[c] = o
      /\ \A y \in Process \ {c} : order'[y] = order[y]
  BY <1>1, <1>2 DEF Typed, LocalsTyped
<1>6. cur[c] = 0 /\ cur' = cur
  BY <1>1, ProcessTypes DEF Order
<1>7. PlaceTyped(c)'
  BY <1>1, <1>3, <1>5, <1>6, ProcessAssumption DEF PlaceTyped, ClientPlaces
<1>8. LockStep(c)
  BY LockKept DEF Order
<1>9. Goto(c, "ordered") /\ UNCHANGED <<cur, keys, snap, back>> /\ "ordered" \in Places
  BY DEF Order, Places
<1>10. LocalsTyped' /\ Alone(c)
  BY <1>1, <1>4, <1>5, <1>7, <1>8, <1>9, StillTyped, Turns
<1> QED
  BY <1>3, <1>4, <1>6, <1>10 DEF Step, Processwise, Path

(* A registration that fails.                                              *)
LEMMA RegisterFailsStep ==
    ASSUME Inv, NEW c \in Client, RegisterFails(c)
    PROVE  Step(c)
<1>1. c \in Process /\ Typed /\ Rest(c) /\ LockStep(c)
  BY LockKept DEF Process, Inv, RegisterFails
<1>2. pc'[c] = "idle"
  BY <1>1 DEF Rest, Goto, Typed, LocalsTyped
<1>3. Tablewise(c) /\ Grows
  BY <1>1, <1>2, QuietTables, BoundsKept DEF RegisterFails, bounds
<1> QED
  BY <1>1, <1>3, Rests DEF Step

(* A process that stops.                                                   *)
LEMMA StopsStep ==
    ASSUME Inv, NEW x \in Process, Stops(x)
    PROVE  Step(x)
<1>1. Typed /\ Rest(x) /\ LockStep(x)
  BY LockDropped DEF Inv, Stops
<1>2. pc'[x] = "idle"
  BY <1>1 DEF Rest, Goto, Typed, LocalsTyped
<1>3. faults' \in 0 .. MaxFaults /\ requests' \in 0 .. MaxRequests
  BY <1>1, FaultCounted, BoundsKept DEF Stops
<1>4. Tablewise(x) /\ Grows
  BY <1>1, <1>2, <1>3, QuietTables DEF Stops
<1> QED
  BY <1>1, <1>4, Rests DEF Step

(* A request to leave a planet.                                            *)
LEMMA AskToLeaveStep ==
    ASSUME Inv, NEW c \in Client, AskToLeave(c)
    PROVE  Step(c)
<1> USE DEF Inv
<1>1. c \in Process
  BY DEF Process
<1>2. PICK p \in Planet : order' = [order EXCEPT ![c] = [leave |-> p]]
  BY DEF AskToLeave, OwnedBy
<1>3. pc'[c] = "asked"
  BY <1>1 DEF AskToLeave, Goto, Typed, LocalsTyped
<1>4. Tablewise(c) /\ Grows
  <2>1. requests' \in 0 .. MaxRequests
    BY BoundAssumption DEF AskToLeave, Typed, RowsTyped
  <2> QED
    BY <1>3, <2>1, QuietTables, BoundsKept DEF AskToLeave
<1>5. [leave |-> p] \in Departures
  BY DEF Departures
<1>6. /\ order' \in [Process -> Orders \cup Departures \cup {NoOrder}]
      /\ order'[c] \in Departures
      /\ \A y \in Process \ {c} : order'[y] = order[y]
  BY <1>1, <1>2, <1>5 DEF Typed, LocalsTyped
<1>7. cur[c] = 0 /\ cur' = cur
  BY <1>1, ProcessTypes DEF AskToLeave
<1>8. PlaceTyped(c)'
  BY <1>1, <1>3, <1>6, <1>7, ProcessAssumption DEF PlaceTyped, ClientPlaces
<1>9. LockStep(c) /\ Goto(c, "asked") /\ UNCHANGED <<cur, keys, snap, back>> /\ "asked" \in Places
  BY LockKept DEF AskToLeave, Places
<1>10. LocalsTyped' /\ Alone(c)
  BY <1>1, <1>4, <1>6, <1>8, <1>9, StillTyped, Turns
<1> QED
  BY <1>3, <1>4, <1>7, <1>10 DEF Step, Processwise, Path

(* A request to leave a planet that finds it empty, or not.                *)
LEMMA CanLeavePlanetStep ==
    ASSUME Inv, NEW c \in Client, CanLeavePlanet(c)
    PROVE  Step(c)
<1> USE DEF Inv
<1>1. /\ c \in Process /\ c \notin Worker /\ pc[c] = "asked" /\ LockStep(c)
      /\ UNCHANGED rows /\ UNCHANGED ghosts /\ UNCHANGED bounds
  BY LockKept, ProcessAssumption DEF Process, CanLeavePlanet
<1>2. CASE Rest(c)
  <2>1. pc'[c] = "idle"
    BY <1>1, <1>2 DEF Rest, Goto, Typed, LocalsTyped
  <2>2. Tablewise(c) /\ Grows
    BY <1>1, <2>1, QuietTables, BoundsKept DEF bounds
  <2> QED
    BY <1>1, <1>2, <2>2, Rests DEF Step
<1>3. CASE Goto(c, "leaving") /\ UNCHANGED locals
  <2>1. pc'[c] = "leaving"
    BY <1>1, <1>3 DEF Goto, Typed, LocalsTyped
  <2>2. Tablewise(c) /\ Grows
    BY <1>1, <2>1, QuietTables, BoundsKept DEF bounds
  <2>3. /\ cur[c] = 0 /\ order[c] \in Departures /\ "leaving" \in Places
        /\ UNCHANGED <<cur, keys, snap, back, order>>
    BY <1>1, <1>3 DEF Typed, LocalsTyped, PlaceTyped, Places, locals
  <2>4. PlaceTyped(c)'
    BY <1>1, <2>1, <2>3 DEF PlaceTyped, ClientPlaces
  <2>5. LocalsTyped' /\ Alone(c)
    BY <1>1, <1>3, <2>2, <2>3, <2>4, StillTyped, Turns
  <2> QED
    BY <2>1, <2>2, <2>3, <2>5 DEF Step, Processwise, Path
<1> QED
  BY <1>2, <1>3 DEF CanLeavePlanet

(* A planet is left: if units rest there or a run holds it, in haste.      *)
LEMMA LeavePlanetStep ==
    ASSUME Inv, NEW c \in Client, LeavePlanet(c)
    PROVE  Step(c)
<1> USE DEF Inv
<1> DEFINE p == order[c].leave
<1>1. /\ c \in Process /\ pc[c] = "leaving" /\ Rest(c) /\ LockStep(c) /\ RowsTyped
      /\ UNCHANGED <<mission, stack, known, lock, emptied, killed>> /\ UNCHANGED bounds
  BY LockKept DEF Process, LeavePlanet, Typed
<1>2. p \in Planet /\ Nobody \in User \cup {Nobody}
  BY <1>1 DEF Typed, LocalsTyped, PlaceTyped, Departures
<1>3. /\ owner' = [owner EXCEPT ![p] = Nobody]
      /\ hasty' = IF lock[p] # Nobody \/ AtHome(p) # {} THEN hasty \cup {p} ELSE hasty
  BY DEF LeavePlanet
<1> HIDE DEF p
<1>4. /\ owner' \in [Planet -> User \cup {Nobody}] /\ hasty' \subseteq Planet
      /\ hasty \subseteq hasty' /\ \A q \in Planet \ {p} : owner'[q] = owner[q]
      /\ p \notin hasty' => lock[p] = Nobody /\ AtHome(p) = {}
  BY <1>1, <1>2, <1>3 DEF RowsTyped
<1>5. MissionId' = MissionId /\ StackId' = StackId
  BY <1>1 DEF MissionId, StackId
<1>6. RowsTyped' /\ Grows
  BY <1>1, <1>4, <1>5, BoundsKept DEF RowsTyped, Grows, bounds
<1>7. Rowwise(c)
  BY <1>1, <1>5 DEF Rowwise, Later, RowsTyped
<1>8. Stackwise(c)
  <2>1. \A s \in StackId : stack[s].count > 0 => s \in Aboard(stack[s].mission)
    BY DEF Aboard, Live
  <2>2. \A s \in StackId : stack[s].count > 0 /\ stack[s].mission = 0 =>
           s \in AtHome(stack[s].planet) /\ stack[s].planet \in Planet
    BY <1>1, Tables DEF AtHome, Live, Stack
  <2>3. \A s \in StackId : stack[s].count > 0 /\ stack[s].mission = 0 =>
           \/ stack[s].planet \in hasty'
           \/ owner'[stack[s].planet] = owner[stack[s].planet]
    BY <1>4, <2>2
  <2> QED
    BY <1>1, <1>5, <1>6, <2>1, <2>2, <2>3 DEF Stackwise, RowsTyped
<1>9. pc'[c] = "idle"
  BY <1>1 DEF Rest, Goto, Typed, LocalsTyped
<1>10. Settled(c)
  BY <1>1, <1>9 DEF Settled, At
<1>11. Ownerwise
  BY <1>4 DEF Ownerwise
<1>12. Units(StackId)' = Units(StackId)
  BY <1>1, <1>5, SameCounts
<1>13. Tablewise(c)
  BY <1>1, <1>6, <1>7, <1>8, <1>10, <1>11, <1>12 DEF Tablewise
<1> QED
  BY <1>1, <1>6, <1>13, Rests DEF Step

(* A cancellation that loads its mission.                                  *)
LEMMA CancelStep ==
    ASSUME Inv, NEW c \in Client, Cancel(c)
    PROVE  Step(c)
<1> USE DEF Inv
<1>1. c \in Process
  BY DEF Process
<1>2. PICK m \in MissionId : /\ mission[m].type \notin {"RETURN_MISSION", "deleted"}
                             /\ cur' = [cur EXCEPT ![c] = m]
                             /\ keys' = [keys EXCEPT ![c] = KeysOf(m)]
  BY DEF Cancel
<1>3. pc'[c] = "cancelling"
  BY <1>1 DEF Cancel, Goto, Typed, LocalsTyped
<1>4. Tablewise(c) /\ Grows
  <2>1. requests' \in 0 .. MaxRequests
    BY BoundAssumption DEF Cancel, Typed, RowsTyped
  <2> QED
    BY <1>3, <2>1, QuietTables, BoundsKept DEF Cancel
<1>5. cur' \in [Process -> MissionId' \cup {0}] /\ cur'[c] = m
      /\ \A y \in Process \ {c} : cur'[y] = cur[y]
  BY <1>1, <1>2, <1>4 DEF Typed, LocalsTyped, Grows
<1>6. keys' \in [Process -> SUBSET Planet] /\ keys'[c] = KeysOf(m)
      /\ \A y \in Process \ {c} : keys'[y] = keys[y]
  BY <1>1, <1>2, KeysArePlanets DEF Typed, LocalsTyped
<1>7. m # 0
  BY Tables DEF Typed
<1>8. PlaceTyped(c)'
  BY <1>1, <1>3, <1>5, <1>7, ProcessAssumption DEF PlaceTyped, ClientPlaces
<1>9. LockStep(c)
  BY LockKept DEF Cancel
<1>10. Goto(c, "cancelling") /\ UNCHANGED <<snap, back, order>> /\ "cancelling" \in Places
  BY DEF Cancel, Places
<1>11. LocalsTyped' /\ Alone(c)
  BY <1>1, <1>4, <1>5, <1>6, <1>8, <1>9, <1>10, StillTyped, Turns
<1>12. Path(c)
  BY <1>1, <1>2, <1>3, <1>5, <1>6, KeysArePlanets DEF Path, Cancel
<1> QED
  BY <1>4, <1>11, <1>12 DEF Step, Processwise

(* A cancellation that gets its locks.                                     *)
LEMMA CancelLockedStep ==
    ASSUME Inv, NEW c \in Client, CancelLocked(c)
    PROVE  Step(c)
<1> USE DEF Inv
<1>1. c \in Process /\ pc[c] = "cancelling" /\ c \notin Worker
  BY ProcessAssumption DEF Process, CancelLocked
<1>2. pc'[c] = "resolve"
  BY <1>1 DEF CancelLocked, Goto, Typed, LocalsTyped
<1>3. Tablewise(c) /\ Grows
  BY <1>2, QuietTables, BoundsKept DEF CancelLocked, bounds
<1>4. keys[c] \subseteq Planet /\ LocksFree(keys[c]) /\ Take(c, keys[c])
  BY <1>1, ProcessTypes DEF CancelLocked
<1>5. LockStep(c) /\ \A p \in keys[c] : lock[p] = Nobody /\ lock'[p] = c
  BY <1>1, <1>4, LockTaken
<1>6. LocalsTyped' /\ Alone(c) /\ Stands(c)
  <2>1. Goto(c, "resolve") /\ UNCHANGED locals /\ "resolve" \in Places /\ "resolve" \in ClientPlaces
    BY DEF CancelLocked, Places, ClientPlaces
  <2> QED
    BY <1>1, <1>3, <1>5, <2>1, Goes
<1>7. Path(c)
  BY <1>1, <1>2, <1>5, <1>6 DEF Path, Takes, CancelLocked, locals
<1> QED
  BY <1>3, <1>6, <1>7 DEF Step, Processwise

(* A worker that looks at the mission and its lock keys.                   *)
LEMMA LoadStep ==
    ASSUME Inv, NEW w \in Worker, Load(w)
    PROVE  Step(w)
<1> USE DEF Inv
<1>1. w \in Process /\ pc[w] = "loading" /\ w \notin Client /\ cur[w] \in MissionId
  BY ProcessAssumption, ProcessTypes DEF Process, Load
<1>2. LockStep(w) /\ UNCHANGED <<cur, snap, back, order>>
  BY LockKept DEF Load
<1>3. CASE mission[cur[w]].resolved /\ Goto(w, "closing") /\ UNCHANGED keys
  <2>1. pc'[w] = "closing"
    BY <1>1, <1>3 DEF Goto, Typed, LocalsTyped
  <2>2. Tablewise(w) /\ Grows
    BY <2>1, QuietTables, BoundsKept DEF Load, bounds
  <2>3. LocalsTyped' /\ Alone(w) /\ Stands(w)
    <3>1. UNCHANGED locals /\ "closing" \in Places
      BY <1>2, <1>3 DEF locals, Places
    <3> QED
      BY <1>1, <1>2, <1>3, <2>2, <3>1, Goes
  <2>4. Path(w)
    BY <1>1, <1>3, <2>1, <2>3 DEF Path
  <2> QED
    BY <2>2, <2>3, <2>4 DEF Step, Processwise
<1>4. CASE /\ ~mission[cur[w]].resolved
           /\ keys' = [keys EXCEPT ![w] = KeysOf(cur[w])]
           /\ Goto(w, "locking")
  <2>1. pc'[w] = "locking"
    BY <1>1, <1>4 DEF Goto, Typed, LocalsTyped
  <2>2. Tablewise(w) /\ Grows
    BY <2>1, QuietTables, BoundsKept DEF Load, bounds
  <2>3. keys' \in [Process -> SUBSET Planet] /\ keys'[w] = KeysOf(cur[w])
        /\ \A y \in Process \ {w} : keys'[y] = keys[y]
    BY <1>1, <1>4, KeysArePlanets DEF Typed, LocalsTyped
  <2>4. PlaceTyped(w)'
    <3> cur'[w] # 0
      BY <1>1, <1>2, ProcessTypes
    <3> QED
      BY <1>1, <2>1 DEF PlaceTyped
  <2>5. "locking" \in Places
    BY DEF Places
  <2>6. LocalsTyped' /\ Alone(w)
    BY <1>1, <1>2, <1>4, <2>2, <2>3, <2>4, <2>5, StillTyped, Turns
  <2>7. Path(w)
    BY <1>1, <1>2, <2>1, <2>3, KeysArePlanets, ProcessTypes DEF Path, Stands
  <2> QED
    BY <2>2, <2>6, <2>7 DEF Step, Processwise
<1> QED
  BY <1>3, <1>4 DEF Load

(* A worker that gets its locks and reads the units.                       *)
LEMMA LockAndBeginStep ==
    ASSUME Inv, NEW w \in Worker, LockAndBegin(w)
    PROVE  Step(w)
<1> USE DEF Inv
<1>1. w \in Process /\ pc[w] = "locking" /\ w \notin Client /\ cur[w] \in MissionId
  BY ProcessAssumption, ProcessTypes DEF Process, LockAndBegin
<1>2. pc'[w] = "running"
  BY <1>1 DEF LockAndBegin, Goto, Typed, LocalsTyped
<1>3. Tablewise(w) /\ Grows
  BY <1>2, QuietTables, BoundsKept DEF LockAndBegin, bounds
<1>4. keys[w] \subseteq Planet /\ LocksFree(keys[w]) /\ Take(w, keys[w])
  BY <1>1, ProcessTypes DEF LockAndBegin
<1>5. LockStep(w) /\ \A p \in keys[w] : lock[p] = Nobody /\ lock'[p] = w
  BY <1>1, <1>4, LockTaken
<1>6. /\ snap' \in [Process -> [units : SUBSET StackId', planets : SUBSET Planet]]
      /\ snap'[w].units = Aboard(cur[w]) /\ snap'[w].planets = OwnedBy(Me)
      /\ \A y \in Process \ {w} : snap'[y] = snap[y]
  <2>1. [units |-> Aboard(cur[w]), planets |-> OwnedBy(Me)]
            \in [units : SUBSET StackId', planets : SUBSET Planet]
    BY <1>3 DEF Aboard, OwnedBy, Grows
  <2>2. snap \in [Process -> [units : SUBSET StackId', planets : SUBSET Planet]]
    BY <1>3, StillTyped
  <2>3. snap' = [snap EXCEPT ![w] = [units |-> Aboard(cur[w]), planets |-> OwnedBy(Me)]]
    BY DEF LockAndBegin
  <2> QED
    BY <1>1, <2>1, <2>2, <2>3
<1>7. /\ UNCHANGED <<cur, keys, back, order, mission, stack, owner>>
      /\ Goto(w, "running") /\ "running" \in Places
  BY DEF LockAndBegin, Places, rows
<1>8. PlaceTyped(w)'
  <2> cur'[w] # 0
    BY <1>1, <1>7, ProcessTypes
  <2> QED
    BY <1>1, <1>2 DEF PlaceTyped
<1>9. LocalsTyped' /\ Alone(w)
  BY <1>1, <1>3, <1>5, <1>6, <1>7, <1>8, StillTyped, Turns
<1>10. Path(w)
  BY <1>1, <1>2, <1>5, <1>6, <1>7, ProcessTypes DEF Path, Stands, Takes
<1> QED
  BY <1>3, <1>9, <1>10 DEF Step, Processwise

(* A run that fails.                                                       *)
LEMMA RunFailsStep ==
    ASSUME Inv, NEW w \in Worker, RunFails(w)
    PROVE  Step(w)
<1> USE DEF Inv
<1>1. w \in Process /\ pc[w] \in {"locking", "running"} /\ w \notin Client
  BY ProcessAssumption DEF Process, RunFails
<1>2. pc'[w] = "failed"
  BY <1>1 DEF RunFails, Goto, Typed, LocalsTyped
<1>3. Tablewise(w) /\ Grows
  <2>1. faults' \in 0 .. MaxFaults /\ requests' \in 0 .. MaxRequests
    BY FaultCounted, BoundsKept DEF RunFails
  <2> QED
    BY <1>2, <2>1, QuietTables DEF RunFails
<1>4. LockStep(w)
  BY <1>1, LockDropped DEF RunFails
<1>5. LocalsTyped' /\ Alone(w) /\ Stands(w)
  <2>1. Goto(w, "failed") /\ Forget(w)
    BY DEF RunFails
  <2> QED
    BY <1>1, <1>3, <1>4, <2>1, Forgets
<1>6. Path(w)
  BY <1>1, <1>2, <1>5 DEF Path
<1> QED
  BY <1>3, <1>5, <1>6 DEF Step, Processwise

(* A process that releases its locks.                                      *)
LEMMA UnlockStep ==
    ASSUME Inv, NEW x \in Process, Unlock(x)
    PROVE  Step(x)
<1> USE DEF Inv
<1>1. LockStep(x) /\ pc[x] = "unlock" /\ UNCHANGED rows /\ UNCHANGED ghosts
  BY LockDropped DEF Unlock
<1>2. requests' \in 0 .. MaxRequests
  BY BoundsKept DEF Unlock
<1>3. CASE x \in Client /\ Rest(x) /\ UNCHANGED faults
  <2>1. pc'[x] = "idle"
    BY <1>3 DEF Rest, Goto, Typed, LocalsTyped
  <2>2. Tablewise(x) /\ Grows
    BY <1>1, <1>2, <1>3, <2>1, QuietTables, BoundsKept
  <2> QED
    BY <1>1, <1>3, <2>2, Rests DEF Step
<1>4. ASSUME x \in Worker, NEW place \in {"closing", "failed"}, Goto(x, place),
             faults' \in 0 .. MaxFaults, Forget(x)
      PROVE  Step(x)
  <2>1. pc'[x] = place
    BY <1>4 DEF Goto, Typed, LocalsTyped
  <2>2. Tablewise(x) /\ Grows
    BY <1>1, <1>2, <1>4, <2>1, QuietTables
  <2>3. LocalsTyped' /\ Alone(x) /\ Stands(x)
    BY <1>1, <1>4, <2>2, Forgets
  <2>4. Path(x)
    BY <1>1, <1>4, <2>1, <2>3 DEF Path
  <2> QED
    BY <2>2, <2>3, <2>4 DEF Step, Processwise
<1>5. CASE x \in Worker /\ Goto(x, "closing") /\ Forget(x) /\ UNCHANGED faults
  BY <1>4, <1>5, BoundsKept
<1>6. CASE x \in Worker /\ Goto(x, "failed") /\ Forget(x) /\ Fault("late")
  BY <1>4, <1>6, FaultCounted
<1> QED
  BY <1>3, <1>5, <1>6 DEF Unlock

------------------------------------------------------------------------------
(* The steps that change one mission.                                      *)

(* A step that changes one row of missions, its planets and type excepted. *)
LEMMA OneMission ==
    ASSUME Typed, NEW x, NEW m \in MissionId, NEW r \in Missions,
           mission' = [mission EXCEPT ![m] = r], UNCHANGED <<stack, owner, known, ghosts>>,
           requests' \in 0 .. MaxRequests, faults' \in 0 .. MaxFaults,
           \/ x \in Process /\ m = cur[x]
           \/ mission[m].task # "none"
           \/ At(x, "schedule") /\ m = back[x],
           Later(mission[m], r), r.type = mission[m].type, r.acted = mission[m].acted,
           r.task # mission[m].task =>
              \/ mission[m].task # "none" /\ r.task # "none"
              \/ At(x, "closing") /\ x \in Worker /\ m = cur[x] /\ r.task = "none"
              \/ At(x, "schedule") /\ m = back[x] /\ r.task # "none",
           r.cancelled # mission[m].cancelled =>
              x \in Client /\ At(x, "resolve") /\ m = cur[x] /\ pc'[x] = "insert",
           r.resolved # mission[m].resolved =>
              At(x, "resolve") /\ m = cur[x] /\ pc'[x] = "insert",
           At(x, "schedule") => m = back[x] /\ r.task # "none",
           At(x, "resolve") /\ pc'[x] = "insert" => m = cur[x] /\ r.resolved,
           x \in Process => pc'[x] \notin {"schedule", "repoint"},
           At(x, "running") => pc'[x] # "unlock"
    PROVE  Tablewise(x) /\ Grows
<1>0. mission \in Seq(Missions)
  BY DEF Typed, RowsTyped
<1>1. /\ mission' \in Seq(Missions) /\ MissionId' = MissionId /\ mission'[m] = r
      /\ \A k \in MissionId \ {m} : mission'[k] = mission[k]
  BY <1>0, RowChanged DEF MissionId
<1>2. /\ StackId' = StackId /\ \A s \in StackId : s \in Aboard(stack[s].mission) <=> Live(s)
      /\ stack' = stack /\ owner' = owner
  BY DEF StackId, Aboard
<1>3. RowsTyped' /\ Grows
  BY <1>1, <1>2 DEF Typed, RowsTyped, ghosts, Grows
<1>4. \A k \in MissionId \ {m} : Later(mission[k], mission'[k])
  BY <1>1 DEF Later
<1>5. Rowwise(x)
  BY <1>1, <1>3, <1>4 DEF Rowwise, Grows, Process
<1>6. Stackwise(x)
  <2>1. \A s \in StackId' : stack'[s].count > 0 /\ stack'[s].mission = 0 =>
            s \in AtHome(stack'[s].planet)
    BY <1>2 DEF AtHome, Live
  <2>2. \A s \in StackId' : stack'[s].count > 0 => s \in Aboard(stack'[s].mission)
    BY <1>2 DEF Live
  <2> QED
    BY <1>2, <1>3, <2>1, <2>2 DEF Stackwise, Typed, RowsTyped, Grows
<1>7. Settled(x)
  BY <1>1 DEF Settled, At
<1>8. Units(StackId)' = Units(StackId)
  BY <1>2, SameCounts DEF Typed
<1> QED
  BY <1>2, <1>3, <1>5, <1>6, <1>7, <1>8 DEF Tablewise, Ownerwise, ghosts

(* A mission that is resolved to be sent home.                             *)
LEMMA ResolveStep ==
    ASSUME Inv, NEW x \in Process, Resolve(x)
    PROVE  Step(x)
<1> USE DEF Inv
<1> DEFINE m == cur[x]
           r == [mission[m] EXCEPT !.resolved = TRUE, !.cancelled = @ \/ x \in Client]
<1>1. pc[x] = "resolve" /\ At(x, "resolve") /\ m \in MissionId /\ mission[m] \in Missions
  BY ProcessTypes, Tables DEF Resolve, At, Typed
<1>2. pc'[x] = "insert"
  BY <1>1 DEF Resolve, Goto, Typed, LocalsTyped
<1>3. mission' = [mission EXCEPT ![m] = r]
  BY <1>1 DEF Resolve
<1>4. /\ r \in Missions /\ r.type = mission[m].type /\ r.acted = mission[m].acted
      /\ r.task = mission[m].task /\ r.src = mission[m].src /\ r.tgt = mission[m].tgt
      /\ r.resolved /\ (mission[m].cancelled => r.cancelled)
      /\ r.cancelled # mission[m].cancelled => x \in Client
  <2>1. (mission[m].cancelled \/ x \in Client) \in BOOLEAN
    BY <1>1 DEF Missions
  <2> QED
    BY <1>1, <2>1 DEF Missions
<1>5. Later(mission[m], r)
  BY <1>4 DEF Later
<1> HIDE DEF r
<1>6. UNCHANGED <<stack, owner, known, ghosts>>
  BY DEF Resolve
<1>7. requests' \in 0 .. MaxRequests /\ faults' \in 0 .. MaxFaults
  BY BoundsKept DEF Resolve, bounds
<1>8. Tablewise(x) /\ Grows
  BY <1>1, <1>2, <1>3, <1>4, <1>5, <1>6, <1>7, OneMission DEF At
<1>9. LocalsTyped' /\ Alone(x) /\ Stands(x)
  <2>1. Goto(x, "insert") /\ UNCHANGED locals /\ "insert" \in Places /\ "insert" \in ClientPlaces
    BY DEF Resolve, Places, ClientPlaces
  <2>2. LockStep(x)
    BY LockKept DEF Resolve
  <2> QED
    BY <1>1, <1>8, <2>1, <2>2, Goes
<1>10. Path(x)
  BY <1>1, <1>2, <1>9 DEF Path, Resolve
<1> QED
  BY <1>8, <1>9, <1>10 DEF Step, Processwise

(* The task of the return that was made.                                   *)
LEMMA ScheduleReturnStep ==
    ASSUME Inv, NEW x \in Process, ScheduleReturn(x)
    PROVE  Step(x)
<1> USE DEF Inv
<1> DEFINE m == back[x]
           r == [mission[m] EXCEPT !.task = "armed"]
           place == IF x \in Client THEN "unlock" ELSE "closing"
<1>1. pc[x] = "schedule" /\ At(x, "schedule") /\ m \in MissionId /\ mission[m] \in Missions
  BY ProcessTypes, Tables DEF ScheduleReturn, At, Typed, Returning
<1>2. pc'[x] = place
  BY <1>1 DEF ScheduleReturn, Goto, Typed, LocalsTyped
<1>3. mission' = [mission EXCEPT ![m] = r]
  BY <1>1 DEF ScheduleReturn
<1>4. /\ r \in Missions /\ r.type = mission[m].type /\ r.acted = mission[m].acted
      /\ r.task = "armed" /\ r.src = mission[m].src /\ r.tgt = mission[m].tgt
      /\ r.resolved = mission[m].resolved /\ r.cancelled = mission[m].cancelled
  BY <1>1 DEF Missions
<1>5. Later(mission[m], r)
  BY <1>4 DEF Later
<1> HIDE DEF r
<1>6. UNCHANGED <<stack, owner, known, ghosts>>
  BY DEF ScheduleReturn
<1>7. requests' \in 0 .. MaxRequests /\ faults' \in 0 .. MaxFaults
  BY BoundsKept DEF ScheduleReturn, bounds
<1>8. Tablewise(x) /\ Grows
  BY <1>1, <1>2, <1>3, <1>4, <1>5, <1>6, <1>7, OneMission DEF At
<1>9. LocalsTyped' /\ Alone(x) /\ Stands(x)
  <2>1. Goto(x, place) /\ UNCHANGED locals
    BY DEF ScheduleReturn
  <2>2. LockStep(x)
    BY LockKept DEF ScheduleReturn
  <2>3. place \in Places /\ (x \in Client => place \in ClientPlaces)
        /\ place \notin {"idle", "ordered", "asked", "leaving", "cancelling", "repoint", "schedule"}
    BY DEF Places, ClientPlaces
  <2> HIDE DEF place
  <2> QED
    BY <1>1, <1>8, <2>1, <2>2, <2>3, Goes
<1>10. Path(x)
  BY <1>1, <1>2, <1>9, ProcessAssumption DEF Path, Process
<1> QED
  BY <1>8, <1>9, <1>10 DEF Step, Processwise

(* A worker that claims a task.                                            *)
LEMMA ClaimStep ==
    ASSUME Inv, NEW w \in Worker, Claim(w)
    PROVE  Step(w)
<1> USE DEF Inv
<1>1. w \in Process /\ pc[w] = "idle" /\ w \notin Client
  BY ProcessAssumption DEF Process, Claim
<1>2. pc'[w] = "loading"
  BY <1>1 DEF Claim, Goto, Typed, LocalsTyped
<1>3. PICK m \in MissionId :
          /\ mission[m].task \in {"armed", "picked"}
          /\ UNCHANGED faults \/ Fault("stall")
          /\ mission' = [mission EXCEPT ![m].task = "picked"]
          /\ cur' = [cur EXCEPT ![w] = m]
  BY DEF Claim
<1> DEFINE r == [mission[m] EXCEPT !.task = "picked"]
<1>4. mission[m] \in Missions /\ m # 0
  BY Tables DEF Typed
<1>5. /\ r \in Missions /\ r.type = mission[m].type /\ r.acted = mission[m].acted
      /\ r.task = "picked" /\ r.src = mission[m].src /\ r.tgt = mission[m].tgt
      /\ r.resolved = mission[m].resolved /\ r.cancelled = mission[m].cancelled
  BY <1>4 DEF Missions
<1>6. Later(mission[m], r) /\ mission' = [mission EXCEPT ![m] = r]
  BY <1>3, <1>5 DEF Later
<1> HIDE DEF r
<1>7. requests' \in 0 .. MaxRequests /\ faults' \in 0 .. MaxFaults
  BY <1>3, BoundsKept, FaultCounted DEF Claim
<1>8. Tablewise(w) /\ Grows
  <2>1. UNCHANGED <<stack, owner, known, ghosts>>
    BY DEF Claim
  <2> QED
    BY <1>1, <1>2, <1>3, <1>5, <1>6, <1>7, <2>1, OneMission DEF At
<1>9. cur' \in [Process -> MissionId' \cup {0}] /\ cur'[w] = m
      /\ \A y \in Process \ {w} : cur'[y] = cur[y]
  BY <1>1, <1>3, <1>8, StillTyped DEF Grows
<1>10. LocalsTyped' /\ Alone(w)
  <2>1. Goto(w, "loading") /\ UNCHANGED <<keys, snap, back, order>> /\ "loading" \in Places
    BY DEF Claim, Places
  <2>2. LockStep(w)
    BY LockKept DEF Claim
  <2>3. PlaceTyped(w)'
    BY <1>1, <1>2, <1>4, <1>9 DEF PlaceTyped
  <2> QED
    BY <1>1, <1>8, <1>9, <2>1, <2>2, <2>3, StillTyped, Turns
<1>11. Path(w)
  BY <1>1, <1>2, <1>3, <1>9 DEF Path
<1> QED
  BY <1>8, <1>10, <1>11 DEF Step, Processwise

(* A failed attempt is counted, or the mission is given up.                *)
LEMMA RetryStep ==
    ASSUME Inv, NEW w \in Worker, RetryMissionIfPossible(w)
    PROVE  Step(w)
<1> USE DEF Inv
<1> DEFINE m == cur[w]
<1>1. /\ w \in Process /\ pc[w] = "failed" /\ w \notin Client
      /\ m \in MissionId /\ mission[m] \in Missions
  BY ProcessAssumption, ProcessTypes, Tables DEF Process, RetryMissionIfPossible, Typed
<1>2. /\ LockStep(w) /\ UNCHANGED <<stack, owner, known, ghosts>> /\ UNCHANGED locals
      /\ requests' \in 0 .. MaxRequests /\ faults' \in 0 .. MaxFaults
  BY LockKept, BoundsKept DEF RetryMissionIfPossible, bounds
<1>3. ASSUME NEW place \in {"rearming", "resolve"}, Goto(w, place), Tablewise(w), Grows
      PROVE  Step(w)
  <2>1. pc'[w] = place
    BY <1>1, <1>3 DEF Goto, Typed, LocalsTyped
  <2>2. LocalsTyped' /\ Alone(w) /\ Stands(w)
    <3>1. place \in Places
      BY DEF Places
    <3> QED
      BY <1>1, <1>2, <1>3, <3>1, Goes
  <2>3. Path(w)
    BY <1>1, <2>1, <2>2 DEF Path
  <2> QED
    BY <1>3, <2>2, <2>3 DEF Step, Processwise
<1>4. CASE /\ ~OutOfAttempts(m)
           /\ mission' = [mission EXCEPT ![m].attemps = @ + 1]
           /\ Goto(w, "rearming")
  <2> DEFINE r == [mission[m] EXCEPT !.attemps = @ + 1]
  <2>1. pc'[w] = "rearming"
    BY <1>1, <1>4 DEF Goto, Typed, LocalsTyped
  <2>2. /\ r \in Missions /\ r.type = mission[m].type /\ r.acted = mission[m].acted
        /\ r.task = mission[m].task /\ r.src = mission[m].src /\ r.tgt = mission[m].tgt
        /\ r.resolved = mission[m].resolved /\ r.cancelled = mission[m].cancelled
    <3>1. mission[m].attemps + 1 \in 1 .. MaxAttempts
      BY <1>1, <1>4, BoundAssumption DEF OutOfAttempts, Missions
    <3> QED
      BY <1>1, <3>1 DEF Missions
  <2>3. Later(mission[m], r) /\ mission' = [mission EXCEPT ![m] = r]
    BY <1>4, <2>2 DEF Later
  <2> HIDE DEF r
  <2>4. Tablewise(w) /\ Grows
    BY <1>1, <1>2, <2>1, <2>2, <2>3, OneMission DEF At
  <2> QED
    BY <1>3, <1>4, <2>4
<1>5. CASE OutOfAttempts(m) /\ Goto(w, "resolve") /\ UNCHANGED mission
  <2>1. pc'[w] = "resolve"
    BY <1>1, <1>5 DEF Goto, Typed, LocalsTyped
  <2>2. Tablewise(w) /\ Grows
    BY <1>1, <1>2, <1>5, <2>1, QuietTables DEF rows
  <2> QED
    BY <1>3, <1>5, <2>2
<1> QED
  BY <1>4, <1>5 DEF RetryMissionIfPossible

(* The end of a worker's turn: the task is armed again or deleted.         *)
LEMMA TurnEnds ==
    ASSUME Inv, NEW w \in Worker, NEW t \in {"none", "armed"},
           mission' = [mission EXCEPT ![cur[w]].task = t], cur[w] \in MissionId, Rest(w),
           UNCHANGED <<stack, owner, known, lock, ghosts, bounds>>,
           \/ pc[w] = "closing" /\ t = "none"
           \/ pc[w] = "rearming" /\ (t = "none" <=> mission[cur[w]].task = "none")
    PROVE  Step(w)
<1> USE DEF Inv
<1> DEFINE m == cur[w]
           r == [mission[m] EXCEPT !.task = t]
<1>1. w \in Process /\ mission[m] \in Missions
  BY Tables DEF Process, Typed
<1>2. pc'[w] = "idle"
  BY <1>1 DEF Rest, Goto, Typed, LocalsTyped
<1>3. /\ r \in Missions /\ r.type = mission[m].type /\ r.acted = mission[m].acted
      /\ r.task = t /\ r.src = mission[m].src /\ r.tgt = mission[m].tgt
      /\ r.resolved = mission[m].resolved /\ r.cancelled = mission[m].cancelled
  BY <1>1 DEF Missions
<1>4. Later(mission[m], r) /\ mission' = [mission EXCEPT ![m] = r]
  BY <1>3 DEF Later
<1> HIDE DEF r
<1>5. requests' \in 0 .. MaxRequests /\ faults' \in 0 .. MaxFaults
  BY BoundsKept DEF bounds
<1>6. Tablewise(w) /\ Grows
  BY <1>1, <1>2, <1>3, <1>4, <1>5, OneMission DEF At
<1>7. LockStep(w)
  BY LockKept
<1> QED
  BY <1>1, <1>6, <1>7, Rests DEF Step

(* The task is armed again for the next attempt.                           *)
LEMMA RearmStep ==
    ASSUME Inv, NEW w \in Worker, Rearm(w)
    PROVE  Step(w)
<1>1. cur[w] \in MissionId
  BY ProcessTypes DEF Inv, Rearm, Process
<1>2. mission' = [mission EXCEPT ![cur[w]].task =
                     IF mission[cur[w]].task = "none" THEN "none" ELSE "armed"]
  BY DEF Rearm
<1> DEFINE t == IF mission[cur[w]].task = "none" THEN "none" ELSE "armed"
<1>3. t \in {"none", "armed"} /\ (t = "none" <=> mission[cur[w]].task = "none")
  OBVIOUS
<1> HIDE DEF t
<1> QED
  BY <1>1, <1>2, <1>3, TurnEnds DEF Rearm, t

(* The task of a mission that is over is deleted.                          *)
LEMMA CloseStep ==
    ASSUME Inv, NEW w \in Worker, Close(w)
    PROVE  Step(w)
<1>1. cur[w] \in MissionId
  BY ProcessTypes DEF Inv, Close, Process
<1> QED
  BY <1>1, TurnEnds DEF Close

------------------------------------------------------------------------------
(* The stacks a step moves.                                                *)

(* The stacks of mission m go over to mission n.                           *)
Handed(m, n) ==
    stack' = [s \in StackId |-> IF s \in Aboard(m) THEN [stack[s] EXCEPT !.mission = n]
                                ELSE stack[s]]

(* The units of mission m go over to mission n, none else moves.           *)
LEMMA HandedOver ==
    ASSUME RowsTyped, NEW m \in MissionId, NEW n \in MissionId' \cap Nat, n # m, n # 0,
           MissionId \subseteq MissionId', Handed(m, n)
    PROVE  /\ stack' \in Seq(Stack) /\ StackId' = StackId
           /\ \A s \in StackId : /\ stack'[s].count = stack[s].count
                                 /\ stack'[s].planet = stack[s].planet
                                 /\ \/ s \in Aboard(m) /\ stack'[s].mission = n
                                    \/ s \notin Aboard(m) /\ stack'[s].mission = stack[s].mission
           /\ \A s \in StackId : stack'[s].mission \in MissionId' \cup {0}
           /\ Aboard(m)' = {}
           /\ Units(StackId)' = Units(StackId)
<1>1. \A s \in StackId : stack[s] \in Stack
  BY Tables
<1>2. \A s \in StackId : /\ [stack[s] EXCEPT !.mission = n] \in Stack
                         /\ [stack[s] EXCEPT !.mission = n].mission = n
                         /\ [stack[s] EXCEPT !.mission = n].count = stack[s].count
                         /\ [stack[s] EXCEPT !.mission = n].planet = stack[s].planet
  BY <1>1 DEF Stack
<1>3. stack' \in [StackId -> Stack]
  BY <1>1, <1>2 DEF Handed
<1>4. stack' \in Seq(Stack) /\ StackId' = StackId
  BY <1>3, IsTable DEF RowsTyped, StackId
<1>5. \A s \in StackId : /\ stack'[s].count = stack[s].count
                         /\ stack'[s].planet = stack[s].planet
                         /\ \/ s \in Aboard(m) /\ stack'[s].mission = n
                            \/ s \notin Aboard(m) /\ stack'[s].mission = stack[s].mission
  BY <1>2 DEF Handed
<1>6. \A s \in StackId : stack'[s].mission \in MissionId' \cup {0}
  BY <1>5 DEF RowsTyped
<1>7. Aboard(m)' = {}
  BY <1>4, <1>5 DEF Aboard, Live
<1>8. Units(StackId)' = Units(StackId)
  BY <1>4, <1>5, SameCounts
<1> QED
  BY <1>4, <1>5, <1>6, <1>7, <1>8

(* What a merge does to the stacks of the missions.                        *)
LEMMA MergeBoards ==
    ASSUME Inv, NEW x, MissionId \subseteq MissionId',
           NEW there \in SUBSET StackId, NEW S \in SUBSET StackId, S # {},
           NEW rest \in Stack, stack' = Merge(there, S, rest),
           \/ rest.mission = 0 /\ (owner'[rest.planet] = Me \/ rest.planet \in hasty')
           \/ /\ rest.mission \in MissionId' /\ rest.mission # 0
              /\ \/ there # {} /\ there \subseteq Aboard(rest.mission)
                 \/ /\ mission'[rest.mission].type = "DEPLOYED"
                    /\ ~mission'[rest.mission].resolved,
           \A p \in Planet : owner'[p] = owner[p] \/ owner'[p] = Me
    PROVE  /\ Stackwise(x) /\ StackId' = StackId
           /\ Units(StackId)' = Units(StackId)
           /\ \A m \in MissionId : Aboard(m) \subseteq S /\ m # rest.mission => Aboard(m)' = {}
<1>0. RowsTyped
  BY DEF Inv, Typed
<1>1. PICK into \in StackId : Merged(stack', there, S, rest, into)
  BY <1>0, MergeMerges
<1>2. stack' \in Seq(Stack) /\ StackId' = StackId
  BY <1>1 DEF Merged, StackId
<1>3. \A s \in StackId : stack[s] \in Stack
  BY <1>0, Tables
<1>4. ASSUME NEW s \in StackId, stack'[s].count > 0
      PROVE  \/ s = into /\ stack'[s].mission = rest.mission /\ stack'[s].planet = rest.planet
             \/ stack'[s] = stack[s] /\ s \notin S
  BY <1>1, <1>4 DEF Merged
<1>5. \A s \in StackId' : stack'[s].mission \in MissionId' \cup {0}
  <2>1. \A s \in StackId : stack'[s].mission \in {rest.mission, stack[s].mission}
    BY <1>1 DEF Merged
  <2> QED
    BY <1>0, <1>2, <2>1 DEF RowsTyped
<1>6. ASSUME NEW s \in StackId', stack'[s].count > 0, stack'[s].mission # 0
      PROVE  LET k == stack'[s].mission
             IN  \/ s \in Aboard(k)
                 \/ mission'[k].type = "DEPLOYED" /\ ~mission'[k].resolved
                 \/ k \notin MissionId /\ mission'[k].task # "none"
                 \/ At(x, "repoint") /\ k = back[x]
  <2>1. CASE s = into /\ stack'[s].mission = rest.mission
    <3>1. there # {} => into \in there
      BY <1>1 DEF Merged
    <3> QED
      BY <1>6, <2>1, <3>1
  <2>2. CASE stack'[s] = stack[s]
    BY <1>2, <1>6, <2>2 DEF Aboard, Live
  <2> QED
    BY <1>2, <1>4, <1>6, <2>1, <2>2
<1>7. ASSUME NEW s \in StackId', stack'[s].count > 0, stack'[s].mission = 0
      PROVE  \/ owner'[stack'[s].planet] = Me
             \/ stack'[s].planet \in hasty'
             \/ s \in AtHome(stack'[s].planet)
                /\ owner'[stack'[s].planet] = owner[stack'[s].planet]
  <2>1. CASE /\ s = into /\ stack'[s].mission = rest.mission
             /\ stack'[s].planet = rest.planet
    BY <1>7, <2>1
  <2>2. CASE stack'[s] = stack[s]
    <3>1. stack[s].planet \in Planet
      BY <1>2, <1>3 DEF Stack
    <3> QED
      BY <1>2, <1>7, <2>2, <3>1 DEF AtHome, Live
  <2> QED
    BY <1>2, <1>4, <1>7, <2>1, <2>2
<1>8. Stackwise(x)
  BY <1>2, <1>5, <1>6, <1>7 DEF Stackwise
<1>9. ASSUME NEW m \in MissionId, Aboard(m) \subseteq S, m # rest.mission, NEW s \in Aboard(m)'
      PROVE  FALSE
  <2>1. s \in StackId /\ stack'[s].count > 0 /\ stack'[s].mission = m
    BY <1>2, <1>9 DEF Aboard, Live
  <2>2. stack'[s] = stack[s] /\ s \notin S
    BY <1>4, <1>9, <2>1
  <2> QED
    BY <1>9, <2>1, <2>2 DEF Aboard, Live
<1>10. Units(StackId)' = Units(StackId)
  BY <1>0, <1>1, MergeConserves
<1> QED
  BY <1>2, <1>8, <1>9, <1>10

------------------------------------------------------------------------------
(* The steps that make a mission.                                          *)

(* A mission that is inserted is fresh.                                    *)
LEMMA NewMissionFresh ==
    ASSUME NEW type \in OnDuty \cup {"DEPLOYED"}, NEW src \in Planet, NEW tgt \in Planet,
           NEW task \in {"none", "armed"}, type = "DEPLOYED" => task = "none"
    PROVE  LET r == NewMission(type, src, tgt, task)
           IN  r \in Missions /\ Fresh(r) /\ r.type = type /\ r.task = task
<1>1. 1 \in 1 .. MaxAttempts
  BY BoundAssumption
<1> QED
  BY <1>1 DEF NewMission, Missions, Fresh, OnDuty

(* The return is inserted.                                                 *)
LEMMA InsertReturnStep ==
    ASSUME Inv, NEW x \in Process, InsertReturn(x)
    PROVE  Step(x)
<1> USE DEF Inv
<1> DEFINE m == cur[x]
           r == NewMission("RETURN_MISSION", mission[m].src, mission[m].tgt, "none")
           n == Len(mission) + 1
<1>1. /\ pc[x] = "insert" /\ At(x, "insert") /\ m \in MissionId /\ mission[m] \in Missions
      /\ mission \in Seq(Missions) /\ Len(mission) \in Nat /\ n # 0
  <2>1. mission \in Seq(Missions) /\ RowsTyped
    BY DEF Typed, RowsTyped
  <2> QED
    BY <2>1, ProcessTypes, Tables DEF InsertReturn, At
<1>2. pc'[x] = "repoint"
  BY <1>1 DEF InsertReturn, Goto, Typed, LocalsTyped
<1>3. r \in Missions /\ Fresh(r) /\ r.type = "RETURN_MISSION" /\ r.task = "none"
  BY <1>1, NewMissionFresh DEF Missions, OnDuty
<1> HIDE DEF r
<1>4. /\ mission' \in Seq(Missions) /\ MissionId' = MissionId \cup {n} /\ n \notin MissionId
      /\ mission'[n] = r /\ \A k \in MissionId : mission'[k] = mission[k]
  <2>1. mission' = Append(mission, r)
    BY DEF InsertReturn, r
  <2> QED
    BY <1>1, <1>3, <2>1, Longer DEF MissionId
<1>5. UNCHANGED <<stack, owner, known, ghosts, cur, keys, snap, order>> /\ UNCHANGED bounds
  BY DEF InsertReturn
<1>6. StackId' = StackId /\ Grows
  BY <1>4, <1>5 DEF StackId, Grows
<1>7. RowsTyped'
  BY <1>4, <1>5, <1>6 DEF Typed, RowsTyped, ghosts, bounds
<1>8. Rowwise(x)
  BY <1>1, <1>3, <1>4 DEF Rowwise, Later
<1>9. Stackwise(x)
  <2>1. \A s \in StackId : stack[s].count > 0 => s \in Aboard(stack[s].mission)
    BY DEF Aboard, Live
  <2>2. \A s \in StackId : stack[s].count > 0 /\ stack[s].mission = 0 =>
           s \in AtHome(stack[s].planet)
    BY DEF AtHome, Live
  <2> QED
    BY <1>5, <1>6, <1>7, <2>1, <2>2 DEF Stackwise, RowsTyped, Grows
<1>10. back' = [back EXCEPT ![x] = n] /\ Goto(x, "repoint")
  BY DEF InsertReturn
<1>11. /\ back' \in [Process -> MissionId' \cup {0}] /\ back'[x] = n
       /\ \A y \in Process \ {x} : back'[y] = back[y]
  BY <1>4, <1>6, <1>10, StillTyped
<1>12. Settled(x)
  BY <1>1, <1>2, <1>3, <1>4, <1>11 DEF Settled, At
<1>13. Units(StackId)' = Units(StackId)
  BY <1>5, <1>6, SameCounts DEF Typed
<1>14. Tablewise(x)
  BY <1>5, <1>7, <1>8, <1>9, <1>12, <1>13 DEF Tablewise, Ownerwise, ghosts
<1>15. LocalsTyped' /\ Alone(x)
  <2>1. LockStep(x) /\ "repoint" \in Places /\ "repoint" \in ClientPlaces
    BY LockKept DEF InsertReturn, Places, ClientPlaces
  <2>2. PlaceTyped(x)'
    BY <1>1, <1>2, <1>5, <1>11, <2>1, ProcessTypes DEF PlaceTyped
  <2> QED
    BY <1>5, <1>6, <1>10, <1>11, <2>1, <2>2, StillTyped, Turns
<1>16. Path(x)
  BY <1>1, <1>2, <1>5, ProcessTypes DEF Path, Stands, InsertReturn
<1> QED
  BY <1>14, <1>15, <1>16 DEF Step, Processwise

(* The units are handed over to it.                                        *)
LEMMA RepointStep ==
    ASSUME Inv, NEW x \in Process, Repoint(x)
    PROVE  Step(x)
<1> USE DEF Inv
<1>0. PICK m \in MissionId, n \in MissionId : m = cur[x] /\ n = back[x]
  BY ProcessTypes DEF Repoint, Returning
<1>1. /\ pc[x] = "repoint" /\ At(x, "repoint")
      /\ mission[m].resolved /\ ~mission[n].resolved /\ RowsTyped
  BY <1>0 DEF Repoint, At, Typed, Returning, IsOwn, IsOver, Over
<1>2. pc'[x] = "schedule"
  BY <1>1 DEF Repoint, Goto, Typed, LocalsTyped
<1>3. UNCHANGED <<mission, owner, known, lock, locals, ghosts>> /\ UNCHANGED bounds
  BY DEF Repoint
<1>4. MissionId' = MissionId /\ n # m /\ n # 0 /\ n \in Nat
  BY <1>1, <1>3, Tables DEF MissionId
<1>5. Handed(m, n)
  BY <1>0 DEF Repoint, Handed
<1>6. /\ stack' \in Seq(Stack) /\ StackId' = StackId
      /\ \A s \in StackId : /\ stack'[s].count = stack[s].count
                            /\ stack'[s].planet = stack[s].planet
                            /\ \/ s \in Aboard(m) /\ stack'[s].mission = n
                               \/ s \notin Aboard(m) /\ stack'[s].mission = stack[s].mission
      /\ \A s \in StackId : stack'[s].mission \in MissionId' \cup {0}
      /\ Aboard(m)' = {}
      /\ Units(StackId)' = Units(StackId)
  BY <1>1, <1>4, <1>5, HandedOver
<1>7. RowsTyped' /\ Grows
  BY <1>1, <1>3, <1>4, <1>6 DEF RowsTyped, ghosts, bounds, Grows
<1>8. Rowwise(x)
  BY <1>3, <1>7 DEF Rowwise, Later, RowsTyped, MissionId
<1>9. Stackwise(x)
  BY <1>0, <1>1, <1>3, <1>4, <1>6 DEF Stackwise, Aboard, AtHome, Live
<1>10. Settled(x)
  BY <1>0, <1>1, <1>2, <1>3, <1>6 DEF Settled, At
<1>11. Tablewise(x)
  BY <1>3, <1>6, <1>7, <1>8, <1>9, <1>10 DEF Tablewise, Ownerwise, ghosts
<1>12. LocalsTyped' /\ Alone(x) /\ Stands(x)
  <2>1. Goto(x, "schedule") /\ "schedule" \in Places /\ "schedule" \in ClientPlaces
    BY DEF Repoint, Places, ClientPlaces
  <2>2. LockStep(x)
    BY <1>3, LockKept
  <2> QED
    BY <1>0, <1>1, <1>3, <1>4, <1>7, <2>1, <2>2, Goes
<1>13. Path(x)
  BY <1>1, <1>2, <1>3, <1>12 DEF Path, locals
<1> QED
  BY <1>11, <1>12, <1>13 DEF Step, Processwise

------------------------------------------------------------------------------
(* The transaction of a run.                                               *)

(* done is the table in which mission m is resolved and has acted a times. *)
IsDone(done, m, a) ==
    /\ done \in Seq(Missions) /\ Len(done) = Len(mission) /\ DOMAIN done = MissionId
    /\ Later(mission[m], done[m]) /\ done[m].resolved /\ done[m].acted = a
    /\ done[m].task = mission[m].task /\ done[m].cancelled = mission[m].cancelled
    /\ done[m].type = mission[m].type
    /\ \A k \in MissionId \ {m} : done[k] = mission[k]

(* The two ways a run marks its mission.                                   *)
LEMMA Done ==
    ASSUME RowsTyped, NEW m \in MissionId
    PROVE  /\ IsDone(Resolved(m), m, mission[m].acted)
           /\ IsDone(Acted(m), m, mission[m].acted + 1)
<1>1. mission \in Seq(Missions) /\ mission[m] \in Missions
  BY Tables DEF RowsTyped
<1>2. IsDone(Resolved(m), m, mission[m].acted)
  <2> DEFINE r == [mission[m] EXCEPT !.resolved = TRUE]
  <2>1. /\ r \in Missions /\ r.resolved /\ r.acted = mission[m].acted /\ r.type = mission[m].type
        /\ r.task = mission[m].task /\ r.cancelled = mission[m].cancelled
        /\ r.src = mission[m].src /\ r.tgt = mission[m].tgt
    BY <1>1 DEF Missions
  <2>2. Resolved(m) = [mission EXCEPT ![m] = r]
    BY DEF Resolved
  <2> HIDE DEF r
  <2> QED
    BY <1>1, <2>1, <2>2, RowChanged DEF IsDone, Later, MissionId
<1>3. IsDone(Acted(m), m, mission[m].acted + 1)
  <2> DEFINE r == [mission[m] EXCEPT !.resolved = TRUE, !.acted = @ + 1]
  <2>1. /\ r \in Missions /\ r.resolved /\ r.acted = mission[m].acted + 1
        /\ r.type = mission[m].type
        /\ r.task = mission[m].task /\ r.cancelled = mission[m].cancelled
        /\ r.src = mission[m].src /\ r.tgt = mission[m].tgt
    <3>1. mission[m].acted + 1 \in Nat
      BY <1>1 DEF Missions
    <3> QED
      BY <1>1, <3>1 DEF Missions
  <2>2. Acted(m) = [mission EXCEPT ![m] = r]
    BY DEF Acted
  <2> HIDE DEF r
  <2> QED
    BY <1>1, <2>1, <2>2, RowChanged DEF IsDone, Later, MissionId
<1> QED
  BY <1>2, <1>3

(* What every run does: it resolves its mission and leaves it empty; it    *)
(* may delete DEPLOYED missions it empties, and make a mission.            *)
Ran(w, m, done, a) ==
    /\ IsDone(done, m, a)
    /\ \/ a = mission[m].acted
       \/ /\ a = mission[m].acted + 1
          /\ mission[m].type = "RETURN_MISSION" \/ snap[w].units # {}
    /\ mission' \in Seq(Missions) /\ MissionId \subseteq MissionId'
    /\ \A k \in MissionId :
          \/ mission'[k] = done[k]
          \/ /\ mission[k].type = "DEPLOYED" /\ Aboard(k)' = {}
             /\ mission'[k] = [mission[k] EXCEPT !.type = "deleted"]
    /\ \A k \in MissionId' \ MissionId : Fresh(mission'[k])

(* The tables after a run that marked its mission and left it empty.       *)
LEMMA RunTables ==
    ASSUME Inv, NEW w \in Worker, pc[w] = "running", pc'[w] = "unlock",
           NEW m \in MissionId, m = cur[w], NEW done, NEW a, Ran(w, m, done, a),
           owner' \in [Planet -> User \cup {Nobody}], known' \subseteq Planet,
           \A q \in Planet : owner'[q] = owner[q] \/ owner'[q] = Me, hasty' = hasty,
           emptied' \subseteq MissionId', killed' \in Nat,
           requests' \in 0 .. MaxRequests, faults' \in 0 .. MaxFaults,
           Stackwise(w), Aboard(m)' = {},
           Units(StackId)' + killed' = Units(StackId) + killed
    PROVE  Tablewise(w) /\ Grows
<1>1. /\ w \in Process /\ At(w, "running") /\ mission[m].type \in OnDuty
      /\ \A k \in MissionId : mission[k] \in Missions
  BY ProcessTypes, Tables DEF Inv, Process, At, Kinds, Typed
<1>2. RowsTyped' /\ Grows
  BY DEF Inv, Typed, RowsTyped, Stackwise, Grows, Ran
<1>3. ASSUME NEW k \in MissionId, mission[k].type = "DEPLOYED",
             mission'[k] = [mission[k] EXCEPT !.type = "deleted"]
      PROVE  /\ Later(mission[k], mission'[k]) /\ mission'[k].task = mission[k].task
             /\ mission'[k].acted = mission[k].acted
             /\ mission'[k].cancelled = mission[k].cancelled
  BY <1>1, <1>3 DEF Later, Missions
<1>4. ASSUME NEW k \in MissionId \ {m}
      PROVE  /\ Later(mission[k], mission'[k]) /\ mission'[k].task = mission[k].task
             /\ mission'[k].acted = mission[k].acted
             /\ mission'[k].cancelled = mission[k].cancelled
             /\ \/ mission'[k] = mission[k]
                \/ mission[k].type = "DEPLOYED" /\ Aboard(k)' = {}
  <2>1. CASE mission'[k] = done[k]
    BY <2>1 DEF IsDone, Later, Ran
  <2>2. CASE /\ mission[k].type = "DEPLOYED" /\ Aboard(k)' = {}
             /\ mission'[k] = [mission[k] EXCEPT !.type = "deleted"]
    BY <1>3, <2>2
  <2> QED
    BY <2>1, <2>2 DEF Ran
<1>5. mission'[m] = done[m]
  BY <1>1 DEF OnDuty, Ran
<1>6. Rowwise(w)
  <2>1. \A k \in MissionId : Later(mission[k], mission'[k]) /\ mission'[k].task = mission[k].task
                             /\ mission'[k].cancelled = mission[k].cancelled
    BY <1>4, <1>5 DEF IsDone, Ran
  <2>2. \A k \in MissionId : mission'[k] = mission[k] \/ k = cur[w] \/ mission[k].type = "DEPLOYED"
    BY <1>4
  <2>3. \A k \in MissionId : mission'[k].acted # mission[k].acted =>
           /\ mission'[k].acted = mission[k].acted + 1 /\ k = cur[w]
           /\ mission[k].type = "RETURN_MISSION" \/ snap[w].units # {}
    BY <1>4, <1>5 DEF IsDone, Ran
  <2> QED
    BY <1>1, <2>1, <2>2, <2>3 DEF Rowwise, Ran
<1>7. Settled(w)
  BY <1>1, <1>4, <1>5 DEF Settled, At, IsDone, Ran
<1> QED
  BY <1>2, <1>6, <1>7 DEF Tablewise, Ownerwise

(* The process after a run.                                                *)
LEMMA RunProcess ==
    ASSUME Inv, NEW w \in Worker, pc[w] = "running", Goto(w, "unlock"),
           UNCHANGED lock, UNCHANGED locals, Grows
    PROVE  Processwise(w)
<1>1. w \in Process /\ w \notin Client /\ "unlock" \in Places /\ LockStep(w) /\ Typed
  BY ProcessAssumption, LockKept DEF Process, Places, Inv
<1>2. LocalsTyped' /\ Alone(w) /\ Stands(w) /\ pc'[w] = "unlock"
  BY <1>1, Goes
<1> QED
  BY <1>2 DEF Processwise, Path

(* What is known of a worker that runs a mission.                          *)
LEMMA AtRun ==
    ASSUME Inv, NEW w \in Worker, pc[w] = "running"
    PROVE  /\ w \in Process /\ cur[w] \in MissionId /\ mission[cur[w]] \in Missions
           /\ mission[cur[w]].type \in OnDuty /\ RowsTyped /\ Typed
           /\ snap[w].units \in SUBSET StackId /\ Aboard(cur[w]) \subseteq snap[w].units
           /\ Goto(w, "unlock") => pc'[w] = "unlock"
<1>1. w \in Process /\ cur[w] \in MissionId /\ RowsTyped /\ Typed
  BY ProcessTypes DEF Inv, Process, Typed
<1>2. snap[w].units \in SUBSET StackId
  BY <1>1 DEF Typed, LocalsTyped
<1> QED
  BY <1>1, <1>2, Tables DEF Inv, Kinds, IsRead, Goto, Typed, LocalsTyped

(* The units of the mission fly home in a transaction.                     *)
LEMMA FlyHomeTables ==
    ASSUME Inv, NEW w \in Worker, pc[w] = "running", pc'[w] = "unlock",
           NEW m \in MissionId, m = cur[w], NEW done, NEW a, IsDone(done, m, a),
           \/ a = mission[m].acted
           \/ a = mission[m].acted + 1 /\ snap[w].units # {},
           FlyHome(done, m),
           owner' = owner, known' \subseteq Planet, UNCHANGED ghosts, UNCHANGED bounds
    PROVE  Tablewise(w) /\ Grows
<1> DEFINE r == NewMission("RETURN_MISSION", mission[m].src, mission[m].tgt, "armed")
           n == Len(done) + 1
<1>1. /\ mission[m] \in Missions /\ RowsTyped /\ done \in Seq(Missions)
      /\ DOMAIN done = MissionId /\ m \in Nat
  BY AtRun, Tables DEF IsDone
<1>2. r \in Missions /\ Fresh(r) /\ r.task = "armed"
  BY <1>1, NewMissionFresh DEF Missions, OnDuty
<1>3. mission' = Append(done, r)
  BY DEF FlyHome
<1> HIDE DEF r
<1>4. /\ mission' \in Seq(Missions) /\ MissionId' = MissionId \cup {n} /\ n \notin MissionId
      /\ mission'[n] = r /\ \A k \in MissionId : mission'[k] = done[k]
      /\ n \in Nat /\ n # 0
  BY <1>1, <1>2, <1>3, Longer, Table DEF MissionId
<1>5. Handed(m, n)
  BY DEF FlyHome, Handed
<1>6. n # m
  BY <1>4
<1> HIDE DEF n
<1>7. /\ stack' \in Seq(Stack) /\ StackId' = StackId
      /\ \A s \in StackId : /\ stack'[s].count = stack[s].count
                            /\ stack'[s].planet = stack[s].planet
                            /\ \/ s \in Aboard(m) /\ stack'[s].mission = n
                               \/ s \notin Aboard(m) /\ stack'[s].mission = stack[s].mission
      /\ \A s \in StackId : stack'[s].mission \in MissionId' \cup {0}
      /\ Aboard(m)' = {}
      /\ Units(StackId)' = Units(StackId)
  BY <1>1, <1>4, <1>5, <1>6, HandedOver
<1>8. Stackwise(w)
  BY <1>2, <1>4, <1>7 DEF Stackwise, Aboard, AtHome, Live
<1>9. /\ owner' \in [Planet -> User \cup {Nobody}] /\ emptied' \subseteq MissionId'
      /\ killed' = killed /\ killed \in Nat /\ hasty' = hasty
      /\ \A q \in Planet : owner'[q] = owner[q] \/ owner'[q] = Me
      /\ requests' \in 0 .. MaxRequests /\ faults' \in 0 .. MaxFaults
  BY <1>1, <1>4 DEF RowsTyped, ghosts, bounds
<1>10. Units(StackId)' + killed' = Units(StackId) + killed
  BY <1>7, <1>9
<1>11. /\ \A k \in MissionId' \ MissionId : Fresh(mission'[k])
       /\ MissionId \subseteq MissionId'
  BY <1>2, <1>4
<1>12. \/ a = mission[m].acted
       \/ /\ a = mission[m].acted + 1
          /\ mission[m].type = "RETURN_MISSION" \/ snap[w].units # {}
  OBVIOUS
<1>13. \A k \in MissionId :
          \/ mission'[k] = done[k]
          \/ /\ mission[k].type = "DEPLOYED" /\ Aboard(k)' = {}
             /\ mission'[k] = [mission[k] EXCEPT !.type = "deleted"]
  BY <1>4
<1>14. Ran(w, m, done, a)
  BY <1>4, <1>11, <1>12, <1>13 DEF Ran
<1> QED
  BY <1>7, <1>8, <1>9, <1>10, <1>14, RunTables

(* The run of an EXPLORE mission.                                          *)
LEMMA ExploreStep ==
    ASSUME Inv, NEW w \in Worker, Explore(w)
    PROVE  Step(w)
<1>1. /\ pc[w] = "running" /\ mission[cur[w]].type = "EXPLORE" /\ ~NoUnitsInvolved(w)
      /\ Goto(w, "unlock") /\ UNCHANGED lock /\ UNCHANGED locals /\ UNCHANGED ghosts
      /\ UNCHANGED bounds /\ owner' = owner
      /\ known' = known \cup {mission[cur[w]].tgt}
  BY DEF Explore, Runs
<1>2. PICK m \in MissionId : m = cur[w]
  BY <1>1, AtRun
<1>3. /\ pc'[w] = "unlock" /\ IsDone(Acted(m), m, mission[m].acted + 1)
      /\ FlyHome(Acted(m), m) /\ snap[w].units # {}
      /\ known' \subseteq Planet
  <2>1. mission[m].tgt \in Planet /\ known \subseteq Planet /\ RowsTyped
    BY <1>1, <1>2, AtRun DEF Missions, RowsTyped
  <2> QED
    BY <1>1, <1>2, <2>1, AtRun, Done DEF NoUnitsInvolved, Explore
<1>4. Tablewise(w) /\ Grows
  BY <1>1, <1>2, <1>3, FlyHomeTables
<1> QED
  BY <1>1, <1>4, RunProcess DEF Step

(* The run of an ESTABLISH_BASE mission that is refused.                   *)
LEMMA EstablishFailsStep ==
    ASSUME Inv, NEW w \in Worker, EstablishFails(w)
    PROVE  Step(w)
<1>1. /\ pc[w] = "running"
      /\ Goto(w, "unlock") /\ UNCHANGED lock /\ UNCHANGED locals /\ UNCHANGED ghosts
      /\ UNCHANGED bounds /\ owner' = owner /\ known' = known
  BY DEF EstablishFails, Runs
<1>2. PICK m \in MissionId : m = cur[w]
  BY <1>1, AtRun
<1>3. /\ pc'[w] = "unlock" /\ IsDone(Resolved(m), m, mission[m].acted)
      /\ FlyHome(Resolved(m), m) /\ known' \subseteq Planet
  BY <1>1, <1>2, AtRun, Done DEF EstablishFails, RowsTyped
<1>4. Tablewise(w) /\ Grows
  BY <1>1, <1>2, <1>3, FlyHomeTables
<1> QED
  BY <1>1, <1>4, RunProcess DEF Step

(* The run of a mission that is intercepted.                               *)
LEMMA InterceptedStep ==
    ASSUME Inv, NEW w \in Worker, Intercepted(w)
    PROVE  Step(w)
<1>1. /\ pc[w] = "running" /\ Goto(w, "unlock") /\ UNCHANGED lock /\ UNCHANGED locals
      /\ owner' = owner /\ known' = known /\ hasty' = hasty /\ requests' = requests
  BY DEF Intercepted
<1>2. PICK m \in MissionId : m = cur[w]
  BY <1>1, AtRun
<1>3. /\ pc'[w] = "unlock" /\ mission' = Resolved(m) /\ RowsTyped /\ Typed
      /\ Aboard(m) \subseteq snap[w].units /\ snap[w].units \in SUBSET StackId
      /\ mission[m].type \in OnDuty
  BY <1>1, <1>2, AtRun DEF Intercepted
<1>4. IsDone(Resolved(m), m, mission[m].acted)
  BY <1>3, Done
<1>5. mission' \in Seq(Missions) /\ MissionId' = MissionId
  BY <1>3, <1>4 DEF IsDone, MissionId
<1>6. ASSUME Stackwise(w), Aboard(m)' = {}, killed' \in Nat, emptied' \subseteq MissionId,
             Units(StackId)' + killed' = Units(StackId) + killed, faults' \in 0 .. MaxFaults
      PROVE  Step(w)
  <2>1. /\ owner' \in [Planet -> User \cup {Nobody}] /\ known' \subseteq Planet
        /\ requests' \in 0 .. MaxRequests
        /\ \A q \in Planet : owner'[q] = owner[q] \/ owner'[q] = Me
        /\ \A k \in MissionId : mission'[k] = Resolved(m)[k]
        /\ \A k \in MissionId' \ MissionId : Fresh(mission'[k])
    BY <1>1, <1>3, <1>5 DEF RowsTyped
  <2>2. Ran(w, m, Resolved(m), mission[m].acted)
    BY <1>4, <1>5, <2>1 DEF Ran
  <2>3. Tablewise(w) /\ Grows
    BY <1>1, <1>2, <1>3, <1>5, <1>6, <2>1, <2>2, RunTables
  <2> QED
    BY <1>1, <2>3, RunProcess DEF Step
<1>7. CASE NoUnitsInvolved(w) /\ emptied' = emptied \cup {m} /\ UNCHANGED <<stack, killed, faults>>
  <2>1. snap[w].units = {} /\ StackId' = StackId
    BY <1>7 DEF NoUnitsInvolved, StackId
  <2>2. Aboard(m)' = {}
    BY <1>3, <1>7, <2>1 DEF Aboard, Live
  <2>3. Stackwise(w)
    BY <1>1, <1>3, <1>5, <1>7, <2>1 DEF Stackwise, RowsTyped, Aboard, AtHome, Live
  <2>4. Units(StackId)' = Units(StackId)
    BY <1>3, <1>7, <2>1, SameCounts
  <2> QED
    BY <1>3, <1>6, <1>7, <2>2, <2>3, <2>4, BoundsKept DEF RowsTyped
<1>8. CASE /\ Fault("interception")
           /\ killed' = killed + Units(snap[w].units)
           /\ stack' = [s \in StackId |-> IF s \in snap[w].units
                                          THEN [stack[s] EXCEPT !.count = 0] ELSE stack[s]]
           /\ UNCHANGED emptied
  <2> DEFINE S == snap[w].units
  <2>0. S \in SUBSET StackId /\ Aboard(m) \subseteq S
    BY <1>3
  <2> HIDE DEF S
  <2>1. \A s \in StackId : /\ stack[s] \in Stack /\ [stack[s] EXCEPT !.count = 0] \in Stack
                           /\ [stack[s] EXCEPT !.count = 0].count = 0
                           /\ [stack[s] EXCEPT !.count = 0].mission = stack[s].mission
    BY <1>3, Tables DEF Stack
  <2>2. /\ \A s \in S : stack'[s].count = 0 /\ stack'[s].mission = stack[s].mission
        /\ \A s \in StackId \ S : stack'[s] = stack[s]
        /\ stack' \in [StackId -> Stack]
    BY <1>8, <2>0, <2>1 DEF S
  <2>3. stack' \in Seq(Stack) /\ StackId' = StackId
    BY <1>3, <2>2, IsTable DEF RowsTyped, StackId
  <2>4. Units(StackId) = Units(StackId)' + Units(S)
    BY <1>3, <2>0, <2>2, <2>3, Wiped
  <2>5. Aboard(m)' = {}
    BY <2>0, <2>2, <2>3 DEF Aboard, Live
  <2>6. Stackwise(w)
    <3>1. \A s \in StackId : stack'[s].mission = stack[s].mission
      BY <2>2
    <3>2. \A s \in StackId : stack'[s].count > 0 => stack'[s] = stack[s]
      BY <2>2
    <3> QED
      BY <1>1, <1>3, <1>5, <2>3, <3>1, <3>2 DEF Stackwise, RowsTyped, Aboard, AtHome, Live
  <2>7. Units(S) \in Nat /\ killed \in Nat /\ killed' = killed + Units(S)
    BY <1>3, <1>8, <2>0, CountsTyped DEF RowsTyped, S
  <2>8. Units(StackId)' + killed' = Units(StackId) + killed
    <3>1. Units(StackId)' \in Nat
      <4>1. \A s \in StackId : Counts'[s] \in Nat
        BY <2>2, <2>3 DEF Counts, Stack
      <4> QED
        BY <1>3, <2>3, <4>1, Tables, TotalNat, UnitsIsTotalNext
    <3> QED
      BY <2>4, <2>7, <3>1
  <2> QED
    BY <1>3, <1>6, <1>8, <2>5, <2>6, <2>7, <2>8, FaultCounted DEF RowsTyped
<1> QED
  BY <1>2, <1>7, <1>8 DEF Intercepted

(* move_unit_to_planet and move_unit_to_foreign_planet: what mission m     *)
(* carried is on a planet of Me, unless that was left meanwhile, or under  *)
(* a DEPLOYED mission.                                                     *)
LEMMA Moves ==
    ASSUME Inv, NEW w \in Worker, pc[w] = "running", NEW m \in MissionId, m = cur[w],
           IsDone(Acted(m), m, mission[m].acted + 1), NEW p \in {mission[m].src, mission[m].tgt},
           owner' = owner, hasty' = hasty, Move(w, Acted(m), p)
    PROVE  /\ Stackwise(w) /\ Aboard(m)' = {} /\ Units(StackId)' = Units(StackId)
           /\ mission' \in Seq(Missions) /\ MissionId \subseteq MissionId'
           /\ \A k \in MissionId : mission'[k] = Acted(m)[k]
           /\ \A k \in MissionId' \ MissionId : Fresh(mission'[k])
<1> DEFINE done == Acted(m)
           S == snap[w].units
<1>1. /\ RowsTyped /\ Aboard(m) \subseteq S /\ S \in SUBSET StackId
      /\ mission[m].type \in OnDuty /\ m # 0
      /\ \A s \in StackId : stack[s] \in Stack
      /\ \A k \in MissionId : k # 0 /\ k \in Nat
  BY AtRun, Tables
<1>2. /\ done \in Seq(Missions) /\ DOMAIN done = MissionId
      /\ \A k \in MissionId \ {m} : done[k] = mission[k]
      /\ done[m].type = mission[m].type
  BY DEF IsDone
<1>3. IF p \in snap[w].planets THEN mission' = done /\ stack' = Land(S, p)
      ELSE Station(done, S, p)
  BY DEF Move
<1>4. /\ \A q \in Planet : owner'[q] = owner[q]
      /\ p \in Planet
      /\ p \in snap[w].planets => owner[p] = Me \/ p \in hasty
  <2>1. w \in Process /\ mission[m].src \in Planet /\ mission[m].tgt \in Planet
    BY AtRun DEF Missions
  <2>2. lock[p] = w
    BY <2>1 DEF Inv, IsLocked, Holds
  <2> QED
    BY <2>1, <2>2 DEF Inv, IsSeen
<1> HIDE DEF done, S
<1>5. \A d \in Marker(p) : /\ d \in MissionId /\ d # m /\ done[d].type = "DEPLOYED"
                           /\ ~done[d].resolved
  BY <1>1, <1>2 DEF Marker, OnDuty
<1>6. ASSUME mission' = done
      PROVE  /\ mission' \in Seq(Missions) /\ MissionId' = MissionId
             /\ \A k \in MissionId : mission'[k] = done[k]
  BY <1>2, <1>6 DEF MissionId
<1>7. CASE S = {} /\ mission' = done /\ stack' = stack
  <2>1. StackId' = StackId /\ Aboard(m)' = {}
    BY <1>1, <1>7 DEF StackId, Aboard, Live
  <2>2. Stackwise(w)
    BY <1>1, <1>6, <1>7, <2>1 DEF Stackwise, RowsTyped, Aboard, AtHome, Live
  <2>3. Units(StackId)' = Units(StackId)
    BY <1>1, <1>7, <2>1, SameCounts
  <2> QED
    BY <1>6, <1>7, <2>1, <2>2, <2>3 DEF done
<1>8. ASSUME S # {}, MissionId \subseteq MissionId', mission' \in Seq(Missions),
             \A k \in MissionId : mission'[k] = done[k],
             \A k \in MissionId' \ MissionId : Fresh(mission'[k]),
             NEW there \in SUBSET StackId, NEW rest \in Stack, stack' = Merge(there, S, rest),
             rest.mission # m,
             \/ rest.mission = 0 /\ (owner'[rest.planet] = Me \/ rest.planet \in hasty')
             \/ /\ rest.mission \in MissionId' /\ rest.mission # 0
                /\ \/ there # {} /\ there \subseteq Aboard(rest.mission)
                   \/ /\ mission'[rest.mission].type = "DEPLOYED"
                      /\ ~mission'[rest.mission].resolved
      PROVE  /\ Stackwise(w) /\ Aboard(m)' = {} /\ Units(StackId)' = Units(StackId)
             /\ mission' \in Seq(Missions) /\ MissionId \subseteq MissionId'
             /\ \A k \in MissionId : mission'[k] = Acted(m)[k]
             /\ \A k \in MissionId' \ MissionId : Fresh(mission'[k])
  <2>1. /\ Stackwise(w) /\ StackId' = StackId /\ Units(StackId)' = Units(StackId)
        /\ \A k \in MissionId : Aboard(k) \subseteq S /\ k # rest.mission => Aboard(k)' = {}
    <3>1. \/ rest.mission = 0 /\ (owner'[rest.planet] = Me \/ rest.planet \in hasty')
          \/ /\ rest.mission \in MissionId' /\ rest.mission # 0
             /\ \/ there # {} /\ there \subseteq Aboard(rest.mission)
                \/ /\ mission'[rest.mission].type = "DEPLOYED"
                   /\ ~mission'[rest.mission].resolved
      BY <1>8
    <3>2. \A q \in Planet : owner'[q] = owner[q] \/ owner'[q] = Me
      BY <1>4
    <3> QED
      BY <1>1, <1>8, <3>1, <3>2, MergeBoards
  <2>2. Aboard(m)' = {}
    BY <1>1, <1>8, <2>1
  <2> QED
    BY <1>8, <2>1, <2>2 DEF done
<1>9. CASE p \in snap[w].planets /\ S # {} /\ mission' = done /\ stack' = Land(S, p)
  <2> DEFINE rest == [count |-> 0, mission |-> 0, planet |-> p]
  <2>1. stack' = Merge(AtHome(p), S, rest)
    BY <1>9 DEF Land
  <2>2. rest \in Stack /\ rest.mission = 0 /\ rest.planet = p
    BY <1>4 DEF Stack
  <2>3. AtHome(p) \in SUBSET StackId
    BY DEF AtHome
  <2> HIDE DEF rest
  <2>4. /\ \A k \in MissionId' \ MissionId : Fresh(mission'[k])
        /\ MissionId \subseteq MissionId' /\ rest.mission # m
    BY <1>1, <1>6, <1>9, <2>2
  <2>5. owner'[rest.planet] = Me \/ rest.planet \in hasty'
    BY <1>4, <1>9, <2>2
  <2> QED
    BY <1>6, <1>8, <1>9, <2>1, <2>2, <2>3, <2>4, <2>5
<1>10. CASE S # {} /\ Station(done, S, p)
  <2> DEFINE from == stack[CHOOSE s \in S : TRUE].planet
             post(d) == [count |-> 0, mission |-> d, planet |-> from]
  <2>1. from \in Planet
    BY <1>1, <1>10 DEF Stack
  <2>2. ASSUME NEW d \in Nat
        PROVE  post(d) \in Stack /\ post(d).mission = d
    BY <2>1 DEF Stack
  <2>3. \/ /\ DeployedAt(p) # {} /\ mission' = done
           /\ \E s \in DeployedAt(p) : stack' = Merge({s}, S, stack[s])
        \/ mission' = done /\ \E d \in Marker(p) : stack' = Merge({}, S, post(d))
        \/ /\ mission' = Append(done, NewMission("DEPLOYED", from, p, "none"))
           /\ stack' = Merge({}, S, post(Len(done) + 1))
    <3>1. DeployedAt(p) # {} => (CHOOSE e \in DeployedAt(p) : TRUE) \in DeployedAt(p)
      OBVIOUS
    <3> QED
      BY <1>10, <3>1 DEF Station
  <2> HIDE DEF post, from
  <2>4. ASSUME mission' = done, NEW s \in DeployedAt(p), stack' = Merge({s}, S, stack[s])
        PROVE  /\ Stackwise(w) /\ Aboard(m)' = {} /\ Units(StackId)' = Units(StackId)
               /\ mission' \in Seq(Missions) /\ MissionId \subseteq MissionId'
               /\ \A k \in MissionId : mission'[k] = Acted(m)[k]
               /\ \A k \in MissionId' \ MissionId : Fresh(mission'[k])
    <3> DEFINE rest == stack[s]
               there == {s}
    <3>1. /\ rest \in Stack /\ rest.mission # 0 /\ rest.mission # m
          /\ rest.mission \in MissionId
          /\ there \in SUBSET StackId /\ there # {} /\ there \subseteq Aboard(rest.mission)
      BY <1>1 DEF DeployedAt, Aboard, RowsTyped, OnDuty
    <3>2. stack' = Merge(there, S, rest)
      BY <2>4
    <3> HIDE DEF rest, there
    <3>3. /\ \A k \in MissionId' \ MissionId : Fresh(mission'[k])
          /\ MissionId \subseteq MissionId' /\ rest.mission \in MissionId'
      BY <1>6, <2>4, <3>1
    <3> QED
      BY <1>6, <1>8, <1>10, <2>4, <3>1, <3>2, <3>3
  <2>5. ASSUME mission' = done, NEW d \in Marker(p), stack' = Merge({}, S, post(d))
        PROVE  /\ Stackwise(w) /\ Aboard(m)' = {} /\ Units(StackId)' = Units(StackId)
               /\ mission' \in Seq(Missions) /\ MissionId \subseteq MissionId'
               /\ \A k \in MissionId : mission'[k] = Acted(m)[k]
               /\ \A k \in MissionId' \ MissionId : Fresh(mission'[k])
    <3>1. /\ post(d) \in Stack /\ post(d).mission = d /\ d # 0 /\ d # m
          /\ mission'[d].type = "DEPLOYED" /\ ~mission'[d].resolved /\ d \in MissionId
      BY <1>1, <1>5, <1>6, <2>2, <2>5
    <3>2. /\ \A k \in MissionId' \ MissionId : Fresh(mission'[k])
          /\ MissionId \subseteq MissionId' /\ d \in MissionId' /\ {} \in SUBSET StackId
      BY <1>6, <2>5, <3>1
    <3> QED
      BY <1>6, <1>8, <1>10, <2>5, <3>1, <3>2
  <2>6. ASSUME mission' = Append(done, NewMission("DEPLOYED", from, p, "none")),
               stack' = Merge({}, S, post(Len(done) + 1))
        PROVE  /\ Stackwise(w) /\ Aboard(m)' = {} /\ Units(StackId)' = Units(StackId)
               /\ mission' \in Seq(Missions) /\ MissionId \subseteq MissionId'
               /\ \A k \in MissionId : mission'[k] = Acted(m)[k]
               /\ \A k \in MissionId' \ MissionId : Fresh(mission'[k])
    <3> DEFINE r == NewMission("DEPLOYED", from, p, "none")
               n == Len(done) + 1
    <3>1. r \in Missions /\ Fresh(r) /\ r.type = "DEPLOYED" /\ ~r.resolved
      BY <1>4, <2>1, NewMissionFresh DEF Fresh
    <3>2. mission' = Append(done, r)
      BY <2>6
    <3> HIDE DEF r
    <3>3. /\ mission' \in Seq(Missions) /\ MissionId' = MissionId \cup {n} /\ n \notin MissionId
          /\ mission'[n] = r /\ \A k \in MissionId : mission'[k] = done[k]
          /\ n \in Nat /\ n # 0
      BY <1>2, <3>1, <3>2, Longer, Table DEF MissionId
    <3>4. stack' = Merge({}, S, post(n))
      BY <2>6
    <3> HIDE DEF n
    <3>5. post(n) \in Stack /\ post(n).mission = n /\ n # m
      BY <2>2, <3>3
    <3>6. /\ \A k \in MissionId' \ MissionId : Fresh(mission'[k])
          /\ MissionId \subseteq MissionId' /\ n \in MissionId' /\ {} \in SUBSET StackId
          /\ mission'[n].type = "DEPLOYED" /\ ~mission'[n].resolved
      BY <3>1, <3>3
    <3> QED
      BY <1>8, <1>10, <3>3, <3>4, <3>5, <3>6
  <2> QED
    BY <2>3, <2>4, <2>5, <2>6
<1> QED
  BY <1>3, <1>7, <1>9, <1>10 DEF Land, Station

(* deploy::process and return_mission::process.                            *)
LEMMA MoveStep ==
    ASSUME Inv, NEW w \in Worker, NEW m \in MissionId, m = cur[w], NEW type, Runs(w, type),
           NEW p \in {mission[m].src, mission[m].tgt}, Move(w, Acted(m), p),
           UNCHANGED <<owner, known>>
    PROVE  Step(w)
<1>1. /\ pc[w] = "running" /\ ~NoUnitsInvolved(w)
      /\ Goto(w, "unlock") /\ UNCHANGED lock /\ UNCHANGED locals /\ UNCHANGED ghosts
      /\ UNCHANGED bounds
  BY DEF Runs
<1>2. /\ pc'[w] = "unlock" /\ IsDone(Acted(m), m, mission[m].acted + 1) /\ RowsTyped
      /\ mission[m].type = "RETURN_MISSION" \/ snap[w].units # {}
  BY <1>1, AtRun, Done DEF NoUnitsInvolved
<1>3. /\ Stackwise(w) /\ Aboard(m)' = {} /\ Units(StackId)' = Units(StackId)
      /\ mission' \in Seq(Missions) /\ MissionId \subseteq MissionId'
      /\ \A k \in MissionId : mission'[k] = Acted(m)[k]
      /\ \A k \in MissionId' \ MissionId : Fresh(mission'[k])
  <2>1. owner' = owner /\ hasty' = hasty
    BY <1>1 DEF ghosts
  <2> QED
    BY <1>1, <1>2, <2>1, Moves
<1>4. Ran(w, m, Acted(m), mission[m].acted + 1)
  BY <1>2, <1>3 DEF Ran
<1>5. /\ owner' \in [Planet -> User \cup {Nobody}] /\ emptied' \subseteq MissionId'
      /\ known' \subseteq Planet /\ killed' = killed /\ killed' \in Nat /\ hasty' = hasty
      /\ \A q \in Planet : owner'[q] = owner[q] \/ owner'[q] = Me
      /\ requests' \in 0 .. MaxRequests /\ faults' \in 0 .. MaxFaults
  BY <1>1, <1>2, <1>3 DEF RowsTyped, ghosts, bounds
<1>6. Units(StackId)' + killed' = Units(StackId) + killed
  BY <1>3, <1>5
<1>7. Tablewise(w) /\ Grows
  BY <1>1, <1>2, <1>3, <1>4, <1>5, <1>6, RunTables
<1> QED
  BY <1>1, <1>7, RunProcess DEF Step

(* The run of a DEPLOY mission.                                            *)
LEMMA DeployStep ==
    ASSUME Inv, NEW w \in Worker, Deploy(w)
    PROVE  Step(w)
<1>1. pc[w] = "running"
  BY DEF Deploy, Runs
<1>2. PICK m \in MissionId : m = cur[w]
  BY <1>1, AtRun
<1>3. Runs(w, "DEPLOY") /\ Move(w, Acted(m), mission[m].tgt) /\ UNCHANGED <<owner, known>>
  BY <1>2 DEF Deploy
<1> QED
  BY <1>2, <1>3, MoveStep

(* The run of a RETURN_MISSION.                                            *)
LEMMA ComeHomeStep ==
    ASSUME Inv, NEW w \in Worker, ComeHome(w)
    PROVE  Step(w)
<1>1. pc[w] = "running"
  BY DEF ComeHome, Runs
<1>2. PICK m \in MissionId : m = cur[w]
  BY <1>1, AtRun
<1>3. /\ Runs(w, "RETURN_MISSION") /\ Move(w, Acted(m), mission[m].src)
      /\ UNCHANGED <<owner, known>>
  BY <1>2 DEF ComeHome
<1> QED
  BY <1>2, <1>3, MoveStep

(* The run of an ESTABLISH_BASE mission.                                   *)
LEMMA EstablishBaseStep ==
    ASSUME Inv, NEW w \in Worker, EstablishBase(w)
    PROVE  Step(w)
<1>1. /\ pc[w] = "running" /\ mission[cur[w]].type = "ESTABLISH_BASE" /\ ~NoUnitsInvolved(w)
      /\ Goto(w, "unlock") /\ UNCHANGED lock /\ UNCHANGED locals /\ UNCHANGED ghosts
      /\ UNCHANGED bounds /\ known' = known
  BY DEF EstablishBase, Runs
<1>2. PICK m \in MissionId : m = cur[w]
  BY <1>1, AtRun
<1>3. /\ pc'[w] = "unlock" /\ IsDone(Acted(m), m, mission[m].acted + 1) /\ RowsTyped
      /\ snap[w].units # {} /\ snap[w].units \in SUBSET StackId
      /\ Aboard(m) \subseteq snap[w].units /\ mission[m] \in Missions
      /\ \A k \in MissionId : k # 0 /\ mission[k] \in Missions
  BY <1>1, <1>2, AtRun, Done, Tables DEF NoUnitsInvolved
<1> DEFINE p == mission[m].tgt
           settled == [count |-> 0, mission |-> 0, planet |-> p]
           S == snap[w].units \cup DeployedAt(p)
           gone(k) == \E s \in DeployedAt(p) : stack[s].mission = k
<1>4. p \in Planet
  BY <1>3 DEF Missions
<1>5. /\ owner' = [owner EXCEPT ![p] = Me] /\ stack' = Merge({}, S, settled)
      /\ mission' = [k \in MissionId |-> IF gone(k) THEN [mission[k] EXCEPT !.type = "deleted"]
                                         ELSE Acted(m)[k]]
  BY <1>2 DEF EstablishBase
<1>6. settled \in Stack /\ settled.mission = 0 /\ settled.planet = p
  BY <1>4 DEF Stack
<1>7. S \in SUBSET StackId /\ S # {} /\ Aboard(m) \subseteq S
  BY <1>3 DEF DeployedAt
<1>8. \A k \in MissionId : gone(k) => mission[k].type = "DEPLOYED" /\ Aboard(k) \subseteq S
  BY DEF DeployedAt, Aboard
<1>9. /\ owner' \in [Planet -> User \cup {Nobody}] /\ owner'[p] = Me
      /\ \A q \in Planet : owner'[q] = owner[q] \/ owner'[q] = Me
  BY <1>3, <1>4, <1>5, UniverseAssumption DEF RowsTyped
<1> HIDE DEF p, settled, S, gone
<1>10. mission' \in [MissionId -> Missions]
  <2>1. \A k \in MissionId : Acted(m)[k] \in Missions
    BY <1>3, Table DEF IsDone
  <2>2. \A k \in MissionId : [mission[k] EXCEPT !.type = "deleted"] \in Missions
    BY <1>3 DEF Missions
  <2> QED
    BY <1>5, <2>1, <2>2
<1>11. mission' \in Seq(Missions) /\ MissionId' = MissionId
  BY <1>3, <1>10, IsTable DEF RowsTyped, MissionId
<1>12. /\ Stackwise(w) /\ Units(StackId)' = Units(StackId)
       /\ \A k \in MissionId : Aboard(k) \subseteq S /\ k # settled.mission => Aboard(k)' = {}
  <2>1. {} \in SUBSET StackId /\ MissionId \subseteq MissionId'
    BY <1>11
  <2>2. settled.mission = 0 /\ owner'[settled.planet] = Me
    BY <1>6, <1>9
  <2> QED
    BY <1>5, <1>6, <1>7, <1>9, <2>1, <2>2, MergeBoards
<1>13. Aboard(m)' = {} /\ \A k \in MissionId : gone(k) => Aboard(k)' = {}
  BY <1>3, <1>6, <1>7, <1>8, <1>12
<1>14. Ran(w, m, Acted(m), mission[m].acted + 1)
  <2>1. \A k \in MissionId :
           \/ mission'[k] = Acted(m)[k]
           \/ gone(k) /\ mission'[k] = [mission[k] EXCEPT !.type = "deleted"]
    BY <1>5
  <2>2. \A k \in MissionId :
           \/ mission'[k] = Acted(m)[k]
           \/ /\ mission[k].type = "DEPLOYED" /\ Aboard(k)' = {}
              /\ mission'[k] = [mission[k] EXCEPT !.type = "deleted"]
    BY <1>8, <1>13, <2>1
  <2> QED
    BY <1>3, <1>11, <2>2 DEF Ran
<1>15. /\ emptied' \subseteq MissionId' /\ hasty' = hasty
       /\ known' \subseteq Planet /\ killed' = killed
       /\ killed' \in Nat /\ requests' \in 0 .. MaxRequests /\ faults' \in 0 .. MaxFaults
  BY <1>1, <1>3, <1>11 DEF RowsTyped, ghosts, bounds
<1>16. Units(StackId)' + killed' = Units(StackId) + killed
  BY <1>12, <1>15
<1>17. Tablewise(w) /\ Grows
  BY <1>1, <1>2, <1>3, <1>9, <1>12, <1>13, <1>14, <1>15, <1>16, RunTables
<1> QED
  BY <1>1, <1>17, RunProcess DEF Step

(* A planet of Me is conquered.                                            *)
LEMMA PlanetConqueredStep ==
    ASSUME Inv, NEW p \in Planet, NEW u \in User, PlanetConquered(p, u)
    PROVE  Step(Nobody)
<1>1. /\ u # Me /\ owner' = [owner EXCEPT ![p] = u] /\ Fault("conquest")
      /\ stack' = [s \in StackId |-> IF s \in AtHome(p) THEN [stack[s] EXCEPT !.count = 0]
                                     ELSE stack[s]]
      /\ killed' = killed + Units(AtHome(p))
      /\ UNCHANGED <<mission, known, lock, pc, locals, emptied, hasty, requests>>
      /\ p \in OwnedBy(Me) /\ LocksFree(OwnedBy(Me))
  BY DEF PlanetConquered, OwnedBy
<1>2. RowsTyped /\ Typed /\ Nobody \notin Process
  BY UniverseAssumption DEF Inv, Typed
<1> DEFINE S == AtHome(p)
<1>3. S \in SUBSET StackId
  BY DEF AtHome
<1>4. \A s \in StackId : /\ stack[s] \in Stack /\ [stack[s] EXCEPT !.count = 0] \in Stack
                         /\ [stack[s] EXCEPT !.count = 0].count = 0
                         /\ [stack[s] EXCEPT !.count = 0].mission = stack[s].mission
                         /\ [stack[s] EXCEPT !.count = 0].planet = stack[s].planet
  BY <1>2, Tables DEF Stack
<1>5. /\ \A s \in S : stack'[s].count = 0 /\ stack'[s].mission = stack[s].mission
      /\ \A s \in StackId \ S : stack'[s] = stack[s]
      /\ stack' \in [StackId -> Stack]
  BY <1>1, <1>3, <1>4
<1>6. stack' \in Seq(Stack) /\ StackId' = StackId /\ MissionId' = MissionId
  BY <1>1, <1>2, <1>5, IsTable DEF RowsTyped, StackId, MissionId
<1>7. Units(StackId) = Units(StackId)' + Units(S)
  BY <1>2, <1>3, <1>5, <1>6, Wiped
<1>8. Units(S) \in Nat /\ killed \in Nat /\ killed' = killed + Units(S)
  BY <1>1, <1>2, <1>3, CountsTyped DEF RowsTyped
<1>9. Units(StackId)' + killed' = Units(StackId) + killed
  <2>1. \A s \in StackId : Counts'[s] \in Nat
    BY <1>5, <1>6 DEF Counts, Stack
  <2>2. Units(StackId)' \in Nat
    BY <1>2, <1>6, <2>1, Tables, TotalNat, UnitsIsTotalNext
  <2> QED
    BY <1>7, <1>8, <2>2
<1>10. RowsTyped' /\ Grows
  <2>1. /\ faults' \in 0 .. MaxFaults /\ killed' \in Nat
        /\ owner' \in [Planet -> User \cup {Nobody}]
    BY <1>1, <1>2, <1>8, FaultCounted DEF RowsTyped
  <2>2. \A s \in StackId : stack'[s].mission \in MissionId \cup {0}
    BY <1>2, <1>5 DEF RowsTyped
  <2> QED
    BY <1>1, <1>2, <1>6, <2>1, <2>2 DEF RowsTyped, Grows
<1>11. Rowwise(Nobody)
  BY <1>1, <1>2, <1>6 DEF Rowwise, Later, RowsTyped
<1>12. Stackwise(Nobody)
  <2>1. \A s \in StackId : stack'[s].count > 0 => stack'[s] = stack[s] /\ s \notin S
    BY <1>5
  <2>2. \A s \in StackId : stack'[s].count > 0 => s \in Aboard(stack'[s].mission)
    BY <2>1 DEF Aboard, Live
  <2>3. \A s \in StackId : stack'[s].count > 0 /\ stack'[s].mission = 0 =>
           /\ s \in AtHome(stack'[s].planet) /\ stack'[s].planet # p
           /\ owner'[stack'[s].planet] = owner[stack'[s].planet]
    BY <1>1, <1>2, <1>4, <2>1 DEF AtHome, Live, Stack, RowsTyped
  <2>4. \A s \in StackId' : stack'[s].mission \in MissionId' \cup {0}
    BY <1>10 DEF RowsTyped
  <2> HIDE DEF S
  <2> QED
    BY <1>6, <2>2, <2>3, <2>4 DEF Stackwise
<1>13. Settled(Nobody)
  BY <1>1, <1>2 DEF Settled, At
<1>14. Tablewise(Nobody)
  <2>1. \A q \in Planet : owner'[q] = owner[q] \/ lock[q] = Nobody
    BY <1>1, <1>2 DEF RowsTyped, LocksFree
  <2>2. Ownerwise
    BY <1>1, <2>1 DEF Ownerwise
  <2> QED
    BY <1>9, <1>10, <1>11, <1>12, <1>13, <2>2 DEF Tablewise
<1>15. LocalsTyped'
  BY <1>1, <1>2, <1>6, <1>10, StillTyped DEF Typed, LocalsTyped, locals, PlaceTyped
<1>16. Alone(Nobody)
  BY <1>1 DEF Alone, locals
<1> QED
  BY <1>2, <1>14, <1>15, <1>16 DEF Step, Processwise

(* A registration splits a stack; the DEPLOYED mission it empties is over. *)
LEMMA RegisterStep ==
    ASSUME Inv, NEW c \in Client, Register(c)
    PROVE  Step(c)
<1> DEFINE o == order[c]
           n == o.count
           new == Len(mission) + 1
           row == NewMission(o.type, o.src, o.tgt, "armed")
           split == [count |-> n, mission |-> new, planet |-> o.src]
<1>1. /\ c \in Process /\ Typed /\ RowsTyped /\ pc[c] = "ordered" /\ Rest(c)
      /\ UNCHANGED <<owner, known, lock, ghosts>> /\ UNCHANGED bounds
  BY DEF Inv, Typed, Process, Register
<1>2. o \in Orders /\ n \in Nat /\ n > 0 /\ o.src \in Planet /\ o.tgt \in Planet
  <2>1. o \in Orders
    BY <1>1 DEF Typed, LocalsTyped, PlaceTyped
  <2> QED
    BY <2>1, UniverseAssumption DEF Orders
<1>3. PICK s \in SourceStacks(o.src) :
          /\ n <= stack[s].count
          /\ mission' = Append(WithoutOrphan(s, n), row)
          /\ stack' = Append([stack EXCEPT ![s].count = @ - n], split)
  BY DEF Register
<1>4. s \in StackId /\ stack[s] \in Stack /\ Live(s) /\ mission \in Seq(Missions) /\ stack \in Seq(Stack)
  BY <1>1, Tables DEF SourceStacks, AtHome, DeployedAt, RowsTyped
<1>5. row \in Missions /\ Fresh(row) /\ row.task = "armed"
  <2>1. o.type \in OnDuty \cup {"DEPLOYED"} /\ o.type # "DEPLOYED"
    BY <1>2, OrderAssumption DEF Orders, OnDuty
  <2> HIDE DEF o
  <2> QED
    BY <1>2, <2>1, NewMissionFresh
<1>6. /\ WithoutOrphan(s, n) \in Seq(Missions) /\ DOMAIN WithoutOrphan(s, n) = MissionId
      /\ Len(WithoutOrphan(s, n)) = Len(mission)
      /\ \A k \in MissionId :
            \/ WithoutOrphan(s, n)[k] = mission[k]
            \/ /\ k = stack[s].mission /\ mission[k].type = "DEPLOYED"
               /\ stack[s].count = n /\ Aboard(k) = {s}
               /\ WithoutOrphan(s, n)[k] = [mission[k] EXCEPT !.resolved = TRUE]
  <2>1. CASE ~(stack[s].count = n /\ stack[s].mission # 0 /\ Aboard(stack[s].mission) = {s})
    BY <1>4, <2>1 DEF WithoutOrphan, MissionId
  <2>2. CASE stack[s].count = n /\ stack[s].mission # 0 /\ Aboard(stack[s].mission) = {s}
    <3> DEFINE k == stack[s].mission
    <3>1. k \in MissionId /\ mission[k] \in Missions /\ mission[k].type = "DEPLOYED"
      BY <1>1, <1>3, <1>4, <2>2, Tables DEF RowsTyped, SourceStacks, AtHome, DeployedAt
    <3>2. [mission[k] EXCEPT !.resolved = TRUE] \in Missions
      BY <3>1 DEF Missions
    <3>3. WithoutOrphan(s, n) = [mission EXCEPT ![k] = [mission[k] EXCEPT !.resolved = TRUE]]
      BY <2>2 DEF WithoutOrphan, Resolved
    <3>4. /\ WithoutOrphan(s, n) \in Seq(Missions) /\ DOMAIN WithoutOrphan(s, n) = MissionId
          /\ Len(WithoutOrphan(s, n)) = Len(mission)
          /\ WithoutOrphan(s, n)[k] = [mission[k] EXCEPT !.resolved = TRUE]
          /\ \A j \in MissionId \ {k} : WithoutOrphan(s, n)[j] = mission[j]
      <4> HIDE DEF k
      <4> QED
        BY <1>4, <3>1, <3>2, <3>3, RowChanged DEF MissionId
    <3> QED
      BY <2>2, <3>1, <3>4
  <2> QED
    BY <2>1, <2>2
<1> DEFINE gone(k) ==
              /\ k = stack[s].mission /\ mission[k].type = "DEPLOYED"
              /\ stack[s].count = n /\ Aboard(k) = {s}
              /\ mission'[k] = [mission[k] EXCEPT !.resolved = TRUE]
<1>7. /\ mission' \in Seq(Missions) /\ MissionId' = MissionId \cup {new} /\ new \notin MissionId
      /\ mission'[new] = row /\ new \in Nat /\ new # 0
      /\ \A k \in MissionId : mission'[k] = mission[k] \/ gone(k)
  <2> HIDE DEF row
  <2>1. /\ mission' \in Seq(Missions) /\ MissionId' = MissionId \cup {new} /\ new \notin MissionId
        /\ mission'[new] = row /\ \A k \in MissionId : mission'[k] = WithoutOrphan(s, n)[k]
    BY <1>3, <1>5, <1>6, Longer DEF MissionId
  <2>2. new \in Nat /\ new # 0
    BY <1>4, Table
  <2>3. \A k \in MissionId : mission'[k] = mission[k] \/ gone(k)
    BY <1>6, <2>1
  <2> QED
    BY <2>1, <2>2, <2>3
<1> HIDE DEF row, gone, new
<1> DEFINE less == [stack[s] EXCEPT !.count = @ - n]
           e == Len(stack) + 1
<1>8. /\ less \in Stack /\ less.count = stack[s].count - n /\ less.mission = stack[s].mission
      /\ less.planet = stack[s].planet
  <2>1. stack[s].count - n \in Nat /\ less = [stack[s] EXCEPT !.count = stack[s].count - n]
    BY <1>2, <1>3, <1>4 DEF Stack
  <2> HIDE DEF less, n
  <2> QED
    BY <1>4, <2>1 DEF Stack
<1>9. split \in Stack /\ split.count = n /\ split.mission = new
  BY <1>2, <1>7 DEF Stack
<1>10. /\ stack' \in Seq(Stack) /\ StackId' = StackId \cup {e} /\ e \notin StackId
       /\ stack'[e] = split /\ stack'[s] = less
       /\ \A i \in StackId \ {s} : stack'[i] = stack[i]
  <2> DEFINE q == [stack EXCEPT ![s] = less]
  <2>1. stack' = Append(q, split)
    BY <1>3
  <2> HIDE DEF less, split
  <2>2. /\ q \in Seq(Stack) /\ Len(q) = Len(stack) /\ DOMAIN q = StackId /\ q[s] = less
        /\ \A i \in StackId \ {s} : q[i] = stack[i]
    BY <1>4, <1>8, RowChanged DEF StackId
  <2> HIDE DEF q
  <2> QED
    BY <1>4, <1>9, <2>1, <2>2, Longer DEF StackId
<1> HIDE DEF less, split, e
<1>11. \A i \in StackId' : stack'[i].mission \in MissionId' \cup {0}
  BY <1>1, <1>4, <1>7, <1>8, <1>9, <1>10 DEF RowsTyped
<1>12. RowsTyped' /\ Grows
  BY <1>1, <1>7, <1>10, <1>11 DEF RowsTyped, ghosts, bounds, Grows
<1>13. ASSUME NEW k \in MissionId
       PROVE  /\ Later(mission[k], mission'[k]) /\ mission'[k].task = mission[k].task
              /\ mission'[k].acted = mission[k].acted
              /\ mission'[k].cancelled = mission[k].cancelled
              /\ mission'[k].type = mission[k].type
              /\ mission'[k] = mission[k] \/ gone(k)
  <2>1. mission[k] \in Missions
    BY <1>1, Tables
  <2>2. CASE mission'[k] = mission[k]
    BY <2>2 DEF Later
  <2>3. CASE gone(k)
    BY <2>1, <2>3 DEF gone, Missions, Later
  <2> QED
    BY <1>7, <2>2, <2>3
<1>14. Rowwise(c)
  <2>1. \A k \in MissionId : mission'[k] = mission[k] \/ mission[k].type = "DEPLOYED"
    BY <1>13 DEF gone
  <2> QED
    BY <1>5, <1>7, <1>13, <2>1 DEF Rowwise
<1>15. Stackwise(c)
  <2>1. ASSUME NEW i \in StackId', stack'[i].count > 0
        PROVE  \/ /\ stack'[i].mission \notin MissionId
                  /\ mission'[stack'[i].mission].task # "none" /\ stack'[i].mission # 0
               \/ i \in StackId /\ i \in Aboard(stack'[i].mission)
                  /\ (stack'[i].mission = 0 => i \in AtHome(stack'[i].planet))
    <3>1. CASE i = e
      BY <1>5, <1>7, <1>9, <1>10, <3>1
    <3>2. CASE i = s
      BY <1>4, <1>8, <1>10, <3>2 DEF Aboard, AtHome
    <3>3. CASE i \in StackId \ {s}
      BY <1>10, <2>1, <3>3 DEF Aboard, AtHome, Live
    <3> QED
      BY <1>10, <3>1, <3>2, <3>3
  <2> QED
    BY <1>1, <1>10, <1>11, <2>1 DEF Stackwise
<1>16. Settled(c)
  <2>1. ASSUME NEW k \in MissionId, gone(k)
        PROVE  Aboard(k)' = {}
    <3>1. stack'[s].count = 0
      BY <1>2, <1>8, <1>10, <2>1 DEF gone
    <3>2. \A i \in StackId \ {s} : ~(stack'[i].count > 0 /\ stack'[i].mission = k)
      BY <1>10, <2>1 DEF gone, Aboard, Live
    <3>3. stack'[e].mission # k
      BY <1>7, <1>9, <1>10
    <3> QED
      BY <1>10, <3>1, <3>2, <3>3 DEF Aboard, Live
  <2>2. \A k \in MissionId : mission'[k] = mission[k] \/ Aboard(k)' = {}
    BY <1>13, <2>1
  <2>3. At(c, "ordered")
    BY <1>1 DEF At
  <2> QED
    BY <2>2, <2>3 DEF Settled, At
<1>17. Units(StackId)' = Units(StackId)
  <2>1. \A i \in StackId : Counts[i] \in Int /\ Counts[i] = stack[i].count
    BY <1>1, CountsTyped
  <2>2. \A i \in StackId' : Counts'[i] = stack'[i].count /\ Counts'[i] \in Int
    <3>1. \A i \in StackId' : stack'[i] \in Stack
      BY <1>10, Table DEF StackId
    <3> QED
      BY <3>1 DEF Counts, Stack
  <2>3. Total(Counts', StackId) = Total(Counts, StackId) + Counts'[s] - Counts[s]
    <3>1. \A i \in StackId \ {s} : Counts'[i] = Counts[i]
      BY <1>10, <2>1, <2>2
    <3>2. \A i \in StackId : Counts[i] \in Int /\ Counts'[i] \in Int
      BY <1>10, <2>1, <2>2
    <3>3. IsFiniteSet(StackId)
      BY <1>1, Tables
    <3> QED
      BY <1>4, <3>1, <3>2, <3>3, TotalChange
  <2>4. Total(Counts', StackId \cup {e}) = Counts'[e] + Total(Counts', StackId)
    <3>1. \A i \in StackId \cup {e} : Counts'[i] \in Int
      BY <1>10, <2>2
    <3>2. IsFiniteSet(StackId)
      BY <1>1, Tables
    <3> QED
      BY <1>10, <3>1, <3>2, TotalAdd
  <2>5. Counts'[s] = Counts[s] - n /\ Counts'[e] = n
    BY <1>4, <1>8, <1>9, <1>10, <2>1, <2>2
  <2>6. Total(Counts, StackId) \in Int
    BY <1>1, <2>1, Tables, TotalInt
  <2>7. Total(Counts', StackId') = Total(Counts, StackId)
    <3>1. Counts[s] \in Int
      BY <1>4, <2>1
    <3> QED
      BY <1>2, <1>10, <2>3, <2>4, <2>5, <2>6, <3>1
  <2> QED
    BY <2>7, UnitsIsTotal, UnitsIsTotalNext
<1>18. Tablewise(c)
  BY <1>1, <1>12, <1>14, <1>15, <1>16, <1>17 DEF Tablewise, Ownerwise, ghosts
<1> QED
  BY <1>1, <1>12, <1>18, LockKept, Rests DEF Step

------------------------------------------------------------------------------
(* Every step is one of them.                                              *)

(* A step that changes nothing.                                            *)
LEMMA Stutter ==
    ASSUME Inv, UNCHANGED vars
    PROVE  Step(Nobody)
<1>1. Typed /\ Nobody \notin Process
  BY UniverseAssumption DEF Inv
<1>2. UNCHANGED <<rows, lock, pc, locals, ghosts, bounds>>
  BY DEF vars
<1>3. Tablewise(Nobody) /\ Grows
  BY <1>1, <1>2, QuietTables, BoundsKept DEF bounds
<1>4. LocalsTyped'
  BY <1>1, <1>2, <1>3, StillTyped DEF Typed, LocalsTyped, locals, PlaceTyped
<1>5. Alone(Nobody)
  BY <1>2 DEF Alone, locals
<1> QED
  BY <1>1, <1>3, <1>4, <1>5 DEF Step, Processwise

(* Every step of the specification is a step of a process, of a conquest,  *)
(* or none.                                                                *)
LEMMA NextIsStep ==
    ASSUME Inv, [Next]_vars
    PROVE  \E x \in Process \cup {Nobody} : Step(x)
<1>1. CASE UNCHANGED vars
  BY <1>1, Stutter
<1>2. ASSUME NEW x \in Process, ReturnStep(x)
      PROVE  Step(x)
  BY <1>2, ResolveStep, InsertReturnStep, RepointStep, ScheduleReturnStep DEF ReturnStep
<1>3. ASSUME NEW c \in Client, Order(c) \/ Cancel(c) \/ AskToLeave(c) \/ ClientStep(c)
      PROVE  Step(c)
  <2>1. c \in Process
    BY DEF Process
  <2> QED
    BY <1>2, <1>3, <2>1, OrderStep, CancelStep, AskToLeaveStep, RegisterStep, RegisterFailsStep,
       CancelLockedStep, CanLeavePlanetStep, LeavePlanetStep, UnlockStep DEF ClientStep
<1>4. ASSUME NEW w \in Worker, WorkerStep(w) \/ RunFails(w)
      PROVE  Step(w)
  <2>1. w \in Process
    BY DEF Process
  <2>2. ASSUME RunStep(w) PROVE Step(w)
    BY <2>2, ExploreStep, DeployStep, ComeHomeStep, EstablishFailsStep, EstablishBaseStep,
       InterceptedStep DEF RunStep
  <2> QED
    BY <1>2, <1>4, <2>1, <2>2, ClaimStep, LoadStep, LockAndBeginStep, UnlockStep, RetryStep,
       RearmStep, CloseStep, RunFailsStep DEF WorkerStep
<1>5. CASE Next
  <2>1. CASE \E c \in Client : Order(c) \/ Cancel(c) \/ AskToLeave(c) \/ ClientStep(c)
    BY <1>3, <2>1 DEF Process
  <2>2. CASE \E w \in Worker : WorkerStep(w) \/ RunFails(w)
    BY <1>4, <2>2 DEF Process
  <2>3. CASE \E x \in Process : Stops(x)
    BY <2>3, StopsStep
  <2>4. CASE \E p \in Planet, u \in User : PlanetConquered(p, u)
    BY <2>4, PlanetConqueredStep
  <2> QED
    BY <1>5, <2>1, <2>2, <2>3, <2>4 DEF Next
<1> QED
  BY <1>1, <1>5

(* The invariant is inductive.                                             *)
LEMMA InvNext ==
    ASSUME Inv, [Next]_vars
    PROVE  Inv'
<1>1. PICK x \in Process \cup {Nobody} : Step(x)
  BY NextIsStep
<1>2. Tablewise(x) /\ Processwise(x)
  BY <1>1 DEF Step
<1>3. Typed'
  BY <1>2 DEF Tablewise, Processwise, Typed
<1> QED
  BY <1>2, <1>3, KindsNext, IsOverNext, IsOwnNext, IsLockedNext, IsReadNext, IsSeenNext,
     IsOnceNext
  DEF Inv

(* The invariant holds at first.                                           *)
LEMMA InitInv == Init => Inv
<1> SUFFICES ASSUME Init PROVE Inv
  OBVIOUS
<1> USE DEF Init
<1>1. /\ MissionId = {} /\ mission \in Seq(Missions)
      /\ stack \in Seq(Stack) /\ StackId = {1} /\ stack[1].mission = 0
  <2>1. [count |-> FleetSize, mission |-> 0, planet |-> FleetPlanet] \in Stack
    BY UniverseAssumption DEF Stack
  <2> QED
    BY <2>1, EmptySeq DEF MissionId, StackId
<1>2. RowsTyped
  BY <1>1, UniverseAssumption, BoundAssumption DEF RowsTyped
<1>3. LocalsTyped
  BY <1>1 DEF LocalsTyped, PlaceTyped, Places, ClientPlaces
<1>4. \A x \in Process : pc[x] = "idle" /\ cur[x] = 0
  OBVIOUS
<1>5. Worker \subseteq Process /\ Client \subseteq Process
  BY DEF Process
<1> QED
  BY <1>1, <1>2, <1>3, <1>4, <1>5
  DEF Inv, Typed, Kinds, IsOver, Over, IsOwn, Returning, IsLocked, Holds, IsRead, IsSeen, IsOnce

(* The invariant holds in every behaviour, whatever fails.                 *)
THEOREM SpecInv == Spec => []Inv
<1>1. Inv /\ [Next]_vars => Inv'
  BY InvNext
<1> QED
  BY <1>1, InitInv, PTL DEF Spec

------------------------------------------------------------------------------
(* The properties that hold whatever fails.                                *)

(* run_unit_mission_once: a mission has its effect at most once, although  *)
(* two workers may run it and neither looks at its resolved flag.          *)
THEOREM SpecActsOnce == Spec => []ActsOnce
<1>1. Inv => ActsOnce
  BY DEF Inv, IsOnce, ActsOnce
<1> QED
  BY <1>1, SpecInv, PTL

(* Every split, merge, move, return, interception and conquest keeps the   *)
(* number of Me's units, the dead ones counted.                            *)
THEOREM SpecUnitsConserved == Spec => []UnitsConserved
<1>1. Init => UnitsConserved
  <2> SUFFICES ASSUME Init PROVE UnitsConserved
    OBVIOUS
  <2>1. StackId = {1} /\ stack[1].count = FleetSize /\ killed = 0
    BY DEF Init, StackId
  <2>2. RowsTyped
    BY InitInv DEF Inv, Typed
  <2>3. Units({1}) = Total(Counts, {1})
    BY <2>1, UnitsIsTotal
  <2>4. Total(Counts, {1}) = Counts[1] + Total(Counts, {1} \ {1})
    <3>1. IsFiniteSet({1}) /\ \A i \in {1} : Counts[i] \in Int
      BY <2>1, <2>2, CountsTyped, Tables
    <3>2. 1 \in {1}
      OBVIOUS
    <3> QED
      BY ONLY <3>1, <3>2, TotalTake
  <2>5. {1} \ {1} = {} /\ Total(Counts, {}) = 0
    BY TotalEmpty
  <2>6. Counts[1] = FleetSize /\ FleetSize \in Nat
    BY <2>1, UniverseAssumption DEF Counts
  <2> QED
    BY <2>1, <2>3, <2>4, <2>5, <2>6 DEF UnitsConserved
<1>2. Inv /\ UnitsConserved /\ [Next]_vars => UnitsConserved'
  <2> SUFFICES ASSUME Inv, UnitsConserved, [Next]_vars PROVE UnitsConserved'
    OBVIOUS
  <2>1. PICK x \in Process \cup {Nobody} : Step(x)
    BY NextIsStep
  <2>2. Units(StackId)' + killed' = Units(StackId) + killed
    BY <2>1 DEF Step, Tablewise
  <2> QED
    BY <2>2 DEF UnitsConserved
<1> QED
  BY <1>1, <1>2, SpecInv, PTL DEF Spec

(* Units without a mission are on a planet of Me: what comes home to a     *)
(* planet that was conquered or left meanwhile is stationed there.  Only   *)
(* leave_planet, which locks nothing, undoes that, when units are there or *)
(* a run that may land some holds the planet.                              *)
THEOREM SpecRestsOnOwnPlanet == Spec => []RestsOnOwnPlanet
<1>1. Init => RestsOnOwnPlanet
  BY UniverseAssumption DEF Init, RestsOnOwnPlanet, AtHome, StackId
<1>2. Inv /\ RestsOnOwnPlanet /\ [Next]_vars => RestsOnOwnPlanet'
  <2> SUFFICES ASSUME Inv, RestsOnOwnPlanet, [Next]_vars,
                      NEW p \in Planet, NEW s \in AtHome(p)', p \notin hasty'
               PROVE  owner'[p] = Me
    BY DEF RestsOnOwnPlanet
  <2>1. PICK x \in Process \cup {Nobody} : Step(x)
    BY NextIsStep
  <2>2. s \in StackId' /\ stack'[s].count > 0 /\ stack'[s].mission = 0 /\ stack'[s].planet = p
    BY DEF AtHome, Live
  <2>3. \/ owner'[p] = Me
        \/ s \in AtHome(p) /\ owner'[p] = owner[p]
    BY <2>1, <2>2 DEF Step, Tablewise, Stackwise
  <2>4. p \notin hasty
    BY <2>1 DEF Step, Tablewise, Ownerwise
  <2> QED
    BY <2>3, <2>4 DEF RestsOnOwnPlanet
<1> QED
  BY <1>1, <1>2, SpecInv, PTL DEF Spec

(* Every variable keeps its type; no stack is larger than the fleet.       *)
THEOREM SpecTypeOK == Spec => []TypeOK
<1>1. Inv /\ UnitsConserved => TypeOK
  <2> SUFFICES ASSUME Inv, UnitsConserved PROVE TypeOK
    OBVIOUS
  <2>1. RowsTyped /\ LocalsTyped
    BY DEF Inv, Typed
  <2>2. FleetSize \in Nat
    BY UniverseAssumption
  <2>3. Units(StackId) \in Nat /\ Units(StackId) = Total(Counts, StackId)
    BY <2>1, CountsTyped
  <2>4. killed \in 0 .. FleetSize /\ Units(StackId) <= FleetSize
    BY <2>1, <2>2, <2>3 DEF UnitsConserved, RowsTyped
  <2>5. ASSUME NEW s \in StackId
        PROVE  stack[s] \in Stacks
    <3>1. IsFiniteSet(StackId) /\ \A i \in StackId : Counts[i] \in Nat
      BY <2>1, CountsTyped, Tables
    <3>2. Counts[s] <= Total(Counts, StackId)
      BY ONLY <2>5, <3>1, TotalAtLeast
    <3>3. stack[s] \in Stack /\ stack[s].mission \in MissionId \cup {0} /\ Counts[s] = stack[s].count
      BY <2>1, Tables, CountsTyped DEF RowsTyped
    <3>4. stack[s].count \in 0 .. FleetSize
      BY <2>2, <2>3, <2>4, <3>2, <3>3 DEF Stack
    <3> QED
      BY <3>3, <3>4 DEF Stack, Stacks
  <2>6. stack \in Seq(Stacks)
    <3>1. stack \in Seq(Stack)
      BY <2>1 DEF RowsTyped
    <3>2. stack \in [DOMAIN stack -> Stacks]
      BY <2>5, <3>1, Table DEF StackId
    <3> QED
      BY <3>1, <3>2, IsTable
  <2> QED
    BY <2>1, <2>4, <2>6 DEF TypeOK, RowsTyped, LocalsTyped
<1> QED
  BY <1>1, SpecInv, SpecUnitsConserved, PTL

------------------------------------------------------------------------------
(* The properties that need the autocommit sequence to run to its end.     *)

Sending == {"insert", "repoint", "schedule"}

(* Unless it is cut, the sequence that sends units home is not left.       *)
LEMMA NotCut ==
    ASSUME Inv, "cut" \notin Faults, [Next]_vars, NEW y \in Process, pc[y] \in Sending
    PROVE  pc'[y] \notin {"idle", "ordered", "asked", "leaving"}
<1> USE DEF Sending, Goto
<1>1. pc \in [Process -> Places] /\ Client \subseteq Process /\ Worker \subseteq Process
  BY DEF Inv, Typed, LocalsTyped, Process
<1>2. CASE UNCHANGED vars
  BY <1>2 DEF vars
<1>3. ASSUME NEW x \in Process, ReturnStep(x) \/ Unlock(x)
      PROVE  pc'[y] \notin {"idle", "ordered", "asked", "leaving"}
  BY <1>1, <1>3 DEF ReturnStep, Resolve, InsertReturn, Repoint, ScheduleReturn, Unlock, Rest
<1>4. ASSUME NEW c \in Client, Order(c) \/ Cancel(c) \/ AskToLeave(c) \/ ClientStep(c)
      PROVE  pc'[y] \notin {"idle", "ordered", "asked", "leaving"}
  <2>1. c \in Process
    BY <1>1
  <2>2. ASSUME Order(c) \/ Cancel(c) \/ AskToLeave(c)
        PROVE  pc'[y] \notin {"idle", "ordered", "asked", "leaving"}
    BY <1>1, <2>1, <2>2 DEF Order, Cancel, AskToLeave
  <2>3. ASSUME \/ Register(c) \/ RegisterFails(c) \/ CancelLocked(c)
               \/ CanLeavePlanet(c) \/ LeavePlanet(c)
        PROVE  pc'[y] \notin {"idle", "ordered", "asked", "leaving"}
    BY <1>1, <2>1, <2>3 DEF Register, RegisterFails, CancelLocked, CanLeavePlanet, LeavePlanet,
       Rest
  <2> QED
    BY <1>3, <1>4, <2>1, <2>2, <2>3 DEF ClientStep
<1>5. ASSUME NEW w \in Worker, WorkerStep(w) \/ RunFails(w)
      PROVE  pc'[y] \notin {"idle", "ordered", "asked", "leaving"}
  <2>1. w \in Process
    BY <1>1
  <2>2. ASSUME RunStep(w) PROVE pc'[y] \notin {"idle", "ordered", "asked", "leaving"}
    BY <1>1, <2>1, <2>2 DEF RunStep, Explore, Deploy, ComeHome, EstablishFails, EstablishBase,
       Runs, Intercepted
  <2>3. ASSUME Claim(w) \/ Load(w) \/ LockAndBegin(w) \/ RunFails(w)
        PROVE  pc'[y] \notin {"idle", "ordered", "asked", "leaving"}
    BY <1>1, <2>1, <2>3 DEF Claim, Load, LockAndBegin, RunFails
  <2>4. ASSUME RetryMissionIfPossible(w) \/ Rearm(w) \/ Close(w)
        PROVE  pc'[y] \notin {"idle", "ordered", "asked", "leaving"}
    BY <1>1, <2>1, <2>4 DEF RetryMissionIfPossible, Rearm, Close, Rest
  <2> QED
    BY <1>3, <1>5, <2>1, <2>2, <2>3, <2>4 DEF WorkerStep
<1>6. ASSUME NEW x \in Process, Stops(x)
      PROVE  pc'[y] \notin {"idle", "ordered", "asked", "leaving"}
  BY <1>1, <1>6 DEF Stops, Fault, Rest
<1>7. ASSUME NEW p \in Planet, NEW u \in User, PlanetConquered(p, u)
      PROVE  pc'[y] \notin {"idle", "ordered", "asked", "leaving"}
  BY <1>7 DEF PlanetConquered
<1> QED
  BY <1>2, <1>3, <1>4, <1>5, <1>6, <1>7 DEF Next

(* The way of y through that sequence, when x takes a step.                *)
Way(x, y) ==
    /\ pc[y] = "resolve" /\ pc'[y] = "insert" => cur'[y] = cur[y]
    /\ pc[y] = "insert" => cur'[y] = cur[y] /\ pc'[y] \in {"insert", "repoint"}
    /\ pc[y] = "repoint" =>
          /\ back'[y] = back[y]
          /\ \/ pc'[y] = "repoint" /\ x # y /\ cur'[y] = cur[y]
             \/ pc'[y] = "schedule" /\ x = y
    /\ pc[y] = "schedule" =>
          \/ pc'[y] = "schedule" /\ back'[y] = back[y]
          \/ pc'[y] \in {"unlock", "closing"} /\ x = y

(* Every process goes on along the sequence.                               *)
LEMMA OnTheWay ==
    ASSUME Inv, "cut" \notin Faults, [Next]_vars, NEW x, Step(x), NEW y \in Process
    PROVE  Way(x, y)
<1>1. pc[y] \in Sending => pc'[y] \notin {"idle", "ordered", "asked", "leaving"}
  BY NotCut
<1>2. CASE x # y
  <2>1. pc'[y] = pc[y] /\ cur'[y] = cur[y] /\ back'[y] = back[y]
    BY <1>2 DEF Step, Processwise, Alone
  <2> QED
    BY <1>2, <2>1 DEF Way
<1>3. CASE x = y
  <2>1. Path(y)
    BY <1>3 DEF Step, Processwise
  <2> QED
    BY <1>1, <1>3, <2>1 DEF Way, Path, Stands, Sending
<1> QED
  BY <1>2, <1>3

(* What becomes of the units of mission m is taken care of.                *)
Cared(m) ==
    \/ ~mission[m].resolved /\ mission[m].type = "DEPLOYED"
    \/ ~mission[m].resolved /\ mission[m].task # "none"
    \/ \E x \in Process : pc[x] \in {"insert", "repoint"} /\ cur[x] = m
    \/ \E x \in Process : pc[x] = "schedule" /\ back[x] = m

(* Units that stay with a mission stay taken care of.                      *)
LEMMA StillCared ==
    ASSUME Inv, NoStrandedUnits, "cut" \notin Faults, [Next]_vars, NEW x, Step(x),
           NEW m \in MissionId, Aboard(m) # {}, Aboard(m)' # {}
    PROVE  Cared(m)'
<1>1. Rowwise(x) /\ Settled(x)
  BY DEF Step, Tablewise
<1>2. \A y \in Process : Way(x, y)
  BY OnTheWay
<1>3. CASE \/ mission'[m].resolved # mission[m].resolved
           \/ mission'[m].type # mission[m].type
  <2>1. At(x, "resolve") /\ m = cur[x] /\ pc'[x] = "insert"
    BY <1>1, <1>3 DEF Settled
  <2>2. cur'[x] = m
    BY <1>2, <2>1 DEF At, Way
  <2> QED
    BY <2>1, <2>2 DEF At, Cared
<1>4. CASE mission'[m].resolved = mission[m].resolved /\ mission'[m].type = mission[m].type
  <2>1. CASE ~mission[m].resolved /\ mission[m].type = "DEPLOYED"
    BY <1>4, <2>1 DEF Cared
  <2>2. CASE ~mission[m].resolved /\ mission[m].task # "none"
    <3>1. mission'[m].task # "none"
      <4> SUFFICES ASSUME mission'[m].task = "none" PROVE FALSE
        OBVIOUS
      <4>1. At(x, "closing") /\ x \in Worker /\ m = cur[x]
        BY <1>1, <2>2 DEF Rowwise
      <4> QED
        BY <2>2, <4>1 DEF At, Inv, IsOver, Over
    <3> QED
      BY <1>4, <2>2, <3>1 DEF Cared
  <2>3. ASSUME NEW y \in Process, pc[y] \in {"insert", "repoint"}, cur[y] = m
        PROVE  Cared(m)'
    <3>1. CASE pc'[y] \in {"insert", "repoint"} /\ cur'[y] = m
      BY <3>1 DEF Cared
    <3>2. CASE pc[y] = "repoint" /\ pc'[y] = "schedule" /\ x = y
      BY <1>1, <2>3, <3>2 DEF Settled, At
    <3> QED
      BY <1>2, <2>3, <3>1, <3>2 DEF Way
  <2>4. ASSUME NEW y \in Process, pc[y] = "schedule", back[y] = m
        PROVE  Cared(m)'
    <3>1. CASE pc'[y] = "schedule" /\ back'[y] = m
      BY <3>1 DEF Cared
    <3>2. CASE pc'[y] \in {"unlock", "closing"} /\ x = y
      <4>1. mission'[m].task # "none"
        BY <1>1, <2>4, <3>2 DEF Settled, At
      <4>2. ~mission[m].resolved
        BY <2>4 DEF Inv, IsOwn, Returning
      <4> QED
        BY <1>4, <4>1, <4>2 DEF Cared
    <3> QED
      BY <1>2, <2>4, <3>1, <3>2 DEF Way
  <2> QED
    BY <2>1, <2>2, <2>3, <2>4 DEF NoStrandedUnits
<1> QED
  BY <1>3, <1>4

(* Whatever else fails, crashes, stalls or is conquered, units under a     *)
(* mission have a future: it is stationed, it will run, or a process is on *)
(* the way of sending them home.                                           *)
THEOREM SpecNoStrandedUnits ==
    ASSUME "cut" \notin Faults
    PROVE  Spec => []NoStrandedUnits
<1>1. Init => NoStrandedUnits
  BY DEF Init, NoStrandedUnits, MissionId
<1>2. Inv /\ NoStrandedUnits /\ [Next]_vars => NoStrandedUnits'
  <2> SUFFICES ASSUME Inv, NoStrandedUnits, [Next]_vars,
                      NEW m \in MissionId', Aboard(m)' # {}
               PROVE  Cared(m)'
    BY DEF NoStrandedUnits, Cared
  <2>1. PICK x \in Process \cup {Nobody} : Step(x)
    BY NextIsStep
  <2>2. Typed /\ Tablewise(x) /\ Rowwise(x) /\ Stackwise(x)
    BY <2>1 DEF Inv, Step, Tablewise
  <2>3. m # 0
    BY <2>2, RowsNext
  <2>4. PICK s \in StackId' : stack'[s].count > 0 /\ stack'[s].mission = m
    BY DEF Aboard, Live
  <2>5. CASE s \in Aboard(m)
    <3>1. m \in MissionId
      BY <2>2, <2>3, <2>5 DEF Aboard, Typed, RowsTyped
    <3> QED
      BY <2>1, <2>5, <3>1, StillCared
  <2>6. CASE mission'[m].type = "DEPLOYED" /\ ~mission'[m].resolved
    BY <2>6 DEF Cared
  <2>7. CASE m \notin MissionId /\ mission'[m].task # "none"
    <3>1. ~mission'[m].resolved
      BY <2>2, <2>7 DEF Rowwise, Fresh
    <3> QED
      BY <2>7, <3>1 DEF Cared
  <2>8. CASE At(x, "repoint") /\ m = back[x]
    <3>1. Way(x, x)
      BY <2>1, <2>8, OnTheWay DEF At
    <3>2. pc'[x] = "schedule" /\ back'[x] = m
      BY <2>8, <3>1 DEF Way, At
    <3> QED
      BY <2>8, <3>2 DEF Cared, At
  <2> QED
    BY <2>2, <2>3, <2>4, <2>5, <2>6, <2>7, <2>8 DEF Stackwise
<1> QED
  BY <1>1, <1>2, SpecInv, PTL DEF Spec

(* What was cancelled carries no unit, or the client that cancelled it,    *)
(* which still holds the locks, is about to send the units home; and no    *)
(* worker that runs it has read a unit.                                    *)
IsCancelled ==
    \A m \in MissionId : mission[m].cancelled =>
        /\ mission[m].type # "RETURN_MISSION"
        /\ \A w \in Worker : pc[w] = "running" /\ cur[w] = m => snap[w].units = {}
        /\ \/ mission[m].type \in {"DEPLOYED", "deleted"}
           \/ Aboard(m) = {}
           \/ \E c \in Client : pc[c] \in {"insert", "repoint"} /\ cur[c] = m

(* A mission that is cancelled now is run by no worker.                    *)
LEMMA NewlyCancelled ==
    ASSUME Inv, "cut" \notin Faults, [Next]_vars, NEW x, Step(x), NEW m \in MissionId,
           ~mission[m].cancelled, mission'[m].cancelled
    PROVE  /\ mission'[m].type # "RETURN_MISSION"
           /\ \A w \in Worker : ~(pc'[w] = "running" /\ cur'[w] = m)
           /\ \E c \in Client : pc'[c] \in {"insert", "repoint"} /\ cur'[c] = m
<1>1. x \in Client /\ At(x, "resolve") /\ m = cur[x] /\ pc'[x] = "insert" /\ Later(mission[m], mission'[m])
  BY DEF Step, Tablewise, Rowwise
<1>2. Client \subseteq Process /\ Worker \subseteq Process /\ m # 0
  BY Tables DEF Process, Inv, Typed
<1>3. mission'[m].type # "RETURN_MISSION"
  BY <1>1, <1>2 DEF Inv, Kinds, Later
<1>4. cur'[x] = m
  BY <1>1, <1>2, OnTheWay DEF Way, At
<1>5. ASSUME NEW w \in Worker, pc'[w] = "running", cur'[w] = m
      PROVE  FALSE
  <2>1. w # x /\ w \in Process
    BY <1>1, <1>2, ProcessAssumption
  <2>2. pc[w] = "running" /\ cur[w] = m
    BY <1>5, <2>1 DEF Step, Processwise, Alone
  <2>3. lock[mission[m].src] = w /\ lock[mission[m].src] = x
    BY <1>1, <1>2, <2>1, <2>2 DEF At, Inv, IsLocked, Holds
  <2> QED
    BY <2>1, <2>3
<1> QED
  BY <1>1, <1>3, <1>4, <1>5

(* A worker that begins to run a cancelled mission finds nothing to read:  *)
(* as long as there are units, the client holds the lock.                  *)
LEMMA CancelledIsEmpty ==
    ASSUME Inv, IsCancelled, NEW x, Step(x), NEW m \in MissionId, mission[m].cancelled,
           NEW w \in Worker, pc'[w] = "running", cur'[w] = m
    PROVE  snap'[w].units = {}
<1>1. w \in Process /\ Client \subseteq Process /\ m # 0 /\ mission[m].src \in Planet
  BY Tables DEF Process, Inv, Typed, Missions
<1>2. CASE w # x
  <2>1. pc[w] = "running" /\ cur[w] = m /\ snap'[w] = snap[w]
    BY <1>1, <1>2 DEF Step, Processwise, Alone
  <2> QED
    BY <2>1 DEF IsCancelled
<1>3. CASE w = x
  <2>1. Path(w)
    BY <1>1, <1>3 DEF Step, Processwise
  <2>2. pc[w] = "locking" /\ cur[w] = m /\ Takes(w) /\ snap'[w].units = Aboard(m)
    BY <1>1, <2>1 DEF Path, Stands
  <2>3. mission[m].type \notin {"DEPLOYED", "deleted"}
    BY <1>1, <2>2 DEF Inv, Kinds, OnDuty
  <2>4. lock[mission[m].src] = Nobody
    BY <1>1, <2>2 DEF Inv, IsLocked, Takes
  <2>5. ASSUME NEW c \in Client, pc[c] \in {"insert", "repoint"}, cur[c] = m
        PROVE  FALSE
    <3>1. lock[mission[m].src] = c /\ c # Nobody
      BY <1>1, <2>5, UniverseAssumption DEF Inv, IsLocked, Holds
    <3> QED
      BY <2>4, <3>1
  <2> QED
    BY <2>2, <2>3, <2>5 DEF IsCancelled
<1> QED
  BY <1>2, <1>3

(* IsCancelled is kept.                                                    *)
LEMMA IsCancelledNext ==
    ASSUME Inv, IsCancelled, "cut" \notin Faults, [Next]_vars
    PROVE  IsCancelled'
<1>1. PICK x \in Process \cup {Nobody} : Step(x)
  BY NextIsStep
<1>2. Typed /\ Rowwise(x) /\ Stackwise(x) /\ Settled(x)
  BY <1>1 DEF Inv, Step, Tablewise
<1>3. SUFFICES ASSUME NEW m \in MissionId', mission'[m].cancelled
               PROVE  /\ mission'[m].type # "RETURN_MISSION"
                      /\ \A w \in Worker : pc'[w] = "running" /\ cur'[w] = m => snap'[w].units = {}
                      /\ \/ mission'[m].type \in {"DEPLOYED", "deleted"}
                         \/ Aboard(m)' = {}
                         \/ \E c \in Client : pc'[c] \in {"insert", "repoint"} /\ cur'[c] = m
  BY DEF IsCancelled
<1>4. m \in MissionId /\ Later(mission[m], mission'[m])
  BY <1>2, <1>3 DEF Rowwise, Fresh
<1>5. CASE ~mission[m].cancelled
  BY <1>1, <1>3, <1>4, <1>5, NewlyCancelled
<1>6. CASE mission[m].cancelled
  <2>1. mission[m].type # "RETURN_MISSION" /\ mission'[m].type # "RETURN_MISSION"
    BY <1>4, <1>6 DEF IsCancelled, Later
  <2>2. \A w \in Worker : pc'[w] = "running" /\ cur'[w] = m => snap'[w].units = {}
    BY <1>1, <1>4, <1>6, CancelledIsEmpty
  <2>3. CASE mission[m].type \in {"DEPLOYED", "deleted"}
    BY <1>4, <2>1, <2>2, <2>3 DEF Later
  <2>4. CASE Aboard(m) = {}
    <3>1. SUFFICES ASSUME NEW s \in Aboard(m)' PROVE mission'[m].type = "DEPLOYED"
      BY <2>1, <2>2
    <3>2. m # 0 /\ s \in StackId' /\ stack'[s].count > 0 /\ stack'[s].mission = m
      BY <1>2, <1>4, Tables DEF Aboard, Live, Typed
    <3>3. ~(At(x, "repoint") /\ m = back[x])
      BY <2>1 DEF At, Inv, IsOwn, Returning
    <3> QED
      BY <1>2, <1>4, <2>4, <3>2, <3>3 DEF Stackwise
  <2>5. ASSUME NEW c \in Client, pc[c] \in {"insert", "repoint"}, cur[c] = m
        PROVE  \/ Aboard(m)' = {}
               \/ pc'[c] \in {"insert", "repoint"} /\ cur'[c] = m
    <3>1. c \in Process /\ Way(x, c)
      BY <1>1, OnTheWay DEF Process
    <3>2. CASE pc[c] = "repoint" /\ pc'[c] = "schedule" /\ x = c
      BY <1>2, <1>4, <2>5, <3>1, <3>2 DEF Settled, At
    <3> QED
      BY <2>5, <3>1, <3>2 DEF Way
  <2> QED
    BY <1>4, <1>6, <2>1, <2>2, <2>3, <2>4, <2>5 DEF IsCancelled
<1> QED
  BY <1>5, <1>6

(* A mission the player cancelled has no effect any more, although its run *)
(* may have been waiting for the very locks the cancellation held.         *)
THEOREM SpecCancelHolds ==
    ASSUME "cut" \notin Faults
    PROVE  Spec => CancelHolds
<1>1. Init => IsCancelled
  BY DEF Init, IsCancelled, MissionId
<1>2. Inv /\ IsCancelled /\ [Next]_vars => IsCancelled'
  BY IsCancelledNext
<1>3. Inv /\ IsCancelled /\ [Next]_vars =>
          [\A m \in MissionId : mission[m].cancelled => mission'[m].acted = mission[m].acted]_vars
  <2> SUFFICES ASSUME Inv, IsCancelled, [Next]_vars, NEW m \in MissionId,
                      mission[m].cancelled, mission'[m].acted # mission[m].acted
               PROVE  FALSE
    OBVIOUS
  <2>1. PICK x \in Process \cup {Nobody} : Step(x)
    BY NextIsStep
  <2>2. /\ x \in Worker /\ At(x, "running") /\ m = cur[x]
        /\ mission[m].type = "RETURN_MISSION" \/ snap[x].units # {}
    BY <2>1 DEF Step, Tablewise, Rowwise
  <2> QED
    BY <2>2 DEF At, IsCancelled
<1> QED
  BY <1>1, <1>2, <1>3, SpecInv, PTL DEF Spec, CancelHolds
================================================================================
