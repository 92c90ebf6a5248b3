-------------------------------- MODULE SyncProofs --------------------------------
(***************************************************************************)
(* Proofs about Sync, for any players, planets, workers, orders, browsers  *)
(* and bounds, and any tables to start with that satisfy its assumptions.  *)
(***************************************************************************)
EXTENDS Sync, FiniteSetTheorems, SequenceTheorems, TLAPS

(* What a sequence has.                                                    *)
In(x, s) == \E i \in DOMAIN s : s[i] = x

(* A sequence of one item has that item only.                              *)
LEMMA InOne == ASSUME NEW S, NEW x \in S PROVE <<x>> \in Seq(S) /\ \A y : In(y, <<x>>) <=> y = x
  BY DEF In

(* A concatenation has what its parts have.                                *)
LEMMA InConcat ==
    ASSUME NEW S, NEW s \in Seq(S), NEW t \in Seq(S)
    PROVE  s \o t \in Seq(S) /\ \A x : In(x, s \o t) <=> In(x, s) \/ In(x, t)
<1>1. /\ s \o t \in Seq(S) /\ Len(s \o t) = Len(s) + Len(t)
      /\ \A i \in 1 .. Len(s) + Len(t) : (s \o t)[i] = IF i <= Len(s) THEN s[i] ELSE t[i - Len(s)]
      /\ Len(s) \in Nat /\ Len(t) \in Nat
      /\ DOMAIN s = 1 .. Len(s) /\ DOMAIN t = 1 .. Len(t) /\ DOMAIN (s \o t) = 1 .. Len(s) + Len(t)
  BY ConcatProperties, LenProperties
<1>2. ASSUME NEW i \in DOMAIN s PROVE i \in DOMAIN (s \o t) /\ (s \o t)[i] = s[i]
  BY <1>1
<1>3. ASSUME NEW i \in DOMAIN t PROVE i + Len(s) \in DOMAIN (s \o t) /\ (s \o t)[i + Len(s)] = t[i]
  <2>1. /\ i + Len(s) \in 1 .. Len(s) + Len(t) /\ ~(i + Len(s) <= Len(s)) /\ i + Len(s) - Len(s) = i
    BY <1>1
  <2> QED
    BY <1>1, <2>1
<1>4. ASSUME NEW i \in DOMAIN (s \o t)
      PROVE  \/ i \in DOMAIN s /\ (s \o t)[i] = s[i]
             \/ i - Len(s) \in DOMAIN t /\ (s \o t)[i] = t[i - Len(s)]
  <2>1. CASE i <= Len(s)
    BY <1>1, <2>1
  <2>2. CASE ~(i <= Len(s))
    <3>1. i - Len(s) \in 1 .. Len(t)
      BY <1>1, <2>2
    <3> QED
      BY <1>1, <2>2, <3>1
  <2> QED
    BY <2>1, <2>2
<1>5. \A x : In(x, s) => In(x, s \o t)
  BY <1>2 DEF In
<1>6. \A x : In(x, t) => In(x, s \o t)
  BY <1>3 DEF In
<1>7. \A x : In(x, s \o t) => In(x, s) \/ In(x, t)
  BY <1>4 DEF In
<1> QED
  BY <1>1, <1>5, <1>6, <1>7

(* The sequence of a finite set has its elements.                          *)
LEMMA InSet ==
    ASSUME NEW S, NEW T \in SUBSET S, IsFiniteSet(T)
    PROVE  SetToSeq(T) \in Seq(S) /\ \A x : In(x, SetToSeq(T)) <=> x \in T
<1> DEFINE n == Cardinality(T)
           s == SetToSeq(T)
<1>1. n \in Nat /\ ExistsBijection(1 .. n, T)
  BY FS_CardinalityType
<1>2. PICK b \in Bijection(1 .. n, T) : TRUE
  BY <1>1 DEF ExistsBijection
<1>3. b \in [1 .. n -> T] /\ IsInjective(b)
  BY <1>2 DEF Bijection, Injection
<1>4. s \in [1 .. n -> T] /\ IsInjective(s)
  BY <1>3 DEF SetToSeq
<1> HIDE DEF s
<1>5. DOMAIN s = 1 .. n
  BY <1>4
<1> DEFINE R == {s[i] : i \in 1 .. n}
<1>6. R \subseteq T
  BY <1>4
<1>7. s \in Bijection(1 .. n, R)
  <2>1. s \in [1 .. n -> R]
    BY <1>4
  <2>2. s \in Injection(1 .. n, R) /\ s \in Surjection(1 .. n, R)
    BY <1>4, <2>1 DEF Injection, Surjection
  <2> QED
    BY <2>2 DEF Bijection
<1>8. IsFiniteSet(1 .. n) /\ Cardinality(1 .. n) = n
  BY <1>1, FS_Interval
<1>9. Cardinality(R) = n
  BY <1>7, <1>8, FS_Bijection DEF ExistsBijection
<1>10. R = T
  BY <1>6, <1>9, FS_Subset
<1>11. s \in Seq(S)
  BY <1>1, <1>4
<1>12. \A x : In(x, s) <=> x \in R
  BY <1>5 DEF In
<1> QED
  BY <1>10, <1>11, <1>12 DEF s

------------------------------------------------------------------------------
(* Types.                                                                  *)
Sends == {"send"} \X User \X Key
Item ==
    Sends \cup ({"local"} \X Mission)
    \cup ({"owner"} \X Planet \X (User \cup {NoUser})) \cup ({"holders"} \X Planet)

TablesTyped ==
    /\ ops \in Nat
    /\ owner \in [Planet -> User \cup {NoUser}]
    /\ listed \in [User -> SUBSET Planet] /\ explored \in [User -> SUBSET Planet]
    /\ \A m \in DOMAIN mission : m \in Int /\ m <= ops /\ mission[m] \in Mission

(* A marker is never on a planet of its owner: the units of a garrison and *)
(* those of the planet are one stack.                                      *)
NoMarkerAtHome ==
    \A m \in DOMAIN mission : mission[m].kind = "deployed" => owner[mission[m].target] # mission[m].user

JobTyped(j) ==
    /\ {"todo", "at", "token", "value"} \subseteq DOMAIN j
    /\ j.todo \in Seq(Item) /\ j.at \in {"rest", "emit", "saved", "computed"}
    /\ j.at = "rest" <=> j.todo = <<>>
    /\ j.at \in {"saved", "computed"} => j.todo[1] \in Sends /\ j.todo[1][2] \in Client

JobsTyped == DOMAIN job = Worker /\ \A w \in Worker : JobTyped(job[w])

Typed == TablesTyped /\ NoMarkerAtHome /\ JobsTyped

------------------------------------------------------------------------------
(* Whom an item of a job tells what, where owner is own and the lists of   *)
(* planets are list.                                                       *)
Reaches(x, u, k, own, list) ==
    \/ x = <<"send", u, k>>
    \/ /\ x[1] = "local"
       /\ \/ k = "unit_mission_change" /\ u = x[2].user
          \/ /\ k = "enemy_mission_change" /\ x[2].visible
             /\ u = own[x[2].target] /\ u # x[2].user
    \/ x[1] = "owner" /\ k = "enemy_mission_change" /\ u = own[x[2]] /\ u # x[3]
    \/ x[1] = "holders" /\ k = "planet_user_list_change" /\ x[2] \in list[u]

(* What is left of a job when a view is on its way, but saved.             *)
Left(j, i) == i \in DOMAIN j.todo /\ (i = 1 => j.at = "emit")

(* Some worker is still to tell u.                                         *)
ToTell(u, k) == \E w \in Worker : \E i \in DOMAIN job[w].todo :
                    Left(job[w], i) /\ Reaches(job[w].todo[i], u, k, owner, listed)

AllToTell == \A uk \in untold : \/ uk \in silent
                                \/ uk \in User \X Key /\ ToTell(uk[1], uk[2])

(* A player is told k by an operation that emits todo and says nothing of  *)
(* silence.                                                                *)
Hears(u, k, todo, silence) ==
    \/ <<u, k>> \in silence
    \/ \E x \in Item : In(x, todo) /\ Reaches(x, u, k, owner', listed')

------------------------------------------------------------------------------
(* What a change of the tables changes in the views.                       *)
Gone == DOMAIN mission \ DOMAIN mission'
Begun == DOMAIN mission' \ DOMAIN mission
OthersStay == \A m \in DOMAIN mission \cap DOMAIN mission' : mission'[m] = mission[m]

(* What the owner and the target of a mission r have to hear, where the    *)
(* planets are owned by own.                                               *)
Concerns(r, own, u, k) ==
    \/ k = "unit_mission_change" /\ r.kind \in UnitKinds /\ u = r.user
    \/ k = "unit_build_mission_change" /\ r.kind = "build" /\ u = r.user
    \/ /\ k = "enemy_mission_change" /\ r.kind \in UnitKinds /\ r.visible
       /\ u # r.user /\ u = own[r.target]

Touched(u, k) ==
    \/ \E m \in Gone : Concerns(mission[m], owner, u, k)
    \/ \E m \in Begun : Concerns(mission'[m], owner', u, k)
    \/ /\ k \in {"planet_owned_change", "enemy_mission_change"}
       /\ \E p \in Planet : owner'[p] # owner[p] /\ u \in {owner[p], owner'[p]}
    \/ /\ k = "planet_user_list_change"
       /\ \/ listed'[u] # listed[u]
          \/ \E p \in listed[u] : owner'[p] # owner[p]
    \/ /\ k \in {"planet_user_list_change", "enemy_mission_change"}
       /\ explored'[u] # explored[u]

(* A view changes only if the player is touched.                           *)
LEMMA ViewsChange ==
    ASSUME TablesTyped, TablesTyped', OthersStay, NEW u \in User, NEW k \in Key,
           Dispatch(u, k)' # Dispatch(u, k)
    PROVE  Touched(u, k)
<1> SUFFICES ASSUME ~Touched(u, k) PROVE FALSE
  OBVIOUS
<1>1. ASSUME NEW m \in DOMAIN mission, Concerns(mission[m], owner, u, k)
      PROVE  m \in DOMAIN mission' /\ mission'[m] = mission[m]
  BY <1>1 DEF Touched, Gone, OthersStay
<1>2. ASSUME NEW m \in DOMAIN mission', Concerns(mission'[m], owner', u, k)
      PROVE  m \in DOMAIN mission /\ mission'[m] = mission[m]
  BY <1>2 DEF Touched, Begun, OthersStay
<1>3. CASE k = "unit_mission_change"
  <2>1. \A m \in DOMAIN mission : mission[m].user = u /\ mission[m].kind \in UnitKinds
                                    => m \in DOMAIN mission' /\ mission'[m] = mission[m]
    BY <1>1, <1>3 DEF Concerns
  <2>2. \A m \in DOMAIN mission' : mission'[m].user = u /\ mission'[m].kind \in UnitKinds
                                    => m \in DOMAIN mission /\ mission'[m] = mission[m]
    BY <1>2, <1>3 DEF Concerns
  <2>3. UnitMissions(u)' = UnitMissions(u)
    BY <2>1, <2>2 DEF UnitMissions, MissionsOf
  <2> QED
    BY <1>3, <2>3 DEF Dispatch
<1>4. CASE k = "unit_build_mission_change"
  <2>1. \A m \in DOMAIN mission : mission[m].user = u /\ mission[m].kind = "build"
                                    => m \in DOMAIN mission' /\ mission'[m] = mission[m]
    BY <1>1, <1>4 DEF Concerns
  <2>2. \A m \in DOMAIN mission' : mission'[m].user = u /\ mission'[m].kind = "build"
                                    => m \in DOMAIN mission /\ mission'[m] = mission[m]
    BY <1>2, <1>4 DEF Concerns
  <2>3. BuildMissions(u)' = BuildMissions(u)
    BY <2>1, <2>2 DEF BuildMissions, MissionsOf
  <2> QED
    BY <1>4, <2>3 DEF Dispatch
<1>5. CASE k = "enemy_mission_change"
  <2>1. \A p \in Planet : owner'[p] # owner[p] => u \notin {owner[p], owner'[p]}
    BY <1>5 DEF Touched
  <2>2. \A m \in DOMAIN mission : m \in Threats(u) => m \in DOMAIN mission' /\ mission'[m] = mission[m]
    BY <1>1, <1>5 DEF Concerns, Threats
  <2>3. \A m \in DOMAIN mission' : m \in Threats(u)' => m \in DOMAIN mission /\ mission'[m] = mission[m]
    BY <1>2, <1>5 DEF Concerns, Threats
  <2>4. /\ \A m \in DOMAIN mission : mission[m].target \in Planet
        /\ \A m \in DOMAIN mission' : mission'[m].target \in Planet
    BY DEF TablesTyped, Mission
  <2>5. Threats(u)' = Threats(u)
    BY <2>1, <2>2, <2>3, <2>4 DEF Threats
  <2>6. explored'[u] = explored[u]
    BY <1>5 DEF Touched
  <2>7. \A m \in Threats(u) : mission'[m] = mission[m]
    BY <2>2 DEF Threats
  <2>8. EnemyMissions(u)' = EnemyMissions(u)
    BY <2>5, <2>6, <2>7 DEF EnemyMissions, IsExplored
  <2> QED
    BY <1>5, <2>8 DEF Dispatch
<1>6. CASE k = "planet_owned_change"
  <2>1. \A p \in Planet : owner'[p] # owner[p] => u \notin {owner[p], owner'[p]}
    BY <1>6 DEF Touched
  <2>2. OwnedPlanets(u)' = OwnedPlanets(u)
    BY <2>1 DEF OwnedPlanets
  <2> QED
    BY <1>6, <2>2 DEF Dispatch
<1>7. CASE k = "planet_user_list_change"
  <2>1. listed'[u] = listed[u] /\ explored'[u] = explored[u] /\ \A p \in listed[u] : owner'[p] = owner[p]
    BY <1>7 DEF Touched
  <2>2. ListedPlanets(u)' = ListedPlanets(u)
    BY <2>1 DEF ListedPlanets, IsExplored
  <2> QED
    BY <1>7, <2>2 DEF Dispatch
<1> QED
  BY <1>3, <1>4, <1>5, <1>6, <1>7 DEF Key

------------------------------------------------------------------------------
(* What an item has.                                                       *)
LEMMA ItemShape ==
    ASSUME NEW x \in Item
    PROVE  /\ x[1] = "local" => x[2] \in Mission
           /\ x[1] = "owner" => x[2] \in Planet
           /\ x[1] = "holders" => x[2] \in Planet
           /\ x[1] = "send" => x \in Sends
<1>1. CASE x \in Sends
  BY <1>1 DEF Sends
<1>2. CASE x \in {"local"} \X Mission
  BY <1>2
<1>3. CASE x \in {"owner"} \X Planet \X (User \cup {NoUser})
  BY <1>3
<1>4. CASE x \in {"holders"} \X Planet
  BY <1>4
<1> QED
  BY <1>1, <1>2, <1>3, <1>4 DEF Item

(* Items that may be emitted.                                              *)
LEMMA Items ==
    /\ \A u \in User : /\ UnitMissionChange(u) \in Item /\ EnemyMissionChange(u) \in Item
                       /\ UnitBuildChange(u) \in Item /\ PlanetOwnedChange(u) \in Item
                       /\ PlanetUserListChange(u) \in Item
    /\ \A r \in Mission : LocalChange(r) \in Item
    /\ \A p \in Planet : HoldersChange(p) \in Item /\ \A u \in User \cup {NoUser} : OwnerChange(p, u) \in Item
  BY DEF Item, Sends, Key, UnitMissionChange, EnemyMissionChange, UnitBuildChange, PlanetOwnedChange,
         PlanetUserListChange, LocalChange, HoldersChange, OwnerChange

(* A set of players is told of a view.                                     *)
LEMMA SendsToAll ==
    ASSUME NEW U \in SUBSET User, NEW k \in Key
    PROVE  /\ SetToSeq({<<"send", u, k>> : u \in U}) \in Seq(Item)
           /\ \A x : In(x, SetToSeq({<<"send", u, k>> : u \in U})) <=> \E u \in U : x = <<"send", u, k>>
<1> DEFINE T == {<<"send", u, k>> : u \in U}
<1>1. IsFiniteSet(U)
  BY SyncAssumption, FS_Subset
<1>2. IsFiniteSet(T)
  <2> DEFINE g == [v \in U |-> <<"send", v, k>>]
  <2>1. g \in Surjection(U, T)
    BY DEF Surjection
  <2> QED
    BY <1>1, <2>1, FS_Surjection
<1>3. T \in SUBSET Item
  BY DEF Item, Sends
<1>4. SetToSeq(T) \in Seq(Item) /\ \A x : In(x, SetToSeq(T)) <=> x \in T
  BY <1>2, <1>3, InSet
<1> QED
  BY <1>4

(* Whoever was to be told of an older change still is, or is touched.      *)
LEMMA ReachesStays ==
    ASSUME TablesTyped, TablesTyped', NEW x \in Item, NEW u \in User, NEW k \in Key,
           Reaches(x, u, k, owner, listed)
    PROVE  Reaches(x, u, k, owner', listed') \/ Touched(u, k)
<1>1. CASE x = <<"send", u, k>>
  BY <1>1 DEF Reaches
<1>2. CASE x[1] = "local"
  <2>1. x[2].target \in Planet
    BY <1>2, ItemShape DEF Mission
  <2>2. CASE k = "enemy_mission_change" /\ u = owner[x[2].target] /\ owner'[x[2].target] # owner[x[2].target]
    BY <2>1, <2>2 DEF Touched
  <2>3. CASE ~(/\ k = "enemy_mission_change" /\ u = owner[x[2].target]
               /\ owner'[x[2].target] # owner[x[2].target])
    BY <1>2, <2>3 DEF Reaches
  <2> QED
    BY <2>2, <2>3
<1>3. CASE x[1] = "owner"
  <2>1. x[2] \in Planet
    BY <1>3, ItemShape
  <2>2. CASE k = "enemy_mission_change" /\ u = owner[x[2]] /\ owner'[x[2]] # owner[x[2]]
    BY <2>1, <2>2 DEF Touched
  <2>3. CASE ~(k = "enemy_mission_change" /\ u = owner[x[2]] /\ owner'[x[2]] # owner[x[2]])
    BY <1>3, <2>3 DEF Reaches
  <2> QED
    BY <2>2, <2>3
<1>4. CASE x[1] = "holders"
  <2>1. CASE listed'[u] = listed[u]
    BY <1>4, <2>1 DEF Reaches
  <2>2. CASE listed'[u] # listed[u]
    BY <1>4, <2>2 DEF Reaches, Touched
  <2> QED
    BY <2>1, <2>2
<1> QED
  BY <1>1, <1>2, <1>3, <1>4 DEF Reaches

(* The job of the worker that commits, and those of the others.            *)
LEMMA CommitJobs ==
    ASSUME JobsTyped, NEW w \in Worker, NEW todo, NEW silence, Commit(w, todo, silence)
    PROVE  /\ DOMAIN job' = Worker /\ \A v \in Worker \ {w} : job'[v] = job[v]
           /\ job'[w] = [job[w] EXCEPT !.todo = todo, !.at = IF todo = <<>> THEN "rest" ELSE "emit"]
           /\ job'[w].todo = todo /\ job'[w].at = IF todo = <<>> THEN "rest" ELSE "emit"
           /\ DOMAIN job'[w] = DOMAIN job[w]
<1>1. job' = [job EXCEPT ![w] = [job[w] EXCEPT !.todo = todo, !.at = IF todo = <<>> THEN "rest" ELSE "emit"]]
  BY DEF Commit
<1>2. job'[w] = [job[w] EXCEPT !.todo = todo, !.at = IF todo = <<>> THEN "rest" ELSE "emit"]
  BY <1>1 DEF JobsTyped
<1>3. {"todo", "at"} \subseteq DOMAIN job[w]
  BY DEF JobsTyped, JobTyped
<1> QED
  BY <1>1, <1>2, <1>3 DEF JobsTyped

(* A commit starts a job of items and leaves the others alone.             *)
LEMMA CommitJobsTyped ==
    ASSUME JobsTyped, NEW w \in Worker, NEW todo \in Seq(Item), NEW silence, Commit(w, todo, silence)
    PROVE  JobsTyped'
<1> DEFINE j == job'[w]
<1>1. j.todo = todo /\ j.at = (IF todo = <<>> THEN "rest" ELSE "emit") /\ DOMAIN j = DOMAIN job[w]
  BY CommitJobs
<1>2. {"todo", "at", "token", "value"} \subseteq DOMAIN job[w]
  BY DEF JobsTyped, JobTyped
<1> HIDE DEF j
<1>3. JobTyped(j)
  BY <1>1, <1>2 DEF JobTyped
<1>4. \A v \in Worker \ {w} : job'[v] = job[v]
  BY CommitJobs
<1>5. ASSUME NEW v \in Worker PROVE JobTyped(job'[v])
  <2>1. CASE v = w
    BY <1>3, <2>1 DEF j
  <2>2. CASE v # w
    BY <1>4, <2>2 DEF JobsTyped
  <2> QED
    BY <2>1, <2>2
<1> QED
  BY <1>5, CommitJobs DEF JobsTyped

(* An operation that tells everybody it touches, or is known not to, keeps *)
(* what others have to tell.                                               *)
LEMMA CommitTells ==
    ASSUME TablesTyped, TablesTyped', JobsTyped, AllToTell, OthersStay, NEW w \in Worker, Resting(w),
           NEW todo \in Seq(Item), NEW silence, Commit(w, todo, silence),
           \A u \in User, k \in Key : Touched(u, k) => Hears(u, k, todo, silence)
    PROVE  AllToTell'
<1>1. /\ \A v \in Worker \ {w} : job'[v] = job[v]
      /\ job'[w].todo = todo /\ job'[w].at = IF todo = <<>> THEN "rest" ELSE "emit"
  BY CommitJobs
<1>2. silent' = silent \cup silence
  BY DEF Commit
<1>3. ASSUME NEW u \in User, NEW k \in Key, Hears(u, k, todo, silence)
      PROVE  <<u, k>> \in silent' \/ ToTell(u, k)'
  <2>1. CASE <<u, k>> \in silence
    BY <1>2, <2>1
  <2>2. ASSUME NEW x \in Item, In(x, todo), Reaches(x, u, k, owner', listed')
        PROVE  ToTell(u, k)'
    <3>1. PICK i \in DOMAIN todo : todo[i] = x
      BY <2>2 DEF In
    <3>2. todo # <<>>
      BY <3>1
    <3>3. i \in DOMAIN job'[w].todo /\ Left(job'[w], i) /\ job'[w].todo[i] = x
      BY <1>1, <3>1, <3>2 DEF Left
    <3> QED
      BY <2>2, <3>3 DEF ToTell
  <2> QED
    BY <1>3, <2>1, <2>2 DEF Hears
<1>4. ASSUME NEW u \in User, NEW k \in Key, ToTell(u, k) PROVE <<u, k>> \in silent' \/ ToTell(u, k)'
  <2>1. PICK v \in Worker : \E i \in DOMAIN job[v].todo :
                Left(job[v], i) /\ Reaches(job[v].todo[i], u, k, owner, listed)
    BY <1>4 DEF ToTell
  <2>2. PICK i \in DOMAIN job[v].todo : Left(job[v], i) /\ Reaches(job[v].todo[i], u, k, owner, listed)
    BY <2>1
  <2>3. v # w
    BY <2>2 DEF Resting, JobsTyped, JobTyped
  <2>4. job[v].todo[i] \in Item
    BY <2>2, ElementOfSeq, LenProperties DEF JobsTyped, JobTyped
  <2>5. CASE Touched(u, k)
    BY <1>3, <2>5
  <2>6. CASE Reaches(job[v].todo[i], u, k, owner', listed')
    BY <1>1, <2>2, <2>3, <2>6 DEF ToTell
  <2> QED
    BY <2>2, <2>4, <2>5, <2>6, ReachesStays
<1>5. ASSUME NEW uk \in untold' PROVE uk \in silent' \/ (uk \in User \X Key /\ ToTell(uk[1], uk[2])')
  <2>1. CASE uk \in untold
    <3>1. CASE uk \in silent
      BY <1>2, <3>1
    <3>2. CASE uk \in User \X Key /\ ToTell(uk[1], uk[2])
      <4>1. PICK u \in User, k \in Key : uk = <<u, k>>
        BY <3>2
      <4> QED
        BY <1>4, <3>2, <4>1
    <3> QED
      BY <2>1, <3>1, <3>2 DEF AllToTell
  <2>2. CASE uk \in User \X Key /\ Dispatch(uk[1], uk[2])' # Dispatch(uk[1], uk[2])
    <3>1. PICK u \in User, k \in Key : uk = <<u, k>>
      BY <2>2
    <3>2. Dispatch(u, k)' # Dispatch(u, k)
      BY <2>2, <3>1
    <3>3. Hears(u, k, todo, silence)
      BY <3>2, ViewsChange
    <3> QED
      BY <1>3, <3>1, <3>3
  <2> QED
    BY <1>5, <2>1, <2>2 DEF Commit
<1> QED
  BY <1>5 DEF AllToTell

------------------------------------------------------------------------------
(* An operation: the tables stay typed, and whom it touches hears of it.   *)
Operates(w) ==
    \E todo \in Seq(Item) : \E silence :
        /\ Commit(w, todo, silence)
        /\ \A u \in User, k \in Key : Touched(u, k) => Hears(u, k, todo, silence)

Operated(w) == TablesTyped' /\ NoMarkerAtHome' /\ OthersStay /\ Operates(w)

(* The ways to hear of it.                                                 *)
LEMMA SendTells ==
    ASSUME NEW u \in User, NEW k \in Key, NEW todo, NEW silence, In(<<"send", u, k>>, todo)
    PROVE  Hears(u, k, todo, silence)
<1>1. <<"send", u, k>> \in Item
  BY DEF Item, Sends
<1> QED
  BY <1>1 DEF Hears, Reaches

(* Who a mission concerns hears of it from the item of the mission.        *)
LEMMA LocalTells ==
    ASSUME NEW r \in Mission, r.kind \in UnitKinds, NEW u \in User, NEW k \in Key, NEW todo, NEW silence,
           In(LocalChange(r), todo), Concerns(r, owner', u, k)
    PROVE  Hears(u, k, todo, silence)
<1>1. LocalChange(r) \in Item
  BY Items
<1>2. r.kind # "build"
  BY DEF UnitKinds
<1>3. Reaches(LocalChange(r), u, k, owner', listed')
  BY <1>2 DEF Concerns, Reaches, LocalChange
<1> QED
  BY <1>1, <1>3 DEF Hears

(* The owner of a planet hears of its enemies from the item of the planet. *)
LEMMA OwnerTells ==
    ASSUME NEW p \in Planet, NEW v \in User \cup {NoUser}, NEW u, u = owner'[p], u # v,
           NEW todo, NEW silence, In(OwnerChange(p, v), todo)
    PROVE  Hears(u, "enemy_mission_change", todo, silence)
<1>1. OwnerChange(p, v) \in Item
  BY Items
<1>2. Reaches(OwnerChange(p, v), u, "enemy_mission_change", owner', listed')
  BY DEF Reaches, OwnerChange
<1> QED
  BY <1>1, <1>2 DEF Hears

(* The holders of a planet in a list hear of it from the item of the       *)
(* planet.                                                                 *)
LEMMA HoldersTells ==
    ASSUME NEW p \in Planet, NEW u, p \in listed'[u], NEW todo, NEW silence, In(HoldersChange(p), todo)
    PROVE  Hears(u, "planet_user_list_change", todo, silence)
<1>1. HoldersChange(p) \in Item
  BY Items
<1>2. Reaches(HoldersChange(p), u, "planet_user_list_change", owner', listed')
  BY DEF Reaches, HoldersChange
<1> QED
  BY <1>1, <1>2 DEF Hears

(* What the code does not announce counts as told.                         *)
LEMMA SilenceTells ==
    ASSUME NEW u, NEW k, NEW todo, NEW silence, <<u, k>> \in silence
    PROVE  Hears(u, k, todo, silence)
  BY DEF Hears

(* What becomes of the missions.                                           *)
LEMMA Ended ==
    ASSUME TablesTyped, NEW S, mission' = Without(S)
    PROVE  /\ OthersStay /\ Begun = {} /\ Gone \subseteq S /\ Gone \subseteq DOMAIN mission
           /\ DOMAIN mission' = DOMAIN mission \ S
           /\ \A m \in DOMAIN mission' : mission'[m] = mission[m]
  BY DEF Without, OthersStay, Begun, Gone

(* Missions end, and one begins with the next id.                          *)
LEMMA Replaced ==
    ASSUME TablesTyped, NEW S, NEW r, mission' = Instead(S, r)
    PROVE  /\ OthersStay /\ Begun = {NewId} /\ Gone \subseteq S /\ Gone \subseteq DOMAIN mission
           /\ mission'[NewId] = r /\ DOMAIN mission' = (DOMAIN mission \ S) \cup {NewId}
           /\ \A m \in DOMAIN mission \ S : mission'[m] = mission[m]
<1>1. NewId \notin DOMAIN mission
  BY DEF TablesTyped, NewId
<1>2. /\ DOMAIN mission' = (DOMAIN mission \ S) \cup {NewId} /\ mission'[NewId] = r
      /\ \A m \in DOMAIN mission \ S : m # NewId => mission'[m] = mission[m]
  BY DEF Instead, Put, Without
<1> QED
  BY <1>1, <1>2 DEF OthersStay, Begun, Gone

(* Tables in which missions end and one begins, maybe.                     *)
LEMMA TablesStayTyped ==
    ASSUME TablesTyped, ops' = ops + 1,
           owner' \in [Planet -> User \cup {NoUser}],
           listed' \in [User -> SUBSET Planet], explored' \in [User -> SUBSET Planet],
           \A m \in DOMAIN mission' : \/ m \in DOMAIN mission /\ mission'[m] = mission[m]
                                      \/ m = NewId /\ mission'[m] \in Mission
    PROVE  TablesTyped'
<1>1. ops \in Nat /\ ops' \in Nat
  BY DEF TablesTyped
<1>2. \A m \in DOMAIN mission' : m \in Int /\ m <= ops' /\ mission'[m] \in Mission
  BY <1>1 DEF TablesTyped, NewId
<1> QED
  BY <1>1, <1>2 DEF TablesTyped

(* The tables keep their shape when missions end.                          *)
LEMMA EndedTyped ==
    ASSUME TablesTyped, NoMarkerAtHome, ops' = ops + 1, NEW S, mission' = Without(S),
           UNCHANGED owner, listed' \in [User -> SUBSET Planet], explored' \in [User -> SUBSET Planet]
    PROVE  TablesTyped' /\ NoMarkerAtHome'
<1>1. TablesTyped'
  BY Ended, TablesStayTyped DEF TablesTyped
<1>2. NoMarkerAtHome'
  BY Ended DEF NoMarkerAtHome
<1> QED
  BY <1>1, <1>2

(* The tables keep their shape when a mission takes the place of others.   *)
LEMMA ReplacedTyped ==
    ASSUME TablesTyped, NoMarkerAtHome, ops' = ops + 1, NEW S, NEW r \in Mission, mission' = Instead(S, r),
           r.kind = "deployed" => owner[r.target] # r.user,
           UNCHANGED owner, listed' \in [User -> SUBSET Planet], explored' \in [User -> SUBSET Planet]
    PROVE  TablesTyped' /\ NoMarkerAtHome'
<1>0. /\ mission'[NewId] = r /\ DOMAIN mission' = (DOMAIN mission \ S) \cup {NewId}
      /\ \A m \in DOMAIN mission \ S : mission'[m] = mission[m]
      /\ owner' = owner /\ owner \in [Planet -> User \cup {NoUser}]
  BY Replaced DEF TablesTyped
<1>1. TablesTyped'
  BY <1>0, TablesStayTyped
<1>2. NoMarkerAtHome'
  BY <1>0 DEF NoMarkerAtHome
<1> QED
  BY <1>1, <1>2

------------------------------------------------------------------------------
(* The operations without a fight, one lemma each.                         *)
LEMMA MissionRow ==
    ASSUME TablesTyped, NEW m \in DOMAIN mission
    PROVE  /\ mission[m] \in Mission /\ mission[m].user \in User /\ mission[m].target \in Planet
           /\ mission[m].source \in Planet
           /\ \A kind \in UnitKinds : Leg(mission[m], kind) \in Mission
           /\ \A kind : /\ Leg(mission[m], kind).user = mission[m].user
                        /\ Leg(mission[m], kind).target = mission[m].target
                        /\ Leg(mission[m], kind).visible = mission[m].visible
                        /\ Leg(mission[m], kind).kind = kind
  BY DEF TablesTyped, Mission, Leg

(* A fleet leaves: the mission that begins and the garrisons it empties are *)
(* told.                                                                   *)
LEMMA RegisterMissionTells ==
    ASSUME Typed, NEW w \in Worker, NEW u \in User, NEW p \in Planet, NEW q \in Planet,
           NEW visible \in BOOLEAN, RegisterMission(w, u, p, q, visible)
    PROVE  Operated(w)
<1> DEFINE trip == [user |-> u, kind |-> "trip", source |-> p, target |-> q, visible |-> visible]
           stationed == {m \in MissionsOf(u, {"deployed"}) : mission[m].target = p}
<1>1. trip \in Mission /\ trip.kind \in UnitKinds /\ trip.kind # "deployed" /\ trip.user = u
  BY DEF Mission, UnitKinds
<1>2. PICK todo, emptied : /\ todo = <<LocalChange(trip), OwnerChange(p, u)>>
                           /\ emptied \subseteq stationed /\ mission' = Instead(emptied, trip)
  BY DEF RegisterMission
<1>3. Commit(w, todo, {}) /\ UNCHANGED <<owner, listed, explored>> /\ ops' = ops + 1
  BY <1>2 DEF RegisterMission, Commit
<1> HIDE DEF trip
<1>4. /\ OthersStay /\ Begun = {NewId} /\ mission'[NewId] = trip
      /\ Gone \subseteq emptied /\ Gone \subseteq DOMAIN mission
  BY <1>2, Replaced DEF Typed
<1>5. TablesTyped' /\ NoMarkerAtHome'
  BY <1>1, <1>2, <1>3, ReplacedTyped DEF Typed, TablesTyped
<1>6. todo \in Seq(Item) /\ In(LocalChange(trip), todo) /\ In(OwnerChange(p, u), todo)
  <2>1. LocalChange(trip) \in Item /\ OwnerChange(p, u) \in Item
    BY <1>1, Items
  <2> QED
    BY <1>2, <2>1 DEF In
<1>7. ASSUME NEW v \in User, NEW k \in Key, Touched(v, k) PROVE Hears(v, k, todo, {})
  <2>1. CASE \E m \in Gone : Concerns(mission[m], owner, v, k)
    <3>1. PICK m \in Gone : Concerns(mission[m], owner, v, k)
      BY <2>1
    <3>2. mission[m].user = u /\ mission[m].kind = "deployed" /\ mission[m].target = p
      BY <1>2, <1>4 DEF MissionsOf
    <3>3. CASE k = "unit_mission_change" /\ v = u
      <4>1. Concerns(trip, owner', v, k)
        BY <1>1, <3>3 DEF Concerns
      <4> QED
        BY <1>1, <1>6, <4>1, LocalTells
    <3>4. CASE k = "enemy_mission_change" /\ v # u /\ v = owner[p]
      BY <1>3, <1>6, <3>4, OwnerTells
    <3> QED
      BY <3>1, <3>2, <3>3, <3>4 DEF Concerns
  <2>2. CASE \E m \in Begun : Concerns(mission'[m], owner', v, k)
    <3>1. Concerns(trip, owner', v, k)
      BY <1>4, <2>2
    <3> QED
      BY <1>1, <1>6, <3>1, LocalTells
  <2> QED
    BY <1>3, <1>7, <2>1, <2>2 DEF Touched
<1> QED
  BY <1>3, <1>4, <1>5, <1>6, <1>7 DEF Operated, Operates

(* A fleet is called back: its owner is told, an enemy is known not to be. *)
LEMMA CancelMissionTells ==
    ASSUME Typed, NEW w \in Worker, NEW m \in DOMAIN mission, CancelMission(w, m)
    PROVE  Operated(w)
<1>1. PICK r, back : r = mission[m] /\ back = Leg(r, "return")
  OBVIOUS
<1>2. /\ r \in Mission /\ r.user \in User /\ r.kind \in {"trip", "deployed"} /\ back \in Mission
      /\ back.user = r.user /\ back.target = r.target /\ back.visible = r.visible /\ back.kind = "return"
  BY <1>1, MissionRow DEF CancelMission, UnitKinds, Typed
<1>3. PICK todo, silence :
          /\ todo = <<UnitMissionChange(r.user)>> /\ Commit(w, todo, silence)
          /\ silence = {<<v, "enemy_mission_change">> :
                            v \in IF r.visible THEN Enemy(r.user, r.target) ELSE {}}
  BY <1>1 DEF CancelMission
<1>4. mission' = Instead({m}, back) /\ UNCHANGED <<owner, listed, explored>> /\ ops' = ops + 1
  BY <1>1, <1>3 DEF CancelMission, Commit
<1>5. OthersStay /\ Begun = {NewId} /\ mission'[NewId] = back /\ Gone \subseteq {m}
  BY <1>4, Replaced DEF Typed
<1>6. TablesTyped' /\ NoMarkerAtHome'
  BY <1>2, <1>4, ReplacedTyped DEF Typed, TablesTyped
<1>7. todo \in Seq(Item) /\ In(UnitMissionChange(r.user), todo)
  <2>1. UnitMissionChange(r.user) \in Item
    BY <1>2, Items
  <2> QED
    BY <1>3, <2>1, InOne
<1>8. ASSUME NEW v \in User, NEW k \in Key, Concerns(r, owner, v, k) \/ Concerns(back, owner, v, k)
      PROVE  Hears(v, k, todo, silence)
  <2>1. CASE k = "unit_mission_change" /\ v = r.user
    BY <1>7, <2>1, SendTells DEF UnitMissionChange
  <2>2. CASE k = "enemy_mission_change" /\ r.visible /\ v # r.user /\ v = owner[r.target]
    <3>1. v # NoUser
      BY SyncAssumption
    <3>2. <<v, k>> \in silence
      BY <1>3, <2>2, <3>1 DEF Enemy
    <3> QED
      BY <3>2, SilenceTells
  <2> QED
    BY <1>2, <1>8, <2>1, <2>2 DEF Concerns
<1>9. ASSUME NEW v \in User, NEW k \in Key, Touched(v, k) PROVE Hears(v, k, todo, silence)
  BY <1>1, <1>4, <1>5, <1>8, <1>9 DEF Touched
<1> QED
  BY <1>3, <1>5, <1>6, <1>7, <1>9 DEF Operated, Operates

(* What a player has explored shows more, and nobody says so.              *)
LEMMA ExploreTells ==
    ASSUME Typed, NEW w \in Worker, NEW m \in DOMAIN mission, Explore(w, m)
    PROVE  Operated(w)
<1>1. PICK r, back : r = mission[m] /\ back = Leg(r, "return")
  OBVIOUS
<1>2. /\ r.user \in User /\ r.kind = "trip" /\ back \in Mission /\ r.target \in Planet
      /\ back.user = r.user /\ back.target = r.target /\ back.visible = r.visible /\ back.kind = "return"
  BY <1>1, MissionRow DEF Explore, UnitKinds, Typed
<1>3. PICK todo, silence :
          /\ todo = <<LocalChange(back)>> /\ Commit(w, todo, silence)
          /\ silence = {<<r.user, k>> : k \in {"planet_user_list_change", "enemy_mission_change"}}
  BY <1>1 DEF Explore
<1>4. /\ mission' = Instead({m}, back) /\ UNCHANGED <<owner, listed>> /\ ops' = ops + 1
      /\ explored' = [explored EXCEPT ![r.user] = @ \cup {r.target}]
  BY <1>1, <1>3 DEF Explore, Commit
<1>5. explored' \in [User -> SUBSET Planet] /\ \A v \in User : v # r.user => explored'[v] = explored[v]
  BY <1>2, <1>4 DEF Typed, TablesTyped
<1>6. OthersStay /\ Begun = {NewId} /\ mission'[NewId] = back /\ Gone \subseteq {m}
  BY <1>4, Replaced DEF Typed
<1>7. TablesTyped' /\ NoMarkerAtHome'
  BY <1>2, <1>4, <1>5, ReplacedTyped DEF Typed, TablesTyped
<1>8. todo \in Seq(Item) /\ In(LocalChange(back), todo)
  <2>1. LocalChange(back) \in Item
    BY <1>2, Items
  <2> QED
    BY <1>3, <2>1, InOne
<1>9. ASSUME NEW v \in User, NEW k \in Key, Concerns(r, owner, v, k) \/ Concerns(back, owner', v, k)
      PROVE  Hears(v, k, todo, silence)
  <2>1. Concerns(back, owner', v, k)
    BY <1>2, <1>4, <1>9 DEF Concerns, UnitKinds
  <2> QED
    BY <1>2, <1>8, <2>1, LocalTells DEF UnitKinds
<1>10. ASSUME NEW v \in User, NEW k \in {"planet_user_list_change", "enemy_mission_change"},
              explored'[v] # explored[v]
       PROVE  Hears(v, k, todo, silence)
  BY <1>3, <1>5, <1>10, SilenceTells
<1>11. ASSUME NEW v \in User, NEW k \in Key, Touched(v, k) PROVE Hears(v, k, todo, silence)
  BY <1>1, <1>4, <1>6, <1>9, <1>10, <1>11 DEF Touched
<1> QED
  BY <1>3, <1>6, <1>7, <1>8, <1>11 DEF Operated, Operates

(* A fleet is stationed: the row read after the run tells whom it told     *)
(* before.                                                                 *)
LEMMA DeployTells ==
    ASSUME Typed, NEW w \in Worker, NEW m \in DOMAIN mission, Deploy(w, m)
    PROVE  Operated(w)
<1>1. PICK r, marker : r = mission[m] /\ marker = [Leg(r, "deployed") EXCEPT !.visible = TRUE]
  OBVIOUS
<1>2. /\ r \in Mission /\ r.user \in User /\ r.kind = "trip" /\ r.target \in Planet
      /\ marker \in Mission /\ marker.user = r.user /\ marker.target = r.target /\ marker.kind = "deployed"
  BY <1>1 DEF Deploy, UnitKinds, Typed, TablesTyped, Mission, Leg
<1>3. PICK todo, silence :
          /\ todo = <<LocalChange(r)>> /\ Commit(w, todo, silence)
          /\ silence = {<<v, "enemy_mission_change">> :
                            v \in IF r.visible THEN {} ELSE Enemy(r.user, r.target)}
  BY <1>1 DEF Deploy
<1>4. UNCHANGED <<owner, listed, explored>> /\ ops' = ops + 1
  BY <1>3 DEF Deploy, Commit
<1>5. \/ mission' = Instead({m}, marker) /\ owner[r.target] # r.user
      \/ mission' = Without({m})
  BY <1>1 DEF Deploy
<1>6. /\ OthersStay /\ Gone \subseteq {m} /\ Begun \subseteq {NewId}
      /\ NewId \in Begun => mission'[NewId] = marker
  BY <1>5, Replaced, Ended DEF Typed
<1>7. TablesTyped' /\ NoMarkerAtHome'
  BY <1>2, <1>4, <1>5, ReplacedTyped, EndedTyped DEF Typed, TablesTyped
<1>8. todo \in Seq(Item) /\ In(LocalChange(r), todo)
  <2>1. LocalChange(r) \in Item
    BY <1>2, Items
  <2> QED
    BY <1>3, <2>1, InOne
<1>9. ASSUME NEW v \in User, NEW k \in Key, Concerns(r, owner, v, k) \/ Concerns(marker, owner', v, k)
      PROVE  Hears(v, k, todo, silence)
  <2>1. CASE Concerns(r, owner', v, k)
    BY <1>2, <1>8, <2>1, LocalTells DEF UnitKinds
  <2>2. CASE ~Concerns(r, owner', v, k)
    <3>1. ~r.visible /\ k = "enemy_mission_change" /\ v # r.user /\ v = owner[r.target]
      BY <1>2, <1>4, <1>9, <2>2 DEF Concerns, UnitKinds
    <3>2. v # NoUser
      BY SyncAssumption
    <3>3. <<v, k>> \in silence
      BY <1>3, <3>1, <3>2 DEF Enemy
    <3> QED
      BY <3>3, SilenceTells
  <2> QED
    BY <2>1, <2>2
<1>10. ASSUME NEW v \in User, NEW k \in Key, Touched(v, k) PROVE Hears(v, k, todo, silence)
  BY <1>1, <1>4, <1>6, <1>9, <1>10 DEF Touched
<1> QED
  BY <1>3, <1>6, <1>7, <1>8, <1>10 DEF Operated, Operates

(* A mission that is over is told by its last row.                         *)
LEMMA EndMissionTells ==
    ASSUME Typed, NEW w \in Worker, NEW m \in DOMAIN mission, EndMission(w, m)
    PROVE  Operated(w)
<1>1. PICK r : r = mission[m]
  OBVIOUS
<1>2. r \in Mission /\ r.kind \in UnitKinds
  BY <1>1, MissionRow DEF EndMission, UnitKinds, Typed
<1>3. PICK todo : todo = <<LocalChange(r)>> /\ Commit(w, todo, {})
  BY <1>1 DEF EndMission
<1>4. mission' = Without({m}) /\ UNCHANGED <<owner, listed, explored>> /\ ops' = ops + 1
  BY <1>3 DEF EndMission, Commit
<1>5. OthersStay /\ Begun = {} /\ Gone \subseteq {m}
  BY <1>4, Ended DEF Typed
<1>6. TablesTyped' /\ NoMarkerAtHome'
  BY <1>4, EndedTyped DEF Typed, TablesTyped
<1>7. todo \in Seq(Item) /\ In(LocalChange(r), todo)
  <2>1. LocalChange(r) \in Item
    BY <1>2, Items
  <2> QED
    BY <1>3, <2>1, InOne
<1>8. ASSUME NEW v \in User, NEW k \in Key, Touched(v, k) PROVE Hears(v, k, todo, {})
  <2>1. Concerns(r, owner', v, k)
    BY <1>1, <1>4, <1>5, <1>8 DEF Touched
  <2> QED
    BY <1>2, <1>7, <2>1, LocalTells
<1> QED
  BY <1>3, <1>5, <1>6, <1>7, <1>8 DEF Operated, Operates

(* A retry changes no table and touches nobody.                            *)
LEMMA RetryMissionTells ==
    ASSUME Typed, NEW w \in Worker, NEW m \in DOMAIN mission, RetryMission(w, m)
    PROVE  Operated(w)
<1>1. PICK todo : /\ Commit(w, todo, {})
                  /\ \/ todo = <<UnitBuildChange(mission[m].user)>>
                     \/ todo = <<UnitMissionChange(mission[m].user),
                                  OwnerChange(mission[m].target, mission[m].user)>>
  BY DEF RetryMission
<1>2. UNCHANGED tables /\ ops' = ops + 1
  BY <1>1 DEF RetryMission, Commit
<1>3. todo \in Seq(Item)
  <2>1. mission[m].user \in User /\ mission[m].target \in Planet
    BY MissionRow DEF Typed
  <2>2. /\ UnitBuildChange(mission[m].user) \in Item /\ UnitMissionChange(mission[m].user) \in Item
        /\ OwnerChange(mission[m].target, mission[m].user) \in Item
    BY <2>1, Items
  <2>3. /\ \A x \in Item : <<x>> \in Seq(Item)
        /\ \A x, y \in Item : <<x, y>> \in Seq(Item)
    OBVIOUS
  <2> QED
    BY <1>1, <2>2, <2>3
<1>4. TablesTyped'
  BY <1>2, TablesStayTyped DEF Typed, TablesTyped, tables
<1>5. NoMarkerAtHome' /\ OthersStay
  BY <1>2 DEF Typed, NoMarkerAtHome, OthersStay, tables
<1>6. \A u \in User, k \in Key : ~Touched(u, k)
  BY <1>2 DEF Touched, Gone, Begun, tables
<1> QED
  BY <1>1, <1>3, <1>4, <1>5, <1>6 DEF Operated, Operates

(* Units expire: their owner and the enemies of the missions are told.     *)
LEMMA ExpireUnitsTells ==
    ASSUME Typed, NEW w \in Worker, NEW u \in User, ExpireUnits(w, u)
    PROVE  Operated(w)
<1>1. PICK S \in (SUBSET UnitMissions(u)) \ {{}} :
        /\ \E gone \in SUBSET S : mission' = Without(gone)
        /\ Commit(w, <<UnitMissionChange(u)>>
                     \o SetToSeq({EnemyMissionChange(v) :
                           v \in {owner[mission[m].target] : m \in S} \ {u, NoUser}}), {})
        /\ UNCHANGED <<owner, listed, explored>>
  BY DEF ExpireUnits
<1>2. PICK gone, foes, todo :
        /\ gone \in SUBSET S /\ mission' = Without(gone)
        /\ foes = {owner[mission[m].target] : m \in S} \ {u, NoUser}
        /\ todo = <<UnitMissionChange(u)>> \o SetToSeq({EnemyMissionChange(v) : v \in foes})
  BY <1>1
<1>3. Commit(w, todo, {}) /\ ops' = ops + 1
  BY <1>1, <1>2 DEF Commit
<1>4. \A m \in S : m \in DOMAIN mission /\ mission[m].user = u /\ mission[m].target \in Planet
  BY MissionRow DEF UnitMissions, MissionsOf, Typed
<1>5. foes \subseteq User
  BY <1>2, <1>4 DEF Typed, TablesTyped
<1>6. OthersStay /\ Begun = {} /\ Gone \subseteq S
  BY <1>2, Ended DEF Typed
<1>7. TablesTyped' /\ NoMarkerAtHome'
  BY <1>1, <1>2, <1>3, EndedTyped DEF Typed, TablesTyped
<1>8. /\ todo \in Seq(Item) /\ In(UnitMissionChange(u), todo)
      /\ \A v \in foes : In(EnemyMissionChange(v), todo)
  <2>1. UnitMissionChange(u) \in Item
    BY Items
  <2>5. PICK s, t : s = <<UnitMissionChange(u)>> /\ t = SetToSeq({EnemyMissionChange(v) : v \in foes})
    OBVIOUS
  <2>6. s \in Seq(Item) /\ In(UnitMissionChange(u), s)
    BY <2>1, <2>5, InOne
  <2>7. t \in Seq(Item) /\ \A v \in foes : In(EnemyMissionChange(v), t)
    BY <1>5, <2>5, SendsToAll DEF Key, EnemyMissionChange
  <2>8. todo = s \o t
    BY <1>2, <2>5
  <2> QED
    BY <2>6, <2>7, <2>8, InConcat
<1>9. ASSUME NEW v \in User, NEW k \in Key, Touched(v, k) PROVE Hears(v, k, todo, {})
  <2>1. PICK m \in Gone : Concerns(mission[m], owner, v, k)
    BY <1>1, <1>6, <1>9 DEF Touched
  <2>2. m \in S /\ mission[m].kind \in UnitKinds
    BY <1>6 DEF UnitMissions, MissionsOf
  <2>3. CASE k = "unit_mission_change" /\ v = u
    BY <1>8, <2>3, SendTells DEF UnitMissionChange
  <2>4. CASE k = "enemy_mission_change" /\ v # u /\ v = owner[mission[m].target]
    <3>1. v \in foes
      BY <1>2, <2>2, <2>4, SyncAssumption
    <3> QED
      BY <1>8, <2>4, <3>1, SendTells DEF EnemyMissionChange
  <2>5. "build" \notin UnitKinds
    BY DEF UnitKinds
  <2> QED
    BY <1>4, <2>1, <2>2, <2>3, <2>4, <2>5 DEF Concerns
<1> QED
  BY <1>3, <1>6, <1>7, <1>8, <1>9 DEF Operated, Operates

(* A build that begins is told to its owner.                               *)
LEMMA RegisterBuildTells ==
    ASSUME Typed, NEW w \in Worker, NEW u \in User, NEW p \in Planet, RegisterBuild(w, u, p)
    PROVE  Operated(w)
<1>1. PICK r, todo : /\ r = [user |-> u, kind |-> "build", source |-> p, target |-> p, visible |-> TRUE]
                     /\ todo = <<UnitBuildChange(u)>>
  OBVIOUS
<1>2. /\ mission' = Instead({}, r) /\ Commit(w, todo, {}) /\ ops' = ops + 1
      /\ UNCHANGED <<owner, listed, explored>>
  BY <1>1 DEF RegisterBuild, Commit
<1>3. r \in Mission /\ r.kind = "build" /\ r.user = u
  BY <1>1 DEF Mission
<1>4. OthersStay /\ Begun = {NewId} /\ mission'[NewId] = r /\ Gone = {}
  <2>1. PICK S : S = {}
    OBVIOUS
  <2>2. mission' = Instead(S, r)
    BY <1>2, <2>1
  <2>3. OthersStay /\ Begun = {NewId} /\ mission'[NewId] = r /\ Gone \subseteq S
    BY <2>2, Replaced DEF Typed
  <2> QED
    BY <2>1, <2>3
<1>5. TablesTyped' /\ NoMarkerAtHome'
  BY <1>2, <1>3, ReplacedTyped DEF Typed, TablesTyped
<1>6. todo \in Seq(Item) /\ In(UnitBuildChange(u), todo)
  <2>1. UnitBuildChange(u) \in Item
    BY Items
  <2> QED
    BY <1>1, <2>1, InOne
<1>7. ASSUME NEW v \in User, NEW k \in Key, Touched(v, k) PROVE Hears(v, k, todo, {})
  <2>1. Concerns(r, owner', v, k)
    BY <1>2, <1>4, <1>7 DEF Touched
  <2>2. k = "unit_build_mission_change" /\ v = u
    BY <1>3, <2>1 DEF Concerns, UnitKinds
  <2> QED
    BY <1>6, <2>2, SendTells DEF UnitBuildChange
<1> QED
  BY <1>2, <1>4, <1>5, <1>6, <1>7 DEF Operated, Operates

(* A build that ends is told to its owner.                                 *)
LEMMA EndBuildTells ==
    ASSUME Typed, NEW w \in Worker, NEW m \in DOMAIN mission, EndBuild(w, m)
    PROVE  Operated(w)
<1>1. PICK u, todo : u = mission[m].user /\ todo = <<UnitBuildChange(u)>>
  OBVIOUS
<1>2. /\ mission[m].kind = "build" /\ mission' = Without({m}) /\ Commit(w, todo, {}) /\ ops' = ops + 1
      /\ UNCHANGED <<owner, listed, explored>>
  BY <1>1 DEF EndBuild, Commit
<1>3. OthersStay /\ Begun = {} /\ Gone \subseteq {m}
  BY <1>2, Ended DEF Typed
<1>4. TablesTyped' /\ NoMarkerAtHome'
  BY <1>2, EndedTyped DEF Typed, TablesTyped
<1>5. todo \in Seq(Item) /\ In(UnitBuildChange(u), todo)
  <2>1. UnitBuildChange(u) \in Item
    BY <1>1, Items, MissionRow DEF Typed
  <2> QED
    BY <1>1, <2>1, InOne
<1>6. ASSUME NEW v \in User, NEW k \in Key, Touched(v, k) PROVE Hears(v, k, todo, {})
  <2>1. Concerns(mission[m], owner, v, k)
    BY <1>2, <1>3, <1>6 DEF Touched
  <2>2. k = "unit_build_mission_change" /\ v = u
    BY <1>1, <1>2, <2>1 DEF Concerns, UnitKinds
  <2> QED
    BY <1>5, <2>2, SendTells DEF UnitBuildChange
<1> QED
  BY <1>2, <1>3, <1>4, <1>5, <1>6 DEF Operated, Operates

(* Nobody tells who leaves a planet that its enemies are gone.             *)
LEMMA LeavePlanetTells ==
    ASSUME Typed, NEW w \in Worker, NEW u \in User, NEW p \in Planet, LeavePlanet(w, u, p)
    PROVE  Operated(w)
<1>1. PICK todo, silence : /\ todo = <<HoldersChange(p), PlanetOwnedChange(u)>>
                           /\ silence = {<<u, "enemy_mission_change">>}
  OBVIOUS
<1>2. /\ owner[p] = u /\ owner' = [owner EXCEPT ![p] = NoUser] /\ Commit(w, todo, silence) /\ ops' = ops + 1
      /\ UNCHANGED <<mission, listed, explored>>
  BY <1>1 DEF LeavePlanet, CanLeavePlanet, Commit
<1>3. /\ owner' \in [Planet -> User \cup {NoUser}] /\ owner'[p] = NoUser
      /\ \A q \in Planet : q # p => owner'[q] = owner[q]
  BY <1>2 DEF Typed, TablesTyped
<1>4. OthersStay /\ Begun = {} /\ Gone = {}
  BY <1>2 DEF OthersStay, Begun, Gone
<1>5. TablesTyped'
  BY <1>2, <1>3, TablesStayTyped DEF Typed, TablesTyped
<1>6. NoMarkerAtHome'
  <2>1. ASSUME NEW m \in DOMAIN mission', mission'[m].kind = "deployed"
        PROVE  owner'[mission'[m].target] # mission'[m].user
    <3>1. /\ mission'[m] = mission[m] /\ m \in DOMAIN mission /\ mission[m].target \in Planet
          /\ mission[m].user \in User
      BY <1>2, MissionRow DEF Typed
    <3>2. owner[mission[m].target] # mission[m].user
      BY <2>1, <3>1 DEF Typed, NoMarkerAtHome
    <3> QED
      BY <1>3, <3>1, <3>2, SyncAssumption
  <2> QED
    BY <2>1 DEF NoMarkerAtHome
<1>7. todo \in Seq(Item) /\ In(HoldersChange(p), todo) /\ In(PlanetOwnedChange(u), todo)
  <2>1. HoldersChange(p) \in Item /\ PlanetOwnedChange(u) \in Item
    BY Items
  <2> QED
    BY <1>1, <2>1 DEF In
<1>8. ASSUME NEW v \in User, NEW k \in Key, Touched(v, k) PROVE Hears(v, k, todo, silence)
  <2>1. CASE k = "planet_owned_change" /\ v = u
    BY <1>7, <2>1, SendTells DEF PlanetOwnedChange
  <2>2. CASE k = "enemy_mission_change" /\ v = u
    BY <1>1, <2>2, SilenceTells
  <2>3. CASE k = "planet_user_list_change" /\ p \in listed[v]
    BY <1>2, <1>7, <2>3, HoldersTells
  <2>4. v # NoUser
    BY SyncAssumption
  <2>5. listed[v] \subseteq Planet
    BY DEF Typed, TablesTyped
  <2> QED
    BY <1>2, <1>3, <1>4, <1>8, <2>1, <2>2, <2>3, <2>4, <2>5 DEF Touched
<1> QED
  BY <1>2, <1>4, <1>5, <1>6, <1>7, <1>8 DEF Operated, Operates

(* A list of planets that changes is told to its owner.                    *)
LEMMA ListTells ==
    ASSUME Typed, NEW w \in Worker, NEW u \in User, NEW p \in Planet,
           AddToList(w, u, p) \/ DeleteFromList(w, u, p)
    PROVE  Operated(w)
<1>1. PICK todo : todo = <<PlanetUserListChange(u)>>
  OBVIOUS
<1>2. /\ Commit(w, todo, {}) /\ ops' = ops + 1 /\ UNCHANGED <<owner, mission, explored>>
      /\ \/ listed' = [listed EXCEPT ![u] = listed[u] \cup {p}]
         \/ listed' = [listed EXCEPT ![u] = listed[u] \ {p}]
  BY <1>1 DEF AddToList, DeleteFromList, Commit
<1>3. listed' \in [User -> SUBSET Planet] /\ \A v \in User : v # u => listed'[v] = listed[v]
  BY <1>2 DEF Typed, TablesTyped
<1>4. OthersStay /\ Begun = {} /\ Gone = {}
  BY <1>2 DEF OthersStay, Begun, Gone
<1>5. TablesTyped'
  BY <1>2, <1>3, TablesStayTyped DEF Typed, TablesTyped
<1>6. NoMarkerAtHome'
  BY <1>2 DEF Typed, NoMarkerAtHome
<1>7. todo \in Seq(Item) /\ In(PlanetUserListChange(u), todo)
  <2>1. PlanetUserListChange(u) \in Item
    BY Items
  <2> QED
    BY <1>1, <2>1, InOne
<1>8. ASSUME NEW v \in User, NEW k \in Key, Touched(v, k) PROVE Hears(v, k, todo, {})
  <2>1. k = "planet_user_list_change" /\ v = u
    BY <1>2, <1>3, <1>4, <1>8 DEF Touched
  <2> QED
    BY <1>7, <2>1, SendTells DEF PlanetUserListChange
<1> QED
  BY <1>2, <1>4, <1>5, <1>6, <1>7, <1>8 DEF Operated, Operates

------------------------------------------------------------------------------
(* The operations with a fight.                                            *)

(* A fight is lost by stationed missions of others.                        *)
LEMMA FightShape ==
    ASSUME TablesTyped, NEW r \in Mission, NEW f \in Fights(r)
    PROVE  /\ f.changed \subseteq User
           /\ \A n \in f.lost : /\ n \in DOMAIN mission /\ mission[n].kind = "deployed"
                                /\ mission[n].target = r.target /\ mission[n].user # r.user
                                /\ mission[n].user \in User
<1> DEFINE others == {n \in DOMAIN mission : /\ mission[n].kind = "deployed"
                                             /\ mission[n].target = r.target
                                             /\ mission[n].user # r.user}
           foes == {mission[n].user : n \in others} \cup Enemy(r.user, r.target)
<1>1. /\ \A n \in others : mission[n].user \in User
      /\ owner[r.target] \in User \cup {NoUser} /\ r.user \in User
  BY DEF TablesTyped, Mission
<1>2. {mission[n].user : n \in others} \subseteq User /\ Enemy(r.user, r.target) \subseteq User
  BY <1>1 DEF Enemy
<1>3. foes \cup {r.user} \subseteq User
  BY <1>1, <1>2
<1>4. PICK L \in SUBSET others : \/ f = [lost |-> L, changed |-> {mission[n].user : n \in L}]
                                 \/ f = [lost |-> L, changed |-> foes \cup {r.user}]
  <2>1. f \in {[lost |-> L, changed |-> {mission[n].user : n \in L}] : L \in SUBSET others}
              \cup {[lost |-> L, changed |-> foes \cup {r.user}] :
                       L \in IF foes = {} THEN {} ELSE SUBSET others}
    BY DEF Fights
  <2> QED
    BY <2>1
<1>5. f.lost = L /\ (f.changed = {mission[n].user : n \in L} \/ f.changed = foes \cup {r.user})
  BY <1>4
<1>6. \A n \in L : n \in others
  OBVIOUS
<1> HIDE DEF foes
<1>7. {mission[n].user : n \in L} \subseteq User
  BY <1>1
<1>8. f.changed \subseteq User
  BY <1>3, <1>5, <1>7
<1> QED
  BY <1>1, <1>5, <1>6, <1>8

(* A choice between a list with one item and the empty one.                *)
LEMMA MaybeOne ==
    ASSUME NEW x \in Item, NEW b \in BOOLEAN
    PROVE  (IF b THEN <<x>> ELSE <<>>) \in Seq(Item) /\ (b => In(x, IF b THEN <<x>> ELSE <<>>))
<1>1. CASE b
  BY <1>1, InOne
<1>2. CASE ~b
  BY <1>2
<1> QED
  BY <1>1, <1>2

(* Whom a fight tells what.                                                *)
LEMMA FightTells ==
    ASSUME TablesTyped, NEW r \in Mission, NEW f \in Fights(r), NEW removed \in BOOLEAN,
           NEW emits, emits = FightEmits(r, f, removed)
    PROVE  /\ emits \in Seq(Item)
           /\ \A n \in f.lost : In(UnitMissionChange(mission[n].user), emits)
           /\ \/ f.lost = {} \/ owner[r.target] \notin f.changed
              \/ owner[r.target] \in {mission[n].user : n \in f.lost}
              \/ In(OwnerChange(r.target, NoUser), emits)
           /\ removed \/ (owner[r.target] # NoUser /\ f.lost # {}) => In(LocalChange(r), emits)
<1> DEFINE v == owner[r.target]
           deleted == {mission[n].user : n \in f.lost}
           changed == f.changed \ deleted
<1>1. PICK s1, s2, s3, s4, s5, told :
          /\ s1 = SetToSeq({UnitMissionChange(u) : u \in deleted})
          /\ s2 = SetToSeq({UnitMissionChange(u) : u \in changed \ {v}})
          /\ told = (v \in changed /\ (deleted # {} \/ Cardinality(changed) > 1))
          /\ s3 = (IF told THEN <<OwnerChange(r.target, NoUser)>> ELSE <<>>)
          /\ s4 = (IF v \in changed THEN <<UnitMissionChange(v)>> ELSE <<>>)
          /\ s5 = (IF removed \/ (v # NoUser /\ deleted # {}) THEN <<LocalChange(r)>> ELSE <<>>)
  OBVIOUS
<1>2. emits = s1 \o s2 \o s3 \o s4 \o s5
  BY <1>1 DEF FightEmits
<1>3. f.changed \subseteq User /\ \A n \in f.lost : mission[n].user \in User
  BY FightShape
<1>4. deleted \subseteq User /\ changed \subseteq User /\ r.target \in Planet
  BY <1>3 DEF Mission
<1>5. /\ OwnerChange(r.target, NoUser) \in Item /\ LocalChange(r) \in Item
      /\ \A u \in User : UnitMissionChange(u) \in Item
  BY <1>4, Items
<1>6. s1 \in Seq(Item) /\ \A u \in deleted : In(UnitMissionChange(u), s1)
  <2> HIDE DEF deleted
  <2> QED
    BY <1>1, <1>4, SendsToAll DEF Key, UnitMissionChange
<1>7. s2 \in Seq(Item)
  <2> HIDE DEF deleted, changed
  <2>1. changed \ {v} \in SUBSET User
    BY <1>4
  <2> QED
    BY <1>1, <2>1, SendsToAll DEF Key, UnitMissionChange
<1>8. s3 \in Seq(Item) /\ (told => In(OwnerChange(r.target, NoUser), s3))
  BY <1>1, <1>5, MaybeOne
<1>9. s4 \in Seq(Item)
  BY <1>1, <1>3, <1>5
<1>10. s5 \in Seq(Item) /\ (removed \/ (v # NoUser /\ deleted # {}) => In(LocalChange(r), s5))
  BY <1>1, <1>5, MaybeOne
<1>11. /\ emits \in Seq(Item)
       /\ \A x : In(x, emits) <=> In(x, s1) \/ In(x, s2) \/ In(x, s3) \/ In(x, s4) \/ In(x, s5)
  <2>1. PICK s : s = s1 \o s2
    OBVIOUS
  <2>2. PICK t : t = s \o s3
    OBVIOUS
  <2>3. PICK e : e = t \o s4
    OBVIOUS
  <2>4. emits = e \o s5
    BY <1>2, <2>1, <2>2, <2>3
  <2>5. s \in Seq(Item) /\ \A x : In(x, s) <=> In(x, s1) \/ In(x, s2)
    BY <1>6, <1>7, <2>1, InConcat
  <2>6. t \in Seq(Item) /\ \A x : In(x, t) <=> In(x, s) \/ In(x, s3)
    BY <1>8, <2>2, <2>5, InConcat
  <2>7. e \in Seq(Item) /\ \A x : In(x, e) <=> In(x, t) \/ In(x, s4)
    BY <1>9, <2>3, <2>6, InConcat
  <2>8. emits \in Seq(Item) /\ \A x : In(x, emits) <=> In(x, e) \/ In(x, s5)
    BY <1>10, <2>4, <2>7, InConcat
  <2> QED
    BY <2>5, <2>6, <2>7, <2>8
<1>12. f.lost # {} /\ v \in changed => told
  BY <1>1
<1>13. \A n \in f.lost : In(UnitMissionChange(mission[n].user), emits)
  BY <1>6, <1>11
<1>14. \/ f.lost = {} \/ v \notin f.changed \/ v \in deleted \/ In(OwnerChange(r.target, NoUser), emits)
  BY <1>8, <1>11, <1>12
<1>15. removed \/ (v # NoUser /\ f.lost # {}) => In(LocalChange(r), emits)
  BY <1>10, <1>11
<1> QED
  BY <1>11, <1>13, <1>14, <1>15

(* Whoever a wiped garrison concerns hears of it, or is known not to.      *)
LEMMA GarrisonsTell ==
    ASSUME Typed, NEW r \in Mission, r.kind \in UnitKinds, NEW f \in Fights(r), NEW removed \in BOOLEAN,
           NEW emits, emits = FightEmits(r, f, removed), UNCHANGED owner,
           NEW todo, \A x : In(x, emits) => In(x, todo), NEW silence, silence = FightSilence(r, f),
           NEW n \in f.lost, NEW u \in User, NEW k \in Key, Concerns(mission[n], owner, u, k)
    PROVE  Hears(u, k, todo, silence)
<1> DEFINE v == owner[r.target]
<1>1. /\ n \in DOMAIN mission /\ mission[n].kind = "deployed" /\ mission[n].target = r.target
      /\ mission[n].user # r.user /\ mission[n].user \in User /\ r.target \in Planet
  BY FightShape DEF Typed, Mission
<1>2. /\ In(UnitMissionChange(mission[n].user), todo)
      /\ \/ v \notin f.changed \/ v \in {mission[x].user : x \in f.lost}
         \/ In(OwnerChange(r.target, NoUser), todo)
      /\ v # NoUser => In(LocalChange(r), todo)
  BY FightTells DEF Typed
<1>3. CASE k = "unit_mission_change" /\ u = mission[n].user
  BY <1>2, <1>3, SendTells DEF UnitMissionChange
<1>4. CASE k = "enemy_mission_change" /\ u = v
  <2>1. u # NoUser /\ u = owner'[r.target]
    BY <1>4, SyncAssumption
  <2>2. \A x \in f.lost : x \in DOMAIN mission /\ mission[x].kind = "deployed" /\ mission[x].target = r.target
    BY FightShape DEF Typed
  <2>3. \A x \in f.lost : v # mission[x].user
    BY <2>2 DEF Typed, NoMarkerAtHome
  <2>4. CASE v \in f.changed
    <3>1. In(OwnerChange(r.target, NoUser), todo)
      BY <1>2, <2>3, <2>4
    <3> QED
      BY <1>1, <1>4, <2>1, <3>1, OwnerTells
  <2>5. CASE r.visible /\ u # r.user
    <3>1. Concerns(r, owner', u, k)
      BY <1>4, <2>1, <2>5 DEF Concerns
    <3> QED
      BY <1>2, <1>4, <2>1, <3>1, LocalTells
  <2>6. CASE v \notin f.changed /\ ~(r.visible /\ u # r.user)
    <3>1. f.lost # {}
      OBVIOUS
    <3>2. u \notin (f.changed \cup {NoUser} \cup IF f.lost = {} THEN User
                                               ELSE IF r.visible THEN User \ {r.user} ELSE {})
      BY <1>4, <2>1, <2>6, <3>1
    <3>3. <<u, k>> \in silence
      BY <1>4, <3>2 DEF FightSilence
    <3> QED
      BY <3>3, SilenceTells
  <2> QED
    BY <1>4, <2>4, <2>5, <2>6
<1> QED
  BY <1>1, <1>3, <1>4 DEF Concerns, UnitKinds

(* A fight: the attacker, the wiped and the owner are told, or are known   *)
(* not to be.                                                              *)
LEMMA AttackTells ==
    ASSUME Typed, NEW w \in Worker, NEW m \in DOMAIN mission, Attack(w, m)
    PROVE  Operated(w)
<1>1. PICK r, back : r = mission[m] /\ back = Leg(r, "return")
  OBVIOUS
<1>2. /\ r \in Mission /\ r.user \in User /\ r.kind = "trip" /\ back \in Mission
      /\ back.user = r.user /\ back.target = r.target /\ back.visible = r.visible /\ back.kind = "return"
      /\ r.kind \in UnitKinds /\ back.kind \in UnitKinds
  BY <1>1, MissionRow DEF Attack, UnitKinds, Typed
<1>3. PICK f \in Fights(r), removed \in BOOLEAN :
          /\ mission' = IF removed THEN Without({m} \cup f.lost) ELSE Instead({m} \cup f.lost, back)
          /\ Commit(w, (IF removed THEN <<>> ELSE <<LocalChange(back)>>) \o FightEmits(r, f, removed),
                    FightSilence(r, f))
  BY <1>1 DEF Attack
<1>4. PICK emits, first, todo, silence :
          /\ emits = FightEmits(r, f, removed) /\ silence = FightSilence(r, f)
          /\ first = (IF ~removed THEN <<LocalChange(back)>> ELSE <<>>)
          /\ todo = first \o emits
  OBVIOUS
<1>5. Commit(w, todo, silence) /\ ops' = ops + 1 /\ UNCHANGED <<owner, listed, explored>>
  BY <1>3, <1>4 DEF Attack, Commit
<1>6. PICK S : S = {m} \cup f.lost
  OBVIOUS
<1>7. \/ removed /\ mission' = Without(S)
      \/ ~removed /\ mission' = Instead(S, back)
  BY <1>3, <1>6
<1>8. /\ OthersStay /\ Gone \subseteq S /\ Begun \subseteq {NewId}
      /\ NewId \in Begun => ~removed /\ mission'[NewId] = back
  BY <1>7, Replaced, Ended DEF Typed
<1>9. TablesTyped' /\ NoMarkerAtHome'
  BY <1>2, <1>5, <1>7, ReplacedTyped, EndedTyped DEF Typed, TablesTyped
<1>10. /\ emits \in Seq(Item)
       /\ removed => In(LocalChange(r), emits)
  BY <1>2, <1>4, FightTells DEF Typed
<1>11. first \in Seq(Item) /\ (~removed => In(LocalChange(back), first))
  <2>1. LocalChange(back) \in Item
    BY <1>2, Items
  <2> QED
    BY <1>4, <2>1, MaybeOne
<1>12. /\ todo \in Seq(Item) /\ \A x : In(x, emits) => In(x, todo)
       /\ ~removed => In(LocalChange(back), todo)
       /\ removed => In(LocalChange(r), todo)
  BY <1>4, <1>10, <1>11, InConcat
<1>13. ASSUME NEW v \in User, NEW k \in Key, Concerns(r, owner', v, k) PROVE Hears(v, k, todo, silence)
  <2>1. CASE removed
    BY <1>2, <1>12, <1>13, <2>1, LocalTells
  <2>2. CASE ~removed
    <3>1. Concerns(back, owner', v, k)
      BY <1>2, <1>13 DEF Concerns, UnitKinds
    <3> QED
      BY <1>2, <1>12, <2>2, <3>1, LocalTells
  <2> QED
    BY <2>1, <2>2
<1>14. ASSUME NEW v \in User, NEW k \in Key, Touched(v, k) PROVE Hears(v, k, todo, silence)
  <2>1. CASE \E n \in f.lost : Concerns(mission[n], owner, v, k)
    BY <1>2, <1>4, <1>5, <1>12, <2>1, GarrisonsTell
  <2>2. CASE Concerns(mission[m], owner, v, k)
    BY <1>1, <1>5, <1>13, <2>2
  <2>3. CASE \E n \in Begun : Concerns(mission'[n], owner', v, k)
    BY <1>2, <1>8, <1>12, <2>3, LocalTells
  <2> QED
    BY <1>5, <1>6, <1>8, <1>14, <2>1, <2>2, <2>3 DEF Touched
<1> QED
  BY <1>5, <1>8, <1>9, <1>12, <1>14 DEF Operated, Operates

(* A fleet flies home after a fight, if any.                               *)
LEMMA FlyHomeTells ==
    ASSUME Typed, NEW w \in Worker, NEW m \in DOMAIN mission, FlyHome(w, m)
    PROVE  Operated(w)
<1>1. PICK r, back : r = mission[m] /\ back = Leg(r, "return")
  OBVIOUS
<1>2. /\ r \in Mission /\ r.user \in User /\ r.kind = "trip" /\ back \in Mission
      /\ back.user = r.user /\ back.target = r.target /\ back.visible = r.visible /\ back.kind = "return"
      /\ r.kind \in UnitKinds /\ back.kind \in UnitKinds
  BY <1>1, MissionRow DEF FlyHome, UnitKinds, Typed
<1>3. PICK f \in Fights(r) :
          /\ mission' = Instead({m} \cup f.lost, back)
          /\ Commit(w, FightEmits(r, f, FALSE) \o <<LocalChange(back)>>, FightSilence(r, f))
  BY <1>1 DEF FlyHome
<1>4. PICK emits, last, todo, silence, S :
          /\ emits = FightEmits(r, f, FALSE) /\ silence = FightSilence(r, f)
          /\ last = <<LocalChange(back)>> /\ todo = emits \o last /\ S = {m} \cup f.lost
  OBVIOUS
<1>5. /\ Commit(w, todo, silence) /\ ops' = ops + 1 /\ UNCHANGED <<owner, listed, explored>>
      /\ mission' = Instead(S, back)
  BY <1>3, <1>4 DEF FlyHome, Commit
<1>6. OthersStay /\ Gone \subseteq S /\ Begun = {NewId} /\ mission'[NewId] = back
  BY <1>5, Replaced DEF Typed
<1>7. TablesTyped' /\ NoMarkerAtHome'
  BY <1>2, <1>5, ReplacedTyped DEF Typed, TablesTyped
<1>8. emits \in Seq(Item)
  BY <1>2, <1>4, FightTells DEF Typed
<1>9. last \in Seq(Item) /\ In(LocalChange(back), last)
  <2>1. LocalChange(back) \in Item
    BY <1>2, Items
  <2> QED
    BY <1>4, <2>1, InOne
<1>10. /\ todo \in Seq(Item) /\ \A x : In(x, emits) => In(x, todo)
       /\ In(LocalChange(back), todo)
  BY <1>4, <1>8, <1>9, InConcat
<1>11. ASSUME NEW v \in User, NEW k \in Key, Touched(v, k) PROVE Hears(v, k, todo, silence)
  <2>1. CASE \E n \in f.lost : Concerns(mission[n], owner, v, k)
    BY <1>2, <1>4, <1>5, <1>10, <2>1, GarrisonsTell
  <2>2. CASE Concerns(r, owner', v, k) \/ Concerns(back, owner', v, k)
    <3>1. Concerns(back, owner', v, k)
      BY <1>2, <2>2 DEF Concerns, UnitKinds
    <3> QED
      BY <1>2, <1>10, <3>1, LocalTells
  <2> QED
    BY <1>1, <1>4, <1>5, <1>6, <1>11, <2>1, <2>2 DEF Touched
<1> QED
  BY <1>5, <1>6, <1>7, <1>10, <1>11 DEF Operated, Operates

(* A planet changes hands, after a fight or without one: the markers of    *)
(* the new owner are gone, and its builds are those of the old owner.      *)
LEMMA TakenTells ==
    ASSUME Typed, NEW w \in Worker, NEW m \in DOMAIN mission, NEW r, r = mission[m], r.kind = "trip",
           NEW old, old = owner[r.target], old # r.user, NEW f \in Fights(r),
           NEW builds, builds \subseteq BuildMissions(old),
           mission' = Without({m} \cup f.lost \cup builds \cup Settled(r.user, r.target)),
           owner' = [owner EXCEPT ![r.target] = r.user], UNCHANGED <<listed, explored>>,
           NEW todo \in Seq(Item), Commit(w, todo, {}),
           \A n \in f.lost : In(UnitMissionChange(mission[n].user), todo),
           builds # {} => In(UnitBuildChange(old), todo),
           In(LocalChange(r), todo), In(HoldersChange(r.target), todo),
           \A v \in {r.user, old} : v # NoUser => /\ In(PlanetOwnedChange(v), todo)
                                                  /\ In(EnemyMissionChange(v), todo)
    PROVE  Operated(w)
<1>1. PICK p, S : p = r.target /\ S = {m} \cup f.lost \cup builds \cup Settled(r.user, p)
  OBVIOUS
<1>2. /\ r \in Mission /\ r.user \in User /\ p \in Planet /\ r.kind \in UnitKinds
      /\ r.user # NoUser /\ old \in User \cup {NoUser}
  BY <1>1, MissionRow, SyncAssumption DEF UnitKinds, Typed, TablesTyped
<1>3. /\ owner' \in [Planet -> User \cup {NoUser}] /\ owner'[p] = r.user /\ owner[p] = old
      /\ \A q \in Planet : q # p => owner'[q] = owner[q]
  BY <1>1, <1>2 DEF Typed, TablesTyped
<1>4. mission' = Without(S) /\ ops' = ops + 1
  BY <1>1 DEF Commit
<1>5. /\ OthersStay /\ Begun = {} /\ Gone \subseteq S /\ Gone \subseteq DOMAIN mission
      /\ DOMAIN mission' = DOMAIN mission \ S
      /\ \A n \in DOMAIN mission' : mission'[n] = mission[n]
  BY <1>4, Ended DEF Typed
<1>6. TablesTyped'
  BY <1>3, <1>4, <1>5, TablesStayTyped DEF Typed, TablesTyped
<1>7. NoMarkerAtHome'
  <2>1. ASSUME NEW n \in DOMAIN mission', mission'[n].kind = "deployed"
        PROVE  owner'[mission'[n].target] # mission'[n].user
    <3>1. /\ n \in DOMAIN mission /\ n \notin S /\ mission'[n] = mission[n]
          /\ mission[n].target \in Planet /\ mission[n].kind = "deployed"
      BY <1>5, <2>1, MissionRow DEF Typed
    <3>2. CASE mission[n].target = p
      <4>1. mission[n].user # r.user
        BY <1>1, <3>1, <3>2 DEF Settled, MissionsOf
      <4> QED
        BY <1>3, <3>1, <3>2, <4>1
    <3>3. CASE mission[n].target # p
      BY <1>3, <3>1, <3>3 DEF Typed, NoMarkerAtHome
    <3> QED
      BY <3>2, <3>3
  <2> QED
    BY <2>1 DEF NoMarkerAtHome
<1>8. ASSUME NEW v \in User, NEW k \in Key, Touched(v, k) PROVE Hears(v, k, todo, {})
  <2>0. v # NoUser
    BY SyncAssumption
  <2>1. ASSUME NEW n \in Gone, Concerns(mission[n], owner, v, k) PROVE Hears(v, k, todo, {})
    <3>1. n \in S /\ n \in DOMAIN mission
      BY <1>5
    <3>2. CASE k = "enemy_mission_change" /\ v = old
      BY <2>0, <3>2, SendTells DEF EnemyMissionChange
    <3>3. CASE n = m
      <4>1. r = mission[n] /\ r.kind # "build"
        BY <3>3
      <4>2. CASE k = "unit_mission_change" /\ v = r.user
        <5>1. Concerns(r, owner', v, k)
          BY <1>2, <4>2 DEF Concerns
        <5> QED
          BY <1>2, <5>1, LocalTells
      <4> QED
        BY <1>1, <1>3, <2>1, <3>2, <4>1, <4>2 DEF Concerns
    <3>4. CASE n \in f.lost
      <4>1. mission[n].kind = "deployed" /\ mission[n].target = p
        BY <1>1, <1>2, <3>4, FightShape DEF Typed
      <4>2. CASE k = "unit_mission_change" /\ v = mission[n].user
        BY <3>4, <4>2, SendTells DEF UnitMissionChange
      <4> QED
        BY <1>3, <2>1, <3>2, <4>1, <4>2 DEF Concerns
    <3>5. CASE n \in builds
      <4>1. mission[n].user = old /\ mission[n].kind = "build"
        BY <3>5 DEF BuildMissions, MissionsOf
      <4>2. k = "unit_build_mission_change" /\ v = old
        BY <2>1, <4>1 DEF Concerns, UnitKinds
      <4> QED
        BY <3>5, <4>2, SendTells DEF UnitBuildChange
    <3>6. CASE n \in Settled(r.user, p)
      <4>1. mission[n].user = r.user /\ mission[n].kind = "deployed" /\ mission[n].target = p
        BY <3>6 DEF Settled, MissionsOf
      <4>2. CASE k = "unit_mission_change" /\ v = r.user
        <5>1. Concerns(r, owner', v, k)
          BY <1>2, <4>2 DEF Concerns
        <5> QED
          BY <1>2, <5>1, LocalTells
      <4> QED
        BY <1>3, <2>1, <3>2, <4>1, <4>2 DEF Concerns
    <3> QED
      BY <1>1, <3>1, <3>3, <3>4, <3>5, <3>6
  <2>2. CASE k = "planet_owned_change" /\ v \in {old, r.user}
    BY <2>0, <2>2, SendTells DEF PlanetOwnedChange
  <2>3. CASE k = "enemy_mission_change" /\ v \in {old, r.user}
    BY <2>0, <2>3, SendTells DEF EnemyMissionChange
  <2>4. CASE k = "planet_user_list_change" /\ p \in listed[v]
    BY <1>1, <1>2, <2>4, HoldersTells
  <2>5. \A q \in Planet : owner'[q] # owner[q] => q = p /\ {owner[q], owner'[q]} = {old, r.user}
    BY <1>3
  <2>6. listed[v] \subseteq Planet
    BY DEF Typed, TablesTyped
  <2>7. CASE /\ k \in {"planet_owned_change", "enemy_mission_change"}
             /\ \E q \in Planet : owner'[q] # owner[q] /\ v \in {owner[q], owner'[q]}
    BY <2>2, <2>3, <2>5, <2>7
  <2>8. CASE k = "planet_user_list_change" /\ \E q \in listed[v] : owner'[q] # owner[q]
    BY <2>4, <2>5, <2>6, <2>8
  <2> QED
    BY <1>5, <1>8, <2>1, <2>7, <2>8 DEF Touched
<1> QED
  BY <1>5, <1>6, <1>7, <1>8 DEF Operated, Operates

(* What a conquest emits.                                                  *)
LEMMA ConquestTells ==
    ASSUME NEW new \in User, NEW p \in Planet, NEW old \in User \cup {NoUser},
           NEW emits, emits = ConquestSuccess(new, p, old)
    PROVE  /\ emits \in Seq(Item) /\ In(HoldersChange(p), emits)
           /\ \A v \in {new, old} : v # NoUser => /\ In(PlanetOwnedChange(v), emits)
                                                  /\ In(EnemyMissionChange(v), emits)
<1>1. PICK a, b : /\ a = <<PlanetOwnedChange(new), EnemyMissionChange(new), HoldersChange(p)>>
                  /\ b = IF old = NoUser THEN <<>> ELSE <<PlanetOwnedChange(old), EnemyMissionChange(old)>>
  OBVIOUS
<1>2. emits = a \o b
  BY <1>1 DEF ConquestSuccess
<1>3. /\ PlanetOwnedChange(new) \in Item /\ EnemyMissionChange(new) \in Item /\ HoldersChange(p) \in Item
      /\ old # NoUser => PlanetOwnedChange(old) \in Item /\ EnemyMissionChange(old) \in Item
  BY Items
<1>4. /\ a \in Seq(Item) /\ In(HoldersChange(p), a)
      /\ In(PlanetOwnedChange(new), a) /\ In(EnemyMissionChange(new), a)
  BY <1>1, <1>3 DEF In
<1>5. b \in Seq(Item) /\ (old # NoUser => In(PlanetOwnedChange(old), b) /\ In(EnemyMissionChange(old), b))
  <2>1. CASE old = NoUser
    BY <1>1, <2>1
  <2>2. CASE old # NoUser
    BY <1>1, <1>3, <2>2 DEF In
  <2> QED
    BY <2>1, <2>2
<1> QED
  BY <1>2, <1>4, <1>5, InConcat

(* A free planet is taken.                                                 *)
LEMMA EstablishBaseTells ==
    ASSUME Typed, NEW w \in Worker, NEW m \in DOMAIN mission, EstablishBase(w, m)
    PROVE  Operated(w)
<1>1. PICK r, p : r = mission[m] /\ p = r.target
  OBVIOUS
<1>2. r \in Mission /\ r.user \in User /\ p \in Planet /\ r.kind = "trip" /\ r.user # NoUser
  BY <1>1, MissionRow, SyncAssumption DEF EstablishBase, Typed
<1>3. PICK f \in Fights(r) :
          /\ mission' = Without({m} \cup f.lost \cup Settled(r.user, r.target))
          /\ Commit(w, FightEmits(r, f, FALSE) \o <<LocalChange(r)>>
                       \o ConquestSuccess(r.user, r.target, NoUser), {})
  BY <1>1 DEF EstablishBase
<1>4. PICK a, b, c, s, todo : /\ a = FightEmits(r, f, FALSE) /\ b = <<LocalChange(r)>>
                              /\ c = ConquestSuccess(r.user, p, NoUser) /\ s = a \o b /\ todo = s \o c
  OBVIOUS
<1>5. /\ Commit(w, todo, {}) /\ owner[r.target] = NoUser /\ owner' = [owner EXCEPT ![r.target] = r.user]
      /\ UNCHANGED <<listed, explored>>
  BY <1>1, <1>3, <1>4 DEF EstablishBase
<1>6. a \in Seq(Item) /\ \A n \in f.lost : In(UnitMissionChange(mission[n].user), a)
  BY <1>2, <1>4, FightTells DEF Typed
<1>7. b \in Seq(Item) /\ In(LocalChange(r), b)
  <2>1. LocalChange(r) \in Item
    BY <1>2, Items
  <2> QED
    BY <1>4, <2>1, InOne
<1>8. /\ c \in Seq(Item) /\ In(HoldersChange(p), c)
      /\ In(PlanetOwnedChange(r.user), c) /\ In(EnemyMissionChange(r.user), c)
  BY <1>2, <1>4, ConquestTells
<1>9. s \in Seq(Item) /\ \A x : In(x, s) <=> In(x, a) \/ In(x, b)
  <2>1. a \in Seq(Item) /\ b \in Seq(Item) /\ s = a \o b
    BY <1>4, <1>6, <1>7
  <2> QED
    BY <2>1, InConcat
<1>10. todo \in Seq(Item) /\ \A x : In(x, todo) <=> In(x, s) \/ In(x, c)
  <2>1. s \in Seq(Item) /\ c \in Seq(Item) /\ todo = s \o c
    BY <1>4, <1>8, <1>9
  <2> QED
    BY <2>1, InConcat
<1>11. PICK none : none = {}
  OBVIOUS
<1>12. mission' = Without({m} \cup f.lost \cup none \cup Settled(r.user, r.target))
  BY <1>3, <1>11
<1>13. /\ \A n \in f.lost : In(UnitMissionChange(mission[n].user), todo)
       /\ In(LocalChange(r), todo) /\ In(HoldersChange(r.target), todo)
       /\ \A v \in {r.user, NoUser} : v # NoUser => /\ In(PlanetOwnedChange(v), todo)
                                                    /\ In(EnemyMissionChange(v), todo)
  BY <1>1, <1>6, <1>7, <1>8, <1>9, <1>10
<1>14. PICK old : old = NoUser
  OBVIOUS
<1> QED
  BY <1>1, <1>2, <1>5, <1>10, <1>11, <1>12, <1>13, <1>14, TakenTells

(* A planet is taken from its owner, whose build there is cancelled.       *)
LEMMA ConquerTells ==
    ASSUME Typed, NEW w \in Worker, NEW m \in DOMAIN mission, Conquer(w, m)
    PROVE  Operated(w)
<1>1. PICK r, p, old : r = mission[m] /\ p = r.target /\ old = owner[p]
  OBVIOUS
<1>2. /\ r \in Mission /\ r.user \in User /\ p \in Planet /\ r.kind = "trip" /\ r.user # NoUser
      /\ old \in User \cup {NoUser} /\ old # r.user
  BY <1>1, MissionRow, SyncAssumption DEF Conquer, Typed, TablesTyped
<1>3. PICK builds : builds = {b \in BuildMissions(old) : mission[b].source = p}
  OBVIOUS
<1>4. PICK f \in Fights(r) :
          /\ mission' = Without({m} \cup f.lost \cup builds \cup Settled(r.user, r.target))
          /\ Commit(w, (IF builds = {} THEN <<>> ELSE <<UnitBuildChange(old)>>)
                       \o FightEmits(r, f, FALSE) \o ConquestSuccess(r.user, r.target, old)
                       \o <<LocalChange(r)>>, {})
  BY <1>1, <1>3 DEF Conquer
<1>5. PICK a, b, c, d, s, t, todo :
          /\ a = IF builds = {} THEN <<>> ELSE <<UnitBuildChange(old)>>
          /\ b = FightEmits(r, f, FALSE) /\ c = ConquestSuccess(r.user, p, old) /\ d = <<LocalChange(r)>>
          /\ s = a \o b /\ t = s \o c /\ todo = t \o d
  OBVIOUS
<1>6. Commit(w, todo, {}) /\ owner' = [owner EXCEPT ![r.target] = r.user] /\ UNCHANGED <<listed, explored>>
  BY <1>1, <1>4, <1>5 DEF Conquer
<1>7. builds \subseteq BuildMissions(old)
  BY <1>3
<1>8. a \in Seq(Item) /\ (builds # {} => In(UnitBuildChange(old), a))
  <2>1. CASE builds = {}
    BY <1>5, <2>1
  <2>2. CASE builds # {}
    <3>1. old \in User
      BY <1>7, <2>2, MissionRow DEF BuildMissions, MissionsOf, Typed
    <3>2. UnitBuildChange(old) \in Item
      BY <3>1, Items
    <3> QED
      BY <1>5, <2>2, <3>2, InOne
  <2> QED
    BY <2>1, <2>2
<1>9. b \in Seq(Item) /\ \A n \in f.lost : In(UnitMissionChange(mission[n].user), b)
  BY <1>2, <1>5, FightTells DEF Typed
<1>10. /\ c \in Seq(Item) /\ In(HoldersChange(p), c)
       /\ \A v \in {r.user, old} : v # NoUser => In(PlanetOwnedChange(v), c) /\ In(EnemyMissionChange(v), c)
  BY <1>2, <1>5, ConquestTells
<1>11. d \in Seq(Item) /\ In(LocalChange(r), d)
  <2>1. LocalChange(r) \in Item
    BY <1>2, Items
  <2> QED
    BY <1>5, <2>1, InOne
<1>12. s \in Seq(Item) /\ \A x : In(x, s) <=> In(x, a) \/ In(x, b)
  <2>1. a \in Seq(Item) /\ b \in Seq(Item) /\ s = a \o b
    BY <1>5, <1>8, <1>9
  <2> QED
    BY <2>1, InConcat
<1>13. t \in Seq(Item) /\ \A x : In(x, t) <=> In(x, s) \/ In(x, c)
  <2>1. s \in Seq(Item) /\ c \in Seq(Item) /\ t = s \o c
    BY <1>5, <1>10, <1>12
  <2> QED
    BY <2>1, InConcat
<1>14. todo \in Seq(Item) /\ \A x : In(x, todo) <=> In(x, t) \/ In(x, d)
  <2>1. t \in Seq(Item) /\ d \in Seq(Item) /\ todo = t \o d
    BY <1>5, <1>11, <1>13
  <2> QED
    BY <2>1, InConcat
<1>15. /\ \A n \in f.lost : In(UnitMissionChange(mission[n].user), todo)
       /\ builds # {} => In(UnitBuildChange(old), todo)
       /\ In(LocalChange(r), todo) /\ In(HoldersChange(r.target), todo)
       /\ \A v \in {r.user, old} : v # NoUser => /\ In(PlanetOwnedChange(v), todo)
                                                 /\ In(EnemyMissionChange(v), todo)
  BY <1>1, <1>8, <1>9, <1>10, <1>11, <1>12, <1>13, <1>14
<1> QED
  BY <1>1, <1>2, <1>4, <1>6, <1>7, <1>14, <1>15, TakenTells

------------------------------------------------------------------------------
(* Every operation tells everybody it touches, or is known not to.         *)
LEMMA OperationTells ==
    ASSUME Typed, NEW w \in Worker, \/ \E m \in DOMAIN mission : MissionStep(w, m)
                                    \/ \E u \in User : UserStep(w, u)
    PROVE  Operated(w)
<1>1. ASSUME NEW m \in DOMAIN mission, MissionStep(w, m) PROVE Operated(w)
  BY <1>1, CancelMissionTells, ExploreTells, AttackTells, FlyHomeTells, DeployTells, EndMissionTells,
     RetryMissionTells, EstablishBaseTells, ConquerTells, EndBuildTells DEF MissionStep
<1>2. ASSUME NEW u \in User, UserStep(w, u) PROVE Operated(w)
  <2>1. CASE ExpireUnits(w, u)
    BY <2>1, ExpireUnitsTells
  <2>2. ASSUME NEW p \in Yards, \/ RegisterBuild(w, u, p) \/ LeavePlanet(w, u, p)
                                \/ AddToList(w, u, p) \/ DeleteFromList(w, u, p)
        PROVE  Operated(w)
    BY <2>2, SyncAssumption, RegisterBuildTells, LeavePlanetTells, ListTells
  <2>3. ASSUME NEW o \in Orders, RegisterMission(w, u, o[1], o[2], o[3]) PROVE Operated(w)
    <3>1. o[1] \in Planet /\ o[2] \in Planet /\ o[3] \in BOOLEAN
      BY SyncAssumption
    <3> QED
      BY <2>3, <3>1, RegisterMissionTells
  <2> QED
    BY <1>2, <2>1, <2>2, <2>3 DEF UserStep
<1> QED
  BY <1>1, <1>2

(* An operation keeps the tables, the jobs and what is still to be told.   *)
LEMMA OperationKeeps ==
    ASSUME Typed, AllToTell, NEW w \in Worker, Resting(w), Operated(w)
    PROVE  Typed' /\ AllToTell'
<1>1. PICK todo, silence :
          /\ todo \in Seq(Item)
          /\ Commit(w, todo, silence)
          /\ \A u \in User, k \in Key : Touched(u, k) => Hears(u, k, todo, silence)
  BY DEF Operated, Operates
<1>2. JobsTyped'
  BY <1>1, CommitJobsTyped DEF Typed
<1>3. AllToTell'
  BY <1>1, CommitTells DEF Typed, Operated
<1> QED
  BY <1>2, <1>3 DEF Typed, Operated

------------------------------------------------------------------------------
(* The emits.                                                              *)

(* An item a job has not done.                                             *)
Pending(j, x) == \E i \in DOMAIN j.todo : Left(j, i) /\ j.todo[i] = x

(* An item still to be done is the first of a job that emits, or a later   *)
(* one.                                                                    *)
LEMMA PendingItems ==
    ASSUME NEW j, JobTyped(j), j.at # "rest", NEW x, Pending(j, x)
    PROVE  x \in Item /\ (In(x, Tail(j.todo)) \/ (j.at = "emit" /\ x = j.todo[1]))
<1>1. j.todo \in Seq(Item) /\ j.todo # <<>>
  BY DEF JobTyped
<1>2. PICK i \in DOMAIN j.todo : Left(j, i) /\ j.todo[i] = x
  BY DEF Pending
<1>3. x \in Item /\ i \in 1 .. Len(j.todo) /\ Len(j.todo) \in Nat
  BY <1>1, <1>2, ElementOfSeq, LenProperties
<1>4. CASE i # 1
  <2>1. i - 1 \in 1 .. Len(j.todo) - 1
    BY <1>3, <1>4
  <2>2. i - 1 \in DOMAIN Tail(j.todo) /\ Tail(j.todo)[i - 1] = j.todo[i]
    <3>1. Tail(j.todo) \in Seq(Item) /\ Len(Tail(j.todo)) = Len(j.todo) - 1
      BY <1>1, HeadTailProperties
    <3>2. \A n \in 1 .. Len(Tail(j.todo)) : Tail(j.todo)[n] = j.todo[n + 1]
      BY <1>1, HeadTailProperties
    <3>3. DOMAIN Tail(j.todo) = 1 .. Len(Tail(j.todo))
      BY <3>1, LenProperties
    <3>4. Tail(j.todo)[i - 1] = j.todo[(i - 1) + 1] /\ (i - 1) + 1 = i
      BY <1>3, <2>1, <3>1, <3>2
    <3> QED
      BY <2>1, <3>1, <3>3, <3>4
  <2> QED
    BY <1>2, <1>3, <2>2 DEF In
<1>5. CASE i = 1
  BY <1>2, <1>3, <1>5 DEF Left
<1> QED
  BY <1>4, <1>5

(* While the tables stay, a worker may move on if what it drops is saved.  *)
LEMMA EmitKeeps ==
    ASSUME Typed, AllToTell, NEW w \in Worker, UNCHANGED <<tables, ops>>, DOMAIN job' = Worker,
           \A v \in Worker \ {w} : job'[v] = job[v], JobTyped(job'[w]),
           untold' \subseteq untold, \A uk \in untold' : uk \in silent => uk \in silent',
           \A x : \A u \in User, k \in Key : Pending(job[w], x) /\ Reaches(x, u, k, owner, listed)
               => \/ <<u, k>> \notin untold' \/ <<u, k>> \in silent'
                  \/ \E y : Pending(job'[w], y) /\ Reaches(y, u, k, owner, listed)
    PROVE  Typed' /\ AllToTell'
<1>1. JobsTyped'
  BY DEF Typed, JobsTyped
<1>2. TablesTyped' /\ NoMarkerAtHome'
  BY DEF Typed, TablesTyped, NoMarkerAtHome, tables
<1>3. owner' = owner /\ listed' = listed
  BY DEF tables
<1>4. ASSUME NEW u \in User, NEW k \in Key, ToTell(u, k), <<u, k>> \in untold'
      PROVE  <<u, k>> \in silent' \/ ToTell(u, k)'
  <2>1. PICK v \in Worker : \E i \in DOMAIN job[v].todo :
                Left(job[v], i) /\ Reaches(job[v].todo[i], u, k, owner, listed)
    BY <1>4 DEF ToTell
  <2>2. PICK i \in DOMAIN job[v].todo : Left(job[v], i) /\ Reaches(job[v].todo[i], u, k, owner, listed)
    BY <2>1
  <2>3. CASE v = w
    <3>1. Pending(job[w], job[v].todo[i])
      BY <2>2, <2>3 DEF Pending
    <3>2. CASE \E y : Pending(job'[w], y) /\ Reaches(y, u, k, owner, listed)
      BY <1>3, <3>2 DEF Pending, ToTell
    <3> QED
      BY <1>4, <2>2, <3>1, <3>2
  <2>4. CASE v # w
    BY <1>3, <2>2, <2>4 DEF ToTell
  <2> QED
    BY <2>3, <2>4
<1>5. ASSUME NEW uk \in untold' PROVE uk \in silent' \/ (uk \in User \X Key /\ ToTell(uk[1], uk[2])')
  <2>1. CASE uk \in silent
    BY <1>5, <2>1
  <2>2. CASE uk \in User \X Key /\ ToTell(uk[1], uk[2])
    <3>1. PICK u \in User, k \in Key : uk = <<u, k>>
      BY <2>2
    <3> QED
      BY <1>4, <1>5, <2>2, <3>1
  <2> QED
    BY <1>5, <2>1, <2>2 DEF AllToTell
<1> QED
  BY <1>1, <1>2, <1>5 DEF Typed, AllToTell

(* An item is expanded into the sends to those it has to tell.             *)
LEMMA ExpandTells ==
    ASSUME TablesTyped, NEW x \in Item, x[1] # "send", NEW e, e = Expand(x)
    PROVE  /\ e \in Seq(Item)
           /\ \A u \in User, k \in Key : Reaches(x, u, k, owner, listed) => In(<<"send", u, k>>, e)
<1>0. NoUser \notin User
  BY SyncAssumption
<1>1. CASE x[1] = "local"
  <2>1. PICK r : r = x[2]
    OBVIOUS
  <2>2. r \in Mission /\ r.user \in User /\ r.target \in Planet
    BY <1>1, <2>1, ItemShape DEF Mission
  <2>3. PICK U, a, b : /\ U = Enemy(r.user, r.target)
                       /\ a = (IF r.visible THEN SetToSeq({EnemyMissionChange(v) : v \in U}) ELSE <<>>)
                       /\ b = <<UnitMissionChange(r.user)>>
    OBVIOUS
  <2>4. e = a \o b
    BY <1>1, <2>1, <2>3 DEF Expand
  <2>5. U \subseteq User /\ \A u \in User : u = owner[r.target] /\ u # r.user => u \in U
    BY <1>0, <2>2, <2>3 DEF Enemy, TablesTyped
  <2>6. a \in Seq(Item) /\ (r.visible => \A u \in U : In(<<"send", u, "enemy_mission_change">>, a))
    <3>1. CASE r.visible
      BY <2>3, <2>5, <3>1, SendsToAll DEF Key, EnemyMissionChange
    <3>2. CASE ~r.visible
      BY <2>3, <3>2
    <3> QED
      BY <3>1, <3>2
  <2>7. b \in Seq(Item) /\ In(<<"send", r.user, "unit_mission_change">>, b)
    <3>1. UnitMissionChange(r.user) \in Item
      BY <2>2, Items
    <3> QED
      BY <2>3, <3>1, InOne DEF UnitMissionChange
  <2>8. e \in Seq(Item) /\ \A y : In(y, e) <=> In(y, a) \/ In(y, b)
    BY <2>4, <2>6, <2>7, InConcat
  <2>9. ASSUME NEW u \in User, NEW k \in Key, Reaches(x, u, k, owner, listed)
        PROVE  In(<<"send", u, k>>, e)
    <3>1. \/ k = "unit_mission_change" /\ u = r.user
          \/ k = "enemy_mission_change" /\ r.visible /\ u = owner[r.target] /\ u # r.user
      BY <1>1, <2>1, <2>9 DEF Reaches
    <3>2. CASE k = "unit_mission_change" /\ u = r.user
      BY <2>7, <2>8, <3>2
    <3>3. CASE k = "enemy_mission_change" /\ r.visible /\ u = owner[r.target] /\ u # r.user
      BY <2>5, <2>6, <2>8, <3>3
    <3> QED
      BY <3>1, <3>2, <3>3
  <2> QED
    BY <2>8, <2>9
<1>2. CASE x[1] = "owner"
  <2>1. x[2] \in Planet
    BY <1>2, ItemShape
  <2>2. PICK U : U = Enemy(x[3], x[2])
    OBVIOUS
  <2>3. e = SetToSeq({EnemyMissionChange(v) : v \in U})
    BY <1>2, <2>2 DEF Expand
  <2>4. U \subseteq User /\ \A u \in User : u = owner[x[2]] /\ u # x[3] => u \in U
    BY <1>0, <2>1, <2>2 DEF Enemy, TablesTyped
  <2>5. e \in Seq(Item) /\ \A u \in U : In(<<"send", u, "enemy_mission_change">>, e)
    BY <2>3, <2>4, SendsToAll DEF Key, EnemyMissionChange
  <2> QED
    BY <1>2, <2>4, <2>5 DEF Reaches
<1>3. CASE x[1] = "holders"
  <2>1. PICK U : U = Holders(x[2])
    OBVIOUS
  <2>2. e = SetToSeq({PlanetUserListChange(v) : v \in U})
    BY <1>3, <2>1 DEF Expand
  <2>3. U \subseteq User /\ \A u \in User : x[2] \in listed[u] => u \in U
    BY <2>1 DEF Holders
  <2>4. e \in Seq(Item) /\ \A u \in U : In(<<"send", u, "planet_user_list_change">>, e)
    BY <2>2, <2>3, SendsToAll DEF Key, PlanetUserListChange
  <2> QED
    BY <1>3, <2>3, <2>4 DEF Reaches
<1> QED
  BY <1>1, <1>2, <1>3 DEF Item, Sends

(* The job of a worker that has done its first item.                       *)
LEMMA Advanced ==
    ASSUME NEW w \in Worker, JobTyped(job[w]), job[w].at # "rest", NEW j, j = Advance(w)
    PROVE  JobTyped(j) /\ \A x : In(x, Tail(job[w].todo)) => Pending(j, x)
<1>1. PICK todo, tail : todo = job[w].todo /\ tail = Tail(todo)
  OBVIOUS
<1>2. todo \in Seq(Item) /\ todo # <<>>
  BY <1>1 DEF JobTyped
<1>3. tail \in Seq(Item) /\ Len(tail) = Len(todo) - 1 /\ Len(todo) \in Nat
  BY <1>1, <1>2, HeadTailProperties, LenProperties
<1>4. tail = <<>> <=> Len(todo) = 1
  BY SMTT(60), <1>3, EmptySeq
<1>5. /\ DOMAIN j = {"todo", "token", "value", "at"} /\ j.todo = tail
      /\ j.at = IF Len(todo) = 1 THEN "rest" ELSE "emit"
  BY <1>1 DEF Advance
<1>6. JobTyped(j)
  BY <1>3, <1>4, <1>5 DEF JobTyped
<1>7. ASSUME NEW x, In(x, tail) PROVE Pending(j, x)
  <2>1. PICK i \in DOMAIN tail : tail[i] = x
    BY <1>7 DEF In
  <2>2. tail # <<>>
    BY <2>1
  <2> QED
    BY <1>4, <1>5, <2>1, <2>2 DEF Pending, Left
<1> QED
  BY <1>1, <1>6, <1>7

(* What follows the first item is still to be done.                        *)
LEMMA TailPending ==
    ASSUME NEW j, NEW t \in Seq(Item), t # <<>>, j.todo = t, NEW x, In(x, Tail(t))
    PROVE  Pending(j, x)
<1>1. PICK i \in DOMAIN Tail(t) : Tail(t)[i] = x
  BY DEF In
<1>2. /\ Tail(t) \in Seq(Item) /\ Len(Tail(t)) = Len(t) - 1 /\ Len(t) \in Nat /\ DOMAIN t = 1 .. Len(t)
      /\ \A n \in 1 .. Len(Tail(t)) : Tail(t)[n] = t[n + 1]
  BY HeadTailProperties, LenProperties
<1>3. DOMAIN Tail(t) = 1 .. Len(Tail(t))
  BY <1>2, LenProperties
<1>4. i + 1 \in DOMAIN t /\ i + 1 # 1 /\ t[i + 1] = x
  BY <1>1, <1>2, <1>3
<1> QED
  BY <1>4 DEF Pending, Left

(* An item with recipients to look up becomes the sends to them.           *)
LEMMA ResolveKeeps ==
    ASSUME Typed, AllToTell, NEW w \in Worker, Resolve(w)
    PROVE  Typed' /\ AllToTell'
<1>1. JobTyped(job[w]) /\ DOMAIN job = Worker
  BY DEF Typed, JobsTyped
<1>2. PICK head, e, tail, todo : /\ head = Head1(w) /\ e = Expand(head) /\ tail = Tail(job[w].todo)
                                 /\ todo = e \o tail
  OBVIOUS
<1>3. /\ job[w].at = "emit" /\ head[1] # "send" /\ UNCHANGED <<tables, ops, untold, silent>>
      /\ job' = [job EXCEPT ![w] = [job[w] EXCEPT !.todo = todo,
                                                  !.at = IF todo = <<>> THEN "rest" ELSE "emit"]]
  BY <1>2 DEF Resolve, sends
<1>4. /\ job[w].todo \in Seq(Item) /\ job[w].todo # <<>>
      /\ {"todo", "at", "token", "value"} \subseteq DOMAIN job[w]
  BY <1>1, <1>3 DEF JobTyped
<1>5. head = job[w].todo[1] /\ head \in Item /\ tail \in Seq(Item)
  BY <1>2, <1>4, HeadTailProperties DEF Head1
<1>6. /\ e \in Seq(Item)
      /\ \A u \in User, k \in Key : Reaches(head, u, k, owner, listed) => In(<<"send", u, k>>, e)
  BY <1>2, <1>3, <1>5, ExpandTells DEF Typed
<1>7. todo \in Seq(Item) /\ \A x : In(x, todo) <=> In(x, e) \/ In(x, tail)
  BY ZenonT(60), <1>2, <1>5, <1>6, InConcat
<1>8. PICK j : j = job'[w]
  OBVIOUS
<1>9. /\ j.todo = todo /\ j.at = (IF todo = <<>> THEN "rest" ELSE "emit") /\ DOMAIN j = DOMAIN job[w]
      /\ DOMAIN job' = Worker /\ \A v \in Worker \ {w} : job'[v] = job[v]
  BY <1>1, <1>3, <1>4, <1>8
<1>10. JobTyped(j)
  BY <1>4, <1>7, <1>9 DEF JobTyped
<1>11. ASSUME NEW x, In(x, todo) PROVE Pending(j, x)
  <2>1. PICK i \in DOMAIN todo : todo[i] = x
    BY <1>11 DEF In
  <2> QED
    BY <1>9, <2>1 DEF Pending, Left
<1>12. ASSUME NEW u \in User, NEW k \in Key, NEW x, Pending(job[w], x), Reaches(x, u, k, owner, listed)
       PROVE  \E y : Pending(j, y) /\ Reaches(y, u, k, owner, listed)
  <2>1. CASE x = head
    <3>1. Pending(j, <<"send", u, k>>)
      BY <1>6, <1>7, <1>11, <1>12, <2>1
    <3> QED
      BY <3>1 DEF Reaches
  <2>2. CASE In(x, tail)
    BY <1>7, <1>11, <1>12, <2>2
  <2> QED
    BY <1>1, <1>2, <1>3, <1>5, <1>12, <2>1, <2>2, PendingItems
<1>13. untold' \subseteq untold /\ silent' = silent /\ UNCHANGED <<tables, ops>>
  BY <1>3
<1> QED
  BY <1>8, <1>9, <1>10, <1>12, <1>13, EmitKeeps

(* A send whose watermark is saved leaves its view told.                   *)
LEMMA SaveWatermarkKeeps ==
    ASSUME Typed, AllToTell, NEW w \in Worker, SaveWatermark(w)
    PROVE  Typed' /\ AllToTell'
<1>1. JobTyped(job[w]) /\ DOMAIN job = Worker
  BY DEF Typed, JobsTyped
<1>2. PICK head, tail, u, k : head = Head1(w) /\ tail = Tail(job[w].todo) /\ u = head[2] /\ k = head[3]
  OBVIOUS
<1>3. /\ job[w].at = "emit" /\ head[1] = "send" /\ UNCHANGED <<tables, ops>>
      /\ untold' = untold \ {<<u, k>>} /\ silent' = silent \ {<<u, k>>}
      /\ \/ /\ u \in Client
            /\ \E n : job' = [job EXCEPT ![w] = [job[w] EXCEPT !.at = "saved", !.token = n]]
         \/ u \notin Client /\ job' = [job EXCEPT ![w] = Advance(w)]
  BY <1>2 DEF SaveWatermark
<1>4. /\ job[w].todo \in Seq(Item) /\ job[w].todo # <<>>
      /\ {"todo", "at", "token", "value"} \subseteq DOMAIN job[w]
  BY <1>1, <1>3 DEF JobTyped
<1>5. head = job[w].todo[1] /\ head \in Item
  BY <1>2, <1>4, HeadTailProperties DEF Head1
<1>6. head \in Sends /\ head = <<"send", u, k>> /\ u \in User /\ k \in Key
  <2>1. head \in Sends
    BY <1>3, <1>5, ItemShape
  <2> QED
    BY <1>2, <2>1 DEF Sends
<1>7. PICK j : j = job'[w]
  OBVIOUS
<1>8. DOMAIN job' = Worker /\ \A v \in Worker \ {w} : job'[v] = job[v]
  BY <1>1, <1>3
<1>9. JobTyped(j) /\ \A x : In(x, tail) => Pending(j, x)
  <2>1. CASE u \notin Client
    <3>1. j = Advance(w)
      BY <1>1, <1>3, <1>7, <2>1
    <3> QED
      BY <1>1, <1>2, <1>3, <3>1, Advanced
  <2>2. CASE u \in Client
    <3>1. PICK n : job' = [job EXCEPT ![w] = [job[w] EXCEPT !.at = "saved", !.token = n]]
      BY <1>3, <2>2
    <3>2. j.todo = job[w].todo /\ j.at = "saved" /\ DOMAIN j = DOMAIN job[w]
      BY <1>1, <1>4, <1>7, <3>1
    <3>3. JobTyped(j)
      <4>1. j.todo[1] \in Sends /\ j.todo[1][2] \in Client
        BY <1>2, <1>5, <1>6, <2>2, <3>2
      <4> QED
        BY <1>4, <3>2, <4>1 DEF JobTyped
    <3> QED
      BY <1>1, <1>2, <1>4, <3>2, <3>3, TailPending
  <2> QED
    BY <2>1, <2>2
<1>10. ASSUME NEW v \in User, NEW l \in Key, NEW x, Pending(job[w], x), Reaches(x, v, l, owner, listed)
       PROVE  \/ <<v, l>> \notin untold' \/ \E y : Pending(j, y) /\ Reaches(y, v, l, owner, listed)
  <2>1. CASE x = head
    <3>1. v = u /\ l = k
      BY <1>6, <1>10, <2>1 DEF Reaches
    <3> QED
      BY <1>3, <3>1
  <2>2. CASE In(x, tail)
    BY <1>9, <1>10, <2>2
  <2> QED
    BY <1>1, <1>2, <1>3, <1>5, <1>10, <2>1, <2>2, PendingItems
<1>11. untold' \subseteq untold /\ \A uk \in untold' : uk \in silent => uk \in silent'
  BY <1>3
<1> QED
  BY <1>3, <1>7, <1>8, <1>9, <1>10, <1>11, EmitKeeps

(* A step that saves nothing and drops no item that is not saved.          *)
LEMMA MovesOn ==
    ASSUME Typed, AllToTell, NEW w \in Worker, job[w].at \in {"saved", "computed"},
           UNCHANGED <<tables, ops, untold, silent>>, DOMAIN job' = Worker,
           \A v \in Worker \ {w} : job'[v] = job[v],
           \/ job'[w] = Advance(w)
           \/ /\ job'[w].todo = job[w].todo /\ job'[w].at \in {"saved", "computed"}
              /\ DOMAIN job'[w] = DOMAIN job[w]
    PROVE  Typed' /\ AllToTell'
<1>1. JobTyped(job[w])
  BY DEF Typed, JobsTyped
<1>2. /\ job[w].todo \in Seq(Item) /\ job[w].todo # <<>>
      /\ {"todo", "at", "token", "value"} \subseteq DOMAIN job[w]
      /\ job[w].at \notin {"rest", "emit"}
      /\ job[w].todo[1] \in Sends /\ job[w].todo[1][2] \in Client
  BY <1>1 DEF JobTyped
<1>3. PICK j : j = job'[w]
  OBVIOUS
<1>4. JobTyped(j) /\ \A x : In(x, Tail(job[w].todo)) => Pending(j, x)
  <2>1. CASE j = Advance(w)
    BY <1>1, <1>2, <2>1, Advanced
  <2>2. CASE j.todo = job[w].todo /\ j.at \in {"saved", "computed"} /\ DOMAIN j = DOMAIN job[w]
    <3>1. JobTyped(j)
      BY <1>2, <2>2 DEF JobTyped
    <3> QED
      BY <1>2, <2>2, <3>1, TailPending
  <2> QED
    BY <1>3, <2>1, <2>2
<1>5. ASSUME NEW u \in User, NEW k \in Key, NEW x, Pending(job[w], x), Reaches(x, u, k, owner, listed)
      PROVE  \E y : Pending(j, y) /\ Reaches(y, u, k, owner, listed)
  BY <1>1, <1>2, <1>4, <1>5, PendingItems
<1>6. /\ untold' \subseteq untold /\ \A uk \in untold' : uk \in silent => uk \in silent'
      /\ UNCHANGED <<tables, ops>>
  OBVIOUS
<1> QED
  BY <1>3, <1>4, <1>5, <1>6, EmitKeeps

(* A value that is computed, or not needed, has its watermark saved.       *)
LEMMA ComputeValueKeeps ==
    ASSUME Typed, AllToTell, NEW w \in Worker, ComputeValue(w)
    PROVE  Typed' /\ AllToTell'
<1>1. JobTyped(job[w]) /\ DOMAIN job = Worker
  BY DEF Typed, JobsTyped
<1>2. PICK u, k : u = Head1(w)[2] /\ k = Head1(w)[3]
  OBVIOUS
<1>3. /\ job[w].at = "saved" /\ UNCHANGED <<tables, ops, untold, silent>>
      /\ \/ job' = [job EXCEPT ![w] = [job[w] EXCEPT !.at = "computed", !.value = Dispatch(u, k)]]
         \/ job' = [job EXCEPT ![w] = Advance(w)]
  BY <1>2 DEF ComputeValue, sends
<1>4. DOMAIN job' = Worker /\ \A v \in Worker \ {w} : job'[v] = job[v]
  BY <1>1, <1>3
<1>5. \/ job'[w] = Advance(w)
      \/ /\ job'[w].todo = job[w].todo /\ job'[w].at \in {"saved", "computed"}
         /\ DOMAIN job'[w] = DOMAIN job[w]
  <2>1. {"todo", "at", "token", "value"} \subseteq DOMAIN job[w]
    BY <1>1 DEF JobTyped
  <2> QED
    BY <1>1, <1>3, <2>1
<1> QED
  BY <1>3, <1>4, <1>5, MovesOn

(* A message that is delivered has its watermark saved.                    *)
LEMMA DeliverKeeps ==
    ASSUME Typed, AllToTell, NEW w \in Worker, Deliver(w)
    PROVE  Typed' /\ AllToTell'
<1>1. DOMAIN job = Worker
  BY DEF Typed, JobsTyped
<1>2. /\ job[w].at = "computed" /\ UNCHANGED <<tables, ops, untold, silent>>
      /\ job' = [job EXCEPT ![w] = Advance(w)]
  BY DEF Deliver, sends
<1>3. DOMAIN job' = Worker /\ \A v \in Worker \ {w} : job'[v] = job[v]
  BY <1>1, <1>2
<1>4. job'[w] = Advance(w)
  BY <1>1, <1>2
<1> QED
  BY <1>2, <1>3, <1>4, MovesOn

(* What a worker forgets is known not to be told.                          *)
LEMMA LoseEmitsKeeps ==
    ASSUME Typed, AllToTell, NEW w \in Worker, LoseEmits(w)
    PROVE  Typed' /\ AllToTell'
<1>1. DOMAIN job = Worker
  BY DEF Typed, JobsTyped
<1>2. PICK j : j = [todo |-> <<>>, at |-> "rest", token |-> 0, value |-> Nothing]
  OBVIOUS
<1>3. /\ job' = [job EXCEPT ![w] = j] /\ silent' = silent \cup untold /\ untold' = untold
      /\ UNCHANGED <<tables, ops>>
  BY <1>2 DEF LoseEmits
<1>4. DOMAIN job' = Worker /\ (\A v \in Worker \ {w} : job'[v] = job[v]) /\ job'[w] = j
  BY <1>1, <1>3
<1>5. JobTyped(j)
  BY <1>2 DEF JobTyped
<1>6. JobsTyped'
  BY <1>4, <1>5 DEF Typed, JobsTyped
<1>7. TablesTyped' /\ NoMarkerAtHome'
  BY <1>3 DEF Typed, TablesTyped, NoMarkerAtHome, tables
<1>8. AllToTell'
  BY <1>3 DEF AllToTell
<1> QED
  BY <1>6, <1>7, <1>8 DEF Typed

(* The browsers save watermarks of their own and leave the jobs alone.     *)
LEMMA IdleKeeps ==
    ASSUME Typed, AllToTell, UNCHANGED <<tables, job, untold, silent, ops>>
    PROVE  Typed' /\ AllToTell'
<1>1. Typed'
  BY DEF Typed, TablesTyped, NoMarkerAtHome, JobsTyped, JobTyped, tables
<1>2. AllToTell'
  BY SMTT(60) DEF AllToTell, ToTell, Reaches, Left, tables
<1> QED
  BY <1>1, <1>2

(* A step of a browser changes no table, no job and nothing untold.        *)
LEMMA BrowseIsIdle ==
    ASSUME NEW c, Browse(c)
    PROVE  UNCHANGED <<tables, job, untold, silent, ops>>
<1>1. CASE \/ Connect(c) \/ BuildEventsInfo(c) \/ DispatchKey(c) \/ SaveKey(c) \/ ProcessMessage(c)
           \/ Disconnect(c) \/ Reload(c)
  BY <1>1 DEF Connect, BuildEventsInfo, DispatchKey, SaveKey, ProcessMessage, Disconnect, Reload, sends
<1>2. CASE StartSync(c) \/ SkipSync(c)
  BY <1>2 DEF StartSync, SkipSync, SetEventsInformation, sends
<1>3. CASE StoreKeys(c) \/ FetchFails(c)
  BY <1>3 DEF StoreKeys, FetchFails, SyncEnds, sends
<1> QED
  BY <1>1, <1>2, <1>3 DEF Browse

(* The inductive invariant.                                                *)
ToldInvariant == Typed /\ AllToTell

(* At first nothing is untold and nobody has a job.                        *)
LEMMA InitTold == ASSUME Init PROVE ToldInvariant
<1>1. PICK t \in Start : owner = t.owner /\ mission = t.mission /\ listed = t.listed /\ explored = t.explored
  BY DEF Init
<1>2. TablesTyped
  BY <1>1, StartAssumption DEF Init, TablesTyped
<1>3. NoMarkerAtHome
  BY <1>1, StartAssumption DEF NoMarkerAtHome
<1>4. PICK j : j = [todo |-> <<>>, at |-> "rest", token |-> 0, value |-> Nothing]
  OBVIOUS
<1>5. JobTyped(j)
  BY <1>4 DEF JobTyped
<1>6. job = [w \in Worker |-> j]
  BY <1>4 DEF Init
<1>7. JobsTyped
  BY <1>5, <1>6 DEF JobsTyped
<1>8. AllToTell
  BY DEF Init, AllToTell
<1> QED
  BY <1>2, <1>3, <1>7, <1>8 DEF ToldInvariant, Typed

(* Every step keeps the tables and the jobs, and what is untold to be told. *)
LEMMA NextTold == ASSUME ToldInvariant, [Next]_vars PROVE ToldInvariant'
<1> USE DEF ToldInvariant
<1>1. ASSUME NEW w \in Worker, Resting(w), \/ \E m \in DOMAIN mission : MissionStep(w, m)
                                           \/ \E u \in User : UserStep(w, u)
      PROVE  ToldInvariant'
  <2>1. Operated(w)
    BY <1>1, OperationTells
  <2> QED
    BY <1>1, <2>1, OperationKeeps
<1>2. ASSUME NEW w \in Worker, Emit(w) PROVE ToldInvariant'
  BY <1>2, ResolveKeeps, SaveWatermarkKeeps, ComputeValueKeeps, DeliverKeeps, LoseEmitsKeeps DEF Emit
<1>3. ASSUME NEW c \in Client, Browse(c) PROVE ToldInvariant'
  BY <1>3, BrowseIsIdle, IdleKeeps
<1>4. CASE UNCHANGED vars
  <2>1. UNCHANGED <<tables, job, untold, silent, ops>>
    BY <1>4 DEF vars, sends
  <2> QED
    BY <2>1, IdleKeeps
<1> QED
  BY <1>1, <1>2, <1>3, <1>4 DEF Next

(* The invariant holds in every behaviour.                                 *)
LEMMA ToldHolds == Spec => []ToldInvariant
<1>1. Init => ToldInvariant
  BY InitTold
<1>2. ToldInvariant /\ [Next]_vars => ToldInvariant'
  BY NextTold
<1> QED
  BY <1>1, <1>2, PTL DEF Spec

(* The tables, the markers and the jobs keep their shape.                  *)
THEOREM SpecTyped == Spec => []Typed
<1>1. ToldInvariant => Typed
  BY DEF ToldInvariant
<1> QED
  BY <1>1, ToldHolds, PTL

(* When all emitters have ended, every view that changed since its         *)
(* watermark was saved is one whose change the code does not announce.     *)
THEOREM SpecEveryChangeIsTold == Spec => []EveryChangeIsTold
<1>1. ToldInvariant => EveryChangeIsTold
  <2> SUFFICES ASSUME ToldInvariant, AllRest, NEW uk \in untold PROVE uk \in silent
    BY DEF EveryChangeIsTold
  <2>1. ASSUME NEW w \in Worker PROVE job[w].todo = <<>>
    BY DEF ToldInvariant, Typed, JobsTyped, JobTyped, AllRest, Resting
  <2>2. ~ToTell(uk[1], uk[2])
    BY <2>1 DEF ToTell
  <2> QED
    BY <2>2 DEF ToldInvariant, AllToTell
<1> QED
  BY <1>1, ToldHolds, PTL

------------------------------------------------------------------------------
(* What a browser and the messages to it know, and how old it is.          *)
View == (SUBSET Int) \cup (SUBSET (Int \X BOOLEAN)) \cup (SUBSET Planet)
        \cup (SUBSET (Planet \X (User \cup {NoUser, Nothing})))

(* What is computed for a player is a view.                                *)
LEMMA DispatchIsView ==
    ASSUME TablesTyped, NEW u \in User, NEW k \in Key PROVE Dispatch(u, k) \in View
<1>1. UnitMissions(u) \subseteq Int /\ BuildMissions(u) \subseteq Int
  BY DEF UnitMissions, BuildMissions, MissionsOf, TablesTyped
<1>2. EnemyMissions(u) \subseteq Int \X BOOLEAN
  <2>1. Threats(u) \subseteq Int
    BY DEF Threats, TablesTyped
  <2>2. \A p : IsExplored(u, p) \in BOOLEAN
    BY DEF IsExplored
  <2> QED
    BY <2>1, <2>2 DEF EnemyMissions
<1>3. OwnedPlanets(u) \subseteq Planet
  BY DEF OwnedPlanets
<1>4. ListedPlanets(u) \subseteq Planet \X (User \cup {NoUser, Nothing})
  BY DEF ListedPlanets, TablesTyped
<1>5. CASE k = "unit_mission_change"
  BY <1>1, <1>5 DEF Dispatch, View
<1>6. CASE k = "enemy_mission_change"
  BY <1>2, <1>6 DEF Dispatch, View
<1>7. CASE k = "unit_build_mission_change"
  BY <1>1, <1>7 DEF Dispatch, View
<1>8. CASE k = "planet_owned_change"
  BY <1>3, <1>8 DEF Dispatch, View
<1>9. CASE k = "planet_user_list_change"
  BY <1>4, <1>9 DEF Dispatch, View
<1> QED
  BY <1>5, <1>6, <1>7, <1>8, <1>9 DEF Key

(* The views are read from the tables.                                     *)
LEMMA SameViews ==
    ASSUME UNCHANGED tables PROVE \A u, k : Dispatch(u, k)' = Dispatch(u, k)
  BY DEF tables, Dispatch, UnitMissions, BuildMissions, MissionsOf, EnemyMissions, Threats, IsExplored,
         OwnedPlanets, ListedPlanets

(* The views of which an equal time says nothing.                          *)
Unsure == untold \cup crowded

(* The watermark of a view is the last second in which it was sent, if all *)
(* its sends since had a second of their own.                              *)
Tokens ==
    /\ token \in [Client -> [Key -> Nat \ {0}]] /\ watermark \in [Client -> [Key -> Nat \ {0}]]
    /\ \A c \in Client, k \in Key :
          /\ watermark[c][k] <= token[c][k]
          /\ <<c, k>> \notin crowded => watermark[c][k] = token[c][k]

(* A value sent with the token n is what the player has, if n is the last  *)
(* token and nothing changed since.                                        *)
Current(n, c, k, value) ==
    /\ n <= token[c][k]
    /\ n = token[c][k] /\ <<c, k>> \notin Unsure => value = Dispatch(c, k)

Message == [key : Key, token : Nat \ {0}, value : View]

WireOk(c) ==
    /\ wire[c] \in Seq(Message)
    /\ \A x : In(x, wire[c]) => Current(x.token, c, x.key, x.value)

JobOk(w) ==
    job[w].at \in {"saved", "computed"} =>
        /\ job[w].token \in Nat \ {0}
        /\ job[w].token <= token[job[w].todo[1][2]][job[w].todo[1][3]]
        /\ job[w].at = "computed" =>
              /\ job[w].value \in View
              /\ Current(job[w].token, job[w].todo[1][2], job[w].todo[1][3], job[w].value)

Seen(c, k) ==
    /\ info[c][k] # Nothing => info[c][k] \in Int /\ info[c][k] <= token[c][k]
    /\ k \in Key \ (lapsed[c] \cup fetch[c].keys) /\ info[c][k] = token[c][k] /\ <<c, k>> \notin Unsure
           => store[c][k] = Dispatch(c, k)

SeenOk(c) == DOMAIN info[c] = Key /\ DOMAIN store[c] = Key /\ \A k \in Key : Seen(c, k)

ReplyOk(c) ==
    reply[c] # Nothing => reply[c] \in [Key -> Nat] /\ \A k \in Key : reply[c][k] <= token[c][k]

(* The keys done have a token of their own; none is left of an answer.     *)
FetchOk(c) ==
    /\ {"keys", "todo", "data", "sent", "at"} \subseteq DOMAIN fetch[c]
    /\ fetch[c].keys \subseteq Key /\ fetch[c].todo \subseteq fetch[c].keys
    /\ DOMAIN fetch[c].data \subseteq fetch[c].keys
    /\ \A k \in fetch[c].keys \ fetch[c].todo :
          k \in DOMAIN fetch[c].sent /\ fetch[c].sent[k] \in Nat \ {0}
    /\ fetch[c].at \in {"reading", "saving"} => fetch[c].todo # {}
    /\ fetch[c].at = "answered" => fetch[c].todo = {}
    /\ phase[c] = "asking" => fetch[c].keys = {}

BrowserOk(c) == WireOk(c) /\ SeenOk(c) /\ ReplyOk(c) /\ FetchOk(c)

Browsers ==
    /\ DOMAIN wire = Client /\ DOMAIN info = Client /\ DOMAIN store = Client /\ DOMAIN reply = Client
    /\ DOMAIN fetch = Client /\ DOMAIN phase = Client /\ DOMAIN lapsed = Client

Fresh == Tokens /\ Browsers /\ (\A w \in Worker : JobOk(w)) /\ \A c \in Client : BrowserOk(c)

(* The last tokens grow, and what changes is untold.                       *)
Ages ==
    /\ Tokens'
    /\ \A c \in Client, k \in Key :
          /\ token[c][k] <= token'[c][k]
          /\ token'[c][k] = token[c][k] /\ <<c, k>> \notin Unsure'
                => <<c, k>> \notin Unsure /\ Dispatch(c, k)' = Dispatch(c, k)

(* The last seconds are numbers, and grow.                                 *)
LEMMA TokensGrow ==
    ASSUME Tokens, Ages, NEW c \in Client, NEW k \in Key
    PROVE  token[c][k] \in Nat /\ token'[c][k] \in Nat /\ token[c][k] <= token'[c][k]
<1>1. token[c][k] \in Nat
  BY DEF Tokens
<1>2. Tokens' /\ token[c][k] <= token'[c][k]
  BY DEF Ages
<1>3. token'[c][k] \in Nat
  BY <1>2 DEF Tokens
<1> QED
  BY <1>1, <1>2, <1>3

(* A value sent with a token ages with it.                                 *)
LEMMA CurrentStays ==
    ASSUME Tokens, Ages, NEW c \in Client, NEW k \in Key, NEW n \in Int, NEW value, Current(n, c, k, value)
    PROVE  Current(n, c, k, value)'
<1>1. token[c][k] \in Nat /\ token'[c][k] \in Nat /\ token[c][k] <= token'[c][k]
  BY TokensGrow
<1>2. CASE token'[c][k] = token[c][k]
  BY <1>1, <1>2 DEF Current, Ages
<1>3. CASE token'[c][k] # token[c][k]
  <2>1. n <= token'[c][k] /\ n # token'[c][k]
    BY <1>1, <1>3 DEF Current
  <2> QED
    BY <2>1 DEF Current
<1> QED
  BY <1>2, <1>3

(* Messages on their way age.                                              *)
LEMMA WireStays ==
    ASSUME Tokens, Ages, NEW c \in Client, WireOk(c), wire'[c] = wire[c] PROVE WireOk(c)'
<1>1. ASSUME NEW x, In(x, wire[c]) PROVE x.key \in Key /\ x.token \in Int
  <2>1. x \in Message
    BY <1>1, ElementOfSeq, LenProperties DEF In, WireOk
  <2> QED
    BY <2>1 DEF Message
<1>2. ASSUME NEW x, In(x, wire[c]) PROVE Current(x.token, c, x.key, x.value)'
  <2>1. PICK n, k, v : n = x.token /\ k = x.key /\ v = x.value
    OBVIOUS
  <2>2. Current(n, c, k, v)'
    BY <1>1, <1>2, <2>1, CurrentStays DEF WireOk
  <2> QED
    BY <2>1, <2>2
<1> QED
  BY <1>2 DEF WireOk, In

(* A job that is not done meanwhile ages.                                  *)
LEMMA JobStays ==
    ASSUME Typed, Tokens, Ages, NEW w \in Worker, JobOk(w), job'[w] = job[w] PROVE JobOk(w)'
<1>1. SUFFICES ASSUME job[w].at \in {"saved", "computed"} PROVE JobOk(w)'
  BY DEF JobOk
<1>2. PICK u, k, n, v : u = job[w].todo[1][2] /\ k = job[w].todo[1][3] /\ n = job[w].token /\ v = job[w].value
  OBVIOUS
<1>3. u \in Client /\ k \in Key
  BY <1>1, <1>2 DEF Typed, JobsTyped, JobTyped, Sends
<1>4. n \in Nat \ {0} /\ n <= token[u][k] /\ n <= token'[u][k]
  <2>1. token[u][k] \in Nat /\ token'[u][k] \in Nat /\ token[u][k] <= token'[u][k]
    BY <1>3, TokensGrow
  <2>2. n \in Nat \ {0} /\ n <= token[u][k]
    BY <1>1, <1>2 DEF JobOk
  <2> QED
    BY <2>1, <2>2
<1>5. ASSUME job[w].at = "computed" PROVE v \in View /\ Current(n, u, k, v)'
  <2>1. v \in View /\ Current(n, u, k, v)
    BY <1>1, <1>2, <1>5 DEF JobOk
  <2> QED
    BY <1>3, <1>4, <2>1, CurrentStays
<1> QED
  BY <1>2, <1>4, <1>5 DEF JobOk

(* What a browser has seen ages, while it is kept.                         *)
LEMMA SeenStays ==
    ASSUME Tokens, Ages, NEW c \in Client, NEW k \in Key, Seen(c, k),
           info'[c][k] = info[c][k], store'[c][k] = store[c][k],
           k \in lapsed[c] \cup fetch[c].keys => k \in lapsed'[c] \cup fetch'[c].keys
    PROVE  Seen(c, k)'
<1>1. token[c][k] \in Nat /\ token'[c][k] \in Nat /\ token[c][k] <= token'[c][k]
  BY TokensGrow
<1>2. info'[c][k] # Nothing => info'[c][k] \in Int /\ info'[c][k] <= token'[c][k]
  BY <1>1 DEF Seen
<1>3. ASSUME k \in Key \ (lapsed'[c] \cup fetch'[c].keys), info'[c][k] = token'[c][k], <<c, k>> \notin Unsure'
      PROVE  store'[c][k] = Dispatch(c, k)'
  <2>1. info[c][k] # Nothing
    BY <1>1, <1>3, SyncAssumption
  <2>2. token'[c][k] = token[c][k]
    BY <1>1, <1>3, <2>1 DEF Seen
  <2>3. <<c, k>> \notin Unsure /\ Dispatch(c, k)' = Dispatch(c, k)
    BY <1>3, <2>2 DEF Ages
  <2> QED
    BY <1>3, <2>2, <2>3 DEF Seen
<1> QED
  BY <1>2, <1>3 DEF Seen

(* The watermarks sent to a browser age.                                   *)
LEMMA ReplyStays ==
    ASSUME Tokens, Ages, NEW c \in Client, ReplyOk(c), reply'[c] = reply[c] PROVE ReplyOk(c)'
<1>1. \A k \in Key : token[c][k] \in Nat /\ token'[c][k] \in Nat /\ token[c][k] <= token'[c][k]
  BY TokensGrow
<1> QED
  BY <1>1 DEF ReplyOk

(* A browser that does nothing meanwhile ages.                             *)
LEMMA BrowserStays ==
    ASSUME Tokens, Ages, NEW c \in Client, BrowserOk(c), wire'[c] = wire[c], info'[c] = info[c],
           store'[c] = store[c], reply'[c] = reply[c], fetch'[c] = fetch[c], phase'[c] = phase[c],
           lapsed'[c] = lapsed[c]
    PROVE  BrowserOk(c)'
<1>1. WireOk(c)'
  BY WireStays DEF BrowserOk
<1>2. SeenOk(c)'
  BY SeenStays DEF BrowserOk, SeenOk
<1>3. ReplyOk(c)'
  BY ReplyStays DEF BrowserOk
<1>4. FetchOk(c)'
  BY DEF BrowserOk, FetchOk
<1> QED
  BY <1>1, <1>2, <1>3, <1>4 DEF BrowserOk

(* A step that changes no table and saves nothing ages nothing.            *)
LEMMA AgesQuietly ==
    ASSUME Tokens, UNCHANGED <<tables, token, watermark, crowded, untold>> PROVE Ages
<1>1. Tokens'
  BY DEF Tokens
<1>2. \A c \in Client, k \in Key : token[c][k] <= token'[c][k] /\ Dispatch(c, k)' = Dispatch(c, k)
  BY SameViews DEF Tokens
<1>3. Unsure' = Unsure
  BY DEF Unsure
<1> QED
  BY <1>1, <1>2, <1>3 DEF Ages

(* What an operation changes is untold.                                    *)
LEMMA AgesByCommit ==
    ASSUME Tokens, NEW w, NEW todo, NEW silence, Commit(w, todo, silence) PROVE Ages
<1>1. Tokens'
  BY DEF Tokens, Commit
<1>2. /\ token' = token /\ crowded' = crowded
      /\ untold' = untold \cup {uk \in User \X Key : Dispatch(uk[1], uk[2])' # Dispatch(uk[1], uk[2])}
  BY DEF Commit
<1>3. ASSUME NEW c \in Client, NEW k \in Key, <<c, k>> \notin Unsure'
      PROVE  <<c, k>> \notin Unsure /\ Dispatch(c, k)' = Dispatch(c, k)
  <2>1. <<c, k>> \in User \X Key
    BY SyncAssumption
  <2>2. PICK uk \in User \X Key : uk = <<c, k>>
    BY <2>1
  <2>3. Dispatch(uk[1], uk[2])' = Dispatch(uk[1], uk[2])
    BY <1>2, <1>3, <2>2 DEF Unsure
  <2> QED
    BY <1>2, <1>3, <2>2, <2>3 DEF Unsure
<1>4. \A c \in Client, k \in Key : token[c][k] <= token'[c][k]
  BY <1>2 DEF Tokens
<1> QED
  BY <1>1, <1>3, <1>4 DEF Ages

(* A watermark that is saved makes every older token old, or its view      *)
(* crowded.                                                                *)
LEMMA AgesBySave ==
    ASSUME Tokens, UNCHANGED tables, NEW u \in Client, NEW k \in Key, NEW n \in Seconds(u, k), Save(u, k, n),
           untold \ {<<u, k>>} \subseteq untold'
    PROVE  Ages /\ n <= token'[u][k] /\ n \in Nat \ {0}
<1>1. token[u][k] \in Nat \ {0} /\ n \in Nat \ {0}
  BY DEF Tokens, Seconds
<1>2. /\ watermark' = [watermark EXCEPT ![u][k] = n]
      /\ \/ /\ n > token[u][k] /\ token' = [token EXCEPT ![u][k] = n]
            /\ crowded' = crowded \ {<<u, k>>}
         \/ n <= token[u][k] /\ token' = token /\ crowded' = crowded \cup {<<u, k>>}
  BY DEF Save
<1>3. \A c \in Client, l \in Key : token[c][l] \in Nat /\ watermark[c][l] \in Nat
  BY DEF Tokens
<1>4. ASSUME NEW c \in Client, NEW l \in Key, <<c, l>> # <<u, k>>
      PROVE  /\ token'[c][l] = token[c][l] /\ watermark'[c][l] = watermark[c][l]
             /\ <<c, l>> \in crowded' <=> <<c, l>> \in crowded
  BY <1>2, <1>4 DEF Tokens
<1>5. /\ watermark'[u][k] = n /\ n <= token'[u][k] /\ token[u][k] <= token'[u][k]
      /\ \/ token[u][k] # token'[u][k] /\ token'[u][k] = n
         \/ <<u, k>> \in crowded'
  BY <1>1, <1>2 DEF Tokens
<1>6. Tokens'
  <2>1. token' \in [Client -> [Key -> Nat \ {0}]] /\ watermark' \in [Client -> [Key -> Nat \ {0}]]
    BY <1>1, <1>2 DEF Tokens
  <2>2. ASSUME NEW c \in Client, NEW l \in Key
        PROVE  /\ watermark'[c][l] <= token'[c][l]
               /\ <<c, l>> \notin crowded' => watermark'[c][l] = token'[c][l]
    <3>1. CASE <<c, l>> = <<u, k>>
      BY <1>5, <3>1
    <3>2. CASE <<c, l>> # <<u, k>>
      BY <1>4, <3>2 DEF Tokens
    <3> QED
      BY <3>1, <3>2
  <2> QED
    BY <2>1, <2>2 DEF Tokens
<1>7. ASSUME NEW c \in Client, NEW l \in Key
      PROVE  /\ token[c][l] <= token'[c][l]
             /\ token'[c][l] = token[c][l] /\ <<c, l>> \notin Unsure'
                   => <<c, l>> \notin Unsure /\ Dispatch(c, l)' = Dispatch(c, l)
  <2>1. CASE <<c, l>> = <<u, k>>
    BY <1>5, <2>1 DEF Unsure
  <2>2. CASE <<c, l>> # <<u, k>>
    <3>1. token'[c][l] = token[c][l] /\ token[c][l] \in Nat
      BY <1>3, <1>4, <2>2
    <3>2. <<c, l>> \in Unsure => <<c, l>> \in Unsure'
      BY <1>4, <2>2 DEF Unsure
    <3>3. Dispatch(c, l)' = Dispatch(c, l)
      BY SameViews
    <3> QED
      BY <3>1, <3>2, <3>3
  <2> QED
    BY <2>1, <2>2
<1> QED
  BY <1>1, <1>5, <1>6, <1>7 DEF Ages

(* A step of a worker, and one of a browser.                               *)
LEMMA FreshByWorker ==
    ASSUME Typed, Fresh, Ages, NEW w \in Worker, \A v \in Worker \ {w} : job'[v] = job[v], JobOk(w)',
           UNCHANGED <<info, store, reply, fetch, phase, lapsed>>, DOMAIN wire' = Client,
           \A c \in Client : WireOk(c)'
    PROVE  Fresh'
<1>1. Tokens'
  BY DEF Ages
<1>2. ASSUME NEW v \in Worker PROVE JobOk(v)'
  <2>1. CASE v = w
    BY <2>1
  <2>2. CASE v # w
    BY <2>2, JobStays DEF Fresh
  <2> QED
    BY <2>1, <2>2
<1>3. ASSUME NEW c \in Client PROVE BrowserOk(c)'
  <2>1. SeenOk(c)'
    BY SeenStays DEF Fresh, BrowserOk, SeenOk
  <2>2. ReplyOk(c)'
    BY ReplyStays DEF Fresh, BrowserOk
  <2>3. FetchOk(c)'
    BY DEF Fresh, BrowserOk, FetchOk
  <2> QED
    BY <2>1, <2>2, <2>3 DEF BrowserOk
<1>4. Browsers'
  BY DEF Fresh, Browsers
<1> QED
  BY <1>1, <1>2, <1>3, <1>4 DEF Fresh

(* A step of a browser concerns that browser alone.                        *)
LEMMA FreshByBrowser ==
    ASSUME Typed, Fresh, Ages, UNCHANGED job, Browsers', NEW c \in Client, BrowserOk(c)',
           \A d \in Client \ {c} :
               /\ wire'[d] = wire[d] /\ info'[d] = info[d] /\ store'[d] = store[d] /\ reply'[d] = reply[d]
               /\ fetch'[d] = fetch[d] /\ phase'[d] = phase[d] /\ lapsed'[d] = lapsed[d]
    PROVE  Fresh'
<1>1. Tokens'
  BY DEF Ages
<1>2. \A w \in Worker : JobOk(w)'
  BY JobStays DEF Fresh
<1>3. ASSUME NEW d \in Client PROVE BrowserOk(d)'
  <2>1. CASE d = c
    BY <2>1
  <2>2. CASE d # c
    BY <2>2, BrowserStays DEF Fresh
  <2> QED
    BY <2>1, <2>2
<1> QED
  BY <1>1, <1>2, <1>3 DEF Fresh

------------------------------------------------------------------------------
(* The workers.                                                            *)
LEMMA WiresStay ==
    ASSUME Fresh, Ages, UNCHANGED wire PROVE DOMAIN wire' = Client /\ \A c \in Client : WireOk(c)'
  BY WireStays DEF Fresh, Browsers, BrowserOk

(* An operation leaves what the browsers know as old as it says.           *)
LEMMA OperationFresh ==
    ASSUME Typed, Fresh, NEW w \in Worker, Operated(w)
    PROVE  Fresh'
<1>1. PICK todo, silence : todo \in Seq(Item) /\ Commit(w, todo, silence)
  BY DEF Operated, Operates
<1>2. Ages
  BY <1>1, AgesByCommit DEF Fresh
<1>3. /\ \A v \in Worker \ {w} : job'[v] = job[v]
      /\ job'[w].at \in {"rest", "emit"}
  BY <1>1, CommitJobs DEF Typed
<1>4. JobOk(w)'
  BY <1>3 DEF JobOk
<1>5. UNCHANGED <<wire, info, store, reply, fetch, phase, lapsed>>
  BY <1>1 DEF Commit, browser
<1> QED
  BY <1>2, <1>3, <1>4, <1>5, WiresStay, FreshByWorker

(* A watermark saved by a worker is a new token, for a value to come.      *)
LEMMA SaveWatermarkFresh ==
    ASSUME Typed, Fresh, NEW w \in Worker, SaveWatermark(w)
    PROVE  Fresh'
<1>1. JobTyped(job[w]) /\ DOMAIN job = Worker
  BY DEF Typed, JobsTyped
<1>2. PICK head, u, k : head = Head1(w) /\ u = head[2] /\ k = head[3]
  OBVIOUS
<1>3. /\ job[w].at = "emit" /\ head[1] = "send" /\ UNCHANGED <<tables, browser>>
      /\ untold' = untold \ {<<u, k>>}
      /\ \/ /\ u \in Client
            /\ \E n \in Seconds(u, k) :
                  /\ Save(u, k, n)
                  /\ job' = [job EXCEPT ![w] = [job[w] EXCEPT !.at = "saved", !.token = n]]
         \/ /\ u \notin Client /\ job' = [job EXCEPT ![w] = Advance(w)]
            /\ UNCHANGED <<token, watermark, crowded>>
  BY <1>2 DEF SaveWatermark
<1>4. /\ job[w].todo \in Seq(Item) /\ job[w].todo # <<>>
      /\ {"todo", "at", "token", "value"} \subseteq DOMAIN job[w]
  BY <1>1, <1>3 DEF JobTyped
<1>5. head = job[w].todo[1] /\ head \in Item
  BY <1>2, <1>4, HeadTailProperties DEF Head1
<1>6. u \in User /\ k \in Key /\ head = <<"send", u, k>>
  <2>1. head \in Sends
    BY <1>3, <1>5, ItemShape
  <2> QED
    BY <1>2, <2>1 DEF Sends
<1>7. UNCHANGED <<wire, info, store, reply, fetch, phase, lapsed>> /\ \A v \in Worker \ {w} : job'[v] = job[v]
  BY <1>1, <1>3 DEF browser
<1>8. CASE u \in Client
  <2>1. PICK n \in Seconds(u, k) :
        /\ Save(u, k, n)
        /\ job' = [job EXCEPT ![w] = [job[w] EXCEPT !.at = "saved", !.token = n]]
    BY <1>3, <1>8
  <2>2. untold \ {<<u, k>>} \subseteq untold'
    BY <1>3
  <2>3. Ages /\ n <= token'[u][k] /\ n \in Nat \ {0}
    <3>1. Tokens /\ UNCHANGED tables /\ u \in Client /\ k \in Key
      BY <1>2, <1>3, <1>6, <1>8 DEF Fresh
    <3> QED
      BY <2>1, <2>2, <3>1, AgesBySave
  <2>4. job'[w].todo = job[w].todo /\ job'[w].at = "saved" /\ job'[w].token = n
    BY <1>1, <1>4, <2>1
  <2>5. JobOk(w)'
    <3>1. n <= token'[u][k]
      BY <2>3
    <3>2. job'[w].todo[1][2] = u /\ job'[w].todo[1][3] = k
      BY <1>2, <1>5, <2>4
    <3> QED
      BY <2>3, <2>4, <3>1, <3>2 DEF JobOk
  <2> QED
    BY <1>7, <2>3, <2>5, WiresStay, FreshByWorker
<1>9. CASE u \notin Client
  <2>1. job' = [job EXCEPT ![w] = Advance(w)] /\ UNCHANGED <<token, watermark, crowded>>
    BY <1>3, <1>9
  <2>2. Ages
    <3>1. Tokens'
      BY <2>1 DEF Fresh, Tokens
    <3>2. \A c \in Client, l \in Key : token[c][l] <= token'[c][l] /\ Dispatch(c, l)' = Dispatch(c, l)
      <4>1. \A c \in Client, l \in Key : token[c][l] <= token[c][l]
        BY DEF Fresh, Tokens
      <4> QED
        BY <1>3, <2>1, <4>1, SameViews
    <3>3. \A c \in Client, l \in Key : <<c, l>> \notin Unsure' => <<c, l>> \notin Unsure
      BY <1>3, <1>9, <2>1 DEF Unsure
    <3> QED
      BY <3>1, <3>2, <3>3 DEF Ages
  <2>3. JobOk(w)'
    <3>1. job'[w].at \in {"rest", "emit"}
      BY <1>1, <2>1 DEF Advance
    <3> QED
      BY <3>1 DEF JobOk
  <2> QED
    BY <1>7, <2>2, <2>3, WiresStay, FreshByWorker
<1> QED
  BY <1>8, <1>9

(* A step of a worker that changes its job alone.                          *)
LEMMA QuietFresh ==
    ASSUME Typed, Fresh, UNCHANGED <<tables, browser, token, watermark, crowded, untold>>, NEW w \in Worker,
           \A v \in Worker \ {w} : job'[v] = job[v], JobOk(w)'
    PROVE  Fresh'
<1>1. Ages
  BY AgesQuietly DEF Fresh
<1>2. UNCHANGED <<wire, info, store, reply, fetch, phase, lapsed>>
  BY DEF browser
<1> QED
  BY <1>1, <1>2, WiresStay, FreshByWorker

(* Recipients that are looked up change no value.                          *)
LEMMA ResolveFresh ==
    ASSUME Typed, Fresh, NEW w \in Worker, Resolve(w)
    PROVE  Fresh'
<1>1. JobTyped(job[w]) /\ DOMAIN job = Worker /\ {"todo", "at", "token", "value"} \subseteq DOMAIN job[w]
  BY DEF Typed, JobsTyped, JobTyped
<1>2. PICK todo : /\ UNCHANGED <<tables, browser, token, watermark, crowded, untold>>
                  /\ job' = [job EXCEPT ![w] = [job[w] EXCEPT !.todo = todo,
                                                              !.at = IF todo = <<>> THEN "rest" ELSE "emit"]]
  BY DEF Resolve, sends
<1>3. job'[w].at \in {"rest", "emit"} /\ \A v \in Worker \ {w} : job'[v] = job[v]
  BY <1>1, <1>2
<1>4. JobOk(w)'
  BY <1>3 DEF JobOk
<1> QED
  BY <1>2, <1>3, <1>4, QuietFresh

(* Lost emits leave the views untold.                                      *)
LEMMA LoseEmitsFresh ==
    ASSUME Typed, Fresh, NEW w \in Worker, LoseEmits(w)
    PROVE  Fresh'
<1>1. DOMAIN job = Worker
  BY DEF Typed, JobsTyped
<1>2. PICK j : j = [todo |-> <<>>, at |-> "rest", token |-> 0, value |-> Nothing]
  OBVIOUS
<1>3. UNCHANGED <<tables, browser, token, watermark, crowded, untold>> /\ job' = [job EXCEPT ![w] = j]
  BY <1>2 DEF LoseEmits
<1>4. job'[w].at = "rest" /\ \A v \in Worker \ {w} : job'[v] = job[v]
  BY <1>1, <1>2, <1>3
<1>5. JobOk(w)'
  BY <1>4 DEF JobOk
<1> QED
  BY <1>3, <1>4, <1>5, QuietFresh

(* The value is read after the watermark was saved.                        *)
LEMMA ComputeValueFresh ==
    ASSUME Typed, Fresh, NEW w \in Worker, ComputeValue(w)
    PROVE  Fresh'
<1>1. JobTyped(job[w]) /\ DOMAIN job = Worker
  BY DEF Typed, JobsTyped
<1>2. PICK u, k, value : u = Head1(w)[2] /\ k = Head1(w)[3] /\ value = Dispatch(u, k)
  OBVIOUS
<1>3. /\ job[w].at = "saved" /\ UNCHANGED <<tables, browser, token, watermark, crowded, untold>>
      /\ \/ job' = [job EXCEPT ![w] = [job[w] EXCEPT !.at = "computed", !.value = value]]
         \/ job' = [job EXCEPT ![w] = Advance(w)]
  BY <1>2 DEF ComputeValue, sends
<1>4. \A v \in Worker \ {w} : job'[v] = job[v]
  BY <1>1, <1>3
<1>5. CASE job' = [job EXCEPT ![w] = Advance(w)]
  <2>1. job'[w].at \in {"rest", "emit"}
    BY <1>1, <1>5 DEF Advance
  <2>2. JobOk(w)'
    BY <2>1 DEF JobOk
  <2> QED
    BY <1>3, <1>4, <2>2, QuietFresh
<1>6. CASE job' = [job EXCEPT ![w] = [job[w] EXCEPT !.at = "computed", !.value = value]]
  <2>1. /\ job'[w].at = "computed" /\ job'[w].value = value
        /\ job'[w].token = job[w].token /\ job'[w].todo = job[w].todo
    <3>1. {"todo", "at", "token", "value"} \subseteq DOMAIN job[w]
      BY <1>1 DEF JobTyped
    <3> QED
      BY <1>1, <1>6, <3>1
  <2>2. u = job[w].todo[1][2] /\ k = job[w].todo[1][3]
    BY <1>2 DEF Head1
  <2>3. u \in Client /\ u \in User /\ k \in Key
    BY <1>1, <1>3, <2>2, SyncAssumption DEF JobTyped, Sends
  <2>4. value \in View
    BY <1>2, <2>3, DispatchIsView DEF Typed
  <2>5. job[w].token \in Nat \ {0} /\ job[w].token <= token[u][k]
    BY <1>3, <2>2 DEF Fresh, JobOk
  <2>6. value = Dispatch(u, k)' /\ token' = token
    BY <1>2, <1>3, SameViews
  <2>7. Current(job[w].token, u, k, value)'
    BY SMTT(60), <2>1, <2>5, <2>6 DEF Current
  <2>8. JobOk(w)'
    BY <2>1, <2>2, <2>4, <2>5, <2>6, <2>7 DEF JobOk
  <2> QED
    BY <1>3, <1>4, <2>8, QuietFresh
<1> QED
  BY <1>3, <1>5, <1>6

(* A message carries the token its value was computed under.               *)
LEMMA DeliverFresh ==
    ASSUME Typed, Fresh, NEW w \in Worker, Deliver(w)
    PROVE  Fresh'
<1>1. JobTyped(job[w]) /\ DOMAIN job = Worker
  BY DEF Typed, JobsTyped
<1>2. PICK u, k, n, value : /\ u = Head1(w)[2] /\ k = Head1(w)[3]
                            /\ n = job[w].token /\ value = job[w].value
  OBVIOUS
<1>3. PICK message : message = [key |-> k, token |-> n, value |-> value]
  OBVIOUS
<1>4. /\ job[w].at = "computed" /\ UNCHANGED <<tables, token, watermark, crowded, untold>>
      /\ UNCHANGED <<info, store, reply, fetch, phase, lapsed>>
      /\ job' = [job EXCEPT ![w] = Advance(w)]
      /\ wire' = IF u \in room THEN [wire EXCEPT ![u] = Append(@, message)] ELSE wire
  BY <1>2, <1>3 DEF Deliver, sends
<1>5. Ages
  BY <1>4, AgesQuietly DEF Fresh
<1>6. JobOk(w)' /\ \A v \in Worker \ {w} : job'[v] = job[v]
  <2>1. job'[w].at \in {"rest", "emit"} /\ \A v \in Worker \ {w} : job'[v] = job[v]
    BY <1>1, <1>4 DEF Advance
  <2> QED
    BY <2>1 DEF JobOk
<1>7. u = job[w].todo[1][2] /\ k = job[w].todo[1][3]
  BY <1>2 DEF Head1
<1>8. u \in Client /\ k \in Key
  BY <1>1, <1>4, <1>7 DEF JobTyped, Sends
<1>9. n \in Nat \ {0} /\ value \in View /\ Current(n, u, k, value)
  BY <1>2, <1>4, <1>7 DEF Fresh, JobOk
<1>10. Current(n, u, k, value)'
  BY <1>5, <1>8, <1>9, CurrentStays DEF Fresh
<1>11. message \in Message /\ message.key = k /\ message.token = n /\ message.value = value
  BY <1>3, <1>8, <1>9 DEF Message
<1>12. ASSUME NEW c \in Client PROVE WireOk(c)'
  <2>1. CASE wire'[c] = wire[c]
    BY <1>5, <2>1, WireStays DEF Fresh, BrowserOk
  <2>2. CASE c = u /\ wire'[c] = Append(wire[c], message)
    <3>1. PICK old, one : old = wire[c] /\ one = <<message>>
      OBVIOUS
    <3>2. old \in Seq(Message) /\ one \in Seq(Message)
      BY <1>11, <3>1 DEF Fresh, BrowserOk, WireOk
    <3>3. wire'[c] = old \o one
      BY <2>2, <3>1, <3>2, AppendIsConcat
    <3>4. wire'[c] \in Seq(Message) /\ \A x : In(x, wire'[c]) <=> In(x, old) \/ In(x, one)
      BY <3>2, <3>3, InConcat
    <3>5. \A x : In(x, one) => x = message
      BY <1>11, <3>1, InOne
    <3>6. ASSUME NEW x, In(x, old) PROVE Current(x.token, c, x.key, x.value)'
      <4>1. x \in Message
        BY <3>2, <3>6, ElementOfSeq, LenProperties DEF In
      <4>2. PICK m, l, v : m = x.token /\ l = x.key /\ v = x.value
        OBVIOUS
      <4>3. m \in Int /\ l \in Key
        BY <4>1, <4>2 DEF Message
      <4>4. Current(m, c, l, v)
        BY <3>1, <3>6, <4>2 DEF Fresh, BrowserOk, WireOk
      <4>5. Current(m, c, l, v)'
        BY <1>5, <4>3, <4>4, CurrentStays DEF Fresh
      <4> QED
        BY <4>2, <4>5
    <3>7. Current(message.token, c, message.key, message.value)'
      BY <1>10, <1>11, <2>2
    <3> QED
      BY <3>4, <3>5, <3>6, <3>7 DEF WireOk
  <2> QED
    BY <1>4, <2>1, <2>2, <1>8 DEF Fresh, Browsers
<1>13. DOMAIN wire' = Client
  BY <1>4 DEF Fresh, Browsers
<1> QED
  BY <1>4, <1>5, <1>6, <1>12, <1>13, FreshByWorker

------------------------------------------------------------------------------
(* The browsers.                                                           *)
LEMMA ConnectFresh ==
    ASSUME Typed, Fresh, NEW c \in Client, Connect(c) PROVE Fresh'
<1>1. /\ UNCHANGED <<tables, token, watermark, crowded, untold, job, wire, reply, fetch, store, info, lapsed>>
      /\ fetch[c] = NoFetch
      /\ phase' = [phase EXCEPT ![c] = "deaf"] \/ phase' = [phase EXCEPT ![c] = "asking"]
  BY DEF Connect, sends
<1>2. Ages
  BY <1>1, AgesQuietly DEF Fresh
<1>3. DOMAIN phase' = Client /\ \A d \in Client \ {c} : phase'[d] = phase[d]
  BY <1>1 DEF Fresh, Browsers
<1>4. Browsers'
  BY <1>1, <1>3 DEF Fresh, Browsers
<1>5. WireOk(c)' /\ SeenOk(c)' /\ ReplyOk(c)'
  BY <1>1, <1>2, WireStays, SeenStays, ReplyStays DEF Fresh, BrowserOk, SeenOk
<1>6. FetchOk(c)'
  BY <1>1 DEF Fresh, BrowserOk, FetchOk, NoFetch
<1> QED
  BY <1>1, <1>2, <1>3, <1>4, <1>5, <1>6, FreshByBrowser DEF BrowserOk

(* The watermarks the server reads are no later than the last tokens.      *)
LEMMA BuildEventsInfoFresh ==
    ASSUME Typed, Fresh, NEW c \in Client, BuildEventsInfo(c) PROVE Fresh'
<1>1. /\ UNCHANGED <<tables, token, watermark, crowded, untold, job, wire, fetch, store, info, lapsed, phase>>
      /\ reply' = [reply EXCEPT ![c] = watermark[c]]
  BY DEF BuildEventsInfo, sends
<1>2. Ages
  BY <1>1, AgesQuietly DEF Fresh
<1>3. DOMAIN reply' = Client /\ reply'[c] = watermark[c] /\ \A d \in Client \ {c} : reply'[d] = reply[d]
  BY <1>1 DEF Fresh, Browsers, Tokens
<1>4. Browsers'
  BY <1>1, <1>3 DEF Fresh, Browsers
<1>5. WireOk(c)' /\ SeenOk(c)'
  BY <1>1, <1>2, WireStays, SeenStays DEF Fresh, BrowserOk, SeenOk
<1>6. ReplyOk(c)'
  <2>1. watermark[c] \in [Key -> Nat \ {0}]
    BY DEF Fresh, Tokens
  <2>2. watermark[c] \in [Key -> Nat] /\ \A k \in Key : watermark[c][k] <= token[c][k]
    BY <2>1 DEF Fresh, Tokens
  <2> QED
    BY <1>1, <1>3, <2>2 DEF ReplyOk
<1>7. FetchOk(c)'
  BY <1>1 DEF Fresh, BrowserOk, FetchOk
<1> QED
  BY <1>1, <1>2, <1>3, <1>4, <1>5, <1>6, <1>7, FreshByBrowser DEF BrowserOk

(* What the server sent replaces what the browser has seen, of the keys    *)
(* that are then asked for, or have lapsed.                                *)
LEMMA SetEventsInformationSeen ==
    ASSUME Typed, Fresh, NEW c \in Client, SetEventsInformation(c),
           Changed(c) \subseteq lapsed'[c] \cup fetch'[c].keys, lapsed[c] \subseteq lapsed'[c]
    PROVE  /\ Ages /\ WireOk(c)' /\ SeenOk(c)' /\ ReplyOk(c)' /\ fetch[c].keys = {}
           /\ UNCHANGED <<job, wire, store>>
           /\ DOMAIN info' = Client /\ DOMAIN reply' = Client
           /\ \A d \in Client \ {c} : info'[d] = info[d] /\ reply'[d] = reply[d]
<1>1. /\ UNCHANGED <<tables, token, watermark, crowded, untold, job, wire, store>>
      /\ phase[c] = "asking" /\ reply[c] # Nothing
      /\ info' = [info EXCEPT ![c] = [k \in Key |-> IF reply[c][k] = 0 THEN Nothing ELSE reply[c][k]]]
      /\ reply' = [reply EXCEPT ![c] = Nothing]
  BY DEF SetEventsInformation, sends
<1>2. Ages
  BY <1>1, AgesQuietly DEF Fresh
<1>3. /\ DOMAIN info' = Client /\ DOMAIN reply' = Client
      /\ \A d \in Client \ {c} : info'[d] = info[d] /\ reply'[d] = reply[d]
      /\ info'[c] = [k \in Key |-> IF reply[c][k] = 0 THEN Nothing ELSE reply[c][k]]
      /\ reply'[c] = Nothing
  BY <1>1 DEF Fresh, Browsers
<1>4. WireOk(c)'
  BY <1>1, <1>2, WireStays DEF Fresh, BrowserOk
<1>5. ReplyOk(c)'
  BY <1>3 DEF ReplyOk
<1>6. fetch[c].keys = {}
  BY <1>1 DEF Fresh, BrowserOk, FetchOk
<1>7. ASSUME NEW k \in Key PROVE Seen(c, k)'
  <2>1. reply[c][k] \in Nat /\ reply[c][k] <= token[c][k]
    BY <1>1 DEF Fresh, BrowserOk, ReplyOk
  <2>2. info'[c][k] = IF reply[c][k] = 0 THEN Nothing ELSE reply[c][k]
    BY <1>3
  <2>3. CASE k \in Changed(c)
    BY <1>1, <2>1, <2>2, <2>3 DEF Seen
  <2>4. CASE k \notin Changed(c)
    <3>1. info'[c][k] = info[c][k]
      BY <2>2, <2>4 DEF Changed
    <3> QED
      BY <1>1, <1>2, <1>6, <3>1, SeenStays DEF Fresh, BrowserOk, SeenOk
  <2> QED
    BY <2>3, <2>4
<1>8. SeenOk(c)'
  BY <1>1, <1>3, <1>7 DEF SeenOk, Fresh, BrowserOk
<1> QED
  BY <1>1, <1>2, <1>3, <1>4, <1>5, <1>6, <1>8

(* The keys that changed are fetched.                                      *)
LEMMA StartSyncFresh ==
    ASSUME Typed, Fresh, NEW c \in Client, StartSync(c) PROVE Fresh'
<1>1. PICK f : f = [keys |-> Changed(c), todo |-> Changed(c), data |-> <<>>, sent |-> <<>>, at |-> "reading"]
  OBVIOUS
<1>2. /\ SetEventsInformation(c) /\ UNCHANGED lapsed
      /\ \/ /\ Changed(c) = {} /\ phase' = [phase EXCEPT ![c] = "ready"] /\ UNCHANGED fetch
         \/ /\ Changed(c) # {} /\ phase' = [phase EXCEPT ![c] = "fetching"]
            /\ fetch' = [fetch EXCEPT ![c] = f]
  BY <1>1 DEF StartSync
<1>3. /\ DOMAIN fetch' = Client /\ DOMAIN phase' = Client /\ phase'[c] # "asking"
      /\ fetch'[c] = fetch[c] \/ (Changed(c) # {} /\ fetch'[c] = f)
      /\ \A d \in Client \ {c} : fetch'[d] = fetch[d] /\ phase'[d] = phase[d]
  BY <1>2 DEF Fresh, Browsers
<1>4. Changed(c) = {} \/ fetch'[c].keys = Changed(c)
  BY <1>1, <1>2 DEF Fresh, Browsers
<1>5. Changed(c) \subseteq lapsed'[c] \cup fetch'[c].keys /\ lapsed[c] \subseteq lapsed'[c]
  BY <1>2, <1>4
<1>6. /\ Ages /\ WireOk(c)' /\ SeenOk(c)' /\ ReplyOk(c)' /\ UNCHANGED <<job, wire, store>>
      /\ DOMAIN info' = Client /\ DOMAIN reply' = Client
      /\ \A d \in Client \ {c} : info'[d] = info[d] /\ reply'[d] = reply[d]
  BY <1>2, <1>5, SetEventsInformationSeen
<1>7. FetchOk(c)'
  <2>1. Changed(c) \subseteq Key
    BY DEF Changed
  <2>2. CASE fetch'[c] = fetch[c]
    BY <1>3, <2>2 DEF Fresh, BrowserOk, FetchOk
  <2>3. CASE fetch'[c] = f /\ Changed(c) # {}
    BY <1>1, <1>3, <2>1, <2>3 DEF FetchOk
  <2> QED
    BY <1>3, <2>2, <2>3
<1>8. Browsers'
  BY <1>2, <1>3, <1>6 DEF Fresh, Browsers
<1> QED
  BY <1>2, <1>3, <1>6, <1>7, <1>8, FreshByBrowser DEF BrowserOk

(* The keys that changed lapse.                                            *)
LEMMA SkipSyncFresh ==
    ASSUME Typed, Fresh, NEW c \in Client, SkipSync(c) PROVE Fresh'
<1>1. /\ SetEventsInformation(c) /\ UNCHANGED fetch /\ phase' = [phase EXCEPT ![c] = "ready"]
      /\ lapsed' = [lapsed EXCEPT ![c] = lapsed[c] \cup Changed(c)]
  BY DEF SkipSync
<1>2. /\ DOMAIN lapsed' = Client /\ DOMAIN phase' = Client /\ phase'[c] # "asking"
      /\ lapsed'[c] = lapsed[c] \cup Changed(c)
      /\ \A d \in Client \ {c} : lapsed'[d] = lapsed[d] /\ phase'[d] = phase[d]
  BY <1>1 DEF Fresh, Browsers
<1>3. Changed(c) \subseteq lapsed'[c] \cup fetch'[c].keys /\ lapsed[c] \subseteq lapsed'[c]
  BY <1>2
<1>4. /\ Ages /\ WireOk(c)' /\ SeenOk(c)' /\ ReplyOk(c)' /\ UNCHANGED <<job, wire, store>>
      /\ DOMAIN info' = Client /\ DOMAIN reply' = Client
      /\ \A d \in Client \ {c} : info'[d] = info[d] /\ reply'[d] = reply[d]
  BY <1>1, <1>3, SetEventsInformationSeen
<1>5. FetchOk(c)'
  BY <1>1, <1>2 DEF Fresh, BrowserOk, FetchOk
<1>6. Browsers'
  BY <1>1, <1>2, <1>4 DEF Fresh, Browsers
<1> QED
  BY <1>1, <1>2, <1>4, <1>5, <1>6, FreshByBrowser DEF BrowserOk

(* The data of a key is read before its watermark is saved.                *)
LEMMA DispatchKeyFresh ==
    ASSUME Typed, Fresh, NEW c \in Client, DispatchKey(c) PROVE Fresh'
<1>1. PICK k, f : /\ k = NextKey(c)
                  /\ f = [fetch[c] EXCEPT !.data = Put(fetch[c].data, k, Dispatch(c, k)), !.at = "saving"]
  OBVIOUS
<1>2. /\ UNCHANGED <<tables, token, watermark, crowded, untold, job, wire, reply, store, info, lapsed, phase>>
      /\ fetch[c].at = "reading" /\ fetch' = [fetch EXCEPT ![c] = f]
  BY <1>1 DEF DispatchKey, sends
<1>3. Ages
  BY <1>2, AgesQuietly DEF Fresh
<1>4. DOMAIN fetch' = Client /\ fetch'[c] = f /\ \A d \in Client \ {c} : fetch'[d] = fetch[d]
  BY <1>2 DEF Fresh, Browsers
<1>5. FetchOk(c)
  BY DEF Fresh, BrowserOk
<1>6. {"keys", "todo", "data", "sent", "at"} \subseteq DOMAIN fetch[c]
  BY <1>5 DEF FetchOk
<1>7. /\ DOMAIN f = DOMAIN fetch[c] /\ f.keys = fetch[c].keys /\ f.todo = fetch[c].todo
      /\ f.sent = fetch[c].sent /\ f.at = "saving" /\ DOMAIN f.data = DOMAIN fetch[c].data \cup {k}
  <2>1. f.data = Put(fetch[c].data, k, Dispatch(c, k))
    BY <1>1, <1>6
  <2>2. DOMAIN Put(fetch[c].data, k, Dispatch(c, k)) = DOMAIN fetch[c].data \cup {k}
    BY DEF Put
  <2> QED
    BY <1>1, <1>6, <2>1, <2>2
<1>8. k \in fetch[c].todo
  <2>1. fetch[c].todo # {}
    BY <1>2, <1>5 DEF FetchOk
  <2> QED
    BY <1>1, <2>1 DEF NextKey
<1>9. FetchOk(c)'
  BY <1>2, <1>4, <1>5, <1>7, <1>8 DEF FetchOk
<1>10. SeenOk(c)'
  <2>1. lapsed'[c] \cup fetch'[c].keys = lapsed[c] \cup fetch[c].keys
    BY <1>2, <1>4, <1>7
  <2> QED
    BY <1>2, <1>3, <2>1, SeenStays DEF Fresh, BrowserOk, SeenOk
<1>11. WireOk(c)' /\ ReplyOk(c)'
  BY <1>2, <1>3, WireStays, ReplyStays DEF Fresh, BrowserOk
<1>12. Browsers'
  BY <1>2, <1>4 DEF Fresh, Browsers
<1> QED
  BY <1>2, <1>3, <1>4, <1>9, <1>10, <1>11, <1>12, FreshByBrowser DEF BrowserOk

(* The key done has a token of its own from now on.                        *)
LEMMA SaveKeyFresh ==
    ASSUME Typed, Fresh, NEW c \in Client, SaveKey(c) PROVE Fresh'
<1>k. PICK k : k = NextKey(c)
  OBVIOUS
<1>n. PICK n \in Seconds(c, k) :
        /\ Save(c, k, n)
        /\ fetch' = [fetch EXCEPT
              ![c].todo = @ \ {k},
              ![c].sent = Put(@, k, n),
              ![c].at = IF fetch[c].todo = {k} THEN "answered" ELSE "reading"]
  BY <1>k DEF SaveKey
<1>f. PICK sent, f :
        /\ sent = Put(fetch[c].sent, k, n)
        /\ f = [fetch[c] EXCEPT !.todo = fetch[c].todo \ {k}, !.sent = sent,
                                !.at = IF fetch[c].todo = {k} THEN "answered" ELSE "reading"]
  OBVIOUS
<1>1. /\ k = NextKey(c) /\ n \in Seconds(c, k) /\ sent = Put(fetch[c].sent, k, n)
      /\ f = [fetch[c] EXCEPT !.todo = fetch[c].todo \ {k}, !.sent = sent,
                              !.at = IF fetch[c].todo = {k} THEN "answered" ELSE "reading"]
      /\ Save(c, k, n) /\ fetch' = [fetch EXCEPT ![c] = f]
  BY <1>k, <1>n, <1>f
<1>2. /\ UNCHANGED <<tables, untold, job, wire, reply, store, info, lapsed, phase>>
      /\ fetch[c].at = "saving" /\ fetch' = [fetch EXCEPT ![c] = f]
  BY <1>1 DEF SaveKey
<1>3. FetchOk(c)
  BY DEF Fresh, BrowserOk
<1>4. {"keys", "todo", "data", "sent", "at"} \subseteq DOMAIN fetch[c]
  BY <1>3 DEF FetchOk
<1>5. k \in fetch[c].todo /\ k \in fetch[c].keys /\ k \in Key
  <2>1. fetch[c].todo # {}
    BY <1>2, <1>3 DEF FetchOk
  <2>2. k \in fetch[c].todo
    BY <1>1, <2>1 DEF NextKey
  <2> QED
    BY <1>3, <2>2 DEF FetchOk
<1>6. Ages /\ n \in Nat \ {0}
  <2>1. untold \ {<<c, k>>} \subseteq untold' /\ UNCHANGED tables /\ Tokens
    BY <1>2 DEF Fresh
  <2>2. n \in Seconds(c, k) /\ Save(c, k, n)
    BY <1>1
  <2> QED
    BY <1>5, <2>1, <2>2, AgesBySave
<1>7. DOMAIN fetch' = Client /\ fetch'[c] = f /\ \A d \in Client \ {c} : fetch'[d] = fetch[d]
  BY <1>2 DEF Fresh, Browsers
<1>8. /\ DOMAIN f = DOMAIN fetch[c] /\ f.keys = fetch[c].keys /\ f.todo = fetch[c].todo \ {k}
      /\ f.data = fetch[c].data /\ f.sent = sent
      /\ f.at = IF fetch[c].todo = {k} THEN "answered" ELSE "reading"
  BY <1>1, <1>4
<1>9. /\ sent[k] = n /\ k \in DOMAIN sent
      /\ \A l \in DOMAIN fetch[c].sent : l # k => l \in DOMAIN sent /\ sent[l] = fetch[c].sent[l]
  BY <1>1 DEF Put
<1>10. \A l \in f.keys \ f.todo : l \in DOMAIN f.sent /\ f.sent[l] \in Nat \ {0}
  <2>1. \A l \in fetch[c].keys \ fetch[c].todo : l \in DOMAIN fetch[c].sent /\ fetch[c].sent[l] \in Nat \ {0}
    BY <1>3 DEF FetchOk
  <2>2. ASSUME NEW l \in f.keys \ f.todo PROVE l \in DOMAIN sent /\ sent[l] \in Nat \ {0}
    <3>1. CASE l = k
      BY <1>6, <1>9, <3>1
    <3>2. CASE l # k
      <4>1. l \in fetch[c].keys \ fetch[c].todo
        BY <1>8, <3>2
      <4> QED
        BY <1>9, <2>1, <3>2, <4>1
    <3> QED
      BY <3>1, <3>2
  <2> QED
    BY <1>8, <2>2
<1>11. FetchOk(c)'
  <2>1. f.keys \subseteq Key /\ f.todo \subseteq f.keys /\ DOMAIN f.data \subseteq f.keys
    BY <1>3, <1>8 DEF FetchOk
  <2>2. (f.at \in {"reading", "saving"} => f.todo # {}) /\ (f.at = "answered" => f.todo = {})
    BY <1>5, <1>8
  <2>3. phase'[c] = "asking" => f.keys = {}
    BY <1>2, <1>3, <1>8 DEF FetchOk
  <2> QED
    BY <1>4, <1>7, <1>8, <1>10, <2>1, <2>2, <2>3 DEF FetchOk
<1>12. SeenOk(c)'
  <2>1. lapsed'[c] \cup fetch'[c].keys = lapsed[c] \cup fetch[c].keys
    BY <1>2, <1>7, <1>8
  <2> QED
    BY <1>2, <1>6, <2>1, SeenStays DEF Fresh, BrowserOk, SeenOk
<1>13. WireOk(c)' /\ ReplyOk(c)'
  BY <1>2, <1>6, WireStays, ReplyStays DEF Fresh, BrowserOk
<1>14. Browsers'
  BY <1>2, <1>7 DEF Fresh, Browsers
<1> QED
  BY <1>2, <1>6, <1>7, <1>11, <1>12, <1>13, <1>14, FreshByBrowser DEF BrowserOk

(* A sync that ends leaves a token no watermark equals, or none, for what  *)
(* was asked for, and all else as it was.                                  *)
LEMMA SyncEndsFresh ==
    ASSUME Typed, Fresh, NEW c \in Client, SyncEnds(c),
           DOMAIN info' = Client, DOMAIN store' = Client, DOMAIN info'[c] = Key, DOMAIN store'[c] = Key,
           \A d \in Client \ {c} : info'[d] = info[d] /\ store'[d] = store[d],
           \A k \in Key \ fetch[c].keys : info'[c][k] = info[c][k] /\ store'[c][k] = store[c][k],
           \A k \in fetch[c].keys : info'[c][k] # Nothing => info'[c][k] \in Int /\ info'[c][k] < 0
    PROVE  Fresh'
<1>1. /\ UNCHANGED <<tables, token, watermark, crowded, untold, job, wire, reply>>
      /\ fetch' = [fetch EXCEPT ![c] = NoFetch]
      /\ phase' = [phase EXCEPT ![c] = IF phase[c] = "fetching" THEN "ready" ELSE phase[c]]
      /\ lapsed' = [lapsed EXCEPT ![c] = lapsed[c] \ fetch[c].keys]
  BY DEF SyncEnds, sends
<1>2. Ages
  BY <1>1, AgesQuietly DEF Fresh
<1>3. /\ DOMAIN fetch' = Client /\ DOMAIN phase' = Client /\ DOMAIN lapsed' = Client
      /\ fetch'[c] = NoFetch /\ lapsed'[c] = lapsed[c] \ fetch[c].keys
      /\ \A d \in Client \ {c} : fetch'[d] = fetch[d] /\ phase'[d] = phase[d] /\ lapsed'[d] = lapsed[d]
  BY <1>1 DEF Fresh, Browsers
<1>4. ASSUME NEW k \in Key PROVE Seen(c, k)'
  <2>1. CASE k \in fetch[c].keys
    <3>1. token'[c][k] \in Nat
      BY <1>2 DEF Ages, Tokens
    <3>2. info'[c][k] # token'[c][k]
      BY <2>1, <3>1, SyncAssumption
    <3>3. info'[c][k] # Nothing => info'[c][k] \in Int /\ info'[c][k] <= token'[c][k]
      BY <2>1, <3>1
    <3> QED
      BY <3>2, <3>3 DEF Seen
  <2>2. CASE k \notin fetch[c].keys
    <3>1. k \in lapsed[c] \cup fetch[c].keys => k \in lapsed'[c] \cup fetch'[c].keys
      BY <1>3, <2>2
    <3>2. info'[c][k] = info[c][k] /\ store'[c][k] = store[c][k] /\ Seen(c, k)
      BY <2>2 DEF Fresh, BrowserOk, SeenOk
    <3> QED
      BY <1>2, <3>1, <3>2, SeenStays DEF Fresh
  <2> QED
    BY <2>1, <2>2
<1>5. SeenOk(c)'
  BY <1>4 DEF SeenOk
<1>6. FetchOk(c)'
  BY <1>3 DEF FetchOk, NoFetch
<1>7. WireOk(c)' /\ ReplyOk(c)'
  BY <1>1, <1>2, WireStays, ReplyStays DEF Fresh, BrowserOk
<1>8. Browsers'
  BY <1>1, <1>3 DEF Fresh, Browsers
<1> QED
  BY <1>1, <1>2, <1>3, <1>5, <1>6, <1>7, <1>8, FreshByBrowser DEF BrowserOk

(* The answer leaves tokens no watermark equals.                           *)
LEMMA StoreKeysFresh ==
    ASSUME Typed, Fresh, NEW c \in Client, StoreKeys(c) PROVE Fresh'
<1>1. PICK data, sent, keys, old : /\ data = fetch[c].data /\ sent = fetch[c].sent /\ keys = fetch[c].keys
                                   /\ old = store[c]
  OBVIOUS
<1>2. /\ SyncEnds(c) /\ fetch[c].at = "answered" /\ store' = [store EXCEPT ![c] = Over(data, old)]
      /\ info' = [info EXCEPT ![c] = [k \in Key |-> IF k \in keys THEN HttpToken(sent[k]) ELSE info[c][k]]]
  BY <1>1 DEF StoreKeys
<1>3. /\ keys \subseteq Key /\ DOMAIN data \subseteq keys /\ DOMAIN old = Key
      /\ \A k \in keys : sent[k] \in Nat \ {0}
  <2>1. fetch[c].todo = {} /\ FetchOk(c) /\ SeenOk(c)
    BY <1>2 DEF Fresh, BrowserOk, FetchOk
  <2> QED
    BY <1>1, <2>1 DEF FetchOk, SeenOk
<1>4. /\ DOMAIN info' = Client /\ DOMAIN store' = Client /\ DOMAIN info'[c] = Key
      /\ \A d \in Client \ {c} : info'[d] = info[d] /\ store'[d] = store[d]
      /\ \A k \in Key : info'[c][k] = IF k \in keys THEN HttpToken(sent[k]) ELSE info[c][k]
      /\ store'[c] = Over(data, old)
  BY <1>2 DEF Fresh, Browsers
<1>5. DOMAIN store'[c] = Key /\ \A k \in Key \ keys : store'[c][k] = old[k]
  BY <1>3, <1>4 DEF Over
<1>6. \A k \in keys : info'[c][k] \in Int /\ info'[c][k] < 0
  BY <1>3, <1>4 DEF HttpToken
<1> QED
  BY <1>1, <1>2, <1>4, <1>5, <1>6, SyncEndsFresh

(* A failed fetch leaves no token of what was asked for.                   *)
LEMMA FetchFailsFresh ==
    ASSUME Typed, Fresh, NEW c \in Client, FetchFails(c) PROVE Fresh'
<1>1. PICK keys : keys = fetch[c].keys
  OBVIOUS
<1>2. /\ SyncEnds(c) /\ UNCHANGED store
      /\ info' = [info EXCEPT ![c] = [k \in Key |-> IF k \in keys THEN Nothing ELSE info[c][k]]]
  BY <1>1 DEF FetchFails
<1>3. keys \subseteq Key /\ DOMAIN store[c] = Key
  BY <1>1 DEF Fresh, BrowserOk, FetchOk, SeenOk
<1>4. /\ DOMAIN info' = Client /\ DOMAIN store' = Client /\ DOMAIN info'[c] = Key /\ DOMAIN store'[c] = Key
      /\ \A d \in Client \ {c} : info'[d] = info[d] /\ store'[d] = store[d]
      /\ \A k \in Key : info'[c][k] = IF k \in keys THEN Nothing ELSE info[c][k]
      /\ store'[c] = store[c]
  BY <1>2, <1>3 DEF Fresh, Browsers
<1>5. \A k \in keys : info'[c][k] = Nothing
  BY <1>3, <1>4
<1> QED
  BY <1>1, <1>2, <1>4, <1>5, SyncEndsFresh

(* A message is at most as old as its token says.                          *)
LEMMA ProcessMessageFresh ==
    ASSUME Typed, Fresh, NEW c \in Client, ProcessMessage(c) PROVE Fresh'
<1>1. PICK x, k, n, v : x = Head(wire[c]) /\ k = x.key /\ n = x.token /\ v = x.value
  OBVIOUS
<1>2. /\ UNCHANGED <<tables, token, watermark, crowded, untold, job, reply, fetch, phase>>
      /\ wire[c] # <<>> /\ wire' = [wire EXCEPT ![c] = Tail(wire[c])]
      /\ store' = [store EXCEPT ![c] = [store[c] EXCEPT ![k] = v]]
      /\ info' = [info EXCEPT ![c] = [info[c] EXCEPT ![k] = n]]
      /\ lapsed' = [lapsed EXCEPT ![c] = lapsed[c] \ {k}]
  BY <1>1 DEF ProcessMessage, sends
<1>3. Ages
  BY <1>2, AgesQuietly DEF Fresh
<1>4. wire[c] \in Seq(Message) /\ \A y : In(y, wire[c]) => Current(y.token, c, y.key, y.value)
  BY DEF Fresh, BrowserOk, WireOk
<1>5. x \in Message /\ In(x, wire[c])
  <2>1. Len(wire[c]) \in Nat \ {0} /\ DOMAIN wire[c] = 1 .. Len(wire[c])
    BY <1>2, <1>4, EmptySeq, LenProperties
  <2>2. 1 \in DOMAIN wire[c] /\ wire[c][1] = x
    BY <1>1, <2>1 DEF Head
  <2> QED
    BY <1>4, <2>1, <2>2, ElementOfSeq DEF In
<1>6. k \in Key /\ n \in Nat \ {0} /\ Current(n, c, k, v)
  BY <1>1, <1>4, <1>5 DEF Message
<1>7. Current(n, c, k, v)'
  BY <1>3, <1>6, CurrentStays DEF Fresh
<1>8. SeenOk(c)
  BY DEF Fresh, BrowserOk
<1>9. /\ DOMAIN wire' = Client /\ DOMAIN info' = Client /\ DOMAIN store' = Client /\ DOMAIN lapsed' = Client
      /\ wire'[c] = Tail(wire[c]) /\ store'[c] = [store[c] EXCEPT ![k] = v]
      /\ info'[c] = [info[c] EXCEPT ![k] = n] /\ lapsed'[c] = lapsed[c] \ {k}
      /\ \A d \in Client \ {c} :
             wire'[d] = wire[d] /\ store'[d] = store[d] /\ info'[d] = info[d] /\ lapsed'[d] = lapsed[d]
  BY <1>2 DEF Fresh, Browsers
<1>10. /\ DOMAIN info'[c] = Key /\ DOMAIN store'[c] = Key /\ info'[c][k] = n /\ store'[c][k] = v
       /\ \A l \in Key : l # k => info'[c][l] = info[c][l] /\ store'[c][l] = store[c][l]
  BY <1>6, <1>8, <1>9 DEF SeenOk
<1>11. ASSUME NEW l \in Key PROVE Seen(c, l)'
  <2>1. CASE l = k
    BY <1>6, <1>7, <1>10, <2>1 DEF Seen, Current
  <2>2. CASE l # k
    <3>1. l \in lapsed[c] \cup fetch[c].keys => l \in lapsed'[c] \cup fetch'[c].keys
      BY <1>2, <1>9, <2>2
    <3>2. info'[c][l] = info[c][l] /\ store'[c][l] = store[c][l] /\ Seen(c, l)
      BY <1>8, <1>10, <2>2 DEF SeenOk
    <3> QED
      BY <1>3, <3>1, <3>2, SeenStays DEF Fresh
  <2> QED
    BY <2>1, <2>2
<1>12. SeenOk(c)'
  BY <1>10, <1>11 DEF SeenOk
<1>13. WireOk(c)'
  <2>1. /\ Tail(wire[c]) \in Seq(Message) /\ Len(Tail(wire[c])) = Len(wire[c]) - 1 /\ Len(wire[c]) \in Nat
        /\ DOMAIN wire[c] = 1 .. Len(wire[c])
        /\ \A i \in 1 .. Len(Tail(wire[c])) : Tail(wire[c])[i] = wire[c][i + 1]
    BY <1>2, <1>4, HeadTailProperties, LenProperties
  <2>2. DOMAIN Tail(wire[c]) = 1 .. Len(Tail(wire[c]))
    BY <2>1, LenProperties
  <2>3. ASSUME NEW y, In(y, Tail(wire[c])) PROVE In(y, wire[c])
    <3>1. PICK i \in DOMAIN Tail(wire[c]) : Tail(wire[c])[i] = y
      BY <2>3 DEF In
    <3>2. i + 1 \in DOMAIN wire[c] /\ wire[c][i + 1] = y
      BY <2>1, <2>2, <3>1
    <3> QED
      BY <3>2 DEF In
  <2>4. ASSUME NEW y, In(y, Tail(wire[c])) PROVE Current(y.token, c, y.key, y.value)'
    <3>1. PICK i \in DOMAIN Tail(wire[c]) : Tail(wire[c])[i] = y
      BY <2>4 DEF In
    <3>2. y \in Message
      BY <2>1, <2>2, <3>1, ElementOfSeq
    <3>3. PICK m, l, u : m = y.token /\ l = y.key /\ u = y.value
      OBVIOUS
    <3>4. m \in Int /\ l \in Key
      BY <3>2, <3>3 DEF Message
    <3>5. Current(m, c, l, u)
      BY <1>4, <2>3, <2>4, <3>3
    <3>6. Current(m, c, l, u)'
      BY <1>3, <3>4, <3>5, CurrentStays DEF Fresh
    <3> QED
      BY <3>3, <3>6
  <2> QED
    BY <1>9, <2>1, <2>4 DEF WireOk
<1>14. ReplyOk(c)' /\ FetchOk(c)'
  BY <1>2, <1>3, ReplyStays DEF Fresh, BrowserOk, FetchOk
<1>15. Browsers'
  BY <1>2, <1>9 DEF Fresh, Browsers
<1> QED
  BY <1>2, <1>3, <1>9, <1>12, <1>13, <1>14, <1>15, FreshByBrowser DEF BrowserOk

(* No message is on its way.                                               *)
LEMMA NoWire ==
    ASSUME NEW c, wire'[c] = <<>> PROVE WireOk(c)'
  BY DEF WireOk, In

(* A dropped socket loses the messages and the watermarks on their way.    *)
LEMMA DisconnectFresh ==
    ASSUME Typed, Fresh, NEW c \in Client, Disconnect(c) PROVE Fresh'
<1>1. /\ UNCHANGED <<tables, token, watermark, crowded, untold, job, fetch, store, info, lapsed>>
      /\ phase' = [phase EXCEPT ![c] = "off"] /\ wire' = [wire EXCEPT ![c] = <<>>]
      /\ reply' = [reply EXCEPT ![c] = Nothing]
  BY DEF Disconnect, sends
<1>2. Ages
  BY <1>1, AgesQuietly DEF Fresh
<1>3. /\ DOMAIN phase' = Client /\ DOMAIN wire' = Client /\ DOMAIN reply' = Client
      /\ phase'[c] = "off" /\ wire'[c] = <<>> /\ reply'[c] = Nothing
      /\ \A d \in Client \ {c} : phase'[d] = phase[d] /\ wire'[d] = wire[d] /\ reply'[d] = reply[d]
  BY <1>1 DEF Fresh, Browsers
<1>4. WireOk(c)' /\ ReplyOk(c)'
  BY <1>3, NoWire DEF ReplyOk
<1>5. SeenOk(c)'
  BY <1>1, <1>2, SeenStays DEF Fresh, BrowserOk, SeenOk
<1>6. FetchOk(c)'
  BY <1>1, <1>3 DEF Fresh, BrowserOk, FetchOk
<1>7. Browsers'
  BY <1>1, <1>3 DEF Fresh, Browsers
<1> QED
  BY <1>1, <1>2, <1>3, <1>4, <1>5, <1>6, <1>7, FreshByBrowser DEF BrowserOk

(* What a reloaded page had asked for lapses.                              *)
LEMMA ReloadFresh ==
    ASSUME Typed, Fresh, NEW c \in Client, Reload(c) PROVE Fresh'
<1>1. /\ UNCHANGED <<tables, token, watermark, crowded, untold, job, reply, store, info>>
      /\ phase' = [phase EXCEPT ![c] = "off"] /\ wire' = [wire EXCEPT ![c] = <<>>]
      /\ fetch' = [fetch EXCEPT ![c] = NoFetch]
      /\ lapsed' = [lapsed EXCEPT ![c] = lapsed[c] \cup fetch[c].keys]
  BY DEF Reload, sends
<1>2. Ages
  BY <1>1, AgesQuietly DEF Fresh
<1>3. /\ DOMAIN phase' = Client /\ DOMAIN wire' = Client /\ DOMAIN fetch' = Client /\ DOMAIN lapsed' = Client
      /\ phase'[c] = "off" /\ wire'[c] = <<>> /\ fetch'[c] = NoFetch
      /\ lapsed'[c] = lapsed[c] \cup fetch[c].keys
      /\ \A d \in Client \ {c} :
             phase'[d] = phase[d] /\ wire'[d] = wire[d] /\ fetch'[d] = fetch[d] /\ lapsed'[d] = lapsed[d]
  BY <1>1 DEF Fresh, Browsers
<1>4. WireOk(c)' /\ ReplyOk(c)'
  BY <1>1, <1>2, <1>3, NoWire, ReplyStays DEF Fresh, BrowserOk
<1>5. SeenOk(c)'
  <2>1. lapsed[c] \cup fetch[c].keys \subseteq lapsed'[c] \cup fetch'[c].keys
    BY <1>3
  <2> QED
    BY <1>1, <1>2, <2>1, SeenStays DEF Fresh, BrowserOk, SeenOk
<1>6. FetchOk(c)'
  BY <1>3 DEF FetchOk, NoFetch
<1>7. Browsers'
  BY <1>1, <1>3 DEF Fresh, Browsers
<1> QED
  BY <1>1, <1>2, <1>3, <1>4, <1>5, <1>6, <1>7, FreshByBrowser DEF BrowserOk

------------------------------------------------------------------------------
(* The inductive invariant of what the browsers know.                      *)
LEMMA InitFresh == ASSUME Init PROVE Fresh
<1>1. Tokens
  <2>1. token = [c \in Client |-> [k \in Key |-> 1]] /\ watermark = token
    BY DEF Init
  <2> QED
    BY <2>1 DEF Tokens
<1>2. Browsers
  BY DEF Init, Browsers
<1>3. ASSUME NEW w \in Worker PROVE JobOk(w)
  <2>1. job[w].at = "rest"
    BY DEF Init
  <2> QED
    BY <2>1 DEF JobOk
<1>4. ASSUME NEW c \in Client PROVE BrowserOk(c)
  <2>1. /\ wire[c] = <<>> /\ reply[c] = Nothing /\ fetch[c] = NoFetch /\ phase[c] = "off"
        /\ info[c] = [k \in Key |-> 1] /\ store[c] = [k \in Key |-> Dispatch(c, k)]
        /\ token[c] = [k \in Key |-> 1]
    BY DEF Init
  <2>2. WireOk(c)
    BY <2>1 DEF WireOk, In
  <2>3. SeenOk(c)
    BY <2>1 DEF SeenOk, Seen
  <2>4. ReplyOk(c)
    BY <2>1 DEF ReplyOk
  <2>5. FetchOk(c)
    BY <2>1 DEF FetchOk, NoFetch
  <2> QED
    BY <2>2, <2>3, <2>4, <2>5 DEF BrowserOk
<1> QED
  BY <1>1, <1>2, <1>3, <1>4 DEF Fresh

(* Every step leaves what the browsers know as old as it says.             *)
LEMMA NextFresh == ASSUME Typed, Fresh, [Next]_vars PROVE Fresh'
<1>1. ASSUME NEW w \in Worker, \/ \E m \in DOMAIN mission : MissionStep(w, m)
                               \/ \E u \in User : UserStep(w, u)
      PROVE  Fresh'
  <2>1. Operated(w)
    BY <1>1, OperationTells
  <2> QED
    BY <2>1, OperationFresh
<1>2. ASSUME NEW w \in Worker, Emit(w) PROVE Fresh'
  BY <1>2, ResolveFresh, SaveWatermarkFresh, ComputeValueFresh, DeliverFresh, LoseEmitsFresh DEF Emit
<1>3. ASSUME NEW c \in Client, Browse(c) PROVE Fresh'
  BY <1>3, ConnectFresh, BuildEventsInfoFresh, StartSyncFresh, SkipSyncFresh, DispatchKeyFresh, SaveKeyFresh,
     StoreKeysFresh, FetchFailsFresh, ProcessMessageFresh, DisconnectFresh, ReloadFresh DEF Browse
<1>4. CASE UNCHANGED vars
  <2>1. /\ UNCHANGED <<tables, token, watermark, crowded, untold, job>>
        /\ UNCHANGED <<wire, info, store, reply, fetch, phase, lapsed>>
    BY <1>4 DEF vars, sends, browser
  <2>2. Ages
    BY <2>1, AgesQuietly DEF Fresh
  <2>3. \A w \in Worker : JobOk(w)'
    BY <2>1, <2>2, JobStays DEF Fresh
  <2>4. \A c \in Client : BrowserOk(c)'
    BY <2>1, <2>2, BrowserStays DEF Fresh
  <2> QED
    BY <2>1, <2>2, <2>3, <2>4 DEF Fresh, Ages, Browsers
<1> QED
  BY <1>1, <1>2, <1>3, <1>4 DEF Next

(* A browser whose token of a key is the watermark has the view the player *)
(* has, unless an operation changed it and has not said so, or two sends   *)
(* of the key were of one second.                                          *)
THEOREM SpecStaleIsNoticed == Spec => []StaleIsNoticed
<1>1. Init => ToldInvariant /\ Fresh
  BY InitTold, InitFresh
<1>2. ToldInvariant /\ Fresh /\ [Next]_vars => (ToldInvariant /\ Fresh)'
  <2>1. ASSUME ToldInvariant, Fresh, [Next]_vars PROVE ToldInvariant' /\ Fresh'
    BY <2>1, NextTold, NextFresh DEF ToldInvariant
  <2> QED
    BY <2>1
<1>3. ToldInvariant /\ Fresh => StaleIsNoticed
  BY DEF Fresh, BrowserOk, SeenOk, Seen, Tokens, Unsure, StaleIsNoticed
<1> QED
  BY <1>1, <1>2, <1>3, PTL DEF Spec
===============================================================================
