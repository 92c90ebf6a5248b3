--------------------------- MODULE ExpeditionsProofs ---------------------------
(***************************************************************************)
(* Proofs about Expeditions, for any catalogue of units, any planets and   *)
(* players, any orders and any number of them.                             *)
(*                                                                         *)
(* What is said of the tables takes them as parameters: R is a table of    *)
(* obtained_units, M one of missions, so that the same facts can be        *)
(* followed through the steps inside a transaction.                        *)
(***************************************************************************)
EXTENDS Expeditions, TableTheorems

------------------------------------------------------------------------------
(* The tables with ids up to n.                                            *)
Tables(n) == UNION {[D -> Row] : D \in SUBSET (1 .. n)}
MissionTables(n) == UNION {[D -> MissionRow] : D \in SUBSET (1 .. n)}

Typed ==
    /\ ids \in Nat /\ rows \in Tables(ids) /\ missions \in MissionTables(ids)
    /\ shot \in Tables(ids) /\ expired \in Tables(ids)
    /\ DOMAIN rows \cap DOMAIN shot = {} /\ DOMAIN rows \cap DOMAIN expired = {}
    /\ DOMAIN shot \cap DOMAIN expired = {}

Marks(M, m) == m \in DOMAIN M /\ M[m].type = "DEPLOYED"

AtRest(R, M, i) == R[i].mission = None \/ Marks(M, R[i].mission)

(* Every row but those of mission x is of a mission of its user, which is  *)
(* still under way if it is no marker; nothing carries who is at rest.     *)
OnMissions(R, M, x) ==
    \A i \in DOMAIN R :
        /\ R[i].mission # None =>
              /\ R[i].mission \in DOMAIN M /\ M[R[i].mission].user = R[i].user
              /\ R[i].mission # x => Marks(M, R[i].mission) \/ ~M[R[i].mission].resolved
        /\ AtRest(R, M, i) => R[i].carrier = None

(* CargoStaysAboard, with the carrier itself not carried.                  *)
Carried(R, gone) ==
    \A i \in DOMAIN R : R[i].carrier # None =>
        \/ R[i].carrier \in gone
        \/ /\ R[i].carrier \in DOMAIN R
           /\ R[R[i].carrier].mission = R[i].mission /\ R[R[i].carrier].carrier = None

(* The two parts of MarkersHoldUnits.                                      *)
MarkersHold(R, M) ==
    \A m \in DOMAIN M : Marks(M, m) => (~M[m].resolved <=> \E i \in DOMAIN R : R[i].mission = m)

MarkersDiffer(M) ==
    \A m, n \in DOMAIN M :
        /\ Marks(M, m) /\ Marks(M, n) /\ ~M[m].resolved /\ ~M[n].resolved
        /\ M[m].user = M[n].user /\ M[m].target = M[n].target
        => m = n

(* What a user has of a unit.                                              *)
ShareOf(r, u, x) == IF r.user = u /\ r.unit = x THEN r.count ELSE 0
Share(R, u, x) == [i \in DOMAIN R |-> ShareOf(R[i], u, x)]
Held(R, u, x) == Total(Share(R, u, x), DOMAIN R)

Accounted ==
    \A u \in User, x \in Unit :
        Held(rows, u, x) + Held(shot, u, x) + Held(expired, u, x) = Held(Rows0, u, x)

(* A mission that lost units on the way is over, whatever became of the    *)
(* others; and the reports are of such missions.                           *)
ShotAreOver ==
    /\ \A i \in DOMAIN shot :
          /\ shot[i].mission \in DOMAIN missions
          /\ missions[shot[i].mission].resolved
          /\ missions[shot[i].mission].type \in {"EXPLORE", "DEPLOY"}
    /\ \A r \in reports : \E i \in DOMAIN shot : shot[i].mission = r.mission
    /\ DOMAIN taker = DOMAIN shot

(* Two reports tell of what u took of a user v.                            *)
Tells(about, v, u) ==
    /\ Cardinality(about) = 2 /\ v # u
    /\ {<<r.to, r.enemy>> : r \in about} = {<<v, FALSE>>, <<u, TRUE>>}

(* InterceptionsAreReported of reports P, what was shot and by whom, and M. *)
Lost(S, t, u, m) == {i \in DOMAIN S : t[i] = u /\ S[i].mission = m}

Told(P, S, t, M) ==
    /\ \A r \in P : \A u \in DOMAIN r.info : r.info[u] = Cardinality(Lost(S, t, u, r.mission))
    /\ \A i \in DOMAIN S :
           LET about == {r \in P : r.mission = S[i].mission /\ t[i] \in DOMAIN r.info}
           IN  \/ M[S[i].mission].type = "DEPLOY" /\ about = {}
               \/ Tells(about, S[i].user, t[i])

(* The pace of one unit, on its own.                                       *)
Alone(M, m, unit) ==
    CalculateTimeUsingSpeed(
        BaseTime[IF M[m].type = "RETURN_MISSION" THEN "EXPLORE" ELSE M[m].type],
        100 * Speed[unit], Position[M[m].source], Position[M[m].target])

Outruns(R, M) ==
    \E i \in DOMAIN R :
        LET m == R[i].mission
        IN  /\ m \in DOMAIN M /\ ~M[m].resolved /\ M[m].type # "DEPLOYED" /\ ~M[m].boosted
            /\ Speed[R[i].unit] > 0 /\ UnitGroup[R[i].unit] \notin FixedGroup
            /\ M[m].time < Alone(M, m, R[i].unit)

IndInv ==
    /\ Typed
    /\ OnMissions(rows, missions, None)
    /\ Carried(rows, DOMAIN expired)
    /\ MarkersHold(rows, missions) /\ MarkersDiffer(missions)
    /\ Accounted
    /\ ShotAreOver /\ Told(reports, shot, taker, missions)
    /\ ~Outruns(rows, missions)
------------------------------------------------------------------------------
(* Tables.                                                                 *)

(* What a table is.                                                        *)
LEMMA TableParts ==
    ASSUME NEW n \in Nat, NEW R \in Tables(n)
    PROVE  /\ DOMAIN R \subseteq 1 .. n /\ IsFiniteSet(DOMAIN R)
           /\ R = [i \in DOMAIN R |-> R[i]] /\ \A i \in DOMAIN R : R[i] \in Row /\ i \in Nat
<1>1. PICK D \in SUBSET (1 .. n) : R \in [D -> Row]
  BY DEF Tables
<1>2. IsFiniteSet(1 .. n)
  BY FS_Interval
<1>3. IsFiniteSet(D)
  BY <1>2, FS_Subset
<1> QED
  BY <1>1, <1>3

(* What a table of obtained_units is made of.                              *)
LEMMA IsTableOf ==
    ASSUME NEW n \in Nat, NEW R, R = [i \in DOMAIN R |-> R[i]], DOMAIN R \subseteq 1 .. n,
           \A i \in DOMAIN R : R[i] \in Row
    PROVE  R \in Tables(n)
<1>1. R \in [DOMAIN R -> Row]
  OBVIOUS
<1> QED
  BY <1>1 DEF Tables

(* A table is one with more ids.                                           *)
LEMMA TableGrows ==
    ASSUME NEW n \in Nat, NEW k \in Nat, n <= k, NEW R \in Tables(n)
    PROVE  R \in Tables(k)
<1>1. DOMAIN R \subseteq 1 .. k
  BY TableParts
<1> QED
  BY <1>1, TableParts, IsTableOf

(* What is known of a table of missions.                                   *)
LEMMA MissionTableParts ==
    ASSUME NEW n \in Nat, NEW M \in MissionTables(n)
    PROVE  /\ DOMAIN M \subseteq 1 .. n
           /\ M = [m \in DOMAIN M |-> M[m]] /\ \A m \in DOMAIN M : M[m] \in MissionRow /\ m \in Nat
  BY DEF MissionTables

(* What a table of missions is made of.                                    *)
LEMMA IsMissionTable ==
    ASSUME NEW n \in Nat, NEW M, M = [m \in DOMAIN M |-> M[m]], DOMAIN M \subseteq 1 .. n,
           \A m \in DOMAIN M : M[m] \in MissionRow
    PROVE  M \in MissionTables(n)
<1>1. M \in [DOMAIN M -> MissionRow]
  OBVIOUS
<1> QED
  BY <1>1 DEF MissionTables

(* A table of missions is one with more ids.                               *)
LEMMA MissionTableGrows ==
    ASSUME NEW n \in Nat, NEW k \in Nat, n <= k, NEW M \in MissionTables(n)
    PROVE  M \in MissionTables(k)
<1>1. DOMAIN M \subseteq 1 .. k
  BY MissionTableParts
<1> QED
  BY <1>1, MissionTableParts, IsMissionTable

(* DELETE.                                                                 *)
LEMMA WithoutTable ==
    ASSUME NEW n \in Nat, NEW R \in Tables(n), NEW S
    PROVE  /\ Without(R, S) \in Tables(n) /\ DOMAIN Without(R, S) = DOMAIN R \ S
           /\ \A i \in DOMAIN R \ S : Without(R, S)[i] = R[i]
<1> DEFINE Q == Without(R, S)
<1>1. DOMAIN Q = DOMAIN R \ S /\ Q = [i \in DOMAIN Q |-> Q[i]] /\ \A i \in DOMAIN R \ S : Q[i] = R[i]
  BY DEF Without
<1> HIDE DEF Q
<1>2. DOMAIN Q \subseteq 1 .. n /\ \A i \in DOMAIN Q : Q[i] \in Row
  BY <1>1, TableParts
<1>3. Q \in Tables(n)
  BY <1>1, <1>2, IsTableOf
<1> QED
  BY <1>1, <1>3 DEF Q

(* UPDATE of one row.                                                      *)
LEMMA ChangedTable ==
    ASSUME NEW n \in Nat, NEW R \in Tables(n), NEW i \in DOMAIN R, NEW r \in Row
    PROVE  /\ [R EXCEPT ![i] = r] \in Tables(n) /\ DOMAIN [R EXCEPT ![i] = r] = DOMAIN R
           /\ [R EXCEPT ![i] = r][i] = r
           /\ \A j \in DOMAIN R \ {i} : [R EXCEPT ![i] = r][j] = R[j]
<1>1. PICK Q : Q = [R EXCEPT ![i] = r]
  OBVIOUS
<1>2. R = [j \in DOMAIN R |-> R[j]]
  BY TableParts
<1>3. DOMAIN Q = DOMAIN R /\ Q[i] = r /\ \A j \in DOMAIN R \ {i} : Q[j] = R[j]
  BY <1>1, <1>2
<1>4. Q = [j \in DOMAIN Q |-> Q[j]]
  BY <1>1, <1>2, <1>3
<1>5. DOMAIN Q \subseteq 1 .. n /\ \A j \in DOMAIN Q : Q[j] \in Row
  BY <1>3, TableParts
<1>6. Q \in Tables(n)
  BY <1>4, <1>5, IsTableOf
<1> QED
  BY <1>1, <1>3, <1>6

(* The values of With and of Put.                                          *)
LEMMA WithDomain ==
    ASSUME NEW f, NEW g PROVE DOMAIN With(f, g) = DOMAIN f \cup DOMAIN g
  BY DEF With

(* Where both have a value With has that of the first.                     *)
LEMMA WithLeft ==
    ASSUME NEW f, NEW g, NEW i \in DOMAIN f PROVE With(f, g)[i] = f[i]
  BY DEF With

(* Where only the second has a value With has that one.                    *)
LEMMA WithRight ==
    ASSUME NEW f, NEW g, NEW i \in DOMAIN g, i \notin DOMAIN f PROVE With(f, g)[i] = g[i]
  BY DEF With

(* Put adds one id.                                                        *)
LEMMA PutDomain ==
    ASSUME NEW f, NEW x, NEW v PROVE DOMAIN Put(f, x, v) = DOMAIN f \cup {x}
<1>1. PICK g : g = [y \in {x} |-> v]
  OBVIOUS
<1>2. DOMAIN g = {x}
  BY <1>1
<1> QED
  BY <1>1, <1>2, WithDomain DEF Put

(* Put gives a new id its value.                                           *)
LEMMA PutNew ==
    ASSUME NEW f, NEW x, x \notin DOMAIN f, NEW v PROVE Put(f, x, v)[x] = v
<1>1. PICK g : g = [y \in {x} |-> v]
  OBVIOUS
<1>2. x \in DOMAIN g /\ g[x] = v
  BY <1>1
<1> QED
  BY <1>1, <1>2, WithRight DEF Put

(* Put leaves the ids there were.                                          *)
LEMMA PutOld ==
    ASSUME NEW f, NEW x, NEW v, NEW i \in DOMAIN f PROVE Put(f, x, v)[i] = f[i]
  BY WithLeft DEF Put

(* INSERT.                                                                 *)
LEMMA WithTable ==
    ASSUME NEW n \in Nat, NEW Q \in Tables(n), NEW R \in Tables(n)
    PROVE  With(Q, R) \in Tables(n)
<1>1. PICK W : W = With(Q, R)
  OBVIOUS
<1>2. W = [i \in DOMAIN W |-> W[i]]
  BY <1>1 DEF With
<1>3. DOMAIN W = DOMAIN Q \cup DOMAIN R
  BY <1>1, WithDomain
<1>4. \A i \in DOMAIN Q : W[i] = Q[i]
  BY <1>1, WithLeft
<1>5. \A i \in DOMAIN R \ DOMAIN Q : W[i] = R[i]
  BY <1>1, WithRight
<1>6. DOMAIN W \subseteq 1 .. n /\ \A i \in DOMAIN W : W[i] \in Row
  BY <1>3, <1>4, <1>5, TableParts
<1> QED
  BY <1>1, <1>2, <1>6, IsTableOf

(* INSERT of a mission.                                                    *)
LEMMA PutMission ==
    ASSUME NEW n \in Nat, NEW M \in MissionTables(n), NEW m \in 1 .. n, m \notin DOMAIN M,
           NEW v \in MissionRow
    PROVE  Put(M, m, v) \in MissionTables(n)
<1>1. PICK W : W = Put(M, m, v)
  OBVIOUS
<1>2. W = [i \in DOMAIN W |-> W[i]]
  BY <1>1 DEF Put, With
<1>3. DOMAIN W = DOMAIN M \cup {m}
  BY <1>1, PutDomain
<1>4. W[m] = v
  BY <1>1, PutNew
<1>5. \A i \in DOMAIN M : W[i] = M[i]
  BY <1>1, PutOld
<1>6. DOMAIN W \subseteq 1 .. n /\ \A i \in DOMAIN W : W[i] \in MissionRow
  BY <1>3, <1>4, <1>5, MissionTableParts
<1> QED
  BY <1>1, <1>2, <1>6, IsMissionTable

------------------------------------------------------------------------------
(* What is held.                                                           *)

(* What each row has of a unit is a number.                                *)
LEMMA ShareNat ==
    ASSUME NEW n \in Nat, NEW R \in Tables(n), NEW u, NEW x
    PROVE  /\ DOMAIN Share(R, u, x) = DOMAIN R
           /\ \A i \in DOMAIN R : /\ Share(R, u, x)[i] = ShareOf(R[i], u, x)
                                  /\ Share(R, u, x)[i] \in Nat
<1>1. \A i \in DOMAIN R : ShareOf(R[i], u, x) \in Nat
  BY TableParts DEF ShareOf, Row
<1> QED
  BY <1>1 DEF Share

(* What a table has of a unit is a number.                                 *)
LEMMA HeldNat ==
    ASSUME NEW n \in Nat, NEW R \in Tables(n), NEW u, NEW x
    PROVE  Held(R, u, x) \in Nat
<1>1. IsFiniteSet(DOMAIN R)
  BY TableParts
<1>2. \A i \in DOMAIN R : Share(R, u, x)[i] \in Nat
  BY ShareNat
<1> QED
  BY <1>1, <1>2, TotalNat DEF Held

(* The same rows hold the same.                                            *)
LEMMA HeldSame ==
    ASSUME NEW n \in Nat, NEW Q \in Tables(n), NEW R \in Tables(n), DOMAIN Q = DOMAIN R, NEW u, NEW x,
           \A i \in DOMAIN R : ShareOf(Q[i], u, x) = ShareOf(R[i], u, x)
    PROVE  Held(Q, u, x) = Held(R, u, x)
<1>1. IsFiniteSet(DOMAIN R)
  BY TableParts
<1>2. \A i \in DOMAIN R : Share(Q, u, x)[i] = Share(R, u, x)[i]
  BY ShareNat
<1> QED
  BY <1>1, <1>2, TotalSame DEF Held

(* A table and another.                                                    *)
LEMMA HeldWith ==
    ASSUME NEW n \in Nat, NEW Q \in Tables(n), NEW R \in Tables(n), DOMAIN Q \cap DOMAIN R = {},
           NEW u, NEW x
    PROVE  Held(With(Q, R), u, x) = Held(Q, u, x) + Held(R, u, x)
<1>1. PICK W : W = With(Q, R)
  OBVIOUS
<1>2. /\ DOMAIN W = DOMAIN Q \cup DOMAIN R
      /\ \A i \in DOMAIN Q : W[i] = Q[i]
      /\ \A i \in DOMAIN R : W[i] = R[i]
      /\ W \in Tables(n)
  <2>1. \A i \in DOMAIN R : i \notin DOMAIN Q
    OBVIOUS
  <2>2. W \in Tables(n)
    BY <1>1, WithTable
  <2>3. DOMAIN W = DOMAIN Q \cup DOMAIN R
    BY <1>1, WithDomain
  <2>4. \A i \in DOMAIN Q : W[i] = Q[i]
    BY <1>1, WithLeft
  <2>5. \A i \in DOMAIN R : W[i] = R[i]
    BY <1>1, <2>1, WithRight
  <2> QED
    BY <2>2, <2>3, <2>4, <2>5
<1>3. PICK f : f = Share(W, u, x)
  OBVIOUS
<1>4. IsFiniteSet(DOMAIN Q) /\ IsFiniteSet(DOMAIN R)
  BY TableParts
<1>5. \A i \in DOMAIN W : f[i] \in Int /\ f[i] = ShareOf(W[i], u, x)
  BY <1>2, <1>3, ShareNat
<1>6. \A i \in DOMAIN Q \cup DOMAIN R : f[i] \in Int
  BY <1>2, <1>5
<1>7. Total(f, DOMAIN Q \cup DOMAIN R) = Total(f, DOMAIN Q) + Total(f, DOMAIN R)
  BY <1>4, <1>6, TotalSplit
<1>8. \A i \in DOMAIN Q : f[i] = Share(Q, u, x)[i]
  BY <1>2, <1>5, ShareNat
<1>9. \A i \in DOMAIN R : f[i] = Share(R, u, x)[i]
  BY <1>2, <1>5, ShareNat
<1>10. Total(f, DOMAIN Q) = Held(Q, u, x)
  BY <1>4, <1>8, TotalSame DEF Held
<1>11. Total(f, DOMAIN R) = Held(R, u, x)
  BY <1>4, <1>9, TotalSame DEF Held
<1>12. Held(W, u, x) = Total(f, DOMAIN Q \cup DOMAIN R)
  BY <1>2, <1>3 DEF Held
<1> QED
  BY <1>1, <1>7, <1>10, <1>11, <1>12

(* What is taken away is held elsewhere.                                   *)
LEMMA HeldApart ==
    ASSUME NEW n \in Nat, NEW R \in Tables(n), NEW S, S \subseteq DOMAIN R, NEW u, NEW x
    PROVE  /\ [i \in S |-> R[i]] \in Tables(n)
           /\ Held(R, u, x) = Held(Without(R, S), u, x) + Held([i \in S |-> R[i]], u, x)
<1>1. PICK Q : Q = [i \in S |-> R[i]]
  OBVIOUS
<1>2. DOMAIN Q = S /\ Q = [i \in DOMAIN Q |-> Q[i]] /\ \A i \in S : Q[i] = R[i]
  BY <1>1
<1>3. DOMAIN Q \subseteq 1 .. n /\ \A i \in DOMAIN Q : Q[i] \in Row
  BY <1>2, TableParts
<1>4. Q \in Tables(n)
  BY <1>2, <1>3, IsTableOf
<1>5. PICK W : W = Without(R, S)
  OBVIOUS
<1>6. W \in Tables(n) /\ DOMAIN W = DOMAIN R \ S /\ \A i \in DOMAIN W : W[i] = R[i]
  BY SMTT(60), <1>5, WithoutTable
<1>7. PICK V : V = With(W, Q)
  OBVIOUS
<1>8. DOMAIN V = DOMAIN R /\ V \in Tables(n) /\ \A i \in DOMAIN R : V[i] = R[i]
  <2>1. V \in Tables(n)
    BY <1>4, <1>6, <1>7, WithTable
  <2>2. DOMAIN V = DOMAIN W \cup DOMAIN Q
    BY <1>7, WithDomain, WithLeft, WithRight
  <2>3. \A i \in DOMAIN W : V[i] = R[i]
    BY <1>6, <1>7, WithDomain, WithLeft, WithRight
  <2>4. \A i \in DOMAIN Q \ DOMAIN W : V[i] = R[i]
    BY <1>2, <1>7, WithDomain, WithLeft, WithRight
  <2> QED
    BY <1>2, <1>6, <2>1, <2>2, <2>3, <2>4
<1>9. Held(V, u, x) = Held(R, u, x)
  BY <1>8, HeldSame
<1>10. Held(V, u, x) = Held(W, u, x) + Held(Q, u, x)
  BY <1>2, <1>4, <1>6, <1>7, HeldWith
<1> QED
  BY <1>1, <1>4, <1>5, <1>9, <1>10

(* One row less.                                                           *)
LEMMA HeldRemove ==
    ASSUME NEW n \in Nat, NEW R \in Tables(n), NEW i \in DOMAIN R, NEW u, NEW x
    PROVE  Held(R, u, x) = Held(Without(R, {i}), u, x) + ShareOf(R[i], u, x)
<1>1. PICK Q : Q = [j \in {i} |-> R[j]]
  OBVIOUS
<1>2. Q \in Tables(n) /\ Held(R, u, x) = Held(Without(R, {i}), u, x) + Held(Q, u, x)
  BY <1>1, HeldApart
<1>3. DOMAIN Q = {i} /\ Q[i] = R[i]
  BY <1>1
<1>4. PICK f : f = Share(Q, u, x)
  OBVIOUS
<1>5. f[i] = ShareOf(R[i], u, x) /\ f[i] \in Nat
  BY <1>2, <1>3, <1>4, ShareNat
<1>6. IsFiniteSet({i}) /\ \A j \in {i} : f[j] \in Int
  <2>1. IsFiniteSet({i})
    BY FS_Singleton
  <2> QED
    BY <1>5, <2>1
<1>7. i \in {i} /\ {i} \ {i} = {}
  OBVIOUS
<1>8. Total(f, {i}) = f[i] + Total(f, {i} \ {i})
  BY <1>6, <1>7, TotalTake
<1>9. Total(f, {i}) = f[i] + 0
  BY <1>7, <1>8, TotalEmpty
<1>10. Held(Q, u, x) = f[i]
  BY <1>3, <1>4, <1>5, <1>9 DEF Held
<1> QED
  BY <1>2, <1>5, <1>10

(* One row changed.                                                        *)
LEMMA HeldChange ==
    ASSUME NEW n \in Nat, NEW R \in Tables(n), NEW i \in DOMAIN R, NEW Q \in Tables(n),
           DOMAIN Q = DOMAIN R, \A j \in DOMAIN R \ {i} : Q[j] = R[j], NEW u, NEW x
    PROVE  Held(Q, u, x) = Held(R, u, x) + ShareOf(Q[i], u, x) - ShareOf(R[i], u, x)
<1>1. PICK e : e = Share(Q, u, x)
  OBVIOUS
<1>2. PICK f : f = Share(R, u, x)
  OBVIOUS
<1>3. \A j \in DOMAIN R : f[j] = ShareOf(R[j], u, x) /\ f[j] \in Nat
  BY <1>2, ShareNat
<1>4. \A j \in DOMAIN R : e[j] = ShareOf(Q[j], u, x) /\ e[j] \in Nat
  BY <1>1, ShareNat
<1>5. /\ \A j \in DOMAIN R : f[j] \in Int /\ e[j] \in Int
      /\ \A j \in DOMAIN R \ {i} : e[j] = f[j]
      /\ e[i] = ShareOf(Q[i], u, x) /\ f[i] = ShareOf(R[i], u, x)
  BY <1>3, <1>4
<1>6. IsFiniteSet(DOMAIN R)
  BY TableParts
<1>7. Total(e, DOMAIN R) = Total(f, DOMAIN R) + e[i] - f[i]
  BY <1>5, <1>6, TotalChange
<1> QED
  BY <1>1, <1>2, <1>5, <1>7 DEF Held

------------------------------------------------------------------------------
(* Times.                                                                  *)

(* One type up.                                                            *)
Climb(below, Through) ==
    LET up == Parent[Last(below)]
    IN  IF Last(below) \in Through /\ up # None /\ ~Contains(below, up)
        THEN Append(below, up) ELSE below

IsClimb(g, t, Through) ==
    g = [n \in 0 .. Cardinality(Type) |-> IF n = 0 THEN <<t>> ELSE Climb(g[n - 1], Through)]

(* A climb through the parents of a type stays within the types.           *)
LEMMA ChainTyped ==
    ASSUME NEW t \in Type, NEW Through
    PROVE  IsFiniteSet(ToSet(Chain(t, Through))) /\ ToSet(Chain(t, Through)) \subseteq Type
<1>1. PICK N : N = Cardinality(Type)
  OBVIOUS
<1>2. N \in Nat
  BY <1>1, FS_CardinalityType, TypesAssumption
<1>3. PICK T : T = {x \in (0 .. N) \X Seq(Type) : x[2] # <<>>}
  OBVIOUS
<1>4. PICK base : base = <<t>>
  OBVIOUS
<1>5. <<0, base>> \in T
  <2>1. base \in Seq(Type) /\ base # <<>>
    BY <1>4
  <2> QED
    BY <1>2, <1>3, <2>1
<1>6. PICK Step : Step = [x \in T |-> Climb(x[2], Through)]
  OBVIOUS
<1>7. ASSUME NEW k \in 1 .. N, NEW v, <<k - 1, v>> \in T
      PROVE  <<k, Climb(v, Through)>> \in T /\ Step[<<k - 1, v>>] = Climb(v, Through)
  <2>1. v \in Seq(Type) /\ v # <<>> /\ Last(v) \in Type
    BY <1>3, <1>7 DEF Last
  <2>2. Climb(v, Through) \in Seq(Type) /\ Climb(v, Through) # <<>>
    <3>1. Parent[Last(v)] # None => Parent[Last(v)] \in Type
      BY <2>1, TypesAssumption
    <3> QED
      BY <2>1, <3>1 DEF Climb
  <2>3. Step[<<k - 1, v>>] = Climb(v, Through)
    BY <1>6, <1>7
  <2>4. k \in 0 .. N
    BY <1>2
  <2> QED
    BY <1>3, <2>2, <2>3, <2>4
<1>8. \A k \in 1 .. N : \A v : <<k - 1, v>> \in T => <<k, Step[<<k - 1, v>>]>> \in T
  BY <1>7
<1>9. PICK g : (\A k \in 0 .. N : <<k, g[k]>> \in T) /\ Recurs(g, N, base, Step)
  BY ONLY <1>2, <1>5, <1>8, StepsExist
<1>10. IsClimb(g, t, Through)
  <2>1. \A k \in 0 .. N : k # 0 => k \in 1 .. N /\ k - 1 \in 0 .. N
    BY <1>2
  <2>2. \A k \in 0 .. N : k # 0 => Step[<<k - 1, g[k - 1]>>] = Climb(g[k - 1], Through)
    BY <1>7, <1>9, <2>1
  <2> QED
    BY <1>1, <1>4, <1>9, <2>2 DEF IsClimb, Recurs
<1>11. PICK c : c = CHOOSE h : IsClimb(h, t, Through)
  OBVIOUS
<1>12. IsClimb(c, t, Through)
  BY <1>10, <1>11
<1>13. c[0] = <<t>> /\ \A k \in 1 .. N : c[k] = Climb(c[k - 1], Through)
  BY <1>1, <1>2, <1>12 DEF IsClimb
<1>14. \A k \in 1 .. N : <<k - 1, c[k - 1]>> \in T => <<k, c[k]>> \in T
  BY <1>7, <1>13
<1>15. <<0, c[0]>> \in T
  BY <1>4, <1>5, <1>13
<1>16. \A k \in 0 .. N : <<k, c[k]>> \in T
  BY <1>2, <1>14, <1>15, StepsKeep
<1>17. <<N, c[N]>> \in T
  BY <1>2, <1>16
<1>18. c[N] \in Seq(Type)
  BY <1>3, <1>17
<1>19. Chain(t, Through) = c[N]
  BY <1>1, <1>11 DEF Chain, IsClimb, Climb
<1>20. ToSet(c[N]) \subseteq Type
  BY <1>18 DEF ToSet
<1> QED
  BY <1>19, <1>20, FS_Subset, TypesAssumption

(* No improvement slows down.                                              *)
LEMMA ImprovementNat ==
    ASSUME NEW units, NEW active, \A x \in units : x.unit \in Unit /\ x.id \in Nat,
           Paced(units) # {}
    PROVE  SpeedImprovement(units, active) \in Nat
<1>1. PICK low : low = LowestSpeed(units)
  OBVIOUS
<1>2. PICK S : S = {Speed[x.unit] : x \in Paced(units)}
  OBVIOUS
<1>3. S \subseteq Nat /\ S # {}
  BY <1>2, RulesAssumption DEF Paced
<1>4. low \in S
  BY <1>1, <1>2, <1>3, LeastNumber DEF LowestSpeed
<1>5. PICK D : D = {x.id : x \in {y \in units : Speed[y.unit] = low}}
  OBVIOUS
<1>6. D \subseteq Nat /\ D # {}
  BY <1>2, <1>4, <1>5 DEF Paced
<1>7. PICK d \in D : \A e \in D : d <= e
  BY <1>6, LeastNumber
<1>8. PICK x \in units : Speed[x.unit] = low /\ x.id = d
  BY <1>5, <1>7
<1>9. /\ Speed[x.unit] = LowestSpeed(units)
      /\ \A y \in units : Speed[y.unit] = Speed[x.unit] => x.id <= y.id
  BY <1>1, <1>5, <1>7, <1>8
<1>10. PICK first : first = CHOOSE y \in units :
            /\ Speed[y.unit] = LowestSpeed(units)
            /\ \A z \in units : Speed[z.unit] = Speed[y.unit] => y.id <= z.id
  OBVIOUS
<1>11. first \in units
  BY <1>9, <1>10
<1>12. PICK C : C = ToSet(Chain(TypeOf[first.unit], Inherits))
  OBVIOUS
<1>13. TypeOf[first.unit] \in Type
  BY <1>11, TypesAssumption
<1>14. IsFiniteSet(C) /\ C \subseteq Type
  BY <1>12, <1>13, ChainTyped
<1>15. \A t \in C : SpeedBonus[t] \in Nat
  BY <1>14, RulesAssumption
<1>16. Total(SpeedBonus, C) \in Nat
  BY <1>14, <1>15, TotalNat
<1>17. SpeedImprovement(units, active) = IF active THEN Total(SpeedBonus, C) ELSE 0
  BY <1>10, <1>12 DEF SpeedImprovement, Total
<1> QED
  BY <1>16, <1>17

(* The way there is a number.                                              *)
LEMMA WayNat ==
    ASSUME NEW p \in Planet, NEW q \in Planet
    PROVE  /\ FindSpeedLeftMultiplier(Position[p], Position[q]) \in Nat
           /\ CalculateMoveCost(Position[p], Position[q]) \in Nat
<1> DEFINE Far(name) == Distance(Position[p][name], Position[q][name])
<1>1. p \in DOMAIN Position /\ q \in DOMAIN Position
  BY StartAssumption
<1>2. /\ Far("number") \in Nat /\ Far("quadrant") \in Nat /\ Far("sector") \in Nat
  BY <1>1, DistanceAssumption DEF Distance
<1>3. /\ MoveCost["planet"] \in Nat /\ MoveCost["quadrant"] \in Nat
      /\ MoveCost["sector"] \in Nat /\ MoveCost["galaxy"] \in Nat
  BY DistanceAssumption
<1>4. /\ Penalty["same"] \in Nat /\ Penalty["quadrant"] \in Nat
      /\ Penalty["sector"] \in Nat /\ Penalty["galaxy"] \in Nat
  BY DistanceAssumption
<1>5. FindSpeedLeftMultiplier(Position[p], Position[q]) \in Nat
  BY <1>4 DEF FindSpeedLeftMultiplier
<1>6. ASSUME NEW a \in Nat, NEW b \in Nat PROVE a * b \in Nat
  OBVIOUS
<1>7. /\ Far("number") * MoveCost["planet"] \in Nat
      /\ Far("quadrant") * MoveCost["quadrant"] \in Nat
      /\ Far("sector") * MoveCost["sector"] \in Nat
  BY <1>2, <1>3, <1>6
<1>8. CalculateMoveCost(Position[p], Position[q]) =
         Far("number") * MoveCost["planet"] + Far("quadrant") * MoveCost["quadrant"]
         + Far("sector") * MoveCost["sector"]
         + (IF Position[p].galaxy # Position[q].galaxy THEN MoveCost["galaxy"] ELSE 0)
  BY DEF CalculateMoveCost
<1> HIDE DEF Far
<1> QED
  BY <1>3, <1>5, <1>7, <1>8

(* Numbers multiply to a number.                                           *)
LEMMA ProductNat == ASSUME NEW a \in Nat, NEW b \in Nat PROVE a * b \in Nat
  OBVIOUS

(* A product grows with its factor.                                        *)
LEMMA ProductGrows ==
    ASSUME NEW a \in Nat, NEW b \in Int, NEW c \in Int, b <= c PROVE a * b <= a * c
  OBVIOUS

(* A quotient grows with its dividend.                                     *)
LEMMA QuotientGrows ==
    ASSUME NEW d \in Nat \ {0}, NEW b \in Int, NEW c \in Int, b <= c PROVE b \div d <= c \div d
  OBVIOUS

(* Who is slower takes as long or longer.                                  *)
LEMMA SlowerTakesLonger ==
    ASSUME NEW base \in Nat, NEW p \in Planet, NEW q \in Planet, NEW slow \in Int, NEW fast \in Int,
           slow <= fast
    PROVE  /\ CalculateTimeUsingSpeed(base, slow, Position[p], Position[q]) \in Nat
           /\ CalculateTimeUsingSpeed(base, fast, Position[p], Position[q]) \in Nat
           /\ CalculateTimeUsingSpeed(base, fast, Position[p], Position[q])
                  <= CalculateTimeUsingSpeed(base, slow, Position[p], Position[q])
<1>1. PICK a : a = FindSpeedLeftMultiplier(Position[p], Position[q]) * CalculateMoveCost(Position[p], Position[q])
  OBVIOUS
<1>2. a \in Nat
  BY <1>1, WayNat, ProductNat
<1>3. PICK d : d = 10000 * Divisor
  OBVIOUS
<1>4. d \in Nat \ {0}
  BY <1>3, DistanceAssumption
<1>5. a * (10000 - fast) <= a * (10000 - slow) /\ a * (10000 - fast) \in Int /\ a * (10000 - slow) \in Int
  BY <1>2, ProductGrows
<1>6. PICK e : e = a * (10000 - slow)
  OBVIOUS
<1>7. PICK f : f = a * (10000 - fast)
  OBVIOUS
<1>8. f \div d <= e \div d /\ f \div d \in Int /\ e \div d \in Int
  BY <1>4, <1>5, <1>6, <1>7, QuotientGrows
<1>9. CalculateTimeUsingSpeed(base, slow, Position[p], Position[q]) = Max({base, base + e \div d})
  BY <1>1, <1>3, <1>6 DEF CalculateTimeUsingSpeed
<1>10. CalculateTimeUsingSpeed(base, fast, Position[p], Position[q]) = Max({base, base + f \div d})
  BY <1>1, <1>3, <1>7 DEF CalculateTimeUsingSpeed
<1>11. PICK y : y = base + e \div d
  OBVIOUS
<1>12. PICK z : z = base + f \div d
  OBVIOUS
<1>13. y \in Int /\ z \in Int /\ z <= y
  BY <1>8, <1>11, <1>12
<1>14. base \in Int
  OBVIOUS
<1>15. Max({base, y}) \in {base, y} /\ Max({base, y}) >= base /\ Max({base, y}) >= y
  BY ONLY <1>13, <1>14, MaxOfTwo
<1>16. Max({base, z}) \in {base, z} /\ Max({base, z}) >= base /\ Max({base, z}) >= z
  BY ONLY <1>13, <1>14, MaxOfTwo
<1> QED
  BY <1>9, <1>10, <1>11, <1>12, <1>13, <1>15, <1>16

(* How long a crew takes: as long as any of it would alone, unless it has  *)
(* an improvement.                                                         *)
LEMMA CrewTime ==
    ASSUME NEW units, NEW active, NEW kind \in Kind, NEW p \in Planet, NEW q \in Planet,
           \A x \in units : x.unit \in Unit /\ x.id \in Nat
    PROVE  /\ RequiredTime(units, active, kind, p, q) \in Nat
           /\ \A x \in Paced(units) :
                 ~(active /\ SpeedImprovement(units, active) # 0) =>
                     CalculateTimeUsingSpeed(BaseTime[kind], 100 * Speed[x.unit], Position[p], Position[q])
                         <= RequiredTime(units, active, kind, p, q)
<1>1. PICK base : base = BaseTime[kind]
  OBVIOUS
<1>2. base \in Nat
  BY <1>1, StartAssumption
<1>3. CASE Paced(units) = {}
  BY <1>1, <1>2, <1>3 DEF RequiredTime
<1>4. CASE Paced(units) # {}
  <2>1. PICK low : low = LowestSpeed(units)
    OBVIOUS
  <2>2. PICK S : S = {Speed[x.unit] : x \in Paced(units)}
    OBVIOUS
  <2>3. S \subseteq Nat /\ S # {}
    BY <1>4, <2>2, RulesAssumption DEF Paced
  <2>4. low \in Nat /\ \A s \in S : low <= s
    BY <2>1, <2>2, <2>3, LeastNumber DEF LowestSpeed
  <2>5. PICK bonus : bonus = SpeedImprovement(units, active)
    OBVIOUS
  <2>6. bonus \in Nat
    BY <1>4, <2>5, ImprovementNat
  <2>7. RequiredTime(units, active, kind, p, q) =
            CalculateTimeUsingSpeed(base, low * (100 + bonus), Position[p], Position[q])
    BY <1>1, <1>4, <2>1, <2>5 DEF RequiredTime
  <2>8. low * (100 + bonus) \in Nat
    BY <2>4, <2>6, ProductNat
  <2>9. RequiredTime(units, active, kind, p, q) \in Nat
    BY <1>2, <2>7, <2>8, SlowerTakesLonger
  <2>10. ASSUME NEW x \in Paced(units), ~(active /\ bonus # 0)
         PROVE  CalculateTimeUsingSpeed(base, 100 * Speed[x.unit], Position[p], Position[q])
                    <= RequiredTime(units, active, kind, p, q)
    <3>1. bonus = 0
      BY <2>5, <2>10 DEF SpeedImprovement
    <3>2. PICK s : s = Speed[x.unit]
      OBVIOUS
    <3>3. s \in Nat /\ low <= s
      BY <2>2, <2>3, <2>4, <3>2
    <3>4. low * (100 + bonus) = 100 * low /\ 100 * low <= 100 * s /\ 100 * low \in Int /\ 100 * s \in Int
      BY <2>4, <3>1, <3>3
    <3>5. CalculateTimeUsingSpeed(base, 100 * s, Position[p], Position[q])
              <= CalculateTimeUsingSpeed(base, 100 * low, Position[p], Position[q])
      BY <1>2, <3>4, SlowerTakesLonger
    <3> QED
      BY <2>7, <3>2, <3>4, <3>5
  <2> QED
    BY <1>1, <2>5, <2>9, <2>10
<1> QED
  BY <1>3, <1>4

------------------------------------------------------------------------------
(* Loading.                                                                *)

(* What a row keeps when only its count changes.                           *)
Alike(r, s) == r.user = s.user /\ r.unit = s.unit /\ r.mission = s.mission /\ r.carrier = s.carrier

(* saveWithSubtraction                                                     *)
LEMMA SubtractedTable ==
    ASSUME NEW n \in Nat, NEW R \in Tables(n), NEW i \in DOMAIN R, NEW c \in 1 .. R[i].count
    PROVE  /\ Subtracted(R, i, c) \in Tables(n)
           /\ DOMAIN Subtracted(R, i, c) \subseteq DOMAIN R
           /\ \A j \in DOMAIN Subtracted(R, i, c) : Alike(Subtracted(R, i, c)[j], R[j])
           /\ \A j \in DOMAIN R \ DOMAIN Subtracted(R, i, c) : j = i /\ R[i].count = c
           /\ \A u, x : Held(Subtracted(R, i, c), u, x)
                            + (IF R[i].user = u /\ R[i].unit = x THEN c ELSE 0) = Held(R, u, x)
<1>1. PICK Q : Q = Subtracted(R, i, c)
  OBVIOUS
<1>2. R[i] \in Row
  BY TableParts
<1>3. R[i].count \in Nat /\ c \in Nat \ {0} /\ c <= R[i].count
  BY <1>2 DEF Row
<1>4. CASE R[i].count = c
  <2>1. Q = Without(R, {i})
    BY <1>1, <1>4 DEF Subtracted
  <2>2. Q \in Tables(n) /\ DOMAIN Q = DOMAIN R \ {i} /\ \A j \in DOMAIN Q : Q[j] = R[j]
    BY SMTT(60), <2>1, WithoutTable
  <2>3. ASSUME NEW u, NEW x
        PROVE  Held(Q, u, x) + (IF R[i].user = u /\ R[i].unit = x THEN c ELSE 0) = Held(R, u, x)
    BY <1>4, <2>1, HeldRemove DEF ShareOf
  <2> QED
    BY <1>1, <1>4, <2>2, <2>3 DEF Alike
<1>5. CASE R[i].count # c
  <2>1. PICK r : r = [R[i] EXCEPT !.count = R[i].count - c]
    OBVIOUS
  <2>2. r \in Row /\ r.count = R[i].count - c /\ Alike(r, R[i])
    BY <1>2, <1>3, <1>5, <2>1 DEF Row, Alike
  <2>3. Q = [R EXCEPT ![i] = r]
    BY <1>1, <1>5, <2>1 DEF Subtracted
  <2>4. Q \in Tables(n) /\ DOMAIN Q = DOMAIN R /\ Q[i] = r /\ \A j \in DOMAIN R \ {i} : Q[j] = R[j]
    BY <2>2, <2>3, ChangedTable
  <2>5. ASSUME NEW u, NEW x
        PROVE  Held(Q, u, x) + (IF R[i].user = u /\ R[i].unit = x THEN c ELSE 0) = Held(R, u, x)
    <3>1. Held(Q, u, x) = Held(R, u, x) + ShareOf(r, u, x) - ShareOf(R[i], u, x)
      BY <2>4, HeldChange
    <3>2. Held(R, u, x) \in Nat
      BY HeldNat
    <3>3. CASE R[i].user = u /\ R[i].unit = x
      BY <1>3, <2>2, <3>1, <3>2, <3>3 DEF ShareOf, Alike
    <3>4. CASE ~(R[i].user = u /\ R[i].unit = x)
      BY <2>2, <3>1, <3>2, <3>4 DEF ShareOf, Alike
    <3> QED
      BY <3>3, <3>4
  <2>6. \A j \in DOMAIN Q : Alike(Q[j], R[j])
    BY <2>2, <2>4 DEF Alike
  <2> QED
    BY <1>1, <2>4, <2>5, <2>6
<1> QED
  BY <1>4, <1>5

(* What the items of an order say of a unit.                               *)
Asked(o, u, x) ==
    [k \in DOMAIN o.units |-> IF o.user = u /\ o.units[k].unit = x THEN o.units[k].count ELSE 0]

(* What is so when k items were taken.                                     *)
Loads(o, k, acc) ==
    /\ Len(acc.taken) = k /\ \A j \in 1 .. k : o.units[j].count # 0
    /\ DOMAIN acc.rows \subseteq DOMAIN rows
    /\ \A i \in DOMAIN acc.rows : Alike(acc.rows[i], rows[i])
    /\ \A i \in DOMAIN rows \ DOMAIN acc.rows :
          /\ AtRest(rows, missions, i)
          /\ \E j \in 1 .. k : /\ acc.taken[j].mission = rows[i].mission
                               /\ acc.taken[j].count = o.units[j].count
    /\ \A u \in User, x \in Unit :
          Held(acc.rows, u, x) + Total(Asked(o, u, x), 1 .. k) = Held(rows, u, x)

Loading(o) ==
    {x \in (0 .. Len(o.units)) \X [rows : Tables(ids), taken : Seq(Row), ok : BOOLEAN] :
        x[2].ok => Loads(o, x[1], x[2])}

(* What is known of an order and of its items.                             *)
LEMMA OrderParts ==
    ASSUME NEW o \in Order
    PROVE  /\ o.user \in User /\ o.source \in Planet /\ o.target \in Planet /\ o.kind \in Kind
           /\ o.wanted \in Nat /\ Len(o.units) \in Nat /\ DOMAIN o.units = 1 .. Len(o.units)
           /\ \A k \in 1 .. Len(o.units) :
                 /\ o.units[k].unit \in Unit /\ o.units[k].count \in Nat
                 /\ o.units[k].inside # 0 => /\ o.units[k].inside \in 1 .. k - 1
                                             /\ o.units[o.units[k].inside].inside = 0
<1>1. o.units \in Seq([unit : Unit, count : Nat, inside : Nat, expiration : Expiration \cup {None}])
  BY OrdersAssumption
<1>2. Len(o.units) \in Nat /\ DOMAIN o.units = 1 .. Len(o.units)
  BY <1>1
<1>3. ASSUME NEW k \in 1 .. Len(o.units) PROVE o.units[k].unit \in Unit /\ o.units[k].count \in Nat
  <2>1. \A S : o.units \in Seq(S) => o.units[k] \in S
    OBVIOUS
  <2>2. o.units[k] \in [unit : Unit, count : Nat, inside : Nat, expiration : Expiration \cup {None}]
    BY <1>1, <2>1
  <2> QED
    BY <2>2
<1>4. ASSUME NEW k \in 1 .. Len(o.units), o.units[k].inside # 0
      PROVE  o.units[k].inside \in 1 .. k - 1 /\ o.units[o.units[k].inside].inside = 0
  BY <1>2, <1>4, OrdersAssumption
<1>5. /\ o.user \in User /\ o.source \in Planet /\ o.target \in Planet /\ o.kind \in Kind
      /\ o.wanted \in Nat
  BY OrdersAssumption
<1> QED
  BY <1>2, <1>3, <1>4, <1>5

(* One item more.                                                          *)
LEMMA AskedMore ==
    ASSUME NEW o \in Order, NEW u, NEW x, NEW k \in 1 .. Len(o.units)
    PROVE  Total(Asked(o, u, x), 1 .. k)
               = Total(Asked(o, u, x), 1 .. k - 1)
                 + (IF o.user = u /\ o.units[k].unit = x THEN o.units[k].count ELSE 0)
<1>1. PICK f : f = Asked(o, u, x)
  OBVIOUS
<1>2. k \in Nat /\ \A j \in 1 .. k : j \in 1 .. Len(o.units)
  BY OrderParts
<1>3. \A j \in 1 .. Len(o.units) :
         /\ f[j] \in Int
         /\ f[j] = IF o.user = u /\ o.units[j].unit = x THEN o.units[j].count ELSE 0
  BY <1>1, OrderParts DEF Asked
<1>4. \A j \in 1 .. k : f[j] \in Int
  BY <1>2, <1>3
<1>5. IsFiniteSet(1 .. k)
  BY <1>2, FS_Interval
<1>6. k \in 1 .. k /\ (1 .. k) \ {k} = 1 .. k - 1
  BY <1>2
<1>7. Total(f, 1 .. k) = f[k] + Total(f, (1 .. k) \ {k})
  BY ONLY <1>4, <1>5, <1>6, TotalTake
<1>8. Total(f, (1 .. k) \ {k}) \in Int
  <2>1. IsFiniteSet((1 .. k) \ {k})
    BY <1>5, FS_RemoveElement
  <2>2. \A j \in (1 .. k) \ {k} : f[j] \in Int
    BY <1>4
  <2> QED
    BY ONLY <2>1, <2>2, TotalInt
<1>9. f[k] \in Int /\ f[k] = IF o.user = u /\ o.units[k].unit = x THEN o.units[k].count ELSE 0
  BY <1>3
<1>10. Total(f, 1 .. k) = Total(f, 1 .. k - 1) + f[k]
  <2>1. Total(f, (1 .. k) \ {k}) = Total(f, 1 .. k - 1)
    BY <1>6, Zenon
  <2>2. Total(f, 1 .. k) = f[k] + Total(f, 1 .. k - 1) /\ Total(f, 1 .. k - 1) \in Int
    BY <1>7, <1>8, <2>1, Zenon
  <2> QED
    BY ONLY <1>9, <2>2
<1> QED
  BY ONLY <1>1, <1>9, <1>10

(* handle_selected_unit takes the next item of an order.                   *)
LEMMA LoadStep ==
    ASSUME Typed, NEW o \in Order, NEW k \in 1 .. Len(o.units), NEW acc, <<k - 1, acc>> \in Loading(o)
    PROVE  <<k, HandleSelectedUnit(o, acc, o.units[k])>> \in Loading(o)
<1>1. PICK item : item = o.units[k]
  OBVIOUS
<1>2. PICK h : h = HandleSelectedUnit(o, acc, item)
  OBVIOUS
<1>3. acc \in [rows : Tables(ids), taken : Seq(Row), ok : BOOLEAN] /\ (acc.ok => Loads(o, k - 1, acc))
  BY DEF Loading
<1>4. ids \in Nat /\ rows \in Tables(ids) /\ k \in Nat /\ k \in 0 .. Len(o.units)
  BY OrderParts DEF Typed
<1>5. PICK found : found = SourceStacks(acc.rows, o, item)
  OBVIOUS
<1>6. PICK i : i = Min(found)
  OBVIOUS
<1>7. CASE ~h.ok
  <2>1. h = [rows |-> acc.rows, taken |-> acc.taken, ok |-> FALSE]
    BY <1>2, <1>7 DEF HandleSelectedUnit
  <2>2. h \in [rows : Tables(ids), taken : Seq(Row), ok : BOOLEAN]
    BY <1>3, <2>1
  <2> QED
    BY <1>1, <1>2, <1>4, <1>7, <2>2 DEF Loading
<1>8. CASE h.ok
  <2>1. /\ acc.ok /\ found # {} /\ item.count \in 1 .. acc.rows[i].count
        /\ h = [rows |-> Subtracted(acc.rows, i, item.count),
                taken |-> Append(acc.taken, acc.rows[i]), ok |-> TRUE]
    BY <1>2, <1>5, <1>6, <1>8 DEF HandleSelectedUnit
  <2>2. acc.rows \in Tables(ids) /\ acc.taken \in Seq(Row) /\ Loads(o, k - 1, acc)
    BY <1>3, <2>1
  <2>3. found \subseteq DOMAIN acc.rows /\ found \subseteq Nat
    BY <1>4, <1>5, <2>2, TableParts DEF SourceStacks
  <2>4. i \in found
    BY <1>6, <2>1, <2>3, LeastNumber
  <2>5. i \in DOMAIN acc.rows
    BY <2>3, <2>4
  <2>6. /\ acc.rows[i].user = o.user /\ acc.rows[i].unit = item.unit
        /\ acc.rows[i].mission = None \/ Marks(missions, acc.rows[i].mission)
    BY <1>5, <2>4 DEF SourceStacks, Type_, Marks
  <2>7. /\ h.rows \in Tables(ids)
        /\ DOMAIN h.rows \subseteq DOMAIN acc.rows
        /\ \A j \in DOMAIN h.rows : Alike(h.rows[j], acc.rows[j])
        /\ \A j \in DOMAIN acc.rows \ DOMAIN h.rows : j = i /\ acc.rows[i].count = item.count
        /\ \A u, x : Held(h.rows, u, x)
                         + (IF acc.rows[i].user = u /\ acc.rows[i].unit = x THEN item.count ELSE 0)
                         = Held(acc.rows, u, x)
    BY <1>4, <2>1, <2>2, <2>5, SubtractedTable
  <2>8. acc.rows[i] \in Row
    BY <1>4, <2>2, <2>5, TableParts
  <2>9. /\ h.taken \in Seq(Row) /\ Len(h.taken) = k /\ h.taken[k] = acc.rows[i]
        /\ \A j \in 1 .. k - 1 : h.taken[j] = acc.taken[j]
    <3>1. Len(acc.taken) = k - 1
      BY <2>2 DEF Loads
    <3> QED
      BY <1>4, <2>1, <2>2, <2>8, <3>1
  <2>10. h \in [rows : Tables(ids), taken : Seq(Row), ok : BOOLEAN]
    BY <2>1, <2>7, <2>9
  <2>11. DOMAIN h.rows \subseteq DOMAIN rows /\ \A j \in DOMAIN h.rows : Alike(h.rows[j], rows[j])
    BY <2>2, <2>7 DEF Loads, Alike
  <2>12. ASSUME NEW j \in DOMAIN rows \ DOMAIN h.rows
         PROVE  /\ AtRest(rows, missions, j)
                /\ \E l \in 1 .. k : /\ h.taken[l].mission = rows[j].mission
                                     /\ h.taken[l].count = o.units[l].count
    <3>1. CASE j \in DOMAIN acc.rows
      <4>1. j = i /\ acc.rows[i].count = item.count
        BY <2>7, <2>12, <3>1
      <4>2. acc.rows[i].mission = rows[i].mission
        BY <2>2, <2>5 DEF Loads, Alike
      <4>3. AtRest(rows, missions, j)
        BY <2>6, <4>1, <4>2 DEF AtRest
      <4> QED
        BY <1>1, <1>4, <2>9, <4>1, <4>2, <4>3
    <3>2. CASE j \notin DOMAIN acc.rows
      <4>1. /\ AtRest(rows, missions, j)
            /\ \E l \in 1 .. k - 1 : /\ acc.taken[l].mission = rows[j].mission
                                     /\ acc.taken[l].count = o.units[l].count
        BY <2>2, <2>12, <3>2 DEF Loads
      <4> QED
        BY SMTT(60), <1>4, <2>9, <4>1
    <3> QED
      BY <3>1, <3>2
  <2>13. ASSUME NEW u \in User, NEW x \in Unit
         PROVE  Held(h.rows, u, x) + Total(Asked(o, u, x), 1 .. k) = Held(rows, u, x)
    <3>1. Held(acc.rows, u, x) + Total(Asked(o, u, x), 1 .. k - 1) = Held(rows, u, x)
      BY <2>2 DEF Loads
    <3>2. Total(Asked(o, u, x), 1 .. k)
              = Total(Asked(o, u, x), 1 .. k - 1)
                + (IF o.user = u /\ item.unit = x THEN item.count ELSE 0)
      <4>1. Total(Asked(o, u, x), 1 .. k)
                = Total(Asked(o, u, x), 1 .. k - 1)
                  + (IF o.user = u /\ o.units[k].unit = x THEN o.units[k].count ELSE 0)
        BY AskedMore
      <4> QED
        BY ONLY <1>1, <4>1
    <3>3. Held(h.rows, u, x) + (IF o.user = u /\ item.unit = x THEN item.count ELSE 0)
              = Held(acc.rows, u, x)
      BY <2>6, <2>7
    <3>4. Held(h.rows, u, x) \in Nat /\ Held(acc.rows, u, x) \in Nat /\ Held(rows, u, x) \in Nat
      BY <1>4, <2>2, <2>7, HeldNat
    <3>5. Total(Asked(o, u, x), 1 .. k - 1) \in Int
      <4>1. \A j \in 1 .. k - 1 : Asked(o, u, x)[j] \in Int
        BY SMTT(60), <1>4, OrderParts DEF Asked
      <4>2. IsFiniteSet(1 .. k - 1)
        BY <1>4, FS_Interval
      <4> QED
        BY <4>1, <4>2, TotalInt
    <3>6. item.count \in Nat
      BY <1>1, OrderParts
    <3> QED
      BY <3>1, <3>2, <3>3, <3>4, <3>5, <3>6
  <2>14. \A j \in 1 .. k : o.units[j].count # 0
    <3>1. \A j \in 1 .. k - 1 : o.units[j].count # 0
      BY <2>2 DEF Loads
    <3>2. o.units[k].count # 0
      BY <1>1, <2>1
    <3> QED
      BY <1>4, <3>1, <3>2
  <2>15. Loads(o, k, h)
    BY <2>9, <2>11, <2>12, <2>13, <2>14 DEF Loads
  <2> QED
    BY <1>1, <1>2, <1>4, <2>10, <2>15 DEF Loading
<1> QED
  BY <1>7, <1>8

(* An order is loaded from nothing.                                        *)
LEMMA LoadStart ==
    ASSUME Typed, NEW o \in Order
    PROVE  <<0, [rows |-> rows, taken |-> <<>>, ok |-> NoRepeatedUnit(o)]>> \in Loading(o)
<1>1. PICK h : h = [rows |-> rows, taken |-> <<>>, ok |-> NoRepeatedUnit(o)]
  OBVIOUS
<1>2. NoRepeatedUnit(o) \in BOOLEAN
  BY DEF NoRepeatedUnit
<1>3. ids \in Nat /\ rows \in Tables(ids) /\ 0 \in 0 .. Len(o.units)
  BY OrderParts DEF Typed
<1>4. h \in [rows : Tables(ids), taken : Seq(Row), ok : BOOLEAN]
  BY <1>1, <1>2, <1>3
<1>5. h.rows = rows /\ h.taken = <<>> /\ Len(h.taken) = 0
  BY <1>1
<1>6. \A u \in User, x \in Unit : Held(rows, u, x) + Total(Asked(o, u, x), 1 .. 0) = Held(rows, u, x)
  <2>1. 1 .. 0 = {}
    OBVIOUS
  <2> QED
    BY <1>3, <2>1, HeldNat, TotalEmpty
<1>7. Loads(o, 0, h)
  BY <1>5, <1>6 DEF Loads, Alike
<1> QED
  BY <1>1, <1>3, <1>4, <1>7 DEF Loading

IsLoad(g, o) ==
    g = [k \in 0 .. Len(o.units) |->
            IF k = 0 THEN [rows |-> rows, taken |-> <<>>, ok |-> NoRepeatedUnit(o)]
            ELSE HandleSelectedUnit(o, g[k - 1], o.units[k])]

(* What load_and_subtract_units leaves.                                    *)
LEMMA LoadedParts ==
    ASSUME Typed, NEW o \in Order
    PROVE  /\ Loaded(o).rows \in Tables(ids) /\ Loaded(o).taken \in Seq(Row)
           /\ Loaded(o).ok => Loads(o, Len(o.units), Loaded(o))
<1>1. PICK N : N = Len(o.units)
  OBVIOUS
<1>2. N \in Nat
  BY <1>1, OrderParts
<1>3. PICK T : T = Loading(o)
  OBVIOUS
<1>4. PICK base : base = [rows |-> rows, taken |-> <<>>, ok |-> NoRepeatedUnit(o)]
  OBVIOUS
<1>5. <<0, base>> \in T
  BY <1>3, <1>4, LoadStart
<1>6. PICK Step : Step = [x \in T |-> HandleSelectedUnit(o, x[2], o.units[x[1] + 1])]
  OBVIOUS
<1>7. ASSUME NEW k \in 1 .. N, NEW v, <<k - 1, v>> \in T
      PROVE  /\ <<k, HandleSelectedUnit(o, v, o.units[k])>> \in T
             /\ Step[<<k - 1, v>>] = HandleSelectedUnit(o, v, o.units[k])
  <2>1. <<k, HandleSelectedUnit(o, v, o.units[k])>> \in T
    BY <1>1, <1>3, <1>7, LoadStep
  <2>2. Step[<<k - 1, v>>] = HandleSelectedUnit(o, v, o.units[(k - 1) + 1])
    BY <1>6, <1>7
  <2>3. (k - 1) + 1 = k
    OBVIOUS
  <2> QED
    BY <2>1, <2>2, <2>3
<1>8. \A k \in 1 .. N : \A v : <<k - 1, v>> \in T => <<k, Step[<<k - 1, v>>]>> \in T
  BY <1>7
<1>9. PICK g : (\A k \in 0 .. N : <<k, g[k]>> \in T) /\ Recurs(g, N, base, Step)
  BY ONLY <1>2, <1>5, <1>8, StepsExist
<1>10. IsLoad(g, o)
  <2>1. \A k \in 0 .. N : k # 0 => k \in 1 .. N /\ k - 1 \in 0 .. N
    BY <1>2
  <2>2. \A k \in 0 .. N : k # 0 =>
           Step[<<k - 1, g[k - 1]>>] = HandleSelectedUnit(o, g[k - 1], o.units[k])
    BY <1>7, <1>9, <2>1
  <2> QED
    BY <1>1, <1>4, <1>9, <2>2 DEF IsLoad, Recurs
<1>11. PICK c : c = CHOOSE h : IsLoad(h, o)
  OBVIOUS
<1>12. IsLoad(c, o)
  BY <1>10, <1>11
<1>13. c[0] = base /\ \A k \in 1 .. N : c[k] = HandleSelectedUnit(o, c[k - 1], o.units[k])
  <2>1. \A k \in 0 .. N : c[k] = IF k = 0 THEN base ELSE HandleSelectedUnit(o, c[k - 1], o.units[k])
    BY <1>1, <1>4, <1>12 DEF IsLoad
  <2>2. 0 \in 0 .. N /\ \A k \in 1 .. N : k \in 0 .. N /\ k # 0
    BY <1>2
  <2> QED
    BY <2>1, <2>2
<1>14. \A k \in 1 .. N : <<k - 1, c[k - 1]>> \in T => <<k, c[k]>> \in T
  BY <1>7, <1>13
<1>15. <<0, c[0]>> \in T
  BY <1>5, <1>13
<1>16. \A k \in 0 .. N : <<k, c[k]>> \in T
  BY <1>2, <1>14, <1>15, StepsKeep
<1>17. <<N, c[N]>> \in T
  BY <1>2, <1>16
<1>18. Loaded(o) = c[N]
  BY <1>1, <1>11 DEF Loaded, IsLoad
<1> QED
  BY <1>1, <1>3, <1>17, <1>18 DEF Loading

------------------------------------------------------------------------------
(* Registration.                                                           *)

(* What is aboard the new mission holds what was asked for.                *)
LEMMA AboardHeld ==
    ASSUME NEW o \in Order, NEW m \in Nat, NEW L, L = Len(o.units), NEW A \in Tables(m + L),
           DOMAIN A = m + 1 .. m + L,
           \A i \in DOMAIN A : /\ A[i].user = o.user /\ A[i].unit = o.units[i - m].unit
                               /\ A[i].count = o.units[i - m].count,
           NEW u, NEW x
    PROVE  Held(A, u, x) = Total(Asked(o, u, x), 1 .. L)
<1>1. L \in Nat /\ m + L \in Nat
  BY OrderParts
<1>2. PICK f : f = Asked(o, u, x)
  OBVIOUS
<1>3. \A k \in 1 .. L :
         /\ f[k] \in Nat /\ f[k] = IF o.user = u /\ o.units[k].unit = x THEN o.units[k].count ELSE 0
  BY <1>2, OrderParts DEF Asked
<1>4. PICK e : e = Share(A, u, x)
  OBVIOUS
<1>5. \A i \in m + 1 .. m + L : e[i] \in Nat /\ e[i] = ShareOf(A[i], u, x)
  BY <1>1, <1>4, ShareNat
<1>6. \A k \in 1 .. L : m + k \in m + 1 .. m + L /\ (m + k) - m = k
  BY <1>1
<1>7. \A k \in 1 .. L : e[m + k] = f[k]
  <2> TAKE k \in 1 .. L
  <2>1. m + k \in DOMAIN A /\ (m + k) - m = k
    BY <1>6
  <2>2. /\ A[m + k].user = o.user /\ A[m + k].unit = o.units[k].unit
        /\ A[m + k].count = o.units[k].count
    BY <2>1
  <2>3. e[m + k] = ShareOf(A[m + k], u, x)
    BY <1>5, <2>1
  <2> QED
    BY <1>3, <2>2, <2>3 DEF ShareOf
<1>8. PICK T : T = {k \in Nat : k <= L => Total(e, m + 1 .. m + k) = Total(f, 1 .. k)}
  OBVIOUS
<1>9. 0 \in T
  <2>1. m + 1 .. m + 0 = {} /\ 1 .. 0 = {}
    OBVIOUS
  <2>2. Total(e, m + 1 .. m + 0) = Total(f, 1 .. 0)
    BY <2>1, TotalEmpty
  <2> QED
    BY <1>8, <2>2
<1>10. ASSUME NEW k \in Nat \ {0}, k - 1 \in T PROVE k \in T
  <2> SUFFICES ASSUME k <= L PROVE Total(e, m + 1 .. m + k) = Total(f, 1 .. k)
    BY <1>8
  <2>1. Total(e, m + 1 .. m + (k - 1)) = Total(f, 1 .. k - 1)
    BY <1>1, <1>8, <1>10
  <2>2. PICK E : E = m + 1 .. m + (k - 1)
    OBVIOUS
  <2>3. PICK F : F = 1 .. k - 1
    OBVIOUS
  <2>4. m + 1 .. m + k = E \cup {m + k} /\ m + k \notin E /\ IsFiniteSet(E)
    <3>1. IsFiniteSet(E)
      BY <2>2, FS_Interval
    <3> QED
      BY SMTT(60), <2>2, <3>1
  <2>5. 1 .. k = F \cup {k} /\ k \notin F /\ IsFiniteSet(F)
    <3>1. IsFiniteSet(F)
      BY <2>3, FS_Interval
    <3> QED
      BY <2>3, <3>1
  <2>6. \A i \in E \cup {m + k} : e[i] \in Int
    BY SMTT(60), <1>1, <1>5, <2>2
  <2>7. \A i \in F \cup {k} : f[i] \in Int
    BY <1>1, <1>3, <2>3
  <2>8. Total(e, E \cup {m + k}) = e[m + k] + Total(e, E)
    BY ONLY <2>4, <2>6, TotalAdd
  <2>9. Total(f, F \cup {k}) = f[k] + Total(f, F)
    BY ONLY <2>5, <2>7, TotalAdd
  <2>10. e[m + k] = f[k]
    BY <1>1, <1>7
  <2>11. Total(e, E) = Total(f, F)
    BY <2>1, <2>2, <2>3
  <2> QED
    BY ONLY <2>4, <2>5, <2>8, <2>9, <2>10, <2>11
<1>11. L \in T
  <2>1. \A k \in Nat : k \in T
    BY <1>9, <1>10, AllNumbers
  <2> QED
    BY <1>1, <2>1
<1>12. Total(e, m + 1 .. m + L) = Total(f, 1 .. L)
  BY <1>8, <1>11
<1> QED
  BY <1>2, <1>4, <1>12 DEF Held

(* mark_orphan_missions_resolved                                           *)
LEMMA OrphansTable ==
    ASSUME NEW n \in Nat, NEW M \in MissionTables(n), NEW E, NEW R
    PROVE  /\ OrphansResolved(M, E, R) \in MissionTables(n)
           /\ DOMAIN OrphansResolved(M, E, R) = DOMAIN M
           /\ \A k \in DOMAIN M :
                 OrphansResolved(M, E, R)[k] =
                     IF k \in E /\ \A i \in DOMAIN R : R[i].mission # k
                     THEN [M[k] EXCEPT !.resolved = TRUE] ELSE M[k]
<1>1. PICK Q : Q = OrphansResolved(M, E, R)
  OBVIOUS
<1>2. DOMAIN Q = DOMAIN M /\ Q = [k \in DOMAIN Q |-> Q[k]]
  BY <1>1 DEF OrphansResolved
<1>3. \A k \in DOMAIN M :
          Q[k] = IF k \in E /\ \A i \in DOMAIN R : R[i].mission # k
                 THEN [M[k] EXCEPT !.resolved = TRUE] ELSE M[k]
  BY <1>1 DEF OrphansResolved
<1>4. \A k \in DOMAIN M : M[k] \in MissionRow /\ [M[k] EXCEPT !.resolved = TRUE] \in MissionRow
  <2>1. \A k \in DOMAIN M : M[k] \in MissionRow
    BY MissionTableParts
  <2>2. \A r \in MissionRow : [r EXCEPT !.resolved = TRUE] \in MissionRow
    BY DEF MissionRow
  <2> QED
    BY <2>1, <2>2
<1>5. DOMAIN Q \subseteq 1 .. n /\ \A k \in DOMAIN Q : Q[k] \in MissionRow
  BY <1>2, <1>3, <1>4, MissionTableParts
<1>6. Q \in MissionTables(n)
  BY <1>2, <1>5, IsMissionTable
<1> QED
  BY <1>1, <1>2, <1>3, <1>6

(* What else a resolution leaves.                                          *)
LEMMA ResolvedOnly ==
    ASSUME NEW r \in MissionRow
    PROVE  LET s == [r EXCEPT !.resolved = TRUE]
           IN  /\ s.user = r.user /\ s.type = r.type /\ s.source = r.source /\ s.target = r.target
               /\ s.time = r.time /\ s.boosted = r.boosted /\ s.resolved = TRUE
  BY DEF MissionRow

(* configure_obtained_unit                                                 *)
LEMMA TravellerRow ==
    ASSUME NEW o \in Order, NEW k \in 1 .. Len(o.units), NEW m \in Nat, NEW was \in Row,
           o.units[k].count # 0
    PROVE  /\ Traveller(o, k, m, was) \in Row
           /\ Traveller(o, k, m, was).user = o.user /\ Traveller(o, k, m, was).mission = m
           /\ Traveller(o, k, m, was).unit = o.units[k].unit
           /\ Traveller(o, k, m, was).count = o.units[k].count
           /\ Traveller(o, k, m, was).carrier =
                 IF o.units[k].inside = 0 THEN None ELSE m + o.units[k].inside
<1>1. /\ o.user \in User /\ o.source \in Planet /\ o.target \in Planet
      /\ o.units[k].unit \in Unit /\ o.units[k].count \in Nat \ {0}
      /\ o.units[k].inside # 0 => o.units[k].inside \in Nat
  BY OrderParts
<1>2. was.expiration \in Expiration \cup {None}
  BY DEF Row
<1>3. PICK c : c = IF o.units[k].inside = 0 THEN None ELSE m + o.units[k].inside
  OBVIOUS
<1>4. c \in Nat \cup {None}
  BY <1>1, <1>3
<1>5. Traveller(o, k, m, was) =
         [user |-> o.user, unit |-> o.units[k].unit, count |-> o.units[k].count, mission |-> m,
          source |-> o.source, target |-> o.target, expiration |-> was.expiration, carrier |-> c]
  BY <1>3 DEF Traveller
<1> QED
  BY <1>1, <1>2, <1>3, <1>4, <1>5 DEF Row

(* A fleet that leaves.                                                    *)
LEMMA RegisterKeeps ==
    ASSUME IndInv, NEW o \in Order, Register(o)
    PROVE  IndInv'
<1> DEFINE from == Loaded(o)
           m == ids + 1
           L == Len(o.units)
           A == [i \in m + 1 .. m + L |-> Traveller(o, i - m, m, from.taken[i - m])]
           crew == {[unit |-> A[i].unit, carrier |-> A[i].carrier, id |-> i] : i \in DOMAIN A}
           active == o.user \in special
           required == RequiredTime(crew, active, o.kind, o.source, o.target)
           emptied == {from.taken[k].mission : k \in {j \in DOMAIN o.units :
                           from.taken[j].count = o.units[j].count}} \ {None}
           time == HandleCustomDuration(o, required)
           boosted == active /\ Paced(crew) # {} /\ SpeedImprovement(crew, active) # 0
           hidden == DefinedAsInvisible(o)
           asked == [NewMission(o.user, o.kind, o.source, o.target, time) EXCEPT !.boosted = boosted]
           new == [asked EXCEPT !.invisible = hidden]
           Q == OrphansResolved(missions, emptied, from.rows)
           R == With(from.rows, A)
           M == Put(Q, m, new)
<1>1. /\ from.ok /\ rows' = R /\ missions' = M /\ ids' = m + L
      /\ reports' = reports /\ shot' = shot /\ taker' = taker /\ expired' = expired
  BY DEF Register
<1>2. m = ids + 1 /\ L = Len(o.units)
  OBVIOUS
<1>3. DOMAIN A = m + 1 .. m + L /\ A = [i \in DOMAIN A |-> A[i]]
  OBVIOUS
<1>4. \A i \in DOMAIN A : A[i] = Traveller(o, i - m, m, from.taken[i - m])
  OBVIOUS
<1>5. \A i \in DOMAIN A :
         \E x \in crew : x = [unit |-> A[i].unit, carrier |-> A[i].carrier, id |-> i]
  OBVIOUS
<1>6. \A x \in crew : \E i \in DOMAIN A : x.unit = A[i].unit /\ x.id = i
  OBVIOUS
<1>7. \A j \in DOMAIN o.units : from.taken[j].count = o.units[j].count /\ from.taken[j].mission # None
                                   => from.taken[j].mission \in emptied
  OBVIOUS
<1>8. required = RequiredTime(crew, active, o.kind, o.source, o.target)
      /\ time = HandleCustomDuration(o, required)
  OBVIOUS
<1>9. boosted <=> active /\ Paced(crew) # {} /\ SpeedImprovement(crew, active) # 0
  OBVIOUS
<1>10. hidden \in BOOLEAN /\ boosted \in BOOLEAN /\ active \in BOOLEAN
  BY DEF DefinedAsInvisible
<1>11. Q = OrphansResolved(missions, emptied, from.rows) /\ R = With(from.rows, A)
  OBVIOUS
<1>12. M = Put(Q, m, new)
  OBVIOUS
<1>13. from = Loaded(o)
  OBVIOUS
<1> HIDE DEF from, m, L, A, crew, active, required, emptied, time, boosted, hidden, Q, R, M
<1>14. /\ asked = [NewMission(o.user, o.kind, o.source, o.target, time) EXCEPT !.boosted = boosted]
       /\ new = [asked EXCEPT !.invisible = hidden]
  OBVIOUS
<1> HIDE DEF asked, new
<1>15. Typed /\ ids \in Nat
  BY DEF IndInv, Typed
<1>16. m \in Nat /\ L \in Nat /\ m + L \in Nat /\ ids <= m + L
  <2>1. L \in Nat
    BY <1>2, OrderParts
  <2>2. m \in Nat
    BY ONLY <1>2, <1>15
  <2>3. m + L \in Nat
    BY ONLY <2>1, <2>2
  <2>4. ids <= m + L
    <3>1. m = ids + 1 /\ ids \in Nat
      BY <1>2, <1>15
    <3> QED
      BY ONLY <2>1, <3>1
  <2> QED
    BY <2>1, <2>2, <2>3, <2>4
<1>17. /\ from.rows \in Tables(ids) /\ from.taken \in Seq(Row) /\ Loads(o, L, from)
       /\ rows \in Tables(ids) /\ missions \in MissionTables(ids)
  BY <1>2, <1>1, <1>15, <1>13, LoadedParts DEF Typed
<1>18. DOMAIN o.units = 1 .. L
  BY <1>2, OrderParts
(* The new rows. *)
<1>19. \A i \in DOMAIN A : i \in Nat /\ i - m \in 1 .. L
  BY <1>3, <1>16
<1>20. \A k \in 1 .. L : from.taken[k] \in Row /\ o.units[k].count # 0
  BY <1>17, <1>16 DEF Loads
<1>21. \A i \in DOMAIN A :
          /\ A[i] \in Row /\ A[i].user = o.user /\ A[i].mission = m
          /\ A[i].unit = o.units[i - m].unit /\ A[i].count = o.units[i - m].count
          /\ A[i].carrier = IF o.units[i - m].inside = 0 THEN None ELSE m + o.units[i - m].inside
  <2> TAKE i \in DOMAIN A
  <2>1. PICK k : k = i - m
    OBVIOUS
  <2>2. k \in 1 .. Len(o.units) /\ from.taken[k] \in Row /\ o.units[k].count # 0
    BY <1>2, <1>19, <1>20, <2>1
  <2>3. PICK was \in Row : was = from.taken[k]
    BY <2>2
  <2>4. A[i] = Traveller(o, k, m, was)
    BY <1>4, <2>1, <2>3
  <2> QED
    BY <1>16, <2>1, <2>2, <2>4, TravellerRow
<1>22. A \in Tables(m + L)
  <2>1. DOMAIN A \subseteq 1 .. m + L /\ \A i \in DOMAIN A : A[i] \in Row
    BY <1>3, <1>16, <1>21
  <2> QED
    BY ONLY <1>3, <1>16, <2>1, IsTableOf
<1>23. from.rows \in Tables(m + L) /\ DOMAIN from.rows \subseteq 1 .. ids
  BY <1>15, <1>17, <1>16, TableGrows, TableParts
<1>24. DOMAIN from.rows \cap DOMAIN A = {}
  BY <1>2, <1>3, <1>15, <1>16, <1>23
<1>25. R \in Tables(m + L)
  BY <1>11, <1>16, <1>22, <1>23, WithTable
<1>26. DOMAIN R = DOMAIN from.rows \cup DOMAIN A
  BY <1>11, WithDomain
<1>27. \A i \in DOMAIN from.rows : R[i] = from.rows[i] /\ i \in DOMAIN rows /\ Alike(R[i], rows[i])
  <2>1. \A i \in DOMAIN from.rows : R[i] = from.rows[i]
    BY <1>11, WithLeft
  <2> QED
    BY <1>17, <2>1 DEF Loads
<1>28. \A i \in DOMAIN A : R[i] = A[i] /\ i \notin DOMAIN from.rows
  <2>1. \A i \in DOMAIN A : i \notin DOMAIN from.rows
    BY <1>24
  <2> QED
    BY <1>11, <2>1, WithRight
(* The new mission. *)
<1>29. \A x \in crew : x.unit \in Unit /\ x.id \in Nat
  BY <1>6, <1>19, <1>21 DEF Row
<1>30. /\ required \in Nat
       /\ \A x \in Paced(crew) :
             ~(active /\ SpeedImprovement(crew, active) # 0) =>
                 CalculateTimeUsingSpeed(BaseTime[o.kind], 100 * Speed[x.unit],
                                         Position[o.source], Position[o.target]) <= required
  BY <1>8, <1>29, OrderParts, CrewTime
<1>31. time \in Nat /\ required <= time
  BY <1>8, <1>30, OrderParts DEF HandleCustomDuration
<1>32. o.kind # "DEPLOYED" /\ o.kind # "RETURN_MISSION"
  BY OrderParts DEF Kind
<1>33. /\ new \in MissionRow /\ new.user = o.user /\ new.type = o.kind /\ new.source = o.source
       /\ new.target = o.target /\ new.time = time /\ new.resolved = FALSE /\ new.boosted = boosted
  <2>1. o.user \in User /\ o.kind \in Kind /\ o.source \in Planet /\ o.target \in Planet
    BY OrderParts
  <2>2. PICK b \in BOOLEAN : b = boosted
    BY <1>10
  <2>3. PICK h \in BOOLEAN : h = hidden
    BY <1>10
  <2>4. PICK r : r = NewMission(o.user, o.kind, o.source, o.target, time)
    OBVIOUS
  <2>5. /\ r \in MissionRow /\ r.user = o.user /\ r.type = o.kind /\ r.source = o.source
        /\ r.target = o.target /\ r.time = time /\ r.resolved = FALSE
    BY <1>31, <2>1, <2>4 DEF NewMission, MissionRow
  <2>6. asked = [r EXCEPT !.boosted = b]
    BY <1>14, <2>2, <2>4
  <2>7. /\ asked \in MissionRow /\ asked.user = o.user /\ asked.type = o.kind
        /\ asked.source = o.source /\ asked.target = o.target /\ asked.time = time
        /\ asked.resolved = FALSE /\ asked.boosted = b
    BY <2>5, <2>6 DEF MissionRow
  <2>8. new = [asked EXCEPT !.invisible = h]
    BY <1>14, <2>3
  <2> QED
    BY <2>2, <2>7, <2>8 DEF MissionRow
(* The missions. *)
<1>34. Q \in MissionTables(ids) /\ DOMAIN Q = DOMAIN missions
  BY <1>11, <1>15, <1>17, OrphansTable
<1>35. \A k \in DOMAIN missions :
          Q[k] = IF k \in emptied /\ \A i \in DOMAIN from.rows : from.rows[i].mission # k
                 THEN [missions[k] EXCEPT !.resolved = TRUE] ELSE missions[k]
  BY <1>11, <1>15, <1>17, OrphansTable
<1>36. /\ DOMAIN missions \subseteq 1 .. ids /\ m \notin DOMAIN missions /\ m \in 1 .. m + L
       /\ \A k \in DOMAIN missions : missions[k] \in MissionRow
  BY <1>2, <1>15, <1>17, <1>16, MissionTableParts
<1>37. M \in MissionTables(m + L)
  <2>1. Q \in MissionTables(m + L)
    BY <1>15, <1>16, <1>34, MissionTableGrows
  <2> QED
    BY <1>12, <1>16, <1>33, <1>34, <1>36, <2>1, PutMission
<1>38. DOMAIN M = DOMAIN missions \cup {m}
  <2>1. DOMAIN M = DOMAIN Q \cup {m}
    BY <1>12, PutDomain
  <2> QED
    BY <1>34, <2>1
<1>39. M[m] = new
  BY <1>12, <1>34, <1>36, PutNew
<1>40. \A k \in DOMAIN missions : M[k] = Q[k]
  BY <1>12, <1>34, PutOld
<1>41. \A k \in DOMAIN missions :
          /\ M[k].user = missions[k].user /\ M[k].type = missions[k].type
          /\ M[k].source = missions[k].source /\ M[k].target = missions[k].target
          /\ M[k].time = missions[k].time /\ M[k].boosted = missions[k].boosted
          /\ (k \in emptied /\ \A i \in DOMAIN from.rows : from.rows[i].mission # k) =>
                 M[k].resolved = TRUE
          /\ ~(k \in emptied /\ \A i \in DOMAIN from.rows : from.rows[i].mission # k) =>
                 M[k].resolved = missions[k].resolved
  <2> TAKE k \in DOMAIN missions
  <2>1. CASE k \in emptied /\ \A i \in DOMAIN from.rows : from.rows[i].mission # k
    <3>1. M[k] = [missions[k] EXCEPT !.resolved = TRUE] /\ missions[k] \in MissionRow
      BY <1>35, <1>36, <1>40, <2>1
    <3> QED
      BY <2>1, <3>1, ResolvedOnly
  <2>2. CASE ~(k \in emptied /\ \A i \in DOMAIN from.rows : from.rows[i].mission # k)
    <3>1. M[k] = missions[k]
      BY <1>35, <1>40, <2>2
    <3> QED
      BY <2>2, <3>1
  <2> QED
    BY <2>1, <2>2
<1>42. None \notin Nat
  BY StartAssumption
<1>43. \A k : Marks(M, k) <=> Marks(missions, k)
  BY <1>33, <1>32, <1>36, <1>38, <1>39, <1>41 DEF Marks
<1>44. /\ OnMissions(rows, missions, None) /\ Carried(rows, DOMAIN expired)
       /\ MarkersHold(rows, missions) /\ MarkersDiffer(missions) /\ Accounted /\ ShotAreOver
       /\ Told(reports, shot, taker, missions) /\ ~Outruns(rows, missions)
  BY DEF IndInv
(* Who stays behind and who leaves. *)
<1>45. \A i \in DOMAIN from.rows :
          /\ R[i].user = rows[i].user /\ R[i].unit = rows[i].unit /\ R[i].mission = rows[i].mission
          /\ R[i].carrier = rows[i].carrier
          /\ rows[i].mission \in Nat => from.rows[i].mission = rows[i].mission
  BY <1>17, <1>27 DEF Loads, Alike
<1>46. \A i \in DOMAIN rows \ DOMAIN from.rows :
          /\ AtRest(rows, missions, i)
          /\ rows[i].mission # None => rows[i].mission \in emptied
  <2> SUFFICES ASSUME NEW i \in DOMAIN rows \ DOMAIN from.rows
               PROVE  /\ AtRest(rows, missions, i)
                      /\ rows[i].mission # None => rows[i].mission \in emptied
    OBVIOUS
  <2>1. PICK j \in 1 .. L : /\ from.taken[j].mission = rows[i].mission
                            /\ from.taken[j].count = o.units[j].count
    BY <1>17 DEF Loads
  <2>2. AtRest(rows, missions, i)
    BY <1>17 DEF Loads
  <2> QED
    BY <1>7, <1>18, <2>1, <2>2
(* One conjunct after the other. *)
<1>47. Typed'
  <2>1. /\ shot \in Tables(m + L) /\ expired \in Tables(m + L)
    BY <1>15, <1>16, TableGrows DEF Typed
  <2>2. DOMAIN shot \subseteq 1 .. ids /\ DOMAIN expired \subseteq 1 .. ids
    BY <1>15, TableParts DEF Typed
  <2>3. DOMAIN R \cap DOMAIN shot = {} /\ DOMAIN R \cap DOMAIN expired = {}
    BY <1>2, <1>3, <1>15, <1>16, <1>26, <1>27, <2>2 DEF Typed
  <2> QED
    BY <1>1, <1>15, <1>16, <1>25, <1>37, <2>1, <2>3 DEF Typed
<1>48. OnMissions(R, M, None)
  <2> SUFFICES ASSUME NEW i \in DOMAIN R
               PROVE  /\ R[i].mission # None =>
                            /\ R[i].mission \in DOMAIN M /\ M[R[i].mission].user = R[i].user
                            /\ R[i].mission # None =>
                                  Marks(M, R[i].mission) \/ ~M[R[i].mission].resolved
                      /\ AtRest(R, M, i) => R[i].carrier = None
    BY DEF OnMissions
  <2>1. CASE i \in DOMAIN from.rows
    <3>1. i \in DOMAIN rows
      BY <1>27, <2>1
    <3>2. /\ rows[i].mission # None =>
                /\ rows[i].mission \in DOMAIN missions /\ missions[rows[i].mission].user = rows[i].user
                /\ Marks(missions, rows[i].mission) \/ ~missions[rows[i].mission].resolved
          /\ AtRest(rows, missions, i) => rows[i].carrier = None
      BY <1>44, <3>1 DEF OnMissions
    <3>3. AtRest(R, M, i) <=> AtRest(rows, missions, i)
      BY <1>43, <1>45, <2>1 DEF AtRest
    <3>4. R[i].mission # None => from.rows[i].mission = R[i].mission
      BY <1>27, <2>1
    <3> QED
      BY <1>38, <1>41, <1>43, <1>45, <2>1, <3>2, <3>3, <3>4
  <2>2. CASE i \in DOMAIN A
    <3>1. R[i].mission = m /\ R[i].user = o.user
      BY <1>21, <1>28, <2>2
    <3>2. ~Marks(M, m) /\ m # None
      BY <1>33, <1>16, <1>32, <1>39, <1>42 DEF Marks
    <3> QED
      BY <1>33, <1>38, <1>39, <3>1, <3>2 DEF AtRest
  <2> QED
    BY <1>26, <2>1, <2>2
<1>49. Carried(R, DOMAIN expired)
  <2> SUFFICES ASSUME NEW i \in DOMAIN R, R[i].carrier # None
               PROVE  \/ R[i].carrier \in DOMAIN expired
                      \/ /\ R[i].carrier \in DOMAIN R
                         /\ R[R[i].carrier].mission = R[i].mission /\ R[R[i].carrier].carrier = None
    BY DEF Carried
  <2>1. CASE i \in DOMAIN from.rows
    <3>1. i \in DOMAIN rows /\ rows[i].carrier = R[i].carrier /\ rows[i].mission = R[i].mission
      BY <1>27, <1>45, <2>1
    <3>2. ~AtRest(rows, missions, i)
      BY <1>44, <3>1 DEF OnMissions
    <3>3. PICK c : c = R[i].carrier
      OBVIOUS
    <3>4. \/ c \in DOMAIN expired
          \/ c \in DOMAIN rows /\ rows[c].mission = rows[i].mission /\ rows[c].carrier = None
      BY <1>44, <3>1, <3>3 DEF Carried
    <3>5. c \in DOMAIN rows /\ rows[c].mission = rows[i].mission => c \in DOMAIN from.rows
      BY <1>46, <3>2 DEF AtRest
    <3> QED
      BY <1>26, <1>45, <3>1, <3>3, <3>4, <3>5
  <2>2. CASE i \in DOMAIN A
    <3>1. PICK k : k = i - m
      OBVIOUS
    <3>2. k \in 1 .. L /\ R[i].mission = m
      BY <1>19, <1>21, <1>28, <2>2, <3>1
    <3>3. R[i].carrier = IF o.units[k].inside = 0 THEN None ELSE m + o.units[k].inside
      BY <1>21, <1>28, <2>2, <3>1
    <3>4. o.units[k].inside # 0 /\ R[i].carrier = m + o.units[k].inside
      BY <3>3
    <3>5. PICK j : j = o.units[k].inside
      OBVIOUS
    <3>6. j \in 1 .. k - 1 /\ o.units[j].inside = 0
      BY <1>2, <3>2, <3>4, <3>5, OrderParts
    <3>7. m + j \in DOMAIN A /\ (m + j) - m = j
      BY <1>3, <1>16, <3>2, <3>6
    <3>8. R[m + j].mission = m /\ R[m + j].carrier = None
      BY <1>21, <1>28, <3>6, <3>7
    <3> QED
      BY <1>26, <3>2, <3>4, <3>5, <3>7, <3>8
  <2> QED
    BY <1>26, <2>1, <2>2
<1>50. MarkersHold(R, M)
  <2> SUFFICES ASSUME NEW k \in DOMAIN M, Marks(M, k)
               PROVE  ~M[k].resolved <=> \E i \in DOMAIN R : R[i].mission = k
    BY DEF MarkersHold
  <2>1. k \in DOMAIN missions /\ Marks(missions, k) /\ k # m /\ k \in Nat
    BY <1>15, <1>36, <1>43 DEF Marks
  <2>2. ~missions[k].resolved <=> \E i \in DOMAIN rows : rows[i].mission = k
    BY <1>44, <2>1 DEF MarkersHold
  <2>3. (\E i \in DOMAIN R : R[i].mission = k) <=> \E i \in DOMAIN from.rows : from.rows[i].mission = k
    BY <1>21, <1>26, <1>27, <1>28, <2>1
  <2>4. CASE \E i \in DOMAIN from.rows : from.rows[i].mission = k
    <3>1. ~missions[k].resolved
      BY <1>27, <1>45, <2>2, <2>4
    <3> QED
      BY <1>41, <2>1, <2>3, <2>4, <3>1
  <2>5. CASE \A i \in DOMAIN from.rows : from.rows[i].mission # k
    <3>1. CASE \E i \in DOMAIN rows : rows[i].mission = k
      <4>1. PICK i \in DOMAIN rows : rows[i].mission = k
        BY <3>1
      <4>2. i \notin DOMAIN from.rows
        BY <1>45, <2>1, <2>5, <4>1
      <4>3. k \in emptied
        BY <1>42, <1>46, <2>1, <4>1, <4>2
      <4> QED
        BY <1>41, <2>1, <2>3, <2>5, <4>3
    <3>2. CASE ~\E i \in DOMAIN rows : rows[i].mission = k
      <4>1. missions[k] \in MissionRow /\ missions[k].resolved = TRUE
        BY <1>36, <2>1, <2>2, <3>2 DEF MissionRow
      <4>2. M[k].resolved = TRUE
        BY <1>41, <2>1, <4>1
      <4> QED
        BY <2>3, <2>5, <4>2
    <3> QED
      BY <3>1, <3>2
  <2> QED
    BY <2>4, <2>5
<1>51. MarkersDiffer(M)
  <2> SUFFICES ASSUME NEW k \in DOMAIN M, NEW l \in DOMAIN M, Marks(M, k), Marks(M, l),
                      ~M[k].resolved, ~M[l].resolved, M[k].user = M[l].user, M[k].target = M[l].target
               PROVE  k = l
    BY DEF MarkersDiffer
  <2>1. /\ k \in DOMAIN missions /\ l \in DOMAIN missions
        /\ Marks(missions, k) /\ Marks(missions, l)
    BY <1>43 DEF Marks
  <2>2. ~missions[k].resolved /\ ~missions[l].resolved
    BY <1>41, <2>1
  <2>3. missions[k].user = missions[l].user /\ missions[k].target = missions[l].target
    BY <1>41, <2>1
  <2> QED
    BY <1>44, <2>1, <2>2, <2>3 DEF MarkersDiffer
<1>52. Accounted'
  <2> SUFFICES ASSUME NEW u \in User, NEW x \in Unit
               PROVE  Held(R, u, x) + Held(shot, u, x) + Held(expired, u, x) = Held(Rows0, u, x)
    BY <1>1 DEF Accounted
  <2>1. Held(R, u, x) = Held(from.rows, u, x) + Held(A, u, x)
    BY <1>11, <1>16, <1>22, <1>23, <1>24, HeldWith
  <2>2. Held(A, u, x) = Total(Asked(o, u, x), 1 .. L)
    <3>1. \A i \in DOMAIN A : /\ A[i].user = o.user /\ A[i].unit = o.units[i - m].unit
                              /\ A[i].count = o.units[i - m].count
      BY <1>21
    <3> QED
      BY <1>2, <1>3, <1>16, <1>22, <3>1, AboardHeld, SMTT(60)
  <2>3. Held(from.rows, u, x) + Total(Asked(o, u, x), 1 .. L) = Held(rows, u, x)
    BY <1>17 DEF Loads
  <2>4. Held(rows, u, x) + Held(shot, u, x) + Held(expired, u, x) = Held(Rows0, u, x)
    BY <1>44 DEF Accounted
  <2> QED
    BY <2>1, <2>2, <2>3, <2>4
<1>53. ShotAreOver'
  <2>1. \A i \in DOMAIN shot :
          /\ shot[i].mission \in DOMAIN missions
          /\ missions[shot[i].mission].resolved
          /\ missions[shot[i].mission].type \in {"EXPLORE", "DEPLOY"}
    BY <1>44 DEF ShotAreOver
  <2>2. \A i \in DOMAIN shot :
          /\ shot[i].mission \in DOMAIN M
          /\ M[shot[i].mission].resolved
          /\ M[shot[i].mission].type \in {"EXPLORE", "DEPLOY"}
    BY <1>38, <1>41, <2>1
  <2> QED
    BY <1>1, <1>44, <2>2 DEF ShotAreOver
<1>54. Told(reports, shot, taker, missions)'
  <2>1. \A i \in DOMAIN shot : M[shot[i].mission].type = missions[shot[i].mission].type
    BY <1>41, <1>44 DEF ShotAreOver
  <2> QED
    BY <1>1, <1>44, <2>1 DEF Told
<1>55. ~Outruns(R, M)
  <2> SUFFICES ASSUME NEW i \in DOMAIN R, NEW k, k = R[i].mission,
                      k \in DOMAIN M, ~M[k].resolved, M[k].type # "DEPLOYED", ~M[k].boosted,
                      Speed[R[i].unit] > 0, UnitGroup[R[i].unit] \notin FixedGroup,
                      M[k].time < Alone(M, k, R[i].unit)
               PROVE  FALSE
    BY DEF Outruns
  <2>1. CASE i \in DOMAIN from.rows
    <3>1. i \in DOMAIN rows /\ rows[i].mission = k /\ rows[i].unit = R[i].unit
      BY <1>27, <1>45, <2>1
    <3>2. k # None
      BY <1>15, <1>36, <1>38, <1>42
    <3>3. k \in DOMAIN missions
      BY <1>44, <3>1, <3>2 DEF OnMissions
    <3>4. ~missions[k].resolved
      BY <1>41, <3>3
    <3>5. Alone(M, k, R[i].unit) = Alone(missions, k, rows[i].unit)
      BY <1>41, <3>1, <3>3 DEF Alone
    <3> QED
      BY <1>41, <1>44, <3>1, <3>3, <3>4, <3>5 DEF Outruns
  <2>2. CASE i \in DOMAIN A
    <3>1. k = m /\ R[i] = A[i]
      BY <1>21, <1>28, <2>2
    <3>2. PICK x \in crew : x = [unit |-> A[i].unit, carrier |-> A[i].carrier, id |-> i]
      BY <1>5, <2>2
    <3>3. x \in crew /\ x.unit = R[i].unit
      BY <3>1, <3>2
    <3>4. x \in Paced(crew)
      BY <3>3 DEF Paced, IsFixed
    <3>5. ~(active /\ SpeedImprovement(crew, active) # 0)
      <4>1. ~boosted
        BY <1>33, <1>39, <3>1
      <4>2. Paced(crew) # {}
        BY <3>4
      <4> QED
        BY <1>9, <4>1, <4>2, Zenon
    <3>6. CalculateTimeUsingSpeed(BaseTime[o.kind], 100 * Speed[x.unit],
                                  Position[o.source], Position[o.target]) <= required
      BY <1>30, <3>4, <3>5
    <3>7. Alone(M, k, R[i].unit) =
             CalculateTimeUsingSpeed(BaseTime[o.kind], 100 * Speed[x.unit],
                                     Position[o.source], Position[o.target])
      BY <1>33, <1>32, <1>39, <3>1, <3>3 DEF Alone
    <3>8. M[k].time = time
      BY <1>33, <1>39, <3>1
    <3>9. Alone(M, k, R[i].unit) \in Nat
      <4>1. Speed[x.unit] \in Nat
        BY <1>29, <3>3, RulesAssumption
      <4>2. PICK s : s = 100 * Speed[x.unit]
        OBVIOUS
      <4>3. s \in Int
        BY <4>1, <4>2
      <4>4. BaseTime[o.kind] \in Nat
        BY OrderParts, StartAssumption
      <4> QED
        <5>1. CalculateTimeUsingSpeed(BaseTime[o.kind], s, Position[o.source], Position[o.target]) \in Nat
          <6>1. o.source \in Planet /\ o.target \in Planet /\ s <= s
            BY <4>3, OrderParts
          <6> QED
            BY ONLY <4>4, <4>3, <6>1, SlowerTakesLonger
        <5> QED
          BY <3>7, <4>2, <5>1
    <3> QED
      BY <1>31, <3>6, <3>7, <3>8, <3>9, <1>30
  <2> QED
    BY <1>26, <2>1, <2>2
<1> QED
  BY <1>1, <1>47, <1>48, <1>49, <1>50, <1>51, <1>52, <1>53, <1>54, <1>55 DEF IndInv

------------------------------------------------------------------------------
(* Arrivals.                                                               *)

(* saveWithAdding: J is R with stack i added to one of those there, or     *)
(* become rest.                                                            *)
Joins(R, i, there, rest, J) ==
    /\ there # {} => DOMAIN J = DOMAIN R \ {i}
    /\ there = {} => DOMAIN J = DOMAIN R /\ J[i] = rest
    /\ \A j \in DOMAIN R \ {i} : Alike(J[j], R[j]) /\ (j \notin there => J[j] = R[j])
    /\ \A u, x : Held(J, u, x) = Held(R, u, x)

(* saveWithAdding: a stack that lands is added to the one that is there.   *)
LEMMA JoinedTable ==
    ASSUME NEW n \in Nat, NEW R \in Tables(n), NEW i \in DOMAIN R, NEW there, there \subseteq DOMAIN R,
           \A j \in there : j # i /\ R[j].user = R[i].user /\ R[j].unit = R[i].unit,
           NEW rest \in Row, rest.user = R[i].user, rest.unit = R[i].unit, rest.count = R[i].count
    PROVE  /\ Joined(R, i, there, rest) \in Tables(n)
           /\ Joins(R, i, there, rest, Joined(R, i, there, rest))
<1>1. PICK J : J = Joined(R, i, there, rest)
  OBVIOUS
<1>2. CASE there = {}
  <2>1. J = [R EXCEPT ![i] = rest]
    BY <1>1, <1>2 DEF Joined
  <2>2. J \in Tables(n) /\ DOMAIN J = DOMAIN R /\ J[i] = rest /\ \A j \in DOMAIN R \ {i} : J[j] = R[j]
    BY <2>1, ChangedTable
  <2>3. ASSUME NEW u, NEW x PROVE Held(J, u, x) = Held(R, u, x)
    <3>1. Held(J, u, x) = Held(R, u, x) + ShareOf(J[i], u, x) - ShareOf(R[i], u, x)
      BY <2>2, HeldChange
    <3>2. ShareOf(J[i], u, x) = ShareOf(R[i], u, x) /\ ShareOf(R[i], u, x) \in Nat
      BY <2>2, TableParts DEF ShareOf, Row
    <3>3. Held(R, u, x) \in Nat
      BY HeldNat
    <3> QED
      BY <3>1, <3>2, <3>3
  <2> QED
    BY <1>1, <1>2, <2>2, <2>3 DEF Alike, Joins
<1>3. CASE there # {}
  <2>1. PICK j : j = Min(there)
    OBVIOUS
  <2>2. there \subseteq Nat
    BY TableParts
  <2>3. j \in there /\ j \in DOMAIN R /\ j # i
    BY <1>3, <2>1, <2>2, LeastNumber
  <2>4. R[j] \in Row /\ R[i] \in Row
    BY <2>3, TableParts
  <2>5. PICK r : r = [R[j] EXCEPT !.count = R[j].count + R[i].count]
    OBVIOUS
  <2>6. r \in Row /\ Alike(r, R[j]) /\ r.count = R[j].count + R[i].count
    BY <2>4, <2>5 DEF Row, Alike
  <2>7. PICK Q : Q = [R EXCEPT ![j] = r]
    OBVIOUS
  <2>8. J = Without(Q, {i})
    BY <1>1, <1>3, <2>1, <2>5, <2>7 DEF Joined
  <2>9. Q \in Tables(n) /\ DOMAIN Q = DOMAIN R /\ Q[j] = r /\ \A k \in DOMAIN R \ {j} : Q[k] = R[k]
    BY <2>3, <2>6, <2>7, ChangedTable
  <2>10. J \in Tables(n) /\ DOMAIN J = DOMAIN R \ {i} /\ \A k \in DOMAIN R \ {i} : J[k] = Q[k]
    <3>1. J \in Tables(n) /\ DOMAIN J = DOMAIN Q \ {i} /\ \A k \in DOMAIN Q \ {i} : J[k] = Q[k]
      BY ONLY <2>8, <2>9, n \in Nat, WithoutTable
    <3> QED
      BY ONLY <2>9, <3>1
  <2>11. ASSUME NEW u, NEW x PROVE Held(J, u, x) = Held(R, u, x)
    <3>1. Held(Q, u, x) = Held(R, u, x) + ShareOf(r, u, x) - ShareOf(R[j], u, x)
      BY <2>3, <2>9, HeldChange
    <3>2. Held(Q, u, x) = Held(J, u, x) + ShareOf(Q[i], u, x)
      BY <2>8, <2>9, HeldRemove
    <3>3. Q[i] = R[i]
      BY <2>3, <2>9
    <3>4. ShareOf(r, u, x) = ShareOf(R[j], u, x) + ShareOf(R[i], u, x)
      <4>1. R[j].user = R[i].user /\ R[j].unit = R[i].unit
        BY <2>3
      <4> QED
        BY <2>4, <2>6, <4>1 DEF ShareOf, Alike, Row
    <3>5. Held(J, u, x) \in Nat /\ Held(R, u, x) \in Nat
      BY <2>10, HeldNat
    <3>6. ShareOf(R[j], u, x) \in Nat /\ ShareOf(R[i], u, x) \in Nat
      BY <2>4 DEF ShareOf, Row
    <3> QED
      BY <3>1, <3>2, <3>3, <3>4, <3>5, <3>6
  <2>12. \A k \in DOMAIN R \ {i} : Alike(J[k], R[k]) /\ (k \notin there => J[k] = R[k])
    BY <2>3, <2>6, <2>9, <2>10 DEF Alike
  <2> QED
    BY <1>1, <1>3, <2>10, <2>11, <2>12 DEF Joins
<1> QED
  BY <1>2, <1>3

(* What is so of the tables while the stacks of mission m land: rows have  *)
(* ids up to n.                                                            *)
Landing(n, m, S) ==
    /\ S.ids \in Nat /\ n <= S.ids /\ S.rows \in Tables(n) /\ S.missions \in MissionTables(S.ids)
    /\ m \in DOMAIN S.missions /\ S.missions[m].type # "DEPLOYED"
    /\ OnMissions(S.rows, S.missions, m) /\ MarkersHold(S.rows, S.missions)
    /\ MarkersDiffer(S.missions)

(* What one stack i leaves as it was, when S becomes V.                    *)
Others(m, i, S, V) ==
    /\ S.ids <= V.ids /\ DOMAIN V.rows \subseteq DOMAIN S.rows
    /\ \A j \in DOMAIN S.rows \ {i} :
          /\ j \in DOMAIN V.rows /\ Alike(V.rows[j], S.rows[j])
          /\ S.rows[j].mission = m => V.rows[j] = S.rows[j]
    /\ DOMAIN S.missions \subseteq DOMAIN V.missions
    /\ \A k \in DOMAIN S.missions : V.missions[k] = S.missions[k]
    /\ \A k \in DOMAIN V.missions \ DOMAIN S.missions : V.missions[k].type = "DEPLOYED"
    /\ \A u, x : Held(V.rows, u, x) = Held(S.rows, u, x)

(* move_unit_to_planet                                                     *)
LEMMA LandsAtHome ==
    ASSUME NEW n \in Nat, NEW m, NEW S, Landing(n, m, S), NEW i \in DOMAIN S.rows,
           S.rows[i].mission = m, NEW p \in Planet,
           NEW V, V = [rows |-> MoveUnitToPlanet(S.rows, i, p), missions |-> S.missions, ids |-> S.ids]
    PROVE  /\ Landing(n, m, V) /\ Others(m, i, S, V)
           /\ i \in DOMAIN V.rows => AtRest(V.rows, V.missions, i)
<1>1. PICK R : R = S.rows
  OBVIOUS
<1>2. PICK M : M = S.missions
  OBVIOUS
<1>3. /\ R \in Tables(n) /\ M \in MissionTables(S.ids) /\ S.ids \in Nat /\ n <= S.ids
      /\ m \in DOMAIN M /\ ~Marks(M, m) /\ m # None /\ i \in DOMAIN R /\ R[i].mission = m
      /\ OnMissions(R, M, m) /\ MarkersHold(R, M) /\ MarkersDiffer(M)
  BY <1>1, <1>2, MissionTableParts, StartAssumption DEF Landing, Marks
<1>4. PICK there : there = {j \in DOMAIN R : /\ Like(R, i, j) /\ R[j].source = p
                                             /\ R[j].mission = None /\ R[j].carrier = None}
  OBVIOUS
<1>5. PICK rest : rest = [R[i] EXCEPT !.source = p, !.target = None, !.mission = None, !.carrier = None]
  OBVIOUS
<1>6. PICK J : J = Joined(R, i, there, rest)
  OBVIOUS
<1>7. V = [rows |-> J, missions |-> M, ids |-> S.ids]
  BY <1>1, <1>2, <1>4, <1>5, <1>6 DEF MoveUnitToPlanet
<1>8. /\ rest \in Row /\ rest.user = R[i].user /\ rest.unit = R[i].unit /\ rest.count = R[i].count
      /\ rest.mission = None /\ rest.carrier = None
  <2>1. R[i] \in Row
    BY <1>3, TableParts
  <2> QED
    BY <1>5, <2>1 DEF Row
<1>9. \A j \in there : j \in DOMAIN R /\ j # i /\ R[j].user = R[i].user /\ R[j].unit = R[i].unit
                       /\ R[j].mission = None
  BY <1>4 DEF Like
<1>10. /\ J \in Tables(n)
       /\ there # {} => DOMAIN J = DOMAIN R \ {i}
       /\ there = {} => DOMAIN J = DOMAIN R /\ J[i] = rest
       /\ \A j \in DOMAIN R \ {i} : Alike(J[j], R[j]) /\ (j \notin there => J[j] = R[j])
       /\ \A u, x : Held(J, u, x) = Held(R, u, x)
  <2>1. there \subseteq DOMAIN R
    BY <1>9
  <2>2. \A j \in there : j # i /\ R[j].user = R[i].user /\ R[j].unit = R[i].unit
    BY <1>9
  <2>3. R \in Tables(n) /\ i \in DOMAIN R
    BY <1>3
  <2>4. J \in Tables(n) /\ Joins(R, i, there, rest, J)
    BY ONLY <1>6, <1>8, <2>1, <2>2, <2>3, n \in Nat, JoinedTable
  <2> QED
    BY <2>4 DEF Joins
<1>11. /\ DOMAIN J \subseteq DOMAIN R /\ DOMAIN R \ {i} \subseteq DOMAIN J
       /\ i \in DOMAIN J => J[i] = rest
  BY <1>10
<1>12. OnMissions(J, M, m)
  BY <1>3, <1>8, <1>10, <1>11 DEF OnMissions, Alike, AtRest
<1>13. MarkersHold(J, M)
  <2> SUFFICES ASSUME NEW k \in DOMAIN M, Marks(M, k)
               PROVE  ~M[k].resolved <=> \E j \in DOMAIN J : J[j].mission = k
    BY DEF MarkersHold
  <2>1. k # m /\ k # None
    BY <1>3, MissionTableParts, StartAssumption
  <2>2. ~M[k].resolved <=> \E j \in DOMAIN R : R[j].mission = k
    BY <1>3 DEF MarkersHold
  <2>3. \A j \in DOMAIN J : J[j].mission = k <=> R[j].mission = k
    BY <1>3, <1>8, <1>10, <1>11, <2>1 DEF Alike
  <2>4. \A j \in DOMAIN R : R[j].mission = k => j \in DOMAIN J
    BY <1>3, <1>11, <2>1
  <2> QED
    BY <1>11, <2>2, <2>3, <2>4
<1>14. Landing(n, m, V)
  BY <1>3, <1>7, <1>10, <1>12, <1>13 DEF Landing, Marks
<1>15. \A j \in DOMAIN R \ {i} :
          /\ j \in DOMAIN J /\ Alike(J[j], R[j])
          /\ R[j].mission = m => J[j] = R[j]
  BY <1>3, <1>9, <1>10, <1>11
<1>16. Others(m, i, S, V)
  BY <1>1, <1>2, <1>3, <1>7, <1>10, <1>11, <1>15 DEF Others
<1>17. i \in DOMAIN J => AtRest(J, M, i)
  BY <1>8, <1>11 DEF AtRest
<1> QED
  BY <1>7, <1>14, <1>16, <1>17

(* move_unit_to_foreign_planet                                             *)
LEMMA LandsAbroad ==
    ASSUME NEW n \in Nat, NEW m, NEW S, Landing(n, m, S), NEW i \in DOMAIN S.rows,
           S.rows[i].mission = m, NEW p \in Planet, NEW V, V = MoveUnitToForeignPlanet(S, i, p)
    PROVE  /\ Landing(n, m, V) /\ Others(m, i, S, V)
           /\ i \in DOMAIN V.rows => AtRest(V.rows, V.missions, i)
<1> DEFINE R == S.rows
           M == S.missions
           user == R[i].user
           Deployed(j) == R[j].target = p /\ Type_(R[j].mission, M) = "DEPLOYED"
           there == {j \in DOMAIN R : Like(R, i, j) /\ Deployed(j)}
           markers == {k \in DOMAIN M : M[k].user = user /\ M[k].type = "DEPLOYED"
                                        /\ M[k].target = p /\ ~M[k].resolved}
           made == there = {} /\ markers = {}
           marker == IF markers = {} THEN S.ids + 1 ELSE Min(markers)
           rest == [R[i] EXCEPT !.target = p, !.mission = marker, !.carrier = None]
           new == NewMission(user, "DEPLOYED", R[i].source, p, 0)
           J == Joined(R, i, there, rest)
           N == IF made THEN Put(M, marker, new) ELSE M
           last == IF made THEN S.ids + 1 ELSE S.ids
<1>1. V = [rows |-> J, missions |-> N, ids |-> last]
  BY DEF MoveUnitToForeignPlanet
<1>2. R = S.rows /\ M = S.missions /\ user = R[i].user
  OBVIOUS
<1>3. \A j \in there : j \in DOMAIN R /\ Like(R, i, j) /\ R[j].target = p /\ Type_(R[j].mission, M) = "DEPLOYED"
  OBVIOUS
<1>4. markers \subseteq DOMAIN M /\ \A k \in DOMAIN M :
          k \in markers <=> M[k].user = user /\ M[k].type = "DEPLOYED"
                            /\ M[k].target = p /\ ~M[k].resolved
  OBVIOUS
<1>5. made <=> (there = {} /\ markers = {})
  OBVIOUS
<1>6. marker = IF markers = {} THEN S.ids + 1 ELSE Min(markers)
  OBVIOUS
<1>7. rest = [R[i] EXCEPT !.target = p, !.mission = marker, !.carrier = None]
  OBVIOUS
<1>8. new = NewMission(user, "DEPLOYED", R[i].source, p, 0)
  OBVIOUS
<1>9. J = Joined(R, i, there, rest)
  OBVIOUS
<1>10. made => N = Put(M, marker, new) /\ last = S.ids + 1
  OBVIOUS
<1>11. ~made => N = M /\ last = S.ids
  OBVIOUS
<1> HIDE DEF R, M, user, there, markers, made, marker, rest, new, J, N, last
<1>12. /\ R \in Tables(n) /\ M \in MissionTables(S.ids) /\ S.ids \in Nat /\ n <= S.ids
       /\ m \in DOMAIN M /\ ~Marks(M, m) /\ i \in DOMAIN R /\ R[i].mission = m
       /\ OnMissions(R, M, m) /\ MarkersHold(R, M) /\ MarkersDiffer(M)
  BY <1>2 DEF Landing, Marks
<1>13. /\ DOMAIN M \subseteq 1 .. S.ids /\ \A k \in DOMAIN M : M[k] \in MissionRow /\ k \in Nat /\ k # None
  <2>1. DOMAIN M \subseteq 1 .. S.ids /\ \A k \in DOMAIN M : M[k] \in MissionRow /\ k \in Nat
    BY <1>12, MissionTableParts
  <2> QED
    BY <2>1, StartAssumption
<1>14. R[i] \in Row
  BY <1>12, TableParts
(* The marker. *)
<1>15. /\ marker \in Nat /\ marker # None
       /\ markers = {} => marker = S.ids + 1 /\ marker \notin DOMAIN M
       /\ markers # {} => marker \in markers
  <2>1. CASE markers = {}
    <3>1. marker = S.ids + 1 /\ marker \in Nat
      BY <1>6, <1>12, <2>1
    <3>2. marker \notin DOMAIN M
      BY <1>12, <1>13, <3>1
    <3> QED
      BY <2>1, <3>1, <3>2, StartAssumption
  <2>2. CASE markers # {}
    <3>1. markers \subseteq Nat
      BY <1>4, <1>13
    <3>2. marker \in markers
      BY <1>6, <2>2, <3>1, LeastNumber
    <3> QED
      BY <1>4, <1>13, <2>2, <3>2
  <2> QED
    BY <2>1, <2>2
<1>16. /\ rest \in Row /\ rest.user = R[i].user /\ rest.unit = R[i].unit /\ rest.count = R[i].count
       /\ rest.mission = marker /\ rest.carrier = None
  BY <1>7, <1>14, <1>15 DEF Row
<1>17. /\ new \in MissionRow /\ new.user = user /\ new.type = "DEPLOYED" /\ new.target = p
       /\ new.resolved = FALSE
  <2>1. user \in User /\ R[i].source \in Planet
    BY <1>2, <1>14 DEF Row
  <2> QED
    BY <1>8, <2>1 DEF NewMission, MissionRow
(* The missions. *)
<1>18. /\ last \in Nat /\ S.ids <= last /\ n <= last
  BY <1>10, <1>11, <1>12
<1>19. made => DOMAIN N = DOMAIN M \cup {marker}
  <2>1. DOMAIN Put(M, marker, new) = DOMAIN M \cup {marker}
    BY PutDomain
  <2> QED
    BY <1>10, <2>1
<1>20. made => N[marker] = new
  BY <1>5, <1>10, <1>15, PutNew
<1>21. \A k \in DOMAIN M : k \in DOMAIN N /\ N[k] = M[k]
  <2>1. \A k \in DOMAIN M : Put(M, marker, new)[k] = M[k]
    BY PutOld
  <2> QED
    BY <1>10, <1>11, <1>19, <2>1
<1>22. \A k \in DOMAIN N : k \in DOMAIN M \/ (made /\ k = marker)
  BY <1>11, <1>19
<1>23. N \in MissionTables(last)
  <2>1. CASE made
    <3>1. M \in MissionTables(last)
      BY <1>12, <1>18, MissionTableGrows
    <3>2. marker \in 1 .. last /\ marker \notin DOMAIN M
      BY <1>5, <1>10, <1>12, <1>15, <2>1
    <3>3. Put(M, marker, new) \in MissionTables(last)
      BY ONLY <1>17, <1>18, <3>1, <3>2, PutMission
    <3> QED
      BY <1>10, <2>1, <3>3
  <2>2. CASE ~made
    BY <1>11, <1>12, <2>2
  <2> QED
    BY <2>1, <2>2
<1>24. there = {} => /\ marker \in DOMAIN N /\ Marks(N, marker) /\ ~N[marker].resolved
                     /\ N[marker].user = R[i].user
  <2>1. CASE made
    BY <1>2, <1>17, <1>19, <1>20, <2>1 DEF Marks
  <2>2. CASE there = {} /\ ~made
    <3>1. marker \in markers
      BY <1>5, <1>15, <2>2
    <3> QED
      BY <1>2, <1>4, <1>21, <3>1 DEF Marks
  <2> QED
    BY <2>1, <2>2
<1>25. \A k \in DOMAIN M : Marks(N, k) <=> Marks(M, k)
  BY <1>21 DEF Marks
(* The rows. *)
<1>26. J \in Tables(n) /\ Joins(R, i, there, rest, J)
  <2>1. there \subseteq DOMAIN R
    BY <1>3
  <2>2. \A j \in there : j # i /\ R[j].user = R[i].user /\ R[j].unit = R[i].unit
    BY <1>3 DEF Like
  <2>3. R \in Tables(n) /\ i \in DOMAIN R
    BY <1>12
  <2> QED
    BY ONLY <1>9, <1>16, <2>1, <2>2, <2>3, n \in Nat, JoinedTable
<1>27. /\ DOMAIN J \subseteq DOMAIN R /\ DOMAIN R \ {i} \subseteq DOMAIN J
       /\ i \in DOMAIN J => there = {} /\ J[i] = rest
       /\ there = {} => i \in DOMAIN J
  BY <1>12, <1>26 DEF Joins
<1>28. \A j \in DOMAIN R \ {i} :
          /\ J[j].user = R[j].user /\ J[j].mission = R[j].mission /\ J[j].carrier = R[j].carrier
          /\ Alike(J[j], R[j])
  BY <1>26 DEF Joins, Alike
<1>29. \A j \in DOMAIN R \ {i} : R[j].mission = m => J[j] = R[j]
  <2>1. \A j \in there : R[j].mission # m
    BY <1>3, <1>12 DEF Type_, Marks
  <2> QED
    BY <1>26, <2>1 DEF Joins
<1>30. OnMissions(J, N, m)
  <2> SUFFICES ASSUME NEW j \in DOMAIN J
               PROVE  /\ J[j].mission # None =>
                            /\ J[j].mission \in DOMAIN N /\ N[J[j].mission].user = J[j].user
                            /\ J[j].mission # m =>
                                  Marks(N, J[j].mission) \/ ~N[J[j].mission].resolved
                      /\ AtRest(J, N, j) => J[j].carrier = None
    BY DEF OnMissions
  <2>1. CASE j = i
    BY <1>16, <1>24, <1>27, <2>1
  <2>2. CASE j # i
    <3>1. j \in DOMAIN R \ {i}
      BY <1>27, <2>2
    <3>2. /\ R[j].mission # None =>
                /\ R[j].mission \in DOMAIN M /\ M[R[j].mission].user = R[j].user
                /\ R[j].mission # m => Marks(M, R[j].mission) \/ ~M[R[j].mission].resolved
          /\ AtRest(R, M, j) => R[j].carrier = None
      BY <1>12, <3>1 DEF OnMissions
    <3>3. AtRest(J, N, j) => AtRest(R, M, j)
      BY <1>25, <1>28, <3>1, <3>2 DEF AtRest
    <3> QED
      BY <1>21, <1>25, <1>28, <3>1, <3>2, <3>3
  <2> QED
    BY <2>1, <2>2
<1>31. MarkersHold(J, N)
  <2> SUFFICES ASSUME NEW k \in DOMAIN N, Marks(N, k)
               PROVE  ~N[k].resolved <=> \E j \in DOMAIN J : J[j].mission = k
    BY DEF MarkersHold
  <2>1. CASE there = {} /\ k = marker
    BY <1>16, <1>24, <1>27, <2>1
  <2>2. CASE ~(there = {} /\ k = marker)
    <3>1. k \in DOMAIN M /\ Marks(M, k) /\ N[k] = M[k] /\ k # m
      BY <1>5, <1>12, <1>21, <1>22, <1>25, <2>2
    <3>2. ~M[k].resolved <=> \E j \in DOMAIN R : R[j].mission = k
      BY <1>12, <3>1 DEF MarkersHold
    <3>3. \A j \in DOMAIN R : R[j].mission = k => j \in DOMAIN J /\ J[j].mission = k
      BY <1>12, <1>27, <1>28, <3>1
    <3>4. \A j \in DOMAIN J : J[j].mission = k => j \in DOMAIN R /\ R[j].mission = k
      BY <1>16, <1>27, <1>28, <2>2
    <3> QED
      BY <3>1, <3>2, <3>3, <3>4
  <2> QED
    BY <2>1, <2>2
<1>32. MarkersDiffer(N)
  <2> SUFFICES ASSUME NEW k \in DOMAIN N, NEW l \in DOMAIN N, Marks(N, k), Marks(N, l),
                      ~N[k].resolved, ~N[l].resolved, N[k].user = N[l].user, N[k].target = N[l].target
               PROVE  k = l
    BY DEF MarkersDiffer
  <2>1. CASE k \in DOMAIN M /\ l \in DOMAIN M
    BY <1>12, <1>21, <1>25, <2>1 DEF MarkersDiffer
  <2>2. ASSUME made, NEW h \in DOMAIN M, Marks(N, h), ~N[h].resolved,
               N[h].user = new.user, N[h].target = new.target
        PROVE  FALSE
    <3>1. h \in markers
      BY <1>4, <1>17, <1>21, <2>2 DEF Marks
    <3> QED
      BY <1>5, <2>2, <3>1
  <2> QED
    BY <1>20, <1>22, <2>1, <2>2
<1>33. Landing(n, m, V)
  <2>1. m \in DOMAIN N /\ N[m].type # "DEPLOYED"
    BY <1>12, <1>21 DEF Marks
  <2> QED
    BY <1>1, <1>18, <1>23, <1>26, <1>30, <1>31, <1>32, <2>1 DEF Landing
<1>34. \A k \in DOMAIN N \ DOMAIN M : N[k].type = "DEPLOYED"
  BY <1>17, <1>20, <1>22
<1>35. \A u, x : Held(J, u, x) = Held(R, u, x)
  BY <1>26 DEF Joins
<1>36. Others(m, i, S, V)
  BY <1>1, <1>2, <1>18, <1>21, <1>27, <1>28, <1>29, <1>34, <1>35 DEF Others
<1>37. i \in DOMAIN J => AtRest(J, N, i)
  BY <1>16, <1>24, <1>27 DEF AtRest
<1> QED
  BY <1>1, <1>33, <1>36, <1>37


(* What became of T when the stacks of mission m up to n have landed.      *)
Moving(T, m, n, S) ==
    /\ Landing(T.ids, m, S) /\ T.ids <= S.ids
    /\ DOMAIN S.rows \subseteq DOMAIN T.rows
    /\ \A i \in DOMAIN T.rows :
          /\ T.rows[i].mission # m => i \in DOMAIN S.rows /\ Alike(S.rows[i], T.rows[i])
          /\ T.rows[i].mission = m /\ n < i => i \in DOMAIN S.rows /\ S.rows[i] = T.rows[i]
    /\ \A i \in DOMAIN S.rows :
          T.rows[i].mission = m /\ i <= n => AtRest(S.rows, S.missions, i)
    /\ DOMAIN T.missions \subseteq DOMAIN S.missions
    /\ \A k \in DOMAIN T.missions : S.missions[k] = T.missions[k]
    /\ \A k \in DOMAIN S.missions \ DOMAIN T.missions : S.missions[k].type = "DEPLOYED"
    /\ \A u, x : Held(S.rows, u, x) = Held(T.rows, u, x)

(* No stack of the mission has landed yet.                                 *)
LEMMA MovingStart ==
    ASSUME NEW T, NEW m, Landing(T.ids, m, T)
    PROVE  Moving(T, m, 0, T)
<1>1. \A i \in DOMAIN T.rows : i \in Nat /\ i # 0 /\ ~(i <= 0)
  <2>1. T.ids \in Nat /\ T.rows \in Tables(T.ids)
    BY DEF Landing
  <2> QED
    BY <2>1, TableParts
<1> QED
  BY <1>1 DEF Moving, Alike, Landing

(* One stack of the mission, or another row, is next.                      *)
LEMMA MovingOn ==
    ASSUME NEW T, NEW m, Landing(T.ids, m, T), NEW n \in 1 .. T.ids,
           NEW S, Moving(T, m, n - 1, S), NEW V,
           n \in DOMAIN T.rows /\ T.rows[n].mission = m =>
               /\ Landing(T.ids, m, V) /\ Others(m, n, S, V)
               /\ n \in DOMAIN V.rows => AtRest(V.rows, V.missions, n),
           ~(n \in DOMAIN T.rows /\ T.rows[n].mission = m) => V = S
    PROVE  Moving(T, m, n, V)
<1>1. T.ids \in Nat /\ T.rows \in Tables(T.ids) /\ n \in Nat
  BY DEF Landing
<1>2. \A i \in DOMAIN T.rows :
         i \in Nat /\ (n - 1 < i <=> n < i \/ i = n) /\ (i <= n <=> i <= n - 1 \/ i = n)
  <2>1. \A i \in DOMAIN T.rows : i \in Nat
    BY <1>1, TableParts
  <2> QED
    BY <1>1, <2>1
<1>3. CASE ~(n \in DOMAIN T.rows /\ T.rows[n].mission = m)
  <2>1. V = S
    BY <1>3
  <2>2. \A i \in DOMAIN T.rows : T.rows[i].mission = m => i # n
    BY <1>3
  <2>3. \A i \in DOMAIN T.rows : T.rows[i].mission = m /\ n < i => n - 1 < i
    BY <1>2
  <2>4. \A i \in DOMAIN T.rows : T.rows[i].mission = m /\ i <= n => i <= n - 1
    BY <1>2, <2>2
  <2> QED
    BY <2>1, <2>3, <2>4 DEF Moving
<1>4. CASE n \in DOMAIN T.rows /\ T.rows[n].mission = m
  <2>1. /\ Landing(T.ids, m, V) /\ Others(m, n, S, V)
        /\ n \in DOMAIN V.rows => AtRest(V.rows, V.missions, n)
    BY <1>4
  <2>2. /\ S.ids <= V.ids /\ DOMAIN V.rows \subseteq DOMAIN S.rows
        /\ \A j \in DOMAIN S.rows \ {n} :
              /\ j \in DOMAIN V.rows /\ Alike(V.rows[j], S.rows[j])
              /\ S.rows[j].mission = m => V.rows[j] = S.rows[j]
        /\ DOMAIN S.missions \subseteq DOMAIN V.missions
        /\ \A k \in DOMAIN S.missions : V.missions[k] = S.missions[k]
        /\ \A k \in DOMAIN V.missions \ DOMAIN S.missions : V.missions[k].type = "DEPLOYED"
        /\ \A u, x : Held(V.rows, u, x) = Held(S.rows, u, x)
    BY <2>1 DEF Others
  <2>3. T.ids <= V.ids
    <3>1. T.ids <= S.ids /\ S.ids <= V.ids /\ S.ids \in Nat /\ V.ids \in Nat
      BY <2>1, <2>2 DEF Moving, Landing
    <3> QED
      BY <1>1, <3>1
  <2>4. DOMAIN V.rows \subseteq DOMAIN T.rows
    BY <2>2 DEF Moving
  <2>5. ASSUME NEW i \in DOMAIN T.rows, T.rows[i].mission # m
        PROVE  i \in DOMAIN V.rows /\ Alike(V.rows[i], T.rows[i])
    <3>1. i \in DOMAIN S.rows /\ Alike(S.rows[i], T.rows[i]) /\ i # n
      BY <1>4, <2>5 DEF Moving
    <3> QED
      BY <2>2, <3>1 DEF Alike
  <2>6. ASSUME NEW i \in DOMAIN T.rows, T.rows[i].mission = m, n < i
        PROVE  i \in DOMAIN V.rows /\ V.rows[i] = T.rows[i]
    <3>1. n - 1 < i /\ i # n
      BY <1>1, <1>2, <2>6
    <3>2. i \in DOMAIN S.rows /\ S.rows[i] = T.rows[i]
      BY <2>6, <3>1 DEF Moving
    <3> QED
      BY <2>2, <2>6, <3>1, <3>2
  <2>7. ASSUME NEW i \in DOMAIN V.rows, T.rows[i].mission = m, i <= n
        PROVE  AtRest(V.rows, V.missions, i)
    <3>1. CASE i = n
      BY <2>1, <2>7, <3>1
    <3>2. CASE i # n
      <4>1. i \in DOMAIN S.rows \ {n} /\ i <= n - 1
        BY <1>2, <2>2, <2>4, <2>7, <3>2
      <4>2. AtRest(S.rows, S.missions, i)
        BY <2>7, <4>1 DEF Moving
      <4>3. V.rows[i].mission = S.rows[i].mission
        BY <2>2, <4>1 DEF Alike
      <4> QED
        BY <2>2, <4>2, <4>3 DEF AtRest, Marks
    <3> QED
      BY <3>1, <3>2
  <2>8. DOMAIN T.missions \subseteq DOMAIN V.missions
    BY <2>2 DEF Moving
  <2>9. \A k \in DOMAIN T.missions : V.missions[k] = T.missions[k]
    BY <2>2 DEF Moving
  <2>10. \A k \in DOMAIN V.missions \ DOMAIN T.missions : V.missions[k].type = "DEPLOYED"
    <3>1. \A k \in DOMAIN S.missions \ DOMAIN T.missions : S.missions[k].type = "DEPLOYED"
      BY DEF Moving
    <3> QED
      BY <2>2, <3>1
  <2>11. \A u, x : Held(V.rows, u, x) = Held(T.rows, u, x)
    <3>1. \A u, x : Held(S.rows, u, x) = Held(T.rows, u, x)
      BY DEF Moving
    <3> QED
      BY <2>2, <3>1
  <2> QED
    BY <2>1, <2>3, <2>4, <2>5, <2>6, <2>7, <2>8, <2>9, <2>10, <2>11 DEF Moving
<1> QED
  BY <1>3, <1>4

(* move_unit_to_planet lands the next stack of the mission.                *)
LEMMA MovingStep ==
    ASSUME NEW T, NEW m, Landing(T.ids, m, T), NEW n \in 1 .. T.ids, NEW p \in Planet,
           NEW user, NEW S, Moving(T, m, n - 1, S), NEW units,
           units = {i \in DOMAIN T.rows : T.rows[i].mission = m}
    PROVE  Moving(T, m, n, IF n \in units THEN MoveUnit(S, user, n, p) ELSE S)
<1>1. PICK V : V = IF n \in units THEN MoveUnit(S, user, n, p) ELSE S
  OBVIOUS
<1>2. n \in units <=> n \in DOMAIN T.rows /\ T.rows[n].mission = m
  OBVIOUS
<1>3. ASSUME n \in DOMAIN T.rows /\ T.rows[n].mission = m
      PROVE  /\ Landing(T.ids, m, V) /\ Others(m, n, S, V)
             /\ n \in DOMAIN V.rows => AtRest(V.rows, V.missions, n)
  <2>1. T.ids \in Nat /\ n \in Nat /\ n - 1 < n
    BY DEF Landing
  <2>2. Landing(T.ids, m, S) /\ n \in DOMAIN S.rows /\ S.rows[n].mission = m
    BY <1>3, <2>1 DEF Moving
  <2>3. PICK H : H = [rows |-> MoveUnitToPlanet(S.rows, n, p), missions |-> S.missions, ids |-> S.ids]
    OBVIOUS
  <2>4. PICK A : A = MoveUnitToForeignPlanet(S, n, p)
    OBVIOUS
  <2>5. V = H \/ V = A
    BY <1>1, <1>2, <1>3, <2>3, <2>4 DEF MoveUnit
  <2>6. /\ Landing(T.ids, m, H) /\ Others(m, n, S, H)
        /\ n \in DOMAIN H.rows => AtRest(H.rows, H.missions, n)
    BY ONLY <2>1, <2>2, <2>3, p \in Planet, LandsAtHome
  <2>7. /\ Landing(T.ids, m, A) /\ Others(m, n, S, A)
        /\ n \in DOMAIN A.rows => AtRest(A.rows, A.missions, n)
    BY ONLY <2>1, <2>2, <2>4, p \in Planet, LandsAbroad
  <2> QED
    BY <2>5, <2>6, <2>7
<1>4. ~(n \in DOMAIN T.rows /\ T.rows[n].mission = m) => V = S
  BY <1>1, <1>2
<1>5. Moving(T, m, n, V)
  BY ONLY <1>3, <1>4, Landing(T.ids, m, T), n \in 1 .. T.ids, Moving(T, m, n - 1, S), MovingOn
<1> QED
  BY <1>1, <1>5

IsMove(g, T, units, user, p) ==
    g = [n \in 0 .. T.ids |->
            IF n = 0 THEN T ELSE IF n \in units THEN MoveUnit(g[n - 1], user, n, p) ELSE g[n - 1]]

(* The states a landing can go through.                                    *)
Landings(T, m) ==
    {x \in (0 .. T.ids) \X
           [rows : Tables(T.ids), missions : UNION {MissionTables(k) : k \in Nat}, ids : Nat] :
        Moving(T, m, x[1], x[2])}

(* All stacks of the mission have landed.                                  *)
LEMMA MovedParts ==
    ASSUME NEW T, T = [rows |-> T.rows, missions |-> T.missions, ids |-> T.ids],
           NEW m, Landing(T.ids, m, T), NEW p \in Planet
    PROVE  Moving(T, m, T.ids, Moved(T, m, p))
<1>1. PICK units : units = {i \in DOMAIN T.rows : T.rows[i].mission = m}
  OBVIOUS
<1>2. PICK user : user = missions[m].user
  OBVIOUS
<1>3. PICK N : N = T.ids
  OBVIOUS
<1>4. N \in Nat
  BY <1>3 DEF Landing
<1>5. PICK W : W = Landings(T, m)
  OBVIOUS
<1>6. \A n, S : <<n, S>> \in W => n \in 0 .. N /\ Moving(T, m, n, S)
  BY <1>3, <1>5 DEF Landings
<1>7. \A n \in 0 .. N : \A S :
         S = [rows |-> S.rows, missions |-> S.missions, ids |-> S.ids] /\ Moving(T, m, n, S)
             => <<n, S>> \in W
  <2> SUFFICES ASSUME NEW n \in 0 .. N, NEW S, Moving(T, m, n, S),
                      S = [rows |-> S.rows, missions |-> S.missions, ids |-> S.ids]
               PROVE  <<n, S>> \in W
    OBVIOUS
  <2>1. S.rows \in Tables(T.ids) /\ S.missions \in MissionTables(S.ids) /\ S.ids \in Nat
    BY DEF Moving, Landing
  <2>2. S \in [rows : Tables(T.ids), missions : UNION {MissionTables(k) : k \in Nat}, ids : Nat]
    BY <2>1
  <2> QED
    BY <1>3, <1>5, <2>2 DEF Landings
<1>8. \A S : S \in [rows : Tables(T.ids), missions : UNION {MissionTables(k) : k \in Nat}, ids : Nat]
                => S = [rows |-> S.rows, missions |-> S.missions, ids |-> S.ids]
  OBVIOUS
<1>9. PICK Step : Step = [x \in W |-> IF x[1] + 1 \in units THEN MoveUnit(x[2], user, x[1] + 1, p)
                                      ELSE x[2]]
  OBVIOUS
<1>10. ASSUME NEW k \in 1 .. N, NEW S, <<k - 1, S>> \in W,
              NEW V, V = IF k \in units THEN MoveUnit(S, user, k, p) ELSE S
       PROVE  <<k, V>> \in W /\ Step[<<k - 1, S>>] = V
  <2>1. Moving(T, m, k - 1, S)
    BY <1>6, <1>10
  <2>2. k \in 1 .. T.ids
    BY <1>3
  <2>3. Moving(T, m, k, V)
    BY ONLY <1>1, <1>10, <2>1, <2>2, Landing(T.ids, m, T), p \in Planet, MovingStep
  <2>4. V = [rows |-> V.rows, missions |-> V.missions, ids |-> V.ids]
    <3>1. S = [rows |-> S.rows, missions |-> S.missions, ids |-> S.ids]
      BY <1>5, <1>8, <1>10 DEF Landings
    <3>2. PICK H : H = MoveUnit(S, user, k, p)
      BY SMTT(60)
    <3>3. H = [rows |-> H.rows, missions |-> H.missions, ids |-> H.ids]
      BY <3>2 DEF MoveUnit, MoveUnitToForeignPlanet
    <3> QED
      BY <1>10, <3>1, <3>2, <3>3
  <2>5. k \in 0 .. N
    BY <1>4
  <2>6. <<k, V>> \in W
    BY <1>7, <2>3, <2>4, <2>5
  <2>7. Step[<<k - 1, S>>] = IF (k - 1) + 1 \in units THEN MoveUnit(S, user, (k - 1) + 1, p) ELSE S
    BY <1>9, <1>10
  <2>8. (k - 1) + 1 = k
    BY <1>4
  <2> QED
    BY <1>10, <2>6, <2>7, <2>8
<1>11. <<0, T>> \in W
  <2>1. 0 \in 0 .. N
    BY <1>4
  <2>2. Moving(T, m, 0, T)
    BY MovingStart
  <2> QED
    BY <1>7, <2>1, <2>2
<1>12. \A k \in 1 .. N : \A S : <<k - 1, S>> \in W => <<k, Step[<<k - 1, S>>]>> \in W
  BY <1>10
<1>13. \A k \in 1 .. N : \A S : <<k - 1, S>> \in W =>
          Step[<<k - 1, S>>] = IF k \in units THEN MoveUnit(S, user, k, p) ELSE S
  BY <1>10
<1>14. PICK g : (\A k \in 0 .. N : <<k, g[k]>> \in W) /\ Recurs(g, N, T, Step)
  BY ONLY <1>4, <1>11, <1>12, StepsExist
<1>15. IsMove(g, T, units, user, p)
  <2>1. \A k \in 0 .. N : k # 0 => k \in 1 .. N /\ k - 1 \in 0 .. N
    BY <1>4
  <2>2. \A k \in 0 .. N : k # 0 =>
           Step[<<k - 1, g[k - 1]>>] = IF k \in units THEN MoveUnit(g[k - 1], user, k, p) ELSE g[k - 1]
    BY <1>14, <1>13, <2>1
  <2>3. g = [k \in 0 .. N |-> IF k = 0 THEN T ELSE Step[<<k - 1, g[k - 1]>>]]
    BY <1>14 DEF Recurs
  <2> QED
    BY <1>3, <2>2, <2>3 DEF IsMove
<1>16. PICK c : c = CHOOSE h : IsMove(h, T, units, user, p)
  OBVIOUS
<1>17. IsMove(c, T, units, user, p)
  BY <1>15, <1>16
<1>18. c[0] = T /\ \A k \in 1 .. N :
                      c[k] = IF k \in units THEN MoveUnit(c[k - 1], user, k, p) ELSE c[k - 1]
  <2>1. \A k \in 0 .. N : c[k] = IF k = 0 THEN T
                                 ELSE IF k \in units THEN MoveUnit(c[k - 1], user, k, p) ELSE c[k - 1]
    BY <1>3, <1>17 DEF IsMove
  <2>2. 0 \in 0 .. N /\ \A k \in 1 .. N : k \in 0 .. N /\ k # 0
    BY <1>4
  <2> QED
    BY <2>1, <2>2
<1>19. \A k \in 1 .. N : <<k - 1, c[k - 1]>> \in W => <<k, c[k]>> \in W
  BY <1>10, <1>18
<1>20. <<0, c[0]>> \in W
  BY <1>11, <1>18
<1>21. \A k \in 0 .. N : <<k, c[k]>> \in W
  BY ONLY <1>4, <1>19, <1>20, StepsKeep
<1>22. <<N, c[N]>> \in W
  BY <1>4, <1>21
<1>23. Moved(T, m, p) = c[N]
  BY <1>1, <1>2, <1>3, <1>16 DEF Moved, IsMove
<1> QED
  BY <1>3, <1>6, <1>22, <1>23

------------------------------------------------------------------------------
(* Interceptions.                                                          *)

(* Each stack is taken by one defender, an enemy; and when as many were    *)
(* taken as there are, all were.                                           *)
LEMMA TakenParts ==
    ASSUME IndInv, NEW m \in DOMAIN missions, NEW taken, taken = TakenFrom(m)
    PROVE  /\ Shot(taken) \subseteq Aboard(m) /\ Aboard(m) \subseteq DOMAIN rows
           /\ missions[m].type = "RETURN_MISSION" => Shot(taken) = {}
           /\ \A i \in Shot(taken) : \E d \in DOMAIN rows :
                 <<d, i>> \in taken /\ rows[d].user # rows[i].user
                 /\ \A x \in taken : x[2] = i => x = <<d, i>>
           /\ missions[m].type # "RETURN_MISSION" =>
                 \A i \in Aboard(m) :
                     i \in Shot(taken) <=>
                         \E d \in FindInvolvedInAttack(missions[m].target) : CanIntercept(d, i)
           /\ Cardinality(taken) = Cardinality(Aboard(m)) => Shot(taken) = Aboard(m)
<1>1. rows \in Tables(ids) /\ ids \in Nat
  BY DEF IndInv, Typed
<1>2. PICK F : F = FindInvolvedInAttack(missions[m].target)
  OBVIOUS
<1>3. F \subseteq DOMAIN rows /\ F \subseteq Nat /\ Aboard(m) \subseteq DOMAIN rows
  <2>1. F \subseteq DOMAIN rows /\ Aboard(m) \subseteq DOMAIN rows
    BY <1>2 DEF FindInvolvedInAttack, Aboard
  <2>2. \A i \in DOMAIN rows : i \in Nat
    BY <1>1, TableParts
  <2> QED
    BY <2>1, <2>2
<1>4. \A x \in taken :
         /\ x = <<x[1], x[2]>> /\ x[1] \in F /\ x[2] \in Aboard(m) /\ CanIntercept(x[1], x[2])
         /\ \A d \in F : CanIntercept(d, x[2]) => x[1] <= d
  BY <1>2 DEF TakenFrom, Interceptions
<1>5. \A x, y \in taken : x[2] = y[2] => x = y
  <2> SUFFICES ASSUME NEW x \in taken, NEW y \in taken, x[2] = y[2] PROVE x = y
    OBVIOUS
  <2>1. x[1] <= y[1] /\ y[1] <= x[1] /\ x[1] \in Nat /\ y[1] \in Nat
    BY <1>3, <1>4
  <2>2. x[1] = y[1]
    BY <2>1
  <2> QED
    BY <1>4, <2>2
<1>6. Shot(taken) \subseteq Aboard(m)
  BY <1>4 DEF Shot
<1>7. ASSUME missions[m].type = "RETURN_MISSION" PROVE Shot(taken) = {}
  BY <1>7 DEF TakenFrom, Shot
<1>8. ASSUME NEW i \in Shot(taken)
      PROVE  \E d \in DOMAIN rows : <<d, i>> \in taken /\ rows[d].user # rows[i].user
                                    /\ \A x \in taken : x[2] = i => x = <<d, i>>
  <2>1. PICK x \in taken : x[2] = i
    BY DEF Shot
  <2>2. x[1] \in DOMAIN rows /\ x = <<x[1], i>> /\ CanIntercept(x[1], i)
    BY <1>3, <1>4, <2>1
  <2>3. rows[x[1]].user # rows[i].user
    BY <2>2 DEF CanIntercept, AreEnemies
  <2>4. \A y \in taken : y[2] = i => y = <<x[1], i>>
    BY <1>5, <2>1, <2>2
  <2> QED
    BY <2>2, <2>3, <2>4
<1>9. ASSUME missions[m].type # "RETURN_MISSION", NEW i \in Aboard(m)
      PROVE  i \in Shot(taken) <=> \E d \in F : CanIntercept(d, i)
  <2>1. i \in Shot(taken) => \E d \in F : CanIntercept(d, i)
    BY <1>4 DEF Shot
  <2>2. ASSUME NEW d \in F, CanIntercept(d, i) PROVE i \in Shot(taken)
    <3>1. PICK D : D = {c \in F : CanIntercept(c, i)}
      OBVIOUS
    <3>2. PICK e : e = Min(D)
      OBVIOUS
    <3>3. D \subseteq Nat /\ D # {}
      BY <1>3, <2>2, <3>1
    <3>4. e \in D /\ \A c \in D : e <= c
      BY <3>2, <3>3, LeastNumber
    <3>5. e \in F /\ CanIntercept(e, i) /\ \A c \in F : CanIntercept(c, i) => e <= c
      BY <3>1, <3>4
    <3>6. <<e, i>> \in Interceptions(m)
      BY <1>2, <1>9, <3>5 DEF Interceptions
    <3>7. <<e, i>> \in taken
      BY <1>9, <3>6 DEF TakenFrom
    <3> QED
      BY <3>7 DEF Shot
  <2> QED
    BY <2>1, <2>2
<1>10. ASSUME Cardinality(taken) = Cardinality(Aboard(m)) PROVE Shot(taken) = Aboard(m)
  <2>1. PICK f : f = [x \in taken |-> x[2]]
    OBVIOUS
  <2>2. f \in Injection(taken, Aboard(m))
    BY <1>4, <1>5, <2>1 DEF Injection, IsInjective
  <2>3. IsFiniteSet(Aboard(m))
    <3>1. IsFiniteSet(DOMAIN rows)
      BY <1>1, TableParts
    <3> QED
      BY <1>3, <3>1, FS_Subset
  <2>4. f \in Surjection(taken, Aboard(m))
    BY <1>10, <2>2, <2>3, FS_Injection
  <2>5. \A i \in Aboard(m) : \E x \in taken : x[2] = i
    BY <2>1, <2>4 DEF Surjection
  <2> QED
    BY <1>6, <2>5 DEF Shot
<1> QED
  BY <1>2, <1>3, <1>6, <1>7, <1>8, <1>9, <1>10

(* What carries and what is carried are taken together.                    *)
LEMMA LeftCarried ==
    ASSUME IndInv, NEW m \in DOMAIN missions, NEW K, K = Shot(TakenFrom(m))
    PROVE  Carried(Without(rows, K), DOMAIN expired)
<1>1. PICK R : R = Without(rows, K)
  OBVIOUS
<1>2. rows \in Tables(ids) /\ ids \in Nat
  BY DEF IndInv, Typed
<1>3. DOMAIN R = DOMAIN rows \ K /\ \A i \in DOMAIN R : R[i] = rows[i]
  BY <1>1, <1>2, WithoutTable
<1>4. K \subseteq Aboard(m)
  BY TakenParts
<1> SUFFICES ASSUME NEW i \in DOMAIN R, NEW c, c = R[i].carrier, c # None, c \notin DOMAIN expired
             PROVE  c \in DOMAIN R /\ R[c].mission = R[i].mission /\ R[c].carrier = None
  BY <1>1 DEF Carried
<1>5. i \in DOMAIN rows /\ i \notin K /\ c = rows[i].carrier
  BY <1>3
<1>6. c \in DOMAIN rows /\ rows[c].mission = rows[i].mission /\ rows[c].carrier = None
  BY <1>5 DEF IndInv, Carried
<1>7. c \notin K
  <2> SUFFICES ASSUME c \in K PROVE FALSE
    OBVIOUS
  <2>1. c \in Aboard(m) /\ i \in Aboard(m)
    BY <1>4, <1>5, <1>6 DEF Aboard
  <2>2. m # None /\ None \notin DOMAIN rows
    <3>1. m \in Nat /\ DOMAIN rows \subseteq Nat
      BY <1>2, TableParts, MissionTableParts DEF IndInv, Typed
    <3> QED
      BY <3>1, StartAssumption
  <2>3. rows[c].user = rows[i].user
    BY <2>1, <2>2 DEF IndInv, OnMissions, Aboard
  <2>4. InterceptedAs(i) = InterceptedAs(c)
    BY <1>5, <1>6, <2>2 DEF InterceptedAs
  <2>5. \A d : CanIntercept(d, c) => CanIntercept(d, i)
    BY <2>3, <2>4 DEF CanIntercept
  <2>6. missions[m].type # "RETURN_MISSION"
    BY TakenParts
  <2>7. \A j \in Aboard(m) :
           j \in K <=> \E d \in FindInvolvedInAttack(missions[m].target) : CanIntercept(d, j)
    BY <2>6, TakenParts
  <2> QED
    BY <1>5, <2>1, <2>5, <2>7
<1> QED
  BY <1>3, <1>5, <1>6, <1>7

(* The tables when the units go their way.                                 *)
LEMMA LeftLands ==
    ASSUME IndInv, NEW m \in DOMAIN missions, missions[m].type # "DEPLOYED",
           NEW K, K = Shot(TakenFrom(m)),
           NEW T, T = [rows |-> Without(rows, K),
                       missions |-> [missions EXCEPT ![m].resolved = TRUE], ids |-> ids]
    PROVE  /\ Landing(ids, m, T) /\ Carried(T.rows, DOMAIN expired)
           /\ DOMAIN T.rows = DOMAIN rows \ K /\ \A i \in DOMAIN T.rows : T.rows[i] = rows[i]
           /\ DOMAIN T.missions = DOMAIN missions
           /\ \A k \in DOMAIN missions \ {m} : T.missions[k] = missions[k]
           /\ T.missions[m] = [missions[m] EXCEPT !.resolved = TRUE]
<1>1. PICK R : R = Without(rows, K)
  OBVIOUS
<1>2. /\ rows \in Tables(ids) /\ ids \in Nat /\ missions \in MissionTables(ids)
      /\ OnMissions(rows, missions, None) /\ MarkersHold(rows, missions) /\ MarkersDiffer(missions)
  BY DEF IndInv, Typed
<1>3. R \in Tables(ids) /\ DOMAIN R = DOMAIN rows \ K /\ \A i \in DOMAIN R : R[i] = rows[i]
  <2>1. rows \in Tables(ids) /\ ids \in Nat
    BY <1>2
  <2> QED
    BY ONLY <1>1, <2>1, WithoutTable
<1>4. K \subseteq Aboard(m)
  BY TakenParts
<1>5. PICK r : r = [missions[m] EXCEPT !.resolved = TRUE]
  OBVIOUS
<1>6. PICK M : M = [missions EXCEPT ![m] = r]
  OBVIOUS
<1>7. T = [rows |-> R, missions |-> M, ids |-> ids]
  BY <1>1, <1>5, <1>6
<1>8. /\ missions = [k \in DOMAIN missions |-> missions[k]] /\ DOMAIN missions \subseteq 1 .. ids
      /\ \A k \in DOMAIN missions : missions[k] \in MissionRow /\ k \in Nat
  BY <1>2, MissionTableParts
<1>9. /\ r \in MissionRow /\ r.user = missions[m].user /\ r.type = missions[m].type
      /\ r.target = missions[m].target
  <2>1. missions[m] \in MissionRow
    BY <1>8
  <2> QED
    BY <1>5, <2>1 DEF MissionRow
<1>10. DOMAIN M = DOMAIN missions /\ M[m] = r /\ \A k \in DOMAIN missions \ {m} : M[k] = missions[k]
  BY <1>6, <1>8
<1>11. M \in MissionTables(ids)
  <2>1. M = [k \in DOMAIN M |-> M[k]]
    BY <1>6, <1>8, <1>10
  <2>2. DOMAIN M \subseteq 1 .. ids /\ \A k \in DOMAIN M : M[k] \in MissionRow
    BY <1>8, <1>9, <1>10
  <2> QED
    BY <1>2, <2>1, <2>2, IsMissionTable
<1>12. \A k : Marks(M, k) <=> Marks(missions, k)
  BY <1>9, <1>10 DEF Marks
<1>13. ~Marks(missions, m) /\ m # None
  BY <1>8, StartAssumption DEF Marks
<1>14. OnMissions(R, M, m)
  <2> SUFFICES ASSUME NEW i \in DOMAIN R
               PROVE  /\ R[i].mission # None =>
                            /\ R[i].mission \in DOMAIN M /\ M[R[i].mission].user = R[i].user
                            /\ R[i].mission # m =>
                                  Marks(M, R[i].mission) \/ ~M[R[i].mission].resolved
                      /\ AtRest(R, M, i) => R[i].carrier = None
    BY DEF OnMissions
  <2>1. i \in DOMAIN rows /\ R[i] = rows[i]
    BY <1>3
  <2>2. /\ rows[i].mission # None =>
              /\ rows[i].mission \in DOMAIN missions /\ missions[rows[i].mission].user = rows[i].user
              /\ Marks(missions, rows[i].mission) \/ ~missions[rows[i].mission].resolved
        /\ AtRest(rows, missions, i) => rows[i].carrier = None
    BY <1>2, <2>1 DEF OnMissions
  <2>3. AtRest(R, M, i) <=> AtRest(rows, missions, i)
    BY <1>12, <2>1 DEF AtRest
  <2> QED
    BY <1>9, <1>10, <1>12, <2>1, <2>2, <2>3
<1>15. MarkersHold(R, M)
  <2> SUFFICES ASSUME NEW k \in DOMAIN M, Marks(M, k)
               PROVE  ~M[k].resolved <=> \E i \in DOMAIN R : R[i].mission = k
    BY DEF MarkersHold
  <2>1. k # m /\ k \in DOMAIN missions /\ Marks(missions, k) /\ M[k] = missions[k]
    BY <1>10, <1>12, <1>13
  <2>2. ~missions[k].resolved <=> \E i \in DOMAIN rows : rows[i].mission = k
    BY <1>2, <2>1 DEF MarkersHold
  <2>3. \A i \in DOMAIN rows : rows[i].mission = k => i \in DOMAIN R
    BY <1>3, <1>4, <2>1 DEF Aboard
  <2> QED
    BY <1>3, <2>1, <2>2, <2>3
<1>16. MarkersDiffer(M)
  <2>1. \A k \in DOMAIN M : Marks(M, k) => k \in DOMAIN missions /\ Marks(missions, k) /\ M[k] = missions[k]
    BY <1>10, <1>12, <1>13
  <2> QED
    BY <1>2, <2>1 DEF MarkersDiffer
<1>17. Landing(ids, m, T)
  <2>1. T.rows = R /\ T.missions = M /\ T.ids = ids
    BY ONLY <1>7
  <2>2. m \in DOMAIN M /\ M[m].type # "DEPLOYED" /\ ids <= ids
    BY <1>2, <1>9, <1>10
  <2> QED
    BY ONLY <1>2, <1>3, <1>11, <1>14, <1>15, <1>16, <2>1, <2>2 DEF Landing
<1>18. Carried(R, DOMAIN expired)
  BY <1>1, LeftCarried
<1> QED
  BY <1>3, <1>5, <1>7, <1>10, <1>17, <1>18

(* Each stack that was taken was taken by one user, an enemy.              *)
LEMMA TakerKnown ==
    ASSUME IndInv, NEW m \in DOMAIN missions, NEW taken, taken = TakenFrom(m),
           NEW i \in Shot(taken)
    PROVE  \E x \in taken : /\ x[2] = i /\ rows[x[1]].user = TakerOf(taken, i)
                            /\ TakerOf(taken, i) # rows[i].user
                            /\ \A y \in taken : y[2] = i => y = x
<1>1. PICK d \in DOMAIN rows : /\ <<d, i>> \in taken /\ rows[d].user # rows[i].user
                               /\ \A x \in taken : x[2] = i => x = <<d, i>>
  BY TakenParts
<1>2. PICK x : x = <<d, i>>
  OBVIOUS
<1>3. x \in taken /\ x[1] = d /\ x[2] = i /\ \A y \in taken : y[2] = i => y = x
  BY <1>1, <1>2
<1>4. PICK c : c = CHOOSE y \in taken : y[2] = i
  OBVIOUS
<1>5. c = x
  BY <1>3, <1>4
<1>6. TakerOf(taken, i) = rows[c[1]].user
  BY <1>4, Zenon DEF TakerOf
<1> QED
  BY <1>1, <1>3, <1>5, <1>6

(* There are as many stacks of a taker as pairs with the own defenders.    *)
LEMMA TakersCount ==
    ASSUME IndInv, NEW m \in DOMAIN missions, NEW taken, taken = TakenFrom(m), NEW u
    PROVE  Cardinality({x \in taken : rows[x[1]].user = u})
               = Cardinality({i \in Shot(taken) : TakerOf(taken, i) = u})
<1>1. ASSUME NEW i \in Shot(taken)
      PROVE  \E x \in taken : /\ x[2] = i /\ rows[x[1]].user = TakerOf(taken, i)
                              /\ \A y \in taken : y[2] = i => y = x
  BY TakerKnown
<1>2. \A i \in Shot(taken) : \A x \in taken : x[2] = i => rows[x[1]].user = TakerOf(taken, i)
  BY <1>1
<1>3. Cardinality({x \in taken : rows[x[1]].user = u})
          = Cardinality({i \in Shot(taken) : TakerOf(taken, i) = u})
  <2>1. PICK S : S = {i \in Shot(taken) : TakerOf(taken, i) = u}
    OBVIOUS
  <2>2. PICK X : X = {x \in taken : rows[x[1]].user = u}
    OBVIOUS
  <2>3. PICK f : f = [i \in S |-> CHOOSE x \in taken : x[2] = i]
    OBVIOUS
  <2>4. \A i \in S : f[i] \in X /\ f[i][2] = i
    <3> SUFFICES ASSUME NEW i \in S PROVE f[i] \in X /\ f[i][2] = i
      OBVIOUS
    <3>1. PICK x \in taken : x[2] = i
      BY <1>1, <2>1
    <3>2. f[i] \in taken /\ f[i][2] = i
      BY <2>3, <3>1
    <3> QED
      BY <1>2, <2>1, <2>2, <3>2
  <2>5. \A x \in X : x[2] \in S /\ f[x[2]] = x
    <3> SUFFICES ASSUME NEW x \in X PROVE x[2] \in S /\ f[x[2]] = x
      OBVIOUS
    <3>1. x \in taken /\ rows[x[1]].user = u /\ x[2] \in Shot(taken)
      BY <2>2 DEF Shot
    <3>2. x[2] \in S
      BY <1>2, <2>1, <3>1
    <3>3. \A y \in taken : y[2] = x[2] => y = x
      BY <1>1, <3>1
    <3>4. f[x[2]] \in taken /\ f[x[2]][2] = x[2]
      BY <2>2, <2>4, <3>2
    <3> QED
      BY <3>2, <3>3, <3>4
  <2>6. f \in Bijection(S, X)
    <3>1. f \in [S -> X]
      BY <2>3, <2>4
    <3>2. \A i, j \in S : f[i] = f[j] => i = j
      BY <2>4
    <3>3. \A x \in X : \E i \in S : f[i] = x
      BY <2>5
    <3> QED
      BY <3>1, <3>2, <3>3 DEF Bijection, Injection, Surjection, IsInjective
  <2>7. IsFiniteSet(S)
    <3>1. IsFiniteSet(DOMAIN rows) /\ S \subseteq DOMAIN rows
      BY <2>1, TakenParts, TableParts DEF IndInv, Typed
    <3> QED
      BY <3>1, FS_Subset
  <2>8. Cardinality(X) = Cardinality(S)
    BY <2>6, <2>7, FS_Bijection DEF ExistsBijection
  <2> QED
    BY <2>1, <2>2, <2>8
<1> QED
  BY <1>3

(* Whom the reports of an arrival tell of a stack that was taken.          *)
LEMMA ReportsTell ==
    ASSUME IndInv, NEW m \in DOMAIN missions, NEW taken, taken = TakenFrom(m),
           NEW i \in Shot(taken), NEW u, u = TakerOf(taken, i), NEW about,
           about = {r \in InterceptionReports(m, taken) : u \in DOMAIN r.info}
    PROVE  Tells(about, rows[i].user, u)
<1>1. PICK x \in taken : x[2] = i /\ rows[x[1]].user = u /\ u # rows[i].user
  BY TakerKnown
<1>2. missions[m].user = rows[i].user
  <2>1. i \in DOMAIN rows /\ rows[i].mission = m
    BY ZenonT(60), TakenParts DEF Aboard
  <2>2. m # None
    BY MissionTableParts, StartAssumption DEF IndInv, Typed
  <2> QED
    BY <2>1, <2>2 DEF IndInv, OnMissions
<1>3. PICK info : info = InterceptionInfo(taken)
  OBVIOUS
<1>4. u \in DOMAIN info
  BY <1>1, <1>3 DEF InterceptionInfo
<1> DEFINE mine == [mission |-> m, to |-> missions[m].user, enemy |-> FALSE,
                    involved |-> Aboard(m) \ Shot(taken), info |-> info]
           his(v) == [mission |-> m, to |-> v, enemy |-> TRUE,
                      involved |-> {Min({z[1] : z \in {y \in taken : rows[y[1]].user = v}})},
                      info |-> [w \in {v} |-> info[w]]]
<1>5. InterceptionReports(m, taken) = {mine} \cup {his(v) : v \in DOMAIN info}
  BY <1>1, <1>3 DEF InterceptionReports
<1>6. /\ mine.to = rows[i].user /\ mine.enemy = FALSE /\ mine.info = info
      /\ \A v : his(v).to = v /\ his(v).enemy = TRUE /\ DOMAIN his(v).info = {v}
  BY <1>2
<1>7. PICK a : a = mine
  OBVIOUS
<1>8. PICK b : b = his(u)
  OBVIOUS
<1> HIDE DEF mine, his
<1>9. about = {a, b}
  <2>1. a \in about /\ b \in about
    BY <1>4, <1>5, <1>6, <1>7, <1>8
  <2>2. ASSUME NEW r \in about PROVE r = a \/ r = b
    <3>1. CASE r # a
      <4>1. PICK v \in DOMAIN info : r = his(v)
        BY <1>5, <1>7, <3>1
      <4>2. v = u
        BY <1>6, <4>1
      <4> QED
        BY <1>8, <4>1, <4>2
    <3> QED
      BY <3>1
  <2> QED
    BY <2>1, <2>2
<1>10. /\ a.to = rows[i].user /\ a.enemy = FALSE
       /\ b.to = u /\ b.enemy = TRUE
  BY <1>6, <1>7, <1>8
<1>11. Cardinality(about) = 2
  <2>1. IsFiniteSet({a}) /\ Cardinality({a}) = 1
    BY FS_Singleton
  <2>2. b \notin {a}
    BY <1>10
  <2>3. Cardinality({a} \cup {b}) = Cardinality({a}) + 1
    BY <2>1, <2>2, FS_AddElement
  <2>4. about = {a} \cup {b}
    BY <1>9
  <2>5. Cardinality(about) = Cardinality({a}) + 1
    BY <2>3, <2>4
  <2> QED
    BY <2>1, <2>5
<1>12. {<<r.to, r.enemy>> : r \in about} = {<<rows[i].user, FALSE>>, <<u, TRUE>>}
  BY <1>9, <1>10
<1> QED
  BY <1>1, <1>11, <1>12 DEF Tells

(* The reports of an arrival are about its mission, which lost something,  *)
(* and count what was taken.                                               *)
LEMMA ReportsOfTaken ==
    ASSUME IndInv, NEW m \in DOMAIN missions, NEW taken, taken = TakenFrom(m),
           NEW r \in InterceptionReports(m, taken)
    PROVE  /\ r.mission = m /\ Shot(taken) # {}
           /\ \A u \in DOMAIN r.info :
                 r.info[u] = Cardinality({i \in Shot(taken) : TakerOf(taken, i) = u})
<1>1. PICK info : info = InterceptionInfo(taken)
  OBVIOUS
<1>2. taken # {} /\ Shot(taken) # {}
  BY DEF InterceptionReports, Shot
<1>3. ASSUME NEW u \in DOMAIN info
      PROVE  info[u] = Cardinality({i \in Shot(taken) : TakerOf(taken, i) = u})
  <2>1. info[u] = Cardinality({x \in taken : rows[x[1]].user = u})
    BY <1>1 DEF InterceptionInfo
  <2>2. Cardinality({x \in taken : rows[x[1]].user = u})
            = Cardinality({i \in Shot(taken) : TakerOf(taken, i) = u})
    BY TakersCount
  <2> QED
    BY <2>1, <2>2
<1> DEFINE mine == [mission |-> m, to |-> missions[m].user, enemy |-> FALSE,
                    involved |-> Aboard(m) \ Shot(taken), info |-> info]
           his(v) == [mission |-> m, to |-> v, enemy |-> TRUE,
                      involved |-> {Min({z[1] : z \in {y \in taken : rows[y[1]].user = v}})},
                      info |-> [w \in {v} |-> info[w]]]
<1>4. InterceptionReports(m, taken) = {mine} \cup {his(v) : v \in DOMAIN info}
  BY <1>1, <1>2 DEF InterceptionReports
<1>5. /\ mine.mission = m /\ mine.info = info
      /\ \A v : his(v).mission = m /\ his(v).info = [w \in {v} |-> info[w]]
  OBVIOUS
<1> HIDE DEF mine, his
<1>6. r = mine \/ \E v \in DOMAIN info : r = his(v)
  BY <1>4
<1>7. CASE r = mine
  BY <1>2, <1>3, <1>5, <1>7
<1>8. ASSUME NEW v \in DOMAIN info, r = his(v)
      PROVE  r.mission = m /\ DOMAIN r.info = {v} /\ r.info[v] = info[v]
  <2>1. r.mission = m /\ r.info = [w \in {v} |-> info[w]]
    BY <1>5, <1>8, Zenon
  <2> QED
    BY <2>1
<1>9. CASE \E v \in DOMAIN info : r = his(v)
  <2>1. PICK v \in DOMAIN info : r = his(v)
    BY <1>9
  <2>2. r.mission = m /\ DOMAIN r.info = {v} /\ r.info[v] = info[v]
    BY <1>8, <2>1
  <2> QED
    BY <1>2, <1>3, <2>2
<1> QED
  BY <1>6, <1>7, <1>9

(* An arrival does what it should if its units end where they should.      *)
LEMMA ArriveKeepsIf ==
    ASSUME IndInv, NEW m \in DOMAIN missions, Arrive(m),
           NEW K, K = Shot(TakenFrom(m)),
           ids' \in Nat, ids <= ids', rows' \in Tables(ids'), missions' \in MissionTables(ids'),
           DOMAIN rows' \subseteq DOMAIN rows \ K,
           OnMissions(rows', missions', None), Carried(rows', DOMAIN expired),
           MarkersHold(rows', missions'), MarkersDiffer(missions'), ~Outruns(rows', missions'),
           \A u, x : Held(rows', u, x) = Held(Without(rows, K), u, x),
           \A k \in DOMAIN missions :
               /\ k \in DOMAIN missions' /\ missions'[k].type = missions[k].type
               /\ missions[k].resolved => missions'[k].resolved,
           missions'[m].resolved
    PROVE  IndInv'
<1>1. PICK taken : taken = TakenFrom(m) /\ K = Shot(taken)
  OBVIOUS
<1>2. /\ shot' = With(shot, [i \in K |-> rows[i]]) /\ expired' = expired
      /\ taker' = With(taker, [i \in K |-> TakerOf(taken, i)]) /\ ~missions[m].resolved
      /\ missions[m].type \in {"EXPLORE", "DEPLOY", "RETURN_MISSION"}
      /\ \/ reports' = reports \cup InterceptionReports(m, taken)
         \/ reports' = reports /\ missions[m].type \in {"DEPLOY", "RETURN_MISSION"}
  BY <1>1 DEF Arrive
<1>3. /\ rows \in Tables(ids) /\ shot \in Tables(ids) /\ expired \in Tables(ids) /\ ids \in Nat
      /\ DOMAIN rows \cap DOMAIN shot = {} /\ DOMAIN rows \cap DOMAIN expired = {}
      /\ DOMAIN shot \cap DOMAIN expired = {}
      /\ Accounted /\ ShotAreOver /\ Told(reports, shot, taker, missions)
  BY DEF IndInv, Typed
<1>4. K \subseteq DOMAIN rows /\ \A i \in K : rows[i].mission = m
  <2>1. K \subseteq Aboard(m)
    BY <1>1, TakenParts
  <2> QED
    BY <2>1 DEF Aboard
<1>5. PICK Q : Q = [i \in K |-> rows[i]]
  OBVIOUS
<1>6. /\ Q \in Tables(ids) /\ DOMAIN Q = K /\ (\A i \in K : Q[i] = rows[i])
      /\ \A u, x : Held(rows, u, x) = Held(Without(rows, K), u, x) + Held(Q, u, x)
  <2>1. Q \in Tables(ids) /\ \A u, x : Held(rows, u, x) = Held(Without(rows, K), u, x) + Held(Q, u, x)
    BY <1>3, <1>4, <1>5, HeldApart
  <2> QED
    BY <1>5, <2>1
<1>7. /\ shot' \in Tables(ids) /\ DOMAIN shot' = DOMAIN shot \cup K
      /\ \A i \in DOMAIN shot : shot'[i] = shot[i]
      /\ \A i \in K : i \notin DOMAIN shot /\ shot'[i] = rows[i]
      /\ \A u, x : Held(shot', u, x) = Held(shot, u, x) + Held(Q, u, x)
  <2>1. shot' = With(shot, Q)
    BY <1>2, <1>5
  <2>2. shot' \in Tables(ids)
    BY <1>3, <1>6, <2>1, WithTable
  <2>3. DOMAIN shot' = DOMAIN shot \cup K
    BY <1>6, <2>1, WithDomain
  <2>4. \A i \in DOMAIN shot : shot'[i] = shot[i]
    BY <2>1, WithLeft
  <2>5. \A i \in K : i \notin DOMAIN shot
    BY <1>3, <1>4
  <2>6. \A i \in K : shot'[i] = rows[i]
    BY <1>6, <2>1, <2>5, WithRight
  <2>7. \A u, x : Held(shot', u, x) = Held(shot, u, x) + Held(Q, u, x)
    BY <1>3, <1>6, <2>1, <2>5, HeldWith
  <2> QED
    BY <2>2, <2>3, <2>4, <2>5, <2>6, <2>7
<1>8. Typed'
  <2>1. shot' \in Tables(ids') /\ expired' \in Tables(ids')
    BY <1>2, <1>3, <1>7, TableGrows
  <2>2. DOMAIN rows' \cap DOMAIN shot' = {} /\ DOMAIN rows' \cap DOMAIN expired' = {}
    BY <1>2, <1>3, <1>7
  <2>3. DOMAIN shot' \cap DOMAIN expired' = {}
    BY <1>2, <1>3, <1>4, <1>7
  <2> QED
    BY <2>1, <2>2, <2>3 DEF Typed
<1>9. Accounted'
  <2> SUFFICES ASSUME NEW u \in User, NEW x \in Unit
               PROVE  Held(rows', u, x) + Held(shot', u, x) + Held(expired', u, x) = Held(Rows0, u, x)
    BY DEF Accounted
  <2>1. Held(rows, u, x) + Held(shot, u, x) + Held(expired, u, x) = Held(Rows0, u, x)
    BY <1>3 DEF Accounted
  <2>2. Held(rows, u, x) = Held(rows', u, x) + Held(Q, u, x)
    BY <1>6
  <2>3. Held(shot', u, x) = Held(shot, u, x) + Held(Q, u, x)
    BY <1>7
  <2>4. /\ Held(rows', u, x) \in Nat /\ Held(Q, u, x) \in Nat /\ Held(shot, u, x) \in Nat
        /\ Held(expired, u, x) \in Nat
    BY <1>3, <1>6, HeldNat
  <2> QED
    BY <1>2, <2>1, <2>2, <2>3, <2>4
<1>10. K # {} => missions[m].type \in {"EXPLORE", "DEPLOY"}
  BY <1>1, <1>2, TakenParts
<1>11. DOMAIN taker = DOMAIN shot
  BY <1>3 DEF ShotAreOver
<1>12. /\ DOMAIN taker' = DOMAIN shot'
       /\ \A i \in DOMAIN shot : taker'[i] = taker[i]
       /\ \A i \in K : taker'[i] = TakerOf(taken, i)
  <2>1. PICK G : G = [i \in K |-> TakerOf(taken, i)]
    OBVIOUS
  <2>2. taker' = With(taker, G) /\ DOMAIN G = K /\ \A i \in K : G[i] = TakerOf(taken, i)
    BY <1>2, <2>1
  <2>3. DOMAIN taker' = DOMAIN shot'
    <3>1. DOMAIN With(taker, G) = DOMAIN taker \cup DOMAIN G
      BY WithDomain
    <3> QED
      BY <1>7, <1>11, <2>2, <3>1
  <2>4. \A i \in DOMAIN shot : taker'[i] = taker[i]
    BY <1>11, <2>2, WithLeft
  <2>5. \A i \in K : taker'[i] = TakerOf(taken, i)
    BY <1>7, <1>11, <2>2, WithRight
  <2> QED
    BY <2>3, <2>4, <2>5
<1>13. ShotAreOver'
  <2>1. ASSUME NEW i \in DOMAIN shot'
        PROVE  /\ shot'[i].mission \in DOMAIN missions' /\ missions'[shot'[i].mission].resolved
               /\ missions'[shot'[i].mission].type \in {"EXPLORE", "DEPLOY"}
    <3>1. CASE i \in DOMAIN shot
      BY <1>3, <1>7, <3>1 DEF ShotAreOver
    <3>2. CASE i \in K
      BY <1>4, <1>7, <1>10, <3>2
    <3> QED
      BY <1>7, <3>1, <3>2
  <2>2. ASSUME NEW r \in reports' PROVE \E i \in DOMAIN shot' : shot'[i].mission = r.mission
    <3>1. CASE r \in reports
      BY <1>3, <1>7, <3>1 DEF ShotAreOver
    <3>2. CASE r \in InterceptionReports(m, taken)
      <4>1. r.mission = m /\ K # {}
        BY <1>1, <3>2, ReportsOfTaken
      <4> QED
        BY <1>4, <1>7, <4>1
    <3> QED
      BY <1>2, <3>1, <3>2
  <2> QED
    BY <1>12, <2>1, <2>2 DEF ShotAreOver
<1>14. \A i \in DOMAIN shot : shot[i].mission # m
  BY <1>2, <1>3 DEF ShotAreOver
<1>15. \A r \in reports : r.mission # m
  BY <1>3, <1>14 DEF ShotAreOver
<1>16. \A u, k : k # m => Lost(shot', taker', u, k) = Lost(shot, taker, u, k)
  BY <1>4, <1>7, <1>12 DEF Lost
<1>17. \A u : Lost(shot', taker', u, m) = {i \in K : TakerOf(taken, i) = u}
  BY <1>4, <1>7, <1>12, <1>14 DEF Lost
<1>18. ASSUME NEW r \in reports', NEW u \in DOMAIN r.info
       PROVE  r.info[u] = Cardinality(Lost(shot', taker', u, r.mission))
  <2>1. CASE r \in reports
    <3>1. r.info[u] = Cardinality(Lost(shot, taker, u, r.mission))
      BY <1>3, <2>1 DEF Told
    <3> QED
      BY <1>15, <1>16, <2>1, <3>1
  <2>2. CASE r \in InterceptionReports(m, taken)
    <3>1. /\ r.mission = m
          /\ \A v \in DOMAIN r.info :
                r.info[v] = Cardinality({i \in Shot(taken) : TakerOf(taken, i) = v})
      BY <1>1, <2>2, ReportsOfTaken
    <3>2. r.info[u] = Cardinality({i \in K : TakerOf(taken, i) = u})
      BY <1>1, <3>1
    <3> QED
      BY <1>17, <3>1, <3>2
  <2> QED
    BY <1>2, <2>1, <2>2
<1>19. ASSUME NEW i \in DOMAIN shot', NEW k, k = shot'[i].mission, NEW about,
              about = {r \in reports' : r.mission = k /\ taker'[i] \in DOMAIN r.info}
       PROVE  \/ missions'[k].type = "DEPLOY" /\ about = {}
              \/ Tells(about, shot'[i].user, taker'[i])
  <2>1. CASE i \in DOMAIN shot
    <3>1. shot'[i] = shot[i] /\ taker'[i] = taker[i] /\ k = shot[i].mission /\ k # m
      BY <1>7, <1>12, <1>14, <1>19, <2>1
    <3>2. about = {r \in reports : r.mission = k /\ taker[i] \in DOMAIN r.info}
      <4>1. \A r \in InterceptionReports(m, taken) : r.mission # k
        BY <1>1, <3>1, ReportsOfTaken
      <4> QED
        BY <1>2, <1>19, <3>1, <4>1
    <3>3. missions'[k].type = missions[k].type
      BY <1>3, <2>1, <3>1 DEF ShotAreOver
    <3>4. \/ missions[k].type = "DEPLOY" /\ about = {}
          \/ Tells(about, shot[i].user, taker[i])
      BY <1>3, <2>1, <3>1, <3>2 DEF Told
    <3> QED
      BY <3>1, <3>3, <3>4
  <2>2. CASE i \in K
    <3>1. shot'[i] = rows[i] /\ k = m /\ taker'[i] = TakerOf(taken, i)
      BY <1>4, <1>7, <1>12, <1>19, <2>2
    <3>2. CASE reports' = reports \cup InterceptionReports(m, taken)
      <4>1. about = {r \in InterceptionReports(m, taken) : TakerOf(taken, i) \in DOMAIN r.info}
        <5>1. \A r \in InterceptionReports(m, taken) : r.mission = m
          BY <1>1, ReportsOfTaken
        <5> QED
          BY <1>15, <1>19, <3>1, <3>2, <5>1
      <4>2. Tells(about, rows[i].user, TakerOf(taken, i))
        BY <1>1, <2>2, <4>1, ReportsTell
      <4> QED
        BY <3>1, <4>2
    <3>3. CASE reports' = reports /\ missions[m].type \in {"DEPLOY", "RETURN_MISSION"}
      <4>1. missions'[m].type = "DEPLOY"
        BY <1>10, <2>2, <3>3
      <4>2. about = {}
        BY <1>15, <1>19, <3>1, <3>3
      <4> QED
        BY <3>1, <4>1, <4>2
    <3> QED
      BY <1>2, <3>2, <3>3
  <2> QED
    BY <1>7, <2>1, <2>2
<1>20. Told(reports, shot, taker, missions)'
  BY <1>18, <1>19 DEF Told
<1> QED
  BY <1>2, <1>8, <1>9, <1>13, <1>20 DEF IndInv

(* The units land, one stack after the other.                              *)
LEMMA LandingKeeps ==
    ASSUME IndInv, NEW m \in DOMAIN missions, Arrive(m),
           NEW K, K = Shot(TakenFrom(m)),
           NEW T, T = [rows |-> Without(rows, K),
                       missions |-> [missions EXCEPT ![m].resolved = TRUE], ids |-> ids],
           NEW p \in Planet, Becomes(Moved(T, m, p))
    PROVE  IndInv'
<1>1. PICK S : S = Moved(T, m, p)
  OBVIOUS
<1>2. rows' = S.rows /\ missions' = S.missions /\ ids' = S.ids
  BY <1>1 DEF Becomes
<1>3. missions[m].type # "DEPLOYED"
  BY DEF Arrive
<1>4. /\ Landing(ids, m, T) /\ Carried(T.rows, DOMAIN expired)
      /\ DOMAIN T.rows = DOMAIN rows \ K /\ (\A i \in DOMAIN T.rows : T.rows[i] = rows[i])
      /\ DOMAIN T.missions = DOMAIN missions
      /\ \A k \in DOMAIN missions \ {m} : T.missions[k] = missions[k]
      /\ T.missions[m] = [missions[m] EXCEPT !.resolved = TRUE]
  BY <1>3, LeftLands
<1>5. T.rows = Without(rows, K) /\ T.ids = ids /\ T = [rows |-> T.rows, missions |-> T.missions, ids |-> T.ids]
  OBVIOUS
<1>6. Moving(T, m, ids, S)
  BY ONLY <1>1, <1>4, <1>5, p \in Planet, MovedParts
<1>7. ids \in Nat /\ \A k \in DOMAIN missions : missions[k] \in MissionRow /\ k \in Nat /\ k # None
  BY MissionTableParts, StartAssumption DEF IndInv, Typed
<1>8. /\ S.ids \in Nat /\ ids <= S.ids /\ S.rows \in Tables(ids) /\ S.missions \in MissionTables(S.ids)
      /\ m \in DOMAIN S.missions /\ ~Marks(S.missions, m)
      /\ OnMissions(S.rows, S.missions, m) /\ MarkersHold(S.rows, S.missions)
      /\ MarkersDiffer(S.missions)
  BY <1>5, <1>6 DEF Moving, Landing, Marks
<1>9. /\ DOMAIN S.rows \subseteq DOMAIN T.rows
      /\ \A i \in DOMAIN T.rows :
            T.rows[i].mission # m => i \in DOMAIN S.rows /\ Alike(S.rows[i], T.rows[i])
      /\ \A u, x : Held(S.rows, u, x) = Held(T.rows, u, x)
      /\ DOMAIN T.missions \subseteq DOMAIN S.missions
      /\ \A k \in DOMAIN T.missions : S.missions[k] = T.missions[k]
      /\ \A k \in DOMAIN S.missions \ DOMAIN T.missions : S.missions[k].type = "DEPLOYED"
  BY <1>6 DEF Moving
<1>10. \A i \in DOMAIN S.rows : T.rows[i].mission = m => AtRest(S.rows, S.missions, i)
  <2>1. \A i \in DOMAIN S.rows : i <= ids
    BY <1>7, <1>8, TableParts
  <2> QED
    BY <1>6, <2>1 DEF Moving
<1>11. \A i \in DOMAIN S.rows : S.rows[i].mission # m
  <2> SUFFICES ASSUME NEW i \in DOMAIN S.rows, S.rows[i].mission = m PROVE FALSE
    OBVIOUS
  <2>1. CASE T.rows[i].mission = m
    BY <1>7, <1>8, <1>10, <2>1 DEF AtRest
  <2>2. CASE T.rows[i].mission # m
    BY <1>9, <2>2 DEF Alike
  <2> QED
    BY <2>1, <2>2
<1>12. OnMissions(S.rows, S.missions, None)
  BY <1>8, <1>11 DEF OnMissions
<1>13. Carried(S.rows, DOMAIN expired)
  <2> SUFFICES ASSUME NEW i \in DOMAIN S.rows, NEW c, c = S.rows[i].carrier, c # None,
                      c \notin DOMAIN expired
               PROVE  c \in DOMAIN S.rows /\ S.rows[c].mission = S.rows[i].mission
                      /\ S.rows[c].carrier = None
    BY DEF Carried
  <2>1. T.rows[i].mission # m
    BY <1>8, <1>10 DEF OnMissions
  <2>2. i \in DOMAIN T.rows /\ T.rows[i].carrier = c /\ T.rows[i].mission = S.rows[i].mission
    BY <1>9, <2>1 DEF Alike
  <2>3. c \in DOMAIN T.rows /\ T.rows[c].mission = T.rows[i].mission /\ T.rows[c].carrier = None
    BY <1>4, <2>2 DEF Carried
  <2> QED
    BY <1>9, <2>1, <2>2, <2>3 DEF Alike
<1>14. \A k \in DOMAIN missions : k \in DOMAIN S.missions /\ (k # m => S.missions[k] = missions[k])
  BY <1>4, <1>9
<1>15. S.missions[m].resolved /\ S.missions[m].type = missions[m].type
  <2>1. S.missions[m] = [missions[m] EXCEPT !.resolved = TRUE]
    BY <1>4, <1>9
  <2> QED
    BY <1>7, <2>1 DEF MissionRow
<1>16. ~Outruns(S.rows, S.missions)
  <2> SUFFICES ASSUME NEW i \in DOMAIN S.rows, NEW k, k = S.rows[i].mission,
                      k \in DOMAIN S.missions, ~S.missions[k].resolved, S.missions[k].type # "DEPLOYED",
                      ~S.missions[k].boosted,
                      Speed[S.rows[i].unit] > 0, UnitGroup[S.rows[i].unit] \notin FixedGroup,
                      S.missions[k].time < Alone(S.missions, k, S.rows[i].unit)
               PROVE  FALSE
    BY DEF Outruns
  <2>1. k \in DOMAIN missions /\ k # m /\ S.missions[k] = missions[k]
    BY <1>4, <1>9, <1>14, <1>15
  <2>2. T.rows[i].mission # m
    BY <1>7, <1>10, <2>1 DEF AtRest, Marks
  <2>3. i \in DOMAIN rows /\ rows[i].mission = k /\ rows[i].unit = S.rows[i].unit
    BY <1>4, <1>9, <2>2 DEF Alike
  <2>4. Alone(S.missions, k, S.rows[i].unit) = Alone(missions, k, rows[i].unit)
    BY <2>1, <2>3 DEF Alone
  <2> QED
    BY <2>1, <2>3, <2>4 DEF IndInv, Outruns
<1>17. S.rows \in Tables(S.ids)
  BY <1>7, <1>8, TableGrows
<1>18. DOMAIN S.rows \subseteq DOMAIN rows \ K
  BY <1>4, <1>9
<1>19. \A u, x : Held(S.rows, u, x) = Held(Without(rows, K), u, x)
  BY <1>5, <1>9
<1>20. \A k \in DOMAIN missions :
          /\ k \in DOMAIN S.missions /\ S.missions[k].type = missions[k].type
          /\ missions[k].resolved => S.missions[k].resolved
  BY <1>14, <1>15
<1> QED
  BY <1>2, <1>8, <1>12, <1>13, <1>15, <1>16, <1>17, <1>18, <1>19, <1>20, ArriveKeepsIf

(* All were taken.                                                         *)
LEMMA StoppedKeeps ==
    ASSUME IndInv, NEW m \in DOMAIN missions, Arrive(m),
           NEW K, K = Shot(TakenFrom(m)), K = Aboard(m),
           NEW T, T = [rows |-> Without(rows, K),
                       missions |-> [missions EXCEPT ![m].resolved = TRUE], ids |-> ids],
           Becomes(T)
    PROVE  IndInv'
<1>1. T.ids = ids /\ T.rows = Without(rows, K)
  OBVIOUS
<1>2. rows' = T.rows /\ missions' = T.missions /\ ids' = ids
  BY <1>1 DEF Becomes
<1>3. missions[m].type # "DEPLOYED"
  BY DEF Arrive
<1>4. /\ Landing(ids, m, T) /\ Carried(T.rows, DOMAIN expired)
      /\ DOMAIN T.rows = DOMAIN rows \ K /\ (\A i \in DOMAIN T.rows : T.rows[i] = rows[i])
      /\ DOMAIN T.missions = DOMAIN missions
      /\ \A k \in DOMAIN missions \ {m} : T.missions[k] = missions[k]
      /\ T.missions[m] = [missions[m] EXCEPT !.resolved = TRUE]
  BY ONLY <1>3, IndInv, m \in DOMAIN missions, K = Shot(TakenFrom(m)), LeftLands,
          T = [rows |-> Without(rows, K), missions |-> [missions EXCEPT ![m].resolved = TRUE], ids |-> ids]
<1>5. /\ T.rows \in Tables(ids) /\ T.missions \in MissionTables(ids) /\ ids \in Nat /\ ids <= ids
      /\ OnMissions(T.rows, T.missions, m) /\ MarkersHold(T.rows, T.missions)
      /\ MarkersDiffer(T.missions)
  BY <1>1, <1>4 DEF Landing
<1>6. \A i \in DOMAIN T.rows : T.rows[i].mission # m
  BY <1>4 DEF Aboard
<1>7. OnMissions(T.rows, T.missions, None)
  BY <1>5, <1>6 DEF OnMissions
<1>8. T.missions[m].resolved /\ T.missions[m].type = missions[m].type
  <2>1. missions[m] \in MissionRow
    BY MissionTableParts DEF IndInv, Typed
  <2> QED
    BY <1>4, <2>1 DEF MissionRow
<1>9. ~Outruns(T.rows, T.missions)
  <2> SUFFICES ASSUME NEW i \in DOMAIN T.rows, NEW k, k = T.rows[i].mission,
                      k \in DOMAIN T.missions, ~T.missions[k].resolved, T.missions[k].type # "DEPLOYED",
                      ~T.missions[k].boosted,
                      Speed[T.rows[i].unit] > 0, UnitGroup[T.rows[i].unit] \notin FixedGroup,
                      T.missions[k].time < Alone(T.missions, k, T.rows[i].unit)
               PROVE  FALSE
    BY DEF Outruns
  <2>1. k # m /\ T.missions[k] = missions[k] /\ i \in DOMAIN rows /\ T.rows[i] = rows[i]
    BY <1>4, <1>6
  <2>2. Alone(T.missions, k, T.rows[i].unit) = Alone(missions, k, rows[i].unit)
    BY <2>1 DEF Alone
  <2> QED
    BY <1>4, <2>1, <2>2 DEF IndInv, Outruns
<1>10. \A k \in DOMAIN missions :
          /\ k \in DOMAIN T.missions /\ T.missions[k].type = missions[k].type
          /\ missions[k].resolved => T.missions[k].resolved
  BY <1>4, <1>8
<1>11. \A u, x : Held(T.rows, u, x) = Held(Without(rows, K), u, x)
  BY <1>1
<1> QED
  BY <1>2, <1>4, <1>5, <1>7, <1>8, <1>9, <1>10, <1>11, ArriveKeepsIf

(* Those left turn back.                                                   *)
LEMMA ExploreKeeps ==
    ASSUME IndInv, NEW m \in DOMAIN missions, Arrive(m), missions[m].type = "EXPLORE",
           NEW K, K = Shot(TakenFrom(m)),
           NEW T, T = [rows |-> Without(rows, K),
                       missions |-> [missions EXCEPT ![m].resolved = TRUE], ids |-> ids],
           Explore(T, m)
    PROVE  IndInv'
<1> DEFINE back == ids + 1
           gone == {i \in DOMAIN T.rows : T.rows[i].mission = m}
           R == [i \in DOMAIN T.rows |-> IF i \in gone THEN [T.rows[i] EXCEPT !.mission = back]
                                         ELSE T.rows[i]]
           new == [missions[m] EXCEPT !.type = "RETURN_MISSION", !.resolved = FALSE]
           M == Put(T.missions, back, new)
<1>1. rows' = R /\ missions' = M /\ ids' = back
  <2>1. T.ids = ids
    OBVIOUS
  <2> QED
    BY <2>1 DEF Explore, Becomes
<1>2. back = ids + 1 /\ M = Put(T.missions, back, new)
  OBVIOUS
<1>3. \A i \in DOMAIN T.rows : i \in gone <=> T.rows[i].mission = m
  OBVIOUS
<1>4. DOMAIN R = DOMAIN T.rows /\ R = [i \in DOMAIN R |-> R[i]]
  OBVIOUS
<1>5. \A i \in DOMAIN T.rows : R[i] = IF i \in gone THEN [T.rows[i] EXCEPT !.mission = back] ELSE T.rows[i]
  OBVIOUS
<1>6. new = [missions[m] EXCEPT !.type = "RETURN_MISSION", !.resolved = FALSE]
  OBVIOUS
<1> HIDE DEF back, gone, R, new, M
<1>7. /\ Landing(ids, m, T) /\ Carried(T.rows, DOMAIN expired)
      /\ DOMAIN T.rows = DOMAIN rows \ K /\ (\A i \in DOMAIN T.rows : T.rows[i] = rows[i])
      /\ DOMAIN T.missions = DOMAIN missions
      /\ \A k \in DOMAIN missions \ {m} : T.missions[k] = missions[k]
      /\ T.missions[m] = [missions[m] EXCEPT !.resolved = TRUE]
  <2>1. missions[m].type # "DEPLOYED"
    OBVIOUS
  <2> QED
    BY ONLY <2>1, IndInv, m \in DOMAIN missions, K = Shot(TakenFrom(m)), LeftLands,
            T = [rows |-> Without(rows, K), missions |-> [missions EXCEPT ![m].resolved = TRUE], ids |-> ids]
<1>8. T.ids = ids /\ T.rows = Without(rows, K)
  OBVIOUS
<1>9. /\ T.rows \in Tables(ids) /\ T.missions \in MissionTables(ids) /\ ids \in Nat
      /\ OnMissions(T.rows, T.missions, m) /\ MarkersHold(T.rows, T.missions)
      /\ MarkersDiffer(T.missions)
  BY <1>7, <1>8 DEF Landing
<1>10. back \in Nat /\ ids <= back /\ back \in 1 .. back
  BY <1>2, <1>9
<1>11. /\ DOMAIN missions \subseteq 1 .. ids /\ back \notin DOMAIN missions /\ back # None /\ m # None
       /\ missions[m] \in MissionRow /\ m # back
  <2>1. /\ DOMAIN missions \subseteq 1 .. ids
        /\ \A k \in DOMAIN missions : missions[k] \in MissionRow /\ k \in Nat
    BY MissionTableParts DEF IndInv, Typed
  <2>2. back \notin DOMAIN missions
    BY <1>2, <1>9, <2>1
  <2> QED
    BY <1>10, <2>1, <2>2, StartAssumption
<1>12. /\ new \in MissionRow /\ new.user = missions[m].user /\ new.type = "RETURN_MISSION"
       /\ new.source = missions[m].source /\ new.target = missions[m].target
       /\ new.time = missions[m].time /\ new.boosted = missions[m].boosted /\ new.resolved = FALSE
  <2>1. PICK r : r = [missions[m] EXCEPT !.type = "RETURN_MISSION"]
    OBVIOUS
  <2>2. /\ r \in MissionRow /\ r.user = missions[m].user /\ r.type = "RETURN_MISSION"
        /\ r.source = missions[m].source /\ r.target = missions[m].target
        /\ r.time = missions[m].time /\ r.boosted = missions[m].boosted
    BY <1>11, <2>1 DEF MissionRow
  <2>3. new = [r EXCEPT !.resolved = FALSE]
    BY ONLY <1>6, <2>1
  <2> QED
    BY <2>2, <2>3 DEF MissionRow
(* The missions. *)
<1>13. M \in MissionTables(back)
  <2>1. T.missions \in MissionTables(back)
    BY <1>9, <1>10, MissionTableGrows
  <2>2. back \notin DOMAIN T.missions
    BY <1>7, <1>11
  <2> QED
    BY ONLY <1>2, <1>10, <1>12, <2>1, <2>2, PutMission
<1>14. DOMAIN M = DOMAIN missions \cup {back}
  <2>1. DOMAIN M = DOMAIN T.missions \cup {back}
    BY ZenonT(60), <1>2, PutDomain
  <2> QED
    BY <1>7, <2>1
<1>15. M[back] = new
  <2>1. back \notin DOMAIN T.missions
    BY <1>7, <1>11
  <2> QED
    BY ONLY <1>2, <2>1, PutNew
<1>16. \A k \in DOMAIN missions : M[k] = T.missions[k]
  <2>1. DOMAIN T.missions = DOMAIN missions
    BY <1>7
  <2>2. PICK W : W = T.missions
    OBVIOUS
  <2>3. \A k \in DOMAIN W : M[k] = W[k]
    BY ONLY <1>2, <2>2, PutOld
  <2> QED
    BY ONLY <2>1, <2>2, <2>3
<1>17. \A k \in DOMAIN missions \ {m} : M[k] = missions[k]
  BY <1>7, <1>16
<1>18. M[m].resolved /\ M[m].type = missions[m].type /\ M[m] = T.missions[m]
  BY <1>7, <1>11, <1>16 DEF MissionRow
<1>19. \A k : Marks(M, k) <=> Marks(T.missions, k)
  BY <1>7, <1>11, <1>12, <1>14, <1>15, <1>16 DEF Marks
<1>20. ~Marks(T.missions, m) /\ ~Marks(T.missions, back)
  BY <1>7, <1>11, <1>18 DEF Marks
(* The rows. *)
<1>21. \A i \in DOMAIN T.rows :
          /\ R[i] \in Row /\ R[i].user = T.rows[i].user /\ R[i].unit = T.rows[i].unit
          /\ R[i].count = T.rows[i].count /\ R[i].carrier = T.rows[i].carrier
          /\ R[i].mission = IF T.rows[i].mission = m THEN back ELSE T.rows[i].mission
  <2> TAKE i \in DOMAIN T.rows
  <2>1. T.rows[i] \in Row
    BY <1>9, TableParts
  <2>2. CASE i \in gone
    <3>1. R[i] = [T.rows[i] EXCEPT !.mission = back] /\ T.rows[i].mission = m
      BY <1>3, <1>5, <2>2
    <3> QED
      BY <1>10, <2>1, <3>1 DEF Row
  <2>3. CASE i \notin gone
    <3>1. R[i] = T.rows[i] /\ T.rows[i].mission # m
      BY <1>3, <1>5, <2>3
    <3> QED
      BY <2>1, <3>1
  <2> QED
    BY <2>2, <2>3
<1>22. R \in Tables(ids) /\ R \in Tables(back)
  <2>1. DOMAIN R \subseteq 1 .. ids /\ \A i \in DOMAIN R : R[i] \in Row
    BY <1>4, <1>9, <1>21, TableParts
  <2>2. R \in Tables(ids)
    BY ONLY <1>4, <1>9, <2>1, IsTableOf
  <2> QED
    BY <1>9, <1>10, <2>2, TableGrows
<1>23. \A u, x : Held(R, u, x) = Held(Without(rows, K), u, x)
  <2> TAKE u, x
  <2>1. \A i \in DOMAIN T.rows : ShareOf(R[i], u, x) = ShareOf(T.rows[i], u, x)
    BY <1>21 DEF ShareOf
  <2>2. Held(R, u, x) = Held(T.rows, u, x)
    BY <1>4, <1>9, <1>22, <2>1, HeldSame
  <2> QED
    BY <1>8, <2>2
<1>24. OnMissions(R, M, None)
  <2> SUFFICES ASSUME NEW i \in DOMAIN R
               PROVE  /\ R[i].mission # None =>
                            /\ R[i].mission \in DOMAIN M /\ M[R[i].mission].user = R[i].user
                            /\ R[i].mission # None =>
                                  Marks(M, R[i].mission) \/ ~M[R[i].mission].resolved
                      /\ AtRest(R, M, i) => R[i].carrier = None
    BY DEF OnMissions
  <2>1. /\ T.rows[i].mission # None =>
              /\ T.rows[i].mission \in DOMAIN T.missions
              /\ T.missions[T.rows[i].mission].user = T.rows[i].user
              /\ T.rows[i].mission # m =>
                    Marks(T.missions, T.rows[i].mission) \/ ~T.missions[T.rows[i].mission].resolved
        /\ AtRest(T.rows, T.missions, i) => T.rows[i].carrier = None
    BY <1>4, <1>9 DEF OnMissions
  <2>2. CASE T.rows[i].mission = m
    <3>1. R[i].mission = back /\ R[i].user = T.rows[i].user
      BY <1>4, <1>21, <2>2
    <3>2. ~AtRest(R, M, i)
      BY <1>11, <1>19, <1>20, <3>1 DEF AtRest
    <3>3. T.missions[m].user = T.rows[i].user
      BY <1>11, <2>1, <2>2
    <3>4. T.missions[m].user = missions[m].user
      BY <1>7, <1>11 DEF MissionRow
    <3> QED
      BY <1>12, <1>14, <1>15, <3>1, <3>2, <3>3, <3>4
  <2>3. CASE T.rows[i].mission # m
    <3>1. R[i].mission = T.rows[i].mission /\ R[i].user = T.rows[i].user /\ R[i].carrier = T.rows[i].carrier
      BY <1>4, <1>21, <2>3
    <3>2. AtRest(R, M, i) <=> AtRest(T.rows, T.missions, i)
      BY <1>19, <3>1 DEF AtRest
    <3> QED
      BY <1>7, <1>14, <1>16, <1>19, <2>1, <2>3, <3>1, <3>2
  <2> QED
    BY <2>2, <2>3
<1>25. Carried(R, DOMAIN expired)
  <2> SUFFICES ASSUME NEW i \in DOMAIN R, NEW c, c = R[i].carrier, c # None, c \notin DOMAIN expired
               PROVE  c \in DOMAIN R /\ R[c].mission = R[i].mission /\ R[c].carrier = None
    BY DEF Carried
  <2>1. i \in DOMAIN T.rows /\ T.rows[i].carrier = c
    BY <1>4, <1>21
  <2>2. c \in DOMAIN T.rows /\ T.rows[c].mission = T.rows[i].mission /\ T.rows[c].carrier = None
    BY <1>7, <2>1 DEF Carried
  <2> QED
    BY <1>4, <1>21, <2>1, <2>2
<1>26. MarkersHold(R, M)
  <2> SUFFICES ASSUME NEW k \in DOMAIN M, Marks(M, k)
               PROVE  ~M[k].resolved <=> \E i \in DOMAIN R : R[i].mission = k
    BY DEF MarkersHold
  <2>1. k \in DOMAIN T.missions /\ Marks(T.missions, k) /\ k # m /\ k # back /\ M[k] = T.missions[k]
    BY <1>7, <1>14, <1>16, <1>19, <1>20
  <2>2. ~T.missions[k].resolved <=> \E i \in DOMAIN T.rows : T.rows[i].mission = k
    BY <1>9, <2>1 DEF MarkersHold
  <2>3. \A i \in DOMAIN T.rows : R[i].mission = k <=> T.rows[i].mission = k
    BY <1>21, <2>1
  <2> QED
    BY <1>4, <2>1, <2>2, <2>3
<1>27. MarkersDiffer(M)
  <2>1. \A k \in DOMAIN M : Marks(M, k) =>
           k \in DOMAIN T.missions /\ Marks(T.missions, k) /\ M[k] = T.missions[k]
    BY <1>7, <1>14, <1>16, <1>19, <1>20
  <2> QED
    BY ZenonT(60), <1>9, <2>1 DEF MarkersDiffer
<1>28. ~Outruns(R, M)
  <2> SUFFICES ASSUME NEW i \in DOMAIN R, NEW k, k = R[i].mission,
                      k \in DOMAIN M, ~M[k].resolved, M[k].type # "DEPLOYED",
                      ~M[k].boosted,
                      Speed[R[i].unit] > 0, UnitGroup[R[i].unit] \notin FixedGroup,
                      M[k].time < Alone(M, k, R[i].unit)
               PROVE  FALSE
    BY DEF Outruns
  <2>1. i \in DOMAIN rows /\ T.rows[i] = rows[i] /\ R[i].unit = rows[i].unit
    BY <1>4, <1>7, <1>21
  <2>2. CASE rows[i].mission = m
    <3>1. k = back /\ M[k] = new
      BY <1>4, <1>15, <1>21, <2>1, <2>2
    <3>2. Alone(M, k, R[i].unit) = Alone(missions, m, rows[i].unit)
      BY <1>12, <2>1, <3>1 DEF Alone
    <3>3. ~missions[m].resolved
      BY DEF Arrive
    <3>4. missions[m].time < Alone(missions, m, rows[i].unit) /\ ~missions[m].boosted
      BY <1>12, <3>1, <3>2
    <3> QED
      BY <2>1, <2>2, <3>3, <3>4 DEF IndInv, Outruns
  <2>3. CASE rows[i].mission # m
    <3>1. k = rows[i].mission /\ k # m
      BY <1>4, <1>21, <2>1, <2>3
    <3>2. k # back
      <4>1. rows[i].mission # None => rows[i].mission \in DOMAIN missions
        BY <2>1 DEF IndInv, OnMissions
      <4> QED
        BY <1>11, <3>1, <4>1
    <3>3. k \in DOMAIN missions /\ M[k] = missions[k]
      BY <1>14, <1>17, <3>1, <3>2
    <3>4. Alone(M, k, R[i].unit) = Alone(missions, k, rows[i].unit)
      BY <2>1, <3>3 DEF Alone
    <3> QED
      BY <2>1, <3>1, <3>3, <3>4 DEF IndInv, Outruns
  <2> QED
    BY <2>2, <2>3
<1>29. \A k \in DOMAIN missions :
          /\ k \in DOMAIN M /\ M[k].type = missions[k].type
          /\ missions[k].resolved => M[k].resolved
  BY <1>14, <1>17, <1>18
<1>30. DOMAIN R \subseteq DOMAIN rows \ K
  BY <1>4, <1>7
<1> QED
  BY <1>1, <1>10, <1>13, <1>18, <1>22, <1>23, <1>24, <1>25, <1>26, <1>27, <1>28, <1>29, <1>30,
     ArriveKeepsIf

(* A fleet that arrives.                                                   *)
LEMMA ArriveKeeps ==
    ASSUME IndInv, NEW m \in DOMAIN missions, Arrive(m)
    PROVE  IndInv'
<1>1. PICK taken : taken = TakenFrom(m)
  OBVIOUS
<1>2. PICK K : K = Shot(TakenFrom(m))
  OBVIOUS
<1>3. PICK T : T = [rows |-> Without(rows, K),
                    missions |-> [missions EXCEPT ![m].resolved = TRUE], ids |-> ids]
  OBVIOUS
<1>4. \/ Cardinality(taken) = Cardinality(Aboard(m)) /\ Becomes(T)
      \/ missions[m].type = "EXPLORE" /\ Explore(T, m)
      \/ Deploy(T, m)
      \/ ReturnMission(T, m)
  BY <1>1, <1>2, <1>3 DEF Arrive
<1>5. missions[m].source \in Planet /\ missions[m].target \in Planet
  <2>1. missions[m] \in MissionRow
    BY MissionTableParts DEF IndInv, Typed
  <2> QED
    BY <2>1 DEF MissionRow
<1>6. CASE Cardinality(taken) = Cardinality(Aboard(m)) /\ Becomes(T)
  <2>1. K = Aboard(m)
    BY <1>1, <1>2, <1>6, TakenParts
  <2> QED
    BY <1>2, <1>3, <1>6, <2>1, StoppedKeeps
<1>7. CASE missions[m].type = "EXPLORE" /\ Explore(T, m)
  BY <1>2, <1>3, <1>7, ExploreKeeps
<1>8. CASE Deploy(T, m)
  BY <1>2, <1>3, <1>5, <1>8, LandingKeeps DEF Deploy
<1>9. CASE ReturnMission(T, m)
  BY <1>2, <1>3, <1>5, <1>9, LandingKeeps DEF ReturnMission
<1> QED
  BY <1>4, <1>6, <1>7, <1>8, <1>9

------------------------------------------------------------------------------
(* What happens meanwhile.                                                 *)

(* What changes no table keeps the invariant.                              *)
LEMMA SameTables ==
    ASSUME IndInv, UNCHANGED <<rows, missions, ids, reports, shot, taker, expired>>
    PROVE  IndInv'
<1>1. /\ rows' = rows /\ missions' = missions /\ ids' = ids /\ reports' = reports /\ shot' = shot
      /\ taker' = taker /\ expired' = expired
  OBVIOUS
<1>2. Typed' <=> Typed
  BY <1>1 DEF Typed
<1>3. Accounted' <=> Accounted
  BY <1>1 DEF Accounted
<1>4. ShotAreOver' <=> ShotAreOver
  BY <1>1 DEF ShotAreOver
<1>5. Told(reports, shot, taker, missions)' <=> Told(reports, shot, taker, missions)
  BY <1>1
<1> QED
  BY <1>1, <1>2, <1>3, <1>4, <1>5 DEF IndInv

(* A conquest that can be seen.                                            *)
LEMMA AgeKeeps ==
    ASSUME IndInv, NEW m \in DOMAIN missions, Age(m)
    PROVE  IndInv'
<1>1. PICK r : r = [missions[m] EXCEPT !.aged = TRUE]
  OBVIOUS
<1>2. PICK M : M = [missions EXCEPT ![m] = r]
  OBVIOUS
<1>3. /\ missions' = M /\ rows' = rows /\ ids' = ids /\ reports' = reports /\ shot' = shot
      /\ taker' = taker /\ expired' = expired
  BY <1>1, <1>2 DEF Age
<1>4. /\ missions = [k \in DOMAIN missions |-> missions[k]] /\ DOMAIN missions \subseteq 1 .. ids
      /\ \A k \in DOMAIN missions : missions[k] \in MissionRow
      /\ ids \in Nat
  BY MissionTableParts DEF IndInv, Typed
<1>5. /\ r \in MissionRow /\ r.user = missions[m].user /\ r.type = missions[m].type
      /\ r.source = missions[m].source /\ r.target = missions[m].target /\ r.time = missions[m].time
      /\ r.boosted = missions[m].boosted /\ r.resolved = missions[m].resolved
  BY <1>1, <1>4 DEF MissionRow
<1>6. DOMAIN M = DOMAIN missions /\ M[m] = r /\ \A k \in DOMAIN missions \ {m} : M[k] = missions[k]
  BY <1>2, <1>4
<1>7. \A k \in DOMAIN missions :
         /\ M[k] \in MissionRow /\ M[k].user = missions[k].user /\ M[k].type = missions[k].type
         /\ M[k].source = missions[k].source /\ M[k].target = missions[k].target
         /\ M[k].time = missions[k].time /\ M[k].boosted = missions[k].boosted
         /\ M[k].resolved = missions[k].resolved
  BY <1>4, <1>5, <1>6
<1>8. M \in MissionTables(ids)
  <2>1. M = [k \in DOMAIN M |-> M[k]]
    BY <1>2, <1>4, <1>6
  <2>2. DOMAIN M \subseteq 1 .. ids /\ \A k \in DOMAIN M : M[k] \in MissionRow
    BY <1>4, <1>6, <1>7
  <2> QED
    BY <1>4, <2>1, <2>2, IsMissionTable
<1>9. \A k : Marks(M, k) <=> Marks(missions, k)
  BY <1>6, <1>7 DEF Marks
<1>10. Typed'
  BY <1>3, <1>8 DEF IndInv, Typed
<1>11. OnMissions(rows, M, None)
  <2>1. OnMissions(rows, missions, None)
    BY DEF IndInv
  <2>2. \A i \in DOMAIN rows : AtRest(rows, M, i) <=> AtRest(rows, missions, i)
    BY <1>9 DEF AtRest
  <2> QED
    BY <1>6, <1>7, <1>9, <2>1, <2>2 DEF OnMissions
<1>12. MarkersHold(rows, M)
  BY <1>6, <1>7, <1>9 DEF IndInv, MarkersHold
<1>13. MarkersDiffer(M)
  BY <1>6, <1>7, <1>9 DEF IndInv, MarkersDiffer
<1>14. Accounted'
  BY <1>3 DEF IndInv, Accounted
<1>15. ShotAreOver'
  BY <1>3, <1>6, <1>7 DEF IndInv, ShotAreOver
<1>16. Told(reports, shot, taker, missions)'
  <2>1. \A i \in DOMAIN shot : M[shot[i].mission].type = missions[shot[i].mission].type
    BY <1>7 DEF IndInv, ShotAreOver
  <2> QED
    BY <1>3, <2>1 DEF IndInv, Told
<1>17. ~Outruns(rows, M)
  <2>1. \A k \in DOMAIN missions : \A x : Alone(M, k, x) = Alone(missions, k, x)
    BY <1>7 DEF Alone
  <2> QED
    BY <1>6, <1>7, <2>1 DEF IndInv, Outruns
<1>18. Carried(rows, DOMAIN expired)
  BY DEF IndInv
<1> QED
  BY <1>3, <1>10, <1>11, <1>12, <1>13, <1>14, <1>15, <1>16, <1>17, <1>18 DEF IndInv

(* Temporal units that expire.                                             *)
LEMMA ExpireKeeps ==
    ASSUME IndInv, NEW e \in Expiration, Expire(e)
    PROVE  IndInv'
<1> DEFINE gone == {i \in DOMAIN rows : rows[i].expiration = e}
           left == Without(rows, gone)
           emptied == {m \in {rows[i].mission : i \in gone} \ {None} :
                          \A i \in DOMAIN left : left[i].mission # m}
           Q == [i \in gone |-> rows[i]]
           M == Without(missions, emptied)
<1>1. /\ expired' = With(expired, Q) /\ rows' = left /\ missions' = M /\ ids' = ids
      /\ reports' = reports /\ shot' = shot /\ taker' = taker
  BY DEF Expire
<1>2. gone \subseteq DOMAIN rows /\ left = Without(rows, gone) /\ M = Without(missions, emptied)
  OBVIOUS
<1>3. \A m : m \in emptied <=> /\ m # None /\ \E i \in gone : rows[i].mission = m
                               /\ \A i \in DOMAIN left : left[i].mission # m
  OBVIOUS
<1>4. Q = [i \in gone |-> rows[i]] /\ DOMAIN Q = gone /\ \A i \in gone : Q[i] = rows[i]
  OBVIOUS
<1> HIDE DEF gone, left, emptied, Q, M
<1>5. /\ rows \in Tables(ids) /\ shot \in Tables(ids) /\ expired \in Tables(ids) /\ ids \in Nat
      /\ missions \in MissionTables(ids)
      /\ DOMAIN rows \cap DOMAIN shot = {} /\ DOMAIN rows \cap DOMAIN expired = {}
      /\ DOMAIN shot \cap DOMAIN expired = {}
      /\ OnMissions(rows, missions, None) /\ Carried(rows, DOMAIN expired)
      /\ MarkersHold(rows, missions) /\ MarkersDiffer(missions) /\ Accounted /\ ShotAreOver
      /\ Told(reports, shot, taker, missions) /\ ~Outruns(rows, missions)
  BY DEF IndInv, Typed
<1>6. /\ left \in Tables(ids) /\ DOMAIN left = DOMAIN rows \ gone
      /\ \A i \in DOMAIN left : left[i] = rows[i] /\ i \in DOMAIN rows
  <2>1. left = Without(rows, gone) /\ rows \in Tables(ids) /\ ids \in Nat
    BY <1>2, <1>5
  <2>2. left \in Tables(ids) /\ DOMAIN left = DOMAIN rows \ gone /\ \A i \in DOMAIN rows \ gone : left[i] = rows[i]
    BY ONLY <2>1, WithoutTable
  <2> QED
    BY <2>2
<1>7. /\ Q \in Tables(ids)
      /\ \A u, x : Held(rows, u, x) = Held(left, u, x) + Held(Q, u, x)
  BY <1>2, <1>4, <1>5, HeldApart
<1>8. /\ expired' \in Tables(ids) /\ DOMAIN expired' = DOMAIN expired \cup gone
      /\ \A u, x : Held(expired', u, x) = Held(expired, u, x) + Held(Q, u, x)
  <2>1. expired' \in Tables(ids)
    BY <1>1, <1>5, <1>7, WithTable
  <2>2. DOMAIN expired' = DOMAIN expired \cup gone
    BY <1>1, <1>4, WithDomain
  <2>3. DOMAIN expired \cap DOMAIN Q = {}
    BY <1>2, <1>4, <1>5
  <2>4. \A u, x : Held(expired', u, x) = Held(expired, u, x) + Held(Q, u, x)
    BY <1>1, <1>5, <1>7, <2>3, HeldWith
  <2> QED
    BY <2>1, <2>2, <2>4
<1>9. /\ DOMAIN M = DOMAIN missions \ emptied /\ M = [k \in DOMAIN M |-> M[k]]
      /\ \A k \in DOMAIN M : M[k] = missions[k] /\ k \in DOMAIN missions
  BY <1>2 DEF Without
<1>10. M \in MissionTables(ids)
  <2>1. DOMAIN M \subseteq 1 .. ids /\ \A k \in DOMAIN M : M[k] \in MissionRow
    BY <1>5, <1>9, MissionTableParts
  <2> QED
    BY <1>5, <1>9, <2>1, IsMissionTable
<1>11. Typed'
  <2>1. DOMAIN left \cap DOMAIN shot = {} /\ DOMAIN left \cap DOMAIN expired' = {}
    BY <1>5, <1>6, <1>8
  <2>2. DOMAIN shot \cap DOMAIN expired' = {}
    BY <1>2, <1>5, <1>8
  <2> QED
    BY <1>1, <1>5, <1>6, <1>8, <1>10, <2>1, <2>2 DEF Typed
<1>12. \A i \in DOMAIN left : left[i].mission \notin emptied
  BY <1>3
<1>13. \A k : Marks(M, k) <=> Marks(missions, k) /\ k \notin emptied
  BY <1>9 DEF Marks
<1>14. OnMissions(left, M, None)
  <2> SUFFICES ASSUME NEW i \in DOMAIN left
               PROVE  /\ left[i].mission # None =>
                            /\ left[i].mission \in DOMAIN M /\ M[left[i].mission].user = left[i].user
                            /\ left[i].mission # None =>
                                  Marks(M, left[i].mission) \/ ~M[left[i].mission].resolved
                      /\ AtRest(left, M, i) => left[i].carrier = None
    BY DEF OnMissions
  <2>1. /\ rows[i].mission # None =>
              /\ rows[i].mission \in DOMAIN missions /\ missions[rows[i].mission].user = rows[i].user
              /\ Marks(missions, rows[i].mission) \/ ~missions[rows[i].mission].resolved
        /\ AtRest(rows, missions, i) => rows[i].carrier = None
    BY <1>5, <1>6 DEF OnMissions
  <2>2. AtRest(left, M, i) => AtRest(rows, missions, i)
    BY <1>6, <1>13 DEF AtRest
  <2> QED
    BY <1>6, <1>9, <1>12, <1>13, <2>1, <2>2
<1>15. Carried(left, DOMAIN expired')
  <2> SUFFICES ASSUME NEW i \in DOMAIN left, NEW c, c = left[i].carrier, c # None,
                      c \notin DOMAIN expired'
               PROVE  c \in DOMAIN left /\ left[c].mission = left[i].mission /\ left[c].carrier = None
    BY DEF Carried
  <2>1. i \in DOMAIN rows /\ rows[i].carrier = c /\ c \notin DOMAIN expired /\ c \notin gone
    BY <1>6, <1>8
  <2>2. c \in DOMAIN rows /\ rows[c].mission = rows[i].mission /\ rows[c].carrier = None
    BY <1>5, <2>1 DEF Carried
  <2> QED
    BY <1>6, <2>1, <2>2
<1>16. MarkersHold(left, M)
  <2> SUFFICES ASSUME NEW k \in DOMAIN M, Marks(M, k)
               PROVE  ~M[k].resolved <=> \E i \in DOMAIN left : left[i].mission = k
    BY DEF MarkersHold
  <2>1. k \in DOMAIN missions /\ Marks(missions, k) /\ k \notin emptied /\ M[k] = missions[k] /\ k # None
    <3>1. k \in Nat
      BY <1>5, <1>9, MissionTableParts
    <3> QED
      BY <1>9, <1>13, <3>1, StartAssumption
  <2>2. ~missions[k].resolved <=> \E i \in DOMAIN rows : rows[i].mission = k
    BY <1>5, <2>1 DEF MarkersHold
  <2>3. (\E i \in gone : rows[i].mission = k) => \E i \in DOMAIN left : left[i].mission = k
    BY <1>3, <2>1
  <2> QED
    BY <1>6, <2>1, <2>2, <2>3
<1>17. MarkersDiffer(M)
  BY <1>5, <1>9, <1>13 DEF MarkersDiffer
<1>18. Accounted'
  <2> SUFFICES ASSUME NEW u \in User, NEW x \in Unit
               PROVE  Held(rows', u, x) + Held(shot', u, x) + Held(expired', u, x) = Held(Rows0, u, x)
    BY DEF Accounted
  <2>1. Held(rows, u, x) + Held(shot, u, x) + Held(expired, u, x) = Held(Rows0, u, x)
    BY <1>5 DEF Accounted
  <2>2. Held(rows, u, x) = Held(left, u, x) + Held(Q, u, x)
    BY <1>7
  <2>3. Held(expired', u, x) = Held(expired, u, x) + Held(Q, u, x)
    BY <1>8
  <2>4. /\ Held(left, u, x) \in Nat /\ Held(Q, u, x) \in Nat /\ Held(shot, u, x) \in Nat
        /\ Held(expired, u, x) \in Nat
    BY <1>5, <1>6, <1>7, HeldNat
  <2> QED
    BY <1>1, <2>1, <2>2, <2>3, <2>4
(* A mission that lost units to interceptors is over: it has none left.    *)
<1>19. \A i \in DOMAIN shot : shot[i].mission \in DOMAIN M /\ M[shot[i].mission] = missions[shot[i].mission]
  <2> TAKE i \in DOMAIN shot
  <2>1. PICK k : k = shot[i].mission
    OBVIOUS
  <2>2. k \in DOMAIN missions /\ missions[k].resolved /\ missions[k].type \in {"EXPLORE", "DEPLOY"}
    BY <1>5, <2>1 DEF ShotAreOver
  <2>3. \A j \in DOMAIN rows : rows[j].mission # None => rows[j].mission # k
    BY <1>5, <2>2 DEF OnMissions, Marks
  <2>4. k \notin emptied
    BY <1>2, <1>3, <2>3
  <2> QED
    BY <1>9, <2>1, <2>2, <2>4
<1>20. ShotAreOver'
  BY <1>1, <1>5, <1>19 DEF ShotAreOver
<1>21. Told(reports, shot, taker, missions)'
  BY <1>1, <1>5, <1>19 DEF ShotAreOver, Told
<1>22. ~Outruns(left, M)
  <2> SUFFICES ASSUME NEW i \in DOMAIN left, NEW k, k = left[i].mission,
                      k \in DOMAIN M, ~M[k].resolved, M[k].type # "DEPLOYED",
                      ~M[k].boosted,
                      Speed[left[i].unit] > 0, UnitGroup[left[i].unit] \notin FixedGroup,
                      M[k].time < Alone(M, k, left[i].unit)
               PROVE  FALSE
    BY DEF Outruns
  <2>1. i \in DOMAIN rows /\ left[i] = rows[i] /\ k \in DOMAIN missions /\ M[k] = missions[k]
    BY <1>6, <1>9
  <2>2. Alone(M, k, left[i].unit) = Alone(missions, k, rows[i].unit)
    BY <2>1 DEF Alone
  <2> QED
    BY <1>5, <2>1, <2>2 DEF Outruns
<1> QED
  BY <1>1, <1>11, <1>14, <1>15, <1>16, <1>17, <1>18, <1>20, <1>21, <1>22 DEF IndInv

------------------------------------------------------------------------------
(* The specification.                                                      *)

(* The tables the specification starts from are tables.                    *)
LEMMA StartTables ==
    ASSUME NEW n, n = Max({0} \cup DOMAIN Rows0 \cup DOMAIN Missions0)
    PROVE  n \in Nat /\ Rows0 \in Tables(n) /\ Missions0 \in MissionTables(n)
<1>1. PICK D : D = {0} \cup DOMAIN Rows0 \cup DOMAIN Missions0
  OBVIOUS
<1>2. D \subseteq Nat /\ D # {} /\ IsFiniteSet(D)
  <2>1. IsFiniteSet({0}) /\ IsFiniteSet(DOMAIN Rows0) /\ IsFiniteSet(DOMAIN Missions0)
    BY FS_Singleton, StartAssumption
  <2>2. IsFiniteSet({0} \cup DOMAIN Rows0)
    BY <2>1, FS_Union
  <2>3. IsFiniteSet(D)
    BY <1>1, <2>1, <2>2, FS_Union
  <2>4. DOMAIN Rows0 \subseteq Nat /\ DOMAIN Missions0 \subseteq Nat
    BY StartAssumption
  <2> QED
    BY <1>1, <2>3, <2>4
<1>3. n \in Nat /\ \A x \in D : x <= n
  <2>1. n = Max(D)
    BY <1>1
  <2>2. n \in D /\ \A x \in D : x <= n
    BY ONLY <1>2, <2>1, GreatestNumber
  <2> QED
    BY <1>2, <2>2
<1>4. DOMAIN Rows0 \subseteq 1 .. n /\ DOMAIN Missions0 \subseteq 1 .. n
  <2>1. \A x \in DOMAIN Rows0 \cup DOMAIN Missions0 : x \in Nat \ {0} /\ x <= n
    BY <1>1, <1>3, StartAssumption
  <2> QED
    BY <1>3, <2>1
<1> QED
  <2>1. Rows0 \in [DOMAIN Rows0 -> Row] /\ Missions0 \in [DOMAIN Missions0 -> MissionRow]
    BY StartAssumption
  <2>2. Rows0 \in Tables(n)
    BY ONLY <1>4, <2>1 DEF Tables
  <2>3. Missions0 \in MissionTables(n)
    BY ONLY <1>4, <2>1 DEF MissionTables
  <2> QED
    BY <1>3, <2>2, <2>3

(* Nobody travels yet.                                                     *)
LEMMA InitKeeps == Init => IndInv
<1> SUFFICES ASSUME Init PROVE IndInv
  OBVIOUS
<1>1. /\ rows = Rows0 /\ missions = Missions0
      /\ ids = Max({0} \cup DOMAIN Rows0 \cup DOMAIN Missions0)
      /\ reports = {} /\ shot = <<>> /\ taker = <<>> /\ expired = <<>>
  BY DEF Init
<1>2. ids \in Nat /\ Rows0 \in Tables(ids) /\ Missions0 \in MissionTables(ids)
  BY <1>1, StartTables
<1>3. <<>> \in Tables(ids) /\ DOMAIN <<>> = {}
  <2>1. PICK E : E = [i \in {} |-> i]
    OBVIOUS
  <2>2. <<>> = E /\ DOMAIN E = {}
    BY <2>1
  <2>3. E \in Tables(ids)
    BY <1>2, <2>1, <2>2, IsTableOf
  <2> QED
    BY <2>2, <2>3
<1>4. Typed
  BY <1>1, <1>2, <1>3 DEF Typed
<1>5. \A i \in DOMAIN Rows0 :
         /\ Rows0[i].carrier = None
         /\ Rows0[i].mission # None => Rows0[i].mission \in DOMAIN Missions0
                                      /\ Missions0[Rows0[i].mission].user = Rows0[i].user
  BY StartAssumption
<1>6. \A m \in DOMAIN Missions0 :
         /\ Missions0[m].type = "DEPLOYED" /\ ~Missions0[m].resolved
         /\ \E i \in DOMAIN Rows0 : Rows0[i].mission = m
  BY StartAssumption
<1>7. OnMissions(rows, missions, None)
  BY <1>1, <1>5, <1>6 DEF OnMissions, Marks
<1>8. Carried(rows, DOMAIN expired)
  BY <1>1, <1>5 DEF Carried
<1>9. MarkersHold(rows, missions)
  BY <1>1, <1>6 DEF MarkersHold
<1>10. MarkersDiffer(missions)
  BY <1>1, StartAssumption DEF MarkersDiffer
<1>11. Accounted
  <2> SUFFICES ASSUME NEW u \in User, NEW x \in Unit
               PROVE  Held(rows, u, x) + Held(shot, u, x) + Held(expired, u, x) = Held(Rows0, u, x)
    BY DEF Accounted
  <2>1. Held(<<>>, u, x) = 0
    BY <1>3, TotalEmpty DEF Held
  <2>2. Held(Rows0, u, x) \in Nat
    BY <1>2, HeldNat
  <2> QED
    BY <1>1, <2>1, <2>2
<1>12. ShotAreOver /\ Told(reports, shot, taker, missions)
  BY <1>1, <1>3 DEF ShotAreOver, Told
<1>13. ~Outruns(rows, missions)
  BY <1>1, <1>6 DEF Outruns
<1> QED
  BY <1>4, <1>7, <1>8, <1>9, <1>10, <1>11, <1>12, <1>13 DEF IndInv

(* Every step keeps the invariant.                                         *)
LEMMA NextKeeps == IndInv /\ [Next]_vars => IndInv'
<1> SUFFICES ASSUME IndInv, [Next]_vars PROVE IndInv'
  OBVIOUS
<1>1. ASSUME NEW o \in Order, Register(o) PROVE IndInv'
  BY <1>1, RegisterKeeps
<1>2. ASSUME NEW m \in DOMAIN missions, Arrive(m) PROVE IndInv'
  BY <1>2, ArriveKeeps
<1>3. ASSUME NEW m \in DOMAIN missions, Age(m) PROVE IndInv'
  BY <1>3, AgeKeeps
<1>4. ASSUME NEW e \in Expiration, Expire(e) PROVE IndInv'
  BY <1>4, ExpireKeeps
<1>5. ASSUME NEW u \in User, ToggleSpecial(u) PROVE IndInv'
  BY <1>5, SameTables DEF ToggleSpecial, tables
<1>6. ASSUME NEW permit \in Permits, Regroup(permit) PROVE IndInv'
  BY <1>6, SameTables DEF Regroup, tables
<1>7. ASSUME NEW u \in User, NEW a, Ally(u, a) PROVE IndInv'
  BY <1>7, SameTables DEF Ally, tables
<1>8. CASE UNCHANGED vars
  BY <1>8, SameTables DEF vars
<1> QED
  BY <1>1, <1>2, <1>3, <1>4, <1>5, <1>6, <1>7, <1>8 DEF Next

(* The tables stay what the invariants need of them, whatever fleets are   *)
(* sent out, taken, landed and deployed.                                   *)
THEOREM TablesStaySound == Spec => []IndInv
<1>1. Init => IndInv
  BY InitKeeps
<1>2. IndInv /\ [Next]_vars => IndInv'
  BY NextKeeps
<1> QED
  BY <1>1, <1>2, PTL DEF Spec

(* CargoStaysAboard: whoever is carried shares the mission of the carrier  *)
(* (load_information, move_unit_to_planet).                                *)
THEOREM CargoKeepsItsCarrier == Spec => []CargoStaysAboard
<1>1. IndInv => CargoStaysAboard
  BY DEF IndInv, Carried, CargoStaysAboard
<1> QED
  BY <1>1, TablesStaySound, PTL

(* InterceptionsAreReported: what interceptors took is counted once in the *)
(* report of who lost it and once in that of who took it, an enemy         *)
(* (handle_mission_interception).                                          *)
THEOREM LossesAreTold == Spec => []InterceptionsAreReported
<1>1. IndInv => InterceptionsAreReported
  BY DEF IndInv, Told, Tells, Lost, InterceptionsAreReported, LostTo
<1> QED
  BY <1>1, TablesStaySound, PTL

(* MarkersHoldUnits: deployed units are under the one open marker of their *)
(* user on the planet, which has units as long as it is open               *)
(* (find_or_create_deployed_mission, mark_orphan_missions_resolved,        *)
(* deleteNonUnitsLeftMissions).                                            *)
THEOREM MarkersAreAsUnits == Spec => []MarkersHoldUnits
<1>1. IndInv => MarkersHoldUnits
  BY DEF IndInv, MarkersHold, MarkersDiffer, Marks, MarkersHoldUnits, Aboard
<1> QED
  BY <1>1, TablesStaySound, PTL

(* What the amount of UnitsAccountedFor is.                                *)
LEMMA AmountHeld ==
    ASSUME NEW n \in Nat, NEW R \in Tables(n), NEW u, NEW x,
           NEW c, c = [i \in DOMAIN R |-> R[i].count],
           NEW S, S = {i \in DOMAIN R : R[i].user = u /\ R[i].unit = x}
    PROVE  Total(c, S) = Held(R, u, x)
<1>1. PICK f : f = Share(R, u, x)
  OBVIOUS
<1>2. IsFiniteSet(DOMAIN R) /\ \A i \in DOMAIN R : R[i] \in Row
  BY TableParts
<1>3. \A i \in DOMAIN R : f[i] = IF i \in S THEN c[i] ELSE 0
  BY <1>1 DEF Share, ShareOf
<1>4. \A i \in DOMAIN R : f[i] \in Int
  BY <1>2, <1>3 DEF Row
<1>5. IsFiniteSet(S) /\ IsFiniteSet(DOMAIN R \ S)
  BY <1>2, FS_Subset
<1>6. PICK D : D = DOMAIN R \ S
  OBVIOUS
<1>7. DOMAIN R = S \cup D /\ S \cap D = {} /\ IsFiniteSet(S) /\ IsFiniteSet(D)
      /\ \A i \in S \cup D : f[i] \in Int
  BY <1>4, <1>5, <1>6
<1>8. Total(f, S \cup D) = Total(f, S) + Total(f, D)
  BY ONLY <1>7, TotalSplit
<1>9. Total(f, D) = 0
  BY <1>3, <1>6, <1>7, TotalZero
<1>10. Total(f, S) = Total(c, S)
  BY <1>3, <1>7, TotalSame
<1>11. Total(f, S) \in Int
  BY <1>7, TotalInt
<1> QED
  <2>1. Held(R, u, x) = Total(f, S \cup D)
    BY ONLY <1>1, <1>7 DEF Held
  <2> QED
    BY ONLY <1>8, <1>9, <1>10, <1>11, <2>1

(* UnitsAccountedFor: no unit appears or vanishes on its travels           *)
(* (saveWithSubtraction, saveWithAdding, deleteAll).                       *)
THEOREM NoUnitVanishes == Spec => []UnitsAccountedFor
<1> DEFINE Count(R) == [i \in DOMAIN R |-> R[i].count]
           Of(R, u, x) == {i \in DOMAIN R : R[i].user = u /\ R[i].unit = x}
<1>1. \A n \in Nat : \A R \in Tables(n) : \A u, x : Total(Count(R), Of(R, u, x)) = Held(R, u, x)
  <2> TAKE n \in Nat
  <2> TAKE R \in Tables(n)
  <2> TAKE u, x
  <2>1. PICK c : c = Count(R)
    OBVIOUS
  <2>2. PICK S : S = Of(R, u, x)
    OBVIOUS
  <2>3. Total(c, S) = Held(R, u, x)
    BY <2>1, <2>2, AmountHeld
  <2> QED
    BY <2>1, <2>2, <2>3
<1>2. UnitsAccountedFor <=>
        \A u \in User, x \in Unit :
            Total(Count(rows), Of(rows, u, x)) + Total(Count(shot), Of(shot, u, x))
                + Total(Count(expired), Of(expired, u, x)) = Total(Count(Rows0), Of(Rows0, u, x))
  BY DEF UnitsAccountedFor, Total
<1> HIDE DEF Count, Of
<1>3. IndInv => UnitsAccountedFor
  <2> SUFFICES ASSUME IndInv, NEW u \in User, NEW x \in Unit
               PROVE  Total(Count(rows), Of(rows, u, x)) + Total(Count(shot), Of(shot, u, x))
                          + Total(Count(expired), Of(expired, u, x)) = Total(Count(Rows0), Of(Rows0, u, x))
    BY <1>2
  <2>1. /\ Total(Count(rows), Of(rows, u, x)) = Held(rows, u, x)
        /\ Total(Count(shot), Of(shot, u, x)) = Held(shot, u, x)
        /\ Total(Count(expired), Of(expired, u, x)) = Held(expired, u, x)
    BY <1>1 DEF IndInv, Typed
  <2>2. Total(Count(Rows0), Of(Rows0, u, x)) = Held(Rows0, u, x)
    <3>1. \E n \in Nat : Rows0 \in Tables(n)
      BY StartTables
    <3> QED
      BY <1>1, <3>1
  <2> QED
    BY <2>1, <2>2 DEF IndInv, Accounted
<1> QED
  BY <1>3, TablesStaySound, PTL

(* The pace of one unit is a number.                                       *)
LEMMA AloneNat ==
    ASSUME NEW r \in MissionRow, r.type # "DEPLOYED", NEW x \in Unit
    PROVE  CalculateTimeUsingSpeed(
               BaseTime[IF r.type = "RETURN_MISSION" THEN "EXPLORE" ELSE r.type],
               100 * Speed[x], Position[r.source], Position[r.target]) \in Nat
<1>1. PICK base : base = BaseTime[IF r.type = "RETURN_MISSION" THEN "EXPLORE" ELSE r.type]
  OBVIOUS
<1>2. PICK s : s = 100 * Speed[x]
  OBVIOUS
<1>3. base \in Nat
  <2>1. (IF r.type = "RETURN_MISSION" THEN "EXPLORE" ELSE r.type) \in Kind
    BY DEF MissionRow, Kind
  <2> QED
    BY <1>1, <2>1, StartAssumption
<1>4. s \in Int /\ s <= s
  <2>1. Speed[x] \in Nat
    BY RulesAssumption
  <2> QED
    BY <1>2, <2>1
<1>5. r.source \in Planet /\ r.target \in Planet
  BY DEF MissionRow
<1>6. CalculateTimeUsingSpeed(base, s, Position[r.source], Position[r.target]) \in Nat
  BY ONLY <1>3, <1>4, <1>5, SlowerTakesLonger
<1> QED
  BY <1>1, <1>2, <1>6

(* NobodyOutrunsTheFleet: a fleet is never faster than any of its units on *)
(* its own (handle_mission_time_calculation, handle_custom_duration).      *)
THEOREM FleetsKeepPace == Spec => []NobodyOutrunsTheFleet
<1>1. IndInv => NobodyOutrunsTheFleet
  <2> SUFFICES ASSUME IndInv, NEW m \in DOMAIN missions, NEW i \in Aboard(m), InFlight(m),
                      ~missions[m].boosted, Speed[rows[i].unit] > 0,
                      UnitGroup[rows[i].unit] \notin FixedGroup
               PROVE  missions[m].time >= Alone(missions, m, rows[i].unit)
    BY DEF NobodyOutrunsTheFleet, Alone
  <2>1. i \in DOMAIN rows /\ rows[i].mission = m
    BY DEF Aboard
  <2>2. ~missions[m].resolved /\ missions[m].type # "DEPLOYED"
    BY DEF InFlight
  <2>3. ~(missions[m].time < Alone(missions, m, rows[i].unit))
    BY <2>1, <2>2 DEF IndInv, Outruns
  <2>4. missions[m] \in MissionRow /\ rows[i] \in Row
    BY <2>1, TableParts, MissionTableParts DEF IndInv, Typed
  <2>5. missions[m].time \in Nat /\ rows[i].unit \in Unit
    BY <2>4 DEF MissionRow, Row
  <2>6. Alone(missions, m, rows[i].unit) \in Nat
    BY <2>2, <2>4, <2>5, AloneNat DEF Alone
  <2> QED
    BY <2>3, <2>5, <2>6
<1> QED
  BY <1>1, TablesStaySound, PTL
================================================================================
