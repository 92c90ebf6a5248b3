---------------------------- MODULE ProtocolProofs ----------------------------
(***************************************************************************)
(* Proofs about the protocols in which sessions, pollers and requests      *)
(* meet: NamedLocks, for any number of sessions, any set of keys and any   *)
(* attempt budget, MissionScheduler, for any set of pollers and missions,  *)
(* any batch size, attempt cap and number of faults, and Accounts, for any *)
(* players, planets, alliances, sizes and number of concurrent requests.   *)
(*                                                                         *)
(* The names of the scheduler start with Scheduler!, those of the accounts *)
(* with Accounts!, those of their promises apart, and what they assume of  *)
(* their constants is a hypothesis of what is proved about them.           *)
(***************************************************************************)
EXTENDS NamedLocks, SchedulerPromises, AccountsPromises, FiniteSetsExt, FiniteSetTheorems,
        WellFoundedInduction, TLAPS

(* A request that ends without its release keeps IndInv: what it leaves is *)
(* what its session holds.                                                 *)
LEMMA EndKeepsIndInv ==
    ASSUME IndInv, NEW s \in Session, EndsWithGrants(s)
    PROVE  IndInv'
<1> USE AttemptsAssumption, LapsesAssumption, KeyAssumption
<1> USE DEF IndInv, TypeOK, Places, Goto, Pending, GotIsGranted, GrantsExclude,
            GotAtPlace, NoStrayGrants, EndsWithGrants
<1>1. TypeOK'
  OBVIOUS
<1>2. GotIsGranted'
  OBVIOUS
<1>3. GrantsExclude'
  OBVIOUS
<1>4. GotAtPlace'
  OBVIOUS
<1>5. NoStrayGrants'
  OBVIOUS
<1>6. QED
  BY <1>1, <1>2, <1>3, <1>4, <1>5

(* Every step of a request keeps IndInv.                                   *)
LEMMA NextKeepsIndInv == IndInv /\ [Next]_vars => IndInv'
<1> USE AttemptsAssumption, LapsesAssumption, KeyAssumption
<1> SUFFICES ASSUME IndInv, [Next]_vars
             PROVE  IndInv'
  OBVIOUS
<1> USE DEF IndInv, TypeOK, Places, Goto, Pending, GotIsGranted, GrantsExclude,
            GotAtPlace, NoStrayGrants
<1>1. ASSUME NEW s \in Session, NEW keys \in SUBSET Key, Call(s, keys)
      PROVE  IndInv'
  <2>1. TypeOK'
    BY <1>1 DEF Call
  <2>2. GotIsGranted'
    BY <1>1 DEF Call
  <2>3. GrantsExclude'
    BY <1>1 DEF Call
  <2>4. GotAtPlace'
    BY ZenonT(60), <1>1 DEF Call
  <2>5. NoStrayGrants'
    BY <1>1 DEF Call
  <2>6. QED
    BY <2>1, <2>2, <2>3, <2>4, <2>5
<1>2. ASSUME NEW s \in Session, NEW k \in Key, GetLock(s, k)
      PROVE  IndInv'
  <2>1. TypeOK'
    BY <1>2 DEF GetLock, IsNext, HeldByOther
  <2>2. GotIsGranted'
    BY <1>2 DEF GetLock, IsNext, HeldByOther
  <2>3. GrantsExclude'
    BY <1>2 DEF GetLock, IsNext, HeldByOther
  <2>4. GotAtPlace'
    BY <1>2 DEF GetLock, IsNext, HeldByOther
  <2>5. NoStrayGrants'
    BY <1>2 DEF GetLock, IsNext, HeldByOther
  <2>6. QED
    BY <2>1, <2>2, <2>3, <2>4, <2>5
<1>3. ASSUME NEW s \in Session, NEW k \in Key, GetLockRefused(s, k)
      PROVE  IndInv'
  <2>1. TypeOK'
    BY <1>3 DEF GetLockRefused
  <2>2. GotIsGranted'
    BY <1>3 DEF GetLockRefused
  <2>3. GrantsExclude'
    BY <1>3 DEF GetLockRefused
  <2>4. GotAtPlace'
    BY <1>3 DEF GetLockRefused
  <2>5. NoStrayGrants'
    BY <1>3 DEF GetLockRefused
  <2>6. QED
    BY <2>1, <2>2, <2>3, <2>4, <2>5
<1>4. ASSUME NEW s \in Session, NEW k \in Key, ReleaseKey(s, k)
      PROVE  IndInv'
  <2>1. TypeOK'
    BY <1>4 DEF ReleaseKey
  <2>2. GotIsGranted'
    BY <1>4 DEF ReleaseKey
  <2>3. GrantsExclude'
    BY <1>4 DEF ReleaseKey
  <2>4. GotAtPlace'
    BY <1>4 DEF ReleaseKey
  <2>5. NoStrayGrants'
    BY <1>4 DEF ReleaseKey
  <2>6. QED
    BY <2>1, <2>2, <2>3, <2>4, <2>5
<1>5. ASSUME NEW s \in Session, UndoDone(s)
      PROVE  IndInv'
  <2>1. TypeOK'
    BY <1>5 DEF UndoDone
  <2>2. GotIsGranted'
    BY <1>5 DEF UndoDone
  <2>3. GrantsExclude'
    BY <1>5 DEF UndoDone
  <2>4. GotAtPlace'
    <3>1. CASE attempt[s] = MaxLockAttempts
      BY <1>5, <3>1 DEF UndoDone
    <3>2. CASE attempt[s] # MaxLockAttempts
      <4>1. attempt[s] \in 1 .. MaxLockAttempts /\ attempt[s] < MaxLockAttempts
        <5>1. attempt[s] \in 1 .. MaxLockAttempts
          BY DEF IndInv, TypeOK
        <5>2. QED
          <6> HIDE DEF IndInv
          <6>1. QED
            BY <3>2, <5>1
      <4>2. pc' = [pc EXCEPT ![s] = "backoff"] /\ got[s] = {} /\ wanted[s] # {}
        BY <1>5, <3>2 DEF UndoDone
      <4>3. UNCHANGED <<wanted, got, attempt>>
        BY <1>5 DEF UndoDone
      <4>4. QED
        BY <4>1, <4>2, <4>3
    <3>3. QED
      BY <3>1, <3>2
  <2>5. NoStrayGrants'
    BY <1>5 DEF UndoDone
  <2>6. QED
    BY <2>1, <2>2, <2>3, <2>4, <2>5
<1>6. ASSUME NEW s \in Session, Retry(s)
      PROVE  IndInv'
  <2>1. TypeOK'
    BY <1>6 DEF Retry
  <2>2. GotIsGranted'
    BY <1>6 DEF Retry
  <2>3. GrantsExclude'
    BY <1>6 DEF Retry
  <2>4. GotAtPlace'
    BY <1>6 DEF Retry
  <2>5. NoStrayGrants'
    BY <1>6 DEF Retry
  <2>6. QED
    BY <2>1, <2>2, <2>3, <2>4, <2>5
<1>7. ASSUME NEW s \in Session, ReleaseDone(s)
      PROVE  IndInv'
  <2>1. TypeOK'
    BY <1>7 DEF ReleaseDone
  <2>2. GotIsGranted'
    BY <1>7 DEF ReleaseDone
  <2>3. GrantsExclude'
    BY <1>7 DEF ReleaseDone
  <2>4. GotAtPlace'
    BY <1>7 DEF ReleaseDone
  <2>5. NoStrayGrants'
    BY <1>7 DEF ReleaseDone
  <2>6. QED
    BY <2>1, <2>2, <2>3, <2>4, <2>5
<1>8. ASSUME NEW s \in Session, GetLockError(s)
      PROVE  IndInv'
  <2>1. TypeOK'
    BY <1>8 DEF GetLockError
  <2>2. GotIsGranted'
    BY <1>8 DEF GetLockError
  <2>3. GrantsExclude'
    BY <1>8 DEF GetLockError
  <2>4. GotAtPlace'
    BY <1>8 DEF GetLockError
  <2>5. NoStrayGrants'
    BY <1>8 DEF GetLockError
  <2>6. QED
    BY <2>1, <2>2, <2>3, <2>4, <2>5
<1>9. ASSUME NEW s \in Session, BodyEnds(s)
      PROVE  IndInv'
  <2>1. TypeOK'
    BY <1>9 DEF BodyEnds
  <2>2. GotIsGranted'
    BY <1>9 DEF BodyEnds
  <2>3. GrantsExclude'
    BY <1>9 DEF BodyEnds
  <2>4. GotAtPlace'
    BY <1>9 DEF BodyEnds
  <2>5. NoStrayGrants'
    BY <1>9 DEF BodyEnds
  <2>6. QED
    BY <2>1, <2>2, <2>3, <2>4, <2>5
<1>10. ASSUME NEW s \in Session, ConnectionLost(s)
      PROVE  IndInv'
  <2>1. TypeOK'
    BY <1>10 DEF ConnectionLost
  <2>2. GotIsGranted'
    BY <1>10 DEF ConnectionLost
  <2>3. GrantsExclude'
    BY <1>10 DEF ConnectionLost
  <2>4. GotAtPlace'
    BY <1>10 DEF ConnectionLost
  <2>5. NoStrayGrants'
    BY <1>10 DEF ConnectionLost
  <2>6. QED
    BY <2>1, <2>2, <2>3, <2>4, <2>5
<1>11. ASSUME NEW s \in Session, RequestDropped(s)
      PROVE  IndInv'
  BY <1>11, EndKeepsIndInv DEF RequestDropped
<1>12. ASSUME NEW s \in Session, ReleaseFails(s)
      PROVE  IndInv'
  BY <1>12, EndKeepsIndInv DEF ReleaseFails
<1>13. CASE UNCHANGED vars
  BY <1>13 DEF vars
<1>14. QED
  BY <1>1, <1>2, <1>3, <1>4, <1>5, <1>6, <1>7, <1>8, <1>9, <1>10, <1>11, <1>12, <1>13
     DEF Next, AcquireStep

(* IndInv is an invariant of the protocol.                                 *)
THEOREM Invariance == Spec => []IndInv
<1>1. Init => IndInv
  BY AttemptsAssumption, LapsesAssumption
     DEF Init, IndInv, TypeOK, Places, GotIsGranted, GrantsExclude, GotAtPlace,
         NoStrayGrants
<1>2. QED
  BY <1>1, NextKeepsIndInv, PTL DEF Spec

(* TypeOK: the variables keep their types.                                 *)
THEOREM TypeCorrect == Spec => []TypeOK
<1>1. IndInv => TypeOK
  BY DEF IndInv
<1>2. QED
  BY <1>1, Invariance, PTL

(* BodyProtected: a body runs only while its session, and no other, holds  *)
(* every key it asked for.                                                 *)
THEOREM BodyIsProtected == Spec => []BodyProtected
<1>1. IndInv => BodyProtected
  BY DEF IndInv, TypeOK, GotIsGranted, GrantsExclude, GotAtPlace,
         BodyProtected, HeldByOther
<1>2. QED
  BY <1>1, Invariance, PTL

(* A session that nothing was left to holds what it got.                   *)
LEMMA HoldsIsGot ==
    ASSUME IndInv, NEW s \in Clean
    PROVE  s \in Session /\ Holds(s) = got[s]
<1>1. s \in Session /\ \A k \in Key : left[s][k] = 0
  BY DEF Clean
<1>2. ASSUME NEW k \in Key
      PROVE  grants[s][k] > 0 <=> k \in got[s]
  BY <1>1 DEF IndInv, NoStrayGrants
<1>3. QED
  BY <1>1, <1>2 DEF Holds, IndInv, TypeOK

(* AscendingOrder is part of the invariant.                                *)
LEMMA AscendingStep == IndInv => AscendingOrder
<1> SUFFICES ASSUME IndInv, NEW s \in Clean, pc[s] = "acquiring"
             PROVE  \A h \in Holds(s), k \in Pending(s) : h < k
  BY DEF AscendingOrder
<1>1. s \in Session /\ Holds(s) = got[s]
  BY HoldsIsGot
<1>2. QED
  BY <1>1 DEF IndInv, GotAtPlace

(* AscendingOrder: a session that nothing was left to never holds a key    *)
(* greater than one it waits for.                                          *)
THEOREM OrderIsAscending == Spec => []AscendingOrder
  BY Invariance, AscendingStep, PTL

(* NothingHeldAtRest: every way out of acquire and of run_locked releases  *)
(* as often as it was granted, so that a session at rest holds what a      *)
(* request that was dropped, or whose RELEASE_LOCK failed, left to it.     *)
THEOREM RestIsEmpty == Spec => []NothingHeldAtRest
<1>1. IndInv => NothingHeldAtRest
  <2> SUFFICES ASSUME IndInv, NEW s \in Session,
                      pc[s] \in {"idle", "backoff"}
               PROVE  grants[s] = left[s]
    BY DEF NothingHeldAtRest
  <2>1. got[s] = {}
    BY DEF IndInv, GotAtPlace
  <2>2. ASSUME NEW k \in Key
        PROVE  grants[s][k] = left[s][k]
    BY <2>1 DEF IndInv, TypeOK, NoStrayGrants
  <2>3. grants[s] \in [Key -> Nat] /\ left[s] \in [Key -> Nat]
    BY DEF IndInv, TypeOK
  <2>4. QED
    BY <2>2, <2>3
<1>2. QED
  BY <1>1, Invariance, PTL

------------------------------------------------------------------------------
(* A non-empty set of naturals below a bound has a greatest element.       *)
LEMMA GreatestBelow ==
    ASSUME NEW bound \in Nat, NEW S, S \subseteq 0 .. bound, S # {}
    PROVE  \E m \in S : \A k \in S : k <= m
<1> DEFINE T == {bound - k : k \in S}
<1>1. T \subseteq Nat /\ T # {}
  <2>1. ASSUME NEW k \in S
        PROVE  bound - k \in Nat
    <3>1. k \in Nat /\ k <= bound
      OBVIOUS
    <3>2. QED
      BY <3>1
  <2>2. QED
    BY <2>1
<1>2. IsWellFoundedOn(OpToRel(<, Nat), Nat)
  BY NatLessThanWellFounded
<1>3. PICK x \in T : \A y \in T : ~ (<<y, x>> \in OpToRel(<, Nat))
  <2> HIDE DEF T
  <2>1. QED
    BY <1>1, <1>2, WFMin
<1>4. ASSUME NEW y \in T
      PROVE  x <= y
  <2>1. x \in Nat /\ y \in Nat
    BY <1>1
  <2>2. y < x => <<y, x>> \in OpToRel(<, Nat)
    BY <2>1 DEF OpToRel
  <2>3. ~ (<<y, x>> \in OpToRel(<, Nat))
    BY <1>3
  <2>4. ~ (y < x)
    BY <2>2, <2>3
  <2>5. QED
    BY <2>1, <2>4
<1>5. PICK m \in S : x = bound - m
  OBVIOUS
<1>6. ASSUME NEW k \in S
      PROVE  k <= m
  <2>1. bound - k \in T
    OBVIOUS
  <2>2. bound - m <= bound - k
    BY <1>4, <1>5, <2>1
  <2>3. QED
    BY <2>2
<1>7. QED
  BY <1>6

(* A cycle of waits would need keys that grow all the way round.           *)
LEMMA NoWaitCycleStep ==
    ASSUME NEW bound \in Nat, Key \subseteq 0 .. bound,
           IndInv
    PROVE  NoWaitCycle
<1> SUFFICES ASSUME NEW D \in SUBSET Clean, D # {},
                    \A s \in D : /\ pc[s] = "acquiring"
                                 /\ \E k \in Key, t \in D \ {s} :
                                       IsNext(s, k) /\ grants[t][k] > 0
             PROVE  FALSE
  BY DEF NoWaitCycle
<1> DEFINE Awaited == {k \in Key : \E s \in D : IsNext(s, k)}
<1>1. Awaited \subseteq 0 .. bound /\ Awaited # {}
  OBVIOUS
<1>2. PICK m \in Awaited : \A k \in Awaited : k <= m
  <2> HIDE DEF Awaited
  <2>1. QED
    BY <1>1, GreatestBelow
<1>3. PICK s \in D : IsNext(s, m)
  OBVIOUS
<1>4. PICK k \in Key, t \in D \ {s} : IsNext(s, k) /\ grants[t][k] > 0
  OBVIOUS
<1>5. k = m
  BY <1>3, <1>4, KeyAssumption DEF IsNext, Pending, IndInv, TypeOK
<1>6. PICK j \in Key : IsNext(t, j)
  OBVIOUS
<1>7. m < j
  <2>1. m \in Holds(t)
    BY <1>4, <1>5 DEF Holds
  <2>2. j \in Pending(t)
    BY <1>6 DEF IsNext
  <2>3. QED
    BY <2>1, <2>2, AscendingStep, <1>4, t \in Clean, pc[t] = "acquiring" DEF AscendingOrder
<1>8. j <= m
  BY <1>2, <1>6
<1>9. QED
  BY <1>7, <1>8, KeyAssumption

(* NoWaitCycle: no set of sessions that nothing was left to wait for       *)
(* each other's keys: the one that waits for the greatest key is held up   *)
(* by a session that would have to wait for a greater one still.           *)
THEOREM WaitsAreAcyclic ==
    ASSUME NEW bound \in Nat, Key \subseteq 0 .. bound
    PROVE  Spec => []NoWaitCycle
<1>1. IndInv => NoWaitCycle
  BY NoWaitCycleStep
<1>2. QED
  BY <1>1, Invariance, PTL

------------------------------------------------------------------------------
(* NamedLocks implements LockService: the section of a session begins with *)
(* the GET_LOCK that completes its key set.                                *)
LEMMA NextImplementsSections ==
    ASSUME IndInv, [Next]_vars
    PROVE  [Sections!Next]_Inside
<1> USE DEF IndInv, TypeOK, Goto, Inside, Sections!Next
<1>1. ASSUME NEW s \in Session, NEW keys \in SUBSET Key, Call(s, keys)
      PROVE  UNCHANGED Inside
  BY <1>1 DEF Call
<1>2. ASSUME NEW s \in Session, NEW k \in Key, GetLock(s, k)
      PROVE  [Sections!Next]_Inside
  <2>1. CASE Pending(s) = {k}
    <3>1. Inside[s] = {} /\ Inside' = [Inside EXCEPT ![s] = wanted[s]]
      BY <1>2, <2>1 DEF GetLock
    <3>2. ASSUME NEW t \in Session, NEW j \in Inside[t] \cap wanted[s]
          PROVE  FALSE
      <4>1. t # s /\ pc[t] = "body" /\ got[t] = wanted[t] /\ j \in got[t]
        BY <3>1, <3>2 DEF GotAtPlace
      <4>2. grants[t][j] > 0
        BY <4>1 DEF GotIsGranted
      <4>3. CASE j = k
        BY <1>2, <4>1, <4>2, <4>3 DEF GetLock, HeldByOther
      <4>4. CASE j # k
        <5>1. j \in got[s]
          BY <2>1, <3>2, <4>4 DEF Pending
        <5>2. grants[s][j] > 0
          BY <5>1 DEF GotIsGranted
        <5>3. QED
          BY <4>1, <4>2, <5>1, <5>2 DEF GrantsExclude
      <4>5. QED
        BY <4>3, <4>4
    <3>3. Sections!Enter(s, wanted[s])
      BY <3>1, <3>2 DEF Sections!Enter
    <3>4. wanted[s] \in SUBSET Key
      OBVIOUS
    <3>5. Sections!Next
      <4> HIDE DEF Inside
      <4>1. QED
        BY <3>3, <3>4
    <3>6. QED
      BY <3>5
  <2>2. CASE Pending(s) # {k}
    <3>1. UNCHANGED Inside
      BY <1>2, <2>2 DEF GetLock
    <3>2. QED
      BY <3>1
  <2>3. QED
    BY <2>1, <2>2
<1>3. ASSUME NEW s \in Session, pc'[s] # "body", UNCHANGED wanted,
             pc' = [pc EXCEPT ![s] = pc'[s]]
      PROVE  [Sections!Next]_Inside
  <2>1. CASE Inside[s] = {}
    <3>1. UNCHANGED Inside
      BY <1>3, <2>1
    <3>2. QED
      BY <3>1
  <2>2. CASE Inside[s] # {}
    <3>1. Inside' = [Inside EXCEPT ![s] = {}]
      BY <1>3
    <3>2. Sections!Leave(s)
      BY <2>2, <3>1 DEF Sections!Leave
    <3>3. QED
      BY <3>2
  <2>3. QED
    BY <2>1, <2>2
<1>4. ASSUME NEW s \in Session,
             \/ \E k \in Key : GetLockRefused(s, k) \/ ReleaseKey(s, k)
             \/ UndoDone(s) \/ Retry(s) \/ ReleaseDone(s) \/ GetLockError(s)
             \/ BodyEnds(s) \/ ConnectionLost(s) \/ RequestDropped(s) \/ ReleaseFails(s)
      PROVE  /\ pc'[s] # "body" /\ UNCHANGED wanted
             /\ pc' = [pc EXCEPT ![s] = pc'[s]]
  BY <1>4 DEF GetLockRefused, ReleaseKey, UndoDone, Retry, ReleaseDone,
              GetLockError, BodyEnds, ConnectionLost, RequestDropped, ReleaseFails,
              EndsWithGrants
<1>5. CASE UNCHANGED vars
  BY <1>5 DEF vars
<1>6. QED
  BY <1>1, <1>2, <1>3, <1>4, <1>5 DEF Next, AcquireStep

(* ImplementsSections: whoever sees only when sections run sees the        *)
(* exclusive sections of LockService, faults and dropped requests included.*)
THEOREM Refinement == Spec => ImplementsSections
<1>1. Init => Sections!Init
  BY DEF Init, Inside, Sections!Init
<1>2. IndInv /\ [Next]_vars => [Sections!Next]_Inside
  BY NextImplementsSections
<1>3. QED
  BY <1>1, <1>2, Invariance, PTL DEF Spec, ImplementsSections, Sections!Spec
------------------------------------------------------------------------------
(* MissionScheduler: pc is called place here, and RunFaults are   *)
(* the faults of a run.                                                    *)
CONSTANTS UnitMissions, PollBatch, RunFaults, MaxFaults

VARIABLES attemps, place, batch, retryAt, faults

Scheduler == INSTANCE MissionScheduler WITH pc <- place, Faults <- RunFaults

(* What MissionScheduler assumes of its constants.                         *)
SchedulerParameters == Scheduler!MissionAssumption /\ Scheduler!BoundAssumption


(* A worker has a mission exactly while it runs one.                       *)
CurAtPlace ==
    \A w \in Worker : cur[w] \in Mission <=> place[w] \notin {"idle", "claiming"}

(* A mission nobody registered yet has no row, and nobody knows it.        *)
UnregisteredIsFresh ==
    \A m \in Mission : status[m] = "unregistered" =>
        /\ row[m].state = "none"
        /\ \A w \in Worker : cur[w] # m /\ \A c \in batch[w] : c[1] # m

BaseInv == Scheduler!TypeOK /\ CurAtPlace /\ UnregisteredIsFresh

(* The row of a mission that runs is picked and fresh, if it still exists. *)
ClaimsAreHeld ==
    \A w \in Worker : cur[w] \in Mission =>
        \/ row[cur[w]].state = "none"
        \/ row[cur[w]].state = "picked" /\ ~row[cur[w]].stale

(* No candidate is from the future, and none has the version of a row that *)
(* is picked and fresh: whoever selected it selected an older one.         *)
BatchIsOld ==
    \A w \in Worker : \A c \in batch[w] : row[c[1]].state # "none" =>
        /\ c[2] <= row[c[1]].version
        /\ row[c[1]].state = "picked" /\ ~row[c[1]].stale => c[2] # row[c[1]].version

RunInv == ClaimsAreHeld /\ BatchIsOld /\ OneRunner

(* An open mission has committed nothing, nor has one that is running.     *)
FirstCommit ==
    /\ \A m \in Mission : status[m] \in {"unregistered", "open"} => commits[m] = 0
    /\ \A w \in Worker : place[w] = "running" => commits[cur[w]] = 0

(* The counter is at most one ahead of the failures, and not while a       *)
(* failure waits to be counted.                                            *)
AttemptsFailed ==
    /\ \A m \in Mission : attemps[m] <= failures[m] + 1
    /\ \A w \in Worker : place[w] = "failed" => attemps[cur[w]] <= failures[cur[w]]

CountInv == FirstCommit /\ CommitsOnce /\ AttemptsFailed /\ GivesUpLate

(* A mission given up is closed and does not run; one about to be given up *)
(* did nothing.                                                            *)
GivenUpIsOver ==
    /\ \A m \in gaveUp : status[m] \in {"resolved", "deleted"}
    /\ \A w \in Worker : place[w] = "running" => cur[w] \notin gaveUp
    /\ \A w \in Worker : place[w] = "failed" => commits[cur[w]] = 0

GiveUpInv == GivenUpIsOver /\ GivenUpDidNothing

(* A worker about to delete a row has seen its mission closed.             *)
ClosingKnowsWhy ==
    \A w \in Worker : place[w] \in {"emitting", "closing"} /\ ~retryAt[w] =>
        status[cur[w]] \in {"resolved", "deleted"}

LossInv == ClosingKnowsWhy /\ NoLostMission

------------------------------------------------------------------------------
(* Every step keeps BaseInv, whatever the faults.                          *)
LEMMA NextKeepsBaseInv ==
    ASSUME SchedulerParameters, BaseInv, [Scheduler!Next]_(Scheduler!vars)
    PROVE  BaseInv'
<1> USE SchedulerParameters DEF SchedulerParameters, Scheduler!MissionAssumption,
        Scheduler!BoundAssumption
<1> USE DEF BaseInv, Scheduler!TypeOK, CurAtPlace, UnregisteredIsFresh, Scheduler!Rows,
    Scheduler!NoRow, Scheduler!Goto,
            Scheduler!NextCandidate, Scheduler!Fault, Scheduler!Closed, Scheduler!OutOfAttempts,
            Scheduler!missionVars, Scheduler!workerVars, Scheduler!history
<1>1. ASSUME NEW m \in Mission, Scheduler!Register(m)
      PROVE  BaseInv'
  BY <1>1 DEF Scheduler!Register
<1>2. ASSUME NEW m \in Mission, Scheduler!Cancel(m)
      PROVE  BaseInv'
  BY <1>2 DEF Scheduler!Cancel
<1>3. ASSUME NEW m \in Mission, Scheduler!BecomeDue(m)
      PROVE  BaseInv'
  <2>1. Scheduler!TypeOK'
    <3>1. [row[m] EXCEPT !.due = TRUE] \in Scheduler!Rows
      <4>1. row[m] \in Scheduler!Rows
        BY DEF BaseInv
      <4>2. QED
        BY <4>1
    <3>2. row' = [row EXCEPT ![m] = [row[m] EXCEPT !.due = TRUE]]
      BY <1>3 DEF Scheduler!BecomeDue
    <3>3. row' \in [Mission -> Scheduler!Rows]
      BY <3>1, <3>2
    <3>4. QED
      BY <1>3, <3>3 DEF Scheduler!BecomeDue
  <2>2. CurAtPlace'
    BY <1>3 DEF Scheduler!BecomeDue
  <2>3. UnregisteredIsFresh'
    BY <1>3 DEF Scheduler!BecomeDue
  <2>4. QED
    BY <2>1, <2>2, <2>3
<1>4. ASSUME NEW m \in Mission, Scheduler!HeartbeatAges(m)
      PROVE  BaseInv'
  <2>1. Scheduler!TypeOK'
    <3>1. [row[m] EXCEPT !.stale = TRUE] \in Scheduler!Rows
      <4>1. row[m] \in Scheduler!Rows
        BY DEF BaseInv
      <4>2. QED
        BY <4>1
    <3>2. row' = [row EXCEPT ![m] = [row[m] EXCEPT !.stale = TRUE]]
      BY <1>4 DEF Scheduler!HeartbeatAges
    <3>3. row' \in [Mission -> Scheduler!Rows]
      BY <3>1, <3>2
    <3>4. faults' \in 0 .. MaxFaults
      BY <1>4 DEF Scheduler!HeartbeatAges
    <3>5. QED
      BY <1>4, <3>3, <3>4 DEF Scheduler!HeartbeatAges
  <2>2. CurAtPlace'
    BY <1>4 DEF Scheduler!HeartbeatAges
  <2>3. UnregisteredIsFresh'
    BY <1>4 DEF Scheduler!HeartbeatAges
  <2>4. QED
    BY <2>1, <2>2, <2>3
<1>5. ASSUME NEW w \in Worker, Scheduler!PollOnce(w)
      PROVE  BaseInv'
  <2>1. Scheduler!TypeOK'
    BY <1>5 DEF Scheduler!PollOnce
  <2>2. CurAtPlace'
    BY <1>5 DEF Scheduler!PollOnce
  <2>3. UnregisteredIsFresh'
    <3>1. PICK S \in SUBSET {m \in Mission : Scheduler!Candidate(m)} :
             batch' = [batch EXCEPT ![w] = {<<m, row[m].version>> : m \in S}]
      BY <1>5 DEF Scheduler!PollOnce
    <3>2. ASSUME NEW c \in batch'[w]
          PROVE  c[1] \in Mission /\ row[c[1]].state # "none"
      BY <3>1, <3>2 DEF Scheduler!Candidate
    <3>3. \A v \in Worker : v # w => batch'[v] = batch[v]
      BY <3>1
    <3>4. UNCHANGED <<status, row, cur>>
      BY <1>5 DEF Scheduler!PollOnce
    <3>5. QED
      BY <3>2, <3>3, <3>4
  <2>4. QED
    BY <2>1, <2>2, <2>3
<1>6. ASSUME NEW w \in Worker, Scheduler!Claim(w)
      PROVE  BaseInv'
  <2>1. Scheduler!TypeOK'
    BY SMTT(60), <1>6 DEF Scheduler!Claim
  <2>2. CurAtPlace'
    BY <1>6 DEF Scheduler!Claim
  <2>3. UnregisteredIsFresh'
    BY <1>6 DEF Scheduler!Claim
  <2>4. QED
    BY <2>1, <2>2, <2>3
<1>7. ASSUME NEW w \in Worker, Scheduler!LoseClaim(w)
      PROVE  BaseInv'
  BY <1>7 DEF Scheduler!LoseClaim
<1>8. ASSUME NEW w \in Worker, Scheduler!Load(w)
      PROVE  BaseInv'
  BY <1>8 DEF Scheduler!Load
<1>9. ASSUME NEW w \in Worker, Scheduler!RunCommits(w)
      PROVE  BaseInv'
  <2>1. Scheduler!TypeOK'
    <3>1. cur[w] \in Mission
      BY <1>9 DEF Scheduler!RunCommits
    <3>2. status' \in [Mission -> {"unregistered", "open", "resolved", "deleted"}]
      BY <1>9, <3>1 DEF Scheduler!RunCommits
    <3>3. commits' \in [Mission -> Nat]
      BY <1>9, <3>1 DEF Scheduler!RunCommits
    <3>4. failures' \in [Mission -> Nat] /\ faults' \in 0 .. MaxFaults
      <4>1. CASE UNCHANGED <<failures, faults>>
        BY <4>1
      <4>2. CASE /\ failures' = [failures EXCEPT ![cur[w]] = failures[cur[w]] + 1]
                 /\ Scheduler!Fault("late")
        <5>1. failures' \in [Mission -> Nat]
          BY <3>1, <4>2
        <5>2. faults' \in 0 .. MaxFaults
          BY <4>2
        <5>3. QED
          BY <5>1, <5>2
      <4>3. QED
        BY <1>9, <4>1, <4>2 DEF Scheduler!RunCommits
    <3>5. place' \in [Worker -> {"idle", "claiming", "loading", "running", "failed",
                              "emitting", "closing"}]
      BY <1>9 DEF Scheduler!RunCommits
    <3>6. QED
      BY <1>9, <3>2, <3>3, <3>4, <3>5 DEF Scheduler!RunCommits
  <2>2. CurAtPlace'
    BY <1>9 DEF Scheduler!RunCommits
  <2>3. UnregisteredIsFresh'
    BY <1>9 DEF Scheduler!RunCommits
  <2>4. QED
    BY <2>1, <2>2, <2>3
<1>10. ASSUME NEW w \in Worker, Scheduler!RunFails(w)
      PROVE  BaseInv'
  BY <1>10 DEF Scheduler!RunFails
<1>11. ASSUME NEW w \in Worker, Scheduler!RetryMissionIfPossible(w)
      PROVE  BaseInv'
  <2>1. Scheduler!TypeOK'
    <3>1. cur[w] \in Mission
      BY <1>11 DEF Scheduler!RetryMissionIfPossible
    <3>2. status' \in [Mission -> {"unregistered", "open", "resolved", "deleted"}]
      BY <1>11, <3>1 DEF Scheduler!RetryMissionIfPossible
    <3>3. attemps' \in [Mission -> 1 .. MaxAttempts]
      <4>1. ~Scheduler!OutOfAttempts(cur[w]) => attemps[cur[w]] + 1 \in 1 .. MaxAttempts
        BY <3>1
      <4>2. QED
        BY <1>11, <3>1, <4>1 DEF Scheduler!RetryMissionIfPossible
    <3>4. retryAt' \in [Worker -> BOOLEAN]
      BY <1>11 DEF Scheduler!RetryMissionIfPossible
    <3>5. gaveUp' \subseteq Mission
      BY <1>11, <3>1 DEF Scheduler!RetryMissionIfPossible
    <3>6. QED
      BY <1>11, <3>2, <3>3, <3>4, <3>5 DEF Scheduler!RetryMissionIfPossible
  <2>2. CurAtPlace'
    BY <1>11 DEF Scheduler!RetryMissionIfPossible
  <2>3. UnregisteredIsFresh'
    BY <1>11 DEF Scheduler!RetryMissionIfPossible
  <2>4. QED
    BY <2>1, <2>2, <2>3
<1>12. ASSUME NEW w \in Worker, Scheduler!EmitAfterFailure(w)
      PROVE  BaseInv'
  BY <1>12 DEF Scheduler!EmitAfterFailure
<1>13. ASSUME NEW w \in Worker, Scheduler!RearmRow(w)
      PROVE  BaseInv'
  <2>1. Scheduler!TypeOK'
    <3>1. cur[w] \in Mission
      BY <1>13 DEF Scheduler!RearmRow
    <3>2. [Scheduler!NoRow EXCEPT !.state = "armed",
        !.version = row[cur[w]].version + 1] \in Scheduler!Rows
      <4>1. row[cur[w]] \in Scheduler!Rows
        BY <3>1
      <4>2. row[cur[w]].version + 1 \in Nat
        BY <4>1
      <4>3. QED
        BY <4>2
    <3>3. row' \in [Mission -> Scheduler!Rows]
      BY <1>13, <3>1, <3>2 DEF Scheduler!RearmRow
    <3>4. QED
      BY <1>13, <3>3 DEF Scheduler!RearmRow
  <2>2. CurAtPlace'
    BY <1>13 DEF Scheduler!RearmRow
  <2>3. UnregisteredIsFresh'
    BY <1>13 DEF Scheduler!RearmRow
  <2>4. QED
    BY <2>1, <2>2, <2>3
<1>14. ASSUME NEW w \in Worker, Scheduler!DeleteRow(w)
      PROVE  BaseInv'
  BY SMTT(60), <1>14 DEF Scheduler!DeleteRow
<1>15. ASSUME NEW w \in Worker, Scheduler!Crash(w)
      PROVE  BaseInv'
  BY <1>15 DEF Scheduler!Crash
<1>16. ASSUME NEW w \in Worker, Scheduler!TickFails(w)
      PROVE  BaseInv'
  BY <1>16 DEF Scheduler!TickFails
<1>17. ASSUME NEW w \in Worker, Scheduler!RunnerError(w)
      PROVE  BaseInv'
  BY <1>17 DEF Scheduler!RunnerError
<1>18. ASSUME NEW w \in Worker, Scheduler!RetryHandlingFails(w)
      PROVE  BaseInv'
  BY <1>18 DEF Scheduler!RetryHandlingFails
<1>19. CASE UNCHANGED Scheduler!vars
  BY <1>19 DEF Scheduler!vars
<1>20. QED
  BY <1>1, <1>2, <1>3, <1>4, <1>5, <1>6, <1>7, <1>8, <1>9,
     <1>10, <1>11, <1>12, <1>13, <1>14, <1>15, <1>16, <1>17, <1>18, <1>19
     DEF Scheduler!Next, Scheduler!WorkerStep, Scheduler!RunStep

(* Unless workers are taken for dead while they run, every step keeps      *)
(* RunInv.                                                                 *)
LEMMA NextKeepsRunInv ==
    ASSUME SchedulerParameters, "stall" \notin RunFaults, BaseInv, RunInv,
           [Scheduler!Next]_(Scheduler!vars)
    PROVE  RunInv'
<1> USE SchedulerParameters DEF SchedulerParameters, Scheduler!MissionAssumption,
        Scheduler!BoundAssumption
<1> USE DEF BaseInv, Scheduler!TypeOK, CurAtPlace, UnregisteredIsFresh, Scheduler!Rows,
    Scheduler!NoRow, Scheduler!Goto,
            Scheduler!NextCandidate, Scheduler!Fault, Scheduler!Closed, RunInv, ClaimsAreHeld,
                BatchIsOld, OneRunner,
            Scheduler!missionVars, Scheduler!workerVars, Scheduler!history
<1>1. ASSUME NEW m \in Mission, Scheduler!Register(m)
      PROVE  RunInv'
  BY <1>1 DEF Scheduler!Register
<1>2. ASSUME NEW m \in Mission, Scheduler!Cancel(m)
      PROVE  RunInv'
  BY <1>2 DEF Scheduler!Cancel
<1>3. ASSUME NEW m \in Mission, Scheduler!BecomeDue(m)
      PROVE  RunInv'
  BY <1>3 DEF Scheduler!BecomeDue
<1>4. ASSUME NEW m \in Mission, Scheduler!HeartbeatAges(m)
      PROVE  RunInv'
  <2>1. ClaimsAreHeld'
    <3>1. \A w \in Worker : cur[w] # m
      BY <1>4 DEF Scheduler!HeartbeatAges, Scheduler!RunsIt
    <3>2. UNCHANGED cur /\ \A n \in Mission : n # m => row'[n] = row[n]
      BY <1>4 DEF Scheduler!HeartbeatAges
    <3>3. QED
      BY <3>1, <3>2
  <2>2. BatchIsOld'
    BY <1>4 DEF Scheduler!HeartbeatAges
  <2>3. OneRunner'
    BY <1>4 DEF Scheduler!HeartbeatAges
  <2>4. QED
    BY <2>1, <2>2, <2>3
<1>5. ASSUME NEW w \in Worker, Scheduler!PollOnce(w)
      PROVE  RunInv'
  <2>1. ClaimsAreHeld'
    BY <1>5 DEF Scheduler!PollOnce
  <2>2. BatchIsOld'
    <3>1. PICK S \in SUBSET {m \in Mission : Scheduler!Candidate(m)} :
             batch' = [batch EXCEPT ![w] = {<<m, row[m].version>> : m \in S}]
      BY <1>5 DEF Scheduler!PollOnce
    <3>2. UNCHANGED row /\ \A m \in Mission : row[m].version \in Nat
      BY <1>5 DEF Scheduler!PollOnce
    <3>3. ASSUME NEW c \in batch'[w]
          PROVE  /\ c[2] <= row'[c[1]].version
                 /\ ~ (row'[c[1]].state = "picked" /\ ~row'[c[1]].stale)
      BY <3>1, <3>2, <3>3 DEF Scheduler!Candidate
    <3>4. \A v \in Worker : v # w => batch'[v] = batch[v]
      BY <3>1
    <3>5. QED
      BY SMTT(60), <3>2, <3>3, <3>4
  <2>3. OneRunner'
    BY <1>5 DEF Scheduler!PollOnce
  <2>4. QED
    BY <2>1, <2>2, <2>3
<1>6. ASSUME NEW w \in Worker, Scheduler!Claim(w)
      PROVE  RunInv'
  <2>1. PICK c \in batch[w] :
           /\ row[c[1]].state # "none" /\ row[c[1]].version = c[2]
           /\ row' = [row EXCEPT ![c[1]].state = "picked", ![c[1]].stale = FALSE,
                                 ![c[1]].version = row[c[1]].version + 1]
           /\ batch' = [batch EXCEPT ![w] = batch[w] \ {c}]
           /\ cur' = [cur EXCEPT ![w] = c[1]]
    BY <1>6 DEF Scheduler!Claim
  <2>2. c[1] \in Mission /\ row[c[1]].version \in Nat
    BY <2>1
  <2>3. \A v \in Worker : cur[v] # c[1]
    BY <2>1, <2>2
  <2>4. /\ row'[c[1]].state = "picked" /\ ~row'[c[1]].stale
        /\ row'[c[1]].version = row[c[1]].version + 1
        /\ \A m \in Mission : m # c[1] => row'[m] = row[m]
    BY <2>1, <2>2
  <2>5. ClaimsAreHeld'
    BY <2>1, <2>3, <2>4
  <2>6. BatchIsOld'
    <3>1. ASSUME NEW v \in Worker, NEW d \in batch'[v], row'[d[1]].state # "none"
          PROVE  /\ d[2] <= row'[d[1]].version
                 /\ row'[d[1]].state = "picked" /\ ~row'[d[1]].stale =>
                        d[2] # row'[d[1]].version
      <4>1. d \in batch[v] /\ d[1] \in Mission /\ d[2] \in Nat
        BY <2>1, <3>1
      <4>2. CASE d[1] = c[1]
        BY <2>1, <2>2, <2>4, <4>1, <4>2
      <4>3. CASE d[1] # c[1]
        BY <2>4, <3>1, <4>1, <4>3
      <4>4. QED
        BY <4>2, <4>3
    <3>2. QED
      BY <3>1
  <2>7. OneRunner'
    BY <2>1, <2>3
  <2>8. QED
    BY <2>5, <2>6, <2>7
<1>7. ASSUME NEW w \in Worker, Scheduler!LoseClaim(w)
      PROVE  RunInv'
  BY <1>7 DEF Scheduler!LoseClaim
<1>8. ASSUME NEW w \in Worker, Scheduler!Load(w)
      PROVE  RunInv'
  BY <1>8 DEF Scheduler!Load
<1>9. ASSUME NEW w \in Worker, Scheduler!RunCommits(w)
      PROVE  RunInv'
  BY <1>9 DEF Scheduler!RunCommits
<1>10. ASSUME NEW w \in Worker, Scheduler!RunFails(w)
      PROVE  RunInv'
  BY <1>10 DEF Scheduler!RunFails
<1>11. ASSUME NEW w \in Worker, Scheduler!RetryMissionIfPossible(w)
      PROVE  RunInv'
  BY <1>11 DEF Scheduler!RetryMissionIfPossible
<1>12. ASSUME NEW w \in Worker, Scheduler!EmitAfterFailure(w)
      PROVE  RunInv'
  BY <1>12 DEF Scheduler!EmitAfterFailure
<1>13. ASSUME NEW w \in Worker, Scheduler!RearmRow(w)
      PROVE  RunInv'
  BY <1>13 DEF Scheduler!RearmRow
<1>14. ASSUME NEW w \in Worker, Scheduler!DeleteRow(w)
      PROVE  RunInv'
  BY <1>14 DEF Scheduler!DeleteRow
<1>15. ASSUME NEW w \in Worker, Scheduler!Crash(w)
      PROVE  RunInv'
  BY <1>15 DEF Scheduler!Crash
<1>16. ASSUME NEW w \in Worker, Scheduler!TickFails(w)
      PROVE  RunInv'
  BY <1>16 DEF Scheduler!TickFails
<1>17. ASSUME NEW w \in Worker, Scheduler!RunnerError(w)
      PROVE  RunInv'
  BY <1>17 DEF Scheduler!RunnerError
<1>18. ASSUME NEW w \in Worker, Scheduler!RetryHandlingFails(w)
      PROVE  RunInv'
  BY <1>18 DEF Scheduler!RetryHandlingFails
<1>19. CASE UNCHANGED Scheduler!vars
  BY <1>19 DEF Scheduler!vars
<1>20. QED
  BY <1>1, <1>2, <1>3, <1>4, <1>5, <1>6, <1>7, <1>8, <1>9,
     <1>10, <1>11, <1>12, <1>13, <1>14, <1>15, <1>16, <1>17, <1>18, <1>19
     DEF Scheduler!Next, Scheduler!WorkerStep, Scheduler!RunStep

(* As long as one worker runs a mission, every step keeps CountInv.        *)
LEMMA NextKeepsCountInv ==
    ASSUME SchedulerParameters, BaseInv, OneRunner, CountInv,
           [Scheduler!Next]_(Scheduler!vars)
    PROVE  CountInv'
<1> USE SchedulerParameters DEF SchedulerParameters, Scheduler!MissionAssumption,
        Scheduler!BoundAssumption
<1> USE DEF BaseInv, Scheduler!TypeOK, CurAtPlace, UnregisteredIsFresh, Scheduler!Rows,
    Scheduler!NoRow, Scheduler!Goto,
            Scheduler!NextCandidate, Scheduler!Fault, Scheduler!Closed, Scheduler!OutOfAttempts,
                OneRunner,
            CountInv, FirstCommit, CommitsOnce, AttemptsFailed, GivesUpLate,
            Scheduler!missionVars, Scheduler!workerVars, Scheduler!history
<1>1. ASSUME NEW m \in Mission, Scheduler!Register(m)
      PROVE  CountInv'
  BY <1>1 DEF Scheduler!Register
<1>2. ASSUME NEW m \in Mission, Scheduler!Cancel(m)
      PROVE  CountInv'
  BY <1>2 DEF Scheduler!Cancel
<1>3. ASSUME NEW m \in Mission, Scheduler!BecomeDue(m)
      PROVE  CountInv'
  BY <1>3 DEF Scheduler!BecomeDue
<1>4. ASSUME NEW m \in Mission, Scheduler!HeartbeatAges(m)
      PROVE  CountInv'
  BY <1>4 DEF Scheduler!HeartbeatAges
<1>5. ASSUME NEW w \in Worker, Scheduler!PollOnce(w)
      PROVE  CountInv'
  BY <1>5 DEF Scheduler!PollOnce
<1>6. ASSUME NEW w \in Worker, Scheduler!Claim(w)
      PROVE  CountInv'
  BY <1>6 DEF Scheduler!Claim
<1>7. ASSUME NEW w \in Worker, Scheduler!LoseClaim(w)
      PROVE  CountInv'
  BY <1>7 DEF Scheduler!LoseClaim
<1>8. ASSUME NEW w \in Worker, Scheduler!Load(w)
      PROVE  CountInv'
  BY <1>8 DEF Scheduler!Load
<1>9. ASSUME NEW w \in Worker, Scheduler!RunCommits(w)
      PROVE  CountInv'
  <2>1. FirstCommit'
    BY <1>9 DEF Scheduler!RunCommits
  <2>2. CommitsOnce'
    BY <1>9 DEF Scheduler!RunCommits
  <2>3. AttemptsFailed'
    <3>1. cur[w] \in Mission /\ UNCHANGED <<attemps, cur>>
      BY <1>9 DEF Scheduler!RunCommits
    <3>2. CASE place' = [place EXCEPT ![w] = "closing"] /\ UNCHANGED failures
      BY <3>1, <3>2
    <3>3. CASE /\ place' = [place EXCEPT ![w] = "failed"]
               /\ failures' = [failures EXCEPT ![cur[w]] = failures[cur[w]] + 1]
      <4>1. \A m \in Mission : failures'[m] \in Nat /\ failures'[m] >= failures[m]
        BY <3>1, <3>3
      <4>2. attemps[cur[w]] <= failures'[cur[w]]
        BY <3>1, <3>3
      <4>3. \A m \in Mission : attemps[m] \in Nat /\ failures[m] \in Nat
        BY DEF BaseInv
      <4>4. ASSUME NEW v \in Worker, place'[v] = "failed"
            PROVE  attemps[cur[v]] <= failures'[cur[v]]
        <5>1. CASE v = w
          BY <4>2, <5>1
        <5>2. CASE v # w
          <6>1. place[v] = "failed" /\ cur[v] \in Mission
            BY <3>3, <4>4, <5>2
          <6>2. QED
            BY <4>1, <4>3, <6>1
        <5>3. QED
          BY <5>1, <5>2
      <4>5. QED
        BY <3>1, <4>1, <4>3, <4>4
    <3>4. QED
      BY <1>9, <3>2, <3>3 DEF Scheduler!RunCommits
  <2>4. GivesUpLate'
    BY <1>9 DEF Scheduler!RunCommits
  <2>5. QED
    BY <2>1, <2>2, <2>3, <2>4
<1>10. ASSUME NEW w \in Worker, Scheduler!RunFails(w)
      PROVE  CountInv'
  BY <1>10 DEF Scheduler!RunFails
<1>11. ASSUME NEW w \in Worker, Scheduler!RetryMissionIfPossible(w)
      PROVE  CountInv'
  <2>1. FirstCommit'
    BY <1>11 DEF Scheduler!RetryMissionIfPossible
  <2>2. CommitsOnce'
    BY <1>11 DEF Scheduler!RetryMissionIfPossible
  <2>3. AttemptsFailed'
    <3>1. cur[w] \in Mission /\ place[w] = "failed" /\ UNCHANGED <<failures, cur>>
      BY <1>11 DEF Scheduler!RetryMissionIfPossible
    <3>2. /\ attemps' = attemps \/ attemps' = [attemps EXCEPT ![cur[w]] = attemps[cur[w]] + 1]
          /\ place' = [place EXCEPT ![w] = "emitting"]
      BY <1>11 DEF Scheduler!RetryMissionIfPossible
    <3>3. \A m \in Mission : m # cur[w] => attemps'[m] = attemps[m]
      BY <3>1, <3>2
    <3>4. attemps'[cur[w]] <= failures[cur[w]] + 1
      BY <3>1, <3>2
    <3>5. \A v \in Worker \ {w} : place[v] = "failed" => cur[v] \in Mission \ {cur[w]}
      BY <3>1
    <3>6. QED
      BY <3>1, <3>2, <3>3, <3>4, <3>5
  <2>4. GivesUpLate'
    BY <1>11 DEF Scheduler!RetryMissionIfPossible
  <2>5. QED
    BY <2>1, <2>2, <2>3, <2>4
<1>12. ASSUME NEW w \in Worker, Scheduler!EmitAfterFailure(w)
      PROVE  CountInv'
  BY <1>12 DEF Scheduler!EmitAfterFailure
<1>13. ASSUME NEW w \in Worker, Scheduler!RearmRow(w)
      PROVE  CountInv'
  BY <1>13 DEF Scheduler!RearmRow
<1>14. ASSUME NEW w \in Worker, Scheduler!DeleteRow(w)
      PROVE  CountInv'
  BY <1>14 DEF Scheduler!DeleteRow
<1>15. ASSUME NEW w \in Worker, Scheduler!Crash(w)
      PROVE  CountInv'
  BY <1>15 DEF Scheduler!Crash
<1>16. ASSUME NEW w \in Worker, Scheduler!TickFails(w)
      PROVE  CountInv'
  BY <1>16 DEF Scheduler!TickFails
<1>17. ASSUME NEW w \in Worker, Scheduler!RunnerError(w)
      PROVE  CountInv'
  BY <1>17 DEF Scheduler!RunnerError
<1>18. ASSUME NEW w \in Worker, Scheduler!RetryHandlingFails(w)
      PROVE  CountInv'
  BY <1>18 DEF Scheduler!RetryHandlingFails
<1>19. CASE UNCHANGED Scheduler!vars
  BY <1>19 DEF Scheduler!vars
<1>20. QED
  BY <1>1, <1>2, <1>3, <1>4, <1>5, <1>6, <1>7, <1>8, <1>9,
     <1>10, <1>11, <1>12, <1>13, <1>14, <1>15, <1>16, <1>17, <1>18, <1>19
     DEF Scheduler!Next, Scheduler!WorkerStep, Scheduler!RunStep

(* Unless an execution fails after its commit, every step keeps GiveUpInv. *)
LEMMA NextKeepsGiveUpInv ==
    ASSUME SchedulerParameters, "late" \notin RunFaults, BaseInv, OneRunner, CountInv,
           GiveUpInv, [Scheduler!Next]_(Scheduler!vars)
    PROVE  GiveUpInv'
<1> USE SchedulerParameters DEF SchedulerParameters, Scheduler!MissionAssumption,
        Scheduler!BoundAssumption
<1> USE DEF BaseInv, Scheduler!TypeOK, CurAtPlace, UnregisteredIsFresh, Scheduler!Rows,
    Scheduler!NoRow, Scheduler!Goto,
            Scheduler!NextCandidate, Scheduler!Fault, Scheduler!Closed, Scheduler!OutOfAttempts,
                OneRunner, CountInv, FirstCommit,
            GiveUpInv, GivenUpIsOver, GivenUpDidNothing,
            Scheduler!missionVars, Scheduler!workerVars, Scheduler!history
<1>1. ASSUME NEW m \in Mission, Scheduler!Register(m)
      PROVE  GiveUpInv'
  BY <1>1 DEF Scheduler!Register
<1>2. ASSUME NEW m \in Mission, Scheduler!Cancel(m)
      PROVE  GiveUpInv'
  BY <1>2 DEF Scheduler!Cancel
<1>3. ASSUME NEW m \in Mission, Scheduler!BecomeDue(m)
      PROVE  GiveUpInv'
  BY <1>3 DEF Scheduler!BecomeDue
<1>4. ASSUME NEW m \in Mission, Scheduler!HeartbeatAges(m)
      PROVE  GiveUpInv'
  BY <1>4 DEF Scheduler!HeartbeatAges
<1>5. ASSUME NEW w \in Worker, Scheduler!PollOnce(w)
      PROVE  GiveUpInv'
  BY <1>5 DEF Scheduler!PollOnce
<1>6. ASSUME NEW w \in Worker, Scheduler!Claim(w)
      PROVE  GiveUpInv'
  BY <1>6 DEF Scheduler!Claim
<1>7. ASSUME NEW w \in Worker, Scheduler!LoseClaim(w)
      PROVE  GiveUpInv'
  BY <1>7 DEF Scheduler!LoseClaim
<1>8. ASSUME NEW w \in Worker, Scheduler!Load(w)
      PROVE  GiveUpInv'
  BY <1>8 DEF Scheduler!Load
<1>9. ASSUME NEW w \in Worker, Scheduler!RunCommits(w)
      PROVE  GiveUpInv'
  BY <1>9 DEF Scheduler!RunCommits
<1>10. ASSUME NEW w \in Worker, Scheduler!RunFails(w)
      PROVE  GiveUpInv'
  BY <1>10 DEF Scheduler!RunFails
<1>11. ASSUME NEW w \in Worker, Scheduler!RetryMissionIfPossible(w)
      PROVE  GiveUpInv'
  BY <1>11 DEF Scheduler!RetryMissionIfPossible
<1>12. ASSUME NEW w \in Worker, Scheduler!EmitAfterFailure(w)
      PROVE  GiveUpInv'
  BY <1>12 DEF Scheduler!EmitAfterFailure
<1>13. ASSUME NEW w \in Worker, Scheduler!RearmRow(w)
      PROVE  GiveUpInv'
  BY <1>13 DEF Scheduler!RearmRow
<1>14. ASSUME NEW w \in Worker, Scheduler!DeleteRow(w)
      PROVE  GiveUpInv'
  BY <1>14 DEF Scheduler!DeleteRow
<1>15. ASSUME NEW w \in Worker, Scheduler!Crash(w)
      PROVE  GiveUpInv'
  BY <1>15 DEF Scheduler!Crash
<1>16. ASSUME NEW w \in Worker, Scheduler!TickFails(w)
      PROVE  GiveUpInv'
  BY <1>16 DEF Scheduler!TickFails
<1>17. ASSUME NEW w \in Worker, Scheduler!RunnerError(w)
      PROVE  GiveUpInv'
  BY <1>17 DEF Scheduler!RunnerError
<1>18. ASSUME NEW w \in Worker, Scheduler!RetryHandlingFails(w)
      PROVE  GiveUpInv'
  BY <1>18 DEF Scheduler!RetryHandlingFails
<1>19. CASE UNCHANGED Scheduler!vars
  BY <1>19 DEF Scheduler!vars
<1>20. QED
  BY <1>1, <1>2, <1>3, <1>4, <1>5, <1>6, <1>7, <1>8, <1>9,
     <1>10, <1>11, <1>12, <1>13, <1>14, <1>15, <1>16, <1>17, <1>18, <1>19
     DEF Scheduler!Next, Scheduler!WorkerStep, Scheduler!RunStep

(* Unless the runner fails outside the mission body, every step keeps      *)
(* LossInv.                                                                *)
LEMMA NextKeepsLossInv ==
    ASSUME SchedulerParameters, {"dispatch", "retry", "emit"} \cap RunFaults = {}, BaseInv,
           LossInv, [Scheduler!Next]_(Scheduler!vars)
    PROVE  LossInv'
<1> USE SchedulerParameters DEF SchedulerParameters, Scheduler!MissionAssumption,
        Scheduler!BoundAssumption
<1> USE DEF BaseInv, Scheduler!TypeOK, CurAtPlace, UnregisteredIsFresh, Scheduler!Rows,
    Scheduler!NoRow, Scheduler!Goto,
            Scheduler!NextCandidate, Scheduler!Fault, Scheduler!Closed, Scheduler!OutOfAttempts,
            LossInv, ClosingKnowsWhy, NoLostMission,
            Scheduler!missionVars, Scheduler!workerVars, Scheduler!history
<1>1. ASSUME NEW m \in Mission, Scheduler!Register(m)
      PROVE  LossInv'
  BY <1>1 DEF Scheduler!Register
<1>2. ASSUME NEW m \in Mission, Scheduler!Cancel(m)
      PROVE  LossInv'
  BY <1>2 DEF Scheduler!Cancel
<1>3. ASSUME NEW m \in Mission, Scheduler!BecomeDue(m)
      PROVE  LossInv'
  BY <1>3 DEF Scheduler!BecomeDue
<1>4. ASSUME NEW m \in Mission, Scheduler!HeartbeatAges(m)
      PROVE  LossInv'
  BY <1>4 DEF Scheduler!HeartbeatAges
<1>5. ASSUME NEW w \in Worker, Scheduler!PollOnce(w)
      PROVE  LossInv'
  BY <1>5 DEF Scheduler!PollOnce
<1>6. ASSUME NEW w \in Worker, Scheduler!Claim(w)
      PROVE  LossInv'
  BY <1>6 DEF Scheduler!Claim
<1>7. ASSUME NEW w \in Worker, Scheduler!LoseClaim(w)
      PROVE  LossInv'
  BY <1>7 DEF Scheduler!LoseClaim
<1>8. ASSUME NEW w \in Worker, Scheduler!Load(w)
      PROVE  LossInv'
  BY <1>8 DEF Scheduler!Load
<1>9. ASSUME NEW w \in Worker, Scheduler!RunCommits(w)
      PROVE  LossInv'
  BY <1>9 DEF Scheduler!RunCommits
<1>10. ASSUME NEW w \in Worker, Scheduler!RunFails(w)
      PROVE  LossInv'
  BY <1>10 DEF Scheduler!RunFails
<1>11. ASSUME NEW w \in Worker, Scheduler!RetryMissionIfPossible(w)
      PROVE  LossInv'
  <2>1. ClosingKnowsWhy'
    BY <1>11 DEF Scheduler!RetryMissionIfPossible
  <2>2. NoLostMission'
    BY <1>11 DEF Scheduler!RetryMissionIfPossible
  <2>3. QED
    BY <2>1, <2>2
<1>12. ASSUME NEW w \in Worker, Scheduler!EmitAfterFailure(w)
      PROVE  LossInv'
  BY <1>12 DEF Scheduler!EmitAfterFailure
<1>13. ASSUME NEW w \in Worker, Scheduler!RearmRow(w)
      PROVE  LossInv'
  BY <1>13 DEF Scheduler!RearmRow
<1>14. ASSUME NEW w \in Worker, Scheduler!DeleteRow(w)
      PROVE  LossInv'
  BY <1>14 DEF Scheduler!DeleteRow
<1>15. ASSUME NEW w \in Worker, Scheduler!Crash(w)
      PROVE  LossInv'
  BY <1>15 DEF Scheduler!Crash
<1>16. ASSUME NEW w \in Worker, Scheduler!TickFails(w)
      PROVE  LossInv'
  BY <1>16 DEF Scheduler!TickFails
<1>17. ASSUME NEW w \in Worker, Scheduler!RunnerError(w)
      PROVE  LossInv'
  BY <1>17 DEF Scheduler!RunnerError
<1>18. ASSUME NEW w \in Worker, Scheduler!RetryHandlingFails(w)
      PROVE  LossInv'
  BY <1>18 DEF Scheduler!RetryHandlingFails
<1>19. CASE UNCHANGED Scheduler!vars
  BY <1>19 DEF Scheduler!vars
<1>20. QED
  BY <1>1, <1>2, <1>3, <1>4, <1>5, <1>6, <1>7, <1>8, <1>9,
     <1>10, <1>11, <1>12, <1>13, <1>14, <1>15, <1>16, <1>17, <1>18, <1>19
     DEF Scheduler!Next, Scheduler!WorkerStep, Scheduler!RunStep


------------------------------------------------------------------------------
(* BaseInv is an invariant, whatever the faults.                           *)
LEMMA BaseInvariance ==
    ASSUME SchedulerParameters
    PROVE  Scheduler!Spec => []BaseInv
<1>1. Scheduler!Init => BaseInv
  BY SchedulerParameters
     DEF SchedulerParameters, Scheduler!MissionAssumption, Scheduler!BoundAssumption,
         Scheduler!Init, BaseInv, Scheduler!TypeOK, CurAtPlace, UnregisteredIsFresh,
             Scheduler!Rows, Scheduler!NoRow
<1>2. BaseInv /\ [Scheduler!Next]_(Scheduler!vars) => BaseInv'
  BY NextKeepsBaseInv
<1>3. QED
  BY <1>1, <1>2, PTL DEF Scheduler!Spec

(* TypeOK: the variables keep their types, and attemps never passes the    *)
(* cap, whatever fails.                                                    *)
THEOREM SchedulerTypeCorrect ==
    ASSUME SchedulerParameters
    PROVE  Scheduler!Spec => []Scheduler!TypeOK
<1>1. BaseInv => Scheduler!TypeOK
  BY DEF BaseInv
<1>2. QED
  BY <1>1, BaseInvariance, PTL

(* OneRunner: unless a worker is taken for dead while it runs, the version *)
(* compared by the claim lets one worker at a time run a mission.          *)
THEOREM OneRunsIt ==
    ASSUME SchedulerParameters, "stall" \notin RunFaults
    PROVE  Scheduler!Spec => []OneRunner
<1>1. Scheduler!Init => RunInv
  BY SchedulerParameters
     DEF SchedulerParameters, Scheduler!MissionAssumption,
         Scheduler!Init, RunInv, ClaimsAreHeld, BatchIsOld, OneRunner
<1>2. BaseInv /\ RunInv /\ [Scheduler!Next]_(Scheduler!vars) => RunInv'
  BY NextKeepsRunInv
<1>3. RunInv => OneRunner
  BY DEF RunInv
<1>4. QED
  BY <1>1, <1>2, <1>3, BaseInvariance, PTL DEF Scheduler!Spec

(* Under the same condition CountInv is an invariant.                      *)
LEMMA CountInvariance ==
    ASSUME SchedulerParameters, "stall" \notin RunFaults
    PROVE  Scheduler!Spec => []CountInv
<1>1. Scheduler!Init => CountInv
  BY SchedulerParameters
     DEF SchedulerParameters, Scheduler!BoundAssumption,
         Scheduler!Init, CountInv, FirstCommit, CommitsOnce, AttemptsFailed,
             GivesUpLate
<1>2. BaseInv /\ OneRunner /\ CountInv /\ [Scheduler!Next]_(Scheduler!vars) => CountInv'
  BY NextKeepsCountInv
<1>3. QED
  BY <1>1, <1>2, BaseInvariance, OneRunsIt, PTL DEF Scheduler!Spec

(* CommitsOnce: a mission commits its effects once, however often it is    *)
(* claimed, re-armed, cancelled or retried.                                *)
THEOREM CommitsAreSingle ==
    ASSUME SchedulerParameters, "stall" \notin RunFaults
    PROVE  Scheduler!Spec => []CommitsOnce
<1>1. CountInv => CommitsOnce
  BY DEF CountInv
<1>2. QED
  BY <1>1, CountInvariance, PTL

(* GivesUpLate: a mission is given up only after MAX_ATTEMPTS executions   *)
(* of it failed.                                                           *)
THEOREM GiveUpIsLate ==
    ASSUME SchedulerParameters, "stall" \notin RunFaults
    PROVE  Scheduler!Spec => []GivesUpLate
<1>1. CountInv => GivesUpLate
  BY DEF CountInv
<1>2. QED
  BY <1>1, CountInvariance, PTL

(* GivenUpDidNothing: unless an execution can fail after its commit, no    *)
(* error report follows an execution that committed.                       *)
THEOREM GivenUpIsUndone ==
    ASSUME SchedulerParameters, {"stall", "late"} \cap RunFaults = {}
    PROVE  Scheduler!Spec => []GivenUpDidNothing
<1>1. "stall" \notin RunFaults /\ "late" \notin RunFaults
  OBVIOUS
<1>2. Scheduler!Spec => []OneRunner
  BY <1>1, OneRunsIt
<1>3. Scheduler!Spec => []CountInv
  BY <1>1, CountInvariance
<1>4. Scheduler!Init => GiveUpInv
  BY DEF Scheduler!Init, GiveUpInv, GivenUpIsOver, GivenUpDidNothing
<1>5. BaseInv /\ OneRunner /\ CountInv /\ GiveUpInv /\ [Scheduler!Next]_(Scheduler!vars)
      => GiveUpInv'
  BY <1>1, NextKeepsGiveUpInv
<1>6. GiveUpInv => GivenUpDidNothing
  BY DEF GiveUpInv
<1>7. QED
  BY <1>2, <1>3, <1>4, <1>5, <1>6, BaseInvariance, PTL DEF Scheduler!Spec

(* NoLostMission: as long as the runner fails nowhere but in the body of a *)
(* mission, an open mission keeps its row, crashes and stalls included.    *)
THEOREM NoMissionIsLost ==
    ASSUME SchedulerParameters, {"dispatch", "retry", "emit"} \cap RunFaults = {}
    PROVE  Scheduler!Spec => []NoLostMission
<1>1. Scheduler!Init => LossInv
  BY DEF Scheduler!Init, LossInv, ClosingKnowsWhy, NoLostMission
<1>2. BaseInv /\ LossInv /\ [Scheduler!Next]_(Scheduler!vars) => LossInv'
  BY NextKeepsLossInv
<1>3. LossInv => NoLostMission
  BY DEF LossInv
<1>4. QED
  BY <1>1, <1>2, <1>3, BaseInvariance, PTL DEF Scheduler!Spec

------------------------------------------------------------------------------
(* Accounts: whatever the requests, nothing of which is locked.            *)
CONSTANTS User, Planet, NoUser, NoAlliance, Start, Percentage, MaxOps

VARIABLES joins, owner, kept, ids, ops

Accounts == INSTANCE Accounts

(* What Accounts assumes of its constants.                                 *)
AccountsParameters == Accounts!AccountsAssumption /\ Accounts!StartAssumption

(* The operators on sets that Accounts uses are those of this module.      *)
LEMMA SameOperators ==
    /\ \A S : Accounts!Cardinality(S) = Cardinality(S) /\ (Accounts!IsFiniteSet(S) <=> IsFiniteSet(S))
    /\ \A S : Accounts!Max(S) = Max(S) /\ Accounts!Min(S) = Min(S)
  BY DEF Accounts!Cardinality, Cardinality, Accounts!IsFiniteSet, IsFiniteSet, Accounts!Max, Max,
         Accounts!Min, Min

(* The promises speak of the same as what keeps them.                      *)
LEMMA SameWords ==
    /\ Accounts!Subscribed = Subscribed
    /\ \A x : /\ Accounts!Alliance(x) = Alliance(x) /\ Accounts!Members(x) = Members(x)
              /\ Accounts!Last(x) = Last(x) /\ Accounts!Value(x) = Value(x)
              /\ Accounts!MembersOf(x) = MembersOf(x) /\ Accounts!Improvement(x) = Improvement(x)
<1>1. Accounts!Subscribed = Subscribed
  BY DEF Accounts!Subscribed, Subscribed
<1>2. ASSUME NEW x
      PROVE  /\ Accounts!Alliance(x) = Alliance(x) /\ Accounts!Members(x) = Members(x)
             /\ Accounts!Last(x) = Last(x) /\ Accounts!Value(x) = Value(x)
  BY DEF Accounts!Alliance, Alliance, Accounts!Members, Members, Accounts!Last, Last,
         Accounts!Value, Value
<1>3. ASSUME NEW x
      PROVE  Accounts!MembersOf(x) = MembersOf(x) /\ Accounts!Improvement(x) = Improvement(x)
  BY <1>1, SameOperators
     DEF Accounts!MembersOf, MembersOf, Accounts!Improvement, Improvement
<1> QED
  BY <1>1, <1>2, <1>3

(* The players are finitely many, and the limits are numbers.              *)
LEMMA AccountsFacts ==
    ASSUME AccountsParameters
    PROVE  /\ IsFiniteSet(User) /\ NoUser \notin User /\ NoAlliance \notin Nat
           /\ MaxSize \in Nat \ {0} /\ Percentage \in Nat
           /\ Parts \in Nat \ {0} /\ Ttl \in Nat \ {0} /\ MaxTime \in Nat
  BY SameOperators DEF AccountsParameters, Accounts!AccountsAssumption

(* What a behaviour starts with.                                           *)
LEMMA StartFacts ==
    ASSUME AccountsParameters
    PROVE  \A t \in Start :
           /\ DOMAIN t.account \subseteq User /\ DOMAIN t.owner = Planet /\ DOMAIN t.kept = User
           /\ \A u \in DOMAIN t.account :
                 t.account[u] \in [alliance : DOMAIN t.alliance \cup {NoAlliance}, home : Planet,
                                  last : {0}, source : SUBSET Accounts!Source]
           /\ \A a \in DOMAIN t.alliance :
                 /\ a \in 1 .. Accounts!FirstId /\ t.alliance[a] \in DOMAIN t.account
                 /\ t.account[t.alliance[a]].alliance = a
                 /\ Cardinality({u \in DOMAIN t.account : t.account[u].alliance = a}) <= MaxSize
           /\ \A j \in DOMAIN t.joins : /\ t.joins[j].user \in DOMAIN t.account
                                        /\ t.joins[j].alliance \in DOMAIN t.alliance
<1>1. Accounts!StartAssumption
  BY DEF AccountsParameters
<1>2. ASSUME NEW t \in Start
      PROVE  \A a \in DOMAIN t.alliance :
                Cardinality({u \in DOMAIN t.account : t.account[u].alliance = a}) <= MaxSize
  <2>1. \A a \in DOMAIN t.alliance :
           Accounts!Cardinality({u \in DOMAIN t.account : t.account[u].alliance = a}) <= MaxSize
    BY <1>1, <1>2 DEF Accounts!StartAssumption
  <2> QED
    BY <2>1, SameOperators
<1> QED
  BY <1>1, <1>2 DEF Accounts!StartAssumption

(* Rounding goes half a second up or less than that down, and keeps order. *)
LEMMA RoundedFacts ==
    ASSUME AccountsParameters, NEW t \in Nat
    PROVE  /\ Accounts!Rounded(t) \in Nat
           /\ 2 * Accounts!Rounded(t) <= 2 * t + Parts
           /\ 2 * t - Parts <= 2 * Accounts!Rounded(t)
           /\ \A n \in Nat : t <= n => Accounts!Rounded(t) <= Accounts!Rounded(n)
<1>1. PICK P \in Nat \ {0} : P = Parts
  BY AccountsFacts
<1>2. PICK d \in Nat \ {0} : d = 2 * P
  OBVIOUS
<1>3. ASSUME NEW n \in Nat
      PROVE  \E k \in Nat : /\ k = (2 * n + P) \div d /\ d * k <= 2 * n + P /\ 2 * n + P < d * k + d
  <2>1. PICK m \in Nat : m = 2 * n + P
    OBVIOUS
  <2>2. PICK k \in Nat : k = m \div d
    OBVIOUS
  <2>3. d * k <= m /\ m < d * k + d
    BY <2>2
  <2> QED
    BY <2>1, <2>2, <2>3
<1>4. ASSUME NEW n \in Nat
      PROVE  Accounts!Rounded(n) = P * ((2 * n + P) \div d)
  BY <1>1, <1>2 DEF Accounts!Rounded
<1>5. PICK k \in Nat : /\ k = (2 * t + P) \div d /\ d * k <= 2 * t + P /\ 2 * t + P < d * k + d
  BY <1>3
<1>6. PICK x \in Nat : x = P * k
  OBVIOUS
<1>7. d * k = 2 * x
  BY <1>2, <1>6
<1>8. x <= t + P /\ 2 * x <= 2 * t + P /\ 2 * t - P <= 2 * x
  BY <1>2, <1>5, <1>7
<1>9. ASSUME NEW n \in Nat, t <= n
      PROVE  Accounts!Rounded(t) <= Accounts!Rounded(n)
  <2>1. PICK j \in Nat : /\ j = (2 * n + P) \div d /\ d * j <= 2 * n + P /\ 2 * n + P < d * j + d
    BY <1>3
  <2>2. k <= j
    <3>1. CASE k >= j + 1
      <4>1. d * k >= d * (j + 1)
        BY <3>1
      <4>2. d * (j + 1) = d * j + d
        OBVIOUS
      <4> QED
        BY <1>5, <1>9, <2>1, <4>1, <4>2
    <3> QED
      BY <3>1
  <2>3. P * k <= P * j
    BY <2>2
  <2> QED
    BY <1>4, <1>5, <2>1, <2>3
<1> QED
  BY <1>1, <1>4, <1>5, <1>6, <1>8, <1>9

(* The rows of the players.                                                *)
Row(q) ==
    /\ DOMAIN q = {"alliance", "home", "last", "source"}
    /\ q.last \in Nat /\ q.source \subseteq Accounts!Source

RowsTyped == Accounts!Subscribed \subseteq User /\ \A u \in Accounts!Subscribed : Row(account[u])

(* What a request carries: the fields its steps look at.                   *)
Found == {"accrue", "emit"}

Carries(q) ==
    /\ {"kind", "at", "reads", "stale"} \subseteq DOMAIN q
    /\ q.kind \notin {"idle", "edit"} => {"user", "saw"} \subseteq DOMAIN q /\ q.user \in User
    /\ q.kind \in Found => /\ DOMAIN q.saw = {"last", "value", "now"}
                           /\ q.saw.last \in Nat /\ q.saw.now \in Nat
    /\ q.at = "insert" => q.kind \in Found
    /\ q.at = "credit" => q.kind = "accrue"

RequestsTyped == DOMAIN req = Request /\ \A r \in Request : Carries(req[r])

(* What was paid to a player.                                              *)
Purse(p) ==
    DOMAIN p = {"time", "times", "from"} /\ p.time \in Int /\ p.times \in Nat /\ p.from \in Nat

Typed ==
    /\ RowsTyped
    /\ now \in Nat /\ ids \in Nat /\ worth \in Int
    /\ DOMAIN paid = User
    /\ \A u \in User : Purse(paid[u])
    /\ RequestsTyped

------------------------------------------------------------------------------
(* What another request's write does to a request.                         *)
LEMMA OvertakenKeeps ==
    ASSUME NEW q, NEW W, {"kind", "at", "reads", "stale"} \subseteq DOMAIN q
    PROVE  LET o == Accounts!Overtaken(q, W) IN
           /\ DOMAIN o = DOMAIN q
           /\ o.kind = q.kind /\ o.at = q.at /\ o.reads = q.reads
           /\ {"user", "saw"} \subseteq DOMAIN q => o.user = q.user /\ o.saw = q.saw
           /\ o.stale = q.stale \cup (q.reads \cap W)
  BY DEF Accounts!Overtaken

(* Being overtaken changes nothing of what a request carries.              *)
LEMMA OvertakenCarries ==
    ASSUME NEW q, NEW W, Carries(q)
    PROVE  Carries(Accounts!Overtaken(q, W))
<1> DEFINE o == Accounts!Overtaken(q, W)
<1>1. {"kind", "at", "reads", "stale"} \subseteq DOMAIN q
  BY DEF Carries
<1>2. /\ DOMAIN o = DOMAIN q
      /\ o.kind = q.kind /\ o.at = q.at /\ o.reads = q.reads
      /\ {"user", "saw"} \subseteq DOMAIN q => o.user = q.user /\ o.saw = q.saw
  BY <1>1, OvertakenKeeps
<1> HIDE DEF o
<1>3. Carries(o)
  BY <1>1, <1>2 DEF Carries, Found
<1> QED
  BY <1>3 DEF o

(* A request that rests carries nothing.                                   *)
LEMMA IdleCarries == Carries(Accounts!Idle) /\ Accounts!Idle.kind = "idle" /\ Accounts!Idle.at = "rest"
  BY DEF Carries, Accounts!Idle, Found

(* The rows after a change of the alliance of some.                        *)
LEMMA SetAllianceKeeps ==
    ASSUME NEW us, NEW a, RowsTyped
    PROVE  /\ DOMAIN Accounts!SetAlliance(us, a) = Accounts!Subscribed
           /\ \A u \in Accounts!Subscribed :
                 /\ Row(Accounts!SetAlliance(us, a)[u])
                 /\ Accounts!SetAlliance(us, a)[u].last = account[u].last
                 /\ Accounts!SetAlliance(us, a)[u].source = account[u].source
                 /\ Accounts!SetAlliance(us, a)[u].alliance =
                       IF u \in us THEN a ELSE account[u].alliance
  BY DEF Accounts!SetAlliance, RowsTyped, Row, Accounts!Subscribed

(* The types hold at first.                                                *)
LEMMA InitTyped ==
    ASSUME AccountsParameters
    PROVE  Accounts!Init => Typed
<1> SUFFICES ASSUME Accounts!Init PROVE Typed
  OBVIOUS
<1>1. RowsTyped
  BY StartFacts DEF Accounts!Init, RowsTyped, Row, Accounts!Subscribed
<1>2. \A r \in Request : Carries(req[r])
  BY IdleCarries DEF Accounts!Init
<1> QED
  BY <1>1, <1>2 DEF Accounts!Init, Typed, Purse, Accounts!FirstId, RequestsTyped

------------------------------------------------------------------------------
(* The requests after a step.                                              *)
LEMMA AdvanceTyped ==
    ASSUME RequestsTyped, NEW r \in Request, NEW q, NEW W, Carries(q), Accounts!Advance(r, q, W)
    PROVE  RequestsTyped'
  BY OvertakenCarries DEF RequestsTyped, Accounts!Advance

(* A request that proceeds keeps the types.                                *)
LEMMA ProceedTyped ==
    ASSUME RequestsTyped, NEW r \in Request, NEW q, NEW W, Carries(q), Accounts!Proceed(r, q, W)
    PROVE  RequestsTyped'
  BY AdvanceTyped DEF Accounts!Proceed

(* A request that begins keeps the types.                                  *)
LEMMA BeginTyped ==
    ASSUME RequestsTyped, NEW r \in Request, NEW kind, NEW u \in User, NEW saw, NEW reads,
           kind \notin Found, Accounts!Begin(r, kind, u, saw, reads)
    PROVE  RequestsTyped'
<1> DEFINE q == [kind |-> kind, at |-> "commit", user |-> u, saw |-> saw,
                 reads |-> reads, stale |-> {}]
<1>1. Carries(q)
  BY DEF Carries
<1>2. req' = [req EXCEPT ![r] = q]
  BY DEF Accounts!Begin
<1> HIDE DEF q
<1> QED
  BY <1>1, <1>2 DEF RequestsTyped

(* The request that has found the aggregate.                               *)
LEMMA FoundCarries ==
    ASSUME RequestsTyped, now \in Nat, NEW r \in Request, NEW value, req[r].kind \in Found
    PROVE  /\ Carries(Accounts!HasFound(r, value))
           /\ Accounts!HasFound(r, value) # Accounts!Idle =>
                 /\ Accounts!HasFound(r, value).kind = "accrue" /\ Accounts!HasFound(r, value).at = "credit"
                 /\ Accounts!HasFound(r, value).user = req[r].user
                 /\ Accounts!HasFound(r, value).saw.last = req[r].saw.last
                 /\ Accounts!HasFound(r, value).saw.now = now
                 /\ Accounts!HasFound(r, value).reads = req[r].reads
                 /\ Accounts!HasFound(r, value).stale = req[r].stale
<1>1. CASE req[r].kind = "emit"
  BY <1>1, IdleCarries DEF Accounts!HasFound
<1>2. CASE req[r].kind = "accrue"
  BY <1>2 DEF Accounts!HasFound, RequestsTyped, Carries, Found
<1> QED
  BY <1>1, <1>2 DEF Found

(* What most steps leave alone.                                            *)
LEMMA QuietTyped ==
    ASSUME Typed, RequestsTyped', RowsTyped', ids' \in Nat, worth' \in Int,
           UNCHANGED <<now, paid>>
    PROVE  Typed'
  BY DEF Typed

(* Every step keeps the types.                                             *)
LEMMA NextTyped ==
    ASSUME AccountsParameters, Typed, [Accounts!Next]_(Accounts!vars)
    PROVE  Typed'
<1> USE DEF Accounts!tables
<1>0. RequestsTyped /\ RowsTyped /\ ids \in Nat /\ worth \in Int /\ now \in Nat /\ Carries(Accounts!Idle)
  BY IdleCarries DEF Typed
<1>a. ASSUME UNCHANGED <<account, now>>
      PROVE  RowsTyped'
  BY <1>a, <1>0 DEF RowsTyped, Row, Accounts!Subscribed
<1>b. ASSUME NEW us, NEW a, account' = Accounts!SetAlliance(us, a), now' = now
      PROVE  RowsTyped'
  <2>1. /\ DOMAIN account' = Accounts!Subscribed
        /\ \A u \in Accounts!Subscribed : Row(account'[u])
    BY <1>b, <1>0, SetAllianceKeeps
  <2> QED
    BY <1>0, <2>1 DEF RowsTyped, Accounts!Subscribed
<1>c. ASSUME NEW r \in Request, NEW kind, NEW u \in User, NEW saw, NEW reads,
             kind \notin Found, Accounts!Begin(r, kind, u, saw, reads)
      PROVE  Typed'
  <2>1. RequestsTyped'
    BY <1>0, <1>c, BeginTyped
  <2> QED
    BY <1>a, <1>0, <1>c, <2>1, QuietTyped DEF Accounts!Begin
<1>d. ASSUME NEW r \in Request, NEW W, Accounts!Proceed(r, Accounts!Idle, W), RowsTyped', ids' \in Nat,
             UNCHANGED <<now, paid, worth>>
      PROVE  Typed'
  <2>1. RequestsTyped'
    BY <1>0, <1>d, ProceedTyped
  <2> QED
    BY <1>0, <1>d, <2>1, QuietTyped
<1>e. ASSUME NEW r \in Request, Accounts!Refused(r), now' = now
      PROVE  Typed'
  BY <1>0, <1>a, <1>d, <1>e DEF Accounts!Refused
<1>1. ASSUME NEW r \in Request, NEW u \in User, Accounts!Handle(r, u)
      PROVE  Typed'
  <2> USE DEF Found
  <2>1. CASE Accounts!Subscribe(r, u)
    BY <2>1, <1>c DEF Accounts!Subscribe
  <2>2. CASE Accounts!DeleteAccount(r, u)
    BY <2>2, <1>c DEF Accounts!DeleteAccount
  <2>3. CASE Accounts!Create(r, u)
    BY <2>3, <1>c DEF Accounts!Create
  <2>4. CASE Accounts!RequestJoin(r, u)
    BY <2>4, <1>c DEF Accounts!RequestJoin
  <2>5. CASE Accounts!Accept(r, u)
    BY <2>5, <1>c DEF Accounts!Accept
  <2>6. CASE Accounts!Reject(r, u)
    BY <2>6, <1>c DEF Accounts!Reject
  <2>7. CASE Accounts!Leave(r, u)
    BY <2>7, <1>c DEF Accounts!Leave
  <2>8. CASE Accounts!Dissolve(r, u)
    BY <2>8, <1>c DEF Accounts!Dissolve
  <2>9. CASE Accounts!Accrue(r, u)
    <3> DEFINE q == [kind |-> "accrue", at |-> "commit", user |-> u,
                     saw |-> [last |-> account[u].last, value |-> 0, now |-> 0],
                     reads |-> {Accounts!Last(u)}, stale |-> {}]
    <3>1. account[u].last \in Nat
      BY <1>0, <2>9 DEF Accounts!Accrue, RowsTyped, Row
    <3>2. Carries(q)
      BY <3>1 DEF Carries
    <3>3. req' = [req EXCEPT ![r] = q] /\ UNCHANGED <<Accounts!tables, now, ids, paid>>
      BY <2>9 DEF Accounts!Accrue, Accounts!Begin
    <3> HIDE DEF q
    <3>4. RequestsTyped'
      BY <1>0, <3>2, <3>3 DEF RequestsTyped
    <3> QED
      BY <1>a, <1>0, <3>3, <3>4, QuietTyped
  <2>10. ASSUME NEW s \in Accounts!Source, Accounts!Improve(r, u, s)
         PROVE  Typed'
    <3> DEFINE q == [kind |-> "emit", at |-> "evict", user |-> u,
                     saw |-> [last |-> 0, value |-> 0, now |-> 0], reads |-> {}, stale |-> {}]
    <3>1. Carries(q)
      BY DEF Carries
    <3>2. RequestsTyped'
      BY <1>0, <2>10, <3>1, ProceedTyped DEF Accounts!Improve
    <3>3. RowsTyped'
      BY <1>0, <2>10 DEF Accounts!Improve, RowsTyped, Row, Accounts!Subscribed
    <3> QED
      BY <1>0, <2>10, <3>2, <3>3, QuietTyped DEF Accounts!Improve
  <2> QED
    BY <1>1, <2>1, <2>2, <2>3, <2>4, <2>5, <2>6, <2>7, <2>8, <2>9, <2>10 DEF Accounts!Handle
<1>2. ASSUME NEW r \in Request, Accounts!Go(r)
      PROVE  Typed'
  <2>1. CASE Accounts!CommitSubscribe(r)
    <3>1. CASE req[r].user \in Accounts!Subscribed
      BY <2>1, <3>1, <1>e DEF Accounts!CommitSubscribe
    <3>2. CASE req[r].user \notin Accounts!Subscribed
      <4> DEFINE u == req[r].user
                 fresh == [alliance |-> NoAlliance, home |-> req[r].saw, last |-> Accounts!Rounded(now),
                           source |-> {}]
      <4>1. u \in User
        BY <1>0, <2>1 DEF RequestsTyped, Carries, Accounts!CommitSubscribe, Accounts!Committing
      <4>2. /\ account' = Accounts!Put(account, u, fresh)
            /\ paid' = [paid EXCEPT ![u] = [time |-> 0, times |-> 0, from |-> Accounts!Rounded(now)]]
            /\ \E W : Accounts!Advance(r, Accounts!Idle, W)
            /\ UNCHANGED <<worth, ids, now>>
        BY <2>1, <3>2 DEF Accounts!CommitSubscribe
      <4>3. RequestsTyped'
        BY <1>0, <4>2, AdvanceTyped
      <4>4. Row(fresh)
        BY <1>0, RoundedFacts DEF Row
      <4>5. RowsTyped'
        BY <1>0, <4>1, <4>2, <4>4 DEF RowsTyped, Row, Accounts!Subscribed, Accounts!Put
      <4>6. /\ DOMAIN paid' = User
            /\ \A v \in User : Purse(paid'[v])
        BY SMTT(60), <1>0, <4>1, <4>2, RoundedFacts DEF Typed, Purse
      <4>7. now' \in Nat /\ ids' \in Nat /\ worth' \in Int
        BY <2>1, <3>2 DEF Typed, Accounts!CommitSubscribe
      <4> QED
        BY <4>3, <4>5, <4>6, <4>7 DEF Typed
    <3> QED
      BY <3>1, <3>2
  <2>2. CASE Accounts!CommitDeleteAccount(r)
    <3> DEFINE u == req[r].user
               homeless == UNION {Accounts!MembersOf(a) : a \in Accounts!AlliancesOf(u)}
    <3>1. CASE u \notin Accounts!Subscribed \/ ~Accounts!Deletable(u)
      BY <2>2, <3>1, <1>e DEF Accounts!CommitDeleteAccount
    <3>2. CASE ~(u \notin Accounts!Subscribed \/ ~Accounts!Deletable(u))
      <4>1. /\ account' = Accounts!Without(Accounts!SetAlliance(homeless, NoAlliance), {u})
            /\ \E W : Accounts!Proceed(r, Accounts!Idle, W)
            /\ UNCHANGED <<worth, ids, paid, now>>
        BY <2>2, <3>2 DEF Accounts!CommitDeleteAccount
      <4>2. /\ DOMAIN Accounts!SetAlliance(homeless, NoAlliance) = Accounts!Subscribed
            /\ \A v \in Accounts!Subscribed : Row(Accounts!SetAlliance(homeless, NoAlliance)[v])
        BY <1>0, SetAllianceKeeps
      <4>3. /\ DOMAIN account' = Accounts!Subscribed \ {u}
            /\ \A v \in Accounts!Subscribed \ {u} : Row(account'[v])
        <5> HIDE DEF homeless, u
        <5> QED
          BY <4>1, <4>2 DEF Accounts!Without
      <4>4. RowsTyped'
        BY <1>0, <4>3 DEF RowsTyped, Accounts!Subscribed
      <4> QED
        BY <1>0, <1>d, <4>1, <4>4
    <3> QED
      BY <3>1, <3>2
  <2>3. CASE Accounts!CommitCreate(r)
    <3>1. Accounts!Refused(r) \/ /\ \E us, a : account' = Accounts!SetAlliance(us, a)
                                 /\ ids' = ids + 1 /\ \E W : Accounts!Proceed(r, Accounts!Idle, W)
                                 /\ UNCHANGED <<worth, paid>>
      BY <2>3 DEF Accounts!CommitCreate
    <3>2. now' = now
      BY <2>3 DEF Accounts!CommitCreate
    <3> QED
      BY <1>0, <1>b, <1>d, <1>e, <3>1, <3>2
  <2>4. CASE Accounts!CommitRequestJoin(r)
    <3>1. Accounts!Refused(r) \/ /\ ids' = ids + 1 /\ \E W : Accounts!Proceed(r, Accounts!Idle, W)
                                 /\ UNCHANGED <<account, worth, paid>>
      BY <2>4 DEF Accounts!CommitRequestJoin
    <3>2. now' = now
      BY <2>4 DEF Accounts!CommitRequestJoin
    <3> QED
      BY <1>0, <1>a, <1>d, <1>e, <3>1, <3>2
  <2>5. CASE Accounts!CommitAccept(r)
    <3>1. Accounts!Refused(r) \/ /\ (\E us, a : account' = Accounts!SetAlliance(us, a)) \/ account' = account
                                 /\ \E W : Accounts!Proceed(r, Accounts!Idle, W)
                                 /\ UNCHANGED <<worth, ids, paid>>
      BY <2>5 DEF Accounts!CommitAccept
    <3>2. now' = now
      BY <2>5 DEF Accounts!CommitAccept
    <3> QED
      BY <1>0, <1>a, <1>b, <1>d, <1>e, <3>1, <3>2
  <2>6. CASE Accounts!CommitReject(r) \/ Accounts!CommitLeave(r) \/ Accounts!CommitDissolve(r)
    <3>1. /\ (\E us, a : account' = Accounts!SetAlliance(us, a)) \/ account' = account
          /\ \E W : Accounts!Proceed(r, Accounts!Idle, W)
          /\ UNCHANGED <<worth, ids, paid, now>>
      BY <2>6 DEF Accounts!CommitReject, Accounts!CommitLeave, Accounts!CommitDissolve
    <3> QED
      BY <1>0, <1>a, <1>b, <1>d, <3>1
  <2>7. CASE Accounts!Hit(r)
    <3>1. /\ req[r].kind \in Found /\ UNCHANGED <<Accounts!tables, now, ids, paid>>
          /\ \E value : Accounts!Proceed(r, Accounts!HasFound(r, value), {})
      BY <2>7 DEF Accounts!Hit, Accounts!Looking, Accounts!Committing, Found
    <3>2. RequestsTyped'
      BY <1>0, <3>1, FoundCarries, ProceedTyped
    <3> QED
      BY <1>0, <1>a, <3>1, <3>2, QuietTyped
  <2>8. CASE Accounts!Compute(r)
    <3>1. Carries(req[r]) /\ req[r].kind \in Found
      BY <1>0, <2>8
         DEF Accounts!Compute, Accounts!Looking, Accounts!Committing, Found, RequestsTyped
    <3>2. Carries(req'[r])
      BY <1>0, <2>8, <3>1 DEF Accounts!Compute, RequestsTyped, Carries, Found
    <3>3. RequestsTyped'
      BY <1>0, <2>8, <3>2 DEF Accounts!Compute, RequestsTyped
    <3> QED
      BY <1>0, <1>a, <2>8, <3>3, QuietTyped DEF Accounts!Compute
  <2>9. CASE Accounts!Insert(r)
    <3>1. req[r].kind \in Found
      BY <1>0, <2>9 DEF Accounts!Insert, RequestsTyped, Carries
    <3>2. \E value : req' = [req EXCEPT ![r] = Accounts!HasFound(r, value)]
      BY <2>9 DEF Accounts!Insert
    <3>3. RequestsTyped'
      BY <1>0, <3>1, <3>2, FoundCarries DEF RequestsTyped
    <3> QED
      BY <1>0, <1>a, <2>9, <3>3, QuietTyped DEF Accounts!Insert
  <2>10. CASE Accounts!Credit(r)
    <3> DEFINE u == req[r].user
    <3>1. CASE u \notin Accounts!Subscribed
      BY <2>10, <3>1, <1>e DEF Accounts!Credit
    <3>2. CASE u \in Accounts!Subscribed
      <4>1. u \in User /\ req[r].saw.now \in Nat /\ req[r].saw.last \in Nat
        BY <1>0, <2>10 DEF Accounts!Credit, RequestsTyped, Carries, Found
      <4>2. /\ account' = [account EXCEPT ![u].last = Accounts!Rounded(req[r].saw.now)]
            /\ paid' = [paid EXCEPT ![u].time = @ + req[r].saw.now - req[r].saw.last,
                                    ![u].times = @ + 1]
            /\ req' = [s \in Request |-> IF s = r THEN Accounts!Idle ELSE Accounts!Overtaken(req[s], {Accounts!Last(u)})]
            /\ UNCHANGED <<worth, ids, now>>
        BY <2>10, <3>2 DEF Accounts!Credit, Accounts!Stamp
      <4>3. RequestsTyped'
        BY <1>0, <4>2, OvertakenCarries DEF RequestsTyped
      <4>4. RowsTyped'
        <5>1. Accounts!Rounded(req[r].saw.now) \in Nat
          BY SMTT(60), <4>1, RoundedFacts
        <5> QED
          BY <1>0, <4>1, <4>2, <5>1 DEF RowsTyped, Row, Accounts!Subscribed
      <4>5. /\ DOMAIN paid' = User
            /\ \A v \in User : Purse(paid'[v])
        <5>1. \A v \in User : Purse(paid[v])
          BY DEF Typed
        <5> QED
          BY <4>1, <4>2, <5>1 DEF Typed, Purse
      <4> QED
        BY <1>0, <4>2, <4>3, <4>4, <4>5 DEF Typed
    <3> QED
      BY <3>1, <3>2
  <2>11. CASE Accounts!EvictAndEmit(r)
    <3>1. Carries(req'[r])
      BY <1>0, <2>11 DEF Accounts!EvictAndEmit, RequestsTyped, Carries, Found
    <3>2. RequestsTyped'
      BY <1>0, <2>11, <3>1 DEF Accounts!EvictAndEmit, RequestsTyped
    <3> QED
      BY <1>0, <1>a, <2>11, <3>2, QuietTyped DEF Accounts!EvictAndEmit
  <2>12. CASE Accounts!EditImprovement(r)
    <3>1. Carries([kind |-> "edit", at |-> "evict", reads |-> {}, stale |-> {}])
      BY DEF Carries, Found
    <3>2. RequestsTyped'
      BY <1>0, <2>12, <3>1, ProceedTyped DEF Accounts!EditImprovement
    <3> QED
      BY <1>0, <1>a, <2>12, <3>2, QuietTyped DEF Accounts!EditImprovement
  <2>13. CASE Accounts!EvictAll(r) \/ Accounts!Vanish(r)
    <3>1. RequestsTyped'
      BY <1>0, <2>13 DEF Accounts!EvictAll, Accounts!Vanish, RequestsTyped
    <3> QED
      BY <1>0, <1>a, <2>13, <3>1, QuietTyped DEF Accounts!EvictAll, Accounts!Vanish
  <2> QED
    BY <1>2, <2>1, <2>2, <2>3, <2>4, <2>5, <2>6, <2>7, <2>8, <2>9, <2>10, <2>11, <2>12,
       <2>13 DEF Accounts!Go
<1>3. ASSUME NEW j \in DOMAIN joins, Accounts!Withdraw(j)
      PROVE  Typed'
  <2>1. RequestsTyped'
    BY <1>0, <1>3, OvertakenCarries DEF RequestsTyped, Accounts!Withdraw
  <2> QED
    BY <1>a, <1>3, <2>1, <1>0, QuietTyped DEF Accounts!Withdraw
<1>4. ASSUME NEW u \in User, Accounts!Restack(u)
      PROVE  Typed'
  <2>1. RequestsTyped'
    BY <1>0, <1>4, OvertakenCarries DEF RequestsTyped, Accounts!Restack
  <2>2. RowsTyped'
    BY <1>0, <1>4 DEF RowsTyped, Row, Accounts!Restack, Accounts!Subscribed, Accounts!Source
  <2> QED
    BY <1>4, <2>1, <2>2, <1>0, QuietTyped DEF Accounts!Restack
<1>5. CASE Accounts!Restart
  <2>1. RequestsTyped'
    BY <1>0, <1>5 DEF RequestsTyped, Accounts!Restart
  <2> QED
    BY <1>a, <1>5, <2>1, <1>0, QuietTyped DEF Accounts!Restart
<1>6. CASE Accounts!Tick
  <2>1. RowsTyped'
    BY <1>0, <1>6 DEF Accounts!Tick, Typed, RowsTyped, Row, Accounts!Subscribed
  <2> QED
    BY <1>0, <1>6, <2>1 DEF Accounts!Tick, Typed, RequestsTyped
<1>7. CASE UNCHANGED Accounts!vars
  BY <1>7
     DEF Accounts!vars, Typed, RowsTyped, RequestsTyped, Row, Accounts!Subscribed
<1> QED
  BY <1>1, <1>2, <1>3, <1>4, <1>5, <1>6, <1>7 DEF Accounts!Next

------------------------------------------------------------------------------
(* The time to last_action has been paid, but for the rounding, and the    *)
(* requests on their way know it of what they read.                        *)
PaidUp(u, n) == 2 * paid[u].time + Parts * paid[u].times >= 2 * (n - paid[u].from)

PaidOnce(u, n) == 2 * paid[u].time - Parts * paid[u].times <= 2 * (n - paid[u].from)

(* A request that pays from the last_action it read to the clock it read.  *)
Counted(q) ==
    q.kind = "accrue" =>
       /\ Accounts!Last(q.user) \in q.reads
       /\ q.saw.last <= Accounts!Rounded(now) /\ PaidUp(q.user, q.saw.last)
       /\ q.at = "credit" => q.saw.last <= Accounts!Rounded(q.saw.now) /\ q.saw.now <= now
       /\ Accounts!Last(q.user) \notin q.stale =>
             q.user \in Accounts!Subscribed /\ account[q.user].last = q.saw.last

RowsCounted ==
    \A u \in Accounts!Subscribed : /\ account[u].last <= Accounts!Rounded(now) /\ PaidUp(u, account[u].last)
                                   /\ Accounts!Last(u) \notin crossed => PaidOnce(u, account[u].last)

Accounted == RowsCounted /\ \A r \in Request : Counted(req[r])

(* A step that credits nothing.                                            *)
Uncredited == UNCHANGED <<now, paid>>

(* It leaves the last_action of everybody.                                 *)
LastsStay ==
    /\ Accounts!Subscribed' = Accounts!Subscribed
    /\ \A u \in Accounts!Subscribed : account'[u].last = account[u].last

CrossedStays == \A u \in User : Accounts!Last(u) \in crossed => Accounts!Last(u) \in crossed'

(* The counting invariant holds at first.                                  *)
LEMMA InitAccounted ==
    ASSUME AccountsParameters
    PROVE  Accounts!Init => Accounted
<1> SUFFICES ASSUME Accounts!Init
             PROVE  Accounted
  OBVIOUS
<1>1. Accounts!Rounded(0) \in Nat /\ Parts \in Nat
  BY RoundedFacts, AccountsFacts
<1>2. ASSUME NEW u \in Accounts!Subscribed
      PROVE  u \in User /\ account[u].last = 0
  BY <1>2, StartFacts DEF Accounts!Init, Accounts!Subscribed
<1>3. RowsCounted
  BY <1>1, <1>2 DEF Accounts!Init, RowsCounted, PaidUp, PaidOnce
<1> QED
  BY <1>3 DEF Accounts!Init, Accounted, Counted, Accounts!Idle

(* What a request counted stays right while no account is credited.        *)
LEMMA QuietOvertaken ==
    ASSUME NEW q, NEW W, Carries(q), Counted(q), Uncredited, LastsStay
    PROVE  Counted(Accounts!Overtaken(q, W))'
<1> DEFINE o == Accounts!Overtaken(q, W)
<1>1. {"kind", "at", "reads", "stale"} \subseteq DOMAIN q
  BY DEF Carries
<1>2. /\ o.kind = q.kind /\ o.at = q.at /\ o.reads = q.reads
      /\ {"user", "saw"} \subseteq DOMAIN q => o.user = q.user /\ o.saw = q.saw
      /\ o.stale = q.stale \cup (q.reads \cap W)
  BY <1>1, OvertakenKeeps
<1>3. q.kind = "accrue" => {"user", "saw"} \subseteq DOMAIN q
  BY DEF Carries
<1> HIDE DEF o
<1>4. Counted(o)'
  BY <1>2, <1>3 DEF Counted, Uncredited, LastsStay, PaidUp, Accounts!Last
<1> QED
  BY <1>4 DEF o

(* What most steps do to the requests.                                     *)
LEMMA QuietAdvance ==
    ASSUME Typed, Accounted, Uncredited, LastsStay,
           NEW r \in Request, NEW q, NEW W, Accounts!Advance(r, q, W), Counted(q)'
    PROVE  \A s \in Request : Counted(req[s])'
<1>1. \A s \in Request : Carries(req[s]) /\ Counted(req[s])
  BY DEF Typed, RequestsTyped, Accounted
<1>2. ASSUME NEW s \in Request, NEW p, p = Accounts!Overtaken(req[s], W)
      PROVE  Counted(p)'
  <2>1. ASSUME NEW o, o = req[s]
        PROVE  Counted(Accounts!Overtaken(o, W))'
    BY <1>1, <2>1, QuietOvertaken
  <2> QED
    BY <1>2, <2>1
<1>3. ASSUME NEW s \in Request, NEW p, p = req'[s]
      PROVE  Counted(p)'
  BY <1>2, <1>3 DEF Accounts!Advance
<1> QED
  BY <1>3 DEF Counted

(* Steps that touch no counted row keep the counting invariant.            *)
LEMMA QuietAccounted ==
    ASSUME Typed, Accounted, Uncredited, LastsStay, CrossedStays,
           \A r \in Request : Counted(req[r])'
    PROVE  Accounted'
<1>1. RowsCounted'
  <2> SUFFICES ASSUME NEW u \in Accounts!Subscribed
               PROVE  /\ account'[u].last <= Accounts!Rounded(now') /\ PaidUp(u, account[u].last)'
                      /\ Accounts!Last(u) \notin crossed' => PaidOnce(u, account[u].last)'
    BY DEF RowsCounted, LastsStay, Accounts!Last
  <2>1. u \in User /\ account'[u].last = account[u].last /\ now' = now /\ paid' = paid
    BY DEF Typed, RowsTyped, LastsStay, Uncredited
  <2>2. /\ account[u].last <= Accounts!Rounded(now) /\ PaidUp(u, account[u].last)
        /\ Accounts!Last(u) \notin crossed => PaidOnce(u, account[u].last)
    BY DEF Accounted, RowsCounted
  <2> QED
    BY <2>1, <2>2 DEF CrossedStays, PaidUp, PaidOnce
<1> QED
  BY <1>1 DEF Accounted

(* What a request that only ends, or goes on without crediting, leaves.    *)
LEMMA ProceedAccounted ==
    ASSUME Typed, Accounted, Uncredited, LastsStay,
           NEW r \in Request, NEW q, NEW W, Accounts!Proceed(r, q, W), Counted(q)'
    PROVE  Accounted'
<1>1. \A s \in Request : Counted(req[s])'
  BY QuietAdvance DEF Accounts!Proceed
<1> QED
  BY <1>1, QuietAccounted DEF Accounts!Proceed, CrossedStays

(* The requests a step leaves alone.                                       *)
LEMMA OthersCounted ==
    ASSUME Typed, Accounted, Uncredited, LastsStay, CrossedStays,
           NEW r \in Request, Counted(req[r])', DOMAIN req' = Request,
           \A s \in Request \ {r} : req'[s] = req[s]
    PROVE  Accounted'
<1>1. ASSUME NEW s \in Request \ {r}
      PROVE  Counted(req[s])'
  BY <1>1 DEF Accounted, Counted, Uncredited, LastsStay, PaidUp
<1> QED
  BY <1>1, QuietAccounted

(* A step that writes the row, or the payments, of one player.             *)
OnlyFor(u) ==
    /\ \A v \in User \ {u} :
          /\ paid'[v] = paid[v]
          /\ v \in Accounts!Subscribed' <=> v \in Accounts!Subscribed
          /\ v \in Accounts!Subscribed => account'[v].last = account[v].last
    /\ \A n \in Nat : n <= Accounts!Rounded(now) /\ PaidUp(u, n) => PaidUp(u, n)'

(* ... and when only the account of u is credited, its reader is           *)
(* overtaken.                                                              *)
LEMMA OneOvertaken ==
    ASSUME NEW q, NEW W, NEW u \in User, Carries(q), Counted(q), now' = now, OnlyFor(u),
           Accounts!Last(u) \in W
    PROVE  Counted(Accounts!Overtaken(q, W))'
<1> DEFINE o == Accounts!Overtaken(q, W)
<1>1. {"kind", "at", "reads", "stale"} \subseteq DOMAIN q
  BY DEF Carries
<1>2. /\ o.kind = q.kind /\ o.at = q.at /\ o.reads = q.reads
      /\ {"user", "saw"} \subseteq DOMAIN q => o.user = q.user /\ o.saw = q.saw
      /\ o.stale = q.stale \cup (q.reads \cap W)
  BY <1>1, OvertakenKeeps
<1>3. q.kind = "accrue" =>
         {"user", "saw"} \subseteq DOMAIN q /\ q.user \in User /\ q.saw.last \in Nat
  BY DEF Carries, Found
<1> HIDE DEF o
<1>4. ASSUME q.kind = "accrue"
      PROVE  Counted(o)'
  <2>1. o.user = q.user /\ o.saw = q.saw /\ Accounts!Last(q.user) \in o.reads
        /\ q.saw.last <= Accounts!Rounded(now) /\ PaidUp(q.user, q.saw.last)
        /\ (q.at = "credit" => q.saw.last <= Accounts!Rounded(q.saw.now) /\ q.saw.now <= now)
    BY <1>2, <1>3, <1>4 DEF Counted
  <2>2. PaidUp(q.user, q.saw.last)'
    BY <1>3, <1>4, <2>1 DEF OnlyFor, PaidUp
  <2>3. Accounts!Last(q.user) \notin o.stale =>
           q.user \in Accounts!Subscribed' /\ account'[q.user].last = q.saw.last
    <3>1. CASE q.user = u
      BY <1>2, <2>1, <3>1
    <3>2. CASE q.user # u
      BY <1>2, <1>3, <1>4, <3>2 DEF OnlyFor, Counted
    <3> QED
      BY <3>1, <3>2
  <2> QED
    BY <1>2, <2>1, <2>2, <2>3 DEF Counted
<1>5. Counted(o)'
  BY <1>2, <1>4 DEF Counted
<1> QED
  BY <1>5 DEF o

(* A step that credits one account keeps the counting invariant.           *)
LEMMA OneAccounted ==
    ASSUME Typed, Accounted, NEW r \in Request, NEW u \in User, NEW W,
           now' = now, OnlyFor(u), Accounts!Last(u) \in W, Accounts!Advance(r, Accounts!Idle, W), CrossedStays,
           Accounts!Subscribed' \subseteq User,
           u \in Accounts!Subscribed' =>
              /\ account'[u].last <= Accounts!Rounded(now) /\ PaidUp(u, account[u].last)'
              /\ Accounts!Last(u) \notin crossed' => PaidOnce(u, account[u].last)'
    PROVE  Accounted'
<1>1. \A s \in Request : Carries(req[s]) /\ Counted(req[s])
  BY DEF Typed, RequestsTyped, Accounted
<1>2. ASSUME NEW s \in Request, NEW p, p = Accounts!Overtaken(req[s], W)
      PROVE  Counted(p)'
  <2>1. ASSUME NEW o, o = req[s]
        PROVE  Counted(Accounts!Overtaken(o, W))'
    BY <1>1, <2>1, OneOvertaken
  <2> QED
    BY <1>2, <2>1
<1>3. ASSUME NEW s \in Request, NEW p, p = req'[s]
      PROVE  Counted(p)'
  BY <1>2, <1>3 DEF Accounts!Advance, Counted, Accounts!Idle
<1>4. \A s \in Request : Counted(req[s])'
  BY <1>3 DEF Counted
<1>5. ASSUME NEW v \in Accounts!Subscribed', v # u
      PROVE  /\ account'[v].last <= Accounts!Rounded(now') /\ PaidUp(v, account[v].last)'
             /\ Accounts!Last(v) \notin crossed' => PaidOnce(v, account[v].last)'
  <2>1. v \in Accounts!Subscribed /\ paid'[v] = paid[v] /\ account'[v].last = account[v].last
    BY <1>5 DEF OnlyFor
  <2>2. /\ account[v].last <= Accounts!Rounded(now) /\ PaidUp(v, account[v].last)
        /\ Accounts!Last(v) \notin crossed => PaidOnce(v, account[v].last)
    BY <2>1 DEF Accounted, RowsCounted
  <2> QED
    BY <1>5, <2>1, <2>2 DEF CrossedStays, PaidUp, PaidOnce
<1>6. RowsCounted'
  <2>1. \A v \in Accounts!Subscribed' : /\ account'[v].last <= Accounts!Rounded(now') /\ PaidUp(v, account[v].last)'
                                        /\ Accounts!Last(v) \notin crossed' => PaidOnce(v, account[v].last)'
    BY <1>5
  <2> QED
    BY <2>1 DEF RowsCounted, Accounts!Last
<1> QED
  BY <1>4, <1>6 DEF Accounted

(* Every step keeps the counting invariant.                                *)
LEMMA NextAccounted ==
    ASSUME AccountsParameters, Typed, Accounted, [Accounts!Next]_(Accounts!vars)
    PROVE  Accounted'
<1> USE DEF Accounts!tables
<1>i. Counted(Accounts!Idle)'
  BY DEF Counted, Accounts!Idle
<1>0. RequestsTyped /\ RowsTyped /\ now \in Nat
  BY DEF Typed
<1>l. ASSUME UNCHANGED account
      PROVE  LastsStay
  BY <1>l DEF LastsStay, Accounts!Subscribed
<1>s. ASSUME NEW us, NEW a, account' = Accounts!SetAlliance(us, a)
      PROVE  LastsStay
  BY <1>0, <1>s, SetAllianceKeeps DEF LastsStay, Accounts!Subscribed
<1>c. ASSUME NEW r \in Request, NEW kind, NEW u \in User, NEW saw, NEW reads,
             kind # "accrue", Accounts!Begin(r, kind, u, saw, reads)
      PROVE  Accounted'
  <2>1. Uncredited /\ LastsStay /\ CrossedStays
    BY <1>c, <1>l DEF Accounts!Begin, Uncredited, CrossedStays
  <2>2. DOMAIN req' = Request /\ req'[r].kind = kind /\ \A s \in Request \ {r} : req'[s] = req[s]
    BY <1>0, <1>c DEF Accounts!Begin, RequestsTyped
  <2>3. Counted(req[r])'
    BY <1>c, <2>2 DEF Counted
  <2> QED
    BY <2>1, <2>2, <2>3, OthersCounted
<1>e. ASSUME NEW r \in Request, Accounts!Refused(r), now' = now
      PROVE  Accounted'
  BY <1>e, <1>i, <1>l, ProceedAccounted DEF Accounts!Refused, Uncredited
<1>f. ASSUME NEW r \in Request, NEW value, NEW q, q = Accounts!HasFound(r, value),
             req[r].kind \in Found, UNCHANGED <<account, now, paid>>
      PROVE  Counted(q)'
  <2>1. CASE q = Accounts!Idle
    BY <2>1 DEF Counted, Accounts!Idle
  <2>2. CASE q # Accounts!Idle
    <3>1. /\ q.kind = "accrue" /\ q.at = "credit" /\ q.user = req[r].user
          /\ q.saw.last = req[r].saw.last /\ q.saw.now = now
          /\ q.reads = req[r].reads /\ q.stale = req[r].stale
      BY <1>0, <1>f, <2>2, FoundCarries
    <3>2. req[r].kind = "accrue"
      BY <1>f, <2>2 DEF Accounts!HasFound, Found
    <3>3. Counted(req[r])
      BY DEF Accounted
    <3> QED
      BY <1>0, <1>f, <3>1, <3>2, <3>3 DEF Counted, PaidUp, Accounts!Subscribed
  <2> QED
    BY <2>1, <2>2
<1>o. ASSUME NEW W, req' = [s \in Request |-> Accounts!Overtaken(req[s], W)], Uncredited, LastsStay,
             crossed \subseteq crossed'
      PROVE  Accounted'
  <2>1. ASSUME NEW s \in Request, NEW o, o = req[s]
        PROVE  Counted(Accounts!Overtaken(o, W))'
    BY <1>0, <1>o, <2>1, QuietOvertaken DEF RequestsTyped, Accounted
  <2>2. \A s \in Request : \A p : p = req'[s] => Counted(p)'
    BY <1>o, <2>1
  <2>3. \A s \in Request : Counted(req[s])'
    BY <2>2 DEF Counted
  <2> QED
    BY <1>o, <2>3, QuietAccounted DEF CrossedStays
<1>1. ASSUME NEW r \in Request, NEW u \in User, Accounts!Handle(r, u)
      PROVE  Accounted'
  <2>1. CASE Accounts!Subscribe(r, u)
    BY <2>1, <1>c DEF Accounts!Subscribe
  <2>2. CASE Accounts!DeleteAccount(r, u)
    BY <2>2, <1>c DEF Accounts!DeleteAccount
  <2>3. CASE Accounts!Create(r, u)
    BY <2>3, <1>c DEF Accounts!Create
  <2>4. CASE Accounts!RequestJoin(r, u)
    BY <2>4, <1>c DEF Accounts!RequestJoin
  <2>5. CASE Accounts!Accept(r, u)
    BY <2>5, <1>c DEF Accounts!Accept
  <2>6. CASE Accounts!Reject(r, u)
    BY <2>6, <1>c DEF Accounts!Reject
  <2>7. CASE Accounts!Leave(r, u)
    BY <2>7, <1>c DEF Accounts!Leave
  <2>8. CASE Accounts!Dissolve(r, u)
    BY <2>8, <1>c DEF Accounts!Dissolve
  <2>9. CASE Accounts!Accrue(r, u)
    <3>1. u \in Accounts!Subscribed /\ account[u].last <= Accounts!Rounded(now) /\ PaidUp(u, account[u].last)
      BY <2>9 DEF Accounts!Accrue, Accounted, RowsCounted
    <3>2. /\ DOMAIN req' = Request /\ \A s \in Request \ {r} : req'[s] = req[s]
          /\ req'[r].kind = "accrue" /\ req'[r].at = "commit" /\ req'[r].user = u
          /\ req'[r].saw.last = account[u].last
          /\ req'[r].reads = {Accounts!Last(u)} /\ req'[r].stale = {}
          /\ UNCHANGED <<account, now, paid, crossed>>
      BY <1>0, <2>9 DEF Accounts!Accrue, Accounts!Begin, RequestsTyped
    <3>3. Counted(req[r])'
      BY <3>1, <3>2 DEF Counted, PaidUp, Accounts!Subscribed
    <3>4. Uncredited /\ LastsStay /\ CrossedStays
      BY <3>2, <1>l DEF Uncredited, CrossedStays
    <3> QED
      BY <3>2, <3>3, <3>4, OthersCounted
  <2>10. ASSUME NEW s \in Accounts!Source, Accounts!Improve(r, u, s)
         PROVE  Accounted'
    <3> DEFINE q == [kind |-> "emit", at |-> "evict", user |-> u,
                     saw |-> [last |-> 0, value |-> 0, now |-> 0], reads |-> {}, stale |-> {}]
    <3>1. Counted(q)'
      BY DEF Counted
    <3>2. LastsStay
      BY <1>0, <2>10 DEF Accounts!Improve, LastsStay, RowsTyped, Row, Accounts!Subscribed
    <3> QED
      BY <2>10, <3>1, <3>2, ProceedAccounted DEF Accounts!Improve, Uncredited
  <2> QED
    BY <1>1, <2>1, <2>2, <2>3, <2>4, <2>5, <2>6, <2>7, <2>8, <2>9, <2>10 DEF Accounts!Handle
<1>2. ASSUME NEW r \in Request, Accounts!Go(r)
      PROVE  Accounted'
  <2>1. CASE Accounts!CommitSubscribe(r)
    <3>1. CASE req[r].user \in Accounts!Subscribed
      BY <2>1, <3>1, <1>e DEF Accounts!CommitSubscribe
    <3>2. CASE req[r].user \notin Accounts!Subscribed
      <4>1. PICK u \in User : u = req[r].user
        BY <1>0, <2>1 DEF RequestsTyped, Carries, Accounts!CommitSubscribe, Accounts!Committing
      <4> DEFINE fresh == [alliance |-> NoAlliance, home |-> req[r].saw, last |-> Accounts!Rounded(now),
                         source |-> {}]
      <4>2. /\ account' = Accounts!Put(account, u, fresh)
            /\ paid' = [paid EXCEPT ![u] = [time |-> 0, times |-> 0, from |-> Accounts!Rounded(now)]]
            /\ \E W : Accounts!Last(u) \in W /\ Accounts!Advance(r, Accounts!Idle, W)
            /\ now' = now /\ CrossedStays
        BY <2>1, <3>2, <4>1 DEF Accounts!CommitSubscribe, CrossedStays
      <4>3. /\ Accounts!Subscribed' = Accounts!Subscribed \cup {u} /\ account'[u].last = Accounts!Rounded(now)
            /\ \A v \in Accounts!Subscribed : account'[v] = account[v]
        BY <3>2, <4>1, <4>2 DEF Accounts!Put, Accounts!Subscribed
      <4>4. /\ paid'[u].time = 0 /\ paid'[u].times = 0 /\ paid'[u].from = Accounts!Rounded(now)
            /\ \A v \in User \ {u} : paid'[v] = paid[v]
        BY <4>1, <4>2 DEF Typed
      <4>x. Accounts!Rounded(now) \in Nat /\ Parts \in Nat
        BY <1>0, RoundedFacts, AccountsFacts
      <4>5. \A n \in Nat : n <= Accounts!Rounded(now) => PaidUp(u, n)'
        BY <1>0, <4>4, <4>x DEF PaidUp
      <4>6. PaidUp(u, account[u].last)' /\ PaidOnce(u, account[u].last)'
        BY <1>0, <4>3, <4>4, <4>x DEF PaidUp, PaidOnce
      <4>7. OnlyFor(u)
        BY <3>2, <4>1, <4>3, <4>4, <4>5 DEF OnlyFor
      <4>8. Accounts!Subscribed' \subseteq User
        BY <1>0, <4>1, <4>3 DEF RowsTyped
      <4> HIDE DEF fresh
      <4> QED
        BY <1>0, <4>1, <4>2, <4>3, <4>x, <4>6, <4>7, <4>8, OneAccounted
    <3> QED
      BY <3>1, <3>2
  <2>2. CASE Accounts!CommitDeleteAccount(r)
    <3>1. CASE req[r].user \notin Accounts!Subscribed \/ ~Accounts!Deletable(req[r].user)
      BY <2>2, <3>1, <1>e DEF Accounts!CommitDeleteAccount
    <3>2. CASE ~(req[r].user \notin Accounts!Subscribed \/ ~Accounts!Deletable(req[r].user))
      <4>1. PICK u \in User : u = req[r].user
        BY <1>0, <3>2 DEF RowsTyped
      <4> DEFINE homeless == UNION {Accounts!MembersOf(a) : a \in Accounts!AlliancesOf(u)}
      <4>2. /\ account' = Accounts!Without(Accounts!SetAlliance(homeless, NoAlliance), {u})
            /\ \E W : Accounts!Last(u) \in W /\ Accounts!Proceed(r, Accounts!Idle, W)
            /\ UNCHANGED <<paid, now>>
        BY <2>2, <3>2, <4>1 DEF Accounts!CommitDeleteAccount
      <4>3. /\ DOMAIN Accounts!SetAlliance(homeless, NoAlliance) = Accounts!Subscribed
            /\ \A v \in Accounts!Subscribed : Accounts!SetAlliance(homeless, NoAlliance)[v].last = account[v].last
        BY <1>0, SetAllianceKeeps
      <4> HIDE DEF homeless
      <4>4. /\ Accounts!Subscribed' = Accounts!Subscribed \ {u}
            /\ \A v \in Accounts!Subscribed \ {u} : account'[v].last = account[v].last
        BY <4>2, <4>3 DEF Accounts!Without, Accounts!Subscribed
      <4>5. OnlyFor(u)
        BY <4>2, <4>4 DEF OnlyFor, PaidUp
      <4> QED
        BY <1>0, <4>2, <4>4, <4>5, OneAccounted DEF RowsTyped, Accounts!Proceed, CrossedStays
    <3> QED
      BY <3>1, <3>2
  <2>3. CASE \/ Accounts!CommitCreate(r) \/ Accounts!CommitRequestJoin(r) \/ Accounts!CommitAccept(r)
             \/ Accounts!CommitReject(r) \/ Accounts!CommitLeave(r) \/ Accounts!CommitDissolve(r)
    <3>1. \/ Accounts!Refused(r)
          \/ /\ (\E us, a : account' = Accounts!SetAlliance(us, a)) \/ account' = account
             /\ \E W : Accounts!Proceed(r, Accounts!Idle, W)
             /\ UNCHANGED paid
      BY <2>3
         DEF Accounts!CommitCreate, Accounts!CommitRequestJoin, Accounts!CommitAccept,
             Accounts!CommitReject, Accounts!CommitLeave, Accounts!CommitDissolve
    <3>2. now' = now
      BY <2>3
         DEF Accounts!CommitCreate, Accounts!CommitRequestJoin, Accounts!CommitAccept,
             Accounts!CommitReject, Accounts!CommitLeave, Accounts!CommitDissolve
    <3> QED
      BY <1>e, <1>i, <1>l, <1>s, <3>1, <3>2, ProceedAccounted DEF Uncredited
  <2>4. CASE Accounts!Hit(r)
    <3>1. /\ req[r].kind \in Found /\ UNCHANGED <<account, now, paid>>
          /\ \E value : Accounts!Proceed(r, Accounts!HasFound(r, value), {})
      BY <2>4 DEF Accounts!Hit, Accounts!Looking, Accounts!Committing, Found
    <3>2. ASSUME NEW q, NEW value, q = Accounts!HasFound(r, value)
          PROVE  Counted(q)'
      BY <1>0, <1>f, <3>1, <3>2
    <3> QED
      BY <1>l, <3>1, <3>2, ProceedAccounted DEF Uncredited
  <2>5. CASE Accounts!Compute(r)
    <3>1. /\ DOMAIN req' = Request /\ \A s \in Request \ {r} : req'[s] = req[s]
          /\ UNCHANGED <<account, now, paid, crossed>>
      BY <1>0, <2>5 DEF Accounts!Compute, RequestsTyped
    <3>2. Carries(req[r]) /\ Counted(req[r]) /\ req[r].at # "credit" /\ req[r].kind \in Found
      BY <1>0, <2>5
         DEF Accounts!Compute, Accounts!Looking, Accounts!Committing, RequestsTyped, Accounted,
             Found
    <3>3. /\ req'[r].kind = req[r].kind /\ req'[r].at = "insert" /\ req'[r].user = req[r].user
          /\ req[r].reads \subseteq req'[r].reads /\ req'[r].stale = req[r].stale
          /\ req'[r].saw.last = req[r].saw.last
      BY <1>0, <2>5, <3>2 DEF Accounts!Compute, RequestsTyped, Carries, Found
    <3>4. Counted(req[r])'
      BY <3>1, <3>2, <3>3 DEF Counted, PaidUp, Accounts!Subscribed
    <3> QED
      BY <1>l, <3>1, <3>4, OthersCounted DEF Uncredited, CrossedStays
  <2>6. CASE Accounts!Insert(r)
    <3>1. req[r].kind \in Found
      BY <1>0, <2>6 DEF Accounts!Insert, RequestsTyped, Carries
    <3>2. /\ \E value : req' = [req EXCEPT ![r] = Accounts!HasFound(r, value)]
          /\ UNCHANGED <<account, now, paid>>
      BY <2>6 DEF Accounts!Insert
    <3>3. CrossedStays
      BY <2>6 DEF Accounts!Insert, CrossedStays, Accounts!Last, Accounts!Value
    <3>4. /\ DOMAIN req' = Request /\ \A s \in Request \ {r} : req'[s] = req[s]
          /\ \E value : req'[r] = Accounts!HasFound(r, value)
      BY <1>0, <3>2 DEF RequestsTyped
    <3>5. \A q : q = req'[r] => Counted(q)'
      BY <1>f, <3>1, <3>2, <3>4
    <3>6. Counted(req[r])'
      BY <3>5 DEF Counted
    <3> QED
      BY <1>l, <3>2, <3>3, <3>4, <3>6, OthersCounted DEF Uncredited
  <2>7. CASE Accounts!Credit(r)
    <3>1. CASE req[r].user \notin Accounts!Subscribed
      BY <2>7, <3>1, <1>e DEF Accounts!Credit
    <3>2. CASE req[r].user \in Accounts!Subscribed
      <4>0. PICK u, q : u \in User /\ q = req[r] /\ u = q.user
        BY <1>0, <3>2 DEF RowsTyped
      <4>1. /\ q.saw.now \in Nat /\ q.saw.last \in Nat /\ q.kind = "accrue"
            /\ q.at = "credit" /\ Counted(q) /\ u \in Accounts!Subscribed
        BY <1>0, <2>7, <3>2, <4>0 DEF Accounts!Credit, RequestsTyped, Carries, Found, Accounted
      <4>2. /\ account' = [account EXCEPT ![u].last = Accounts!Rounded(q.saw.now)]
            /\ paid' = [paid EXCEPT ![u].time = @ + q.saw.now - q.saw.last, ![u].times = @ + 1]
            /\ Accounts!Advance(r, Accounts!Idle, {Accounts!Last(u)}) /\ now' = now
            /\ crossed' = IF Accounts!Last(u) \in q.stale THEN crossed \cup {Accounts!Last(u)} ELSE crossed
        BY <2>7, <3>2, <4>0 DEF Accounts!Credit, Accounts!Stamp, Accounts!Advance
      <4>3. /\ Accounts!Subscribed' = Accounts!Subscribed /\ account'[u].last = Accounts!Rounded(q.saw.now)
            /\ \A v \in Accounts!Subscribed \ {u} : account'[v] = account[v]
        BY <1>0, <4>1, <4>2 DEF Accounts!Subscribed, RowsTyped, Row
      <4>4. /\ Purse(paid[u]) /\ paid'[u].time = paid[u].time + q.saw.now - q.saw.last
            /\ paid'[u].times = paid[u].times + 1 /\ paid'[u].from = paid[u].from
            /\ \A v \in User \ {u} : paid'[v] = paid[v]
        BY <4>0, <4>2 DEF Typed, Purse
      <4>x. PICK N \in Nat : /\ N = Accounts!Rounded(q.saw.now) /\ N <= Accounts!Rounded(now)
                             /\ 2 * N <= 2 * q.saw.now + Parts /\ 2 * q.saw.now - Parts <= 2 * N
        BY <1>0, <4>1, RoundedFacts DEF Counted
      <4>7. /\ q.saw.last <= Accounts!Rounded(q.saw.now) /\ q.saw.now <= now /\ PaidUp(u, q.saw.last)
            /\ Accounts!Last(u) \notin q.stale => account[u].last = q.saw.last
        BY <4>0, <4>1 DEF Counted
      <4>6. Parts \in Nat /\ paid[u].time \in Int /\ paid[u].times \in Nat /\ paid[u].from \in Nat
        BY <4>4, AccountsFacts DEF Purse
      <4>5. ASSUME NEW n \in Nat, PaidUp(u, n)
            PROVE  PaidUp(u, n)'
        BY <4>1, <4>4, <4>5, <4>6, <4>7, <4>x DEF PaidUp
      <4>10. OnlyFor(u)
        BY <4>3, <4>4, <4>5 DEF OnlyFor
      <4>8. PaidUp(u, account[u].last)'
        BY <4>1, <4>3, <4>4, <4>6, <4>7, <4>x DEF PaidUp
      <4>9. ASSUME Accounts!Last(u) \notin crossed'
            PROVE  PaidOnce(u, account[u].last)'
        <5>1. Accounts!Last(u) \notin q.stale /\ Accounts!Last(u) \notin crossed
          BY <4>2, <4>9
        <5>2. PaidOnce(u, q.saw.last)
          BY <4>1, <4>7, <5>1 DEF Accounted, RowsCounted
        <5> QED
          BY <4>1, <4>3, <4>4, <4>6, <4>7, <4>x, <5>2 DEF PaidOnce
      <4> QED
        BY <1>0, <4>0, <4>1, <4>2, <4>3, <4>x, <4>8, <4>9, <4>10, OneAccounted
           DEF RowsTyped, CrossedStays
    <3> QED
      BY <3>1, <3>2
  <2>8. CASE Accounts!EvictAndEmit(r)
    <3>1. /\ DOMAIN req' = Request /\ req'[r].kind = "emit"
          /\ \A s \in Request \ {r} : req'[s] = req[s]
          /\ UNCHANGED <<account, now, paid>>
      BY <1>0, <2>8 DEF Accounts!EvictAndEmit, RequestsTyped, Carries
    <3>2. CrossedStays
      BY <2>8 DEF Accounts!EvictAndEmit, CrossedStays, Accounts!Last, Accounts!Value
    <3>3. Counted(req[r])'
      BY <3>1 DEF Counted
    <3> QED
      BY <1>l, <3>1, <3>2, <3>3, OthersCounted DEF Uncredited
  <2>9. CASE Accounts!EditImprovement(r)
    <3>1. Counted([kind |-> "edit", at |-> "evict", reads |-> {}, stale |-> {}])'
      BY DEF Counted
    <3> QED
      BY <1>l, <2>9, <3>1, ProceedAccounted DEF Accounts!EditImprovement, Uncredited
  <2>10. CASE Accounts!EvictAll(r) \/ Accounts!Vanish(r)
    <3>1. DOMAIN req' = Request /\ req'[r] = Accounts!Idle /\ \A s \in Request \ {r} : req'[s] = req[s]
      BY <1>0, <2>10 DEF Accounts!EvictAll, Accounts!Vanish, RequestsTyped
    <3>2. Uncredited /\ LastsStay /\ CrossedStays
      BY <1>l, <2>10
         DEF Accounts!EvictAll, Accounts!Vanish, Uncredited, CrossedStays, Accounts!Last,
             Accounts!Value
    <3>3. Counted(req[r])'
      BY <3>1 DEF Counted, Accounts!Idle
    <3> QED
      BY <3>1, <3>2, <3>3, OthersCounted
  <2> QED
    BY <1>2, <2>1, <2>2, <2>3, <2>4, <2>5, <2>6, <2>7, <2>8, <2>9, <2>10 DEF Accounts!Go
<1>3. ASSUME NEW j \in DOMAIN joins, Accounts!Withdraw(j)
      PROVE  Accounted'
  BY <1>l, <1>3, <1>o DEF Accounts!Withdraw, Uncredited
<1>4. ASSUME NEW u \in User, Accounts!Restack(u)
      PROVE  Accounted'
  <2>1. LastsStay
    BY <1>0, <1>4 DEF Accounts!Restack, LastsStay, RowsTyped, Row, Accounts!Subscribed
  <2> QED
    BY <1>4, <1>o, <2>1 DEF Accounts!Restack, Uncredited
<1>5. CASE Accounts!Restart
  <2>1. \A s \in Request : Counted(req[s])'
    BY <1>5 DEF Accounts!Restart, Counted, Accounts!Idle
  <2> QED
    BY <1>l, <1>5, <2>1, QuietAccounted DEF Accounts!Restart, Uncredited, CrossedStays
<1>6. CASE Accounts!Tick
  <2>1. /\ now' = now + 1 /\ UNCHANGED <<account, req, paid, crossed>>
        /\ now' \in Nat
    BY <1>0, <1>6 DEF Accounts!Tick
  <2>2. /\ Accounts!Rounded(now) \in Nat /\ Accounts!Rounded(now') \in Nat
        /\ Accounts!Rounded(now) <= Accounts!Rounded(now')
    BY <1>0, <2>1, RoundedFacts
  <2>3. RowsCounted'
    BY <1>0, <2>1, <2>2
       DEF Accounted, RowsCounted, PaidUp, PaidOnce, Accounts!Subscribed, RowsTyped, Row
  <2>4. ASSUME NEW s \in Request, NEW q, q = req[s]
        PROVE  Counted(q)'
    <3>1. Counted(q) /\ Carries(q)
      BY <1>0, <2>4 DEF Accounted, RequestsTyped
    <3>2. ASSUME q.kind = "accrue"
          PROVE  q.saw.last \in Nat /\ q.saw.now \in Nat
      BY <3>1, <3>2 DEF Carries, Found
    <3>3. ASSUME q.kind = "accrue"
          PROVE  /\ q.saw.last <= Accounts!Rounded(now')
                 /\ q.at = "credit" => q.saw.now <= now'
      BY <1>0, <2>1, <2>2, <3>1, <3>2, <3>3 DEF Counted
    <3> QED
      BY <2>1, <3>1, <3>3 DEF Counted, PaidUp, Accounts!Subscribed
  <2>5. \A s \in Request : Counted(req[s])'
    <3> SUFFICES ASSUME NEW s \in Request
                 PROVE  Counted(req[s])'
      OBVIOUS
    <3>1. PICK q : q = req[s]
      OBVIOUS
    <3>2. Counted(q)'
      BY <2>4, <3>1
    <3> QED
      BY <2>1, <3>1, <3>2 DEF Counted
  <2> QED
    BY <2>3, <2>5 DEF Accounted
<1>7. CASE UNCHANGED Accounts!vars
  BY <1>7 DEF Accounts!vars, Accounted, RowsCounted, Counted, PaidUp, PaidOnce, Accounts!Subscribed
<1> QED
  BY <1>1, <1>2, <1>3, <1>4, <1>5, <1>6, <1>7 DEF Accounts!Next

(* Whatever the requests, the time up to last_action was paid, but for     *)
(* half a second for each accrual, and not more than that unless two       *)
(* accruals overlapped (trigger_resources_update).                         *)
THEOREM SpecSecondsArePaid ==
    ASSUME AccountsParameters
    PROVE  Accounts!Spec => []SecondsArePaid
<1>1. Accounts!Init => Typed /\ Accounted
  BY InitTyped, InitAccounted
<1>2. Typed /\ Accounted /\ [Accounts!Next]_(Accounts!vars) => (Typed /\ Accounted)'
  BY NextTyped, NextAccounted
<1>3. Typed /\ Accounted => SecondsArePaid
  <2> SUFFICES ASSUME Typed, Accounted, NEW u \in Accounts!Subscribed
               PROVE  /\ PaidUp(u, account[u].last)
                      /\ Accounts!Last(u) \notin crossed => PaidOnce(u, account[u].last)
    BY SameWords DEF SecondsArePaid, PaidUp, PaidOnce
  <2> QED
    BY DEF Accounted, RowsCounted
<1> QED
  BY <1>1, <1>2, <1>3, PTL DEF Accounts!Spec

------------------------------------------------------------------------------
(* The cache of improvements.                                              *)
Evicting(u) == \E r \in Request : req[r].at = "evict" /\ (req[r].kind = "emit" => req[r].user = u)

(* A request that has computed the aggregate and not stored it knows       *)
(* whether it still is the one of the database.                            *)
Kept(q) ==
    /\ q.at = "insert" => /\ Accounts!Value(q.user) \in q.reads
                          /\ Accounts!Value(q.user) \notin q.stale => q.saw.value = Accounts!Improvement(q.user)
    /\ q.at = "evict" => q.kind \in {"emit", "edit"}

(* The time an entry lives plays no part: an expired one is current too.   *)
EntriesCurrent ==
    \A u \in Accounts!Subscribed :
       u \in DOMAIN cache /\ Accounts!Value(u) \notin crossed =>
          Evicting(u) \/ cache[u].value = Accounts!Improvement(u)

Cached == EntriesCurrent /\ \A r \in Request : Kept(req[r])

(* The cache invariant holds at first.                                     *)
LEMMA InitCached == Accounts!Init => Cached
  BY DEF Accounts!Init, Cached, EntriesCurrent, Kept, Accounts!Nobody, Accounts!Idle

(* A step that may change the improvements of the users of U, and of no    *)
(* others.                                                                 *)
Changes(U) ==
    \A v \in User \ U : /\ v \in Accounts!Subscribed' => v \in Accounts!Subscribed
                        /\ Accounts!Improvement(v)' = Accounts!Improvement(v)

(* What a request read to fill the cache stays good, or it knows that it   *)
(* was overtaken.                                                          *)
LEMMA KeptOvertaken ==
    ASSUME NEW q, NEW W, NEW U, Carries(q), Kept(q), Changes(U), \A u \in U : Accounts!Value(u) \in W
    PROVE  Kept(Accounts!Overtaken(q, W))'
<1> DEFINE o == Accounts!Overtaken(q, W)
<1>1. {"kind", "at", "reads", "stale"} \subseteq DOMAIN q
  BY DEF Carries
<1>2. /\ o.kind = q.kind /\ o.at = q.at /\ o.reads = q.reads
      /\ {"user", "saw"} \subseteq DOMAIN q => o.user = q.user /\ o.saw = q.saw
      /\ o.stale = q.stale \cup (q.reads \cap W)
  BY <1>1, OvertakenKeeps
<1>3. q.at = "insert" => {"user", "saw"} \subseteq DOMAIN q /\ q.user \in User
  BY DEF Carries, Found
<1> HIDE DEF o
<1>4. ASSUME q.at = "insert", Accounts!Value(q.user) \notin o.stale
      PROVE  q.saw.value = Accounts!Improvement(q.user)'
  <2>1. Accounts!Value(q.user) \in q.reads /\ Accounts!Value(q.user) \notin W /\ Accounts!Value(q.user) \notin q.stale
    BY <1>2, <1>4 DEF Kept
  <2>2. q.user \in User \ U
    BY <1>3, <1>4, <2>1
  <2>3. q.saw.value = Accounts!Improvement(q.user)
    BY <1>4, <2>1 DEF Kept
  <2>4. ASSUME NEW v, v = q.user
        PROVE  Accounts!Improvement(v)' = Accounts!Improvement(v)
    BY <2>2, <2>4 DEF Changes
  <2> QED
    BY <2>3, <2>4
<1>5. Kept(o)'
  BY <1>2, <1>3, <1>4 DEF Kept
<1> QED
  BY <1>5 DEF o

(* A request that goes on keeps what it read.                              *)
LEMMA AdvanceKept ==
    ASSUME Typed, Cached, NEW U, Changes(U), NEW W, \A u \in U : Accounts!Value(u) \in W,
           NEW r \in Request, NEW q, Kept(q)', Accounts!Advance(r, q, W)
    PROVE  \A s \in Request : Kept(req[s])'
<1>1. \A s \in Request : Carries(req[s]) /\ Kept(req[s])
  BY DEF Typed, RequestsTyped, Cached
<1>2. ASSUME NEW s \in Request, NEW p, p = Accounts!Overtaken(req[s], W)
      PROVE  Kept(p)'
  <2>1. ASSUME NEW o, o = req[s]
        PROVE  Kept(Accounts!Overtaken(o, W))'
    BY <1>1, <2>1, KeptOvertaken
  <2> QED
    BY <1>2, <2>1
<1>3. ASSUME NEW s \in Request, NEW p, p = req'[s]
      PROVE  Kept(p)'
  BY <1>2, <1>3 DEF Accounts!Advance
<1>4. ASSUME NEW s \in Request
      PROVE  Kept(req[s])'
  <2>1. PICK p : p = req'[s]
    OBVIOUS
  <2> QED
    BY <1>3, <2>1 DEF Kept, Accounts!Improvement
<1> QED
  BY <1>4

(* No eviction is forgotten while the request that owes it goes on.        *)
LEMMA AdvanceEvicting ==
    ASSUME RequestsTyped, NEW r \in Request, req[r].at # "evict", NEW q, NEW W, Accounts!Advance(r, q, W),
           NEW u, Evicting(u)
    PROVE  Evicting(u)'
<1>1. PICK s \in Request : req[s].at = "evict" /\ (req[s].kind = "emit" => req[s].user = u)
  BY DEF Evicting
<1>2. req'[s] = Accounts!Overtaken(req[s], W) /\ Carries(req[s])
  BY <1>1 DEF Accounts!Advance, RequestsTyped
<1>3. req'[s].at = "evict" /\ (req'[s].kind = "emit" => req'[s].user = u)
  BY <1>1, <1>2, OvertakenKeeps DEF Carries
<1> QED
  BY <1>3 DEF Evicting

(* The steps on the cache keep the cache invariant.                        *)
LEMMA StepCached ==
    ASSUME Cached, NEW U, Changes(U), Accounts!Subscribed' \subseteq User, cache' = cache,
           \A r \in Request : Kept(req[r])',
           \A u \in User \ U : Accounts!Value(u) \in crossed => Accounts!Value(u) \in crossed',
           \A u \in User \ U : Evicting(u) => Evicting(u)' \/ Accounts!Value(u) \in crossed',
           \A u \in U \cap Accounts!Subscribed' : Evicting(u)' \/ Accounts!Value(u) \in crossed'
    PROVE  Cached'
<1>1. ASSUME NEW u \in Accounts!Subscribed', u \in DOMAIN cache', Accounts!Value(u) \notin crossed', ~Evicting(u)'
      PROVE  cache'[u].value = Accounts!Improvement(u)'
  <2>1. u \in User \ U /\ u \in Accounts!Subscribed /\ Accounts!Improvement(u)' = Accounts!Improvement(u)
    BY <1>1 DEF Changes
  <2>2. Accounts!Value(u) \notin crossed /\ ~Evicting(u)
    BY <1>1, <2>1
  <2> QED
    BY <1>1, <2>1, <2>2 DEF Cached, EntriesCurrent
<1>2. EntriesCurrent'
  BY <1>1 DEF EntriesCurrent, Accounts!Value
<1> QED
  BY <1>2 DEF Cached

(* The step of a request that owes no eviction.                            *)
LEMMA ProceedCached ==
    ASSUME Typed, Cached, Changes({}), Accounts!Subscribed' \subseteq User, cache' = cache,
           NEW r \in Request, req[r].at # "evict", NEW q, NEW W, Kept(q)', Accounts!Proceed(r, q, W)
    PROVE  Cached'
<1>1. \A s \in Request : Kept(req[s])'
  BY AdvanceKept DEF Accounts!Proceed
<1>2. \A u \in User : Evicting(u) => Evicting(u)'
  BY AdvanceEvicting DEF Typed, Accounts!Proceed
<1> QED
  BY <1>1, <1>2, StepCached DEF Accounts!Proceed

(* So do the steps that leave it alone.                                    *)
LEMMA OthersCached ==
    ASSUME Typed, Cached, Changes({}), Accounts!Subscribed' \subseteq User, cache' = cache,
           NEW r \in Request, req[r].at # "evict", Kept(req[r])',
           \A s \in Request \ {r} : req'[s] = req[s],
           \A u \in User : Accounts!Value(u) \in crossed => Accounts!Value(u) \in crossed'
    PROVE  Cached'
<1>1. ASSUME NEW s \in Request \ {r}
      PROVE  Kept(req[s])'
  <2>1. PICK p : p = req[s] /\ p = req'[s]
    OBVIOUS
  <2>2. Carries(p) /\ Kept(p)
    BY <2>1 DEF Typed, RequestsTyped, Cached
  <2>3. p.at = "insert" => p.user \in User
    BY <2>2 DEF Carries, Found
  <2>4. \A v \in User : Accounts!Improvement(v)' = Accounts!Improvement(v)
    BY DEF Changes
  <2>5. p.at = "insert" => Accounts!Improvement(p.user)' = Accounts!Improvement(p.user)
    BY <2>3, <2>4
  <2>6. Kept(p)'
    BY <2>2, <2>5 DEF Kept
  <2> QED
    BY <2>1, <2>6 DEF Kept, Accounts!Improvement
<1>2. \A u \in User : Evicting(u) => Evicting(u)'
  BY DEF Evicting
<1> QED
  BY <1>1, <1>2, StepCached

(* Every step keeps the cache invariant.                                   *)
LEMMA NextCached ==
    ASSUME Typed, Cached, [Accounts!Next]_(Accounts!vars)
    PROVE  Cached'
<1> USE DEF Accounts!tables
<1>i. Kept(Accounts!Idle)'
  BY DEF Kept, Accounts!Idle
<1>0. RequestsTyped /\ RowsTyped /\ now \in Nat
  BY DEF Typed
<1>k. \A s \in Request : Carries(req[s]) /\ Kept(req[s])
  BY <1>0 DEF RequestsTyped, Cached
<1>v. ASSUME worth' = worth, Accounts!Subscribed' = Accounts!Subscribed,
             \A v \in Accounts!Subscribed : account'[v].source = account[v].source
      PROVE  Changes({}) /\ Accounts!Subscribed' \subseteq User
  BY <1>0, <1>v DEF Changes, Accounts!Improvement, RowsTyped
<1>l. ASSUME UNCHANGED <<account, worth>>
      PROVE  Changes({}) /\ Accounts!Subscribed' \subseteq User
  BY <1>l, <1>v DEF Accounts!Subscribed
<1>s. ASSUME NEW us, NEW a, account' = Accounts!SetAlliance(us, a), worth' = worth
      PROVE  Changes({}) /\ Accounts!Subscribed' \subseteq User
  <2>1. Accounts!Subscribed' = Accounts!Subscribed /\ \A v \in Accounts!Subscribed : account'[v].source = account[v].source
    BY <1>0, <1>s, SetAllianceKeeps DEF Accounts!Subscribed
  <2> QED
    BY <1>s, <1>v, <2>1
<1>c. ASSUME NEW r \in Request, NEW kind, NEW u \in User, NEW saw, NEW reads,
             Accounts!Begin(r, kind, u, saw, reads)
      PROVE  Cached'
  <2>1. req[r].at # "evict" /\ UNCHANGED <<account, worth, cache, crossed>>
    BY <1>c DEF Accounts!Begin, Accounts!Idle
  <2>2. req'[r].at = "commit" /\ \A s \in Request \ {r} : req'[s] = req[s]
    BY <1>0, <1>c DEF Accounts!Begin, RequestsTyped
  <2>3. Kept(req[r])'
    BY <2>2 DEF Kept
  <2> QED
    BY <1>l, <2>1, <2>2, <2>3, OthersCached
<1>e. ASSUME NEW r \in Request, Accounts!Refused(r), req[r].at # "evict", cache' = cache
      PROVE  Cached'
  BY <1>e, <1>i, <1>l, ProceedCached DEF Accounts!Refused
<1>f. ASSUME NEW r \in Request, NEW value, NEW q, q = Accounts!HasFound(r, value)
      PROVE  Kept(q)'
  BY <1>0, <1>f, <1>i, <1>k DEF Accounts!HasFound, Kept, Carries
<1>o. ASSUME NEW U, Changes(U), NEW W, \A u \in U : Accounts!Value(u) \in W,
             req' = [s \in Request |-> Accounts!Overtaken(req[s], W)]
      PROVE  /\ \A s \in Request : Kept(req[s])'
             /\ \A u : Evicting(u) => Evicting(u)'
  <2>1. ASSUME NEW s \in Request, NEW o, o = req[s]
        PROVE  Kept(Accounts!Overtaken(o, W))'
    BY <1>k, <1>o, <2>1, KeptOvertaken
  <2>2. ASSUME NEW s \in Request, NEW p, p = req'[s]
        PROVE  Kept(p)'
    BY <1>o, <2>1, <2>2
  <2>3. ASSUME NEW s \in Request
        PROVE  Kept(req[s])'
    <3>1. PICK p : p = req'[s]
      OBVIOUS
    <3> QED
      BY <2>2, <3>1 DEF Kept, Accounts!Improvement
  <2>4. ASSUME NEW u, Evicting(u)
        PROVE  Evicting(u)'
    <3>1. PICK s \in Request : req[s].at = "evict" /\ (req[s].kind = "emit" => req[s].user = u)
      BY <2>4 DEF Evicting
    <3>2. req'[s] = Accounts!Overtaken(req[s], W) /\ Carries(req[s])
      BY <1>k, <1>o
    <3>3. req'[s].at = "evict" /\ (req'[s].kind = "emit" => req'[s].user = u)
      BY <3>1, <3>2, OvertakenKeeps DEF Carries
    <3> QED
      BY <3>3 DEF Evicting
  <2> QED
    BY <2>3, <2>4
<1>q. ASSUME UNCHANGED <<account, worth>>, NEW s \in Request, req'[s] = req[s]
      PROVE  Kept(req[s])'
  BY <1>k, <1>q DEF Kept, Accounts!Improvement, Accounts!Subscribed
<1>1. ASSUME NEW r \in Request, NEW u \in User, Accounts!Handle(r, u)
      PROVE  Cached'
  <2>1. CASE \/ Accounts!Subscribe(r, u) \/ Accounts!DeleteAccount(r, u)
             \/ Accounts!Create(r, u) \/ Accounts!RequestJoin(r, u) \/ Accounts!Accept(r, u) \/ Accounts!Reject(r, u)
             \/ Accounts!Leave(r, u) \/ Accounts!Dissolve(r, u) \/ Accounts!Accrue(r, u)
    BY <2>1, <1>c
       DEF Accounts!Subscribe, Accounts!DeleteAccount, Accounts!Create, Accounts!RequestJoin,
           Accounts!Accept, Accounts!Reject, Accounts!Leave, Accounts!Dissolve, Accounts!Accrue
  <2>2. ASSUME NEW s \in Accounts!Source, Accounts!Improve(r, u, s)
        PROVE  Cached'
    <3> DEFINE q == [kind |-> "emit", at |-> "evict", user |-> u,
                     saw |-> [last |-> 0, value |-> 0, now |-> 0], reads |-> {}, stale |-> {}]
    <3>1. Kept(q)'
      BY DEF Kept
    <3>2. /\ Accounts!Subscribed' = Accounts!Subscribed /\ worth' = worth /\ cache' = cache
          /\ \A v \in Accounts!Subscribed \ {u} : account'[v].source = account[v].source
          /\ req[r].at # "evict" /\ Accounts!Advance(r, q, {Accounts!Value(u)}) /\ crossed \subseteq crossed'
      BY <1>0, <2>2 DEF Accounts!Improve, Accounts!Subscribed, Accounts!Idle, Accounts!Proceed
    <3>3. Changes({u}) /\ Accounts!Subscribed' \subseteq User
      BY <1>0, <3>2 DEF Changes, Accounts!Improvement, RowsTyped
    <3>4. Evicting(u)'
      BY <3>2 DEF Evicting, Accounts!Advance
    <3> HIDE DEF q
    <3>5. \A p \in Request : Kept(req[p])'
      BY <3>1, <3>2, <3>3, AdvanceKept
    <3>6. \A v : Evicting(v) => Evicting(v)'
      BY <1>0, <3>2, AdvanceEvicting
    <3> QED
      BY <3>2, <3>3, <3>4, <3>5, <3>6, StepCached
  <2> QED
    BY <1>1, <2>1, <2>2 DEF Accounts!Handle
<1>2. ASSUME NEW r \in Request, Accounts!Go(r)
      PROVE  Cached'
  <2>1. CASE Accounts!CommitSubscribe(r)
    <3>1. CASE req[r].user \in Accounts!Subscribed
      BY <2>1, <3>1, <1>e DEF Accounts!CommitSubscribe, Accounts!Committing
    <3>2. CASE req[r].user \notin Accounts!Subscribed
      <4>1. PICK u \in User : u = req[r].user
        BY <1>0, <2>1 DEF RequestsTyped, Carries, Accounts!CommitSubscribe, Accounts!Committing
      <4>2. \E fresh : account' = Accounts!Put(account, u, fresh)
        BY <2>1, <3>2, <4>1 DEF Accounts!CommitSubscribe
      <4>3. /\ \E W : Accounts!Value(u) \in W /\ Accounts!Advance(r, Accounts!Idle, W)
            /\ crossed \subseteq crossed' /\ Accounts!Value(u) \in crossed'
            /\ req[r].at # "evict" /\ UNCHANGED <<cache, worth>>
        BY <2>1, <3>2, <4>1 DEF Accounts!CommitSubscribe, Accounts!Committing
      <4>4. Accounts!Subscribed' = Accounts!Subscribed \cup {u} /\ \A v \in Accounts!Subscribed : account'[v] = account[v]
        BY <3>2, <4>1, <4>2 DEF Accounts!Put, Accounts!Subscribed
      <4>5. Changes({u}) /\ Accounts!Subscribed' \subseteq User
        BY <1>0, <3>2, <4>1, <4>3, <4>4 DEF Changes, Accounts!Improvement, RowsTyped
      <4>6. \A s \in Request : Kept(req[s])'
        BY <1>i, <4>3, <4>5, AdvanceKept
      <4>7. \A v : Evicting(v) => Evicting(v)'
        BY <1>0, <4>3, AdvanceEvicting
      <4> QED
        BY <4>3, <4>5, <4>6, <4>7, StepCached
    <3> QED
      BY <3>1, <3>2
  <2>2. CASE Accounts!CommitDeleteAccount(r)
    <3>1. CASE req[r].user \notin Accounts!Subscribed \/ ~Accounts!Deletable(req[r].user)
      BY <2>2, <3>1, <1>e DEF Accounts!CommitDeleteAccount, Accounts!Committing
    <3>2. CASE ~(req[r].user \notin Accounts!Subscribed \/ ~Accounts!Deletable(req[r].user))
      <4>1. PICK u \in User : u = req[r].user
        BY <1>0, <3>2 DEF RowsTyped
      <4> DEFINE homeless == UNION {Accounts!MembersOf(a) : a \in Accounts!AlliancesOf(u)}
      <4>2. /\ account' = Accounts!Without(Accounts!SetAlliance(homeless, NoAlliance), {u})
            /\ \E W : Accounts!Value(u) \in W /\ Accounts!Proceed(r, Accounts!Idle, W)
            /\ req[r].at # "evict" /\ UNCHANGED <<cache, worth>>
        BY <2>2, <3>2, <4>1 DEF Accounts!CommitDeleteAccount, Accounts!Committing
      <4>3. /\ DOMAIN Accounts!SetAlliance(homeless, NoAlliance) = Accounts!Subscribed
            /\ \A v \in Accounts!Subscribed : Accounts!SetAlliance(homeless, NoAlliance)[v].source = account[v].source
        BY <1>0, SetAllianceKeeps
      <4> HIDE DEF homeless
      <4>4. /\ Accounts!Subscribed' = Accounts!Subscribed \ {u}
            /\ \A v \in Accounts!Subscribed \ {u} : account'[v].source = account[v].source
        BY <4>2, <4>3 DEF Accounts!Without, Accounts!Subscribed
      <4>5. Changes({u}) /\ Accounts!Subscribed' \subseteq User
        BY <1>0, <4>1, <4>2, <4>4 DEF Changes, Accounts!Improvement, RowsTyped
      <4>6. \A s \in Request : Kept(req[s])'
        BY <1>i, <4>2, <4>5, AdvanceKept DEF Accounts!Proceed
      <4>7. \A v : Evicting(v) => Evicting(v)'
        BY <1>0, <4>2, AdvanceEvicting DEF Accounts!Proceed
      <4>8. crossed \subseteq crossed' /\ u \notin Accounts!Subscribed'
        BY <4>2, <4>4 DEF Accounts!Proceed
      <4> QED
        BY <4>2, <4>5, <4>6, <4>7, <4>8, StepCached
    <3> QED
      BY <3>1, <3>2
  <2>3. CASE \/ Accounts!CommitCreate(r) \/ Accounts!CommitRequestJoin(r) \/ Accounts!CommitAccept(r)
             \/ Accounts!CommitReject(r) \/ Accounts!CommitLeave(r) \/ Accounts!CommitDissolve(r)
    <3>1. \/ Accounts!Refused(r)
          \/ /\ (\E us, a : account' = Accounts!SetAlliance(us, a)) \/ account' = account
             /\ \E W : Accounts!Proceed(r, Accounts!Idle, W)
             /\ UNCHANGED worth
      BY <2>3
         DEF Accounts!CommitCreate, Accounts!CommitRequestJoin, Accounts!CommitAccept,
             Accounts!CommitReject, Accounts!CommitLeave, Accounts!CommitDissolve
    <3>2. cache' = cache /\ req[r].at # "evict"
      BY <2>3
         DEF Accounts!CommitCreate, Accounts!CommitRequestJoin, Accounts!CommitAccept,
             Accounts!CommitReject, Accounts!CommitLeave, Accounts!CommitDissolve,
             Accounts!Committing
    <3>3. CASE Accounts!Refused(r)
      BY <1>e, <3>2, <3>3
    <3>4. CASE ~Accounts!Refused(r)
      BY <1>i, <1>l, <1>s, <3>1, <3>2, <3>4, ProceedCached
    <3> QED
      BY <3>3, <3>4
  <2>4. CASE Accounts!Hit(r)
    <3>1. /\ req[r].at # "evict" /\ UNCHANGED <<account, worth, cache>>
          /\ \E value : Accounts!Proceed(r, Accounts!HasFound(r, value), {})
      BY <2>4 DEF Accounts!Hit, Accounts!Looking, Accounts!Committing
    <3>2. PICK q, value : q = Accounts!HasFound(r, value) /\ Accounts!Proceed(r, q, {})
      BY <3>1
    <3> QED
      BY <1>f, <1>l, <3>1, <3>2, ProceedCached
  <2>5. CASE Accounts!Compute(r)
    <3>1. /\ req[r].at # "evict" /\ \A s \in Request \ {r} : req'[s] = req[s]
          /\ UNCHANGED <<account, worth, cache, crossed>>
      BY <1>0, <2>5 DEF Accounts!Compute, Accounts!Looking, Accounts!Committing, RequestsTyped
    <3>2. Carries(req[r]) /\ req[r].kind \in Found
      BY <1>k, <2>5 DEF Accounts!Compute, Accounts!Looking, Accounts!Committing, Found
    <3>3. /\ req'[r].at = "insert" /\ req'[r].user = req[r].user
          /\ Accounts!Value(req[r].user) \in req'[r].reads
          /\ req'[r].saw.value = Accounts!Improvement(req[r].user)
      BY <1>0, <2>5, <3>2 DEF Accounts!Compute, RequestsTyped, Carries, Found
    <3>4. Kept(req[r])'
      BY <3>1, <3>3 DEF Kept, Accounts!Improvement, Accounts!Subscribed
    <3> QED
      BY <1>l, <3>1, <3>4, OthersCached
  <2>6. CASE Accounts!Insert(r)
    <3>1. PICK u \in User : u = req[r].user
      BY <1>k, <2>6 DEF Accounts!Insert, Carries, Found
    <3>2. /\ req[r].at = "insert" /\ UNCHANGED <<account, worth>>
          /\ \E at : cache' = Accounts!Put(cache, u, [value |-> req[r].saw.value, at |-> at])
          /\ \E value : req' = [req EXCEPT ![r] = Accounts!HasFound(r, value)]
          /\ crossed' = IF Accounts!Value(u) \in req[r].stale
                        THEN crossed \cup {Accounts!Value(u)} ELSE crossed \ {Accounts!Value(u)}
      BY <2>6, <3>1 DEF Accounts!Insert, Accounts!Outdated
    <3>3. /\ \A s \in Request \ {r} : req'[s] = req[s]
          /\ \E value : req'[r] = Accounts!HasFound(r, value)
      BY <1>0, <3>2 DEF RequestsTyped
    <3>4. \A q : q = req'[r] => Kept(q)'
      BY <1>f, <3>3
    <3>5. \A s \in Request : Kept(req[s])'
      BY <1>q, <3>2, <3>3, <3>4 DEF Kept
    <3>6. /\ cache'[u].value = req[r].saw.value
          /\ \A v \in DOMAIN cache' : v # u => v \in DOMAIN cache /\ cache'[v] = cache[v]
      BY <3>2 DEF Accounts!Put
    <3>7. ASSUME Accounts!Value(u) \notin crossed'
          PROVE  cache'[u].value = Accounts!Improvement(u)
      <4>1. Accounts!Value(u) \notin req[r].stale
        BY <3>2, <3>7
      <4> QED
        BY <1>k, <3>1, <3>2, <3>6, <4>1 DEF Kept
    <3>8. ASSUME NEW v, Evicting(v)
          PROVE  Evicting(v)'
      BY <3>2, <3>3, <3>8 DEF Evicting
    <3>9. ASSUME NEW v \in Accounts!Subscribed, v \in DOMAIN cache', Accounts!Value(v) \notin crossed'
          PROVE  Evicting(v)' \/ cache'[v].value = Accounts!Improvement(v)
      <4>1. CASE v = u
        BY <3>7, <3>9, <4>1
      <4>2. CASE v # u
        <5>1. Accounts!Value(v) \notin crossed /\ v \in DOMAIN cache /\ cache'[v] = cache[v]
          BY <3>2, <3>6, <3>9, <4>2 DEF Accounts!Value
        <5> QED
          BY <3>8, <3>9, <5>1 DEF Cached, EntriesCurrent
      <4> QED
        BY <4>1, <4>2
    <3>10. EntriesCurrent'
      BY <3>2, <3>9 DEF EntriesCurrent, Accounts!Improvement, Accounts!Subscribed, Accounts!Value
    <3> QED
      BY <3>5, <3>10 DEF Cached
  <2>7. CASE Accounts!Credit(r)
    <3>1. CASE req[r].user \notin Accounts!Subscribed
      BY <2>7, <3>1, <1>e DEF Accounts!Credit
    <3>2. CASE req[r].user \in Accounts!Subscribed
      <4>1. /\ Accounts!Subscribed' = Accounts!Subscribed /\ UNCHANGED <<worth, cache>>
            /\ \A v \in Accounts!Subscribed : account'[v].source = account[v].source
            /\ \E W : Accounts!Advance(r, Accounts!Idle, W)
            /\ crossed \subseteq crossed' /\ req[r].at # "evict"
        BY <1>0, <2>7, <3>2
           DEF Accounts!Credit, Accounts!Subscribed, Accounts!Advance, RowsTyped, Row
      <4>2. Changes({}) /\ Accounts!Subscribed' \subseteq User
        BY <1>v, <4>1
      <4>3. \A s \in Request : Kept(req[s])'
        BY <1>i, <4>1, <4>2, AdvanceKept
      <4>4. \A v : Evicting(v) => Evicting(v)'
        BY <1>0, <4>1, AdvanceEvicting
      <4> QED
        BY <4>1, <4>2, <4>3, <4>4, StepCached
    <3> QED
      BY <3>1, <3>2
  <2>8. CASE Accounts!EvictAndEmit(r)
    <3>1. PICK u \in User : u = req[r].user
      BY <1>k, <2>8 DEF Accounts!EvictAndEmit, Carries
    <3>2. /\ req[r].kind = "emit" /\ UNCHANGED <<account, worth>>
          /\ cache' = Accounts!Without(cache, {u}) /\ crossed' = crossed \ {Accounts!Value(u)}
          /\ req' = [req EXCEPT ![r].at = "commit"]
      BY <2>8, <3>1 DEF Accounts!EvictAndEmit
    <3>3. req'[r].at = "commit" /\ \A s \in Request \ {r} : req'[s] = req[s]
      BY <1>0, <1>k, <3>2 DEF RequestsTyped, Carries
    <3>4. \A s \in Request : Kept(req[s])'
      BY <1>q, <3>2, <3>3 DEF Kept
    <3>5. ASSUME NEW v, v # u, Evicting(v)
          PROVE  Evicting(v)'
      BY <3>1, <3>2, <3>3, <3>5 DEF Evicting
    <3>6. ASSUME NEW v \in Accounts!Subscribed, v \in DOMAIN cache', Accounts!Value(v) \notin crossed'
          PROVE  Evicting(v)' \/ cache'[v].value = Accounts!Improvement(v)
      <4>1. v # u /\ v \in DOMAIN cache /\ cache'[v] = cache[v] /\ Accounts!Value(v) \notin crossed
        BY <3>2, <3>6 DEF Accounts!Without, Accounts!Value
      <4> QED
        BY <3>5, <3>6, <4>1 DEF Cached, EntriesCurrent
    <3>7. EntriesCurrent'
      BY <3>2, <3>6 DEF EntriesCurrent, Accounts!Improvement, Accounts!Subscribed, Accounts!Value
    <3> QED
      BY <3>4, <3>7 DEF Cached
  <2>9. CASE Accounts!EditImprovement(r)
    <3> DEFINE q == [kind |-> "edit", at |-> "evict", reads |-> {}, stale |-> {}]
               W == {Accounts!Value(u) : u \in User}
    <3>1. Kept(q)'
      BY DEF Kept
    <3>2. /\ Accounts!Subscribed' = Accounts!Subscribed /\ cache' = cache
          /\ Accounts!Advance(r, q, W) /\ crossed \subseteq crossed'
      BY <2>9 DEF Accounts!EditImprovement, Accounts!Subscribed, Accounts!Proceed
    <3>3. Changes(User) /\ Accounts!Subscribed' \subseteq User
      BY <1>0, <3>2 DEF Changes, RowsTyped
    <3>4. \A u \in User : Evicting(u)'
      BY <3>2 DEF Evicting, Accounts!Advance
    <3>5. \A u \in User : Accounts!Value(u) \in W
      OBVIOUS
    <3> HIDE DEF q, W
    <3>6. \A s \in Request : Kept(req[s])'
      BY <3>1, <3>2, <3>3, <3>5, AdvanceKept
    <3> QED
      BY <3>2, <3>3, <3>4, <3>6, StepCached
  <2>10. CASE Accounts!EvictAll(r)
    <3>1. /\ UNCHANGED <<account, worth>> /\ req'[r] = Accounts!Idle
          /\ \A s \in Request \ {r} : req'[s] = req[s]
      BY <1>0, <2>10 DEF Accounts!EvictAll, RequestsTyped
    <3>2. \A s \in Request : Kept(req[s])'
      BY <1>q, <3>1 DEF Kept, Accounts!Idle
    <3> QED
      BY <2>10, <3>2 DEF Accounts!EvictAll, Cached, EntriesCurrent, Accounts!Nobody
  <2>11. CASE Accounts!Vanish(r)
    <3>1. /\ UNCHANGED <<account, worth, cache>> /\ req'[r] = Accounts!Idle
          /\ \A s \in Request \ {r} : req'[s] = req[s]
      BY <1>0, <2>11 DEF Accounts!Vanish, RequestsTyped
    <3>2. \A s \in Request : Kept(req[s])'
      BY <1>q, <3>1 DEF Kept, Accounts!Idle
    <3>3. crossed \subseteq crossed'
      BY <2>11 DEF Accounts!Vanish
    <3>4. ASSUME NEW v \in User, Evicting(v)
          PROVE  Evicting(v)' \/ Accounts!Value(v) \in crossed'
      <4>1. PICK s \in Request : req[s].at = "evict" /\ (req[s].kind = "emit" => req[s].user = v)
        BY <3>4 DEF Evicting
      <4>2. CASE s = r
        <5>1. req[r].kind \in {"emit", "edit"}
          BY <1>k, <4>1, <4>2 DEF Kept
        <5> QED
          BY <2>11, <4>1, <4>2, <5>1 DEF Accounts!Vanish
      <4>3. CASE s # r
        BY <3>1, <4>1, <4>3 DEF Evicting
      <4> QED
        BY <4>2, <4>3
    <3> QED
      BY <1>l, <3>1, <3>2, <3>3, <3>4, StepCached
  <2> QED
    BY <1>2, <2>1, <2>2, <2>3, <2>4, <2>5, <2>6, <2>7, <2>8, <2>9, <2>10, <2>11 DEF Accounts!Go
<1>3. ASSUME NEW j \in DOMAIN joins, Accounts!Withdraw(j)
      PROVE  Cached'
  <2>1. /\ UNCHANGED <<account, worth, cache, crossed>>
        /\ \E W : req' = [s \in Request |-> Accounts!Overtaken(req[s], W)]
    BY <1>3 DEF Accounts!Withdraw
  <2>2. (\A s \in Request : Kept(req[s])') /\ \A u : Evicting(u) => Evicting(u)'
    BY <1>l, <1>o, <2>1
  <2> QED
    BY <1>l, <2>1, <2>2, StepCached
<1>4. ASSUME NEW u \in User, Accounts!Restack(u)
      PROVE  Cached'
  <2>1. /\ Accounts!Subscribed' = Accounts!Subscribed /\ UNCHANGED <<worth, cache>>
        /\ \A v \in Accounts!Subscribed \ {u} : account'[v].source = account[v].source
        /\ crossed' = crossed \cup {Accounts!Value(u)}
        /\ req' = [s \in Request |-> Accounts!Overtaken(req[s], {Accounts!Value(u)})]
    BY <1>4 DEF Accounts!Restack, Accounts!Subscribed
  <2>2. Changes({u}) /\ Accounts!Subscribed' \subseteq User
    BY <1>0, <2>1 DEF Changes, Accounts!Improvement, RowsTyped
  <2>3. (\A s \in Request : Kept(req[s])') /\ \A v : Evicting(v) => Evicting(v)'
    BY <1>o, <2>1, <2>2
  <2> QED
    BY <2>1, <2>2, <2>3, StepCached
<1>5. CASE Accounts!Restart
  BY <1>5 DEF Accounts!Restart, Cached, EntriesCurrent, Kept, Accounts!Nobody, Accounts!Idle
<1>6. CASE Accounts!Tick
  BY <1>6
     DEF Accounts!Tick, Cached, EntriesCurrent, Kept, Evicting, Accounts!Improvement,
         Accounts!Subscribed
<1>7. CASE UNCHANGED Accounts!vars
  BY <1>7
     DEF Accounts!vars, Cached, EntriesCurrent, Kept, Evicting, Accounts!Improvement,
         Accounts!Subscribed
<1> QED
  BY <1>1, <1>2, <1>3, <1>4, <1>5, <1>6, <1>7 DEF Accounts!Next

(* Whatever the requests, a cached aggregate is that of the database but   *)
(* for the exceptions the property names (CacheIsCurrent).                 *)
THEOREM SpecCacheIsCurrent ==
    ASSUME AccountsParameters
    PROVE  Accounts!Spec => []CacheIsCurrent
<1>1. Accounts!Init => Typed /\ Cached
  BY InitTyped, InitCached
<1>2. Typed /\ Cached /\ [Accounts!Next]_(Accounts!vars) => (Typed /\ Cached)'
  BY NextTyped, NextCached
<1>3. Cached => CacheIsCurrent
  BY SameWords DEF Cached, EntriesCurrent, Evicting, CacheIsCurrent, Live
<1> QED
  BY <1>1, <1>2, <1>3, PTL DEF Accounts!Spec

------------------------------------------------------------------------------
(* The alliances.                                                          *)
Keys ==
    /\ \A u \in Accounts!Subscribed : account[u].alliance \in DOMAIN alliance \cup {NoAlliance}
    /\ \A a \in DOMAIN alliance : a \in Nat /\ a <= ids /\ alliance[a] \in Accounts!Subscribed

Owned ==
    \A a \in DOMAIN alliance :
       Accounts!Alliance(alliance[a]) \notin crossed => account[alliance[a]].alliance = a

Sized ==
    \A a \in DOMAIN alliance :
       Accounts!Members(a) \notin crossed => Cardinality(Accounts!MembersOf(a)) <= MaxSize

Taken == {u \in Accounts!Subscribed : account[u].alliance # NoAlliance}

(* What a request on its way has checked, unless it is stale.              *)
Checked(q) ==
    /\ q.kind = "leave" =>
          /\ Accounts!Owns(q.user) \in q.reads
          /\ Accounts!Owns(q.user) \notin q.stale => q.user \notin Accounts!AllianceOwners
    /\ q.kind = "accept" =>
          /\ Accounts!Alliance(q.saw.user) \in q.reads /\ Accounts!Members(q.saw.alliance) \in q.reads
          /\ q.saw.free \in BOOLEAN
          /\ q.saw.free /\ Accounts!Alliance(q.saw.user) \notin q.stale => q.saw.user \notin Taken
          /\ q.saw.alliance # NoAlliance /\ Accounts!Members(q.saw.alliance) \notin q.stale =>
                Cardinality(Accounts!MembersOf(q.saw.alliance)) < MaxSize

Allied == Keys /\ Owned /\ Sized /\ \A r \in Request : Checked(req[r])

(* The alliance invariant holds at first.                                  *)
LEMMA InitAllied ==
    ASSUME AccountsParameters
    PROVE  Accounts!Init => Allied
<1> SUFFICES ASSUME Accounts!Init PROVE Allied
  OBVIOUS
<1>1. PICK t \in Start : account = t.account /\ alliance = t.alliance
  BY DEF Accounts!Init
<1>2. Keys
  <2>1. \A u \in Accounts!Subscribed : account[u].alliance \in DOMAIN alliance \cup {NoAlliance}
    BY <1>1, StartFacts DEF Accounts!Subscribed
  <2>2. \A a \in DOMAIN alliance : a \in 1 .. Accounts!FirstId /\ alliance[a] \in Accounts!Subscribed
    BY <1>1, StartFacts DEF Accounts!Subscribed
  <2>3. ids = Accounts!FirstId
    BY DEF Accounts!Init
  <2> QED
    BY <2>1, <2>2, <2>3 DEF Keys, Accounts!FirstId
<1>3. Owned /\ Sized
  BY <1>1, StartFacts DEF Owned, Sized, Accounts!MembersOf, Accounts!Subscribed
<1>4. \A r \in Request : Checked(req[r])
  BY DEF Accounts!Init, Checked, Accounts!Idle
<1> QED
  BY <1>2, <1>3, <1>4 DEF Allied

(* The smaller of two numbers.                                             *)
LEMMA MinOfTwo ==
    ASSUME NEW x \in Int, NEW y \in Int
    PROVE  Min({x, y}) \in Int /\ Min({x, y}) <= y
<1>1. \E m \in {x, y} : \A n \in {x, y} : m <= n
  OBVIOUS
<1> QED
  BY <1>1 DEF Min

(* The greater of two numbers.                                             *)
LEMMA MaxOfTwo ==
    ASSUME NEW x \in Int, NEW y \in Int
    PROVE  Max({x, y}) \in Int
<1>1. \E m \in {x, y} : \A n \in {x, y} : m >= n
  OBVIOUS
<1> QED
  BY <1>1 DEF Max

(* An alliance has finitely many members.                                  *)
LEMMA MembersFinite ==
    ASSUME AccountsParameters, RowsTyped, NEW a
    PROVE  IsFiniteSet(Accounts!MembersOf(a)) /\ Cardinality(Accounts!MembersOf(a)) \in Nat
  BY AccountsFacts, FS_Subset, FS_CardinalityType DEF RowsTyped, Accounts!MembersOf

(* An alliance the code finds below its limit is below MaxSize.            *)
LEMMA LimitIsMaxSize ==
    ASSUME AccountsParameters, RowsTyped, NEW a, ~Accounts!IsLimitReached(a)
    PROVE  Cardinality(Accounts!MembersOf(a)) < MaxSize
<1>1. Cardinality(Accounts!Subscribed) \in Nat /\ Cardinality(Accounts!MembersOf(a)) \in Nat
  BY AccountsFacts, MembersFinite, FS_Subset, FS_CardinalityType DEF RowsTyped
<1>2. (Cardinality(Accounts!Subscribed) * Percentage) \div 100 \in Int
  BY <1>1, AccountsFacts
<1>3. Max({2, (Cardinality(Accounts!Subscribed) * Percentage) \div 100}) \in Int
  BY <1>2, MaxOfTwo
<1>4. Accounts!MaxAllowed \in Int /\ Accounts!MaxAllowed <= MaxSize
  <2>1. PICK share \in Int : share = Max({2, (Cardinality(Accounts!Subscribed) * Percentage) \div 100})
    BY <1>3
  <2>2. Accounts!MaxAllowed = Min({share, MaxSize})
    BY <2>1, SameOperators DEF Accounts!MaxAllowed
  <2> QED
    BY <2>2, AccountsFacts, MinOfTwo
<1> QED
  BY <1>1, <1>4, AccountsFacts, SameOperators DEF Accounts!IsLimitReached

(* A step reports what it does to the checks of others.                    *)
Reports(W) ==
    /\ \A u : u \in Accounts!AllianceOwners' => u \in Accounts!AllianceOwners \/ Accounts!Owns(u) \in W
    /\ \A u : u \in Taken' => u \in Taken \/ Accounts!Alliance(u) \in W
    /\ \A a : a # NoAlliance => Accounts!MembersOf(a)' \subseteq Accounts!MembersOf(a) \/ Accounts!Members(a) \in W

(* What a request checked of an alliance stays checked, or it knows that   *)
(* it was overtaken.                                                       *)
LEMMA CheckedOvertaken ==
    ASSUME AccountsParameters, NEW q, NEW W, Carries(q), Checked(q), RowsTyped, RowsTyped', Reports(W)
    PROVE  Checked(Accounts!Overtaken(q, W))'
<1> DEFINE o == Accounts!Overtaken(q, W)
<1>1. {"kind", "at", "reads", "stale"} \subseteq DOMAIN q
  BY DEF Carries
<1>2. /\ o.kind = q.kind /\ o.at = q.at /\ o.reads = q.reads
      /\ {"user", "saw"} \subseteq DOMAIN q => o.user = q.user /\ o.saw = q.saw
      /\ o.stale = q.stale \cup (q.reads \cap W)
  BY <1>1, OvertakenKeeps
<1>3. q.kind \in {"leave", "accept"} => {"user", "saw"} \subseteq DOMAIN q
  BY DEF Carries
<1> HIDE DEF o
<1>4. ASSUME q.kind = "leave", Accounts!Owns(q.user) \notin o.stale
      PROVE  q.user \notin Accounts!AllianceOwners'
  BY <1>2, <1>4 DEF Checked, Reports
<1>5. ASSUME q.kind = "accept", q.saw.free, Accounts!Alliance(q.saw.user) \notin o.stale
      PROVE  q.saw.user \notin Taken'
  BY <1>2, <1>5 DEF Checked, Reports
<1>6. ASSUME q.kind = "accept", q.saw.alliance # NoAlliance,
             Accounts!Members(q.saw.alliance) \notin o.stale
      PROVE  Cardinality(Accounts!MembersOf(q.saw.alliance)') < MaxSize
  <2>1. PICK a : a = q.saw.alliance
    OBVIOUS
  <2>2. a # NoAlliance /\ Accounts!Members(a) \notin W /\ Cardinality(Accounts!MembersOf(a)) < MaxSize
    BY <1>2, <1>6, <2>1 DEF Checked
  <2>3. Accounts!MembersOf(a)' \subseteq Accounts!MembersOf(a)
    BY <2>2 DEF Reports
  <2>4. IsFiniteSet(Accounts!MembersOf(a)) /\ Cardinality(Accounts!MembersOf(a)) \in Nat
    BY MembersFinite
  <2>5. /\ Cardinality(Accounts!MembersOf(a)') \in Nat
        /\ Cardinality(Accounts!MembersOf(a)') <= Cardinality(Accounts!MembersOf(a))
    BY <2>3, <2>4, FS_Subset, FS_CardinalityType
  <2>6. Cardinality(Accounts!MembersOf(a)') < MaxSize
    BY <2>2, <2>4, <2>5, AccountsFacts
  <2> QED
    BY <2>1, <2>6
<1>7. Checked(o)'
  BY <1>2, <1>3, <1>4, <1>5, <1>6 DEF Checked
<1> QED
  BY <1>7 DEF o

(* A request that goes on keeps what it checked.                           *)
LEMMA AdvanceChecked ==
    ASSUME AccountsParameters, Typed, Typed', Allied, NEW W, Reports(W),
           NEW r \in Request, NEW q, Checked(q)', Accounts!Advance(r, q, W)
    PROVE  \A s \in Request : Checked(req[s])'
<1>0. RowsTyped /\ RowsTyped'
  BY DEF Typed
<1>1. \A s \in Request : Carries(req[s]) /\ Checked(req[s])
  BY DEF Typed, RequestsTyped, Allied
<1>2. ASSUME NEW s \in Request, NEW p, p = Accounts!Overtaken(req[s], W)
      PROVE  Checked(p)'
  <2>1. ASSUME NEW o, o = req[s]
        PROVE  Checked(Accounts!Overtaken(o, W))'
    BY <1>0, <1>1, <2>1, CheckedOvertaken
  <2> QED
    BY <1>2, <2>1
<1>3. ASSUME NEW s \in Request, NEW p, p = req'[s]
      PROVE  Checked(p)'
  BY <1>2, <1>3 DEF Accounts!Advance
<1>4. ASSUME NEW s \in Request
      PROVE  Checked(req[s])'
  <2>1. PICK p : p = req'[s]
    OBVIOUS
  <2> QED
    BY <1>3, <2>1 DEF Checked, Accounts!MembersOf, Accounts!Subscribed
<1> QED
  BY <1>4

(* A step that leaves who is in which alliance.                            *)
AlliancesStay ==
    /\ alliance' = alliance /\ ids' >= ids
    /\ Accounts!Subscribed' = Accounts!Subscribed
    /\ \A u \in Accounts!Subscribed : account'[u].alliance = account[u].alliance

CrossedKeeps ==
    /\ \A u : Accounts!Alliance(u) \in crossed => Accounts!Alliance(u) \in crossed'
    /\ \A a : Accounts!Members(a) \in crossed => Accounts!Members(a) \in crossed'

(* Steps that touch no alliance row keep the alliance invariant.           *)
LEMMA RowsStay ==
    ASSUME Typed, Typed', Keys, Owned, Sized, AlliancesStay, CrossedKeeps
    PROVE  /\ Keys' /\ Owned' /\ Sized'
           /\ \A W : Reports(W)
           /\ \A a : Accounts!MembersOf(a)' = Accounts!MembersOf(a)
           /\ Taken' = Taken /\ Accounts!AllianceOwners' = Accounts!AllianceOwners
<1>1. \A a : Accounts!MembersOf(a)' = Accounts!MembersOf(a)
  BY DEF AlliancesStay, Accounts!MembersOf
<1>2. Taken' = Taken /\ Accounts!AllianceOwners' = Accounts!AllianceOwners
  BY DEF AlliancesStay, Taken, Accounts!AllianceOwners
<1>3. Keys'
  BY DEF Keys, AlliancesStay, Typed
<1>4. Owned'
  BY DEF Owned, Keys, AlliancesStay, CrossedKeeps, Accounts!Alliance
<1>5. Sized'
  <2>1. ASSUME NEW a \in DOMAIN alliance, Accounts!Members(a) \notin crossed'
        PROVE  Cardinality(Accounts!MembersOf(a)') <= MaxSize
    BY <1>1, <2>1 DEF Sized, CrossedKeeps
  <2> QED
    BY <2>1 DEF Sized, AlliancesStay, Accounts!Members
<1> QED
  BY <1>1, <1>2, <1>3, <1>4, <1>5 DEF Reports

(* A request that proceeds and touches no alliance.                        *)
LEMMA ProceedAllied ==
    ASSUME AccountsParameters, Typed, Typed', Allied, AlliancesStay, CrossedKeeps,
           NEW r \in Request, NEW q, NEW W, Checked(q)', Accounts!Advance(r, q, W)
    PROVE  Allied'
<1>1. Keys' /\ Owned' /\ Sized' /\ Reports(W)
  BY RowsStay DEF Allied
<1>2. \A s \in Request : Checked(req[s])'
  BY <1>1, AdvanceChecked
<1> QED
  BY <1>1, <1>2 DEF Allied

(* The steps of requests that are not about alliances.                     *)
LEMMA OthersAllied ==
    ASSUME Typed, Typed', Allied, AlliancesStay, CrossedKeeps,
           NEW r \in Request, Checked(req[r])', \A s \in Request \ {r} : req'[s] = req[s]
    PROVE  Allied'
<1>1. /\ Keys' /\ Owned' /\ Sized'
      /\ \A a : Accounts!MembersOf(a)' = Accounts!MembersOf(a)
      /\ Taken' = Taken /\ Accounts!AllianceOwners' = Accounts!AllianceOwners
  BY RowsStay DEF Allied
<1>2. ASSUME NEW s \in Request \ {r}
      PROVE  Checked(req[s])'
  <2>1. PICK p : p = req[s] /\ p = req'[s]
    OBVIOUS
  <2>2. Checked(p)
    BY <2>1 DEF Allied
  <2>3. Checked(p)'
    BY <1>1, <2>2 DEF Checked
  <2> QED
    BY <2>1, <2>3 DEF Checked, Accounts!MembersOf, Accounts!Subscribed
<1> QED
  BY <1>1, <1>2 DEF Allied

(* An alliance that loses a member stays within its size.                  *)
LEMMA Shrinks ==
    ASSUME AccountsParameters, RowsTyped, NEW b, Accounts!MembersOf(b)' \subseteq Accounts!MembersOf(b),
           Cardinality(Accounts!MembersOf(b)) <= MaxSize
    PROVE  Cardinality(Accounts!MembersOf(b)') <= MaxSize
<1>1. IsFiniteSet(Accounts!MembersOf(b)) /\ Cardinality(Accounts!MembersOf(b)) \in Nat
  BY MembersFinite
<1>2. /\ Cardinality(Accounts!MembersOf(b)') \in Nat
      /\ Cardinality(Accounts!MembersOf(b)') <= Cardinality(Accounts!MembersOf(b))
  BY <1>1, FS_Subset, FS_CardinalityType
<1> QED
  BY <1>1, <1>2, AccountsFacts

(* What a change of the alliance of some reports.                          *)
LEMMA EnlistedReports ==
    ASSUME RowsTyped, NEW us, NEW x, account' = Accounts!SetAlliance(us, x)
    PROVE  /\ Accounts!Subscribed' = Accounts!Subscribed
           /\ \A u \in Accounts!Subscribed :
                 account'[u].alliance = IF u \in us THEN x ELSE account[u].alliance
           /\ \A u \in us \cap Accounts!Subscribed : Accounts!Alliance(u) \in Accounts!Enlisted(us, x)
           /\ \A b : Accounts!MembersOf(b)' \subseteq Accounts!MembersOf(b) \/ Accounts!Members(b) \in Accounts!Enlisted(us, x)
<1>1. /\ Accounts!Subscribed' = Accounts!Subscribed
      /\ \A u \in Accounts!Subscribed :
            account'[u].alliance = IF u \in us THEN x ELSE account[u].alliance
  BY SetAllianceKeeps DEF Accounts!Subscribed
<1>2. \A u \in us \cap Accounts!Subscribed : {Accounts!Alliance(u), Accounts!Members(x)} \subseteq Accounts!Enlisted(us, x)
  BY DEF Accounts!Enlisted
<1>3. ASSUME NEW b, ~(Accounts!MembersOf(b)' \subseteq Accounts!MembersOf(b))
      PROVE  Accounts!Members(b) \in Accounts!Enlisted(us, x)
  <2>1. PICK u : u \in Accounts!Subscribed /\ account'[u].alliance = b /\ account[u].alliance # b
    BY <1>1, <1>3 DEF Accounts!MembersOf
  <2> QED
    BY <1>1, <1>2, <2>1
<1> QED
  BY <1>1, <1>2, <1>3

(* A new alliance has its owner as a member.                               *)
LEMMA CreateAllied ==
    ASSUME AccountsParameters, Typed, Typed', Allied, NEW r \in Request, Accounts!CommitCreate(r), ~Accounts!Refused(r)
    PROVE  Allied'
<1>1. PICK u, a : u \in User /\ u = req[r].user /\ a = ids + 1
  BY DEF Typed, RequestsTyped, Carries, Accounts!CommitCreate, Accounts!Committing
<1>2. /\ u \in Accounts!Subscribed /\ u \notin Accounts!AllianceOwners
      /\ alliance' = Accounts!Put(alliance, a, u) /\ account' = Accounts!SetAlliance({u}, a) /\ ids' = a
      /\ Accounts!Proceed(r, Accounts!Idle, {Accounts!Owns(u)} \cup Accounts!Enlisted({u}, a))
  BY <1>1 DEF Accounts!CommitCreate
<1> DEFINE W == {Accounts!Owns(u)} \cup Accounts!Enlisted({u}, a)
<1>0. RowsTyped /\ ids \in Nat /\ Keys /\ Owned /\ Sized
  BY DEF Typed, Allied
<1>3. /\ Accounts!Subscribed' = Accounts!Subscribed
      /\ \A v \in Accounts!Subscribed :
            account'[v].alliance = IF v = u THEN a ELSE account[v].alliance
      /\ Accounts!Alliance(u) \in W
      /\ \A b : Accounts!MembersOf(b)' \subseteq Accounts!MembersOf(b) \/ Accounts!Members(b) \in W
  <2>1. /\ Accounts!Subscribed' = Accounts!Subscribed
        /\ \A v \in Accounts!Subscribed :
              account'[v].alliance = IF v \in {u} THEN a ELSE account[v].alliance
        /\ \A v \in {u} \cap Accounts!Subscribed : Accounts!Alliance(v) \in Accounts!Enlisted({u}, a)
        /\ \A b : Accounts!MembersOf(b)' \subseteq Accounts!MembersOf(b) \/ Accounts!Members(b) \in Accounts!Enlisted({u}, a)
    BY <1>0, <1>2, EnlistedReports
  <2> QED
    BY <1>2, <2>1
<1>4. /\ DOMAIN alliance' = DOMAIN alliance \cup {a} /\ alliance'[a] = u
      /\ \A b \in DOMAIN alliance : b # a /\ alliance'[b] = alliance[b]
  BY <1>0, <1>1, <1>2 DEF Accounts!Put, Keys
<1>5. crossed \subseteq crossed'
  BY <1>2 DEF Accounts!Proceed
<1>6. Reports(W)
  BY <1>3, <1>4 DEF Reports, Accounts!AllianceOwners, Taken
<1>7. Keys'
  <2>1. \A v \in Accounts!Subscribed' : account'[v].alliance \in DOMAIN alliance' \cup {NoAlliance}
    BY <1>0, <1>3, <1>4 DEF Keys
  <2>2. \A b \in DOMAIN alliance' : b \in Nat /\ b <= ids' /\ alliance'[b] \in Accounts!Subscribed'
    BY <1>0, <1>1, <1>2, <1>3, <1>4 DEF Keys
  <2> QED
    BY <2>1, <2>2 DEF Keys
<1>8. ASSUME NEW b \in DOMAIN alliance', Accounts!Alliance(alliance'[b]) \notin crossed'
      PROVE  account'[alliance'[b]].alliance = b
  <2>1. CASE b = a
    BY <1>2, <1>3, <1>4, <2>1
  <2>2. CASE b # a
    <3>1. /\ b \in DOMAIN alliance /\ alliance'[b] = alliance[b] /\ alliance[b] \in Accounts!Subscribed
          /\ alliance[b] # u /\ Accounts!Alliance(alliance[b]) \notin crossed
      BY <1>0, <1>2, <1>4, <1>5, <1>8, <2>2 DEF Keys, Accounts!AllianceOwners
    <3> QED
      BY <1>0, <1>3, <3>1 DEF Owned
  <2> QED
    BY <2>1, <2>2
<1>9. ASSUME NEW b \in DOMAIN alliance', Accounts!Members(b) \notin crossed'
      PROVE  Cardinality(Accounts!MembersOf(b)') <= MaxSize
  <2>1. CASE b = a
    <3>1. Accounts!MembersOf(a)' = {u}
      <4>1. \A v \in Accounts!Subscribed : account[v].alliance # a
        BY <1>0, <1>1, AccountsFacts DEF Keys
      <4> QED
        BY <1>2, <1>3, <4>1 DEF Accounts!MembersOf
    <3>2. Cardinality(Accounts!MembersOf(a)') = 1
      BY <3>1, FS_Singleton
    <3> QED
      BY <2>1, <3>2, AccountsFacts
  <2>2. CASE b # a
    <3>1. b \in DOMAIN alliance /\ Accounts!Members(b) \notin crossed
      BY <1>4, <1>5, <1>9, <2>2
    <3>2. Accounts!MembersOf(b)' \subseteq Accounts!MembersOf(b)
      BY <1>3, <2>2 DEF Accounts!MembersOf
    <3> QED
      BY <1>0, <3>1, <3>2, Shrinks DEF Sized
  <2> QED
    BY <2>1, <2>2
<1>10. Owned' /\ Sized'
  BY <1>8, <1>9 DEF Owned, Sized, Accounts!Alliance, Accounts!Members
<1>11. Checked(Accounts!Idle)'
  BY DEF Checked, Accounts!Idle
<1> HIDE DEF W
<1>12. \A s \in Request : Checked(req[s])'
  BY <1>2, <1>6, <1>11, AdvanceChecked DEF Accounts!Proceed, W
<1> QED
  BY <1>7, <1>10, <1>12 DEF Allied

(* An accepted member still fits in.                                       *)
LEMMA AcceptAllied ==
    ASSUME AccountsParameters, Typed, Typed', Allied, NEW r \in Request, Accounts!CommitAccept(r), ~Accounts!Refused(r)
    PROVE  Allied'
<1>0. RowsTyped /\ Keys /\ Owned /\ Sized
  BY DEF Typed, Allied
<1>i. Checked(Accounts!Idle)'
  BY DEF Checked, Accounts!Idle
<1>1. PICK q, a, v : q = req[r] /\ a = q.saw.alliance /\ v = q.saw.user
  OBVIOUS
<1>c. Checked(q) /\ q.kind = "accept" /\ q.saw.free \in BOOLEAN
  BY <1>1 DEF Allied, Checked, Accounts!CommitAccept, Accounts!Committing
<1>2. /\ ~(q.saw.free /\ v \in Accounts!Subscribed /\ a \notin DOMAIN alliance)
      /\ account' = IF q.saw.free THEN Accounts!SetAlliance({v}, a) ELSE account
      /\ \E W : /\ q.saw.free => Accounts!Enlisted({v}, a) \subseteq W
                /\ Accounts!Proceed(r, Accounts!Idle, W)
      /\ UNCHANGED <<alliance, ids>>
  BY <1>1, <1>c DEF Accounts!CommitAccept
<1>3. PICK W : (q.saw.free => Accounts!Enlisted({v}, a) \subseteq W) /\ Accounts!Proceed(r, Accounts!Idle, W)
  BY <1>2
<1>4. crossed \subseteq crossed' /\ (q.stale # {} => W \subseteq crossed')
  BY <1>1, <1>3 DEF Accounts!Proceed, Accounts!Blindly
<1>5. CASE ~(q.saw.free /\ v \in Accounts!Subscribed)
  <2>1. AlliancesStay
    <3>1. CASE ~q.saw.free
      BY <1>2, <3>1 DEF AlliancesStay, Accounts!Subscribed, Typed
    <3>2. CASE q.saw.free
      <4>1. v \notin Accounts!Subscribed /\ account' = Accounts!SetAlliance({v}, a)
        BY <1>2, <1>5, <3>2
      <4>2. /\ Accounts!Subscribed' = Accounts!Subscribed
            /\ \A u \in Accounts!Subscribed :
                  account'[u].alliance = IF u \in {v} THEN a ELSE account[u].alliance
        BY <1>0, <4>1, EnlistedReports
      <4>3. alliance' = alliance /\ ids' >= ids
        BY <1>2 DEF Typed
      <4>4. \A u \in Accounts!Subscribed : account'[u].alliance = account[u].alliance
        BY <4>1, <4>2
      <4> QED
        BY <4>2, <4>3, <4>4 DEF AlliancesStay
    <3> QED
      BY <3>1, <3>2
  <2> QED
    BY <1>i, <1>3, <1>4, <2>1, ProceedAllied DEF CrossedKeeps, Accounts!Proceed
<1>6. CASE q.saw.free /\ v \in Accounts!Subscribed
  <2>1. account' = Accounts!SetAlliance({v}, a) /\ a \in DOMAIN alliance /\ Accounts!Enlisted({v}, a) \subseteq W
    BY <1>2, <1>3, <1>6
  <2>2. /\ Accounts!Subscribed' = Accounts!Subscribed
        /\ \A u \in Accounts!Subscribed :
              account'[u].alliance = IF u = v THEN a ELSE account[u].alliance
        /\ Accounts!Alliance(v) \in W /\ Accounts!Members(a) \in W
        /\ \A b : Accounts!MembersOf(b)' \subseteq Accounts!MembersOf(b) \/ Accounts!Members(b) \in W
    <3>1. Accounts!Alliance(v) \in Accounts!Enlisted({v}, a) /\ Accounts!Members(a) \in Accounts!Enlisted({v}, a)
      BY <1>6 DEF Accounts!Enlisted
    <3> QED
      BY <1>0, <1>6, <2>1, <3>1, EnlistedReports
  <2>3. Reports(W)
    BY <1>2, <2>2 DEF Reports, Accounts!AllianceOwners, Taken
  <2>4. Keys'
    BY <1>0, <1>2, <2>1, <2>2 DEF Keys
  <2>5. ASSUME NEW b \in DOMAIN alliance, Accounts!Alliance(alliance[b]) \notin crossed'
        PROVE  account'[alliance[b]].alliance = b
    <3>1. Accounts!Alliance(alliance[b]) \notin crossed /\ alliance[b] \in Accounts!Subscribed
      BY <1>0, <1>4, <2>5 DEF Keys
    <3>2. account[alliance[b]].alliance = b /\ b \in Nat
      BY <1>0, <3>1 DEF Owned, Keys
    <3>3. alliance[b] # v
      <4> SUFFICES ASSUME alliance[b] = v PROVE FALSE
        OBVIOUS
      <4>1. q.stale = {}
        BY <1>4, <2>2, <2>5
      <4>2. v \notin Taken
        BY <1>1, <1>c, <1>6, <4>1 DEF Checked
      <4> QED
        BY <1>6, <3>2, <4>2, AccountsFacts DEF Taken
    <3> QED
      BY <2>2, <3>1, <3>2, <3>3
  <2>6. ASSUME NEW b \in DOMAIN alliance, Accounts!Members(b) \notin crossed'
        PROVE  Cardinality(Accounts!MembersOf(b)') <= MaxSize
    <3>1. CASE b = a
      <4>1. q.stale = {}
        BY <1>4, <2>2, <2>6, <3>1
      <4>2. Cardinality(Accounts!MembersOf(a)) < MaxSize
        BY <1>0, <1>1, <1>c, <2>1, <4>1, AccountsFacts DEF Checked, Keys
      <4>3. IsFiniteSet(Accounts!MembersOf(a)) /\ Cardinality(Accounts!MembersOf(a)) \in Nat
        BY <1>0, MembersFinite
      <4>4. Accounts!MembersOf(a)' \subseteq Accounts!MembersOf(a) \cup {v}
        BY <2>2 DEF Accounts!MembersOf
      <4>5. /\ IsFiniteSet(Accounts!MembersOf(a) \cup {v})
            /\ Cardinality(Accounts!MembersOf(a) \cup {v}) \in Nat
            /\ Cardinality(Accounts!MembersOf(a) \cup {v}) <= Cardinality(Accounts!MembersOf(a)) + 1
        <5>1. /\ IsFiniteSet(Accounts!MembersOf(a) \cup {v})
              /\ \/ Cardinality(Accounts!MembersOf(a) \cup {v}) = Cardinality(Accounts!MembersOf(a))
                 \/ Cardinality(Accounts!MembersOf(a) \cup {v}) = Cardinality(Accounts!MembersOf(a)) + 1
          BY <4>3, FS_AddElement
        <5> QED
          BY <4>3, <5>1
      <4>6. /\ Cardinality(Accounts!MembersOf(a)') \in Nat
            /\ Cardinality(Accounts!MembersOf(a)') <= Cardinality(Accounts!MembersOf(a) \cup {v})
        BY <4>4, <4>5, FS_Subset, FS_CardinalityType
      <4> QED
        BY <3>1, <4>2, <4>3, <4>5, <4>6, AccountsFacts
    <3>2. CASE b # a
      <4>1. Accounts!MembersOf(b)' \subseteq Accounts!MembersOf(b)
        BY <2>2, <3>2 DEF Accounts!MembersOf
      <4> QED
        BY <1>0, <1>4, <2>6, <4>1, Shrinks DEF Sized
    <3> QED
      BY <3>1, <3>2
  <2>7. Owned' /\ Sized'
    BY <1>2, <2>5, <2>6 DEF Owned, Sized, Accounts!Alliance, Accounts!Members
  <2>8. \A s \in Request : Checked(req[s])'
    BY <1>3, <1>i, <2>3, AdvanceChecked DEF Accounts!Proceed
  <2> QED
    BY <2>4, <2>7, <2>8 DEF Allied
<1> QED
  BY <1>5, <1>6

(* A step that frees some of their alliance, and may take alliances away.  *)
LEMMA FreeingAllied ==
    ASSUME AccountsParameters, Typed, Typed', Allied, NEW r \in Request, NEW W, Accounts!Proceed(r, Accounts!Idle, W), ids' = ids,
           Accounts!Subscribed' \subseteq Accounts!Subscribed,
           DOMAIN alliance' \subseteq DOMAIN alliance,
           \A a \in DOMAIN alliance' : alliance'[a] = alliance[a] /\ alliance[a] \in Accounts!Subscribed',
           \A u \in Accounts!Subscribed' :
              \/ account'[u].alliance = account[u].alliance
              \/ account'[u].alliance = NoAlliance,
           \A u \in Accounts!Subscribed' : account'[u].alliance \in DOMAIN alliance' \cup {NoAlliance},
           \A a \in DOMAIN alliance' :
              account'[alliance[a]].alliance # account[alliance[a]].alliance =>
                 account[alliance[a]].alliance # a \/ Accounts!Alliance(alliance[a]) \in crossed'
    PROVE  Allied'
<1>0. RowsTyped /\ Keys /\ Owned /\ Sized /\ crossed \subseteq crossed'
  BY DEF Typed, Allied, Accounts!Proceed
<1>1. ASSUME NEW a, a # NoAlliance
      PROVE  Accounts!MembersOf(a)' \subseteq Accounts!MembersOf(a)
  BY <1>1 DEF Accounts!MembersOf
<1>2. Reports(W)
  <2>1. Taken' \subseteq Taken
    BY DEF Taken
  <2>2. Accounts!AllianceOwners' \subseteq Accounts!AllianceOwners
    BY DEF Accounts!AllianceOwners
  <2> QED
    BY <1>1, <2>1, <2>2 DEF Reports
<1>3. Keys'
  BY <1>0 DEF Keys
<1>4. ASSUME NEW a \in DOMAIN alliance', Accounts!Alliance(alliance'[a]) \notin crossed'
      PROVE  account'[alliance'[a]].alliance = a
  BY <1>0, <1>4 DEF Owned
<1>5. ASSUME NEW a \in DOMAIN alliance', Accounts!Members(a) \notin crossed'
      PROVE  Cardinality(Accounts!MembersOf(a)') <= MaxSize
  <2>1. a # NoAlliance
    BY <1>0, AccountsFacts DEF Keys
  <2> QED
    BY <1>0, <1>1, <1>5, <2>1, Shrinks DEF Sized
<1>6. Owned' /\ Sized'
  BY <1>4, <1>5 DEF Owned, Sized, Accounts!Alliance, Accounts!Members
<1>7. \A s \in Request : Checked(req[s])'
  <2>1. Checked(Accounts!Idle)'
    BY DEF Checked, Accounts!Idle
  <2> QED
    BY <1>2, <2>1, AdvanceChecked DEF Accounts!Proceed
<1> QED
  BY <1>3, <1>6, <1>7 DEF Allied

(* A member leaves.                                                        *)
LEMMA LeaveAllied ==
    ASSUME AccountsParameters, Typed, Typed', Allied, NEW r \in Request, Accounts!CommitLeave(r)
    PROVE  Allied'
<1>0. RowsTyped /\ Keys /\ Owned
  BY DEF Typed, Allied
<1>1. PICK q, u : q = req[r] /\ u = q.user
  OBVIOUS
<1>2. Checked(q) /\ q.kind = "leave"
  BY <1>1 DEF Allied, Accounts!CommitLeave, Accounts!Committing
<1>3. PICK W : W = Accounts!Enlisted({u}, NoAlliance)
  OBVIOUS
<1>4. /\ account' = Accounts!SetAlliance({u}, NoAlliance) /\ Accounts!Proceed(r, Accounts!Idle, W)
      /\ UNCHANGED <<alliance, ids>>
  BY <1>1, <1>3 DEF Accounts!CommitLeave
<1>5. /\ Accounts!Subscribed' = Accounts!Subscribed
      /\ \A v \in Accounts!Subscribed :
            account'[v].alliance = IF v = u THEN NoAlliance ELSE account[v].alliance
      /\ u \in Accounts!Subscribed => Accounts!Alliance(u) \in W
  <2>1. /\ Accounts!Subscribed' = Accounts!Subscribed
        /\ \A v \in Accounts!Subscribed :
              account'[v].alliance = IF v \in {u} THEN NoAlliance ELSE account[v].alliance
    BY <1>0, <1>4, EnlistedReports
  <2>2. u \in Accounts!Subscribed => Accounts!Alliance(u) \in W
    BY <1>3 DEF Accounts!Enlisted
  <2> QED
    BY <2>1, <2>2
<1>6. ASSUME NEW a \in DOMAIN alliance, alliance[a] = u
      PROVE  Accounts!Alliance(u) \in crossed'
  <2>1. u \in Accounts!AllianceOwners /\ u \in Accounts!Subscribed
    BY <1>0, <1>6 DEF Accounts!AllianceOwners, Keys
  <2>2. q.stale # {}
    BY <1>1, <1>2, <2>1 DEF Checked
  <2> QED
    BY <1>1, <1>4, <1>5, <2>1, <2>2 DEF Accounts!Proceed, Accounts!Blindly
<1>7. \A a \in DOMAIN alliance : alliance[a] \in Accounts!Subscribed
  BY <1>0 DEF Keys
<1>8. \A v \in Accounts!Subscribed : account'[v].alliance \in DOMAIN alliance \cup {NoAlliance}
  BY <1>0, <1>5 DEF Keys
<1>9. \A a \in DOMAIN alliance :
         account'[alliance[a]].alliance # account[alliance[a]].alliance =>
            Accounts!Alliance(alliance[a]) \in crossed'
  BY <1>5, <1>6, <1>7
<1> QED
  BY <1>4, <1>5, <1>7, <1>8, <1>9, FreeingAllied

(* An alliance is dissolved with its members and requests.                 *)
LEMMA DissolveAllied ==
    ASSUME AccountsParameters, Typed, Typed', Allied, NEW r \in Request, Accounts!CommitDissolve(r)
    PROVE  Allied'
<1>0. RowsTyped /\ Keys /\ Owned
  BY DEF Typed, Allied
<1>1. PICK a, us : a = req[r].saw /\ us = Accounts!MembersOf(a)
  OBVIOUS
<1>2. /\ account' = Accounts!SetAlliance(us, NoAlliance) /\ alliance' = Accounts!Without(alliance, {a})
      /\ \E W : Accounts!Proceed(r, Accounts!Idle, W)
      /\ UNCHANGED ids
  BY <1>1 DEF Accounts!CommitDissolve, Accounts!Disband
<1>4. /\ Accounts!Subscribed' = Accounts!Subscribed
      /\ \A v \in Accounts!Subscribed :
            account'[v].alliance = IF v \in us THEN NoAlliance ELSE account[v].alliance
  BY <1>0, <1>2, EnlistedReports
<1>5. \A v \in us : v \in Accounts!Subscribed /\ account[v].alliance = a
  BY <1>1 DEF Accounts!MembersOf
<1>7. /\ DOMAIN alliance' = DOMAIN alliance \ {a}
      /\ \A b \in DOMAIN alliance' : alliance'[b] = alliance[b] /\ alliance[b] \in Accounts!Subscribed
  BY <1>0, <1>2 DEF Accounts!Without, Keys
<1>8. \A v \in Accounts!Subscribed : v \notin us => account[v].alliance # a
  BY <1>1 DEF Accounts!MembersOf
<1>9. \A v \in Accounts!Subscribed : account'[v].alliance \in DOMAIN alliance' \cup {NoAlliance}
  BY <1>0, <1>4, <1>7, <1>8 DEF Keys
<1>10. \A b \in DOMAIN alliance' :
          account'[alliance[b]].alliance # account[alliance[b]].alliance =>
             account[alliance[b]].alliance # b
  BY <1>4, <1>5, <1>7
<1> QED
  BY <1>2, <1>4, <1>7, <1>9, <1>10, FreeingAllied

(* A user is deleted with what he owns.                                    *)
LEMMA DeleteAllied ==
    ASSUME AccountsParameters, Typed, Typed', Allied, NEW r \in Request, Accounts!CommitDeleteAccount(r),
           req[r].user \in Accounts!Subscribed /\ Accounts!Deletable(req[r].user)
    PROVE  Allied'
<1>0. RowsTyped /\ Keys /\ Owned
  BY DEF Typed, Allied
<1>1. PICK u, us, as : /\ u = req[r].user /\ as = Accounts!AlliancesOf(u)
                       /\ us = UNION {Accounts!MembersOf(a) : a \in Accounts!AlliancesOf(u)}
  OBVIOUS
<1>2. /\ account' = Accounts!Without(Accounts!SetAlliance(us, NoAlliance), {u})
      /\ alliance' = Accounts!Without(alliance, as)
      /\ \E W : Accounts!Proceed(r, Accounts!Idle, W)
      /\ UNCHANGED ids
  BY <1>1 DEF Accounts!CommitDeleteAccount
<1>4. /\ Accounts!Subscribed' = Accounts!Subscribed \ {u}
      /\ \A v \in Accounts!Subscribed' :
            account'[v].alliance = IF v \in us THEN NoAlliance ELSE account[v].alliance
  <2>1. /\ DOMAIN Accounts!SetAlliance(us, NoAlliance) = Accounts!Subscribed
        /\ \A v \in Accounts!Subscribed : Accounts!SetAlliance(us, NoAlliance)[v].alliance =
                                    IF v \in us THEN NoAlliance ELSE account[v].alliance
    BY <1>0, SetAllianceKeeps
  <2> QED
    BY <1>2, <2>1 DEF Accounts!Without, Accounts!Subscribed
<1>5. \A v \in us : v \in Accounts!Subscribed /\ account[v].alliance \in as
  BY <1>1 DEF Accounts!MembersOf
<1>7. /\ DOMAIN alliance' = DOMAIN alliance \ as
      /\ \A b \in DOMAIN alliance' : alliance'[b] = alliance[b] /\ alliance[b] \in Accounts!Subscribed'
  BY <1>0, <1>1, <1>2, <1>4 DEF Accounts!Without, Keys, Accounts!AlliancesOf
<1>8. \A v \in Accounts!Subscribed : v \notin us => account[v].alliance \notin as
  BY <1>1 DEF Accounts!MembersOf
<1>9. \A v \in Accounts!Subscribed' : account'[v].alliance \in DOMAIN alliance' \cup {NoAlliance}
  BY <1>0, <1>4, <1>7, <1>8 DEF Keys
<1>10. \A b \in DOMAIN alliance' :
          account'[alliance[b]].alliance # account[alliance[b]].alliance =>
             account[alliance[b]].alliance # b
  BY ZenonT(60), <1>4, <1>5, <1>7
<1> QED
  BY <1>2, <1>4, <1>7, <1>9, <1>10, FreeingAllied

(* A user is created.                                                      *)
LEMMA SubscribeAllied ==
    ASSUME AccountsParameters, Typed, Typed', Allied, NEW r \in Request, Accounts!CommitSubscribe(r),
           req[r].user \notin Accounts!Subscribed
    PROVE  Allied'
<1>0. RowsTyped /\ Keys /\ Owned /\ Sized
  BY DEF Typed, Allied
<1>1. PICK u : u = req[r].user
  OBVIOUS
<1>2. /\ \E fresh : account' = Accounts!Put(account, u, fresh) /\ fresh.alliance = NoAlliance
      /\ \E W : Accounts!Advance(r, Accounts!Idle, W)
      /\ crossed \subseteq crossed' /\ UNCHANGED <<alliance, ids>>
  BY <1>1 DEF Accounts!CommitSubscribe
<1>3. /\ Accounts!Subscribed' = Accounts!Subscribed \cup {u} /\ account'[u].alliance = NoAlliance
      /\ \A v \in Accounts!Subscribed : v # u /\ account'[v] = account[v]
  BY <1>1, <1>2 DEF Accounts!Put, Accounts!Subscribed
<1>4. \A a : a # NoAlliance => Accounts!MembersOf(a)' = Accounts!MembersOf(a)
  BY <1>3 DEF Accounts!MembersOf
<1>5. Accounts!AllianceOwners' = Accounts!AllianceOwners /\ Taken' = Taken
  BY <1>2, <1>3 DEF Accounts!AllianceOwners, Taken
<1>6. Keys'
  BY <1>0, <1>2, <1>3 DEF Keys
<1>7. Owned'
  <2>1. ASSUME NEW a \in DOMAIN alliance, Accounts!Alliance(alliance[a]) \notin crossed'
        PROVE  account'[alliance[a]].alliance = a
    BY <1>0, <1>2, <1>3, <2>1 DEF Owned, Keys
  <2> QED
    BY <1>2, <2>1 DEF Owned, Accounts!Alliance
<1>8. Sized'
  <2>1. ASSUME NEW a \in DOMAIN alliance, Accounts!Members(a) \notin crossed'
        PROVE  Cardinality(Accounts!MembersOf(a)') <= MaxSize
    <3>1. a # NoAlliance
      BY <1>0, AccountsFacts DEF Keys
    <3> QED
      BY <1>0, <1>2, <1>4, <2>1, <3>1 DEF Sized
  <2> QED
    BY <1>2, <2>1 DEF Sized, Accounts!Members
<1>9. \A s \in Request : Checked(req[s])'
  <2>1. Checked(Accounts!Idle)'
    BY DEF Checked, Accounts!Idle
  <2>2. \A W : Reports(W)
    BY <1>4, <1>5 DEF Reports
  <2> QED
    BY <1>2, <2>1, <2>2, AdvanceChecked
<1> QED
  BY <1>6, <1>7, <1>8, <1>9 DEF Allied

(* Every step keeps the alliance invariant.                                *)
LEMMA NextAllied ==
    ASSUME AccountsParameters, Typed, Allied, [Accounts!Next]_(Accounts!vars)
    PROVE  Allied'
<1> USE DEF Accounts!tables
<1>t. Typed'
  BY NextTyped
<1>0. RowsTyped /\ RowsTyped' /\ RequestsTyped /\ ids \in Nat
  BY <1>t DEF Typed
<1>i. Checked(Accounts!Idle)'
  BY DEF Checked, Accounts!Idle
<1>l. ASSUME UNCHANGED <<account, alliance, ids>>
      PROVE  AlliancesStay
  BY <1>0, <1>l DEF AlliancesStay, Accounts!Subscribed
<1>c. ASSUME NEW r \in Request, NEW kind, NEW u \in User, NEW saw, NEW reads,
             Accounts!Begin(r, kind, u, saw, reads), kind \notin {"leave", "accept"}
      PROVE  Allied'
  <2>1. UNCHANGED <<account, alliance, ids, crossed>>
    BY <1>c DEF Accounts!Begin
  <2>2. req'[r].kind = kind /\ \A s \in Request \ {r} : req'[s] = req[s]
    BY <1>0, <1>c DEF Accounts!Begin, RequestsTyped
  <2>3. Checked(req[r])'
    BY <1>c, <2>2 DEF Checked
  <2> QED
    BY <1>l, <1>t, <2>1, <2>2, <2>3, OthersAllied DEF CrossedKeeps
<1>e. ASSUME NEW r \in Request, Accounts!Refused(r)
      PROVE  Allied'
  BY <1>e, <1>i, <1>l, <1>t, ProceedAllied DEF Accounts!Refused, Accounts!Proceed, CrossedKeeps
<1>o. ASSUME NEW W, req' = [s \in Request |-> Accounts!Overtaken(req[s], W)], AlliancesStay,
             crossed \subseteq crossed'
      PROVE  Allied'
  <2>1. CrossedKeeps
    BY <1>o DEF CrossedKeeps
  <2>2. Keys' /\ Owned' /\ Sized' /\ Reports(W)
    BY <1>o, <1>t, <2>1, RowsStay DEF Allied
  <2>3. ASSUME NEW s \in Request, NEW o, o = req[s]
        PROVE  Checked(Accounts!Overtaken(o, W))'
    BY <1>0, <2>2, <2>3, CheckedOvertaken DEF Allied, RequestsTyped
  <2>4. ASSUME NEW s \in Request
        PROVE  Checked(req[s])'
    <3>1. PICK p, o : p = req'[s] /\ o = req[s] /\ p = Accounts!Overtaken(o, W)
      BY <1>o
    <3>2. Checked(p)'
      BY <2>3, <3>1
    <3> QED
      BY <3>1, <3>2 DEF Checked, Accounts!MembersOf, Accounts!Subscribed
  <2> QED
    BY <2>2, <2>4 DEF Allied
<1>1. ASSUME NEW r \in Request, NEW u \in User, Accounts!Handle(r, u)
      PROVE  Allied'
  <2>1. CASE \/ Accounts!Subscribe(r, u) \/ Accounts!DeleteAccount(r, u)
             \/ Accounts!Create(r, u) \/ Accounts!RequestJoin(r, u) \/ Accounts!Reject(r, u)
             \/ Accounts!Dissolve(r, u) \/ Accounts!Accrue(r, u)
    <3>1. \E kind, saw, reads :
             kind \notin {"leave", "accept"} /\ Accounts!Begin(r, kind, u, saw, reads)
      <4>1. CASE Accounts!Subscribe(r, u)
        BY <4>1 DEF Accounts!Subscribe
      <4>2. CASE Accounts!DeleteAccount(r, u)
        BY <4>2 DEF Accounts!DeleteAccount
      <4>3. CASE Accounts!Create(r, u)
        BY <4>3 DEF Accounts!Create
      <4>4. CASE Accounts!RequestJoin(r, u)
        BY <4>4 DEF Accounts!RequestJoin
      <4>5. CASE Accounts!Reject(r, u)
        BY <4>5 DEF Accounts!Reject
      <4>6. CASE Accounts!Dissolve(r, u)
        BY <4>6 DEF Accounts!Dissolve
      <4>7. CASE Accounts!Accrue(r, u)
        BY <4>7 DEF Accounts!Accrue
      <4> QED
        BY <2>1, <4>1, <4>2, <4>3, <4>4, <4>5, <4>6, <4>7
    <3> QED
      BY <1>c, <3>1
  <2>2. CASE Accounts!Accept(r, u)
    <3>1. PICK j, a, v : /\ ~Accounts!IsLimitReached(a)
                         /\ Accounts!Begin(r, "accept", u,
                                  [join |-> j, alliance |-> a, user |-> v,
                                   free |-> account[v].alliance = NoAlliance],
                                  {Accounts!Alliance(v), Accounts!Members(a), Accounts!Join(j)})
      BY <2>2 DEF Accounts!Accept
    <3>2. /\ req'[r].kind = "accept" /\ req'[r].saw.user = v /\ req'[r].saw.alliance = a
          /\ req'[r].saw.free = (account[v].alliance = NoAlliance)
          /\ {Accounts!Alliance(v), Accounts!Members(a)} \subseteq req'[r].reads
          /\ \A s \in Request \ {r} : req'[s] = req[s]
          /\ UNCHANGED <<account, alliance, ids, crossed>>
      BY <1>0, <3>1 DEF Accounts!Begin, RequestsTyped
    <3>3. Cardinality(Accounts!MembersOf(a)) < MaxSize
      BY <1>0, <3>1, LimitIsMaxSize
    <3>4. Accounts!MembersOf(a)' = Accounts!MembersOf(a) /\ Taken' = Taken
      BY <3>2 DEF Accounts!MembersOf, Taken, Accounts!Subscribed
    <3>5. ASSUME NEW p, p = req'[r]
          PROVE  Checked(p)'
      BY <3>2, <3>3, <3>4, <3>5 DEF Checked, Taken
    <3>6. Checked(req[r])'
      <4>1. PICK p : p = req'[r]
        OBVIOUS
      <4> QED
        BY <3>5, <4>1 DEF Checked, Accounts!MembersOf, Accounts!Subscribed
    <3> QED
      BY <1>l, <1>t, <3>2, <3>6, OthersAllied DEF CrossedKeeps
  <2>3. CASE Accounts!Leave(r, u)
    <3>1. /\ u \notin Accounts!AllianceOwners
          /\ req'[r].kind = "leave" /\ req'[r].user = u /\ req'[r].reads = {Accounts!Owns(u)}
          /\ \A s \in Request \ {r} : req'[s] = req[s]
          /\ UNCHANGED <<account, alliance, ids, crossed>>
      BY <1>0, <2>3 DEF Accounts!Leave, Accounts!Begin, RequestsTyped
    <3>2. Checked(req[r])'
      BY <3>1 DEF Checked, Accounts!AllianceOwners
    <3> QED
      BY <1>l, <1>t, <3>1, <3>2, OthersAllied DEF CrossedKeeps
  <2>4. ASSUME NEW s \in Accounts!Source, Accounts!Improve(r, u, s)
        PROVE  Allied'
    <3> DEFINE q == [kind |-> "emit", at |-> "evict", user |-> u,
                     saw |-> [last |-> 0, value |-> 0, now |-> 0], reads |-> {}, stale |-> {}]
    <3>1. Checked(q)'
      BY DEF Checked
    <3>2. AlliancesStay
      BY <1>0, <2>4 DEF Accounts!Improve, AlliancesStay, RowsTyped, Row, Accounts!Subscribed
    <3>3. Accounts!Advance(r, q, {Accounts!Value(u)}) /\ crossed \subseteq crossed'
      BY <2>4 DEF Accounts!Improve, Accounts!Proceed
    <3> HIDE DEF q
    <3> QED
      BY <1>t, <3>1, <3>2, <3>3, ProceedAllied DEF CrossedKeeps
  <2> QED
    BY <1>1, <2>1, <2>2, <2>3, <2>4 DEF Accounts!Handle
<1>2. ASSUME NEW r \in Request, Accounts!Go(r)
      PROVE  Allied'
  <2>1. CASE Accounts!CommitSubscribe(r)
    <3>1. CASE req[r].user \in Accounts!Subscribed
      BY <2>1, <3>1, <1>e DEF Accounts!CommitSubscribe
    <3> QED
      BY <1>t, <2>1, <3>1, SubscribeAllied
  <2>2. CASE Accounts!CommitDeleteAccount(r)
    <3>1. CASE req[r].user \notin Accounts!Subscribed \/ ~Accounts!Deletable(req[r].user)
      BY <2>2, <3>1, <1>e DEF Accounts!CommitDeleteAccount
    <3> QED
      BY <1>t, <2>2, <3>1, DeleteAllied
  <2>3. CASE Accounts!CommitCreate(r)
    BY <1>e, <1>t, <2>3, CreateAllied
  <2>4. CASE Accounts!CommitAccept(r)
    BY <1>e, <1>t, <2>4, AcceptAllied
  <2>5. CASE Accounts!CommitLeave(r)
    BY <1>t, <2>5, LeaveAllied
  <2>6. CASE Accounts!CommitDissolve(r)
    BY <1>t, <2>6, DissolveAllied
  <2>7. CASE Accounts!CommitRequestJoin(r)
    <3>1. CASE Accounts!Refused(r)
      BY <1>e, <3>1
    <3>2. CASE ~Accounts!Refused(r)
      <4>1. /\ ids' = ids + 1 /\ UNCHANGED <<account, alliance>>
            /\ Accounts!Proceed(r, Accounts!Idle, {})
        BY <2>7, <3>2 DEF Accounts!CommitRequestJoin
      <4>2. AlliancesStay
        BY <1>0, <4>1 DEF AlliancesStay, Accounts!Subscribed
      <4> QED
        BY <1>i, <1>t, <4>1, <4>2, ProceedAllied DEF Accounts!Proceed, CrossedKeeps
    <3> QED
      BY <3>1, <3>2
  <2>8. CASE Accounts!CommitReject(r) \/ Accounts!Hit(r) \/ Accounts!EditImprovement(r)
    <3>1. /\ UNCHANGED <<account, alliance, ids>>
          /\ \E W, q : Accounts!Proceed(r, q, W) /\ q.kind \notin {"leave", "accept"}
      <4>1. CASE Accounts!CommitReject(r)
        BY <4>1 DEF Accounts!CommitReject, Accounts!Idle
      <4>2. CASE Accounts!Hit(r)
        <5>1. Carries(req[r]) /\ req[r].kind \in Found
          BY <1>0, <4>2
             DEF Accounts!Hit, Accounts!Looking, Accounts!Committing, Found, RequestsTyped
        <5>2. ASSUME NEW value
              PROVE  Accounts!HasFound(r, value).kind \notin {"leave", "accept"}
          BY <1>0, <5>1, FoundCarries, IdleCarries DEF Typed
        <5> QED
          BY <4>2, <5>2 DEF Accounts!Hit
      <4>3. CASE Accounts!EditImprovement(r)
        <5>1. [kind |-> "edit", at |-> "evict", reads |-> {}, stale |-> {}].kind = "edit"
          OBVIOUS
        <5> QED
          BY <4>3, <5>1 DEF Accounts!EditImprovement
      <4> QED
        BY <2>8, <4>1, <4>2, <4>3
    <3>2. PICK W, q : Accounts!Proceed(r, q, W) /\ q.kind \notin {"leave", "accept"}
      BY <3>1
    <3>3. Checked(q)'
      BY <3>2 DEF Checked
    <3> QED
      BY <1>l, <1>t, <3>1, <3>2, <3>3, ProceedAllied DEF Accounts!Proceed, CrossedKeeps
  <2>9. CASE Accounts!Compute(r) \/ Accounts!Insert(r) \/ Accounts!EvictAndEmit(r) \/ Accounts!EvictAll(r) \/ Accounts!Vanish(r)
    <3>1. \A s \in Request \ {r} : req'[s] = req[s]
      BY <1>0, <2>9
         DEF Accounts!Compute, Accounts!Insert, Accounts!EvictAndEmit, Accounts!EvictAll,
             Accounts!Vanish, RequestsTyped
    <3>2. Carries(req[r])
      BY <1>0 DEF RequestsTyped
    <3>3. req'[r].kind \notin {"leave", "accept"}
      <4>1. CASE Accounts!Compute(r)
        BY <1>0, <3>2, <4>1
           DEF Accounts!Compute, Accounts!Looking, Accounts!Committing, RequestsTyped, Carries
      <4>2. CASE Accounts!Insert(r)
        BY <1>0, <3>2, <4>2
           DEF Accounts!Insert, Accounts!HasFound, RequestsTyped, Carries, Found, Accounts!Idle
      <4>3. CASE Accounts!EvictAndEmit(r)
        BY <1>0, <3>2, <4>3 DEF Accounts!EvictAndEmit, RequestsTyped, Carries
      <4>4. CASE Accounts!EvictAll(r) \/ Accounts!Vanish(r)
        BY <1>0, <4>4 DEF Accounts!EvictAll, Accounts!Vanish, RequestsTyped, Accounts!Idle
      <4> QED
        BY <2>9, <4>1, <4>2, <4>3, <4>4
    <3>4. Checked(req[r])'
      BY <3>3 DEF Checked
    <3>5. UNCHANGED <<account, alliance, ids>>
      BY <2>9
         DEF Accounts!Compute, Accounts!Insert, Accounts!EvictAndEmit, Accounts!EvictAll,
             Accounts!Vanish
    <3>6. CrossedKeeps
      BY <2>9
         DEF Accounts!Compute, Accounts!Insert, Accounts!EvictAndEmit, Accounts!EvictAll,
             Accounts!Vanish, CrossedKeeps, Accounts!Alliance, Accounts!Members, Accounts!Value
    <3> QED
      BY <1>l, <1>t, <3>1, <3>4, <3>5, <3>6, OthersAllied
  <2>10. CASE Accounts!Credit(r)
    <3>1. CASE req[r].user \notin Accounts!Subscribed
      BY <2>10, <3>1, <1>e DEF Accounts!Credit
    <3>2. CASE req[r].user \in Accounts!Subscribed
      <4>1. /\ Accounts!Subscribed' = Accounts!Subscribed /\ UNCHANGED <<alliance, ids>>
            /\ \A v \in Accounts!Subscribed : account'[v].alliance = account[v].alliance
            /\ \E W : Accounts!Advance(r, Accounts!Idle, W)
            /\ crossed \subseteq crossed'
        BY SMTT(60), <1>0, <2>10, <3>2
           DEF Accounts!Credit, Accounts!Subscribed, Accounts!Advance, RowsTyped, Row
      <4>2. AlliancesStay
        BY <1>0, <4>1 DEF AlliancesStay
      <4> QED
        BY <1>i, <1>t, <4>1, <4>2, ProceedAllied DEF CrossedKeeps
    <3> QED
      BY <3>1, <3>2
  <2> QED
    BY <1>2, <2>1, <2>2, <2>3, <2>4, <2>5, <2>6, <2>7, <2>8, <2>9, <2>10 DEF Accounts!Go
<1>3. ASSUME NEW j \in DOMAIN joins, Accounts!Withdraw(j)
      PROVE  Allied'
  <2>1. /\ UNCHANGED <<account, alliance, ids, crossed>>
        /\ \E W : req' = [s \in Request |-> Accounts!Overtaken(req[s], W)]
    BY <1>3 DEF Accounts!Withdraw
  <2> QED
    BY <1>l, <1>o, <2>1
<1>4. ASSUME NEW u \in User, Accounts!Restack(u)
      PROVE  Allied'
  <2>1. AlliancesStay
    BY <1>0, <1>4 DEF Accounts!Restack, AlliancesStay, RowsTyped, Row, Accounts!Subscribed
  <2>2. crossed \subseteq crossed' /\ \E W : req' = [s \in Request |-> Accounts!Overtaken(req[s], W)]
    BY <1>4 DEF Accounts!Restack
  <2> QED
    BY <1>o, <2>1, <2>2
<1>5. CASE Accounts!Restart
  <2>1. \A s \in Request : Checked(req[s])'
    BY <1>5 DEF Accounts!Restart, Checked, Accounts!Idle
  <2>2. AlliancesStay /\ CrossedKeeps
    BY <1>5, <1>l DEF Accounts!Restart, CrossedKeeps
  <2> QED
    BY <1>t, <2>1, <2>2, RowsStay DEF Allied
<1>6. CASE Accounts!Tick \/ UNCHANGED Accounts!vars
  <2>1. UNCHANGED <<account, alliance, ids, crossed, req>>
    BY <1>6 DEF Accounts!Tick, Accounts!vars
  <2> QED
    BY <2>1
       DEF Allied, Keys, Owned, Sized, Checked, Accounts!MembersOf, Taken,
           Accounts!AllianceOwners, Accounts!Subscribed
<1> QED
  BY <1>1, <1>2, <1>3, <1>4, <1>5, <1>6 DEF Accounts!Next

(* Whatever the requests, an alliance's owner is a member and it is no     *)
(* larger than configured, but for memberships written on stale checks     *)
(* (AlliancesAreOwned).                                                    *)
THEOREM SpecAlliancesAreOwned ==
    ASSUME AccountsParameters
    PROVE  Accounts!Spec => []AlliancesAreOwned
<1>1. Accounts!Init => Typed /\ Allied
  BY InitTyped, InitAllied
<1>2. Typed /\ Allied /\ [Accounts!Next]_(Accounts!vars) => (Typed /\ Allied)'
  BY NextTyped, NextAllied
<1>3. Allied => AlliancesAreOwned
  BY SameWords DEF Allied, Owned, Sized, AlliancesAreOwned
<1> QED
  BY <1>1, <1>2, <1>3, PTL DEF Accounts!Spec

(* Rows, requests and payments keep their shape, whatever happens.         *)
THEOREM SpecTyped ==
    ASSUME AccountsParameters
    PROVE  Accounts!Spec => []Typed
  BY InitTyped, NextTyped, PTL DEF Accounts!Spec
===============================================================================
