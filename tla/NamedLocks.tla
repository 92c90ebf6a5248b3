------------------------------ MODULE NamedLocks ------------------------------
(***************************************************************************)
(* The named-lock protocol of owge-business/src/lock.rs and run_locked of  *)
(* bo/unit_mission_bo.rs: a request pins one pooled MySQL session, takes   *)
(* its keys with one GET_LOCK statement per key in ascending order, undoes *)
(* the acquired prefix when a key is refused, backs off and tries again,   *)
(* runs its body, and releases.                                            *)
(*                                                                         *)
(* A key is a number: only the (total) order of the lock names matters.    *)
(* GET_LOCK is re-entrant: MySQL counts the grants a session holds.        *)
(***************************************************************************)
EXTENDS Naturals

CONSTANTS
    Session,          \* the pooled MySQL sessions
    Key,              \* the lock names, numbered in their string order
    MaxLockAttempts,  \* MAX_LOCK_ATTEMPTS (5)
    Faults,           \* which of the faults below can happen
    MaxLapses         \* bound: how often a request ends without its release

ASSUME KeyAssumption == Key \subseteq Nat
ASSUME AttemptsAssumption == MaxLockAttempts \in Nat \ {0}
ASSUME FaultsAssumption ==
    Faults \subseteq {"timeout", "null", "error", "lost", "drop", "release"}
ASSUME LapsesAssumption == MaxLapses \in Nat

VARIABLES
    pc,       \* pc[s]: where the request that pins session s is
    wanted,   \* wanted[s]: the deduplicated keys it asked for
    got,      \* got[s]: the keys granted in this attempt and not yet released
    attempt,  \* attempt[s]: 1 .. MaxLockAttempts
    grants,   \* grants[s][k]: GET_LOCK grants the server holds for s on k
    lapses,   \* requests that ended without their release so far
    left      \* left[s][k]: the grants on k those left to the session s, for the
              \* invariants: no action reads it

vars == <<pc, wanted, got, attempt, grants, lapses, left>>

Places == {"idle", "acquiring", "undoing", "backoff", "body", "releasing"}

TypeOK ==
    /\ pc \in [Session -> Places]
    /\ wanted \in [Session -> SUBSET Key]
    /\ got \in [Session -> SUBSET Key]
    /\ attempt \in [Session -> 1 .. MaxLockAttempts]
    /\ grants \in [Session -> [Key -> Nat]]
    /\ lapses \in 0 .. MaxLapses
    /\ left \in [Session -> [Key -> Nat]]

Init ==
    /\ pc = [s \in Session |-> "idle"]
    /\ wanted = [s \in Session |-> {}]
    /\ got = [s \in Session |-> {}]
    /\ attempt = [s \in Session |-> 1]
    /\ grants = [s \in Session |-> [k \in Key |-> 0]]
    /\ lapses = 0
    /\ left = [s \in Session |-> [k \in Key |-> 0]]

------------------------------------------------------------------------------
Pending(s) == wanted[s] \ got[s]

Holds(s) == {k \in Key : grants[s][k] > 0}

HeldByOther(s, k) == \E t \in Session \ {s} : grants[t][k] > 0

(* Mutant of IsNext: the keys are not sorted.                              *)
IsNextUnsorted(s, k) == k \in Pending(s)

(* The key the next GET_LOCK statement of s names: the keys are sorted.    *)
IsNext(s, k) == k \in Pending(s) /\ \A j \in Pending(s) : k <= j

Goto(s, place) == pc' = [pc EXCEPT ![s] = place]

------------------------------------------------------------------------------
(* run_locked called with a set of keys; no key means no lock at all.      *)
Call(s, keys) ==
    /\ pc[s] = "idle"
    /\ wanted' = [wanted EXCEPT ![s] = keys]
    /\ got' = [got EXCEPT ![s] = {}]
    /\ attempt' = [attempt EXCEPT ![s] = 1]
    /\ Goto(s, IF keys = {} THEN "body" ELSE "acquiring")
    /\ UNCHANGED <<grants, lapses, left>>

(* One GET_LOCK statement that returns 1.                                  *)
GetLock(s, k) ==
    /\ pc[s] = "acquiring"
    /\ IsNext(s, k)
    /\ ~HeldByOther(s, k)
    /\ got' = [got EXCEPT ![s] = @ \cup {k}]
    /\ grants' = [grants EXCEPT ![s][k] = @ + 1]
    /\ Goto(s, IF Pending(s) = {k} THEN "body" ELSE "acquiring")
    /\ UNCHANGED <<wanted, attempt, lapses, left>>

(* GET_LOCK returns 0 after TIMEOUT_SECONDS, NULL, or reports a deadlock:  *)
(* the attempt stops at this key and the acquired prefix is released.      *)
GetLockRefused(s, k) ==
    /\ pc[s] = "acquiring"
    /\ IsNext(s, k)
    /\ \/ "timeout" \in Faults /\ HeldByOther(s, k)
       \/ "null" \in Faults
    /\ Goto(s, "undoing")
    /\ UNCHANGED <<wanted, got, attempt, grants, lapses, left>>

(* Mutant of GetLockError: the `?` comes before the release.               *)
GetLockErrorLeaks(s) ==
    /\ "error" \in Faults
    /\ pc[s] = "acquiring"
    /\ Goto(s, "idle")
    /\ got' = [got EXCEPT ![s] = {}]
    /\ UNCHANGED <<wanted, attempt, grants, lapses, left>>

(* Any other statement error: the prefix is released and acquire fails.    *)
GetLockError(s) ==
    /\ "error" \in Faults
    /\ pc[s] = "acquiring"
    /\ Goto(s, "releasing")
    /\ UNCHANGED <<wanted, got, attempt, grants, lapses, left>>

(* One RELEASE_LOCK(k) of the SELECT that release() builds: the server     *)
(* evaluates them in order, and other sessions may run in between.         *)
ReleaseKey(s, k) ==
    /\ pc[s] \in {"undoing", "releasing"}
    /\ k \in got[s]
    /\ \A j \in got[s] : k <= j
    /\ got' = [got EXCEPT ![s] = @ \ {k}]
    /\ grants' = [grants EXCEPT ![s][k] = IF @ > 0 THEN @ - 1 ELSE 0]
    /\ UNCHANGED <<pc, wanted, attempt, lapses, left>>

(* Mutant of UndoDone: the body runs unprotected when the locks were       *)
(* refused for good.                                                       *)
UndoDoneUnprotected(s) ==
    /\ pc[s] = "undoing"
    /\ got[s] = {}
    /\ Goto(s, IF attempt[s] = MaxLockAttempts THEN "body" ELSE "backoff")
    /\ UNCHANGED <<wanted, got, attempt, grants, lapses, left>>

(* The prefix is released: sleep 200ms * attempt, or surrender (Conflict). *)
UndoDone(s) ==
    /\ pc[s] = "undoing"
    /\ got[s] = {}
    /\ Goto(s, IF attempt[s] = MaxLockAttempts THEN "idle" ELSE "backoff")
    /\ UNCHANGED <<wanted, got, attempt, grants, lapses, left>>

(* Mutant of Retry: the attempts are not counted.                          *)
RetryUncounted(s) ==
    /\ pc[s] = "backoff"
    /\ Goto(s, "acquiring")
    /\ UNCHANGED <<wanted, got, attempt, grants, lapses, left>>

Retry(s) ==
    /\ pc[s] = "backoff"
    /\ attempt' = [attempt EXCEPT ![s] = @ + 1]
    /\ Goto(s, "acquiring")
    /\ UNCHANGED <<wanted, got, grants, lapses, left>>

(* The body ends, well or badly; run_locked releases the keys either way.  *)
BodyEnds(s) ==
    /\ pc[s] = "body"
    /\ Goto(s, "releasing")
    /\ UNCHANGED <<wanted, got, attempt, grants, lapses, left>>

ReleaseDone(s) ==
    /\ pc[s] = "releasing"
    /\ got[s] = {}
    /\ Goto(s, "idle")
    /\ UNCHANGED <<wanted, got, attempt, grants, lapses, left>>

------------------------------------------------------------------------------
(* The connection breaks: the server drops the session and its locks, the  *)
(* request fails, and the pool opens a fresh session in its place.         *)
ConnectionLost(s) ==
    /\ "lost" \in Faults
    /\ pc[s] # "idle"
    /\ Goto(s, "idle")
    /\ got' = [got EXCEPT ![s] = {}]
    /\ grants' = [grants EXCEPT ![s] = [k \in Key |-> 0]]
    /\ left' = [left EXCEPT ![s] = [k \in Key |-> 0]]
    /\ UNCHANGED <<wanted, attempt, lapses>>

(* The request ends, and its session goes back to the pool alive, with     *)
(* whatever grants it holds.                                               *)
EndsWithGrants(s) ==
    /\ lapses < MaxLapses
    /\ lapses' = lapses + 1
    /\ Goto(s, "idle")
    /\ got' = [got EXCEPT ![s] = {}]
    /\ left' = [left EXCEPT ![s] = grants[s]]
    /\ UNCHANGED <<wanted, attempt, grants>>

(* The request future is dropped at an await point (its HTTP client went   *)
(* away): nothing after that point runs.                                   *)
RequestDropped(s) ==
    /\ "drop" \in Faults
    /\ pc[s] # "idle"
    /\ EndsWithGrants(s)

(* The SELECT of release() fails with some of its keys still held: after a *)
(* refusal the error is returned, which ends the request (`?`), after an   *)
(* error of GET_LOCK and after the body it is discarded (`let _`).         *)
ReleaseFails(s) ==
    /\ "release" \in Faults
    /\ pc[s] \in {"undoing", "releasing"}
    /\ got[s] # {}
    /\ EndsWithGrants(s)

------------------------------------------------------------------------------
AcquireStep(s) ==
    \/ \E k \in Key : GetLock(s, k) \/ GetLockRefused(s, k) \/ ReleaseKey(s, k)
    \/ UndoDone(s)
    \/ Retry(s)
    \/ ReleaseDone(s)

Next == \E s \in Session :
    \/ \E keys \in SUBSET Key : Call(s, keys)
    \/ AcquireStep(s)
    \/ GetLockError(s)
    \/ BodyEnds(s)
    \/ ConnectionLost(s)
    \/ RequestDropped(s)
    \/ ReleaseFails(s)

Spec == Init /\ [][Next]_vars

(* A pinned session keeps executing its statements, every wait of acquire  *)
(* is bounded by a timeout or a sleep, and a body ends.                    *)
Fairness == \A s \in Session : WF_vars(AcquireStep(s)) /\ WF_vars(BodyEnds(s))

FairSpec == Spec /\ Fairness

------------------------------------------------------------------------------
(* While a request is in the code between acquire and release it is the    *)
(* only one whose session holds any of its keys (lock.rs: "rather than     *)
(* running the protected section unprotected").                            *)
BodyProtected ==
    \A s \in Session : pc[s] = "body" =>
        \A k \in wanted[s] : grants[s][k] > 0 /\ ~HeldByOther(s, k)

(* The sessions to which no request that ended left a grant.               *)
Clean == {s \in Session : \A k \in Key : left[s][k] = 0}

(* Module comment of lock.rs: "a session never holds a key greater than    *)
(* one it is waiting for" - but for a session that a request left with     *)
(* locks: those of a later request come on top of them.                    *)
AscendingOrder ==
    \A s \in Clean : pc[s] = "acquiring" =>
        \A h \in Holds(s), k \in Pending(s) : h < k

(* "... which makes such cycles impossible": in no set of sessions that    *)
(* nothing was left to does every one wait for a key that another one of   *)
(* the set holds.                                                          *)
NoWaitCycle ==
    \A D \in SUBSET Clean : D # {} =>
        \E s \in D : ~ /\ pc[s] = "acquiring"
                       /\ \E k \in Key, t \in D \ {s} :
                             IsNext(s, k) /\ grants[t][k] > 0

(* A session that is idle in the pool, or sleeping between two attempts,   *)
(* holds the locks that a dropped request or a failed RELEASE_LOCK left to *)
(* it, whatever requests it served since, and no other: every exit path of *)
(* acquire and run_locked releases as often as it was granted.             *)
NothingHeldAtRest ==
    \A s \in Session : pc[s] \in {"idle", "backoff"} => grants[s] = left[s]

(* Every acquire returns: the request runs its body or gets an error.      *)
AcquireReturns ==
    \A s \in Session : pc[s] = "acquiring" ~> pc[s] \in {"body", "idle"}

------------------------------------------------------------------------------
(* What makes the above inductive, for the proofs and for TLC.             *)

(* The keys of the attempt are granted keys of the request.                *)
GotIsGranted ==
    \A s \in Session : /\ got[s] \subseteq wanted[s]
                       /\ \A k \in got[s] : grants[s][k] > 0

(* A key has one holder: GET_LOCK grants only what no other session holds. *)
GrantsExclude ==
    \A s, t \in Session : s # t =>
        \A k \in Key : grants[s][k] = 0 \/ grants[t][k] = 0

(* What got holds at each place of the request.                            *)
GotAtPlace ==
    \A s \in Session :
        /\ pc[s] \in {"idle", "backoff"} => got[s] = {}
        /\ pc[s] = "backoff" => attempt[s] < MaxLockAttempts
        /\ pc[s] \in {"undoing", "backoff"} => wanted[s] # {}
        /\ pc[s] = "body" => got[s] = wanted[s]
        /\ pc[s] = "acquiring" =>
              Pending(s) # {} /\ \A h \in got[s], k \in Pending(s) : h < k

(* On top of what was left to a session, the server holds for it what the  *)
(* running request was granted and has not released, and no more.          *)
NoStrayGrants ==
    \A s \in Session, k \in Key :
        grants[s][k] = left[s][k] + (IF k \in got[s] THEN 1 ELSE 0)

IndInv == TypeOK /\ GotIsGranted /\ GrantsExclude /\ GotAtPlace /\ NoStrayGrants

------------------------------------------------------------------------------
Inside == [s \in Session |-> IF pc[s] = "body" THEN wanted[s] ELSE {}]

Sections == INSTANCE LockService WITH inside <- Inside

(* NamedLocks implements LockService.                                      *)
ImplementsSections == Sections!Spec
==============================================================================
