----------------------------- MODULE LockService -----------------------------
(***************************************************************************)
(* What the named locks of lock.rs promise to the code that runs between   *)
(* lock::acquire and lock::release: a session is inside its critical       *)
(* section with a set of keys, and no two sessions are ever inside with a  *)
(* key in common.  Nothing is said of how a session gets in, how long it   *)
(* waits, or whether it is turned away.  NamedLocks implements this.       *)
(***************************************************************************)
CONSTANTS Session,  \* pooled MySQL connections
          Key       \* lock names: planet_lock_<id>, user_lock_<id>

VARIABLE inside     \* inside[s]: the keys session s runs its section under

Init == inside = [s \in Session |-> {}]

Enter(s, keys) ==
    /\ inside[s] = {}
    /\ \A t \in Session : inside[t] \cap keys = {}
    /\ inside' = [inside EXCEPT ![s] = keys]

Leave(s) ==
    /\ inside[s] # {}
    /\ inside' = [inside EXCEPT ![s] = {}]

Next == \E s \in Session :
    \/ \E keys \in SUBSET Key : Enter(s, keys)
    \/ Leave(s)

Spec == Init /\ [][Next]_inside

TypeOK == inside \in [Session -> SUBSET Key]

(* Two sessions never run their sections with a key in common.             *)
Exclusive == \A s, t \in Session : s # t => inside[s] \cap inside[t] = {}
==============================================================================
