--------------------------- MODULE AccountsPromises ---------------------------
(***************************************************************************)
(* What a universe promises its players about their alliances, the time    *)
(* they are paid for and their cached improvements, in terms of the tables *)
(* and of what requests wrote after others had changed what they had read. *)
(* Accounts is how it keeps these promises.                                *)
(***************************************************************************)
EXTENDS Integers, FiniteSets

CONSTANTS
    Request,
    MaxSize,     \* ALLIANCE_MAX_SIZE
    Parts,       \* the clock's steps in a second
    Ttl,         \* time_to_live of IMPROVEMENT_CACHE, in such steps
    MaxTime      \* the clock stops there

VARIABLES
    account,   \* user_storage: user :> [alliance, home, last, source]
    alliance,  \* alliances: id :> owner_id
    worth,     \* improvements: what one source adds
    cache,     \* IMPROVEMENT_CACHE: user :> [value, at]
    now,
    req,       \* the requests in progress
    paid,      \* ghost: user :> [time, times, from]: what was credited, in how
               \*        many accruals, since which last_action
    crossed    \* ghost: what a request wrote after another changed what it had read

(* What a request reads and another one may write.                         *)
Alliance(u) == <<"alliance", u>>
Members(a) == <<"members", a>>
Last(u) == <<"last", u>>
Value(u) == <<"value", u>>

Subscribed == DOMAIN account
MembersOf(a) == {u \in Subscribed : account[u].alliance = a}

(* The aggregate of the sources, as the database has it.                   *)
Improvement(u) ==
    IF u \notin Subscribed THEN 0 ELSE worth * Cardinality(account[u].source)

Live(u) == u \in DOMAIN cache /\ now - cache[u].at < Ttl

------------------------------------------------------------------------------
(* The owner of an alliance is one of its members, and it has no more      *)
(* members than the configuration allows, unless a request wrote its       *)
(* membership after another one had changed what it had checked: whatever  *)
(* the order in which accounts and alliances are made, joined, left and    *)
(* deleted (alliance_bo.rs, delete_account).                               *)
AlliancesAreOwned ==
    \A a \in DOMAIN alliance :
       /\ Alliance(alliance[a]) \notin crossed => account[alliance[a]].alliance = a
       /\ Members(a) \notin crossed => Cardinality(MembersOf(a)) <= MaxSize

(* A player is paid for the time up to last_action, give or take half a    *)
(* second for each accrual, which last_action was rounded by: no less      *)
(* however his requests overlap, and no more unless they do                *)
(* (trigger_resources_update, which reads last_action, looks at the clock  *)
(* and writes both in statements of their own).                            *)
SecondsArePaid ==
    \A u \in Subscribed :
       LET passed == account[u].last - paid[u].from
       IN  /\ 2 * paid[u].time + Parts * paid[u].times >= 2 * passed
           /\ Last(u) \notin crossed => 2 * paid[u].time - Parts * paid[u].times <= 2 * passed

(* A known gap, which no run checks: that nothing is paid twice or lost    *)
(* ("accrue ... for the time elapsed since last_action, then stamp         *)
(* last_action = now", user_storage_bo.rs:190).                            *)
SecondsAreExact ==
    \A u \in Subscribed :
       Last(u) \notin crossed => paid[u].time = account[u].last - paid[u].from

(* A cached aggregate is that of the database, unless its eviction is      *)
(* still to come or was lost with its request, a request that computed it  *)
(* before the change stored it after the eviction, or the change is one    *)
(* the code does not evict for (a split or merged stack, a deletion).      *)
CacheIsCurrent ==
    \A u \in Subscribed :
       \/ ~Live(u) \/ Value(u) \in crossed
       \/ \E r \in Request : req[r].at = "evict" /\ (req[r].kind = "emit" => req[r].user = u)
       \/ cache[u].value = Improvement(u)
================================================================================
