------------------------------- MODULE Accounts --------------------------------
(***************************************************************************)
(* The accounts of a universe: subscription and deletion, alliances, the   *)
(* resources every request accrues, and the cache of improvements:         *)
(* user_storage_bo.rs, alliance_bo.rs, user_improvement_bo.rs,             *)
(* improvement_bo.rs and owge-rest/src/auth.rs.                            *)
(*                                                                         *)
(* Nothing here is locked.  A handler reads and checks in statements of    *)
(* their own and then writes, in one statement or one transaction: its     *)
(* reads are one step of the model and its writes another, and the steps   *)
(* of the requests interleave.  A handler whose check refuses, whose       *)
(* statement fails, or whose client goes away, ends where it is.           *)
(*                                                                         *)
(* The accrual precedes the handler in every request; it is a request of   *)
(* its own here, so that both may come in any number and order.  The       *)
(* resources are abstracted to the time they were paid for, in parts of a  *)
(* second, and an improvement to one number.                               *)
(***************************************************************************)
EXTENDS AccountsPromises, FiniteSetsExt

CONSTANTS
    User, Planet,
    NoUser,      \* planets.owner is NULL
    NoAlliance,  \* user_storage.alliance_id is NULL
    Start,       \* the tables a behaviour starts with
    Percentage,  \* ALLIANCE_MAX_SIZE_PERCENTAGE
    MaxOps       \* operations, failures and restarts

Source == {"upgrade", "special", "unit"}

(* The ids below are given out.                                            *)
FirstId == 10

ASSUME AccountsAssumption ==
    /\ IsFiniteSet(User) /\ NoUser \notin User /\ NoAlliance \notin Nat
    /\ MaxSize \in Nat \ {0} /\ Percentage \in Nat
    /\ Parts \in Nat \ {0} /\ Ttl \in Nat \ {0} /\ MaxTime \in Nat

(* What a behaviour starts with: keys refer to rows, alliances have their  *)
(* owner and their size, and the clock has not run.                        *)
ASSUME StartAssumption == \A t \in Start :
    /\ DOMAIN t.account \subseteq User /\ DOMAIN t.owner = Planet /\ DOMAIN t.kept = User
    /\ \A u \in DOMAIN t.account :
          t.account[u] \in [alliance : DOMAIN t.alliance \cup {NoAlliance}, home : Planet,
                           last : {0}, source : SUBSET Source]
    /\ \A a \in DOMAIN t.alliance :
          /\ a \in 1 .. FirstId /\ t.alliance[a] \in DOMAIN t.account
          /\ t.account[t.alliance[a]].alliance = a
          /\ Cardinality({u \in DOMAIN t.account : t.account[u].alliance = a}) <= MaxSize
    /\ \A j \in DOMAIN t.joins : /\ t.joins[j].user \in DOMAIN t.account
                                 /\ t.joins[j].alliance \in DOMAIN t.alliance

VARIABLES
    joins,     \* alliance_join_request: id :> [alliance, user]
    owner,     \* planets.owner
    kept,      \* the other tables with rows of a user
    ids,       \* the last id given out
    ops

tables == <<account, alliance, joins, owner, kept, worth>>
vars == <<tables, cache, now, ids, req, paid, crossed, ops>>

Idle == [kind |-> "idle", at |-> "rest", reads |-> {}, stale |-> {}]

------------------------------------------------------------------------------
(* A request knows what it has read; what another one writes meanwhile     *)
(* makes that stale.                                                       *)

Owns(u) == <<"owns", u>>
Join(j) == <<"join", j>>
Exists(u) == <<"exists", u>>
Free(p) == <<"free", p>>

Overtaken(q, written) == [q EXCEPT !.stale = @ \cup (q.reads \cap written)]

(* Request r goes on as q, having written these.                           *)
Advance(r, q, written) ==
    req' = [s \in Request |-> IF s = r THEN q ELSE Overtaken(req[s], written)]

Blindly(r, written) == IF req[r].stale # {} THEN written ELSE {}

Proceed(r, q, written) ==
    Advance(r, q, written) /\ crossed' = crossed \cup Blindly(r, written)

Begin(r, kind, u, saw, reads) ==
    /\ req[r] = Idle /\ ops < MaxOps
    /\ ops' = ops + 1
    /\ req' = [req EXCEPT ![r] = [kind |-> kind, at |-> "commit", user |-> u, saw |-> saw,
                                  reads |-> reads, stale |-> {}]]
    /\ UNCHANGED <<tables, cache, now, ids, paid, crossed>>

Committing(r, kind) == req[r].kind = kind /\ req[r].at = "commit"

(* A statement fails: nothing is written and the request ends.             *)
Refused(r) == Proceed(r, Idle, {}) /\ UNCHANGED <<tables, ids, paid>>

Put(f, x, v) == [y \in DOMAIN f \cup {x} |-> IF y = x THEN v ELSE f[y]]
Without(f, S) == [x \in DOMAIN f \ S |-> f[x]]
AllianceOwners == {alliance[a] : a \in DOMAIN alliance}

(* user_storage.last_action is a datetime without fraction: what is stored *)
(* is rounded to whole seconds, half a second up.                          *)
Rounded(t) == Parts * ((2 * t + Parts) \div (2 * Parts))

------------------------------------------------------------------------------
(* Subscription.                                                           *)

FreePlanets == {p \in Planet : owner[p] = NoUser}

Subscribe(r, u) ==
    /\ u \notin Subscribed
    /\ \E p \in FreePlanets : Begin(r, "subscribe", u, p, {Exists(u), Free(p)})

(* The primary key refuses a second row of the user; nothing looks at the  *)
(* owner of the planet again.                                              *)
CommitSubscribe(r) ==
    LET u == req[r].user
        p == req[r].saw
    IN /\ Committing(r, "subscribe")
       /\ IF u \in Subscribed
          THEN Refused(r)
          ELSE /\ account' = Put(account, u, [alliance |-> NoAlliance, home |-> p,
                                               last |-> Rounded(now), source |-> {}])
               /\ owner' = [owner EXCEPT ![p] = u]
               /\ paid' = [paid EXCEPT ![u] = [time |-> 0, times |-> 0, from |-> Rounded(now)]]
               /\ Advance(r, Idle, {Exists(u), Free(p), Alliance(u), Last(u), Value(u)})
               /\ crossed' = crossed \cup {Value(u)} \cup Blindly(r, {Alliance(u)})
               /\ UNCHANGED <<alliance, joins, kept, worth, ids>>
       /\ UNCHANGED <<cache, now, ops>>

------------------------------------------------------------------------------
(* Alliances.                                                              *)

(* Writes of alliance_id: a column of the user, and who is in an alliance. *)
Enlisted(us, a) ==
    UNION {{Alliance(u), Members(account[u].alliance), Members(a)} : u \in us \cap Subscribed}

SetAlliance(us, a) ==
    [u \in Subscribed |-> IF u \in us THEN [account[u] EXCEPT !.alliance = a] ELSE account[u]]

Create(r, u) ==
    /\ u \in Subscribed /\ account[u].alliance = NoAlliance
    /\ Begin(r, "create", u, NoAlliance, {Alliance(u)})

(* owner_id is unique and a foreign key.                                   *)
CommitCreate(r) ==
    LET u == req[r].user
        a == ids + 1
    IN /\ Committing(r, "create")
       /\ IF u \notin Subscribed \/ u \in AllianceOwners
          THEN Refused(r)
          ELSE /\ alliance' = Put(alliance, a, u)
               /\ account' = SetAlliance({u}, a)
               /\ ids' = a
               /\ Proceed(r, Idle, {Owns(u)} \cup Enlisted({u}, a))
               /\ UNCHANGED <<joins, owner, kept, worth, paid>>
       /\ UNCHANGED <<cache, now, ops>>

RequestJoin(r, u) ==
    /\ u \in Subscribed /\ account[u].alliance = NoAlliance
    /\ \E a \in DOMAIN alliance : Begin(r, "join", u, a, {Alliance(u)})

CommitRequestJoin(r) ==
    LET u == req[r].user
        a == req[r].saw
    IN /\ Committing(r, "join")
       /\ IF u \notin Subscribed \/ a \notin DOMAIN alliance
          THEN Refused(r)
          ELSE /\ joins' = Put(joins, ids + 1, [alliance |-> a, user |-> u])
               /\ ids' = ids + 1
               /\ Proceed(r, Idle, {})
               /\ UNCHANGED <<account, alliance, owner, kept, worth, paid>>
       /\ UNCHANGED <<cache, now, ops>>

(* A share of all users, at least two, at most the configured size.        *)
MaxAllowed ==
    LET share == Max({2, (Cardinality(Subscribed) * Percentage) \div 100})
    IN Min({share, MaxSize})

(* Mutant of IsLimitReached: the user who joins is not counted.            *)
IsLimitReachedLate(a) == MaxAllowed < Cardinality(MembersOf(a))

IsLimitReached(a) == MaxAllowed <= Cardinality(MembersOf(a))

Accept(r, u) ==
    \E j \in DOMAIN joins :
       LET a == joins[j].alliance
           v == joins[j].user
       IN /\ alliance[a] = u /\ ~IsLimitReached(a)
          /\ Begin(r, "accept", u,
                   [join |-> j, alliance |-> a, user |-> v,
                    free |-> account[v].alliance = NoAlliance],
                   {Alliance(v), Members(a), Join(j)})

(* What was free when it was read is enlisted, wherever it is by now.      *)
CommitAccept(r) ==
    LET a == req[r].saw.alliance
        v == req[r].saw.user
        all == {j \in DOMAIN joins : joins[j].user = v}
        gone == IF req[r].saw.free THEN all ELSE {req[r].saw.join}
    IN /\ Committing(r, "accept")
       /\ IF req[r].saw.free /\ v \in Subscribed /\ a \notin DOMAIN alliance
          THEN Refused(r)
          ELSE /\ account' = IF req[r].saw.free THEN SetAlliance({v}, a) ELSE account
               /\ joins' = Without(joins, gone)
               /\ Proceed(r, Idle, {Join(j) : j \in gone}
                                   \cup (IF req[r].saw.free THEN Enlisted({v}, a) ELSE {}))
               /\ UNCHANGED <<alliance, owner, kept, worth, ids, paid>>
       /\ UNCHANGED <<cache, now, ops>>

Reject(r, u) ==
    \E j \in DOMAIN joins :
       /\ alliance[joins[j].alliance] = u
       /\ Begin(r, "reject", u, j, {Join(j)})

CommitReject(r) ==
    /\ Committing(r, "reject")
    /\ joins' = Without(joins, {req[r].saw})
    /\ Proceed(r, Idle, {Join(req[r].saw)})
    /\ UNCHANGED <<account, alliance, owner, kept, worth, cache, now, ids, paid, ops>>

(* delete_join_request_by_id: one statement, whoever asks.                 *)
Withdraw(j) ==
    /\ ops < MaxOps
    /\ ops' = ops + 1
    /\ joins' = Without(joins, {j})
    /\ req' = [r \in Request |-> Overtaken(req[r], {Join(j)})]
    /\ UNCHANGED <<account, alliance, owner, kept, worth, cache, now, ids, paid, crossed>>

Leave(r, u) ==
    /\ u \in Subscribed \ AllianceOwners
    /\ Begin(r, "leave", u, NoAlliance, {Owns(u)})

CommitLeave(r) ==
    LET u == req[r].user
    IN /\ Committing(r, "leave")
       /\ account' = SetAlliance({u}, NoAlliance)
       /\ Proceed(r, Idle, Enlisted({u}, NoAlliance))
       /\ UNCHANGED <<alliance, joins, owner, kept, worth, cache, now, ids, paid, ops>>

Dissolve(r, u) ==
    /\ u \in Subscribed /\ account[u].alliance # NoAlliance
    /\ alliance[account[u].alliance] = u
    /\ Begin(r, "dissolve", u, account[u].alliance, {Alliance(u), Owns(u)})

(* The members are free, the requests and the alliance gone.               *)
Disband(as) ==
    /\ alliance' = Without(alliance, as)
    /\ joins' = Without(joins, {j \in DOMAIN joins : joins[j].alliance \in as})

CommitDissolve(r) ==
    LET a == req[r].saw
    IN /\ Committing(r, "dissolve")
       /\ account' = SetAlliance(MembersOf(a), NoAlliance)
       /\ Disband({a})
       /\ Proceed(r, Idle, {Owns(req[r].user)} \cup Enlisted(MembersOf(a), NoAlliance)
                           \cup {Join(j) : j \in DOMAIN joins})
       /\ UNCHANGED <<owner, kept, worth, cache, now, ids, paid, ops>>

------------------------------------------------------------------------------
(* The deletion of an account.                                             *)

(* Tables the cascade does not clear, with a foreign key to user_storage.  *)
Uncleared == {"visited_tutorial_entries", "user_read_system_messages", "deployed"}

DeleteAccount(r, u) ==
    /\ u \in Subscribed
    /\ Begin(r, "delete", u, account[u].home, {Exists(u)})

OwnsOwnAlliance(u) ==
    account[u].alliance # NoAlliance /\ alliance[account[u].alliance] = u

AlliancesOf(u) == {a \in DOMAIN alliance : alliance[a] = u}

(* The requests the cascade deletes: those of a user who does not own its  *)
(* alliance, and those for the alliance that goes.                         *)
ClearedJoins(u) ==
    {j \in DOMAIN joins : \/ joins[j].user = u /\ ~OwnsOwnAlliance(u)
                          \/ joins[j].alliance \in AlliancesOf(u)}

(* The row of the user can go when no other row names it.                  *)
Deletable(u) ==
    /\ kept[u] \cap Uncleared = {}
    /\ \A j \in DOMAIN joins \ ClearedJoins(u) : joins[j].user # u

CommitDeleteAccount(r) ==
    LET u == req[r].user
        homeless == UNION {MembersOf(a) : a \in AlliancesOf(u)}
    IN /\ Committing(r, "delete")
       /\ IF u \notin Subscribed \/ ~Deletable(u)
          THEN Refused(r)
          ELSE /\ account' = Without(SetAlliance(homeless, NoAlliance), {u})
               /\ alliance' = Without(alliance, AlliancesOf(u))
               /\ joins' = Without(joins, ClearedJoins(u))
               /\ owner' = [p \in Planet |-> IF owner[p] = u THEN NoUser ELSE owner[p]]
               /\ kept' = [kept EXCEPT ![u] = {}]
               /\ Proceed(r, Idle,
                          {Exists(u), Owns(u), Last(u), Value(u)} \cup Enlisted({u}, NoAlliance)
                          \cup Enlisted(homeless, NoAlliance) \cup {Join(j) : j \in ClearedJoins(u)})
               /\ UNCHANGED <<worth, ids, paid>>
       /\ UNCHANGED <<cache, now, ops>>

------------------------------------------------------------------------------
(* The accrual, and the cache of improvements.                             *)

(* The request read the aggregate before something changed it.             *)
Outdated(r) == Value(req[r].user) \in req[r].stale

Accrue(r, u) ==
    /\ u \in Subscribed
    /\ Begin(r, "accrue", u, [last |-> account[u].last, value |-> 0, now |-> 0], {Last(u)})

Looking(r) == Committing(r, "accrue") \/ Committing(r, "emit")

(* What follows find_user_improvement: the clock is read, or the emit ends. *)
HasFound(r, value) ==
    IF req[r].kind = "emit" THEN Idle
    ELSE [req[r] EXCEPT !.at = "credit", !.saw.value = value, !.saw.now = now]

Hit(r) ==
    /\ Looking(r) /\ Live(req[r].user)
    /\ Proceed(r, HasFound(r, cache[req[r].user].value), {})
    /\ UNCHANGED <<tables, cache, now, ids, paid, ops>>

(* Nothing keeps two requests from computing the same entry.               *)
Compute(r) ==
    /\ Looking(r) /\ ~Live(req[r].user)
    /\ req' = [req EXCEPT ![r].at = "insert", ![r].saw.value = Improvement(req[r].user),
                          ![r].reads = @ \cup {Value(req[r].user)}]
    /\ UNCHANGED <<tables, cache, now, ids, paid, crossed, ops>>

Insert(r) ==
    LET u == req[r].user
    IN /\ req[r].at = "insert"
       /\ cache' = Put(cache, u, [value |-> req[r].saw.value, at |-> now])
       /\ req' = [req EXCEPT ![r] = HasFound(r, req[r].saw.value)]
       /\ crossed' = IF Outdated(r) THEN crossed \cup {Value(u)} ELSE crossed \ {Value(u)}
       /\ UNCHANGED <<tables, now, ids, paid, ops>>

(* Mutant of Stamp: the statement reads the clock itself (NOW()).          *)
StampOfStatement(r) == Rounded(now)

Stamp(r) == Rounded(req[r].saw.now)

(* Paid is the time since last_action as it was read, less than none if    *)
(* that was rounded up.                                                    *)
Credit(r) ==
    LET u == req[r].user
    IN /\ req[r].at = "credit"
       /\ IF u \notin Subscribed
          THEN Refused(r)
          ELSE /\ account' = [account EXCEPT ![u].last = Stamp(r)]
               /\ paid' = [paid EXCEPT ![u].time = @ + req[r].saw.now - req[r].saw.last,
                                       ![u].times = @ + 1]
               /\ req' = [s \in Request |->
                     IF s = r THEN Idle ELSE Overtaken(req[s], {Last(u)})]
               /\ crossed' = IF Last(u) \in req[r].stale THEN crossed \cup {Last(u)} ELSE crossed
               /\ UNCHANGED <<alliance, joins, owner, kept, worth, ids>>
       /\ UNCHANGED <<cache, now, ops>>

(* An upgrade levels up, a special starts or ends, units are built or die:  *)
(* the change commits, its emits follow, and among them the eviction.      *)
Improve(r, u, s) ==
    /\ u \in Subscribed /\ req[r] = Idle /\ ops < MaxOps
    /\ account' = [account EXCEPT ![u].source =
                      IF s \in @ THEN @ \ {s} ELSE @ \cup {s}]
    /\ ops' = ops + 1
    /\ Proceed(r, [kind |-> "emit", at |-> "evict", user |-> u,
                   saw |-> [last |-> 0, value |-> 0, now |-> 0], reads |-> {}, stale |-> {}],
               {Value(u)})
    /\ UNCHANGED <<alliance, joins, owner, kept, worth, cache, now, ids, paid>>

(* A fleet that leaves splits a stack, one that lands merges two: another  *)
(* number of stacks, and no eviction.                                      *)
Restack(u) ==
    /\ u \in Subscribed /\ ops < MaxOps
    /\ account' = [account EXCEPT ![u].source =
                      IF "unit" \in @ THEN @ \ {"unit"} ELSE @ \cup {"unit"}]
    /\ ops' = ops + 1
    /\ req' = [s \in Request |-> Overtaken(req[s], {Value(u)})]
    /\ crossed' = crossed \cup {Value(u)}
    /\ UNCHANGED <<alliance, joins, owner, kept, worth, cache, now, ids, paid>>

EvictAndEmit(r) ==
    /\ req[r].kind = "emit" /\ req[r].at = "evict"
    /\ cache' = Without(cache, {req[r].user})
    /\ crossed' = crossed \ {Value(req[r].user)}
    /\ req' = [req EXCEPT ![r].at = "commit"]
    /\ UNCHANGED <<tables, now, ids, paid, ops>>

(* An administrator changes what the sources are worth to everybody.       *)
EditImprovement(r) ==
    /\ req[r] = Idle /\ ops < MaxOps
    /\ worth' = 3 - worth
    /\ ops' = ops + 1
    /\ Proceed(r, [kind |-> "edit", at |-> "evict", reads |-> {}, stale |-> {}],
               {Value(u) : u \in User})
    /\ UNCHANGED <<account, alliance, joins, owner, kept, cache, now, ids, paid>>

Nobody == [u \in {} |-> 0]

(* Mutant of EvictAll: the eviction is left out.                           *)
EvictNobody(r) ==
    /\ req[r].kind = "edit" /\ req[r].at = "evict"
    /\ req' = [req EXCEPT ![r] = Idle]
    /\ UNCHANGED <<tables, cache, now, ids, paid, crossed, ops>>

EvictAll(r) ==
    /\ req[r].kind = "edit" /\ req[r].at = "evict"
    /\ cache' = Nobody
    /\ crossed' = crossed \ {Value(u) : u \in User}
    /\ req' = [req EXCEPT ![r] = Idle]
    /\ UNCHANGED <<tables, now, ids, paid, ops>>

------------------------------------------------------------------------------
(* Faults and time.                                                        *)

(* The client goes away, or a statement fails: an eviction may be lost.    *)
Vanish(r) ==
    /\ req[r] # Idle /\ ops < MaxOps
    /\ ops' = ops + 1
    /\ req' = [req EXCEPT ![r] = Idle]
    /\ crossed' = crossed \cup
         (IF req[r].at # "evict" THEN {}
          ELSE IF req[r].kind = "edit" THEN {Value(u) : u \in User} ELSE {Value(req[r].user)})
    /\ UNCHANGED <<tables, cache, now, ids, paid>>

Restart ==
    /\ ops < MaxOps
    /\ ops' = ops + 1
    /\ req' = [r \in Request |-> Idle]
    /\ cache' = Nobody
    /\ UNCHANGED <<tables, now, ids, paid, crossed>>

Tick ==
    /\ now < MaxTime
    /\ now' = now + 1
    /\ UNCHANGED <<tables, cache, ids, req, paid, crossed, ops>>

Init ==
    /\ \E t \in Start : /\ account = t.account /\ alliance = t.alliance
                        /\ joins = t.joins /\ owner = t.owner /\ kept = t.kept
    /\ worth = 1 /\ cache = Nobody /\ now = 0 /\ ids = FirstId
    /\ req = [r \in Request |-> Idle]
    /\ paid = [u \in User |-> [time |-> 0, times |-> 0, from |-> 0]]
    /\ crossed = {} /\ ops = 0

Handle(r, u) ==
    \/ Subscribe(r, u) \/ DeleteAccount(r, u)
    \/ Create(r, u) \/ RequestJoin(r, u) \/ Accept(r, u) \/ Reject(r, u)
    \/ Leave(r, u) \/ Dissolve(r, u)
    \/ Accrue(r, u) \/ \E s \in Source : Improve(r, u, s)

Go(r) ==
    \/ CommitSubscribe(r) \/ CommitDeleteAccount(r)
    \/ CommitCreate(r) \/ CommitRequestJoin(r) \/ CommitAccept(r) \/ CommitReject(r)
    \/ CommitLeave(r) \/ CommitDissolve(r)
    \/ Hit(r) \/ Compute(r) \/ Insert(r) \/ Credit(r)
    \/ EvictAndEmit(r) \/ EditImprovement(r) \/ EvictAll(r) \/ Vanish(r)

Next ==
    \/ \E r \in Request, u \in User : Handle(r, u)
    \/ \E r \in Request : Go(r)
    \/ \E j \in DOMAIN joins : Withdraw(j)
    \/ \E u \in User : Restack(u)
    \/ Restart \/ Tick

Spec == Init /\ [][Next]_vars

------------------------------------------------------------------------------
(* Types: what refers to a row refers to one that exists.                  *)
TypeOK ==
    /\ Subscribed \subseteq User
    /\ \A u \in Subscribed : /\ account[u].alliance \in DOMAIN alliance \cup {NoAlliance}
                             /\ account[u].home \in Planet
                             /\ account[u].last \in 0 .. Rounded(MaxTime)
                             /\ account[u].source \subseteq Source
    /\ \A a \in DOMAIN alliance : alliance[a] \in Subscribed
    /\ \A j \in DOMAIN joins : joins[j].user \in Subscribed /\ joins[j].alliance \in DOMAIN alliance
    /\ \A p \in Planet : owner[p] \in Subscribed \cup {NoUser}
================================================================================
