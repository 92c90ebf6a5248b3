------------------------------- MODULE CombatRules -------------------------------
(***************************************************************************)
(* What decides a fight besides its course: who is an enemy, who may hit   *)
(* whom and how hard, what is captured, how strong a stack is.             *)
(* bo/attack_mission_manager_bo.rs, bo/active_time_special_rule_finder_bo.rs *)
(* and dto/user_improvement.rs.  Rules name units and unit types; a type   *)
(* answers for the types below it.                                         *)
(***************************************************************************)
EXTENDS Integers, Sequences, FiniteSets, SequencesExt

CONSTANTS
    User, NoAlliance,
    Alliance,     \* [User -> alliance or NoAlliance]
    Unit, Type,   \* units and unit_types
    TypeOf,       \* [Unit -> Type]
    Parent,       \* parent_type: a function on some types
    Inherits,     \* the types with has_to_inherit_improvements
    Stats,        \* [Unit -> [attack, shield, health, points, charge]]
    BypassShield, \* the units with bypass_shield
    Active,       \* [User -> the time specials that are active]
    BypassRule,   \* pairs of a time special and a unit or a type
    AttackRule,   \* unit or type :> sequence of [on, can]
    CriticalAttack,  \* unit or type :> sequence of [on, times]
    CaptureRule,  \* <<origin, destination>> :> [chance, percent]
    Improvement,  \* [User -> [attack, shield, health -> [Type -> percentage]]]
    Scale         \* fractions are kept as multiples of 1 / Scale

ASSUME CombatAssumption ==
    /\ DOMAIN Alliance = User /\ TypeOf \in [Unit -> Type] /\ Unit \cap Type = {}
    /\ DOMAIN Parent \subseteq Type /\ \A t \in DOMAIN Parent : Parent[t] \in Type
    /\ Inherits \subseteq Type /\ BypassShield \subseteq Unit
    /\ \A u \in Unit : Stats[u] \in [attack : Nat, shield : Nat, health : Nat \ {0},
                                     points : Nat, charge : Nat]
    /\ DOMAIN AttackRule \cup DOMAIN CriticalAttack \subseteq Unit \cup Type
    /\ Scale \in Nat \ {0}
ASSUME RulesAssumption ==
    /\ IsFiniteSet(User) /\ IsFiniteSet(Type)
    /\ \A x \in DOMAIN AttackRule :
          AttackRule[x] \in Seq([on : Unit \cup Type, can : BOOLEAN])
    /\ \A x \in DOMAIN CriticalAttack :
          CriticalAttack[x] \in Seq([on : Unit \cup Type, times : Nat])
    /\ \A u \in User, kind \in {"attack", "shield", "health"}, t \in Type :
          Improvement[u][kind][t] \in Nat

(* The type t and those above it, as far as the types in Through lead.     *)
Climb(t, Through) ==
    LET Up(chain) ==
            LET top == Last(chain) IN
            IF top \in Through \cap DOMAIN Parent /\ ~Contains(chain, Parent[top])
            THEN Append(chain, Parent[top]) ELSE chain
        chain[n \in 0 .. Cardinality(Type)] == IF n = 0 THEN <<t>> ELSE Up(chain[n - 1])
    IN  chain[Cardinality(Type)]

UnitTypeChain(t) == Climb(t, Type)

UnitTypeImprovementChain(t) == Climb(t, Inherits)

AreEnemies(u, v) ==
    /\ u # v
    /\ Alliance[u] = NoAlliance \/ Alliance[v] = NoAlliance \/ Alliance[u] # Alliance[v]

------------------------------------------------------------------------------
(* Attack rules and critical attacks: the unit's own, or that of the       *)
(* nearest type that has one; of its entries the first that names the      *)
(* target.                                                                 *)
Effective(rules, unit) ==
    LET names == <<unit>> \o UnitTypeChain(TypeOf[unit])
        k == SelectInSeq(names, LAMBDA x : x \in DOMAIN rules)
    IN  IF k = 0 THEN <<>> ELSE rules[names[k]]

(* The index of that entry, or 0.                                          *)
Matching(entries, unit) ==
    SelectInSeq(entries, LAMBDA e : e.on = unit \/ Contains(UnitTypeChain(TypeOf[unit]), e.on))

CanAttack(unit, target) ==
    LET entries == Effective(AttackRule, unit)
        k == Matching(entries, target)
    IN  k = 0 \/ entries[k].can

FindCriticalScore(unit, target) ==
    LET entries == Effective(CriticalAttack, unit)
        k == Matching(entries, target)
    IN  IF k = 0 THEN 1 ELSE entries[k].times

(* A rule of an active time special that names the unit.                   *)
ExistsRuleMatchingUnitDestination(user, unit) ==
    \E special \in Active[user] :
        \/ <<special, unit>> \in BypassRule
        \/ \E t \in ToSet(UnitTypeChain(TypeOf[unit])) : <<special, t>> \in BypassRule

BypassShields(user, unit, target) ==
    unit \in BypassShield \/ ExistsRuleMatchingUnitDestination(user, target)

------------------------------------------------------------------------------
(* Capture rules: the first of these pairs that has one.                   *)

(* The types of the victim first, then those of the attacker.              *)
TypeVsType(from, to) ==
    LET probe[i \in 1 .. Len(from) + 1, j \in 1 .. Len(to) + 1] ==
            IF i > Len(from) \/ j > Len(to) THEN <<>>
            ELSE <<<<from[i], to[j]>>>> \o probe[i, j + 1] \o probe[i + 1, j]
    IN  probe[1, 1]

CaptureProbes(user, unit, victim) ==
    LET from == UnitTypeChain(TypeOf[unit])
        to == UnitTypeChain(TypeOf[victim])
        Against(x) == <<<<x, victim>>>> \o [j \in 1 .. Len(to) |-> <<x, to[j]>>]
    IN  Against(unit)
            \o [i \in 1 .. Len(from) |-> <<from[i], victim>>]
            \o TypeVsType(from, to)
            \o FlattenSeq([i \in 1 .. Cardinality(Active[user]) |->
                              Against(SetToSeq(Active[user])[i])])

LookupRule(probes) == SelectSeq(probes, LAMBDA p : p \in DOMAIN CaptureRule)

(* How many a hit that killed so many may capture.  The amount is rolled   *)
(* as floor(random * percentage of the killed) + 1: never none.            *)
Captured(user, unit, victim, killed) ==
    LET rules == LookupRule(CaptureProbes(user, unit, victim))
        rule == CaptureRule[rules[1]]
        most == (killed * rule.percent) \div 100
    IN  IF rules = <<>> THEN {0}
        ELSE (IF rule.chance < 100 THEN {0} ELSE {})
                 \cup (IF rule.chance > 0 THEN 1 .. (IF most = 0 THEN 1 ELSE most) ELSE {})

------------------------------------------------------------------------------
(* The totals of a stack, with the improvements of its owner.              *)

FindUnitTypeImprovement(user, kind, t) ==
    LET worth == Improvement[user][kind]
    IN  MapThenSumSet(LAMBDA x : worth[x], ToSet(UnitTypeImprovementChain(t)))

OfStack(user, unit, count, kind) ==
    (count * Stats[unit][kind] * Scale
        * (100 + FindUnitTypeImprovement(user, kind, TypeOf[unit]))) \div 100

CreateCombatStack(row) ==
    LET shield == OfStack(row.user, row.unit, row.count, "shield")
        health == OfStack(row.user, row.unit, row.count, "health")
    IN  [user |-> row.user, unit |-> row.unit, mission |-> row.mission,
         carrier |-> row.carrier, initial |-> row.count, final |-> row.count,
         pending |-> OfStack(row.user, row.unit, row.count, "attack"), spent |-> FALSE,
         shield |-> shield, health |-> health,
         totalShield |-> shield, totalHealth |-> health]
================================================================================
