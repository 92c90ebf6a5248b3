------------------------------ MODULE CombatProofs ------------------------------
(***************************************************************************)
(* Proofs about Combat, for any units, rules, improvements, alliances and  *)
(* scenarios, any order of the stacks and any rolls of the captures.       *)
(***************************************************************************)
EXTENDS Combat, TableTheorems

------------------------------------------------------------------------------
(* Tables, and what is known in each phase of the fight.                   *)

RowTable(R) ==
    /\ R = [i \in DOMAIN R |-> R[i]] /\ IsFiniteSet(DOMAIN R) /\ DOMAIN R \subseteq Nat \ {0}
    /\ \A i \in DOMAIN R : R[i] \in Row

MissionTable(M) ==
    /\ M = [m \in DOMAIN M |-> M[m]] /\ IsFiniteSet(DOMAIN M) /\ DOMAIN M \subseteq Nat \ {0}
    /\ \A m \in DOMAIN M : M[m] \in MissionRow

Stack == [user : User, unit : Unit, mission : Nat \cup {None}, carrier : Nat \cup {None},
          initial : Nat \ {0}, final : Nat, pending : Nat, spent : BOOLEAN,
          shield : Int, health : Int, totalShield : Nat, totalHealth : Nat \ {0}]

StackTable(S) ==
    /\ S = [i \in DOMAIN S |-> S[i]] /\ IsFiniteSet(DOMAIN S) /\ DOMAIN S \subseteq Nat \ {0}
    /\ \A i \in DOMAIN S : S[i] \in Stack /\ S[i].final <= S[i].initial

Typed ==
    /\ RowTable(rows) /\ MissionTable(missions) /\ StackTable(stacks) /\ RowTable(involved)
    /\ owner \in User \cup {None} /\ refused \in BOOLEAN /\ triggers \in BOOLEAN
    /\ order \in Seq(DOMAIN stacks) /\ targets \in Seq(DOMAIN stacks)
    /\ turn \in 0 .. Len(order) /\ (targets # <<>> => turn # 0)
    /\ points \in [User -> Nat] /\ gathered \in Nat /\ detached \subseteq DOMAIN stacks
    /\ outcome \in {"none", "gone", "returns", "won"}
    /\ pc \in {"landed", "fighting", "counted", "reported", "over"}

(* Whom the stack that attacks may still hit.                              *)
Aimed ==
    \A k \in DOMAIN targets :
        /\ AreEnemies(stacks[order[turn]].user, stacks[targets[k]].user)
        /\ CanAttack(stacks[order[turn]].unit, stacks[targets[k]].unit)

(* The mission that fights, and its rows, until the end.                   *)
Mine ==
    /\ Ours \in DOMAIN missions /\ missions[Ours].type \in Fighter
    /\ pc # "over" =>
          /\ ~missions[Ours].resolved /\ formerly = owner /\ outcome = "none"
          /\ \A i \in DOMAIN rows : rows[i].mission = Ours <=> i \in DOMAIN involved

(* Rows are on open missions of their user, and missions have rows.        *)
UnderWay ==
    pc # "over" => \A i \in DOMAIN rows :
        rows[i].mission # None =>
            /\ rows[i].mission \in DOMAIN missions /\ ~missions[rows[i].mission].resolved
            /\ missions[rows[i].mission].user = rows[i].user

Manned ==
    pc # "over" => \A m \in DOMAIN missions :
        m # Ours \/ pc = "landed" =>
            missions[m].resolved \/ \E i \in DOMAIN rows : rows[i].mission = m

(* Cargo is with its carrier, unless that was just wiped out.              *)
Held(i) ==
    /\ rows[i].carrier \in DOMAIN rows /\ rows[rows[i].carrier].mission = rows[i].mission
    /\ rows[i].mission # None => missions[rows[i].mission].type # "DEPLOYED"

Cargo ==
    pc # "over" => \A i \in DOMAIN rows :
        rows[i].carrier # None => Held(i) \/ (pc = "fighting" /\ i \in detached)

(* The stacks know who is carried.                                         *)
Aware ==
    pc = "fighting" =>
        /\ \A i \in DOMAIN stacks \cap DOMAIN rows :
              i \in detached \/ stacks[i].carrier = rows[i].carrier
        /\ \A i \in DOMAIN rows \ DOMAIN stacks : rows[i].carrier \notin DOMAIN stacks

InFight == pc \in {"fighting", "counted", "reported"}

Took(C, user, unit) == \E c \in C : c.captor = user /\ c.unit = unit

(* Stacks and rows are of the same units; what is no stack was captured,   *)
(* or passes by.                                                           *)
Known ==
    InFight =>
        /\ DOMAIN involved \subseteq DOMAIN stacks
        /\ \A i \in DOMAIN stacks \cap DOMAIN rows :
              /\ stacks[i].user = rows[i].user /\ stacks[i].unit = rows[i].unit
              /\ stacks[i].mission = rows[i].mission
        /\ \A i \in DOMAIN stacks \ DOMAIN rows : stacks[i].final = 0
        /\ \A i \in DOMAIN rows \ DOMAIN stacks :
              \/ Took(captures, rows[i].user, rows[i].unit)
              \/ rows[i].mission # None /\ missions[rows[i].mission].type # "DEPLOYED"

(* What a row counts, before and after the losses are written.             *)
CountsAs(i, n) ==
    rows[i].count = n \/ (Took(captures, rows[i].user, rows[i].unit) /\ rows[i].count > n)

Counts ==
    \A i \in DOMAIN stacks \cap DOMAIN rows :
        /\ pc = "fighting" => CountsAs(i, stacks[i].initial)
        /\ pc \in {"counted", "reported"} => stacks[i].final = 0 \/ CountsAs(i, stacks[i].final)

(* Without bypass_shield, a stack has as many units as its strength: none  *)
(* loses its last unit but by a wipe.                                      *)
Remains(s) == s.health + (IF s.shield > 0 THEN s.shield ELSE 0)

Worn ==
    Plain => \A i \in DOMAIN stacks :
        /\ InFight /\ stacks[i].final = 0 => i \notin DOMAIN rows
        /\ pc = "fighting" /\ stacks[i].final # 0 =>
              Remains(stacks[i]) * stacks[i].initial
                  <= stacks[i].final * (stacks[i].totalHealth + stacks[i].totalShield)

(* Before the fight.                                                       *)
Fresh ==
    pc = "landed" =>
        /\ stacks = <<>> /\ targets = <<>> /\ turn = 0 /\ detached = {} /\ points = [u \in User |-> 0]
        /\ DOMAIN involved \subseteq DOMAIN rows

(* How it ends.                                                            *)
Settled == pc = "over" => FleetsAndMissions /\ ConqueredIsCleared

IInv ==
    /\ Typed /\ Aimed /\ LossesHaveEnemies
    /\ Mine /\ UnderWay /\ Manned /\ Cargo /\ Aware /\ Known /\ Counts /\ Worn
    /\ Fresh /\ Settled

------------------------------------------------------------------------------
(* The rules.                                                              *)

(* One type up.                                                            *)
OneUp(chain, Through) ==
    LET top == Last(chain)
    IN  IF top \in Through \cap DOMAIN Parent /\ ~Contains(chain, Parent[top])
        THEN Append(chain, Parent[top]) ELSE chain

IsClimb(g, t, Through) ==
    g = [n \in 0 .. Cardinality(Type) |-> IF n = 0 THEN <<t>> ELSE OneUp(g[n - 1], Through)]

(* A climb through the parents of a type stays within the types.           *)
LEMMA ClimbTyped ==
    ASSUME NEW t \in Type, NEW Through
    PROVE  Climb(t, Through) \in Seq(Type)
<1>1. PICK N : N = Cardinality(Type)
  OBVIOUS
<1>2. N \in Nat
  BY <1>1, FS_CardinalityType, RulesAssumption
<1>3. PICK T : T = {x \in (0 .. N) \X Seq(Type) : x[2] # <<>>}
  OBVIOUS
<1>4. PICK base : base = <<t>>
  OBVIOUS
<1>5. <<0, base>> \in T
  <2>1. base \in Seq(Type) /\ base # <<>>
    BY <1>4
  <2> QED
    BY <1>2, <1>3, <2>1
<1>6. PICK Step : Step = [x \in T |-> OneUp(x[2], Through)]
  OBVIOUS
<1>7. ASSUME NEW k \in 1 .. N, NEW v, <<k - 1, v>> \in T
      PROVE  <<k, OneUp(v, Through)>> \in T /\ Step[<<k - 1, v>>] = OneUp(v, Through)
  <2>1. v \in Seq(Type) /\ v # <<>> /\ Last(v) \in Type
    BY <1>3, <1>7 DEF Last
  <2>2. OneUp(v, Through) \in Seq(Type) /\ OneUp(v, Through) # <<>>
    <3>1. Last(v) \in DOMAIN Parent => Parent[Last(v)] \in Type
      BY CombatAssumption
    <3> QED
      BY <2>1, <3>1 DEF OneUp
  <2>3. Step[<<k - 1, v>>] = OneUp(v, Through)
    BY <1>6, <1>7
  <2>4. k \in 0 .. N
    BY <1>2
  <2> QED
    BY <1>3, <2>2, <2>3, <2>4
<1>8. \A k \in 1 .. N : \A v : <<k - 1, v>> \in T => <<k, Step[<<k - 1, v>>]>> \in T
  BY <1>7
<1>9. PICK g : (\A k \in 0 .. N : <<k, g[k]>> \in T) /\ Recurs(g, N, base, Step)
  BY ONLY <1>2, <1>5, <1>8, StepsExist
<1>10. IsClimb(g, t, Through)
  <2>1. \A k \in 0 .. N : k # 0 => k \in 1 .. N /\ k - 1 \in 0 .. N
    BY <1>2
  <2>2. \A k \in 0 .. N : k # 0 => Step[<<k - 1, g[k - 1]>>] = OneUp(g[k - 1], Through)
    BY <1>7, <1>9, <2>1
  <2> QED
    BY <1>1, <1>4, <1>9, <2>2 DEF IsClimb, Recurs
<1>11. PICK c : c = CHOOSE h : IsClimb(h, t, Through)
  OBVIOUS
<1>12. IsClimb(c, t, Through)
  BY <1>10, <1>11
<1>13. c[0] = <<t>> /\ \A k \in 1 .. N : c[k] = OneUp(c[k - 1], Through)
  BY <1>1, <1>2, <1>12 DEF IsClimb
<1>14. \A k \in 1 .. N : <<k - 1, c[k - 1]>> \in T => <<k, c[k]>> \in T
  BY <1>7, <1>13
<1>15. <<0, c[0]>> \in T
  BY <1>4, <1>5, <1>13
<1>16. \A k \in 0 .. N : <<k, c[k]>> \in T
  BY <1>2, <1>14, <1>15, StepsKeep
<1>17. <<N, c[N]>> \in T
  BY <1>2, <1>16
<1>18. Climb(t, Through) = c[N]
  BY <1>1, <1>11 DEF Climb, IsClimb, OneUp
<1> QED
  BY <1>3, <1>17, <1>18

(* The first that passes a test is one that does.                          *)
LEMMA FirstOf ==
    ASSUME NEW n \in Nat, NEW I, I \subseteq 1 .. n
    PROVE  (IF I # {} THEN Min(I) ELSE 0) \in I \cup {0}
<1>1. I \subseteq Nat
  OBVIOUS
<1> QED
  BY <1>1, LeastNumber

(* The entries that hold for a unit are those of some rule.                *)
LEMMA EffectiveTyped ==
    ASSUME NEW S, NEW rules, \A x \in DOMAIN rules : rules[x] \in Seq(S), NEW unit \in Unit
    PROVE  Effective(rules, unit) \in Seq(S)
<1>1. PICK names : names = <<unit>> \o UnitTypeChain(TypeOf[unit])
  OBVIOUS
<1>2. names \in Seq(Unit \cup Type)
  <2>1. UnitTypeChain(TypeOf[unit]) \in Seq(Type)
    BY CombatAssumption, ClimbTyped DEF UnitTypeChain
  <2>2. UnitTypeChain(TypeOf[unit]) \in Seq(Unit \cup Type) /\ <<unit>> \in Seq(Unit \cup Type)
    BY <2>1
  <2> QED
    BY <1>1, <2>2
<1>3. Len(names) \in Nat
  BY <1>2
<1>4. PICK I : I = {i \in 1 .. Len(names) : names[i] \in DOMAIN rules}
  OBVIOUS
<1>5. PICK k : k = IF I # {} THEN Min(I) ELSE 0
  OBVIOUS
<1>6. k \in I \cup {0}
  BY <1>3, <1>4, <1>5, FirstOf
<1>7. Effective(rules, unit) = IF k = 0 THEN <<>> ELSE rules[names[k]]
  BY <1>1, <1>4, <1>5 DEF Effective, SelectInSeq
<1>8. k # 0 => names[k] \in DOMAIN rules
  BY <1>4, <1>6
<1> QED
  BY <1>7, <1>8

(* A critical score is a number.                                           *)
LEMMA ScoreNat ==
    ASSUME NEW unit \in Unit, NEW target \in Unit
    PROVE  FindCriticalScore(unit, target) \in Nat
<1>1. PICK S : S = [on : Unit \cup Type, times : Nat]
  OBVIOUS
<1>2. PICK entries : entries = Effective(CriticalAttack, unit)
  OBVIOUS
<1>3. entries \in Seq(S)
  <2>1. \A x \in DOMAIN CriticalAttack : CriticalAttack[x] \in Seq(S)
    BY <1>1, RulesAssumption
  <2> QED
    BY <1>2, <2>1, EffectiveTyped
<1>4. Len(entries) \in Nat /\ \A i \in 1 .. Len(entries) : entries[i] \in S
  BY <1>3
<1>5. PICK I : I = {i \in 1 .. Len(entries) :
                      \/ entries[i].on = target
                      \/ Contains(UnitTypeChain(TypeOf[target]), entries[i].on)}
  OBVIOUS
<1>6. PICK k : k = IF I # {} THEN Min(I) ELSE 0
  OBVIOUS
<1>7. k \in I \cup {0}
  BY <1>4, <1>5, <1>6, FirstOf
<1>8. Matching(entries, target) = k
  BY <1>5, <1>6 DEF Matching, SelectInSeq
<1>9. FindCriticalScore(unit, target) = IF k = 0 THEN 1 ELSE entries[k].times
  BY <1>2, <1>8 DEF FindCriticalScore
<1>10. k # 0 => entries[k] \in S
  BY <1>4, <1>5, <1>7
<1> QED
  BY <1>1, <1>9, <1>10

(* An improvement adds.                                                    *)
LEMMA ImprovementNat ==
    ASSUME NEW user \in User, NEW kind \in {"attack", "shield", "health"}, NEW t \in Type
    PROVE  FindUnitTypeImprovement(user, kind, t) \in Nat
<1>1. PICK C : C = ToSet(UnitTypeImprovementChain(t))
  OBVIOUS
<1>2. PICK q : q = UnitTypeImprovementChain(t)
  OBVIOUS
<1>3. q \in Seq(Type)
  BY <1>2, ClimbTyped DEF UnitTypeImprovementChain
<1>4. C \subseteq Type
  BY <1>1, <1>2, <1>3 DEF ToSet
<1>5. IsFiniteSet(C)
  BY <1>4, FS_Subset, RulesAssumption
<1>6. PICK worth : worth = Improvement[user][kind]
  OBVIOUS
<1>7. \A x \in C : worth[x] \in Nat
  BY <1>4, <1>6, RulesAssumption
<1>8. Total(worth, C) \in Nat
  BY <1>5, <1>7, TotalNat
<1>9. FindUnitTypeImprovement(user, kind, t) = Total(worth, C)
  BY <1>1, <1>6 DEF FindUnitTypeImprovement, Total
<1> QED
  BY <1>8, <1>9

(* A product of numbers.                                                   *)
LEMMA ProductNat == ASSUME NEW a \in Nat, NEW b \in Nat PROVE a * b \in Nat
  OBVIOUS

(* A number and some percent more is a number, and not 0 if it was not.    *)
LEMMA HundredPercent ==
    ASSUME NEW p \in Nat, NEW i \in Nat
    PROVE  /\ (p * (100 + i)) \div 100 \in Nat
           /\ p # 0 => (p * (100 + i)) \div 100 \in Nat \ {0}
<1>1. p * i \in Nat
  BY ProductNat
<1>2. p * (100 + i) = 100 * p + p * i
  OBVIOUS
<1>3. PICK q : q = p * i
  OBVIOUS
<1>4. PICK n : n = 100 * p + q
  OBVIOUS
<1>5. n \in Nat /\ n >= 100 * p
  BY <1>1, <1>3, <1>4
<1>6. n \div 100 \in Nat /\ (p # 0 => n \div 100 >= 1)
  BY <1>5
<1> QED
  BY <1>2, <1>3, <1>4, <1>6

(* What a stack amounts to.                                                *)
LEMMA OfStackNat ==
    ASSUME NEW user \in User, NEW unit \in Unit, NEW count \in Nat \ {0},
           NEW kind \in {"attack", "shield", "health"}
    PROVE  /\ OfStack(user, unit, count, kind) \in Nat
           /\ kind = "health" => OfStack(user, unit, count, kind) \in Nat \ {0}
<1>1. PICK s : s = Stats[unit][kind]
  OBVIOUS
<1>2. s \in Nat /\ (kind = "health" => s # 0)
  <2>1. Stats[unit] \in [attack : Nat, shield : Nat, health : Nat \ {0}, points : Nat, charge : Nat]
    BY CombatAssumption
  <2> QED
    BY <1>1, <2>1
<1>3. PICK i : i = FindUnitTypeImprovement(user, kind, TypeOf[unit])
  OBVIOUS
<1>4. i \in Nat
  <2>1. TypeOf[unit] \in Type
    BY CombatAssumption
  <2> QED
    BY <1>3, <2>1, ImprovementNat
<1>5. PICK p : p = count * s * Scale
  OBVIOUS
<1>6. count * s \in Nat /\ (s # 0 => count * s # 0)
  BY <1>2
<1>7. p \in Nat /\ (s # 0 => p # 0)
  <2>1. PICK c : c = count * s
    OBVIOUS
  <2>2. c \in Nat /\ (s # 0 => c # 0) /\ p = c * Scale /\ Scale \in Nat \ {0}
    BY <1>5, <1>6, <2>1, CombatAssumption
  <2>3. \A a, b \in Nat : a # 0 /\ b # 0 => a * b # 0
    OBVIOUS
  <2>4. c * Scale \in Nat
    BY <2>2, ProductNat
  <2> QED
    BY <2>2, <2>3, <2>4
<1>8. OfStack(user, unit, count, kind) = (p * (100 + i)) \div 100
  BY <1>1, <1>3, <1>5 DEF OfStack
<1> QED
  BY <1>2, <1>4, <1>7, <1>8, HundredPercent

(* A stack at the beginning of the fight.                                  *)
LEMMA CreatedStack ==
    ASSUME NEW row \in Row
    PROVE  LET s == CreateCombatStack(row) IN
           /\ s \in Stack
           /\ s.user = row.user /\ s.unit = row.unit /\ s.mission = row.mission
           /\ s.carrier = row.carrier /\ s.initial = row.count /\ s.final = row.count
           /\ s.health = s.totalHealth /\ s.shield = s.totalShield
<1>1. row.user \in User /\ row.unit \in Unit /\ row.count \in Nat \ {0}
      /\ row.mission \in Nat \cup {None} /\ row.carrier \in Nat \cup {None}
  BY DEF Row
<1>2. /\ OfStack(row.user, row.unit, row.count, "attack") \in Nat
      /\ OfStack(row.user, row.unit, row.count, "shield") \in Nat
      /\ OfStack(row.user, row.unit, row.count, "health") \in Nat \ {0}
  BY <1>1, OfStackNat
<1> QED
  BY <1>1, <1>2 DEF CreateCombatStack, Stack

------------------------------------------------------------------------------
(* A hit.                                                                  *)

(* A quotient is the greatest number that fits.                            *)
LEMMA QuotientNat == ASSUME NEW a \in Nat, NEW b \in Nat \ {0} PROVE a \div b \in Nat
  OBVIOUS

(* A quotient times its divisor fits.                                      *)
LEMMA QuotientFits == ASSUME NEW a \in Nat, NEW b \in Nat \ {0} PROVE (a \div b) * b <= a
  OBVIOUS

(* A greater factor, a greater product.                                    *)
LEMMA SmallerFactor == ASSUME NEW a \in Int, NEW b \in Int, NEW c \in Nat, a <= b PROVE a * c <= b * c
  OBVIOUS

(* A product of a difference.                                              *)
LEMMA Difference == ASSUME NEW a \in Int, NEW b \in Int, NEW c \in Int PROVE (a - b) * c = a * c - b * c
  OBVIOUS

(* A stack kills at most what is left.                                     *)
LEMMA KilledFew ==
    ASSUME Typed, NEW id \in DOMAIN stacks, NEW t \in DOMAIN stacks, NEW strength \in Nat
    PROVE  Killed(id, t, strength) \in 0 .. stacks[t].final
<1>1. stacks[t].initial \in Nat \ {0} /\ stacks[t].final \in Nat
      /\ stacks[t].totalHealth \in Nat \ {0} /\ stacks[t].totalShield \in Nat
  BY DEF Typed, StackTable, Stack
<1>2. PICK a : a = strength * stacks[t].initial
  OBVIOUS
<1>3. a \in Nat
  BY <1>1, <1>2, ProductNat
<1>4. PICK b : b = stacks[t].totalHealth
                     + (IF stacks[id].unit \in BypassShield THEN 0 ELSE stacks[t].totalShield)
  OBVIOUS
<1>5. b \in Nat \ {0}
  BY <1>1, <1>4
<1>6. a \div b \in Nat
  BY <1>3, <1>5, QuotientNat
<1>7. Killed(id, t, strength) = IF a \div b > stacks[t].final THEN stacks[t].final ELSE a \div b
  BY <1>2, <1>4 DEF Killed
<1> QED
  BY <1>1, <1>6, <1>7

(* One without bypass_shield kills no more than its strength is worth.     *)
LEMMA KilledWorth ==
    ASSUME Typed, NEW id \in DOMAIN stacks, NEW t \in DOMAIN stacks, NEW strength \in Nat,
           stacks[id].unit \notin BypassShield
    PROVE  Killed(id, t, strength) * (stacks[t].totalHealth + stacks[t].totalShield)
               <= strength * stacks[t].initial
<1>1. stacks[t].initial \in Nat \ {0} /\ stacks[t].final \in Nat
      /\ stacks[t].totalHealth \in Nat \ {0} /\ stacks[t].totalShield \in Nat
  BY DEF Typed, StackTable, Stack
<1>2. PICK a : a = strength * stacks[t].initial
  OBVIOUS
<1>3. a \in Nat
  BY <1>1, <1>2, ProductNat
<1>4. PICK b : b = stacks[t].totalHealth + stacks[t].totalShield
  OBVIOUS
<1>5. b \in Nat \ {0}
  BY <1>1, <1>4
<1>6. PICK q : q = a \div b
  OBVIOUS
<1>7. q \in Nat /\ q * b <= a
  BY <1>3, <1>5, <1>6, QuotientNat, QuotientFits
<1>8. PICK k : k = Killed(id, t, strength)
  OBVIOUS
<1>9. k = IF q > stacks[t].final THEN stacks[t].final ELSE q
  BY <1>2, <1>4, <1>6, <1>8 DEF Killed
<1>10. k \in Nat /\ k <= q
  BY <1>1, <1>7, <1>9
<1>11. k * b <= q * b
  BY <1>5, <1>7, <1>10, SmallerFactor
<1>12. k * b \in Nat /\ q * b \in Nat
  BY <1>5, <1>7, <1>10, ProductNat
<1>13. k * b <= a
  BY <1>3, <1>7, <1>11, <1>12
<1> QED
  BY <1>2, <1>4, <1>8, <1>13

(* The stack that attacks, and the one it hits.                            *)
LEMMA Hitting ==
    ASSUME Typed, Aimed, Fighting, NEW id, id = order[turn], NEW t, t = Head(targets)
    PROVE  /\ id \in DOMAIN stacks /\ t \in DOMAIN stacks /\ id # t
           /\ AreEnemies(stacks[id].user, stacks[t].user)
           /\ CanAttack(stacks[id].unit, stacks[t].unit)
           /\ stacks[id] \in Stack /\ stacks[t] \in Stack
           /\ stacks[id].final <= stacks[id].initial /\ stacks[t].final <= stacks[t].initial
           /\ Strength(id, t) \in Nat /\ Resistance(id, t) \in Int
           /\ Killed(id, t, Strength(id, t)) \in 0 .. stacks[t].final
<1>1. Len(order) \in Nat /\ DOMAIN order = 1 .. Len(order) /\ targets # <<>>
      /\ turn \in DOMAIN order
  BY DEF Typed, Fighting
<1>2. id \in DOMAIN stacks
  BY <1>1 DEF Typed
<1>3. 1 \in DOMAIN targets /\ t = targets[1]
  BY <1>1 DEF Typed
<1>4. t \in DOMAIN stacks
  BY <1>3 DEF Typed
<1>5. AreEnemies(stacks[id].user, stacks[t].user) /\ CanAttack(stacks[id].unit, stacks[t].unit)
  BY <1>3 DEF Aimed
<1>6. id # t
  BY <1>5 DEF AreEnemies
<1>7. stacks[id] \in Stack /\ stacks[t] \in Stack
      /\ stacks[id].final <= stacks[id].initial /\ stacks[t].final <= stacks[t].initial
  BY <1>2, <1>4 DEF Typed, StackTable
<1>8. Strength(id, t) \in Nat
  <2>1. stacks[id].pending \in Nat /\ stacks[id].unit \in Unit /\ stacks[t].unit \in Unit
    BY <1>7 DEF Stack
  <2>2. FindCriticalScore(stacks[id].unit, stacks[t].unit) \in Nat
    BY <2>1, ScoreNat
  <2> QED
    BY <2>1, <2>2, ProductNat DEF Strength
<1>9. Resistance(id, t) \in Int
  BY <1>7 DEF Resistance, Stack
<1>10. Killed(id, t, Strength(id, t)) \in 0 .. stacks[t].final
  BY <1>2, <1>4, <1>8, KilledFew
<1> QED
  BY <1>2, <1>4, <1>5, <1>6, <1>7, <1>8, <1>9, <1>10

(* Captives are counted.                                                   *)
LEMMA CaptivesNat ==
    ASSUME NEW id, NEW t, NEW n \in Captives(id, t)
    PROVE  n \in Nat
<1>1. \A x : \A i \in 1 .. x : i \in Nat
  OBVIOUS
<1>2. PICK C : C = Captured(stacks[id].user, stacks[id].unit, stacks[t].unit,
                            Killed(id, t, Strength(id, t)))
  OBVIOUS
<1>3. n \in C \cup {0}
  BY <1>2 DEF Captives
<1>4. C \subseteq Nat
  <2>1. PICK rules : rules = LookupRule(CaptureProbes(stacks[id].user, stacks[id].unit, stacks[t].unit))
    OBVIOUS
  <2>2. PICK most : most = (Killed(id, t, Strength(id, t)) * CaptureRule[rules[1]].percent) \div 100
    BY SMTT(60)
  <2>3. C = IF rules = <<>> THEN {0}
            ELSE (IF CaptureRule[rules[1]].chance < 100 THEN {0} ELSE {})
                     \cup (IF CaptureRule[rules[1]].chance > 0
                           THEN 1 .. (IF most = 0 THEN 1 ELSE most) ELSE {})
    BY <1>2, <2>1, <2>2 DEF Captured
  <2>4. PICK A : A = 1 .. (IF most = 0 THEN 1 ELSE most)
    OBVIOUS
  <2>5. A \subseteq Nat
    BY <1>1, <2>4
  <2> QED
    BY <2>3, <2>4, <2>5
<1> QED
  BY <1>3, <1>4

(* The next number.                                                        *)
LEMMA NextNumber ==
    ASSUME NEW S, S \subseteq Nat, IsFiniteSet(S)
    PROVE  NewId(S) \in Nat \ {0} /\ NewId(S) \notin S
<1>1. PICK T : T = {0} \cup S
  OBVIOUS
<1>2. T \subseteq Nat /\ T # {} /\ IsFiniteSet(T)
  <2>1. IsFiniteSet({0})
    BY FS_Singleton
  <2>2. IsFiniteSet({0} \cup S)
    BY <2>1, FS_Union
  <2> QED
    BY <1>1, <2>2
<1>3. Max(T) \in T /\ \A x \in T : x <= Max(T)
  BY <1>2, GreatestNumber
<1>4. PICK top : top = Max(T)
  OBVIOUS
<1>5. top \in Nat /\ \A x \in S : x <= top
  BY <1>1, <1>2, <1>3, <1>4
<1>6. NewId(S) = 1 + top
  BY <1>1, <1>4 DEF NewId
<1>7. 1 + top \notin S
  BY <1>5
<1> QED
  BY <1>5, <1>6, <1>7
------------------------------------------------------------------------------
(* Where captives go.                                                      *)

(* What becomes of the rows and the missions when n of the unit come to    *)
(* the user: a row grows, or there is a new one and it may have a marker.  *)
SameRow(R, i) ==
    /\ R[i].user = rows[i].user /\ R[i].unit = rows[i].unit
    /\ R[i].mission = rows[i].mission /\ R[i].carrier = rows[i].carrier

Deployed(M, m, user) ==
    m \in DOMAIN M /\ M[m].type = "DEPLOYED" /\ M[m].user = user /\ ~M[m].resolved

Stationed(R, M, user, unit, n) ==
    /\ RowTable(R) /\ MissionTable(M)
    /\ DOMAIN rows \subseteq DOMAIN R /\ DOMAIN missions \subseteq DOMAIN M
    /\ \A m \in DOMAIN missions : M[m] = missions[m]
    /\ \A i \in DOMAIN rows :
          /\ SameRow(R, i)
          /\ \/ R[i].count = rows[i].count
             \/ n # 0 /\ R[i].count > rows[i].count /\ R[i].user = user /\ R[i].unit = unit
    /\ \A i \in DOMAIN R \ DOMAIN rows :
          /\ n # 0 /\ i \notin DOMAIN stacks
          /\ R[i].user = user /\ R[i].unit = unit /\ R[i].carrier = None
          /\ R[i].mission # None => Deployed(M, R[i].mission, user)
    /\ \A m \in DOMAIN M \ DOMAIN missions : \E i \in DOMAIN R \ DOMAIN rows : R[i].mission = m

(* A table with one more entry.                                            *)
LEMMA PutRow ==
    ASSUME NEW R, RowTable(R), NEW x \in Nat \ {0}, x \notin DOMAIN R, NEW v \in Row
    PROVE  RowTable(Put(R, x, v))
<1>1. PICK S : S = Put(R, x, v)
  OBVIOUS
<1>2. /\ DOMAIN S = DOMAIN R \cup {x} /\ S[x] = v /\ \A y \in DOMAIN R : S[y] = R[y]
      /\ S = [y \in DOMAIN S |-> S[y]]
  BY <1>1 DEF Put
<1>3. IsFiniteSet(DOMAIN S)
  BY <1>2, FS_AddElement DEF RowTable
<1>4. RowTable(S)
  BY <1>2, <1>3 DEF RowTable
<1> QED
  BY <1>1, <1>4

(* So for missions.                                                        *)
LEMMA PutMission ==
    ASSUME NEW M, MissionTable(M), NEW x \in Nat \ {0}, x \notin DOMAIN M, NEW v \in MissionRow
    PROVE  MissionTable(Put(M, x, v))
<1>1. PICK S : S = Put(M, x, v)
  OBVIOUS
<1>2. /\ DOMAIN S = DOMAIN M \cup {x} /\ S[x] = v /\ \A y \in DOMAIN M : S[y] = M[y]
      /\ S = [y \in DOMAIN S |-> S[y]]
  BY <1>1 DEF Put
<1>3. IsFiniteSet(DOMAIN S)
  BY <1>2, FS_AddElement DEF MissionTable
<1>4. MissionTable(S)
  BY <1>2, <1>3 DEF MissionTable
<1> QED
  BY <1>1, <1>4

(* A row with another count.                                               *)
LEMMA GrownRow ==
    ASSUME RowTable(rows), MissionTable(missions), NEW c \in DOMAIN rows, NEW n \in Nat \ {0}
    PROVE  Stationed([rows EXCEPT ![c].count = @ + n], missions, rows[c].user, rows[c].unit, n)
<1>1. PICK R : R = [rows EXCEPT ![c].count = @ + n]
  OBVIOUS
<1>2. DOMAIN R = DOMAIN rows /\ R = [i \in DOMAIN R |-> R[i]]
  BY <1>1 DEF RowTable
<1>3. \A i \in DOMAIN rows \ {c} : R[i] = rows[i]
  BY <1>1
<1>4. rows[c] \in Row
  BY DEF RowTable
<1>5. /\ R[c] \in Row /\ R[c].user = rows[c].user /\ R[c].unit = rows[c].unit
      /\ R[c].mission = rows[c].mission /\ R[c].carrier = rows[c].carrier
      /\ R[c].count > rows[c].count
  <2>1. R[c] = [rows[c] EXCEPT !.count = rows[c].count + n]
    BY <1>1
  <2>2. rows[c].count + n \in Nat \ {0} /\ rows[c].count + n > rows[c].count
    BY <1>4 DEF Row
  <2> QED
    BY <1>4, <2>1, <2>2 DEF Row
<1>6. RowTable(R)
  BY <1>2, <1>3, <1>5 DEF RowTable
<1>7. \A i \in DOMAIN rows :
          /\ SameRow(R, i)
          /\ \/ R[i].count = rows[i].count
             \/ n # 0 /\ R[i].count > rows[i].count /\ R[i].user = rows[c].user
                      /\ R[i].unit = rows[c].unit
  BY <1>3, <1>5 DEF SameRow
<1>8. Stationed(R, missions, rows[c].user, rows[c].unit, n)
  BY <1>2, <1>6, <1>7 DEF Stationed
<1> QED
  BY <1>1, <1>8

(* A new row, and maybe a marker for it.                                   *)
LEMMA NewRow ==
    ASSUME RowTable(rows), MissionTable(missions),
           NEW x \in Nat \ {0}, x \notin DOMAIN rows \cup DOMAIN stacks, NEW v \in Row,
           NEW n, n # 0, v.carrier = None, NEW M, MissionTable(M),
           DOMAIN missions \subseteq DOMAIN M, \A m \in DOMAIN missions : M[m] = missions[m],
           \A m \in DOMAIN M \ DOMAIN missions : v.mission = m,
           v.mission # None => Deployed(M, v.mission, v.user)
    PROVE  Stationed(Put(rows, x, v), M, v.user, v.unit, n)
<1>1. PICK R : R = Put(rows, x, v)
  OBVIOUS
<1>2. DOMAIN R = DOMAIN rows \cup {x} /\ R[x] = v /\ \A y \in DOMAIN rows : R[y] = rows[y]
  BY <1>1 DEF Put
<1>3. RowTable(R)
  BY <1>1, PutRow
<1>4. \A m \in DOMAIN M \ DOMAIN missions : \E i \in DOMAIN R \ DOMAIN rows : R[i].mission = m
  BY <1>2
<1>5. Stationed(R, M, v.user, v.unit, n)
  BY <1>2, <1>3, <1>4 DEF Stationed, SameRow
<1> QED
  BY <1>1, <1>5

(* Station does one of the two.                                            *)
LEMMA StationTells ==
    ASSUME Typed, NEW user \in User, NEW unit \in Unit, NEW n \in Nat \ {0}
    PROVE  Stationed(Station(user, unit, n).rows, Station(user, unit, n).missions, user, unit, n)
<1>1. PICK id : id = NewId(DOMAIN rows \cup DOMAIN stacks)
  OBVIOUS
<1>2. PICK markers : markers = {m \in DOMAIN missions : missions[m].type = "DEPLOYED"
                                                         /\ missions[m].user = user}
  OBVIOUS
<1>3. PICK free : free = {m \in markers : ~missions[m].resolved}
  OBVIOUS
<1>4. PICK m : m = IF owner = user THEN None
                   ELSE IF free # {} THEN Min(free) ELSE NewId(DOMAIN missions)
  OBVIOUS
<1>5. PICK same : same = {i \in DOMAIN rows :
                    /\ rows[i].user = user /\ rows[i].unit = unit
                    /\ IF owner = user THEN rows[i].mission = None /\ rows[i].carrier = None
                       ELSE rows[i].mission \in markers}
  OBVIOUS
<1>6. PICK v : v = [user |-> user, unit |-> unit, count |-> n, mission |-> m, carrier |-> None]
  OBVIOUS
<1>7. PICK w : w = [user |-> user, type |-> "DEPLOYED", near |-> FALSE, resolved |-> FALSE]
  OBVIOUS
<1>8. PICK M : M = IF m = None \/ m \in free THEN missions ELSE Put(missions, m, w)
  OBVIOUS
<1>9. Station(user, unit, n) =
          IF same # {} THEN [rows |-> [rows EXCEPT ![Min(same)].count = @ + n],
                             missions |-> missions]
          ELSE [rows |-> Put(rows, id, v), missions |-> M]
  BY <1>1, <1>2, <1>3, <1>4, <1>5, <1>6, <1>7, <1>8 DEF Station
<1>10. RowTable(rows) /\ MissionTable(missions) /\ StackTable(stacks)
  BY DEF Typed
<1>11. CASE same # {}
  <2>1. Min(same) \in same
    BY <1>5, <1>10, <1>11, LeastNumber DEF RowTable
  <2>2. PICK c : c = Min(same)
    OBVIOUS
  <2>3. c \in DOMAIN rows /\ rows[c].user = user /\ rows[c].unit = unit
    BY <1>5, <2>1, <2>2
  <2>4. Stationed([rows EXCEPT ![c].count = @ + n], missions, user, unit, n)
    BY <1>10, <2>3, GrownRow
  <2>5. Station(user, unit, n).rows = [rows EXCEPT ![c].count = @ + n]
        /\ Station(user, unit, n).missions = missions
    BY <1>9, <1>11, <2>2
  <2> QED
    BY <2>4, <2>5
<1>12. CASE same = {}
  <2>1. id \in Nat \ {0} /\ id \notin DOMAIN rows \cup DOMAIN stacks
    <3>1. DOMAIN rows \cup DOMAIN stacks \subseteq Nat /\ IsFiniteSet(DOMAIN rows \cup DOMAIN stacks)
      BY <1>10, FS_Union DEF RowTable, StackTable
    <3> QED
      BY <1>1, <3>1, NextNumber
  <2>2. m \in (Nat \ {0}) \cup {None} /\ (m # None => m \in free \/ m \notin DOMAIN missions)
    <3>1. NewId(DOMAIN missions) \in Nat \ {0} /\ NewId(DOMAIN missions) \notin DOMAIN missions
      BY <1>10, NextNumber DEF MissionTable
    <3>2. free \subseteq Nat \ {0}
      BY <1>2, <1>3, <1>10 DEF MissionTable
    <3>3. free # {} => Min(free) \in free
      BY <3>2, LeastNumber
    <3> QED
      BY <1>4, <3>1, <3>2, <3>3
  <2>3. None \notin Nat
    BY ScenarioAssumption
  <2>4. v \in Row
    BY <1>6, <2>2 DEF Row
  <2>5. /\ MissionTable(M) /\ DOMAIN missions \subseteq DOMAIN M
        /\ \A x \in DOMAIN missions : M[x] = missions[x]
        /\ \A x \in DOMAIN M \ DOMAIN missions : m = x
        /\ m # None => Deployed(M, m, user)
    <3>1. CASE m = None \/ m \in free
      <4>1. M = missions
        BY <1>8, <3>1
      <4>2. m # None => Deployed(M, m, user)
        BY <1>2, <1>3, <3>1, <4>1 DEF Deployed
      <4> QED
        BY <1>10, <4>1, <4>2
    <3>2. CASE m # None /\ m \notin free
      <4>1. M = Put(missions, m, w) /\ m \in Nat \ {0} /\ m \notin DOMAIN missions
        BY <1>8, <2>2, <3>2
      <4>2. w \in MissionRow
        BY <1>7 DEF MissionRow
      <4>3. DOMAIN M = DOMAIN missions \cup {m} /\ M[m] = w
            /\ \A y \in DOMAIN missions : M[y] = missions[y]
        BY <4>1 DEF Put
      <4>4. MissionTable(M)
        BY <1>10, <4>1, <4>2, PutMission
      <4>5. Deployed(M, m, user)
        BY <1>7, <4>3 DEF Deployed
      <4> QED
        BY <4>3, <4>4, <4>5
    <3> QED
      BY <3>1, <3>2
  <2>6. v.user = user /\ v.unit = unit /\ v.mission = m /\ v.carrier = None
    BY <1>6
  <2>7. Stationed(Put(rows, id, v), M, v.user, v.unit, n)
    BY <1>10, <2>1, <2>4, <2>5, <2>6, NewRow
  <2>8. Station(user, unit, n).rows = Put(rows, id, v) /\ Station(user, unit, n).missions = M
    BY <1>9, <1>12
  <2> QED
    BY <2>6, <2>7, <2>8
<1> QED
  BY <1>11, <1>12

(* Nothing comes to nobody.                                                *)
LEMMA MaybeCaptureTells ==
    ASSUME Typed, NEW id \in DOMAIN stacks, NEW t \in DOMAIN stacks, NEW n \in Nat
    PROVE  Stationed(MaybeCapture(id, t, n).rows, MaybeCapture(id, t, n).missions,
                     stacks[id].user, stacks[t].unit, n)
<1>1. CASE n = 0
  <2>1. MaybeCapture(id, t, n).rows = rows /\ MaybeCapture(id, t, n).missions = missions
    BY <1>1 DEF MaybeCapture
  <2>2. Stationed(rows, missions, stacks[id].user, stacks[t].unit, n)
    BY DEF Stationed, SameRow, Typed
  <2> QED
    BY <2>1, <2>2
<1>2. CASE n # 0
  <2>1. stacks[id].user \in User /\ stacks[t].unit \in Unit /\ n \in Nat \ {0}
    BY <1>2 DEF Typed, StackTable, Stack
  <2>2. MaybeCapture(id, t, n) = Station(stacks[id].user, stacks[t].unit, n)
    BY <1>2 DEF MaybeCapture
  <2> QED
    BY <2>1, <2>2, StationTells
<1> QED
  BY <1>1, <1>2
------------------------------------------------------------------------------
(* What a hit does to the stacks.                                          *)

(* t loses k of its units, and nobody else any.                            *)
Struck(t, k) ==
    /\ StackTable(stacks') /\ DOMAIN stacks' = DOMAIN stacks
    /\ \A i \in DOMAIN stacks :
          /\ stacks'[i].user = stacks[i].user /\ stacks'[i].unit = stacks[i].unit
          /\ stacks'[i].mission = stacks[i].mission /\ stacks'[i].initial = stacks[i].initial
          /\ stacks'[i].totalHealth = stacks[i].totalHealth
          /\ stacks'[i].totalShield = stacks[i].totalShield
    /\ \A i \in DOMAIN stacks \ {t} :
          /\ stacks'[i].final = stacks[i].final /\ stacks'[i].health = stacks[i].health
          /\ stacks'[i].shield = stacks[i].shield
    /\ stacks'[t].final = stacks[t].final - k

(* A wound leaves a stack with integers.                                   *)
LEMMA WoundedStack ==
    ASSUME NEW s \in Stack, s.final <= s.initial, NEW k \in 0 .. s.final, NEW strength \in Nat,
           NEW bypass \in BOOLEAN
    PROVE  LET e == Wounded([s EXCEPT !.final = @ - k], strength, bypass) IN
           /\ e \in Stack /\ e.final = s.final - k /\ e.final <= e.initial
           /\ e.user = s.user /\ e.unit = s.unit /\ e.mission = s.mission
           /\ e.carrier = s.carrier /\ e.initial = s.initial
           /\ e.totalHealth = s.totalHealth /\ e.totalShield = s.totalShield
           /\ e = Wounded([s EXCEPT !.final = @ - k], strength, bypass)
<1>1. PICK d : d = [s EXCEPT !.final = s.final - k]
  OBVIOUS
<1>2. s.final \in Nat /\ s.initial \in Nat /\ s.health \in Int /\ s.shield \in Int
  BY DEF Stack
<1>3. s.final - k \in Nat /\ s.final - k <= s.initial
  BY <1>2
<1>4. /\ d \in Stack /\ d.final = s.final - k /\ d.user = s.user /\ d.unit = s.unit
      /\ d.mission = s.mission /\ d.carrier = s.carrier /\ d.initial = s.initial
      /\ d.totalHealth = s.totalHealth /\ d.totalShield = s.totalShield
      /\ d.health = s.health /\ d.shield = s.shield
  BY <1>1, <1>3 DEF Stack
<1>5. PICK half : half = strength \div 2
  OBVIOUS
<1>6. half \in Nat
  BY <1>5
<1>7. PICK shield : shield = IF bypass THEN d.shield ELSE d.shield - half
  OBVIOUS
<1>8. PICK health : health = d.health - (IF bypass THEN strength ELSE strength - half)
  OBVIOUS
<1>9. PICK rest : rest = IF shield < 0 THEN health + shield ELSE health
  OBVIOUS
<1>10. shield \in Int /\ rest \in Int
  BY <1>2, <1>4, <1>6, <1>7, <1>8, <1>9
<1>11. PICK e : e = [d EXCEPT !.shield = shield, !.health = rest]
  OBVIOUS
<1>12. Wounded(d, strength, bypass) = e
  BY <1>5, <1>7, <1>8, <1>9, <1>11 DEF Wounded
<1>13. /\ e \in Stack /\ e.final = d.final /\ e.user = d.user /\ e.unit = d.unit
       /\ e.mission = d.mission /\ e.carrier = d.carrier /\ e.initial = d.initial
       /\ e.totalHealth = d.totalHealth /\ e.totalShield = d.totalShield
  BY <1>4, <1>10, <1>11 DEF Stack
<1> QED
  BY <1>1, <1>3, <1>4, <1>12, <1>13

(* A wound strikes what it aims at, and nothing else.                      *)
LEMMA WoundStrikes ==
    ASSUME Typed, Aimed, Wound, NEW id, id = order[turn], NEW t, t = Head(targets),
           NEW strength, strength = Strength(id, t)
    PROVE  /\ Struck(t, Killed(id, t, strength))
           /\ \A i \in DOMAIN stacks : stacks'[i].carrier = stacks[i].carrier
           /\ stacks'[t] = Wounded([stacks[t] EXCEPT !.final = @ - Killed(id, t, strength)],
                                   strength, Bypasses(id, t))
<1>1. PICK k : k = Killed(id, t, strength)
  OBVIOUS
<1>2. Fighting
  BY DEF Wound
<1>3. /\ id \in DOMAIN stacks /\ t \in DOMAIN stacks /\ id # t
      /\ stacks[id] \in Stack /\ stacks[t] \in Stack
      /\ stacks[t].final <= stacks[t].initial /\ strength \in Nat /\ k \in 0 .. stacks[t].final
  BY <1>1, <1>2, Hitting
<1>4. PICK bypass : bypass = Bypasses(id, t)
  OBVIOUS
<1>5. bypass \in BOOLEAN
  BY <1>4 DEF Bypasses, BypassShields, ExistsRuleMatchingUnitDestination
<1>6. PICK e : e = Wounded([stacks[t] EXCEPT !.final = @ - k], strength, bypass)
  OBVIOUS
<1>7. /\ e \in Stack /\ e.final = stacks[t].final - k /\ e.final <= e.initial
      /\ e.user = stacks[t].user /\ e.unit = stacks[t].unit /\ e.mission = stacks[t].mission
      /\ e.carrier = stacks[t].carrier /\ e.initial = stacks[t].initial
      /\ e.totalHealth = stacks[t].totalHealth /\ e.totalShield = stacks[t].totalShield
  BY <1>3, <1>5, <1>6, WoundedStack
<1>8. stacks' = [stacks EXCEPT
                   ![id].pending = 0, ![id].spent = TRUE,
                   ![t] = Wounded([stacks[t] EXCEPT !.final = @ - k], strength, bypass)]
  BY <1>1, <1>4 DEF Wound
<1>9. PICK f : f = [stacks[id] EXCEPT !.pending = 0, !.spent = TRUE]
  OBVIOUS
<1>10. stacks = [i \in DOMAIN stacks |-> stacks[i]]
  BY DEF Typed, StackTable
<1>11. stacks' = [i \in DOMAIN stacks |-> IF i = t THEN e ELSE IF i = id THEN f ELSE stacks[i]]
  <2>1. PICK S : S = [stacks EXCEPT ![id].pending = 0, ![id].spent = TRUE]
    OBVIOUS
  <2>2. S = [i \in DOMAIN stacks |-> IF i = id THEN f ELSE stacks[i]]
    BY <1>3, <1>9, <1>10, <2>1
  <2>4. stacks' = [S EXCEPT ![t] = Wounded([stacks[t] EXCEPT !.final = @ - k], strength, bypass)]
    BY <1>8, <2>1
  <2>5. stacks' = [S EXCEPT ![t] = e]
    BY <1>6, <2>4
  <2> QED
    BY <1>3, <2>2, <2>5
<1>12. /\ f \in Stack /\ f.user = stacks[id].user /\ f.unit = stacks[id].unit
       /\ f.mission = stacks[id].mission /\ f.carrier = stacks[id].carrier
       /\ f.initial = stacks[id].initial /\ f.final = stacks[id].final
       /\ f.totalHealth = stacks[id].totalHealth /\ f.totalShield = stacks[id].totalShield
       /\ f.health = stacks[id].health /\ f.shield = stacks[id].shield
  BY <1>3, <1>9 DEF Stack
<1>13. StackTable(stacks)
  BY DEF Typed
<1>14. StackTable(stacks')
  BY <1>3, <1>7, <1>11, <1>12, <1>13 DEF StackTable
<1>15. Struck(t, k)
  BY <1>3, <1>7, <1>11, <1>12, <1>14 DEF Struck
<1>16. \A i \in DOMAIN stacks : stacks'[i].carrier = stacks[i].carrier
  BY <1>3, <1>7, <1>11, <1>12
<1>17. stacks'[t] = e
  BY <1>3, <1>11
<1> QED
  BY <1>1, <1>4, <1>6, <1>15, <1>16, <1>17

(* The one that is wiped out, the one that did it, and what was carried.   *)
LEMMA WipeStrikes ==
    ASSUME Typed, Aimed, Wipe, NEW id, id = order[turn], NEW t, t = Head(targets)
    PROVE  /\ Struck(t, stacks[t].final)
           /\ \A i \in DOMAIN stacks : i \in Unload(t) \/ stacks'[i].carrier = stacks[i].carrier
<1>1. Fighting
  BY DEF Wipe
<1>2. /\ id \in DOMAIN stacks /\ t \in DOMAIN stacks /\ id # t
      /\ stacks[id] \in Stack /\ stacks[t] \in Stack
      /\ stacks[t].final <= stacks[t].initial
      /\ Strength(id, t) \in Nat /\ Resistance(id, t) \in Int
  BY <1>1, Hitting
<1>3. PICK left : left = Strength(id, t) - Resistance(id, t)
  OBVIOUS
<1>4. left \in Nat
  <2>1. Strength(id, t) - Resistance(id, t) >= 0
    BY DEF Wipe
  <2> QED
    BY <1>2, <1>3, <2>1
<1>5. PICK kept : kept = Min({stacks[id].pending, left})
  OBVIOUS
<1>6. kept \in Nat
  <2>1. stacks[id].pending \in Nat
    BY <1>2 DEF Stack
  <2>2. {stacks[id].pending, left} \subseteq Nat /\ {stacks[id].pending, left} # {}
    BY <1>4, <2>1
  <2>3. kept \in {stacks[id].pending, left}
    BY <1>5, <2>2, LeastNumber
  <2> QED
    BY <2>2, <2>3
<1>7. PICK e : e = [stacks[t] EXCEPT !.health = 0, !.shield = 0, !.final = 0]
  OBVIOUS
<1>8. PICK f : f = [stacks[id] EXCEPT !.pending = kept]
  OBVIOUS
<1>9. stacks' = [i \in DOMAIN stacks |->
                   IF i = t THEN e ELSE IF i = id THEN f
                   ELSE IF i \in Unload(t) THEN [stacks[i] EXCEPT !.carrier = None] ELSE stacks[i]]
  BY <1>2, <1>3, <1>5, <1>7, <1>8 DEF Wipe
<1>10. /\ e \in Stack /\ e.user = stacks[t].user /\ e.unit = stacks[t].unit /\ e.final = 0
       /\ e.mission = stacks[t].mission /\ e.carrier = stacks[t].carrier
       /\ e.initial = stacks[t].initial /\ e.totalHealth = stacks[t].totalHealth
       /\ e.totalShield = stacks[t].totalShield
  <2>1. PICK s : s = stacks[t]
    OBVIOUS
  <2>2. e = [s EXCEPT !.health = 0, !.shield = 0, !.final = 0] /\ s \in Stack
    BY <1>2, <1>7, <2>1
  <2>3. /\ e \in Stack /\ e.user = s.user /\ e.unit = s.unit /\ e.final = 0
        /\ e.mission = s.mission /\ e.carrier = s.carrier /\ e.initial = s.initial
        /\ e.totalHealth = s.totalHealth /\ e.totalShield = s.totalShield
    <3>1. PICK c : c = [s EXCEPT !.health = 0]
      OBVIOUS
    <3>2. PICK d : d = [c EXCEPT !.shield = 0]
      OBVIOUS
    <3>3. /\ c \in Stack /\ c.user = s.user /\ c.unit = s.unit /\ c.mission = s.mission
          /\ c.carrier = s.carrier /\ c.initial = s.initial
          /\ c.totalHealth = s.totalHealth /\ c.totalShield = s.totalShield
      BY ONLY <2>2, <3>1 DEF Stack
    <3>4. /\ d \in Stack /\ d.user = c.user /\ d.unit = c.unit /\ d.mission = c.mission
          /\ d.carrier = c.carrier /\ d.initial = c.initial
          /\ d.totalHealth = c.totalHealth /\ d.totalShield = c.totalShield
      BY ONLY <3>2, <3>3 DEF Stack
    <3>5. e = [d EXCEPT !.final = 0]
      BY ONLY <2>2, <3>1, <3>2
    <3>6. /\ e \in Stack /\ e.user = d.user /\ e.unit = d.unit /\ e.mission = d.mission
          /\ e.carrier = d.carrier /\ e.initial = d.initial /\ e.final = 0
          /\ e.totalHealth = d.totalHealth /\ e.totalShield = d.totalShield
      BY ONLY <3>4, <3>5 DEF Stack
    <3> QED
      BY ONLY <3>3, <3>4, <3>6
  <2> QED
    BY <2>1, <2>3
<1>11. /\ f \in Stack /\ f.user = stacks[id].user /\ f.unit = stacks[id].unit
       /\ f.mission = stacks[id].mission /\ f.carrier = stacks[id].carrier
       /\ f.initial = stacks[id].initial /\ f.final = stacks[id].final
       /\ f.totalHealth = stacks[id].totalHealth /\ f.totalShield = stacks[id].totalShield
       /\ f.health = stacks[id].health /\ f.shield = stacks[id].shield
  BY <1>2, <1>6, <1>8 DEF Stack
<1>12. ASSUME NEW i \in DOMAIN stacks \ {t, id}
       PROVE  /\ stacks'[i] \in Stack /\ stacks'[i].user = stacks[i].user
              /\ stacks'[i].unit = stacks[i].unit /\ stacks'[i].mission = stacks[i].mission
              /\ stacks'[i].initial = stacks[i].initial /\ stacks'[i].final = stacks[i].final
              /\ stacks'[i].totalHealth = stacks[i].totalHealth
              /\ stacks'[i].totalShield = stacks[i].totalShield
              /\ stacks'[i].health = stacks[i].health /\ stacks'[i].shield = stacks[i].shield
              /\ i \in Unload(t) \/ stacks'[i].carrier = stacks[i].carrier
  <2>1. stacks[i] \in Stack
    BY <1>12 DEF Typed, StackTable
  <2>2. stacks'[i] = IF i \in Unload(t) THEN [stacks[i] EXCEPT !.carrier = None] ELSE stacks[i]
    BY <1>9, <1>12
  <2>3. CASE i \in Unload(t)
    BY <2>1, <2>2, <2>3 DEF Stack
  <2>4. CASE i \notin Unload(t)
    BY <2>1, <2>2, <2>4
  <2> QED
    BY <2>3, <2>4
<1>13. stacks'[t] = e /\ stacks'[id] = f /\ DOMAIN stacks' = DOMAIN stacks
       /\ stacks' = [i \in DOMAIN stacks' |-> stacks'[i]]
  BY <1>2, <1>9
<1>14. StackTable(stacks)
  BY DEF Typed
<1>15. ASSUME NEW i \in DOMAIN stacks'
       PROVE  stacks'[i] \in Stack /\ stacks'[i].final <= stacks'[i].initial
  <2>1. stacks[i].final <= stacks[i].initial /\ i \in DOMAIN stacks
    BY <1>13, <1>14 DEF StackTable
  <2>2. CASE i = t
    BY <1>10, <1>13, <2>2 DEF Stack
  <2>3. CASE i = id
    BY <1>11, <1>13, <2>1, <2>3
  <2>4. CASE i \notin {t, id}
    BY <1>12, <2>1, <2>4
  <2> QED
    BY <2>2, <2>3, <2>4
<1>16. StackTable(stacks')
  BY <1>13, <1>14, <1>15 DEF StackTable
<1>17. stacks[t].final \in Nat
  BY <1>2 DEF Stack
<1>18. Struck(t, stacks[t].final)
  BY <1>2, <1>10, <1>11, <1>12, <1>13, <1>16, <1>17 DEF Struck
<1>19. \A i \in DOMAIN stacks : i \in Unload(t) \/ stacks'[i].carrier = stacks[i].carrier
  BY <1>10, <1>11, <1>12, <1>13
<1> QED
  BY <1>18, <1>19
------------------------------------------------------------------------------
(* Who pays for the losses.                                                *)

Loss(S) == [i \in DOMAIN S |-> (S[i].initial - S[i].final) * Stats[S[i].unit].points]

Foes(S, u) == {i \in DOMAIN S : AreEnemies(u, S[i].user)}

Paid(S, P) ==
    /\ Total(P, User) <= Total(Loss(S), DOMAIN S)
    /\ \A u \in User : P[u] <= Total(Loss(S), Foes(S, u))
    /\ \A i \in DOMAIN S :
          S[i].final < S[i].initial =>
              \E j \in DOMAIN S : AreEnemies(S[j].user, S[i].user) /\ CanAttack(S[j].unit, S[i].unit)

(* LossesHaveEnemies, in terms of sums over tables.                        *)
LEMMA PaidIsLosses == LossesHaveEnemies <=> Paid(stacks, points)
  BY Zenon DEF LossesHaveEnemies, Paid, Loss, Foes, Total

(* The same of the state that follows.                                     *)
LEMMA PaidIsLossesNext == LossesHaveEnemies' <=> Paid(stacks', points')
<1>1. LossesHaveEnemies' <=> Paid(stacks, points)'
  BY PaidIsLosses, PTL
<1>2. Paid(stacks, points)' <=> Paid(stacks', points')
  BY DEF Paid, Loss, Foes
<1> QED
  BY <1>1, <1>2

(* Losses are numbers.                                                     *)
LEMMA LossNat ==
    ASSUME NEW S, StackTable(S)
    PROVE  \A i \in DOMAIN S : Loss(S)[i] \in Nat
<1>1. SUFFICES ASSUME NEW i \in DOMAIN S PROVE Loss(S)[i] \in Nat
  OBVIOUS
<1>2. S[i].initial - S[i].final \in Nat /\ S[i].unit \in Unit
  BY DEF StackTable, Stack
<1>3. Stats[S[i].unit].points \in Nat
  BY <1>2, CombatAssumption
<1> QED
  BY <1>2, <1>3, ProductNat DEF Loss

(* A hit pays for what it takes at most.                                   *)
LEMMA PaidFor ==
    ASSUME Typed, LossesHaveEnemies, NEW id \in DOMAIN stacks, NEW t \in DOMAIN stacks,
           AreEnemies(stacks[id].user, stacks[t].user), CanAttack(stacks[id].unit, stacks[t].unit),
           NEW k \in 0 .. stacks[t].final, NEW paid \in 0 .. k, Struck(t, k),
           points' = [points EXCEPT ![stacks[id].user] = @ + paid * Stats[stacks[t].unit].points]
    PROVE  LossesHaveEnemies' /\ points' \in [User -> Nat]
<1>1. PICK p : p = Stats[stacks[t].unit].points
  OBVIOUS
<1>2. PICK u : u = stacks[id].user
  OBVIOUS
<1>3. /\ p \in Nat /\ u \in User /\ points \in [User -> Nat] /\ IsFiniteSet(DOMAIN stacks)
      /\ stacks[t].initial \in Nat /\ stacks[t].final \in Nat /\ IsFiniteSet(User)
      /\ stacks[t].final <= stacks[t].initial
  BY <1>1, <1>2, CombatAssumption, RulesAssumption DEF Typed, StackTable, Stack
<1>4. k \in Nat /\ paid \in Nat /\ paid <= k /\ k <= stacks[t].final
  BY <1>3
<1>5. PICK cost : cost = k * p
  OBVIOUS
<1>6. PICK gain : gain = paid * p
  OBVIOUS
<1>7. cost \in Nat /\ gain \in Nat /\ gain <= cost
  BY <1>3, <1>4, <1>5, <1>6, ProductNat, SmallerFactor
<1>8. PICK old : old = Loss(stacks)
  OBVIOUS
<1>9. PICK new : new = Loss(stacks')
  OBVIOUS
<1>10. StackTable(stacks) /\ StackTable(stacks') /\ DOMAIN stacks' = DOMAIN stacks
  BY DEF Typed, Struck
<1>11. \A i \in DOMAIN stacks : old[i] \in Nat /\ new[i] \in Nat
  BY <1>8, <1>9, <1>10, LossNat
<1>12. \A i \in DOMAIN stacks \ {t} : new[i] = old[i]
  BY <1>8, <1>9, <1>10 DEF Loss, Struck
<1>13. new[t] = old[t] + cost
  <2>1. PICK a : a = stacks[t].initial - stacks[t].final
    OBVIOUS
  <2>2. old[t] = a * p
    BY <1>1, <1>8, <2>1 DEF Loss
  <2>3. new[t] = (stacks[t].initial - (stacks[t].final - k)) * p
    BY <1>1, <1>9, <1>10 DEF Loss, Struck
  <2>4. stacks[t].initial - (stacks[t].final - k) = a + k /\ a \in Nat
    BY <1>3, <1>4, <2>1
  <2>5. (a + k) * p = a * p + k * p
    BY <1>3, <1>4, <2>4
  <2> QED
    BY <1>5, <2>2, <2>3, <2>4, <2>5
<1>14. ASSUME NEW A, A \subseteq DOMAIN stacks
       PROVE  /\ Total(old, A) \in Nat /\ Total(new, A) \in Nat
              /\ Total(new, A) = Total(old, A) + (IF t \in A THEN cost ELSE 0)
  <2>1. IsFiniteSet(A)
    BY <1>3, <1>14, FS_Subset
  <2>2. \A i \in A : old[i] \in Nat /\ new[i] \in Nat
    BY <1>11, <1>14
  <2>3. Total(old, A) \in Nat /\ Total(new, A) \in Nat
    BY <2>1, <2>2, TotalNat
  <2>4. CASE t \in A
    <3>1. \A i \in A \ {t} : new[i] = old[i]
      BY <1>12, <1>14
    <3>2. Total(new, A) = Total(old, A) + new[t] - old[t]
      BY ONLY <2>1, <2>2, <2>4, <3>1, TotalChange
    <3> QED
      BY <1>7, <1>11, <1>13, <2>3, <2>4, <3>2
  <2>5. CASE t \notin A
    <3>1. \A i \in A : old[i] = new[i]
      BY <1>12, <1>14, <2>5
    <3>2. Total(old, A) = Total(new, A)
      BY ONLY <2>1, <3>1, TotalSame
    <3> QED
      BY <2>3, <2>5, <3>2
  <2> QED
    BY <2>3, <2>4, <2>5
<1>15. points' = [points EXCEPT ![u] = @ + gain]
  BY <1>1, <1>2, <1>6
<1>16. points' \in [User -> Nat] /\ points'[u] = points[u] + gain
       /\ \A v \in User \ {u} : points'[v] = points[v]
  <2>1. points[u] + gain \in Nat
    BY <1>3, <1>7
  <2>2. points' = [v \in User |-> IF v = u THEN points[u] + gain ELSE points[v]]
    BY <1>3, <1>15
  <2> QED
    BY <1>3, <2>1, <2>2
<1>17. Total(points', User) = Total(points, User) + gain /\ Total(points, User) \in Nat
  <2>1. \A v \in User : points[v] \in Int /\ points'[v] \in Int
    BY <1>3, <1>16
  <2>2. Total(points', User) = Total(points, User) + points'[u] - points[u]
    BY ONLY <1>3, <1>16, <2>1, TotalChange
  <2>3. Total(points, User) \in Nat
    BY <1>3, TotalNat
  <2> QED
    BY <1>3, <1>7, <1>16, <2>2, <2>3
<1>18. Paid(stacks, points)
  BY PaidIsLosses
<1>19. Total(points', User) <= Total(new, DOMAIN stacks')
  <2>1. Total(points, User) <= Total(old, DOMAIN stacks)
    BY <1>8, <1>18 DEF Paid
  <2>2. Total(new, DOMAIN stacks) = Total(old, DOMAIN stacks) + cost
        /\ Total(old, DOMAIN stacks) \in Nat
    BY <1>14
  <2> QED
    BY <1>7, <1>10, <1>17, <2>1, <2>2
<1>20. ASSUME NEW v \in User PROVE points'[v] <= Total(new, Foes(stacks', v))
  <2>1. PICK A : A = Foes(stacks, v)
    OBVIOUS
  <2>2. Foes(stacks', v) = A
    BY <1>10, <2>1 DEF Foes, Struck
  <2>3. A \subseteq DOMAIN stacks
    BY <2>1 DEF Foes
  <2>4. /\ Total(old, A) \in Nat /\ Total(new, A) \in Nat
        /\ Total(new, A) = Total(old, A) + (IF t \in A THEN cost ELSE 0)
    BY <1>14, <2>3
  <2>5. points[v] <= Total(old, A) /\ points[v] \in Nat
    BY <1>3, <1>8, <1>18, <2>1 DEF Paid
  <2>6. v = u => t \in A
    BY <1>2, <2>1 DEF Foes
  <2>7. CASE v = u
    BY <1>7, <1>16, <2>2, <2>4, <2>5, <2>6, <2>7
  <2>8. CASE v # u
    BY <1>7, <1>16, <2>2, <2>4, <2>5, <2>8
  <2> QED
    BY <2>7, <2>8
<1>21. ASSUME NEW i \in DOMAIN stacks', stacks'[i].final < stacks'[i].initial
       PROVE  \E j \in DOMAIN stacks' : /\ AreEnemies(stacks'[j].user, stacks'[i].user)
                                        /\ CanAttack(stacks'[j].unit, stacks'[i].unit)
  <2>1. \A j \in DOMAIN stacks : stacks'[j].user = stacks[j].user /\ stacks'[j].unit = stacks[j].unit
    BY DEF Struck
  <2>2. CASE i = t
    BY <1>10, <2>1, <2>2
  <2>3. CASE i # t
    <3>1. stacks[i].final < stacks[i].initial
      BY <1>10, <1>21, <2>3 DEF Struck
    <3>2. PICK j \in DOMAIN stacks : /\ AreEnemies(stacks[j].user, stacks[i].user)
                                     /\ CanAttack(stacks[j].unit, stacks[i].unit)
      BY <1>10, <1>18, <1>21, <3>1 DEF Paid
    <3> QED
      BY <1>10, <1>21, <2>1, <3>2
  <2> QED
    BY <2>2, <2>3
<1>22. Paid(stacks', points')
  BY <1>9, <1>19, <1>20, <1>21 DEF Paid
<1> QED
  BY <1>16, <1>22, PaidIsLossesNext
------------------------------------------------------------------------------
(* What a hit does to rows, missions and stacks: captives come, t loses k  *)
(* units, its row goes if it is wiped out, and its mission if none is left.*)
Hit(id, t, k, gone, lost, n, R, M) ==
    /\ pc = "fighting" /\ pc' = "fighting" /\ n \in Nat
    /\ id \in DOMAIN stacks /\ t \in DOMAIN stacks /\ k \in 0 .. stacks[t].final
    /\ Stationed(R, M, stacks[id].user, stacks[t].unit, n)
    /\ gone \subseteq {t} /\ lost \subseteq {stacks[t].mission} \ {Ours}
    /\ gone = {} => lost = {}
    /\ gone # {} => k = stacks[t].final
    /\ rows' = [i \in DOMAIN R \ gone |-> R[i]]
    /\ missions' = [m \in DOMAIN M \ lost |-> M[m]]
    /\ \A i \in DOMAIN rows' : rows'[i].mission \notin lost
    /\ \A m \in DOMAIN missions' \ {Ours} :
          gone # {} /\ m = stacks[t].mission => \E i \in DOMAIN rows' : rows'[i].mission = m
    /\ captures \subseteq captures'
    /\ n # 0 => Took(captures', stacks[id].user, stacks[t].unit)
    /\ Struck(t, k)
    /\ \A i \in DOMAIN stacks :
          stacks'[i].carrier = stacks[i].carrier \/ (gone # {} /\ stacks[i].carrier = t)
    /\ detached \subseteq detached' /\ detached' \subseteq DOMAIN stacks
    /\ gone # {} => Unload(t) \subseteq detached'
    /\ owner' = owner /\ formerly' = formerly /\ refused' = refused /\ triggers' = triggers
    /\ involved' = involved /\ order' = order /\ turn' = turn
    /\ gathered' = gathered /\ outcome' = outcome

(* What is known of captures stays so.                                     *)
LEMMA Recorded ==
    ASSUME NEW id, NEW t, NEW n, RecordCapture(id, t, n)
    PROVE  /\ captures \subseteq captures'
           /\ n # 0 => \E c \in captures' : c.captor = stacks[id].user /\ c.unit = stacks[t].unit
<1>1. CASE n = 0
  BY <1>1 DEF RecordCapture
<1>2. CASE n # 0
  <2>1. PICK c : c = [captor |-> stacks[id].user, unit |-> stacks[t].unit, count |-> n, hit |-> <<id, t>>]
    OBVIOUS
  <2>2. captures' = captures \cup {c}
    BY <1>2, <2>1 DEF RecordCapture
  <2>3. c.captor = stacks[id].user /\ c.unit = stacks[t].unit
    BY <2>1
  <2> QED
    BY <2>2, <2>3
<1> QED
  BY <1>1, <1>2

(* A wound is a hit.                                                       *)
LEMMA WoundHits ==
    ASSUME Typed, Aimed, Wound, NEW id, id = order[turn], NEW t, t = Head(targets)
    PROVE  \E n, R, M : Hit(id, t, Killed(id, t, Strength(id, t)), {}, {}, n, R, M)
<1>1. PICK strength : strength = Strength(id, t)
  OBVIOUS
<1>2. PICK n \in Captives(id, t) :
          /\ rows' = MaybeCapture(id, t, n).rows
          /\ missions' = MaybeCapture(id, t, n).missions
          /\ RecordCapture(id, t, n)
  BY DEF Wound
<1>3. n \in Nat
  BY CaptivesNat
<1>4. Fighting
  BY DEF Wound
<1>5. id \in DOMAIN stacks /\ t \in DOMAIN stacks /\ Killed(id, t, strength) \in 0 .. stacks[t].final
  BY <1>1, <1>4, Hitting
<1>6. Stationed(rows', missions', stacks[id].user, stacks[t].unit, n)
  BY <1>2, <1>3, <1>5, MaybeCaptureTells
<1>7. captures \subseteq captures'
      /\ (n # 0 => \E c \in captures' : c.captor = stacks[id].user /\ c.unit = stacks[t].unit)
  BY <1>2, Recorded
<1>8. n # 0 => Took(captures', stacks[id].user, stacks[t].unit)
  <2>1. SUFFICES ASSUME n # 0 PROVE Took(captures', stacks[id].user, stacks[t].unit)
    OBVIOUS
  <2>2. Struck(t, Killed(id, t, strength))
    BY <1>1, WoundStrikes
  <2> QED
    BY <1>5, <1>7, <2>1, <2>2 DEF Took, Struck
<1>9. Struck(t, Killed(id, t, strength))
      /\ \A i \in DOMAIN stacks : stacks'[i].carrier = stacks[i].carrier
  BY <1>1, WoundStrikes
<1>10. /\ owner' = owner /\ formerly' = formerly /\ refused' = refused /\ triggers' = triggers
       /\ involved' = involved /\ order' = order /\ turn' = turn /\ detached' = detached
       /\ gathered' = gathered /\ outcome' = outcome /\ pc' = pc /\ pc = "fighting"
  BY DEF Wound, Fighting
<1>11. detached \subseteq DOMAIN stacks
  BY DEF Typed
<1>12. rows' = [i \in DOMAIN rows' \ {} |-> rows'[i]]
       /\ missions' = [m \in DOMAIN missions' \ {} |-> missions'[m]]
  BY <1>6 DEF Stationed, RowTable, MissionTable
<1>13. PICK k : k = Killed(id, t, strength)
  OBVIOUS
<1>14. Hit(id, t, k, {}, {}, n, rows', missions')
  BY <1>3, <1>5, <1>6, <1>7, <1>8, <1>9, <1>10, <1>11, <1>12, <1>13 DEF Hit
<1> QED
  BY <1>1, <1>13, <1>14

(* So is a wipe.                                                           *)
LEMMA WipeHits ==
    ASSUME Typed, Aimed, Wipe, NEW id, id = order[turn], NEW t, t = Head(targets)
    PROVE  \E lost, n, R, M : Hit(id, t, stacks[t].final, {t}, lost, n, R, M)
<1>1. PICK n \in Captives(id, t) :
          LET w == MaybeCapture(id, t, n)
              others == [i \in DOMAIN w.rows \ {t} |-> w.rows[i]]
          IN  /\ rows' = others
              /\ missions' = Remaining(others, w.missions, stacks[t].mission)
              /\ RecordCapture(id, t, n)
  BY DEF Wipe
<1>2. PICK R : R = MaybeCapture(id, t, n).rows
  OBVIOUS
<1>3. PICK M : M = MaybeCapture(id, t, n).missions
  OBVIOUS
<1>4. /\ rows' = [i \in DOMAIN R \ {t} |-> R[i]]
      /\ missions' = Remaining(rows', M, stacks[t].mission)
      /\ RecordCapture(id, t, n)
  BY <1>1, <1>2, <1>3
<1>5. n \in Nat
  BY CaptivesNat
<1>6. Fighting
  BY DEF Wipe
<1>7. id \in DOMAIN stacks /\ t \in DOMAIN stacks /\ stacks[t] \in Stack
  BY <1>6, Hitting
<1>8. Stationed(R, M, stacks[id].user, stacks[t].unit, n)
  BY <1>2, <1>3, <1>5, <1>7, MaybeCaptureTells
<1>9. captures \subseteq captures'
      /\ (n # 0 => \E c \in captures' : c.captor = stacks[id].user /\ c.unit = stacks[t].unit)
  BY <1>4, Recorded
<1>10. PICK k : k = stacks[t].final
  OBVIOUS
<1>11. k \in 0 .. stacks[t].final
  BY <1>7, <1>10 DEF Stack
<1>12. Struck(t, k)
       /\ \A i \in DOMAIN stacks : i \in Unload(t) \/ stacks'[i].carrier = stacks[i].carrier
  BY <1>10, WipeStrikes
<1>13. n # 0 => Took(captures', stacks[id].user, stacks[t].unit)
  BY <1>7, <1>9, <1>12 DEF Took, Struck
<1>14. PICK lost : lost = IF stacks[t].mission = Ours
                             \/ \E i \in DOMAIN rows' : rows'[i].mission = stacks[t].mission
                          THEN {} ELSE {stacks[t].mission}
  OBVIOUS
<1>15. missions' = [m \in DOMAIN M \ lost |-> M[m]]
  <2>1. M = [m \in DOMAIN M |-> M[m]]
    BY <1>8 DEF Stationed, MissionTable
  <2> QED
    BY <1>4, <1>14, <2>1 DEF Remaining
<1>16. /\ lost \subseteq {stacks[t].mission} \ {Ours}
       /\ \A i \in DOMAIN rows' : rows'[i].mission \notin lost
       /\ \A m \in DOMAIN missions' \ {Ours} :
             m = stacks[t].mission => \E i \in DOMAIN rows' : rows'[i].mission = m
  BY <1>14, <1>15
<1>17. /\ owner' = owner /\ formerly' = formerly /\ refused' = refused /\ triggers' = triggers
       /\ involved' = involved /\ order' = order /\ turn' = turn
       /\ gathered' = gathered /\ outcome' = outcome /\ pc' = pc /\ pc = "fighting"
       /\ detached' = detached \cup Unload(t)
  BY DEF Wipe, Fighting
<1>18. detached \subseteq detached' /\ detached' \subseteq DOMAIN stacks /\ Unload(t) \subseteq detached'
  BY <1>17 DEF Typed, Unload
<1>19. \A i \in DOMAIN stacks :
           stacks'[i].carrier = stacks[i].carrier \/ ({t} # {} /\ stacks[i].carrier = t)
  BY <1>12 DEF Unload
<1>20. Hit(id, t, k, {t}, lost, n, R, M)
  BY <1>4, <1>5, <1>7, <1>8, <1>9, <1>10, <1>11, <1>12, <1>13, <1>15, <1>16, <1>17, <1>18, <1>19
     DEF Hit
<1> QED
  BY SMTT(60), <1>10, <1>20
------------------------------------------------------------------------------
(* Rows and missions after a hit.                                          *)
LEMMA HitRows ==
    ASSUME Typed, NEW id, NEW t, NEW k, NEW gone, NEW lost, NEW n, NEW R, NEW M,
           Hit(id, t, k, gone, lost, n, R, M)
    PROVE  /\ RowTable(rows') /\ MissionTable(missions')
           /\ DOMAIN rows \ gone \subseteq DOMAIN rows'
           /\ DOMAIN missions \ lost \subseteq DOMAIN missions'
           /\ \A m \in DOMAIN missions' \cap DOMAIN missions : missions'[m] = missions[m]
           /\ \A i \in DOMAIN rows' : i \notin gone
           /\ \A i \in DOMAIN rows' \cap DOMAIN rows :
                 /\ SameRow(rows', i)
                 /\ \/ rows'[i].count = rows[i].count
                    \/ rows'[i].count > rows[i].count /\ Took(captures', rows'[i].user, rows'[i].unit)
           /\ \A i \in DOMAIN rows' \ DOMAIN rows :
                 /\ i \notin DOMAIN stacks /\ rows'[i].carrier = None
                 /\ Took(captures', rows'[i].user, rows'[i].unit)
                 /\ rows'[i].mission # None => Deployed(missions', rows'[i].mission, rows'[i].user)
           /\ \A m \in DOMAIN missions' \ DOMAIN missions : \E i \in DOMAIN rows' : rows'[i].mission = m
<1>1. Stationed(R, M, stacks[id].user, stacks[t].unit, n) /\ t \in DOMAIN stacks /\ gone \subseteq {t}
  BY DEF Hit
<1>2. rows' = [i \in DOMAIN R \ gone |-> R[i]] /\ missions' = [m \in DOMAIN M \ lost |-> M[m]]
  BY DEF Hit
<1>3. n # 0 => Took(captures', stacks[id].user, stacks[t].unit)
  BY DEF Hit
<1>4. id \in DOMAIN stacks /\ stacks'[id].user = stacks[id].user /\ stacks'[t].unit = stacks[t].unit
  BY <1>1 DEF Hit, Struck
<1>5. RowTable(rows')
  <2>1. IsFiniteSet(DOMAIN R)
    BY <1>1 DEF Stationed, RowTable
  <2>2. IsFiniteSet(DOMAIN R \ gone)
    BY <2>1, FS_Difference
  <2> QED
    BY <1>1, <1>2, <2>2 DEF Stationed, RowTable
<1>6. MissionTable(missions')
  <2>1. IsFiniteSet(DOMAIN M)
    BY <1>1 DEF Stationed, MissionTable
  <2>2. IsFiniteSet(DOMAIN M \ lost)
    BY <2>1, FS_Difference
  <2> QED
    BY <1>1, <1>2, <2>2 DEF Stationed, MissionTable
<1>7. \A m \in DOMAIN missions' \cap DOMAIN missions : missions'[m] = missions[m]
  BY <1>1, <1>2 DEF Stationed
<1>8. DOMAIN rows \ gone \subseteq DOMAIN rows' /\ DOMAIN missions \ lost \subseteq DOMAIN missions'
  BY <1>1, <1>2 DEF Stationed
<1>10. ASSUME NEW i \in DOMAIN rows' \cap DOMAIN rows
       PROVE  /\ SameRow(rows', i)
              /\ \/ rows'[i].count = rows[i].count
                 \/ rows'[i].count > rows[i].count /\ Took(captures', rows'[i].user, rows'[i].unit)
  <2>1. rows'[i] = R[i]
    BY <1>2, <1>10
  <2>2. SameRow(R, i) /\ (R[i].count = rows[i].count
            \/ (n # 0 /\ R[i].count > rows[i].count /\ R[i].user = stacks[id].user
                     /\ R[i].unit = stacks[t].unit))
    BY <1>1, <1>10 DEF Stationed
  <2>3. SameRow(rows', i)
    BY <2>1, <2>2 DEF SameRow
  <2>4. CASE R[i].count = rows[i].count
    BY <2>1, <2>3, <2>4
  <2>5. CASE n # 0 /\ R[i].count > rows[i].count /\ R[i].user = stacks[id].user
                   /\ R[i].unit = stacks[t].unit
    <3>1. \E c \in captures' : c.captor = stacks[id].user /\ c.unit = stacks[t].unit
      BY <1>3, <1>4, <2>5 DEF Took
    <3>2. Took(captures', rows'[i].user, rows'[i].unit)
      BY <2>1, <2>5, <3>1 DEF Took
    <3> QED
      BY <2>1, <2>3, <2>5, <3>2
  <2> QED
    BY <2>2, <2>4, <2>5
<1>11. ASSUME NEW i \in DOMAIN rows' \ DOMAIN rows
       PROVE  /\ i \notin DOMAIN stacks /\ rows'[i].carrier = None
              /\ Took(captures', rows'[i].user, rows'[i].unit)
              /\ rows'[i].mission # None => Deployed(missions', rows'[i].mission, rows'[i].user)
  <2>1. rows'[i] = R[i] /\ i \in DOMAIN R \ DOMAIN rows
    BY <1>2, <1>11
  <2>2. /\ n # 0 /\ i \notin DOMAIN stacks
        /\ R[i].user = stacks[id].user /\ R[i].unit = stacks[t].unit /\ R[i].carrier = None
        /\ R[i].mission # None => Deployed(M, R[i].mission, stacks[id].user)
    BY <1>1, <2>1 DEF Stationed
  <2>3. Took(captures', rows'[i].user, rows'[i].unit)
    <3>1. \E c \in captures' : c.captor = stacks[id].user /\ c.unit = stacks[t].unit
      BY <1>3, <1>4, <2>2 DEF Took
    <3> QED
      BY <2>1, <2>2, <3>1 DEF Took
  <2>4. rows'[i].mission \notin lost
    BY <1>11 DEF Hit
  <2>5. rows'[i].mission # None => Deployed(missions', rows'[i].mission, rows'[i].user)
    BY <1>2, <2>1, <2>2, <2>4 DEF Deployed
  <2> QED
    BY <2>1, <2>2, <2>3, <2>5
<1>12. ASSUME NEW m \in DOMAIN missions' \ DOMAIN missions
       PROVE  \E i \in DOMAIN rows' : rows'[i].mission = m
  <2>1. m \in DOMAIN M \ DOMAIN missions
    BY <1>2, <1>12
  <2>2. PICK i \in DOMAIN R \ DOMAIN rows : R[i].mission = m
    BY <1>1, <2>1 DEF Stationed
  <2>3. i \notin DOMAIN stacks
    BY <1>1, <2>2 DEF Stationed
  <2>4. i \in DOMAIN rows' /\ rows'[i] = R[i]
    BY <1>1, <1>2, <2>2, <2>3
  <2> QED
    BY <2>2, <2>4
<1>13. \A i \in DOMAIN rows' : i \notin gone
  BY <1>2
<1> QED
  BY <1>5, <1>6, <1>7, <1>8, <1>10, <1>11, <1>12, <1>13

(* The mission that fights keeps its rows, and only its rows.              *)
LEMMA HitMine ==
    ASSUME IInv, NEW id, NEW t, NEW k, NEW gone, NEW lost, NEW n, NEW R, NEW M,
           Hit(id, t, k, gone, lost, n, R, M)
    PROVE  Mine'
<1>1. Typed /\ Mine /\ Known /\ pc = "fighting" /\ pc' = "fighting"
  BY DEF IInv, Hit
<1>2. Ours \in DOMAIN missions' /\ missions'[Ours] = missions[Ours]
  <2>1. Ours \in DOMAIN missions \ lost
    BY <1>1 DEF Mine, Hit
  <2> QED
    BY <1>1, <2>1, HitRows
<1>3. ASSUME NEW i \in DOMAIN rows' PROVE rows'[i].mission = Ours <=> i \in DOMAIN involved
  <2>1. CASE i \in DOMAIN rows
    BY <1>1, <1>3, <2>1, HitRows DEF Mine, SameRow
  <2>2. CASE i \notin DOMAIN rows
    <3>1. /\ i \notin DOMAIN stacks
          /\ rows'[i].mission # None => Deployed(missions', rows'[i].mission, rows'[i].user)
      BY <1>1, <1>3, <2>2, HitRows
    <3>2. i \notin DOMAIN involved
      BY <1>1, <3>1 DEF Known, InFight
    <3>3. rows'[i].mission # Ours
      BY <1>1, <1>2, <3>1, ScenarioAssumption DEF Deployed, Mine, Fighter, Ours
    <3> QED
      BY <3>2, <3>3
  <2> QED
    BY <2>1, <2>2
<1>4. involved' = involved /\ formerly' = formerly /\ owner' = owner /\ outcome' = outcome
  BY DEF Hit
<1> QED
  BY <1>1, <1>2, <1>3, <1>4 DEF Mine

(* Rows stay on open missions of their user.                               *)
LEMMA HitUnderWay ==
    ASSUME IInv, NEW id, NEW t, NEW k, NEW gone, NEW lost, NEW n, NEW R, NEW M,
           Hit(id, t, k, gone, lost, n, R, M)
    PROVE  UnderWay'
<1>1. Typed /\ UnderWay /\ pc = "fighting"
  BY DEF IInv, Hit
<1>2. ASSUME NEW i \in DOMAIN rows', rows'[i].mission # None
      PROVE  /\ rows'[i].mission \in DOMAIN missions' /\ ~missions'[rows'[i].mission].resolved
             /\ missions'[rows'[i].mission].user = rows'[i].user
  <2>1. CASE i \in DOMAIN rows
    <3>1. rows'[i].mission = rows[i].mission /\ rows'[i].user = rows[i].user
      BY <1>1, <1>2, <2>1, HitRows DEF SameRow
    <3>2. rows'[i].mission \notin lost
      BY <1>2 DEF Hit
    <3>3. rows[i].mission \in DOMAIN missions /\ ~missions[rows[i].mission].resolved
          /\ missions[rows[i].mission].user = rows[i].user
      BY <1>1, <1>2, <2>1, <3>1 DEF UnderWay
    <3>4. rows[i].mission \in DOMAIN missions' /\ missions'[rows[i].mission] = missions[rows[i].mission]
      BY <1>1, <3>1, <3>2, <3>3, HitRows
    <3> QED
      BY <3>1, <3>3, <3>4
  <2>2. CASE i \notin DOMAIN rows
    BY <1>1, <1>2, <2>2, HitRows DEF Deployed
  <2> QED
    BY <2>1, <2>2
<1> QED
  BY <1>2 DEF UnderWay

(* A mission that loses its last row goes.                                 *)
LEMMA HitManned ==
    ASSUME IInv, NEW id, NEW t, NEW k, NEW gone, NEW lost, NEW n, NEW R, NEW M,
           Hit(id, t, k, gone, lost, n, R, M)
    PROVE  Manned'
<1>1. Typed /\ Manned /\ Known /\ pc = "fighting" /\ pc' = "fighting"
  BY DEF IInv, Hit
<1>2. ASSUME NEW m \in DOMAIN missions', m # Ours
      PROVE  missions'[m].resolved \/ \E i \in DOMAIN rows' : rows'[i].mission = m
  <2>1. CASE m \notin DOMAIN missions
    BY <1>1, <1>2, <2>1, HitRows
  <2>2. CASE m \in DOMAIN missions
    <3>1. missions'[m] = missions[m]
      BY <1>1, <1>2, <2>2, HitRows
    <3>2. SUFFICES ASSUME ~missions[m].resolved PROVE \E i \in DOMAIN rows' : rows'[i].mission = m
      BY <3>1
    <3>3. PICK i \in DOMAIN rows : rows[i].mission = m
      BY <1>1, <1>2, <2>2, <3>2 DEF Manned
    <3>4. CASE i \in DOMAIN rows'
      <4>1. rows'[i].mission = m
        BY <1>1, <3>3, <3>4, HitRows DEF SameRow
      <4> QED
        BY <3>4, <4>1
    <3>5. CASE i \notin DOMAIN rows'
      <4>1. i \in gone
        BY <1>1, <3>5, HitRows
      <4>2. i = t /\ t \in DOMAIN stacks /\ gone # {}
        BY <4>1 DEF Hit
      <4>3. stacks[t].mission = m
        BY <1>1, <3>3, <4>2 DEF Known, InFight
      <4> QED
        BY <1>2, <4>2, <4>3 DEF Hit
    <3> QED
      BY <3>4, <3>5
  <2> QED
    BY <2>1, <2>2
<1> QED
  BY <1>1, <1>2 DEF Manned

(* Cargo whose carrier is wiped out is detached.                           *)
LEMMA HitCargo ==
    ASSUME IInv, NEW id, NEW t, NEW k, NEW gone, NEW lost, NEW n, NEW R, NEW M,
           Hit(id, t, k, gone, lost, n, R, M)
    PROVE  Cargo'
<1>1. Typed /\ Cargo /\ Aware /\ UnderWay /\ pc = "fighting" /\ pc' = "fighting"
  BY DEF IInv, Hit
<1>2. detached \subseteq detached'
  BY DEF Hit
<1>3. ASSUME NEW i \in DOMAIN rows', rows'[i].carrier # None, i \notin detached'
      PROVE  Held(i)'
  <2>1. i \in DOMAIN rows
    BY <1>1, <1>3, HitRows
  <2>2. SameRow(rows', i)
    BY <1>1, <1>3, <2>1, HitRows
  <2>3. PICK c : c = rows[i].carrier
    OBVIOUS
  <2>4. Held(i) /\ c # None /\ rows'[i].carrier = c /\ rows'[i].mission = rows[i].mission
    BY <1>1, <1>2, <1>3, <2>1, <2>2, <2>3 DEF Cargo, SameRow
  <2>5. c \in DOMAIN rows /\ rows[c].mission = rows[i].mission
    BY <2>3, <2>4 DEF Held
  <2>6. c \in DOMAIN rows'
    <3>1. SUFFICES ASSUME c \in gone PROVE FALSE
      BY <1>1, <2>5, HitRows
    <3>2. c = t /\ t \in DOMAIN stacks /\ gone # {} /\ Unload(t) \subseteq detached'
      BY <3>1 DEF Hit
    <3>3. i \in DOMAIN stacks
      BY <1>1, <2>1, <2>3, <3>2 DEF Aware
    <3>4. stacks[i].carrier = t
      BY <1>1, <1>2, <1>3, <2>1, <2>3, <3>2, <3>3 DEF Aware
    <3> QED
      BY <1>3, <3>2, <3>3, <3>4 DEF Unload
  <2>7. rows'[c].mission = rows[c].mission
    BY <1>1, <2>5, <2>6, HitRows DEF SameRow
  <2>8. rows[i].mission # None => missions'[rows[i].mission].type # "DEPLOYED"
    <3>1. SUFFICES ASSUME rows[i].mission # None PROVE missions'[rows[i].mission].type # "DEPLOYED"
      OBVIOUS
    <3>2. rows[i].mission \in DOMAIN missions /\ missions[rows[i].mission].type # "DEPLOYED"
      BY <1>1, <2>1, <2>4, <3>1 DEF UnderWay, Held
    <3>3. rows[i].mission \notin lost
      BY <1>3, <2>4 DEF Hit
    <3> QED
      BY <1>1, <3>2, <3>3, HitRows
  <2> QED
    BY <2>4, <2>5, <2>6, <2>7, <2>8 DEF Held
<1> QED
  BY <1>1, <1>3 DEF Cargo

(* The stacks still know who is carried.                                   *)
LEMMA HitAware ==
    ASSUME IInv, NEW id, NEW t, NEW k, NEW gone, NEW lost, NEW n, NEW R, NEW M,
           Hit(id, t, k, gone, lost, n, R, M)
    PROVE  Aware'
<1>1. Typed /\ Aware /\ pc = "fighting" /\ pc' = "fighting" /\ detached \subseteq detached'
      /\ DOMAIN stacks' = DOMAIN stacks
  BY DEF IInv, Hit, Struck
<1>2. ASSUME NEW i \in DOMAIN stacks \cap DOMAIN rows', i \notin detached'
      PROVE  stacks'[i].carrier = rows'[i].carrier
  <2>1. i \in DOMAIN rows
    BY <1>1, <1>2, HitRows
  <2>2. rows'[i].carrier = rows[i].carrier
    BY <1>1, <1>2, <2>1, HitRows DEF SameRow
  <2>3. stacks[i].carrier = rows[i].carrier
    BY <1>1, <1>2, <2>1 DEF Aware
  <2>4. stacks'[i].carrier = stacks[i].carrier
    BY <1>2 DEF Hit, Unload
  <2> QED
    BY <2>2, <2>3, <2>4
<1>3. ASSUME NEW i \in DOMAIN rows' \ DOMAIN stacks
      PROVE  rows'[i].carrier \notin DOMAIN stacks
  <2>1. CASE i \in DOMAIN rows
    BY <1>1, <1>3, <2>1, HitRows DEF Aware, SameRow
  <2>2. CASE i \notin DOMAIN rows
    <3>1. rows'[i].carrier = None
      BY <1>1, <1>3, <2>2, HitRows
    <3> QED
      BY <1>1, <3>1, ScenarioAssumption DEF Typed, StackTable
  <2> QED
    BY <2>1, <2>2
<1> QED
  BY <1>1, <1>2, <1>3 DEF Aware

(* New rows are captured ones.                                             *)
LEMMA HitKnown ==
    ASSUME IInv, NEW id, NEW t, NEW k, NEW gone, NEW lost, NEW n, NEW R, NEW M,
           Hit(id, t, k, gone, lost, n, R, M)
    PROVE  Known'
<1>1. Typed /\ Known /\ UnderWay /\ pc = "fighting" /\ InFight /\ DOMAIN stacks' = DOMAIN stacks
  BY DEF IInv, Hit, Struck, InFight
<1>2. DOMAIN involved' \subseteq DOMAIN stacks'
  BY <1>1 DEF Known, Hit
<1>3. ASSUME NEW i \in DOMAIN stacks \cap DOMAIN rows'
      PROVE  /\ stacks'[i].user = rows'[i].user /\ stacks'[i].unit = rows'[i].unit
             /\ stacks'[i].mission = rows'[i].mission
  <2>1. i \in DOMAIN rows
    BY <1>1, <1>3, HitRows
  <2>2. SameRow(rows', i)
    BY <1>1, <1>3, <2>1, HitRows
  <2>3. /\ stacks[i].user = rows[i].user /\ stacks[i].unit = rows[i].unit
        /\ stacks[i].mission = rows[i].mission
    BY <1>1, <1>3, <2>1 DEF Known
  <2>4. /\ stacks'[i].user = stacks[i].user /\ stacks'[i].unit = stacks[i].unit
        /\ stacks'[i].mission = stacks[i].mission
    BY <1>3 DEF Hit, Struck
  <2> QED
    BY <2>2, <2>3, <2>4 DEF SameRow
<1>4. ASSUME NEW i \in DOMAIN stacks \ DOMAIN rows' PROVE stacks'[i].final = 0
  <2>1. Struck(t, k) /\ k \in 0 .. stacks[t].final /\ (gone # {} => k = stacks[t].final)
        /\ gone \subseteq {t} /\ t \in DOMAIN stacks
    BY DEF Hit
  <2>2. stacks[t].final \in Nat
    BY <1>1, <2>1 DEF Typed, StackTable, Stack
  <2>3. i \notin DOMAIN rows \/ (i = t /\ gone # {})
    BY <1>1, <1>4, <2>1, HitRows
  <2>4. i \notin DOMAIN rows => stacks[i].final = 0
    BY <1>1, <1>4 DEF Known
  <2> QED
    BY <1>4, <2>1, <2>2, <2>3, <2>4 DEF Struck
<1>5. ASSUME NEW i \in DOMAIN rows' \ DOMAIN stacks
      PROVE  \/ Took(captures', rows'[i].user, rows'[i].unit)
             \/ rows'[i].mission # None /\ missions'[rows'[i].mission].type # "DEPLOYED"
  <2>1. CASE i \notin DOMAIN rows
    BY <1>1, <1>5, <2>1, HitRows
  <2>2. CASE i \in DOMAIN rows
    <3>1. SameRow(rows', i)
      BY <1>1, <1>5, <2>2, HitRows
    <3>2. CASE Took(captures, rows[i].user, rows[i].unit)
      <4>1. captures \subseteq captures'
        BY DEF Hit
      <4> QED
        BY <3>1, <3>2, <4>1 DEF Took, SameRow
    <3>3. CASE rows[i].mission # None /\ missions[rows[i].mission].type # "DEPLOYED"
      <4>1. rows'[i].mission = rows[i].mission /\ rows'[i].mission \notin lost
        BY <1>5, <3>1 DEF Hit, SameRow
      <4>2. rows[i].mission \in DOMAIN missions
        BY <1>1, <2>2, <3>3 DEF UnderWay
      <4>3. missions'[rows[i].mission] = missions[rows[i].mission]
        BY <1>1, <4>1, <4>2, HitRows
      <4> QED
        BY <3>3, <4>1, <4>3
    <3> QED
      BY <1>1, <1>5, <2>2, <3>2, <3>3 DEF Known
  <2> QED
    BY <2>1, <2>2
<1> QED
  BY <1>1, <1>2, <1>3, <1>4, <1>5 DEF Known

(* A row grows by captives only.                                           *)
LEMMA HitCounts ==
    ASSUME IInv, NEW id, NEW t, NEW k, NEW gone, NEW lost, NEW n, NEW R, NEW M,
           Hit(id, t, k, gone, lost, n, R, M)
    PROVE  Counts'
<1>1. Typed /\ Counts /\ pc = "fighting" /\ pc' = "fighting" /\ DOMAIN stacks' = DOMAIN stacks
  BY DEF IInv, Hit, Struck
<1>2. ASSUME NEW i \in DOMAIN stacks \cap DOMAIN rows'
      PROVE  CountsAs(i, stacks[i].initial)' /\ stacks'[i].initial = stacks[i].initial
  <2>1. i \in DOMAIN rows
    BY <1>1, <1>2, HitRows
  <2>2. /\ SameRow(rows', i)
        /\ \/ rows'[i].count = rows[i].count
           \/ rows'[i].count > rows[i].count /\ Took(captures', rows'[i].user, rows'[i].unit)
    BY <1>1, <1>2, <2>1, HitRows
  <2>3. rows'[i].count \in Int /\ rows[i].count \in Int /\ stacks[i].initial \in Int
    <3>1. RowTable(rows') /\ RowTable(rows) /\ StackTable(stacks)
      BY <1>1, HitRows DEF Typed
    <3>2. rows'[i] \in Row /\ rows[i] \in Row /\ stacks[i] \in Stack
      BY <1>2, <2>1, <3>1 DEF RowTable, StackTable
    <3> QED
      BY <3>2 DEF Row, Stack
  <2>4. CountsAs(i, stacks[i].initial)
    BY <1>1, <1>2, <2>1 DEF Counts
  <2>5. stacks'[i].initial = stacks[i].initial
    BY <1>2 DEF Hit, Struck
  <2>6. Took(captures, rows[i].user, rows[i].unit) => Took(captures', rows'[i].user, rows'[i].unit)
    <3>1. captures \subseteq captures'
      BY DEF Hit
    <3> QED
      BY <2>2, <3>1 DEF Took, SameRow
  <2> QED
    BY <2>2, <2>3, <2>4, <2>5, <2>6 DEF CountsAs
<1> QED
  BY <1>1, <1>2 DEF Counts
(* A wound that is weaker than the stack leaves units, as many as its      *)
(* strength is worth.                                                      *)
LEMMA WoundWorth ==
    ASSUME NEW s \in Stack, s.final <= s.initial, NEW k \in 0 .. s.final, NEW strength \in Nat,
           NEW bypass \in BOOLEAN,
           k * (s.totalHealth + s.totalShield) <= strength * s.initial,
           Remains(s) * s.initial <= s.final * (s.totalHealth + s.totalShield),
           s.health + (IF bypass THEN 0 ELSE s.shield) > strength,
           NEW e, e = Wounded([s EXCEPT !.final = @ - k], strength, bypass)
    PROVE  /\ k < s.final
           /\ Remains(e) * s.initial <= (s.final - k) * (s.totalHealth + s.totalShield)
<1>1. s.final \in Nat /\ s.initial \in Nat \ {0} /\ s.health \in Int /\ s.shield \in Int
      /\ s.totalHealth \in Nat \ {0} /\ s.totalShield \in Nat /\ k \in Nat
  BY DEF Stack
<1>2. PICK whole : whole = s.totalHealth + s.totalShield
  OBVIOUS
<1>3. PICK rem : rem = Remains(s)
  OBVIOUS
<1>4. PICK left : left = Remains(e)
  OBVIOUS
<1>5. whole \in Nat \ {0} /\ rem \in Int /\ rem > strength
  BY <1>1, <1>2, <1>3 DEF Remains
<1>6. left \in Int /\ left <= rem - strength
  <2>1. PICK half : half = strength \div 2
    OBVIOUS
  <2>2. half \in Nat
    BY <2>1
  <2>3. PICK shield : shield = IF bypass THEN s.shield ELSE s.shield - half
    OBVIOUS
  <2>4. PICK health : health = s.health - (IF bypass THEN strength ELSE strength - half)
    OBVIOUS
  <2>5. PICK rest : rest = IF shield < 0 THEN health + shield ELSE health
    OBVIOUS
  <2>6. PICK d : d = [s EXCEPT !.final = @ - k]
    OBVIOUS
  <2>7. d.shield = s.shield /\ d.health = s.health /\ DOMAIN d = DOMAIN s
        /\ {"shield", "health"} \subseteq DOMAIN s
    BY <2>6 DEF Stack
  <2>8. e = [d EXCEPT !.shield = shield, !.health = rest]
    BY <2>1, <2>3, <2>4, <2>5, <2>6, <2>7 DEF Wounded
  <2>9. e.shield = shield /\ e.health = rest
    BY <2>7, <2>8
  <2>10. left = rest + (IF shield > 0 THEN shield ELSE 0)
    BY <1>4, <2>9 DEF Remains
  <2>11. rem = s.health + (IF s.shield > 0 THEN s.shield ELSE 0)
    BY <1>3 DEF Remains
  <2> QED
    BY <1>1, <2>2, <2>3, <2>4, <2>5, <2>10, <2>11
<1>7. PICK worth : worth = strength * s.initial
  OBVIOUS
<1>8. PICK has : has = rem * s.initial
  OBVIOUS
<1>9. PICK all : all = s.final * whole
  OBVIOUS
<1>10. PICK dead : dead = k * whole
  OBVIOUS
<1>11. PICK rest : rest = left * s.initial
  OBVIOUS
<1>12. worth \in Int /\ has \in Int /\ all \in Int /\ dead \in Int /\ rest \in Int
  BY <1>1, <1>5, <1>6, <1>7, <1>8, <1>9, <1>10, <1>11
<1>13. dead <= worth /\ has <= all
  BY <1>2, <1>3, <1>7, <1>8, <1>9, <1>10
<1>14. worth < has
  <2>1. PICK more : more = rem - strength
    OBVIOUS
  <2>2. more \in Nat \ {0}
    BY <1>5, <2>1
  <2>3. more * s.initial = has - worth
    BY <1>1, <1>5, <1>7, <1>8, <2>1, Difference
  <2>4. more * s.initial > 0
    BY ONLY <1>1, <2>2
  <2> QED
    BY <1>12, <2>3, <2>4
<1>15. k < s.final
  <2>1. SUFFICES ASSUME s.final <= k PROVE FALSE
    BY <1>1
  <2>2. all <= dead
    BY <1>1, <1>5, <1>9, <1>10, <2>1, SmallerFactor
  <2> QED
    BY <1>12, <1>13, <1>14, <2>2
<1>16. rest <= (rem - strength) * s.initial
  <2>1. rem - strength \in Int
    BY <1>5
  <2> QED
    BY <1>1, <1>6, <1>11, <2>1, SmallerFactor
<1>17. (rem - strength) * s.initial = has - worth
  BY <1>1, <1>5, <1>7, <1>8, Difference
<1>18. (s.final - k) * whole = all - dead
  BY <1>1, <1>5, <1>9, <1>10, Difference
<1>19. rest <= all - dead
  BY <1>12, <1>13, <1>16, <1>17
<1> QED
  BY <1>2, <1>4, <1>11, <1>15, <1>18, <1>19

(* A stack is worn as much as it lost, as long as nothing bypasses shields.*)
LEMMA HitWorn ==
    ASSUME IInv, NEW id, NEW t, NEW k, NEW gone, NEW lost, NEW n, NEW R, NEW M,
           Hit(id, t, k, gone, lost, n, R, M),
           Plain /\ gone = {} => /\ k < stacks[t].final
                                 /\ Remains(stacks'[t]) * stacks[t].initial
                                      <= (stacks[t].final - k)
                                           * (stacks[t].totalHealth + stacks[t].totalShield)
    PROVE  Worn'
<1>1. Typed /\ Worn /\ pc = "fighting" /\ pc' = "fighting" /\ Struck(t, k) /\ t \in DOMAIN stacks
      /\ DOMAIN stacks' = DOMAIN stacks
  BY DEF IInv, Hit, Struck
<1>2. SUFFICES ASSUME Plain' PROVE
          \A i \in DOMAIN stacks :
              /\ stacks'[i].final = 0 => i \notin DOMAIN rows'
              /\ stacks'[i].final # 0 =>
                    Remains(stacks'[i]) * stacks'[i].initial
                        <= stacks'[i].final * (stacks'[i].totalHealth + stacks'[i].totalShield)
  BY <1>1 DEF Worn
<1>3. Plain
  BY <1>1, <1>2 DEF Plain, Struck
<1>4. ASSUME NEW i \in DOMAIN stacks, i # t
      PROVE  /\ stacks'[i].final = 0 => i \notin DOMAIN rows'
             /\ stacks'[i].final # 0 =>
                    Remains(stacks'[i]) * stacks'[i].initial
                        <= stacks'[i].final * (stacks'[i].totalHealth + stacks'[i].totalShield)
  <2>1. /\ stacks'[i].final = stacks[i].final /\ stacks'[i].initial = stacks[i].initial
        /\ stacks'[i].totalHealth = stacks[i].totalHealth
        /\ stacks'[i].totalShield = stacks[i].totalShield
        /\ Remains(stacks'[i]) = Remains(stacks[i])
    BY <1>1, <1>4 DEF Struck, Remains
  <2>2. /\ stacks[i].final = 0 => i \notin DOMAIN rows
        /\ stacks[i].final # 0 =>
               Remains(stacks[i]) * stacks[i].initial
                   <= stacks[i].final * (stacks[i].totalHealth + stacks[i].totalShield)
    BY <1>1, <1>3, <1>4 DEF Worn, InFight
  <2>3. i \notin DOMAIN rows => i \notin DOMAIN rows'
    BY <1>1, <1>4, HitRows
  <2> QED
    BY <2>1, <2>2, <2>3
<1>5. stacks[t].final \in Nat /\ k \in 0 .. stacks[t].final
      /\ (gone # {} => k = stacks[t].final) /\ gone \subseteq {t}
  BY <1>1 DEF Hit, Typed, StackTable, Stack
<1>6. stacks'[t].final = stacks[t].final - k /\ stacks'[t].initial = stacks[t].initial
      /\ stacks'[t].totalHealth = stacks[t].totalHealth
      /\ stacks'[t].totalShield = stacks[t].totalShield
  BY <1>1 DEF Struck
<1>7. CASE gone = {}
  <2>1. stacks'[t].final # 0
    BY <1>3, <1>5, <1>6, <1>7
  <2> QED
    BY <1>3, <1>4, <1>6, <1>7, <2>1
<1>8. CASE gone # {}
  <2>1. stacks'[t].final = 0
    BY <1>5, <1>6, <1>8
  <2>2. t \notin DOMAIN rows'
    BY <1>1, <1>5, <1>8, HitRows
  <2> QED
    BY <1>4, <2>1, <2>2
<1> QED
  BY <1>7, <1>8
------------------------------------------------------------------------------
(* The steps of the fight.                                                 *)

(* All but who is hit next follows from the hit.                           *)
LEMMA HitKeeps ==
    ASSUME IInv, NEW id, NEW t, NEW k, NEW gone, NEW lost, NEW n, NEW R, NEW M,
           Hit(id, t, k, gone, lost, n, R, M),
           Plain /\ gone = {} => /\ k < stacks[t].final
                                 /\ Remains(stacks'[t]) * stacks[t].initial
                                      <= (stacks[t].final - k)
                                           * (stacks[t].totalHealth + stacks[t].totalShield),
           AreEnemies(stacks[id].user, stacks[t].user), CanAttack(stacks[id].unit, stacks[t].unit),
           NEW paid \in 0 .. k,
           points' = [points EXCEPT ![stacks[id].user] = @ + paid * Stats[stacks[t].unit].points],
           targets' \in Seq(DOMAIN stacks'), targets' # <<>> => turn # 0, Aimed'
    PROVE  IInv'
<1>1. /\ Mine' /\ UnderWay' /\ Manned' /\ Cargo' /\ Aware' /\ Known' /\ Counts' /\ Worn'
  BY HitMine, HitUnderWay, HitManned, HitCargo, HitAware, HitKnown, HitCounts, HitWorn
<1>2. Typed /\ LossesHaveEnemies /\ Struck(t, k) /\ id \in DOMAIN stacks /\ t \in DOMAIN stacks
      /\ k \in 0 .. stacks[t].final
  BY DEF IInv, Hit
<1>3. LossesHaveEnemies' /\ points' \in [User -> Nat]
  BY <1>2, PaidFor
<1>4. RowTable(rows') /\ MissionTable(missions')
  BY <1>2, HitRows
<1>5. StackTable(stacks') /\ DOMAIN stacks' = DOMAIN stacks
  BY <1>2 DEF Struck
<1>6. Typed'
  BY <1>2, <1>3, <1>4, <1>5 DEF Typed, Hit
<1>7. Settled' /\ Fresh'
  BY DEF Settled, Fresh, Hit
<1> QED
  BY <1>1, <1>3, <1>6, <1>7 DEF IInv

(* A wound.                                                                *)
LEMMA WoundStep == ASSUME IInv, Wound PROVE IInv'
<1>1. PICK id : id = order[turn]
  OBVIOUS
<1>2. PICK t : t = Head(targets)
  OBVIOUS
<1>3. PICK strength : strength = Strength(id, t)
  OBVIOUS
<1>4. PICK k : k = Killed(id, t, strength)
  OBVIOUS
<1>5. Typed /\ Aimed /\ Worn /\ Fighting
  BY DEF IInv, Wound
<1>6. /\ id \in DOMAIN stacks /\ t \in DOMAIN stacks
      /\ AreEnemies(stacks[id].user, stacks[t].user) /\ CanAttack(stacks[id].unit, stacks[t].unit)
      /\ stacks[t] \in Stack /\ stacks[t].final <= stacks[t].initial
      /\ strength \in Nat /\ k \in 0 .. stacks[t].final
  BY <1>1, <1>2, <1>3, <1>4, <1>5, Hitting
<1>7. PICK n, R, M : Hit(id, t, k, {}, {}, n, R, M)
  BY <1>1, <1>2, <1>3, <1>4, <1>5, WoundHits
<1>8. PICK bypass : bypass = Bypasses(id, t)
  OBVIOUS
<1>9. stacks'[t] = Wounded([stacks[t] EXCEPT !.final = @ - k], strength, bypass)
  BY <1>1, <1>2, <1>3, <1>4, <1>5, <1>8, WoundStrikes
<1>10. Plain => /\ k < stacks[t].final
                /\ Remains(stacks'[t]) * stacks[t].initial
                      <= (stacks[t].final - k) * (stacks[t].totalHealth + stacks[t].totalShield)
  <2>1. SUFFICES ASSUME Plain
                 PROVE  /\ k < stacks[t].final
                        /\ Remains(stacks'[t]) * stacks[t].initial
                             <= (stacks[t].final - k) * (stacks[t].totalHealth + stacks[t].totalShield)
    OBVIOUS
  <2>2. k * (stacks[t].totalHealth + stacks[t].totalShield) <= strength * stacks[t].initial
    BY <1>4, <1>5, <1>6, <2>1, KilledWorth DEF Plain
  <2>3. stacks[t].final # 0
    BY <1>2 DEF Wound
  <2>4. Remains(stacks[t]) * stacks[t].initial
            <= stacks[t].final * (stacks[t].totalHealth + stacks[t].totalShield)
    BY <1>5, <1>6, <2>1, <2>3 DEF Worn, Fighting
  <2>5. stacks[t].health + (IF bypass THEN 0 ELSE stacks[t].shield) > strength
    <3>1. Resistance(id, t) > strength
      BY <1>1, <1>2, <1>3 DEF Wound
    <3> QED
      BY <1>8, <3>1 DEF Resistance
  <2>6. bypass \in BOOLEAN
    BY <1>8 DEF Bypasses, BypassShields, ExistsRuleMatchingUnitDestination
  <2> QED
    BY <1>6, <1>9, <2>2, <2>4, <2>5, <2>6, WoundWorth
<1>11. points' = [points EXCEPT ![stacks[id].user] = @ + k * Stats[stacks[t].unit].points]
  BY <1>1, <1>2, <1>3, <1>4 DEF Wound, AddPoints
<1>12. targets' = <<>>
  BY DEF Wound
<1>13. targets' \in Seq(DOMAIN stacks') /\ Aimed'
  BY <1>12 DEF Aimed
<1>14. k \in 0 .. k
  BY <1>6
<1> QED
  BY <1>6, <1>7, <1>10, <1>11, <1>12, <1>13, <1>14, HitKeeps

(* A wipe.                                                                 *)
LEMMA WipeStep == ASSUME IInv, Wipe PROVE IInv'
<1>1. PICK id : id = order[turn]
  OBVIOUS
<1>2. PICK t : t = Head(targets)
  OBVIOUS
<1>3. PICK paid : paid = Killed(id, t, Strength(id, t))
  OBVIOUS
<1>4. PICK k : k = stacks[t].final
  OBVIOUS
<1>5. Typed /\ Aimed /\ Fighting
  BY DEF IInv, Wipe
<1>6. /\ id \in DOMAIN stacks /\ t \in DOMAIN stacks
      /\ AreEnemies(stacks[id].user, stacks[t].user) /\ CanAttack(stacks[id].unit, stacks[t].unit)
      /\ paid \in 0 .. k
  BY <1>1, <1>2, <1>3, <1>4, <1>5, Hitting
<1>7. PICK lost, n, R, M : Hit(id, t, k, {t}, lost, n, R, M)
  BY SMTT(60), <1>1, <1>2, <1>4, <1>5, WipeHits
<1>8. points' = [points EXCEPT ![stacks[id].user] = @ + paid * Stats[stacks[t].unit].points]
  BY <1>1, <1>2, <1>3 DEF Wipe, AddPoints
<1>9. targets' = Tail(targets) /\ targets # <<>> /\ targets \in Seq(DOMAIN stacks)
  BY <1>5 DEF Wipe, Typed, Fighting
<1>10. targets' \in Seq(DOMAIN stacks) /\ \A j \in DOMAIN targets' : j + 1 \in DOMAIN targets
           /\ targets'[j] = targets[j + 1]
  BY <1>9
<1>11. DOMAIN stacks' = DOMAIN stacks /\ turn' = turn /\ order' = order
       /\ \A i \in DOMAIN stacks : stacks'[i].user = stacks[i].user /\ stacks'[i].unit = stacks[i].unit
  BY <1>7 DEF Hit, Struck
<1>12. Aimed'
  <2>1. \A j \in DOMAIN targets' :
            /\ AreEnemies(stacks[id].user, stacks[targets'[j]].user)
            /\ CanAttack(stacks[id].unit, stacks[targets'[j]].unit)
    BY <1>1, <1>5, <1>10 DEF Aimed
  <2>2. \A j \in DOMAIN targets' : targets'[j] \in DOMAIN stacks
    BY <1>10
  <2> QED
    BY <1>1, <1>6, <1>11, <2>1, <2>2 DEF Aimed
<1>13. turn # 0
  BY <1>9 DEF IInv, Typed
<1> QED
  BY <1>6, <1>7, <1>8, <1>10, <1>11, <1>12, <1>13, HitKeeps
------------------------------------------------------------------------------
(* A stack passes its turn, or finds its target dead.                      *)
LEMMA FightGoesOn ==
    ASSUME IInv, pc = "fighting", Typed', Aimed',
           UNCHANGED <<rows, missions, owner, formerly, involved, stacks, points, detached,
                       captures, outcome, pc>>
    PROVE  IInv'
<1>1. Mine' /\ UnderWay' /\ Manned' /\ Cargo' /\ Aware'
  BY DEF IInv, Mine, UnderWay, Manned, Cargo, Held, Aware
<1>2. Known' /\ Counts' /\ Worn'
  BY DEF IInv, Known, InFight, Counts, CountsAs, Worn, Plain
<1>3. Paid(stacks', points')
  BY PaidIsLosses DEF IInv
<1>4. LossesHaveEnemies'
  BY <1>3, PaidIsLossesNext
<1>5. Fresh' /\ Settled'
  BY DEF Fresh, Settled
<1> QED
  BY <1>1, <1>2, <1>4, <1>5 DEF IInv

(* A stack that is dead already is not hit again.                          *)
LEMMA SkipStep == ASSUME IInv, Skip PROVE IInv'
<1>1. Typed /\ Aimed /\ pc = "fighting" /\ targets # <<>> /\ targets' = Tail(targets)
  BY DEF IInv, Skip, Fighting
<1>2. UNCHANGED <<rows, missions, owner, formerly, refused, triggers, involved, stacks, order, turn,
                  points, detached, captures, gathered, outcome, pc>>
  BY DEF Skip
<1>3. targets \in Seq(DOMAIN stacks)
  BY <1>1 DEF Typed
<1>4. targets' \in Seq(DOMAIN stacks)
      /\ \A j \in DOMAIN targets' : j + 1 \in DOMAIN targets /\ targets'[j] = targets[j + 1]
  BY <1>1, <1>3
<1>5. Aimed'
  BY <1>1, <1>2, <1>4 DEF Aimed
<1>6. turn # 0
  BY <1>1 DEF Typed
<1>7. Typed'
  BY <1>1, <1>2, <1>4, <1>6 DEF Typed
<1> QED
  BY <1>1, <1>2, <1>5, <1>7, FightGoesOn

(* A set as a sequence.                                                    *)
LEMMA SequenceOf ==
    ASSUME NEW S, IsFiniteSet(S), NEW q \in SetToSeqs(S)
    PROVE  q \in Seq(S)
<1>1. Cardinality(S) \in Nat
  BY FS_CardinalityType
<1>2. q \in [1 .. Cardinality(S) -> S]
  BY DEF SetToSeqs
<1> QED
  BY <1>1, <1>2

(* Whom a stack may hit.                                                   *)
LEMMA TargetsTell ==
    ASSUME Typed, NEW id, NEW q \in Targets(id)
    PROVE  /\ q \in Seq(DOMAIN stacks)
           /\ \A j \in DOMAIN q : /\ AreEnemies(stacks[id].user, stacks[q[j]].user)
                                  /\ CanAttack(stacks[id].unit, stacks[q[j]].unit)
<1>1. PICK hit : hit = {i \in DOMAIN order : AreEnemies(stacks[id].user, stacks[order[i]].user)
                                         /\ CanAttack(stacks[id].unit, stacks[order[i]].unit)}
  OBVIOUS
<1>2. PICK p \in SetToSeqs(hit) : q = [j \in DOMAIN p |-> order[p[j]]]
  BY <1>1 DEF Targets
<1>3. order \in Seq(DOMAIN stacks)
  BY DEF Typed
<1>4. IsFiniteSet(hit)
  <2>1. IsFiniteSet(1 .. Len(order))
    BY <1>3, FS_Interval
  <2>2. hit \subseteq 1 .. Len(order)
    BY <1>1, <1>3
  <2> QED
    BY <2>1, <2>2, FS_Subset
<1>5. p \in Seq(hit)
  BY <1>2, <1>4, SequenceOf
<1>6. \A j \in DOMAIN p : p[j] \in hit
  BY <1>5
<1>7. \A j \in DOMAIN p : order[p[j]] \in DOMAIN stacks
  BY <1>1, <1>3, <1>6
<1>8. q \in Seq(DOMAIN stacks) /\ DOMAIN q = DOMAIN p /\ \A j \in DOMAIN q : q[j] = order[p[j]]
  <2>1. q \in [1 .. Len(p) -> DOMAIN stacks] /\ Len(p) \in Nat /\ DOMAIN p = 1 .. Len(p)
    BY <1>2, <1>5, <1>7
  <2> QED
    BY <1>2, <2>1
<1> QED
  BY <1>1, <1>6, <1>8

(* The next stack.                                                         *)
LEMMA NextTurnStep == ASSUME IInv, NextTurn PROVE IInv'
<1>1. Typed /\ pc = "fighting" /\ turn < Len(order) /\ turn' = turn + 1
      /\ targets' \in Targets(order[turn + 1])
  BY DEF IInv, NextTurn
<1>2. UNCHANGED <<rows, missions, owner, formerly, refused, triggers, involved, stacks, order,
                  points, detached, captures, gathered, outcome, pc>>
  BY DEF NextTurn
<1>3. /\ targets' \in Seq(DOMAIN stacks)
      /\ \A j \in DOMAIN targets' :
            /\ AreEnemies(stacks[order[turn']].user, stacks[targets'[j]].user)
            /\ CanAttack(stacks[order[turn']].unit, stacks[targets'[j]].unit)
  BY <1>1, TargetsTell
<1>4. Aimed'
  BY <1>2, <1>3 DEF Aimed
<1>5. turn' \in 0 .. Len(order) /\ turn' # 0
  BY <1>1 DEF Typed
<1>6. Typed'
  BY <1>1, <1>2, <1>3, <1>5 DEF Typed
<1> QED
  BY <1>1, <1>2, <1>4, <1>6, FightGoesOn
------------------------------------------------------------------------------
(* The losses are written to the rows.                                     *)
LEMMA UpdatePointsStep == ASSUME IInv, UpdatePoints PROVE IInv'
<1>1. /\ Typed /\ Mine /\ UnderWay /\ Manned /\ Cargo /\ Known /\ Counts /\ Worn
      /\ pc = "fighting" /\ pc' = "counted" /\ targets = <<>>
  BY DEF IInv, UpdatePoints
<1>2. UNCHANGED <<missions, owner, formerly, refused, triggers, involved, stacks, order, turn,
                  targets, points, detached, captures, gathered, outcome>>
  BY DEF UpdatePoints, battle
<1>3. rows' = [i \in DOMAIN rows |->
                  IF i \notin DOMAIN stacks THEN rows[i]
                  ELSE [rows[i] EXCEPT
                          !.count = IF stacks[i].final = 0 THEN rows[i].count
                                    ELSE rows[i].count - (stacks[i].initial - stacks[i].final),
                          !.carrier = IF i \in detached THEN None ELSE rows[i].carrier]]
  BY DEF UpdatePoints
<1>4. RowTable(rows) /\ StackTable(stacks) /\ detached \subseteq DOMAIN stacks
  BY <1>1 DEF Typed
<1>5. ASSUME NEW i \in DOMAIN rows
      PROVE  /\ rows'[i] \in Row
             /\ rows'[i].user = rows[i].user /\ rows'[i].unit = rows[i].unit
             /\ rows'[i].mission = rows[i].mission
             /\ rows'[i].carrier = IF i \in detached THEN None ELSE rows[i].carrier
             /\ i \in DOMAIN stacks => stacks[i].final = 0 \/ CountsAs(i, stacks[i].final)'
  <2>1. CASE i \notin DOMAIN stacks
    BY <1>3, <1>4, <1>5, <2>1 DEF RowTable
  <2>2. CASE i \in DOMAIN stacks
    <3>1. PICK r : r = rows[i]
      OBVIOUS
    <3>2. PICK s : s = stacks[i]
      OBVIOUS
    <3>3. PICK c : c = IF s.final = 0 THEN r.count ELSE r.count - (s.initial - s.final)
      OBVIOUS
    <3>4. PICK h : h = IF i \in detached THEN None ELSE r.carrier
      OBVIOUS
    <3>5. rows'[i] = [r EXCEPT !.count = c, !.carrier = h]
      BY <1>3, <1>5, <2>2, <3>1, <3>2, <3>3, <3>4
    <3>6. r \in Row /\ s.final \in Nat /\ s.initial \in Nat /\ s.final <= s.initial
      BY <1>4, <1>5, <2>2, <3>1, <3>2 DEF RowTable, StackTable, Stack
    <3>7. r.count = s.initial \/ (Took(captures, r.user, r.unit) /\ r.count > s.initial)
      BY <1>1, <1>5, <2>2, <3>1, <3>2 DEF Counts, CountsAs
    <3>8. r.count \in Nat \ {0} /\ r.carrier \in Nat \cup {None}
      BY <3>6 DEF Row
    <3>9. /\ c \in Nat \ {0}
          /\ s.final = 0 \/ c = s.final \/ (Took(captures, r.user, r.unit) /\ c > s.final)
      BY <3>3, <3>6, <3>7, <3>8
    <3>10. /\ rows'[i] \in Row /\ rows'[i].user = r.user /\ rows'[i].unit = r.unit
           /\ rows'[i].mission = r.mission /\ rows'[i].carrier = h /\ rows'[i].count = c
      BY <3>4, <3>5, <3>6, <3>8, <3>9 DEF Row
    <3> QED
      BY <1>2, <3>1, <3>2, <3>4, <3>9, <3>10 DEF CountsAs
  <2> QED
    BY <2>1, <2>2
<1>6. DOMAIN rows' = DOMAIN rows /\ rows' = [i \in DOMAIN rows' |-> rows'[i]]
  BY <1>3
<1>7. RowTable(rows')
  BY <1>4, <1>5, <1>6 DEF RowTable
<1>8. Typed' /\ Aimed'
  BY <1>1, <1>2, <1>7 DEF Typed, Aimed
<1>9. Mine' /\ UnderWay' /\ Manned'
  BY <1>1, <1>2, <1>5, <1>6 DEF Mine, UnderWay, Manned
<1>10. Cargo' /\ Aware'
  <2>1. ASSUME NEW i \in DOMAIN rows, rows'[i].carrier # None PROVE Held(i)'
    <3>1. rows'[i].carrier = rows[i].carrier /\ i \notin detached
      BY <1>5, <2>1
    <3>2. Held(i)
      BY <1>1, <2>1, <3>1 DEF Cargo
    <3> QED
      BY <1>2, <1>5, <1>6, <2>1, <3>1, <3>2 DEF Held
  <2> QED
    BY <1>1, <1>6, <2>1 DEF Cargo, Aware
<1>11. Known'
  BY <1>1, <1>2, <1>5, <1>6 DEF Known, InFight
<1>12. Counts'
  BY <1>1, <1>2, <1>5, <1>6 DEF Counts, CountsAs
<1>13. Worn'
  BY <1>1, <1>2, <1>6 DEF Worn, InFight, Plain
<1>14. LossesHaveEnemies'
  <2>1. Paid(stacks', points')
    BY <1>2, PaidIsLosses DEF IInv
  <2> QED
    BY <2>1, PaidIsLossesNext
<1>15. Fresh' /\ Settled'
  BY <1>1 DEF Fresh, Settled
<1> QED
  BY <1>8, <1>9, <1>10, <1>11, <1>12, <1>13, <1>14, <1>15 DEF IInv

(* The requirements are re-evaluated.                                      *)
LEMMA TriggerStep == ASSUME IInv, TriggerUnitRequirementChanges PROVE IInv'
<1>1. /\ Typed /\ Aimed /\ Mine /\ UnderWay /\ Manned /\ Cargo /\ Known /\ Counts /\ Worn
      /\ pc = "counted" /\ pc' = "reported"
  BY DEF IInv, TriggerUnitRequirementChanges
<1>2. UNCHANGED <<rows, missions, owner, formerly, refused, triggers, involved, stacks, order, turn,
                  targets, points, detached, captures, gathered, outcome>>
  BY DEF TriggerUnitRequirementChanges, battle
<1>3. Typed' /\ Aimed' /\ Mine' /\ UnderWay' /\ Manned'
  BY <1>1, <1>2 DEF Typed, Aimed, Mine, UnderWay, Manned
<1>4. Cargo' /\ Aware' /\ Known' /\ Counts' /\ Worn'
  BY <1>1, <1>2 DEF Cargo, Held, Aware, Known, InFight, Counts, CountsAs, Worn, Plain
<1>5. LossesHaveEnemies'
  <2>1. Paid(stacks', points')
    BY <1>2, PaidIsLosses DEF IInv
  <2> QED
    BY <2>1, PaidIsLossesNext
<1>6. Fresh' /\ Settled'
  BY <1>1 DEF Fresh, Settled
<1> QED
  BY <1>3, <1>4, <1>5, <1>6 DEF IInv

(* Nobody has lost anything, and nobody has won points.                    *)
LEMMA NothingPaid ==
    ASSUME NEW S, StackTable(S), \A i \in DOMAIN S : S[i].final = S[i].initial
    PROVE  Paid(S, [u \in User |-> 0])
<1>1. PICK P : P = [u \in User |-> 0]
  OBVIOUS
<1>2. Total(P, User) = 0
  BY <1>1, TotalZero, RulesAssumption
<1>3. ASSUME NEW A, A \subseteq DOMAIN S PROVE 0 <= Total(Loss(S), A)
  <2>1. IsFiniteSet(A)
    BY <1>3, FS_Subset DEF StackTable
  <2>2. \A i \in A : Loss(S)[i] \in Nat
    BY <1>3, LossNat
  <2>3. Total(Loss(S), A) \in Nat
    BY <2>1, <2>2, TotalNat
  <2> QED
    BY <2>3
<1>4. \A u \in User : P[u] <= Total(Loss(S), Foes(S, u))
  BY <1>1, <1>3 DEF Foes
<1>5. Total(P, User) <= Total(Loss(S), DOMAIN S)
  BY <1>2, <1>3
<1>6. \A i \in DOMAIN S : ~(S[i].final < S[i].initial)
  BY DEF StackTable, Stack
<1>7. Paid(S, P)
  BY <1>4, <1>5, <1>6 DEF Paid
<1> QED
  BY <1>1, <1>7

(* The stacks at the beginning of the fight.                               *)
LEMMA FirstStacks ==
    ASSUME RowTable(rows), NEW in, in \subseteq DOMAIN rows,
           NEW S, S = [id \in in |-> CreateCombatStack(rows[id])]
    PROVE  /\ StackTable(S) /\ DOMAIN S = in
           /\ \A i \in in : /\ S[i].user = rows[i].user /\ S[i].unit = rows[i].unit
                            /\ S[i].mission = rows[i].mission /\ S[i].carrier = rows[i].carrier
                            /\ S[i].initial = rows[i].count /\ S[i].final = rows[i].count
                            /\ S[i].health = S[i].totalHealth /\ S[i].shield = S[i].totalShield
<1>1. DOMAIN S = in /\ S = [i \in DOMAIN S |-> S[i]] /\ IsFiniteSet(in) /\ in \subseteq Nat \ {0}
  BY FS_Subset DEF RowTable
<1>2. ASSUME NEW i \in in
      PROVE  /\ S[i] \in Stack
             /\ S[i].user = rows[i].user /\ S[i].unit = rows[i].unit
             /\ S[i].mission = rows[i].mission /\ S[i].carrier = rows[i].carrier
             /\ S[i].initial = rows[i].count /\ S[i].final = rows[i].count
             /\ S[i].health = S[i].totalHealth /\ S[i].shield = S[i].totalShield
  <2>1. rows[i] \in Row /\ S[i] = CreateCombatStack(rows[i])
    BY <1>2 DEF RowTable
  <2> QED
    BY <2>1, CreatedStack
<1>3. \A i \in in : S[i].final <= S[i].initial
  BY <1>2 DEF Stack
<1> QED
  BY <1>1, <1>2, <1>3 DEF StackTable

(* The stacks are made, and shuffled.                                      *)
LEMMA BuildStep == ASSUME IInv, BuildAttackInformation PROVE IInv'
<1>1. /\ Typed /\ Mine /\ UnderWay /\ Manned /\ Cargo /\ Fresh
      /\ pc = "landed" /\ pc' = "fighting"
  BY DEF IInv, BuildAttackInformation
<1>2. UNCHANGED <<rows, missions, owner, formerly, refused, triggers, involved, turn,
                  targets, points, detached, captures, gathered, outcome>>
  BY DEF BuildAttackInformation
<1>3. PICK in : in = {id \in DOMAIN rows : Involved(id)} \cup Aboard(Ours)
  OBVIOUS
<1>4. stacks' = [id \in in |-> CreateCombatStack(rows[id])] /\ order' \in SetToSeqs(in)
  BY <1>3 DEF BuildAttackInformation, Shuffled
<1>5. in \subseteq DOMAIN rows /\ RowTable(rows) /\ IsFiniteSet(in)
  <2>1. in \subseteq DOMAIN rows /\ RowTable(rows)
    BY <1>1, <1>3 DEF Aboard, Typed
  <2> QED
    BY <2>1, FS_Subset DEF RowTable
<1>6. /\ StackTable(stacks') /\ DOMAIN stacks' = in
      /\ \A i \in in :
            /\ stacks'[i].user = rows[i].user /\ stacks'[i].unit = rows[i].unit
            /\ stacks'[i].mission = rows[i].mission /\ stacks'[i].carrier = rows[i].carrier
            /\ stacks'[i].initial = rows[i].count /\ stacks'[i].final = rows[i].count
            /\ stacks'[i].health = stacks'[i].totalHealth
            /\ stacks'[i].shield = stacks'[i].totalShield
  BY <1>4, <1>5, FirstStacks
<1>7. order' \in Seq(in)
  BY <1>4, <1>5, SequenceOf
<1>8. turn' = 0 /\ targets' = <<>> /\ detached' = {} /\ points' = [u \in User |-> 0]
  BY <1>1, <1>2 DEF Fresh
<1>9. Typed' /\ Aimed'
  BY <1>1, <1>2, <1>6, <1>7, <1>8 DEF Typed, Aimed
<1>10. Mine' /\ UnderWay' /\ Manned'
  BY <1>1, <1>2 DEF Mine, UnderWay, Manned
<1>11. Cargo'
  BY <1>1, <1>2 DEF Cargo, Held
<1>12. ASSUME NEW i \in DOMAIN rows \ in
       PROVE  /\ rows[i].carrier \notin in
              /\ rows[i].mission # None /\ missions[rows[i].mission].type # "DEPLOYED"
  <2>1. ~Involved(i) /\ rows[i].mission # Ours
    BY <1>3, <1>12 DEF Aboard
  <2>2. rows[i].mission # None
    BY <2>1 DEF Involved
  <2>3. rows[i].mission \in DOMAIN missions
    BY <1>1, <1>12, <2>2 DEF UnderWay
  <2>4. missions[rows[i].mission].type # "DEPLOYED"
    BY <2>1, <2>3 DEF Involved
  <2>5. rows[i].carrier \notin in
    <3>1. SUFFICES ASSUME rows[i].carrier \in in PROVE FALSE
      OBVIOUS
    <3>2. rows[i].carrier \in Nat
      BY <1>5, <3>1 DEF RowTable
    <3>3. rows[i].carrier # None
      BY <3>2, ScenarioAssumption
    <3>4. rows[rows[i].carrier].mission = rows[i].mission
      BY <1>1, <1>12, <3>3 DEF Cargo, Held
    <3>5. Involved(rows[i].carrier) \/ rows[rows[i].carrier].mission = Ours
      BY <1>3, <3>1 DEF Aboard
    <3> QED
      BY <2>1, <3>4, <3>5 DEF Involved
  <2> QED
    BY <2>2, <2>4, <2>5
<1>13. Aware'
  BY <1>2, <1>6, <1>12 DEF Aware
<1>14. Known'
  <2>1. DOMAIN involved \subseteq in
    BY <1>1, <1>3 DEF Fresh, Mine, Aboard
  <2> QED
    BY <1>2, <1>5, <1>6, <1>12, <2>1 DEF Known
<1>15. Counts'
  BY <1>1, <1>2, <1>6 DEF Counts, CountsAs
<1>16. Worn'
  <2>1. SUFFICES ASSUME NEW i \in in
                 PROVE  /\ stacks'[i].final # 0
                        /\ Remains(stacks'[i]) * stacks'[i].initial
                             <= stacks'[i].final
                                  * (stacks'[i].totalHealth + stacks'[i].totalShield)
    BY <1>6 DEF Worn
  <2>2. PICK s : s = stacks'[i]
    OBVIOUS
  <2>3. s \in Stack /\ s.final = s.initial /\ s.health = s.totalHealth /\ s.shield = s.totalShield
    BY <1>6, <2>1, <2>2 DEF StackTable
  <2>4. s.initial \in Nat \ {0} /\ s.totalHealth \in Nat /\ s.totalShield \in Nat
    BY <2>3 DEF Stack
  <2>5. Remains(s) = s.totalHealth + s.totalShield
    BY <2>3, <2>4 DEF Remains
  <2>6. \A a, b \in Nat : a * b <= b * a
    OBVIOUS
  <2> QED
    BY <2>2, <2>3, <2>4, <2>5, <2>6
<1>17. LossesHaveEnemies'
  <2>1. \A i \in DOMAIN stacks' : stacks'[i].final = stacks'[i].initial
    BY <1>6
  <2>2. Paid(stacks', points')
    BY <1>6, <1>8, <2>1, NothingPaid
  <2> QED
    BY <2>2, PaidIsLossesNext
<1>18. Fresh' /\ Settled'
  BY <1>1 DEF Fresh, Settled
<1> QED
  BY <1>9, <1>10, <1>11, <1>13, <1>14, <1>15, <1>16, <1>17, <1>18 DEF IInv

(* A mission that has arrived.                                             *)
LEMMA InitHolds == Init => IInv
<1>1. SUFFICES ASSUME Init PROVE IInv
  OBVIOUS
<1>2. PICK s \in Scenario : /\ rows = s.rows /\ missions = s.missions
                            /\ owner = s.owner /\ formerly = s.owner /\ refused = s.refused
  BY <1>1 DEF Init
<1>3. /\ involved = [id \in Aboard(Ours) |-> rows[id]] /\ triggers \in BOOLEAN
      /\ stacks = <<>> /\ order = <<>> /\ turn = 0 /\ targets = <<>>
      /\ points = [u \in User |-> 0] /\ detached = {} /\ captures = {}
      /\ gathered = 0 /\ outcome = "none" /\ pc = "landed"
  BY <1>1 DEF Init
<1>4. RowTable(rows) /\ MissionTable(missions)
  BY <1>2, ScenarioAssumption DEF RowTable, MissionTable
<1>5. RowTable(involved) /\ DOMAIN involved = Aboard(Ours) /\ Aboard(Ours) \subseteq DOMAIN rows
  <2>1. Aboard(Ours) \subseteq DOMAIN rows
    BY DEF Aboard
  <2>2. IsFiniteSet(Aboard(Ours))
    BY <1>4, <2>1, FS_Subset DEF RowTable
  <2> QED
    BY <1>3, <1>4, <2>1, <2>2 DEF RowTable
<1>6. StackTable(stacks) /\ DOMAIN stacks = {}
  <2>1. DOMAIN stacks = {}
    BY <1>3
  <2>2. stacks = [i \in DOMAIN stacks |-> stacks[i]]
    BY <1>3, <2>1
  <2>3. IsFiniteSet({})
    BY FS_EmptySet
  <2> QED
    BY <2>1, <2>2, <2>3 DEF StackTable
<1>7. owner \in User \cup {None} /\ refused \in BOOLEAN
  BY <1>2, ScenarioAssumption
<1>8. Typed /\ Aimed
  BY <1>3, <1>4, <1>5, <1>6, <1>7 DEF Typed, Aimed
<1>9. Mine
  BY <1>2, <1>3, <1>5, ScenarioAssumption DEF Mine, Aboard
<1>10. UnderWay
  BY <1>2, ScenarioAssumption DEF UnderWay
<1>11. Manned
  BY <1>2, ScenarioAssumption DEF Manned
<1>12. Cargo
  BY <1>2, ScenarioAssumption DEF Cargo, Held
<1>13. Aware /\ Known /\ Counts /\ Worn /\ Settled
  BY <1>3, <1>6 DEF Aware, Known, InFight, Counts, Worn, Settled
<1>14. Fresh
  BY <1>3, <1>5 DEF Fresh
<1>15. LossesHaveEnemies
  BY <1>3, <1>6, NothingPaid, PaidIsLosses
<1> QED
  BY <1>8, <1>9, <1>10, <1>11, <1>12, <1>13, <1>14, <1>15 DEF IInv
------------------------------------------------------------------------------
(* Stacks that land.                                                       *)

(* The rows when those of the stacks up to n have landed.                  *)
Landed(rs, those, n, r) ==
    /\ RowTable(r) /\ DOMAIN r \subseteq DOMAIN rs
    /\ \A i \in DOMAIN rs : i \notin those \/ i > n => i \in DOMAIN r
    /\ \A i \in DOMAIN r :
          /\ r[i].user = rs[i].user /\ r[i].unit = rs[i].unit
          /\ i \in those /\ i <= n => r[i].mission = None /\ r[i].carrier = None
          /\ i \notin those \/ i > n => r[i].mission = rs[i].mission /\ r[i].carrier = rs[i].carrier

(* One stack lands: as it is, or with another of its unit.                 *)
LEMMA OneLands ==
    ASSUME NEW rs, RowTable(rs), NEW those, those \subseteq DOMAIN rs, NEW n \in Nat \ {0},
           NEW r, Landed(rs, those, n - 1, r)
    PROVE  Landed(rs, those, n, IF n \in those THEN MoveUnitToPlanet(r, n) ELSE r)
<1>1. RowTable(r) /\ DOMAIN r \subseteq DOMAIN rs /\ DOMAIN rs \subseteq Nat
  BY DEF Landed, RowTable
<1>2. \A i \in Nat : (i > n - 1 <=> i > n \/ i = n) /\ (i <= n <=> i <= n - 1 \/ i = n)
  OBVIOUS
<1>3. CASE n \notin those
  BY <1>1, <1>2, <1>3 DEF Landed
<1>4. CASE n \in those
  <2>1. n \in DOMAIN r
    BY <1>1, <1>4 DEF Landed
  <2>2. r[n] \in Row
    BY <1>1, <2>1 DEF RowTable
  <2>3. PICK same : same = {i \in DOMAIN r \ {n} :
                               /\ r[i].user = r[n].user /\ r[i].unit = r[n].unit
                               /\ r[i].mission = None /\ r[i].carrier = None}
    OBVIOUS
  <2>4. PICK q : q = MoveUnitToPlanet(r, n)
    OBVIOUS
  <2>5. CASE same = {}
    <3>1. PICK e : e = [r[n] EXCEPT !.mission = None, !.carrier = None]
      OBVIOUS
    <3>2. q = [r EXCEPT ![n].mission = None, ![n].carrier = None]
      BY <2>3, <2>4, <2>5 DEF MoveUnitToPlanet
    <3>3. r = [i \in DOMAIN r |-> r[i]]
      BY <1>1 DEF RowTable
    <3>4. q = [i \in DOMAIN r |-> IF i = n THEN e ELSE r[i]]
      BY <2>1, <3>1, <3>2, <3>3
    <3>5. e \in Row /\ e.user = r[n].user /\ e.unit = r[n].unit /\ e.mission = None /\ e.carrier = None
      BY <2>2, <3>1 DEF Row
    <3>6. RowTable(q)
      BY <1>1, <3>4, <3>5 DEF RowTable
    <3>7. Landed(rs, those, n, q)
      BY <1>1, <1>2, <1>4, <2>1, <3>4, <3>5, <3>6 DEF Landed
    <3> QED
      BY <1>4, <2>4, <3>7
  <2>6. CASE same # {}
    <3>1. PICK c : c = Min(same)
      OBVIOUS
    <3>2. c \in same
      <4>1. same \subseteq Nat
        BY <1>1, <2>3
      <4> QED
        BY <2>6, <3>1, <4>1, LeastNumber
    <3>3. c \in DOMAIN r /\ c # n /\ r[c] \in Row
      BY <1>1, <2>3, <3>2 DEF RowTable
    <3>4. PICK e : e = [r[c] EXCEPT !.count = r[c].count + r[n].count]
      OBVIOUS
    <3>5. q = [i \in DOMAIN r \ {n} |-> IF i = c THEN e ELSE r[i]]
      BY <2>3, <2>4, <2>6, <3>1, <3>4 DEF MoveUnitToPlanet
    <3>6. /\ e \in Row /\ e.user = r[c].user /\ e.unit = r[c].unit
          /\ e.mission = r[c].mission /\ e.carrier = r[c].carrier
      <4>1. r[c].count + r[n].count \in Nat \ {0}
        BY <2>2, <3>3 DEF Row
      <4> QED
        BY <3>3, <3>4, <4>1 DEF Row
    <3>7. RowTable(q)
      <4>1. IsFiniteSet(DOMAIN r \ {n})
        BY <1>1, FS_Difference DEF RowTable
      <4> QED
        BY <1>1, <3>5, <3>6, <4>1 DEF RowTable
    <3>8. \A i \in DOMAIN q : /\ i \in DOMAIN r /\ i # n
                              /\ q[i].user = r[i].user /\ q[i].unit = r[i].unit
                              /\ q[i].mission = r[i].mission /\ q[i].carrier = r[i].carrier
      BY <3>3, <3>5, <3>6
    <3>9. DOMAIN q = DOMAIN r \ {n}
      BY <3>5
    <3>10. Landed(rs, those, n, q)
      BY <1>1, <1>2, <1>4, <3>7, <3>8, <3>9 DEF Landed
    <3> QED
      BY <1>4, <2>4, <3>10
  <2> QED
    BY <2>5, <2>6
<1> QED
  BY <1>3, <1>4

IsLanding(g, rs, those, N) ==
    g = [n \in 0 .. N |->
            IF n = 0 THEN rs
            ELSE IF n \in those THEN MoveUnitToPlanet(g[n - 1], n) ELSE g[n - 1]]

(* All of them land.                                                       *)
LEMMA AllLand ==
    ASSUME NEW rs, RowTable(rs), NEW those, those \subseteq DOMAIN rs
    PROVE  \E N \in Nat : /\ Landed(rs, those, N, Rehomed(rs, those))
                          /\ \A i \in DOMAIN rs : i <= N
<1>1. PICK N : N = Max({0} \cup DOMAIN rs)
  OBVIOUS
<1>2. N \in Nat /\ \A i \in DOMAIN rs : i <= N
  <2>1. PICK S : S = {0} \cup DOMAIN rs
    OBVIOUS
  <2>2. S \subseteq Nat /\ S # {}
    BY <2>1 DEF RowTable
  <2>3. IsFiniteSet(S)
    <3>1. IsFiniteSet({0}) /\ IsFiniteSet(DOMAIN rs)
      BY FS_Singleton DEF RowTable
    <3>2. IsFiniteSet({0} \cup DOMAIN rs)
      BY <3>1, FS_Union
    <3> QED
      BY <2>1, <3>2
  <2>4. Max(S) \in S /\ \A x \in S : x <= Max(S)
    BY <2>2, <2>3, GreatestNumber
  <2> QED
    BY <1>1, <2>1, <2>2, <2>4
<1>3. PICK V : V = UNION {[D -> Row] : D \in SUBSET DOMAIN rs}
  OBVIOUS
<1>4. PICK T : T = {x \in (0 .. N) \X V : Landed(rs, those, x[1], x[2])}
  OBVIOUS
<1>5. \A n \in 0 .. N : \A r : Landed(rs, those, n, r) => <<n, r>> \in T
  <2>1. SUFFICES ASSUME NEW n \in 0 .. N, NEW r, Landed(rs, those, n, r) PROVE <<n, r>> \in T
    OBVIOUS
  <2>2. r \in [DOMAIN r -> Row] /\ DOMAIN r \in SUBSET DOMAIN rs
    BY <2>1 DEF Landed, RowTable
  <2>3. r \in V
    BY <1>3, <2>2
  <2> QED
    BY <1>4, <2>1, <2>3
<1>6. <<0, rs>> \in T
  <2>1. Landed(rs, those, 0, rs)
    BY DEF Landed, RowTable
  <2> QED
    BY <1>2, <1>5, <2>1
<1>7. PICK Step : Step = [x \in T |-> IF x[1] + 1 \in those THEN MoveUnitToPlanet(x[2], x[1] + 1)
                                      ELSE x[2]]
  OBVIOUS
<1>8. ASSUME NEW k \in 1 .. N, NEW v, <<k - 1, v>> \in T
      PROVE  /\ Step[<<k - 1, v>>] = IF k \in those THEN MoveUnitToPlanet(v, k) ELSE v
             /\ <<k, Step[<<k - 1, v>>]>> \in T
  <2>1. Landed(rs, those, k - 1, v)
    BY <1>4, <1>8
  <2>2. k \in Nat \ {0} /\ k \in 0 .. N /\ (k - 1) + 1 = k
    BY <1>2
  <2>3. Landed(rs, those, k, IF k \in those THEN MoveUnitToPlanet(v, k) ELSE v)
    BY <2>1, <2>2, OneLands
  <2>4. Step[<<k - 1, v>>] = IF k \in those THEN MoveUnitToPlanet(v, k) ELSE v
    BY <1>7, <1>8, <2>2
  <2> QED
    BY <1>5, <2>2, <2>3, <2>4
<1>9. \A k \in 1 .. N : \A v : <<k - 1, v>> \in T => <<k, Step[<<k - 1, v>>]>> \in T
  BY <1>8
<1>10. PICK g : (\A k \in 0 .. N : <<k, g[k]>> \in T) /\ Recurs(g, N, rs, Step)
  BY ONLY <1>2, <1>6, <1>9, StepsExist
<1>11. IsLanding(g, rs, those, N)
  <2>1. \A k \in 0 .. N : k # 0 => k \in 1 .. N /\ k - 1 \in 0 .. N
    BY <1>2
  <2>2. \A k \in 0 .. N : k # 0 => Step[<<k - 1, g[k - 1]>>]
                                     = IF k \in those THEN MoveUnitToPlanet(g[k - 1], k) ELSE g[k - 1]
    BY <1>8, <1>10, <2>1
  <2> QED
    BY <1>10, <2>2 DEF IsLanding, Recurs
<1>12. PICK c : c = CHOOSE h : IsLanding(h, rs, those, N)
  OBVIOUS
<1>13. IsLanding(c, rs, those, N)
  BY <1>11, <1>12
<1>14. c[0] = rs /\ \A k \in 1 .. N : c[k] = IF k \in those THEN MoveUnitToPlanet(c[k - 1], k)
                                             ELSE c[k - 1]
  BY <1>2, <1>13 DEF IsLanding
<1>15. \A k \in 1 .. N : <<k - 1, c[k - 1]>> \in T => <<k, c[k]>> \in T
  BY <1>8, <1>14
<1>16. <<0, c[0]>> \in T
  BY <1>6, <1>14
<1>17. \A k \in 0 .. N : <<k, c[k]>> \in T
  BY ONLY <1>2, <1>15, <1>16, StepsKeep
<1>18. Landed(rs, those, N, c[N])
  <2>1. N \in 0 .. N
    BY <1>2
  <2>2. <<N, c[N]>> \in T
    BY <1>17, <2>1
  <2> QED
    BY <1>4, <2>2
<1>19. Rehomed(rs, those) = c[N]
  BY <1>1, <1>12 DEF Rehomed, IsLanding
<1> QED
  BY <1>2, <1>18, <1>19

(* What is left of the stacks, and where.                                  *)
LEMMA RehomedTells ==
    ASSUME NEW rs, RowTable(rs), NEW those, those \subseteq DOMAIN rs,
           NEW r, r = Rehomed(rs, those)
    PROVE  /\ RowTable(r) /\ DOMAIN r \subseteq DOMAIN rs /\ DOMAIN rs \ those \subseteq DOMAIN r
           /\ \A i \in DOMAIN r :
                 /\ r[i].user = rs[i].user /\ r[i].unit = rs[i].unit
                 /\ i \in those => r[i].mission = None /\ r[i].carrier = None
                 /\ i \notin those => r[i].mission = rs[i].mission /\ r[i].carrier = rs[i].carrier
<1>1. PICK N \in Nat : Landed(rs, those, N, r) /\ \A i \in DOMAIN rs : i <= N
  BY AllLand
<1> QED
  BY <1>1 DEF Landed
------------------------------------------------------------------------------
(* The end.                                                                *)

(* Missions are over or have rows, rows are on open missions or none, and  *)
(* carriers exist.                                                         *)
EndsWell(R, M) ==
    /\ \A m \in DOMAIN M : M[m].resolved \/ \E i \in DOMAIN R : R[i].mission = m
    /\ \A i \in DOMAIN R :
          /\ R[i].mission # None => R[i].mission \in DOMAIN M /\ ~M[R[i].mission].resolved
          /\ R[i].carrier \in DOMAIN R \cup {None}

(* How it must end, in terms of the tables written.                        *)
LEMMA EndsWellIs == ASSUME EndsWell(rows', missions') PROVE FleetsAndMissions'
  BY DEF EndsWell, FleetsAndMissions, Aboard

(* After the end only how it ended matters.                                *)
LEMMA CloseKeeps ==
    ASSUME IInv, pc # "over", NEW rs, NEW ms, NEW result, Close(rs, ms, result),
           RowTable(rs), MissionTable(ms), Ours \in DOMAIN ms, ms[Ours] = missions[Ours],
           owner' \in User \cup {None}, gathered' \in Nat,
           result \in {"gone", "returns", "won"},
           EndsWell(rows', missions'), ConqueredIsCleared'
    PROVE  IInv'
<1>1. /\ rows' = rs /\ missions' = [ms EXCEPT ![Ours].resolved = TRUE]
      /\ outcome' = result /\ pc' = "over"
      /\ UNCHANGED <<refused, triggers, involved, stacks, order, turn, targets, points,
                     detached, captures>>
  BY DEF Close, battle
<1>2. MissionTable(missions') /\ Ours \in DOMAIN missions' /\ missions'[Ours].type = missions[Ours].type
  <2>1. PICK e : e = [ms[Ours] EXCEPT !.resolved = TRUE]
    OBVIOUS
  <2>2. ms[Ours] \in MissionRow
    BY DEF MissionTable
  <2>3. e \in MissionRow /\ e.type = missions[Ours].type
    BY <2>1, <2>2 DEF MissionRow
  <2>4. missions' = [m \in DOMAIN ms |-> IF m = Ours THEN e ELSE ms[m]]
    BY <1>1, <2>1 DEF MissionTable
  <2> QED
    BY <2>3, <2>4 DEF MissionTable
<1>3. Typed /\ Aimed /\ Mine
  BY DEF IInv
<1>4. Typed'
  BY <1>1, <1>2, <1>3 DEF Typed
<1>5. Aimed'
  BY <1>1, <1>3 DEF Aimed
<1>6. Mine'
  BY <1>1, <1>2, <1>3 DEF Mine
<1>7. LossesHaveEnemies'
  <2>1. Paid(stacks', points')
    BY <1>1, PaidIsLosses DEF IInv
  <2> QED
    BY <2>1, PaidIsLossesNext
<1>8. UnderWay' /\ Manned' /\ Cargo' /\ Aware' /\ Known' /\ Counts' /\ Worn' /\ Fresh'
  BY <1>1 DEF UnderWay, Manned, Cargo, Aware, Known, InFight, Counts, Worn, Fresh
<1>9. Settled'
  BY EndsWellIs DEF Settled
<1> QED
  BY <1>4, <1>5, <1>6, <1>7, <1>8, <1>9 DEF IInv

(* What holds when a processor ends the mission.                           *)
LEMMA BeforeTheEnd ==
    ASSUME IInv, pc \in {"landed", "reported"}
    PROVE  /\ RowTable(rows) /\ MissionTable(missions) /\ Ours \in DOMAIN missions
           /\ \A i \in DOMAIN rows : rows[i].mission = Ours <=> i \in DOMAIN involved
           /\ \A i \in DOMAIN rows : rows[i].mission # None =>
                 /\ rows[i].mission \in DOMAIN missions /\ ~missions[rows[i].mission].resolved
                 /\ missions[rows[i].mission].user = rows[i].user
           /\ \A m \in DOMAIN missions \ {Ours} :
                 missions[m].resolved \/ \E i \in DOMAIN rows : rows[i].mission = m
           /\ \A i \in DOMAIN rows : rows[i].carrier # None => Held(i)
           /\ missions[Ours].type \in Fighter /\ owner \in User \cup {None} /\ gathered \in Nat
  BY DEF IInv, Typed, Mine, UnderWay, Manned, Cargo

(* Nobody of the mission is left.                                          *)
LEMMA GoneStep ==
    ASSUME IInv, pc = "reported", Removed, Close(rows, missions, "gone"),
           UNCHANGED <<owner, gathered>>
    PROVE  IInv'
<1>1. rows' = rows /\ missions' = [missions EXCEPT ![Ours].resolved = TRUE] /\ outcome' = "gone"
  BY DEF Close
<1>2. PICK M : M = missions'
  OBVIOUS
<1>3. /\ DOMAIN M = DOMAIN missions /\ (Ours \in DOMAIN missions => M[Ours].resolved)
      /\ \A m \in DOMAIN missions \ {Ours} : M[m] = missions[m]
  BY <1>1, <1>2, BeforeTheEnd DEF MissionTable, MissionRow
<1>4. \A i \in DOMAIN rows : rows[i].mission # Ours
  BY DEF Removed, Aboard
<1>5. EndsWell(rows', missions')
  <2>1. \A i \in DOMAIN rows : rows[i].carrier \in DOMAIN rows \cup {None}
    BY BeforeTheEnd DEF Held
  <2> QED
    BY <1>1, <1>2, <1>3, <1>4, <2>1, BeforeTheEnd DEF EndsWell
<1>6. ConqueredIsCleared'
  BY <1>1 DEF ConqueredIsCleared
<1> QED
  BY <1>5, <1>6, BeforeTheEnd, CloseKeeps

(* The rows of the mission fly home.                                       *)
LEMMA FlyHomeStep ==
    ASSUME IInv, pc \in {"landed", "reported"}, ~Removed, FlyHome, owner' = owner, gathered' \in Nat
    PROVE  IInv'
<1>1. PICK m : m = NewId(DOMAIN missions)
  OBVIOUS
<1>2. PICK v : v = [user |-> Invader, type |-> "RETURN_MISSION", near |-> FALSE, resolved |-> FALSE]
  OBVIOUS
<1>3. PICK ms : ms = Put(missions, m, v)
  OBVIOUS
<1>4. PICK rs : rs = [i \in DOMAIN rows |->
                         IF i \in Aboard(Ours) THEN [rows[i] EXCEPT !.mission = m] ELSE rows[i]]
  OBVIOUS
<1>5. Close(rs, ms, "returns")
  BY <1>1, <1>2, <1>3, <1>4 DEF FlyHome
<1>6. m \in Nat \ {0} /\ m \notin DOMAIN missions
  BY <1>1, BeforeTheEnd, NextNumber DEF MissionTable
<1>7. v \in MissionRow
  <2>1. Invader \in User
    BY BeforeTheEnd DEF Invader, MissionTable, MissionRow
  <2> QED
    BY <1>2, <2>1 DEF MissionRow
<1>8. MissionTable(ms)
  BY <1>3, <1>6, <1>7, BeforeTheEnd, PutMission
<1>9. DOMAIN ms = DOMAIN missions \cup {m} /\ ms[m] = v /\ \A x \in DOMAIN missions : ms[x] = missions[x]
  BY <1>3, <1>6 DEF Put
<1>10. ASSUME NEW i \in DOMAIN rows
       PROVE  /\ rs[i] \in Row /\ rs[i].carrier = rows[i].carrier
              /\ rs[i].mission = IF rows[i].mission = Ours THEN m ELSE rows[i].mission
  <2>1. rows[i] \in Row
    BY <1>10, BeforeTheEnd DEF RowTable
  <2> QED
    BY <1>4, <1>6, <1>10, <2>1 DEF Row, Aboard
<1>11. RowTable(rs) /\ DOMAIN rs = DOMAIN rows
  BY <1>4, <1>10, BeforeTheEnd DEF RowTable
<1>12. rows' = rs /\ missions' = [ms EXCEPT ![Ours].resolved = TRUE] /\ outcome' = "returns"
  BY <1>5 DEF Close
<1>13. PICK M : M = missions'
  OBVIOUS
<1>14. Ours \in DOMAIN missions /\ Ours # m
  BY <1>6, BeforeTheEnd
<1>15. /\ DOMAIN M = DOMAIN missions \cup {m} /\ M[Ours].resolved /\ ~M[m].resolved
       /\ \A x \in DOMAIN missions \ {Ours} : M[x] = missions[x]
  <2>1. M = [ms EXCEPT ![Ours].resolved = TRUE] /\ ms = [x \in DOMAIN ms |-> ms[x]]
    BY <1>8, <1>12, <1>13 DEF MissionTable
  <2>2. Ours \in DOMAIN ms /\ ms[Ours] \in MissionRow
    BY <1>8, <1>9, <1>14 DEF MissionTable
  <2>3. M[Ours].resolved
    BY <2>1, <2>2 DEF MissionRow
  <2> QED
    BY <1>2, <1>9, <1>14, <2>1, <2>3
<1>16. EndsWell(rs, M)
  <2>1. ASSUME NEW x \in DOMAIN M PROVE M[x].resolved \/ \E i \in DOMAIN rs : rs[i].mission = x
    <3>1. CASE x = Ours
      BY <1>15, <3>1
    <3>2. CASE x = m
      <4>1. PICK i \in DOMAIN rows : rows[i].mission = Ours
        BY DEF Removed, Aboard
      <4> QED
        BY <1>10, <1>11, <3>2, <4>1
    <3>3. CASE x \in DOMAIN missions \ {Ours}
      <4>1. SUFFICES ASSUME ~missions[x].resolved PROVE \E i \in DOMAIN rs : rs[i].mission = x
        BY <1>15, <3>3
      <4>2. PICK i \in DOMAIN rows : rows[i].mission = x
        BY <3>3, <4>1, BeforeTheEnd
      <4> QED
        BY <1>10, <1>11, <3>3, <4>2
    <3> QED
      BY <1>15, <2>1, <3>1, <3>2, <3>3
  <2>2. ASSUME NEW i \in DOMAIN rs
        PROVE  /\ rs[i].mission # None => rs[i].mission \in DOMAIN M /\ ~M[rs[i].mission].resolved
               /\ rs[i].carrier \in DOMAIN rs \cup {None}
    <3>1. rows[i].carrier \in DOMAIN rows \cup {None}
      BY <1>11, <2>2, BeforeTheEnd DEF Held
    <3>2. CASE rows[i].mission = Ours
      BY <1>10, <1>11, <1>15, <2>2, <3>1, <3>2
    <3>3. CASE rows[i].mission # Ours
      BY <1>10, <1>11, <1>15, <2>2, <3>1, <3>3, BeforeTheEnd
    <3> QED
      BY <3>2, <3>3
  <2> QED
    BY <2>1, <2>2 DEF EndsWell
<1>17. ConqueredIsCleared'
  BY <1>12 DEF ConqueredIsCleared
<1>18. /\ Ours \in DOMAIN ms /\ ms[Ours] = missions[Ours] /\ owner' \in User \cup {None}
  BY <1>9, <1>14, BeforeTheEnd
<1>19. EndsWell(rows', missions')
  BY <1>12, <1>13, <1>16
<1> QED
  BY <1>5, <1>8, <1>11, <1>17, <1>18, <1>19, CloseKeeps
(* Nobody of the owner's side is left of those who fought.                 *)
LEMMA ClearedBefore ==
    ASSUME IInv, pc = "reported", AllianceDefeated, formerly # None, Plain, NEW i \in DOMAIN rows
    PROVE  \/ AreEnemies(rows[i].user, formerly)
           \/ /\ rows[i].mission # None /\ rows[i].mission # Ours
              /\ missions[rows[i].mission].type # "DEPLOYED"
           \/ Took(captures, rows[i].user, rows[i].unit)
<1>1. Typed /\ Mine /\ Known /\ Worn /\ formerly = owner
  BY DEF IInv, Mine
<1>2. CASE i \notin DOMAIN stacks
  <2>1. rows[i].mission # Ours
    BY <1>1, <1>2 DEF Known, InFight, Mine
  <2> QED
    BY <1>1, <1>2, <2>1 DEF Known, InFight
<1>3. CASE i \in DOMAIN stacks
  <2>1. stacks[i].final \in Nat
    BY <1>1, <1>3 DEF Typed, StackTable, Stack
  <2>2. stacks[i].final # 0
    BY <1>1, <1>3 DEF Worn, InFight
  <2>3. stacks[i].user = rows[i].user
    BY <1>1, <1>3 DEF Known, InFight
  <2>4. rows[i].user # owner
    BY <1>1, <1>3, <2>1, <2>2, <2>3 DEF AllianceDefeated, HasSurvivors
  <2>5. ~(Alliance[owner] # NoAlliance /\ Alliance[rows[i].user] = Alliance[owner])
    BY <1>1, <1>3, <2>2, <2>3 DEF AllianceDefeated
  <2> QED
    BY <1>1, <2>4, <2>5 DEF AreEnemies
<1> QED
  BY <1>2, <1>3

(* The planet changes hands.                                               *)
LEMMA OwnedStep ==
    ASSUME IInv, pc \in {"landed", "reported"}, DefinePlanetAsOwnedBy(Invader), gathered' = gathered,
           formerly = None \/ (pc = "reported" /\ AllianceDefeated)
    PROVE  IInv'
<1>1. PICK user : user = Invader
  OBVIOUS
<1>2. PICK landed : landed = [i \in DOMAIN rows |->
                                 IF i \in DOMAIN involved
                                 THEN [rows[i] EXCEPT !.mission = None, !.carrier = None] ELSE rows[i]]
  OBVIOUS
<1>3. PICK deployed : deployed = {i \in DOMAIN landed :
                                     /\ landed[i].user = user
                                     /\ landed[i].mission \in DOMAIN missions
                                     /\ Kind(landed[i].mission) = "DEPLOYED"}
  OBVIOUS
<1>4. PICK markers : markers = {landed[i].mission : i \in deployed}
  OBVIOUS
<1>5. PICK rs : rs = Rehomed(landed, deployed)
  OBVIOUS
<1>6. PICK ms : ms = [m \in DOMAIN missions \ markers |-> missions[m]]
  OBVIOUS
<1>7. owner' = user /\ Close(rs, ms, "won")
  BY <1>1, <1>2, <1>3, <1>4, <1>5, <1>6, Zenon DEF DefinePlanetAsOwnedBy
<1>8. user \in User
  BY <1>1, BeforeTheEnd DEF Invader, MissionTable, MissionRow
<1>9. ASSUME NEW i \in DOMAIN rows
      PROVE  /\ landed[i] \in Row
             /\ landed[i].user = rows[i].user /\ landed[i].unit = rows[i].unit
             /\ rows[i].mission = Ours => landed[i].mission = None /\ landed[i].carrier = None
             /\ rows[i].mission # Ours => /\ landed[i].mission = rows[i].mission
                                          /\ landed[i].carrier = rows[i].carrier
  <2>1. rows[i] \in Row /\ (rows[i].mission = Ours <=> i \in DOMAIN involved)
    BY <1>9, BeforeTheEnd DEF RowTable
  <2> QED
    BY <1>2, <1>9, <2>1 DEF Row
<1>10. RowTable(landed) /\ DOMAIN landed = DOMAIN rows
  <2>1. DOMAIN landed = DOMAIN rows /\ landed = [i \in DOMAIN landed |-> landed[i]]
    BY ONLY <1>2
  <2>2. IsFiniteSet(DOMAIN rows) /\ DOMAIN rows \subseteq Nat \ {0}
    BY BeforeTheEnd DEF RowTable
  <2>3. \A i \in DOMAIN rows : landed[i] \in Row
    BY <1>9
  <2> QED
    BY ONLY <2>1, <2>2, <2>3 DEF RowTable
<1>11. deployed \subseteq DOMAIN landed
  BY <1>3
<1>12. /\ RowTable(rs) /\ DOMAIN rs \subseteq DOMAIN rows /\ DOMAIN rows \ deployed \subseteq DOMAIN rs
       /\ \A i \in DOMAIN rs :
             /\ rs[i].user = landed[i].user /\ rs[i].unit = landed[i].unit
             /\ i \in deployed => rs[i].mission = None /\ rs[i].carrier = None
             /\ i \notin deployed => rs[i].mission = landed[i].mission
                                     /\ rs[i].carrier = landed[i].carrier
  BY <1>5, <1>10, <1>11, RehomedTells
<1>13. Ours # None
  BY ScenarioAssumption DEF Ours
<1>14. \A i \in deployed : /\ i \in DOMAIN rows /\ rows[i].mission # Ours /\ rows[i].mission # None
                           /\ landed[i].mission = rows[i].mission /\ rows[i].user = user
                           /\ rows[i].mission \in DOMAIN missions
                           /\ missions[rows[i].mission].type = "DEPLOYED"
  <2>1. SUFFICES ASSUME NEW i \in deployed
                 PROVE  /\ i \in DOMAIN rows /\ rows[i].mission # Ours /\ rows[i].mission # None
                        /\ landed[i].mission = rows[i].mission /\ rows[i].user = user
                        /\ rows[i].mission \in DOMAIN missions
                        /\ missions[rows[i].mission].type = "DEPLOYED"
    OBVIOUS
  <2>2. None \notin DOMAIN missions
    BY BeforeTheEnd, ScenarioAssumption DEF MissionTable
  <2>3. i \in DOMAIN rows /\ landed[i].mission # None
    BY <1>3, <1>10, <2>1, <2>2
  <2>4. rows[i].mission # Ours
    BY <1>9, <2>3
  <2> QED
    BY <1>3, <1>9, <2>1, <2>3, <2>4 DEF Kind
<1>15. Ours \notin markers /\ Ours \in DOMAIN missions
  BY <1>4, <1>14, BeforeTheEnd
<1>16. MissionTable(ms) /\ Ours \in DOMAIN ms /\ ms[Ours] = missions[Ours]
  <2>1. IsFiniteSet(DOMAIN missions \ markers)
    BY BeforeTheEnd, FS_Difference DEF MissionTable
  <2> QED
    BY <1>6, <1>15, <2>1, BeforeTheEnd DEF MissionTable
<1>17. rows' = rs /\ missions' = [ms EXCEPT ![Ours].resolved = TRUE] /\ outcome' = "won"
       /\ formerly' = formerly /\ stacks' = stacks /\ captures' = captures
  BY <1>7 DEF Close, battle
<1>18. PICK M : M = missions'
  OBVIOUS
<1>19. /\ DOMAIN M = DOMAIN missions \ markers /\ M[Ours].resolved
       /\ \A m \in DOMAIN M \ {Ours} : M[m] = missions[m]
  <2>1. ms[Ours] \in MissionRow
    BY <1>16 DEF MissionTable
  <2> QED
    BY <1>6, <1>16, <1>17, <1>18, <2>1 DEF MissionRow
<1>20. ASSUME NEW i \in DOMAIN rows, rows[i].mission # Ours, rows[i].mission # None,
              rows[i].mission \in markers
       PROVE  i \in deployed
  <2>1. PICK j \in deployed : landed[j].mission = rows[i].mission
    BY <1>4, <1>20
  <2>2. rows[j].mission = rows[i].mission /\ j \in DOMAIN rows /\ rows[j].user = user
        /\ missions[rows[j].mission].type = "DEPLOYED" /\ rows[j].mission # None
    BY <1>14, <2>1
  <2>3. rows[i].user = user /\ rows[i].mission \in DOMAIN missions
    BY <1>20, <2>2, BeforeTheEnd
  <2> QED
    BY <1>3, <1>9, <1>10, <1>20, <2>2, <2>3 DEF Kind
<1>21. ASSUME NEW m \in DOMAIN M PROVE M[m].resolved \/ \E i \in DOMAIN rs : rs[i].mission = m
  <2>1. CASE m = Ours
    BY <1>19, <2>1
  <2>2. CASE m # Ours
    <3>1. m \in DOMAIN missions /\ m \notin markers /\ M[m] = missions[m]
      BY <1>19, <1>21, <2>2
    <3>2. SUFFICES ASSUME ~missions[m].resolved PROVE \E i \in DOMAIN rs : rs[i].mission = m
      BY <3>1
    <3>3. PICK i \in DOMAIN rows : rows[i].mission = m
      BY <2>2, <3>1, <3>2, BeforeTheEnd
    <3>4. landed[i].mission = m /\ i \notin deployed
      BY <1>4, <1>9, <2>2, <3>1, <3>3
    <3> QED
      BY <1>12, <3>3, <3>4
  <2> QED
    BY <2>1, <2>2
<1>22. ASSUME NEW i \in DOMAIN rs
       PROVE  /\ rs[i].mission # None =>
                    /\ i \notin deployed /\ rs[i].mission = rows[i].mission /\ rs[i].mission # Ours
                    /\ rs[i].mission \in DOMAIN M /\ ~M[rs[i].mission].resolved
              /\ rs[i].carrier \in DOMAIN rs \cup {None}
  <2>1. i \in DOMAIN rows
    BY <1>12, <1>22
  <2>2. ASSUME rs[i].mission # None
        PROVE  /\ i \notin deployed /\ rs[i].mission = rows[i].mission /\ rs[i].mission # Ours
               /\ rs[i].mission \in DOMAIN M /\ ~M[rs[i].mission].resolved
    <3>1. i \notin deployed /\ rs[i].mission = landed[i].mission
      BY <1>12, <1>22, <2>2
    <3>2. rows[i].mission # Ours /\ rs[i].mission = rows[i].mission
      BY <1>9, <2>1, <2>2, <3>1
    <3>3. rows[i].mission \in DOMAIN missions /\ ~missions[rows[i].mission].resolved
      BY <2>1, <2>2, <3>2, BeforeTheEnd
    <3>4. rows[i].mission \notin markers
      BY <1>20, <2>1, <2>2, <3>1, <3>2
    <3> QED
      BY <1>19, <3>1, <3>2, <3>3, <3>4
  <2>3. ASSUME rs[i].carrier # None PROVE rs[i].carrier \in DOMAIN rs
    <3>1. i \notin deployed /\ rs[i].carrier = landed[i].carrier
      BY <1>12, <1>22, <2>3
    <3>2. rows[i].mission # Ours /\ rs[i].carrier = rows[i].carrier
      BY <1>9, <2>1, <2>3, <3>1
    <3>3. PICK c : c = rows[i].carrier
      OBVIOUS
    <3>4. /\ c \in DOMAIN rows /\ rows[c].mission = rows[i].mission
          /\ rows[i].mission # None => missions[rows[i].mission].type # "DEPLOYED"
      BY <2>1, <2>3, <3>2, <3>3, BeforeTheEnd DEF Held
    <3>5. c \notin deployed
      BY <1>14, <3>4
    <3> QED
      BY <1>12, <3>2, <3>3, <3>4, <3>5
  <2> QED
    BY <2>2, <2>3
<1>23. EndsWell(rs, M)
  BY <1>21, <1>22 DEF EndsWell
<1>24. ConqueredIsCleared'
  <2>1. SUFFICES ASSUME formerly # None, Plain, NEW i \in DOMAIN rs
                 PROVE  \/ AreEnemies(rs[i].user, formerly) /\ rs[i].user # formerly
                        \/ rs[i].mission # None /\ M[rs[i].mission].type # "DEPLOYED"
                        \/ \E c \in captures : c.captor = rs[i].user /\ c.unit = rs[i].unit
    BY <1>17, <1>18 DEF ConqueredIsCleared, Plain, Kind
  <2>2. pc = "reported" /\ AllianceDefeated
    BY <2>1
  <2>3. i \in DOMAIN rows /\ rs[i].user = rows[i].user /\ rs[i].unit = rows[i].unit
    BY <1>9, <1>12, <2>1
  <2>4. CASE AreEnemies(rows[i].user, formerly)
    BY <2>3, <2>4 DEF AreEnemies
  <2>5. CASE Took(captures, rows[i].user, rows[i].unit)
    BY <2>3, <2>5 DEF Took
  <2>6. CASE /\ rows[i].mission # None /\ rows[i].mission # Ours
             /\ missions[rows[i].mission].type # "DEPLOYED"
    <3>1. i \notin deployed
      BY <1>14, <2>6
    <3>2. rs[i].mission = rows[i].mission
      BY <1>9, <1>12, <2>1, <2>3, <2>6, <3>1
    <3>3. rs[i].mission \in DOMAIN M
      BY <1>22, <2>1, <2>6, <3>2
    <3> QED
      BY <1>19, <2>6, <3>2, <3>3
  <2> QED
    BY <2>1, <2>2, <2>3, <2>4, <2>5, <2>6, ClearedBefore
<1>25. EndsWell(rows', missions')
  BY <1>17, <1>18, <1>23
<1>26. owner' \in User \cup {None} /\ gathered' \in Nat
  BY <1>7, <1>8, BeforeTheEnd
<1> QED
  BY <1>7, <1>12, <1>16, <1>24, <1>25, <1>26, CloseKeeps

(* What the units carried that arrived.                                    *)
LEMMA GatherStep == ASSUME IInv, Gather PROVE IInv'
<1>1. PICK load : load = [i \in DOMAIN involved |-> involved[i].count * Stats[involved[i].unit].charge]
  OBVIOUS
<1>2. gathered' = Total(load, DOMAIN involved)
  <2>1. gathered' = MapThenSumSet(LAMBDA i : load[i], DOMAIN involved)
    BY <1>1 DEF Gather
  <2> QED
    BY <2>1 DEF Total
<1>3. RowTable(involved)
  BY DEF IInv, Typed
<1>4. \A i \in DOMAIN involved : load[i] \in Nat
  <2>1. SUFFICES ASSUME NEW i \in DOMAIN involved PROVE load[i] \in Nat
    OBVIOUS
  <2>2. involved[i].count \in Nat /\ involved[i].unit \in Unit
    BY <1>3, <2>1 DEF RowTable, Row
  <2>3. Stats[involved[i].unit].charge \in Nat
    BY <2>2, CombatAssumption
  <2> QED
    BY <1>1, <2>1, <2>2, <2>3, ProductNat
<1>5. gathered' \in Nat
  BY <1>2, <1>3, <1>4, TotalNat DEF RowTable
<1>6. pc \in {"landed", "reported"} /\ FlyHome /\ owner' = owner
      /\ (pc = "landed" \/ ~Removed)
  BY DEF Gather, GoesOn
<1>7. ~Removed
  BY <1>6 DEF IInv, Manned, Mine, Removed, Aboard
<1> QED
  BY <1>5, <1>6, <1>7, FlyHomeStep

(* A mission that has just landed has rows.                                *)
LEMMA GoesOnTells ==
    ASSUME IInv, GoesOn
    PROVE  ~Removed /\ pc \in {"landed", "reported"}
  BY DEF IInv, GoesOn, Manned, Mine, Removed, Aboard

(* An attack flies home.                                                   *)
LEMMA AttackStep == ASSUME IInv, Attack PROVE IInv'
<1>1. gathered' \in Nat
  BY DEF IInv, Typed, Attack
<1> QED
  BY <1>1, GoesOnTells, FlyHomeStep DEF Attack

(* A new base is founded on a planet of nobody, or nothing happens.        *)
LEMMA EstablishBaseStep == ASSUME IInv, EstablishBase PROVE IInv'
<1>1. GoesOn /\ gathered' = gathered /\ gathered \in Nat /\ ~Removed /\ pc \in {"landed", "reported"}
  BY GoesOnTells DEF IInv, Typed, EstablishBase
<1>2. CASE FlyHome /\ owner' = owner
  BY <1>1, <1>2, FlyHomeStep
<1>3. CASE owner = None /\ DefinePlanetAsOwnedBy(Invader)
  <2>1. formerly = None
    BY <1>1, <1>3 DEF IInv, Mine
  <2> QED
    BY <1>1, <1>3, <2>1, OwnedStep
<1> QED
  BY <1>2, <1>3 DEF EstablishBase

(* A conquest takes the planet, is beaten, or flies home.                  *)
LEMMA ConquestStep == ASSUME IInv, Conquest PROVE IInv'
<1>1. pc = "reported" /\ gathered' = gathered /\ gathered \in Nat
  BY DEF IInv, Typed, Conquest
<1>2. CASE AllianceDefeated /\ DefinePlanetAsOwnedBy(Invader)
  BY <1>1, <1>2, OwnedStep
<1>3. CASE Removed /\ Close(rows, missions, "gone") /\ owner' = owner
  BY <1>1, <1>3, GoneStep
<1>4. CASE ~Removed /\ FlyHome /\ owner' = owner
  BY <1>1, <1>4, FlyHomeStep
<1> QED
  BY <1>2, <1>3, <1>4 DEF Conquest

(* Nobody of the mission is left.                                          *)
LEMMA NobodyIsLeftStep == ASSUME IInv, NobodyIsLeft PROVE IInv'
  BY GoneStep DEF NobodyIsLeft

------------------------------------------------------------------------------
(* Every step keeps the invariant.                                         *)
LEMMA StepKeeps == IInv /\ [Next]_vars => IInv'
<1>1. SUFFICES ASSUME IInv, [Next]_vars PROVE IInv'
  OBVIOUS
<1>2. CASE UNCHANGED vars
  <2>1. UNCHANGED <<rows, missions, owner, formerly, refused, triggers, involved, stacks, order,
                    turn, targets, points, detached, captures, evaluated, gathered, outcome, pc>>
    BY <1>2 DEF vars, battle
  <2>2. Typed' /\ Aimed' /\ Mine' /\ UnderWay' /\ Manned'
    BY <1>1, <2>1 DEF IInv, Typed, Aimed, Mine, UnderWay, Manned
  <2>3. Cargo' /\ Aware' /\ Known' /\ Counts' /\ Worn' /\ Fresh'
    BY <1>1, <2>1
       DEF IInv, Cargo, Held, Aware, Known, InFight, Counts, CountsAs, Worn, Plain, Fresh
  <2>4. Settled'
    BY <1>1, <2>1
       DEF IInv, Settled, FleetsAndMissions, Aboard, ConqueredIsCleared, Plain, Kind
  <2>5. LossesHaveEnemies'
    <3>1. Paid(stacks', points')
      BY <1>1, <2>1, PaidIsLosses DEF IInv
    <3> QED
      BY <3>1, PaidIsLossesNext
  <2> QED
    BY <2>2, <2>3, <2>4, <2>5 DEF IInv
<1>3. CASE Next
  BY <1>1, <1>3, BuildStep, NextTurnStep, SkipStep, WoundStep, WipeStep, UpdatePointsStep, TriggerStep,
     NobodyIsLeftStep, AttackStep, GatherStep, EstablishBaseStep, ConquestStep DEF Next
<1> QED
  BY <1>1, <1>2, <1>3

(* The invariant, of every behaviour.                                      *)
LEMMA AlwaysIInv == Spec => []IInv
<1>1. Init => IInv
  BY InitHolds
<1>2. IInv /\ [Next]_vars => IInv'
  BY StepKeeps
<1> QED
  BY <1>1, <1>2, PTL DEF Spec

(* Tables keep their types, a stack has no more units than at the start,   *)
(* and only stacks are shuffled and aimed at.                              *)
THEOREM FightsAreTyped == Spec => []TypeOK
<1>1. IInv => TypeOK
  <2>1. SUFFICES ASSUME IInv PROVE TypeOK
    OBVIOUS
  <2>2. Typed
    BY <2>1 DEF IInv
  <2>3. \A i \in DOMAIN rows : i \in Nat /\ rows[i] \in Row
    BY <2>2 DEF Typed, RowTable
  <2>4. \A m \in DOMAIN missions : m \in Nat /\ missions[m] \in MissionRow
    BY <2>2 DEF Typed, MissionTable
  <2>5. ToSet(order) \cup ToSet(targets) \cup detached \subseteq DOMAIN stacks
    BY <2>2 DEF Typed, ToSet
  <2>6. \A i \in DOMAIN stacks :
            /\ stacks[i].initial \in Nat /\ stacks[i].final \in 0 .. stacks[i].initial
            /\ stacks[i].pending \in Nat /\ {stacks[i].health, stacks[i].shield} \subseteq Int
    <3>1. SUFFICES ASSUME NEW i \in DOMAIN stacks
                   PROVE  /\ stacks[i].initial \in Nat /\ stacks[i].final \in 0 .. stacks[i].initial
                          /\ stacks[i].pending \in Nat
                          /\ {stacks[i].health, stacks[i].shield} \subseteq Int
      OBVIOUS
    <3>2. stacks[i] \in Stack /\ stacks[i].final <= stacks[i].initial
      BY <2>2, <3>1 DEF Typed, StackTable
    <3>3. stacks[i].initial \in Nat /\ stacks[i].final \in Nat /\ stacks[i].pending \in Nat
          /\ stacks[i].health \in Int /\ stacks[i].shield \in Int
      BY <3>2 DEF Stack
    <3> QED
      BY <3>2, <3>3
  <2> QED
    BY <2>2, <2>3, <2>4, <2>5, <2>6 DEF TypeOK, Typed
<1> QED
  BY <1>1, AlwaysIInv, PTL

(* LossesHaveEnemies: every lost unit is paid for at most once, to an      *)
(* enemy, and only one whose attack rule permits it can have taken it.     *)
THEOREM OnlyEnemiesTake == Spec => []LossesHaveEnemies
<1>1. IInv => LossesHaveEnemies
  BY DEF IInv
<1> QED
  BY <1>1, AlwaysIInv, PTL

(* RowsFollowPlainReport: what the report says has survived, no more and   *)
(* no less but for captives, is what the rows have, if no unit of the      *)
(* fight has bypass_shield.                                                *)
THEOREM ReportsAreTrue == Spec => []RowsFollowPlainReport
<1>1. IInv => RowsFollowPlainReport
  <2>1. SUFFICES ASSUME IInv, Plain, pc \in {"counted", "reported"}, NEW i \in DOMAIN stacks
                 PROVE  /\ stacks[i].final = 0 <=> i \notin DOMAIN rows
                        /\ i \in DOMAIN rows =>
                              \/ rows[i].count = stacks[i].final
                              \/ /\ \E c \in captures : c.captor = stacks[i].user /\ c.unit = stacks[i].unit
                                 /\ rows[i].count > stacks[i].final
    BY DEF RowsFollowPlainReport, RowsFollowReport
  <2>2. Known /\ Counts /\ Worn
    BY <2>1 DEF IInv
  <2>3. stacks[i].final = 0 <=> i \notin DOMAIN rows
    BY <2>1, <2>2 DEF Known, InFight, Worn
  <2>4. ASSUME i \in DOMAIN rows
        PROVE  \/ rows[i].count = stacks[i].final
               \/ /\ \E c \in captures : c.captor = stacks[i].user /\ c.unit = stacks[i].unit
                  /\ rows[i].count > stacks[i].final
    <3>1. CountsAs(i, stacks[i].final)
      BY <2>1, <2>2, <2>3, <2>4 DEF Counts
    <3>2. stacks[i].user = rows[i].user /\ stacks[i].unit = rows[i].unit
      BY <2>1, <2>2, <2>4 DEF Known, InFight
    <3> QED
      BY <3>1, <3>2 DEF CountsAs, Took
  <2> QED
    BY <2>3, <2>4
<1> QED
  BY <1>1, AlwaysIInv, PTL

(* FleetsAndMissions: an open mission has units, and in the end a unit has *)
(* an open mission or none, and a carrier that exists or none.             *)
THEOREM NobodyIsLeftBehind == Spec => []FleetsAndMissions
<1>1. IInv => FleetsAndMissions
  <2>1. SUFFICES ASSUME IInv PROVE FleetsAndMissions
    OBVIOUS
  <2>2. CASE pc = "over"
    BY <2>1, <2>2 DEF IInv, Settled
  <2>3. CASE pc # "over"
    BY <2>1, <2>3 DEF IInv, Manned, FleetsAndMissions, Aboard
  <2> QED
    BY <2>2, <2>3
<1> QED
  BY <1>1, AlwaysIInv, PTL

(* ConqueredIsCleared: what stood on a conquered planet of its owner and   *)
(* its allies is gone, but for what they captured in the fight.            *)
THEOREM NobodyIsConqueredOver == Spec => []ConqueredIsCleared
<1>1. IInv => ConqueredIsCleared
  <2>1. SUFFICES ASSUME IInv PROVE ConqueredIsCleared
    OBVIOUS
  <2>2. outcome = "won" => pc = "over"
    BY <2>1 DEF IInv, Mine
  <2> QED
    BY <2>1, <2>2 DEF IInv, Settled, ConqueredIsCleared
<1> QED
  BY <1>1, AlwaysIInv, PTL
================================================================================
