--------------------------------- MODULE MCCombat ---------------------------------
(* Instances of Combat for TLC: ann comes to a planet of bob, or of nobody, *)
(* where cat, his ally, and eve, nobody's ally, may have units.            *)
EXTENDS Combat

MCUser == {"ann", "bob", "cat", "eve"}
MCAlliance == [u \in MCUser |-> IF u \in {"bob", "cat"} THEN "north" ELSE "none"]
MCType == {"ground", "heavy", "air"}
MCUnit == {"tank", "guard", "raider", "sapper"}
MCTypeOf == ("tank" :> "heavy") @@ ("guard" :> "ground") @@ ("raider" :> "air")
                @@ ("sapper" :> "ground")
MCParent == "heavy" :> "ground"
Stat(a, s, h, p, c) ==
    [attack |-> a, shield |-> s, health |-> h, points |-> p, charge |-> c]
MCStats == ("tank" :> Stat(4, 4, 6, 3, 5)) @@ ("guard" :> Stat(3, 2, 10, 2, 0))
               @@ ("raider" :> Stat(3, 0, 5, 1, 2)) @@ ("sapper" :> Stat(5, 0, 4, 1, 0))

(* Ground units cannot hit raiders; tanks are good against guards.         *)
MCAttackRule == "ground" :> <<[on |-> "raider", can |-> FALSE], [on |-> "air", can |-> TRUE]>>
MCCriticalAttack == "heavy" :> <<[on |-> "guard", times |-> 2]>>
MCCaptureRule == <<"air", "ground">> :> [chance |-> 50, percent |-> 100]
MCActive == [u \in MCUser |-> IF u = "cat" THEN {"storm"} ELSE {}]
MCBypassRule == {<<"storm", "ground">>}
MCImprovement ==
    [u \in MCUser |-> [k \in {"attack", "shield", "health"} |->
        [t \in MCType |-> IF u = "ann" /\ k = "attack" /\ t = "ground" THEN 50 ELSE 0]]]

Stack(u, unit, n, m, c) == [user |-> u, unit |-> unit, count |-> n, mission |-> m, carrier |-> c]
Mission(u, type, near) == [user |-> u, type |-> type, near |-> near, resolved |-> FALSE]

Place(type, ours, theirs, landlord, full) ==
    [rows |-> ours @@ theirs,
     missions |-> [m \in {1} \cup ({theirs[i].mission : i \in DOMAIN theirs} \ {None}) |->
                      CASE m = 1 -> Mission("ann", type, FALSE)
                        [] m = 2 -> Mission("cat", "DEPLOYED", FALSE)
                        [] m = 3 -> Mission("eve", "CONQUEST", TRUE)
                        [] m = 4 -> Mission("ann", "DEPLOYED", FALSE)
                        [] m = 5 -> Mission("eve", "CONQUEST", FALSE)],
     owner |-> landlord, refused |-> full]

Fleets ==
    {(1 :> Stack("ann", "tank", 2, 1, None)) @@ (2 :> Stack("ann", "raider", 2, 1, 1)),
     (1 :> Stack("ann", "raider", 4, 1, None)),
     (1 :> Stack("ann", "guard", 1, 1, None)) @@ (2 :> Stack("ann", "raider", 1, 1, 1))}
Garrisons ==
    {(3 :> Stack("bob", "guard", 2, None, None)) @@ (4 :> Stack("cat", "tank", 2, 2, None))
        @@ (5 :> Stack("cat", "raider", 2, 2, None)),
     (3 :> Stack("bob", "raider", 2, None, None)) @@ (4 :> Stack("ann", "guard", 1, 4, None)),
     (3 :> Stack("bob", "guard", 1, None, None)) @@ (4 :> Stack("bob", "raider", 3, None, 3))
        @@ (5 :> Stack("eve", "raider", 2, 3, None))}
Wild ==
    {(3 :> Stack("eve", "guard", 1, 5, None)),
     (3 :> Stack("cat", "guard", 1, 2, None)) @@ (4 :> Stack("ann", "tank", 1, 4, None))}

MCScenario ==
    {Place(type, f, g, "bob", full) :
        type \in {"ATTACK", "CONQUEST", "GATHER"}, f \in Fleets, g \in Garrisons, full \in BOOLEAN}
      \cup {Place(type, f, g, None, full) :
        type \in {"ESTABLISH_BASE", "CONQUEST"}, f \in Fleets, g \in Wild, full \in BOOLEAN}

(* A sapper beside a tank against one stack of guards.                     *)
Sappers ==
    {Place("CONQUEST", (1 :> Stack("ann", "tank", 1, 1, None)) @@ (2 :> Stack("ann", "sapper", n, 1, None)),
           3 :> Stack("bob", "guard", g, None, None), "bob", FALSE) : n \in 1 .. 3, g \in 1 .. 3}
================================================================================
