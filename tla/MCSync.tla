-------------------------------- MODULE MCSync --------------------------------
(* Two players, the browser of one of them, a home each and a planet.      *)
EXTENDS Sync, TLC

CONSTANTS alice, bob, nobody, w1, w2, none

Trip(p, visible) == [user |-> alice, kind |-> "trip", source |-> "home_a", target |-> p,
                     visible |-> visible]
Of(u, kind, p) == [user |-> u, kind |-> kind, source |-> p, target |-> p, visible |-> TRUE]

Tables(rock, missions, known) ==
    [owner |-> ("home_a" :> alice @@ "home_b" :> bob @@ "rock" :> rock),
     mission |-> missions,
     listed |-> (alice :> {} @@ bob :> {"rock"}),
     explored |-> (alice :> {"home_a"} @@ bob :> known)]

Workers == Permutations(Worker)

MCOrders == {<<"home_a", "rock", TRUE>>, <<"rock", "home_a", FALSE>>}

MCStart ==
    {Tables(bob, 0 :> Trip("rock", TRUE) @@ -1 :> Of(bob, "build", "rock"), {"rock"}),
     Tables(nobody, 0 :> Trip("rock", TRUE) @@ -1 :> Of(bob, "deployed", "rock"), {})}
================================================================================
