------------------------------ MODULE MCAccounts ------------------------------
(* Three players, four planets: an alliance with two requests; one player; *)
(* two alliances, the owner of one of which had asked to join the other.   *)
EXTENDS Accounts, TLC

CONSTANTS alice, bob, carol, nobody, noAlliance, r1, r2

Row(a, home) == [alliance |-> a, home |-> home, last |-> 0, source |-> {"upgrade"}]

Owned(a, b, c) == "p1" :> a @@ "p2" :> b @@ "p3" :> c @@ "p4" :> nobody

Requests == Permutations(Request)

MCStart ==
    {[account |-> alice :> Row(1, "p1") @@ bob :> Row(noAlliance, "p2") @@ carol :> Row(noAlliance, "p3"),
      alliance |-> 1 :> alice,
      joins |-> 2 :> [alliance |-> 1, user |-> bob] @@ 3 :> [alliance |-> 1, user |-> carol],
      owner |-> Owned(alice, bob, carol),
      kept |-> [u \in User |-> IF u = carol THEN {"visited_tutorial_entries"} ELSE {"missions"}]],
     [account |-> alice :> Row(noAlliance, "p1"),
      alliance |-> [a \in {} |-> alice],
      joins |-> [j \in {} |-> 0],
      owner |-> Owned(alice, nobody, nobody),
      kept |-> [u \in User |-> {}]],
     [account |-> alice :> Row(1, "p1") @@ bob :> Row(2, "p2"),
      alliance |-> 1 :> alice @@ 2 :> bob,
      joins |-> 3 :> [alliance |-> 1, user |-> bob],
      owner |-> Owned(alice, bob, nobody),
      kept |-> [u \in User |-> {}]]}
===============================================================================
