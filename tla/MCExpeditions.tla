----------------------------- MODULE MCExpeditions -----------------------------
(* Haulers and the tanks they carry leave home for the keep of a foe, that  *)
(* a radar and the mine of a pal watch, or for a moon of another galaxy.    *)
EXTENDS Expeditions

MCUser == {"me", "foe", "pal"}
MCPlanet == {"home", "keep", "base", "moon"}
MCUnit == {"hauler", "tank", "radar", "mine"}
MCType == {"ship", "armor", "army", "device"}
MCGroup == {"air", "land", "warp"}

MCOwner == [home |-> "me", keep |-> "foe", base |-> "pal", moon |-> None]
MCTypeOf == [hauler |-> "ship", tank |-> "armor", radar |-> "device", mine |-> "device"]
MCParent == [ship |-> None, armor |-> "army", army |-> None, device |-> None]
MCUnitGroup == [hauler |-> "air", tank |-> None, radar |-> None, mine |-> "warp"]
MCTypeGroup == [ship |-> None, armor |-> None, army |-> "land", device |-> None]
MCAny == [k \in Kind |-> "ANY"]
MCSupport ==
    [air |-> MCAny, land |-> [MCAny EXCEPT !["EXPLORE"] = "NONE"], warp |-> MCAny, ship |-> MCAny,
     armor |-> [MCAny EXCEPT !["EXPLORE"] = "NULL", !["CONQUEST"] = "OWNED_ONLY"],
     army |-> MCAny, device |-> MCAny]
MCIntercepts == [hauler |-> {}, tank |-> {}, radar |-> {"air"}, mine |-> {"air", "land"}]
MCStores == {<<"hauler", "tank">>}
MCCapacity == [hauler |-> 4, tank |-> 0, radar |-> 0, mine |-> 0]
MCWeight == [hauler |-> 0, tank |-> 2, radar |-> 0, mine |-> 0]
MCSpeed == [hauler |-> 50, tank |-> 30, radar |-> 20, mine |-> 0]
MCSpeedBonus == [ship |-> 40, armor |-> 0, army |-> 0, device |-> 0]
MCPosition ==
    [home |-> [galaxy |-> 1, sector |-> 1, quadrant |-> 1, number |-> 1],
     keep |-> [galaxy |-> 1, sector |-> 1, quadrant |-> 1, number |-> 5],
     base |-> [galaxy |-> 1, sector |-> 2, quadrant |-> 1, number |-> 2],
     moon |-> [galaxy |-> 2, sector |-> 1, quadrant |-> 1, number |-> 1]]
MCBaseTime == [k \in Kind |-> 60]
MCPenalty == [same |-> 20, quadrant |-> 30, sector |-> 40, galaxy |-> 50]
MCMoveCost == [planet |-> 50, quadrant |-> 100, sector |-> 200, galaxy |-> 400]

Stack(user, unit, count, planet, mission, expiration) ==
    [user |-> user, unit |-> unit, count |-> count, mission |-> mission,
     source |-> planet, target |-> IF mission = None THEN None ELSE "keep",
     expiration |-> expiration, carrier |-> None]
MCRows0 ==
    <<Stack("me", "hauler", 2, "home", None, None), Stack("me", "hauler", 1, "home", None, "day"),
      Stack("me", "tank", 3, "home", None, None), Stack("foe", "radar", 1, "keep", None, None),
      Stack("pal", "mine", 1, "base", 6, None)>>
MCMissions0 == 6 :> NewMission("pal", "DEPLOYED", "base", "keep", 0)
MCAllies0 == [me |-> None, foe |-> "pact", pal |-> "pact"]

Item(unit, count, inside, expiration) ==
    [unit |-> unit, count |-> count, inside |-> inside, expiration |-> expiration]
Ask(user, kind, source, target, wanted, units) ==
    [user |-> user, kind |-> kind, source |-> source, target |-> target, wanted |-> wanted,
     units |-> units]
MCOrder ==
    {Ask("me", "EXPLORE", "home", "keep", 0,
         <<Item("hauler", 1, 0, None), Item("tank", 2, 1, None)>>),
     Ask("me", "DEPLOY", "home", "keep", 0,
         <<Item("hauler", 1, 0, None), Item("tank", 1, 0, None)>>),
     Ask("me", "DEPLOY", "home", "keep", 90,
         <<Item("hauler", 1, 0, "day"), Item("tank", 2, 1, None)>>),
     Ask("me", "DEPLOY", "home", "moon", 0, <<Item("hauler", 1, 0, "day"),
                                              Item("hauler", 1, 0, None)>>),
     Ask("me", "DEPLOY", "keep", "home", 0, <<Item("tank", 1, 0, None)>>),
     Ask("me", "DEPLOY", "moon", "home", 0, <<Item("hauler", 1, 0, None)>>),
     Ask("foe", "CONQUEST", "keep", "home", 0, <<Item("radar", 1, 0, None)>>)}
MCPermits == {<<"me", "air">>}
MCExplored0 == {<<"me", "keep">>, <<"me", "moon">>, <<"foe", "home">>}
================================================================================
