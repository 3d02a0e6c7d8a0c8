------------------------------ MODULE MCArena ------------------------------
(***************************************************************************)
(* What is played, and what a client does with it: a round, a weapon, the  *)
(* danger zone, collisions, the stream of a round to a client, the input   *)
(* of a player, the scene, the moment that is drawn, the sounds, the       *)
(* device they come out of, the power-ups of the map, and the page.        *)
(* They share no variable: a behaviour is one of them, chosen at the       *)
(* start, and the others stay as they are.                                 *)
(***************************************************************************)
EXTENDS Round, Weapon, ZoneClock, Geometry, Stream, Controls, Scene, Picture, Audio,
    Device, PowerUpSpawns, Screen, TLC

VARIABLE part

arenaVars == <<part, roundVars, weaponVars, zoneVars, geometryVars, streamVars,
               inputVars, sceneVars, pictureVars, audioVars, deviceVars, supplyVars,
               screenVars>>

\* The supplies of every other part.
NoSupplies ==
    /\ driver = [d \in Drivers |-> Nowhere]
    /\ lying = {} /\ walls = {} /\ lastTick = QuietTick

ArenaInit ==
    /\ part \in {"round", "weapon", "zone", "geometry", "stream", "input", "scene", "picture", "sound", "device",
                "supply", "screen"}
    /\ RoundInit /\ WeaponInit /\ StreamInit /\ InputInit /\ SceneInit /\ PictureInit
    /\ DeviceInit /\ ScreenInit
    /\ IF part = "supply" THEN SupplyInit ELSE NoSupplies
    /\ part # "screen" => visible = 0
    /\ IF part = "sound" THEN AudioInit
       ELSE /\ match = Unheard /\ audio = NoAudio("none") /\ sounds = << >>
            /\ panel = [changes |-> MaxChanges] /\ stored = [here |-> 1, sent |-> {}]
    /\ IF part = "zone" THEN ZoneInit ELSE zone = Scaled(Created(4, 0)) /\ elapsed = 0
    /\ IF part = "geometry" THEN GeometryInit
       ELSE /\ body = "shot" /\ phase = "clear" /\ dir = [x |-> 0, y |-> 0]
            /\ at = [x |-> 0, y |-> 0] /\ was = at

\* Bound: in a round a tank leaves or shields are raised, not both.
LeaverOrShields ==
    round'.players = Tanks \/ round'.lastShield = [p \in Tanks |-> -ShieldCooldown]

ArenaNext ==
    /\ UNCHANGED part
    /\ \/ part = "round" /\ RoundNext /\ LeaverOrShields
          /\ UNCHANGED <<weaponVars, zoneVars, geometryVars, streamVars, inputVars,
                      sceneVars, pictureVars, audioVars, deviceVars, supplyVars, screenVars>>
       \/ part = "weapon" /\ WeaponNext
          /\ UNCHANGED <<roundVars, zoneVars, geometryVars, streamVars, inputVars,
                      sceneVars, pictureVars, audioVars, deviceVars, supplyVars, screenVars>>
       \/ part = "zone" /\ ZoneStep
          /\ UNCHANGED <<roundVars, weaponVars, geometryVars, streamVars, inputVars,
                      sceneVars, pictureVars, audioVars, deviceVars, supplyVars, screenVars>>
       \/ part = "geometry" /\ GeometryNext
          /\ UNCHANGED <<roundVars, weaponVars, zoneVars, streamVars, inputVars,
                      sceneVars, pictureVars, audioVars, deviceVars, supplyVars, screenVars>>
       \/ part = "stream" /\ StreamNext
          /\ UNCHANGED <<roundVars, weaponVars, zoneVars, geometryVars, inputVars,
                      sceneVars, pictureVars, audioVars, deviceVars, supplyVars, screenVars>>
       \/ part = "input" /\ InputNext
          /\ UNCHANGED <<roundVars, weaponVars, zoneVars, geometryVars, streamVars,
                      sceneVars, pictureVars, audioVars, deviceVars, supplyVars, screenVars>>
       \/ part = "scene" /\ SceneNext
          /\ UNCHANGED <<roundVars, weaponVars, zoneVars, geometryVars, streamVars,
                      inputVars, pictureVars, audioVars, deviceVars, supplyVars, screenVars>>
       \/ part = "picture" /\ PictureNext
          /\ UNCHANGED <<roundVars, weaponVars, zoneVars, geometryVars, streamVars,
                      inputVars, sceneVars, audioVars, deviceVars, supplyVars, screenVars>>
       \/ part = "sound" /\ AudioNext
          /\ UNCHANGED <<roundVars, weaponVars, zoneVars, geometryVars, streamVars,
                      inputVars, sceneVars, pictureVars, deviceVars, supplyVars, screenVars>>
       \/ part = "device" /\ DeviceNext
          /\ UNCHANGED <<roundVars, weaponVars, zoneVars, geometryVars, streamVars,
                      inputVars, sceneVars, pictureVars, audioVars, supplyVars, screenVars>>
       \/ part = "supply" /\ SupplyNext
          /\ UNCHANGED <<roundVars, weaponVars, zoneVars, geometryVars, streamVars,
                      inputVars, sceneVars, pictureVars, audioVars, deviceVars, screenVars>>
       \/ part = "screen" /\ ScreenNext
          /\ UNCHANGED <<roundVars, weaponVars, zoneVars, geometryVars, streamVars,
                      inputVars, sceneVars, pictureVars, audioVars, deviceVars, supplyVars>>

ArenaSpec == ArenaInit /\ [][ArenaNext]_arenaVars

\* What is to be heard is heard: sounds and the device they come out of.
SoundsAreHeard == SoundsAreKept /\ DeviceRecovers

\* Places are where they should be: shots and tanks outside of obstacles, and
\* power-ups where they can be seen, reached and taken one by one.
CollisionsHold == SweepAgrees /\ LeftClear /\ SuppliesHold

\* The page shows what happens: every tank that dies explodes, the camera follows
\* somebody alive, the game fills its place, and nothing stays when it is left.
SceneAgrees == TanksExplode /\ CameraFollows /\ GameFits /\ DisplayIsReleased

-----------------------------------------------------------------------------
MCSchedule == PrizesFor(8) \* two places are rewarded, as among eight players
MCDamage  == [shell |-> {1}, laser |-> {1}, grenade |-> {2}]
MCLoadout == [p \in Tanks |-> CASE p = 1 -> "laser" [] p = 2 -> "shell" [] OTHER -> "grenade"]
MCZone    == [warning |-> 0, damage |-> 1, target |-> 3, hold |-> 1, shrink |-> 1,
              initial |-> 10, final |-> 4, sudden |-> 1]
MCStats ==
    [standard    |-> [magazine |-> 3, cooldown |-> 1, reload |-> 3, active |-> 2, pattern |-> 1],
     triple_shot |-> [magazine |-> 2, cooldown |-> 1, reload |-> 3, active |-> 4, pattern |-> 3],
     laser       |-> [magazine |-> 2, cooldown |-> 2, reload |-> 0, active |-> 1, pattern |-> 1]]
MCDuration == [standard |-> 0, triple_shot |-> 4, laser |-> 0]
MCBox      == [left |-> 6, right |-> 14, top |-> 7, bottom |-> 11]
MCCover    == <<"wood", "bush", "mirror">>
MCCoverHp  == <<2, 1, 9>>
MCKind     == <<"shell", "laser", "grenade">>
MCWalls    == {[left |-> 860, right |-> 960, soft |-> FALSE],
               [left |-> 270, right |-> 310, soft |-> TRUE]}
MCPaces    == {-80, 0, 80}
MCRules    == [radius |-> 18, pickup |-> 45, tank |-> 30, between |-> 250,
               fromPlayer |-> 180, fromStart |-> 180]
MCPlayers  == <<"p", "me", "q">>
MCStrides  == {-7, -3, -1, 0, 2, 5}
=============================================================================
