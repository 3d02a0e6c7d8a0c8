---------------------------- MODULE PowerUpSpawns ----------------------------
(***************************************************************************)
(* The power-ups that lie on the map: power-up-spawn.service.ts and what   *)
(* processPowerUpSpawns and processPlayers of game-loop.service.ts do with *)
(* them, on a map that is one line.  Whether nextPowerUpSpawnAt has come   *)
(* and the draws of Math.random are choices: an attempt finds some valid   *)
(* place or, after thirty bad draws, none.  Rounds start without power-ups;*)
(* a wall may be shot down, soft cover is in nobody's way.                 *)
(***************************************************************************)
EXTENDS Integers, FiniteSets

CONSTANTS
    Drivers,      \* players, in the order of the Map
    Length,       \* map.width
    StartPlaces,  \* map.spawnPoints
    Walls,        \* obstacles: [left, right, soft], soft for isSoftCoverObstacle
    Spots,        \* bound: places that are drawn
    Paces,        \* how far a tank may get in a tick; 0 while its beam lasts
    Rules         \* power-up.config.ts and PLAYER_RADIUS

VARIABLES
    driver,   \* where each player is; a dead one stays in players
    lying,    \* map.powerUps
    walls,    \* map.obstacles
    lastTick  \* history: the most a player took in the last tick, and whether one
              \* was taken in the tick it appeared

supplyVars == <<driver, lying, walls, lastTick>>

Apart(a, b) == IF a > b THEN a - b ELSE b - a
OffWall(x, wall) == IF x < wall.left THEN wall.left - x ELSE IF x > wall.right THEN x - wall.right ELSE 0
Largest(S) == CHOOSE n \in S : \A m \in S : m <= n
Nowhere   == [x |-> 0, alive |-> FALSE, here |-> FALSE]
QuietTick == [most |-> 0, early |-> FALSE]

SupplyInit ==
    /\ driver \in [Drivers -> [x : StartPlaces, alive : {TRUE}, here : {TRUE}]]
    /\ lying = {} /\ walls = Walls /\ lastTick = QuietTick

Present == {d \in Drivers : driver[d].here}

-----------------------------------------------------------------------------
(* trySpawn. *)

\* overlapsBlockingObstacle.
OverlapsBlocking(x, wall) == ~wall.soft /\ OffWall(x, wall) <= Rules.radius

\* Mutant: power-ups may lie next to each other.
ValidSpawnMutant(x) ==
    /\ Rules.radius <= x /\ x <= Length - Rules.radius
    /\ \A d \in Present : Apart(x, driver[d].x) >= Rules.fromPlayer
    /\ \A s \in StartPlaces : Apart(x, s) >= Rules.fromStart
    /\ \A wall \in walls : ~OverlapsBlocking(x, wall)

\* isValidSpawn.
ValidSpawn(x) ==
    /\ Rules.radius <= x /\ x <= Length - Rules.radius
    /\ \A d \in Present : Apart(x, driver[d].x) >= Rules.fromPlayer
    /\ \A p \in lying : Apart(x, p) >= Rules.between
    /\ \A s \in StartPlaces : Apart(x, s) >= Rules.fromStart
    /\ \A wall \in walls : ~OverlapsBlocking(x, wall)

\* Of players.size, dead ones included.
Capacity == LET n == Cardinality(Present) IN IF n <= 4 THEN 3 ELSE IF n <= 8 THEN 4 ELSE 8

\* createPowerUp, at each place it may come to lie.
Draws == IF Cardinality(lying) >= Capacity THEN {} ELSE {x \in Spots : ValidSpawn(x)}

\* processPowerUpSpawns: what may be pushed in a tick.
Spawns == {{}} \cup {{x} : x \in Draws}

-----------------------------------------------------------------------------
(* processPlayers. *)

\* clampPlayerToBounds.
ClampedToMap(x) ==
    IF x < Rules.tank THEN Rules.tank ELSE IF x > Length - Rules.tank THEN Length - Rules.tank ELSE x

\* resolvePlayerVsObstacle, for one that comes from beside the wall.
PutBack(x, from, wall) ==
    IF wall.soft \/ OffWall(x, wall) >= Rules.tank THEN x
    ELSE IF from < wall.left THEN wall.left - Rules.tank ELSE wall.right + Rules.tank

Arrivals(d) ==
    IF ~(driver[d].here /\ driver[d].alive) THEN {driver[d].x}
    ELSE {LET x == ClampedToMap(driver[d].x + pace)
              hit == {wall \in walls : PutBack(x, driver[d].x, wall) # x}
          IN  IF hit = {} THEN x ELSE PutBack(x, driver[d].x, CHOOSE wall \in hit : TRUE)
          : pace \in Paces}

\* isPickupValid.
PickupValid(x, p) == Apart(x, p) <= Rules.pickup

\* A power-up goes to the first player of the Map who is near it.
TakenBy(place, d, there) ==
    IF ~(driver[d].here /\ driver[d].alive) THEN {}
    ELSE {p \in there : /\ PickupValid(place[d], p)
                        /\ \A e \in Present : e < d /\ driver[e].alive => ~PickupValid(place[e], p)}

SupplyTick ==
    \E new \in Spawns : \E place \in [Drivers -> UNION {Arrivals(d) : d \in Drivers}] :
        /\ \A d \in Drivers : place[d] \in Arrivals(d)
        /\ LET taken == [d \in Drivers |-> TakenBy(place, d, lying \cup new)]
           IN  /\ driver' = [d \in Drivers |-> [driver[d] EXCEPT !.x = place[d]]]
               /\ lying' = (lying \cup new) \ UNION {taken[d] : d \in Drivers}
               /\ lastTick' = [most |-> Largest({Cardinality(taken[d]) : d \in Drivers}),
                               early |-> \E d \in Drivers : new \cap taken[d] # {}]
        /\ UNCHANGED walls

-----------------------------------------------------------------------------
\* The rest of a tick: a player dies, or a wall is destroyed.
DriverDies(d) ==
    /\ driver[d].here /\ driver[d].alive /\ driver' = [driver EXCEPT ![d].alive = FALSE]
    /\ UNCHANGED <<lying, walls, lastTick>>

WallFalls(wall) ==
    /\ wall \in walls /\ ~wall.soft /\ walls' = walls \ {wall}
    /\ UNCHANGED <<driver, lying, lastTick>>

\* removePlayer.
DriverLeaves(d) ==
    /\ driver[d].here /\ driver' = [driver EXCEPT ![d] = Nowhere]
    /\ UNCHANGED <<lying, walls, lastTick>>

SupplyNext ==
    \/ SupplyTick
    \/ \E d \in Drivers : DriverDies(d) \/ DriverLeaves(d)
    \/ \E wall \in walls : WallFalls(wall)

-----------------------------------------------------------------------------
\* Where the centre of a tank may be.
Standable(x) ==
    /\ Rules.tank <= x /\ x <= Length - Rules.tank
    /\ \A wall \in walls : wall.soft \/ OffWall(x, wall) >= Rules.tank

\* The distances of power-up.config.ts work together: a tank never takes two
\* power-ups in one tick, of which it would lose the first; nobody takes one in
\* the tick it appears, before he could have seen it, however fast he goes; every
\* one that lies there can be taken from some place a tank can be; and there are
\* never more of them than a map of this size is to have.
SuppliesHold ==
    /\ lastTick.most <= 1 /\ ~lastTick.early
    /\ \A p \in lying : \E x \in (p - Rules.pickup)..(p + Rules.pickup) : Standable(x)
    /\ Cardinality(lying) <= 3
=============================================================================
