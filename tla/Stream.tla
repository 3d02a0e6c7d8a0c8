------------------------------- MODULE Stream -------------------------------
(***************************************************************************)
(* What one client sees of a round.  The loop damages obstacles, ends      *)
(* shots and spawns power-ups; it tells every change of an obstacle when   *)
(* it happens and everything else in a periodic snapshot, at one rate for  *)
(* players and another for watchers (game-loop.service.ts).  The client    *)
(* applies what arrives in order (game-scene.ts) and derives effects from  *)
(* the latest snapshot at every frame (state-change-tracker.ts).           *)
(*                                                                         *)
(* Where shots fly is a choice; Socket.IO delivers in order until the      *)
(* connection is lost, and the client then joins again.                    *)
(***************************************************************************)
EXTENDS Integers, Turns, FiniteSets

CONSTANTS
    Type, Hp,              \* of each obstacle, in the order of map.obstacles
    Kind,                  \* of each shot that may be fired, in this order
    PowerUps, PowerUpLimit,
    BeamDamage, ShotDamage, Pierces,
    PlayersEvery, WatchersEvery, \* broadcast intervals, in ticks
    StreamTicks, MaxQueue, \* bounds
    Nothing

ASSUME StreamAssumption ==
    /\ Type \in Seq({"bush", "decoration", "wood", "rock", "mirror", "steel"})
    /\ Hp \in [DOMAIN Type -> Nat] /\ Kind \in Seq({"shell", "laser", "grenade"})
    /\ BeamDamage \in Nat /\ ShotDamage \in Nat /\ Pierces \in Nat
    /\ PlayersEvery \in Nat \ {0} /\ WatchersEvery \in Nat \ {0}

VARIABLES
    arena,   \* map.obstacles, map.powerUps, bullets, impactEvents
    pending, \* pendingWatcherImpactEvents
    ticks,
    alive,   \* the tank of the client, if it plays, is part of the snapshots
    role,    \* the Socket.IO room the client is in
    queue,   \* messages under way to the client
    client

streamVars == <<arena, pending, ticks, alive, role, queue, client>>

Shots     == DOMAIN Kind
SoftCover == {o \in DOMAIN Type : Type[o] \in {"bush", "decoration"}}
Breakable == {o \in DOMAIN Type : Type[o] \in {"bush", "wood", "rock"}}
Standing(a) == DOMAIN a.field

\* resetRoundRenderState; shown and known are the history of the effects shown
\* at the end of a shot, and of the shots drawn.
NewView == [latest |-> Nothing, ready |-> FALSE, seen |-> {}, played |-> {},
            shown |-> [b \in Shots |-> 0], known |-> {}]
NoMap   == [field |-> << >>, powerUps |-> {}]

StreamInit ==
    /\ arena = [field |-> Hp, powerUps |-> {}, unspawned |-> PowerUps, pierce |-> Pierces,
                flying |-> {}, fired |-> 0, impacts |-> {}, events |-> << >>]
    /\ pending = {} /\ ticks = 0 /\ alive = TRUE /\ role = "none" /\ queue = << >>
    /\ client = [map |-> NoMap, joined |-> FALSE, me |-> FALSE, view |-> NewView]

-----------------------------------------------------------------------------
(* The loop: what a shot does to the arena. *)

\* A field after an obstacle's health changed: at 0 the obstacle is gone.
WithHealth(field, o, hp) ==
    [p \in IF hp = 0 THEN DOMAIN field \ {o} ELSE DOMAIN field |->
        IF p = o THEN hp ELSE field[p]]

\* The change, and the event that tells it: DAMAGED, or DESTROYED at 0.
Told(a, o, hp) ==
    [a EXCEPT !.field = WithHealth(@, o, hp),
              !.events = Append(@, [type |-> "obstacle", id |-> o, hp |-> hp])]

\* applyObstacleDamage.
Damaged(a, o, damage) == Told(a, o, IF a.field[o] > damage THEN a.field[o] - damage ELSE 0)

BurntBush(a, o) == Told(a, o, 0)

\* processSegment: through the obstacles hit, nearest first.
Segment(beam, hits) ==
    LET through(b, o) ==
            CASE Type[o] = "bush"   -> [b EXCEPT !.arena = BurntBush(@, o)]
              [] Type[o] = "mirror" -> [b EXCEPT !.stopped = TRUE, !.mirror = o]
              [] Type[o] = "steel"  -> IF b.arena.pierce > 0
                                       THEN [b EXCEPT !.arena.pierce = @ - 1]
                                       ELSE [b EXCEPT !.stopped = TRUE]
              [] OTHER -> LET hit == Damaged(b.arena, o, BeamDamage)
                          IN  [b EXCEPT !.arena = hit, !.stopped = o \in Standing(hit)]
        meets(b, o) == IF b.stopped THEN b ELSE through(b, o)
    IN  InTurn(meets, beam, hits)

Lines(S) == {<<>>} \cup {<<o>> : o \in S} \cup {<<h[1], h[2]>> : h \in {i \in S \X S : i[1] # i[2]}}

\* processBeam: to the first mirror, and once beyond it.
Beams(a) ==
    LET crossed(b) == {o \in Standing(b) : Type[o] # "decoration"}
        straight == {Segment([arena |-> a, stopped |-> FALSE, mirror |-> Nothing], hits) :
                        hits \in Lines(crossed(a))}
    IN  UNION {IF first.mirror = Nothing THEN {first.arena}
               ELSE {Segment([first EXCEPT !.stopped = FALSE], hits).arena :
                        hits \in Lines(crossed(first.arena) \ {first.mirror})} : first \in straight}

Over(a, b)   == [a EXCEPT !.flying = @ \ {b}]
Impact(a, b) == [Over(a, b) EXCEPT !.impacts = @ \cup {b}] \* recordBulletImpact

\* explode, on the obstacles that its radius reaches, the last of the map first.
Exploded(a, S) ==
    LET blast(g, o) == IF o \in S \cap Standing(g) THEN Damaged(g, o, ShotDamage) ELSE g
        n == Len(Type)
    IN  InTurn(blast, a, [i \in 1..n |-> n + 1 - i])

\* processBullets, one shot: it flies on, or off a mirror; or it ends, at an
\* obstacle, at a tank or at the limit of its range.
AfterShot(a, b) ==
    {a} \cup
    CASE Kind[b] = "laser"   -> {Over(a, b)} \cup Beams(a)
      [] Kind[b] = "grenade" -> {Over(Exploded(a, S), b) :
                                    S \in SUBSET (Standing(a) \cap (Breakable \ SoftCover))}
      [] OTHER -> {Impact(a, b)} \cup
                  {Damaged(Impact(a, b), o, ShotDamage) : o \in Standing(a) \cap (Breakable \ SoftCover)}

\* Every shot that flies, in the order in which they were fired.
AfterShots(a) ==
    LET moved(S, b) == UNION {IF b \in g.flying THEN AfterShot(g, b) ELSE {g} : g \in S}
    IN  InTurn(moved, {a}, Numbered(a.fired))

\* trySpawn; tryPickupPowerUp; tryShoot.
Spawned(a) ==
    {a} \cup IF Cardinality(a.powerUps) >= PowerUpLimit THEN {}
             ELSE {[a EXCEPT !.powerUps = @ \cup {u}, !.unspawned = @ \ {u}] : u \in a.unspawned}
PickedUp(a) == {a} \cup {[a EXCEPT !.powerUps = @ \ {u}] : u \in a.powerUps}
Fires(a) ==
    {a} \cup IF a.fired = Cardinality(Shots) THEN {}
             ELSE {[a EXCEPT !.flying = @ \cup {a.fired + 1}, !.fired = @ + 1]}

-----------------------------------------------------------------------------
(* The loop: what it tells. *)

\* buildCurrentState.
Snapshot(a, events) ==
    [type |-> "state", shots |-> a.flying, impacts |-> events, powerUps |-> a.powerUps,
     me |-> alive' /\ role = "player"]

Due(every) == ticks' % every = 0

\* broadcastState.
Broadcast(a, events) ==
    IF role = "player" /\ Due(PlayersEvery) THEN <<Snapshot(a, a.impacts)>>
    ELSE IF role = "watcher" /\ Due(WatchersEvery) THEN <<Snapshot(a, events)>> ELSE << >>

StreamTick ==
    /\ ticks < StreamTicks /\ Len(queue) < MaxQueue /\ ticks' = ticks + 1
    /\ alive' \in {alive, FALSE}
    /\ \E s \in Spawned(arena) : \E p \in PickedUp(s) : \E f \in Fires(p) : \E a \in AfterShots(f) :
        LET events == pending \cup (a.impacts \ arena.impacts)
        IN  /\ arena' = [a EXCEPT !.events = << >>,
                                  !.impacts = IF Due(PlayersEvery) THEN {} ELSE @]
            /\ pending' = IF Due(WatchersEvery) THEN {} ELSE events
            /\ queue' = IF role = "none" THEN queue
                        ELSE queue \o a.events \o Broadcast(a, events)
    /\ UNCHANGED <<role, client>>

\* watchGame, and reconnect in a round (rooms.service.ts): the client leaves the
\* watchers when it gets a seat.
JoinStream(r) ==
    /\ role # r /\ role # "player" /\ (client.me => r = "player") /\ Len(queue) < MaxQueue
    /\ role' = r
    /\ queue' = queue \o <<
            [type |-> "joined", role |-> r, map |-> [field |-> arena.field, powerUps |-> arena.powerUps]],
            [type |-> "state", shots |-> arena.flying, impacts |-> arena.impacts,
             powerUps |-> arena.powerUps, me |-> alive /\ r = "player"]>>
    /\ UNCHANGED <<arena, pending, ticks, alive, client>>

\* External: the transport fails; the client connects and joins again.
ConnectionLost ==
    /\ role # "none" /\ role' = "none" /\ queue' = << >>
    /\ UNCHANGED <<arena, pending, ticks, alive, client>>

-----------------------------------------------------------------------------
(* The client. *)

Received == Head(queue)

\* onGameJoined and onWatchJoined: a delayed watch response does not replace a seat.
OnJoined ==
    /\ Received.type = "joined"
    /\ client' = IF Received.role = "watcher" /\ client.me THEN client
                 ELSE [map |-> Received.map, joined |-> TRUE,
                       me |-> Received.role = "player", view |-> NewView]

\* onGameState: nothing without a map.
OnState ==
    /\ Received.type = "state"
    /\ client' = IF ~client.joined THEN client
                 ELSE [client EXCEPT !.map.powerUps = Received.powerUps, !.view.latest = Received]

\* onObstacleDamaged and onObstacleDestroyed.
OnObstacle ==
    /\ Received.type = "obstacle"
    /\ client' = IF Received.id \notin DOMAIN client.map.field THEN client
                 ELSE [client EXCEPT !.map.field = WithHealth(@, Received.id, Received.hp)]

Receive ==
    /\ queue # << >> /\ queue' = Tail(queue)
    /\ OnJoined \/ OnState \/ OnObstacle
    /\ UNCHANGED <<arena, pending, ticks, alive, role>>

\* playBulletImpactEvents: what it plays, of the events of a snapshot.
HeardMutant(view, s) == IF view.ready /\ s.me THEN s.impacts ELSE {}
Heard(view, s) == IF view.ready /\ s.me THEN s.impacts \ view.played ELSE {}

\* playNewBulletSounds: the shots whose fire is heard, those that were not drawn before.
FireHeard(view, s) == IF view.ready /\ s.me THEN s.shots \ view.seen ELSE {}

\* A shot that is gone without an event of its own ends where it was last drawn.
Ended(view, s) ==
    {b \in view.seen \ s.shots : Kind[b] = "grenade" \/ (Kind[b] = "shell" /\ b \notin s.impacts)}

\* check.
Checked(view, s) ==
    [view EXCEPT
        !.ready = TRUE, !.seen = s.shots, !.played = @ \cup Heard(view, s),
        !.known = @ \cup s.shots,
        !.shown = [b \in Shots |-> @[b] + (IF b \in Heard(view, s) THEN 1 ELSE 0)
                                        + (IF b \in Ended(view, s) THEN 1 ELSE 0)]]

\* update, once per frame: on the latest snapshot, whether or not it is new.
Frame ==
    /\ client.view.latest # Nothing
    /\ client' = [client EXCEPT !.view = Checked(@, @.latest)]
    /\ UNCHANGED <<arena, pending, ticks, alive, role, queue>>

StreamNext ==
    \/ StreamTick \/ ConnectionLost \/ Receive \/ Frame
    \/ \E r \in {"player", "watcher"} : JoinStream(r)

StreamSpec == StreamInit /\ [][StreamNext]_streamVars
-----------------------------------------------------------------------------
(* Properties. *)

\* Obstacles are sent once and then only told change by change: when a client that
\* is connected has received all there is, its obstacles and their health are those
\* of the server, whenever it joined, came back or took a seat.
ObstaclesAgree ==
    role # "none" /\ queue = << >> => client.map.field = arena.field

\* The end of a shot is shown at most once, however many frames draw one snapshot
\* and however many snapshots fall between two frames; and while its tank takes
\* part, a player is shown the end of every shot it has seen fly.  No shot is heard to be
\* fired twice.
EffectsOnce ==
    \A b \in Shots :
        /\ client.view.shown[b] <= 1
        /\ alive /\ role = "player" /\ client.me /\ Kind[b] # "laser"
           /\ b \in client.view.known \ client.view.seen => client.view.shown[b] = 1
        /\ client.view.latest # Nothing /\ b \in client.view.known =>
               b \notin FireHeard(client.view, client.view.latest)

\* A client follows the round it watches: both of the above.
ClientAgrees == ObstaclesAgree /\ EffectsOnce
=============================================================================
