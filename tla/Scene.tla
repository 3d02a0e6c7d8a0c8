-------------------------------- MODULE Scene --------------------------------
(***************************************************************************)
(* What a player of a round is shown (game-scene.ts): the last snapshot is *)
(* drawn at every frame, what happened to a tank is told from two drawn    *)
(* snapshots (state-change-tracker.ts), and one who is out watches the     *)
(* others (spectator-camera-controller.ts, spectator-follow.ts).           *)
(*                                                                         *)
(* Of a tank it matters whether it is in the round and alive; shots and    *)
(* obstacles are in Stream, and the places in between in Picture.          *)
(* Development rooms, the words and the drawing are left out.              *)
(***************************************************************************)
EXTENDS Integers, Sequences, FiniteSets, SequencesExt

CONSTANTS
    Players,       \* in the order of the snapshots
    Viewer,        \* the one that looks
    MaxJoins       \* bound

ASSUME PlayersAssumption == Players \in Seq(STRING) /\ "none" \notin ToSet(Players)

VARIABLES
    played,  \* at the server: status, alive, dead; and whose end is still to be told
    scene,  \* GameScene and SpectatorCameraController
    latest, \* the last snapshot
    memory, \* StateChangeTracker: what was drawn last, and who is remembered
    host,   \* GameHostComponent
    joins,
    told    \* history: who was drawn alive, and who exploded, since the viewer joined

sceneVars == <<played, scene, latest, memory, host, joins, told>>

Everybody    == ToSet(Players)
Unseen == [alive |-> {}, dead |-> {}, status |-> "none"]
\* resetRoundRenderState.
Fresh  == [open |-> TRUE, joined |-> FALSE, out |-> FALSE, spectating |-> FALSE, target |-> "none",
           free |-> FALSE, dragged |-> FALSE, follows |-> TRUE, leaves |-> FALSE]
Closed == [Fresh EXCEPT !.open = FALSE]
NothingDrawn  == [drawn |-> Unseen, known |-> {}]
Untold == [alive |-> {}, exploded |-> {}]

SceneInit ==
    /\ played = [alive |-> Everybody, dead |-> {}, status |-> "playing", parted |-> {}]
    /\ scene = Closed /\ latest = Unseen /\ memory = NothingDrawn
    /\ host = [button |-> FALSE] /\ joins = 0 /\ told = Untold

clientVars == <<scene, latest, memory, host, joins, told>>

-----------------------------------------------------------------------------
(* The round, as Round and Rooms have it. *)

Falls(p) ==
    /\ played.status = "playing" /\ p \in played.alive
    /\ played' = [played EXCEPT !.alive = @ \ {p}, !.dead = @ \cup {p}] /\ UNCHANGED clientVars
Departs(p) ==
    /\ p \in (played.alive \cup played.dead) \ {Viewer}
    /\ played' = [played EXCEPT !.alive = @ \ {p}, !.dead = @ \ {p}, !.parted = @ \cup {p}]
    /\ UNCHANGED clientVars
Ends ==
    /\ played.status = "playing" /\ played' = [played EXCEPT !.status = "finished"]
    /\ scene' = [scene EXCEPT !.leaves = scene.open]
    /\ UNCHANGED <<latest, memory, host, joins, told>>

-----------------------------------------------------------------------------
(* The spectator. *)

\* findAliveSpectatorTarget: the next one alive after the current one in the order of
\* the players, or before it, and from the other end when there is none.
NextAlive(s, current, direction) ==
    LET alive  == {i \in DOMAIN Players : Players[i] \in s.alive}
        from   == CASE current \in s.alive \cup s.dead -> CHOOSE i \in DOMAIN Players : Players[i] = current
                    [] direction = 1 -> 0
                    [] OTHER         -> Len(Players) + 1
        beyond == {i \in alive : i * direction > from * direction}
        among  == IF beyond = {} THEN alive ELSE beyond
    IN  IF alive = {} THEN "none" ELSE Players[IF direction = 1 THEN Min(among) ELSE Max(among)]

\* setSpectatorMode.
Spectating(sc, active) ==
    IF sc.spectating = active THEN sc
    ELSE [sc EXCEPT !.spectating = active, !.target = "none", !.free = FALSE, !.dragged = FALSE,
                    !.follows = @ /\ ~active]

\* Mutant: one who falls is still followed.
FollowingMutant(sc, s) ==
    IF sc.free \/ sc.target # "none" THEN sc
    ELSE LET next == NextAlive(s, sc.target, 1)
         IN  [sc EXCEPT !.target = next, !.follows = next # "none"]
\* updateSpectatorFollow.
Following(sc, s) ==
    IF sc.free \/ sc.target \in s.alive THEN sc
    ELSE LET next == NextAlive(s, sc.target, 1)
         IN  [sc EXCEPT !.target = next, !.follows = next # "none"]

Cycle(direction) ==
    /\ scene.open /\ scene.spectating
    /\ LET next == NextAlive(memory.drawn, scene.target, direction)
       IN  /\ next # "none"
           /\ scene' = [scene EXCEPT !.free = FALSE, !.target = next, !.follows = TRUE]
    /\ UNCHANGED <<played, latest, memory, host, joins, told>>

DragStarts ==
    /\ scene.open /\ scene.spectating /\ ~scene.dragged
    /\ scene' = [scene EXCEPT !.dragged = TRUE, !.free = TRUE, !.target = "none", !.follows = FALSE]
    /\ UNCHANGED <<played, latest, memory, host, joins, told>>
DragEnds ==
    /\ scene.dragged /\ scene' = [scene EXCEPT !.dragged = FALSE]
    /\ UNCHANGED <<played, latest, memory, host, joins, told>>

-----------------------------------------------------------------------------
(* The scene. *)

OpenScene ==
    /\ ~scene.open /\ joins < MaxJoins /\ scene' = Fresh
    /\ latest' = Unseen /\ memory' = NothingDrawn /\ told' = Untold /\ UNCHANGED <<played, host, joins>>

\* cleanupSocketListeners, and ngOnDestroy of the host.
CloseScene ==
    /\ scene.open /\ scene' = Closed /\ host' = [button |-> FALSE]
    /\ UNCHANGED <<played, latest, memory, joins, told>>
\* The end of the round, a lost membership or another tab.
ReturnToLobby == scene.leaves /\ CloseScene

\* gameJoined: of a new round, or of the same one after a reconnection.
Joined ==
    /\ scene.open /\ joins < MaxJoins /\ joins' = joins + 1
    /\ \/ played.status = "playing" /\ UNCHANGED played
       \/ played' = [alive |-> Everybody, dead |-> {}, status |-> "playing", parted |-> {}]
    /\ scene' = [Fresh EXCEPT !.joined = TRUE, !.leaves = scene.leaves]
    /\ latest' = Unseen /\ memory' = NothingDrawn /\ told' = Untold /\ host' = [button |-> FALSE]

OnGameState ==
    /\ scene.joined
    /\ latest' = [alive |-> played.alive, dead |-> played.dead, status |-> played.status]
    /\ UNCHANGED <<played, scene, memory, host, joins, told>>

Forgotten(p) == memory.known \cap {p}
OnPlayerDisconnected(p) ==
    /\ scene.joined /\ p \in played.parted
    /\ played' = [played EXCEPT !.parted = @ \ {p}]
    /\ told' = [told EXCEPT !.exploded = @ \cup Forgotten(p)]
    /\ memory' = [memory EXCEPT !.known = @ \ {p}] /\ UNCHANGED <<scene, latest, host, joins>>

\* check: who is remembered alive and is dead or gone explodes.
Exploding(s) == {p \in memory.known : p \in memory.drawn.alive /\ p \notin s.alive}

\* update.
DrawScene ==
    /\ scene.joined /\ latest # Unseen
    /\ LET s   == latest
           out == scene.out \/ (s.status = "playing" /\ Viewer \in s.dead)
           sc  == Spectating([scene EXCEPT !.out = out], out)
       IN  /\ scene' = IF out THEN Following(sc, s) ELSE sc
           /\ host' = [button |-> out]
           /\ told' = [alive |-> told.alive \cup s.alive, exploded |-> told.exploded \cup Exploding(s)]
           /\ memory' = [drawn |-> s, known |-> s.alive \cup s.dead]
    /\ UNCHANGED <<played, latest, joins>>

SceneNext ==
    \/ \E p \in Everybody : Falls(p) \/ Departs(p) \/ OnPlayerDisconnected(p)
    \/ Ends \/ OpenScene \/ CloseScene \/ ReturnToLobby \/ Joined \/ OnGameState \/ DrawScene
    \/ \E direction \in {1, -1} : Cycle(direction)
    \/ DragStarts \/ DragEnds

SceneSpec == SceneInit /\ [][SceneNext]_sceneVars
-----------------------------------------------------------------------------
(* Properties. *)

\* A tank that was drawn alive is drawn alive or has exploded, and only a tank that is
\* dead or gone explodes, in whatever order its death, its departure, the message that
\* tells it and the snapshots are drawn (state-change-tracker.ts:86-135, 221-223).
TanksExplode ==
    /\ told.alive \subseteq memory.drawn.alive \cup told.exploded
    /\ scene.joined => told.exploded \cap played.alive = {}

\* The camera follows the viewer who plays, and for one who is out somebody that was
\* drawn alive, unless it was dragged away or nobody is left; the button to leave is
\* shown exactly to one who is out (game-scene.ts:451-497).
CameraFollows ==
    /\ host.button = scene.spectating
    /\ scene.spectating \/ (scene.follows /\ scene.target = "none")
    /\ scene.spectating =>
           scene.follows = (scene.target # "none") /\ scene.target \in memory.drawn.alive \cup {"none"}
    /\ scene.spectating /\ ~scene.follows => scene.free \/ memory.drawn.alive = {}
=============================================================================
