-------------------------------- MODULE Lobby --------------------------------
(***************************************************************************)
(* What the lobby shows of a user's room, and what the server holds        *)
(* (lobby.controller.ts, queue-status.service.ts,                          *)
(* match-start-redirect.service.ts, game-asset-preloader.service.ts and    *)
(* the room messages of game.gateway.ts).                                  *)
(*                                                                         *)
(* One user and one tab; another tab may take the seat.  Of a room it      *)
(* matters which one it is, its status, and whether the user administers   *)
(* it; the other members move it as Rooms says they can.  Messages that a  *)
(* handler sends together travel as one.  The list of rooms, notices and   *)
(* the words of errors are left out.                                       *)
(***************************************************************************)
EXTENDS Integers, Sequences

CONSTANTS
    Nowhere,
    MaxUp, MaxDown, MaxReplies, \* bounds on messages and awaited replies
    MaxEvents, Preparations     \* bounds on what the user, the network and others do

\* What the lobby may show of a room.
LobbyRooms == [id: {"public", "private"}, status: {"waiting", "countdown", "in_game", "finished"},
               admin: BOOLEAN]
MaybeRoom  == LobbyRooms \cup {Nowhere}

ASSUME LobbyAssumption == Nowhere \notin LobbyRooms

VARIABLES
    net,     \* the connection, and the messages under way
    page,    \* LobbyController
    queue,   \* QueueStatusService
    assets,  \* GameAssetPreloaderService
    seat,    \* the room of the user at the server, and the socket of the member
    hashing, \* a create or a join whose password is hashed
    replies, \* what awaits Redis, which answers in order
    unseen,  \* the server has not noticed yet that the connection was lost
    crossed, \* an answer about the seat came too late, or never: what was awaited for
             \* long has overtaken the last one, or Redis rejected its command
    events   \* of the user, the network and others, so far

lobbyVars == <<net, page, queue, assets, seat, hashing, replies, unseen, crossed, events>>

Room(id, status, admin) == [id |-> id, status |-> status, admin |-> admin]
Unseated == [room |-> Nowhere, by |-> "nobody"]
NewPage  == [open |-> TRUE, room |-> Nowhere, searching |-> FALSE, preparing |-> FALSE,
             awaited |-> {}, canceled |-> FALSE, dialog |-> "none", pending |-> FALSE,
             starting |-> FALSE, error |-> FALSE]
NoPage   == [NewPage EXCEPT !.open = FALSE]
NoHash   == [kind |-> "none", live |-> FALSE]
NewQueue == [room |-> Nowhere, starting |-> FALSE]

LobbyInit ==
    /\ net = [conn |-> "off", up |-> << >>, down |-> << >>] /\ page = NoPage /\ queue = NewQueue
    /\ assets = [ready |-> FALSE, current |-> 0, loading |-> {}, aborted |-> {}]
    /\ seat = Unseated /\ hashing = NoHash /\ replies = << >>
    /\ unseen = FALSE /\ crossed = FALSE /\ events = 0

serverVars == <<seat, hashing, replies, unseen, crossed>>

\* Messages that are sent while the socket is off wait for it.
Emits(m) == Len(net.up) < MaxUp /\ net' = [net EXCEPT !.up = Append(@, m)]
Happens == events < MaxEvents /\ events' = events + 1

-----------------------------------------------------------------------------
(* GameAssetPreloaderService. *)

CanPrepare == assets.ready \/ assets.current # 0 \/ assets.loading # Preparations
Prepared ==
    IF assets.ready \/ assets.current # 0 THEN assets
    ELSE LET p == CHOOSE q \in Preparations \ assets.loading : TRUE
         IN  [assets EXCEPT !.current = p, !.loading = @ \cup {p}]
Canceled ==
    IF assets.ready THEN assets
    ELSE [assets EXCEPT !.aborted = @ \cup ({assets.current} \ {0}), !.current = 0]

\* A preparation is over: one that was aborted fails.  A quick play that awaits it goes on.
PreparationEnds(p, ok) ==
    /\ p \in assets.loading /\ (ok => p \notin assets.aborted)
    /\ assets' = [ready   |-> assets.ready \/ ok,
                  current |-> IF assets.current = p THEN 0 ELSE assets.current,
                  loading |-> assets.loading \ {p}, aborted |-> assets.aborted \ {p}]
    /\ IF p \notin page.awaited THEN UNCHANGED <<net, page>>
       ELSE IF ok
       THEN /\ Emits("quickPlay")
            /\ page' = [page EXCEPT !.awaited = @ \ {p}, !.preparing = FALSE, !.searching = TRUE]
       ELSE /\ page' = [page EXCEPT !.awaited = @ \ {p}, !.preparing = @ /\ page.canceled,
                                    !.error = @ \/ ~page.canceled]
            /\ UNCHANGED net
    /\ UNCHANGED <<queue, serverVars, events>>

-----------------------------------------------------------------------------
(* The page. *)

\* ngOnInit; its socket connects again if the server had closed it.
OpenLobby ==
    /\ ~page.open /\ page' = NewPage /\ Len(net.up) < MaxUp
    /\ net' = [net EXCEPT !.conn = IF @ = "closed" THEN "off" ELSE @, !.up = Append(@, "getState")]
    /\ UNCHANGED <<queue, assets, serverVars, events>>

\* ngOnDestroy.
CloseLobby ==
    /\ Happens /\ page.open /\ page' = NoPage /\ assets' = Canceled
    /\ UNCHANGED <<net, queue, serverVars>>

QuickPlay ==
    /\ Happens /\ page.open /\ ~page.preparing /\ ~page.searching /\ page.room = Nowhere
    /\ LET asked == [page EXCEPT !.canceled = FALSE, !.error = FALSE]
       IN  IF assets.ready
           THEN Emits("quickPlay") /\ page' = [asked EXCEPT !.searching = TRUE] /\ UNCHANGED assets
           ELSE /\ CanPrepare /\ assets' = Prepared /\ UNCHANGED net
                /\ page' = [asked EXCEPT !.preparing = TRUE, !.awaited = @ \cup {assets'.current}]
    /\ UNCHANGED <<queue, serverVars>>

ShowsActions ==
    page.room = Nowhere /\ ~page.preparing /\ ~page.searching /\ ~page.pending /\ ~page.error

\* openRoomDialog, closeRoomDialog and submitRoomAction.
Dialog(mode) ==
    /\ page.open /\ UNCHANGED <<net, queue, assets, serverVars, events>>
    /\ \/ ShowsActions /\ mode # "none" /\ page' = [page EXCEPT !.dialog = mode]
       \/ ~page.pending /\ mode = "none" /\ page' = [page EXCEPT !.dialog = "none"]
SubmitRoomAction ==
    /\ Happens /\ page.open /\ page.dialog # "none" /\ ~page.pending
    /\ page' = [page EXCEPT !.pending = TRUE, !.error = FALSE]
    /\ Emits(page.dialog) /\ UNCHANGED <<queue, assets, serverVars>>

Startable(room) == room # Nowhere /\ room.id = "private" /\ room.status = "waiting" /\ room.admin

\* startPrivateRoom, on the page or on the floating panel of the other pages.
StartPrivateRoom ==
    /\ Happens /\ Emits("start") /\ UNCHANGED <<assets, serverVars>>
    /\ \/ page.open /\ Startable(page.room) /\ ~page.starting
          /\ page' = [page EXCEPT !.error = FALSE, !.starting = TRUE] /\ UNCHANGED queue
       \/ /\ ~page.open /\ Startable(queue.room) /\ ~queue.starting
          /\ queue' = [queue EXCEPT !.starting = TRUE] /\ UNCHANGED page

LeaveRoom ==
    /\ Happens /\ page.open /\ (page.preparing \/ page.searching \/ page.room # Nowhere)
    /\ IF page.preparing
       THEN /\ page' = [page EXCEPT !.canceled = TRUE, !.preparing = FALSE]
            /\ assets' = Canceled /\ UNCHANGED net
       ELSE /\ page' = [page EXCEPT !.searching = FALSE, !.starting = FALSE]
            /\ Emits("leave") /\ UNCHANGED assets
    /\ UNCHANGED <<queue, serverVars>>

-----------------------------------------------------------------------------
(* Messages of the server. *)

\* updateRoom and clearRoom of the queue.
Queued(room) == [room |-> room, starting |-> queue.starting /\ room.status = "waiting"]

OnJoined(room) ==
    /\ page.open => CanPrepare
    /\ page' = IF page.open THEN [page EXCEPT !.room = room, !.searching = FALSE, !.pending = FALSE,
                                              !.dialog = "none"] ELSE page
    /\ assets' = IF page.open THEN Prepared ELSE assets
    /\ queue' = Queued(room)

\* A page ignores the state of a room that is not its own.
OnStateUpdated(room) ==
    /\ page' = IF page.room # Nowhere /\ page.room.id = room.id
               THEN [page EXCEPT !.room = room, !.searching = FALSE,
                                 !.starting = @ /\ room.status # "countdown"] ELSE page
    /\ queue' = Queued(room) /\ UNCHANGED assets

\* The countdown is started, updated or cancelled.
OnCountdown(room) ==
    /\ page' = IF page.open THEN [page EXCEPT !.room = room, !.searching = FALSE, !.starting = FALSE]
               ELSE page
    /\ queue' = Queued(room) /\ UNCHANGED assets

OnClosed ==
    /\ page' = [page EXCEPT !.room = Nowhere, !.starting = FALSE]
    /\ queue' = NewQueue /\ UNCHANGED assets
OnLeft == page' = [page EXCEPT !.room = Nowhere] /\ queue' = NewQueue /\ UNCHANGED assets
OnReplaced ==
    /\ page' = [page EXCEPT !.room = Nowhere, !.error = FALSE]
    /\ queue' = NewQueue /\ UNCHANGED assets

\* gameStarted takes the user to the game; the state of the room follows.
OnStarted(room) ==
    /\ page' = NoPage /\ queue' = [NewQueue EXCEPT !.room = room]
    /\ assets' = IF page.open THEN Canceled ELSE assets

\* An error is of the dialog while its request is pending.
OnError ==
    /\ page' = IF ~page.open THEN page
               ELSE [page EXCEPT !.starting = FALSE, !.searching = FALSE,
                                 !.pending = @ /\ page.dialog = "none",
                                 !.error = @ \/ page.dialog = "none" \/ ~page.pending]
    /\ queue' = [queue EXCEPT !.starting = FALSE] /\ UNCHANGED assets

Deliver ==
    /\ net.down # << >>
    /\ LET m == Head(net.down)
       IN  /\ CASE m.is = "joined"    -> OnJoined(m.room)
                [] m.is = "state"     -> OnStateUpdated(m.room)
                [] m.is = "countdown" -> OnCountdown(m.room)
                [] m.is = "started"   -> OnStarted(m.room)
                [] m.is = "closed"    -> OnClosed
                [] m.is = "left"      -> OnLeft
                [] m.is = "replaced"  -> OnReplaced
                [] OTHER              -> OnError
           /\ net' = IF m.is = "replaced" THEN [conn |-> "closed", up |-> << >>, down |-> << >>]
                     ELSE [net EXCEPT !.down = Tail(@)]
    /\ UNCHANGED <<serverVars, events>>

-----------------------------------------------------------------------------
(* The connection. *)

\* What waited is sent, then the queue asks for the state.
AsksMutant(up) == up
Asks(up) == Append(up, "getState")
Connected ==
    /\ net.conn = "off"
    /\ net' = [net EXCEPT !.conn = "on", !.up = Asks(@)]
    /\ UNCHANGED <<page, queue, assets, serverVars, events>>

\* External: the connection is lost; the server notices it later.
Dropped ==
    /\ net.conn = "on" /\ ~unseen /\ Happens
    /\ net' = [conn |-> "off", up |-> << >>, down |-> << >>] /\ unseen' = TRUE
    /\ seat' = IF seat.by = "current" THEN [seat EXCEPT !.by = "old"] ELSE seat
    /\ hashing' = [hashing EXCEPT !.live = FALSE]
    /\ replies' = [i \in DOMAIN replies |-> [replies[i] EXCEPT !.live = FALSE]]
    /\ UNCHANGED <<page, queue, assets, crossed>>

-----------------------------------------------------------------------------
(* The server: messages of the tab. *)

clientVars == <<page, queue, assets>>

Says(is, room) == Append(net.down, [is |-> is, room |-> room])
Tells(is, room) == net' = [net EXCEPT !.up = Tail(@), !.down = Says(is, room)]
Refuses == Tells("error", Nowhere) /\ UNCHANGED <<seat, hashing, replies, crossed, events>>
Awaits(is, room) == replies' = Append(replies, [is |-> is, room |-> room, live |-> TRUE])
Takes == net' = [net EXCEPT !.up = Tail(@)]

\* reconnect: the socket takes the member over.
Reconnects ==
    /\ seat' = [seat EXCEPT !.by = "current"] /\ Tells("joined", seat.room)
    /\ UNCHANGED <<hashing, replies, events>>

GetRoomState ==
    /\ crossed' = FALSE
    /\ IF seat.room = Nowhere THEN Tells("left", Nowhere) /\ UNCHANGED <<seat, hashing, replies, events>>
       ELSE Reconnects

ServeQuickPlay ==
    \/ Refuses
    \/ seat.room # Nowhere /\ Reconnects /\ UNCHANGED crossed
    \/ /\ seat.room = Nowhere /\ Takes
       /\ \E status \in {"waiting", "countdown"} :
             seat' = [room |-> Room("public", status, FALSE), by |-> "current"]
       /\ Awaits("joined", seat'.room) /\ UNCHANGED <<hashing, crossed, events>>

\* createPrivate and joinPrivate, up to the password.
ServeRoomAction(kind) ==
    \/ Refuses
    \/ /\ kind = "join" /\ seat.room # Nowhere /\ seat.room.id = "private"
       /\ Reconnects /\ UNCHANGED crossed
    \/ /\ seat.room = Nowhere /\ hashing = NoHash /\ Takes
       /\ hashing' = [kind |-> kind, live |-> TRUE] /\ UNCHANGED <<seat, replies, crossed, events>>

ServeLeave ==
    IF seat.room = Nowhere
    THEN Tells("left", Nowhere) /\ UNCHANGED <<seat, hashing, replies, crossed, events>>
    ELSE /\ Takes /\ seat' = Unseated /\ Awaits("left", Nowhere)
         /\ UNCHANGED <<hashing, crossed, events>>

\* startGame: a private room, by its administrator, with enough members connected.
ServeStart ==
    \/ (seat.room # Nowhere /\ seat.room.id = "private" =>
            seat.room.status \in {"finished", "waiting"}) /\ Refuses
    \/ /\ seat.room # Nowhere /\ seat.room.id = "private"
       /\ seat.room.status \in {"countdown", "in_game"}
       /\ Takes /\ UNCHANGED <<seat, hashing, replies, crossed, events>>
    \/ /\ Startable(seat.room)
       /\ seat' = [seat EXCEPT !.room.status = "countdown"]
       /\ IF seat.by = "current" THEN Tells("countdown", seat'.room) ELSE Takes
       /\ UNCHANGED <<hashing, replies, crossed, events>>

Serve ==
    /\ net.conn = "on" /\ net.up # << >> /\ Len(net.down) < MaxDown /\ Len(replies) < MaxReplies
    /\ CASE Head(net.up) = "getState"  -> GetRoomState
         [] Head(net.up) = "quickPlay" -> ServeQuickPlay
         [] Head(net.up) \in {"create", "join"} -> ServeRoomAction(Head(net.up))
         [] Head(net.up) = "leave" -> ServeLeave
         [] Head(net.up) = "start" -> ServeStart
    /\ UNCHANGED <<clientVars, unseen>>

-----------------------------------------------------------------------------
(* The server: what it awaited. *)

Replies(live, is, room) ==
    net' = IF live /\ net.conn = "on" THEN [net EXCEPT !.down = Says(is, room)] ELSE net

\* The password is hashed: join asks again where the user is.
PasswordChecked ==
    /\ hashing # NoHash /\ hashing' = NoHash
    /\ Len(net.down) < MaxDown /\ Len(replies) < MaxReplies
    /\ \/ Replies(hashing.live, "error", Nowhere) /\ UNCHANGED <<seat, replies, crossed>>
       \/ /\ seat.room = Nowhere
          /\ seat' = [room |-> Room("private", "waiting", hashing.kind = "create"),
                      by   |-> IF hashing.live THEN "current" ELSE "old"]
          /\ replies' = Append(replies, [is |-> "joined", room |-> seat'.room, live |-> hashing.live])
          /\ crossed' = (crossed \/ ~hashing.live) /\ UNCHANGED net
    /\ UNCHANGED <<clientVars, unseen, events>>

\* A later answer of Redis is to tell this socket of the room that is held.
Outstanding(room, awaited) ==
    \E i \in DOMAIN awaited :
        /\ awaited[i].live
        /\ IF room = Nowhere THEN awaited[i].is = "left"
           ELSE awaited[i].is = "joined" /\ awaited[i].room.id = room.id

\* Redis answers: to a join, whose room may begin to count down and tells all its sockets,
\* the joining one or the one that took its place meanwhile; to a leave; or to the end of a
\* connection, after which the user leaves whatever room that is by then, unless the public
\* room that was lost has begun its round.
RedisReplies ==
    /\ replies # << >> /\ replies' = Tail(replies) /\ Len(net.down) < MaxDown
    /\ LET r == Head(replies)
           here == r.room # Nowhere /\ seat.room # Nowhere /\ seat.room.id = r.room.id
           Overtakes(stale) == crossed' = (crossed \/ (r.live /\ stale /\ ~Outstanding(seat.room, replies')))
       IN  CASE r.is = "joined" ->
                   /\ \/ UNCHANGED seat
                      \/ /\ here /\ seat.room.id = "public" /\ seat.room.status = "waiting"
                         /\ seat' = [seat EXCEPT !.room.status = "countdown"]
                   /\ IF r.live THEN Replies(TRUE, "joined", IF here THEN seat'.room ELSE r.room)
                      ELSE Replies(here /\ seat.by = "current",
                                   IF seat' = seat THEN "state" ELSE "countdown", seat'.room)
                   /\ Overtakes(~here)
             [] r.is = "left" ->
                   Replies(r.live, "left", Nowhere) /\ UNCHANGED seat /\ Overtakes(seat.room # Nowhere)
             [] OTHER ->
                   /\ \/ ~(here /\ seat.room.status = "in_game") /\ seat' = Unseated
                      \/ ~(here /\ seat.room.status # "in_game") /\ UNCHANGED seat
                   /\ crossed' = TRUE /\ UNCHANGED net
    /\ UNCHANGED <<clientVars, hashing, unseen, events>>

\* Redis rejects a command.  Of a join the socket is told an error although the user is
\* seated; only a room that was to be created is destroyed again, without a word to its
\* members (the private room that is held may be another by now).  Of a leave nobody is
\* told anything the page listens to.  Of the end of a connection nothing more happens.
RedisRejects ==
    /\ replies # << >> /\ replies' = Tail(replies) /\ Len(net.down) < MaxDown
    /\ LET r == Head(replies)
           created == r.is = "joined" /\ r.room.admin /\ seat.room # Nowhere /\ seat.room.id = r.room.id
           told == Outstanding(seat'.room, replies')
       IN  /\ UNCHANGED seat \/ (created /\ seat' = Unseated)
           /\ Replies(r.is = "joined" /\ r.live, "error", Nowhere)
           /\ crossed' = (crossed \/ seat' # seat \/ (r.is # "away" /\ r.live /\ ~told))
    /\ UNCHANGED <<clientVars, hashing, unseen, events>>

\* disconnect, of the socket that was lost: nothing if another took the member over.
Disconnects ==
    /\ unseen /\ unseen' = FALSE
    /\ IF seat.by # "old" THEN UNCHANGED <<seat, replies>>
       ELSE /\ seat' = [seat EXCEPT !.by = "nobody"]
            /\ IF seat.room.id = "private" THEN UNCHANGED replies
               ELSE Len(replies) < MaxReplies /\ Awaits("away", seat.room)
    /\ UNCHANGED <<net, clientVars, hashing, crossed, events>>

-----------------------------------------------------------------------------
(* The server: what others do to the room. *)

Moves(is, room) ==
    /\ Happens
    /\ seat' = IF room = Nowhere THEN Unseated ELSE [seat EXCEPT !.room = room]
    /\ IF seat.by = "current" /\ net.conn = "on"
       THEN Len(net.down) < MaxDown /\ net' = [net EXCEPT !.down = Says(is, room)] ELSE UNCHANGED net

RoomMoves ==
    /\ seat.room # Nowhere
    /\ LET r == seat.room
       IN  \/ r.status = "waiting" /\ ~r.admin /\ Moves("countdown", [r EXCEPT !.status = "countdown"])
           \/ r.status = "countdown" /\ Moves("countdown", [r EXCEPT !.status = "waiting"])
           \/ /\ r.status = "countdown"
              /\ IF r.id = "private" /\ seat.by = "nobody" THEN Moves("left", Nowhere)
                 ELSE Moves("started", [r EXCEPT !.status = "in_game"])
           \/ r.status = "in_game" /\ Moves("state", [r EXCEPT !.status = "finished"])
           \/ /\ r.status = "finished"
              /\ IF r.id = "public" THEN Moves("left", Nowhere)
                 ELSE Moves("state", [r EXCEPT !.status = "waiting"])
           \/ r.status = "waiting" /\ r.id = "private" /\ Moves("closed", Nowhere)
           \/ r.id = "private" /\ ~r.admin /\ Moves("state", [r EXCEPT !.admin = TRUE])
           \/ seat.by = "nobody" /\ Moves("left", Nowhere)
    /\ UNCHANGED <<clientVars, hashing, replies, unseen, crossed>>

\* Another tab asks for the state: this one is told and disconnected.
TakenOver ==
    /\ seat.by = "current" /\ net.conn = "on" /\ Happens
    /\ Len(net.down) < MaxDown
    /\ seat' = [seat EXCEPT !.by = "other"]
    /\ net' = [conn |-> "closing", up |-> << >>, down |-> Says("replaced", Nowhere)]
    /\ hashing' = [hashing EXCEPT !.live = FALSE]
    /\ replies' = [i \in DOMAIN replies |-> [replies[i] EXCEPT !.live = FALSE]]
    /\ UNCHANGED <<clientVars, unseen, crossed>>

LobbyNext ==
    \/ OpenLobby \/ CloseLobby \/ QuickPlay \/ SubmitRoomAction \/ StartPrivateRoom \/ LeaveRoom
    \/ \E mode \in {"create", "join", "none"} : Dialog(mode)
    \/ \E p \in Preparations, ok \in BOOLEAN : PreparationEnds(p, ok)
    \/ Deliver \/ Connected \/ Dropped \/ Serve
    \/ PasswordChecked \/ RedisReplies \/ RedisRejects \/ Disconnects \/ RoomMoves \/ TakenOver

LobbySpec == LobbyInit /\ [][LobbyNext]_lobbyVars
-----------------------------------------------------------------------------
(* Properties. *)

Quiet == net.conn = "on" /\ net.up = << >> /\ net.down = << >> /\ hashing = NoHash /\ replies = << >>

\* Once nothing is under way, the page and the floating panel show the room the server
\* holds for the user, and its status, and its messages reach this socket: whatever
\* quick plays, dialogs, leaves, lost connections and other tabs crossed before
\* (lobby.controller.ts:61-108, queue-status.service.ts:55-85).  What an earlier
\* connection left behind, a join that answers after its room was closed, or a command
\* that Redis rejects (an error to a user who is seated, no answer to one who left)
\* excuses it until the state is asked for again.
RoomShown ==
    Quiet /\ ~crossed =>
        /\ queue.room = seat.room /\ (page.open => page.room = seat.room)
        /\ seat.room # Nowhere => seat.by = "current"
=============================================================================
