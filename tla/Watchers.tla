------------------------------ MODULE Watchers ------------------------------
(***************************************************************************)
(* Which sockets the server holds and whom it tells how many look at a     *)
(* round: the connection handlers of the gateway (game.gateway.ts), the    *)
(* connections it counts for each address (socket-rate-limiter.service.ts) *)
(* and the watchers of a round (watcher-presence.service.ts).              *)
(*                                                                         *)
(* Who plays, and when a round starts or ends, is Rooms' and Round's: of   *)
(* them it matters which socket has a seat and who is alive.               *)
(***************************************************************************)
EXTENDS Integers, FiniteSets

CONSTANTS
    Sockets, User, Address,   \* functions of the socket
    Admins,                   \* users
    Tables,                   \* the rooms
    Aside, MaxConnections, MaxStarts \* the last is a bound

ASSUME WatchersAssumption == Aside \notin Sockets \cup Tables /\ MaxConnections \in Nat

VARIABLES
    link,     \* of each socket: none, checked (its token is being verified) or open
    counted,  \* SocketRateLimiterService.ipConnections
    meters,   \* GameGateway.statsSubscriptions
    watches,  \* socket.data.watchingRoomId, and the socket.io room of the watchers
    placed,   \* of each user: the room, its socket, whether its tank is alive
    live,     \* rooms with a session
    shown,    \* the count each socket was told last of each room
    due,      \* rooms whose count is to be told when a call to Redis returns
    starts,
    untold,   \* history: a socket and a room whose count changed, or may have, without its being told
    together  \* history: addresses two of whose sockets were being checked at once

watchersVars == <<link, counted, meters, watches, placed, live, shown, due, starts, untold, together>>

Users     == {User[s] : s \in Sockets}
Origins == {Address[s] : s \in Sockets}
NotShown  == -1
Absent    == [room |-> Aside, socket |-> Aside, alive |-> TRUE]

WatchersInit ==
    /\ link = [s \in Sockets |-> "none"] /\ counted = [a \in Origins |-> {}] /\ meters = {}
    /\ watches = [s \in Sockets |-> Aside] /\ placed = [u \in Users |-> Absent] /\ live = {}
    /\ shown = [p \in Sockets \X Tables |-> NotShown] /\ due = {} /\ starts = 0
    /\ untold = {} /\ together = {}

-----------------------------------------------------------------------------
(* WatcherPresenceService. *)

Seated(r, t)    == {t[u].socket : u \in {u \in Users : t[u].room = r}} \ {Aside}
Looking(r, w)   == {s \in Sockets : w[s] = r}
Audience(r, w, t) == Looking(r, w) \cup Seated(r, t)

\* count: watchers, and players whose tank is out.
Viewing(r, w, t, on) == Looking(r, w) \cup {s \in Seated(r, t) : r \in on /\ ~t[User[s]].alive}
Viewers(r, w, t, on) == Cardinality(Viewing(r, w, t, on))

\* broadcast and sendCurrent: who hears of which room.
Hears(rs, w, t) == {p \in Sockets \X (rs \ {Aside}) : p[1] \in Audience(p[2], w, t)}
Told(heard, w, t, on) ==
    [p \in Sockets \X Tables |-> IF p \in heard THEN Viewers(p[2], w, t, on) ELSE shown[p]]
Broadcast(rs, w, t, on) ==
    /\ shown' = Told(Hears(rs, w, t), w, t, on)
    /\ untold' = untold \ Hears(rs, w, t)

Calm == UNCHANGED <<link, counted, meters, together>>

\* join: the rooms it leaves and enters are told.
Joins(s, r) ==
    /\ watches' = [watches EXCEPT ![s] = r]
    /\ Broadcast({watches[s], r}, watches', placed, live)

\* watchGame: administrators only, of a room with a session.
WatchGame(s, r) ==
    /\ link[s] = "open" /\ User[s] \in Admins /\ r \in live
    /\ Joins(s, r)
    /\ UNCHANGED <<placed, live, due, starts>> /\ Calm

-----------------------------------------------------------------------------
(* Rooms and rounds. *)

\* A member sits down: stopWatching, then it is entered.
TakeSeat(s, r) ==
    LET u == User[s]
    IN  /\ link[s] = "open" /\ placed[u].room = Aside /\ r \notin live
        /\ watches' = [watches EXCEPT ![s] = Aside]
        /\ placed' = [placed EXCEPT ![u] = [room |-> r, socket |-> s, alive |-> TRUE]]
        /\ Broadcast({watches[s]}, watches', placed', live)
        /\ UNCHANGED <<live, due, starts>> /\ Calm

\* startGame: those who have a seat are told.
StartRound(r) ==
    /\ r \notin live /\ starts < MaxStarts /\ starts' = starts + 1 /\ Seated(r, placed) # {}
    /\ live' = live \cup {r}
    /\ placed' = [u \in Users |-> IF placed[u].room = r THEN [placed[u] EXCEPT !.alive = TRUE] ELSE placed[u]]
    /\ LET heard == Seated(r, placed) \X {r}
       IN  /\ shown' = Told(heard, watches, placed', live')
           /\ untold' = (untold \cup (Looking(r, watches) \X {r})) \ heard
    /\ UNCHANGED <<watches, due>> /\ Calm

\* publishPendingEliminations.
Eliminated(u) ==
    LET r == placed[u].room
    IN  /\ r \in live /\ placed[u].alive /\ placed' = [placed EXCEPT ![u].alive = FALSE]
        /\ Broadcast({r}, watches, placed', live)
        /\ UNCHANGED <<watches, live, due, starts>> /\ Calm

\* A round ends: its members stay, or their room is released.
EndRound(r, released) ==
    /\ r \in live /\ live' = live \ {r}
    /\ placed' = [u \in Users |-> IF released /\ placed[u].room = r THEN Absent ELSE placed[u]]
    /\ UNCHANGED <<watches, shown, due, starts, untold>> /\ Calm

\* leave: nobody is told.
LeaveTable(u) ==
    LET r == placed[u].room
    IN  /\ r # Aside /\ placed' = [placed EXCEPT ![u] = Absent]
        /\ untold' = untold \cup (IF placed[u].alive THEN {} ELSE Audience(r, watches, placed') \X {r})
        /\ UNCHANGED <<watches, live, shown, due, starts>> /\ Calm

-----------------------------------------------------------------------------
(* Connections. *)

ConnectionAllowed(a) == Cardinality(counted[a]) < MaxConnections
WithConnection(s)    == [counted EXCEPT ![Address[s]] = @ \cup {s}]

\* The middleware: the limit is looked at before the token is.
ConnectSocket(s) ==
    LET a == Address[s]
    IN  /\ link[s] = "none" /\ ConnectionAllowed(a)
        /\ link' = [link EXCEPT ![s] = "checked"]
        /\ together' = IF \E o \in Sockets : link[o] = "checked" /\ Address[o] = a
                       THEN together \cup {a} ELSE together
        /\ UNCHANGED <<counted, meters, watches, placed, live, shown, due, starts, untold>>
\* handleConnection, or a token that is refused.
TokenChecked(s, ok) ==
    /\ link[s] = "checked" /\ link' = [link EXCEPT ![s] = IF ok THEN "open" ELSE "none"]
    /\ counted' = IF ok THEN WithConnection(s) ELSE counted
    /\ UNCHANGED <<meters, watches, placed, live, shown, due, starts, untold, together>>

\* subscribeAdminStats and unsubscribeAdminStats.
SubscribeStats(s) ==
    /\ link[s] = "open" /\ User[s] \in Admins /\ meters' = meters \cup {s}
    /\ UNCHANGED <<link, counted, watches, placed, live, shown, due, starts, untold, together>>
UnsubscribeStats(s) ==
    /\ s \in meters /\ meters' = meters \ {s}
    /\ UNCHANGED <<link, counted, watches, placed, live, shown, due, starts, untold, together>>

\* handleDisconnect, of one socket.
ForgottenMutant(s) == UNCHANGED <<counted, meters>> /\ link' = [link EXCEPT ![s] = "none"]
Forgotten(s) ==
    /\ link' = [link EXCEPT ![s] = "none"] /\ meters' = meters \ {s}
    /\ counted' = [counted EXCEPT ![Address[s]] = @ \ {s}]

\* What the page of a socket that is gone has shown.
PagesGone(ss, told) == [p \in Sockets \X Tables |-> IF p[1] \in ss THEN NotShown ELSE told[p]]

\* The room of its user is told once disconnect has returned.
DisconnectSocket(s) ==
    LET u == User[s]  r == placed[u].room
    IN  /\ link[s] = "open" /\ Forgotten(s)
        /\ watches' = [watches EXCEPT ![s] = Aside]
        /\ placed' = IF placed[u].socket = s THEN [placed EXCEPT ![u].socket = Aside] ELSE placed
        /\ due' = due \cup ({r} \ {Aside})
        /\ LET heard == Hears({watches[s]}, watches', placed')
               stale == IF placed[u].socket = s /\ ~placed[u].alive THEN Audience(r, watches', placed') \X {r} ELSE {}
           IN  /\ shown' = PagesGone({s}, Told(heard, watches', placed', live))
               /\ untold' = ((untold \cup stale) \ heard) \ ({s} \X Tables)
        /\ UNCHANGED <<live, starts, together>>
Refresh(r) ==
    /\ r \in due /\ due' = due \ {r} /\ Broadcast({r}, watches, placed, live)
    /\ UNCHANGED <<watches, placed, live, starts>> /\ Calm

\* reconnect: the socket that had the seat is closed, and of the room only the new one is
\* told, besides what either has watched.
ReturnToSeat(s) ==
    LET u == User[s]  r == placed[u].room  old == placed[u].socket
    IN  /\ link[s] = "open" /\ r # Aside /\ old # s
        /\ watches' = [o \in Sockets |-> IF o \in {s, old} THEN Aside ELSE watches[o]]
        /\ placed' = [placed EXCEPT ![u].socket = s]
        /\ IF old = Aside THEN UNCHANGED <<link, counted, meters, due>>
           ELSE Forgotten(old) /\ due' = due \cup {r}
        /\ LET heard == Hears({watches[o] : o \in {s, old} \ {Aside}}, watches', placed')
                            \cup (IF r \in live THEN {<<s, r>>} ELSE {})
               stale == IF placed[u].alive THEN {} ELSE Audience(r, watches', placed') \X {r}
           IN  /\ shown' = PagesGone({old}, Told(heard, watches', placed', live))
               /\ untold' = ((untold \cup stale) \ heard) \ ({old} \X Tables)
        /\ UNCHANGED <<live, starts, together>>

WatchersNext ==
    \/ \E s \in Sockets, r \in Tables : WatchGame(s, r) \/ TakeSeat(s, r)
    \/ \E r \in Tables : StartRound(r) \/ Refresh(r) \/ \E released \in BOOLEAN : EndRound(r, released)
    \/ \E u \in Users : Eliminated(u) \/ LeaveTable(u)
    \/ \E s \in Sockets : \/ ConnectSocket(s) \/ DisconnectSocket(s) \/ ReturnToSeat(s)
                          \/ SubscribeStats(s) \/ UnsubscribeStats(s)
                          \/ \E ok \in BOOLEAN : TokenChecked(s, ok)

WatchersSpec == WatchersInit /\ [][WatchersNext]_watchersVars
-----------------------------------------------------------------------------
(* Properties. *)

\* Who plays in a round or watches it knows how many look on: the count it was told is
\* that of the moment, unless one who is out left or came back (which nobody else is
\* told), a new round began under its watchers, or the news waits for Redis
\* (watcher-presence.service.ts:21-83).
CountIsShown ==
    \A r \in live : \A s \in Audience(r, watches, placed) :
        <<s, r>> \notin untold => shown[<<s, r>>] = Viewers(r, watches, placed, live)

\* What is kept for a socket is kept as long as it is open, whichever way it is closed;
\* and an address exceeds its limit only with sockets whose tokens were verified at the
\* same time (game.gateway.ts:72-151).
SocketsCounted ==
    /\ \A a \in Origins : counted[a] = {s \in Sockets : link[s] = "open" /\ Address[s] = a}
    /\ \A s \in meters : link[s] = "open"
    /\ \A u \in Users : placed[u].socket # Aside => link[placed[u].socket] = "open"
    /\ \A a \in Origins : Cardinality(counted[a]) <= MaxConnections \/ a \in together
=============================================================================
