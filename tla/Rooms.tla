------------------------------- MODULE Rooms -------------------------------
(***************************************************************************)
(* The room lifecycle of backend/src/rooms/rooms.service.ts in production  *)
(* mode, with the handlers of game.gateway.ts that drive it.               *)
(*                                                                         *)
(* Node runs a handler without interruption up to its next `await`, so one *)
(* action is one such stretch.  A suspended call is kept as data:          *)
(*   redisQ    calls awaiting a Redis reply (one ioredis connection, hence *)
(*             resumed in the order they were suspended);                  *)
(*   creating  createPrivate, hashing the password or awaiting Redis;      *)
(*   joining   joinPrivate, checking the password;                         *)
(*   starting  startGame, awaiting tankCustomization.getMany;              *)
(*   saving    onFinished, awaiting matches.persist.                       *)
(* A timer is a flag (or a member of `grace`) and an action that may fire  *)
(* at any time while it is armed.  Room identifiers are UUIDs, so a room   *)
(* object and its identifier are the same thing here and a destroyed one   *)
(* is never created again; its object is kept, since suspended calls still *)
(* hold it.  Public rooms are numbered in the order of their creation.     *)
(***************************************************************************)
EXTENDS Naturals, FiniteSets, Sequences

CONSTANTS
    Users, Sockets,
    Owner,            \* the user a socket is authenticated as
    PublicRooms, PrivateRooms,
    Names, NameOf,    \* normalized names; the name of each private room
    MinPlayers, MaxPlayers,
    Stamps,           \* bound: distinct disconnection instants in use
    MaxInFlight,      \* bound: calls awaiting Redis at once
    RedisFaults,      \* whether Redis may reject an awaited command
    NoUser, NoRoom, NoSocket

Rooms == PublicRooms \cup PrivateRooms

ASSUME RoomsAssumption ==
    /\ IsFiniteSet(Users) /\ Owner \in [Sockets -> Users]
    /\ PublicRooms \subseteq Nat /\ PrivateRooms \subseteq Nat
    /\ PublicRooms \cap PrivateRooms = {}
    /\ NameOf \in [PrivateRooms -> Names]
    /\ MinPlayers \in Nat /\ MaxPlayers \in Nat
    /\ 1 <= MinPlayers /\ MinPlayers <= MaxPlayers
    /\ Stamps \subseteq Nat \ {0} /\ MaxInFlight \in Nat
    /\ RedisFaults \in BOOLEAN
    /\ NoUser \notin Users /\ NoRoom \notin Rooms /\ NoSocket \notin Sockets

VARIABLES
    live,      \* keys of `rooms`
    room,      \* status, timers and administrator of each room object
    players,   \* keys of `room.players`
    member,    \* the RoomMember of each player, with the members older than it
    userRoom,  \* the `userRoom` map
    byName,    \* the `privateRoomsByName` map
    activity,  \* RuntimeActivityService.connectedPlayerIds
    open,      \* connected sockets
    redisQ, creating, joining, starting, saving,
    snapshot,  \* the `members` copied by startGame before its await
    session,   \* the game loop's session of each room
    grace,     \* armed reconnection timers
    stray      \* rooms with a countdown interval no field refers to

vars == <<live, room, players, member, userRoom, byName, activity, open,
          redisQ, creating, joining, starting, saving, snapshot, session,
          grace, stray>>

roomVars    == <<live, room, players, member, userRoom, byName, activity>>
requestVars == <<creating, joining>>
gameVars    == <<starting, saving, snapshot, session, stray>>

Status == {"none", "waiting", "countdown", "in_game", "finished"}
Kind   == {"join", "create", "leave", "evict", "disconnect"}

\* endsAt, deadline: countdownEndsAt, expiresAt (with its two timers) are set.
\* ticking, reset: countdownTimer, roundResetTimer are armed.
RoomState == [status: Status, endsAt: BOOLEAN, ticking: BOOLEAN,
              deadline: BOOLEAN, reset: BOOLEAN, admin: Users \cup {NoUser}]
Member    == [socket: Sockets \cup {NoSocket}, stamp: Stamps \cup {0},
              elders: SUBSET Users]
Session   == [status: {"none", "playing", "finished"}, players: SUBSET Users,
              alive: SUBSET Users, many: BOOLEAN]
Call      == [kind: Kind, room: Rooms, user: Users]

NewRoom(admin, deadline) ==
    [status |-> "waiting", endsAt |-> FALSE, ticking |-> FALSE,
     deadline |-> deadline, reset |-> FALSE, admin |-> admin]
NoMember  == [socket |-> NoSocket, stamp |-> 0, elders |-> {}]
NoSession == [status |-> "none", players |-> {}, alive |-> {}, many |-> FALSE]

Init ==
    /\ live = {} /\ open = {} /\ activity = {}
    /\ room = [r \in Rooms |-> [NewRoom(NoUser, FALSE) EXCEPT !.status = "none"]]
    /\ players = [r \in Rooms |-> {}]
    /\ member = [r \in Rooms |-> [u \in Users |-> NoMember]]
    /\ userRoom = [u \in Users |-> NoRoom]
    /\ byName = [n \in Names |-> NoRoom]
    /\ redisQ = <<>> /\ creating = {} /\ joining = {}
    /\ starting = {} /\ saving = {} /\ grace = {} /\ stray = {}
    /\ snapshot = [r \in Rooms |-> {}]
    /\ session = [r \in Rooms |-> NoSession]

-----------------------------------------------------------------------------
(* Helpers of the service. *)

Connected(r) == {u \in players[r] : member[r][u].socket # NoSocket}

\* Map iteration order is insertion order: the first member has no elder.
Firsts(r, S) == {u \in S : member[r][u].elders \cap S = {}}

\* Mutants: `?? null` dropped; the newest member instead of the oldest.
OldestMutantUndefined(r, S) ==
    IF Firsts(r, S) = {} THEN NoRoom ELSE CHOOSE u \in Firsts(r, S) : TRUE
OldestMutantNewest(r, S) ==
    IF S = {} THEN NoUser ELSE CHOOSE u \in S : \A v \in S : u \notin member[r][v].elders

Oldest(r, S) ==
    IF Firsts(r, S) = {} THEN NoUser ELSE CHOOSE u \in Firsts(r, S) : TRUE

\* players.delete for every member of S.
Forget(r, S) ==
    [u \in Users |-> IF u \in S THEN NoMember
                     ELSE [member[r][u] EXCEPT !.elders = @ \ S]]

\* The administrator once S has been removed from the room.
AdminWithout(r, S) ==
    IF room[r].admin \in S THEN Oldest(r, players[r] \ S) ELSE room[r].admin

\* Mutant: one player too many.
AcceptsPlayersMutant(r) ==
    /\ room[r].status = "waiting" \/ (r \in PublicRooms /\ room[r].status = "countdown")
    /\ Cardinality(players[r]) <= MaxPlayers

AcceptsPlayers(r) ==
    /\ room[r].status = "waiting" \/ (r \in PublicRooms /\ room[r].status = "countdown")
    /\ Cardinality(players[r]) < MaxPlayers

\* The candidates of quickPlay; its sort puts the fullest, then oldest, first.
Candidates == {r \in live \cap PublicRooms : AcceptsPlayers(r)}
Better(r, q) ==
    \/ Cardinality(players[r]) > Cardinality(players[q])
    \/ Cardinality(players[r]) = Cardinality(players[q]) /\ r <= q

Unused(S) == {r \in S : room[r].status = "none"}

Waiting(rm)  == [rm EXCEPT !.status = "waiting", !.endsAt = FALSE, !.ticking = FALSE]
Counting(rm) == [rm EXCEPT !.status = "countdown", !.endsAt = TRUE, !.ticking = TRUE]

\* Mutants of updateCountdown: the timer is cleared but the status kept; one
\* player too many is required.
UpdatedCountdownMutantStatus(r) ==
    IF r \in PrivateRooms \/ room[r].status \in {"in_game", "finished"} THEN room[r]
    ELSE IF Cardinality(players[r]) < MinPlayers
         THEN [room[r] EXCEPT !.endsAt = FALSE, !.ticking = FALSE]
    ELSE IF room[r].status = "countdown" THEN room[r] ELSE Counting(room[r])
UpdatedCountdownMutantMin(r) ==
    IF r \in PrivateRooms \/ room[r].status \in {"in_game", "finished"} THEN room[r]
    ELSE IF Cardinality(players[r]) <= MinPlayers THEN Waiting(room[r])
    ELSE IF room[r].status = "countdown" THEN room[r] ELSE Counting(room[r])

\* updateCountdown; shortening a running countdown does not show here.
UpdatedCountdown(r) ==
    IF r \in PrivateRooms \/ room[r].status \in {"in_game", "finished"} THEN room[r]
    ELSE IF Cardinality(players[r]) < MinPlayers THEN Waiting(room[r])
    ELSE IF room[r].status = "countdown" THEN room[r] ELSE Counting(room[r])

\* Mutant: no fresh deadline.
CanceledMutant(rm) == Waiting(rm)

\* cancelPrivateCountdown, which arms a fresh inactivity deadline.
Canceled(rm) == [Waiting(rm) EXCEPT !.deadline = TRUE]

\* What leave and disconnect do to the countdown of a room they leave behind.
AfterLoss(r) ==
    IF /\ r \in PrivateRooms /\ room[r].status = "countdown"
       /\ Cardinality(Connected(r)) < MinPlayers
    THEN Canceled(room[r])
    ELSE UpdatedCountdown(r)

\* Mutant: the comparison the wrong way round.
AbandonedMutant(r) == players[r] = {} /\ room[r].status = "in_game"

\* What makes leave destroy the room.
Abandoned(r) == players[r] = {} /\ room[r].status # "in_game"

\* Mutant: the pending names are not looked at.
NameTakenMutant(n) == byName[n] # NoRoom

NameTaken(n) == byName[n] # NoRoom \/ \E c \in creating : c.name = n

\* The checks of `join` for a user who is in no room.
MayEnter(u, r) == userRoom[u] = NoRoom /\ r \in live /\ AcceptsPlayers(r)

\* Mutant: the tank stays in the round.
WithoutTankMutant(s, u) == [s EXCEPT !.players = @ \ {u}]

\* gameLoop.removePlayer.
WithoutTank(s, u) == [s EXCEPT !.players = @ \ {u}, !.alive = @ \ {u}]

\* Mutant: any member is taken to be the one who was away.
StillAwayMutant(g) == g.room \in live /\ g.user \in players[g.room]

\* What a reconnection timer finds when it fires.
StillAway(g) ==
    /\ g.room \in live /\ g.user \in players[g.room]
    /\ member[g.room][g.user].socket = NoSocket
    /\ member[g.room][g.user].stamp = g.stamp

CanSuspend == Len(redisQ) < MaxInFlight
Suspend(q, kind, r, u) == Append(q, [kind |-> kind, room |-> r, user |-> u])

-----------------------------------------------------------------------------
(* The pieces several handlers share. *)

\* The part of `join` before its await, once its checks have passed.
Enter(r, u, s, kind) ==
    /\ players' = [players EXCEPT ![r] = @ \cup {u}]
    /\ member' = [member EXCEPT ![r][u] =
                     [socket |-> s, stamp |-> 0, elders |-> players[r]]]
    /\ userRoom' = [userRoom EXCEPT ![u] = r]
    /\ activity' = activity \cup {u}
    /\ CanSuspend /\ redisQ' = Suspend(redisQ, kind, r, u)

\* Mutant: playerConnected is not called.
ReclaimMutant(r, u, s) ==
    /\ member' = [member EXCEPT ![r][u].socket = s, ![r][u].stamp = 0]
    /\ open' = open \ ({member[r][u].socket} \ {s})
    /\ UNCHANGED <<live, room, players, userRoom, byName, activity, redisQ>>

\* `reconnect`: the new socket claims the membership and the server closes the
\* previous one, whose own disconnect handler then finds another socketId.
Reclaim(r, u, s) ==
    /\ member' = [member EXCEPT ![r][u].socket = s, ![r][u].stamp = 0]
    /\ activity' = activity \cup {u}
    /\ open' = open \ ({member[r][u].socket} \ {s})
    /\ UNCHANGED <<live, room, players, userRoom, byName, redisQ>>

\* The part of `leave` before its await; q is the queue it joins.
BeginLeave(u, kind, q) ==
    LET r == userRoom[u]
    IN  /\ room' = [room EXCEPT ![r].admin = AdminWithout(r, {u})]
        /\ players' = [players EXCEPT ![r] = @ \ {u}]
        /\ member' = [member EXCEPT ![r] = Forget(r, {u})]
        /\ userRoom' = [userRoom EXCEPT ![u] = NoRoom]
        /\ activity' = activity \ {u}
        /\ redisQ' = Suspend(q, kind, r, u)
        /\ UNCHANGED <<live, byName>>

\* Mutant: userRoom keeps leading to the room.
DestroyMutantUser(r) ==
    /\ live' = live \ {r}
    /\ room' = [room EXCEPT ![r].ticking = FALSE, ![r].reset = FALSE,
                            ![r].deadline = FALSE]
    /\ byName' = [n \in Names |->
                    IF r \in PrivateRooms /\ NameOf[r] = n THEN NoRoom ELSE byName[n]]
    /\ activity' = activity \ players[r]
    /\ session' = [session EXCEPT ![r] = NoSession]
    /\ players' = [players EXCEPT ![r] = {}]
    /\ member' = [member EXCEPT ![r] = [u \in Users |-> NoMember]]
    /\ UNCHANGED userRoom

\* destroy and releaseFinishedRoom: forget the room, its members and its timers.
\* The code leaves the dead object's maps as they are; emptied here, they make
\* the same difference to the calls that still hold the object: none.
Destroy(r) ==
    /\ live' = live \ {r}
    /\ room' = [room EXCEPT ![r].ticking = FALSE, ![r].reset = FALSE,
                            ![r].deadline = FALSE]
    /\ byName' = [n \in Names |->
                    IF r \in PrivateRooms /\ NameOf[r] = n THEN NoRoom ELSE byName[n]]
    /\ userRoom' = [u \in Users |-> IF u \in players[r] THEN NoRoom ELSE userRoom[u]]
    /\ activity' = activity \ players[r]
    /\ session' = [session EXCEPT ![r] = NoSession]
    /\ players' = [players EXCEPT ![r] = {}]
    /\ member' = [member EXCEPT ![r] = [u \in Users |-> NoMember]]

\* Mutant: the role stays with a member who is dropped.
BeginStartMutant(r) ==
    LET gone == IF r \in PrivateRooms THEN players[r] \ Connected(r) ELSE {}
    IN  /\ room' = [room EXCEPT ![r].ticking = FALSE, ![r].endsAt = FALSE,
                                ![r].deadline = FALSE]
        /\ players' = [players EXCEPT ![r] = @ \ gone]
        /\ member' = [member EXCEPT ![r] = Forget(r, gone)]
        /\ userRoom' = [u \in Users |-> IF u \in gone THEN NoRoom ELSE userRoom[u]]
        /\ activity' = activity \ gone
        /\ starting' = starting \cup {r}
        /\ snapshot' = [snapshot EXCEPT ![r] = players[r] \ gone]

\* The part of `startGame` before its await.
BeginStart(r) ==
    LET gone == IF r \in PrivateRooms THEN players[r] \ Connected(r) ELSE {}
    IN  /\ room' = [room EXCEPT ![r].ticking = FALSE, ![r].endsAt = FALSE,
                                ![r].deadline = FALSE,
                                ![r].admin = AdminWithout(r, gone)]
        /\ players' = [players EXCEPT ![r] = @ \ gone]
        /\ member' = [member EXCEPT ![r] = Forget(r, gone)]
        /\ userRoom' = [u \in Users |-> IF u \in gone THEN NoRoom ELSE userRoom[u]]
        /\ activity' = activity \ gone
        /\ starting' = starting \cup {r}
        /\ snapshot' = [snapshot EXCEPT ![r] = players[r] \ gone]

-----------------------------------------------------------------------------
(* Sockets and the requests they carry. *)

\* A socket identifier is new: nothing refers to it.
Connect(s) ==
    /\ s \notin open
    /\ \A r \in live : \A u \in players[r] : member[r][u].socket # s
    /\ \A c \in creating \cup joining : c.socket # s
    /\ open' = open \cup {s}
    /\ UNCHANGED <<roomVars, redisQ, requestVars, gameVars, grace>>

\* No member and no timer of u carries this instant.
FreshStamps(u) ==
    {t \in Stamps : /\ \A r \in Rooms : member[r][u].stamp # t
                    /\ \A g \in grace : g.user = u => g.stamp # t}

\* handleDisconnect: `disconnect` up to its await, if the socket is the one
\* its user's membership holds.
Disconnect(s) ==
    LET u == Owner[s]
        r == userRoom[u]
    IN  /\ s \in open /\ open' = open \ {s}
        /\ IF r # NoRoom /\ member[r][u].socket = s
           THEN /\ CanSuspend /\ redisQ' = Suspend(redisQ, "disconnect", r, u)
                /\ FreshStamps(u) # {}
                /\ LET now == CHOOSE t \in FreshStamps(u) : TRUE
                   IN  member' = [member EXCEPT ![r][u].socket = NoSocket,
                                                ![r][u].stamp = now]
                /\ activity' = activity \ {u}
           ELSE UNCHANGED <<redisQ, member, activity>>
        /\ UNCHANGED <<live, room, players, userRoom, byName>>
        /\ UNCHANGED <<requestVars, gameVars, grace>>

\* getRoomState, and the requests to join that find their user in the room.
Reconnect(s) ==
    /\ s \in open /\ userRoom[Owner[s]] # NoRoom
    /\ Reclaim(userRoom[Owner[s]], Owner[s], s)
    /\ UNCHANGED <<requestVars, gameVars, grace>>

QuickPlay(s) ==
    /\ s \in open /\ userRoom[Owner[s]] = NoRoom
    /\ \/ \E r \in Candidates :
            /\ \A q \in Candidates : Better(r, q)
            /\ Enter(r, Owner[s], s, "join")
            /\ UNCHANGED <<live, room>>
       \/ /\ Candidates = {}
          /\ \E r \in Unused(PublicRooms) :
                /\ \A q \in Unused(PublicRooms) : r <= q
                /\ live' = live \cup {r}
                /\ room' = [room EXCEPT ![r] = NewRoom(NoUser, FALSE)]
                /\ Enter(r, Owner[s], s, "join")
    /\ UNCHANGED <<byName, open, requestVars, gameVars, grace>>

\* createPrivate, up to hashPassword.
CreatePrivate(s, n) ==
    /\ s \in open /\ userRoom[Owner[s]] = NoRoom
    /\ ~NameTaken(n)
    /\ \A c \in creating : c.user # Owner[s]
    /\ creating' = creating \cup
         {[user |-> Owner[s], name |-> n, socket |-> s, hashed |-> FALSE]}
    /\ UNCHANGED <<roomVars, open, redisQ, joining, gameVars, grace>>

\* createPrivate, from hashPassword to the await in `join`.  A user who is in a
\* room by now is refused, and the new room destroyed in the same step.
CreateHashed(c) ==
    /\ ~c.hashed
    /\ \/ /\ userRoom[c.user] = NoRoom
          /\ \E r \in Unused(PrivateRooms) :
                /\ NameOf[r] = c.name
                /\ live' = live \cup {r}
                /\ room' = [room EXCEPT ![r] = NewRoom(c.user, TRUE)]
                /\ byName' = [byName EXCEPT ![c.name] = r]
                /\ Enter(r, c.user, c.socket, "create")
          /\ creating' = (creating \ {c}) \cup {[c EXCEPT !.hashed = TRUE]}
       \/ /\ userRoom[c.user] # NoRoom
          /\ creating' = creating \ {c}
          /\ UNCHANGED <<roomVars, redisQ>>
    /\ UNCHANGED <<open, joining, gameVars, grace>>

\* joinPrivate, up to passwordMatches.
JoinPrivate(s, n) ==
    /\ s \in open /\ userRoom[Owner[s]] = NoRoom
    /\ byName[n] # NoRoom
    /\ joining' = joining \cup {[user |-> Owner[s], socket |-> s, room |-> byName[n]]}
    /\ UNCHANGED <<roomVars, open, redisQ, creating, gameVars, grace>>

\* joinPrivate after passwordMatches: `join` checks everything again.
JoinChecked(j) ==
    /\ joining' = joining \ {j}
    /\ \/ /\ MayEnter(j.user, j.room)
          /\ Enter(j.room, j.user, j.socket, "join")
          /\ UNCHANGED <<live, room, byName, open>>
       \/ /\ userRoom[j.user] = j.room
          /\ Reclaim(j.room, j.user, j.socket)
       \/ UNCHANGED <<roomVars, open, redisQ>>   \* wrong password, or refused
    /\ UNCHANGED <<creating, gameVars, grace>>

LeaveRoom(s) ==
    /\ s \in open /\ userRoom[Owner[s]] # NoRoom
    /\ CanSuspend /\ BeginLeave(Owner[s], "leave", redisQ)
    /\ UNCHANGED <<open, requestVars, gameVars, grace>>

\* The startGame message: startNow, in a private room.
StartNow(s) ==
    LET r == userRoom[Owner[s]]
    IN  /\ s \in open /\ r \in PrivateRooms
        /\ room[r].status = "waiting" /\ room[r].admin = Owner[s]
        /\ Cardinality(Connected(r)) >= MinPlayers
        /\ room' = [room EXCEPT ![r] = [Counting(@) EXCEPT !.deadline = FALSE]]
        /\ UNCHANGED <<live, players, member, userRoom, byName, activity>>
        /\ UNCHANGED <<open, redisQ, requestVars, gameVars, grace>>

-----------------------------------------------------------------------------
(* Suspended calls that resume. *)

Replied(kinds) == redisQ # <<>> /\ Head(redisQ).kind \in kinds

\* The rest of `join`, on the room object it entered, and of createPrivate.
JoinReplied ==
    LET r == Head(redisQ).room
    IN  /\ Replied({"join", "create"}) /\ redisQ' = Tail(redisQ)
        /\ room' = [room EXCEPT ![r] = UpdatedCountdown(r)]
        /\ creating' = IF Head(redisQ).kind = "join" THEN creating
                       ELSE {c \in creating : c.user # Head(redisQ).user}
        /\ UNCHANGED <<live, players, member, userRoom, byName, activity>>
        /\ UNCHANGED <<open, joining, gameVars, grace>>

\* Redis rejects the SET of a join: its caller reports an error, and only
\* createPrivate undoes the membership, with its room.
JoinRejected ==
    LET r == Head(redisQ).room
    IN  /\ RedisFaults /\ Replied({"join", "create"}) /\ redisQ' = Tail(redisQ)
        /\ IF Head(redisQ).kind = "create" /\ r \in live
           THEN Destroy(r) ELSE UNCHANGED <<roomVars, session>>
        /\ creating' = IF Head(redisQ).kind = "join" THEN creating
                       ELSE {c \in creating : c.user # Head(redisQ).user}
        /\ UNCHANGED <<open, joining, starting, saving, snapshot, grace, stray>>

\* The rest of `leave`, on the room object that was left.
LeaveReplied ==
    LET u == Head(redisQ).user
        r == Head(redisQ).room
    IN  /\ Replied({"leave", "evict"}) /\ redisQ' = Tail(redisQ)
        /\ IF Abandoned(r) /\ r \in live
           THEN Destroy(r)
           ELSE /\ session' = [session EXCEPT ![r] = WithoutTank(@, u)]
                /\ room' = IF Abandoned(r) THEN room
                           ELSE [room EXCEPT ![r] = AfterLoss(r)]
                /\ UNCHANGED <<live, players, member, userRoom, byName, activity>>
        /\ UNCHANGED <<open, requestVars, starting, saving, snapshot, grace, stray>>


\* Mutant: only a room that plays arms the timer.
ArmGraceMutantLobby(r, u) ==
    grace' = IF /\ u \in players[r] /\ member[r][u].socket = NoSocket
                /\ room[r].status = "in_game"
             THEN grace \cup {[room |-> r, user |-> u, stamp |-> member[r][u].stamp]}
             ELSE grace

\* The timer compares the disconnectedAt it captured with the member's, so one
\* armed for a member who is connected or gone by now never does anything.  If
\* the membership was replaced and lost its socket again meanwhile, the timer
\* of the second loss is armed here rather than one reply later.
ArmGrace(r, u) ==
    grace' = IF u \in players[r] /\ member[r][u].socket = NoSocket
             THEN grace \cup {[room |-> r, user |-> u, stamp |-> member[r][u].stamp]}
             ELSE grace

\* The rest of `disconnect`.  In a public room that is not playing it calls
\* leave, which looks the user's room up again.
DisconnectReplied ==
    LET u == Head(redisQ).user
        r == Head(redisQ).room
    IN  /\ Replied({"disconnect"})
        /\ \/ /\ r \in PrivateRooms \/ room[r].status = "in_game"
              /\ ArmGrace(r, u) /\ redisQ' = Tail(redisQ)
              /\ room' = IF r \in PrivateRooms
                         THEN [room EXCEPT ![r] = AfterLoss(r)] ELSE room
              /\ UNCHANGED <<live, players, member, userRoom, byName, activity>>
           \/ /\ r \in PublicRooms /\ room[r].status # "in_game"
              /\ IF userRoom[u] = NoRoom
                 THEN redisQ' = Tail(redisQ) /\ UNCHANGED roomVars
                 ELSE BeginLeave(u, "evict", Tail(redisQ))
              /\ UNCHANGED grace
        /\ UNCHANGED <<open, requestVars, gameVars>>

\* Redis rejects the DEL of a leave or a disconnect: nothing that follows the
\* await happens.  The tank stays in its round, an empty room lives on, the
\* countdown is not looked at and no timer is armed.  The page of a leave gets
\* Nest's exception; of a disconnect, or of a timer's leave, nobody catches it
\* and Node ends the process.  As nothing of a room is persisted, what the
\* model lets happen after that is more than the program does, never less.
DelRejected ==
    /\ RedisFaults /\ Replied({"leave", "evict", "disconnect"})
    /\ redisQ' = Tail(redisQ)
    /\ UNCHANGED <<roomVars, open, requestVars, gameVars, grace>>

\* startGame once getMany has answered: the session is prepared and started
\* from the members it copied, whatever has become of the room.
StartReady(r) ==
    /\ r \in starting /\ starting' = starting \ {r}
    /\ room' = [room EXCEPT ![r].status = "in_game"]
    /\ session' = [session EXCEPT ![r] =
         [status |-> "playing", players |-> snapshot[r], alive |-> snapshot[r],
          many |-> Cardinality(snapshot[r]) > 1]]
    /\ snapshot' = [snapshot EXCEPT ![r] = {}]
    /\ UNCHANGED <<live, players, member, userRoom, byName, activity>>
    /\ UNCHANGED <<open, redisQ, requestVars, saving, grace, stray>>

\* onFinished once persist has ended, well or not: rooms.finish.
MatchSaved(r) ==
    /\ r \in saving /\ saving' = saving \ {r}
    /\ room' = IF r \in live /\ room[r].status # "finished"
               THEN [room EXCEPT ![r].status = "finished", ![r].endsAt = FALSE,
                                 ![r].reset = TRUE]
               ELSE room
    /\ UNCHANGED <<live, players, member, userRoom, byName, activity>>
    /\ UNCHANGED <<open, redisQ, requestVars, starting, snapshot, session, grace, stray>>

-----------------------------------------------------------------------------
(* Timers. *)

\* tickCountdown, from the room's interval or from a stray one.  A tick before
\* the end only publishes.
TickCountdown(r) ==
    LET n == Cardinality(IF r \in PrivateRooms THEN Connected(r) ELSE players[r])
    IN  /\ r \in live /\ (room[r].ticking \/ r \in stray)
        /\ room[r].status = "countdown" /\ room[r].endsAt
        /\ \/ /\ n < MinPlayers
              /\ room' = [room EXCEPT ![r] =
                   IF r \in PrivateRooms THEN Canceled(@) ELSE UpdatedCountdown(r)]
              /\ UNCHANGED <<players, member, userRoom, activity, starting, snapshot>>
           \/ n >= MinPlayers /\ r \notin starting /\ BeginStart(r)
           \/ /\ n >= MinPlayers /\ r \in starting
              /\ room' = [room EXCEPT ![r].ticking = FALSE]
              /\ UNCHANGED <<players, member, userRoom, activity, starting, snapshot>>
        /\ UNCHANGED <<live, byName, open, redisQ, requestVars, saving, session, grace, stray>>

\* Mutant: the round goes on after its win check succeeded.
GameTickMutant(r, S) ==
    /\ session[r].status = "playing" /\ S \subseteq session[r].alive
    /\ LET over == session[r].many /\ Cardinality(S) <= 1
       IN  /\ over \/ S # session[r].alive
           /\ session' = [session EXCEPT ![r].alive = S]
           /\ saving' = IF over THEN saving \cup {r} ELSE saving
    /\ UNCHANGED <<roomVars, open, redisQ, requestVars, starting, snapshot, grace, stray>>

\* A game tick after which the tanks of S are alive; checkWinCondition ends a
\* round of several players when at most one is left.
GameTick(r, S) ==
    /\ session[r].status = "playing" /\ S \subseteq session[r].alive
    /\ LET over == session[r].many /\ Cardinality(S) <= 1
       IN  /\ over \/ S # session[r].alive
           /\ session' = [session EXCEPT ![r].alive = S,
                              ![r].status = IF over THEN "finished" ELSE "playing"]
           /\ saving' = IF over THEN saving \cup {r} ELSE saving
    /\ UNCHANGED <<roomVars, open, redisQ, requestVars, starting, snapshot, grace, stray>>

\* resetRound: releaseFinishedRoom, or resetPrivateRound, which forgets its
\* countdown timer without clearing it.
ResetRound(r) ==
    /\ room[r].reset /\ r \in live /\ room[r].status = "finished"
    /\ \/ r \in PublicRooms /\ Destroy(r) /\ UNCHANGED stray
       \/ /\ r \in PrivateRooms
          /\ room' = [room EXCEPT ![r] = [Canceled(@) EXCEPT !.reset = FALSE]]
          /\ session' = [session EXCEPT ![r] = NoSession]
          /\ stray' = IF room[r].ticking THEN stray \cup {r} ELSE stray
          /\ UNCHANGED <<live, players, member, userRoom, byName, activity>>
    /\ UNCHANGED <<open, redisQ, requestVars, starting, saving, snapshot, grace>>

\* closeInactivePrivateRoom; in a room that is playing it does nothing.
CloseInactive(r) ==
    /\ r \in live \cap PrivateRooms /\ room[r].deadline
    /\ room[r].status \notin {"in_game", "finished"}
    /\ Destroy(r)
    /\ UNCHANGED <<open, redisQ, requestVars, starting, saving, snapshot, grace, stray>>

\* The reconnection timer armed by `disconnect`.
GraceExpires(g) ==
    /\ grace' = grace \ {g}
    /\ IF StillAway(g)
       THEN CanSuspend /\ BeginLeave(g.user, "evict", redisQ)
       ELSE UNCHANGED <<roomVars, redisQ>>
    /\ UNCHANGED <<open, requestVars, gameVars>>

-----------------------------------------------------------------------------

Request(s) ==
    \/ Connect(s) \/ Disconnect(s) \/ Reconnect(s) \/ QuickPlay(s)
    \/ LeaveRoom(s) \/ StartNow(s)
    \/ \E n \in Names : CreatePrivate(s, n) \/ JoinPrivate(s, n)

Resume ==
    \/ JoinReplied \/ JoinRejected
    \/ LeaveReplied \/ DisconnectReplied \/ DelRejected
    \/ \E c \in creating : CreateHashed(c)
    \/ \E j \in joining : JoinChecked(j)
    \/ \E r \in Rooms : StartReady(r) \/ MatchSaved(r)

Timer ==
    \/ \E r \in Rooms : TickCountdown(r) \/ ResetRound(r) \/ CloseInactive(r)
    \/ \E r \in Rooms : \E S \in SUBSET Users : GameTick(r, S)
    \/ \E g \in grace : GraceExpires(g)

Next == (\E s \in Sockets : Request(s)) \/ Resume \/ Timer

Spec == Init /\ [][Next]_vars

-----------------------------------------------------------------------------

TypeOK ==
    /\ live \subseteq Rooms /\ room \in [Rooms -> RoomState]
    /\ players \in [Rooms -> SUBSET Users]
    /\ member \in [Rooms -> [Users -> Member]]
    /\ userRoom \in [Users -> Rooms \cup {NoRoom}]
    /\ byName \in [Names -> Rooms \cup {NoRoom}]
    /\ activity \subseteq Users /\ open \subseteq Sockets
    /\ redisQ \in Seq(Call)
    /\ creating \subseteq [user: Users, name: Names, socket: Sockets, hashed: BOOLEAN]
    /\ joining \subseteq [user: Users, socket: Sockets, room: Rooms]
    /\ starting \subseteq Rooms /\ saving \subseteq Rooms /\ stray \subseteq Rooms
    /\ snapshot \in [Rooms -> SUBSET Users] /\ session \in [Rooms -> Session]
    /\ grace \subseteq [room: Rooms, user: Users, stamp: Stamps \cup {0}]
-----------------------------------------------------------------------------
(* Safety. *)

\* The two directions of membership, userRoom and room.players, are kept by
\* seven different handlers: a user is listed by exactly the room userRoom
\* names, and by no other live room.
MembershipAgrees ==
    \A u \in Users, r \in Rooms :
        userRoom[u] = r <=> r \in live /\ u \in players[r]

\* The multiplayer activity the scheduler of rewards looks at counts exactly
\* the members whose membership holds a socket, whatever order joins, leaves,
\* reconnections, releases and evictions come in.
PresenceAgrees ==
    activity = {u \in Users : \E r \in live : u \in Connected(r)}

\* A room never holds more players than its maximum, although a private join
\* looks at the room before hashing the password and enters it afterwards.
CapacityRespected ==
    \A r \in live : Cardinality(players[r]) <= MaxPlayers

\* A name leads to the private room of that name as long as it lives, and is
\* free for no second creation while one is hashing its password.
NamesLeadToRooms ==
    /\ \A r \in PrivateRooms : byName[NameOf[r]] = r <=> r \in live
    /\ \A c \in creating :
         /\ ~c.hashed => byName[c.name] = NoRoom
         /\ \A d \in creating : c.name = d.name \/ c.user = d.user => c = d

\* An administrator is one of the members: the role never stays with a user
\* who left, was evicted, or was dropped when the game started.
AdminIsMember ==
    \A r \in live : room[r].admin \in players[r] \cup {NoUser}

\* A countdown is driven: its interval is armed, or startGame is under way.
\* Otherwise the room would refuse to start and never start by itself.
CountdownDriven ==
    \A r \in live : room[r].status = "countdown" => room[r].ticking \/ r \in starting

\* A private room that waits has an inactivity deadline, so an abandoned one
\* cannot stay and hold its name.
WaitingHasDeadline ==
    \A r \in live \cap PrivateRooms : room[r].status = "waiting" => room[r].deadline

\* While Redis accepts every command, a public room that has enough players
\* counts down, unless the join that completed them still awaits Redis, whatever
\* leaves and evictions run beside.
FullRoomCountsDown ==
    \A r \in live \cap PublicRooms :
        room[r].status = "waiting" /\ Cardinality(players[r]) >= MinPlayers =>
            \E i \in DOMAIN redisQ : redisQ[i].room = r /\ redisQ[i].kind = "join"

\* While Redis accepts every command, a live room without members is on its way
\* out: a leave that will destroy it is suspended, its deadline is armed, or its
\* round is being played or shown.  A rejected DEL (DelRejected) leaves a public
\* lobby that only the next quickPlay fills.
EmptyRoomIsDoomed ==
    \A r \in live : players[r] = {} =>
        \/ \E i \in DOMAIN redisQ : redisQ[i].room = r /\ redisQ[i].kind \in {"leave", "evict"}
        \/ room[r].deadline \/ r \in starting
        \/ room[r].status \in {"in_game", "finished"}

\* A round is played to its end once: a room in game has a session that is
\* still playing or whose result is being saved, and a finished room has the
\* timer that takes it further.
RoundEndsOnce ==
    \A r \in live :
        /\ room[r].status = "in_game" => (session[r].status = "playing" <=> r \notin saving)
        /\ room[r].status = "finished" <=> room[r].reset
        /\ room[r].status \in {"waiting", "countdown"} => session[r] = NoSession

\* Administration changes hands only when the administrator's membership ends,
\* and then passes to a member older than all others that remain.
AdminPassesToOldest ==
    [][\A r \in live \cap live' : room'[r].admin # room[r].admin =>
          /\ room[r].admin \notin players'[r]
          /\ \A u \in players'[r] : room'[r].admin # u =>
                room'[r].admin \in member[r][u].elders]_vars

\* The disconnect of a public lobby has resumed and looks its user's room up again,
\* which is r by now: the user has left the lobby meanwhile.
EvictedFromElsewhere(r, u) ==
    /\ redisQ # <<>> /\ Head(redisQ).kind = "disconnect" /\ Head(redisQ).user = u
    /\ Head(redisQ).room \in PublicRooms
    /\ redisQ' = Suspend(Tail(redisQ), "evict", r, u)

\* A private room that lives on loses a member who holds a socket only by that
\* member's own leave: no timer armed by an earlier disconnection takes one who
\* came back.  A disconnect that still awaits Redis in a public lobby can.
ReturnedMemberStays ==
    [][\A r \in live' \cap PrivateRooms : \A u \in Connected(r) \ players'[r] :
          redisQ' = Suspend(redisQ, "leave", r, u) \/ EvictedFromElsewhere(r, u)]_vars

-----------------------------------------------------------------------------
(* Liveness.  Redis answers, database queries end, ticks run and armed timers *)
(* fire.  A grace timer may find the queue at MaxInFlight, a bound of the      *)
(* model only, hence strong fairness.  Of a round only the tick that checks    *)
(* the win condition is fair: nobody is assumed to hit anybody.                *)

Fairness ==
    /\ WF_vars(JoinReplied \/ LeaveReplied \/ DisconnectReplied)
    /\ WF_vars(\E c \in creating : CreateHashed(c))
    /\ \A r \in Rooms :
        /\ WF_vars(StartReady(r)) /\ WF_vars(MatchSaved(r))
        /\ WF_vars(TickCountdown(r)) /\ WF_vars(ResetRound(r)) /\ WF_vars(CloseInactive(r))
        /\ WF_vars(GameTick(r, session[r].alive))
    /\ \A u \in Users, t \in Stamps :
        SF_vars(\E g \in grace : g.user = u /\ g.stamp = t /\ GraceExpires(g))

FairSpec == Spec /\ Fairness

\* A disconnected member comes back or stops being a member: neither a lost
\* disconnect/reconnect race nor a start in between leaves a seat held forever.
DisconnectedMemberSettles ==
    \A r \in Rooms, u \in Users :
        u \in players[r] /\ member[r][u].socket = NoSocket
            ~> u \notin players[r] \/ member[r][u].socket # NoSocket

\* A room everyone has left is destroyed or joined again, even when the last
\* member leaves while its game is starting or being played.
EmptyRoomIsReclaimed ==
    \A r \in Rooms : r \in live /\ players[r] = {} ~> r \notin live \/ players[r] # {}

-----------------------------------------------------------------------------
(* What the documents say of private rooms and of clean-up. *)

\* backend/docs/private-rooms.md:60: after a transport disconnect, "The public state reports
\* `connected: false`", so a member shown as connected has an open socket.
ShownConnectedIsConnected ==
    \A r \in live \cap PrivateRooms : \A u \in Connected(r) : member[r][u].socket \in open

\* task-improvement-backend.md:241, "No room, game session, interval, or
\* timeout remains after cleanup": the session of a room ends with the room.
NoSessionRemains ==
    \A r \in Rooms \ live : session[r] = NoSession
=============================================================================
