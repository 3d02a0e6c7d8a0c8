---------------------------- MODULE RoomsProofs ----------------------------
(***************************************************************************)
(* Proofs about Rooms, for any users, sockets, rooms and bounds.           *)
(***************************************************************************)
EXTENDS Rooms, TLAPS

-----------------------------------------------------------------------------
(* The conjuncts of TypeOK, grouped as the variables are in Rooms. *)

TypeRooms ==
    /\ live \subseteq Rooms /\ room \in [Rooms -> RoomState]
    /\ players \in [Rooms -> SUBSET Users]
    /\ member \in [Rooms -> [Users -> Member]]
    /\ userRoom \in [Users -> Rooms \cup {NoRoom}]
    /\ byName \in [Names -> Rooms \cup {NoRoom}]
    /\ activity \subseteq Users

TypeCalls ==
    /\ open \subseteq Sockets /\ redisQ \in Seq(Call)
    /\ creating \subseteq [user: Users, name: Names, socket: Sockets, hashed: BOOLEAN]
    /\ joining \subseteq [user: Users, socket: Sockets, room: Rooms]

TypeGame ==
    /\ starting \subseteq Rooms /\ saving \subseteq Rooms /\ stray \subseteq Rooms
    /\ snapshot \in [Rooms -> SUBSET Users] /\ session \in [Rooms -> Session]
    /\ grace \subseteq [room: Rooms, user: Users, stamp: Stamps \cup {0}]

LEMMA TypeParts ==
    /\ TypeOK <=> TypeRooms /\ TypeCalls /\ TypeGame
    /\ (TypeOK)' <=> TypeRooms' /\ TypeCalls' /\ TypeGame'
BY DEF TypeOK, TypeRooms, TypeCalls, TypeGame

\* A destroyed room, or one not yet created, has no players.
DeadRoomsEmpty == \A r \in Rooms \ live : players[r] = {}

\* The invariant every proof below starts from.  MembershipAgrees is needed
\* for typing as well: a leave acts on the room userRoom names.
Seats == TypeOK /\ MembershipAgrees /\ DeadRoomsEmpty

-----------------------------------------------------------------------------
(* What the helpers return. *)

LEMMA CountdownTypes ==
    ASSUME NEW rm \in RoomState
    PROVE  Waiting(rm) \in RoomState /\ Counting(rm) \in RoomState
           /\ Canceled(rm) \in RoomState
BY DEF RoomState, Status, Waiting, Counting, Canceled

LEMMA SetAdminType ==
    ASSUME NEW rm \in RoomState, NEW a \in Users \cup {NoUser}
    PROVE  [rm EXCEPT !.admin = a] \in RoomState
BY DEF RoomState

LEMMA AfterLossType ==
    ASSUME TypeRooms, NEW r \in Rooms
    PROVE  UpdatedCountdown(r) \in RoomState /\ AfterLoss(r) \in RoomState
<1>1. room[r] \in RoomState
  BY DEF TypeRooms
<1>2. UpdatedCountdown(r) \in RoomState
  BY <1>1, CountdownTypes DEF UpdatedCountdown
<1>. QED  BY <1>1, <1>2, CountdownTypes DEF AfterLoss

\* The administrator is the first of the members that remain, if any.
LEMMA OldestType ==
    ASSUME NEW r, NEW S
    PROVE  Oldest(r, S) \in S \cup {NoUser}
BY DEF Oldest, Firsts

LEMMA AdminWithoutType ==
    ASSUME TypeRooms, NEW r \in Rooms, NEW S
    PROVE  AdminWithout(r, S) \in Users \cup {NoUser}
<1>1. room[r].admin \in Users \cup {NoUser} /\ players[r] \subseteq Users
  BY DEF TypeRooms, RoomState
<1>. QED  BY <1>1, OldestType DEF AdminWithout

LEMMA ForgetType ==
    ASSUME TypeRooms, NEW r \in Rooms, NEW S
    PROVE  Forget(r, S) \in [Users -> Member]
<1>1. member[r] \in [Users -> Member]
  BY DEF TypeRooms
<1>2. ASSUME NEW u \in Users
      PROVE  (IF u \in S THEN NoMember ELSE [member[r][u] EXCEPT !.elders = @ \ S]) \in Member
  BY <1>1 DEF Member, NoMember
<1>. QED  BY <1>2 DEF Forget

LEMMA SuspendType ==
    ASSUME NEW q \in Seq(Call), NEW kind \in Kind, NEW r \in Rooms, NEW u \in Users
    PROVE  Suspend(q, kind, r, u) \in Seq(Call)
BY DEF Suspend, Call

LEMMA HeadType ==
    ASSUME TypeCalls, redisQ # <<>>
    PROVE  /\ Head(redisQ).kind \in Kind /\ Head(redisQ).room \in Rooms
           /\ Head(redisQ).user \in Users /\ Tail(redisQ) \in Seq(Call)
<1>1. Head(redisQ) \in Call /\ Tail(redisQ) \in Seq(Call)
  BY DEF TypeCalls
<1>. QED  BY <1>1 DEF Call

LEMMA NewTypes ==
    /\ \A a \in Users \cup {NoUser}, d \in BOOLEAN : NewRoom(a, d) \in RoomState
    /\ NoMember \in Member /\ NoSession \in Session
BY DEF NewRoom, RoomState, Status, NoMember, Member, NoSession, Session
-----------------------------------------------------------------------------
(* What the shared pieces of the handlers do to the types. *)

LEMMA EnterType ==
    ASSUME TypeRooms, TypeCalls, NEW r \in Rooms, NEW u \in Users, NEW s \in Sockets,
           NEW kind \in Kind, Enter(r, u, s, kind)
    PROVE  /\ players' \in [Rooms -> SUBSET Users]
           /\ member' \in [Rooms -> [Users -> Member]]
           /\ userRoom' \in [Users -> Rooms \cup {NoRoom}]
           /\ activity' \subseteq Users
           /\ redisQ' \in Seq(Call)
<1>1. players[r] \subseteq Users
  BY DEF TypeRooms
<1>2. [socket |-> s, stamp |-> 0, elders |-> players[r]] \in Member
  BY <1>1 DEF Member
<1>3. member' \in [Rooms -> [Users -> Member]]
  BY <1>2 DEF Enter, TypeRooms
<1>4. redisQ' \in Seq(Call)
  BY SuspendType DEF Enter, TypeCalls
<1>. QED  BY <1>3, <1>4 DEF Enter, TypeRooms

LEMMA ReclaimType ==
    ASSUME TypeRooms, TypeCalls, NEW r \in Rooms, NEW u \in Users, NEW s \in Sockets,
           Reclaim(r, u, s)
    PROVE  TypeRooms' /\ open' \subseteq Sockets /\ redisQ' \in Seq(Call)
<1>. member[r][u] \in Member
  BY DEF TypeRooms
<1>1. [member[r][u] EXCEPT !.socket = s, !.stamp = 0] \in Member
  BY DEF Member
<1>2. member' = [member EXCEPT ![r] = [member[r] EXCEPT ![u] =
                    [member[r][u] EXCEPT !.socket = s, !.stamp = 0]]]
  BY DEF Reclaim, TypeRooms, Member
<1>3. member' \in [Rooms -> [Users -> Member]]
  BY <1>1, <1>2 DEF TypeRooms
<1>. QED  BY <1>3 DEF Reclaim, TypeRooms, TypeCalls

LEMMA BeginLeaveType ==
    ASSUME TypeRooms, NEW u \in Users, userRoom[u] \in Rooms, NEW kind \in Kind,
           NEW q \in Seq(Call), BeginLeave(u, kind, q)
    PROVE  TypeRooms' /\ redisQ' \in Seq(Call)
<1>. DEFINE r == userRoom[u]
<1>. room[r] \in RoomState /\ AdminWithout(r, {u}) \in Users \cup {NoUser}
  BY AdminWithoutType DEF TypeRooms
<1>1. [room[r] EXCEPT !.admin = AdminWithout(r, {u})] \in RoomState
  BY SetAdminType
<1>2. room' \in [Rooms -> RoomState]
  BY <1>1 DEF BeginLeave, TypeRooms
<1>3. member' \in [Rooms -> [Users -> Member]]
  BY ForgetType DEF BeginLeave, TypeRooms
<1>4. redisQ' \in Seq(Call)
  BY SuspendType DEF BeginLeave
<1>. QED  BY <1>2, <1>3, <1>4 DEF BeginLeave, TypeRooms

LEMMA DestroyType ==
    ASSUME TypeRooms, TypeGame, NEW r \in Rooms, Destroy(r)
    PROVE  TypeRooms' /\ session' \in [Rooms -> Session]
<1>. room[r] \in RoomState
  BY DEF TypeRooms
<1>1. [room[r] EXCEPT !.ticking = FALSE, !.reset = FALSE, !.deadline = FALSE] \in RoomState
  BY DEF RoomState
<1>2. room' = [room EXCEPT ![r] =
         [room[r] EXCEPT !.ticking = FALSE, !.reset = FALSE, !.deadline = FALSE]]
  BY DEF Destroy, TypeRooms
<1>3. room' \in [Rooms -> RoomState]
  BY <1>1, <1>2 DEF TypeRooms
<1>4. member' \in [Rooms -> [Users -> Member]]
  BY NewTypes DEF Destroy, TypeRooms
<1>5. session' \in [Rooms -> Session]
  BY NewTypes DEF Destroy, TypeGame
<1>. QED  BY <1>3, <1>4, <1>5 DEF Destroy, TypeRooms

LEMMA BeginStartType ==
    ASSUME TypeRooms, TypeGame, NEW r \in Rooms, BeginStart(r), UNCHANGED <<live, byName>>
    PROVE  /\ TypeRooms' /\ starting' \subseteq Rooms
           /\ snapshot' \in [Rooms -> SUBSET Users]
<1>. DEFINE gone == IF r \in PrivateRooms THEN players[r] \ Connected(r) ELSE {}
            rm == [room[r] EXCEPT !.ticking = FALSE, !.endsAt = FALSE,
                       !.deadline = FALSE, !.admin = AdminWithout(r, gone)]
<1>. room[r] \in RoomState /\ AdminWithout(r, gone) \in Users \cup {NoUser}
  BY AdminWithoutType DEF TypeRooms
<1>1. rm \in RoomState
  BY DEF RoomState
<1>2. room' = [room EXCEPT ![r] = rm]
  BY DEF BeginStart, TypeRooms
<1>3. room' \in [Rooms -> RoomState]
  BY <1>1, <1>2 DEF TypeRooms
<1>4. member' \in [Rooms -> [Users -> Member]]
  BY ForgetType DEF BeginStart, TypeRooms
<1>5. players' \in [Rooms -> SUBSET Users] /\ snapshot' \in [Rooms -> SUBSET Users]
  BY DEF BeginStart, TypeRooms, TypeGame
<1>. QED  BY <1>3, <1>4, <1>5 DEF BeginStart, TypeRooms, TypeGame
-----------------------------------------------------------------------------
(* Every step keeps the types. *)

LEMMA SameTypes ==
    /\ TypeRooms /\ UNCHANGED roomVars => TypeRooms'
    /\ TypeCalls /\ UNCHANGED <<open, redisQ, creating, joining>> => TypeCalls'
    /\ TypeGame /\ UNCHANGED <<gameVars, grace>> => TypeGame'
BY DEF TypeRooms, TypeCalls, TypeGame, roomVars, gameVars

\* The requests of a socket.
LEMMA RequestTypes ==
    ASSUME Seats, NEW s \in Sockets, Request(s)
    PROVE  TypeOK'
<1>. DEFINE u == Owner[s]
<1>. u \in Users
  BY RoomsAssumption
<1>. TypeRooms /\ TypeCalls /\ TypeGame
  BY TypeParts DEF Seats
<1>. Rooms = PublicRooms \cup PrivateRooms
  BY DEF Rooms
<1>1. CASE Connect(s)
  <2>1. TypeRooms' /\ TypeGame'
    BY <1>1, SameTypes DEF Connect
  <2>2. TypeCalls'
    BY <1>1 DEF Connect, TypeCalls, requestVars
  <2>. QED  BY <2>1, <2>2, TypeParts
<1>2. CASE Disconnect(s)
  <2>. DEFINE r == userRoom[u]
  <2>1. CASE r # NoRoom /\ member[r][u].socket = s
    <3>. r \in Rooms
      BY <2>1 DEF TypeRooms
    <3>. DEFINE now == CHOOSE t \in FreshStamps(u) : TRUE
                gone == [member[r][u] EXCEPT !.socket = NoSocket, !.stamp = now]
    <3>1. now \in Stamps
      BY <1>2, <2>1 DEF Disconnect, FreshStamps
    <3>2. member[r][u] \in Member
      BY DEF TypeRooms
    <3>3. gone \in Member
      BY <3>1, <3>2 DEF Member
    <3>4. member' = [member EXCEPT ![r] = [member[r] EXCEPT ![u] = gone]]
      BY <1>2, <2>1, <3>2, ZenonT(40) DEF Disconnect, TypeRooms, Member
    <3>5. member' \in [Rooms -> [Users -> Member]]
      BY <3>3, <3>4 DEF TypeRooms
    <3>6. TypeRooms'
      BY <1>2, <2>1, <3>5 DEF Disconnect, TypeRooms
    <3>7. redisQ' \in Seq(Call)
      BY <1>2, <2>1, SuspendType DEF Disconnect, TypeCalls, Kind
    <3>8. TypeCalls'
      BY <1>2, <3>7 DEF Disconnect, TypeCalls, requestVars
    <3>. QED  BY <1>2, <3>6, <3>8, SameTypes, TypeParts DEF Disconnect
  <2>2. CASE ~(r # NoRoom /\ member[r][u].socket = s)
    <3>1. TypeRooms' /\ TypeGame'
      BY <1>2, <2>2, SameTypes DEF Disconnect, roomVars
    <3>2. TypeCalls'
      BY <1>2, <2>2 DEF Disconnect, TypeCalls, requestVars
    <3>. QED  BY <3>1, <3>2, TypeParts
  <2>. QED  BY <2>1, <2>2
<1>3. CASE Reconnect(s)
  <2>1. userRoom[u] \in Rooms
    BY <1>3 DEF Reconnect, TypeRooms
  <2>2. TypeRooms' /\ open' \subseteq Sockets /\ redisQ' \in Seq(Call)
    BY <1>3, <2>1, ReclaimType DEF Reconnect
  <2>. QED  BY <1>3, <2>2, SameTypes, TypeParts DEF Reconnect, TypeCalls, requestVars
<1>4. CASE QuickPlay(s)
  <2>. "join" \in Kind
    BY DEF Kind
  <2>1. ASSUME NEW r \in Candidates, Enter(r, u, s, "join"), UNCHANGED <<live, room>>
        PROVE  TypeRooms' /\ redisQ' \in Seq(Call)
    <3>1. r \in Rooms
      BY <2>1 DEF Candidates
    <3>. QED  BY <1>4, <2>1, <3>1, EnterType DEF QuickPlay, TypeRooms
  <2>2. ASSUME NEW r \in Unused(PublicRooms), live' = live \cup {r},
               room' = [room EXCEPT ![r] = NewRoom(NoUser, FALSE)],
               Enter(r, u, s, "join")
        PROVE  TypeRooms' /\ redisQ' \in Seq(Call)
    <3>1. r \in Rooms
      BY <2>2 DEF Unused
    <3>2. room' \in [Rooms -> RoomState]
      BY <2>2, NewTypes DEF TypeRooms
    <3>. QED  BY <1>4, <2>2, <3>1, <3>2, EnterType DEF QuickPlay, TypeRooms
  <2>3. TypeRooms' /\ redisQ' \in Seq(Call)
    BY <1>4, <2>1, <2>2 DEF QuickPlay
  <2>. QED  BY <1>4, <2>3, SameTypes, TypeParts DEF QuickPlay, TypeCalls, requestVars
<1>5. CASE LeaveRoom(s)
  <2>1. userRoom[u] \in Rooms
    BY <1>5 DEF LeaveRoom, TypeRooms
  <2>2. TypeRooms' /\ redisQ' \in Seq(Call)
    BY <1>5, <2>1, BeginLeaveType DEF LeaveRoom, Kind, TypeCalls
  <2>. QED  BY <1>5, <2>2, SameTypes, TypeParts DEF LeaveRoom, TypeCalls, requestVars
<1>6. CASE StartNow(s)
  <2>. DEFINE r == userRoom[u]
  <2>1. r \in Rooms /\ room[r] \in RoomState
    BY <1>6 DEF StartNow, TypeRooms
  <2>2. [Counting(room[r]) EXCEPT !.deadline = FALSE] \in RoomState
    BY <2>1, CountdownTypes DEF RoomState
  <2>3. room' = [room EXCEPT ![r] = [Counting(room[r]) EXCEPT !.deadline = FALSE]]
    BY <1>6 DEF StartNow, TypeRooms
  <2>4. TypeRooms'
    BY <1>6, <2>2, <2>3 DEF StartNow, TypeRooms
  <2>. QED  BY <1>6, <2>4, SameTypes, TypeParts DEF StartNow, requestVars
<1>7. ASSUME NEW n \in Names, CreatePrivate(s, n)
      PROVE  TypeOK'
  <2>1. TypeRooms' /\ TypeGame'
    BY <1>7, SameTypes DEF CreatePrivate
  <2>2. [user |-> u, name |-> n, socket |-> s, hashed |-> FALSE]
            \in [user: Users, name: Names, socket: Sockets, hashed: BOOLEAN]
    OBVIOUS
  <2>3. TypeCalls'
    BY <1>7, <2>2 DEF CreatePrivate, TypeCalls
  <2>. QED  BY <2>1, <2>3, TypeParts
<1>8. ASSUME NEW n \in Names, JoinPrivate(s, n)
      PROVE  TypeOK'
  <2>1. byName[n] \in Rooms
    BY <1>8 DEF JoinPrivate, TypeRooms
  <2>2. TypeRooms' /\ TypeGame'
    BY <1>8, SameTypes DEF JoinPrivate
  <2>3. TypeCalls'
    BY <1>8, <2>1 DEF JoinPrivate, TypeCalls
  <2>. QED  BY <2>2, <2>3, TypeParts
<1>. QED  BY <1>1, <1>2, <1>3, <1>4, <1>5, <1>6, <1>7, <1>8 DEF Request

\* The suspended calls that resume.
LEMMA ResumeTypes ==
    ASSUME Seats, Resume
    PROVE  TypeOK'
<1>. TypeRooms /\ TypeCalls /\ TypeGame
  BY TypeParts DEF Seats
<1>1. CASE JoinReplied
  <2>. DEFINE r == Head(redisQ).room
  <2>. r \in Rooms /\ Tail(redisQ) \in Seq(Call)
    BY <1>1, HeadType DEF JoinReplied, Replied
  <2>1. TypeRooms'
    BY <1>1, AfterLossType DEF JoinReplied, TypeRooms
  <2>2. TypeCalls'
    BY <1>1 DEF JoinReplied, TypeCalls
  <2>. QED  BY <1>1, <2>1, <2>2, SameTypes, TypeParts DEF JoinReplied
<1>2. CASE JoinRejected
  <2>. DEFINE r == Head(redisQ).room
  <2>. r \in Rooms /\ Tail(redisQ) \in Seq(Call)
    BY <1>2, HeadType DEF JoinRejected, Replied
  <2>1. TypeRooms' /\ session' \in [Rooms -> Session]
    BY <1>2, DestroyType, SameTypes DEF JoinRejected, TypeGame
  <2>2. TypeCalls'
    BY <1>2 DEF JoinRejected, TypeCalls
  <2>3. TypeGame'
    BY <1>2, <2>1 DEF JoinRejected, TypeGame
  <2>. QED  BY <2>1, <2>2, <2>3, TypeParts
<1>9. CASE DelRejected
  <2>. Tail(redisQ) \in Seq(Call)
    BY <1>9, HeadType DEF DelRejected, Replied
  <2>1. TypeRooms' /\ TypeGame'
    BY <1>9, SameTypes DEF DelRejected, roomVars, gameVars
  <2>2. TypeCalls'
    BY <1>9 DEF DelRejected, TypeCalls, requestVars
  <2>. QED  BY <2>1, <2>2, TypeParts
<1>3. CASE LeaveReplied
  <2>. DEFINE r == Head(redisQ).room
              u == Head(redisQ).user
  <2>. r \in Rooms /\ Tail(redisQ) \in Seq(Call)
    BY <1>3, HeadType DEF LeaveReplied, Replied
  <2>1. session[r] \in Session
    BY DEF TypeGame
  <2>2. WithoutTank(session[r], u) \in Session
    BY <2>1 DEF WithoutTank, Session
  <2>3. TypeRooms' /\ session' \in [Rooms -> Session]
    <3>1. CASE Abandoned(r) /\ r \in live
      BY <1>3, <3>1, DestroyType DEF LeaveReplied
    <3>2. CASE ~(Abandoned(r) /\ r \in live)
      BY <1>3, <2>2, <3>2, AfterLossType, SMTT(20) DEF LeaveReplied, TypeRooms, TypeGame
    <3>. QED  BY <3>1, <3>2
  <2>4. TypeCalls'
    BY <1>3 DEF LeaveReplied, TypeCalls, requestVars
  <2>5. TypeGame'
    BY <1>3, <2>3 DEF LeaveReplied, TypeGame
  <2>. QED  BY <2>3, <2>4, <2>5, TypeParts
<1>4. CASE DisconnectReplied
  <2>. DEFINE r == Head(redisQ).room
              u == Head(redisQ).user
  <2>. r \in Rooms /\ u \in Users /\ Tail(redisQ) \in Seq(Call)
    BY <1>4, HeadType DEF DisconnectReplied, Replied
  <2>1. ASSUME ArmGrace(r, u)
        PROVE  grace' \subseteq [room: Rooms, user: Users, stamp: Stamps \cup {0}]
    <3>1. member[r][u] \in Member
      BY DEF TypeRooms
    <3>2. member[r][u].stamp \in Stamps \cup {0}
      BY <3>1 DEF Member
    <3>. QED  BY <2>1, <3>2 DEF ArmGrace, TypeGame
  <2>2. CASE r \in PrivateRooms \/ room[r].status = "in_game"
    <3>. /\ room' = IF r \in PrivateRooms THEN [room EXCEPT ![r] = AfterLoss(r)] ELSE room
         /\ UNCHANGED <<live, players, member, userRoom, byName, activity>>
      BY <1>4, <2>2, RoomsAssumption DEF DisconnectReplied
    <3>1. TypeRooms'
      BY AfterLossType DEF TypeRooms
    <3>2. ArmGrace(r, u) /\ redisQ' = Tail(redisQ)
      BY <1>4, <2>2, RoomsAssumption DEF DisconnectReplied
    <3>3. TypeCalls'
      BY <1>4, <3>2 DEF DisconnectReplied, TypeCalls, requestVars
    <3>4. TypeGame'
      BY <1>4, <2>1, <3>2 DEF DisconnectReplied, TypeGame, gameVars
    <3>. QED  BY <3>1, <3>3, <3>4, TypeParts
  <2>3. CASE ~(r \in PrivateRooms \/ room[r].status = "in_game")
    <3>1. TypeRooms' /\ redisQ' \in Seq(Call)
      <4>1. CASE userRoom[u] = NoRoom
        BY <1>4, <2>3, <4>1, SameTypes DEF DisconnectReplied
      <4>2. CASE userRoom[u] # NoRoom
        <5>1. userRoom[u] \in Rooms
          BY <4>2 DEF TypeRooms
        <5>. QED  BY <1>4, <2>3, <4>2, <5>1, BeginLeaveType DEF DisconnectReplied, Kind
      <4>. QED  BY <4>1, <4>2
    <3>2. TypeCalls'
      BY <1>4, <3>1 DEF DisconnectReplied, TypeCalls, requestVars
    <3>3. TypeGame'
      BY <1>4, <2>3, SameTypes DEF DisconnectReplied
    <3>. QED  BY <3>1, <3>2, <3>3, TypeParts
  <2>. QED  BY <2>2, <2>3
<1>5. ASSUME NEW c \in creating, CreateHashed(c)
      PROVE  TypeOK'
  <2>1. /\ c.user \in Users /\ c.name \in Names /\ c.socket \in Sockets
        /\ [c EXCEPT !.hashed = TRUE]
             \in [user: Users, name: Names, socket: Sockets, hashed: BOOLEAN]
    BY DEF TypeCalls
  <2>2. creating' \subseteq [user: Users, name: Names, socket: Sockets, hashed: BOOLEAN]
    BY <1>5, <2>1 DEF CreateHashed, TypeCalls
  <2>3. ASSUME NEW r \in Unused(PrivateRooms),
               live' = live \cup {r},
               room' = [room EXCEPT ![r] = NewRoom(c.user, TRUE)],
               byName' = [byName EXCEPT ![c.name] = r],
               Enter(r, c.user, c.socket, "create")
        PROVE  TypeRooms' /\ redisQ' \in Seq(Call)
    <3>1. r \in Rooms
      BY <2>3 DEF Unused, Rooms
    <3>2. room' \in [Rooms -> RoomState]
      BY <2>1, <2>3, NewTypes DEF TypeRooms
    <3>3. "create" \in Kind
      BY DEF Kind
    <3>. QED  BY <2>1, <2>3, <3>1, <3>2, <3>3, EnterType DEF TypeRooms
  <2>4. TypeRooms' /\ redisQ' \in Seq(Call)
    BY <1>5, <2>3, SameTypes DEF CreateHashed, TypeCalls
  <2>5. TypeCalls' /\ TypeGame'
    BY <1>5, <2>2, <2>4, SameTypes DEF CreateHashed, TypeCalls
  <2>. QED  BY <2>4, <2>5, TypeParts
<1>6. ASSUME NEW j \in joining, JoinChecked(j)
      PROVE  TypeOK'
  <2>1. j.user \in Users /\ j.room \in Rooms /\ j.socket \in Sockets
    BY DEF TypeCalls
  <2>2. TypeRooms' /\ open' \subseteq Sockets /\ redisQ' \in Seq(Call)
    <3>1. ASSUME Enter(j.room, j.user, j.socket, "join"), UNCHANGED <<live, room, byName, open>>
          PROVE  TypeRooms' /\ open' \subseteq Sockets /\ redisQ' \in Seq(Call)
      BY <2>1, <3>1, EnterType DEF TypeRooms, TypeCalls, Kind
    <3>2. ASSUME Reclaim(j.room, j.user, j.socket)
          PROVE  TypeRooms' /\ open' \subseteq Sockets /\ redisQ' \in Seq(Call)
      BY <2>1, <3>2, ReclaimType
    <3>. QED  BY <1>6, <3>1, <3>2, SameTypes DEF JoinChecked, TypeCalls
  <2>. QED  BY <1>6, <2>2, SameTypes, TypeParts DEF JoinChecked, TypeCalls
<1>7. ASSUME NEW r \in Rooms, StartReady(r)
      PROVE  TypeOK'
  <2>1. room[r] \in RoomState /\ snapshot[r] \in SUBSET Users
    BY DEF TypeRooms, TypeGame
  <2>2. [room[r] EXCEPT !.status = "in_game"] \in RoomState
    BY <2>1 DEF RoomState, Status
  <2>3. TypeRooms'
    BY <1>7, <2>2 DEF StartReady, TypeRooms
  <2>4. [status |-> "playing", players |-> snapshot[r], alive |-> snapshot[r],
          many |-> Cardinality(snapshot[r]) > 1] \in Session
    BY <2>1 DEF Session
  <2>5. TypeGame'
    BY <1>7, <2>4 DEF StartReady, TypeGame
  <2>6. TypeCalls'
    BY <1>7, SameTypes DEF StartReady, requestVars
  <2>. QED  BY <2>3, <2>5, <2>6, TypeParts
<1>8. ASSUME NEW r \in Rooms, MatchSaved(r)
      PROVE  TypeOK'
  <2>1. room[r] \in RoomState
    BY DEF TypeRooms
  <2>2. [room[r] EXCEPT !.status = "finished", !.endsAt = FALSE, !.reset = TRUE] \in RoomState
    BY <2>1 DEF RoomState, Status
  <2>3. room' \in [Rooms -> RoomState]
    <3>1. CASE r \in live /\ room[r].status # "finished"
      <4>1. room' = [room EXCEPT ![r] =
               [room[r] EXCEPT !.status = "finished", !.endsAt = FALSE, !.reset = TRUE]]
        BY <1>8, <3>1 DEF MatchSaved, TypeRooms
      <4>. QED  BY <2>2, <4>1 DEF TypeRooms
    <3>. QED  BY <1>8, <3>1 DEF MatchSaved, TypeRooms
  <2>4. TypeRooms' /\ TypeGame'
    BY <1>8, <2>3 DEF MatchSaved, TypeRooms, TypeGame
  <2>5. TypeCalls'
    BY <1>8, SameTypes DEF MatchSaved, requestVars
  <2>. QED  BY <2>4, <2>5, TypeParts
<1>. QED  BY <1>1, <1>2, <1>3, <1>4, <1>5, <1>6, <1>7, <1>8, <1>9 DEF Resume

\* The timers.
LEMMA TimerTypes ==
    ASSUME Seats, Timer
    PROVE  TypeOK'
<1>. TypeRooms /\ TypeCalls /\ TypeGame
  BY TypeParts DEF Seats
<1>1. ASSUME NEW r \in Rooms, TickCountdown(r)
      PROVE  TypeOK'
  <2>1. room[r] \in RoomState
    BY DEF TypeRooms
  <2>2. [room[r] EXCEPT !.ticking = FALSE] \in RoomState
    BY <2>1 DEF RoomState
  <2>3. CASE BeginStart(r)
    <3>1. /\ TypeRooms' /\ starting' \subseteq Rooms
          /\ snapshot' \in [Rooms -> SUBSET Users]
      BY <1>1, <2>3, BeginStartType DEF TickCountdown
    <3>2. TypeCalls' /\ TypeGame'
      BY <1>1, <3>1, SameTypes DEF TickCountdown, TypeGame, requestVars
    <3>. QED  BY <3>1, <3>2, TypeParts
  <2>4. CASE ~BeginStart(r)
    <3>1. /\ \/ room' = [room EXCEPT ![r] = Canceled(room[r])]
             \/ room' = [room EXCEPT ![r] = UpdatedCountdown(r)]
             \/ room' = [room EXCEPT ![r] = [room[r] EXCEPT !.ticking = FALSE]]
          /\ UNCHANGED <<live, players, member, userRoom, byName, activity, starting,
                         snapshot, open, redisQ, requestVars, saving, session, grace, stray>>
      BY <1>1, <2>1, <2>4 DEF TickCountdown, TypeRooms, RoomState
    <3>2. room' \in [Rooms -> RoomState]
      BY <2>1, <2>2, <3>1, CountdownTypes, AfterLossType DEF TypeRooms
    <3>3. TypeRooms' /\ TypeCalls' /\ TypeGame'
      BY <3>1, <3>2 DEF TypeRooms, TypeCalls, TypeGame, requestVars
    <3>. QED  BY <3>3, TypeParts
  <2>. QED  BY <2>3, <2>4
<1>2. ASSUME NEW r \in Rooms, ResetRound(r)
      PROVE  TypeOK'
  <2>1. room[r] \in RoomState
    BY DEF TypeRooms
  <2>2. [Canceled(room[r]) EXCEPT !.reset = FALSE] \in RoomState
    BY <2>1, CountdownTypes DEF RoomState
  <2>3. TypeRooms' /\ session' \in [Rooms -> Session] /\ stray' \subseteq Rooms
    <3>1. CASE r \in PublicRooms
      BY <1>2, <3>1, DestroyType, RoomsAssumption DEF ResetRound, TypeGame
    <3>2. CASE r \notin PublicRooms
      <4>1. room' = [room EXCEPT ![r] = [Canceled(room[r]) EXCEPT !.reset = FALSE]]
        BY <1>2, <3>2 DEF ResetRound, TypeRooms
      <4>. QED  BY <1>2, <2>2, <3>2, <4>1, NewTypes DEF ResetRound, TypeRooms, TypeGame
    <3>. QED  BY <3>1, <3>2
  <2>4. TypeCalls' /\ TypeGame'
    BY <1>2, <2>3 DEF ResetRound, TypeCalls, TypeGame, requestVars
  <2>. QED  BY <2>3, <2>4, TypeParts
<1>3. ASSUME NEW r \in Rooms, CloseInactive(r)
      PROVE  TypeOK'
  <2>1. TypeRooms' /\ session' \in [Rooms -> Session]
    BY <1>3, DestroyType DEF CloseInactive
  <2>2. TypeCalls' /\ TypeGame'
    BY <1>3, <2>1 DEF CloseInactive, TypeCalls, TypeGame, requestVars
  <2>. QED  BY <2>1, <2>2, TypeParts
<1>4. ASSUME NEW r \in Rooms, NEW S \in SUBSET Users, GameTick(r, S)
      PROVE  TypeOK'
  <2>. DEFINE over == session[r].many /\ Cardinality(S) <= 1
              after == [session[r] EXCEPT !.alive = S,
                            !.status = IF over THEN "finished" ELSE "playing"]
  <2>1. session[r] \in Session
    BY DEF TypeGame
  <2>2. after \in Session
    BY <2>1 DEF Session
  <2>3. session' = [session EXCEPT ![r] = after]
    BY <1>4 DEF GameTick, TypeGame
  <2>4. TypeGame'
    BY <1>4, <2>2, <2>3 DEF GameTick, TypeGame
  <2>5. TypeRooms' /\ TypeCalls'
    BY <1>4, SameTypes DEF GameTick, requestVars
  <2>. QED  BY <2>4, <2>5, TypeParts
<1>5. ASSUME NEW g \in grace, GraceExpires(g)
      PROVE  TypeOK'
  <2>1. g.user \in Users /\ g.room \in Rooms
    BY DEF TypeGame
  <2>2. TypeRooms' /\ redisQ' \in Seq(Call)
    <3>1. CASE StillAway(g)
      <4>1. userRoom[g.user] = g.room
        BY <2>1, <3>1 DEF StillAway, Seats, MembershipAgrees
      <4>. QED  BY <1>5, <2>1, <3>1, <4>1, BeginLeaveType DEF GraceExpires, TypeCalls, Kind
    <3>2. CASE ~StillAway(g)
      BY <1>5, <3>2, SameTypes DEF GraceExpires, TypeCalls
    <3>. QED  BY <3>1, <3>2
  <2>3. TypeCalls' /\ TypeGame'
    BY <1>5, <2>2 DEF GraceExpires, TypeCalls, TypeGame, requestVars, gameVars
  <2>. QED  BY <2>2, <2>3, TypeParts
<1>. QED  BY <1>1, <1>2, <1>3, <1>4, <1>5 DEF Timer

-----------------------------------------------------------------------------
(* Membership.  A handler changes it through one of the shared pieces. *)

LEMMA EnterSeats ==
    ASSUME Seats, NEW r \in Rooms, NEW u \in Users, NEW s, NEW kind,
           userRoom[u] = NoRoom, Enter(r, u, s, kind),
           live' = live \cup {r}
    PROVE  MembershipAgrees' /\ DeadRoomsEmpty'
BY RoomsAssumption DEF Seats, TypeOK, MembershipAgrees, DeadRoomsEmpty, Enter

LEMMA BeginLeaveSeats ==
    ASSUME Seats, NEW u \in Users, userRoom[u] # NoRoom, NEW kind, NEW q,
           BeginLeave(u, kind, q)
    PROVE  MembershipAgrees' /\ DeadRoomsEmpty'
BY RoomsAssumption DEF Seats, TypeOK, MembershipAgrees, DeadRoomsEmpty, BeginLeave

LEMMA DestroySeats ==
    ASSUME Seats, NEW r \in Rooms, r \in live, Destroy(r)
    PROVE  MembershipAgrees' /\ DeadRoomsEmpty'
BY RoomsAssumption DEF Seats, TypeOK, MembershipAgrees, DeadRoomsEmpty, Destroy

LEMMA BeginStartSeats ==
    ASSUME Seats, NEW r \in Rooms, r \in live, BeginStart(r), UNCHANGED live
    PROVE  MembershipAgrees' /\ DeadRoomsEmpty'
BY RoomsAssumption DEF Seats, TypeOK, MembershipAgrees, DeadRoomsEmpty, BeginStart

LEMMA SameSeats ==
    ASSUME Seats, UNCHANGED <<live, players, userRoom>>
    PROVE  MembershipAgrees' /\ DeadRoomsEmpty'
BY DEF Seats, MembershipAgrees, DeadRoomsEmpty

LEMMA RequestSeats ==
    ASSUME Seats, NEW s \in Sockets, Request(s)
    PROVE  MembershipAgrees' /\ DeadRoomsEmpty'
<1>. DEFINE u == Owner[s]
<1>. u \in Users
  BY RoomsAssumption
<1>. /\ live \subseteq Rooms /\ userRoom \in [Users -> Rooms \cup {NoRoom}]
     /\ Rooms = PublicRooms \cup PrivateRooms
  BY DEF Seats, TypeOK, Rooms
<1>1. CASE Connect(s)
  BY <1>1, SameSeats DEF Connect, roomVars
<1>2. CASE Disconnect(s)
  BY <1>2, SameSeats DEF Disconnect
<1>3. CASE Reconnect(s)
  BY <1>3, SameSeats DEF Reconnect, Reclaim
<1>4. CASE QuickPlay(s)
  <2>1. PICK r \in Rooms : Enter(r, u, s, "join") /\ live' = live \cup {r}
    BY <1>4 DEF QuickPlay, Candidates, Unused
  <2>. QED  BY <1>4, <2>1, EnterSeats DEF QuickPlay
<1>5. CASE LeaveRoom(s)
  BY <1>5, BeginLeaveSeats DEF LeaveRoom
<1>6. CASE StartNow(s)
  BY <1>6, SameSeats DEF StartNow
<1>7. ASSUME NEW n \in Names, CreatePrivate(s, n) \/ JoinPrivate(s, n)
      PROVE  MembershipAgrees' /\ DeadRoomsEmpty'
  BY <1>7, SameSeats DEF CreatePrivate, JoinPrivate, roomVars
<1>. QED  BY <1>1, <1>2, <1>3, <1>4, <1>5, <1>6, <1>7 DEF Request

LEMMA ResumeSeats ==
    ASSUME Seats, Resume
    PROVE  MembershipAgrees' /\ DeadRoomsEmpty'
<1>. /\ live \subseteq Rooms /\ userRoom \in [Users -> Rooms \cup {NoRoom}]
     /\ TypeCalls
  BY TypeParts DEF Seats, TypeOK
<1>1. CASE JoinReplied
  BY <1>1, SameSeats DEF JoinReplied
<1>2. CASE JoinRejected
  BY <1>2, SameSeats, DestroySeats DEF JoinRejected, roomVars
<1>8. CASE DelRejected
  BY <1>8, SameSeats DEF DelRejected, roomVars
<1>3. CASE LeaveReplied
  BY <1>3, SameSeats, DestroySeats DEF LeaveReplied
<1>4. CASE DisconnectReplied
  <2>1. Head(redisQ).user \in Users
    BY <1>4, HeadType DEF DisconnectReplied, Replied
  <2>. QED  BY <1>4, <2>1, SameSeats, BeginLeaveSeats DEF DisconnectReplied, roomVars
<1>5. ASSUME NEW c \in creating, CreateHashed(c)
      PROVE  MembershipAgrees' /\ DeadRoomsEmpty'
  <2>1. c.user \in Users
    BY DEF TypeCalls
  <2>2. CASE userRoom[c.user] = NoRoom
    <3>1. PICK r \in Rooms : Enter(r, c.user, c.socket, "create") /\ live' = live \cup {r}
      BY <1>5, <2>2 DEF CreateHashed, Unused, Rooms
    <3>. QED  BY <2>1, <2>2, <3>1, EnterSeats
  <2>3. CASE userRoom[c.user] # NoRoom
    BY <1>5, <2>3, SameSeats DEF CreateHashed, roomVars
  <2>. QED  BY <2>2, <2>3
<1>6. ASSUME NEW j \in joining, JoinChecked(j)
      PROVE  MembershipAgrees' /\ DeadRoomsEmpty'
  <2>1. j.user \in Users /\ j.room \in Rooms
    BY DEF TypeCalls
  <2>2. ASSUME MayEnter(j.user, j.room), Enter(j.room, j.user, j.socket, "join"),
               UNCHANGED live
        PROVE  MembershipAgrees' /\ DeadRoomsEmpty'
    <3>1. userRoom[j.user] = NoRoom /\ live' = live \cup {j.room}
      BY <2>2 DEF MayEnter
    <3>. QED  BY <2>1, <2>2, <3>1, EnterSeats
  <2>3. ASSUME UNCHANGED <<live, players, userRoom>>
        PROVE  MembershipAgrees' /\ DeadRoomsEmpty'
    BY <2>3, SameSeats
  <2>. QED  BY <1>6, <2>2, <2>3 DEF JoinChecked, Reclaim, roomVars
<1>7. ASSUME NEW r \in Rooms, StartReady(r) \/ MatchSaved(r)
      PROVE  MembershipAgrees' /\ DeadRoomsEmpty'
  BY <1>7, SameSeats DEF StartReady, MatchSaved
<1>. QED  BY <1>1, <1>2, <1>3, <1>4, <1>5, <1>6, <1>7, <1>8 DEF Resume

LEMMA TimerSeats ==
    ASSUME Seats, Timer
    PROVE  MembershipAgrees' /\ DeadRoomsEmpty'
<1>. TypeGame
  BY TypeParts DEF Seats
<1>1. ASSUME NEW r \in Rooms, TickCountdown(r)
      PROVE  MembershipAgrees' /\ DeadRoomsEmpty'
  BY <1>1, SameSeats, BeginStartSeats DEF TickCountdown
<1>2. ASSUME NEW r \in Rooms, ResetRound(r)
      PROVE  MembershipAgrees' /\ DeadRoomsEmpty'
  BY <1>2, SameSeats, DestroySeats DEF ResetRound
<1>3. ASSUME NEW r \in Rooms, CloseInactive(r)
      PROVE  MembershipAgrees' /\ DeadRoomsEmpty'
  BY <1>3, DestroySeats DEF CloseInactive
<1>4. ASSUME NEW r \in Rooms, NEW S \in SUBSET Users, GameTick(r, S)
      PROVE  MembershipAgrees' /\ DeadRoomsEmpty'
  BY <1>4, SameSeats DEF GameTick, roomVars
<1>5. ASSUME NEW g \in grace, GraceExpires(g)
      PROVE  MembershipAgrees' /\ DeadRoomsEmpty'
  <2>1. g.user \in Users /\ g.room \in Rooms
    BY DEF TypeGame
  <2>2. StillAway(g) => userRoom[g.user] # NoRoom
    BY <2>1, RoomsAssumption DEF StillAway, Seats, MembershipAgrees
  <2>. QED  BY <1>5, <2>1, <2>2, SameSeats, BeginLeaveSeats DEF GraceExpires, roomVars
<1>. QED  BY <1>1, <1>2, <1>3, <1>4, <1>5 DEF Timer

LEMMA InitSeats == Init => Seats
<1>. SUFFICES ASSUME Init PROVE Seats
  OBVIOUS
<1>1. TypeRooms
  <2>1. NewRoom(NoUser, FALSE) \in RoomState
    BY NewTypes
  <2>2. [NewRoom(NoUser, FALSE) EXCEPT !.status = "none"] \in RoomState
    BY <2>1 DEF RoomState, Status
  <2>. QED  BY <2>2, NewTypes DEF Init, TypeRooms
<1>2. TypeCalls
  BY DEF Init, TypeCalls
<1>3. TypeGame
  BY NewTypes DEF Init, TypeGame
<1>4. MembershipAgrees /\ DeadRoomsEmpty
  BY RoomsAssumption DEF Init, MembershipAgrees, DeadRoomsEmpty
<1>. QED  BY <1>1, <1>2, <1>3, <1>4, TypeParts DEF Seats

LEMMA NextSeats == Seats /\ [Next]_vars => Seats'
<1>. SUFFICES ASSUME Seats, [Next]_vars PROVE Seats'
  OBVIOUS
<1>1. ASSUME NEW s \in Sockets, Request(s) PROVE Seats'
  BY <1>1, RequestTypes, RequestSeats DEF Seats
<1>2. CASE Resume
  BY <1>2, ResumeTypes, ResumeSeats DEF Seats
<1>3. CASE Timer
  BY <1>3, TimerTypes, TimerSeats DEF Seats
<1>4. CASE UNCHANGED vars
  BY <1>4, SameTypes, SameSeats, TypeParts DEF Seats, vars, roomVars, gameVars
<1>. QED  BY <1>1, <1>2, <1>3, <1>4 DEF Next

LEMMA SeatsAlways == Spec => []Seats
BY InitSeats, NextSeats, PTL DEF Spec

\* The variables keep their types whatever the order of requests, replies and
\* timers.  No initial assumption on rooms, users or bounds goes beyond
\* RoomsAssumption.
THEOREM TypesHold == Spec => []TypeOK
<1>1. Seats => TypeOK
  BY DEF Seats
<1>. QED  BY <1>1, SeatsAlways, PTL

\* userRoom and the rooms' player lists always say the same: the seven handlers
\* that write both, and the two ways a room is destroyed, agree.
THEOREM MembershipHolds == Spec => []MembershipAgrees
<1>1. Seats => MembershipAgrees
  BY DEF Seats
<1>. QED  BY <1>1, SeatsAlways, PTL
=============================================================================
