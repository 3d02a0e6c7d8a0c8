------------------------- MODULE RoomsSafetyProofs -------------------------
(***************************************************************************)
(* The safety invariants of Rooms that rest on types and membership.       *)
(***************************************************************************)
EXTENDS RoomsProofs, FiniteSetTheorems

-----------------------------------------------------------------------------
(* Presence.  Membership being agreed on, a user's presence is a question of  *)
(* one room only.                                                             *)

Attends(u) == userRoom[u] # NoRoom /\ member[userRoom[u]][u].socket # NoSocket

Presence == \A u \in Users : u \in activity <=> Attends(u)

LEMMA PresenceMeans == Seats => (PresenceAgrees <=> Presence)
<1>. SUFFICES ASSUME Seats PROVE PresenceAgrees <=> Presence
  OBVIOUS
<1>1. ASSUME NEW u \in Users
      PROVE  Attends(u) <=> \E r \in live : u \in Connected(r)
  BY RoomsAssumption DEF Seats, TypeOK, MembershipAgrees, Attends, Connected
<1>2. activity \subseteq Users
  BY DEF Seats, TypeOK
<1>. QED  BY <1>1, <1>2 DEF PresenceAgrees, Presence

LEMMA PresenceMeansNext == Seats' => (PresenceAgrees' <=> Presence')
<1>. SUFFICES ASSUME Seats' PROVE PresenceAgrees' <=> Presence'
  OBVIOUS
<1>1. ASSUME NEW u \in Users
      PROVE  Attends(u)' <=> \E r \in live' : u \in Connected(r)'
  BY RoomsAssumption DEF Seats, TypeOK, MembershipAgrees, Attends, Connected
<1>2. activity' \subseteq Users
  BY DEF Seats, TypeOK
<1>. QED  BY <1>1, <1>2 DEF PresenceAgrees, Presence

LEMMA EnterPresence ==
    ASSUME Seats, Presence, NEW r \in Rooms, NEW u \in Users, NEW s \in Sockets, NEW kind,
           userRoom[u] = NoRoom, Enter(r, u, s, kind)
    PROVE  Presence'
BY RoomsAssumption DEF Seats, TypeOK, Presence, Attends, Enter

LEMMA ReclaimPresence ==
    ASSUME Seats, Presence, NEW u \in Users, NEW s \in Sockets,
           userRoom[u] # NoRoom, Reclaim(userRoom[u], u, s)
    PROVE  Presence'
BY RoomsAssumption DEF Seats, TypeOK, Member, Presence, Attends, Reclaim

LEMMA BeginLeavePresence ==
    ASSUME Seats, Presence, NEW u \in Users, userRoom[u] # NoRoom, NEW kind, NEW q,
           BeginLeave(u, kind, q)
    PROVE  Presence'
BY RoomsAssumption DEF Seats, TypeOK, Member, Presence, Attends, BeginLeave, Forget

LEMMA DestroyPresence ==
    ASSUME Seats, Presence, NEW r \in Rooms, r \in live, Destroy(r)
    PROVE  Presence'
BY RoomsAssumption DEF Seats, TypeOK, MembershipAgrees, Presence, Attends, Destroy

LEMMA BeginStartPresence ==
    ASSUME Seats, Presence, NEW r \in Rooms, r \in live, BeginStart(r)
    PROVE  Presence'
BY RoomsAssumption DEF Seats, TypeOK, Member, MembershipAgrees, Presence, Attends, BeginStart,
                       Forget, Connected

LEMMA SamePresence ==
    ASSUME Presence, UNCHANGED <<activity, userRoom, member>>
    PROVE  Presence'
BY DEF Presence, Attends

\* Disconnect is the one handler that ends a presence without ending the
\* membership.
LEMMA NextPresence ==
    ASSUME Seats, Presence, [Next]_vars
    PROVE  Presence'
<1>. /\ live \subseteq Rooms /\ userRoom \in [Users -> Rooms \cup {NoRoom}]
     /\ TypeCalls /\ TypeGame /\ \A s \in Sockets : Owner[s] \in Users
  BY RoomsAssumption, TypeParts DEF Seats, TypeOK
<1>1. ASSUME NEW s \in Sockets, Disconnect(s)
      PROVE  Presence'
  <2>. DEFINE u == Owner[s]
              r == userRoom[u]
  <2>1. CASE r # NoRoom /\ member[r][u].socket = s
    <3>1. PICK now : member' = [member EXCEPT ![r][u].socket = NoSocket, ![r][u].stamp = now]
      BY <1>1, <2>1 DEF Disconnect
    <3>2. activity' = activity \ {u} /\ UNCHANGED userRoom
      BY <1>1, <2>1 DEF Disconnect
    <3>3. r \in Rooms /\ member \in [Rooms -> [Users -> Member]]
      BY <2>1 DEF Seats, TypeOK
    <3>. HIDE DEF u, r
    <3>4. member'[r][u].socket = NoSocket
      <4>1. u \in Users
        BY DEF u
      <4>. QED  BY <3>1, <3>3, <4>1 DEF Member
    <3>5. \A q \in Rooms, v \in Users : v # u => member'[q][v] = member[q][v]
      BY <3>1, <3>3
    <3>. QED  BY <3>2, <3>4, <3>5 DEF Presence, Attends, r
  <2>2. CASE ~(r # NoRoom /\ member[r][u].socket = s)
    BY <1>1, <2>2, SamePresence DEF Disconnect
  <2>. QED  BY <2>1, <2>2
<1>2. ASSUME NEW s \in Sockets, QuickPlay(s)
      PROVE  Presence'
  <2>1. \E r \in Rooms : Enter(r, Owner[s], s, "join")
    BY <1>2 DEF QuickPlay, Candidates, Unused, Rooms
  <2>. QED  BY <1>2, <2>1, EnterPresence DEF QuickPlay
<1>3. ASSUME NEW s \in Sockets, Reconnect(s)
      PROVE  Presence'
  BY <1>3, ReclaimPresence DEF Reconnect
<1>4. ASSUME NEW s \in Sockets, LeaveRoom(s)
      PROVE  Presence'
  BY <1>4, BeginLeavePresence DEF LeaveRoom
<1>5. ASSUME NEW s \in Sockets, Connect(s) \/ StartNow(s)
      PROVE  Presence'
  BY <1>5, SamePresence DEF Connect, StartNow, roomVars
<1>6. ASSUME NEW s \in Sockets, NEW n \in Names, CreatePrivate(s, n) \/ JoinPrivate(s, n)
      PROVE  Presence'
  BY <1>6, SamePresence DEF CreatePrivate, JoinPrivate, roomVars
<1>7. CASE JoinReplied
  BY <1>7, SamePresence DEF JoinReplied
<1>8. CASE JoinRejected
  BY <1>8, SamePresence, DestroyPresence DEF JoinRejected, roomVars
<1>19. CASE DelRejected
  BY <1>19, SamePresence DEF DelRejected, roomVars
<1>9. CASE LeaveReplied
  BY <1>9, SamePresence, DestroyPresence DEF LeaveReplied
<1>10. CASE DisconnectReplied
  <2>1. Head(redisQ).user \in Users
    BY <1>10, HeadType DEF DisconnectReplied, Replied
  <2>. QED  BY <1>10, <2>1, SamePresence, BeginLeavePresence DEF DisconnectReplied, roomVars
<1>11. ASSUME NEW c \in creating, CreateHashed(c)
       PROVE  Presence'
  <2>1. c.user \in Users /\ c.socket \in Sockets
    BY DEF TypeCalls
  <2>2. CASE userRoom[c.user] = NoRoom
    <3>1. \E r \in Rooms : Enter(r, c.user, c.socket, "create")
      BY <1>11, <2>2 DEF CreateHashed, Unused, Rooms
    <3>. QED  BY <2>1, <2>2, <3>1, EnterPresence
  <2>3. CASE userRoom[c.user] # NoRoom
    BY <1>11, <2>3, SamePresence DEF CreateHashed, roomVars
  <2>. QED  BY <2>2, <2>3
<1>12. ASSUME NEW j \in joining, JoinChecked(j)
       PROVE  Presence'
  <2>1. j.user \in Users /\ j.room \in Rooms /\ j.socket \in Sockets
    BY DEF TypeCalls
  <2>2. ASSUME MayEnter(j.user, j.room), Enter(j.room, j.user, j.socket, "join")
        PROVE  Presence'
    BY <2>1, <2>2, EnterPresence DEF MayEnter
  <2>3. ASSUME userRoom[j.user] = j.room, Reclaim(j.room, j.user, j.socket)
        PROVE  Presence'
    BY <2>1, <2>3, ReclaimPresence, RoomsAssumption
  <2>. QED  BY <1>12, <2>2, <2>3, SamePresence DEF JoinChecked, roomVars
<1>13. ASSUME NEW r \in Rooms, StartReady(r) \/ MatchSaved(r)
       PROVE  Presence'
  BY <1>13, SamePresence DEF StartReady, MatchSaved
<1>14. ASSUME NEW r \in Rooms, TickCountdown(r)
       PROVE  Presence'
  BY <1>14, SamePresence, BeginStartPresence DEF TickCountdown
<1>15. ASSUME NEW r \in Rooms, ResetRound(r) \/ CloseInactive(r)
       PROVE  Presence'
  BY <1>15, SamePresence, DestroyPresence DEF ResetRound, CloseInactive
<1>16. ASSUME NEW r \in Rooms, NEW S \in SUBSET Users, GameTick(r, S)
       PROVE  Presence'
  BY <1>16, SamePresence DEF GameTick, roomVars
<1>17. ASSUME NEW g \in grace, GraceExpires(g)
       PROVE  Presence'
  <2>1. g.user \in Users /\ g.room \in Rooms
    BY DEF TypeGame
  <2>2. StillAway(g) => userRoom[g.user] # NoRoom
    BY <2>1, RoomsAssumption DEF StillAway, Seats, MembershipAgrees
  <2>. QED  BY <1>17, <2>1, <2>2, SamePresence, BeginLeavePresence DEF GraceExpires, roomVars
<1>18. CASE UNCHANGED vars
  BY <1>18, SamePresence DEF vars
<1>. QED
  BY <1>1, <1>2, <1>3, <1>4, <1>5, <1>6, <1>7, <1>8, <1>9, <1>10, <1>11, <1>12, <1>13,
     <1>14, <1>15, <1>16, <1>17, <1>18, <1>19 DEF Next, Request, Resume, Timer

\* The activity the reward scheduler waits for is exactly that of the members
\* who hold a socket.  The invariant is needed in the pointwise form Presence,
\* with Seats.
THEOREM PresenceHolds == Spec => []PresenceAgrees
<1>1. Init => Presence
  BY RoomsAssumption DEF Init, Presence, Attends
<1>2. Seats /\ Presence /\ [Next]_vars => Presence'
  BY NextPresence
<1>3. Seats /\ Presence => PresenceAgrees
  BY PresenceMeans
<1>. QED  BY <1>1, <1>2, <1>3, SeatsAlways, PTL DEF Spec

-----------------------------------------------------------------------------
(* What is kept of every live room: its administrator is a member, its        *)
(* countdown is driven, its deadline runs while it waits, and it is in use,   *)
(* so that no second room is created in its place.                            *)

WellKept(r) ==
    /\ room[r].admin \in players[r] \cup {NoUser}
    /\ room[r].status = "countdown" => room[r].ticking \/ r \in starting
    /\ r \in PrivateRooms /\ room[r].status = "waiting" => room[r].deadline
    /\ room[r].status # "none"

RoomsKept == \A r \in live : WellKept(r)

LEMMA RoomsKeptMeans == RoomsKept => AdminIsMember /\ CountdownDriven /\ WaitingHasDeadline
BY DEF RoomsKept, WellKept, AdminIsMember, CountdownDriven, WaitingHasDeadline

\* A step that touches one room need be looked at in that room only.
LEMMA OneRoomKept ==
    ASSUME RoomsKept, NEW r,
           \A q \in live' : q # r => /\ q \in live /\ room'[q] = room[q]
                                     /\ players[q] \subseteq players'[q]
                                     /\ (q \in starting => q \in starting'),
           r \in live' => WellKept(r)'
    PROVE  RoomsKept'
<1>1. ASSUME NEW q \in live', q # r
      PROVE  WellKept(q)'
  <2>1. q \in live /\ room'[q] = room[q] /\ players[q] \subseteq players'[q]
        /\ (q \in starting => q \in starting')
    BY <1>1
  <2>2. WellKept(q)
    BY <2>1 DEF RoomsKept
  <2>. QED  BY <2>1, <2>2 DEF WellKept
<1>. QED  BY <1>1 DEF RoomsKept

LEMMA AllRoomsKept ==
    ASSUME RoomsKept, UNCHANGED <<live, room, players, starting>>
    PROVE  RoomsKept'
BY DEF RoomsKept, WellKept

\* What the countdown helpers leave in a room.
LEMMA AfterLossKept ==
    ASSUME Seats, NEW r \in Rooms, NEW rm, rm \in {UpdatedCountdown(r), AfterLoss(r)}
    PROVE  /\ rm.admin = room[r].admin
           /\ \/ rm = room[r] \/ rm.status = "waiting"
              \/ (rm.status = "countdown" /\ rm.ticking)
           /\ r \in PrivateRooms => rm = room[r] \/ rm.deadline
<1>1. room[r] \in RoomState
  BY DEF Seats, TypeOK
<1>2. /\ Waiting(room[r]).admin = room[r].admin /\ Waiting(room[r]).status = "waiting"
      /\ Canceled(room[r]).admin = room[r].admin /\ Canceled(room[r]).status = "waiting"
      /\ Canceled(room[r]).deadline
      /\ Counting(room[r]).admin = room[r].admin /\ Counting(room[r]).status = "countdown"
      /\ Counting(room[r]).ticking
  BY <1>1 DEF RoomState, Waiting, Canceled, Counting
<1>3. CASE rm = UpdatedCountdown(r)
  BY <1>2, <1>3 DEF UpdatedCountdown
<1>4. CASE rm = Canceled(room[r])
  BY <1>2, <1>4
<1>. QED  BY <1>3, <1>4 DEF AfterLoss

LEMMA EnterKept ==
    ASSUME Seats, RoomsKept, NEW r \in Rooms, r \in live, NEW u \in Users, NEW s, NEW kind,
           Enter(r, u, s, kind), UNCHANGED <<live, room, starting>>
    PROVE  RoomsKept'
<1>1. players' = [players EXCEPT ![r] = players[r] \cup {u}] /\ players[r] \subseteq players'[r]
  BY DEF Enter, Seats, TypeOK
<1>2. WellKept(r)'
  BY <1>1 DEF RoomsKept, WellKept
<1>. QED  BY <1>1, <1>2, OneRoomKept DEF Seats, TypeOK

\* A room whose membership shrinks by S, its administrator handed on.
LEMMA ShrinkKept ==
    ASSUME Seats, RoomsKept, NEW r \in Rooms, r \in live, NEW S \in SUBSET Users
    PROVE  AdminWithout(r, S) \in (players[r] \ S) \cup {NoUser}
BY OldestType, RoomsAssumption DEF RoomsKept, WellKept, AdminWithout

LEMMA BeginLeaveKept ==
    ASSUME Seats, RoomsKept, NEW u \in Users, userRoom[u] # NoRoom, NEW kind, NEW q,
           BeginLeave(u, kind, q), UNCHANGED starting
    PROVE  RoomsKept'
<1>. PICK r \in Rooms : r = userRoom[u]
  BY DEF Seats, TypeOK
<1>1. r \in live /\ room[r] \in RoomState
  BY DEF Seats, TypeOK, MembershipAgrees
<1>2. /\ room' = [room EXCEPT ![r] = [room[r] EXCEPT !.admin = AdminWithout(r, {u})]]
      /\ players' = [players EXCEPT ![r] = players[r] \ {u}]
      /\ UNCHANGED live
  BY DEF BeginLeave, Seats, TypeOK
<1>3. AdminWithout(r, {u}) \in (players[r] \ {u}) \cup {NoUser}
  BY <1>1, ShrinkKept
<1>4. room'[r] = [room[r] EXCEPT !.admin = AdminWithout(r, {u})]
      /\ players'[r] = players[r] \ {u}
  BY <1>1, <1>2 DEF Seats, TypeOK
<1>5. /\ room'[r].admin = AdminWithout(r, {u}) /\ room'[r].status = room[r].status
      /\ room'[r].ticking = room[r].ticking /\ room'[r].deadline = room[r].deadline
  BY <1>1, <1>4 DEF RoomState
<1>6. WellKept(r)'
  BY <1>1, <1>3, <1>4, <1>5 DEF RoomsKept, WellKept
<1>. QED  BY <1>2, <1>6, OneRoomKept DEF Seats, TypeOK

LEMMA DestroyKept ==
    ASSUME Seats, RoomsKept, NEW r \in Rooms, Destroy(r), UNCHANGED starting
    PROVE  RoomsKept'
<1>1. r \notin live' /\ \A q \in live' : q \in live /\ room'[q] = room[q] /\ players'[q] = players[q]
  BY DEF Destroy, Seats, TypeOK
<1>. QED  BY <1>1, OneRoomKept

LEMMA BeginStartKept ==
    ASSUME Seats, RoomsKept, NEW r \in Rooms, r \in live, room[r].status = "countdown",
           BeginStart(r), UNCHANGED live
    PROVE  RoomsKept'
<1>. DEFINE gone == IF r \in PrivateRooms THEN players[r] \ Connected(r) ELSE {}
            rm == [room[r] EXCEPT !.ticking = FALSE, !.endsAt = FALSE,
                       !.deadline = FALSE, !.admin = AdminWithout(r, gone)]
<1>1. room[r] \in RoomState /\ gone \in SUBSET Users
  BY DEF Seats, TypeOK
<1>2. /\ room' = [room EXCEPT ![r] = rm]
      /\ players' = [players EXCEPT ![r] = players[r] \ gone]
      /\ starting' = starting \cup {r}
  BY DEF BeginStart, Seats, TypeOK
<1>3. AdminWithout(r, gone) \in (players[r] \ gone) \cup {NoUser}
  BY <1>1, ShrinkKept
<1>4. room'[r] = rm /\ players'[r] = players[r] \ gone
  BY <1>2 DEF Seats, TypeOK
<1>5. rm.status = "countdown" /\ rm.admin = AdminWithout(r, gone)
  BY <1>1 DEF RoomState
<1>6. WellKept(r)'
  BY <1>2, <1>3, <1>4, <1>5 DEF WellKept
<1>. QED  BY <1>2, <1>6, OneRoomKept DEF Seats, TypeOK

\* A room whose record alone is replaced.
LEMMA ReplaceKept ==
    ASSUME Seats, RoomsKept, NEW r \in Rooms, NEW rm,
           room' = [room EXCEPT ![r] = rm], UNCHANGED <<live, players, starting>>,
           rm.admin = room[r].admin,
           r \in live => \/ rm = room[r]
                         \/ (rm.status = "countdown" /\ rm.ticking)
                         \/ (rm.status = "waiting" /\ (r \in PrivateRooms => rm.deadline))
                         \/ rm.status \notin {"waiting", "countdown", "none"}
    PROVE  RoomsKept'
<1>1. room'[r] = rm /\ \A q \in Rooms : q # r => room'[q] = room[q]
  BY DEF Seats, TypeOK
<1>2. r \in live => WellKept(r)'
  BY <1>1 DEF RoomsKept, WellKept
<1>. QED  BY <1>1, <1>2, OneRoomKept DEF Seats, TypeOK

LEMMA NewRoomKept ==
    ASSUME Seats, RoomsKept, NEW r \in Rooms, NEW u \in Users, NEW s, NEW kind,
           NEW a \in {u, NoUser}, NEW d, r \in PrivateRooms => d,
           live' = live \cup {r}, room' = [room EXCEPT ![r] = NewRoom(a, d)],
           Enter(r, u, s, kind), UNCHANGED starting
    PROVE  RoomsKept'
<1>1. room'[r] = NewRoom(a, d) /\ \A q \in Rooms : q # r => room'[q] = room[q]
  BY DEF Seats, TypeOK
<1>2. players' = [players EXCEPT ![r] = players[r] \cup {u}] /\ u \in players'[r]
  BY DEF Enter, Seats, TypeOK
<1>3. WellKept(r)'
  BY <1>1, <1>2 DEF WellKept, NewRoom
<1>. QED  BY <1>1, <1>2, <1>3, OneRoomKept DEF Seats, TypeOK

\* The countdown, the round and the clean-up of one room.
LEMMA TimerKept ==
    ASSUME Seats, RoomsKept, Timer
    PROVE  RoomsKept'
<1>. /\ live \subseteq Rooms /\ TypeGame
     /\ \A r \in Rooms : room[r] \in RoomState
  BY TypeParts DEF Seats, TypeOK
<1>1. ASSUME NEW r \in Rooms, TickCountdown(r)
      PROVE  RoomsKept'
  <2>1. CASE BeginStart(r)
    BY <1>1, <2>1, BeginStartKept DEF TickCountdown
  <2>2. CASE room' = [room EXCEPT ![r] = Canceled(room[r])]
             /\ UNCHANGED <<live, players, starting>>
    <3>1. /\ Canceled(room[r]).admin = room[r].admin
          /\ Canceled(room[r]).status = "waiting" /\ Canceled(room[r]).deadline
      BY DEF Canceled, Waiting, RoomState
    <3>. QED  BY <2>2, <3>1, ReplaceKept
  <2>3. CASE room' = [room EXCEPT ![r] = UpdatedCountdown(r)]
             /\ UNCHANGED <<live, players, starting>>
    BY <2>3, AfterLossKept, ReplaceKept
  <2>4. CASE room' = [room EXCEPT ![r] = [room[r] EXCEPT !.ticking = FALSE]]
             /\ r \in starting /\ UNCHANGED <<live, players, starting>>
    <3>1. /\ room'[r].admin = room[r].admin /\ room'[r].status = room[r].status
          /\ room'[r].deadline = room[r].deadline
      BY <2>4 DEF RoomState, Seats, TypeOK
    <3>2. r \in live => WellKept(r)'
      BY <2>4, <3>1 DEF RoomsKept, WellKept
    <3>. QED  BY <2>4, <3>2, OneRoomKept DEF Seats, TypeOK
  <2>5. \/ room' = [room EXCEPT ![r] = Canceled(room[r])]
           /\ UNCHANGED <<live, players, starting>>
        \/ room' = [room EXCEPT ![r] = UpdatedCountdown(r)]
           /\ UNCHANGED <<live, players, starting>>
        \/ room' = [room EXCEPT ![r] = [room[r] EXCEPT !.ticking = FALSE]]
           /\ r \in starting /\ UNCHANGED <<live, players, starting>>
        \/ BeginStart(r)
    BY <1>1 DEF TickCountdown, Seats, TypeOK, RoomState
  <2>. QED  BY <2>1, <2>2, <2>3, <2>4, <2>5
<1>2. ASSUME NEW r \in Rooms, ResetRound(r)
      PROVE  RoomsKept'
  <2>1. CASE r \in PublicRooms
    BY <1>2, <2>1, DestroyKept, RoomsAssumption DEF ResetRound
  <2>2. CASE r \notin PublicRooms
    <3>. DEFINE rm == [Canceled(room[r]) EXCEPT !.reset = FALSE]
    <3>1. rm.admin = room[r].admin /\ rm.status = "waiting" /\ rm.deadline
      BY DEF Canceled, Waiting, RoomState
    <3>2. room' = [room EXCEPT ![r] = rm] /\ UNCHANGED <<live, players, starting>>
      BY <1>2, <2>2 DEF ResetRound, Seats, TypeOK
    <3>. QED  BY <3>1, <3>2, ReplaceKept
  <2>. QED  BY <2>1, <2>2
<1>3. ASSUME NEW r \in Rooms, CloseInactive(r)
      PROVE  RoomsKept'
  BY <1>3, DestroyKept DEF CloseInactive
<1>4. ASSUME NEW r \in Rooms, NEW S \in SUBSET Users, GameTick(r, S)
      PROVE  RoomsKept'
  BY <1>4, AllRoomsKept DEF GameTick, roomVars
<1>5. ASSUME NEW g \in grace, GraceExpires(g)
      PROVE  RoomsKept'
  <2>1. g.user \in Users /\ g.room \in Rooms
    BY DEF TypeGame
  <2>2. StillAway(g) => userRoom[g.user] # NoRoom
    BY <2>1, RoomsAssumption DEF StillAway, Seats, MembershipAgrees
  <2>. QED  BY <1>5, <2>1, <2>2, AllRoomsKept, BeginLeaveKept DEF GraceExpires, roomVars, gameVars
<1>. QED  BY <1>1, <1>2, <1>3, <1>4, <1>5 DEF Timer

\* The suspended calls: they find the room as others left it meanwhile.
LEMMA ResumeKept ==
    ASSUME Seats, RoomsKept, Resume
    PROVE  RoomsKept'
<1>. /\ live \subseteq Rooms /\ userRoom \in [Users -> Rooms \cup {NoRoom}] /\ TypeCalls
     /\ \A r \in Rooms : room[r] \in RoomState
  BY TypeParts DEF Seats, TypeOK
<1>1. ASSUME NEW r \in Rooms, NEW rm \in {UpdatedCountdown(r), AfterLoss(r)},
             room' = [room EXCEPT ![r] = rm], UNCHANGED <<live, players, starting>>
      PROVE  RoomsKept'
  BY <1>1, AfterLossKept, ReplaceKept
<1>2. CASE JoinReplied
  <2>1. Head(redisQ).room \in Rooms
    BY <1>2, HeadType DEF JoinReplied, Replied
  <2>. QED  BY <1>1, <1>2, <2>1 DEF JoinReplied, gameVars
<1>3. CASE JoinRejected
  BY <1>3, DestroyKept, AllRoomsKept DEF JoinRejected, roomVars
<1>10. CASE DelRejected
  BY <1>10, AllRoomsKept DEF DelRejected, roomVars, gameVars
<1>4. CASE LeaveReplied
  <2>. DEFINE r == Head(redisQ).room
  <2>1. r \in Rooms
    BY <1>4, HeadType DEF LeaveReplied, Replied
  <2>2. CASE Abandoned(r) /\ r \in live
    BY <1>4, <2>1, <2>2, DestroyKept DEF LeaveReplied
  <2>3. CASE ~Abandoned(r)
    <3>1. room' = [room EXCEPT ![r] = AfterLoss(r)] /\ UNCHANGED <<live, players, starting>>
      BY <1>4, <2>3 DEF LeaveReplied
    <3>. QED  BY <1>1, <2>1, <3>1
  <2>4. CASE Abandoned(r) /\ r \notin live
    BY <1>4, <2>4, AllRoomsKept DEF LeaveReplied
  <2>. QED  BY <2>2, <2>3, <2>4
<1>5. CASE DisconnectReplied
  <2>. DEFINE r == Head(redisQ).room
              u == Head(redisQ).user
  <2>1. r \in Rooms /\ u \in Users
    BY <1>5, HeadType DEF DisconnectReplied, Replied
  <2>2. CASE r \in PrivateRooms
    <3>1. room' = [room EXCEPT ![r] = AfterLoss(r)] /\ UNCHANGED <<live, players, starting>>
      BY <1>5, <2>2, RoomsAssumption DEF DisconnectReplied, gameVars
    <3>. QED  BY <1>1, <2>1, <3>1
  <2>3. CASE r \notin PrivateRooms /\ room[r].status = "in_game"
    BY <1>5, <2>3, AllRoomsKept DEF DisconnectReplied, gameVars
  <2>4. CASE r \notin PrivateRooms /\ room[r].status # "in_game"
    BY <1>5, <2>1, <2>4, AllRoomsKept, BeginLeaveKept DEF DisconnectReplied, roomVars, gameVars
  <2>. QED  BY <2>2, <2>3, <2>4
<1>6. ASSUME NEW c \in creating, CreateHashed(c)
      PROVE  RoomsKept'
  <2>1. c.user \in Users /\ c.socket \in Sockets
    BY DEF TypeCalls
  <2>2. CASE userRoom[c.user] = NoRoom
    <3>1. PICK r \in Rooms : /\ Enter(r, c.user, c.socket, "create")
                             /\ live' = live \cup {r}
                             /\ room' = [room EXCEPT ![r] = NewRoom(c.user, TRUE)]
                             /\ UNCHANGED starting
      BY <1>6, <2>2 DEF CreateHashed, Unused, Rooms, gameVars
    <3>. QED  BY <2>1, <3>1, NewRoomKept
  <2>3. CASE userRoom[c.user] # NoRoom
    BY <1>6, <2>3, AllRoomsKept DEF CreateHashed, roomVars, gameVars
  <2>. QED  BY <2>2, <2>3
<1>7. ASSUME NEW j \in joining, JoinChecked(j)
      PROVE  RoomsKept'
  <2>1. j.user \in Users /\ j.room \in Rooms
    BY DEF TypeCalls
  <2>2. ASSUME MayEnter(j.user, j.room), Enter(j.room, j.user, j.socket, "join"),
               UNCHANGED <<live, room, starting>>
        PROVE  RoomsKept'
    BY <2>1, <2>2, EnterKept DEF MayEnter
  <2>3. ASSUME UNCHANGED <<live, room, players, starting>>
        PROVE  RoomsKept'
    BY <2>3, AllRoomsKept
  <2>. QED  BY <1>7, <2>2, <2>3 DEF JoinChecked, Reclaim, roomVars, gameVars
<1>8. ASSUME NEW r \in Rooms, StartReady(r)
      PROVE  RoomsKept'
  <2>1. room'[r].status = "in_game" /\ room'[r].admin = room[r].admin
    BY <1>8 DEF StartReady, Seats, TypeOK, RoomState
  <2>2. r \in live => WellKept(r)'
    BY <1>8, <2>1 DEF StartReady, RoomsKept, WellKept
  <2>. QED  BY <1>8, <2>2, OneRoomKept DEF StartReady, Seats, TypeOK
<1>9. ASSUME NEW r \in Rooms, MatchSaved(r)
      PROVE  RoomsKept'
  <2>. DEFINE rm == [room[r] EXCEPT !.status = "finished", !.endsAt = FALSE, !.reset = TRUE]
  <2>1. rm.status = "finished" /\ rm.admin = room[r].admin
    BY DEF RoomState
  <2>2. CASE room' = [room EXCEPT ![r] = rm]
    BY <1>9, <2>1, <2>2, ReplaceKept DEF MatchSaved
  <2>3. CASE room' = room
    BY <1>9, <2>3, AllRoomsKept DEF MatchSaved
  <2>. QED  BY <1>9, <2>2, <2>3 DEF MatchSaved, Seats, TypeOK
<1>. QED  BY <1>2, <1>3, <1>4, <1>5, <1>6, <1>7, <1>8, <1>9, <1>10 DEF Resume

\* The requests.
LEMMA RequestKept ==
    ASSUME Seats, RoomsKept, NEW s \in Sockets, Request(s)
    PROVE  RoomsKept'
<1>. DEFINE u == Owner[s]
<1>. u \in Users /\ live \subseteq Rooms /\ userRoom \in [Users -> Rooms \cup {NoRoom}]
     /\ \A r \in Rooms : room[r] \in RoomState
  BY RoomsAssumption DEF Seats, TypeOK
<1>1. CASE Connect(s) \/ Disconnect(s) \/ Reconnect(s)
  BY <1>1, AllRoomsKept DEF Connect, Disconnect, Reconnect, Reclaim, roomVars, gameVars
<1>2. CASE QuickPlay(s)
  <2>1. ASSUME NEW r \in Candidates, Enter(r, u, s, "join"), UNCHANGED <<live, room>>
        PROVE  RoomsKept'
    BY <1>2, <2>1, EnterKept DEF QuickPlay, Candidates, gameVars
  <2>2. ASSUME NEW r \in Unused(PublicRooms), live' = live \cup {r},
               room' = [room EXCEPT ![r] = NewRoom(NoUser, FALSE)],
               Enter(r, u, s, "join")
        PROVE  RoomsKept'
    <3>1. r \in Rooms /\ r \notin PrivateRooms /\ UNCHANGED starting
      BY <1>2, <2>2, RoomsAssumption DEF QuickPlay, Unused, Rooms, gameVars
    <3>. QED  BY <2>2, <3>1, NewRoomKept
  <2>. QED  BY <1>2, <2>1, <2>2 DEF QuickPlay
<1>3. CASE LeaveRoom(s)
  BY <1>3, BeginLeaveKept DEF LeaveRoom, gameVars
<1>4. CASE StartNow(s)
  <2>. PICK r \in Rooms : r = userRoom[u]
    BY <1>4 DEF StartNow, Rooms
  <2>. DEFINE rm == [Counting(room[r]) EXCEPT !.deadline = FALSE]
  <2>1. rm.status = "countdown" /\ rm.ticking /\ rm.admin = room[r].admin
    BY DEF Counting, RoomState
  <2>2. room' = [room EXCEPT ![r] = rm] /\ UNCHANGED <<live, players, starting>>
    BY <1>4 DEF StartNow, gameVars, Seats, TypeOK
  <2>. QED  BY <2>1, <2>2, ReplaceKept
<1>5. ASSUME NEW n \in Names, CreatePrivate(s, n) \/ JoinPrivate(s, n)
      PROVE  RoomsKept'
  BY <1>5, AllRoomsKept DEF CreatePrivate, JoinPrivate, roomVars, gameVars
<1>. QED  BY <1>1, <1>2, <1>3, <1>4, <1>5 DEF Request

LEMMA NextKept == Seats /\ RoomsKept /\ [Next]_vars => RoomsKept'
<1>. SUFFICES ASSUME Seats, RoomsKept, [Next]_vars PROVE RoomsKept'
  OBVIOUS
<1>1. CASE UNCHANGED vars
  BY <1>1, AllRoomsKept DEF vars
<1>. QED  BY <1>1, RequestKept, ResumeKept, TimerKept DEF Next

LEMMA RoomsKeptAlways == Spec => []RoomsKept
<1>1. Init => RoomsKept
  BY DEF Init, RoomsKept
<1>. QED  BY <1>1, NextKept, SeatsAlways, PTL DEF Spec

\* The administrator of a room is one of its members, for any number of members
\* and any order of leaves, evictions, starts and hand-overs.
THEOREM AdminHolds == Spec => []AdminIsMember
BY RoomsKeptAlways, RoomsKeptMeans, PTL

\* A room that counts down has its interval armed or its start under way.
THEOREM CountdownHolds == Spec => []CountdownDriven
BY RoomsKeptAlways, RoomsKeptMeans, PTL

\* A waiting private room always has an inactivity deadline.
THEOREM DeadlineHolds == Spec => []WaitingHasDeadline
BY RoomsKeptAlways, RoomsKeptMeans, PTL

-----------------------------------------------------------------------------
(* Names of private rooms. *)

\* The handlers that neither create nor destroy a room.
LEMMA SameNames ==
    ASSUME NamesLeadToRooms, UNCHANGED byName, creating' \subseteq creating,
           live' \cap PrivateRooms = live \cap PrivateRooms
    PROVE  NamesLeadToRooms'
BY DEF NamesLeadToRooms

LEMMA DestroyNames ==
    ASSUME Seats, NamesLeadToRooms, NEW r \in Rooms, r \in live, Destroy(r),
           creating' \subseteq creating
    PROVE  NamesLeadToRooms'
<1>1. /\ live' = live \ {r}
      /\ byName' = [n \in Names |->
             IF r \in PrivateRooms /\ NameOf[r] = n THEN NoRoom ELSE byName[n]]
  BY DEF Destroy
<1>2. \A q \in PrivateRooms : NameOf[q] \in Names /\ q # NoRoom
  BY RoomsAssumption DEF Rooms
<1>3. ASSUME NEW q \in PrivateRooms
      PROVE  byName'[NameOf[q]] = q <=> q \in live'
  BY <1>1, <1>2 DEF NamesLeadToRooms
<1>4. ASSUME NEW c \in creating'
      PROVE  /\ ~c.hashed => byName'[c.name] = NoRoom
             /\ \A d \in creating' : c.name = d.name \/ c.user = d.user => c = d
  <2>1. c.name \in Names
    BY DEF Seats, TypeOK
  <2>. QED  BY <1>1, <2>1 DEF NamesLeadToRooms
<1>. QED  BY <1>3, <1>4 DEF NamesLeadToRooms

LEMMA CreateNames ==
    ASSUME Seats, NamesLeadToRooms, NEW c \in creating, CreateHashed(c)
    PROVE  NamesLeadToRooms'
<1>1. CASE userRoom[c.user] # NoRoom
  BY <1>1, SameNames DEF CreateHashed, roomVars
<1>2. CASE userRoom[c.user] = NoRoom
  <2>. DEFINE h == [c EXCEPT !.hashed = TRUE]
  <2>1. PICK r \in PrivateRooms : /\ NameOf[r] = c.name /\ live' = live \cup {r}
                                  /\ byName' = [byName EXCEPT ![c.name] = r]
    BY <1>2 DEF CreateHashed, Unused
  <2>2. /\ ~c.hashed /\ creating' = (creating \ {c}) \cup {h}
    BY <1>2 DEF CreateHashed
  <2>3. c.name \in Names /\ h.name = c.name /\ h.user = c.user /\ h.hashed
    BY DEF Seats, TypeOK
  <2>4. byName[c.name] = NoRoom
    BY <2>2 DEF NamesLeadToRooms
  <2>5. \A q \in PrivateRooms : NameOf[q] \in Names /\ q # NoRoom
    BY RoomsAssumption DEF Rooms
  <2>6. ASSUME NEW q \in PrivateRooms
        PROVE  byName'[NameOf[q]] = q <=> q \in live'
    <3>1. byName[NameOf[q]] = q <=> q \in live
      BY DEF NamesLeadToRooms
    <3>2. \A n \in Names : byName'[n] = IF n = c.name THEN r ELSE byName[n]
      BY <2>1, <2>3 DEF Seats, TypeOK
    <3>. QED  BY <2>1, <2>4, <2>5, <3>1, <3>2
  <2>7. ASSUME NEW d \in creating'
        PROVE  /\ ~d.hashed => byName'[d.name] = NoRoom
               /\ \A e \in creating' : d.name = e.name \/ d.user = e.user => d = e
    <3>1. \A e \in creating' : e = h \/ (e \in creating /\ e # c)
      BY <2>2
    <3>2. \A e \in creating : e # c => e.name # c.name /\ e.user # c.user
      BY DEF NamesLeadToRooms
    <3>3. \A e \in creating' : d.name = e.name \/ d.user = e.user => d = e
      BY <2>3, <3>1, <3>2, ZenonT(40) DEF NamesLeadToRooms
    <3>4. CASE d = h
      BY <2>3, <3>3, <3>4
    <3>5. CASE d \in creating /\ d # c
      <4>1. d.name \in Names /\ d.name # c.name
        BY <3>2, <3>5 DEF Seats, TypeOK
      <4>2. byName'[d.name] = byName[d.name]
        BY <2>1, <4>1 DEF Seats, TypeOK
      <4>. QED  BY <3>3, <3>5, <4>2 DEF NamesLeadToRooms
    <3>. QED  BY <3>1, <3>4, <3>5
  <2>. QED  BY <2>6, <2>7 DEF NamesLeadToRooms
<1>. QED  BY <1>1, <1>2

LEMMA NextNames == Seats /\ NamesLeadToRooms /\ [Next]_vars => NamesLeadToRooms'
<1>. SUFFICES ASSUME Seats, NamesLeadToRooms, [Next]_vars PROVE NamesLeadToRooms'
  OBVIOUS
<1>. live \subseteq Rooms /\ PublicRooms \cap PrivateRooms = {}
     /\ userRoom \in [Users -> Rooms \cup {NoRoom}] /\ TypeGame
  BY RoomsAssumption, TypeParts DEF Seats, TypeOK
<1>1. ASSUME NEW s \in Sockets,
             \/ Connect(s) \/ Disconnect(s) \/ Reconnect(s) \/ LeaveRoom(s) \/ StartNow(s)
             \/ \E n \in Names : JoinPrivate(s, n)
      PROVE  NamesLeadToRooms'
  BY <1>1, SameNames DEF Connect, Disconnect, Reconnect, Reclaim, LeaveRoom, BeginLeave,
                         StartNow, JoinPrivate, roomVars, requestVars
<1>2. ASSUME NEW s \in Sockets, QuickPlay(s)
      PROVE  NamesLeadToRooms'
  <2>1. live' \cap PrivateRooms = live \cap PrivateRooms
    BY <1>2 DEF QuickPlay, Unused
  <2>. QED  BY <1>2, <2>1, SameNames DEF QuickPlay, requestVars
<1>3. ASSUME NEW s \in Sockets, NEW n \in Names, CreatePrivate(s, n)
      PROVE  NamesLeadToRooms'
  <2>. DEFINE c == [user |-> Owner[s], name |-> n, socket |-> s, hashed |-> FALSE]
  <2>1. creating' = creating \cup {c} /\ byName[n] = NoRoom /\ UNCHANGED <<byName, live>>
    BY <1>3 DEF CreatePrivate, NameTaken, roomVars
  <2>2. \A d \in creating : d.name # n /\ d.user # Owner[s]
    BY <1>3 DEF CreatePrivate, NameTaken
  <2>3. \A d, e \in creating' : d.name = e.name \/ d.user = e.user => d = e
    <3>1. c.name = n /\ c.user = Owner[s]
      OBVIOUS
    <3>2. \A d, e \in creating : d.name = e.name \/ d.user = e.user => d = e
      BY DEF NamesLeadToRooms
    <3>3. \A d \in creating : d.name # c.name /\ d.user # c.user
      BY <2>2, <3>1
    <3>. HIDE DEF c
    <3>. QED  BY <2>1, <3>2, <3>3
  <2>4. \A d \in creating' : ~d.hashed => byName'[d.name] = NoRoom
    BY <2>1 DEF NamesLeadToRooms
  <2>. QED  BY <2>1, <2>3, <2>4 DEF NamesLeadToRooms
<1>4. CASE JoinReplied
  BY <1>4, SameNames DEF JoinReplied
<1>5. CASE JoinRejected
  <2>1. creating' \subseteq creating
    BY <1>5 DEF JoinRejected
  <2>. QED  BY <1>5, <2>1, SameNames, DestroyNames DEF JoinRejected, roomVars
<1>15. CASE DelRejected
  BY <1>15, SameNames DEF DelRejected, roomVars, requestVars
<1>6. CASE LeaveReplied
  BY <1>6, SameNames, DestroyNames DEF LeaveReplied, requestVars
<1>7. CASE DisconnectReplied
  BY <1>7, SameNames DEF DisconnectReplied, BeginLeave, roomVars, requestVars
<1>8. ASSUME NEW c \in creating, CreateHashed(c)
      PROVE  NamesLeadToRooms'
  BY <1>8, CreateNames
<1>9. ASSUME NEW j \in joining, JoinChecked(j)
      PROVE  NamesLeadToRooms'
  BY <1>9, SameNames DEF JoinChecked, Reclaim, roomVars
<1>10. ASSUME NEW r \in Rooms, StartReady(r) \/ MatchSaved(r) \/ TickCountdown(r)
       PROVE  NamesLeadToRooms'
  BY <1>10, SameNames DEF StartReady, MatchSaved, TickCountdown, requestVars
<1>11. ASSUME NEW r \in Rooms, ResetRound(r) \/ CloseInactive(r)
       PROVE  NamesLeadToRooms'
  BY <1>11, SameNames, DestroyNames DEF ResetRound, CloseInactive, requestVars
<1>12. ASSUME NEW r \in Rooms, NEW S \in SUBSET Users, GameTick(r, S)
       PROVE  NamesLeadToRooms'
  BY <1>12, SameNames DEF GameTick, roomVars, requestVars
<1>13. ASSUME NEW g \in grace, GraceExpires(g)
       PROVE  NamesLeadToRooms'
  BY <1>13, SameNames DEF GraceExpires, BeginLeave, roomVars, requestVars
<1>14. CASE UNCHANGED vars
  BY <1>14, SameNames DEF vars
<1>. QED
  BY <1>1, <1>2, <1>3, <1>4, <1>5, <1>6, <1>7, <1>8, <1>9, <1>10, <1>11, <1>12, <1>13, <1>14, <1>15
     DEF Next, Request, Resume, Timer

\* A private room's name leads to it for as long as it lives, and two rooms of
\* one name never exist, however many creations hash their passwords at once.
THEOREM NamesHold == Spec => []NamesLeadToRooms
<1>1. Init => NamesLeadToRooms
  BY RoomsAssumption DEF Init, NamesLeadToRooms, Rooms
<1>. QED  BY <1>1, NextNames, SeatsAlways, PTL DEF Spec

-----------------------------------------------------------------------------
(* Capacity. *)

LEMMA PlayersFinite ==
    ASSUME Seats, NEW r \in Rooms
    PROVE  IsFiniteSet(players[r]) /\ Cardinality(players[r]) \in Nat
BY RoomsAssumption, FS_Subset, FS_CardinalityType DEF Seats, TypeOK

LEMMA ShrunkCapacity ==
    ASSUME Seats, Seats', CapacityRespected, live' \subseteq live,
           \A r \in live' : players'[r] \subseteq players[r]
    PROVE  CapacityRespected'
<1>1. ASSUME NEW r \in live'
      PROVE  Cardinality(players'[r]) <= MaxPlayers
  <2>1. r \in Rooms /\ players'[r] \subseteq players[r] /\ Cardinality(players[r]) <= MaxPlayers
    BY <1>1 DEF Seats, TypeOK, CapacityRespected
  <2>2. Cardinality(players'[r]) \in Nat /\ Cardinality(players'[r]) <= Cardinality(players[r])
    BY <2>1, PlayersFinite, FS_Subset, FS_CardinalityType
  <2>. QED  BY <2>1, <2>2, PlayersFinite, RoomsAssumption
<1>. QED  BY <1>1 DEF CapacityRespected

LEMMA EnterCapacity ==
    ASSUME Seats, CapacityRespected, NEW r \in Rooms, NEW u \in Users, NEW s, NEW kind,
           Enter(r, u, s, kind), live' = live \cup {r},
           Cardinality(players[r]) < MaxPlayers
    PROVE  CapacityRespected'
<1>1. players' = [players EXCEPT ![r] = players[r] \cup {u}]
  BY DEF Enter, Seats, TypeOK
<1>. IsFiniteSet(players[r]) /\ Cardinality(players[r]) \in Nat
  BY PlayersFinite
<1>0. Cardinality(players[r] \cup {u}) =
        IF u \in players[r] THEN Cardinality(players[r]) ELSE Cardinality(players[r]) + 1
  BY FS_AddElement, Zenon
<1>2. Cardinality(players[r] \cup {u}) <= Cardinality(players[r]) + 1
  BY <1>0
<1>3. Cardinality(players[r] \cup {u}) \in Nat
  BY FS_AddElement, FS_CardinalityType
<1>4. Cardinality(players[r] \cup {u}) <= MaxPlayers
  BY <1>2, <1>3, PlayersFinite, RoomsAssumption
<1>5. ASSUME NEW q \in live'
      PROVE  Cardinality(players'[q]) <= MaxPlayers
  <2>1. CASE q = r
    BY <1>1, <1>4, <2>1 DEF Seats, TypeOK
  <2>2. CASE q # r
    BY <1>1, <2>2 DEF Seats, TypeOK, CapacityRespected
  <2>. QED  BY <2>1, <2>2
<1>. QED  BY <1>5 DEF CapacityRespected

\* A room not in use yet is empty.
LEMMA UnusedEmpty ==
    ASSUME Seats, RoomsKept, NEW S \in SUBSET Rooms, NEW r \in Unused(S)
    PROVE  Cardinality(players[r]) < MaxPlayers
<1>1. r \notin live /\ r \in Rooms
  BY DEF Unused, RoomsKept, WellKept
<1>2. players[r] = {}
  BY <1>1 DEF Seats, DeadRoomsEmpty
<1>. QED  BY <1>2, FS_EmptySet, RoomsAssumption

LEMMA NextCapacity ==
    ASSUME Seats, Seats', RoomsKept, CapacityRespected, [Next]_vars
    PROVE  CapacityRespected'
<1>. /\ live \subseteq Rooms /\ userRoom \in [Users -> Rooms \cup {NoRoom}]
     /\ players \in [Rooms -> SUBSET Users]
     /\ PublicRooms \in SUBSET Rooms /\ PrivateRooms \in SUBSET Rooms
     /\ TypeCalls /\ TypeGame /\ \A s \in Sockets : Owner[s] \in Users
  BY RoomsAssumption, TypeParts DEF Seats, TypeOK, Rooms
<1>1. ASSUME UNCHANGED <<live, players>> PROVE CapacityRespected'
  BY <1>1 DEF CapacityRespected
<1>2. ASSUME NEW u, NEW kind, NEW q, BeginLeave(u, kind, q) PROVE CapacityRespected'
  BY <1>2, ShrunkCapacity DEF BeginLeave
<1>3. ASSUME NEW r \in Rooms, Destroy(r) PROVE CapacityRespected'
  BY <1>3, ShrunkCapacity DEF Destroy
<1>4. ASSUME NEW s \in Sockets, QuickPlay(s) PROVE CapacityRespected'
  <2>1. ASSUME NEW r \in Candidates, Enter(r, Owner[s], s, "join"), UNCHANGED live
        PROVE  CapacityRespected'
    BY <2>1, EnterCapacity DEF Candidates, AcceptsPlayers
  <2>2. ASSUME NEW r \in Unused(PublicRooms), Enter(r, Owner[s], s, "join"),
               live' = live \cup {r}
        PROVE  CapacityRespected'
    <3>1. r \in Rooms
      BY <2>2 DEF Unused
    <3>. QED  BY <2>2, <3>1, UnusedEmpty, EnterCapacity
  <2>. QED  BY <1>4, <2>1, <2>2 DEF QuickPlay
<1>5. ASSUME NEW c \in creating, CreateHashed(c) PROVE CapacityRespected'
  <2>1. c.user \in Users
    BY DEF TypeCalls
  <2>2. ASSUME NEW r \in Unused(PrivateRooms), Enter(r, c.user, c.socket, "create"),
               live' = live \cup {r}
        PROVE  CapacityRespected'
    <3>1. r \in Rooms
      BY <2>2 DEF Unused
    <3>. QED  BY <2>1, <2>2, <3>1, UnusedEmpty, EnterCapacity
  <2>. QED  BY <1>1, <1>5, <2>2 DEF CreateHashed, roomVars
<1>6. ASSUME NEW j \in joining, JoinChecked(j) PROVE CapacityRespected'
  <2>1. j.user \in Users /\ j.room \in Rooms
    BY DEF TypeCalls
  <2>2. ASSUME MayEnter(j.user, j.room), Enter(j.room, j.user, j.socket, "join"), UNCHANGED live
        PROVE  CapacityRespected'
    <3>1. live' = live \cup {j.room} /\ Cardinality(players[j.room]) < MaxPlayers
      BY <2>2 DEF MayEnter, AcceptsPlayers
    <3>. QED  BY <2>1, <2>2, <3>1, EnterCapacity
  <2>. QED  BY <1>1, <1>6, <2>2 DEF JoinChecked, Reclaim, roomVars
<1>7. ASSUME NEW r \in Rooms, TickCountdown(r) PROVE CapacityRespected'
  <2>1. CASE BeginStart(r)
    BY <1>7, <2>1, ShrunkCapacity DEF BeginStart, TickCountdown
  <2>. QED  BY <1>1, <1>7, <2>1 DEF TickCountdown
<1>8. ASSUME NEW s \in Sockets, Request(s), ~QuickPlay(s) PROVE CapacityRespected'
  BY <1>1, <1>2, <1>8 DEF Request, Connect, Disconnect, Reconnect, Reclaim, LeaveRoom, StartNow,
                          CreatePrivate, JoinPrivate, roomVars
<1>9. CASE JoinReplied
  BY <1>1, <1>9 DEF JoinReplied
<1>10. CASE JoinRejected
  BY <1>1, <1>3, <1>10 DEF JoinRejected, roomVars
<1>16. CASE DelRejected
  BY <1>1, <1>16 DEF DelRejected, roomVars
<1>11. CASE LeaveReplied
  BY <1>1, <1>3, <1>11 DEF LeaveReplied
<1>12. CASE DisconnectReplied
  BY <1>1, <1>2, <1>12 DEF DisconnectReplied, roomVars
<1>13. ASSUME NEW r \in Rooms, \/ StartReady(r) \/ MatchSaved(r) \/ ResetRound(r) \/ CloseInactive(r)
                               \/ \E S \in SUBSET Users : GameTick(r, S)
       PROVE  CapacityRespected'
  BY <1>1, <1>3, <1>13 DEF StartReady, MatchSaved, ResetRound, CloseInactive, GameTick, roomVars
<1>14. ASSUME NEW g \in grace, GraceExpires(g) PROVE CapacityRespected'
  BY <1>1, <1>2, <1>14 DEF GraceExpires, roomVars
<1>15. CASE UNCHANGED vars
  BY <1>1, <1>15 DEF vars
<1>. QED
  BY <1>4, <1>5, <1>6, <1>7, <1>8, <1>9, <1>10, <1>11, <1>12, <1>13, <1>14, <1>15, <1>16
     DEF Next, Resume, Timer

\* No room ever holds more than MaxPlayers players, whatever MaxPlayers is and
\* however many joins are between their two checks.
THEOREM CapacityHolds == Spec => []CapacityRespected
<1>1. Init => CapacityRespected
  BY DEF Init, CapacityRespected
<1>2. Seats /\ Seats' /\ RoomsKept /\ CapacityRespected /\ [Next]_vars => CapacityRespected'
  BY NextCapacity
<1>. QED  BY <1>1, <1>2, SeatsAlways, RoomsKeptAlways, PTL DEF Spec
=============================================================================
