------------------------- MODULE RoomsRoundsProofs -------------------------
(***************************************************************************)
(* The countdowns, rounds and ends of rooms, the order of succession in    *)
(* them, and who is taken out of them.  Every step of Rooms is first       *)
(* reduced to what it does to rooms, rounds and the queue of replies.      *)
(***************************************************************************)
EXTENDS RoomsSafetyProofs

-----------------------------------------------------------------------------
(* The queue of replies. *)

InQueue(q, r, kinds) == \E i \in DOMAIN q : q[i].room = r /\ q[i].kind \in kinds

LEMMA InTail ==
    ASSUME NEW q \in Seq(Call), q # <<>>, NEW r, NEW kinds, InQueue(q, r, kinds),
           ~(Head(q).room = r /\ Head(q).kind \in kinds)
    PROVE  InQueue(Tail(q), r, kinds)
<1>1. PICK i \in DOMAIN q : q[i].room = r /\ q[i].kind \in kinds
  BY DEF InQueue
<1>2. i \in 1..Len(q) /\ i # 1 /\ Len(q) \in Nat
  BY <1>1
<1>3. i - 1 \in DOMAIN Tail(q) /\ Tail(q)[i - 1] = q[i]
  BY <1>2
<1>. QED  BY <1>1, <1>3 DEF InQueue

LEMMA InSuspended ==
    ASSUME NEW q \in Seq(Call), NEW kind \in Kind, NEW p \in Rooms, NEW u \in Users,
           NEW r, NEW kinds
    PROVE  /\ InQueue(q, r, kinds) => InQueue(Suspend(q, kind, p, u), r, kinds)
           /\ kind \in kinds => InQueue(Suspend(q, kind, p, u), p, kinds)
<1>. DEFINE call == [kind |-> kind, room |-> p, user |-> u]
<1>1. call \in Call /\ call.room = p /\ call.kind = kind
  BY DEF Call
<1>2. Suspend(q, kind, p, u) = Append(q, call)
  BY DEF Suspend
<1>. HIDE DEF call
<1>3. /\ \A i \in DOMAIN q : i \in DOMAIN Append(q, call) /\ Append(q, call)[i] = q[i]
      /\ Len(q) + 1 \in DOMAIN Append(q, call) /\ Append(q, call)[Len(q) + 1] = call
  BY <1>1
<1>. QED  BY <1>1, <1>2, <1>3 DEF InQueue

-----------------------------------------------------------------------------
(* What a step does to rooms, rounds and the queue. *)

core == <<live, room, players, starting, saving, session>>

\* The reply to one of kinds about room r is taken from the queue.
Answers(kinds, r) ==
    /\ redisQ # <<>> /\ Head(redisQ).kind \in kinds /\ Head(redisQ).room = r
    /\ redisQ' = Tail(redisQ)

Nothing ==
    /\ UNCHANGED core
    /\ \/ UNCHANGED redisQ
       \/ \E r \in live, u \in Users : redisQ' = Suspend(redisQ, "disconnect", r, u)
       \/ \E r \in Rooms : Answers({"disconnect"}, r)
       \/ RedisFaults /\ \E r \in Rooms : Answers(Kind, r)

Enters(r) ==
    /\ r \in live /\ AcceptsPlayers(r) /\ UNCHANGED <<live, room, starting, saving, session>>
    /\ \E u \in Users : /\ players' = [players EXCEPT ![r] = players[r] \cup {u}]
                        /\ redisQ' = Suspend(redisQ, "join", r, u)

Opens(r) ==
    /\ room[r].status = "none" /\ live' = live \cup {r} /\ UNCHANGED <<starting, saving, session>>
    /\ \E a \in Users \cup {NoUser} : room' = [room EXCEPT ![r] = NewRoom(a, r \in PrivateRooms)]
    /\ \E u \in Users :
          /\ players' = [players EXCEPT ![r] = players[r] \cup {u}]
          /\ \/ r \in PublicRooms /\ redisQ' = Suspend(redisQ, "join", r, u)
             \/ r \in PrivateRooms /\ redisQ' = Suspend(redisQ, "create", r, u)

Quits(r) ==
    /\ r \in live /\ UNCHANGED <<live, starting, saving, session>>
    /\ \E u \in Users, kind \in {"leave", "evict"}, q \in Seq(Call) :
          /\ q = redisQ \/ (redisQ # <<>> /\ Head(redisQ).kind = "disconnect" /\ q = Tail(redisQ))
          /\ room' = [room EXCEPT ![r].admin = AdminWithout(r, {u})]
          /\ players' = [players EXCEPT ![r] = players[r] \ {u}]
          /\ redisQ' = Suspend(q, kind, r, u)

Closes(r) ==
    /\ r \in live /\ Destroy(r) /\ UNCHANGED <<starting, saving>>
    /\ UNCHANGED redisQ \/ Answers({"join", "create", "leave", "evict"}, r)

\* A reply that leaves the room: of a join, of a leave, of a disconnect.
Settles(r) ==
    /\ UNCHANGED <<live, players, starting, saving>>
    /\ \/ /\ Answers({"join", "create"}, r) /\ UNCHANGED session
          /\ room' = [room EXCEPT ![r] = UpdatedCountdown(r)]
       \/ /\ Answers({"leave", "evict"}, r) /\ ~(Abandoned(r) /\ r \in live)
          /\ \E u \in Users : session' = [session EXCEPT ![r] = WithoutTank(session[r], u)]
          /\ room' = IF Abandoned(r) THEN room ELSE [room EXCEPT ![r] = AfterLoss(r)]
       \/ /\ Answers({"disconnect"}, r) /\ r \in PrivateRooms /\ UNCHANGED session
          /\ room' = [room EXCEPT ![r] = AfterLoss(r)]

Rounds(r) ==
    \/ StartReady(r) \/ MatchSaved(r) \/ TickCountdown(r)
    \/ (r \in PrivateRooms /\ ResetRound(r))
    \/ \E S \in SUBSET Users : GameTick(r, S)

Effect(r) ==
    Enters(r) \/ Opens(r) \/ Quits(r) \/ Closes(r) \/ Settles(r) \/ Rounds(r)
        \/ \E s \in Sockets : StartNow(s) /\ r = userRoom[Owner[s]]

LEMMA QuitsStep ==
    ASSUME Seats, NEW u \in Users, userRoom[u] # NoRoom, NEW kind \in {"leave", "evict"},
           NEW q \in Seq(Call), BeginLeave(u, kind, q), UNCHANGED <<starting, saving, session>>,
           q = redisQ \/ (redisQ # <<>> /\ Head(redisQ).kind = "disconnect" /\ q = Tail(redisQ))
    PROVE  \E r \in Rooms : Effect(r)
<1>1. userRoom[u] \in Rooms /\ userRoom[u] \in live
  BY DEF Seats, TypeOK, MembershipAgrees
<1>2. Quits(userRoom[u])
  BY <1>1 DEF BeginLeave, Quits, Seats, TypeOK
<1>. QED  BY <1>1, <1>2 DEF Effect

LEMMA EntersStep ==
    ASSUME Seats, NEW r \in live, NEW u \in Users, NEW s, AcceptsPlayers(r),
           Enter(r, u, s, "join"), UNCHANGED <<live, room, starting, saving, session>>
    PROVE  \E p \in Rooms : Effect(p)
<1>1. Enters(r) /\ r \in Rooms
  BY DEF Enter, Enters, Seats, TypeOK
<1>. QED  BY <1>1 DEF Effect

LEMMA OpensStep ==
    ASSUME Seats, NEW r \in Rooms, NEW u \in Users, NEW s, NEW kind, NEW a \in Users \cup {NoUser},
           Enter(r, u, s, kind), UNCHANGED <<starting, saving, session>>,
           room[r].status = "none", live' = live \cup {r},
           room' = [room EXCEPT ![r] = NewRoom(a, r \in PrivateRooms)],
           (r \in PublicRooms /\ kind = "join") \/ (r \in PrivateRooms /\ kind = "create")
    PROVE  \E p \in Rooms : Effect(p)
<1>1. /\ players' = [players EXCEPT ![r] = players[r] \cup {u}]
      /\ redisQ' = Suspend(redisQ, kind, r, u)
  BY DEF Enter, Seats, TypeOK
<1>2. Opens(r)
  BY <1>1 DEF Opens
<1>. QED  BY <1>2 DEF Effect

LEMMA RequestEffect ==
    ASSUME Seats, NEW s \in Sockets, Request(s)
    PROVE  Nothing \/ \E r \in Rooms : Effect(r)
<1>. DEFINE u == Owner[s]
<1>. /\ u \in Users /\ live \subseteq Rooms /\ redisQ \in Seq(Call)
     /\ userRoom \in [Users -> Rooms \cup {NoRoom}]
  BY RoomsAssumption DEF Seats, TypeOK
<1>1. CASE Connect(s) \/ Reconnect(s) \/ \E n \in Names : CreatePrivate(s, n) \/ JoinPrivate(s, n)
  BY <1>1 DEF Connect, Reconnect, Reclaim, CreatePrivate, JoinPrivate, roomVars, gameVars, core,
              Nothing
<1>2. CASE Disconnect(s)
  <2>1. UNCHANGED core
    BY <1>2 DEF Disconnect, core, gameVars
  <2>2. CASE userRoom[u] # NoRoom /\ member[userRoom[u]][u].socket = s
    <3>1. redisQ' = Suspend(redisQ, "disconnect", userRoom[u], u)
      BY <1>2, <2>2 DEF Disconnect
    <3>2. userRoom[u] \in live
      BY <2>2 DEF Seats, MembershipAgrees
    <3>. QED  BY <2>1, <3>1, <3>2 DEF Nothing
  <2>3. CASE ~(userRoom[u] # NoRoom /\ member[userRoom[u]][u].socket = s)
    <3>1. UNCHANGED redisQ
      BY <1>2, <2>3 DEF Disconnect
    <3>. QED  BY <2>1, <3>1 DEF Nothing
  <2>. QED  BY <2>2, <2>3
<1>3. CASE QuickPlay(s)
  <2>1. ASSUME NEW r \in Candidates, Enter(r, u, s, "join"), UNCHANGED <<live, room>>
        PROVE  \E p \in Rooms : Effect(p)
    BY <1>3, <2>1, EntersStep DEF QuickPlay, Candidates, gameVars
  <2>2. ASSUME NEW r \in Unused(PublicRooms), live' = live \cup {r},
               room' = [room EXCEPT ![r] = NewRoom(NoUser, FALSE)],
               Enter(r, u, s, "join")
        PROVE  \E p \in Rooms : Effect(p)
    <3>1. /\ r \in Rooms /\ r \in PublicRooms /\ (r \in PrivateRooms) = FALSE
          /\ room[r].status = "none" /\ UNCHANGED <<starting, saving, session>>
      BY <1>3, <2>2, RoomsAssumption DEF QuickPlay, Unused, Rooms, gameVars
    <3>. QED  BY <2>2, <3>1, OpensStep
  <2>. QED  BY <1>3, <2>1, <2>2 DEF QuickPlay
<1>4. CASE LeaveRoom(s)
  BY <1>4, QuitsStep DEF LeaveRoom, gameVars
<1>5. CASE StartNow(s)
  BY <1>5 DEF StartNow, Effect, Rooms
<1>. QED  BY <1>1, <1>2, <1>3, <1>4, <1>5 DEF Request

LEMMA ResumeEffect ==
    ASSUME Seats, Resume
    PROVE  Nothing \/ \E r \in Rooms : Effect(r)
<1>. /\ live \subseteq Rooms /\ redisQ \in Seq(Call) /\ TypeCalls
     /\ userRoom \in [Users -> Rooms \cup {NoRoom}] /\ room \in [Rooms -> RoomState]
     /\ session \in [Rooms -> Session]
  BY RoomsAssumption, TypeParts DEF Seats, TypeOK
<1>. DEFINE r == Head(redisQ).room
            u == Head(redisQ).user
<1>h. redisQ # <<>> => r \in Rooms /\ u \in Users
  BY HeadType
<1>1. CASE JoinReplied
  <2>1. r \in Rooms /\ Answers({"join", "create"}, r)
    BY <1>1, <1>h DEF JoinReplied, Replied, Answers
  <2>2. Settles(r)
    BY <1>1, <2>1 DEF JoinReplied, Settles, gameVars
  <2>. QED  BY <2>1, <2>2 DEF Effect
<1>2. CASE JoinRejected
  <2>1. r \in Rooms /\ Answers({"join", "create"}, r) /\ RedisFaults
    BY <1>2, <1>h DEF JoinRejected, Replied, Answers
  <2>2. CASE Head(redisQ).kind = "create" /\ r \in live
    <3>1. Destroy(r) /\ UNCHANGED <<starting, saving>>
      BY <1>2, <2>2 DEF JoinRejected
    <3>2. Answers({"join", "create", "leave", "evict"}, r)
      BY <2>1 DEF Answers
    <3>. QED  BY <2>1, <2>2, <3>1, <3>2 DEF Effect, Closes
  <2>3. CASE ~(Head(redisQ).kind = "create" /\ r \in live)
    <3>1. UNCHANGED core
      BY <1>2, <2>3 DEF JoinRejected, roomVars, core
    <3>. QED  BY <2>1, <3>1 DEF Nothing, Answers, Kind
  <2>. QED  BY <2>2, <2>3
<1>7. CASE DelRejected
  <2>1. r \in Rooms /\ Answers(Kind, r) /\ RedisFaults
    BY <1>7, <1>h DEF DelRejected, Replied, Answers, Kind
  <2>2. UNCHANGED core
    BY <1>7 DEF DelRejected, roomVars, gameVars, core
  <2>. QED  BY <2>1, <2>2 DEF Nothing
<1>3. CASE LeaveReplied
  <2>1. r \in Rooms /\ u \in Users /\ Answers({"leave", "evict"}, r)
    BY <1>3, <1>h DEF LeaveReplied, Replied, Answers
  <2>2. CASE Abandoned(r) /\ r \in live
    <3>1. Destroy(r) /\ UNCHANGED <<starting, saving>>
      BY <1>3, <2>2 DEF LeaveReplied
    <3>2. Answers({"join", "create", "leave", "evict"}, r)
      BY <2>1 DEF Answers
    <3>. QED  BY <2>1, <2>2, <3>1, <3>2 DEF Effect, Closes
  <2>3. CASE ~(Abandoned(r) /\ r \in live)
    <3>1. /\ session' = [session EXCEPT ![r] = WithoutTank(session[r], u)]
          /\ room' = IF Abandoned(r) THEN room ELSE [room EXCEPT ![r] = AfterLoss(r)]
          /\ UNCHANGED <<live, players, starting, saving>>
      BY <1>3, <2>1, <2>3 DEF LeaveReplied
    <3>2. Settles(r)
      BY <2>1, <2>3, <3>1 DEF Settles
    <3>. QED  BY <2>1, <3>2 DEF Effect
  <2>. QED  BY <2>2, <2>3
<1>4. CASE DisconnectReplied
  <2>0. r \in Rooms /\ u \in Users /\ redisQ # <<>> /\ Head(redisQ).kind = "disconnect"
        /\ UNCHANGED <<starting, saving, session>>
    BY <1>4, <1>h DEF DisconnectReplied, Replied, gameVars
  <2>1. CASE r \in PrivateRooms /\ redisQ' = Tail(redisQ) /\ room' = [room EXCEPT ![r] = AfterLoss(r)]
             /\ UNCHANGED <<live, players>>
    BY <2>0, <2>1 DEF Settles, Effect, Answers
  <2>2. CASE redisQ' = Tail(redisQ) /\ UNCHANGED <<live, room, players>>
    BY <2>0, <2>2 DEF Nothing, Answers, core
  <2>3. ASSUME userRoom[u] # NoRoom, BeginLeave(u, "evict", Tail(redisQ))
        PROVE  \E p \in Rooms : Effect(p)
    <3>1. Tail(redisQ) \in Seq(Call) /\ userRoom[u] # NoRoom
      BY <2>0, <2>3
    <3>. QED  BY <2>0, <2>3, <3>1, QuitsStep
  <2>. QED  BY <1>4, <2>1, <2>2, <2>3 DEF DisconnectReplied, roomVars
<1>5. ASSUME NEW c \in creating, CreateHashed(c)
      PROVE  Nothing \/ \E p \in Rooms : Effect(p)
  <2>1. c.user \in Users
    BY DEF TypeCalls
  <2>2. ASSUME NEW p \in Unused(PrivateRooms), live' = live \cup {p},
               room' = [room EXCEPT ![p] = NewRoom(c.user, TRUE)],
               Enter(p, c.user, c.socket, "create")
        PROVE  \E q \in Rooms : Effect(q)
    <3>1. /\ p \in Rooms /\ p \in PrivateRooms /\ (p \in PrivateRooms) = TRUE
          /\ room[p].status = "none" /\ UNCHANGED <<starting, saving, session>>
      BY <1>5, <2>2 DEF CreateHashed, Unused, Rooms, gameVars
    <3>. QED  BY <2>1, <2>2, <3>1, OpensStep
  <2>3. CASE userRoom[c.user] # NoRoom
    BY <1>5, <2>3 DEF CreateHashed, roomVars, gameVars, Nothing, core
  <2>. QED  BY <1>5, <2>2, <2>3 DEF CreateHashed
<1>6. ASSUME NEW j \in joining, JoinChecked(j)
      PROVE  Nothing \/ \E p \in Rooms : Effect(p)
  <2>1. j.user \in Users /\ j.room \in Rooms /\ UNCHANGED <<starting, saving, session>>
    BY <1>6 DEF TypeCalls, JoinChecked, gameVars
  <2>2. CASE MayEnter(j.user, j.room) /\ Enter(j.room, j.user, j.socket, "join")
             /\ UNCHANGED <<live, room>>
    BY <2>1, <2>2, EntersStep DEF MayEnter
  <2>. QED  BY <1>6, <2>1, <2>2 DEF JoinChecked, Reclaim, roomVars, Nothing, core
<1>. QED
  BY <1>1, <1>2, <1>3, <1>4, <1>5, <1>6, <1>7 DEF Resume, Effect, Rounds

LEMMA TimerEffect ==
    ASSUME Seats, Timer
    PROVE  Nothing \/ \E r \in Rooms : Effect(r)
<1>1. ASSUME NEW r \in Rooms, ResetRound(r)
      PROVE  Effect(r)
  BY <1>1 DEF ResetRound, Effect, Closes, Rounds
<1>2. ASSUME NEW r \in Rooms, CloseInactive(r)
      PROVE  Effect(r)
  BY <1>2 DEF CloseInactive, Effect, Closes
<1>3. ASSUME NEW g \in grace, GraceExpires(g)
      PROVE  Nothing \/ \E r \in Rooms : Effect(r)
  <2>1. CASE StillAway(g)
    <3>1. g.user \in Users /\ g.room \in Rooms /\ g.room # NoRoom
      BY RoomsAssumption DEF Seats, TypeOK
    <3>2. userRoom[g.user] = g.room
      BY <2>1, <3>1 DEF StillAway, Seats, MembershipAgrees
    <3>3. redisQ \in Seq(Call) /\ UNCHANGED <<starting, saving, session>>
          /\ BeginLeave(g.user, "evict", redisQ)
      BY <1>3, <2>1 DEF GraceExpires, gameVars, Seats, TypeOK
    <3>. QED  BY <3>1, <3>2, <3>3, QuitsStep
  <2>2. CASE ~StillAway(g)
    BY <1>3, <2>2 DEF GraceExpires, roomVars, gameVars, Nothing, core
  <2>. QED  BY <2>1, <2>2
<1>. QED  BY <1>1, <1>2, <1>3 DEF Timer, Effect, Rounds

LEMMA NextEffect ==
    ASSUME Seats, [Next]_vars
    PROVE  Nothing \/ \E r \in Rooms : Effect(r)
BY RequestEffect, ResumeEffect, TimerEffect DEF Next, vars, Nothing, core

-----------------------------------------------------------------------------
(* A step has its effect in one room: the others keep what they have, and the *)
(* calls that wait on their behalf.                                           *)

LEMMA EffectElsewhere ==
    ASSUME Seats, NEW r \in Rooms, Effect(r), NEW q \in Rooms, q # r
    PROVE  /\ room'[q] = room[q] /\ session'[q] = session[q] /\ players'[q] = players[q]
           /\ q \in live' <=> q \in live
           /\ q \in starting' <=> q \in starting
           /\ q \in saving' <=> q \in saving
<1>. /\ room \in [Rooms -> RoomState] /\ session \in [Rooms -> Session]
     /\ players \in [Rooms -> SUBSET Users]
  BY DEF Seats, TypeOK
<1>1. CASE Enters(r)
  BY <1>1 DEF Enters
<1>2. CASE Opens(r)
  BY <1>2 DEF Opens
<1>3. CASE Quits(r)
  BY <1>3 DEF Quits
<1>4. CASE Closes(r)
  BY <1>4 DEF Closes, Destroy
<1>5. CASE Settles(r)
  BY <1>5 DEF Settles
<1>6. CASE StartReady(r) \/ MatchSaved(r)
  BY <1>6 DEF StartReady, MatchSaved
<1>7. CASE TickCountdown(r)
  BY <1>7 DEF TickCountdown, BeginStart
<1>8. CASE r \in PrivateRooms /\ ResetRound(r)
  BY <1>8, RoomsAssumption DEF ResetRound
<1>9. CASE \E S \in SUBSET Users : GameTick(r, S)
  BY <1>9 DEF GameTick, roomVars
<1>10. CASE \E s \in Sockets : StartNow(s) /\ r = userRoom[Owner[s]]
  BY <1>10 DEF StartNow, gameVars
<1>. QED
  BY <1>1, <1>2, <1>3, <1>4, <1>5, <1>6, <1>7, <1>8, <1>9, <1>10 DEF Effect, Rounds

LEMMA RoundsQueue ==
    ASSUME NEW r \in Rooms, Rounds(r) \/ \E s \in Sockets : StartNow(s)
    PROVE  UNCHANGED redisQ
<1>1. CASE r \in PrivateRooms /\ ResetRound(r)
  BY <1>1 DEF ResetRound
<1>. QED
  BY <1>1 DEF Rounds, StartReady, MatchSaved, TickCountdown, GameTick, StartNow

LEMMA QueueElsewhere ==
    ASSUME Seats, NEW r \in Rooms, Effect(r), NEW q \in Rooms, q # r, NEW kinds,
           "disconnect" \notin kinds, InQueue(redisQ, q, kinds)
    PROVE  InQueue(redisQ', q, kinds)
<1>. redisQ \in Seq(Call)
  BY DEF Seats, TypeOK
<1>1. ASSUME NEW ks, Answers(ks, r)
      PROVE  InQueue(redisQ', q, kinds)
  BY <1>1, InTail DEF Answers
<1>2. CASE Enters(r)
  BY <1>2, InSuspended DEF Enters, Kind
<1>3. CASE Opens(r)
  BY <1>3, InSuspended DEF Opens, Kind
<1>4. CASE Quits(r)
  <2>1. PICK u \in Users, kind \in {"leave", "evict"}, c \in Seq(Call) :
          /\ c = redisQ \/ (redisQ # <<>> /\ Head(redisQ).kind = "disconnect" /\ c = Tail(redisQ))
          /\ redisQ' = Suspend(c, kind, r, u)
    BY <1>4 DEF Quits
  <2>2. InQueue(c, q, kinds)
    BY <2>1, InTail
  <2>. QED  BY <2>1, <2>2, InSuspended DEF Kind
<1>5. CASE Closes(r) \/ Settles(r)
  BY <1>1, <1>5 DEF Closes, Settles
<1>6. CASE Rounds(r) \/ \E s \in Sockets : StartNow(s)
  BY <1>6, RoundsQueue
<1>. QED  BY <1>2, <1>3, <1>4, <1>5, <1>6 DEF Effect

LEMMA NothingElsewhere ==
    ASSUME Seats, Nothing, NEW q \in Rooms, NEW kinds, "disconnect" \notin kinds,
           ~RedisFaults, InQueue(redisQ, q, kinds)
    PROVE  InQueue(redisQ', q, kinds)
<1>. redisQ \in Seq(Call) /\ live \subseteq Rooms
  BY DEF Seats, TypeOK
<1>1. ASSUME NEW ks, NEW p, Answers(ks, p), ks \cap kinds = {}
      PROVE  InQueue(redisQ', q, kinds)
  BY <1>1, InTail DEF Answers
<1>2. ASSUME NEW p \in live, NEW u \in Users, redisQ' = Suspend(redisQ, "disconnect", p, u)
      PROVE  InQueue(redisQ', q, kinds)
  BY <1>2, InSuspended DEF Kind
<1>. QED  BY <1>1, <1>2 DEF Nothing

\* What the countdown helpers leave of a round, and of a tank's removal.
LEMMA AfterLossRound ==
    ASSUME Seats, NEW r \in Rooms, NEW rm, rm \in {UpdatedCountdown(r), AfterLoss(r)}
    PROVE  /\ rm.reset = room[r].reset
           /\ room[r].deadline => rm.deadline
           /\ \/ rm = room[r]
              \/ /\ room[r].status \notin {"in_game", "finished"}
                 /\ rm.status \in {"waiting", "countdown"}
<1>1. room[r] \in RoomState
  BY DEF Seats, TypeOK
<1>. DEFINE Keeps(x) == /\ x.reset = room[r].reset /\ (room[r].deadline => x.deadline)
                        /\ x.status \in {"waiting", "countdown"}
<1>2. Keeps(Waiting(room[r])) /\ Keeps(Counting(room[r])) /\ Keeps(Canceled(room[r]))
  BY <1>1 DEF RoomState, Waiting, Canceled, Counting
<1>. HIDE DEF Keeps
<1>3. \/ rm = room[r]
      \/ room[r].status \notin {"in_game", "finished"} /\ Keeps(rm)
  BY <1>2 DEF UpdatedCountdown, AfterLoss
<1>4. CASE rm = room[r]
  BY <1>4
<1>5. CASE room[r].status \notin {"in_game", "finished"} /\ Keeps(rm)
  BY <1>5 DEF Keeps
<1>. QED  BY <1>3, <1>4, <1>5

LEMMA WithoutTankStatus ==
    ASSUME NEW s \in Session, NEW u
    PROVE  /\ WithoutTank(s, u).status = s.status
           /\ s = NoSession => WithoutTank(s, u) = NoSession
<1>. DEFINE t == WithoutTank(s, u)
<1>1. /\ t.status = s.status /\ t.players = s.players \ {u}
      /\ t.alive = s.alive \ {u} /\ t.many = s.many
  BY DEF Session, WithoutTank
<1>2. s.players \ {u} \subseteq Users /\ s.alive \ {u} \subseteq Users
  BY DEF Session
<1>3. t \in Session
  BY <1>2 DEF Session, WithoutTank
<1>. HIDE DEF t
<1>4. ASSUME s = NoSession
      PROVE  t = NoSession
  <2>1. s.players \ {u} = {} /\ s.alive \ {u} = {}
    BY <1>4 DEF NoSession
  <2>. QED  BY <1>1, <1>3, <1>4, <2>1 DEF Session, NoSession
<1>. QED  BY <1>1, <1>4 DEF t

-----------------------------------------------------------------------------
(* Rounds.  The status of a room, its session and the two calls that move     *)
(* them, a start and a save, agree in every live room; a room that is not in  *)
(* use yet has none of them, so that it opens in agreement.                   *)

Played(r) ==
    /\ r \in starting => room[r].status \in {"waiting", "countdown"}
    /\ r \in saving => room[r].status = "in_game"
    /\ room[r].status = "in_game" => (session[r].status = "playing" <=> r \notin saving)
    /\ session[r].status = "playing" => room[r].status = "in_game"
    /\ room[r].status = "finished" <=> room[r].reset
    /\ room[r].status \in {"waiting", "countdown"} => session[r] = NoSession

Fresh(r) == r \notin starting \cup saving /\ session[r] = NoSession

RoundKept(r) ==
    /\ r \in live => Played(r)
    /\ room[r].status = "none" => Fresh(r)

RoundsKept == \A r \in Rooms : RoundKept(r)

LEMMA SameRound ==
    ASSUME NEW r, RoundKept(r), room'[r].status = room[r].status, room'[r].reset = room[r].reset,
           session'[r] = session[r], r \in live' <=> r \in live,
           r \in starting' <=> r \in starting, r \in saving' <=> r \in saving
    PROVE  RoundKept(r)'
BY DEF RoundKept, Played, Fresh

LEMMA SettlesRound ==
    ASSUME Seats, NEW r \in Rooms, RoundKept(r), Settles(r)
    PROVE  RoundKept(r)'
<1>0. /\ room \in [Rooms -> RoomState] /\ session \in [Rooms -> Session]
      /\ UNCHANGED <<live, starting, saving>>
  BY DEF Seats, TypeOK, Settles
<1>1. /\ session'[r].status = session[r].status
      /\ session[r] = NoSession => session'[r] = NoSession
  <2>1. CASE session' = session
    BY <2>1
  <2>2. CASE \E u \in Users : session' = [session EXCEPT ![r] = WithoutTank(session[r], u)]
    BY <1>0, <2>2, WithoutTankStatus
  <2>. QED  BY <2>1, <2>2 DEF Settles
<1>2. \/ room' = room
      \/ \E rm \in {UpdatedCountdown(r), AfterLoss(r)} : room' = [room EXCEPT ![r] = rm]
  BY DEF Settles
<1>3. /\ room'[r].reset = room[r].reset
      /\ \/ room'[r].status = room[r].status
         \/ /\ room[r].status \notin {"in_game", "finished"}
            /\ room'[r].status \in {"waiting", "countdown"}
  BY <1>0, <1>2, AfterLossRound
<1>4. room[r].status \in Status
  BY <1>0 DEF RoomState
<1>5. CASE r \in live
  BY <1>0, <1>1, <1>3, <1>4, <1>5 DEF RoundKept, Played, Fresh, Status
<1>6. CASE r \notin live
  BY <1>0, <1>1, <1>3, <1>4, <1>6 DEF RoundKept, Played, Fresh, Status
<1>. QED  BY <1>5, <1>6

LEMMA PlaysRound ==
    ASSUME Seats, NEW r \in Rooms, RoundKept(r), Rounds(r)
    PROVE  RoundKept(r)'
<1>. /\ room[r] \in RoomState /\ room \in [Rooms -> RoomState]
     /\ session[r] \in Session /\ session \in [Rooms -> Session]
  BY DEF Seats, TypeOK
<1>1. CASE StartReady(r)
  <2>1. /\ room'[r].status = "in_game" /\ room'[r].reset = room[r].reset
        /\ session'[r].status = "playing" /\ UNCHANGED <<live, saving>>
        /\ r \in starting /\ starting' = starting \ {r}
    BY <1>1 DEF StartReady, RoomState, Session
  <2>. QED  BY <2>1 DEF RoundKept, Played, Fresh
<1>2. CASE MatchSaved(r)
  <2>1. /\ r \in saving /\ saving' = saving \ {r} /\ UNCHANGED <<live, starting, session>>
        /\ room' = IF r \in live /\ room[r].status # "finished"
                   THEN [room EXCEPT ![r].status = "finished", ![r].endsAt = FALSE, ![r].reset = TRUE]
                   ELSE room
    BY <1>2 DEF MatchSaved
  <2>2. r \notin live => RoundKept(r)'
    BY <2>1 DEF RoundKept, Played, Fresh
  <2>3. r \in live /\ room[r].status = "in_game"
        => room'[r].status = "finished" /\ room'[r].reset
    BY <2>1 DEF RoomState
  <2>4. r \in live => room[r].status = "in_game" /\ r \notin starting
    BY <2>1 DEF RoundKept, Played
  <2>5. r \in live => session'[r].status # "playing"
    BY <2>1, <2>4 DEF RoundKept, Played
  <2>. QED  BY <2>1, <2>2, <2>3, <2>4, <2>5 DEF RoundKept, Played, Fresh
<1>3. CASE TickCountdown(r)
  <2>1. /\ r \in live /\ room[r].status = "countdown" /\ UNCHANGED <<live, saving, session>>
        /\ starting \subseteq starting' /\ starting' \subseteq starting \cup {r}
    BY <1>3 DEF TickCountdown, BeginStart
  <2>2. /\ Canceled(room[r]).status = "waiting" /\ Canceled(room[r]).reset = room[r].reset
    BY DEF Canceled, Waiting, RoomState
  <2>3. room'[r].status \in {"waiting", "countdown"} /\ room'[r].reset = room[r].reset
    BY <1>3, <2>1, <2>2, AfterLossRound DEF TickCountdown, BeginStart, RoomState
  <2>. QED  BY <2>1, <2>3 DEF RoundKept, Played, Fresh
<1>4. CASE r \in PrivateRooms /\ ResetRound(r)
  <2>1. /\ room' = [room EXCEPT ![r] = [Canceled(room[r]) EXCEPT !.reset = FALSE]]
        /\ session' = [session EXCEPT ![r] = NoSession]
        /\ room[r].status = "finished" /\ r \in live /\ UNCHANGED <<live, starting, saving>>
    BY <1>4, RoomsAssumption DEF ResetRound
  <2>2. room'[r].status = "waiting" /\ ~room'[r].reset
    BY <2>1 DEF Canceled, Waiting, RoomState
  <2>3. session'[r] = NoSession /\ session'[r].status = "none"
    BY <2>1 DEF NoSession
  <2>. QED  BY <2>1, <2>2, <2>3 DEF RoundKept, Played, Fresh
<1>5. ASSUME NEW S \in SUBSET Users, GameTick(r, S)
      PROVE  RoundKept(r)'
  <2>1. /\ UNCHANGED <<live, room, starting>> /\ session[r].status = "playing"
        /\ \/ session'[r].status = "playing" /\ saving' = saving
           \/ session'[r].status = "finished" /\ saving' = saving \cup {r}
    BY <1>5 DEF GameTick, roomVars, Session
  <2>2. room[r].status # "none"
    BY <2>1 DEF RoundKept, Fresh, NoSession
  <2>. QED  BY <2>1, <2>2 DEF RoundKept, Played
<1>. QED  BY <1>1, <1>2, <1>3, <1>4, <1>5 DEF Rounds

LEMMA EffectRound ==
    ASSUME Seats, RoomsKept, NEW r \in Rooms, RoundKept(r), Effect(r)
    PROVE  RoundKept(r)'
<1>. /\ room \in [Rooms -> RoomState] /\ session \in [Rooms -> Session] /\ live \subseteq Rooms
  BY DEF Seats, TypeOK
<1>1. CASE Enters(r)
  BY <1>1, SameRound DEF Enters
<1>2. CASE Opens(r)
  <2>1. room'[r].status = "waiting" /\ ~room'[r].reset
    BY <1>2 DEF Opens, NewRoom
  <2>2. Fresh(r) /\ UNCHANGED <<starting, saving, session>>
    BY <1>2 DEF Opens, RoundKept
  <2>3. session'[r].status = "none"
    BY <2>2 DEF Fresh, NoSession
  <2>. QED  BY <2>1, <2>2, <2>3 DEF RoundKept, Played, Fresh
<1>3. CASE Quits(r)
  <2>1. /\ room'[r].status = room[r].status /\ room'[r].reset = room[r].reset
    BY <1>3 DEF Quits, RoomState
  <2>. QED  BY <1>3, <2>1, SameRound DEF Quits
<1>4. CASE Closes(r)
  <2>1. r \notin live' /\ room'[r].status = room[r].status /\ r \in live
    BY <1>4 DEF Closes, Destroy, RoomState
  <2>. QED  BY <2>1 DEF RoomsKept, WellKept, RoundKept
<1>5. CASE Settles(r)
  BY <1>5, SettlesRound
<1>6. CASE Rounds(r)
  BY <1>6, PlaysRound
<1>7. ASSUME NEW s \in Sockets, StartNow(s), r = userRoom[Owner[s]]
      PROVE  RoundKept(r)'
  <2>1. /\ room' = [room EXCEPT ![r] = [Counting(room[r]) EXCEPT !.deadline = FALSE]]
        /\ room[r].status = "waiting" /\ UNCHANGED <<live, starting, saving, session>>
    BY <1>7 DEF StartNow, gameVars
  <2>2. room'[r].status = "countdown" /\ room'[r].reset = room[r].reset
    BY <2>1 DEF Counting, RoomState
  <2>. QED  BY <2>1, <2>2 DEF RoundKept, Played
<1>. QED
  BY <1>1, <1>2, <1>3, <1>4, <1>5, <1>6, <1>7 DEF Effect

LEMMA NextRounds == Seats /\ RoomsKept /\ RoundsKept /\ [Next]_vars => RoundsKept'
<1>. SUFFICES ASSUME Seats, RoomsKept, RoundsKept, [Next]_vars PROVE RoundsKept'
  OBVIOUS
<1>1. CASE Nothing
  BY <1>1 DEF Nothing, core, RoundsKept, RoundKept, Played, Fresh
<1>2. ASSUME NEW r \in Rooms, Effect(r), NEW q \in Rooms
      PROVE  RoundKept(q)'
  <2>1. RoundKept(q)
    BY DEF RoundsKept
  <2>2. q # r => RoundKept(q)'
    BY <1>2, <2>1, EffectElsewhere, SameRound
  <2>. QED  BY <1>2, <2>1, <2>2, EffectRound
<1>. QED  BY <1>1, <1>2, NextEffect DEF RoundsKept

LEMMA RoundsKeptAlways == Spec => []RoundsKept
<1>1. Init => RoundsKept
  BY DEF Init, RoundsKept, RoundKept, Fresh, NoSession
<1>. QED  BY <1>1, NextRounds, SeatsAlways, RoomsKeptAlways, PTL DEF Spec

\* A round is played to its end once: the status of a live room, its session
\* and the save of its result move together, whatever destroys and starts rooms
\* beside it.
THEOREM RoundHolds == Spec => []RoundEndsOnce
<1>1. Seats /\ RoundsKept => RoundEndsOnce
  BY DEF Seats, TypeOK, RoundsKept, RoundKept, Played, RoundEndsOnce
<1>. QED  BY <1>1, SeatsAlways, RoundsKeptAlways, PTL

-----------------------------------------------------------------------------
(* Rooms everyone has left, as long as Redis accepts what it is sent:        *)
(* DelRejected takes the call that would destroy the room.                   *)

\* Something that takes an empty room r further.
Doomed(r) ==
    \/ InQueue(redisQ, r, {"leave", "evict"})
    \/ room[r].deadline \/ r \in starting
    \/ room[r].status \in {"in_game", "finished"}

DoomKept(r) == r \in live /\ players[r] = {} => Doomed(r)

EmptyRoomsDoomed == \A r \in Rooms : DoomKept(r)

LEMMA DoomedMeans == Seats => (EmptyRoomIsDoomed <=> EmptyRoomsDoomed)
BY DEF Seats, TypeOK, EmptyRoomIsDoomed, EmptyRoomsDoomed, DoomKept, Doomed, InQueue

\* A step that keeps the calls, the start and the round of r, and never takes
\* its deadline from it, keeps its doom.
LEMMA SameDoom ==
    ASSUME NEW r, DoomKept(r), r \in live' => r \in live, players'[r] = {} => players[r] = {},
           InQueue(redisQ, r, {"leave", "evict"}) => InQueue(redisQ', r, {"leave", "evict"}),
           room[r].deadline => room'[r].deadline, r \in starting => r \in starting',
           room[r].status \in {"in_game", "finished"}
               => room'[r].status \in {"in_game", "finished"}
    PROVE  DoomKept(r)'
BY DEF DoomKept, Doomed

LEMMA SettlesDoom ==
    ASSUME Seats, NEW r \in Rooms, DoomKept(r), Settles(r)
    PROVE  DoomKept(r)'
<1>. /\ redisQ \in Seq(Call) /\ room \in [Rooms -> RoomState]
     /\ UNCHANGED <<live, players, starting, saving>>
  BY DEF Seats, TypeOK, Settles
<1>1. /\ room[r].deadline => room'[r].deadline
      /\ room[r].status \in {"in_game", "finished"} => room'[r] = room[r]
  <2>1. \/ room' = room
        \/ \E rm \in {UpdatedCountdown(r), AfterLoss(r)} : room' = [room EXCEPT ![r] = rm]
    BY DEF Settles
  <2>. QED  BY <2>1, AfterLossRound
<1>2. CASE Answers({"join", "create"}, r) \/ Answers({"disconnect"}, r)
  <2>1. InQueue(redisQ, r, {"leave", "evict"}) => InQueue(redisQ', r, {"leave", "evict"})
    BY <1>2, InTail DEF Answers
  <2>. QED  BY <1>1, <2>1, SameDoom
<1>3. CASE Answers({"leave", "evict"}, r) /\ ~(Abandoned(r) /\ r \in live)
  BY <1>1, <1>3 DEF DoomKept, Doomed, Abandoned
<1>. QED  BY <1>2, <1>3 DEF Settles

LEMMA EffectDoom ==
    ASSUME Seats, RoundsKept, NEW r \in Rooms, DoomKept(r), Effect(r)
    PROVE  DoomKept(r)'
<1>. /\ room \in [Rooms -> RoomState] /\ players \in [Rooms -> SUBSET Users]
     /\ redisQ \in Seq(Call)
  BY DEF Seats, TypeOK
<1>1. CASE Enters(r) \/ Opens(r)
  <2>1. players'[r] # {}
    BY <1>1 DEF Enters, Opens
  <2>. QED  BY <2>1 DEF DoomKept
<1>2. CASE Quits(r)
  <2>1. InQueue(redisQ', r, {"leave", "evict"})
    BY <1>2, InSuspended DEF Quits, Kind
  <2>. QED  BY <2>1 DEF DoomKept, Doomed
<1>3. CASE Closes(r)
  BY <1>3 DEF Closes, Destroy, DoomKept
<1>4. CASE Settles(r)
  BY <1>4, SettlesDoom
<1>5. CASE StartReady(r)
  <2>1. room'[r].status = "in_game"
    BY <1>5 DEF StartReady, RoomState
  <2>. QED  BY <2>1 DEF DoomKept, Doomed
<1>6. CASE MatchSaved(r)
  <2>1. /\ UNCHANGED <<live, players, starting>> /\ redisQ' = redisQ
        /\ room'[r].deadline = room[r].deadline
        /\ room'[r].status \in {room[r].status, "finished"}
    BY <1>6 DEF MatchSaved, RoomState
  <2>. QED  BY <2>1, SameDoom
<1>7. CASE TickCountdown(r)
  <2>1. UNCHANGED <<live, redisQ>> /\ room[r].status = "countdown"
    BY <1>7 DEF TickCountdown
  <2>2. CASE BeginStart(r)
    BY <2>2 DEF BeginStart, DoomKept, Doomed
  <2>3. CASE room' = [room EXCEPT ![r] = Canceled(room[r])]
    BY <2>3 DEF Canceled, Waiting, RoomState, DoomKept, Doomed
  <2>4. CASE room' = [room EXCEPT ![r] = UpdatedCountdown(r)] /\ UNCHANGED <<players, starting>>
    BY <2>1, <2>4, AfterLossRound, SameDoom
  <2>5. CASE room' = [room EXCEPT ![r].ticking = FALSE] /\ UNCHANGED <<players, starting>>
    <3>1. room'[r].deadline = room[r].deadline
      BY <2>5 DEF RoomState
    <3>. QED  BY <2>1, <2>5, <3>1, SameDoom
  <2>. QED  BY <1>7, <2>2, <2>3, <2>4, <2>5 DEF TickCountdown
<1>8. CASE r \in PrivateRooms /\ ResetRound(r)
  <2>1. room' = [room EXCEPT ![r] = [Canceled(room[r]) EXCEPT !.reset = FALSE]]
    BY <1>8, RoomsAssumption DEF ResetRound
  <2>2. room'[r].deadline
    BY <2>1 DEF Canceled, Waiting, RoomState
  <2>. QED  BY <2>2 DEF DoomKept, Doomed
<1>9. ASSUME NEW S \in SUBSET Users, GameTick(r, S)
      PROVE  DoomKept(r)'
  BY <1>9 DEF GameTick, roomVars, DoomKept, Doomed
<1>10. ASSUME NEW s \in Sockets, StartNow(s), r = userRoom[Owner[s]]
       PROVE  DoomKept(r)'
  <2>1. Cardinality(Connected(r)) >= MinPlayers /\ UNCHANGED players
    BY <1>10 DEF StartNow
  <2>2. Connected(r) # {}
    <3>1. Connected(r) = {} => Cardinality(Connected(r)) = 0
      BY FS_EmptySet
    <3>. QED  BY <2>1, <3>1, RoomsAssumption
  <2>3. players'[r] # {}
    BY <2>1, <2>2 DEF Connected
  <2>. QED  BY <2>3 DEF DoomKept
<1>. QED
  BY <1>1, <1>2, <1>3, <1>4, <1>5, <1>6, <1>7, <1>8, <1>9, <1>10 DEF Effect, Rounds

LEMMA NextDoomed ==
    ASSUME ~RedisFaults, Seats, RoundsKept, EmptyRoomsDoomed, [Next]_vars
    PROVE  EmptyRoomsDoomed'
<1>1. ASSUME Nothing, NEW q \in Rooms
      PROVE  DoomKept(q)'
  <2>1. InQueue(redisQ, q, {"leave", "evict"}) => InQueue(redisQ', q, {"leave", "evict"})
    BY <1>1, NothingElsewhere
  <2>2. DoomKept(q) /\ UNCHANGED core
    BY <1>1 DEF EmptyRoomsDoomed, Nothing
  <2>. QED  BY <2>1, <2>2, SameDoom DEF core
<1>2. ASSUME NEW r \in Rooms, Effect(r), NEW q \in Rooms
      PROVE  DoomKept(q)'
  <2>1. DoomKept(q)
    BY DEF EmptyRoomsDoomed
  <2>2. ASSUME q # r
        PROVE  DoomKept(q)'
    <3>1. InQueue(redisQ, q, {"leave", "evict"}) => InQueue(redisQ', q, {"leave", "evict"})
      BY <1>2, <2>2, QueueElsewhere
    <3>. QED  BY <1>2, <2>1, <2>2, <3>1, EffectElsewhere, SameDoom
  <2>. QED  BY <1>2, <2>1, <2>2, EffectDoom
<1>. QED  BY <1>1, <1>2, NextEffect DEF EmptyRoomsDoomed

\* While Redis accepts every command, a live room nobody is in has something that
\* will take it further: a leave that destroys it when Redis answers, a deadline,
\* or a round.  It is the safety half of EmptyRoomIsReclaimed.
THEOREM DoomHolds ==
    ASSUME ~RedisFaults
    PROVE  Spec => []EmptyRoomIsDoomed
<1>1. Init => EmptyRoomsDoomed
  BY DEF Init, EmptyRoomsDoomed, DoomKept
<1>2. Seats /\ RoundsKept /\ EmptyRoomsDoomed /\ [Next]_vars => EmptyRoomsDoomed'
  BY NextDoomed
<1>. QED
  BY <1>1, <1>2, DoomedMeans, SeatsAlways, RoundsKeptAlways, PTL DEF Spec

-----------------------------------------------------------------------------
(* Full public rooms, as long as Redis accepts what it is sent: JoinRejected  *)
(* takes the call that would start the countdown.                             *)

Enough(r) == Cardinality(players[r]) >= MinPlayers

CountKept(r) ==
    r \in live /\ r \in PublicRooms /\ room[r].status = "waiting" /\ Enough(r)
        => InQueue(redisQ, r, {"join"})

FullRoomsCount == \A r \in Rooms : CountKept(r)

LEMMA FullRoomsMeans == Seats => (FullRoomCountsDown <=> FullRoomsCount)
BY DEF Seats, TypeOK, FullRoomCountsDown, FullRoomsCount, CountKept, Enough, InQueue

\* A room that gains no player needs the call only if it needed it before.
LEMMA SameCount ==
    ASSUME Seats, NEW r \in Rooms, CountKept(r), r \in live' => r \in live,
           players'[r] \subseteq players[r],
           room'[r].status = "waiting" => room[r].status = "waiting",
           InQueue(redisQ, r, {"join"}) => InQueue(redisQ', r, {"join"})
    PROVE  CountKept(r)'
<1>1. Cardinality(players'[r]) <= Cardinality(players[r]) /\ Cardinality(players'[r]) \in Nat
  BY PlayersFinite, FS_Subset, FS_CardinalityType
<1>2. Enough(r)' => Enough(r)
  BY <1>1, PlayersFinite, RoomsAssumption DEF Enough
<1>. QED  BY <1>2 DEF CountKept

\* A public room with enough players never waits after its countdown was updated.
LEMMA UpdatedCounts ==
    ASSUME Seats, NEW r \in PublicRooms, Enough(r)
    PROVE  /\ AfterLoss(r) = UpdatedCountdown(r)
           /\ UpdatedCountdown(r).status # "waiting"
<1>. r \notin PrivateRooms /\ r \in Rooms /\ room[r] \in RoomState
  BY RoomsAssumption DEF Seats, TypeOK, Rooms
<1>1. ~(Cardinality(players[r]) < MinPlayers)
  BY PlayersFinite, RoomsAssumption DEF Enough
<1>2. Counting(room[r]).status = "countdown"
  BY DEF Counting, RoomState
<1>. QED  BY <1>1, <1>2 DEF AfterLoss, UpdatedCountdown

LEMMA SettlesCount ==
    ASSUME Seats, NEW r \in PublicRooms, CountKept(r), Settles(r)
    PROVE  CountKept(r)'
<1>. /\ redisQ \in Seq(Call) /\ room \in [Rooms -> RoomState] /\ r \in Rooms /\ r \notin PrivateRooms
     /\ UNCHANGED <<live, players>>
  BY RoomsAssumption DEF Seats, TypeOK, Settles, Rooms
<1>1. CASE room' = [room EXCEPT ![r] = UpdatedCountdown(r)]
           \/ room' = [room EXCEPT ![r] = AfterLoss(r)]
  BY <1>1, UpdatedCounts DEF CountKept, Enough
<1>2. CASE Abandoned(r) /\ r \notin live
  BY <1>2 DEF CountKept
<1>. QED  BY <1>1, <1>2 DEF Settles

LEMMA EffectCount ==
    ASSUME Seats, NEW r \in PublicRooms, CountKept(r), Effect(r)
    PROVE  CountKept(r)'
<1>. /\ room \in [Rooms -> RoomState] /\ players \in [Rooms -> SUBSET Users]
     /\ redisQ \in Seq(Call) /\ r \in Rooms /\ r \notin PrivateRooms
  BY RoomsAssumption DEF Seats, TypeOK, Rooms
<1>1. CASE Enters(r) \/ Opens(r)
  <2>1. InQueue(redisQ', r, {"join"})
    BY <1>1, InSuspended DEF Enters, Opens, Kind
  <2>. QED  BY <2>1 DEF CountKept
<1>2. CASE Quits(r)
  <2>1. PICK u \in Users, kind \in {"leave", "evict"}, q \in Seq(Call) :
          /\ q = redisQ \/ (redisQ # <<>> /\ Head(redisQ).kind = "disconnect" /\ q = Tail(redisQ))
          /\ room' = [room EXCEPT ![r].admin = AdminWithout(r, {u})]
          /\ players' = [players EXCEPT ![r] = players[r] \ {u}]
          /\ redisQ' = Suspend(q, kind, r, u)
    BY <1>2 DEF Quits
  <2>2. ASSUME InQueue(redisQ, r, {"join"})
        PROVE  InQueue(q, r, {"join"})
    <3>1. CASE redisQ # <<>> /\ Head(redisQ).kind = "disconnect" /\ q = Tail(redisQ)
      BY <2>2, <3>1, InTail
    <3>. QED  BY <2>1, <2>2, <3>1
  <2>3. InQueue(q, r, {"join"}) => InQueue(redisQ', r, {"join"})
    BY <2>1, InSuspended DEF Kind
  <2>4. room'[r].status = room[r].status /\ players'[r] \subseteq players[r] /\ UNCHANGED live
    BY <1>2, <2>1 DEF Quits, RoomState
  <2>. QED  BY <2>2, <2>3, <2>4, SameCount
<1>3. CASE Closes(r)
  BY <1>3 DEF Closes, Destroy, CountKept
<1>4. CASE Settles(r)
  BY <1>4, SettlesCount
<1>5. CASE StartReady(r)
  <2>1. room'[r].status = "in_game"
    BY <1>5 DEF StartReady
  <2>. QED  BY <2>1 DEF CountKept
<1>6. CASE MatchSaved(r)
  <2>1. /\ UNCHANGED <<live, players, redisQ>>
        /\ room'[r].status \in {room[r].status, "finished"}
    BY <1>6 DEF MatchSaved, RoomState
  <2>. QED  BY <2>1, SameCount
<1>7. CASE TickCountdown(r)
  <2>1. UNCHANGED <<live, redisQ>> /\ room[r].status = "countdown"
    BY <1>7 DEF TickCountdown
  <2>2. CASE BeginStart(r) \/ room' = [room EXCEPT ![r].ticking = FALSE]
    <3>1. CASE BeginStart(r)
      BY <2>1, <3>1 DEF BeginStart, RoomState, CountKept
    <3>2. CASE room' = [room EXCEPT ![r].ticking = FALSE]
      BY <2>1, <3>2 DEF RoomState, CountKept
    <3>. QED  BY <2>2, <3>1, <3>2
  <2>3. CASE Cardinality(players[r]) < MinPlayers /\ UNCHANGED players
    <3>1. ~Enough(r)
      BY <2>3, PlayersFinite, RoomsAssumption DEF Enough
    <3>. QED  BY <2>3, <3>1 DEF CountKept, Enough
  <2>. QED  BY <1>7, <2>2, <2>3 DEF TickCountdown
<1>8. ASSUME NEW S \in SUBSET Users, GameTick(r, S)
      PROVE  CountKept(r)'
  BY <1>8, SameCount DEF GameTick, roomVars
<1>. QED
  BY <1>1, <1>2, <1>3, <1>4, <1>5, <1>6, <1>7, <1>8 DEF Effect, Rounds, StartNow

LEMMA NextCounts ==
    ASSUME ~RedisFaults, Seats, FullRoomsCount, [Next]_vars
    PROVE  FullRoomsCount'
<1>1. ASSUME Nothing, NEW q \in Rooms
      PROVE  CountKept(q)'
  <2>1. InQueue(redisQ, q, {"join"}) => InQueue(redisQ', q, {"join"})
    BY <1>1, NothingElsewhere
  <2>2. CountKept(q) /\ UNCHANGED core
    BY <1>1 DEF FullRoomsCount, Nothing
  <2>. QED  BY <2>1, <2>2 DEF core, CountKept, Enough
<1>2. ASSUME NEW r \in Rooms, Effect(r), NEW q \in Rooms
      PROVE  CountKept(q)'
  <2>1. CountKept(q)
    BY DEF FullRoomsCount
  <2>2. ASSUME q # r
        PROVE  CountKept(q)'
    <3>1. InQueue(redisQ, q, {"join"}) => InQueue(redisQ', q, {"join"})
      BY <1>2, <2>2, QueueElsewhere
    <3>. QED  BY <1>2, <2>1, <2>2, <3>1, EffectElsewhere DEF CountKept, Enough
  <2>3. q \notin PublicRooms => CountKept(q)'
    BY DEF CountKept
  <2>. QED  BY <1>2, <2>1, <2>2, <2>3, EffectCount
<1>. QED  BY <1>1, <1>2, NextEffect DEF FullRoomsCount

\* While Redis accepts every command, a public room that has enough players
\* never waits with nothing under way that starts its countdown, whatever leaves
\* and evictions are answered beside its joins.
THEOREM CountHolds ==
    ASSUME ~RedisFaults
    PROVE  Spec => []FullRoomCountsDown
<1>1. Init => FullRoomsCount
  BY DEF Init, FullRoomsCount, CountKept
<1>2. Seats /\ FullRoomsCount /\ [Next]_vars => FullRoomsCount'
  BY NextCounts
<1>. QED  BY <1>1, <1>2, FullRoomsMeans, SeatsAlways, PTL DEF Spec

-----------------------------------------------------------------------------
(* Succession.  The members of a room stand in the order they entered in, and *)
(* every set of them has a first, which is who Oldest chooses.                *)

Elders(r, u) == member[r][u].elders

InOrder(r) ==
    /\ \A u \in players[r] : Elders(r, u) \subseteq players[r]
    /\ \A u, v \in players[r] : u # v => u \in Elders(r, v) \/ v \in Elders(r, u)
    /\ \A S \in SUBSET players[r] : S # {} => Firsts(r, S) # {}

RoomsInOrder == \A r \in Rooms : InOrder(r)

\* What a step does to the members of rooms.
Sits ==
    \E r \in Rooms, u \in Users, s \in Sockets, kind \in Kind :
        userRoom[u] = NoRoom /\ Enter(r, u, s, kind)

Returns == \E u \in Users, s \in Sockets : userRoom[u] # NoRoom /\ Reclaim(userRoom[u], u, s)

\* The three calls of leave: by its user, by the disconnect of a public lobby,
\* and by a reconnection timer that found its user still away.
Rises(u, kind, q) ==
    /\ userRoom[u] # NoRoom /\ BeginLeave(u, kind, q)
    /\ \/ kind = "leave" /\ q = redisQ
       \/ /\ kind = "evict" /\ q = Tail(redisQ) /\ redisQ # <<>>
          /\ Head(redisQ).kind = "disconnect" /\ Head(redisQ).user = u
          /\ Head(redisQ).room \in PublicRooms
       \/ kind = "evict" /\ q = redisQ /\ member[userRoom[u]][u].socket = NoSocket

Seating ==
    \/ UNCHANGED <<players, member>>
    \/ Sits \/ Returns
    \/ \E s \in Sockets : Disconnect(s)
    \/ \E u \in Users, kind \in Kind, q \in Seq(Call) : Rises(u, kind, q)
    \/ \E r \in live : Destroy(r)
    \/ \E r \in live : BeginStart(r)

LEMMA NextSeating ==
    ASSUME Seats, [Next]_vars
    PROVE  Seating
<1>. /\ live \subseteq Rooms /\ userRoom \in [Users -> Rooms \cup {NoRoom}]
     /\ TypeCalls /\ TypeGame /\ \A s \in Sockets : Owner[s] \in Users
     /\ redisQ \in Seq(Call) /\ {"join", "create", "leave", "evict"} \subseteq Kind
  BY RoomsAssumption, TypeParts DEF Seats, TypeOK, Kind
<1>1. ASSUME NEW s \in Sockets, Request(s)
      PROVE  Seating
  <2>1. CASE QuickPlay(s)
    <3>1. \E r \in Rooms : Enter(r, Owner[s], s, "join")
      BY <2>1 DEF QuickPlay, Candidates, Unused, Rooms
    <3>. QED  BY <2>1, <3>1 DEF QuickPlay, Seating, Sits
  <2>2. CASE Reconnect(s)
    BY <2>2 DEF Reconnect, Seating, Returns
  <2>3. CASE LeaveRoom(s)
    <3>1. Rises(Owner[s], "leave", redisQ)
      BY <2>3 DEF LeaveRoom, Rises
    <3>. QED  BY <3>1 DEF Seating
  <2>4. CASE Connect(s) \/ StartNow(s) \/ \E n \in Names : CreatePrivate(s, n) \/ JoinPrivate(s, n)
    BY <2>4 DEF Connect, StartNow, CreatePrivate, JoinPrivate, Seating, roomVars
  <2>5. CASE Disconnect(s)
    BY <2>5 DEF Seating
  <2>. QED  BY <1>1, <2>1, <2>2, <2>3, <2>4, <2>5 DEF Request
<1>2. CASE JoinReplied \/ JoinRejected \/ LeaveReplied \/ DelRejected
  <2>1. redisQ # <<>>
    BY <1>2 DEF JoinReplied, JoinRejected, LeaveReplied, DelRejected, Replied
  <2>. QED  BY <1>2, <2>1 DEF JoinReplied, JoinRejected, LeaveReplied, DelRejected, Seating, roomVars
<1>3. CASE DisconnectReplied
  <2>1. redisQ # <<>> /\ Head(redisQ).user \in Users /\ Tail(redisQ) \in Seq(Call)
        /\ Head(redisQ).kind = "disconnect"
    BY <1>3, HeadType DEF DisconnectReplied, Replied
  <2>2. CASE UNCHANGED <<players, member>>
    BY <2>2 DEF Seating
  <2>3. CASE /\ Head(redisQ).room \in PublicRooms /\ userRoom[Head(redisQ).user] # NoRoom
             /\ BeginLeave(Head(redisQ).user, "evict", Tail(redisQ))
    <3>1. Rises(Head(redisQ).user, "evict", Tail(redisQ))
      BY <2>1, <2>3 DEF Rises
    <3>. QED  BY <2>1, <3>1 DEF Seating
  <2>. QED  BY <1>3, <2>2, <2>3 DEF DisconnectReplied, roomVars
<1>4. ASSUME NEW c \in creating, CreateHashed(c)
      PROVE  Seating
  <2>1. c.user \in Users /\ c.socket \in Sockets
    BY DEF TypeCalls
  <2>2. CASE userRoom[c.user] = NoRoom
    <3>1. \E r \in Rooms : Enter(r, c.user, c.socket, "create")
      BY <1>4, <2>2 DEF CreateHashed, Unused, Rooms
    <3>. QED  BY <2>1, <2>2, <3>1 DEF Seating, Sits
  <2>. QED  BY <1>4, <2>2 DEF CreateHashed, Seating, roomVars
<1>5. ASSUME NEW j \in joining, JoinChecked(j)
      PROVE  Seating
  <2>1. j.user \in Users /\ j.socket \in Sockets /\ j.room \in Rooms /\ j.room # NoRoom
    BY RoomsAssumption DEF TypeCalls
  <2>2. CASE MayEnter(j.user, j.room) /\ Enter(j.room, j.user, j.socket, "join")
    BY <2>1, <2>2 DEF MayEnter, Seating, Sits
  <2>3. CASE userRoom[j.user] = j.room /\ Reclaim(j.room, j.user, j.socket)
    BY <2>1, <2>3 DEF Seating, Returns
  <2>. QED  BY <1>5, <2>2, <2>3 DEF JoinChecked, Seating, roomVars
<1>6. ASSUME NEW r \in Rooms, StartReady(r) \/ MatchSaved(r) \/ \E S \in SUBSET Users : GameTick(r, S)
      PROVE  Seating
  BY <1>6 DEF StartReady, MatchSaved, GameTick, Seating, roomVars
<1>7. ASSUME NEW r \in Rooms, TickCountdown(r) \/ ResetRound(r) \/ CloseInactive(r)
      PROVE  Seating
  BY <1>7 DEF TickCountdown, ResetRound, CloseInactive, Seating
<1>8. ASSUME NEW g \in grace, GraceExpires(g)
      PROVE  Seating
  <2>1. CASE StillAway(g)
    <3>1. g.user \in Users /\ g.room \in Rooms /\ g.room # NoRoom
      BY RoomsAssumption DEF TypeGame
    <3>2. userRoom[g.user] = g.room /\ member[g.room][g.user].socket = NoSocket
      BY <2>1, <3>1 DEF StillAway, Seats, MembershipAgrees
    <3>3. Rises(g.user, "evict", redisQ)
      BY <1>8, <2>1, <3>1, <3>2 DEF GraceExpires, Rises
    <3>. QED  BY <3>1, <3>3 DEF Seating
  <2>. QED  BY <1>8, <2>1 DEF GraceExpires, Seating, roomVars
<1>9. CASE UNCHANGED vars
  BY <1>9 DEF vars, Seating
<1>. QED
  BY <1>1, <1>2, <1>3, <1>4, <1>5, <1>6, <1>7, <1>8, <1>9 DEF Next, Resume, Timer

\* A room whose members stay, or are those outside S, in the order they were in.
LEMMA ShrinkOrder ==
    ASSUME NEW r, InOrder(r), NEW S, players'[r] = players[r] \ S,
           \A u \in players'[r] : Elders(r, u)' = Elders(r, u) \ S
    PROVE  InOrder(r)'
<1>1. \A u \in players'[r] : Elders(r, u)' \subseteq players'[r]
  BY DEF InOrder
<1>2. \A u, v \in players'[r] : u # v => u \in Elders(r, v)' \/ v \in Elders(r, u)'
  BY DEF InOrder
<1>3. ASSUME NEW T \in SUBSET players'[r], T # {}
      PROVE  Firsts(r, T)' # {}
  <2>1. PICK u \in T : Elders(r, u) \cap T = {}
    BY <1>3 DEF InOrder, Firsts, Elders
  <2>2. Elders(r, u)' \cap T = {}
    BY <2>1
  <2>. QED  BY <2>2 DEF Firsts, Elders
<1>. QED  BY <1>1, <1>2, <1>3 DEF InOrder

LEMMA SameOrder ==
    ASSUME NEW r, InOrder(r), players'[r] = players[r],
           \A u \in players'[r] : Elders(r, u)' = Elders(r, u)
    PROVE  InOrder(r)'
BY ShrinkOrder, players[r] \ {} = players[r], \A u : Elders(r, u) \ {} = Elders(r, u)

\* Who enters becomes the youngest.
LEMMA EnterOrder ==
    ASSUME NEW r, InOrder(r), NEW u, u \notin players[r], players'[r] = players[r] \cup {u},
           Elders(r, u)' = players[r], \A v \in players[r] : Elders(r, v)' = Elders(r, v)
    PROVE  InOrder(r)'
<1>1. \A v \in players'[r] : Elders(r, v)' \subseteq players'[r]
  BY DEF InOrder
<1>2. \A v, w \in players'[r] : v # w => v \in Elders(r, w)' \/ w \in Elders(r, v)'
  BY DEF InOrder
<1>3. ASSUME NEW T \in SUBSET players'[r], T # {}
      PROVE  Firsts(r, T)' # {}
  <2>1. CASE T \ {u} = {}
    <3>1. u \in T /\ Elders(r, u)' \cap T = {}
      BY <1>3, <2>1
    <3>. QED  BY <3>1 DEF Firsts, Elders
  <2>2. CASE T \ {u} # {}
    <3>1. PICK v \in T \ {u} : Elders(r, v) \cap (T \ {u}) = {}
      <4>1. T \ {u} \in SUBSET players[r]
        OBVIOUS
      <4>2. Firsts(r, T \ {u}) # {}
        BY <2>2, <4>1 DEF InOrder
      <4>. QED  BY <4>2 DEF Firsts, Elders
    <3>2. v \in players[r] /\ u \notin Elders(r, v)
      BY <3>1 DEF InOrder
    <3>3. Elders(r, v)' \cap T = {}
      BY <3>1, <3>2
    <3>. QED  BY <3>3 DEF Firsts, Elders
  <2>. QED  BY <2>1, <2>2
<1>. QED  BY <1>1, <1>2, <1>3 DEF InOrder

LEMMA NextOrder == Seats /\ RoomsInOrder /\ [Next]_vars => RoomsInOrder'
<1>. SUFFICES ASSUME Seats, RoomsInOrder, [Next]_vars, NEW q \in Rooms PROVE InOrder(q)'
  BY DEF RoomsInOrder
<1>. /\ players \in [Rooms -> SUBSET Users] /\ member \in [Rooms -> [Users -> Member]]
     /\ userRoom \in [Users -> Rooms \cup {NoRoom}] /\ live \subseteq Rooms /\ InOrder(q)
  BY DEF Seats, TypeOK, RoomsInOrder
<1>1. CASE UNCHANGED <<players, member>>
  BY <1>1, SameOrder DEF Elders
<1>2. ASSUME NEW r \in Rooms, NEW u \in Users, NEW s, NEW kind,
             userRoom[u] = NoRoom, Enter(r, u, s, kind)
      PROVE  InOrder(q)'
  <2>1. /\ players' = [players EXCEPT ![r] = players[r] \cup {u}]
        /\ member' = [member EXCEPT ![r][u] = [socket |-> s, stamp |-> 0, elders |-> players[r]]]
    BY <1>2 DEF Enter
  <2>2. CASE q = r
    <3>1. u \notin players[r]
      BY <1>2, RoomsAssumption DEF Seats, MembershipAgrees, DeadRoomsEmpty
    <3>2. players'[r] = players[r] \cup {u} /\ Elders(r, u)' = players[r]
      BY <2>1 DEF Elders
    <3>3. \A v \in players[r] : Elders(r, v)' = Elders(r, v)
      BY <2>1, <3>1 DEF Elders
    <3>. QED  BY <2>2, <3>1, <3>2, <3>3, EnterOrder
  <2>3. CASE q # r
    BY <2>1, <2>3, SameOrder DEF Elders
  <2>. QED  BY <2>2, <2>3
<1>3. ASSUME UNCHANGED players, NEW r, NEW u, NEW s, NEW t,
             member' = [member EXCEPT ![r][u].socket = s, ![r][u].stamp = t]
      PROVE  InOrder(q)'
  <2>1. \A v \in Users : Elders(q, v)' = Elders(q, v)
    BY <1>3 DEF Elders, Member
  <2>. QED  BY <1>3, <2>1, SameOrder
<1>4. CASE Returns
  <2>1. PICK u \in Users, s \in Sockets : Reclaim(userRoom[u], u, s)
    BY <1>4 DEF Returns
  <2>2. UNCHANGED players
        /\ member' = [member EXCEPT ![userRoom[u]][u].socket = s, ![userRoom[u]][u].stamp = 0]
    BY <2>1 DEF Reclaim
  <2>. QED  BY <1>3, <2>2
<1>5. ASSUME NEW s \in Sockets, Disconnect(s)
      PROVE  InOrder(q)'
  BY <1>1, <1>3, <1>5 DEF Disconnect
<1>6. ASSUME NEW r \in Rooms, NEW S \in SUBSET Users,
             players' = [players EXCEPT ![r] = players[r] \ S],
             member' = [member EXCEPT ![r] = Forget(r, S)]
      PROVE  InOrder(q)'
  <2>1. CASE q = r
    <3>1. \A v \in players'[r] : Elders(r, v)' = Elders(r, v) \ S
      BY <1>6 DEF Elders, Forget, Member
    <3>. QED  BY <1>6, <2>1, <3>1, ShrinkOrder
  <2>2. CASE q # r
    BY <1>6, <2>2, SameOrder DEF Elders
  <2>. QED  BY <2>1, <2>2
<1>7. ASSUME NEW u \in Users, NEW kind, NEW c, Rises(u, kind, c)
      PROVE  InOrder(q)'
  <2>1. userRoom[u] \in Rooms /\ {u} \in SUBSET Users
    BY <1>7 DEF Rises
  <2>2. /\ players' = [players EXCEPT ![userRoom[u]] = players[userRoom[u]] \ {u}]
        /\ member' = [member EXCEPT ![userRoom[u]] = Forget(userRoom[u], {u})]
    BY <1>7 DEF Rises, BeginLeave
  <2>. QED  BY <1>6, <2>1, <2>2
<1>8. ASSUME NEW r \in live, BeginStart(r)
      PROVE  InOrder(q)'
  <2>. DEFINE gone == IF r \in PrivateRooms THEN players[r] \ Connected(r) ELSE {}
  <2>1. gone \in SUBSET Users
    OBVIOUS
  <2>2. players' = [players EXCEPT ![r] = players[r] \ gone]
        /\ member' = [member EXCEPT ![r] = Forget(r, gone)]
    BY <1>8 DEF BeginStart
  <2>. HIDE DEF gone
  <2>. QED  BY <1>6, <2>1, <2>2
<1>9. ASSUME NEW r \in live, Destroy(r)
      PROVE  InOrder(q)'
  <2>1. CASE q = r
    BY <1>9, <2>1 DEF Destroy, InOrder
  <2>2. CASE q # r
    BY <1>9, <2>2, SameOrder DEF Destroy, Elders
  <2>. QED  BY <2>1, <2>2
<1>. QED
  BY <1>1, <1>2, <1>4, <1>5, <1>7, <1>8, <1>9, NextSeating DEF Seating, Sits

LEMMA InOrderAlways == Spec => []RoomsInOrder
<1>1. Init => RoomsInOrder
  BY DEF Init, RoomsInOrder, InOrder
<1>. QED  BY <1>1, NextOrder, SeatsAlways, PTL DEF Spec

\* What AdminPassesToOldest says of one room.
Handed(r) ==
    room'[r].admin # room[r].admin =>
        /\ room[r].admin \notin players'[r]
        /\ \A u \in players'[r] : room'[r].admin # u => room'[r].admin \in Elders(r, u)

LEMMA ShrinkHands ==
    ASSUME NEW r, InOrder(r), NEW S, players'[r] = players[r] \ S,
           room'[r].admin = AdminWithout(r, S)
    PROVE  Handed(r)
<1>. DEFINE rest == players[r] \ S
<1>1. CASE room[r].admin \notin S
  BY <1>1 DEF Handed, AdminWithout
<1>2. CASE room[r].admin \in S
  <2>1. room'[r].admin = Oldest(r, rest) /\ room[r].admin \notin players'[r]
    BY <1>2 DEF AdminWithout
  <2>2. ASSUME NEW u \in rest, Oldest(r, rest) # u
        PROVE  Oldest(r, rest) \in Elders(r, u)
    <3>1. rest \in SUBSET players[r] /\ rest # {}
      OBVIOUS
    <3>2. Firsts(r, rest) # {}
      BY <3>1 DEF InOrder
    <3>3. Oldest(r, rest) \in Firsts(r, rest)
      BY <3>2 DEF Oldest
    <3>4. Oldest(r, rest) \in rest /\ u \notin Elders(r, Oldest(r, rest))
      BY <3>3 DEF Firsts, Elders
    <3>. QED  BY <2>2, <3>4 DEF InOrder
  <2>. QED  BY <2>1, <2>2 DEF Handed
<1>. QED  BY <1>1, <1>2

LEMMA EffectHands ==
    ASSUME Seats, RoomsInOrder, NEW r \in live, r \in live', r \in Rooms,
           room[r].status # "none", Effect(r)
    PROVE  Handed(r)
<1>. /\ room \in [Rooms -> RoomState] /\ players \in [Rooms -> SUBSET Users] /\ InOrder(r)
  BY DEF Seats, TypeOK, RoomsInOrder
<1>1. ASSUME room'[r].admin = room[r].admin PROVE Handed(r)
  BY <1>1 DEF Handed
<1>2. CASE Enters(r)
  BY <1>1, <1>2 DEF Enters
<1>3. ~Opens(r)
  BY DEF Opens
<1>4. CASE Quits(r)
  <2>1. PICK u \in Users : /\ room' = [room EXCEPT ![r].admin = AdminWithout(r, {u})]
                           /\ players' = [players EXCEPT ![r] = players[r] \ {u}]
    BY <1>4 DEF Quits
  <2>2. room'[r].admin = AdminWithout(r, {u}) /\ players'[r] = players[r] \ {u}
    BY <2>1 DEF RoomState
  <2>. QED  BY <2>2, ShrinkHands
<1>5. CASE Closes(r)
  BY <1>5 DEF Closes, Destroy
<1>6. CASE Settles(r)
  <2>1. \/ room' = room
        \/ \E rm \in {UpdatedCountdown(r), AfterLoss(r)} : room' = [room EXCEPT ![r] = rm]
    BY <1>6 DEF Settles
  <2>. QED  BY <1>1, <2>1, AfterLossKept
<1>7. CASE StartReady(r) \/ MatchSaved(r) \/ \E S \in SUBSET Users : GameTick(r, S)
  <2>1. StartReady(r) => room'[r].admin = room[r].admin
    BY DEF StartReady, RoomState
  <2>2. MatchSaved(r) => room'[r].admin = room[r].admin
    BY DEF MatchSaved, RoomState
  <2>3. (\E S \in SUBSET Users : GameTick(r, S)) => room'[r].admin = room[r].admin
    BY DEF GameTick, roomVars
  <2>. QED  BY <1>1, <1>7, <2>1, <2>2, <2>3
<1>8. CASE TickCountdown(r)
  <2>1. CASE BeginStart(r)
    <3>. DEFINE gone == IF r \in PrivateRooms THEN players[r] \ Connected(r) ELSE {}
    <3>1. players'[r] = players[r] \ gone /\ room'[r].admin = AdminWithout(r, gone)
      BY <2>1 DEF BeginStart, RoomState
    <3>. HIDE DEF gone
    <3>. QED  BY <3>1, ShrinkHands
  <2>2. Canceled(room[r]).admin = room[r].admin
    BY DEF Canceled, Waiting, RoomState
  <2>3. UpdatedCountdown(r).admin = room[r].admin
    BY AfterLossKept
  <2>4. CASE ~BeginStart(r)
    <3>1. room'[r].admin = room[r].admin
      BY <1>8, <2>2, <2>3, <2>4 DEF TickCountdown, RoomState
    <3>. QED  BY <1>1, <3>1
  <2>. QED  BY <2>1, <2>4
<1>9. CASE r \in PrivateRooms /\ ResetRound(r)
  <2>1. room' = [room EXCEPT ![r] = [Canceled(room[r]) EXCEPT !.reset = FALSE]]
    BY <1>9, RoomsAssumption DEF ResetRound
  <2>2. room'[r].admin = room[r].admin
    BY <2>1 DEF Canceled, Waiting, RoomState
  <2>. QED  BY <1>1, <2>2
<1>10. ASSUME NEW s \in Sockets, StartNow(s), r = userRoom[Owner[s]]
       PROVE  Handed(r)
  <2>1. room' = [room EXCEPT ![r] = [Counting(room[r]) EXCEPT !.deadline = FALSE]]
    BY <1>10 DEF StartNow
  <2>2. room'[r].admin = room[r].admin
    BY <2>1 DEF Counting, RoomState
  <2>. QED  BY <1>1, <2>2
<1>. QED
  BY <1>2, <1>3, <1>4, <1>5, <1>6, <1>7, <1>8, <1>9, <1>10 DEF Effect, Rounds

\* Administration changes hands only when the administrator's membership ends,
\* and then passes to a member older than all others that remain: by a leave, an
\* eviction, or the release of the disconnected at a start, in whatever order.
THEOREM AdminPasses == Spec => AdminPassesToOldest
<1>. DEFINE A == \A r \in live \cap live' : room'[r].admin # room[r].admin =>
                   /\ room[r].admin \notin players'[r]
                   /\ \A u \in players'[r] : room'[r].admin # u =>
                         room'[r].admin \in member[r][u].elders
<1>1. ASSUME Seats, RoomsKept, RoomsInOrder, [Next]_vars, NEW r \in live \cap live'
      PROVE  Handed(r)
  <2>1. CASE Nothing
    BY <2>1 DEF Nothing, core, Handed
  <2>2. ASSUME NEW q \in Rooms, Effect(q)
        PROVE  Handed(r)
    <3>1. r \in Rooms /\ room[r].status # "none"
      BY <1>1 DEF Seats, TypeOK, RoomsKept, WellKept
    <3>2. CASE q = r
      BY <1>1, <2>2, <3>1, <3>2, EffectHands
    <3>3. CASE q # r
      BY <1>1, <2>2, <3>1, <3>3, EffectElsewhere DEF Handed
    <3>. QED  BY <3>2, <3>3
  <2>. QED  BY <1>1, <2>1, <2>2, NextEffect
<1>2. Seats /\ RoomsKept /\ RoomsInOrder /\ [Next]_vars => A
  BY <1>1 DEF Handed, Elders
<1>3. A => [A]_vars
  OBVIOUS
<1>. HIDE DEF A
<1>4. Spec => [][A]_vars
  BY <1>2, <1>3, SeatsAlways, RoomsKeptAlways, InOrderAlways, PTL DEF Spec
<1>. QED  BY <1>4 DEF A, AdminPassesToOldest

-----------------------------------------------------------------------------
(* Who is taken out of a private room that lives on. *)

LEMMA NextStays ==
    ASSUME Seats, [Next]_vars, NEW r \in live' \cap PrivateRooms, NEW u \in Connected(r) \ players'[r]
    PROVE  redisQ' = Suspend(redisQ, "leave", r, u) \/ EvictedFromElsewhere(r, u)
<1>. /\ players \in [Rooms -> SUBSET Users] /\ userRoom \in [Users -> Rooms \cup {NoRoom}]
     /\ live \subseteq Rooms /\ r \in Rooms
     /\ u \in players[r] /\ u \notin players'[r] /\ member[r][u].socket # NoSocket
  BY DEF Seats, TypeOK, Connected, Rooms
<1>1. ASSUME NEW v \in Users, NEW kind, NEW q, Rises(v, kind, q)
      PROVE  redisQ' = Suspend(redisQ, "leave", r, u) \/ EvictedFromElsewhere(r, u)
  <2>1. /\ players' = [players EXCEPT ![userRoom[v]] = players[userRoom[v]] \ {v}]
        /\ redisQ' = Suspend(q, kind, userRoom[v], v)
    BY <1>1 DEF Rises, BeginLeave
  <2>2. userRoom[v] = r /\ v = u
    BY <2>1
  <2>. QED  BY <1>1, <2>1, <2>2 DEF Rises, EvictedFromElsewhere
<1>2. ASSUME NEW p \in live, BeginStart(p)
      PROVE  FALSE
  BY <1>2 DEF BeginStart, Connected
<1>3. ASSUME NEW p \in live, Destroy(p)
      PROVE  FALSE
  BY <1>3 DEF Destroy
<1>4. ASSUME Sits PROVE FALSE
  <2>1. PICK p \in Rooms, v \in Users : players' = [players EXCEPT ![p] = players[p] \cup {v}]
    BY <1>4 DEF Sits, Enter
  <2>. QED  BY <2>1
<1>5. ASSUME Returns \/ \E s \in Sockets : Disconnect(s) PROVE FALSE
  BY <1>5 DEF Returns, Reclaim, Disconnect
<1>. QED  BY <1>1, <1>2, <1>3, <1>4, <1>5, NextSeating DEF Seating

\* Whatever timers an earlier disconnection armed, a connected member of a private
\* room that lives on leaves it by their own leave only, or by the one call that
\* looks its user's room up anew: a public lobby's disconnect that was suspended.
THEOREM ReturnedStays == Spec => ReturnedMemberStays
<1>. DEFINE A == \A r \in live' \cap PrivateRooms : \A u \in Connected(r) \ players'[r] :
                   redisQ' = Suspend(redisQ, "leave", r, u) \/ EvictedFromElsewhere(r, u)
<1>1. Seats /\ [Next]_vars => A
  BY NextStays
<1>2. A => [A]_vars
  OBVIOUS
<1>. HIDE DEF A
<1>3. Spec => [][A]_vars
  BY <1>1, <1>2, SeatsAlways, PTL DEF Spec
<1>. QED  BY <1>3 DEF A, ReturnedMemberStays
=============================================================================
