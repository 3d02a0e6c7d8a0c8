--------------------------- MODULE SessionsProofs ---------------------------
(***************************************************************************)
(* What is proved of sign-in sessions: that the cookie of a browser is the *)
(* token its session holds, and that a refused socket has a renewal which  *)
(* will decide about it.                                                   *)
(***************************************************************************)
EXTENDS Sessions, TLAPS, WellFoundedInduction

-----------------------------------------------------------------------------
(* Types. *)

Token == [sid: Sids \cup {"none"}, n: Nat]
Renewing == [stage: {"idle", "refresh", "answered", "me"}, cookie: Token]
Tab == [token: Token, promise: Slots \cup {0},
        socket: {"off", "connecting", "on", "refused"}, handshake: Token,
        recovering: Slots \cup {0},
        api: {"idle", "first", "again", "waiting"}, sent: Token, waits: Slots \cup {0}]

SessionTypes ==
    /\ DOMAIN sessions \subseteq issued /\ issued \subseteq Sids
    /\ \A s \in DOMAIN sessions : sessions[s] \in Nat
    /\ cookie \in Token
    /\ tab \in [Tabs -> Tab]
    /\ restores \in [Tabs -> [Slots -> Renewing]]

\* A new renewal takes the first of the free slots.
LEMMA FreeSlot ==
    ASSUME NEW t, Free(t) # {}, tab[t].promise = 0
    PROVE  Renewal(t) \in Free(t)
<1>1. Free(t) \subseteq Nat
  BY SessionsAssumption DEF Free
<1>. DEFINE below == {p \in Nat \X Nat : p[1] < p[2]}
<1>2. OpToRel(<, Nat) = below
  BY Zenon DEF OpToRel
<1>3. IsWellFoundedOn(below, Nat)
  BY <1>2, NatLessThanWellFounded, Zenon
<1>4. PICK i \in Free(t) : \A j \in Free(t) : ~(<<j, i>> \in below)
  BY <1>1, <1>3, WFMin
<1>5. ASSUME NEW j \in Free(t)
      PROVE  i <= j
  <2>1. i \in Nat /\ j \in Nat
    BY <1>1
  <2>2. j < i => <<j, i>> \in below
    BY <2>1
  <2>3. ~(j < i)
    BY <1>4, <2>2
  <2>. QED  BY <2>1, <2>3
<1>. QED  BY <1>5 DEF Renewal

LEMMA RenewsStep ==
    ASSUME SessionTypes, NEW t \in Tabs, CanRenew(t), Renews(t)
    PROVE  /\ Renewal(t) \in Slots
           /\ \/ restores' = restores /\ Renewal(t) = tab[t].promise /\ tab[t].promise # 0
              \/ /\ restores[t][Renewal(t)] = Unused /\ tab[t].promise = 0
                 /\ restores' = [restores EXCEPT ![t][Renewal(t)] =
                                    [stage |-> "refresh", cookie |-> cookie]]
<1>1. CASE tab[t].promise # 0
  BY <1>1 DEF Renews, Renewal, SessionTypes, Tab
<1>2. CASE tab[t].promise = 0
  <2>1. Renewal(t) \in Free(t)
    BY <1>2, FreeSlot DEF CanRenew
  <2>. QED  BY <1>2, <2>1 DEF Renews, Free
<1>. QED  BY <1>1, <1>2

LEMMA NoneIsToken == None \in Token /\ Unused \in Renewing
BY DEF None, Token, Unused, Renewing

LEMMA ResumedType ==
    ASSUME NEW v \in Tab, NEW i, NEW ok \in BOOLEAN
    PROVE  Resumed(v, i, ok) \in Tab
<1>. DEFINE back   == ok /\ v.token # None
            socket == [v EXCEPT !.recovering = 0,
                            !.socket    = IF back /\ @ = "refused" THEN "connecting" ELSE @,
                            !.handshake = IF back /\ v.socket = "refused" THEN v.token ELSE @]
            first  == IF v.recovering = i THEN socket ELSE v
<1>1. socket \in Tab
  BY DEF Tab
<1>2. first \in Tab
  BY <1>1
<1>. HIDE DEF first
<1>3. [first EXCEPT !.waits = 0, !.api  = IF back THEN "again" ELSE "idle",
                                        !.sent = IF back THEN v.token ELSE None] \in Tab
  BY <1>2, NoneIsToken DEF Tab
<1>. QED  BY <1>2, <1>3 DEF Resumed, first

LEMMA EndedType ==
    ASSUME NEW v \in Tab, NEW ok \in BOOLEAN
    PROVE  Ended(v, ok) \in Tab
BY NoneIsToken DEF Ended, Tab

LEMMA RotateType ==
    ASSUME SessionTypes, NEW c \in Token
    PROVE  /\ Rotate(c).cookie \in Token
           /\ DOMAIN Rotate(c).sessions \subseteq DOMAIN sessions
           /\ \A s \in DOMAIN Rotate(c).sessions : Rotate(c).sessions[s] \in Nat
<1>1. CASE Current(c)
  <2>1. Rotate(c) = [sessions |-> [sessions EXCEPT ![c.sid] = @ + 1],
                     cookie   |-> [sid |-> c.sid, n |-> sessions[c.sid] + 1]]
    BY <1>1 DEF Rotate
  <2>. QED  BY <1>1, <2>1 DEF SessionTypes, Token, Current
<1>2. CASE Live(c) /\ ~Current(c)
  <2>1. Rotate(c) = [sessions |-> Without(c.sid), cookie |-> None]
    BY <1>2 DEF Rotate
  <2>. QED  BY <2>1, NoneIsToken DEF SessionTypes, Without
<1>3. CASE ~Live(c)
  <2>1. ~Current(c)
    BY <1>3 DEF Live, Current
  <2>2. Rotate(c) = [sessions |-> sessions, cookie |-> None]
    BY <1>3, <2>1 DEF Rotate
  <2>. QED  BY <2>2, NoneIsToken DEF SessionTypes
<1>. QED  BY <1>1, <1>2, <1>3

-----------------------------------------------------------------------------
(* What a step does to sessions, the cookie and the renewals. *)

Renewed(t, i) == restores[t][i]

Quiet == UNCHANGED <<sessions, issued, lost, cookie, restores>>

\* A renewal begins with the cookie of the browser.
Begins(t, i) ==
    /\ restores[t][i] = Unused
    /\ restores' = [restores EXCEPT ![t][i] = [stage |-> "refresh", cookie |-> cookie]]
    /\ UNCHANGED <<sessions, issued, lost, cookie>>

Revokes(s) == sessions' = Without(s) /\ UNCHANGED <<issued, lost, restores>>

Finishes(t, i) ==
    /\ restores[t][i].stage = "me" \/ (restores[t][i].stage = "answered" /\ restores[t][i].cookie = None)
    /\ restores' = [restores EXCEPT ![t][i] = Unused]
    /\ UNCHANGED <<sessions, issued, lost, cookie>>

Accepts(t, i) ==
    /\ restores[t][i].stage = "answered"
    /\ cookie' = restores[t][i].cookie
    /\ restores' = [restores EXCEPT ![t][i].stage = "me"]
    /\ UNCHANGED <<sessions, issued, lost>>

Opens(s) ==
    /\ s \in Sids \ issued /\ issued' = issued \cup {s}
    /\ sessions' = [x \in DOMAIN sessions \cup {s} |-> IF x = s THEN 1 ELSE sessions[x]]
    /\ cookie' = [sid |-> s, n |-> 1] /\ UNCHANGED <<lost, restores>>

Loss == lost \subseteq lost' /\ UNCHANGED <<sessions, issued, cookie, restores>>

SessionStep ==
    \/ Quiet \/ Loss
    \/ \E s : Revokes(s) /\ (cookie' = cookie \/ cookie' = None)
    \/ \E s : Opens(s)
    \/ \E t \in Tabs, i \in Slots :
          Begins(t, i) \/ Finishes(t, i) \/ Accepts(t, i) \/ ServeRefresh(t, i)

\* What a step does to the tab it is of.
TabStep ==
    \/ tab' = tab
    \/ \E t \in Tabs, v \in Tab : tab' = [tab EXCEPT ![t] = v]

LEMMA NextStep ==
    ASSUME SessionTypes, [SessionNext]_sessionVars
    PROVE  SessionStep /\ TabStep
<1>. /\ tab \in [Tabs -> Tab] /\ restores \in [Tabs -> [Slots -> Renewing]] /\ cookie \in Token
     /\ 0 \notin Slots
  BY SessionsAssumption DEF SessionTypes
<1>1. ASSUME NEW what, Expires(what) PROVE SessionStep /\ TabStep
  BY <1>1 DEF Expires, SessionStep, TabStep, Quiet, Revokes
<1>2. ASSUME NEW t \in Tabs, CanRenew(t), Renews(t), UNCHANGED <<sessions, issued, lost, cookie>>
      PROVE  SessionStep /\ Renewal(t) \in Slots
  BY <1>2, RenewsStep DEF SessionStep, Quiet, Begins
<1>3. ASSUME NEW t \in Tabs, EnterRoute(t) PROVE SessionStep /\ TabStep
  <2>1. SessionStep /\ Renewal(t) \in Slots
    BY <1>2, <1>3 DEF EnterRoute
  <2>2. [tab[t] EXCEPT !.promise = Renewal(t)] \in Tab
    BY <2>1 DEF Tab
  <2>3. tab' = [tab EXCEPT ![t] = [tab[t] EXCEPT !.promise = Renewal(t)]]
    BY <1>3 DEF EnterRoute
  <2>. QED  BY <2>1, <2>2, <2>3 DEF TabStep
<1>4. ASSUME NEW t \in Tabs, Logout(t) PROVE SessionStep /\ TabStep
  <2>1. Closed(tab[t]) \in Tab
    BY NoneIsToken, ZenonT(40) DEF Closed, Tab
  <2>2. Forgets(Closed(tab[t])) \in Tab
    BY <2>1, NoneIsToken DEF Forgets, Tab
  <2>3. TabStep
    BY <1>4, <2>2 DEF Logout, TabStep
  <2>4. SessionStep
    BY <1>4 DEF Logout, LogoutServed, Loses, SessionStep, Revokes, Loss
  <2>. QED  BY <2>3, <2>4
<1>5. ASSUME NEW t \in Tabs, Request(t) \/ Connect(t) \/ Drop(t) PROVE SessionStep /\ TabStep
  <2>. DEFINE v == [tab[t] EXCEPT !.api = "first", !.sent = tab[t].token]
              w == [tab[t] EXCEPT !.socket = "connecting", !.handshake = tab[t].token]
  <2>1. v \in Tab /\ w \in Tab
    BY ZenonT(40) DEF Tab
  <2>2. tab' = [tab EXCEPT ![t] = v] \/ tab' = [tab EXCEPT ![t] = w]
    BY <1>5 DEF Request, Connect, Drop
  <2>. HIDE DEF v, w
  <2>3. TabStep
    BY <2>1, <2>2 DEF TabStep
  <2>. QED  BY <1>5, <2>3 DEF Request, Connect, Drop, SessionStep, Quiet
<1>6. ASSUME NEW t \in Tabs, RequestServed(t) PROVE SessionStep /\ TabStep
  <2>. DEFINE v == [tab[t] EXCEPT !.api = "idle", !.sent = None]
              w == [tab[t] EXCEPT !.api = "again", !.sent = tab[t].token]
              x == [tab[t] EXCEPT !.api = "waiting", !.sent = None,
                                  !.waits = Renewal(t), !.promise = Renewal(t)]
  <2>1. v \in Tab /\ w \in Tab /\ (Renewal(t) \in Slots => x \in Tab)
    BY NoneIsToken, ZenonT(40) DEF Tab
  <2>2. CASE UNCHANGED restores /\ (tab' = [tab EXCEPT ![t] = v] \/ tab' = [tab EXCEPT ![t] = w])
    BY <1>6, <2>1, <2>2 DEF RequestServed, SessionStep, Quiet, TabStep
  <2>3. CASE CanRenew(t) /\ Renews(t) /\ tab' = [tab EXCEPT ![t] = x]
    <3>1. SessionStep /\ Renewal(t) \in Slots
      BY <1>2, <1>6, <2>3 DEF RequestServed
    <3>. QED  BY <2>1, <2>3, <3>1 DEF TabStep
  <2>. QED  BY <1>6, <2>2, <2>3 DEF RequestServed
<1>7. ASSUME NEW t \in Tabs, Handshake(t) PROVE SessionStep /\ TabStep
  <2>. DEFINE v == [tab[t] EXCEPT !.socket = "on", !.handshake = None]
              w == [tab[t] EXCEPT !.socket = "refused", !.handshake = None,
                                  !.recovering = Renewal(t), !.promise = Renewal(t)]
  <2>1. v \in Tab /\ (Renewal(t) \in Slots => w \in Tab)
    BY NoneIsToken, ZenonT(40) DEF Tab
  <2>2. CASE UNCHANGED restores /\ tab' = [tab EXCEPT ![t] = v]
    BY <1>7, <2>1, <2>2 DEF Handshake, SessionStep, Quiet, TabStep
  <2>3. CASE CanRenew(t) /\ Renews(t) /\ tab' = [tab EXCEPT ![t] = w]
    <3>1. SessionStep /\ Renewal(t) \in Slots
      BY <1>2, <1>7, <2>3 DEF Handshake
    <3>. QED  BY <2>1, <2>3, <3>1 DEF TabStep
  <2>. QED  BY <1>7, <2>2, <2>3 DEF Handshake, Recovers
<1>8. ASSUME NEW t \in Tabs, NEW i \in Slots, ServeRefresh(t, i) PROVE SessionStep /\ TabStep
  BY <1>8 DEF ServeRefresh, SessionStep, TabStep
<1>9. ASSUME NEW t \in Tabs, NEW i \in Slots, NEW ok \in BOOLEAN, Restored(t, i, ok),
             restores[t][i].stage = "me" \/ (restores[t][i].stage = "answered" /\ restores[t][i].cookie = None),
             UNCHANGED <<sessions, issued, lost, cookie>>
      PROVE  SessionStep /\ TabStep
  <2>1. Resumed(Ended(tab[t], ok), i, ok) \in Tab
    BY EndedType, ResumedType
  <2>2. TabStep
    BY <1>9, <2>1 DEF Restored, TabStep
  <2>3. Finishes(t, i)
    BY <1>9 DEF Restored, Finishes
  <2>. QED  BY <2>2, <2>3 DEF SessionStep
<1>10. ASSUME NEW t \in Tabs, NEW token \in Token, Keeps(t, token) PROVE TabStep
  <2>1. [tab[t] EXCEPT !.token = token] \in Tab
    BY DEF Tab
  <2>2. tab' = [tab EXCEPT ![t] = [tab[t] EXCEPT !.token = token]]
    BY <1>10 DEF Keeps
  <2>. QED  BY <2>1, <2>2 DEF TabStep
<1>11. ASSUME NEW t \in Tabs, NEW i \in Slots, RefreshAnswered(t, i) PROVE SessionStep /\ TabStep
  <2>1. CASE restores[t][i].cookie = None
    BY <1>9, <1>11, <2>1 DEF RefreshAnswered
  <2>2. CASE restores[t][i].cookie # None
    <3>1. restores[t][i].cookie \in Token
      BY DEF Renewing
    <3>2. Accepts(t, i) /\ Keeps(t, restores[t][i].cookie)
      BY <1>11, <2>2 DEF RefreshAnswered, Accepts
    <3>. QED  BY <1>10, <3>1, <3>2 DEF SessionStep
  <2>. QED  BY <2>1, <2>2
<1>12. ASSUME NEW t \in Tabs, NEW i \in Slots, MeAnswered(t, i) PROVE SessionStep /\ TabStep
  <2>1. Accepted(restores[t][i].cookie) \in BOOLEAN
    BY DEF Accepted, Live
  <2>. QED  BY <1>9, <1>12, <2>1 DEF MeAnswered
<1>13. ASSUME NEW t \in Tabs, NEW s \in Sids, Login(t, s) PROVE SessionStep /\ TabStep
  <2>1. Opens(s) /\ Keeps(t, [sid |-> s, n |-> 1]) /\ [sid |-> s, n |-> 1] \in Token
    BY <1>13 DEF Login, Opens, Token
  <2>. QED  BY <1>10, <2>1 DEF SessionStep
<1>14. CASE UNCHANGED sessionVars
  BY <1>14 DEF sessionVars, SessionStep, Quiet, TabStep
<1>. QED
  BY <1>1, <1>3, <1>4, <1>5, <1>6, <1>7, <1>8, <1>11, <1>12, <1>13, <1>14
     DEF SessionNext, Answers, TokenExpires, SessionExpires

LEMMA NextSessionTypes == SessionTypes /\ [SessionNext]_sessionVars => SessionTypes'
<1>. SUFFICES ASSUME SessionTypes, [SessionNext]_sessionVars PROVE SessionTypes'
  OBVIOUS
<1>. /\ tab \in [Tabs -> Tab] /\ restores \in [Tabs -> [Slots -> Renewing]] /\ cookie \in Token
  BY DEF SessionTypes
<1>1. tab' \in [Tabs -> Tab]
  BY NextStep DEF TabStep
<1>2. ASSUME restores' \in [Tabs -> [Slots -> Renewing]], cookie' \in Token, issued' = issued,
             DOMAIN sessions' \subseteq DOMAIN sessions,
             \A s \in DOMAIN sessions' : sessions'[s] \in Nat
      PROVE  SessionTypes'
  BY <1>1, <1>2 DEF SessionTypes
<1>3. CASE Quiet \/ Loss
  BY <1>2, <1>3 DEF Quiet, Loss, SessionTypes
<1>4. ASSUME NEW s, Revokes(s), cookie' = cookie \/ cookie' = None
      PROVE  SessionTypes'
  BY <1>2, <1>4, NoneIsToken DEF Revokes, Without, SessionTypes
<1>5. ASSUME NEW s, Opens(s)
      PROVE  SessionTypes'
  BY <1>1, <1>5 DEF Opens, SessionTypes, Token
<1>6. ASSUME NEW t \in Tabs, NEW i \in Slots, Begins(t, i) \/ Finishes(t, i) \/ Accepts(t, i)
      PROVE  SessionTypes'
  <2>1. [stage |-> "refresh", cookie |-> cookie] \in Renewing
    BY DEF Renewing
  <2>2. [restores[t][i] EXCEPT !.stage = "me"] \in Renewing /\ restores[t][i].cookie \in Token
    BY DEF Renewing
  <2>3. restores' \in [Tabs -> [Slots -> Renewing]] /\ cookie' \in Token
        /\ UNCHANGED <<sessions, issued>>
    <3>1. CASE Begins(t, i)
      BY <2>1, <3>1 DEF Begins
    <3>2. CASE Finishes(t, i)
      BY <3>2, NoneIsToken DEF Finishes
    <3>3. CASE Accepts(t, i)
      <4>1. restores' = [restores EXCEPT ![t][i] = [restores[t][i] EXCEPT !.stage = "me"]]
        BY <3>3 DEF Accepts
      <4>2. restores' \in [Tabs -> [Slots -> Renewing]]
        BY <2>2, <4>1
      <4>. QED  BY <2>2, <3>3, <4>2 DEF Accepts
    <3>. QED  BY <1>6, <3>1, <3>2, <3>3
  <2>. QED  BY <1>2, <2>3 DEF SessionTypes
<1>7. ASSUME NEW t \in Tabs, NEW i \in Slots, ServeRefresh(t, i)
      PROVE  SessionTypes'
  <2>1. restores[t][i].cookie \in Token
    BY DEF Renewing
  <2>. DEFINE sent(c) == restores' = [restores EXCEPT ![t][i] = [stage |-> "answered", cookie |-> c]]
  <2>a. Rotate(restores[t][i].cookie).cookie \in Token /\ None \in Token
    BY <2>1, RotateType, NoneIsToken
  <2>b. sent(Rotate(restores[t][i].cookie).cookie) \/ sent(None)
    BY <1>7 DEF ServeRefresh
  <2>2. PICK c \in Token : sent(c)
    BY <2>a, <2>b
  <2>3. [stage |-> "answered", cookie |-> c] \in Renewing
    BY DEF Renewing
  <2>4. restores' \in [Tabs -> [Slots -> Renewing]] /\ UNCHANGED <<cookie, issued>>
        /\ sessions' \in {sessions, Rotate(restores[t][i].cookie).sessions}
    BY <1>7, <2>2, <2>3 DEF ServeRefresh
  <2>5. DOMAIN sessions' \subseteq DOMAIN sessions /\ \A s \in DOMAIN sessions' : sessions'[s] \in Nat
    BY <2>1, <2>4, RotateType DEF SessionTypes
  <2>. QED  BY <1>2, <2>4, <2>5
<1>. QED  BY <1>3, <1>4, <1>5, <1>6, <1>7, NextStep DEF SessionStep

-----------------------------------------------------------------------------
(* Who holds what.  No token is ahead of its session; and an answer that is    *)
(* under way holds the token Redis holds, which nobody else has by then.       *)

Holds(c) == c.sid \in issued \cup {"none"} /\ (Live(c) => c.n <= sessions[c.sid])

NobodyAhead == Holds(cookie) /\ \A t \in Tabs, i \in Slots : Holds(restores[t][i].cookie)

Answered(t, i) == restores[t][i].stage = "answered"
Waits(t, i)    == restores[t][i].stage \in {"refresh", "answered"}

AnswerAhead(t, i) ==
    Answered(t, i) /\ Live(restores[t][i].cookie) =>
        /\ Newest(restores[t][i].cookie) /\ cookie # restores[t][i].cookie
        /\ \A u \in Tabs, j \in Slots :
              (u # t \/ j # i) /\ Waits(u, j) => restores[u][j].cookie # restores[t][i].cookie

AnswersAhead == \A t \in Tabs, i \in Slots : AnswerAhead(t, i)

OnItsWay == \E t \in Tabs, i \in Slots :
    Answered(t, i) /\ restores[t][i].cookie.sid = cookie.sid /\ Newest(restores[t][i].cookie)

CookieKept == ~Live(cookie) \/ cookie.sid \in lost \/ Newest(cookie) \/ OnItsWay

Cookies == SessionTypes /\ NobodyAhead /\ AnswersAhead /\ CookieKept

\* What the server does with the token of a renewal.
LEMMA ServeCases ==
    ASSUME SessionTypes, NEW t \in Tabs, NEW i \in Slots, ServeRefresh(t, i),
           NEW c, c = restores[t][i].cookie
    PROVE  \E answer \in Token :
             /\ restores' = [restores EXCEPT ![t][i] = [stage |-> "answered", cookie |-> answer]]
             /\ UNCHANGED <<issued, cookie>>
             /\ \/ /\ sessions' = sessions /\ answer = None /\ lost \subseteq lost'
                \/ /\ Newest(c) /\ sessions' = [sessions EXCEPT ![c.sid] = sessions[c.sid] + 1]
                   /\ \/ answer = [sid |-> c.sid, n |-> sessions[c.sid] + 1] /\ lost' = lost
                      \/ answer = None /\ lost' = lost \cup {c.sid}
                \/ sessions' = Without(c.sid) /\ answer = None /\ lost \subseteq lost'
<1>. c \in Token
  BY DEF SessionTypes, Renewing
<1>. DEFINE sent(a) == restores' = [restores EXCEPT ![t][i] = [stage |-> "answered", cookie |-> a]]
<1>0. /\ UNCHANGED <<issued, cookie>>
      /\ \/ sessions' = Rotate(c).sessions /\ sent(Rotate(c).cookie) /\ UNCHANGED lost
         \/ /\ sessions' \in {sessions, Rotate(c).sessions} /\ sent(None)
            /\ lost' = lost \cup {c.sid}
  BY DEF ServeRefresh, Loses
<1>1. CASE Current(c)
  <2>1. Rotate(c) = [sessions |-> [sessions EXCEPT ![c.sid] = sessions[c.sid] + 1],
                     cookie   |-> [sid |-> c.sid, n |-> sessions[c.sid] + 1]]
    BY <1>1 DEF Rotate
  <2>2. [sid |-> c.sid, n |-> sessions[c.sid] + 1] \in Token /\ Newest(c)
    BY <1>1 DEF Current, Newest, SessionTypes, Token
  <2>3. /\ Rotate(c).sessions = [sessions EXCEPT ![c.sid] = sessions[c.sid] + 1]
        /\ Rotate(c).cookie = [sid |-> c.sid, n |-> sessions[c.sid] + 1]
    BY <2>1
  <2>4. CASE sessions' = Rotate(c).sessions /\ sent(Rotate(c).cookie) /\ UNCHANGED lost
    BY <1>0, <2>2, <2>3, <2>4
  <2>5. CASE /\ sessions' \in {sessions, Rotate(c).sessions} /\ sent(None)
             /\ lost' = lost \cup {c.sid}
    <3>. HIDE DEF sent
    <3>1. lost \subseteq lost'
      BY <2>5
    <3>2. CASE sessions' = sessions
      <4>. QED  BY <1>0, <2>5, <3>1, <3>2, NoneIsToken DEF sent
    <3>3. CASE sessions' = Rotate(c).sessions
      BY <1>0, <2>5, <2>2, <2>3, <3>3, NoneIsToken DEF sent
    <3>. QED  BY <2>5, <3>2, <3>3
  <2>. QED  BY <1>0, <2>4, <2>5
<1>2. CASE Live(c) /\ ~Current(c)
  <2>1. Rotate(c) = [sessions |-> Without(c.sid), cookie |-> None]
    BY <1>2 DEF Rotate
  <2>2. Rotate(c).sessions = Without(c.sid) /\ Rotate(c).cookie = None
    BY <2>1
  <2>3. sent(None) /\ lost \subseteq lost' /\ sessions' \in {sessions, Without(c.sid)}
    BY <1>0, <2>2
  <2>. QED  BY <1>0, <2>3, NoneIsToken
<1>3. CASE ~Live(c)
  <2>1. ~Current(c)
    BY <1>3 DEF Live, Current
  <2>2. Rotate(c) = [sessions |-> sessions, cookie |-> None]
    BY <1>3, <2>1 DEF Rotate
  <2>3. Rotate(c).sessions = sessions /\ Rotate(c).cookie = None
    BY <2>2
  <2>4. sent(None) /\ lost \subseteq lost' /\ sessions' = sessions
    BY <1>0, <2>3
  <2>. QED  BY <1>0, <2>4, NoneIsToken
<1>. QED  BY <1>1, <1>2, <1>3

-----------------------------------------------------------------------------
(* Each kind of step keeps them. *)

\* The sessions shrink and the cookie stays or goes.
LEMMA RevokesKeeps ==
    ASSUME Cookies, NEW s, Revokes(s), cookie' = cookie \/ cookie' = None
    PROVE  NobodyAhead' /\ AnswersAhead' /\ CookieKept'
<1>. DEFINE k(t, i) == restores[t][i].cookie
<1>1. /\ \A x \in DOMAIN sessions' : x \in DOMAIN sessions /\ x # s /\ sessions'[x] = sessions[x]
      /\ \A x \in DOMAIN sessions : x # s => x \in DOMAIN sessions'
      /\ UNCHANGED <<issued, lost, restores>>
  BY DEF Revokes, Without
<1>2. ~Live(None) /\ ~Live(None)' /\ None.sid = "none"
  BY <1>1, SessionsAssumption DEF Live, None, Cookies, SessionTypes
<1>3. NobodyAhead'
  BY <1>1, <1>2 DEF Cookies, NobodyAhead, Holds, Live
<1>4. AnswersAhead'
  BY <1>1, <1>2 DEF Cookies, AnswersAhead, AnswerAhead, Answered, Waits, Live, Newest
<1>5. CookieKept'
  <2>1. CASE Live(cookie)'
    <3>1. cookie' = cookie /\ Live(cookie) /\ cookie.sid # s
      BY <1>1, <1>2, <2>1 DEF Live
    <3>2. CASE cookie.sid \in lost \/ Newest(cookie)
      BY <1>1, <3>1, <3>2 DEF CookieKept, Newest, Live
    <3>3. CASE OnItsWay
      <4>1. OnItsWay'
        BY <1>1, <3>1, <3>3 DEF OnItsWay, Answered, Newest, Live
      <4>. QED  BY <4>1 DEF CookieKept
    <3>. QED  BY <3>1, <3>2, <3>3 DEF Cookies, CookieKept
  <2>. QED  BY <2>1 DEF CookieKept
<1>. QED  BY <1>3, <1>4, <1>5

\* A login: nothing that is held is of the new session.
LEMMA OpensKeeps ==
    ASSUME Cookies, NEW s, Opens(s)
    PROVE  NobodyAhead' /\ AnswersAhead' /\ CookieKept'
<1>1. /\ s \in Sids \ issued /\ s # "none" /\ s \notin DOMAIN sessions
      /\ DOMAIN sessions' = DOMAIN sessions \cup {s}
      /\ sessions'[s] = 1 /\ \A x \in DOMAIN sessions : sessions'[x] = sessions[x]
      /\ cookie' = [sid |-> s, n |-> 1] /\ issued' = issued \cup {s} /\ UNCHANGED <<lost, restores>>
  BY SessionsAssumption DEF Opens, Cookies, SessionTypes
<1>2. \A t \in Tabs, i \in Slots : restores[t][i].cookie.sid \in issued \cup {"none"}
  BY DEF Cookies, NobodyAhead, Holds
<1>3. NobodyAhead'
  BY <1>1, <1>2 DEF Cookies, NobodyAhead, Holds, Live
<1>4. AnswersAhead'
  BY <1>1, <1>2 DEF Cookies, AnswersAhead, AnswerAhead, Answered, Waits, Live, Newest
<1>5. CookieKept'
  BY <1>1 DEF CookieKept, Newest
<1>. QED  BY <1>3, <1>4, <1>5

\* A renewal begins, ends, or its answer is kept.
LEMMA RenewalKeeps ==
    ASSUME Cookies, NEW t0 \in Tabs, NEW i0 \in Slots,
           Begins(t0, i0) \/ Finishes(t0, i0) \/ Accepts(t0, i0)
    PROVE  NobodyAhead' /\ AnswersAhead' /\ CookieKept'
<1>. DEFINE r == restores'[t0][i0]
<1>0. restores \in [Tabs -> [Slots -> Renewing]]
  BY DEF Cookies, SessionTypes
<1>1. /\ UNCHANGED <<sessions, issued, lost>>
      /\ \A t \in Tabs, i \in Slots : t # t0 \/ i # i0 => restores'[t][i] = restores[t][i]
  BY <1>0 DEF Begins, Finishes, Accepts
<1>2. ~Live(None) /\ None.sid = "none"
  BY SessionsAssumption DEF Live, None, Cookies, SessionTypes
<1>3. CASE Begins(t0, i0)
  <2>1. r.stage = "refresh" /\ r.cookie = cookie /\ cookie' = cookie /\ restores[t0][i0].stage = "idle"
    BY <1>0, <1>3 DEF Begins, Unused
  <2>2. NobodyAhead'
    BY <1>1, <2>1 DEF Cookies, NobodyAhead, Holds, Live
  <2>3. AnswersAhead'
    BY <1>1, <2>1 DEF Cookies, AnswersAhead, AnswerAhead, Answered, Waits, Live, Newest
  <2>4. CookieKept'
    BY <1>1, <2>1 DEF Cookies, CookieKept, OnItsWay, Answered, Live, Newest
  <2>. QED  BY <2>2, <2>3, <2>4
<1>4. CASE Finishes(t0, i0)
  <2>1. r.stage = "idle" /\ r.cookie = None /\ cookie' = cookie
        /\ (restores[t0][i0].stage = "answered" => restores[t0][i0].cookie = None)
    BY <1>0, <1>4 DEF Finishes, Unused
  <2>2. NobodyAhead'
    BY <1>1, <1>2, <2>1 DEF Cookies, NobodyAhead, Holds, Live
  <2>3. AnswersAhead'
    BY <1>1, <2>1 DEF Cookies, AnswersAhead, AnswerAhead, Answered, Waits, Live, Newest
  <2>4. CookieKept'
    BY <1>1, <1>2, <2>1 DEF Cookies, CookieKept, OnItsWay, Answered, Live, Newest
  <2>. QED  BY <2>2, <2>3, <2>4
<1>5. CASE Accepts(t0, i0)
  <2>0. restores' = [restores EXCEPT ![t0][i0] = [restores[t0][i0] EXCEPT !.stage = "me"]]
    BY <1>5 DEF Accepts
  <2>1. /\ r.stage = "me" /\ r.cookie = restores[t0][i0].cookie
        /\ cookie' = restores[t0][i0].cookie /\ restores[t0][i0].stage = "answered"
    BY <1>0, <1>5, <2>0 DEF Accepts, Renewing
  <2>2. NobodyAhead'
    BY <1>1, <2>1 DEF Cookies, NobodyAhead, Holds, Live
  <2>3. AnswersAhead'
    BY <1>1, <2>1 DEF Cookies, AnswersAhead, AnswerAhead, Answered, Waits, Live, Newest
  <2>4. CookieKept'
    BY <1>1, <2>1 DEF Cookies, AnswersAhead, AnswerAhead, CookieKept, Answered, Live, Newest
  <2>. QED  BY <2>2, <2>3, <2>4
<1>. QED  BY <1>3, <1>4, <1>5

\* The server answers a renewal: what it replaces nobody else is about to receive.
LEMMA ServeKeeps ==
    ASSUME Cookies, NEW t0 \in Tabs, NEW i0 \in Slots, ServeRefresh(t0, i0)
    PROVE  NobodyAhead' /\ AnswersAhead' /\ CookieKept'
<1>. DEFINE c == restores[t0][i0].cookie
<1>0. /\ restores \in [Tabs -> [Slots -> Renewing]] /\ SessionTypes
      /\ c \in Token /\ cookie \in Token /\ Waits(t0, i0) /\ ~Answered(t0, i0)
      /\ \A t \in Tabs, i \in Slots : restores[t][i].cookie \in Token
      /\ \A s \in DOMAIN sessions : sessions[s] \in Nat
  BY DEF Cookies, SessionTypes, Renewing, ServeRefresh, Waits, Answered
<1>1. PICK answer \in Token :
        /\ restores' = [restores EXCEPT ![t0][i0] = [stage |-> "answered", cookie |-> answer]]
        /\ UNCHANGED <<issued, cookie>>
        /\ \/ /\ sessions' = sessions /\ answer = None /\ lost \subseteq lost'
           \/ /\ Newest(c) /\ sessions' = [sessions EXCEPT ![c.sid] = sessions[c.sid] + 1]
              /\ \/ answer = [sid |-> c.sid, n |-> sessions[c.sid] + 1] /\ lost' = lost
                 \/ answer = None /\ lost' = lost \cup {c.sid}
           \/ sessions' = Without(c.sid) /\ answer = None /\ lost \subseteq lost'
  BY <1>0, ServeCases
<1>2. /\ restores'[t0][i0] = [stage |-> "answered", cookie |-> answer]
      /\ \A t \in Tabs, i \in Slots : t # t0 \/ i # i0 => restores'[t][i] = restores[t][i]
  BY <1>0, <1>1
<1>3. /\ \A t \in Tabs, i \in Slots : t # t0 \/ i # i0 =>
            (Answered(t, i)' <=> Answered(t, i)) /\ (Waits(t, i)' <=> Waits(t, i))
      /\ restores'[t0][i0].cookie = answer /\ Answered(t0, i0)'
  BY <1>2 DEF Answered, Waits
<1>4. DOMAIN sessions \subseteq Sids /\ "none" \notin DOMAIN sessions /\ "none" \notin DOMAIN sessions'
      /\ None.sid = "none"
  BY <1>1, SessionsAssumption DEF Cookies, SessionTypes, None, Without
<1>5. CASE answer = None /\ (sessions' = sessions \/ sessions' = Without(c.sid)) /\ lost \subseteq lost'
  <2>1. /\ \A x \in DOMAIN sessions' : x \in DOMAIN sessions /\ sessions'[x] = sessions[x]
        /\ DOMAIN sessions' = DOMAIN sessions \/ DOMAIN sessions' = DOMAIN sessions \ {c.sid}
    BY <1>5 DEF Without
  <2>2. NobodyAhead'
    <3>1. /\ Holds(cookie) /\ cookie' = cookie /\ issued' = issued
          /\ \A t \in Tabs, i \in Slots : Holds(restores[t][i].cookie)
      BY <1>1 DEF Cookies, NobodyAhead
    <3>2. Holds(cookie)'
      BY <2>1, <3>1 DEF Holds, Live
    <3>3. Holds(restores[t0][i0].cookie)'
      BY <1>3, <1>4, <1>5 DEF Holds, Live
    <3>4. ASSUME NEW t \in Tabs, NEW i \in Slots, t # t0 \/ i # i0
          PROVE  Holds(restores[t][i].cookie)'
      BY <1>2, <2>1, <3>1, <3>4 DEF Holds, Live
    <3>. QED  BY <3>2, <3>3, <3>4 DEF NobodyAhead
  <2>3. AnswersAhead'
    BY <1>2, <1>3, <1>1, <1>4, <1>5, <2>1, SMTT(20) DEF Cookies, AnswersAhead, AnswerAhead, Live, Newest
  <2>4. ASSUME Live(cookie)' PROVE CookieKept'
    <3>1. Live(cookie) /\ cookie' = cookie
          /\ \A x \in DOMAIN sessions : x = cookie.sid => x \in DOMAIN sessions' /\ sessions'[x] = sessions[x]
      BY <1>1, <2>1, <2>4 DEF Live
    <3>2. CASE cookie.sid \in lost \/ Newest(cookie)
      BY <1>5, <3>1, <3>2 DEF CookieKept, Newest
    <3>3. CASE OnItsWay
      <4>1. PICK t \in Tabs, i \in Slots :
              /\ Answered(t, i) /\ restores[t][i].cookie.sid = cookie.sid
              /\ Newest(restores[t][i].cookie)
        BY <3>3 DEF OnItsWay
      <4>2. t # t0 \/ i # i0
        BY <1>0, <4>1
      <4>3. restores'[t][i] = restores[t][i] /\ Answered(t, i)'
        BY <1>2, <1>3, <4>1, <4>2
      <4>4. OnItsWay'
        BY <3>1, <4>1, <4>3 DEF OnItsWay, Newest
      <4>. QED  BY <4>4 DEF CookieKept
    <3>. QED  BY <3>1, <3>2, <3>3 DEF Cookies, CookieKept
  <2>5. CookieKept'
    BY <2>4 DEF CookieKept
  <2>. QED  BY <2>2, <2>3, <2>5
<1>6. CASE /\ Newest(c) /\ sessions' = [sessions EXCEPT ![c.sid] = sessions[c.sid] + 1]
           /\ \/ answer = [sid |-> c.sid, n |-> sessions[c.sid] + 1] /\ lost' = lost
              \/ answer = None /\ lost' = lost \cup {c.sid}
  <2>1. /\ DOMAIN sessions' = DOMAIN sessions /\ c.sid \in DOMAIN sessions
        /\ sessions[c.sid] \in Nat /\ sessions'[c.sid] = sessions[c.sid] + 1
        /\ \A x \in DOMAIN sessions : x # c.sid => sessions'[x] = sessions[x]
    BY <1>0, <1>6 DEF Newest
  <2>2. answer # None => answer.sid = c.sid /\ answer.n = sessions[c.sid] + 1
    BY <1>6
  <2>3. NobodyAhead'
    <3>1. \A x \in Token : Holds(x) => x.sid \in issued' \cup {"none"}
                                        /\ (x.sid \in DOMAIN sessions' => x.n <= sessions'[x.sid])
      BY <1>0, <1>1, <2>1 DEF Holds, Live, Token
    <3>2. Holds(cookie) /\ \A t \in Tabs, i \in Slots : Holds(restores[t][i].cookie)
      BY DEF Cookies, NobodyAhead
    <3>3. Holds(cookie)'
      BY <1>0, <1>1, <3>1, <3>2 DEF Holds, Live
    <3>4. ASSUME NEW t \in Tabs, NEW i \in Slots, t # t0 \/ i # i0
          PROVE  Holds(restores[t][i].cookie)'
      BY <1>0, <1>2, <3>1, <3>2, <3>4 DEF Holds, Live
    <3>5. Holds(restores[t0][i0].cookie)'
      <4>1. answer.sid \in issued' \cup {"none"}
        BY <1>1, <1>4, <2>1, <2>2 DEF Cookies, SessionTypes
      <4>2. answer.sid \in DOMAIN sessions' => answer.n <= sessions'[answer.sid]
        BY <1>4, <2>1, <2>2
      <4>. QED  BY <1>3, <4>1, <4>2 DEF Holds, Live
    <3>. QED  BY <3>3, <3>4, <3>5 DEF NobodyAhead
  <2>4. AnswersAhead'
    <3>1. ASSUME NEW t \in Tabs, NEW i \in Slots, t # t0 \/ i # i0,
                 Answered(t, i), Live(restores[t][i].cookie)
          PROVE  restores[t][i].cookie.sid # c.sid
      <4>1. Newest(restores[t][i].cookie) /\ c # restores[t][i].cookie
        BY <1>0, <3>1 DEF Cookies, AnswersAhead, AnswerAhead
      <4>. QED  BY <1>0, <1>6, <4>1 DEF Newest, Token
    <3>2. ASSUME NEW t \in Tabs, NEW i \in Slots, t # t0 \/ i # i0
          PROVE  AnswerAhead(t, i)'
      <4>1. SUFFICES ASSUME Answered(t, i)', Live(restores[t][i].cookie)' PROVE AnswerAhead(t, i)'
        BY DEF AnswerAhead
      <4>2. Answered(t, i) /\ Live(restores[t][i].cookie) /\ restores'[t][i] = restores[t][i]
        BY <1>2, <1>3, <2>1, <3>2, <4>1 DEF Live
      <4>3. restores[t][i].cookie.sid # c.sid
        BY <3>1, <3>2, <4>2
      <4>4. Newest(restores[t][i].cookie)' /\ cookie' # restores[t][i].cookie
        BY <1>1, <2>1, <4>2, <4>3, SMTT(20) DEF Cookies, AnswersAhead, AnswerAhead, Newest
      <4>5. ASSUME NEW u \in Tabs, NEW j \in Slots, u # t \/ j # i, Waits(u, j)'
            PROVE  restores'[u][j].cookie # restores[t][i].cookie
        <5>1. CASE u = t0 /\ j = i0
          BY <1>3, <1>4, <2>2, <4>2, <4>3, <5>1 DEF Live
        <5>2. CASE u # t0 \/ j # i0
          <6>1. Waits(u, j) /\ restores'[u][j] = restores[u][j]
            BY <1>2, <1>3, <4>5, <5>2
          <6>. QED  BY <4>2, <4>5, <6>1 DEF Cookies, AnswersAhead, AnswerAhead
        <5>. QED  BY <5>1, <5>2
      <4>. QED  BY <4>2, <4>4, <4>5 DEF AnswerAhead
    <3>3. AnswerAhead(t0, i0)'
      <4>1. SUFFICES ASSUME Live(restores[t0][i0].cookie)' PROVE AnswerAhead(t0, i0)'
        BY DEF AnswerAhead
      <4>2. answer.sid = c.sid /\ answer.n = sessions[c.sid] + 1
        BY <1>3, <1>4, <2>2, <4>1 DEF Live
      <4>3. \A x \in Token : Holds(x) => x # answer
        BY <2>1, <4>2 DEF Holds, Live, Token
      <4>4. cookie' # answer /\ \A u \in Tabs, j \in Slots : restores[u][j].cookie # answer
        BY <1>0, <1>1, <4>3 DEF Cookies, NobodyAhead
      <4>5. Newest(restores[t0][i0].cookie)'
        BY <1>3, <2>1, <4>2 DEF Newest
      <4>. QED  BY <1>2, <1>3, <4>4, <4>5 DEF AnswerAhead
    <3>. QED  BY <3>2, <3>3 DEF AnswersAhead
  <2>5. CookieKept'
    <3>1. CASE cookie.sid = c.sid
      <4>1. CASE answer = None
        BY <1>1, <1>6, <2>2, <3>1, <4>1, <1>4, <2>1, SMTT(20) DEF CookieKept
      <4>2. CASE answer # None
        <5>1. Newest(restores[t0][i0].cookie)' /\ restores'[t0][i0].cookie.sid = cookie'.sid
          BY <1>1, <1>3, <2>1, <2>2, <3>1, <4>2 DEF Newest
        <5>2. OnItsWay'
          BY <1>3, <5>1 DEF OnItsWay
        <5>. QED  BY <5>2 DEF CookieKept
      <4>. QED  BY <4>1, <4>2
    <3>2. CASE cookie.sid # c.sid
      <4>1. CASE ~Live(cookie) \/ cookie.sid \in lost \/ Newest(cookie)
        BY <1>1, <1>6, <2>1, <3>2, <4>1 DEF CookieKept, Live, Newest
      <4>2. CASE OnItsWay
        <5>1. PICK t \in Tabs, i \in Slots :
                /\ Answered(t, i) /\ restores[t][i].cookie.sid = cookie.sid
                /\ Newest(restores[t][i].cookie)
          BY <4>2 DEF OnItsWay
        <5>2. restores'[t][i] = restores[t][i] /\ Answered(t, i)'
          BY <1>0, <1>2, <1>3, <5>1
        <5>3. Newest(restores[t][i].cookie)'
          BY <2>1, <3>2, <5>1, <5>2 DEF Newest
        <5>4. OnItsWay'
          BY <1>1, <5>1, <5>2, <5>3 DEF OnItsWay
        <5>. QED  BY <5>4 DEF CookieKept
      <4>. QED  BY <4>1, <4>2 DEF Cookies, CookieKept
    <3>. QED  BY <3>1, <3>2
  <2>. QED  BY <2>3, <2>4, <2>5
<1>. QED  BY <1>1, <1>5, <1>6

LEMMA CookiesInductive == Cookies /\ [SessionNext]_sessionVars => Cookies'
<1>. SUFFICES ASSUME Cookies, [SessionNext]_sessionVars PROVE Cookies'
  OBVIOUS
<1>1. SessionTypes' /\ SessionStep
  BY NextSessionTypes, NextStep DEF Cookies
<1>2. CASE Quiet
  BY <1>1, <1>2, SMTT(20) DEF Quiet, Cookies, NobodyAhead, Holds, AnswersAhead, AnswerAhead, Answered, Waits,
        CookieKept, OnItsWay, Live, Newest
<1>3. CASE Loss
  BY <1>1, <1>3, SMTT(20) DEF Loss, Cookies, NobodyAhead, Holds, AnswersAhead, AnswerAhead, Answered, Waits,
        CookieKept, OnItsWay, Live, Newest
<1>. QED
  BY <1>1, <1>2, <1>3, RevokesKeeps, OpensKeeps, RenewalKeeps, ServeKeeps DEF SessionStep, Cookies

LEMMA CookiesInit == SessionInit => Cookies
<1>. SUFFICES ASSUME SessionInit PROVE Cookies
  OBVIOUS
<1>1. NewTab \in Tab
  BY NoneIsToken DEF NewTab, Tab
<1>2. DOMAIN sessions = {} /\ issued = {} /\ cookie = None
  BY DEF SessionInit
<1>3. /\ tab \in [Tabs -> Tab] /\ restores \in [Tabs -> [Slots -> Renewing]]
      /\ \A t \in Tabs, i \in Slots : restores[t][i] = Unused
  BY <1>1, NoneIsToken DEF SessionInit
<1>4. SessionTypes
  BY <1>2, <1>3, NoneIsToken DEF SessionTypes
<1>. QED
  BY <1>2, <1>3, <1>4 DEF Cookies, NobodyAhead, Holds, AnswersAhead, AnswerAhead, Answered, Live,
        CookieKept, Unused, None

\* The browser never keeps a refresh token that its session has replaced, except while the
\* newer one is on its way to it or was lost with an answer.
THEOREM CookieHolds == SessionSpec => []CookieIsCurrent
<1>1. Cookies => CookieIsCurrent
  BY DEF Cookies, CookieKept, OnItsWay, Answered, CookieIsCurrent
<1>. QED  BY <1>1, CookiesInit, CookiesInductive, PTL DEF SessionSpec

-----------------------------------------------------------------------------
(* A refused socket.  What a tab shares, and what its socket waits for, is a   *)
(* renewal that is under way; and only a socket that was refused waits.        *)

SharesAt(t) ==
    /\ tab[t].promise # 0 => restores[t][tab[t].promise] # Unused
    /\ tab[t].recovering # 0 => restores[t][tab[t].recovering] # Unused /\ tab[t].socket = "refused"

Shares == SessionTypes /\ \A t \in Tabs : SharesAt(t)

\* When the wait of a tab ends, its socket connects, was closed, or the session is over.
Decided(t) ==
    tab[t].recovering # 0 /\ tab'[t].recovering = 0 =>
        tab'[t].socket \in {"connecting", "off"} \/ tab'[t].token = None

\* A step of one tab is no other's.
LEMMA OneTab ==
    ASSUME Shares, NEW t \in Tabs, \A u \in Tabs \ {t} : tab'[u] = tab[u] /\ restores'[u] = restores[u],
           SharesAt(t)', Decided(t)
    PROVE  \A u \in Tabs : SharesAt(u)' /\ Decided(u)
BY DEF Shares, SharesAt, Decided

\* A renewal that is shared is under way, and none ends because another begins.
LEMMA RenewsShares ==
    ASSUME Shares, NEW t \in Tabs, CanRenew(t), Renews(t)
    PROVE  /\ Renewal(t) \in Slots /\ Renewal(t) # 0 /\ restores'[t][Renewal(t)] # Unused
           /\ \A u \in Tabs \ {t} : restores'[u] = restores[u]
           /\ \A i \in Slots : restores[t][i] # Unused => restores'[t][i] # Unused
<1>1. restores \in [Tabs -> [Slots -> Renewing]]
  BY DEF Shares, SessionTypes
<1>2. [stage |-> "refresh", cookie |-> cookie] # Unused
  BY DEF Unused
<1>3. Renewal(t) \in Slots /\ Renewal(t) # 0
  BY RenewsStep, SessionsAssumption DEF Shares
<1>4. CASE restores' = restores /\ Renewal(t) = tab[t].promise /\ tab[t].promise # 0
  BY <1>3, <1>4 DEF Shares, SharesAt
<1>5. CASE restores' = [restores EXCEPT ![t][Renewal(t)] = [stage |-> "refresh", cookie |-> cookie]]
  BY <1>1, <1>2, <1>3, <1>5
<1>. QED  BY <1>4, <1>5, RenewsStep DEF Shares

\* The end of a renewal decides about the socket that waits for it.
LEMMA RestoredShares ==
    ASSUME Shares, NEW t \in Tabs, NEW i \in Slots, NEW ok \in BOOLEAN, Restored(t, i, ok)
    PROVE  \A u \in Tabs : SharesAt(u)' /\ Decided(u)
<1>. DEFINE v == Ended(tab[t], ok)
            back   == ok /\ v.token # None
            socket == [v EXCEPT !.recovering = 0,
                            !.socket    = IF back /\ v.socket = "refused" THEN "connecting" ELSE v.socket,
                            !.handshake = IF back /\ v.socket = "refused" THEN v.token ELSE v.handshake]
            first  == IF v.recovering = i THEN socket ELSE v
            w      == Resumed(v, i, ok)
<1>1. /\ restores \in [Tabs -> [Slots -> Renewing]] /\ tab \in [Tabs -> Tab] /\ tab[t] \in Tab
      /\ i # 0 /\ tab[t].recovering \in Slots \cup {0}
  BY SessionsAssumption DEF Shares, SessionTypes, Tab
<1>2. v \in Tab /\ v.promise = 0 /\ v.recovering = tab[t].recovering /\ v.socket = tab[t].socket
      /\ (~ok => v.token = None)
  BY <1>1, EndedType DEF Ended, Tab
<1>. HIDE DEF v
<1>3. /\ first \in Tab /\ first.promise = 0 /\ first.token = v.token
      /\ v.recovering # i => first.recovering = v.recovering /\ first.socket = v.socket
      /\ v.recovering = i => /\ first.recovering = 0
                             /\ back /\ v.socket = "refused" => first.socket = "connecting"
  BY <1>2 DEF Tab
<1>4. w = IF v.waits # i THEN first
          ELSE [first EXCEPT !.waits = 0, !.api  = IF back THEN "again" ELSE "idle",
                                          !.sent = IF back THEN v.token ELSE None]
  BY DEF Resumed
<1>. HIDE DEF first
<1>5. w.promise = 0 /\ w.token = v.token /\ w.recovering = first.recovering /\ w.socket = first.socket
  BY <1>3, <1>4 DEF Tab
<1>. HIDE DEF w
<1>6. tab' = [tab EXCEPT ![t] = w] /\ restores' = [restores EXCEPT ![t][i] = Unused]
  BY DEF Restored, v, w
<1>7. /\ tab'[t] = w /\ \A u \in Tabs \ {t} : tab'[u] = tab[u] /\ restores'[u] = restores[u]
      /\ \A j \in Slots \ {i} : restores'[t][j] = restores[t][j]
  BY <1>1, <1>6
<1>8. SharesAt(t)'
  BY <1>1, <1>2, <1>3, <1>5, <1>7 DEF Shares, SharesAt
<1>9. Decided(t)
  BY <1>1, <1>2, <1>3, <1>5, <1>7 DEF Shares, SharesAt, Decided
<1>. QED  BY <1>7, <1>8, <1>9, OneTab

LEMMA NextShares ==
    ASSUME Shares, [SessionNext]_sessionVars
    PROVE  \A t \in Tabs : SharesAt(t)' /\ Decided(t)
<1>. DEFINE Safe == \A t \in Tabs : SharesAt(t)' /\ Decided(t)
<1>0. /\ restores \in [Tabs -> [Slots -> Renewing]] /\ tab \in [Tabs -> Tab] /\ SessionTypes
      /\ \A t \in Tabs : SharesAt(t) /\ tab[t] \in Tab
  BY DEF Shares, SessionTypes
<1>1. ASSUME UNCHANGED <<tab, restores>> PROVE Safe
  BY <1>0, <1>1 DEF SharesAt, Decided
<1>2. ASSUME NEW t \in Tabs, EnterRoute(t) PROVE Safe
  <2>1. CanRenew(t) /\ Renews(t) /\ tab' = [tab EXCEPT ![t] = [tab[t] EXCEPT !.promise = Renewal(t)]]
    BY <1>2 DEF EnterRoute
  <2>2. /\ tab'[t].promise = Renewal(t) /\ tab'[t].recovering = tab[t].recovering
        /\ tab'[t].socket = tab[t].socket /\ \A u \in Tabs \ {t} : tab'[u] = tab[u]
        /\ tab[t].recovering \in Slots \cup {0}
    BY <1>0, <2>1 DEF Tab
  <2>3. SharesAt(t)' /\ Decided(t)
    BY <1>0, <2>1, <2>2, RenewsShares DEF SharesAt, Decided
  <2>. QED  BY <2>1, <2>2, <2>3, OneTab, RenewsShares
<1>3. ASSUME NEW t \in Tabs, Logout(t) PROVE Safe
  <2>1. /\ Forgets(Closed(tab[t])).promise = 0 /\ Forgets(Closed(tab[t])).recovering = 0
        /\ Forgets(Closed(tab[t])).socket = "off"
    BY <1>0 DEF Forgets, Closed, Tab
  <2>2. tab'[t] = Forgets(Closed(tab[t])) /\ restores' = restores /\ \A u \in Tabs \ {t} : tab'[u] = tab[u]
    BY <1>0, <1>3 DEF Logout
  <2>3. SharesAt(t)' /\ Decided(t)
    BY <2>1, <2>2 DEF SharesAt, Decided
  <2>. QED  BY <2>2, <2>3, OneTab
<1>4. ASSUME NEW t \in Tabs, NEW v \in Tab, tab' = [tab EXCEPT ![t] = v],
             \A j \in Slots : restores[t][j] # Unused => restores'[t][j] # Unused,
             \A u \in Tabs \ {t} : restores'[u] = restores[u],
             v.promise = tab[t].promise,
             \/ v.recovering = tab[t].recovering /\ v.socket = tab[t].socket
             \/ tab[t].recovering = 0 /\ v.recovering = 0
      PROVE  Safe
  <2>1. tab'[t] = v /\ \A u \in Tabs \ {t} : tab'[u] = tab[u]
    BY <1>0, <1>4
  <2>2. tab[t].recovering \in Slots \cup {0} /\ tab[t].promise \in Slots \cup {0}
    BY <1>0 DEF Tab
  <2>3. SharesAt(t)' /\ Decided(t)
    BY <1>0, <1>4, <2>1, <2>2 DEF SharesAt, Decided
  <2>. QED  BY <1>4, <2>1, <2>3, OneTab
<1>5. ASSUME NEW t \in Tabs, Request(t) PROVE Safe
  <2>. DEFINE v == [tab[t] EXCEPT !.api = "first", !.sent = tab[t].token]
  <2>1. /\ v \in Tab /\ v.promise = tab[t].promise /\ v.recovering = tab[t].recovering
        /\ v.socket = tab[t].socket
    BY <1>0 DEF Tab
  <2>2. tab' = [tab EXCEPT ![t] = v] /\ restores' = restores
    BY <1>5 DEF Request
  <2>. HIDE DEF v
  <2>. QED  BY <1>4, <2>1, <2>2
<1>6. ASSUME NEW t \in Tabs, Connect(t) \/ Drop(t) PROVE Safe
  <2>. DEFINE v == [tab[t] EXCEPT !.socket = "connecting", !.handshake = tab[t].token]
  <2>1. tab[t].recovering = 0
    BY <1>0, <1>6 DEF Connect, Drop, SharesAt
  <2>2. v \in Tab /\ v.promise = tab[t].promise /\ v.recovering = tab[t].recovering
    BY <1>0 DEF Tab
  <2>3. tab' = [tab EXCEPT ![t] = v] /\ restores' = restores
    BY <1>6 DEF Connect, Drop
  <2>. HIDE DEF v
  <2>. QED  BY <1>4, <2>1, <2>2, <2>3
<1>7. ASSUME NEW t \in Tabs, RequestServed(t) PROVE Safe
  <2>. DEFINE v == [tab[t] EXCEPT !.api = "idle", !.sent = None]
              w == [tab[t] EXCEPT !.api = "again", !.sent = tab[t].token]
              x == [tab[t] EXCEPT !.api = "waiting", !.sent = None,
                                  !.waits = Renewal(t), !.promise = Renewal(t)]
  <2>1. /\ v \in Tab /\ v.promise = tab[t].promise /\ v.recovering = tab[t].recovering
        /\ v.socket = tab[t].socket
        /\ w \in Tab /\ w.promise = tab[t].promise /\ w.recovering = tab[t].recovering
        /\ w.socket = tab[t].socket
        /\ x.promise = Renewal(t) /\ x.recovering = tab[t].recovering /\ x.socket = tab[t].socket
    BY <1>0, NoneIsToken DEF Tab
  <2>2. \/ restores' = restores /\ (tab' = [tab EXCEPT ![t] = v] \/ tab' = [tab EXCEPT ![t] = w])
        \/ CanRenew(t) /\ Renews(t) /\ tab' = [tab EXCEPT ![t] = x]
    BY <1>7 DEF RequestServed
  <2>. HIDE DEF v, w, x
  <2>3. CASE restores' = restores
             /\ (tab' = [tab EXCEPT ![t] = v] \/ tab' = [tab EXCEPT ![t] = w])
    BY <1>4, <2>1, <2>3
  <2>4. CASE CanRenew(t) /\ Renews(t) /\ tab' = [tab EXCEPT ![t] = x]
    <3>1. tab'[t] = x /\ \A u \in Tabs \ {t} : tab'[u] = tab[u]
      BY <1>0, <2>4
    <3>2. tab[t].recovering \in Slots \cup {0}
      BY <1>0 DEF Tab
    <3>3. SharesAt(t)' /\ Decided(t)
      BY <1>0, <2>1, <2>4, <3>1, <3>2, RenewsShares DEF SharesAt, Decided
    <3>. QED  BY <2>4, <3>1, <3>3, OneTab, RenewsShares
  <2>. QED  BY <2>2, <2>3, <2>4
<1>8. ASSUME NEW t \in Tabs, Handshake(t) PROVE Safe
  <2>. DEFINE v == [tab[t] EXCEPT !.socket = "on", !.handshake = None]
              w == [tab[t] EXCEPT !.socket = "refused", !.handshake = None,
                                  !.recovering = Renewal(t), !.promise = Renewal(t)]
  <2>1. tab[t].recovering = 0
    BY <1>0, <1>8 DEF Handshake, SharesAt
  <2>2. /\ v \in Tab /\ v.promise = tab[t].promise /\ v.recovering = tab[t].recovering
        /\ w.promise = Renewal(t) /\ w.recovering = Renewal(t) /\ w.socket = "refused"
    BY <1>0, NoneIsToken DEF Tab
  <2>3. \/ restores' = restores /\ tab' = [tab EXCEPT ![t] = v]
        \/ CanRenew(t) /\ Renews(t) /\ tab' = [tab EXCEPT ![t] = w]
    BY <1>8 DEF Handshake, Recovers
  <2>. HIDE DEF v, w
  <2>4. CASE restores' = restores /\ tab' = [tab EXCEPT ![t] = v]
    BY <1>4, <2>1, <2>2, <2>4
  <2>5. CASE CanRenew(t) /\ Renews(t) /\ tab' = [tab EXCEPT ![t] = w]
    <3>1. tab'[t] = w /\ \A u \in Tabs \ {t} : tab'[u] = tab[u]
      BY <1>0, <2>5
    <3>2. SharesAt(t)' /\ Decided(t)
      BY <2>1, <2>2, <2>5, <3>1, RenewsShares DEF SharesAt, Decided
    <3>. QED  BY <2>5, <3>1, <3>2, OneTab, RenewsShares
  <2>. QED  BY <2>3, <2>4, <2>5
<1>9. ASSUME NEW t \in Tabs, NEW i \in Slots, ServeRefresh(t, i) PROVE Safe
  <2>1. PICK r : restores' = [restores EXCEPT ![t][i] = r] /\ r.stage = "answered" /\ tab' = tab
    BY <1>9, ZenonT(40) DEF ServeRefresh
  <2>2. r # Unused
    BY <2>1 DEF Unused
  <2>3. tab' = [tab EXCEPT ![t] = tab[t]]
    BY <1>0, <2>1
  <2>4. /\ \A j \in Slots : restores[t][j] # Unused => restores'[t][j] # Unused
        /\ \A u \in Tabs \ {t} : restores'[u] = restores[u]
    BY <1>0, <2>1, <2>2
  <2>. QED  BY <1>0, <1>4, <2>3, <2>4
<1>10. ASSUME NEW t \in Tabs, NEW token \in Token, Keeps(t, token),
              \A j \in Slots : restores[t][j] # Unused => restores'[t][j] # Unused,
              \A u \in Tabs \ {t} : restores'[u] = restores[u]
       PROVE  Safe
  <2>. DEFINE v == [tab[t] EXCEPT !.token = token]
  <2>1. /\ v \in Tab /\ v.promise = tab[t].promise /\ v.recovering = tab[t].recovering
        /\ v.socket = tab[t].socket
    BY <1>0 DEF Tab
  <2>2. tab' = [tab EXCEPT ![t] = v]
    BY <1>10 DEF Keeps
  <2>. HIDE DEF v
  <2>. QED  BY <1>4, <1>10, <2>1, <2>2
<1>11. ASSUME NEW t \in Tabs, NEW i \in Slots, RefreshAnswered(t, i) PROVE Safe
  <2>1. CASE restores[t][i].cookie = None
    BY <1>11, <2>1, RestoredShares DEF RefreshAnswered
  <2>2. CASE restores[t][i].cookie # None
    <3>1. /\ restores[t][i].cookie \in Token /\ Keeps(t, restores[t][i].cookie)
          /\ restores' = [restores EXCEPT ![t][i] = [restores[t][i] EXCEPT !.stage = "me"]]
      BY <1>0, <1>11, <2>2 DEF RefreshAnswered, Renewing
    <3>2. [restores[t][i] EXCEPT !.stage = "me"].stage = "me"
      BY <1>0 DEF Renewing
    <3>3. [restores[t][i] EXCEPT !.stage = "me"] # Unused
      BY <3>2 DEF Unused
    <3>4. /\ \A j \in Slots : restores[t][j] # Unused => restores'[t][j] # Unused
          /\ \A u \in Tabs \ {t} : restores'[u] = restores[u]
      BY <1>0, <3>1, <3>3
    <3>. QED  BY <1>10, <3>1, <3>4
  <2>. QED  BY <2>1, <2>2
<1>12. ASSUME NEW t \in Tabs, NEW i \in Slots, MeAnswered(t, i) PROVE Safe
  <2>1. Accepted(restores[t][i].cookie) \in BOOLEAN
    BY DEF Accepted, Live
  <2>. QED  BY <1>12, <2>1, RestoredShares DEF MeAnswered
<1>13. ASSUME NEW t \in Tabs, NEW s \in Sids, Login(t, s) PROVE Safe
  <2>1. Keeps(t, [sid |-> s, n |-> 1]) /\ [sid |-> s, n |-> 1] \in Token /\ restores' = restores
    BY <1>13 DEF Login, Token
  <2>. QED  BY <1>10, <2>1
<1>14. ASSUME UNCHANGED sessionVars PROVE Safe
  BY <1>1, <1>14 DEF sessionVars
<1>15. ASSUME TokenExpires \/ SessionExpires PROVE Safe
  BY <1>1, <1>15 DEF TokenExpires, SessionExpires, Expires
<1>. HIDE DEF Safe
<1>16. Safe
  BY <1>2, <1>3, <1>5, <1>6, <1>7, <1>8, <1>9, <1>11, <1>12, <1>13, <1>14, <1>15
     DEF SessionNext, Answers
<1>. QED  BY <1>16 DEF Safe

\* A socket that was refused has a renewal under way, and when that ends it connects
\* again, unless it was closed or the session of the tab is over.
THEOREM SocketsRecover == SessionSpec => SocketRecovers
<1>. DEFINE Recover == \A t \in Tabs : tab[t].recovering # 0 =>
            /\ restores[t][tab[t].recovering] # Unused
            /\ tab'[t].recovering = 0 =>
                   tab'[t].socket \in {"connecting", "off"} \/ tab'[t].token = None
<1>1. SessionInit => Shares
  <2>1. SessionInit => SessionTypes
    BY CookiesInit DEF Cookies
  <2>. QED  BY <2>1 DEF SessionInit, NewTab, Shares, SharesAt
<1>2. Shares /\ [SessionNext]_sessionVars => Shares'
  <2>. SUFFICES ASSUME Shares, [SessionNext]_sessionVars PROVE Shares'
    OBVIOUS
  <2>. QED  BY NextShares, NextSessionTypes DEF Shares
<1>3. Shares /\ [SessionNext]_sessionVars => [Recover]_sessionVars
  <2>. SUFFICES ASSUME Shares, [SessionNext]_sessionVars PROVE Recover
    OBVIOUS
  <2>. QED  BY NextShares DEF Shares, SharesAt, Decided
<1>. HIDE DEF Recover
<1>4. SessionSpec => [][Recover]_sessionVars
  BY <1>1, <1>2, <1>3, PTL DEF SessionSpec
<1>. QED  BY <1>4 DEF SocketRecovers, Recover
=============================================================================
