------------------------------ MODULE Sessions ------------------------------
(***************************************************************************)
(* Sign-in sessions.  Redis keeps one refresh token for each session and   *)
(* replaces it at every use; one that was already used revokes the session *)
(* (tokens.service.ts).  The tabs of a browser share the cookie that holds *)
(* it, and each has its own access token, one shared request that renews   *)
(* it (auth.service.ts), HTTP requests that retry with the renewed token   *)
(* (auth.interceptor.ts) and a socket that comes back with it (socket.ts). *)
(*                                                                         *)
(* A token is a session and a number: 1 at the login, one more at every    *)
(* renewal.  Answers come in any order, and the network may lose some.     *)
(***************************************************************************)
EXTENDS Naturals, FiniteSets

CONSTANTS
    Tabs, Sids,
    WithSocket, WithRequest, \* the tabs that have a page with a socket, that send requests
    Slots,  \* renewals of one tab that may be under way at once, 1..n
    MaxExpired, MaxLost \* bounds

ASSUME SessionsAssumption == "none" \notin Sids /\ Slots \subseteq Nat \ {0}

VARIABLES
    sessions, \* Redis: the current refresh token of each session
    issued,   \* sessions ever opened
    stale,    \* access tokens, and sessions (n = 0), that have expired
    lost,     \* sessions of which a request or an answer was lost
    cookie,   \* tank_refresh
    tab,      \* accessToken, sessionRestorePromise, the socket, one request
    restores  \* restoreSession under way

sessionVars == <<sessions, issued, stale, lost, cookie, tab, restores>>

None == [sid |-> "none", n |-> 0]
Unused == [stage |-> "idle", cookie |-> None]
NewTab == [token |-> None, promise |-> 0,
           socket |-> "off", handshake |-> None, recovering |-> 0,
           api |-> "idle", sent |-> None, waits |-> 0]

SessionInit ==
    /\ sessions = << >> /\ issued = {} /\ stale = {} /\ lost = {} /\ cookie = None
    /\ tab = [t \in Tabs |-> NewTab]
    /\ restores = [t \in Tabs |-> [i \in Slots |-> Unused]]

-----------------------------------------------------------------------------
(* The server. *)

Without(s) == [x \in DOMAIN sessions \ {s} |-> sessions[x]]
Live(c)    == c.sid \in DOMAIN sessions

\* Mutant: the script does not compare what it replaces.
CurrentMutant(c) == c.sid \in DOMAIN sessions
Current(c) == c.sid \in DOMAIN sessions /\ sessions[c.sid] = c.n

\* rotate: what Redis holds afterwards and the cookie of the answer.
Rotate(c) ==
    CASE Current(c) -> [sessions |-> [sessions EXCEPT ![c.sid] = @ + 1],
                        cookie   |-> [sid |-> c.sid, n |-> sessions[c.sid] + 1]]
      [] Live(c) /\ ~Current(c) -> [sessions |-> Without(c.sid), cookie |-> None]
      [] OTHER -> [sessions |-> sessions, cookie |-> None]

\* authenticateAccess: the token has not expired and its session exists.
Accepted(token) == Live(token) /\ token \notin stale

\* External: the lifetime of an access token, and of a session in Redis.
Expires(what) ==
    /\ Cardinality(stale) < MaxExpired /\ stale' = stale \cup {what}
    /\ sessions' = IF what.n = 0 THEN Without(what.sid) ELSE sessions
    /\ UNCHANGED <<issued, lost, cookie, tab, restores>>

TokenExpires   == \E t \in Tabs : Accepted(tab[t].token) /\ Expires(tab[t].token)
SessionExpires == \E s \in DOMAIN sessions : Expires([sid |-> s, n |-> 0])

\* External: the network loses the request or the answer of a session.
Loses(c) == c # None /\ Cardinality(lost) < MaxLost /\ lost' = lost \cup {c.sid}

-----------------------------------------------------------------------------
(* A tab: ensureSession and restoreSession. *)

Usable(t) == tab[t].token # None /\ tab[t].token \notin stale

Free(t)     == {i \in Slots : restores[t][i] = Unused}
CanRenew(t) == tab[t].promise # 0 \/ Free(t) # {}

\* The renewal that ensureSession shares: the one under way, or a new one.
Renewal(t) ==
    IF tab[t].promise # 0 THEN tab[t].promise
    ELSE CHOOSE i \in Free(t) : \A j \in Free(t) : i <= j

Renews(t) ==
    restores' = IF tab[t].promise # 0 THEN restores
                ELSE [restores EXCEPT ![t][Renewal(t)] = [stage |-> "refresh", cookie |-> cookie]]

\* Mutant: only a request goes on.
ResumedMutant(v, i, ok) ==
    LET back  == ok /\ v.token # None
        first == IF v.recovering = i THEN [v EXCEPT !.recovering = 0] ELSE v
    IN  IF v.waits # i THEN first
        ELSE [first EXCEPT !.waits = 0, !.api  = IF back THEN "again" ELSE "idle",
                                        !.sent = IF back THEN v.token ELSE None]

\* What waits for a renewal goes on when it ends: the socket connects unless it does
\* so already, a refused request is sent again.
Resumed(v, i, ok) ==
    LET back   == ok /\ v.token # None
        socket == [v EXCEPT !.recovering = 0,
                            !.socket    = IF back /\ @ = "refused" THEN "connecting" ELSE @,
                            !.handshake = IF back /\ v.socket = "refused" THEN v.token ELSE @]
        first  == IF v.recovering = i THEN socket ELSE v
    IN  IF v.waits # i THEN first
        ELSE [first EXCEPT !.waits = 0, !.api  = IF back THEN "again" ELSE "idle",
                                        !.sent = IF back THEN v.token ELSE None]

\* The end of a renewal; whichever the tab shares by then is forgotten.
Ended(v, ok) == [v EXCEPT !.promise = 0, !.token = IF ok THEN @ ELSE None]

Restored(t, i, ok) ==
    /\ restores' = [restores EXCEPT ![t][i] = Unused]
    /\ tab' = [tab EXCEPT ![t] = Resumed(Ended(@, ok), i, ok)]

\* The guards of the routes.
EnterRoute(t) ==
    /\ ~Usable(t) /\ tab[t].promise = 0 /\ CanRenew(t) /\ Renews(t)
    /\ tab' = [tab EXCEPT ![t].promise = Renewal(t)]
    /\ UNCHANGED <<sessions, issued, stale, lost, cookie>>

\* acceptLogin: the access token of an answer.
Keeps(t, token) == tab' = [tab EXCEPT ![t].token = token]

\* /auth/refresh at the server.
ServeRefresh(t, i) ==
    LET call    == restores[t][i]
        rotated == Rotate(call.cookie)
        answered(c) == restores' = [restores EXCEPT ![t][i] = [stage |-> "answered", cookie |-> c]]
    IN  /\ call.stage = "refresh"
        /\ \/ sessions' = rotated.sessions /\ answered(rotated.cookie) /\ UNCHANGED lost
           \/ sessions' \in {sessions, rotated.sessions} /\ answered(None) /\ Loses(call.cookie)
        /\ UNCHANGED <<issued, stale, cookie, tab>>

\* Its answer: the cookie and the access token are kept, then /auth/me is asked.
RefreshAnswered(t, i) ==
    LET answer == restores[t][i].cookie
    IN  /\ restores[t][i].stage = "answered"
        /\ IF answer = None THEN Restored(t, i, FALSE) /\ UNCHANGED cookie
           ELSE /\ cookie' = answer /\ Keeps(t, answer)
                /\ restores' = [restores EXCEPT ![t][i].stage = "me"]
        /\ UNCHANGED <<sessions, issued, stale, lost>>

\* /auth/me: the session may be gone by then.
MeAnswered(t, i) ==
    /\ restores[t][i].stage = "me"
    /\ Restored(t, i, Accepted(restores[t][i].cookie))
    /\ UNCHANGED <<sessions, issued, stale, lost, cookie>>

-----------------------------------------------------------------------------
(* Login and logout. *)

\* issueSession, and acceptLogin with its answer.
Login(t, s) ==
    /\ s \notin issued /\ tab[t].token = None
    /\ issued' = issued \cup {s}
    /\ sessions' = [x \in DOMAIN sessions \cup {s} |-> IF x = s THEN 1 ELSE sessions[x]]
    /\ cookie' = [sid |-> s, n |-> 1] /\ Keeps(t, cookie')
    /\ UNCHANGED <<stale, lost, restores>>

\* SocketManager.disconnect.
Closed(v) == [v EXCEPT !.socket = "off", !.recovering = 0, !.handshake = None]

\* /auth/logout: the session of the cookie is revoked and the cookie cleared.
LogoutServed == sessions' = Without(cookie.sid) /\ cookie' = None /\ UNCHANGED lost

\* logout: the tab forgets its token and its renewal, whether the server answers or not.
Forgets(v) == [v EXCEPT !.token = None, !.promise = 0]

\* signOut.
Logout(t) ==
    /\ tab[t].token # None
    /\ LogoutServed \/ (Loses(cookie) /\ UNCHANGED <<sessions, cookie>>)
    /\ tab' = [tab EXCEPT ![t] = Forgets(Closed(@))]
    /\ UNCHANGED <<issued, stale, restores>>

-----------------------------------------------------------------------------
(* authInterceptor: a request that is refused once is sent again with the token *)
(* the tab has by then, or with a renewed one.                                  *)

Request(t) ==
    /\ t \in WithRequest /\ tab[t].api = "idle" /\ tab[t].token # None
    /\ tab' = [tab EXCEPT ![t].api = "first", ![t].sent = tab[t].token]
    /\ UNCHANGED <<sessions, issued, stale, lost, cookie, restores>>

RequestServed(t) ==
    LET v == tab[t]
    IN  /\ v.api \in {"first", "again"}
        /\ IF v.api = "again" \/ Accepted(v.sent)
           THEN tab' = [tab EXCEPT ![t].api = "idle", ![t].sent = None] /\ UNCHANGED restores
           ELSE IF v.token # None /\ v.token # v.sent
           THEN tab' = [tab EXCEPT ![t].api = "again", ![t].sent = v.token] /\ UNCHANGED restores
           ELSE /\ CanRenew(t) /\ Renews(t)
                /\ tab' = [tab EXCEPT ![t].api = "waiting", ![t].sent = None,
                                      ![t].waits = Renewal(t), ![t].promise = Renewal(t)]
        /\ UNCHANGED <<sessions, issued, stale, lost, cookie>>

-----------------------------------------------------------------------------
(* SocketManager, and the connection middleware of the gateway. *)

\* connect, by a page that needs a session.
Connect(t) ==
    /\ t \in WithSocket /\ tab[t].socket \in {"off", "refused"} /\ tab[t].recovering = 0
    /\ tab[t].token # None
    /\ tab' = [tab EXCEPT ![t].socket = "connecting", ![t].handshake = tab[t].token]
    /\ UNCHANGED <<sessions, issued, stale, lost, cookie, restores>>

\* External: the transport is lost and socket.io connects again.
Drop(t) ==
    /\ tab[t].socket = "on"
    /\ tab' = [tab EXCEPT ![t].socket = "connecting", ![t].handshake = tab[t].token]
    /\ UNCHANGED <<sessions, issued, stale, lost, cookie, restores>>

\* onConnectError and recoverAuthentication.
Recovers(t) ==
    /\ CanRenew(t) /\ Renews(t)
    /\ tab' = [tab EXCEPT ![t].socket = "refused", ![t].handshake = None,
                          ![t].recovering = Renewal(t), ![t].promise = Renewal(t)]

\* afterInit: the middleware admits the socket or refuses it.
Handshake(t) ==
    /\ tab[t].socket = "connecting"
    /\ IF Accepted(tab[t].handshake)
       THEN tab' = [tab EXCEPT ![t].socket = "on", ![t].handshake = None] /\ UNCHANGED restores
       ELSE Recovers(t)
    /\ UNCHANGED <<sessions, issued, stale, lost, cookie>>

Answers(t) ==
    \/ RequestServed(t) \/ Handshake(t)
    \/ \E i \in Slots : ServeRefresh(t, i) \/ RefreshAnswered(t, i) \/ MeAnswered(t, i)

SessionNext ==
    \/ TokenExpires \/ SessionExpires
    \/ \E t \in Tabs :
        \/ EnterRoute(t) \/ Logout(t) \/ Request(t) \/ Connect(t) \/ Drop(t) \/ Answers(t)
        \/ \E s \in Sids : Login(t, s)

SessionSpec == SessionInit /\ [][SessionNext]_sessionVars
-----------------------------------------------------------------------------
(* Properties. *)

\* The refresh token that Redis holds.
Newest(c) == c.sid \in DOMAIN sessions /\ sessions[c.sid] = c.n

\* Whatever the tabs do at once, the browser never keeps a refresh token that its
\* session has replaced: the next renewal would revoke the session.  An answer that
\* holds the newer token may be under way, and one that was lost excuses it.
CookieIsCurrent ==
    \/ ~Live(cookie) \/ cookie.sid \in lost \/ Newest(cookie)
    \/ \E t \in Tabs, i \in Slots :
        restores[t][i].stage = "answered" /\ Newest(restores[t][i].cookie)

\* A socket that was refused while its tab is signed in has a renewal under way, and
\* when that ends it connects again, or the tab learns that its session is over: no
\* login, logout or renewal in between leaves it refused (socket.ts:80-99).
SocketRecovers ==
    [][\A t \in Tabs : tab[t].recovering # 0 =>
            /\ restores[t][tab[t].recovering] # Unused
            /\ tab'[t].recovering = 0 =>
                   tab'[t].socket \in {"connecting", "off"} \/ tab'[t].token = None]_sessionVars
=============================================================================
