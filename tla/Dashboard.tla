----------------------------- MODULE Dashboard -----------------------------
(***************************************************************************)
(* The statistics an administrator watches: the page                       *)
(* (admin-stats.component.ts), its subscription at the gateway             *)
(* (game.gateway.ts), and the samples that are sent to it.                 *)
(*                                                                         *)
(* Samples are numbers, in the order of sampledAt.  The connection is one  *)
(* socket that is lost and connects again under another id; what is on its *)
(* way is lost with it, and the server may learn of it later.  The         *)
(* requests for the stored history are left out.                           *)
(***************************************************************************)
EXTENDS Naturals, Sequences, FiniteSets, Ordering

CONSTANTS
    SampleLimit,                   \* samples that are kept, by the server and by the page
    MaxSamples, MaxLinks, MaxOnWay \* bounds

ASSUME DashboardAssumption == SampleLimit \in Nat \ {0}

VARIABLES
    board,    \* AdminStatsComponent, and document.hidden
    wire,     \* the socket: whether it is connected, its id, and what it has buffered
    upward, downward, \* messages on their way
    watching, \* statsSubscriptions, by the id of a socket
    known,    \* ids of sockets the server takes to be connected
    taken,    \* samples that were taken
    told      \* history: samples that were sent since the last subscription

dashboardVars == <<board, wire, upward, downward, watching, known, taken, told>>

NewBoard(hidden) ==
    [open |-> TRUE, view |-> "realtime", hidden |-> hidden, samples |-> << >>]

DashboardInit ==
    /\ board = [NewBoard(FALSE) EXCEPT !.open = FALSE]
    /\ wire = [up |-> TRUE, id |-> 1, buffer |-> << >>] /\ known = {1}
    /\ upward = << >> /\ downward = << >> /\ watching = {} /\ taken = 0
    /\ told = {}

LastOf(s, n) == IF Len(s) > n THEN SubSeq(s, Len(s) - n + 1, Len(s)) ELSE s

-----------------------------------------------------------------------------
(* The page. *)

\* emit: a socket that is not connected keeps the message for later.
EmitsAll(ms) ==
    /\ Len(upward) + Len(wire.buffer) + Len(ms) <= MaxOnWay
    /\ IF wire.up THEN upward' = upward \o ms /\ wire' = wire
       ELSE upward' = upward /\ wire' = [wire EXCEPT !.buffer = @ \o ms]

\* Mutant: a page that is hidden subscribes when its connection comes back.
SubscribeOfMutant(b) == IF b.open /\ b.view = "realtime" THEN <<"subscribe">> ELSE << >>

\* subscribe, by the page b.
SubscribeOf(b) ==
    IF b.open /\ ~b.hidden /\ b.view = "realtime" THEN <<"subscribe">> ELSE << >>

\* ngOnInit: `connect` is listened to from now on.
OpenBoard ==
    /\ ~board.open /\ board' = NewBoard(board.hidden)
    /\ EmitsAll(IF wire.up THEN SubscribeOf(board') ELSE << >>)
    /\ UNCHANGED <<downward, watching, known, taken, told>>

\* ngOnDestroy.
CloseBoard ==
    /\ board.open /\ board' = [board EXCEPT !.open = FALSE] /\ EmitsAll(<<"unsubscribe">>)
    /\ UNCHANGED <<downward, watching, known, taken, told>>

\* selectView.
SelectView ==
    /\ board.open
    /\ IF board.view = "realtime"
       THEN board' = [board EXCEPT !.view = "history"] /\ EmitsAll(<<"unsubscribe">>)
       ELSE board' = [board EXCEPT !.view = "realtime"] /\ EmitsAll(SubscribeOf(board'))
    /\ UNCHANGED <<downward, watching, known, taken, told>>

\* onVisibilityChange.
ChangeVisibility ==
    /\ board' = [board EXCEPT !.hidden = ~@]
    /\ EmitsAll(IF ~board.open THEN << >>
                ELSE IF board'.hidden \/ board.view = "history" THEN <<"unsubscribe">>
                ELSE <<"subscribe">>)
    /\ UNCHANGED <<downward, watching, known, taken, told>>

\* onStatsUpdate.
Updated(samples, update) ==
    IF update.full THEN LastOf(update.recent, SampleLimit)
    ELSE LastOf(Append(Kept(samples, Nat \ {update.latest}), update.latest), SampleLimit)

UpdateComes ==
    /\ downward # << >>
    /\ downward' = Tail(downward)
    /\ board' = IF board.open THEN [board EXCEPT !.samples = Updated(@, Head(downward))]
                ELSE board
    /\ UNCHANGED <<wire, upward, watching, known, taken, told>>

-----------------------------------------------------------------------------
(* The server. *)

\* collectSample.
TakeSample ==
    /\ taken < MaxSamples /\ taken' = taken + 1
    /\ UNCHANGED <<board, wire, upward, downward, watching, known, told>>

\* recent, of the telemetry.
Ring == LastOf([i \in 1 .. taken |-> i], SampleLimit)

\* subscribeAdminStats and unsubscribeAdminStats.
ReceiveStats ==
    /\ upward # << >> /\ Len(downward) < MaxOnWay /\ upward' = Tail(upward)
    /\ IF Head(upward) = "subscribe"
       THEN /\ watching' = watching \cup {wire.id}
            /\ downward' = Append(downward, [full |-> TRUE, latest |-> taken, recent |-> Ring])
            /\ told' = {Ring[i] : i \in DOMAIN Ring}
       ELSE watching' = watching \ {wire.id} /\ UNCHANGED <<downward, told>>
    /\ UNCHANGED <<board, wire, known, taken>>

\* The interval of a subscription.
BroadcastStats ==
    /\ wire.up /\ wire.id \in watching /\ taken > 0 /\ Len(downward) < MaxOnWay
    /\ downward' = Append(downward, [full |-> FALSE, latest |-> taken, recent |-> << >>])
    /\ told' = told \cup {taken}
    /\ UNCHANGED <<board, wire, upward, watching, known, taken>>

-----------------------------------------------------------------------------
(* The connection. *)

LoseLink ==
    /\ wire.up /\ wire.id < MaxLinks /\ wire' = [wire EXCEPT !.up = FALSE]
    /\ upward' = << >> /\ downward' = << >>
    /\ UNCHANGED <<board, watching, known, taken, told>>

\* handleDisconnect: what was lost, noticed at once or after the socket has come back.
NoticeLoss ==
    /\ \E id \in known :
         /\ id = wire.id => ~wire.up
         /\ known' = known \ {id} /\ watching' = watching \ {id}
    /\ UNCHANGED <<board, wire, upward, downward, taken, told>>

\* The client sends what it has buffered, and then tells its listeners.
Reconnect ==
    /\ ~wire.up
    /\ wire' = [up |-> TRUE, id |-> wire.id + 1, buffer |-> << >>]
    /\ known' = known \cup {wire.id + 1}
    /\ upward' = wire.buffer \o SubscribeOf(board)
    /\ UNCHANGED <<board, downward, watching, taken, told>>

DashboardNext ==
    \/ OpenBoard \/ CloseBoard \/ SelectView \/ ChangeVisibility \/ UpdateComes
    \/ TakeSample \/ ReceiveStats \/ BroadcastStats \/ LoseLink \/ NoticeLoss \/ Reconnect

-----------------------------------------------------------------------------
\* Once every message has arrived, statistics are sent to the socket exactly while the
\* page shows them, nothing is sent to a socket that is gone, and the page shows the
\* newest samples it was sent, each once and in their order.  Views are changed, pages
\* are hidden, closed and opened, and connections lost, while messages are under way.
BoardIsServed ==
    LET wanted == board.open /\ board.view = "realtime" /\ ~board.hidden
        shown  == {board.samples[i] : i \in DOMAIN board.samples}
    IN /\ watching \subseteq known
       /\ wire.up /\ upward = << >> => (wire.id \in watching <=> wanted)
       /\ \A i, j \in DOMAIN board.samples : i < j => board.samples[i] < board.samples[j]
       /\ wire.up /\ wanted /\ upward = << >> /\ downward = << >> =>
            /\ shown \subseteq told
            /\ \A s \in told \ shown : \A t \in shown : s < t
            /\ Cardinality(shown) = SampleLimit \/ shown = told
=============================================================================
