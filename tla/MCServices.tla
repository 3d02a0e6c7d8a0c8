----------------------------- MODULE MCServices -----------------------------
(***************************************************************************)
(* What happens around the games: rewards, sign-in sessions, accounts,     *)
(* telemetry, the map editor, the lobby, the colours of the tanks, the     *)
(* sockets and those who watch, the tutorial, the lists of matches, and    *)
(* the statistics of an administrator.  They share no variable: a          *)
(* behaviour is one of them, chosen at the start, and the others stay as   *)
(* they are.                                                               *)
(***************************************************************************)
EXTENDS MCRewards, Sessions, Accounts, Telemetry, Editor, Lobby, Paint, Watchers,
    Tutorial, History, Dashboard

VARIABLE part

servicesVars == <<part, vars, sessionVars, accountVars, telemetryVars, editorVars, lobbyVars, paintVars, watchersVars, tutorialVars, historyVars, dashboardVars>>

MCEndedAt == <<1, 2, 2, 2, 3>>
MCUser    == [s \in Sockets |-> IF s = "a" THEN "A" ELSE "U"]
MCAddress == [s \in Sockets |-> IF s = "a" THEN "x" ELSE "y"]

ServicesInit ==
    /\ part \in {"rewards", "sessions", "accounts", "telemetry", "editor", "lobby", "paint", "watchers", "tutorial", "history", "dashboard"}
    /\ Init /\ SessionInit /\ AccountInit /\ TelemetryInit /\ EditorInit /\ LobbyInit /\ PaintInit /\ WatchersInit /\ TutorialInit /\ HistoryInit /\ DashboardInit
    /\ part # "paint" => paint = NoPaint
    /\ part # "history" => listing.kind = "recent"

ServicesNext ==
    /\ UNCHANGED part
    /\ \/ part = "rewards" /\ UNCHANGED <<sessionVars, accountVars, telemetryVars, editorVars, lobbyVars, paintVars, watchersVars, tutorialVars, historyVars, dashboardVars>>
          /\ Next
       \/ part = "sessions" /\ UNCHANGED <<vars, accountVars, telemetryVars, editorVars, lobbyVars, paintVars, watchersVars, tutorialVars, historyVars, dashboardVars>>
          /\ SessionNext
       \/ part = "accounts" /\ UNCHANGED <<vars, sessionVars, telemetryVars, editorVars, lobbyVars, paintVars, watchersVars, tutorialVars, historyVars, dashboardVars>>
          /\ AccountNext
       \/ part = "telemetry" /\ UNCHANGED <<vars, sessionVars, accountVars, editorVars, lobbyVars, paintVars, watchersVars, tutorialVars, historyVars, dashboardVars>>
          /\ TelemetryNext
       \/ part = "editor" /\ UNCHANGED <<vars, sessionVars, accountVars, telemetryVars, lobbyVars, paintVars, watchersVars, tutorialVars, historyVars, dashboardVars>>
          /\ EditorNext
       \/ part = "lobby" /\ UNCHANGED <<vars, sessionVars, accountVars, telemetryVars, editorVars, paintVars, watchersVars, tutorialVars, historyVars, dashboardVars>>
          /\ LobbyNext
       \/ part = "paint" /\ UNCHANGED <<vars, sessionVars, accountVars, telemetryVars, editorVars, lobbyVars, watchersVars, tutorialVars, historyVars, dashboardVars>>
          /\ PaintNext
       \/ part = "watchers" /\ UNCHANGED <<vars, sessionVars, accountVars, telemetryVars, editorVars, lobbyVars, paintVars, tutorialVars, historyVars, dashboardVars>>
          /\ WatchersNext
       \/ part = "tutorial" /\ UNCHANGED <<vars, sessionVars, accountVars, telemetryVars, editorVars, lobbyVars, paintVars, watchersVars, historyVars, dashboardVars>>
          /\ TutorialNext
       \/ part = "history" /\ UNCHANGED <<vars, sessionVars, accountVars, telemetryVars, editorVars, lobbyVars, paintVars, watchersVars, tutorialVars, dashboardVars>>
          /\ HistoryNext
       \/ part = "dashboard" /\ UNCHANGED <<vars, sessionVars, accountVars, telemetryVars, editorVars, lobbyVars, paintVars, watchersVars, tutorialVars, historyVars>>
          /\ DashboardNext

ServicesSpec == ServicesInit /\ [][ServicesNext]_servicesVars

\* Every user can sign in, has done what the server says of him and finds his matches.
UsersAgree == EveryUserSignsIn /\ TutorialIsEarned /\ HistoryIsWhole

\* Sockets are counted, and told what they asked for while they are there.
SocketsAgree == CountIsShown /\ SocketsCounted /\ BoardIsServed

\* What is edited and what is stored agree, for maps and for the colours of tanks.
EditorsAgree == EditorConsistent /\ PaintAgrees
=============================================================================
