------------------------------- MODULE Screen -------------------------------
(***************************************************************************)
(* The page a round is played on: game-host.component.ts, from its first   *)
(* drawing to its end, with the VisibleViewportResizer that tells the game *)
(* how large it is.  The language file is loaded before the game is made;  *)
(* the first touch asks for full screen and then for landscape; the        *)
(* browser grants or refuses either when it likes.  One visit of the page. *)
(***************************************************************************)
EXTENDS Naturals

CONSTANTS Extents \* the sizes of the container; 0 while it has none

VARIABLES
    page,      \* "new", "loading", "playing" (the game exists), "gone"
    visible,   \* the size of the container
    fitted,    \* setParentSize: the size the game has; 0 for what it started with
    frame,     \* animationFrame is pending
    settle,    \* settleTimer is pending
    listening, \* pointerdown is listened for
    asking,    \* tryFullscreenLandscape: "no", "full", "lock"
    display,   \* what the browser shows: full, locked, and exitFullscreen under way
    changes,   \* bound: changes of the size so far
    late       \* history: the page was left while full screen was being asked for

screenVars == <<page, visible, fitted, frame, settle, listening, asking, display, changes, late>>

MaxSizeChanges == 3

ScreenInit ==
    /\ page = "new" /\ visible \in Extents /\ fitted = 0
    /\ frame = FALSE /\ settle = FALSE /\ listening = FALSE /\ asking = "no"
    /\ display = [full |-> FALSE, locked |-> FALSE, leaving |-> FALSE]
    /\ changes = 0 /\ late = FALSE

-----------------------------------------------------------------------------
(* VisibleViewportResizer. *)

Refresh == frame' = TRUE

\* onViewportChange, while the listeners of start are there.
OnViewportChange ==
    IF page \in {"loading", "playing"} THEN Refresh /\ settle' = TRUE ELSE UNCHANGED <<frame, settle>>

FrameDrawn ==
    /\ frame /\ frame' = FALSE
    /\ fitted' = IF page = "playing" /\ visible > 0 THEN visible ELSE fitted
    /\ UNCHANGED <<page, visible, settle, listening, asking, display, changes, late>>

SettleTimer ==
    /\ settle /\ settle' = FALSE /\ Refresh
    /\ UNCHANGED <<page, visible, fitted, listening, asking, display, changes, late>>

\* destroy of the resizer.
ResizerDestroyed == frame' = FALSE /\ settle' = FALSE

-----------------------------------------------------------------------------
(* The browser: a size changes with an event, or within 250 ms of one.  Whoever
   leaves full screen is no longer held in landscape. *)

Resizes(v) ==
    /\ changes < MaxSizeChanges /\ changes' = changes + 1
    /\ visible' = v /\ OnViewportChange
    /\ UNCHANGED <<page, fitted, listening, asking, display, late>>

SizeSettles(v) ==
    /\ settle /\ changes < MaxSizeChanges /\ changes' = changes + 1
    /\ visible' = v
    /\ UNCHANGED <<page, fitted, frame, settle, listening, asking, display, late>>

\* exitFullscreen comes through, or the user leaves full screen.
FullscreenEnds ==
    /\ display.full
    /\ display' = [full |-> FALSE, locked |-> FALSE, leaving |-> FALSE]
    /\ OnViewportChange
    /\ UNCHANGED <<page, visible, fitted, listening, asking, changes, late>>

-----------------------------------------------------------------------------
(* The component. *)

\* ngAfterViewInit, on a device with or without touch; start refreshes.
ScreenOpens ==
    /\ page = "new" /\ page' = "loading"
    /\ listening' \in BOOLEAN /\ Refresh
    /\ UNCHANGED <<visible, fitted, settle, asking, display, changes, late>>

\* Mutant: the new game is not told its size.
LanguageLoadedMutant ==
    /\ page = "loading" /\ page' = "playing"
    /\ UNCHANGED <<visible, fitted, frame, settle, listening, asking, display, changes, late>>

\* The subscription to transloco.load.
LanguageLoaded ==
    /\ page = "loading" /\ page' = "playing"
    /\ Refresh
    /\ UNCHANGED <<visible, fitted, settle, listening, asking, display, changes, late>>

\* tryFullscreenLandscape.
FirstTouch ==
    /\ listening /\ page \in {"loading", "playing"}
    /\ listening' = FALSE
    /\ asking' = IF display.full THEN "lock" ELSE "full"
    /\ UNCHANGED <<page, visible, fitted, frame, settle, display, changes, late>>

FullscreenAnswers(granted) ==
    /\ asking = "full"
    /\ IF granted
       THEN /\ asking' = "lock" /\ display' = [display EXCEPT !.full = TRUE]
            /\ OnViewportChange
       ELSE asking' = "no" /\ UNCHANGED <<display, frame, settle>>
    /\ UNCHANGED <<page, visible, fitted, listening, changes, late>>

\* A lock is granted in full screen only.
LockAnswers(granted) ==
    /\ asking = "lock" /\ asking' = "no"
    /\ granted => display.full
    /\ display' = [display EXCEPT !.locked = @ \/ granted]
    /\ UNCHANGED <<page, visible, fitted, frame, settle, listening, changes, late>>

\* releaseCombatDisplayMode.
ReleaseDisplay == display' = [display EXCEPT !.locked = FALSE, !.leaving = display.full]

\* ngOnDestroy.
ScreenIsClosed ==
    /\ page \in {"loading", "playing"} /\ page' = "gone"
    /\ listening' = FALSE /\ fitted' = 0
    /\ ResizerDestroyed /\ ReleaseDisplay
    /\ late' = (asking = "full")
    /\ UNCHANGED <<visible, asking, changes>>

ScreenNext ==
    \/ ScreenOpens \/ LanguageLoaded \/ FirstTouch \/ ScreenIsClosed
    \/ FrameDrawn \/ SettleTimer \/ FullscreenEnds
    \/ \E v \in Extents : Resizes(v) \/ SizeSettles(v)
    \/ \E granted \in BOOLEAN : FullscreenAnswers(granted) \/ LockAnswers(granted)

-----------------------------------------------------------------------------
\* Once nothing is pending, the game is as large as the page lets it be, whatever
\* was resized, turned or put in full screen meanwhile, and when.
GameFits == page = "playing" /\ ~frame /\ ~settle /\ visible > 0 => fitted = visible

\* A page that was left leaves nothing behind: no frame or timer that would reach
\* for a destroyed game, and no full screen or lock of the orientation.  Excused:
\* `late`, a request for full screen that was under way.
DisplayIsReleased ==
    page = "gone" => /\ ~frame /\ ~settle
                     /\ late \/ display.leaving \/ ~(display.full \/ display.locked)
=============================================================================
