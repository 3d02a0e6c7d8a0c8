------------------------------ MODULE Controls ------------------------------
(***************************************************************************)
(* From fingers and keys to the input the server holds for a tank          *)
(* (touch-controls.ts, phaser-keyboard-guard.ts, input-controller.ts and   *)
(* the settings menu of game-host.component.ts).                           *)
(*                                                                         *)
(* A place on the screen is the control it belongs to, a stick is pushed   *)
(* beyond its dead zone or not, and aiming is left out.  A finger keeps    *)
(* one Phaser pointer and one touch identifier while it is down; which     *)
(* action button looks pressed is left out.                                *)
(***************************************************************************)
EXTENDS FiniteSets

CONSTANTS Fingers, Keys, \* Keys that move; Dash is pressed for an action
          Areas,         \* the controls on the screen
          Nobody

ASSUME AreasAssumption == Areas \subseteq {"settings", "fire", "dash", "move", "aim"}

Dash == "dash"

VARIABLES
    touching, held,   \* the fingers and keys that are really down
    touch,            \* TouchControls: who holds what
    keyboard,         \* what Phaser takes for down, and pressed since the last frame
    menu,             \* settingsOpen, inputBlocked
    focused, running, \* of the window; of the scene
    status, tankAlive,    \* in the latest snapshot
    heard             \* the last input of this tank the server got

inputVars == <<touching, held, touch, keyboard, menu, focused, running, status, tankAlive, heard>>

Neutral  == [moves |-> FALSE, shoots |-> FALSE, dashes |-> FALSE]
Released == [settings |-> Nobody, fire |-> Nobody, move |-> Nobody, aim |-> Nobody,
             pushed |-> FALSE, pending |-> FALSE]
Silent   == [down |-> {}, just |-> FALSE]

InputInit ==
    /\ touching = {} /\ held = {} /\ touch = [visible |-> FALSE, by |-> Released]
    /\ keyboard = Silent /\ menu = FALSE /\ focused = TRUE /\ running = TRUE
    /\ status = "waiting" /\ tankAlive = TRUE /\ heard = Neutral

Hears == status \in {"playing", "finished"} /\ tankAlive

-----------------------------------------------------------------------------
(* Touches. *)

\* onPointerDown, on one of the controls: a stick or FIRE that is held stays with its finger.
Taken(by, f, area) ==
    CASE area = "settings" -> [by EXCEPT !.settings = f]
      [] area = "dash"     -> [by EXCEPT !.pending = TRUE]
      [] area = "move"     -> IF by.move = Nobody THEN [by EXCEPT !.move = f, !.pushed = FALSE] ELSE by
      [] OTHER             -> IF by[area] = Nobody THEN [by EXCEPT ![area] = f] ELSE by

\* resetStick, and letting go of FIRE.
LetGo(by, f, areas) ==
    [by EXCEPT !.fire = IF @ = f /\ "fire" \in areas THEN Nobody ELSE @,
               !.aim  = IF @ = f /\ "aim" \in areas THEN Nobody ELSE @,
               !.move = IF @ = f /\ "move" \in areas THEN Nobody ELSE @,
               !.pushed = @ /\ ~(by.move = f /\ "move" \in areas)]

\* onPointerUp: the first control the pointer holds; the settings button swallows it.
PointerUp(by, f) ==
    IF by.settings = f THEN [by EXCEPT !.settings = Nobody]
    ELSE LetGo(by, f, CASE by.fire = f -> {"fire"} [] by.move = f -> {"move"} [] OTHER -> {"aim"})

\* onWindowTouchEnd, whether Phaser saw the end or not.
TouchEndMutant(by, f) == LetGo(by, f, {"move", "aim"})
TouchEnd(by, f) == LetGo(by, f, {"move", "aim", "fire"})

\* onSettingsMenu, that the menu opens: the keys are reset and the tank is told to rest.
Rested == IF Hears THEN Neutral ELSE heard
MenuOpened == menu' = TRUE /\ keyboard' = Silent /\ heard' = Rested

FingerDown(f, area) ==
    /\ f \notin touching /\ touching' = touching \cup {f}
    /\ touch' = IF touch.visible THEN [touch EXCEPT !.by = Taken(@, f, area)] ELSE touch
    /\ IF touch.visible /\ area = "settings" THEN MenuOpened ELSE UNCHANGED <<keyboard, menu, heard>>
    /\ UNCHANGED <<held, focused, running, status, tankAlive>>

\* onPointerMove, or onWindowTouchMove where Phaser no longer follows.
FingerMoves(f) ==
    /\ f \in touching /\ touch.by.move = f
    /\ touch' \in {[touch EXCEPT !.by.pushed = TRUE], [touch EXCEPT !.by.pushed = FALSE]}
    /\ UNCHANGED <<touching, held, keyboard, menu, focused, running, status, tankAlive, heard>>

FingerUp(f) ==
    /\ f \in touching /\ touching' = touching \ {f}
    /\ \/ touch' = [touch EXCEPT !.by = TouchEnd(PointerUp(@, f), f)]
       \/ touch' = [touch EXCEPT !.by = TouchEnd(@, f)]
    /\ UNCHANGED <<held, keyboard, menu, focused, running, status, tankAlive, heard>>

-----------------------------------------------------------------------------
(* Keys, the window, and the menu. *)

Receives == focused /\ running /\ ~menu

\* A key goes down or repeats: Phaser sees it, or the guard replays what Phaser missed.
KeyDown(k) ==
    /\ held' = held \cup {k}
    /\ keyboard' = IF ~Receives \/ k \in keyboard.down THEN keyboard
                   ELSE [down |-> keyboard.down \cup {k}, just |-> keyboard.just \/ k = Dash]
    /\ UNCHANGED <<touching, touch, menu, focused, running, status, tankAlive, heard>>

KeyUp(k) ==
    /\ k \in held /\ held' = held \ {k}
    /\ keyboard' = IF Receives THEN [down |-> keyboard.down \ {k}, just |-> keyboard.just /\ k # Dash]
                   ELSE keyboard
    /\ UNCHANGED <<touching, touch, menu, focused, running, status, tankAlive, heard>>

\* toggleSettings, from Escape or the panel.
MenuOpens ==
    /\ focused /\ ~menu /\ MenuOpened
    /\ UNCHANGED <<touching, held, touch, focused, running, status, tankAlive>>

MenuCloses ==
    /\ focused /\ menu /\ menu' = FALSE /\ keyboard' = Silent
    /\ UNCHANGED <<touching, held, touch, focused, running, status, tankAlive, heard>>

\* onPhaserInputSuspended: the window loses the focus, or the scene pauses.
Suspends ==
    /\ \/ focused /\ focused' = FALSE /\ UNCHANGED running
       \/ running /\ running' = FALSE /\ UNCHANGED focused
    /\ keyboard' = Silent /\ heard' = Rested
    /\ UNCHANGED <<touching, held, touch, menu, status, tankAlive>>

\* onPhaserInputResumed: ensureReady, which resets the keys; not under the menu.
Resumes ==
    /\ \/ ~focused /\ focused' = TRUE /\ UNCHANGED running
       \/ ~running /\ running' = TRUE /\ UNCHANGED focused
    /\ keyboard' = IF menu THEN keyboard ELSE Silent
    /\ UNCHANGED <<touching, held, touch, menu, status, tankAlive, heard>>

-----------------------------------------------------------------------------
(* A frame of the scene: TouchControls.update, then sendInput. *)

Shown == IF Hears THEN [touch EXCEPT !.visible = TRUE] ELSE [visible |-> FALSE, by |-> Released]

Input(by) ==
    [moves  |-> ~menu /\ (by.pushed \/ keyboard.down \cap Keys # {}),
     shoots |-> ~menu /\ by.fire # Nobody,
     dashes |-> ~menu /\ (keyboard.just \/ by.pending)]

\* Presses are consumed whether the tank plays or not.
InputFrame ==
    /\ running
    /\ touch' = [Shown EXCEPT !.by.pending = FALSE]
    /\ keyboard' = IF menu THEN keyboard ELSE [keyboard EXCEPT !.just = FALSE]
    /\ heard' = IF Hears THEN Input(Shown.by) ELSE heard
    /\ UNCHANGED <<touching, held, menu, focused, running, status, tankAlive>>

\* The next snapshot: a round begins with tanks at rest, the tank dies, the round ends.
RoundSnapshot ==
    /\ \/ status = "waiting" /\ status' = "playing" /\ tankAlive' = TRUE /\ heard' = Neutral
       \/ status # "waiting" /\ tankAlive /\ tankAlive' = FALSE /\ UNCHANGED <<status, heard>>
       \/ status = "playing" /\ status' = "finished" /\ UNCHANGED <<tankAlive, heard>>
       \/ status = "finished" /\ status' = "waiting" /\ UNCHANGED <<tankAlive, heard>>
    /\ UNCHANGED <<touching, held, touch, keyboard, menu, focused, running>>

InputNext ==
    \/ \E f \in Fingers : FingerMoves(f) \/ FingerUp(f) \/ \E a \in Areas : FingerDown(f, a)
    \/ \E k \in Keys \cup {Dash} : KeyDown(k) \/ KeyUp(k)
    \/ MenuOpens \/ MenuCloses \/ Suspends \/ Resumes \/ InputFrame \/ RoundSnapshot

InputSpec == InputInit /\ [][InputNext]_inputVars

-----------------------------------------------------------------------------
\* A control is held by a finger that is down, wherever it was lifted.
SticksAreHeld == \A c \in {"fire", "move", "aim"} : touch.by[c] # Nobody => touch.by[c] \in touching

\* A key that drives the tank is down, although the window and the menu swallow releases.
KeysAreHeld == keyboard.down \subseteq held

\* While the menu is open, the server holds a tank that rests.
MenuRests == menu /\ Hears => heard = Neutral

\* Nothing the player has let go of goes on driving the tank, whichever of Phaser, the
\* window and the guard saw the release, and under the menu nothing does
\* (touch-controls.ts:224-235, 296-320, phaser-keyboard-guard.ts:15-38, 117-145).
ControlsLetGo == SticksAreHeld /\ KeysAreHeld /\ MenuRests
=============================================================================
