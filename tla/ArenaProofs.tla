---------------------------- MODULE ArenaProofs ----------------------------
(***************************************************************************)
(* What is proved of a round and of a client that plays it: the weapon of  *)
(* a tank, the fingers and keys that drive it, the page and the device     *)
(* that show and sound it.  The stream of messages that tells of it is in  *)
(* StreamProofs.  The parts share no variable, so each invariant is about  *)
(* one of them.                                                            *)
(***************************************************************************)
EXTENDS MCArena, StreamProofs

-----------------------------------------------------------------------------
(* The weapon.  While a laser is held no reload runs, so that its ammunition is  *)
(* its shots; every other magazine that is empty has a reload.                   *)

WeaponTypes ==
    /\ clock \in Nat \ {0} /\ shells \in Nat /\ beams \in Nat
    /\ power \in [type: Powers, expiresAt: Nat, shots: Nat]
    /\ weapon \in [ammo: Nat, lastFiredAt: Nat, reloadsAt: Nat, triggerHeld: BOOLEAN]

LaserHasNoReload == power.type = "laser" => weapon.reloadsAt = 0

WeaponKept == WeaponTypes /\ LaserHasNoReload /\ NeverJammed

LEMMA StatsAre ==
    /\ \A p \in Powers : /\ Stats[p].magazine \in Nat \ {0} /\ Stats[p].reload \in Nat
                         /\ Stats[p].pattern \in Nat \ {0} /\ Stats[p].active \in Nat \ {0}
                         /\ Stats[p].cooldown \in Nat /\ Duration[p] \in Nat
    /\ "standard" \in Powers /\ "laser" \in Powers /\ LaserShots \in Nat \ {0}
    /\ Stats["laser"].magazine = LaserShots /\ Stats["laser"].active = 1
BY WeaponAssumption

LEMMA WeaponBegins == WeaponInit => WeaponKept
BY StatsAre DEF WeaponInit, WeaponKept, WeaponTypes, LaserHasNoReload, NeverJammed, NoPower

LEMMA UnexpiredIs ==
    ASSUME WeaponKept
    PROVE  LET p == Unexpired(power, clock)
           IN  /\ p \in [type: Powers, expiresAt: Nat, shots: Nat]
               /\ p = power \/ (p = NoPower /\ p.type # "laser")
BY StatsAre DEF WeaponKept, WeaponTypes, Unexpired, NoPower

Weapons == [ammo: Nat, lastFiredAt: Nat, reloadsAt: Nat, triggerHeld: BOOLEAN]

\* A reload that ends fills the magazine; one that begins ends later.
LEMMA ReloadIs ==
    ASSUME NEW w \in Weapons, NEW p \in Powers, NEW now \in Nat \ {0}, w.ammo = 0 => w.reloadsAt # 0
    PROVE  /\ Reloaded(w, Stats[p], now) \in Weapons
           /\ Reloaded(w, Stats[p], now).ammo = 0 => Reloaded(w, Stats[p], now).reloadsAt # 0
           /\ w.reloadsAt = 0 => Reloaded(w, Stats[p], now) = w
<1>. DEFINE full == [w EXCEPT !.reloadsAt = 0, !.ammo = Stats[p].magazine]
<1>1. Stats[p].magazine \in Nat \ {0}
  BY StatsAre
<1>2. full \in Weapons /\ full.ammo # 0
  BY <1>1 DEF Weapons
<1>3. Reloaded(w, Stats[p], now) = full \/ Reloaded(w, Stats[p], now) = w
  BY DEF Reloaded
<1>4. w.reloadsAt = 0 => Reloaded(w, Stats[p], now) = w
  BY DEF Reloaded
<1>. HIDE DEF full
<1>. QED  BY <1>2, <1>3, <1>4

LEMMA ReloadStarts ==
    ASSUME NEW w \in Weapons, NEW p \in Powers, NEW now \in Nat \ {0}
    PROVE  StartReload(w, Stats[p], now) \in Weapons /\ StartReload(w, Stats[p], now).reloadsAt # 0
<1>. DEFINE begun == [w EXCEPT !.reloadsAt = now + Stats[p].reload]
<1>1. Stats[p].reload \in Nat
  BY StatsAre
<1>2. begun \in Weapons /\ begun.reloadsAt # 0
  BY <1>1 DEF Weapons
<1>3. (w.reloadsAt > now /\ StartReload(w, Stats[p], now) = w) \/ StartReload(w, Stats[p], now) = begun
  BY DEF StartReload
<1>. HIDE DEF begun
<1>. QED  BY <1>2, <1>3 DEF Weapons

LEMMA FiredIs ==
    ASSUME NEW w \in Weapons, NEW p \in Powers, NEW now \in Nat \ {0}, w.ammo > 0
    PROVE  /\ Fired(w, Stats[p], now) \in Weapons
           /\ Fired(w, Stats[p], now).ammo = 0 => Fired(w, Stats[p], now).reloadsAt # 0
<1>. DEFINE shot == [w EXCEPT !.ammo = w.ammo - 1, !.lastFiredAt = now]
<1>. w.ammo - 1 \in Nat
  BY DEF Weapons
<1>1. shot \in Weapons
  BY DEF Weapons
<1>2. Fired(w, Stats[p], now) = IF shot.ammo = 0 THEN StartReload(shot, Stats[p], now) ELSE shot
  BY DEF Fired, Weapons
<1>. HIDE DEF shot
<1>. QED  BY <1>1, <1>2, ReloadStarts

LEMMA LaserKeeps ==
    ASSUME WeaponKept, NEW hold \in BOOLEAN, power.type = "laser", ShootLaser(hold, clock), UNCHANGED clock
    PROVE  WeaponKept'
<1>. DEFINE fires == /\ hold /\ ~weapon.triggerHeld /\ power.shots > 0
                     /\ clock - weapon.lastFiredAt >= Stats["laser"].cooldown
                     /\ shells + beams < Stats["laser"].active
            left  == power.shots - 1
            pressed  == [weapon EXCEPT !.triggerHeld = hold]
            shot  == [weapon EXCEPT !.triggerHeld = hold, !.lastFiredAt = clock, !.ammo = left]
            last  == [weapon EXCEPT !.triggerHeld = hold, !.lastFiredAt = clock,
                                    !.ammo = Stats["standard"].magazine]
            fewer == [power EXCEPT !.shots = left]
<1>1. weapon' = IF fires THEN IF left = 0 THEN last ELSE shot ELSE pressed
  BY DEF ShootLaser
<1>2. /\ beams' = (IF fires THEN beams + 1 ELSE beams) /\ UNCHANGED shells
      /\ power' = IF fires /\ left > 0 THEN fewer
                  ELSE IF fires \/ (hold /\ ~weapon.triggerHeld /\ power.shots <= 0)
                  THEN NoPower ELSE power
  BY DEF ShootLaser
<1>3. fires => shells = 0 /\ beams = 0
  BY StatsAre DEF WeaponKept, WeaponTypes
<1>4. power.shots \in Nat \ {0} /\ left \in Nat /\ weapon.ammo = power.shots /\ weapon.reloadsAt = 0
  BY DEF WeaponKept, WeaponTypes, NeverJammed, LaserHasNoReload
<1>5. /\ pressed \in Weapons /\ pressed.ammo = weapon.ammo /\ pressed.reloadsAt = 0
      /\ last \in Weapons /\ last.ammo # 0 /\ last.reloadsAt = 0
      /\ shot \in Weapons /\ shot.ammo = left /\ shot.reloadsAt = 0
  BY <1>4, StatsAre DEF WeaponKept, WeaponTypes, Weapons
<1>6. /\ fewer \in [type: Powers, expiresAt: Nat, shots: Nat] /\ fewer.shots = left /\ fewer.type = "laser"
      /\ NoPower \in [type: Powers, expiresAt: Nat, shots: Nat] /\ NoPower.type # "laser"
  BY <1>4, StatsAre DEF WeaponKept, WeaponTypes, NoPower
<1>. HIDE DEF pressed, last, shot, fewer
<1>7. CASE fires
  <2>. HIDE DEF fires
  <2>. USE <1>1, <1>2, <1>3, <1>4, <1>5, <1>6, <1>7
  <2>1. CASE left = 0
    <3>1. weapon' = last /\ power' = NoPower /\ beams' = 1 /\ shells' = 0
      BY <2>1
    <3>. QED  BY <3>1 DEF WeaponKept, WeaponTypes, LaserHasNoReload, NeverJammed, Weapons
  <2>2. CASE left # 0
    <3>1. weapon' = shot /\ power' = fewer /\ beams' = 1 /\ shells' = 0
      BY <2>2
    <3>. QED  BY <2>2, <3>1 DEF WeaponKept, WeaponTypes, LaserHasNoReload, NeverJammed, Weapons
  <2>. QED  BY <2>1, <2>2
<1>8. CASE ~fires
  <2>1. weapon' = pressed /\ UNCHANGED <<beams, shells>>
    BY <1>8, <1>1, <1>2
  <2>2. power' \in {NoPower, power}
    BY <1>8, <1>2
  <2>. HIDE DEF fires
  <2>. QED  BY <2>1, <2>2, <1>4, <1>5, <1>6 DEF WeaponKept, WeaponTypes, LaserHasNoReload, NeverJammed, Weapons
<1>. QED  BY <1>7, <1>8

LEMMA ShellKeeps ==
    ASSUME WeaponKept, NEW hold \in BOOLEAN, Unexpired(power, clock).type # "laser",
           ShootShell(Unexpired(power, clock), hold, clock), UNCHANGED clock
    PROVE  WeaponKept'
<1>. DEFINE p == Unexpired(power, clock)
            stats == Stats[p.type]
            ready == Reloaded(weapon, stats, clock)
            may   == /\ hold /\ ready.reloadsAt <= clock
                     /\ clock - ready.lastFiredAt >= stats.cooldown
                     /\ shells + beams < stats.active
            fires == may /\ ready.ammo > 0 /\ shells + beams + stats.pattern <= stats.active
<1>1. p \in [type: Powers, expiresAt: Nat, shots: Nat] /\ power' = p /\ p.type # "laser" /\ p.type \in Powers
  BY UnexpiredIs DEF ShootShell
<1>2. ready \in Weapons /\ (ready.ammo = 0 => ready.reloadsAt # 0)
  BY <1>1, ReloadIs DEF WeaponKept, WeaponTypes, NeverJammed, Weapons
<1>3. /\ beams' = beams /\ stats.pattern \in Nat
      /\ beams > 0 => UNCHANGED <<weapon, shells>>
      /\ ~(beams > 0) => shells' = (IF fires THEN shells + stats.pattern ELSE shells)
      /\ ~(beams > 0) => weapon' = CASE fires -> Fired(ready, stats, clock)
                                     [] may /\ ready.ammo <= 0 -> StartReload(ready, stats, clock)
                                     [] OTHER -> ready
  BY <1>1, StatsAre DEF ShootShell, PowerAdjustedStats, ShotPattern
<1>. HIDE DEF may
<1>4. ~(beams > 0) => weapon' \in {ready, StartReload(ready, stats, clock)}
                      \/ (ready.ammo > 0 /\ weapon' = Fired(ready, stats, clock))
  BY <1>3
<1>. HIDE DEF fires, ready
<1>5. /\ weapon' \in Weapons
      /\ weapon'.ammo = 0 => weapon'.reloadsAt # 0
  <2>1. CASE beams > 0
    BY <2>1, <1>3 DEF WeaponKept, WeaponTypes, NeverJammed, Weapons
  <2>2. CASE ~(beams > 0)
    <3>1. StartReload(ready, stats, clock) \in Weapons /\ StartReload(ready, stats, clock).reloadsAt # 0
      BY <1>1, <1>2, ReloadStarts DEF WeaponKept, WeaponTypes
    <3>2. ready.ammo > 0 => /\ Fired(ready, stats, clock) \in Weapons
                            /\ Fired(ready, stats, clock).ammo = 0 => Fired(ready, stats, clock).reloadsAt # 0
      BY <1>1, <1>2, FiredIs DEF WeaponKept, WeaponTypes
    <3>. QED  BY <2>2, <3>1, <3>2, <1>2, <1>4
  <2>. QED  BY <2>1, <2>2
<1>6. shells' \in Nat /\ (beams > 0 => shells' = shells)
  BY <1>3 DEF WeaponKept, WeaponTypes
<1>. HIDE DEF p, stats
<1>. QED  BY <1>1, <1>3, <1>5, <1>6 DEF WeaponKept, WeaponTypes, LaserHasNoReload, NeverJammed, Weapons

LEMMA PickUpKeeps ==
    ASSUME WeaponKept, NEW type \in Powers \ {"standard"}, ApplyPowerUp(type) PROVE WeaponKept'
<1>1. power' \in [type: Powers, expiresAt: Nat, shots: Nat] /\ power'.type = type
      /\ (type = "laser" => power'.shots = LaserShots)
  BY StatsAre DEF ApplyPowerUp, WeaponKept, WeaponTypes
<1>. DEFINE full == [weapon EXCEPT !.reloadsAt = 0, !.ammo = Stats[type].magazine]
<1>2. weapon' = full /\ UNCHANGED <<shells, beams, clock>>
  BY DEF ApplyPowerUp
<1>3. full \in [ammo: Nat, lastFiredAt: Nat, reloadsAt: Nat, triggerHeld: BOOLEAN]
      /\ full.ammo = Stats[type].magazine /\ full.reloadsAt = 0
  BY StatsAre DEF WeaponKept, WeaponTypes
<1>. HIDE DEF full
<1>. QED  BY <1>1, <1>2, <1>3, StatsAre DEF WeaponKept, WeaponTypes, LaserHasNoReload, NeverJammed

LEMMA OthersKeepWeapon ==
    ASSUME WeaponKept, ShotsEnd \/ ManualReload \/ PublicState \/ PassTime PROVE WeaponKept'
<1>1. CASE ShotsEnd
  BY <1>1 DEF ShotsEnd, WeaponKept, WeaponTypes, LaserHasNoReload, NeverJammed
<1>2. CASE ManualReload
  <2>1. weapon' = StartReload(weapon, Stats[power.type], clock) /\ power.type # "laser" /\ power.type \in Powers
        /\ UNCHANGED <<power, shells, beams, clock>>
    BY <1>2 DEF ManualReload, PowerAdjustedStats, WeaponKept, WeaponTypes
  <2>2. weapon' \in Weapons /\ weapon'.reloadsAt # 0
    BY <2>1, ReloadStarts DEF WeaponKept, WeaponTypes, Weapons
  <2>. QED  BY <2>1, <2>2 DEF WeaponKept, WeaponTypes, LaserHasNoReload, NeverJammed, Weapons
<1>3. CASE PublicState
  <2>1. power' \in [type: Powers, expiresAt: Nat, shots: Nat] /\ (power' = power \/ power'.type # "laser")
        /\ weapon' = Reloaded(weapon, Stats[power'.type], clock) /\ UNCHANGED <<shells, beams, clock>>
    BY <1>3, UnexpiredIs DEF PublicState, PowerAdjustedStats
  <2>2. /\ weapon' \in Weapons
        /\ weapon'.ammo = 0 => weapon'.reloadsAt # 0
        /\ weapon.reloadsAt = 0 => weapon' = weapon
    BY <2>1, ReloadIs DEF WeaponKept, WeaponTypes, NeverJammed, Weapons
  <2>. QED  BY <2>1, <2>2 DEF WeaponKept, WeaponTypes, LaserHasNoReload, NeverJammed, Weapons
<1>4. CASE PassTime
  BY <1>4 DEF PassTime, WeaponKept, WeaponTypes, LaserHasNoReload, NeverJammed
<1>. QED  BY <1>1, <1>2, <1>3, <1>4

LEMMA WeaponInductive == WeaponKept /\ [WeaponNext]_weaponVars => WeaponKept'
<1>. SUFFICES ASSUME WeaponKept, [WeaponNext]_weaponVars PROVE WeaponKept'
  OBVIOUS
<1>1. ASSUME NEW hold \in BOOLEAN, Shoot(hold) PROVE WeaponKept'
  <2>1. CASE Unexpired(power, clock).type = "laser"
    <3>1. power.type = "laser"
      BY <2>1, UnexpiredIs
    <3>. QED  BY <1>1, <2>1, <3>1, LaserKeeps DEF Shoot
  <2>. QED  BY <1>1, <2>1, ShellKeeps DEF Shoot
<1>2. CASE UNCHANGED weaponVars
  BY <1>2 DEF weaponVars, WeaponKept, WeaponTypes, LaserHasNoReload, NeverJammed
<1>. QED  BY <1>1, <1>2, PickUpKeeps, OthersKeepWeapon DEF WeaponNext
-----------------------------------------------------------------------------
(* The input of a player.  Whoever holds a control is a finger that is down, and  *)
(* a touch that ends gives up all it holds; while releases are swallowed, no key   *)
(* is taken for down.                                                              *)

Holders == Fingers \cup {Nobody}
Grips   == [settings: Holders, fire: Holders, move: Holders, aim: Holders,
            pushed: BOOLEAN, pending: BOOLEAN]
Sticks  == {"fire", "move", "aim"}
Presses == [down: SUBSET (Keys \cup {Dash}), just: BOOLEAN]

InputTypes ==
    /\ touch \in [visible: BOOLEAN, by: Grips]
    /\ keyboard \in Presses
    /\ menu \in BOOLEAN

KeysRest == ~Receives => keyboard.down = {}

InputKept == InputTypes /\ KeysRest /\ ControlsLetGo

LEMMA SilentIs == Silent \in Presses /\ Silent.down = {}
BY DEF Silent, Presses

LEMMA InputBegins == InputInit => InputKept
<1>. SUFFICES ASSUME InputInit PROVE InputKept
  OBVIOUS
<1>1. Released \in Grips /\ \A c \in Sticks : Released[c] = Nobody
  BY DEF Released, Grips, Holders, Sticks
<1>2. keyboard \in Presses /\ keyboard.down = {}
  BY SilentIs DEF InputInit
<1>3. touch \in [visible: BOOLEAN, by: Grips] /\ touch.by = Released /\ menu = FALSE
  BY <1>1 DEF InputInit
<1>. QED  BY <1>1, <1>2, <1>3 DEF InputKept, InputTypes, KeysRest, ControlsLetGo, SticksAreHeld, KeysAreHeld,
                                  MenuRests, Sticks

\* A control that is taken is held by the finger that took it.
LEMMA TakenIs ==
    ASSUME NEW by \in Grips, NEW f \in Fingers, NEW area \in Areas
    PROVE  Taken(by, f, area) \in Grips /\ \A c \in Sticks : Taken(by, f, area)[c] \in {by[c], f}
<1>1. area \in {"settings", "fire", "dash", "move", "aim"}
  BY AreasAssumption
<1>. DEFINE taken == Taken(by, f, area)
<1>2. ASSUME taken = by PROVE taken \in Grips /\ \A c \in Sticks : taken[c] \in {by[c], f}
  BY <1>2
<1>3. CASE area = "settings"
  BY <1>3 DEF Taken, Grips, Holders, Sticks
<1>4. CASE area = "dash"
  BY <1>4 DEF Taken, Grips, Holders, Sticks
<1>5. CASE area = "move" /\ by.move = Nobody
  BY <1>5 DEF Taken, Grips, Holders, Sticks
<1>6. CASE area = "fire" /\ by.fire = Nobody
  BY <1>6 DEF Taken, Grips, Holders, Sticks
<1>7. CASE area = "aim" /\ by.aim = Nobody
  BY <1>7 DEF Taken, Grips, Holders, Sticks
<1>8. CASE area \in Sticks /\ by[area] # Nobody
  <2>1. taken = by
    BY <1>8 DEF Taken, Sticks
  <2>. QED  BY <1>2, <2>1
<1>. QED  BY <1>1, <1>3, <1>4, <1>5, <1>6, <1>7, <1>8 DEF Sticks

\* A control that is let go of is held by nobody, and no other changes hands.
LEMMA LetGoIs ==
    ASSUME NEW by \in Grips, NEW f \in Fingers, NEW areas
    PROVE  /\ LetGo(by, f, areas) \in Grips
           /\ \A c \in Sticks : /\ LetGo(by, f, areas)[c] \in {by[c], Nobody}
                                /\ c \in areas => LetGo(by, f, areas)[c] \in {by[c], Nobody} \ ({f} \ {Nobody})
<1>. DEFINE fire == IF by.fire = f /\ "fire" \in areas THEN Nobody ELSE by.fire
            aim  == IF by.aim = f /\ "aim" \in areas THEN Nobody ELSE by.aim
            move == IF by.move = f /\ "move" \in areas THEN Nobody ELSE by.move
            pushed == by.pushed /\ ~(by.move = f /\ "move" \in areas)
<1>1. LetGo(by, f, areas) = [by EXCEPT !.fire = fire, !.aim = aim, !.move = move, !.pushed = pushed]
  BY DEF LetGo, Grips
<1>2. /\ fire \in Holders /\ aim \in Holders /\ move \in Holders /\ pushed \in BOOLEAN
      /\ fire \in {by.fire, Nobody} /\ aim \in {by.aim, Nobody} /\ move \in {by.move, Nobody}
      /\ "fire" \in areas /\ f # Nobody => fire # f
      /\ "aim" \in areas /\ f # Nobody => aim # f
      /\ "move" \in areas /\ f # Nobody => move # f
  BY DEF Grips, Holders
<1>. HIDE DEF fire, aim, move, pushed
<1>3. LetGo(by, f, areas) \in Grips /\ LetGo(by, f, areas).fire = fire
      /\ LetGo(by, f, areas).aim = aim /\ LetGo(by, f, areas).move = move
  BY <1>1, <1>2 DEF Grips
<1>. QED  BY <1>2, <1>3 DEF Sticks

LEMMA PointerUpIs ==
    ASSUME NEW by \in Grips, NEW f \in Fingers
    PROVE  PointerUp(by, f) \in Grips /\ \A c \in Sticks : PointerUp(by, f)[c] \in {by[c], Nobody}
<1>1. CASE by.settings = f
  BY <1>1 DEF PointerUp, Grips, Holders, Sticks
<1>2. CASE by.settings # f
  <2>. DEFINE areas == CASE by.fire = f -> {"fire"} [] by.move = f -> {"move"} [] OTHER -> {"aim"}
  <2>1. PointerUp(by, f) = LetGo(by, f, areas)
    BY <1>2 DEF PointerUp
  <2>. HIDE DEF areas
  <2>. QED  BY <2>1, LetGoIs
<1>. QED  BY <1>1, <1>2

\* onWindowTouchEnd lets the finger go of everything it drives.
LEMMA TouchEndIs ==
    ASSUME NEW by \in Grips, NEW f \in Fingers, NEW fs, \A c \in Sticks : by[c] # Nobody => by[c] \in fs
    PROVE  /\ TouchEnd(by, f) \in Grips
           /\ \A c \in Sticks : TouchEnd(by, f)[c] # Nobody => TouchEnd(by, f)[c] \in fs \ {f}
<1>1. /\ TouchEnd(by, f) \in Grips
      /\ \A c \in Sticks : TouchEnd(by, f)[c] \in {by[c], Nobody} \ ({f} \ {Nobody})
  BY LetGoIs DEF TouchEnd, Sticks
<1>. QED  BY <1>1

LEMMA FingersKeep ==
    ASSUME InputKept, NEW f \in Fingers,
           FingerMoves(f) \/ FingerUp(f) \/ \E a \in Areas : FingerDown(f, a)
    PROVE  InputKept'
<1>. USE DEF InputKept, InputTypes, KeysRest, Receives, ControlsLetGo, KeysAreHeld, MenuRests
<1>1. touch.by \in Grips /\ touch \in [visible: BOOLEAN, by: Grips]
      /\ \A c \in Sticks : touch.by[c] # Nobody => touch.by[c] \in touching
  BY DEF SticksAreHeld, Sticks
<1>2. ASSUME NEW by \in Grips, touch' = [touch EXCEPT !.by = by],
             \A c \in Sticks : by[c] # Nobody => by[c] \in touching'
      PROVE  touch' \in [visible: BOOLEAN, by: Grips] /\ SticksAreHeld'
  <2>1. touch' \in [visible: BOOLEAN, by: Grips] /\ touch'.by = by
    BY <1>1, <1>2
  <2>. QED  BY <1>2, <2>1 DEF SticksAreHeld, Sticks
<1>3. CASE FingerMoves(f)
  <2>1. PICK b \in BOOLEAN : touch' = [touch EXCEPT !.by.pushed = b]
    BY <1>3 DEF FingerMoves
  <2>. DEFINE by == [touch.by EXCEPT !.pushed = b]
  <2>2. touch' = [touch EXCEPT !.by = by]
    BY <1>1, <2>1
  <2>3. by \in Grips /\ \A c \in Sticks : by[c] = touch.by[c]
    BY <1>1 DEF Grips, Sticks
  <2>. HIDE DEF by
  <2>4. touch' \in [visible: BOOLEAN, by: Grips] /\ SticksAreHeld'
    BY <1>1, <1>2, <1>3, <2>2, <2>3 DEF FingerMoves
  <2>. QED  BY <1>3, <2>4 DEF FingerMoves, Hears
<1>4. CASE FingerUp(f)
  <2>1. PICK grip \in {PointerUp(touch.by, f), touch.by} : touch' = [touch EXCEPT !.by = TouchEnd(grip, f)]
    BY <1>1, <1>4 DEF FingerUp
  <2>2. grip \in Grips /\ \A c \in Sticks : grip[c] # Nobody => grip[c] \in touching
    BY <1>1, PointerUpIs
  <2>3. TouchEnd(grip, f) \in Grips
        /\ \A c \in Sticks : TouchEnd(grip, f)[c] # Nobody => TouchEnd(grip, f)[c] \in touching'
    BY <2>2, TouchEndIs, <1>4 DEF FingerUp
  <2>4. touch' \in [visible: BOOLEAN, by: Grips] /\ SticksAreHeld'
    BY <1>2, <2>1, <2>3
  <2>. QED  BY <1>4, <2>4 DEF FingerUp, Hears
<1>5. ASSUME NEW a \in Areas, FingerDown(f, a) PROVE InputKept'
  <2>1. touch' \in [visible: BOOLEAN, by: Grips] /\ SticksAreHeld'
    <3>1. touching' = touching \cup {f}
      BY <1>5 DEF FingerDown
    <3>2. CASE ~touch.visible
      BY <1>1, <1>5, <3>1, <3>2 DEF FingerDown, SticksAreHeld, Sticks
    <3>3. CASE touch.visible
      <4>1. touch' = [touch EXCEPT !.by = Taken(touch.by, f, a)]
        BY <1>1, <1>5, <3>3 DEF FingerDown
      <4>2. Taken(touch.by, f, a) \in Grips
            /\ \A c \in Sticks : Taken(touch.by, f, a)[c] # Nobody => Taken(touch.by, f, a)[c] \in touching'
        BY <1>1, <3>1, TakenIs
      <4>. QED  BY <1>2, <4>1, <4>2
    <3>. QED  BY <3>2, <3>3
  <2>2. UNCHANGED <<keyboard, menu, heard>> \/ MenuOpened
    BY <1>5 DEF FingerDown
  <2>3. UNCHANGED <<held, focused, running, status, tankAlive>>
    BY <1>5 DEF FingerDown
  <2>4. CASE UNCHANGED <<keyboard, menu, heard>>
    BY <2>1, <2>3, <2>4 DEF Hears
  <2>5. CASE MenuOpened
    <3>1. keyboard' = Silent /\ menu' = TRUE /\ heard' = IF Hears THEN Neutral ELSE heard
      BY <2>5 DEF MenuOpened, Rested
    <3>2. keyboard' \in Presses /\ keyboard'.down \subseteq held' /\ keyboard'.down = {}
      BY <3>1, SilentIs
    <3>3. (menu /\ Hears => heard = Neutral)'
      BY <2>3, <3>1 DEF Hears
    <3>. QED  BY <2>1, <3>1, <3>2, <3>3
  <2>. QED  BY <2>2, <2>4, <2>5
<1>. QED  BY <1>3, <1>4, <1>5

LEMMA KeysKeep ==
    ASSUME InputKept, NEW k \in Keys \cup {Dash}, KeyDown(k) \/ KeyUp(k)
    PROVE  InputKept'
<1>1. keyboard \in Presses /\ keyboard.down \subseteq held /\ (~Receives => keyboard.down = {})
  BY DEF InputKept, InputTypes, KeysRest, ControlsLetGo, KeysAreHeld
<1>2. UNCHANGED <<touching, touch, menu, focused, running, status, tankAlive, heard>>
  BY DEF KeyDown, KeyUp
<1>. SUFFICES keyboard' \in Presses /\ keyboard'.down \subseteq held' /\ (~Receives => keyboard'.down = {})
  BY <1>2 DEF InputKept, InputTypes, KeysRest, Receives, ControlsLetGo, SticksAreHeld, KeysAreHeld, MenuRests, Hears
<1>3. CASE KeyDown(k)
  <2>. DEFINE just == keyboard.just \/ k = Dash
              pressed == [down |-> keyboard.down \cup {k}, just |-> just]
  <2>1. just \in BOOLEAN
    OBVIOUS
  <2>. HIDE DEF just
  <2>2. pressed \in Presses /\ pressed.down = keyboard.down \cup {k}
    BY <1>1, <2>1 DEF Presses
  <2>3. held' = held \cup {k} /\ keyboard' \in {keyboard, pressed} /\ (~Receives => keyboard' = keyboard)
    BY <1>3 DEF KeyDown, just
  <2>. HIDE DEF pressed
  <2>. QED  BY <1>1, <2>2, <2>3
<1>4. CASE KeyUp(k)
  <2>. DEFINE just == keyboard.just /\ k # Dash
              pressed == [down |-> keyboard.down \ {k}, just |-> just]
  <2>1. just \in BOOLEAN
    OBVIOUS
  <2>. HIDE DEF just
  <2>2. pressed \in Presses /\ pressed.down = keyboard.down \ {k}
    BY <1>1, <2>1 DEF Presses
  <2>3. held' = held \ {k} /\ (Receives => keyboard' = pressed) /\ (~Receives => keyboard' = keyboard)
    BY <1>4 DEF KeyUp, just
  <2>. HIDE DEF pressed
  <2>. QED  BY <1>1, <2>2, <2>3
<1>. QED  BY <1>3, <1>4

LEMMA MenuKeeps ==
    ASSUME InputKept, MenuOpens \/ MenuCloses \/ Suspends \/ Resumes \/ RoundSnapshot
    PROVE  InputKept'
<1>1. UNCHANGED <<touching, held, touch>> /\ keyboard' \in {keyboard, Silent}
  BY DEF MenuOpens, MenuOpened, MenuCloses, Suspends, Resumes, RoundSnapshot
<1>2. keyboard' \in Presses /\ keyboard'.down \subseteq held'
  BY <1>1, SilentIs DEF InputKept, InputTypes, ControlsLetGo, KeysAreHeld
<1>3. menu' \in BOOLEAN
  BY DEF InputKept, InputTypes, MenuOpens, MenuOpened, MenuCloses, Suspends, Resumes, RoundSnapshot
<1>4. KeysRest'
  BY SilentIs DEF InputKept, KeysRest, Receives,
     MenuOpens, MenuOpened, MenuCloses, Suspends, Resumes, RoundSnapshot
<1>5. MenuRests'
  BY DEF InputKept, ControlsLetGo, MenuRests, Hears, Rested,
     MenuOpens, MenuOpened, MenuCloses, Suspends, Resumes, RoundSnapshot
<1>. QED  BY <1>1, <1>2, <1>3, <1>4, <1>5 DEF InputKept, InputTypes, ControlsLetGo, SticksAreHeld, KeysAreHeld

LEMMA FrameKeeps ==
    ASSUME InputKept, InputFrame PROVE InputKept'
<1>1. Released \in Grips /\ \A c \in Sticks : Released[c] = Nobody
  BY DEF Released, Grips, Holders, Sticks
<1>2. /\ touch \in [visible: BOOLEAN, by: Grips]
      /\ \A c \in Sticks : touch.by[c] # Nobody => touch.by[c] \in touching
  BY DEF InputKept, InputTypes, ControlsLetGo, SticksAreHeld, Sticks
<1>3. Shown \in [visible: BOOLEAN, by: Grips]
      /\ \A c \in Sticks : Shown.by[c] # Nobody => Shown.by[c] \in touching
  BY <1>1, <1>2 DEF Shown
<1>. DEFINE by == [Shown.by EXCEPT !.pending = FALSE]
<1>4. by \in Grips /\ \A c \in Sticks : by[c] = Shown.by[c]
  BY <1>3 DEF Grips, Sticks
<1>5. touch' = [Shown EXCEPT !.by = by]
  BY <1>3 DEF InputFrame
<1>. HIDE DEF by
<1>6. touch' \in [visible: BOOLEAN, by: Grips] /\ touch'.by = by
  BY <1>3, <1>4, <1>5
<1>7. SticksAreHeld'
  <2>1. touching' = touching /\ \A c \in Sticks : touch'.by[c] = Shown.by[c]
    BY <1>4, <1>6 DEF InputFrame
  <2>. QED  BY <1>3, <2>1 DEF SticksAreHeld, Sticks
<1>. DEFINE seen == [keyboard EXCEPT !.just = FALSE]
<1>8. keyboard \in Presses /\ seen \in Presses /\ seen.down = keyboard.down
  BY DEF InputKept, InputTypes, Presses
<1>9. keyboard' \in {keyboard, seen} /\ UNCHANGED <<held, menu, focused, running>>
  BY DEF InputFrame
<1>. HIDE DEF seen
<1>10. MenuRests'
  <2>1. menu => Input(Shown.by) = Neutral
    BY DEF Input, Neutral
  <2>2. UNCHANGED <<menu, status, tankAlive>> /\ heard' = IF Hears THEN Input(Shown.by) ELSE heard
    BY DEF InputFrame
  <2>. QED  BY <2>1, <2>2 DEF MenuRests, Hears
<1>. QED  BY <1>6, <1>7, <1>8, <1>9, <1>10 DEF InputKept, InputTypes, KeysRest, Receives, ControlsLetGo, KeysAreHeld

LEMMA InputInductive == InputKept /\ [InputNext]_inputVars => InputKept'
<1>1. InputKept /\ UNCHANGED inputVars => InputKept'
  BY DEF inputVars, InputKept, InputTypes, KeysRest, Receives, ControlsLetGo, SticksAreHeld, KeysAreHeld,
         MenuRests, Hears
<1>. QED  BY <1>1, FingersKeep, KeysKeep, MenuKeeps, FrameKeeps DEF InputNext
-----------------------------------------------------------------------------
(* The page of a round.  Full screen that is still asked for when the page is left  *)
(* was asked for before.                                                            *)

ScreenTypes == display \in [full: BOOLEAN, locked: BOOLEAN, leaving: BOOLEAN]

LateIsNoted == page = "gone" /\ asking = "full" => late

ScreenKept == ScreenTypes /\ LateIsNoted /\ GameFits /\ DisplayIsReleased

LEMMA ScreenBegins == ScreenInit => ScreenKept
BY DEF ScreenInit, ScreenKept, ScreenTypes, LateIsNoted, GameFits, DisplayIsReleased

LEMMA ScreenInductive == ScreenKept /\ [ScreenNext]_screenVars => ScreenKept'
<1>. SUFFICES ASSUME ScreenKept, [ScreenNext]_screenVars PROVE ScreenKept'
  OBVIOUS
<1>. USE DEF ScreenKept, ScreenTypes, LateIsNoted, GameFits, DisplayIsReleased
<1>1. CASE ScreenOpens \/ LanguageLoaded \/ FirstTouch
  BY <1>1 DEF ScreenOpens, LanguageLoaded, FirstTouch, Refresh
<1>2. CASE ScreenIsClosed
  <2>1. display' = [display EXCEPT !.locked = FALSE, !.leaving = display.full]
    BY <1>2 DEF ScreenIsClosed, ReleaseDisplay
  <2>2. ScreenTypes' /\ (display'.leaving \/ ~(display'.full \/ display'.locked))
    BY <2>1
  <2>3. page' = "gone" /\ ~frame' /\ ~settle' /\ late' = (asking = "full") /\ asking' = asking
    BY <1>2 DEF ScreenIsClosed, ResizerDestroyed
  <2>. QED  BY <2>2, <2>3
<1>3. CASE FrameDrawn \/ SettleTimer
  BY <1>3 DEF FrameDrawn, SettleTimer, Refresh
<1>4. CASE FullscreenEnds
  BY <1>4 DEF FullscreenEnds, OnViewportChange, Refresh
<1>5. ASSUME NEW v \in Extents, Resizes(v) \/ SizeSettles(v) PROVE ScreenKept'
  BY <1>5 DEF Resizes, SizeSettles, OnViewportChange, Refresh
<1>6. ASSUME NEW granted \in BOOLEAN, FullscreenAnswers(granted) PROVE ScreenKept'
  <2>. DEFINE filled == [display EXCEPT !.full = TRUE]
  <2>1. asking = "full" /\ UNCHANGED <<page, visible, fitted, late>> /\ asking' # "full"
    BY <1>6 DEF FullscreenAnswers
  <2>2. filled \in [full: BOOLEAN, locked: BOOLEAN, leaving: BOOLEAN]
    OBVIOUS
  <2>3. display' \in {display, filled}
    BY <1>6 DEF FullscreenAnswers
  <2>4. \/ UNCHANGED <<frame, settle>>
        \/ page \in {"loading", "playing"} /\ frame' /\ settle'
    BY <1>6 DEF FullscreenAnswers, OnViewportChange, Refresh
  <2>. HIDE DEF filled
  <2>5. ScreenTypes' /\ LateIsNoted'
    BY <2>1, <2>2, <2>3
  <2>6. GameFits'
    BY <2>1, <2>4
  <2>7. CASE page = "gone"
    <3>1. UNCHANGED <<frame, settle>> /\ late
      BY <2>1, <2>4, <2>7
    <3>. QED  BY <2>1, <2>5, <2>6, <2>7, <3>1
  <2>. QED  BY <2>1, <2>5, <2>6, <2>7
<1>7. ASSUME NEW granted \in BOOLEAN, LockAnswers(granted) PROVE ScreenKept'
  <2>1. asking' = "no" /\ UNCHANGED <<page, visible, fitted, frame, settle, late>> /\ (granted => display.full)
    BY <1>7 DEF LockAnswers
  <2>. DEFINE lock == display.locked \/ granted
              turned == [display EXCEPT !.locked = lock]
  <2>2. lock \in BOOLEAN /\ display' = turned
    BY <1>7 DEF LockAnswers
  <2>3. lock => display.locked \/ display.full
    BY <2>1
  <2>. HIDE DEF lock
  <2>4. turned \in [full: BOOLEAN, locked: BOOLEAN, leaving: BOOLEAN] /\ turned.locked = lock
        /\ turned.full = display.full /\ turned.leaving = display.leaving
    BY <2>2
  <2>. QED  BY <2>1, <2>2, <2>3, <2>4
<1>8. CASE UNCHANGED screenVars
  BY <1>8 DEF screenVars
<1>. QED  BY <1>1, <1>2, <1>3, <1>4, <1>5, <1>6, <1>7, <1>8 DEF ScreenNext

-----------------------------------------------------------------------------
(* The device behind the sounds. *)

DeviceTypes == recovery \in [Recoveries -> {"none", "suspend", "resume"}]

\* While the page is hidden, what is under way began before.
HiddenIsNoted ==
    hidden => /\ needs \/ overlaps
              /\ UnderWay => overlaps
              /\ ~timer

DeviceKept == DeviceTypes /\ HiddenIsNoted /\ DeviceRecovers

LEMMA DeviceBegins == DeviceInit => DeviceKept
BY DEF DeviceInit, DeviceKept, DeviceTypes, HiddenIsNoted, DeviceRecovers

LEMMA DeviceInductive == DeviceKept /\ [DeviceNext]_deviceVars => DeviceKept'
<1>. SUFFICES ASSUME DeviceKept, [DeviceNext]_deviceVars PROVE DeviceKept'
  OBVIOUS
<1>. USE DEF DeviceKept, DeviceTypes, HiddenIsNoted, DeviceRecovers, UnderWay, Idle
<1>1. CASE DeviceTaken \/ UNCHANGED deviceVars
  BY <1>1 DEF DeviceTaken, deviceVars
<1>5. CASE PageShown
  BY <1>5 DEF PageShown
<1>6. CASE PageHidden
  <2>1. needs' /\ ~timer' /\ UNCHANGED <<device, recovery>> /\ (UnderWay => overlaps')
    BY <1>6, Zenon DEF PageHidden
  <2>. QED  BY <2>1
<1>3. ASSUME NEW r \in Recoveries, TimerFires(r) \/ Gesture(r) PROVE DeviceKept'
  <2>1. ~hidden' /\ UNCHANGED <<device, overlaps>>
    BY <1>3 DEF TimerFires, Gesture, Recover
  <2>2. \/ recovery' \in {[recovery EXCEPT ![r] = "suspend"], [recovery EXCEPT ![r] = "resume"]}
        \/ ~needs /\ ~needs' /\ UNCHANGED recovery
    BY <1>3 DEF TimerFires, Gesture, Recover
  <2>3. CASE recovery' \in {[recovery EXCEPT ![r] = "suspend"], [recovery EXCEPT ![r] = "resume"]}
    BY <2>1, <2>3
  <2>. QED  BY <2>1, <2>2, <2>3
<1>4. ASSUME NEW r \in Recoveries, SuspendEnds(r) \/ ResumeEnds(r) \/ RecoveryFails(r) PROVE DeviceKept'
  <2>1. recovery' \in [Recoveries -> {"none", "suspend", "resume"}] /\ UNCHANGED <<hidden, timer, overlaps>>
        /\ UnderWay
    BY <1>4 DEF SuspendEnds, ResumeEnds, RecoveryFails
  <2>2. device'.silent = FALSE \/ (device' = device /\ needs' = TRUE)
    BY <1>4 DEF SuspendEnds, ResumeEnds, RecoveryFails, Rejected
  <2>3. hidden => overlaps
    BY <2>1
  <2>. QED  BY <2>1, <2>2, <2>3
<1>. QED  BY <1>1, <1>3, <1>4, <1>5, <1>6 DEF DeviceNext
-----------------------------------------------------------------------------
(* The scene.  The last snapshot of a round has everybody alive who still is, and    *)
(* the tracker remembers whom it drew alive until he exploded.                       *)

Shot == [alive: SUBSET Everybody, dead: SUBSET Everybody, status: {"none", "playing", "finished"}]
Followed == [open: BOOLEAN, joined: BOOLEAN, out: BOOLEAN, spectating: BOOLEAN,
             target: Everybody \cup {"none"}, free: BOOLEAN, dragged: BOOLEAN,
             follows: BOOLEAN, leaves: BOOLEAN]

SceneTypes ==
    /\ played \in [alive: SUBSET Everybody, dead: SUBSET Everybody,
                   status: {"playing", "finished"}, parted: SUBSET Everybody]
    /\ scene \in Followed
    /\ latest \in Shot
    /\ memory \in [drawn: Shot, known: SUBSET Everybody]
    /\ told \in [alive: SUBSET Everybody, exploded: SUBSET Everybody]

\* What the tracker has to know.
Remembered ==
    /\ played.alive \cap played.parted = {}
    /\ scene.joined /\ latest # Unseen => played.alive \subseteq latest.alive
    /\ memory.drawn.alive \subseteq memory.known \cup told.exploded

\* The spectator of a scene that is closed or plays.
Spectates ==
    /\ scene.spectating => scene.out
    /\ scene.free => scene.target = "none"
    /\ ~scene.open => ~scene.joined /\ ~scene.spectating

SceneKept == SceneTypes /\ Remembered /\ Spectates /\ TanksExplode /\ CameraFollows

LEMMA PlayersAre ==
    /\ Players \in Seq(STRING) /\ Everybody = {Players[i] : i \in DOMAIN Players}
    /\ Len(Players) \in Nat /\ DOMAIN Players = 1 .. Len(Players) /\ "none" \notin Everybody
BY PlayersAssumption DEF Everybody, ToSet

\* Somebody alive is found exactly when there is one.
LEMMA NextAliveIs ==
    ASSUME NEW s \in Shot, NEW current, NEW direction \in {1, -1}
    PROVE  /\ NextAlive(s, current, direction) \in s.alive \cup {"none"}
           /\ NextAlive(s, current, direction) = "none" <=> s.alive = {}
<1>. DEFINE living == {i \in DOMAIN Players : Players[i] \in s.alive}
            from   == CASE current \in s.alive \cup s.dead -> CHOOSE i \in DOMAIN Players : Players[i] = current
                        [] direction = 1 -> 0
                        [] OTHER         -> Len(Players) + 1
            beyond == {i \in living : i * direction > from * direction}
            among  == IF beyond = {} THEN living ELSE beyond
<1>1. s.alive \subseteq Everybody /\ "none" \notin s.alive
  BY PlayersAre DEF Shot
<1>2. living = {} <=> s.alive = {}
  BY <1>1, PlayersAre
<1>3. NextAlive(s, current, direction) =
          IF living = {} THEN "none" ELSE Players[IF direction = 1 THEN Min(among) ELSE Max(among)]
  BY DEF NextAlive
<1>. HIDE DEF from
<1>4. among \subseteq living /\ (living # {} => among # {})
  OBVIOUS
<1>5. among \subseteq Nat /\ among \subseteq 0 .. Len(Players)
  BY <1>4, PlayersAre
<1>. HIDE DEF among
<1>6. ASSUME living # {}
      PROVE  Players[IF direction = 1 THEN Min(among) ELSE Max(among)] \in s.alive
  <2>1. Min(among) \in among /\ Max(among) \in among
    BY <1>4, <1>5, <1>6, LeastOf, GreatestOf, PlayersAre
  <2>. QED  BY <1>4, <2>1
<1>. QED  BY <1>1, <1>2, <1>3, <1>6

LEMMA SceneBegins == SceneInit => SceneKept
<1>. SUFFICES ASSUME SceneInit PROVE SceneKept
  OBVIOUS
<1>1. /\ Closed \in Followed /\ Closed.joined = FALSE /\ Closed.spectating = FALSE
      /\ Closed.follows = TRUE /\ Closed.target = "none"
  BY DEF Closed, Fresh, Followed
<1>2. Unseen \in Shot /\ Unseen.alive = {}
  BY DEF Unseen, Shot
<1>3. SceneTypes
  BY <1>1, <1>2 DEF SceneInit, SceneTypes, NothingDrawn, Untold
<1>4. Remembered /\ TanksExplode
  BY <1>1, <1>2 DEF SceneInit, Remembered, TanksExplode, NothingDrawn, Untold
<1>5. Spectates /\ CameraFollows
  BY <1>1, <1>2 DEF SceneInit, Spectates, CameraFollows
<1>. QED  BY <1>3, <1>4, <1>5 DEF SceneKept

\* The round goes on.
LEMMA RoundsGoOn ==
    ASSUME SceneKept, NEW p \in Everybody, Falls(p) \/ Departs(p) PROVE SceneKept'
<1>1. UNCHANGED clientVars
  BY DEF Falls, Departs
<1>2. /\ played' \in [alive: SUBSET Everybody, dead: SUBSET Everybody,
                      status: {"playing", "finished"}, parted: SUBSET Everybody]
      /\ played'.alive \subseteq played.alive /\ played'.alive \cap played'.parted = {}
  <2>. DEFINE fallen == [played EXCEPT !.alive = @ \ {p}, !.dead = @ \cup {p}]
              gone   == [played EXCEPT !.alive = @ \ {p}, !.dead = @ \ {p}, !.parted = @ \cup {p}]
  <2>1. played' = fallen \/ played' = gone
    BY DEF Falls, Departs
  <2>2. /\ fallen \in [alive: SUBSET Everybody, dead: SUBSET Everybody,
                       status: {"playing", "finished"}, parted: SUBSET Everybody]
        /\ fallen.alive = played.alive \ {p} /\ fallen.parted = played.parted
    BY DEF SceneKept, SceneTypes
  <2>3. /\ gone \in [alive: SUBSET Everybody, dead: SUBSET Everybody,
                     status: {"playing", "finished"}, parted: SUBSET Everybody]
        /\ gone.alive = played.alive \ {p} /\ gone.parted = played.parted \cup {p}
    BY DEF SceneKept, SceneTypes
  <2>. HIDE DEF fallen, gone
  <2>. QED  BY <2>1, <2>2, <2>3 DEF SceneKept, Remembered
<1>. QED  BY <1>1, <1>2 DEF clientVars, SceneKept, SceneTypes, Remembered, Spectates, TanksExplode, CameraFollows

\* The scene opens, closes, or joins a round.
LEMMA SceneStartsAnew ==
    ASSUME SceneKept, OpenScene \/ CloseScene \/ Joined PROVE SceneKept'
<1>. DEFINE joined == [Fresh EXCEPT !.joined = TRUE, !.leaves = scene.leaves]
<1>1. /\ Closed \in Followed /\ Closed.joined = FALSE /\ Closed.spectating = FALSE
      /\ Closed.follows = TRUE /\ Closed.target = "none"
  BY DEF Closed, Fresh, Followed
<1>2. /\ Fresh \in Followed /\ Fresh.open = TRUE /\ Fresh.spectating = FALSE
      /\ Fresh.follows = TRUE /\ Fresh.target = "none"
  BY DEF Fresh, Followed
<1>3. scene.leaves \in BOOLEAN
  BY DEF SceneKept, SceneTypes, Followed
<1>4. /\ joined \in Followed /\ joined.open = TRUE /\ joined.spectating = FALSE
      /\ joined.follows = TRUE /\ joined.target = "none"
  BY <1>3 DEF Fresh, Followed
<1>5. Unseen \in Shot /\ Unseen.alive = {} /\ NothingDrawn.drawn = Unseen /\ NothingDrawn.known = {}
      /\ NothingDrawn \in [drawn: Shot, known: SUBSET Everybody]
      /\ Untold \in [alive: SUBSET Everybody, exploded: SUBSET Everybody]
      /\ Untold.alive = {} /\ Untold.exploded = {}
  BY DEF Unseen, Shot, NothingDrawn, Untold
<1>6. /\ played' \in [alive: SUBSET Everybody, dead: SUBSET Everybody,
                      status: {"playing", "finished"}, parted: SUBSET Everybody]
      /\ played'.alive \cap played'.parted = {}
  BY DEF OpenScene, CloseScene, Joined, SceneKept, SceneTypes, Remembered
<1>. HIDE DEF joined
<1>7. CASE CloseScene
  <2>1. scene' = Closed /\ host' = [button |-> FALSE] /\ UNCHANGED <<played, latest, memory, told>>
    BY <1>7 DEF CloseScene
  <2>2. SceneTypes'
    BY <1>1, <1>6, <2>1 DEF SceneKept, SceneTypes
  <2>3. Remembered' /\ TanksExplode'
    BY <1>1, <1>6, <2>1 DEF SceneKept, Remembered, TanksExplode
  <2>4. Spectates' /\ CameraFollows'
    BY <1>1, <2>1 DEF Spectates, CameraFollows
  <2>. QED  BY <2>2, <2>3, <2>4 DEF SceneKept
<1>8. CASE OpenScene \/ Joined
  <2>1. latest' = Unseen /\ memory' = NothingDrawn /\ told' = Untold
    BY <1>8 DEF OpenScene, Joined
  <2>2. \/ scene' = Fresh /\ ~scene.open /\ host' = host
        \/ scene' = joined /\ host' = [button |-> FALSE]
    BY <1>8 DEF OpenScene, Joined, joined
  <2>3. host'.button = FALSE
    BY <2>2 DEF SceneKept, Spectates, CameraFollows, SceneTypes, Followed
  <2>4. /\ scene' \in Followed /\ scene'.spectating = FALSE /\ scene'.follows = TRUE
        /\ scene'.target = "none" /\ scene'.open = TRUE
    BY <1>2, <1>4, <2>2
  <2>5. SceneTypes'
    BY <1>5, <1>6, <2>1, <2>4 DEF SceneTypes
  <2>6. Remembered' /\ TanksExplode'
    BY <1>5, <1>6, <2>1 DEF Remembered, TanksExplode
  <2>7. Spectates' /\ CameraFollows'
    BY <2>3, <2>4 DEF Spectates, CameraFollows
  <2>. QED  BY <2>5, <2>6, <2>7 DEF SceneKept
<1>. QED  BY <1>7, <1>8

\* The viewer steers the camera, or the round ends.
LEMMA CameraMoves ==
    ASSUME SceneKept, Ends \/ DragStarts \/ DragEnds \/ \E direction \in {1, -1} : Cycle(direction)
    PROVE  SceneKept'
<1>1. /\ UNCHANGED <<latest, memory, host, told>>
      /\ played' \in [alive: SUBSET Everybody, dead: SUBSET Everybody,
                      status: {"playing", "finished"}, parted: SUBSET Everybody]
      /\ played'.alive = played.alive /\ played'.parted = played.parted
  BY DEF Ends, DragStarts, DragEnds, Cycle, SceneKept, SceneTypes
<1>2. scene \in Followed /\ scene.target \in Everybody \cup {"none"} /\ memory.drawn \in Shot
  BY DEF SceneKept, SceneTypes, Followed
<1>3. ASSUME /\ scene' \in Followed /\ scene'.open = scene.open /\ scene'.joined = scene.joined
             /\ scene'.out = scene.out /\ scene'.spectating = scene.spectating
             /\ \/ scene'.follows = scene.follows /\ scene'.target = scene.target /\ scene'.free = scene.free
                \/ /\ scene.spectating /\ scene'.follows /\ scene'.target # "none" /\ ~scene'.free
                   /\ scene'.target \in memory.drawn.alive
                \/ scene.spectating /\ ~scene'.follows /\ scene'.target = "none" /\ scene'.free
      PROVE  SceneKept'
  BY <1>1, <1>2, <1>3 DEF SceneKept, SceneTypes, Remembered, Spectates, TanksExplode, CameraFollows, Followed
<1>4. CASE Ends
  <2>. DEFINE sc == [scene EXCEPT !.leaves = scene.open]
  <2>1. scene' = sc
    BY <1>4 DEF Ends
  <2>2. /\ sc \in Followed /\ sc.open = scene.open /\ sc.joined = scene.joined /\ sc.out = scene.out
        /\ sc.spectating = scene.spectating /\ sc.follows = scene.follows
        /\ sc.target = scene.target /\ sc.free = scene.free
    BY <1>2 DEF Followed
  <2>. QED  BY <1>3, <2>1, <2>2
<1>5. CASE DragStarts
  <2>. DEFINE sc == [scene EXCEPT !.dragged = TRUE, !.free = TRUE, !.target = "none", !.follows = FALSE]
  <2>1. scene' = sc /\ scene.spectating
    BY <1>5 DEF DragStarts
  <2>2. /\ sc \in Followed /\ sc.open = scene.open /\ sc.joined = scene.joined /\ sc.out = scene.out
        /\ sc.spectating = scene.spectating /\ ~sc.follows /\ sc.target = "none" /\ sc.free
    BY <1>2 DEF Followed
  <2>. QED  BY <1>3, <2>1, <2>2
<1>6. CASE DragEnds
  <2>. DEFINE sc == [scene EXCEPT !.dragged = FALSE]
  <2>1. scene' = sc
    BY <1>6 DEF DragEnds
  <2>2. /\ sc \in Followed /\ sc.open = scene.open /\ sc.joined = scene.joined /\ sc.out = scene.out
        /\ sc.spectating = scene.spectating /\ sc.follows = scene.follows
        /\ sc.target = scene.target /\ sc.free = scene.free
    BY <1>2 DEF Followed
  <2>. QED  BY <1>3, <2>1, <2>2
<1>7. ASSUME NEW direction \in {1, -1}, Cycle(direction) PROVE SceneKept'
  <2>. DEFINE next == NextAlive(memory.drawn, scene.target, direction)
              sc == [scene EXCEPT !.free = FALSE, !.target = next, !.follows = TRUE]
  <2>1. scene' = sc /\ scene.spectating /\ next # "none"
    BY <1>7 DEF Cycle
  <2>2. next \in memory.drawn.alive /\ next \in Everybody
    BY <1>2, <2>1, NextAliveIs DEF Shot
  <2>. HIDE DEF next
  <2>3. /\ sc \in Followed /\ sc.open = scene.open /\ sc.joined = scene.joined /\ sc.out = scene.out
        /\ sc.spectating = scene.spectating /\ sc.follows /\ sc.target = next /\ ~sc.free
    BY <1>2, <2>2 DEF Followed
  <2>. QED  BY <1>3, <2>1, <2>2, <2>3
<1>. QED  BY <1>4, <1>5, <1>6, <1>7

\* A snapshot arrives, or the message that somebody was disconnected.
LEMMA MessagesArrive ==
    ASSUME SceneKept, OnGameState \/ \E p \in Everybody : OnPlayerDisconnected(p) PROVE SceneKept'
<1>1. CASE OnGameState
  <2>. DEFINE shot == [alive |-> played.alive, dead |-> played.dead, status |-> played.status]
  <2>1. latest' = shot /\ UNCHANGED <<played, scene, memory, host, told>>
    BY <1>1 DEF OnGameState
  <2>2. shot \in Shot /\ shot.alive = played.alive
    BY DEF SceneKept, SceneTypes, Shot
  <2>. HIDE DEF shot
  <2>. QED  BY <2>1, <2>2 DEF SceneKept, SceneTypes, Remembered, Spectates, TanksExplode, CameraFollows
<1>2. ASSUME NEW p \in Everybody, OnPlayerDisconnected(p) PROVE SceneKept'
  <2>. DEFINE left   == [played EXCEPT !.parted = @ \ {p}]
              bang   == [told EXCEPT !.exploded = @ \cup Forgotten(p)]
              others == [memory EXCEPT !.known = @ \ {p}]
  <2>1. played' = left /\ told' = bang /\ memory' = others /\ UNCHANGED <<scene, latest, host>>
        /\ p \in played.parted
    BY <1>2 DEF OnPlayerDisconnected
  <2>2. /\ left \in [alive: SUBSET Everybody, dead: SUBSET Everybody,
                     status: {"playing", "finished"}, parted: SUBSET Everybody]
        /\ left.alive = played.alive /\ left.parted = played.parted \ {p}
    BY DEF SceneKept, SceneTypes
  <2>3. /\ bang \in [alive: SUBSET Everybody, exploded: SUBSET Everybody]
        /\ bang.alive = told.alive /\ bang.exploded = told.exploded \cup (memory.known \cap {p})
    BY DEF SceneKept, SceneTypes, Forgotten
  <2>4. /\ others \in [drawn: Shot, known: SUBSET Everybody]
        /\ others.drawn = memory.drawn /\ others.known = memory.known \ {p}
    BY DEF SceneKept, SceneTypes
  <2>. HIDE DEF left, bang, others
  <2>5. SceneTypes' /\ Remembered' /\ Spectates'
    BY <2>1, <2>2, <2>3, <2>4 DEF SceneKept, SceneTypes, Remembered, Spectates
  <2>6. TanksExplode' /\ CameraFollows'
    BY <2>1, <2>2, <2>3, <2>4 DEF SceneKept, SceneTypes, Remembered, TanksExplode, CameraFollows
  <2>. QED  BY <2>5, <2>6 DEF SceneKept
<1>. QED  BY <1>1, <1>2

\* The scene as it is drawn: whoever is out follows somebody alive.
LEMMA FollowingIs ==
    ASSUME NEW sc \in Followed, NEW s \in Shot, sc.spectating,
           sc.follows = (sc.target # "none"),
           sc.free => sc.target = "none"
    PROVE  LET f == Following(sc, s)
           IN  /\ f \in Followed /\ f.open = sc.open /\ f.joined = sc.joined /\ f.out = sc.out
               /\ f.spectating /\ (f.free => f.target = "none")
               /\ f.follows = (f.target # "none") /\ f.target \in s.alive \cup {"none"}
               /\ ~f.follows => f.free \/ s.alive = {}
<1>. DEFINE next == NextAlive(s, sc.target, 1)
            watch == next # "none"
            f == [sc EXCEPT !.target = next, !.follows = watch]
<1>1. next \in s.alive \cup {"none"} /\ (next = "none" <=> s.alive = {}) /\ s.alive \subseteq Everybody
      /\ "none" \notin s.alive /\ watch \in BOOLEAN
  BY NextAliveIs, PlayersAre DEF Shot
<1>2. Following(sc, s) = IF sc.free \/ sc.target \in s.alive THEN sc ELSE f
  BY DEF Following
<1>. HIDE DEF watch
<1>. HIDE DEF next
<1>3. /\ f \in Followed /\ f.open = sc.open /\ f.joined = sc.joined /\ f.out = sc.out
      /\ f.spectating = sc.spectating /\ f.follows = watch /\ f.target = next
      /\ f.free = sc.free
  BY <1>1 DEF Followed
<1>. HIDE DEF f
<1>4. CASE sc.free \/ sc.target \in s.alive
  <2>1. Following(sc, s) = sc
    BY <1>2, <1>4
  <2>. QED  BY <1>1, <1>4, <2>1
<1>5. CASE ~(sc.free \/ sc.target \in s.alive)
  <2>1. Following(sc, s) = f
    BY <1>2, <1>5
  <2>. QED  BY <1>1, <1>3, <1>5, <2>1 DEF watch
<1>. QED  BY <1>4, <1>5

LEMMA SpectatingIs ==
    ASSUME NEW sc \in Followed, NEW active \in BOOLEAN, sc.spectating => active,
           sc.spectating => sc.follows = (sc.target # "none"),
           sc.spectating \/ (sc.follows /\ sc.target = "none"),
           sc.free => sc.target = "none"
    PROVE  LET f == Spectating(sc, active)
           IN  /\ f \in Followed /\ f.open = sc.open /\ f.joined = sc.joined /\ f.out = sc.out
               /\ f.spectating = active /\ (f.free => f.target = "none")
               /\ active => f.follows = (f.target # "none")
               /\ ~active => f.follows /\ f.target = "none"
<1>. DEFINE watch == sc.follows /\ ~active
            f == [sc EXCEPT !.spectating = active, !.target = "none", !.free = FALSE, !.dragged = FALSE,
                            !.follows = watch]
<1>1. CASE sc.spectating = active
  <2>1. Spectating(sc, active) = sc
    BY <1>1 DEF Spectating
  <2>. QED  BY <1>1, <2>1
<1>2. CASE ~sc.spectating /\ active
  <2>1. Spectating(sc, active) = f
    BY <1>2 DEF Spectating
  <2>2. watch = FALSE
    BY <1>2
  <2>. HIDE DEF watch
  <2>3. /\ f \in Followed /\ f.open = sc.open /\ f.joined = sc.joined /\ f.out = sc.out
        /\ f.spectating = active /\ f.free = FALSE /\ f.target = "none" /\ f.follows = FALSE
    BY <2>2 DEF Followed
  <2>. HIDE DEF f
  <2>. QED  BY <1>2, <2>1, <2>3
<1>3. sc.spectating \in BOOLEAN
  BY DEF Followed
<1>. QED  BY <1>1, <1>2, <1>3

LEMMA DrawingKeeps ==
    ASSUME SceneKept, DrawScene PROVE SceneKept'
<1>. DEFINE out == scene.out \/ (latest.status = "playing" /\ Viewer \in latest.dead)
            seen == [scene EXCEPT !.out = out]
            sc   == Spectating(seen, out)
            bang == [alive |-> told.alive \cup latest.alive, exploded |-> told.exploded \cup Exploding(latest)]
            noted == [drawn |-> latest, known |-> latest.alive \cup latest.dead]
<1>1. /\ scene.joined /\ latest # Unseen
      /\ scene' = IF out THEN Following(sc, latest) ELSE sc
      /\ host' = [button |-> out] /\ told' = bang /\ memory' = noted /\ UNCHANGED <<played, latest>>
  BY DEF DrawScene
<1>2. latest \in Shot /\ scene \in Followed /\ out \in BOOLEAN
  BY DEF SceneKept, SceneTypes, Followed
<1>3. scene.spectating => out
  BY DEF SceneKept, Spectates
<1>. HIDE DEF out
<1>4. /\ seen \in Followed /\ seen.open = scene.open /\ seen.joined = scene.joined /\ seen.out = out
      /\ seen.spectating = scene.spectating /\ seen.follows = scene.follows
      /\ seen.target = scene.target /\ seen.free = scene.free
  BY <1>2 DEF Followed
<1>. HIDE DEF seen
<1>5. /\ sc \in Followed /\ sc.open = scene.open /\ sc.joined = scene.joined /\ sc.out = out
      /\ sc.spectating = out /\ (sc.free => sc.target = "none")
      /\ out => sc.follows = (sc.target # "none")
      /\ ~out => sc.follows /\ sc.target = "none"
  <2>1. /\ seen.spectating => out
        /\ seen.spectating => seen.follows = (seen.target # "none")
        /\ seen.spectating \/ (seen.follows /\ seen.target = "none")
        /\ seen.free => seen.target = "none"
    BY <1>3, <1>4 DEF SceneKept, Spectates, CameraFollows
  <2>. QED  BY <1>2, <1>4, <2>1, SpectatingIs
<1>. HIDE DEF sc
<1>6. /\ scene' \in Followed /\ scene'.open = scene.open /\ scene'.joined = scene.joined /\ scene'.out = out
      /\ scene'.spectating = out /\ (scene'.free => scene'.target = "none")
      /\ out => /\ scene'.follows = (scene'.target # "none") /\ scene'.target \in latest.alive \cup {"none"}
                /\ ~scene'.follows => scene'.free \/ latest.alive = {}
      /\ ~out => scene'.follows /\ scene'.target = "none"
  <2>1. CASE out
    <3>1. sc.spectating
      BY <1>5, <2>1
    <3>. QED  BY <1>1, <1>2, <1>5, <2>1, <3>1, FollowingIs
  <2>2. CASE ~out
    BY <1>1, <1>5, <2>2
  <2>. QED  BY <2>1, <2>2
<1>7. /\ bang \in [alive: SUBSET Everybody, exploded: SUBSET Everybody]
      /\ noted \in [drawn: Shot, known: SUBSET Everybody]
  BY <1>2 DEF SceneKept, SceneTypes, Shot, Exploding
<1>8. bang.exploded = told.exploded \cup Exploding(latest) /\ bang.alive = told.alive \cup latest.alive
      /\ noted.drawn = latest /\ latest.alive \subseteq noted.known
  OBVIOUS
<1>. HIDE DEF bang, noted
<1>9. SceneTypes'
  BY <1>1, <1>2, <1>6, <1>7 DEF SceneKept, SceneTypes
<1>10. Remembered' /\ TanksExplode'
  BY <1>1, <1>6, <1>8 DEF SceneKept, Remembered, TanksExplode, Exploding
<1>11. Spectates' /\ CameraFollows'
  BY <1>1, <1>2, <1>6, <1>8 DEF SceneKept, Spectates, CameraFollows
<1>. QED  BY <1>9, <1>10, <1>11 DEF SceneKept

LEMMA SceneInductive == SceneKept /\ [SceneNext]_sceneVars => SceneKept'
<1>1. SceneKept /\ UNCHANGED sceneVars => SceneKept'
  BY DEF sceneVars, SceneKept, SceneTypes, Remembered, Spectates, TanksExplode, CameraFollows
<1>. QED  BY <1>1, RoundsGoOn, SceneStartsAnew, CameraMoves, MessagesArrive, DrawingKeeps
          DEF SceneNext, ReturnToLobby
-----------------------------------------------------------------------------
(* The sounds.  A sound is known by what it is played for, so that what the manager  *)
(* holds for one thing is never what it holds for another.                           *)

SoundIds == ({"ambience", "music"} \cup Shields) \X (Nat \ {0})
Loudness == Volumes \cup {0}
Looping  == [fade: {"none", "in", "out"}, to: Loudness]
Tracks   == {"none", "one", "two", "zone"}
Managers ==
    [open: BOOLEAN, volume: Loudness, last: Tracks, key: Tracks, battle: Tracks,
     previous: {"none", "waiting", "playing", "finished"},
     ambience: {NoSound} \cup ({"ambience"} \X (Nat \ {0})), music: {NoSound} \cup ({"music"} \X (Nat \ {0})),
     shields: UNION {[ts -> Shields \X (Nat \ {0})] : ts \in SUBSET Shields}]

HeldOf(a) == {a.ambience, a.music} \cup {a.shields[t] : t \in DOMAIN a.shields}

\* What is kept of a manager and the sounds.
Sounding(ss) == IsFiniteSet(DOMAIN ss) /\ DOMAIN ss \subseteq SoundIds /\ ss \in [DOMAIN ss -> Looping]
Managed(a) == a \in Managers /\ \A t \in DOMAIN a.shields : a.shields[t][1] = t
Agreed(a, ss) ==
    /\ HeldOf(a) \ {NoSound} \subseteq DOMAIN ss
    /\ \A i \in DOMAIN ss :
          IF i \in HeldOf(a) THEN ss[i].fade # "out" /\ ss[i].to = a.volume ELSE ss[i].fade = "out"
Steady(st) == st = [a |-> st.a, ss |-> st.ss] /\ Managed(st.a) /\ Sounding(st.ss) /\ Agreed(st.a, st.ss)

LEMMA NewSoundIs ==
    ASSUME NEW ss, Sounding(ss), NEW owner \in {"ambience", "music"} \cup Shields
    PROVE  /\ NewSound(ss, owner) \in SoundIds \ DOMAIN ss
           /\ NewSound(ss, owner) \in {owner} \X (Nat \ {0}) /\ NewSound(ss, owner)[1] = owner
<1>. DEFINE k == Cardinality(DOMAIN ss) + 1
            free == {n \in 1 .. k : <<owner, n>> \notin DOMAIN ss}
            named == [n \in 1 .. k |-> <<owner, n>>]
<1>1. k \in Nat /\ Cardinality(DOMAIN ss) \in Nat /\ Cardinality(DOMAIN ss) < k
  BY FS_CardinalityType DEF Sounding
<1>2. free # {}
  <2>. SUFFICES ASSUME free = {} PROVE FALSE
    OBVIOUS
  <2>1. named \in [1 .. k -> DOMAIN ss] /\ \A m, n \in 1 .. k : named[m] = named[n] => m = n
    OBVIOUS
  <2>2. named \in Injection(1 .. k, DOMAIN ss)
    BY <2>1 DEF Injection, IsInjective
  <2>3. Cardinality(1 .. k) <= Cardinality(DOMAIN ss)
    BY <2>2, FS_Injection DEF Sounding
  <2>4. Cardinality(1 .. k) = k
    BY <1>1, FS_Interval
  <2>. HIDE DEF k
  <2>. QED  BY <1>1, <2>3, <2>4
<1>3. Min(free) \in free
  <2>. HIDE DEF k
  <2>1. free \subseteq Nat
    BY <1>1
  <2>. HIDE DEF free
  <2>. QED  BY <1>2, <2>1, LeastOf
<1>4. NewSound(ss, owner) = <<owner, Min(free)>>
  BY DEF NewSound
<1>. QED  BY <1>1, <1>3, <1>4 DEF SoundIds

\* One with the sounds `ids` more, or without them.
More(tt, ss, ids, v) ==
    /\ Sounding(tt) /\ DOMAIN tt = ids \cup DOMAIN ss
    /\ \A i \in ids : tt[i] = [fade |-> "none", to |-> v]
    /\ \A i \in DOMAIN ss \ ids : tt[i] = ss[i]
Fewer(tt, ss, ids) ==
    /\ Sounding(tt) /\ DOMAIN tt = DOMAIN ss \ ids
    /\ \A i \in DOMAIN ss \ ids : tt[i] = ss[i]

LEMMA PlaysIs ==
    ASSUME NEW ss, Sounding(ss), NEW ids, ids \subseteq SoundIds, IsFiniteSet(ids), NEW v \in Loudness
    PROVE  More(Plays(ss, ids, v), ss, ids, v)
<1>1. IsFiniteSet(ids \cup DOMAIN ss)
  BY FS_Union DEF Sounding
<1>2. [fade |-> "none", to |-> v] \in Looping
  BY DEF Looping
<1>. QED  BY <1>1, <1>2 DEF Sounding, Plays, More

LEMMA WithoutIs ==
    ASSUME NEW ss, Sounding(ss), NEW ids
    PROVE  Fewer(Without(ss, ids), ss, ids)
<1>1. IsFiniteSet(DOMAIN ss \ ids)
  BY FS_Subset DEF Sounding
<1>. QED  BY <1>1 DEF Sounding, Without, Fewer

LEMMA FadesAre ==
    ASSUME NEW ss, Sounding(ss), NEW i \in DOMAIN ss, NEW v \in Loudness
    PROVE  /\ Sounding(FadeIn(ss, i, v)) /\ DOMAIN FadeIn(ss, i, v) = DOMAIN ss
           /\ FadeIn(ss, i, v)[i].fade = "in" /\ FadeIn(ss, i, v)[i].to = v
           /\ \A j \in DOMAIN ss \ {i} : FadeIn(ss, i, v)[j] = ss[j] /\ FadeOut(ss, i)[j] = ss[j]
           /\ i # NoSound =>
                  Sounding(FadeOut(ss, i)) /\ DOMAIN FadeOut(ss, i) = DOMAIN ss /\ FadeOut(ss, i)[i].fade = "out"
<1>1. [fade |-> "in", to |-> v] \in Looping /\ [fade |-> "out", to |-> 0] \in Looping
  BY DEF Looping, Loudness
<1>. QED  BY <1>1 DEF Sounding, FadeIn, FadeOut

\* What is held for different things is different.
LEMMA HeldApart ==
    ASSUME NEW a, Managed(a)
    PROVE  /\ NoSound \notin SoundIds
           /\ a.ambience = NoSound \/ a.ambience[1] = "ambience"
           /\ a.music = NoSound \/ a.music[1] = "music"
           /\ \A t \in DOMAIN a.shields : /\ t \in Shields \ {"ambience", "music", "none"}
                                          /\ a.shields[t][1] = t /\ a.shields[t] \in SoundIds
           /\ a.volume \in Loudness /\ a.open \in BOOLEAN
<1>1. PICK ts \in SUBSET Shields : a.shields \in [ts -> Shields \X (Nat \ {0})]
  BY DEF Managed, Managers
<1>. QED  BY <1>1, AudioAssumption DEF Managed, Managers, NoSound, SoundIds

LEMMA AmbienceEnsured ==
    ASSUME NEW st, Steady(st)
    PROVE  Steady(EnsureAmbience(st)) /\ EnsureAmbience(st).a.open = st.a.open
<1>1. CASE st.a.ambience # NoSound
  BY <1>1 DEF EnsureAmbience
<1>2. CASE st.a.ambience = NoSound
  <2>. DEFINE i  == NewSound(st.ss, "ambience")
              a  == [st.a EXCEPT !.ambience = i]
              ss == Plays(st.ss, {i}, st.a.volume)
  <2>1. EnsureAmbience(st) = [a |-> a, ss |-> ss]
    BY <1>2 DEF EnsureAmbience
  <2>2. i \in SoundIds \ DOMAIN st.ss /\ i \in {"ambience"} \X (Nat \ {0})
    BY NewSoundIs DEF Steady
  <2>. HIDE DEF i
  <2>3. /\ Sounding(ss) /\ DOMAIN ss = {i} \cup DOMAIN st.ss
        /\ ss[i] = [fade |-> "none", to |-> st.a.volume] /\ \A j \in DOMAIN st.ss : ss[j] = st.ss[j]
    <3>1. {i} \subseteq SoundIds /\ IsFiniteSet({i}) /\ st.a.volume \in Loudness /\ Sounding(st.ss)
      BY <2>2, HeldApart, FS_Singleton DEF Steady
    <3>2. More(ss, st.ss, {i}, st.a.volume)
      BY <3>1, PlaysIs
    <3>. QED  BY <2>2, <3>2 DEF More
  <2>4. /\ Managed(a) /\ a.ambience = i /\ a.music = st.a.music /\ a.shields = st.a.shields
        /\ a.volume = st.a.volume /\ a.open = st.a.open
    BY <2>2 DEF Steady, Managed, Managers
  <2>. HIDE DEF a, ss
  <2>5. NoSound \notin DOMAIN st.ss
    BY HeldApart DEF Steady, Sounding
  <2>6. Agreed(a, ss)
    BY <1>2, <2>2, <2>3, <2>4, <2>5 DEF Steady, Agreed, HeldOf
  <2>. QED  BY <2>1, <2>3, <2>4, <2>6 DEF Steady
<1>. QED  BY <1>1, <1>2

LEMMA MusicTurns ==
    ASSUME NEW st, Steady(st), NEW key \in Tracks
    PROVE  Steady(TransitionToMusic(st, key)) /\ TransitionToMusic(st, key).a.open = st.a.open
<1>1. CASE st.a.key = key
  BY <1>1 DEF TransitionToMusic
<1>2. CASE st.a.key # key
  <2>. DEFINE i  == NewSound(st.ss, "music")
              v  == st.a.volume
              a  == [st.a EXCEPT !.music = i, !.key = key]
              s0 == Plays(st.ss, {i}, 0)
              s1 == FadeIn(s0, i, v)
              s2 == FadeOut(s1, st.a.music)
  <2>1. TransitionToMusic(st, key) = [a |-> a, ss |-> s2]
    BY <1>2 DEF TransitionToMusic
  <2>2. i \in SoundIds \ DOMAIN st.ss /\ i \in {"music"} \X (Nat \ {0})
    BY NewSoundIs DEF Steady
  <2>3. st.a.music \in {NoSound} \cup DOMAIN st.ss /\ v \in Loudness /\ 0 \in Loudness
    BY HeldApart DEF Steady, Agreed, HeldOf, Loudness
  <2>4. NoSound \notin SoundIds
    BY HeldApart DEF Steady
  <2>. HIDE DEF i
  <2>5. More(s0, st.ss, {i}, 0)
    <3>1. {i} \subseteq SoundIds /\ IsFiniteSet({i}) /\ Sounding(st.ss)
      BY <2>2, FS_Singleton DEF Steady
    <3>. QED  BY <2>3, <3>1, PlaysIs
  <2>. HIDE DEF s0, v
  <2>6. /\ Sounding(s1) /\ DOMAIN s1 = {i} \cup DOMAIN st.ss
        /\ s1[i].fade = "in" /\ s1[i].to = v /\ \A j \in DOMAIN st.ss : s1[j] = st.ss[j]
    <3>1. Sounding(s0) /\ i \in DOMAIN s0
      BY <2>5 DEF More
    <3>2. /\ Sounding(s1) /\ DOMAIN s1 = DOMAIN s0 /\ s1[i].fade = "in" /\ s1[i].to = v
          /\ \A j \in DOMAIN s0 \ {i} : s1[j] = s0[j]
      BY <2>3, <3>1, FadesAre
    <3>. QED  BY <2>2, <2>5, <3>2 DEF More
  <2>. HIDE DEF s1
  <2>7. /\ Managed(a) /\ a.music = i /\ a.ambience = st.a.ambience /\ a.shields = st.a.shields
        /\ a.volume = v /\ a.open = st.a.open
    BY <2>2 DEF Steady, Managed, Managers, v
  <2>. HIDE DEF a
  <2>8. NoSound \notin DOMAIN st.ss
    BY <2>4 DEF Steady, Sounding
  <2>9. CASE st.a.music = NoSound
    <3>1. s2 = s1
      BY <2>9 DEF FadeOut
    <3>2. Agreed(a, s2)
      BY <2>2, <2>6, <2>7, <2>8, <2>9, <3>1 DEF Steady, Agreed, HeldOf, v
    <3>. QED  BY <2>1, <2>6, <2>7, <3>1, <3>2 DEF Steady
  <2>10. CASE st.a.music # NoSound
    <3>1. st.a.music \in DOMAIN s1
      BY <2>3, <2>6, <2>10
    <3>2. /\ Sounding(s2) /\ DOMAIN s2 = DOMAIN s1 /\ s2[st.a.music].fade = "out"
          /\ \A j \in DOMAIN s1 \ {st.a.music} : s2[j] = s1[j]
      BY <2>3, <2>6, <2>10, <3>1, FadesAre
    <3>. HIDE DEF s2
    <3>3. st.a.music \notin HeldOf(a)
      BY <2>2, <2>3, <2>7, <2>10, HeldApart DEF Steady, HeldOf
    <3>4. Agreed(a, s2)
      BY <2>2, <2>3, <2>6, <2>7, <2>8, <2>10, <3>2, <3>3 DEF Steady, Agreed, HeldOf, v
    <3>. QED  BY <2>1, <2>7, <3>2, <3>4 DEF Steady, s2
  <2>. QED  BY <2>9, <2>10
<1>. QED  BY <1>1, <1>2

LEMMA MusicStops ==
    ASSUME NEW st, Steady(st), NEW fade \in BOOLEAN
    PROVE  Steady(StopMusic(st, fade)) /\ StopMusic(st, fade).a.open = st.a.open
<1>. DEFINE a  == [st.a EXCEPT !.music = NoSound, !.key = "none"]
            ss == IF fade THEN FadeOut(st.ss, st.a.music) ELSE Stop(st.ss, st.a.music)
<1>1. StopMusic(st, fade) = [a |-> a, ss |-> ss]
  BY DEF StopMusic
<1>2. /\ Managed(a) /\ a.music = NoSound /\ a.ambience = st.a.ambience /\ a.shields = st.a.shields
      /\ a.volume = st.a.volume /\ a.open = st.a.open
  <2>1. st.a \in Managers
    BY DEF Steady, Managed
  <2>2. /\ a \in Managers /\ a.music = NoSound /\ a.ambience = st.a.ambience /\ a.shields = st.a.shields
        /\ a.volume = st.a.volume /\ a.open = st.a.open
    BY <2>1 DEF Managers, Tracks
  <2>. QED  BY <2>2 DEF Steady, Managed
<1>. HIDE DEF a
<1>3. /\ st.a.music \in {NoSound} \cup DOMAIN st.ss /\ st.a.volume \in Loudness
      /\ NoSound \notin SoundIds /\ NoSound \notin DOMAIN st.ss
  BY HeldApart DEF Steady, Agreed, HeldOf, Sounding
<1>4. st.a.music # NoSound => st.a.music \notin HeldOf(a)
  BY <1>2, <1>3, HeldApart DEF Steady, HeldOf
<1>5. \/ ss = st.ss /\ st.a.music = NoSound
      \/ /\ Sounding(ss) /\ DOMAIN ss = DOMAIN st.ss /\ ss[st.a.music].fade = "out" /\ st.a.music # NoSound
         /\ \A j \in DOMAIN ss \ {st.a.music} : ss[j] = st.ss[j]
      \/ Fewer(ss, st.ss, {st.a.music})
  <2>1. CASE fade /\ st.a.music = NoSound
    BY <2>1 DEF FadeOut
  <2>2. CASE fade /\ st.a.music # NoSound
    <3>1. st.a.music \in DOMAIN st.ss /\ Sounding(st.ss)
      BY <1>3, <2>2 DEF Steady
    <3>2. ss = FadeOut(st.ss, st.a.music)
      BY <2>2
    <3>3. /\ Sounding(FadeOut(st.ss, st.a.music)) /\ DOMAIN FadeOut(st.ss, st.a.music) = DOMAIN st.ss
          /\ FadeOut(st.ss, st.a.music)[st.a.music].fade = "out"
          /\ \A j \in DOMAIN st.ss \ {st.a.music} : FadeOut(st.ss, st.a.music)[j] = st.ss[j]
      BY <1>3, <2>2, <3>1, FadesAre
    <3>. QED  BY <2>2, <3>2, <3>3
  <2>3. CASE ~fade
    <3>1. ss = Without(st.ss, {st.a.music})
      BY <2>3 DEF Stop
    <3>. QED  BY <3>1, WithoutIs DEF Steady
  <2>. QED  BY <2>1, <2>2, <2>3
<1>. HIDE DEF ss
<1>6. Sounding(ss)
  BY <1>5 DEF Steady, Fewer
<1>7. Agreed(a, ss)
  BY <1>2, <1>3, <1>4, <1>5 DEF Steady, Agreed, HeldOf, Fewer
<1>. QED  BY <1>1, <1>2, <1>6, <1>7 DEF Steady

LEMMA AmbienceFades ==
    ASSUME NEW st, Steady(st)
    PROVE  Steady(FadeOutAmbience(st)) /\ FadeOutAmbience(st).a.open = st.a.open
<1>. DEFINE a  == [st.a EXCEPT !.ambience = NoSound]
            ss == FadeOut(st.ss, st.a.ambience)
<1>1. FadeOutAmbience(st) = [a |-> a, ss |-> ss]
  BY DEF FadeOutAmbience
<1>2. /\ Managed(a) /\ a.ambience = NoSound /\ a.music = st.a.music /\ a.shields = st.a.shields
      /\ a.volume = st.a.volume /\ a.open = st.a.open
  <2>1. st.a \in Managers
    BY DEF Steady, Managed
  <2>2. /\ a \in Managers /\ a.ambience = NoSound /\ a.music = st.a.music /\ a.shields = st.a.shields
        /\ a.volume = st.a.volume /\ a.open = st.a.open
    BY <2>1 DEF Managers, Tracks
  <2>. QED  BY <2>2 DEF Steady, Managed
<1>. HIDE DEF a
<1>3. /\ st.a.ambience \in {NoSound} \cup DOMAIN st.ss /\ st.a.volume \in Loudness
      /\ NoSound \notin SoundIds /\ NoSound \notin DOMAIN st.ss
  BY HeldApart DEF Steady, Agreed, HeldOf, Sounding
<1>4. CASE st.a.ambience = NoSound
  <2>1. ss = st.ss
    BY <1>4 DEF FadeOut
  <2>2. Agreed(a, ss)
    BY <1>2, <1>4, <2>1 DEF Steady, Agreed, HeldOf
  <2>. QED  BY <1>1, <1>2, <2>1, <2>2 DEF Steady
<1>5. CASE st.a.ambience # NoSound
  <2>1. st.a.ambience \in DOMAIN st.ss /\ Sounding(st.ss)
    BY <1>3, <1>5 DEF Steady
  <2>2. /\ Sounding(ss) /\ DOMAIN ss = DOMAIN st.ss /\ ss[st.a.ambience].fade = "out"
        /\ \A j \in DOMAIN st.ss \ {st.a.ambience} : ss[j] = st.ss[j]
    BY <1>3, <1>5, <2>1, FadesAre
  <2>. HIDE DEF ss
  <2>3. st.a.ambience \notin HeldOf(a)
    BY <1>2, <1>3, <1>5, HeldApart DEF Steady, HeldOf
  <2>4. Agreed(a, ss)
    BY <1>2, <1>3, <1>5, <2>2, <2>3 DEF Steady, Agreed, HeldOf
  <2>. QED  BY <1>1, <1>2, <2>2, <2>4 DEF Steady
<1>. QED  BY <1>4, <1>5

\* What does not concern a sound.
LEMMA NotesKeep ==
    ASSUME NEW st, Steady(st), NEW a \in Managers,
           a.ambience = st.a.ambience, a.music = st.a.music, a.shields = st.a.shields,
           a.volume = st.a.volume, a.open = st.a.open
    PROVE  Steady([a |-> a, ss |-> st.ss])
BY DEF Steady, Managed, Agreed, HeldOf

LEMMA TrackChosen ==
    ASSUME NEW st, Steady(st)
    PROVE  /\ Steady(WithBattleTrack(st)) /\ WithBattleTrack(st).a.open = st.a.open
           /\ WithBattleTrack(st).a.battle \in Tracks
<1>. DEFINE track == IF st.a.last = "one" THEN "two" ELSE "one"
            a == [st.a EXCEPT !.battle = track, !.last = track]
<1>1. st.a \in Managers /\ track \in Tracks /\ st = [a |-> st.a, ss |-> st.ss]
  BY DEF Steady, Managed, Tracks
<1>2. CASE st.a.battle # "none"
  BY <1>1, <1>2 DEF WithBattleTrack, Managers
<1>3. CASE st.a.battle = "none"
  <2>1. WithBattleTrack(st) = [st EXCEPT !.a = a]
    BY <1>3 DEF WithBattleTrack
  <2>. HIDE DEF track
  <2>2. [st EXCEPT !.a = a] = [a |-> a, ss |-> st.ss]
    BY <1>1
  <2>3. /\ a \in Managers /\ a.ambience = st.a.ambience /\ a.music = st.a.music /\ a.shields = st.a.shields
        /\ a.volume = st.a.volume /\ a.open = st.a.open /\ a.battle = track
    BY <1>1 DEF Managers
  <2>. HIDE DEF a
  <2>4. Steady([a |-> a, ss |-> st.ss])
    BY <2>3, NotesKeep
  <2>. QED  BY <1>1, <2>1, <2>2, <2>3, <2>4
<1>. QED  BY <1>2, <1>3

LEMMA MatchIsSynced ==
    ASSUME NEW st, Steady(st), NEW m \in Matches
    PROVE  Steady(MatchSynced(st, m)) /\ MatchSynced(st, m).a.open = st.a.open
<1>. DEFINE loud  == EnsureAmbience(st)
            drawn == IF m.zone THEN loud ELSE WithBattleTrack(loud)
            key   == IF m.zone THEN "zone" ELSE drawn.a.battle
            r == CASE m.status = "waiting" -> StopMusic(loud, FALSE)
                   [] m.status = "playing" -> TransitionToMusic(drawn, key)
                   [] OTHER -> IF st.a.previous = "playing" THEN StopMusic(FadeOutAmbience(st), TRUE) ELSE st
            a == [r.a EXCEPT !.previous = m.status]
<1>1. MatchSynced(st, m) = [r EXCEPT !.a.previous = m.status]
  BY DEF MatchSynced
<1>2. Steady(loud) /\ loud.a.open = st.a.open
  BY AmbienceEnsured
<1>. HIDE DEF loud
<1>3. Steady(drawn) /\ drawn.a.open = st.a.open /\ key \in Tracks
  BY <1>2, TrackChosen DEF Tracks
<1>. HIDE DEF drawn, key
<1>4. Steady(r) /\ r.a.open = st.a.open
  <2>1. Steady(StopMusic(loud, FALSE)) /\ StopMusic(loud, FALSE).a.open = st.a.open
    BY <1>2, MusicStops
  <2>2. Steady(TransitionToMusic(drawn, key)) /\ TransitionToMusic(drawn, key).a.open = st.a.open
    BY <1>3, MusicTurns
  <2>3. Steady(StopMusic(FadeOutAmbience(st), TRUE)) /\ StopMusic(FadeOutAmbience(st), TRUE).a.open = st.a.open
    BY AmbienceFades, MusicStops
  <2>. QED  BY <2>1, <2>2, <2>3
<1>. HIDE DEF r
<1>5. r.a \in Managers /\ r = [a |-> r.a, ss |-> r.ss] /\ m.status \in {"none", "waiting", "playing", "finished"}
  BY <1>4 DEF Steady, Managed, Matches
<1>6. [r EXCEPT !.a.previous = m.status] = [a |-> a, ss |-> r.ss]
  BY <1>5
<1>7. /\ a \in Managers /\ a.ambience = r.a.ambience /\ a.music = r.a.music /\ a.shields = r.a.shields
      /\ a.volume = r.a.volume /\ a.open = r.a.open
  BY <1>5 DEF Managers
<1>. HIDE DEF a
<1>8. Steady([a |-> a, ss |-> r.ss])
  BY <1>4, <1>7, NotesKeep
<1>. QED  BY <1>1, <1>4, <1>6, <1>7, <1>8

LEMMA ShieldsStop ==
    ASSUME NEW st, Steady(st), NEW ts, ts \subseteq DOMAIN st.a.shields
    PROVE  /\ Steady(ShieldsStopped(st, ts)) /\ ShieldsStopped(st, ts).a.open = st.a.open
           /\ DOMAIN ShieldsStopped(st, ts).a.shields = DOMAIN st.a.shields \ ts
<1>. DEFINE up == Without(st.a.shields, ts)
            a  == [st.a EXCEPT !.shields = up]
            ids == {st.a.shields[t] : t \in ts}
            ss == Without(st.ss, ids)
<1>1. ShieldsStopped(st, ts) = [a |-> a, ss |-> ss]
  BY DEF ShieldsStopped, Steady, Managed, Managers
<1>2. Fewer(ss, st.ss, ids)
  BY WithoutIs DEF Steady
<1>3. DOMAIN up = DOMAIN st.a.shields \ ts /\ \A t \in DOMAIN up : up[t] = st.a.shields[t]
  BY DEF Without
<1>4. up \in UNION {[us -> Shields \X (Nat \ {0})] : us \in SUBSET Shields}
  <2>1. PICK us \in SUBSET Shields : st.a.shields \in [us -> Shields \X (Nat \ {0})]
    BY DEF Steady, Managed, Managers
  <2>2. up \in [us \ ts -> Shields \X (Nat \ {0})]
    BY <2>1 DEF Without
  <2>. QED  BY <2>2
<1>. HIDE DEF up
<1>5. /\ a \in Managers /\ a.ambience = st.a.ambience /\ a.music = st.a.music /\ a.shields = up
      /\ a.volume = st.a.volume /\ a.open = st.a.open
  BY <1>4 DEF Steady, Managed, Managers
<1>. HIDE DEF a, ss
<1>6. Managed(a)
  BY <1>3, <1>5 DEF Steady, Managed
<1>7. \A j \in DOMAIN ss : j \in DOMAIN st.ss /\ ss[j] = st.ss[j] /\ (j \in HeldOf(a) <=> j \in HeldOf(st.a))
  BY <1>2, <1>3, <1>5 DEF Fewer, HeldOf
<1>8. HeldOf(a) \ {NoSound} \subseteq DOMAIN ss
  <2>1. HeldOf(a) \subseteq HeldOf(st.a)
    BY <1>3, <1>5 DEF HeldOf
  <2>2. \A j \in HeldOf(a) \ {NoSound} : j \notin ids
    BY <1>3, <1>5, HeldApart DEF HeldOf, Steady
  <2>. QED  BY <1>2, <2>1, <2>2 DEF Fewer, Steady, Agreed
<1>9. Agreed(a, ss)
  BY <1>5, <1>7, <1>8 DEF Steady, Agreed
<1>. QED  BY <1>1, <1>2, <1>3, <1>5, <1>6, <1>9 DEF Steady, Fewer

LEMMA ShieldsSound ==
    ASSUME NEW st, Steady(st), NEW ts \in SUBSET Shields, ts \cap DOMAIN st.a.shields = {}
    PROVE  Steady(ShieldsHeard(st, ts)) /\ ShieldsHeard(st, ts).a.open = st.a.open
<1>. DEFINE new == [t \in ts |-> NewSound(st.ss, t)]
            ids == {new[t] : t \in ts}
            old == st.a.shields
            up  == [t \in ts \cup DOMAIN old |-> IF t \in ts THEN new[t] ELSE old[t]]
            a   == [st.a EXCEPT !.shields = up]
            ss  == Plays(st.ss, ids, st.a.volume)
<1>1. st.a \in Managers /\ Sounding(st.ss) /\ st.a.volume \in Loudness
  BY HeldApart DEF Steady, Managed
<1>2. ShieldsHeard(st, ts) = [a |-> a, ss |-> ss]
  <2>1. a = [st.a EXCEPT !.shields = [t \in ts \cup DOMAIN @ |-> IF t \in ts THEN NewSound(st.ss, t) ELSE @[t]]]
    BY <1>1 DEF Managers
  <2>2. ids = {NewSound(st.ss, t) : t \in ts}
    OBVIOUS
  <2>. QED  BY <2>1, <2>2 DEF ShieldsHeard
<1>3. \A t \in ts : new[t] \in {t} \X (Nat \ {0}) /\ new[t] \in SoundIds \ DOMAIN st.ss /\ new[t][1] = t
  BY <1>1, NewSoundIs
<1>4. ids \subseteq SoundIds /\ IsFiniteSet(ids)
  <2>1. new \in Surjection(ts, ids)
    BY DEF Surjection
  <2>2. IsFiniteSet(ts)
    BY AudioAssumption, FS_Subset
  <2>. QED  BY <1>3, <2>1, <2>2, FS_Surjection
<1>. HIDE DEF new
<1>5. up \in UNION {[us -> Shields \X (Nat \ {0})] : us \in SUBSET Shields}
  <2>1. PICK us \in SUBSET Shields : old \in [us -> Shields \X (Nat \ {0})]
    BY DEF Steady, Managed, Managers
  <2>2. up \in [ts \cup us -> Shields \X (Nat \ {0})]
    BY <1>3, <2>1
  <2>3. ts \cup us \in SUBSET Shields
    OBVIOUS
  <2>. QED  BY <2>2, <2>3
<1>6. /\ DOMAIN up = ts \cup DOMAIN old /\ \A t \in ts : up[t] = new[t]
      /\ \A t \in DOMAIN old : up[t] = old[t]
  OBVIOUS
<1>7. More(ss, st.ss, ids, st.a.volume)
  BY <1>1, <1>4, PlaysIs
<1>. HIDE DEF up, ss
<1>8. /\ a \in Managers /\ a.ambience = st.a.ambience /\ a.music = st.a.music /\ a.shields = up
      /\ a.volume = st.a.volume /\ a.open = st.a.open
  BY <1>1, <1>5 DEF Managers
<1>. HIDE DEF a
<1>9. Managed(a)
  BY <1>3, <1>6, <1>8 DEF Steady, Managed
<1>10. HeldOf(a) = HeldOf(st.a) \cup ids
  BY <1>6, <1>8 DEF HeldOf
<1>11. ids \cap DOMAIN st.ss = {}
  BY <1>3
<1>. HIDE DEF ids
<1>12. Agreed(a, ss)
  BY <1>7, <1>8, <1>10, <1>11 DEF Steady, Agreed, More
<1>. QED  BY <1>2, <1>7, <1>8, <1>9, <1>12 DEF Steady, More

LEMMA ShieldsAreSynced ==
    ASSUME NEW st, Steady(st), NEW up \in SUBSET Shields, NEW near \in SUBSET Shields, NEW hears \in BOOLEAN
    PROVE  /\ Steady(ShieldsSynced(st, up, near, hears))
           /\ ShieldsSynced(st, up, near, hears).a.open = st.a.open
<1>1. CASE ~hears
  BY <1>1, ShieldsStop DEF ShieldsSynced
<1>2. CASE hears
  <2>. DEFINE kept == ShieldsStopped(st, DOMAIN st.a.shields \ up)
              ts   == (up \cap near) \ DOMAIN kept.a.shields
  <2>1. Steady(kept) /\ kept.a.open = st.a.open
    BY ShieldsStop
  <2>. HIDE DEF kept
  <2>2. Steady(ShieldsHeard(kept, ts)) /\ ShieldsHeard(kept, ts).a.open = kept.a.open
    BY <2>1, ShieldsSound
  <2>. QED  BY <1>2, <2>1, <2>2 DEF ShieldsSynced, kept
<1>. QED  BY <1>1, <1>2

PanelTypes ==
    /\ panel \in [volume: Volumes, loading: BOOLEAN, found: Volumes, timer: BOOLEAN, changes: Nat]
    /\ stored \in [here: Volumes, sent: SUBSET Volumes]

\* A manager that is closed holds nothing, and no sound is left.
ClosedIsSilent ==
    ~audio.open => /\ audio.ambience = NoSound /\ audio.music = NoSound /\ DOMAIN audio.shields = {}
                   /\ DOMAIN sounds = {}

AudioKept ==
    PanelTypes /\ Managed(audio) /\ Sounding(sounds) /\ Agreed(audio, sounds) /\ ClosedIsSilent

LEMMA AudioIsSteady == AudioKept => Steady([a |-> audio, ss |-> sounds]) /\ SoundsAreKept
BY DEF AudioKept, Steady, Agreed, SoundsAreKept, Held, HeldOf

LEMMA NewAudioIs ==
    ASSUME NEW v \in Loudness, NEW last \in Tracks
    PROVE  /\ Managed(NewAudio(v, last)) /\ HeldOf(NewAudio(v, last)) = {NoSound} /\ NewAudio(v, last).open = TRUE
           /\ Managed(NoAudio(last)) /\ HeldOf(NoAudio(last)) = {NoSound} /\ NoAudio(last).open = FALSE
           /\ NoAudio(last).ambience = NoSound /\ NoAudio(last).music = NoSound /\ DOMAIN NoAudio(last).shields = {}
<1>1. DOMAIN << >> = {} /\ << >> \in UNION {[ts -> Shields \X (Nat \ {0})] : ts \in SUBSET Shields}
  <2>1. << >> \in [{} -> Shields \X (Nat \ {0})]
    OBVIOUS
  <2>. QED  BY <2>1
<1>2. \A w \in Loudness : /\ NewAudio(w, last) \in Managers /\ NewAudio(w, last).shields = << >>
                          /\ NewAudio(w, last).ambience = NoSound /\ NewAudio(w, last).music = NoSound
                          /\ NewAudio(w, last).open = TRUE
  BY <1>1 DEF NewAudio, Managers, Tracks
<1>3. /\ NoAudio(last) \in Managers /\ NoAudio(last).shields = << >>
      /\ NoAudio(last).ambience = NoSound /\ NoAudio(last).music = NoSound /\ NoAudio(last).open = FALSE
  <2>1. 0 \in Loudness
    BY DEF Loudness
  <2>. DEFINE new == NewAudio(0, last)
  <2>2. new \in Managers /\ new.shields = << >> /\ new.ambience = NoSound /\ new.music = NoSound
    BY <1>2, <2>1
  <2>3. NoAudio(last) = [new EXCEPT !.open = FALSE]
    BY DEF NoAudio
  <2>. HIDE DEF new
  <2>. QED  BY <2>2, <2>3 DEF Managers
<1>. QED  BY <1>1, <1>2, <1>3 DEF Managed, HeldOf

LEMMA AudioBegins == AudioInit => AudioKept
<1>. SUFFICES ASSUME AudioInit PROVE AudioKept
  OBVIOUS
<1>1. audio = NoAudio("none") /\ sounds = << >> /\ PanelTypes
  BY DEF AudioInit, PanelTypes
<1>2. 0 \in Loudness /\ "none" \in Tracks
  BY DEF Loudness, Tracks
<1>3. DOMAIN sounds = {} /\ Sounding(sounds)
  BY <1>1, FS_EmptySet DEF Sounding
<1>. QED  BY <1>1, <1>2, <1>3, NewAudioIs DEF AudioKept, Agreed, ClosedIsSilent

LEMMA ManagerSounds ==
    ASSUME AudioKept, UNCHANGED <<panel, stored>>,
           \/ \E m \in Matches, up, near \in SUBSET Shields, hears \in BOOLEAN : DrawSounds(m, up, near, hears)
           \/ \E t \in Shields : StopShieldLoop(t)
    PROVE  AudioKept'
<1>. DEFINE st == [a |-> audio, ss |-> sounds]
<1>1. Steady(st) /\ st.a = audio
  BY AudioIsSteady
<1>2. ASSUME NEW r, Steady(r), r.a.open = TRUE, Becomes(r) PROVE AudioKept'
  BY <1>2 DEF Becomes, Steady, AudioKept, PanelTypes, ClosedIsSilent
<1>. HIDE DEF st
<1>3. ASSUME NEW m \in Matches, NEW up \in SUBSET Shields, NEW near \in SUBSET Shields, NEW hears \in BOOLEAN,
             DrawSounds(m, up, near, hears)
      PROVE  AudioKept'
  <2>. DEFINE r == MatchSynced(st, m)
              q == ShieldsSynced(r, up, near, hears)
  <2>1. audio.open = TRUE /\ Becomes(q)
    BY <1>3 DEF DrawSounds, st, AudioKept, Managed, Managers
  <2>2. Steady(r) /\ r.a.open = TRUE
    BY <1>1, <2>1, MatchIsSynced
  <2>. HIDE DEF r
  <2>3. Steady(q) /\ q.a.open = TRUE
    BY <2>2, ShieldsAreSynced
  <2>. HIDE DEF q
  <2>. QED  BY <1>2, <2>1, <2>3
<1>4. ASSUME NEW t \in Shields, StopShieldLoop(t) PROVE AudioKept'
  <2>. DEFINE r == ShieldsStopped(st, {t})
  <2>1. t \in DOMAIN audio.shields /\ Becomes(r)
    BY <1>4 DEF StopShieldLoop, st
  <2>2. audio.open = TRUE
    BY <2>1 DEF AudioKept, ClosedIsSilent, Managed, Managers
  <2>3. Steady(r) /\ r.a.open = TRUE
    BY <1>1, <2>1, <2>2, ShieldsStop
  <2>. HIDE DEF r
  <2>. QED  BY <1>2, <2>1, <2>3
<1>. QED  BY <1>3, <1>4

LEMMA ManagerComesAndGoes ==
    ASSUME AudioKept, OpenAudio \/ DestroyAudio \/ ResetMatchAudio PROVE AudioKept'
<1>1. /\ audio.last \in Tracks /\ audio.volume \in Loudness /\ stored.here \in Loudness
      /\ Sounding(sounds) /\ NoSound \notin DOMAIN sounds
  BY HeldApart DEF AudioKept, PanelTypes, Managed, Managers, Loudness, Sounding
<1>2. PanelTypes'
  BY DEF AudioKept, PanelTypes, OpenAudio, DestroyAudio, ResetMatchAudio
<1>3. CASE OpenAudio
  <2>1. audio' = NewAudio(stored.here, audio.last) /\ sounds' = sounds /\ DOMAIN sounds = {}
    BY <1>3 DEF OpenAudio, AudioKept, ClosedIsSilent
  <2>. QED  BY <1>1, <1>2, <2>1, NewAudioIs DEF AudioKept, Agreed, ClosedIsSilent
<1>4. CASE DestroyAudio
  <2>1. audio' = NoAudio(audio.last) /\ sounds' = << >>
    BY <1>4 DEF DestroyAudio
  <2>2. DOMAIN sounds' = {} /\ Sounding(sounds')
    BY <2>1, FS_EmptySet DEF Sounding
  <2>3. 0 \in Loudness
    BY DEF Loudness
  <2>. QED  BY <1>1, <1>2, <2>1, <2>2, <2>3, NewAudioIs DEF AudioKept, Agreed, ClosedIsSilent
<1>5. CASE ResetMatchAudio
  <2>1. audio' = NewAudio(audio.volume, audio.last) /\ sounds' = Without(sounds, HeldOf(audio))
    BY <1>5 DEF ResetMatchAudio, Held, HeldOf
  <2>2. Fewer(sounds', sounds, HeldOf(audio))
    BY <1>1, <2>1, WithoutIs
  <2>3. \A i \in DOMAIN sounds' : sounds'[i].fade = "out" /\ i # NoSound
    BY <1>1, <2>2 DEF Fewer, AudioKept, Agreed
  <2>4. /\ Managed(audio') /\ HeldOf(audio') = {NoSound} /\ audio'.open = TRUE
    BY <1>1, <2>1, NewAudioIs
  <2>5. Sounding(sounds')
    BY <2>2 DEF Fewer
  <2>6. Agreed(audio', sounds')
    BY <2>3, <2>4 DEF Agreed
  <2>7. ClosedIsSilent'
    BY <2>4 DEF ClosedIsSilent
  <2>. QED  BY <1>2, <2>4, <2>5, <2>6, <2>7 DEF AudioKept
<1>. QED  BY <1>3, <1>4, <1>5

LEMMA TweenKeeps ==
    ASSUME AudioKept, NEW i \in DOMAIN sounds, TweenEnds(i) PROVE AudioKept'
<1>1. PanelTypes' /\ audio' = audio /\ sounds[i].fade # "none"
  BY DEF TweenEnds, AudioKept, PanelTypes
<1>2. CASE sounds[i].fade = "out"
  <2>1. sounds' = Without(sounds, {i})
    BY <1>2 DEF TweenEnds
  <2>2. Fewer(sounds', sounds, {i})
    BY <2>1, WithoutIs DEF AudioKept
  <2>3. i \notin HeldOf(audio)
    BY <1>2 DEF AudioKept, Agreed
  <2>. QED  BY <1>1, <2>2, <2>3 DEF AudioKept, Agreed, ClosedIsSilent, Fewer
<1>3. CASE sounds[i].fade # "out"
  <2>. DEFINE steady == [sounds[i] EXCEPT !.fade = "none"]
  <2>1. sounds' = [sounds EXCEPT ![i] = steady]
    BY <1>3 DEF TweenEnds, AudioKept, Sounding
  <2>2. steady \in Looping /\ steady.fade = "none" /\ steady.to = sounds[i].to
    BY DEF AudioKept, Sounding, Looping
  <2>. HIDE DEF steady
  <2>3. Sounding(sounds') /\ DOMAIN sounds' = DOMAIN sounds /\ sounds'[i] = steady
        /\ \A j \in DOMAIN sounds \ {i} : sounds'[j] = sounds[j]
    BY <2>1, <2>2 DEF AudioKept, Sounding
  <2>4. i \in HeldOf(audio)
    BY <1>3 DEF AudioKept, Agreed
  <2>. QED  BY <1>1, <2>2, <2>3, <2>4 DEF AudioKept, Agreed, ClosedIsSilent
<1>. QED  BY <1>2, <1>3

LEMMA AppliedKeeps ==
    ASSUME AudioKept, NEW v \in Volumes, ApplySettings(v), PanelTypes' PROVE AudioKept'
<1>1. CASE ~audio.open
  BY <1>1 DEF ApplySettings, AudioKept, ClosedIsSilent
<1>2. CASE audio.open
  <2>. DEFINE a == [audio EXCEPT !.volume = v]
  <2>1. audio' = a /\ sounds' = Applied(v)
    BY <1>2 DEF ApplySettings
  <2>2. /\ Managed(a) /\ a.volume = v /\ a.open = audio.open /\ a.ambience = audio.ambience
        /\ a.music = audio.music /\ a.shields = audio.shields
    BY DEF AudioKept, Managed, Managers, Loudness
  <2>. HIDE DEF a
  <2>3. HeldOf(a) = HeldOf(audio)
    BY <2>2 DEF HeldOf
  <2>4. [fade |-> "none", to |-> v] \in Looping
    BY DEF Looping, Loudness
  <2>5. /\ DOMAIN sounds' = DOMAIN sounds /\ Sounding(sounds')
        /\ \A i \in DOMAIN sounds : sounds'[i] = IF i \in HeldOf(audio) THEN [fade |-> "none", to |-> v] ELSE sounds[i]
    BY <2>1, <2>4 DEF Applied, Held, HeldOf, AudioKept, Sounding
  <2>. QED  BY <1>2, <2>1, <2>2, <2>3, <2>5 DEF AudioKept, Agreed, ClosedIsSilent
<1>. QED  BY <1>1, <1>2

LEMMA SettingsKeep ==
    ASSUME AudioKept,
           \/ \E v \in Volumes : OnVolumeInput(v)
           \/ SaveSettings
           \/ \E v \in Volumes, ok \in BOOLEAN : LoadSettings(v, ok) \/ SaveEnds(v, ok)
    PROVE  AudioKept'
<1>1. panel \in [volume: Volumes, loading: BOOLEAN, found: Volumes, timer: BOOLEAN, changes: Nat]
      /\ stored \in [here: Volumes, sent: SUBSET Volumes]
  BY DEF AudioKept, PanelTypes
<1>2. ASSUME NEW v \in Volumes, OnVolumeInput(v) PROVE AudioKept'
  <2>. DEFINE changed == [panel EXCEPT !.volume = v, !.timer = TRUE, !.changes = @ + 1]
  <2>2. panel' = changed /\ stored' = stored
    BY <1>2 DEF OnVolumeInput
  <2>3. panel.changes + 1 \in Nat
    BY <1>1
  <2>4. changed \in [volume: Volumes, loading: BOOLEAN, found: Volumes, timer: BOOLEAN, changes: Nat]
    BY <1>1, <2>3
  <2>. HIDE DEF changed
  <2>1. PanelTypes'
    BY <1>1, <2>2, <2>4 DEF PanelTypes
  <2>. QED  BY <1>2, <2>1, AppliedKeeps DEF OnVolumeInput
<1>3. ASSUME NEW v \in Volumes, NEW ok \in BOOLEAN, LoadSettings(v, ok) PROVE AudioKept'
  <2>1. PanelTypes'
    BY <1>1, <1>3 DEF LoadSettings, PanelTypes
  <2>. QED  BY <1>3, <2>1, AppliedKeeps DEF LoadSettings
<1>4. ASSUME PanelTypes', UNCHANGED <<audio, sounds>> PROVE AudioKept'
  BY <1>4 DEF AudioKept, ClosedIsSilent
<1>5. CASE SaveSettings
  <2>. DEFINE rested == [panel EXCEPT !.timer = FALSE]
              kept   == [here |-> panel.volume, sent |-> stored.sent \cup {panel.volume}]
  <2>1. panel' = rested /\ stored' = kept /\ UNCHANGED <<audio, sounds>>
    BY <1>5 DEF SaveSettings
  <2>2. rested \in [volume: Volumes, loading: BOOLEAN, found: Volumes, timer: BOOLEAN, changes: Nat]
    BY <1>1
  <2>3. kept \in [here: Volumes, sent: SUBSET Volumes]
    BY <1>1
  <2>. HIDE DEF rested, kept
  <2>. QED  BY <1>4, <2>1, <2>2, <2>3 DEF PanelTypes
<1>6. ASSUME NEW v \in Volumes, NEW ok \in BOOLEAN, SaveEnds(v, ok) PROVE AudioKept'
  <2>. DEFINE kept == [here |-> IF ok THEN stored.here ELSE panel.volume, sent |-> stored.sent \ {v}]
  <2>1. UNCHANGED panel /\ stored' = kept /\ UNCHANGED <<audio, sounds>>
    BY <1>6 DEF SaveEnds
  <2>2. kept \in [here: Volumes, sent: SUBSET Volumes]
    BY <1>1
  <2>. HIDE DEF kept
  <2>. QED  BY <1>1, <1>4, <2>1, <2>2 DEF PanelTypes
<1>. QED  BY <1>2, <1>3, <1>5, <1>6

LEMMA AudioInductive == AudioKept /\ [AudioNext]_audioVars => AudioKept'
<1>1. AudioKept /\ UNCHANGED audioVars => AudioKept'
  BY DEF audioVars, AudioKept, PanelTypes, ClosedIsSilent
<1>2. \A m, up, near, hears : DrawSounds(m, up, near, hears) => UNCHANGED <<panel, stored>>
  BY DEF DrawSounds
<1>3. \A t : StopShieldLoop(t) => UNCHANGED <<panel, stored>>
  BY DEF StopShieldLoop
<1>. QED  BY <1>1, <1>2, <1>3, ManagerSounds, ManagerComesAndGoes, TweenKeeps, SettingsKeep DEF AudioNext

-----------------------------------------------------------------------------
(* Picture: what a frame draws depends on the oldest and on the newest of the *)
(* snapshots only, which are kept in the order of their ages.                 *)

Falling(ages) == \A i, j \in DOMAIN ages : i <= j => ages[j] <= ages[i]
Showing(oldest, newest) ==
    IF oldest < RenderDelay THEN oldest ELSE IF newest >= RenderDelay THEN newest ELSE RenderDelay

PictureKept ==
    /\ snapshots \in Seq(0 .. MaxAge) /\ Falling(snapshots) /\ picture \in 0 .. MaxAge
    /\ snapshots # << >> => Showing(snapshots[1], snapshots[Len(snapshots)]) <= picture

LEMMA SequenceIs ==
    ASSUME NEW S, NEW s \in Seq(S)
    PROVE  /\ Len(s) \in Nat /\ DOMAIN s = 1 .. Len(s) /\ \A i \in 1 .. Len(s) : s[i] \in S
           /\ s # << >> => Len(s) # 0
           /\ s = << >> => Len(s) = 0
<1>1. Len(s) \in Nat /\ DOMAIN s = 1 .. Len(s) /\ \A i \in 1 .. Len(s) : s[i] \in S
  OBVIOUS
<1>2. s # << >> => Len(s) # 0
  OBVIOUS
<1>3. s = << >> => Len(s) = 0
  OBVIOUS
<1>. QED  BY <1>1, <1>2, <1>3

LEMMA TailIs ==
    ASSUME NEW S, NEW s \in Seq(S), s # << >>
    PROVE  Tail(s) \in Seq(S) /\ Len(Tail(s)) = Len(s) - 1 /\ \A i \in 1 .. Len(s) - 1 : Tail(s)[i] = s[i + 1]
OBVIOUS

LEMMA NextIndex ==
    ASSUME NEW n \in Nat, NEW i \in 1 .. n
    PROVE  /\ i = n => (IF i < n THEN i + 1 ELSE i) = i
           /\ i # n => (IF i < n THEN i + 1 ELSE i) = i + 1 /\ i + 1 # i /\ ~(n < 2)
OBVIOUS

LEMMA AgesAre ==
    ASSUME NEW s \in Seq(0 .. MaxAge)
    PROVE  /\ Len(s) \in Nat /\ DOMAIN s = 1 .. Len(s)
           /\ \A i \in 1 .. Len(s) : s[i] \in 0 .. MaxAge
           /\ s # << >> => Len(s) # 0 /\ 1 \in 1 .. Len(s) /\ Len(s) \in 1 .. Len(s)
           /\ s = << >> => Len(s) = 0
<1>. DEFINE S == 0 .. MaxAge
<1>. HIDE DEF S
<1>1. s \in Seq(S)
  BY DEF S
<1>2. /\ Len(s) \in Nat /\ DOMAIN s = 1 .. Len(s) /\ \A i \in 1 .. Len(s) : s[i] \in S
      /\ s # << >> => Len(s) # 0
      /\ s = << >> => Len(s) = 0
  BY <1>1, SequenceIs
<1>. QED  BY <1>2 DEF S

\* A frame draws the oldest snapshot until it is old enough, then the moment RenderDelay
\* ago, and the newest when they all are older (buildRenderState).
LEMMA RenderedIs ==
    ASSUME NEW ages \in Seq(0 .. MaxAge), ages # << >>, Falling(ages)
    PROVE  Rendered(ages) = Showing(ages[1], ages[Len(ages)])
<1>. DEFINE old  == {i \in DOMAIN ages : ages[i] >= RenderDelay}
            prev == PreviousIndex(ages)
<1>1. /\ Len(ages) \in Nat \ {0} /\ DOMAIN ages = 1 .. Len(ages) /\ RenderDelay \in Nat
      /\ \A i \in 1 .. Len(ages) : ages[i] \in Nat
  BY PictureAssumption
<1>2. Last(ages) = ages[Len(ages)]
  BY DEF Last
<1>3. CASE old = {}
  <2>1. prev = 1 /\ \A i \in 1 .. Len(ages) : ages[i] < RenderDelay
    BY <1>1, <1>3 DEF PreviousIndex
  <2>2. Rendered(ages) = ages[1]
    BY <1>1, <1>2, <2>1 DEF Rendered, Moment
  <2>. QED  BY <1>1, <2>1, <2>2 DEF Showing
<1>4. CASE old # {}
  <2>1. old \subseteq 1 .. Len(ages)
    BY <1>1
  <2>2. \E i \in old : \A j \in old : j <= i
    <3>. HIDE DEF old
    <3>1. old \subseteq 0 .. Len(ages) /\ Len(ages) \in Nat
      BY <1>1, <2>1
    <3>2. Max(old) \in old /\ \A j \in old : Max(old) >= j
      BY <1>4, <3>1, GreatestOf
    <3>3. \A i, j \in old : i >= j => j <= i
      BY <3>1
    <3>. QED  BY <3>2, <3>3
  <2>3. prev = CHOOSE i \in old : \A j \in old : j <= i
    BY <1>4 DEF PreviousIndex
  <2>4. prev \in old /\ \A j \in old : j <= prev
    BY <2>2, <2>3
  <2>. HIDE DEF prev
  <2>5. prev \in 1 .. Len(ages) /\ ages[prev] >= RenderDelay /\ ages[prev] <= ages[1]
    BY <1>1, <2>1, <2>4 DEF Falling
  <2>0. Rendered(ages) = LET next == IF prev < Len(ages) THEN prev + 1 ELSE prev
                         IN  IF Len(ages) < 2 \/ prev = next THEN Last(ages) ELSE Moment(ages[prev], ages[next])
    BY DEF Rendered, prev
  <2>6. CASE prev = Len(ages)
    <3>1. Rendered(ages) = ages[Len(ages)]
      <4>1. (IF prev < Len(ages) THEN prev + 1 ELSE prev) = prev
        BY <1>1, <2>5, <2>6, NextIndex
      <4>. QED  BY <1>2, <2>0, <4>1
    <3>. QED  BY <1>1, <2>5, <2>6, <3>1 DEF Showing
  <2>7. CASE prev # Len(ages)
    <3>1. prev + 1 \in 1 .. Len(ages) /\ prev + 1 \notin old
      BY <1>1, <2>1, <2>4, <2>5, <2>7
    <3>2. ages[prev + 1] < RenderDelay /\ ages[Len(ages)] <= ages[prev + 1]
      BY <1>1, <3>1 DEF Falling
    <3>3. Rendered(ages) = Moment(ages[prev], ages[prev + 1])
      <4>1. /\ (IF prev < Len(ages) THEN prev + 1 ELSE prev) = prev + 1
            /\ prev # prev + 1 /\ ~(Len(ages) < 2)
        BY <1>1, <2>5, <2>7, NextIndex
      <4>. QED  BY <2>0, <4>1
    <3>4. Moment(ages[prev], ages[prev + 1]) = RenderDelay
      BY <1>1, <2>5, <3>1, <3>2 DEF Moment
    <3>. QED  BY <1>1, <2>5, <3>1, <3>2, <3>3, <3>4 DEF Showing
  <2>. QED  BY <2>6, <2>7
<1>. QED  BY <1>3, <1>4

LEMMA PictureIsAged ==
    ASSUME PictureKept, PictureAges PROVE PictureKept'
<1>. DEFINE s == snapshots
            t == [i \in DOMAIN s |-> Aged(s[i])]
<1>1. snapshots' = t /\ picture' = Aged(picture) /\ RenderDelay \in Nat /\ MaxAge \in Nat /\ RenderDelay < MaxAge
  BY PictureAssumption DEF PictureAges
<1>. HIDE DEF s
<1>2. /\ s \in Seq(0 .. MaxAge) /\ Len(s) \in Nat /\ DOMAIN s = 1 .. Len(s) /\ picture \in 0 .. MaxAge
      /\ \A i \in 1 .. Len(s) : s[i] \in 0 .. MaxAge
      /\ s # << >> => Len(s) # 0 /\ 1 \in 1 .. Len(s) /\ Len(s) \in 1 .. Len(s)
      /\ s = << >> => Len(s) = 0
      /\ Falling(s) /\ (s # << >> => Showing(s[1], s[Len(s)]) <= picture)
  BY AgesAre DEF PictureKept, s
<1>3. \A a \in 0 .. MaxAge : Aged(a) \in 0 .. MaxAge /\ \A b \in 0 .. MaxAge : a <= b => Aged(a) <= Aged(b)
  BY <1>1 DEF Aged
<1>4. t \in Seq(0 .. MaxAge) /\ Len(t) = Len(s) /\ \A i \in 1 .. Len(s) : t[i] = Aged(s[i])
  BY <1>2, <1>3
<1>. HIDE DEF t
<1>5. Falling(t)
  <2>1. DOMAIN t = 1 .. Len(s)
    BY <1>4, AgesAre
  <2>2. ASSUME NEW i \in 1 .. Len(s), NEW j \in 1 .. Len(s), i <= j PROVE t[j] <= t[i]
    <3>1. s[j] <= s[i] /\ s[i] \in 0 .. MaxAge /\ s[j] \in 0 .. MaxAge
      BY <1>2, <2>2 DEF Falling
    <3>2. Aged(s[j]) <= Aged(s[i])
      BY <1>3, <3>1
    <3>. QED  BY <1>4, <3>2
  <2>. QED  BY <2>1, <2>2 DEF Falling
<1>6. ASSUME NEW f \in 0 .. MaxAge, NEW l \in 0 .. MaxAge, l <= f
      PROVE  Showing(f, l) \in 0 .. MaxAge /\ Showing(Aged(f), Aged(l)) <= Aged(Showing(f, l))
  BY <1>1, <1>6 DEF Showing, Aged
<1>7. ASSUME t # << >> PROVE Showing(t[1], t[Len(t)]) <= Aged(picture)
  <2>1. Len(s) \in Nat \ {0} /\ 1 \in 1 .. Len(s) /\ Len(s) \in 1 .. Len(s) /\ s # << >>
    BY <1>2, <1>4, <1>7
  <2>2. s[Len(s)] <= s[1] /\ Showing(s[1], s[Len(s)]) <= picture
    BY <1>2, <2>1 DEF Falling
  <2>. DEFINE f == s[1]
              l == s[Len(s)]
  <2>3. f \in 0 .. MaxAge /\ l \in 0 .. MaxAge /\ t[1] = Aged(f) /\ t[Len(t)] = Aged(l)
    BY <1>2, <1>4, <2>1
  <2>. HIDE DEF f, l
  <2>4. /\ Showing(f, l) \in 0 .. MaxAge /\ Showing(Aged(f), Aged(l)) <= Aged(Showing(f, l))
        /\ Showing(f, l) <= picture
    BY <1>6, <2>2, <2>3 DEF f, l
  <2>5. /\ Aged(Showing(f, l)) <= Aged(picture) /\ Aged(Showing(f, l)) \in Nat /\ Aged(picture) \in Nat
    BY <1>2, <1>3, <2>4
  <2>6. Showing(Aged(f), Aged(l)) \in Nat
    BY <1>1, <1>3, <2>3 DEF Showing
  <2>. QED  BY <2>3, <2>4, <2>5, <2>6
<1>. QED  BY <1>1, <1>2, <1>3, <1>4, <1>5, <1>7 DEF PictureKept

LEMMA SnapshotIsPushed ==
    ASSUME PictureKept, PushSnapshot PROVE PictureKept'
<1>. DEFINE s == snapshots
            k == IF Len(s) = BufferMax THEN Tail(s) ELSE s
            d == IF Len(s) = BufferMax THEN 1 ELSE 0
            t == Append(k, 0)
<1>1. snapshots' = t /\ picture' = picture /\ RenderDelay \in Nat /\ MaxAge \in Nat /\ BufferMax \in Nat \ {0}
  BY PictureAssumption DEF PushSnapshot
<1>. HIDE DEF s
<1>2. /\ s \in Seq(0 .. MaxAge) /\ Len(s) \in Nat /\ DOMAIN s = 1 .. Len(s) /\ picture \in 0 .. MaxAge
      /\ \A i \in 1 .. Len(s) : s[i] \in 0 .. MaxAge
      /\ s # << >> => Len(s) # 0 /\ 1 \in 1 .. Len(s) /\ Len(s) \in 1 .. Len(s)
      /\ s = << >> => Len(s) = 0
      /\ Falling(s) /\ (s # << >> => Showing(s[1], s[Len(s)]) <= picture)
  BY AgesAre DEF PictureKept, s
<1>3. /\ k \in Seq(0 .. MaxAge) /\ Len(k) = Len(s) - d /\ d \in {0, 1}
      /\ \A i \in 1 .. Len(k) : i + d \in 1 .. Len(s) /\ k[i] = s[i + d]
  <2>1. CASE Len(s) = BufferMax
    <3>1. s # << >> /\ d = 1 /\ k = Tail(s)
      BY <1>1, <1>2, <2>1
    <3>2. Tail(s) \in Seq(0 .. MaxAge) /\ Len(Tail(s)) = Len(s) - 1 /\ \A i \in 1 .. Len(s) - 1 : Tail(s)[i] = s[i + 1]
      <4>. DEFINE S == 0 .. MaxAge
      <4>1. s \in Seq(S)
        BY <1>2
      <4>. HIDE DEF S
      <4>2. Tail(s) \in Seq(S) /\ Len(Tail(s)) = Len(s) - 1 /\ \A i \in 1 .. Len(s) - 1 : Tail(s)[i] = s[i + 1]
        BY <3>1, <4>1, TailIs
      <4>. QED  BY <4>2 DEF S
    <3>3. \A i \in 1 .. Len(s) - 1 : i + 1 \in 1 .. Len(s)
      BY <1>2
    <3>. HIDE DEF k, d
    <3>. QED  BY <3>1, <3>2, <3>3
  <2>2. CASE Len(s) # BufferMax
    <3>1. k = s /\ d = 0
      BY <2>2
    <3>. HIDE DEF k, d
    <3>. QED  BY <1>2, <3>1
  <2>. QED  BY <2>1, <2>2
<1>. HIDE DEF k, d
<1>4. /\ Len(k) \in Nat /\ DOMAIN k = 1 .. Len(k) /\ \A i \in 1 .. Len(k) : k[i] \in 0 .. MaxAge
      /\ k # << >> => Len(k) # 0 /\ 1 \in 1 .. Len(k)
      /\ k = << >> => Len(k) = 0
  BY <1>3, AgesAre
<1>5. \A i, j \in 1 .. Len(k) : i <= j => k[j] <= k[i]
  <2>1. ASSUME NEW i \in 1 .. Len(k), NEW j \in 1 .. Len(k), i <= j PROVE k[j] <= k[i]
    <3>1. i + d \in 1 .. Len(s) /\ j + d \in 1 .. Len(s) /\ i + d <= j + d
      BY <1>3, <2>1
    <3>2. s[j + d] <= s[i + d]
      BY <1>2, <3>1 DEF Falling
    <3>. QED  BY <1>3, <3>2
  <2>. QED  BY <2>1
<1>6. /\ t \in Seq(0 .. MaxAge) /\ Len(t) = Len(k) + 1 /\ DOMAIN t = 1 .. Len(k) + 1
      /\ t[Len(k) + 1] = 0 /\ \A i \in 1 .. Len(k) : t[i] = k[i]
  <2>1. 0 \in 0 .. MaxAge
    BY <1>1
  <2>. QED  BY <1>3, <1>4, <2>1
<1>. HIDE DEF t
<1>7. Falling(t)
  <2>. SUFFICES ASSUME NEW i \in 1 .. Len(k) + 1, NEW j \in 1 .. Len(k) + 1, i <= j PROVE t[j] <= t[i]
    BY <1>6 DEF Falling
  <2>1. CASE j = Len(k) + 1
    <3>1. CASE i = Len(k) + 1
      BY <1>6, <2>1, <3>1
    <3>2. CASE i # Len(k) + 1
      <4>1. i \in 1 .. Len(k)
        BY <1>4, <3>2
      <4>. QED  BY <1>4, <1>6, <2>1, <4>1
    <3>. QED  BY <3>1, <3>2
  <2>2. CASE j # Len(k) + 1
    <3>1. i \in 1 .. Len(k) /\ j \in 1 .. Len(k)
      BY <1>4, <2>2
    <3>. QED  BY <1>5, <1>6, <3>1
  <2>. QED  BY <2>1, <2>2
<1>8. CASE k = << >>
  <2>1. Len(t) = 1 /\ t[1] = 0
    BY <1>4, <1>6, <1>8
  <2>2. Showing(t[1], t[Len(t)]) <= picture
    BY <1>1, <1>2, <2>1 DEF Showing
  <2>. QED  BY <1>1, <1>2, <1>6, <1>7, <2>2 DEF PictureKept
<1>9. CASE k # << >>
  <2>1. 1 \in 1 .. Len(k) /\ s # << >> /\ Len(s) \in 1 .. Len(s) /\ 1 \in 1 .. Len(s) /\ 1 + d \in 1 .. Len(s)
    <3>1. 1 \in 1 .. Len(k)
      BY <1>4, <1>9
    <3>2. 1 + d \in 1 .. Len(s)
      BY <1>3, <3>1
    <3>3. Len(s) # 0
      BY <1>2, <3>2
    <3>. QED  BY <1>2, <3>1, <3>2, <3>3
  <2>2. t[1] \in Nat /\ s[1] \in Nat /\ s[Len(s)] \in Nat /\ t[1] <= s[1] /\ t[Len(t)] = 0
    <3>1. k[1] = s[1 + d] /\ 1 <= 1 + d
      BY <1>3, <2>1
    <3>2. k[1] <= s[1] /\ k[1] \in Nat
      BY <1>2, <1>4, <2>1, <3>1 DEF Falling
    <3>3. t[1] = k[1] /\ t[Len(t)] = 0
      BY <1>6, <2>1
    <3>. QED  BY <1>2, <2>1, <3>2, <3>3
  <2>3. Showing(t[1], 0) <= Showing(s[1], s[Len(s)])
    BY <1>1, <2>2 DEF Showing
  <2>4. Showing(t[1], 0) \in Nat /\ Showing(s[1], s[Len(s)]) \in Nat /\ Showing(s[1], s[Len(s)]) <= picture
    BY <1>1, <1>2, <2>1, <2>2 DEF Showing
  <2>5. Showing(t[1], t[Len(t)]) <= picture
    BY <1>2, <2>2, <2>3, <2>4
  <2>. QED  BY <1>1, <1>2, <1>6, <1>7, <2>5 DEF PictureKept
<1>. QED  BY <1>8, <1>9

LEMMA PictureBegins == PictureInit => PictureKept
  BY PictureAssumption DEF PictureInit, NoPicture, PictureKept, Falling

LEMMA FrameIsNoOlder ==
    ASSUME PictureKept, DrawFrame PROVE picture' \in 0 .. MaxAge /\ picture' <= picture /\ snapshots' = snapshots
                                        /\ picture' = Showing(snapshots[1], snapshots[Len(snapshots)])
<1>1. /\ snapshots # << >> /\ picture' = Showing(snapshots[1], snapshots[Len(snapshots)])
  BY RenderedIs DEF PictureKept, DrawFrame
<1>2. /\ Len(snapshots) \in 1 .. Len(snapshots) /\ 1 \in 1 .. Len(snapshots)
      /\ \A i \in 1 .. Len(snapshots) : snapshots[i] \in 0 .. MaxAge
  BY <1>1, AgesAre DEF PictureKept
<1>3. picture' <= picture
  BY <1>1 DEF PictureKept
<1>4. picture' \in 0 .. MaxAge
  BY <1>1, <1>2, PictureAssumption DEF Showing
<1>. QED  BY <1>1, <1>3, <1>4 DEF DrawFrame

LEMMA PictureInductive == PictureKept /\ [PictureNext]_pictureVars => PictureKept'
<1>. SUFFICES ASSUME PictureKept, [PictureNext]_pictureVars PROVE PictureKept'
  OBVIOUS
<1>1. CASE DrawFrame
  <2>1. /\ picture' \in 0 .. MaxAge /\ snapshots' = snapshots
        /\ picture' = Showing(snapshots[1], snapshots[Len(snapshots)])
    BY <1>1, FrameIsNoOlder
  <2>. QED  BY <2>1 DEF PictureKept
<1>2. CASE ClearSnapshots
  BY <1>2, PictureAssumption DEF ClearSnapshots, NoPicture, PictureKept, Falling
<1>3. CASE UNCHANGED pictureVars
  BY <1>3 DEF pictureVars, PictureKept
<1>. QED  BY <1>1, <1>2, <1>3, PictureIsAged, SnapshotIsPushed DEF PictureNext

-----------------------------------------------------------------------------
(* The danger zone: its times follow one another and its circles lie in one     *)
(* another, whatever the configuration is divided by.                           *)

Ordered(z) ==
    /\ z.warning \in Nat /\ z.damage \in Nat /\ z.target \in Nat /\ z.hold \in Nat /\ z.shrink \in Nat
    /\ z.initial \in Nat /\ z.final \in Nat /\ z.sudden \in Nat
    /\ z.warning <= z.damage /\ z.damage <= z.target
    /\ z.sudden <= z.final /\ z.final <= z.initial

ZoneKept == Ordered(zone) /\ elapsed \in Nat

LEMMA QuotientIs ==
    ASSUME NEW a \in Nat, NEW b \in Nat, NEW u \in Nat \ {0}, a <= b
    PROVE  a \div u \in Nat /\ b \div u \in Nat /\ a \div u <= b \div u
<1>1. a \div u \in Int /\ b \div u \in Int
  OBVIOUS
<1>2. u * (a \div u) <= a /\ a < u * (a \div u) + u
  OBVIOUS
<1>3. u * (b \div u) <= b /\ b < u * (b \div u) + u
  OBVIOUS
<1>. DEFINE p == a \div u
            q == b \div u
<1>. HIDE DEF p, q
<1>4. p \in Int /\ q \in Int /\ u * p <= a /\ a < u * p + u /\ u * q <= b /\ b < u * q + u
  BY <1>1, <1>2, <1>3 DEF p, q
<1>5. p >= 0
  BY <1>4
<1>6. q >= 0
  BY <1>4
<1>7. p <= q
  BY <1>4
<1>. QED  BY <1>4, <1>5, <1>6, <1>7 DEF p, q

LEMMA ConfigIsOrdered == \A n \in Nat : Ordered(ConfigFor(n))
<1>. SUFFICES ASSUME NEW n \in Nat PROVE Ordered(ConfigFor(n))
  OBVIOUS
<1>1. Tier(n) \in {4, 8, 16}
  BY DEF Tier
<1>2. CASE Tier(n) = 4
  BY <1>2 DEF ConfigFor, Ordered
<1>3. CASE Tier(n) = 8
  BY <1>3 DEF ConfigFor, Ordered
<1>4. CASE Tier(n) = 16
  BY <1>4 DEF ConfigFor, Ordered
<1>. QED  BY <1>1, <1>2, <1>3, <1>4

LEMMA ZoneIsOrdered ==
    ASSUME NEW n \in Nat, NEW far \in Nat PROVE Ordered(Scaled(Created(n, far)))
<1>. DEFINE c == ConfigFor(n)
            z == Created(n, far)
            u == ZoneUnit
<1>1. Ordered(c) /\ u \in Nat \ {0}
  BY ConfigIsOrdered, ZoneAssumption
<1>2. c = [warning |-> c.warning, damage |-> c.damage, target |-> c.target, hold |-> c.hold,
           shrink |-> c.shrink, initial |-> c.initial, final |-> c.final, sudden |-> c.sudden]
  <2>1. Tier(n) \in {4, 8, 16}
    BY DEF Tier
  <2>2. CASE Tier(n) = 4
    BY <2>2 DEF ConfigFor
  <2>3. CASE Tier(n) = 8
    BY <2>3 DEF ConfigFor
  <2>4. CASE Tier(n) = 16
    BY <2>4 DEF ConfigFor
  <2>. QED  BY <2>1, <2>2, <2>3, <2>4
<1>. HIDE DEF c, u
<1>. DEFINE first == IF c.initial >= far + 10 THEN c.initial ELSE far + 10
<1>3. first \in Nat /\ first >= c.initial
  BY <1>1 DEF Ordered
<1>4. z = [warning |-> c.warning, damage |-> c.damage, target |-> c.target, hold |-> c.hold,
           shrink |-> c.shrink, initial |-> first, final |-> c.final, sudden |-> c.sudden]
  BY <1>2 DEF Created, c
<1>. HIDE DEF z, first
<1>5. Scaled(z) = [warning |-> c.warning \div u, damage |-> c.damage \div u, target |-> c.target \div u,
                   hold |-> c.hold \div u, shrink |-> c.shrink \div u, initial |-> first,
                   final |-> c.final, sudden |-> c.sudden]
  <2>. DEFINE w == c.warning \div u
              d == c.damage \div u
              t == c.target \div u
              h == c.hold \div u
              k == c.shrink \div u
  <2>1. Scaled(z) = [z EXCEPT !.warning = w, !.damage = d, !.target = t, !.hold = h, !.shrink = k]
    <3>1. /\ z.warning = c.warning /\ z.damage = c.damage /\ z.target = c.target
          /\ z.hold = c.hold /\ z.shrink = c.shrink
      BY <1>4
    <3>2. Scaled(z) = [z EXCEPT !.warning = z.warning \div u, !.damage = z.damage \div u, !.target = z.target \div u,
                                !.hold = z.hold \div u, !.shrink = z.shrink \div u]
      BY DEF Scaled, u
    <3>. QED  BY <3>1, <3>2, Zenon
  <2>. HIDE DEF w, d, t, h, k
  <2>2. [z EXCEPT !.warning = w, !.damage = d, !.target = t, !.hold = h, !.shrink = k]
        = [warning |-> w, damage |-> d, target |-> t, hold |-> h, shrink |-> k, initial |-> first,
           final |-> c.final, sudden |-> c.sudden]
    <3>. DEFINE z1 == [z EXCEPT !.warning = w]
                z2 == [z1 EXCEPT !.damage = d]
                z3 == [z2 EXCEPT !.target = t]
                z4 == [z3 EXCEPT !.hold = h]
                z5 == [z4 EXCEPT !.shrink = k]
    <3>1. z1 = [warning |-> w, damage |-> c.damage, target |-> c.target, hold |-> c.hold, shrink |-> c.shrink,
               initial |-> first, final |-> c.final, sudden |-> c.sudden]
      BY <1>4
    <3>. HIDE DEF z1
    <3>2. z2 = [warning |-> w, damage |-> d, target |-> c.target, hold |-> c.hold, shrink |-> c.shrink,
               initial |-> first, final |-> c.final, sudden |-> c.sudden]
      BY <3>1
    <3>. HIDE DEF z2
    <3>3. z3 = [warning |-> w, damage |-> d, target |-> t, hold |-> c.hold, shrink |-> c.shrink,
               initial |-> first, final |-> c.final, sudden |-> c.sudden]
      BY <3>2
    <3>. HIDE DEF z3
    <3>4. z4 = [warning |-> w, damage |-> d, target |-> t, hold |-> h, shrink |-> c.shrink,
               initial |-> first, final |-> c.final, sudden |-> c.sudden]
      BY <3>3
    <3>. HIDE DEF z4
    <3>5. z5 = [warning |-> w, damage |-> d, target |-> t, hold |-> h, shrink |-> k,
               initial |-> first, final |-> c.final, sudden |-> c.sudden]
      BY <3>4
    <3>. HIDE DEF z5
    <3>. QED  BY <3>5 DEF z1, z2, z3, z4, z5
  <2>. QED  BY <2>1, <2>2 DEF w, d, t, h, k
<1>6. /\ c.warning \div u \in Nat /\ c.damage \div u \in Nat /\ c.target \div u \in Nat
      /\ c.warning \div u <= c.damage \div u /\ c.damage \div u <= c.target \div u
  BY <1>1, QuotientIs DEF Ordered
<1>7. c.hold \div u \in Nat /\ c.shrink \div u \in Nat
  BY <1>1, QuotientIs DEF Ordered
<1>8. /\ c.final \in Nat /\ c.sudden \in Nat /\ c.sudden <= c.final /\ c.final <= first
  BY <1>1, <1>3 DEF Ordered
<1>9. Ordered(Scaled(z))
  BY <1>3, <1>5, <1>6, <1>7, <1>8 DEF Ordered
<1>. QED  BY <1>9 DEF z

LEMMA ZoneInductive == ZoneKept /\ [ZoneStep]_zoneVars => ZoneKept' /\ elapsed' >= elapsed
BY ZoneAssumption DEF ZoneKept, ZoneStep, zoneVars

\* Products of what is ordered are ordered.
LEMMA ProductsAre ==
    ASSUME NEW a \in Int, NEW b \in Int, NEW c \in Nat, a <= b PROVE a * c <= b * c /\ c * a <= c * b
OBVIOUS

\* A radius between two whole ones, and a fraction that is at least or at most a whole one.
AtLeast(r, n) == r.num \in Int /\ r.den \in Nat \ {0} /\ n * r.den <= r.num
AtMost(r, n)  == r.num \in Int /\ r.den \in Nat \ {0} /\ r.num <= n * r.den

LEMMA BetweenIs ==
    ASSUME NEW a \in Nat, NEW b \in Nat, NEW p \in Nat, NEW w \in Nat \ {0}, b <= a
    PROVE  AtLeast(Between(a, b, p, w), b) /\ AtMost(Between(a, b, p, w), a) /\ Between(a, b, p, w).den = w
<1>. DEFINE m == IF p < w THEN p ELSE w
            d == (b - a) * m
<1>1. m \in Nat /\ m <= w
  OBVIOUS
<1>. HIDE DEF m
<1>2. Between(a, b, p, w) = [num |-> a * w + d, den |-> w]
  BY DEF Between, m
<1>3. a - b \in Nat /\ (a - b) * m >= 0 /\ (a - b) * m <= (a - b) * w
  BY <1>1, ProductsAre
<1>4. d = 0 - (a - b) * m /\ (a - b) * w = a * w - b * w
  BY <1>1
<1>. DEFINE x == a * w
            y == b * w
            e == (a - b) * m
<1>5. x \in Int /\ y \in Int /\ e \in Int /\ e >= 0 /\ e <= x - y /\ d = 0 - e
  BY <1>1, <1>3, <1>4
<1>. HIDE DEF d, x, y, e
<1>6. d \in Int /\ x + d \in Int /\ y <= x + d /\ x + d <= x
  BY <1>5
<1>. QED  BY <1>2, <1>6 DEF AtLeast, AtMost, x, y

LEMMA BetweenShrinks ==
    ASSUME NEW a \in Nat, NEW b \in Nat, NEW p \in Nat, NEW q \in Nat, NEW w \in Nat \ {0}, b <= a, p <= q
    PROVE  Between(a, b, q, w).num * w <= Between(a, b, p, w).num * w
<1>. DEFINE m == IF p < w THEN p ELSE w
            n == IF q < w THEN q ELSE w
<1>1. m \in Nat /\ n \in Nat /\ m <= n
  OBVIOUS
<1>. HIDE DEF m, n
<1>2. Between(a, b, p, w).num = a * w + (b - a) * m /\ Between(a, b, q, w).num = a * w + (b - a) * n
  BY DEF Between, m, n
<1>3. (a - b) * m <= (a - b) * n /\ (b - a) * m = 0 - (a - b) * m /\ (b - a) * n = 0 - (a - b) * n
  BY <1>1, ProductsAre
<1>. DEFINE x == a * w
            y == (a - b) * m
            z == (a - b) * n
<1>4. x \in Int /\ y \in Int /\ z \in Int /\ y <= z
  BY <1>1, <1>3
<1>5. Between(a, b, p, w).num = x + (0 - y) /\ Between(a, b, q, w).num = x + (0 - z)
  BY <1>2, <1>3
<1>. HIDE DEF x, y, z
<1>6. x + (0 - z) \in Int /\ x + (0 - y) \in Int /\ x + (0 - z) <= x + (0 - y)
  BY <1>4
<1>. QED  BY <1>5, <1>6, ProductsAre

\* A fraction that is at most a number is at most another that is at least that number.
LEMMA ApartIs ==
    ASSUME NEW r, NEW t, NEW n \in Nat, AtLeast(r, n), AtMost(t, n)
    PROVE  t.num * r.den <= r.num * t.den
<1>. DEFINE p == r.num
            q == r.den
            k == t.num
            l == t.den
<1>1. p \in Int /\ q \in Nat \ {0} /\ n * q <= p /\ k \in Int /\ l \in Nat \ {0} /\ k <= n * l
  BY DEF AtLeast, AtMost
<1>. HIDE DEF p, q, k, l
<1>2. k * q <= (n * l) * q
  <2>1. n * l \in Int
    BY <1>1
  <2>. QED  BY <1>1, <2>1, ProductsAre
<1>3. (n * q) * l <= p * l
  <2>1. n * q \in Int
    BY <1>1
  <2>. QED  BY <1>1, <2>1, ProductsAre
<1>4. (n * l) * q = (n * q) * l
  BY <1>1
<1>5. k * q \in Int /\ (n * l) * q \in Int /\ p * l \in Int
  BY <1>1
<1>6. k * q <= p * l
  BY <1>2, <1>3, <1>4, <1>5
<1>. QED  BY <1>6 DEF p, q, k, l

\* The phases follow one another.
Stage(z, e) ==
    IF e < z.warning THEN 1 ELSE IF e < z.damage THEN 2 ELSE IF e < z.target THEN 3
    ELSE IF e < z.target + z.hold THEN 4 ELSE 5

LEMMA RanksAre ==
    /\ Rank("inactive") = 1 /\ Rank("warning") = 2 /\ Rank("active") = 3 /\ Rank("final") = 4
    /\ Rank("sudden_death") = 5
<1>. DEFINE names == {"inactive", "warning", "active", "final", "sudden_death"}
<1>1. /\ DOMAIN Phases = 1 .. 5 /\ Phases[1] = "inactive" /\ Phases[2] = "warning" /\ Phases[3] = "active"
      /\ Phases[4] = "final" /\ Phases[5] = "sudden_death"
  BY DEF Phases
<1>2. \A i \in 1 .. 5 : i = 1 \/ i = 2 \/ i = 3 \/ i = 4 \/ i = 5
  OBVIOUS
<1>3. \A i \in 1 .. 5 : /\ Phases[i] = "inactive" <=> i = 1
                        /\ Phases[i] = "warning" <=> i = 2
                        /\ Phases[i] = "active" <=> i = 3
                        /\ Phases[i] = "final" <=> i = 4
                        /\ Phases[i] = "sudden_death" <=> i = 5
  BY <1>1, <1>2
<1>4. 1 \in 1 .. 5 /\ 2 \in 1 .. 5 /\ 3 \in 1 .. 5 /\ 4 \in 1 .. 5 /\ 5 \in 1 .. 5
  OBVIOUS
<1>5. Rank("inactive") = 1
  BY <1>1, <1>3, <1>4, Zenon DEF Rank
<1>6. Rank("warning") = 2
  BY <1>1, <1>3, <1>4, Zenon DEF Rank
<1>7. Rank("active") = 3
  BY <1>1, <1>3, <1>4, Zenon DEF Rank
<1>8. Rank("final") = 4
  BY <1>1, <1>3, <1>4, Zenon DEF Rank
<1>9. Rank("sudden_death") = 5
  BY <1>1, <1>3, <1>4, Zenon DEF Rank
<1>. QED  BY <1>5, <1>6, <1>7, <1>8, <1>9

LEMMA StageIs ==
    ASSUME NEW z, Ordered(z), NEW e \in Nat PROVE Rank(PhaseAt(z, e)) = Stage(z, e) /\ Stage(z, e) \in 1 .. 5
<1>1. CASE e < z.warning
  BY <1>1, RanksAre DEF Ordered, PhaseAt, Stage
<1>2. CASE z.warning <= e /\ e < z.damage
  BY <1>2, RanksAre DEF Ordered, PhaseAt, Stage
<1>3. CASE z.damage <= e /\ e < z.target
  BY <1>3, RanksAre DEF Ordered, PhaseAt, Stage
<1>4. CASE z.target <= e /\ e < z.target + z.hold
  BY <1>4, RanksAre DEF Ordered, PhaseAt, Stage
<1>5. CASE z.target + z.hold <= e
  BY <1>5, RanksAre DEF Ordered, PhaseAt, Stage
<1>. QED  BY <1>1, <1>2, <1>3, <1>4, <1>5 DEF Ordered

LEMMA StageRises ==
    ASSUME NEW z, Ordered(z), NEW e \in Nat, NEW f \in Nat, e <= f PROVE Stage(z, e) <= Stage(z, f)
BY DEF Ordered, Stage

\* The circle in each of the phases.
LEMMA RadiusIs ==
    ASSUME NEW z, Ordered(z), NEW e \in Nat
    PROVE  /\ Stage(z, e) \in {1, 2} => RadiusAt(z, e) = Between(z.initial, z.initial, 0, 1)
           /\ Stage(z, e) = 3 => RadiusAt(z, e) = Between(z.initial, z.final, e - z.damage, AtLeastOne(z.target - z.damage))
           /\ Stage(z, e) = 4 => RadiusAt(z, e) = Between(z.final, z.final, 0, 1)
           /\ Stage(z, e) = 5 => RadiusAt(z, e) = Between(z.final, z.sudden, e - z.target - z.hold, AtLeastOne(z.shrink))
<1>1. CASE e < z.damage
  <2>1. Stage(z, e) \in {1, 2}
    BY <1>1 DEF Ordered, Stage
  <2>2. RadiusAt(z, e) = Between(z.initial, z.initial, 0, 1)
    BY <1>1 DEF Ordered, RadiusAt
  <2>. QED  BY <2>1, <2>2
<1>2. CASE z.damage <= e /\ e < z.target
  <2>1. Stage(z, e) = 3
    BY <1>2 DEF Ordered, Stage
  <2>2. RadiusAt(z, e) = Between(z.initial, z.final, e - z.damage, AtLeastOne(z.target - z.damage))
    BY <1>2 DEF Ordered, RadiusAt
  <2>. QED  BY <2>1, <2>2
<1>3. CASE z.target <= e /\ e < z.target + z.hold
  <2>1. Stage(z, e) = 4
    BY <1>3 DEF Ordered, Stage
  <2>2. RadiusAt(z, e) = Between(z.final, z.final, 0, 1)
    BY <1>3 DEF Ordered, RadiusAt
  <2>. QED  BY <2>1, <2>2
<1>4. CASE z.target + z.hold <= e
  <2>1. Stage(z, e) = 5
    BY <1>4 DEF Ordered, Stage
  <2>2. RadiusAt(z, e) = Between(z.final, z.sudden, e - z.target - z.hold, AtLeastOne(z.shrink))
    BY <1>4 DEF Ordered, RadiusAt
  <2>. QED  BY <2>1, <2>2
<1>. QED  BY <1>1, <1>2, <1>3, <1>4 DEF Ordered

LEMMA WholeIs == \A d \in Int : AtLeastOne(d) \in Nat \ {0}
BY DEF AtLeastOne

LEMMA RadiusIsBounded ==
    ASSUME NEW z, Ordered(z), NEW e \in Nat
    PROVE  /\ Stage(z, e) \in {1, 2} => AtLeast(RadiusAt(z, e), z.initial)
           /\ Stage(z, e) \in {1, 2, 3, 4} => AtLeast(RadiusAt(z, e), z.final)
           /\ Stage(z, e) \in {1, 2, 3} => AtMost(RadiusAt(z, e), z.initial)
           /\ Stage(z, e) \in {4, 5} => AtMost(RadiusAt(z, e), z.final)
<1>1. /\ z.initial \in Nat /\ z.final \in Nat /\ z.sudden \in Nat /\ z.sudden <= z.final /\ z.final <= z.initial
      /\ z.damage \in Nat /\ z.target \in Nat /\ z.hold \in Nat /\ z.shrink \in Nat
  BY DEF Ordered
<1>2. CASE Stage(z, e) \in {1, 2}
  <2>. DEFINE r == RadiusAt(z, e)
  <2>1. r = Between(z.initial, z.initial, 0, 1)
    BY <1>2, RadiusIs
  <2>2. AtLeast(r, z.initial) /\ AtMost(r, z.initial)
    BY <1>1, <2>1, BetweenIs
  <2>. HIDE DEF r
  <2>3. AtLeast(r, z.final)
    <3>1. z.final * r.den <= z.initial * r.den
      BY <1>1, <2>2, ProductsAre DEF AtLeast
    <3>2. z.final * r.den \in Int /\ z.initial * r.den \in Int
      BY <1>1, <2>2 DEF AtLeast
    <3>. QED  BY <2>2, <3>1, <3>2 DEF AtLeast
  <2>. QED  BY <1>2, <2>2, <2>3 DEF r
<1>3. CASE Stage(z, e) = 3
  <2>1. e - z.damage \in Nat
    BY <1>1, <1>3 DEF Stage, Ordered
  <2>2. z.target - z.damage \in Int
    BY <1>1
  <2>3. RadiusAt(z, e) = Between(z.initial, z.final, e - z.damage, AtLeastOne(z.target - z.damage))
    BY <1>3, RadiusIs
  <2>. DEFINE p == e - z.damage
              w == AtLeastOne(z.target - z.damage)
  <2>4. p \in Nat /\ w \in Nat \ {0}
    BY <2>1, <2>2, WholeIs
  <2>. HIDE DEF p, w
  <2>5. AtLeast(Between(z.initial, z.final, p, w), z.final) /\ AtMost(Between(z.initial, z.final, p, w), z.initial)
    BY <1>1, <2>4, BetweenIs
  <2>. QED  BY <1>3, <2>3, <2>5 DEF p, w
<1>4. CASE Stage(z, e) = 4
  <2>1. RadiusAt(z, e) = Between(z.final, z.final, 0, 1)
    BY <1>4, RadiusIs
  <2>2. AtLeast(Between(z.final, z.final, 0, 1), z.final) /\ AtMost(Between(z.final, z.final, 0, 1), z.final)
    BY <1>1, BetweenIs
  <2>. QED  BY <1>4, <2>1, <2>2
<1>5. CASE Stage(z, e) = 5
  <2>1. e - z.target - z.hold \in Nat
    BY <1>1, <1>5 DEF Stage, Ordered
  <2>2. RadiusAt(z, e) = Between(z.final, z.sudden, e - z.target - z.hold, AtLeastOne(z.shrink))
    BY <1>5, RadiusIs
  <2>. DEFINE p == e - z.target - z.hold
              w == AtLeastOne(z.shrink)
  <2>3. p \in Nat /\ w \in Nat \ {0}
    BY <1>1, <2>1, WholeIs
  <2>. HIDE DEF p, w
  <2>4. AtMost(Between(z.final, z.sudden, p, w), z.final)
    BY <1>1, <2>3, BetweenIs
  <2>. QED  BY <1>5, <2>2, <2>4 DEF p, w
<1>6. Stage(z, e) \in {1, 2} \/ Stage(z, e) = 3 \/ Stage(z, e) = 4 \/ Stage(z, e) = 5
  BY StageIs
<1>. QED  BY <1>2, <1>3, <1>4, <1>5, <1>6

LEMMA CircleCloses ==
    ASSUME NEW z, Ordered(z), NEW e \in Nat, NEW f \in Nat, e <= f
    PROVE  RadiusAt(z, f).num * RadiusAt(z, e).den <= RadiusAt(z, e).num * RadiusAt(z, f).den
<1>1. /\ z.initial \in Nat /\ z.final \in Nat /\ z.sudden \in Nat /\ z.sudden <= z.final /\ z.final <= z.initial
      /\ z.damage \in Nat /\ z.target \in Nat /\ z.hold \in Nat /\ z.shrink \in Nat
  BY DEF Ordered
<1>2. Stage(z, e) \in 1 .. 5 /\ Stage(z, f) \in 1 .. 5 /\ Stage(z, e) <= Stage(z, f)
  BY StageIs, StageRises
<1>3. CASE Stage(z, e) \in {1, 2} /\ Stage(z, f) \in {1, 2, 3}
  BY <1>1, <1>3, RadiusIsBounded, ApartIs
<1>4. CASE Stage(z, e) \in {1, 2, 3, 4} /\ Stage(z, f) \in {4, 5}
  BY <1>1, <1>4, RadiusIsBounded, ApartIs
<1>5. CASE Stage(z, e) = 3 /\ Stage(z, f) = 3
  <2>. DEFINE w == AtLeastOne(z.target - z.damage)
  <2>1. e - z.damage \in Nat /\ f - z.damage \in Nat /\ e - z.damage <= f - z.damage
    BY <1>1, <1>5 DEF Stage, Ordered
  <2>2. w \in Nat \ {0}
    BY <1>1, WholeIs
  <2>3. /\ RadiusAt(z, e) = Between(z.initial, z.final, e - z.damage, w)
        /\ RadiusAt(z, f) = Between(z.initial, z.final, f - z.damage, w)
    BY <1>5, RadiusIs
  <2>. HIDE DEF w
  <2>4. RadiusAt(z, e).den = w /\ RadiusAt(z, f).den = w
    BY <2>3 DEF Between
  <2>5. RadiusAt(z, f).num * w <= RadiusAt(z, e).num * w
    BY <1>1, <2>1, <2>2, <2>3, BetweenShrinks
  <2>. QED  BY <2>4, <2>5
<1>6. CASE Stage(z, e) = 5 /\ Stage(z, f) = 5
  <2>. DEFINE w == AtLeastOne(z.shrink)
  <2>1. /\ e - z.target - z.hold \in Nat /\ f - z.target - z.hold \in Nat
        /\ e - z.target - z.hold <= f - z.target - z.hold
    BY <1>1, <1>6 DEF Stage, Ordered
  <2>2. w \in Nat \ {0}
    BY <1>1, WholeIs
  <2>3. /\ RadiusAt(z, e) = Between(z.final, z.sudden, e - z.target - z.hold, w)
        /\ RadiusAt(z, f) = Between(z.final, z.sudden, f - z.target - z.hold, w)
    BY <1>6, RadiusIs
  <2>. HIDE DEF w
  <2>4. RadiusAt(z, e).den = w /\ RadiusAt(z, f).den = w
    BY <2>3 DEF Between
  <2>5. RadiusAt(z, f).num * w <= RadiusAt(z, e).num * w
    BY <1>1, <2>1, <2>2, <2>3, BetweenShrinks
  <2>. QED  BY <2>4, <2>5
<1>. QED  BY <1>2, <1>3, <1>4, <1>5, <1>6

-----------------------------------------------------------------------------
(* The tanks of a round, in turn. *)

LEMMA EveryoneIs ==
    /\ Cardinality(Tanks) \in Nat /\ Tanks = 1 .. Cardinality(Tanks)
    /\ Len(Everyone) = Cardinality(Tanks) /\ \A i \in 1 .. Cardinality(Tanks) : Everyone[i] = i /\ i \in Tanks
BY RoundAssumption, FS_CardinalityType DEF Everyone, Numbered

-----------------------------------------------------------------------------
(* Sums over the tanks. *)

LEMMA TotalIs ==
    ASSUME NEW f \in [Tanks -> Int]
    PROVE  \E t \in [0 .. Cardinality(Tanks) -> Int] :
              /\ t[0] = 0 /\ \A i \in 1 .. Cardinality(Tanks) : t[i] = t[i - 1] + f[i]
              /\ Total(f) = t[Cardinality(Tanks)]
<1>. DEFINE n == Cardinality(Tanks)
            F == [i \in 1 .. n |-> [a \in Int |-> a + f[i]]]
            Follows(d) == [i \in 0 .. n |-> IF i = 0 THEN 0 ELSE d[i - 1] + f[i]]
            t == CHOOSE d : d = Follows(d)
<1>1. n \in Nat /\ \A i \in 1 .. n : f[i] \in Int
  BY EveryoneIs
<1>2. \E d : InSteps(F, n, 0, Int, d)
  <2>1. Stepwise(F, n, Int)
    BY <1>1 DEF Stepwise
  <2>. HIDE DEF F, n
  <2>. QED  BY <1>1, <2>1, Iterates
<1>. HIDE DEF n
<1>3. PICK d \in [0 .. n -> Int] : d[0] = 0 /\ \A i \in 1 .. n : d[i] = F[i][d[i - 1]]
  BY <1>2 DEF InSteps
<1>4. d = Follows(d)
  <2>1. \A i \in 1 .. n : i \in 0 .. n /\ i - 1 \in 0 .. n /\ i # 0
    BY <1>1
  <2>2. \A i \in 1 .. n : d[i] = d[i - 1] + f[i]
    BY <1>3, <2>1
  <2>3. \A i \in 0 .. n : i = 0 \/ i \in 1 .. n
    BY <1>1
  <2>. QED  BY <1>3, <2>1, <2>2, <2>3
<1>. HIDE DEF F
<1>5. t = Follows(t)
  BY <1>4
<1>6. Total(f) = t[n]
  <2>1. Len(Everyone) = n
    BY EveryoneIs DEF n
  <2>2. Total(f) = (CHOOSE e : e = [i \in 0 .. Len(Everyone) |-> IF i = 0 THEN 0 ELSE e[i - 1] + f[Everyone[i]]])[n]
    BY <2>1, Zenon DEF Total, InTurn
  <2>3. ASSUME NEW e
        PROVE  [i \in 0 .. Len(Everyone) |-> IF i = 0 THEN 0 ELSE e[i - 1] + f[Everyone[i]]] = Follows(e)
    <3>1. \A i \in 0 .. n : i # 0 => Everyone[i] = i
      BY EveryoneIs DEF n
    <3>. QED  BY <2>1, <3>1
  <2>. QED  BY <2>2, <2>3
<1>. HIDE DEF t
<1>7. t[0] = 0 /\ \A i \in 1 .. n : t[i] = t[i - 1] + f[i]
  <2>1. \A i \in 1 .. n : i \in 0 .. n /\ i # 0
    BY <1>1
  <2>2. 0 \in 0 .. n
    BY <1>1
  <2>. QED  BY <1>5, <2>1, <2>2
<1>8. \A i \in 0 .. n : t[i] \in Int
  <2>. DEFINE S == {i \in 0 .. n : t[i] \in Int}
  <2>1. 0 \in S
    BY <1>1, <1>7
  <2>2. \A i \in 1 .. n : i - 1 \in S => i \in S
    BY <1>1, <1>7
  <2>. HIDE DEF S
  <2>3. \A i \in 0 .. n : i \in S
    BY <1>1, <2>1, <2>2, Climbs
  <2>. QED  BY <2>3 DEF S
<1>9. t \in [0 .. n -> Int]
  <2>1. DOMAIN t = 0 .. n /\ t = [i \in DOMAIN t |-> t[i]]
    BY <1>5
  <2>. QED  BY <1>8, <2>1
<1>. QED  BY <1>6, <1>7, <1>9 DEF n

LEMMA SeqIsFunction ==
    ASSUME NEW S, NEW s \in Seq(S) PROVE s = [i \in DOMAIN s |-> s[i]]
<1>1. s \in [1 .. Len(s) -> S]
  OBVIOUS
<1>. QED  BY <1>1

LEMMA TotalGrows ==
    ASSUME NEW f \in [Tanks -> Nat], NEW k \in Tanks
    PROVE  Total([p \in Tanks |-> IF p = k THEN f[p] + 1 ELSE f[p]]) = Total(f) + 1 /\ Total(f) \in Int
<1>. DEFINE n == Cardinality(Tanks)
            e == [p \in Tanks |-> IF p = k THEN f[p] + 1 ELSE f[p]]
            B(i) == IF k <= i THEN 1 ELSE 0
<1>1. n \in Nat /\ Tanks = 1 .. n /\ k \in 1 .. n /\ \A i \in 1 .. n : i \in Tanks
  BY EveryoneIs
<1>2. f \in [Tanks -> Int] /\ e \in [Tanks -> Int] /\ \A i \in 1 .. n : e[i] = IF i = k THEN f[i] + 1 ELSE f[i]
  BY <1>1
<1>. HIDE DEF n, e
<1>3. PICK t \in [0 .. n -> Int] : t[0] = 0 /\ (\A i \in 1 .. n : t[i] = t[i - 1] + f[i]) /\ Total(f) = t[n]
  BY <1>2, TotalIs DEF n
<1>4. PICK u \in [0 .. n -> Int] : u[0] = 0 /\ (\A i \in 1 .. n : u[i] = u[i - 1] + e[i]) /\ Total(e) = u[n]
  BY <1>2, TotalIs DEF n
<1>. DEFINE S == {i \in 0 .. n : u[i] = t[i] + B(i)}
<1>5. 0 \in S
  <2>1. B(0) = 0 /\ 0 \in 0 .. n
    BY <1>1
  <2>. QED  BY <1>3, <1>4, <2>1
<1>6. ASSUME NEW i \in 1 .. n, i - 1 \in S PROVE i \in S
  <2>1. i \in 0 .. n /\ i - 1 \in 0 .. n /\ k \in Int /\ i \in Int /\ f[i] \in Int
    BY <1>1, <1>2
  <2>2. u[i] = u[i - 1] + e[i] /\ t[i] = t[i - 1] + f[i] /\ u[i - 1] = t[i - 1] + B(i - 1) /\ t[i - 1] \in Int
    BY <1>3, <1>4, <1>6, <2>1
  <2>3. B(i - 1) \in Int /\ e[i] \in Int /\ B(i - 1) + e[i] = f[i] + B(i)
    <3>1. CASE i = k
      BY <1>2, <2>1, <3>1
    <3>2. CASE i # k
      BY <1>2, <2>1, <3>2
    <3>. QED  BY <3>1, <3>2
  <2>. HIDE DEF B
  <2>4. B(i) \in Int
    BY DEF B
  <2>. DEFINE x == t[i - 1]
              b == B(i - 1)
              c == B(i)
  <2>5. x \in Int /\ b \in Int /\ c \in Int /\ u[i] = (x + b) + e[i] /\ t[i] = x + f[i] /\ b + e[i] = f[i] + c
    BY <2>2, <2>3, <2>4
  <2>. HIDE DEF x, b, c
  <2>7. u[i] = t[i] + c
    <3>. DEFINE v == e[i]
                w == f[i]
    <3>1. v \in Int /\ w \in Int /\ u[i] = (x + b) + v /\ t[i] = x + w /\ b + v = w + c
      BY <2>1, <2>3, <2>5
    <3>. HIDE DEF v, w
    <3>2. (x + b) + v = (x + w) + c
      BY <2>5, <3>1
    <3>. QED  BY <3>1, <3>2
  <2>. QED  BY <2>1, <2>7 DEF c
<1>. HIDE DEF S
<1>7. n \in S
  <2>1. \A i \in 0 .. n : i \in S
    BY <1>1, <1>5, <1>6, Climbs
  <2>. QED  BY <1>1, <2>1
<1>8. u[n] = t[n] + 1
  BY <1>1, <1>7 DEF S
<1>. QED  BY <1>1, <1>3, <1>4, <1>8 DEF e

LEMMA TotalOfNone == Total([p \in Tanks |-> 0]) = 0
<1>. DEFINE n == Cardinality(Tanks)
            f == [p \in Tanks |-> 0]
<1>1. n \in Nat /\ f \in [Tanks -> Int] /\ \A i \in 1 .. n : f[i] = 0
  BY EveryoneIs
<1>. HIDE DEF n, f
<1>2. PICK t \in [0 .. n -> Int] : t[0] = 0 /\ (\A i \in 1 .. n : t[i] = t[i - 1] + f[i]) /\ Total(f) = t[n]
  BY <1>1, TotalIs DEF n
<1>. DEFINE S == {i \in 0 .. n : t[i] = 0}
<1>3. 0 \in S /\ \A i \in 1 .. n : i - 1 \in S => i \in S
  BY <1>1, <1>2
<1>. HIDE DEF S
<1>4. \A i \in 0 .. n : i \in S
  BY <1>1, <1>3, Climbs
<1>. QED  BY <1>1, <1>2, <1>4 DEF S, f

-----------------------------------------------------------------------------
(* The statistics of a round.  While a tick goes on, the deaths that are not       *)
(* published yet count like those that are.                                        *)

Fields ==
    {"players", "alive", "status", "hp", "shield", "shieldUntil", "lastShield", "lastCombat", "regen", "burn",
     "taken", "dealt", "kills", "deaths", "recent", "bullets", "order", "events"}
Agents  == Tanks \cup {NoTank}
Blows   == [by : Agents, at : Int]
Bullets == [owner : Tanks, kind : DOMAIN Damage, bounced : BOOLEAN]
Deaths  == [victim : Tanks, credited : Agents, lethal : Agents,
            attribution : {"direct", "recent_damage", "self", "environment"}]
Statuses == {"playing", "finished"}
Values ==
    UNION {SUBSET Tanks, Statuses, Int, [Tanks -> Int], [Tanks -> Blows], Seq(Bullets), Seq(Tanks), Seq(Deaths)}

LEMMA ValuesAre ==
    /\ SUBSET Tanks \subseteq Values /\ Statuses \subseteq Values /\ Int \subseteq Values
    /\ [Tanks -> Int] \subseteq Values /\ [Tanks -> Blows] \subseteq Values /\ Seq(Bullets) \subseteq Values
    /\ Seq(Tanks) \subseteq Values /\ Seq(Deaths) \subseteq Values
BY DEF Values

Typed(h) ==
    /\ h \in [Fields -> Values]
    /\ h.players \in SUBSET Tanks /\ h.alive \in SUBSET h.players /\ h.status \in Statuses
    /\ h.hp \in [Tanks -> 0 .. MaxHp] /\ h.shield \in [Tanks -> Nat]
    /\ h.shieldUntil \in [Tanks -> Int] /\ h.lastShield \in [Tanks -> Int] /\ h.lastCombat \in [Tanks -> Int]
    /\ h.regen \in [Tanks -> Nat] /\ h.burn \in [Tanks -> Nat]
    /\ h.taken \in Nat /\ h.dealt \in Nat /\ h.kills \in [Tanks -> Nat] /\ h.deaths \in [Tanks -> Nat]
    /\ h.recent \in [Tanks -> Blows] /\ h.bullets \in Seq(Bullets)
    /\ h.order \in Seq(Tanks) /\ h.events \in Seq(Deaths)

Among(s)    == {s[i] : i \in DOMAIN s}
Distinct(s) == \A i, j \in DOMAIN s : s[i] = s[j] => i = j
Credits(s)  == {i \in DOMAIN s : s[i].credited # NoTank}
Victims(s)  == [i \in DOMAIN s |-> s[i].victim]

\* What is told of the deaths, and what is counted of them.
Booked(order, notices, kills, deaths) ==
    /\ notices \in Seq(Deaths) /\ order \in Seq(Tanks) /\ kills \in [Tanks -> Nat]
    /\ Victims(notices) = order /\ Distinct(order)
    /\ \A i \in DOMAIN notices : notices[i].credited # notices[i].victim
    /\ Total(kills) = Cardinality(Credits(notices))
    /\ \A p \in Tanks : deaths[p] = IF p \in Among(order) THEN 1 ELSE 0

\* Who lives, and who fell.
Counted(players, living, hp, order) ==
    /\ living \cap Among(order) = {}
    /\ \A p \in players : (p \in living <=> hp[p] > 0) /\ (p \in living \/ p \in Among(order))

LEMMA AppendIs ==
    ASSUME NEW S, NEW s \in Seq(S), NEW x \in S
    PROVE  /\ Append(s, x) \in Seq(S) /\ Len(s) \in Nat /\ DOMAIN s = 1 .. Len(s)
           /\ Len(Append(s, x)) = Len(s) + 1 /\ DOMAIN Append(s, x) = 1 .. Len(s) + 1
           /\ Append(s, x)[Len(s) + 1] = x /\ \A i \in 1 .. Len(s) : Append(s, x)[i] = s[i]
OBVIOUS

LEMMA AmongGrows ==
    ASSUME NEW S, NEW s \in Seq(S), NEW x \in S
    PROVE  /\ Among(Append(s, x)) = Among(s) \cup {x}
           /\ Distinct(s) /\ x \notin Among(s) => Distinct(Append(s, x))
<1>. DEFINE n == Len(s)
            t == Append(s, x)
<1>1. /\ n \in Nat /\ DOMAIN s = 1 .. n /\ DOMAIN t = 1 .. n + 1
      /\ t[n + 1] = x /\ \A i \in 1 .. n : t[i] = s[i]
  BY AppendIs
<1>2. \A i \in 1 .. n + 1 : i = n + 1 \/ i \in 1 .. n
  BY <1>1
<1>3. n + 1 \in 1 .. n + 1 /\ \A i \in 1 .. n : i \in 1 .. n + 1
  BY <1>1
<1>. HIDE DEF n, t
<1>4. Among(t) = Among(s) \cup {x}
  BY <1>1, <1>2, <1>3 DEF Among
<1>5. Distinct(s) /\ x \notin Among(s) => Distinct(t)
  BY <1>1, <1>2, <1>3 DEF Among, Distinct
<1>. QED  BY <1>4, <1>5 DEF t

LEMMA CreditsGrow ==
    ASSUME NEW s \in Seq(Deaths), NEW x \in Deaths
    PROVE  /\ Cardinality(Credits(s)) \in Nat
           /\ Cardinality(Credits(Append(s, x))) = Cardinality(Credits(s)) + IF x.credited = NoTank THEN 0 ELSE 1
<1>. DEFINE n == Len(s)
            t == Append(s, x)
<1>1. /\ n \in Nat /\ DOMAIN s = 1 .. n /\ DOMAIN t = 1 .. n + 1
      /\ t[n + 1] = x /\ \A i \in 1 .. n : t[i] = s[i]
  BY AppendIs
<1>2. \A i \in 1 .. n + 1 : i = n + 1 \/ i \in 1 .. n
  BY <1>1
<1>3. n + 1 \in 1 .. n + 1 /\ n + 1 \notin 1 .. n /\ \A i \in 1 .. n : i \in 1 .. n + 1
  BY <1>1
<1>. HIDE DEF n, t
<1>4. IsFiniteSet(Credits(s)) /\ Cardinality(Credits(s)) \in Nat
  <2>1. Credits(s) \subseteq 1 .. n
    BY <1>1 DEF Credits
  <2>2. IsFiniteSet(1 .. n)
    BY <1>1, FS_Interval
  <2>3. IsFiniteSet(Credits(s))
    BY <2>1, <2>2, FS_Subset
  <2>. QED  BY <2>3, FS_CardinalityType
<1>5. CASE x.credited = NoTank
  <2>1. Credits(t) = Credits(s)
    BY <1>1, <1>2, <1>3, <1>5 DEF Credits
  <2>. QED  BY <1>4, <1>5, <2>1 DEF t
<1>6. CASE x.credited # NoTank
  <2>1. Credits(t) = Credits(s) \cup {n + 1} /\ n + 1 \notin Credits(s)
    BY <1>1, <1>2, <1>3, <1>6 DEF Credits
  <2>2. Cardinality(Credits(t)) = Cardinality(Credits(s)) + 1
    BY <1>4, <2>1, FS_AddElement
  <2>. QED  BY <1>4, <1>6, <2>2 DEF t
<1>. QED  BY <1>5, <1>6

\* One death more is told of, listed and credited.
BookedToo(order, notices, kills, deaths, p, e) ==
    Booked(Append(order, p), Append(notices, e),
           [k \in Tanks |-> IF k = e.credited THEN kills[k] + 1 ELSE kills[k]], [deaths EXCEPT ![p] = @ + 1])

LEMMA BookedOnce ==
    ASSUME NEW order, NEW notices, NEW kills, NEW deaths, Booked(order, notices, kills, deaths),
           NEW p \in Tanks, p \notin Among(order), NEW e \in Deaths, e.victim = p, e.credited # p,
           deaths \in [Tanks -> Nat]
    PROVE  BookedToo(order, notices, kills, deaths, p, e)
<1>. DEFINE o == Append(order, p)
            t == Append(notices, e)
            ks == [k \in Tanks |-> IF k = e.credited THEN kills[k] + 1 ELSE kills[k]]
            ds == [deaths EXCEPT ![p] = @ + 1]
<1>1. notices \in Seq(Deaths) /\ order \in Seq(Tanks) /\ kills \in [Tanks -> Nat] /\ Victims(notices) = order
  BY DEF Booked
<1>2. o \in Seq(Tanks) /\ t \in Seq(Deaths) /\ ks \in [Tanks -> Nat]
  BY <1>1
<1>3. Among(o) = Among(order) \cup {p} /\ Distinct(o)
  BY <1>1, AmongGrows DEF Booked
<1>4. Victims(t) = o
  <2>. DEFINE n == Len(notices)
  <2>1. /\ n \in Nat /\ DOMAIN notices = 1 .. n /\ DOMAIN t = 1 .. n + 1
        /\ t[n + 1] = e /\ \A i \in 1 .. n : t[i] = notices[i]
    BY <1>1, AppendIs
  <2>2. DOMAIN order = 1 .. n /\ \A i \in 1 .. n : order[i] = notices[i].victim
    BY <1>1, <2>1 DEF Victims
  <2>3. Len(order) = n
    BY <1>1, <2>1, <2>2
  <2>4. DOMAIN o = 1 .. n + 1 /\ o[n + 1] = p /\ (\A i \in 1 .. n : o[i] = order[i]) /\ o = [i \in DOMAIN o |-> o[i]]
    <3>1. /\ DOMAIN o = 1 .. Len(order) + 1 /\ o[Len(order) + 1] = p
          /\ \A i \in 1 .. Len(order) : o[i] = order[i]
      BY <1>1, AppendIs
    <3>2. o = [i \in DOMAIN o |-> o[i]]
      <4>. HIDE DEF o
      <4>. QED  BY <1>2, SeqIsFunction
    <3>. QED  BY <2>3, <3>1, <3>2
  <2>5. \A i \in 1 .. n + 1 : i = n + 1 \/ i \in 1 .. n
    BY <2>1
  <2>. HIDE DEF n, t, o
  <2>6. \A i \in 1 .. n + 1 : t[i].victim = o[i]
    BY <2>1, <2>2, <2>4, <2>5
  <2>. QED  BY <2>1, <2>4, <2>6 DEF Victims
<1>5. \A i \in DOMAIN t : t[i].credited # t[i].victim
  <2>. DEFINE n == Len(notices)
  <2>1. /\ n \in Nat /\ DOMAIN notices = 1 .. n /\ DOMAIN t = 1 .. n + 1
        /\ t[n + 1] = e /\ \A i \in 1 .. n : t[i] = notices[i]
    BY <1>1, AppendIs
  <2>2. \A i \in 1 .. n + 1 : i = n + 1 \/ i \in 1 .. n
    BY <2>1
  <2>. HIDE DEF n, t
  <2>. QED  BY <2>1, <2>2 DEF Booked
<1>6. Total(ks) = Cardinality(Credits(t))
  <2>1. Total(kills) = Cardinality(Credits(notices)) /\ Cardinality(Credits(notices)) \in Nat
    BY <1>1, CreditsGrow DEF Booked
  <2>2. Cardinality(Credits(t)) = Cardinality(Credits(notices)) + IF e.credited = NoTank THEN 0 ELSE 1
    BY <1>1, CreditsGrow
  <2>3. CASE e.credited = NoTank
    <3>1. ks = kills
      BY <1>1, <2>3, RoundAssumption
    <3>. QED  BY <2>1, <2>2, <2>3, <3>1
  <2>4. CASE e.credited # NoTank
    <3>1. e.credited \in Tanks
      BY <2>4 DEF Deaths, Agents
    <3>2. Total(ks) = Total(kills) + 1
      BY <1>1, <3>1, TotalGrows
    <3>. QED  BY <2>1, <2>2, <2>4, <3>2
  <2>. QED  BY <2>3, <2>4
<1>7. \A q \in Tanks : ds[q] = IF q \in Among(o) THEN 1 ELSE 0
  BY <1>3 DEF Booked
<1>. HIDE DEF o, t, ks, ds
<1>8. Booked(o, t, ks, ds)
  BY <1>2, <1>3, <1>4, <1>5, <1>6, <1>7 DEF Booked
<1>. QED  BY <1>8 DEF o, t, ks, ds, BookedToo

-----------------------------------------------------------------------------
(* What the operations of a round keep.                                          *)

\* A ranking: those who fell before it was made, the last first, and the winner; after
\* it only the winner may fall.
Placed(order, living, winner, place) ==
    \E n \in 0 .. Len(order) :
        /\ living \subseteq {winner}
        /\ \A i \in n + 1 .. Len(order) : order[i] = winner
        /\ \A i \in 1 .. n : order[i] # winner
        /\ \A p \in DOMAIN place : p # winner =>
              \E i \in 1 .. n : order[i] = p /\ place[p] = (IF winner = NoTank THEN 0 ELSE 1) + (n + 1 - i)
        /\ winner # NoTank => winner \in DOMAIN place /\ place[winner] = 1

Adds(h) ==
    /\ Typed(h) /\ h.dealt <= h.taken /\ Booked(h.order, feed \o h.events, h.kills, h.deaths)
    /\ \A p \in Tanks : h.recent[p].by # p
    /\ Counted(h.players, h.alive, h.hp, h.order)
    /\ h.status = IF stage = "running" THEN "playing" ELSE "finished"
    /\ stage # "running" => Placed(h.order, h.alive, result.winner, result.place)

LEMMA PlacedStays ==
    ASSUME NEW order \in Seq(Tanks), NEW living, NEW winner, NEW place, Placed(order, living, winner, place)
    PROVE  /\ \A l \in SUBSET living : Placed(order, l, winner, place)
           /\ \A p \in living \cap Tanks : Placed(Append(order, p), living \ {p}, winner, place)
<1>1. PICK n \in 0 .. Len(order) :
        /\ living \subseteq {winner}
        /\ \A i \in n + 1 .. Len(order) : order[i] = winner
        /\ \A i \in 1 .. n : order[i] # winner
        /\ \A p \in DOMAIN place : p # winner =>
              \E i \in 1 .. n : order[i] = p /\ place[p] = (IF winner = NoTank THEN 0 ELSE 1) + (n + 1 - i)
        /\ winner # NoTank => winner \in DOMAIN place /\ place[winner] = 1
  BY Zenon DEF Placed
<1>2. ASSUME NEW l \in SUBSET living PROVE Placed(order, l, winner, place)
  <2>1. l \subseteq {winner}
    BY <1>1
  <2>. QED  BY <1>1, <2>1, Zenon DEF Placed
<1>3. ASSUME NEW p \in living \cap Tanks PROVE Placed(Append(order, p), living \ {p}, winner, place)
  <2>. DEFINE o == Append(order, p)
  <2>1. /\ Len(order) \in Nat /\ Len(o) = Len(order) + 1 /\ o[Len(order) + 1] = p
        /\ \A i \in 1 .. Len(order) : o[i] = order[i]
    BY AppendIs
  <2>. HIDE DEF o
  <2>2. p = winner /\ living \ {p} \subseteq {winner} /\ n \in 0 .. Len(o)
    BY <1>1, <1>3, <2>1
  <2>3. \A i \in n + 1 .. Len(o) : o[i] = winner
    <3>. SUFFICES ASSUME NEW i \in n + 1 .. Len(o) PROVE o[i] = winner
      OBVIOUS
    <3>1. CASE i = Len(order) + 1
      BY <2>1, <2>2, <3>1
    <3>2. CASE i # Len(order) + 1
      <4>1. i \in n + 1 .. Len(order) /\ i \in 1 .. Len(order)
        BY <2>1, <3>2
      <4>. QED  BY <1>1, <2>1, <4>1
    <3>. QED  BY <3>1, <3>2
  <2>4. \A i \in 1 .. n : o[i] = order[i]
    BY <2>1
  <2>5. \A i \in 1 .. n : o[i] # winner
    BY <1>1, <2>4
  <2>6. \A q \in DOMAIN place : q # winner =>
           \E i \in 1 .. n : o[i] = q /\ place[q] = (IF winner = NoTank THEN 0 ELSE 1) + (n + 1 - i)
    <3>. SUFFICES ASSUME NEW q \in DOMAIN place, q # winner
                  PROVE  \E i \in 1 .. n : o[i] = q /\ place[q] = (IF winner = NoTank THEN 0 ELSE 1) + (n + 1 - i)
      OBVIOUS
    <3>1. PICK i \in 1 .. n : order[i] = q /\ place[q] = (IF winner = NoTank THEN 0 ELSE 1) + (n + 1 - i)
      BY <1>1
    <3>. QED  BY <2>4, <3>1, Zenon
  <2>7. Placed(o, living \ {p}, winner, place)
    BY <1>1, <2>2, <2>3, <2>5, <2>6, Zenon DEF Placed
  <2>. QED  BY <2>7 DEF o
<1>. QED  BY <1>2, <1>3

\* A tank that loses health.
Hurt(g, p, amount, by, now) ==
    LET other == by \notin {NoTank, p}
    IN  [g EXCEPT
            !.hp[p] = @ - Min2(g.hp[p], amount), !.taken = @ + Min2(g.hp[p], amount),
            !.dealt = IF other THEN @ + Min2(g.hp[p], amount) ELSE @,
            !.recent[p] = IF other THEN [by |-> by, at |-> now] ELSE @]

LEMMA HurtIs ==
    ASSUME NEW g, Adds(g), NEW p \in g.alive, NEW amount \in Nat \ {0}, NEW by \in Agents, NEW now \in Int,
           NEW hurt, hurt = Hurt(g, p, amount, by, now)
    PROVE  /\ Typed(hurt) /\ hurt.dealt <= hurt.taken
           /\ hurt.players = g.players /\ hurt.alive = g.alive /\ hurt.order = g.order /\ hurt.events = g.events
           /\ hurt.kills = g.kills /\ hurt.deaths = g.deaths /\ hurt.status = g.status
           /\ \A q \in Tanks : hurt.recent[q].by # q
           /\ \A q \in Tanks \ {p} : hurt.hp[q] = g.hp[q]
<1>. DEFINE applied == Min2(g.hp[p], amount)
            hp == [g.hp EXCEPT ![p] = @ - applied]
            dealt == IF by \notin {NoTank, p} THEN g.dealt + applied ELSE g.dealt
            blow == IF by \notin {NoTank, p} THEN [by |-> by, at |-> now] ELSE g.recent[p]
            recent == [g.recent EXCEPT ![p] = blow]
            taken == g.taken + applied
<1>0. /\ Typed(g) /\ g.dealt <= g.taken /\ g.dealt \in Nat /\ g.taken \in Nat
      /\ g.recent \in [Tanks -> Blows] /\ \A q \in Tanks : g.recent[q].by # q
  BY DEF Adds, Typed
<1>1. p \in Tanks /\ g.hp \in [Tanks -> 0 .. MaxHp] /\ g.hp[p] \in 0 .. MaxHp /\ MaxHp \in Nat
  BY <1>0, RoundAssumption DEF Typed
<1>2. applied \in Nat /\ applied <= g.hp[p] /\ g.hp[p] - applied \in 0 .. MaxHp
  BY <1>1 DEF Min2
<1>3. hurt = [g EXCEPT !.hp = hp, !.taken = taken, !.dealt = dealt, !.recent = recent]
  BY DEF Hurt
<1>. HIDE DEF applied
<1>4. hp \in [Tanks -> 0 .. MaxHp] /\ \A q \in Tanks \ {p} : hp[q] = g.hp[q]
  BY <1>1, <1>2
<1>5. taken \in Nat /\ dealt \in Nat /\ dealt <= taken
  <2>. HIDE <1>3
  <2>. HIDE DEF Hurt, hp, recent, blow
  <2>. DEFINE t == g.taken
              d == g.dealt
  <2>1. t \in Nat /\ d \in Nat /\ d <= t /\ taken = t + applied /\ (dealt = d + applied \/ dealt = d)
    BY <1>0
  <2>. HIDE DEF t, d, taken, dealt
  <2>. QED  BY <1>2, <2>1
<1>6. blow \in Blows /\ blow.by # p
  BY <1>0, <1>1 DEF Blows
<1>7. recent \in [Tanks -> Blows] /\ \A q \in Tanks : recent[q].by # q
  BY <1>0, <1>1, <1>6
<1>8. [Tanks -> 0 .. MaxHp] \subseteq [Tanks -> Int]
  BY <1>1
<1>9. hp \in Values /\ taken \in Values /\ dealt \in Values /\ recent \in Values
  BY <1>4, <1>5, <1>7, <1>8, ValuesAre
<1>. HIDE DEF hp, taken, dealt, blow, recent
<1>10. g \in [Fields -> Values]
  BY <1>0 DEF Typed
<1>11. /\ hurt \in [Fields -> Values] /\ hurt.hp = hp /\ hurt.taken = taken /\ hurt.dealt = dealt /\ hurt.recent = recent
       /\ \A f \in Fields \ {"hp", "taken", "dealt", "recent"} : hurt[f] = g[f]
  <2>. DEFINE h1 == [g EXCEPT !.hp = hp]
              h2 == [h1 EXCEPT !.taken = taken]
              h3 == [h2 EXCEPT !.dealt = dealt]
  <2>1. hurt = [h3 EXCEPT !.recent = recent]
    BY <1>3
  <2>2. {"hp", "taken", "dealt", "recent"} \subseteq Fields
    BY DEF Fields
  <2>3. h1 \in [Fields -> Values] /\ h1.hp = hp /\ \A f \in Fields \ {"hp"} : h1[f] = g[f]
    BY <1>9, <1>10, <2>2
  <2>. HIDE DEF h1
  <2>4. h2 \in [Fields -> Values] /\ h2.taken = taken /\ \A f \in Fields \ {"taken"} : h2[f] = h1[f]
    BY <1>9, <2>2, <2>3
  <2>. HIDE DEF h2
  <2>5. h3 \in [Fields -> Values] /\ h3.dealt = dealt /\ \A f \in Fields \ {"dealt"} : h3[f] = h2[f]
    BY <1>9, <2>2, <2>4
  <2>. HIDE DEF h3
  <2>6. hurt \in [Fields -> Values] /\ hurt.recent = recent /\ \A f \in Fields \ {"recent"} : hurt[f] = h3[f]
    BY <1>9, <2>1, <2>2, <2>5
  <2>. QED  BY <2>2, <2>3, <2>4, <2>5, <2>6
<1>12. /\ hurt.players = g.players /\ hurt.alive = g.alive /\ hurt.order = g.order /\ hurt.events = g.events
       /\ hurt.kills = g.kills /\ hurt.deaths = g.deaths /\ hurt.status = g.status
       /\ hurt.shield = g.shield /\ hurt.shieldUntil = g.shieldUntil /\ hurt.lastShield = g.lastShield
       /\ hurt.lastCombat = g.lastCombat /\ hurt.regen = g.regen /\ hurt.burn = g.burn /\ hurt.bullets = g.bullets
  BY <1>11 DEF Fields
<1>13. Typed(hurt)
  BY <1>0, <1>4, <1>5, <1>7, <1>11, <1>12 DEF Typed
<1>. QED  BY <1>4, <1>5, <1>7, <1>11, <1>12, <1>13

LEMMA DiesIs ==
    ASSUME NEW g, Typed(g), g.dealt <= g.taken, NEW p \in g.alive, NEW by \in Agents, NEW now \in Int,
           feed \in Seq(Deaths), \A q \in Tanks : g.recent[q].by # q,
           Booked(g.order, feed \o g.events, g.kills, g.deaths),
           g.alive \cap Among(g.order) = {}, g.hp[p] = 0,
           \A q \in g.players \ {p} : (q \in g.alive <=> g.hp[q] > 0) /\ (q \in g.alive \/ q \in Among(g.order)),
           g.status = (IF stage = "running" THEN "playing" ELSE "finished"),
           stage # "running" => Placed(g.order, g.alive, result.winner, result.place)
    PROVE  Adds(Eliminate(g, p, by, now))
<1>. DEFINE direct   == IF by = p THEN NoTank ELSE by
            recent   == IF now - g.recent[p].at <= Window THEN g.recent[p].by ELSE NoTank
            credited == IF direct # NoTank THEN direct ELSE recent
            how      == CASE direct # NoTank -> "direct"
                          [] direct = NoTank /\ recent # NoTank -> "recent_damage"
                          [] direct = NoTank /\ recent = NoTank /\ by = p -> "self"
                          [] OTHER -> "environment"
            event    == [victim |-> p, credited |-> credited, lethal |-> by, attribution |-> how]
            kills    == [k \in Tanks |-> IF k = credited THEN g.kills[k] + 1 ELSE g.kills[k]]
            deaths   == [g.deaths EXCEPT ![p] = @ + 1]
            blows    == [g.recent EXCEPT ![p] = NoHit]
            events   == Append(g.events, event)
            order    == Append(g.order, p)
            h        == Eliminate(g, p, by, now)
<1>1. h = [g EXCEPT !.alive = @ \ {p}, !.deaths = deaths, !.kills = kills, !.recent = blows,
                    !.events = events, !.order = order]
  BY DEF Eliminate
<1>2. p \in Tanks /\ p # NoTank /\ g.recent[p] \in Blows /\ g.recent[p].by # p
  BY RoundAssumption DEF Typed
<1>3. credited \in Agents /\ credited # p
  BY <1>2 DEF Blows, Agents
<1>4. how \in {"direct", "recent_damage", "self", "environment"}
  OBVIOUS
<1>. HIDE DEF credited, how, h
<1>5. event \in Deaths /\ event.victim = p /\ event.credited = credited
  BY <1>2, <1>3, <1>4 DEF Deaths
<1>. HIDE DEF event
<1>6. /\ events \in Seq(Deaths) /\ order \in Seq(Tanks) /\ feed \o events = Append(feed \o g.events, event)
  <2>1. g.events \in Seq(Deaths) /\ g.order \in Seq(Tanks)
    BY DEF Typed
  <2>2. events \in Seq(Deaths) /\ order \in Seq(Tanks)
    BY <1>2, <1>5, <2>1
  <2>3. feed \o events = Append(feed \o g.events, event)
    BY <1>5, <2>1
  <2>. QED  BY <2>2, <2>3
<1>7. deaths \in [Tanks -> Nat] /\ kills \in [Tanks -> Nat]
  <2>1. g.deaths \in [Tanks -> Nat] /\ g.kills \in [Tanks -> Nat]
    BY DEF Typed
  <2>. HIDE DEF event, credited
  <2>2. deaths \in [Tanks -> Nat]
    BY <1>2, <2>1
  <2>3. kills \in [Tanks -> Nat]
    BY <2>1
  <2>. QED  BY <2>2, <2>3
<1>8. NoHit \in Blows /\ NoHit.by # p
  BY <1>2 DEF NoHit, Blows, Agents
<1>9. blows \in [Tanks -> Blows] /\ \A q \in Tanks : blows[q].by # q
  BY <1>2, <1>8 DEF Typed
<1>10. p \notin Among(g.order)
  OBVIOUS
<1>11. Booked(order, feed \o events, kills, deaths)
  <2>1. g.deaths \in [Tanks -> Nat]
    BY DEF Typed
  <2>2. kills = [k \in Tanks |-> IF k = event.credited THEN g.kills[k] + 1 ELSE g.kills[k]]
    BY <1>5
  <2>3. event.credited # p
    BY <1>3, <1>5
  <2>. DEFINE notices == feed \o g.events
  <2>. HIDE DEF notices
  <2>4. Booked(g.order, notices, g.kills, g.deaths)
    BY DEF notices
  <2>5. BookedToo(g.order, notices, g.kills, g.deaths, p, event)
    BY <1>2, <1>5, <1>10, <2>1, <2>3, <2>4, BookedOnce
  <2>6. Append(notices, event) = feed \o events
    BY <1>6 DEF notices
  <2>. QED  BY <2>2, <2>5, <2>6 DEF BookedToo
<1>12. g.alive \ {p} \in SUBSET g.players /\ g.players \in SUBSET Tanks
  BY DEF Typed
<1>13. Among(order) = Among(g.order) \cup {p}
  <2>1. g.order \in Seq(Tanks)
    BY DEF Typed
  <2>. QED  BY <1>2, <2>1, AmongGrows
<1>14. Counted(g.players, g.alive \ {p}, g.hp, order)
  <2>1. 0 > 0 <=> FALSE
    OBVIOUS
  <2>. QED  BY <1>13, <2>1 DEF Counted
<1>15. stage # "running" => Placed(order, g.alive \ {p}, result.winner, result.place)
  <2>1. g.order \in Seq(Tanks) /\ p \in g.alive \cap Tanks
    BY <1>2 DEF Typed
  <2>. HIDE DEF order
  <2>. QED  BY <2>1, PlacedStays DEF order
<1>. HIDE DEF kills, deaths, blows, events, order
<1>16. /\ deaths \in Values /\ kills \in Values /\ blows \in Values /\ events \in Values /\ order \in Values
       /\ g.alive \ {p} \in Values
  <2>1. [Tanks -> Nat] \subseteq [Tanks -> Int]
    OBVIOUS
  <2>2. g.alive \ {p} \in SUBSET Tanks
    BY <1>12
  <2>. QED  BY <1>6, <1>7, <1>9, <2>1, <2>2, ValuesAre
<1>17. g \in [Fields -> Values]
  BY DEF Typed
<1>18. /\ h \in [Fields -> Values] /\ h.alive = g.alive \ {p} /\ h.deaths = deaths /\ h.kills = kills
       /\ h.recent = blows /\ h.events = events /\ h.order = order
       /\ h.players = g.players /\ h.hp = g.hp /\ h.status = g.status /\ h.taken = g.taken /\ h.dealt = g.dealt
       /\ h.shield = g.shield /\ h.shieldUntil = g.shieldUntil /\ h.lastShield = g.lastShield
       /\ h.lastCombat = g.lastCombat /\ h.regen = g.regen /\ h.burn = g.burn /\ h.bullets = g.bullets
  BY <1>1, <1>16, <1>17 DEF Fields
<1>19. Typed(h)
  BY <1>6, <1>7, <1>9, <1>12, <1>18 DEF Typed
<1>20. Adds(h)
  BY <1>9, <1>11, <1>14, <1>15, <1>18, <1>19 DEF Adds
<1>. QED  BY <1>20 DEF h

LEMMA ApplyKeeps ==
    ASSUME NEW g, Adds(g), NEW p \in g.alive, NEW amount \in Nat \ {0}, NEW by \in Agents, NEW now \in Int,
           feed \in Seq(Deaths)
    PROVE  Adds(ApplyHpDamage(g, p, amount, by, now))
<1>. DEFINE hurt == Hurt(g, p, amount, by, now)
<1>1. ApplyHpDamage(g, p, amount, by, now) = IF hurt.hp[p] = 0 THEN Eliminate(hurt, p, by, now) ELSE hurt
  BY DEF ApplyHpDamage, Hurt
<1>. HIDE DEF hurt
<1>2. /\ Typed(hurt) /\ hurt.dealt <= hurt.taken
      /\ hurt.players = g.players /\ hurt.alive = g.alive /\ hurt.order = g.order /\ hurt.events = g.events
      /\ hurt.kills = g.kills /\ hurt.deaths = g.deaths /\ hurt.status = g.status
      /\ \A q \in Tanks : hurt.recent[q].by # q
      /\ \A q \in Tanks \ {p} : hurt.hp[q] = g.hp[q]
  <2>1. hurt = Hurt(g, p, amount, by, now)
    BY DEF hurt
  <2>. QED  BY <2>1, HurtIs
<1>3. g.players \in SUBSET Tanks /\ p \in Tanks /\ g.alive \in SUBSET g.players
  BY DEF Adds, Typed
<1>4. /\ hurt.alive \cap Among(hurt.order) = {}
      /\ \A q \in hurt.players \ {p} : (q \in hurt.alive <=> hurt.hp[q] > 0) /\ (q \in hurt.alive \/ q \in Among(hurt.order))
  BY <1>2, <1>3 DEF Adds, Counted
<1>5. CASE hurt.hp[p] = 0
  <2>1. /\ p \in hurt.alive /\ Booked(hurt.order, feed \o hurt.events, hurt.kills, hurt.deaths)
        /\ hurt.status = (IF stage = "running" THEN "playing" ELSE "finished")
        /\ stage # "running" => Placed(hurt.order, hurt.alive, result.winner, result.place)
    BY <1>2 DEF Adds
  <2>2. Adds(Eliminate(hurt, p, by, now))
    BY <1>2, <1>4, <1>5, <2>1, DiesIs
  <2>. QED  BY <1>1, <1>5, <2>2
<1>6. CASE hurt.hp[p] # 0
  <2>1. hurt.hp[p] > 0
    BY <1>2, <1>3, <1>6, RoundAssumption DEF Typed
  <2>2. Counted(hurt.players, hurt.alive, hurt.hp, hurt.order)
    BY <1>2, <1>4, <2>1 DEF Counted
  <2>3. Adds(hurt)
    BY <1>2, <2>2 DEF Adds
  <2>. QED  BY <1>1, <1>6, <2>3
<1>. QED  BY <1>5, <1>6

-----------------------------------------------------------------------------
(* The operations of game.service.ts.                                              *)

\* What the statistics do not speak of may change.
Alike(g, h) ==
    /\ h.players = g.players /\ h.alive = g.alive /\ h.status = g.status /\ h.taken = g.taken /\ h.dealt = g.dealt
    /\ h.kills = g.kills /\ h.deaths = g.deaths /\ h.recent = g.recent /\ h.order = g.order /\ h.events = g.events
    /\ \A q \in g.players : h.hp[q] > 0 <=> g.hp[q] > 0

LEMMA AlikeKeeps ==
    ASSUME NEW g, Adds(g), NEW h, Typed(h), Alike(g, h) PROVE Adds(h)
<1>1. Counted(h.players, h.alive, h.hp, h.order)
  BY DEF Adds, Counted, Alike
<1>. QED  BY <1>1 DEF Adds, Alike

LEMMA MarkCombatKeeps ==
    ASSUME NEW g, Adds(g), NEW S, NEW now \in Int
    PROVE  /\ Adds(MarkCombat(g, S, now)) /\ MarkCombat(g, S, now).alive = g.alive
           /\ MarkCombat(g, S, now).players = g.players /\ MarkCombat(g, S, now).shield = g.shield
<1>. DEFINE combat == [p \in Tanks |-> IF p \in S THEN now ELSE g.lastCombat[p]]
            regen  == [p \in Tanks |-> IF p \in S THEN 0 ELSE g.regen[p]]
            h1 == [g EXCEPT !.lastCombat = combat]
            h  == MarkCombat(g, S, now)
<1>1. Typed(g) /\ g \in [Fields -> Values] /\ g.lastCombat \in [Tanks -> Int] /\ g.regen \in [Tanks -> Nat]
  BY DEF Adds, Typed
<1>2. combat \in [Tanks -> Int] /\ regen \in [Tanks -> Nat] /\ [Tanks -> Nat] \subseteq [Tanks -> Int]
  BY <1>1
<1>3. h = [h1 EXCEPT !.regen = regen]
  BY DEF MarkCombat
<1>. HIDE DEF combat, regen, h
<1>4. {"lastCombat", "regen"} \subseteq Fields /\ combat \in Values /\ regen \in Values
  BY <1>2, ValuesAre DEF Fields
<1>5. h1 \in [Fields -> Values] /\ h1.lastCombat = combat /\ \A f \in Fields \ {"lastCombat"} : h1[f] = g[f]
  BY <1>1, <1>4
<1>. HIDE DEF h1
<1>6. h \in [Fields -> Values] /\ h.regen = regen /\ \A f \in Fields \ {"regen"} : h[f] = h1[f]
  BY <1>3, <1>4, <1>5
<1>7. /\ h.lastCombat = combat
      /\ h.hp = g.hp /\ h.players = g.players /\ h.alive = g.alive /\ h.order = g.order /\ h.events = g.events
      /\ h.kills = g.kills /\ h.deaths = g.deaths /\ h.status = g.status /\ h.taken = g.taken /\ h.dealt = g.dealt
      /\ h.shield = g.shield /\ h.shieldUntil = g.shieldUntil /\ h.lastShield = g.lastShield
      /\ h.recent = g.recent /\ h.burn = g.burn /\ h.bullets = g.bullets
  BY <1>5, <1>6 DEF Fields
<1>8. Typed(h)
  BY <1>1, <1>2, <1>6, <1>7 DEF Typed
<1>9. Alike(g, h)
  BY <1>7 DEF Alike
<1>10. Adds(h)
  BY <1>8, <1>9, AlikeKeeps
<1>. QED  BY <1>7, <1>10 DEF h

\* One number of one tank, of those the statistics do not speak of.
LEMMA OneNumberKeeps ==
    ASSUME NEW g, Adds(g), NEW p \in Tanks, NEW n \in Nat
    PROVE  /\ Adds([g EXCEPT !.shield = [@ EXCEPT ![p] = n]])
           /\ Adds([g EXCEPT !.burn = [@ EXCEPT ![p] = n]])
           /\ Adds([g EXCEPT !.regen = [@ EXCEPT ![p] = n]])
<1>1. /\ Typed(g) /\ g \in [Fields -> Values] /\ g.shield \in [Tanks -> Nat] /\ g.burn \in [Tanks -> Nat]
      /\ g.regen \in [Tanks -> Nat] /\ [Tanks -> Nat] \subseteq Values
  <2>1. [Tanks -> Nat] \subseteq [Tanks -> Int]
    OBVIOUS
  <2>. QED  BY <2>1, ValuesAre DEF Adds, Typed
<1>. DEFINE shield == [g.shield EXCEPT ![p] = n]
            burn == [g.burn EXCEPT ![p] = n]
            regen == [g.regen EXCEPT ![p] = n]
            h1 == [g EXCEPT !.shield = shield]
            h2 == [g EXCEPT !.burn = burn]
            h3 == [g EXCEPT !.regen = regen]
<1>2. shield \in [Tanks -> Nat] /\ burn \in [Tanks -> Nat] /\ regen \in [Tanks -> Nat]
  BY <1>1
<1>. HIDE DEF shield, burn, regen
<1>3. {"shield", "burn", "regen"} \subseteq Fields
  BY DEF Fields
<1>4. Adds(h1)
  <2>1. h1 \in [Fields -> Values] /\ h1.shield = shield /\ \A f \in Fields \ {"shield"} : h1[f] = g[f]
    BY <1>1, <1>2, <1>3
  <2>. HIDE DEF h1
  <2>2. /\ h1.players = g.players /\ h1.alive = g.alive /\ h1.order = g.order /\ h1.events = g.events
        /\ h1.kills = g.kills /\ h1.deaths = g.deaths /\ h1.status = g.status /\ h1.taken = g.taken
        /\ h1.dealt = g.dealt /\ h1.shieldUntil = g.shieldUntil /\ h1.lastShield = g.lastShield
        /\ h1.recent = g.recent /\ h1.burn = g.burn /\ h1.bullets = g.bullets /\ h1.hp = g.hp
        /\ h1.lastCombat = g.lastCombat /\ h1.regen = g.regen
    BY <2>1 DEF Fields
  <2>3. Typed(h1)
    BY <1>1, <1>2, <2>1, <2>2 DEF Typed
  <2>4. Alike(g, h1)
    BY <2>2 DEF Alike
  <2>. QED  BY <2>3, <2>4, AlikeKeeps
<1>5. Adds(h2)
  <2>1. h2 \in [Fields -> Values] /\ h2.burn = burn /\ \A f \in Fields \ {"burn"} : h2[f] = g[f]
    BY <1>1, <1>2, <1>3
  <2>. HIDE DEF h2
  <2>2. /\ h2.players = g.players /\ h2.alive = g.alive /\ h2.order = g.order /\ h2.events = g.events
        /\ h2.kills = g.kills /\ h2.deaths = g.deaths /\ h2.status = g.status /\ h2.taken = g.taken
        /\ h2.dealt = g.dealt /\ h2.shieldUntil = g.shieldUntil /\ h2.lastShield = g.lastShield
        /\ h2.recent = g.recent /\ h2.shield = g.shield /\ h2.bullets = g.bullets /\ h2.hp = g.hp
        /\ h2.lastCombat = g.lastCombat /\ h2.regen = g.regen
    BY <2>1 DEF Fields
  <2>3. Typed(h2)
    BY <1>1, <1>2, <2>1, <2>2 DEF Typed
  <2>4. Alike(g, h2)
    BY <2>2 DEF Alike
  <2>. QED  BY <2>3, <2>4, AlikeKeeps
<1>6. Adds(h3)
  <2>1. h3 \in [Fields -> Values] /\ h3.regen = regen /\ \A f \in Fields \ {"regen"} : h3[f] = g[f]
    BY <1>1, <1>2, <1>3
  <2>. HIDE DEF h3
  <2>2. /\ h3.players = g.players /\ h3.alive = g.alive /\ h3.order = g.order /\ h3.events = g.events
        /\ h3.kills = g.kills /\ h3.deaths = g.deaths /\ h3.status = g.status /\ h3.taken = g.taken
        /\ h3.dealt = g.dealt /\ h3.shieldUntil = g.shieldUntil /\ h3.lastShield = g.lastShield
        /\ h3.recent = g.recent /\ h3.shield = g.shield /\ h3.bullets = g.bullets /\ h3.hp = g.hp
        /\ h3.lastCombat = g.lastCombat /\ h3.burn = g.burn
    BY <2>1 DEF Fields
  <2>3. Typed(h3)
    BY <1>1, <1>2, <2>1, <2>2 DEF Typed
  <2>4. Alike(g, h3)
    BY <2>2 DEF Alike
  <2>. QED  BY <2>3, <2>4, AlikeKeeps
<1>. QED  BY <1>4, <1>5, <1>6 DEF shield, burn, regen

LEMMA DamagePlayerKeeps ==
    ASSUME NEW g, Adds(g), NEW p \in Tanks, NEW amount \in Nat, NEW by \in Agents, NEW now \in Int,
           feed \in Seq(Deaths)
    PROVE  Adds(DamagePlayer(g, p, amount, by, now))
<1>1. CASE p \notin g.alive
  BY <1>1 DEF DamagePlayer
<1>2. CASE p \in g.alive
  <2>. DEFINE S == {p} \cup ({by} \cap g.alive)
              fought == MarkCombat(g, S, now)
              absorbed == IF now < g.shieldUntil[p] THEN Min2(g.shield[p], amount) ELSE 0
              shielded == [fought EXCEPT !.shield[p] = @ - absorbed]
  <2>. HIDE DEF S
  <2>1. Adds(fought) /\ fought.alive = g.alive /\ fought.shield = g.shield
    BY MarkCombatKeeps
  <2>. HIDE DEF fought
  <2>2. g.shield \in [Tanks -> Nat] /\ g.shield[p] \in Nat
    BY DEF Adds, Typed
  <2>3. absorbed \in Nat /\ absorbed <= amount /\ absorbed <= g.shield[p]
    BY <2>2 DEF Min2
  <2>. HIDE DEF absorbed
  <2>. DEFINE left == fought.shield[p] - absorbed
  <2>4. left \in Nat
    BY <2>1, <2>2, <2>3
  <2>5. shielded = [fought EXCEPT !.shield = [@ EXCEPT ![p] = left]]
    OBVIOUS
  <2>. HIDE DEF left
  <2>6. Adds(shielded)
    BY <2>1, <2>4, <2>5, OneNumberKeeps
  <2>7. shielded.alive = g.alive
    <3>1. fought \in [Fields -> Values] /\ "shield" \in Fields /\ "alive" \in Fields
      BY <2>1 DEF Adds, Typed, Fields
    <3>. QED  BY <2>1, <3>1
  <2>8. DamagePlayer(g, p, amount, by, now) =
          IF absorbed = amount THEN shielded ELSE ApplyHpDamage(shielded, p, amount - absorbed, by, now)
    BY <1>2 DEF DamagePlayer, absorbed, fought, S
  <2>. HIDE DEF shielded
  <2>9. CASE absorbed = amount
    BY <2>6, <2>8, <2>9
  <2>10. CASE absorbed # amount
    <3>. DEFINE rest == amount - absorbed
    <3>1. rest \in Nat \ {0}
      BY <2>3, <2>10
    <3>. HIDE DEF rest
    <3>2. Adds(ApplyHpDamage(shielded, p, rest, by, now))
      BY <1>2, <2>6, <2>7, <3>1, ApplyKeeps
    <3>. QED  BY <2>8, <2>10, <3>2 DEF rest
  <2>. QED  BY <2>9, <2>10
<1>. QED  BY <1>1, <1>2

LEMMA DamagePlayerDirectKeeps ==
    ASSUME NEW g, Adds(g), NEW p \in Tanks, NEW amount \in Nat, NEW now \in Int, feed \in Seq(Deaths)
    PROVE  Adds(DamagePlayerDirect(g, p, amount, now))
<1>1. CASE p \notin g.alive \/ amount = 0
  BY <1>1 DEF DamagePlayerDirect
<1>2. CASE ~ (p \notin g.alive \/ amount = 0)
  <2>. DEFINE S == {p}
              fought == MarkCombat(g, S, now)
  <2>1. DamagePlayerDirect(g, p, amount, now) = ApplyHpDamage(fought, p, amount, NoTank, now)
    BY <1>2 DEF DamagePlayerDirect
  <2>. HIDE DEF S
  <2>2. Adds(fought) /\ fought.alive = g.alive
    BY MarkCombatKeeps
  <2>. HIDE DEF fought
  <2>3. p \in fought.alive /\ amount \in Nat \ {0} /\ NoTank \in Agents
    BY <1>2, <2>2 DEF Agents
  <2>4. Adds(ApplyHpDamage(fought, p, amount, NoTank, now))
    BY <2>2, <2>3, ApplyKeeps
  <2>. QED  BY <2>1, <2>4
<1>. QED  BY <1>1, <1>2

LEMMA RegeneratedKeeps ==
    ASSUME NEW g, Adds(g), NEW p \in g.players, NEW now \in Int
    PROVE  Adds(Regenerated(g, p, now))
<1>. DEFINE carried == g.regen[p] + RegenParts
            more == carried \div Parts
            healed == Min2(MaxHp, g.hp[p] + more)
            left == IF healed = MaxHp THEN 0 ELSE carried % Parts
            h1 == [g EXCEPT !.hp[p] = healed]
            h2 == [h1 EXCEPT !.regen = [@ EXCEPT ![p] = left]]
<1>1. /\ p \in Tanks /\ Typed(g) /\ g \in [Fields -> Values] /\ MaxHp \in Nat \ {0} /\ g.hp \in [Tanks -> 0 .. MaxHp]
      /\ g.hp[p] \in 0 .. MaxHp /\ g.regen[p] \in Nat /\ RegenParts \in Nat /\ Parts \in Nat \ {0}
      /\ (p \in g.alive <=> g.hp[p] > 0)
  BY RoundAssumption DEF Adds, Typed, Counted
<1>2. Regenerated(g, p, now) = IF p \notin g.alive \/ g.hp[p] = MaxHp \/ now - g.lastCombat[p] < RegenDelay
                               THEN [g EXCEPT !.regen = [@ EXCEPT ![p] = 0]] ELSE h2
  BY DEF Regenerated
<1>3. carried \in Nat
  BY <1>1
<1>. HIDE DEF carried
<1>4. more \in Nat /\ carried % Parts \in Nat
  BY <1>1, <1>3
<1>. HIDE DEF more
<1>5. healed \in 0 .. MaxHp /\ (g.hp[p] > 0 => healed > 0)
  BY <1>1, <1>4 DEF Min2
<1>. HIDE DEF healed
<1>6. left \in Nat
  BY <1>4
<1>. HIDE DEF left
<1>7. CASE p \notin g.alive \/ g.hp[p] = MaxHp \/ now - g.lastCombat[p] < RegenDelay
  <2>1. Adds([g EXCEPT !.regen = [@ EXCEPT ![p] = 0]])
    BY <1>1, OneNumberKeeps
  <2>. QED  BY <1>2, <1>7, <2>1
<1>8. CASE ~ (p \notin g.alive \/ g.hp[p] = MaxHp \/ now - g.lastCombat[p] < RegenDelay)
  <2>. DEFINE hp == [g.hp EXCEPT ![p] = healed]
  <2>1. hp \in [Tanks -> 0 .. MaxHp] /\ (\A q \in Tanks : q # p => hp[q] = g.hp[q]) /\ hp[p] = healed
    BY <1>1, <1>5
  <2>2. hp \in Values /\ "hp" \in Fields
    <3>1. [Tanks -> 0 .. MaxHp] \subseteq [Tanks -> Int]
      BY <1>1
    <3>. QED  BY <2>1, <3>1, ValuesAre DEF Fields
  <2>3. h1 = [g EXCEPT !.hp = hp]
    OBVIOUS
  <2>. HIDE DEF hp, h1
  <2>4. h1 \in [Fields -> Values] /\ h1.hp = hp /\ \A f \in Fields \ {"hp"} : h1[f] = g[f]
    BY <1>1, <2>2, <2>3
  <2>5. /\ h1.players = g.players /\ h1.alive = g.alive /\ h1.order = g.order /\ h1.events = g.events
        /\ h1.kills = g.kills /\ h1.deaths = g.deaths /\ h1.status = g.status /\ h1.taken = g.taken
        /\ h1.dealt = g.dealt /\ h1.shieldUntil = g.shieldUntil /\ h1.lastShield = g.lastShield
        /\ h1.recent = g.recent /\ h1.shield = g.shield /\ h1.bullets = g.bullets
        /\ h1.lastCombat = g.lastCombat /\ h1.burn = g.burn /\ h1.regen = g.regen
    BY <2>4 DEF Fields
  <2>6. Typed(h1)
    BY <1>1, <2>1, <2>4, <2>5 DEF Typed
  <2>7. Alike(g, h1)
    <3>1. \A q \in g.players : h1.hp[q] > 0 <=> g.hp[q] > 0
      <4>1. g.players \subseteq Tanks
        BY <1>1 DEF Typed
      <4>2. \A q \in g.players : q # p => h1.hp[q] = g.hp[q]
        BY <2>1, <2>4, <4>1
      <4>3. h1.hp[p] > 0 /\ g.hp[p] > 0
        BY <1>1, <1>5, <1>8, <2>1, <2>4
      <4>. QED  BY <4>2, <4>3
    <3>. QED  BY <2>5, <3>1 DEF Alike
  <2>8. Adds(h1)
    BY <2>6, <2>7, AlikeKeeps
  <2>9. Adds(h2)
    BY <1>1, <1>6, <2>8, OneNumberKeeps
  <2>. QED  BY <1>2, <1>8, <2>9
<1>. QED  BY <1>7, <1>8

LEMMA ShieldedKeeps ==
    ASSUME NEW g, Adds(g), NEW p \in Tanks, NEW now \in Int
    PROVE  Adds(Shielded(g, p, now)) /\ Shielded(g, p, now).events = g.events
<1>. DEFINE until == [g.shieldUntil EXCEPT ![p] = now + ShieldTime]
            last == [g.lastShield EXCEPT ![p] = now + ShieldTime]
            shield == [g.shield EXCEPT ![p] = ShieldHp]
            h1 == [g EXCEPT !.shieldUntil = until]
            h2 == [h1 EXCEPT !.lastShield = last]
            h3 == Shielded(g, p, now)
<1>1. /\ Typed(g) /\ g \in [Fields -> Values] /\ g.shieldUntil \in [Tanks -> Int] /\ g.lastShield \in [Tanks -> Int]
      /\ g.shield \in [Tanks -> Nat] /\ ShieldHp \in Nat /\ ShieldTime \in Nat
  BY RoundAssumption DEF Adds, Typed
<1>2. until \in [Tanks -> Int] /\ last \in [Tanks -> Int] /\ shield \in [Tanks -> Nat]
  BY <1>1
<1>3. h3 = [h2 EXCEPT !.shield = shield]
  BY DEF Shielded
<1>. HIDE DEF until, last, shield, h3
<1>4. /\ until \in Values /\ last \in Values /\ shield \in Values
      /\ {"shieldUntil", "lastShield", "shield"} \subseteq Fields
  <2>1. [Tanks -> Nat] \subseteq [Tanks -> Int]
    OBVIOUS
  <2>. QED  BY <1>2, <2>1, ValuesAre DEF Fields
<1>5. h1 \in [Fields -> Values] /\ h1.shieldUntil = until /\ \A f \in Fields \ {"shieldUntil"} : h1[f] = g[f]
  BY <1>1, <1>4
<1>. HIDE DEF h1
<1>6. h2 \in [Fields -> Values] /\ h2.lastShield = last /\ \A f \in Fields \ {"lastShield"} : h2[f] = h1[f]
  BY <1>4, <1>5
<1>. HIDE DEF h2
<1>7. h3 \in [Fields -> Values] /\ h3.shield = shield /\ \A f \in Fields \ {"shield"} : h3[f] = h2[f]
  BY <1>3, <1>4, <1>6
<1>8. /\ h3.shieldUntil = until /\ h3.lastShield = last
      /\ h3.players = g.players /\ h3.alive = g.alive /\ h3.order = g.order /\ h3.events = g.events
      /\ h3.kills = g.kills /\ h3.deaths = g.deaths /\ h3.status = g.status /\ h3.taken = g.taken
      /\ h3.dealt = g.dealt /\ h3.recent = g.recent /\ h3.bullets = g.bullets /\ h3.hp = g.hp
      /\ h3.lastCombat = g.lastCombat /\ h3.burn = g.burn /\ h3.regen = g.regen
  BY <1>5, <1>6, <1>7 DEF Fields
<1>9. Typed(h3)
  BY <1>1, <1>2, <1>7, <1>8 DEF Typed
<1>10. Alike(g, h3)
  BY <1>8 DEF Alike
<1>11. Adds(h3)
  BY <1>9, <1>10, AlikeKeeps
<1>. QED  BY <1>8, <1>11 DEF h3

LEMMA RemovedKeeps ==
    ASSUME NEW g, Adds(g), NEW p \in Tanks
    PROVE  Adds(Removed(g, p)) /\ Removed(g, p).events = g.events
<1>. DEFINE players == g.players \ {p}
            living == g.alive \ {p}
            recent == [g.recent EXCEPT ![p] = NoHit]
            h1 == [g EXCEPT !.players = players]
            h2 == [h1 EXCEPT !.alive = living]
            h3 == Removed(g, p)
<1>0. NoHit \in Blows /\ NoHit.by # p
  BY RoundAssumption DEF NoHit, Blows, Agents
<1>1. /\ Typed(g) /\ g \in [Fields -> Values] /\ g.recent \in [Tanks -> Blows]
      /\ g.players \in SUBSET Tanks /\ g.alive \in SUBSET g.players /\ \A q \in Tanks : g.recent[q].by # q
  BY DEF Adds, Typed
<1>2. recent \in [Tanks -> Blows] /\ \A q \in Tanks : recent[q].by # q
  BY <1>0, <1>1
<1>3. h3 = [h2 EXCEPT !.recent = recent]
  BY DEF Removed
<1>4. players \in SUBSET Tanks /\ living \in SUBSET players /\ living \in SUBSET g.alive
  BY <1>1
<1>5. Counted(players, living, g.hp, g.order)
  BY DEF Counted, Adds
<1>6. stage # "running" => Placed(g.order, living, result.winner, result.place)
  <2>1. g.order \in Seq(Tanks)
    BY <1>1 DEF Typed
  <2>. HIDE DEF living
  <2>. QED  BY <1>4, <2>1, PlacedStays DEF Adds
<1>. HIDE DEF players, living, recent, h3
<1>7. players \in Values /\ living \in Values /\ recent \in Values /\ {"players", "alive", "recent"} \subseteq Fields
  BY <1>2, <1>4, ValuesAre DEF Fields
<1>8. h1 \in [Fields -> Values] /\ h1.players = players /\ \A f \in Fields \ {"players"} : h1[f] = g[f]
  BY <1>1, <1>7
<1>. HIDE DEF h1
<1>9. h2 \in [Fields -> Values] /\ h2.alive = living /\ \A f \in Fields \ {"alive"} : h2[f] = h1[f]
  BY <1>7, <1>8
<1>. HIDE DEF h2
<1>10. h3 \in [Fields -> Values] /\ h3.recent = recent /\ \A f \in Fields \ {"recent"} : h3[f] = h2[f]
  BY <1>3, <1>7, <1>9
<1>11. /\ h3.players = players /\ h3.alive = living /\ h3.order = g.order /\ h3.events = g.events
      /\ h3.kills = g.kills /\ h3.deaths = g.deaths /\ h3.status = g.status /\ h3.taken = g.taken
      /\ h3.dealt = g.dealt /\ h3.shield = g.shield /\ h3.shieldUntil = g.shieldUntil /\ h3.lastShield = g.lastShield
      /\ h3.bullets = g.bullets /\ h3.hp = g.hp
      /\ h3.lastCombat = g.lastCombat /\ h3.burn = g.burn /\ h3.regen = g.regen
  BY <1>8, <1>9, <1>10 DEF Fields
<1>12. Typed(h3)
  BY <1>1, <1>2, <1>4, <1>10, <1>11 DEF Typed
<1>13. Adds(h3)
  BY <1>2, <1>5, <1>6, <1>10, <1>11, <1>12 DEF Adds
<1>. QED  BY <1>11, <1>13 DEF h3

-----------------------------------------------------------------------------
(* The parts of a tick.                                                            *)

Adding == {h \in [Fields -> Values] : Adds(h)}

LEMMA AddingIs == ASSUME NEW h PROVE h \in Adding <=> Adds(h)
BY DEF Adding, Adds, Typed

\* One tank, when the zone burns.
Scorched(h, p, out, now) ==
    IF p \notin h.alive THEN h
    ELSE IF p \notin out THEN [h EXCEPT !.burn[p] = 0]
    ELSE LET carried == h.burn[p] + ZoneParts
         IN  DamagePlayerDirect([h EXCEPT !.burn[p] = carried % Parts], p, carried \div Parts, now)

LEMMA ScorchedKeeps ==
    ASSUME NEW h, Adds(h), NEW p \in Tanks, NEW out, NEW now \in Int, feed \in Seq(Deaths)
    PROVE  Adds(Scorched(h, p, out, now))
<1>1. CASE p \notin h.alive
  BY <1>1 DEF Scorched
<1>2. CASE p \in h.alive /\ p \notin out
  <2>1. Adds([h EXCEPT !.burn = [@ EXCEPT ![p] = 0]])
    BY OneNumberKeeps
  <2>. QED  BY <1>2, <2>1 DEF Scorched
<1>3. CASE p \in h.alive /\ p \in out
  <2>. DEFINE carried == h.burn[p] + ZoneParts
              rest == carried % Parts
              whole == carried \div Parts
              burning == [h EXCEPT !.burn = [@ EXCEPT ![p] = rest]]
  <2>1. h.burn[p] \in Nat /\ ZoneParts \in Nat /\ Parts \in Nat \ {0}
    BY RoundAssumption DEF Adds, Typed
  <2>2. carried \in Nat
    BY <2>1
  <2>3. Scorched(h, p, out, now) = DamagePlayerDirect(burning, p, whole, now)
    BY <1>3 DEF Scorched
  <2>. HIDE DEF carried
  <2>4. rest \in Nat /\ whole \in Nat
    BY <2>1, <2>2
  <2>. HIDE DEF rest, whole
  <2>5. Adds(burning)
    BY <2>4, OneNumberKeeps
  <2>. HIDE DEF burning
  <2>6. Adds(DamagePlayerDirect(burning, p, whole, now))
    BY <2>4, <2>5, DamagePlayerDirectKeeps
  <2>. QED  BY <2>3, <2>6
<1>. QED  BY <1>1, <1>2, <1>3

LEMMA BurntKeeps ==
    ASSUME NEW g, Adds(g), NEW out, NEW now \in Int, feed \in Seq(Deaths)
    PROVE  Adds(Burnt(g, out, now))
<1>. DEFINE n == Cardinality(Tanks)
            F == [i \in 1 .. n |-> [h \in Adding |-> Scorched(h, i, out, now)]]
            Follows(d) == [i \in 0 .. n |-> IF i = 0 THEN g ELSE Scorched(d[i - 1], i, out, now)]
            t == CHOOSE d : d = Follows(d)
<1>1. n \in Nat /\ (\A i \in 1 .. n : i \in Tanks) /\ g \in Adding
  BY EveryoneIs, AddingIs
<1>2. \A i \in 1 .. n : \A h \in Adding : Scorched(h, i, out, now) \in Adding
  <2>. SUFFICES ASSUME NEW i \in 1 .. n, NEW h \in Adding PROVE Scorched(h, i, out, now) \in Adding
    OBVIOUS
  <2>1. i \in Tanks /\ Adds(h)
    BY <1>1, AddingIs
  <2>2. Adds(Scorched(h, i, out, now))
    BY <2>1, ScorchedKeeps
  <2>. QED  BY <2>2, AddingIs
<1>3. \E d : InSteps(F, n, g, Adding, d)
  <2>1. Stepwise(F, n, Adding)
    BY <1>2 DEF Stepwise
  <2>. HIDE DEF F, n
  <2>. QED  BY <1>1, <2>1, Iterates
<1>. HIDE DEF n
<1>4. PICK d \in [0 .. n -> Adding] : d[0] = g /\ \A i \in 1 .. n : d[i] = F[i][d[i - 1]]
  BY <1>3 DEF InSteps
<1>5. d = Follows(d)
  <2>1. \A i \in 1 .. n : i \in 0 .. n /\ i - 1 \in 0 .. n /\ i # 0
    BY <1>1
  <2>2. \A i \in 1 .. n : d[i] = Scorched(d[i - 1], i, out, now)
    BY <1>4, <2>1
  <2>3. \A i \in 0 .. n : i = 0 \/ i \in 1 .. n
    BY <1>1
  <2>. QED  BY <1>4, <2>1, <2>2, <2>3
<1>. HIDE DEF F
<1>6. t = Follows(t)
  BY <1>5
<1>7. Burnt(g, out, now) = t[n]
  <2>1. Len(Everyone) = n
    BY EveryoneIs DEF n
  <2>2. Burnt(g, out, now) =
          (CHOOSE e : e = [i \in 0 .. Len(Everyone) |->
                             IF i = 0 THEN g ELSE Scorched(e[i - 1], Everyone[i], out, now)])[n]
    BY <2>1, Zenon DEF Burnt, InTurn, Scorched
  <2>3. ASSUME NEW e
        PROVE  [i \in 0 .. Len(Everyone) |-> IF i = 0 THEN g ELSE Scorched(e[i - 1], Everyone[i], out, now)] = Follows(e)
    <3>1. \A i \in 0 .. n : i # 0 => Everyone[i] = i
      BY EveryoneIs DEF n
    <3>. QED  BY <2>1, <3>1
  <2>. QED  BY <2>2, <2>3
<1>. HIDE DEF t
<1>8. t[0] \in Adding /\ \A i \in 1 .. n : t[i - 1] \in Adding => t[i] \in Adding
  <2>1. 0 \in 0 .. n /\ \A i \in 1 .. n : i \in 0 .. n /\ i # 0
    BY <1>1
  <2>2. t[0] = g /\ \A i \in 1 .. n : t[i] = Scorched(t[i - 1], i, out, now)
    BY <1>6, <2>1
  <2>. QED  BY <1>1, <1>2, <2>2
<1>9. t[n] \in Adding
  BY <1>1, <1>8, Remains
<1>. QED  BY <1>7, <1>9, AddingIs

\* One tank, when health comes back.
Mended(h, p, out, now) ==
    IF p \notin h.players THEN h
    ELSE IF p \in out THEN [h EXCEPT !.regen[p] = 0] ELSE Regenerated(h, p, now)

LEMMA MendedKeeps ==
    ASSUME NEW h, Adds(h), NEW p \in Tanks, NEW out, NEW now \in Int
    PROVE  Adds(Mended(h, p, out, now))
<1>1. CASE p \notin h.players
  BY <1>1 DEF Mended
<1>2. CASE p \in h.players /\ p \in out
  <2>1. Adds([h EXCEPT !.regen = [@ EXCEPT ![p] = 0]])
    BY OneNumberKeeps
  <2>. QED  BY <1>2, <2>1 DEF Mended
<1>3. CASE p \in h.players /\ p \notin out
  <2>1. Adds(Regenerated(h, p, now))
    BY <1>3, RegeneratedKeeps
  <2>. QED  BY <1>3, <2>1 DEF Mended
<1>. QED  BY <1>1, <1>2, <1>3

LEMMA HealedKeeps ==
    ASSUME NEW g, Adds(g), NEW out, NEW now \in Int
    PROVE  Adds(Healed(g, out, now))
<1>. DEFINE n == Cardinality(Tanks)
            F == [i \in 1 .. n |-> [h \in Adding |-> Mended(h, i, out, now)]]
            Follows(d) == [i \in 0 .. n |-> IF i = 0 THEN g ELSE Mended(d[i - 1], i, out, now)]
            t == CHOOSE d : d = Follows(d)
<1>1. n \in Nat /\ (\A i \in 1 .. n : i \in Tanks) /\ g \in Adding
  BY EveryoneIs, AddingIs
<1>2. \A i \in 1 .. n : \A h \in Adding : Mended(h, i, out, now) \in Adding
  <2>. SUFFICES ASSUME NEW i \in 1 .. n, NEW h \in Adding PROVE Mended(h, i, out, now) \in Adding
    OBVIOUS
  <2>1. i \in Tanks /\ Adds(h)
    BY <1>1, AddingIs
  <2>2. Adds(Mended(h, i, out, now))
    BY <2>1, MendedKeeps
  <2>. QED  BY <2>2, AddingIs
<1>3. \E d : InSteps(F, n, g, Adding, d)
  <2>1. Stepwise(F, n, Adding)
    BY <1>2 DEF Stepwise
  <2>. HIDE DEF F, n
  <2>. QED  BY <1>1, <2>1, Iterates
<1>. HIDE DEF n
<1>4. PICK d \in [0 .. n -> Adding] : d[0] = g /\ \A i \in 1 .. n : d[i] = F[i][d[i - 1]]
  BY <1>3 DEF InSteps
<1>5. d = Follows(d)
  <2>1. \A i \in 1 .. n : i \in 0 .. n /\ i - 1 \in 0 .. n /\ i # 0
    BY <1>1
  <2>2. \A i \in 1 .. n : d[i] = Mended(d[i - 1], i, out, now)
    BY <1>4, <2>1
  <2>3. \A i \in 0 .. n : i = 0 \/ i \in 1 .. n
    BY <1>1
  <2>. QED  BY <1>4, <2>1, <2>2, <2>3
<1>. HIDE DEF F
<1>6. t = Follows(t)
  BY <1>5
<1>7. Healed(g, out, now) = t[n]
  <2>1. Len(Everyone) = n
    BY EveryoneIs DEF n
  <2>2. Healed(g, out, now) =
          (CHOOSE e : e = [i \in 0 .. Len(Everyone) |->
                             IF i = 0 THEN g ELSE Mended(e[i - 1], Everyone[i], out, now)])[n]
    BY <2>1, Zenon DEF Healed, InTurn, Mended
  <2>3. ASSUME NEW e
        PROVE  [i \in 0 .. Len(Everyone) |-> IF i = 0 THEN g ELSE Mended(e[i - 1], Everyone[i], out, now)] = Follows(e)
    <3>1. \A i \in 0 .. n : i # 0 => Everyone[i] = i
      BY EveryoneIs DEF n
    <3>. QED  BY <2>1, <3>1
  <2>. QED  BY <2>2, <2>3
<1>. HIDE DEF t
<1>8. t[0] \in Adding /\ \A i \in 1 .. n : t[i - 1] \in Adding => t[i] \in Adding
  <2>1. 0 \in 0 .. n /\ \A i \in 1 .. n : i \in 0 .. n /\ i # 0
    BY <1>1
  <2>2. t[0] = g /\ \A i \in 1 .. n : t[i] = Mended(t[i - 1], i, out, now)
    BY <1>6, <2>1
  <2>. QED  BY <1>1, <1>2, <2>2
<1>9. t[n] \in Adding
  BY <1>1, <1>8, Remains
<1>. QED  BY <1>7, <1>9, AddingIs

\* One tank, when a shot ends or goes on.
Hit(h, p, b, o, amount, now) == IF p \in o.hits THEN DamagePlayer(h, p, amount, b.owner, now) ELSE h
Hits(g, b, o, amount, now) ==
    LET hit(h, p) == Hit(h, p, b, o, amount, now) IN InTurn(hit, g, Everyone)

LEMMA HitKeeps ==
    ASSUME NEW h, Adds(h), NEW p \in Tanks, NEW b \in Bullets, NEW o, NEW amount \in Nat, NEW now \in Int,
           feed \in Seq(Deaths)
    PROVE  Adds(Hit(h, p, b, o, amount, now))
<1>1. b.owner \in Agents
  BY DEF Bullets, Agents
<1>2. Adds(DamagePlayer(h, p, amount, b.owner, now))
  BY <1>1, DamagePlayerKeeps
<1>. QED  BY <1>2 DEF Hit

LEMMA HitsKeep ==
    ASSUME NEW g, Adds(g), NEW b \in Bullets, NEW o, NEW amount \in Nat, NEW now \in Int, feed \in Seq(Deaths)
    PROVE  Adds(Hits(g, b, o, amount, now))
<1>. DEFINE n == Cardinality(Tanks)
            F == [i \in 1 .. n |-> [h \in Adding |-> Hit(h, i, b, o, amount, now)]]
            Follows(d) == [i \in 0 .. n |-> IF i = 0 THEN g ELSE Hit(d[i - 1], i, b, o, amount, now)]
            t == CHOOSE d : d = Follows(d)
<1>1. n \in Nat /\ (\A i \in 1 .. n : i \in Tanks) /\ g \in Adding
  BY EveryoneIs, AddingIs
<1>2. \A i \in 1 .. n : \A h \in Adding : Hit(h, i, b, o, amount, now) \in Adding
  <2>. SUFFICES ASSUME NEW i \in 1 .. n, NEW h \in Adding PROVE Hit(h, i, b, o, amount, now) \in Adding
    OBVIOUS
  <2>1. i \in Tanks /\ Adds(h)
    BY <1>1, AddingIs
  <2>2. Adds(Hit(h, i, b, o, amount, now))
    BY <2>1, HitKeeps
  <2>. QED  BY <2>2, AddingIs
<1>3. \E d : InSteps(F, n, g, Adding, d)
  <2>1. Stepwise(F, n, Adding)
    BY <1>2 DEF Stepwise
  <2>. HIDE DEF F, n
  <2>. QED  BY <1>1, <2>1, Iterates
<1>. HIDE DEF n
<1>4. PICK d \in [0 .. n -> Adding] : d[0] = g /\ \A i \in 1 .. n : d[i] = F[i][d[i - 1]]
  BY <1>3 DEF InSteps
<1>5. d = Follows(d)
  <2>1. \A i \in 1 .. n : i \in 0 .. n /\ i - 1 \in 0 .. n /\ i # 0
    BY <1>1
  <2>2. \A i \in 1 .. n : d[i] = Hit(d[i - 1], i, b, o, amount, now)
    BY <1>4, <2>1
  <2>3. \A i \in 0 .. n : i = 0 \/ i \in 1 .. n
    BY <1>1
  <2>. QED  BY <1>4, <2>1, <2>2, <2>3
<1>. HIDE DEF F
<1>6. t = Follows(t)
  BY <1>5
<1>7. Hits(g, b, o, amount, now) = t[n]
  <2>1. Len(Everyone) = n
    BY EveryoneIs DEF n
  <2>2. Hits(g, b, o, amount, now) =
          (CHOOSE e : e = [i \in 0 .. Len(Everyone) |->
                             IF i = 0 THEN g ELSE Hit(e[i - 1], Everyone[i], b, o, amount, now)])[n]
    BY <2>1, Zenon DEF Hits, InTurn, Hit
  <2>3. ASSUME NEW e
        PROVE  [i \in 0 .. Len(Everyone) |-> IF i = 0 THEN g ELSE Hit(e[i - 1], Everyone[i], b, o, amount, now)] = Follows(e)
    <3>1. \A i \in 0 .. n : i # 0 => Everyone[i] = i
      BY EveryoneIs DEF n
    <3>. QED  BY <2>1, <3>1
  <2>. QED  BY <2>2, <2>3
<1>. HIDE DEF t
<1>8. t[0] \in Adding /\ \A i \in 1 .. n : t[i - 1] \in Adding => t[i] \in Adding
  <2>1. 0 \in 0 .. n /\ \A i \in 1 .. n : i \in 0 .. n /\ i # 0
    BY <1>1
  <2>2. t[0] = g /\ \A i \in 1 .. n : t[i] = Hit(t[i - 1], i, b, o, amount, now)
    BY <1>6, <2>1
  <2>. QED  BY <1>1, <1>2, <2>2
<1>9. t[n] \in Adding
  BY <1>1, <1>8, Remains
<1>. QED  BY <1>7, <1>9, AddingIs

LEMMA BulletsKeep ==
    ASSUME NEW g, Adds(g), NEW s \in Seq(Bullets) PROVE Adds([g EXCEPT !.bullets = s])
<1>. DEFINE h == [g EXCEPT !.bullets = s]
<1>1. Typed(g) /\ g \in [Fields -> Values] /\ s \in Values /\ "bullets" \in Fields
  BY ValuesAre DEF Adds, Typed, Fields
<1>2. h \in [Fields -> Values] /\ h.bullets = s /\ \A f \in Fields \ {"bullets"} : h[f] = g[f]
  BY <1>1
<1>. HIDE DEF h
<1>3. /\ h.players = g.players /\ h.alive = g.alive /\ h.order = g.order /\ h.events = g.events
      /\ h.kills = g.kills /\ h.deaths = g.deaths /\ h.status = g.status /\ h.taken = g.taken
      /\ h.dealt = g.dealt /\ h.shield = g.shield /\ h.shieldUntil = g.shieldUntil /\ h.lastShield = g.lastShield
      /\ h.recent = g.recent /\ h.hp = g.hp /\ h.lastCombat = g.lastCombat /\ h.burn = g.burn /\ h.regen = g.regen
  BY <1>2 DEF Fields
<1>4. Typed(h)
  BY <1>1, <1>2, <1>3 DEF Typed
<1>5. Alike(g, h)
  BY <1>3 DEF Alike
<1>6. Adds(h)
  BY <1>4, <1>5, AlikeKeeps
<1>. QED  BY <1>6 DEF h

LEMMA StruckKeeps ==
    ASSUME NEW g, Adds(g), NEW b \in Bullets, NEW o, o.bounced \in BOOLEAN, NEW amount \in Nat, NEW now \in Int,
           feed \in Seq(Deaths)
    PROVE  Adds(Struck(g, b, o, amount, now))
<1>. DEFINE after == Hits(g, b, o, amount, now)
            shot == [b EXCEPT !.bounced = o.bounced]
            bullets == Append(after.bullets, shot)
<1>1. Struck(g, b, o, amount, now) = IF o.over THEN after ELSE [after EXCEPT !.bullets = bullets]
  BY Zenon DEF Struck, Hits, Hit
<1>2. Adds(after)
  BY HitsKeep
<1>3. shot \in Bullets
  BY DEF Bullets
<1>. HIDE DEF after, shot
<1>4. bullets \in Seq(Bullets)
  BY <1>2, <1>3 DEF Adds, Typed
<1>. HIDE DEF bullets
<1>5. Adds([after EXCEPT !.bullets = bullets])
  BY <1>2, <1>4, BulletsKeep
<1>. QED  BY <1>1, <1>2, <1>5

LEMMA OutcomesAre ==
    ASSUME NEW g, NEW b \in Bullets, NEW o \in Outcomes(g, b) PROVE o.bounced \in BOOLEAN
<1>1. b.bounced \in BOOLEAN
  BY DEF Bullets
<1>2. CASE b.kind = "laser"
  <2>1. o \in {[bounced |-> FALSE, hits |-> S, over |-> FALSE] :
                  S \in IF b.owner \in g.alive THEN SUBSET g.alive ELSE {}}
             \cup {[bounced |-> FALSE, hits |-> {}, over |-> TRUE]}
    BY <1>2 DEF Outcomes
  <2>2. o.bounced = FALSE
    BY <2>1
  <2>. QED  BY <2>2
<1>3. CASE b.kind = "grenade"
  <2>1. o \in {[bounced |-> FALSE, hits |-> S, over |-> TRUE] : S \in SUBSET g.alive}
             \cup {[bounced |-> FALSE, hits |-> {}, over |-> FALSE]}
    BY <1>3 DEF Outcomes
  <2>2. o.bounced = FALSE
    BY <2>1
  <2>. QED  BY <2>2
<1>4. CASE b.kind # "laser" /\ b.kind # "grenade"
  <2>1. PICK m \in {TRUE, b.bounced} :
          o \in {[bounced |-> m, hits |-> {}, over |-> e] : e \in BOOLEAN}
                \cup {[bounced |-> m, hits |-> {p}, over |-> TRUE] : p \in g.alive \ (IF m THEN {} ELSE {b.owner})}
    BY <1>4 DEF Outcomes
  <2>2. o.bounced = m
    BY <2>1
  <2>. QED  BY <1>1, <2>1, <2>2
<1>. QED  BY <1>2, <1>3, <1>4

LEMMA StatesAfterKeep ==
    ASSUME NEW S \in SUBSET Adding, NEW b \in Bullets, NEW now \in Int, feed \in Seq(Deaths)
    PROVE  StatesAfter(S, b, now) \in SUBSET Adding
<1>. SUFFICES ASSUME NEW h \in S, NEW o \in Outcomes(h, b), NEW a \in Damage[b.kind]
              PROVE  Struck(h, b, o, a, now) \in Adding
  BY DEF StatesAfter
<1>1. a \in Nat
  BY RoundAssumption DEF Bullets
<1>2. Adds(h)
  BY AddingIs
<1>3. o.bounced \in BOOLEAN
  BY OutcomesAre
<1>4. Adds(Struck(h, b, o, a, now))
  BY <1>1, <1>2, <1>3, StruckKeeps
<1>. QED  BY <1>4, AddingIs

LEMMA AfterBulletsKeep ==
    ASSUME NEW g, Adds(g), NEW now \in Int, feed \in Seq(Deaths), NEW h \in AfterBullets(g, now)
    PROVE  Adds(h)
<1>. DEFINE s == g.bullets
            n == Len(s)
            first == {[g EXCEPT !.bullets = << >>]}
            G == SUBSET Adding
            F == [i \in 1 .. n |-> [S \in G |-> StatesAfter(S, s[i], now)]]
            Follows(d) == [i \in 0 .. n |-> IF i = 0 THEN first ELSE StatesAfter(d[i - 1], s[i], now)]
            t == CHOOSE d : d = Follows(d)
<1>1. s \in Seq(Bullets)
  BY DEF Adds, Typed
<1>2. n \in Nat /\ \A i \in 1 .. n : s[i] \in Bullets
  BY <1>1
<1>3. first \in G
  <2>1. << >> \in Seq(Bullets)
    OBVIOUS
  <2>2. Adds([g EXCEPT !.bullets = << >>])
    BY <2>1, BulletsKeep
  <2>. QED  BY <2>2, AddingIs
<1>4. AfterBullets(g, now) = t[n]
  BY Zenon DEF AfterBullets, InTurn
<1>. HIDE DEF s, n, first
<1>5. \A i \in 1 .. n : \A S \in G : StatesAfter(S, s[i], now) \in G
  BY <1>2, StatesAfterKeep
<1>. HIDE DEF G
<1>6. \E d : InSteps(F, n, first, G, d)
  <2>1. Stepwise(F, n, G)
    BY <1>5 DEF Stepwise
  <2>. HIDE DEF F
  <2>. QED  BY <1>2, <1>3, <2>1, Iterates
<1>7. PICK d \in [0 .. n -> G] : d[0] = first /\ \A i \in 1 .. n : d[i] = F[i][d[i - 1]]
  BY <1>6 DEF InSteps
<1>8. d = Follows(d)
  <2>1. \A i \in 1 .. n : i \in 0 .. n /\ i - 1 \in 0 .. n /\ i # 0
    BY <1>2
  <2>2. \A i \in 1 .. n : d[i] = StatesAfter(d[i - 1], s[i], now)
    BY <1>7, <2>1
  <2>3. \A i \in 0 .. n : i = 0 \/ i \in 1 .. n
    BY <1>2
  <2>. QED  BY <1>7, <2>1, <2>2, <2>3
<1>. HIDE DEF F
<1>9. t = Follows(t)
  BY <1>8
<1>. HIDE DEF t
<1>10. t[0] \in G /\ \A i \in 1 .. n : t[i - 1] \in G => t[i] \in G
  <2>1. 0 \in 0 .. n /\ \A i \in 1 .. n : i \in 0 .. n /\ i # 0
    BY <1>2
  <2>2. t[0] = first /\ \A i \in 1 .. n : t[i] = StatesAfter(t[i - 1], s[i], now)
    BY <1>9, <2>1
  <2>. QED  BY <1>3, <1>5, <2>2
<1>11. t[n] \in G
  BY <1>2, <1>10, Remains
<1>. QED  BY <1>4, <1>11, AddingIs DEF G

-----------------------------------------------------------------------------
(* The end of a round, and what is saved of it.                                    *)

LEMMA SurvivorIs ==
    ASSUME NEW g, g.alive \in SUBSET Tanks, Cardinality(g.alive) <= 1
    PROVE  /\ g.alive \subseteq {SoleSurvivor(g)} /\ SoleSurvivor(g) \in Agents
           /\ SoleSurvivor(g) # NoTank => SoleSurvivor(g) \in g.alive
<1>1. IsFiniteSet(Tanks) /\ NoTank \notin Tanks
  BY RoundAssumption
<1>2. IsFiniteSet(g.alive) /\ Cardinality(g.alive) \in Nat
  BY <1>1, FS_Subset, FS_CardinalityType
<1>3. CASE Cardinality(g.alive) = 1
  <2>1. PICK x : g.alive = {x}
    BY <1>2, <1>3, FS_Singleton
  <2>2. SoleSurvivor(g) = CHOOSE p \in g.alive : TRUE
    BY <1>3 DEF SoleSurvivor
  <2>3. SoleSurvivor(g) = x
    BY <2>1, <2>2
  <2>. QED  BY <2>1, <2>3 DEF Agents
<1>4. CASE Cardinality(g.alive) = 0
  <2>1. g.alive = {}
    BY <1>2, <1>4, FS_EmptySet
  <2>2. SoleSurvivor(g) = NoTank
    BY <1>4 DEF SoleSurvivor
  <2>. QED  BY <2>1, <2>2 DEF Agents
<1>. QED  BY <1>2, <1>3, <1>4

LEMMA ResultIs ==
    ASSUME NEW g, Typed(g), Distinct(g.order), Counted(g.players, g.alive, g.hp, g.order),
           Cardinality(g.alive) <= 1
    PROVE  /\ Placed(g.order, g.alive, ResultOf(g).winner, ResultOf(g).place)
           /\ DOMAIN ResultOf(g).place \in SUBSET Tanks
<1>. DEFINE w == SoleSurvivor(g)
            place == Placement(g, w)
            n == Len(g.order)
            first == IF w = NoTank THEN 0 ELSE 1
            last == Reverse(g.order)
<1>1. /\ g.order \in Seq(Tanks) /\ g.players \in SUBSET Tanks /\ g.alive \in SUBSET g.players /\ NoTank \notin Tanks
      /\ g.alive \in SUBSET Tanks
  BY RoundAssumption DEF Typed
<1>2. n \in Nat /\ DOMAIN g.order = 1 .. n /\ \A i \in 1 .. n : g.order[i] \in Tanks
  BY <1>1
<1>3. g.alive \subseteq {w} /\ (w # NoTank => w \in g.alive)
  BY <1>1, SurvivorIs
<1>4. ResultOf(g).winner = w /\ ResultOf(g).place = place
  BY DEF ResultOf
<1>5. /\ Len(last) = n
      /\ \A i \in 1 .. n : last[i] = g.order[n - i + 1]
  BY <1>2 DEF Reverse
<1>6. DOMAIN place = g.players /\ \A p \in g.players :
          place[p] = IF p = w THEN 1 ELSE first + CHOOSE i \in 1 .. n : last[i] = p
  BY <1>5 DEF Placement
<1>. HIDE DEF w, place, last
<1>7. \A i \in 1 .. n : g.order[i] # w
  <2>. SUFFICES ASSUME NEW i \in 1 .. n, g.order[i] = w PROVE FALSE
    OBVIOUS
  <2>1. w \in Among(g.order) /\ w # NoTank
    BY <1>1, <1>2 DEF Among
  <2>. QED  BY <1>3, <2>1 DEF Counted
<1>8. ASSUME NEW p \in g.players, p # w
      PROVE  \E i \in 1 .. n : g.order[i] = p /\ place[p] = first + (n + 1 - i)
  <2>1. p \in Among(g.order)
    BY <1>3, <1>8 DEF Counted
  <2>2. PICK i \in 1 .. n : g.order[i] = p
    BY <1>2, <2>1 DEF Among
  <2>. DEFINE j == CHOOSE k \in 1 .. n : last[k] = p
              m == n + 1 - i
  <2>3. m \in 1 .. n /\ n - m + 1 = i
    BY <1>2
  <2>. HIDE DEF m
  <2>4. last[m] = p
    BY <1>5, <2>2, <2>3
  <2>5. j \in 1 .. n /\ last[j] = p
    BY <2>3, <2>4
  <2>6. place[p] = first + j
    BY <1>6, <1>8
  <2>. HIDE DEF j
  <2>7. n - j + 1 \in 1 .. n /\ g.order[n - j + 1] = p
    BY <1>2, <1>5, <2>5
  <2>8. n - j + 1 = i
    BY <1>2, <2>2, <2>7 DEF Distinct
  <2>9. j = n + 1 - i
    BY <1>2, <2>5, <2>8
  <2>. QED  BY <2>2, <2>6, <2>9
<1>9. w # NoTank => w \in DOMAIN place /\ place[w] = 1
  BY <1>1, <1>3, <1>6
<1>10. n \in 0 .. n /\ \A i \in n + 1 .. n : g.order[i] = w
  BY <1>2
<1>11. Placed(g.order, g.alive, w, place)
  <2>1. \A p \in DOMAIN place : p # w => \E i \in 1 .. n : g.order[i] = p /\ place[p] = first + (n + 1 - i)
    BY <1>6, <1>8
  <2>. QED  BY <1>3, <1>7, <1>9, <1>10, <2>1, Zenon DEF Placed
<1>. QED  BY <1>1, <1>4, <1>6, <1>11

\* A ranking has one player in each place, the winner first, and a player who fell later
\* before one who fell earlier.
Ranks(order, winner, place) ==
    /\ \A p, q \in DOMAIN place : place[p] = place[q] => p = q
    /\ winner # NoTank => place[winner] = 1
    /\ \A i, j \in DOMAIN order :
          {order[i], order[j]} \subseteq DOMAIN place /\ i < j /\ winner \notin {order[i], order[j]}
            => place[order[j]] < place[order[i]]

LEMMA PlacedRanks ==
    ASSUME NEW order \in Seq(Tanks), Distinct(order), NEW living, NEW winner, NEW place,
           DOMAIN place \in SUBSET Tanks, Placed(order, living, winner, place)
    PROVE  Ranks(order, winner, place)
<1>. DEFINE first == IF winner = NoTank THEN 0 ELSE 1
<1>1. PICK n \in 0 .. Len(order) :
        /\ \A p \in DOMAIN place : p # winner =>
              \E i \in 1 .. n : order[i] = p /\ place[p] = first + (n + 1 - i)
        /\ winner # NoTank => winner \in DOMAIN place /\ place[winner] = 1
  BY Zenon DEF Placed
<1>2. /\ n \in Nat /\ DOMAIN order = 1 .. Len(order) /\ Len(order) \in Nat /\ NoTank \notin Tanks
      /\ \A i \in 1 .. n : i \in DOMAIN order
  BY RoundAssumption
<1>3. \A p \in DOMAIN place : p = winner => winner # NoTank
  BY <1>2
<1>4. first \in {0, 1} /\ (winner # NoTank => first = 1)
  OBVIOUS
<1>. HIDE DEF first
<1>5. ASSUME NEW p \in DOMAIN place, p # winner, p \in Among(order)
      PROVE  \A i \in DOMAIN order : order[i] = p => i \in 1 .. n /\ place[p] = first + (n + 1 - i)
  <2>1. PICK k \in 1 .. n : order[k] = p /\ place[p] = first + (n + 1 - k)
    BY <1>1, <1>5
  <2>. SUFFICES ASSUME NEW i \in DOMAIN order, order[i] = p
                PROVE  i \in 1 .. n /\ place[p] = first + (n + 1 - i)
    OBVIOUS
  <2>2. i = k
    BY <1>2, <2>1 DEF Distinct
  <2>. QED  BY <2>1, <2>2
<1>6. ASSUME NEW p \in DOMAIN place, NEW q \in DOMAIN place, place[p] = place[q] PROVE p = q
  <2>1. CASE p # winner /\ q # winner
    <3>1. PICK i \in 1 .. n : order[i] = p /\ place[p] = first + (n + 1 - i)
      BY <1>1, <2>1
    <3>2. PICK j \in 1 .. n : order[j] = q /\ place[q] = first + (n + 1 - j)
      BY <1>1, <2>1
    <3>3. i = j
      <4>1. first + (n + 1 - i) = first + (n + 1 - j)
        BY <1>6, <3>1, <3>2, Zenon
      <4>2. i \in Int /\ j \in Int /\ n \in Int /\ first \in Int
        BY <1>2, <1>4
      <4>. QED  BY <4>1, <4>2
    <3>. QED  BY <3>1, <3>2, <3>3
  <2>2. CASE p = winner /\ q # winner
    <3>1. PICK j \in 1 .. n : order[j] = q /\ place[q] = first + (n + 1 - j)
      BY <1>1, <2>2
    <3>2. place[p] = 1 /\ first = 1
      BY <1>1, <1>3, <1>4, <2>2
    <3>3. 1 = 1 + (n + 1 - j) /\ j \in 1 .. n /\ n \in Nat
      BY <1>2, <1>6, <3>1, <3>2
    <3>. QED  BY <3>3
  <2>3. CASE p # winner /\ q = winner
    <3>1. PICK j \in 1 .. n : order[j] = p /\ place[p] = first + (n + 1 - j)
      BY <1>1, <2>3
    <3>2. place[q] = 1 /\ first = 1
      BY <1>1, <1>3, <1>4, <2>3
    <3>3. 1 = 1 + (n + 1 - j) /\ j \in 1 .. n /\ n \in Nat
      BY <1>2, <1>6, <3>1, <3>2
    <3>. QED  BY <3>3
  <2>. QED  BY <2>1, <2>2, <2>3
<1>7. ASSUME NEW i \in DOMAIN order, NEW j \in DOMAIN order, {order[i], order[j]} \subseteq DOMAIN place, i < j,
             winner \notin {order[i], order[j]}
      PROVE  place[order[j]] < place[order[i]]
  <2>1. order[i] \in Among(order) /\ order[j] \in Among(order)
    BY DEF Among
  <2>2. i \in 1 .. n /\ place[order[i]] = first + (n + 1 - i) /\ j \in 1 .. n /\ place[order[j]] = first + (n + 1 - j)
    BY <1>5, <1>7, <2>1
  <2>. QED  BY <1>2, <1>4, <1>7, <2>2
<1>. QED  BY <1>1, <1>6, <1>7 DEF Ranks

\* No two prizes for one player.
LEMMA CandidatesAre ==
    ASSUME NEW place
    PROVE  \A i, j \in DOMAIN Candidates(place) : Candidates(place)[i].player = Candidates(place)[j].player => i = j
<1>. DEFINE Prizes == [player : DOMAIN place, amount : Nat]
            G == Seq(Prizes)
            n == Len(Schedule)
            Found(i) == {p \in DOMAIN place : place[p] = i}
            Given(cs, i) == IF Found(i) = {} THEN cs
                            ELSE Append(cs, [player |-> CHOOSE p \in Found(i) : TRUE, amount |-> Schedule[i]])
            F == [i \in 1 .. n |-> [cs \in G |-> Given(cs, i)]]
            Follows(d) == [i \in 0 .. n |-> IF i = 0 THEN << >> ELSE Given(d[i - 1], i)]
            t == CHOOSE d : d = Follows(d)
            Upto(i, cs) == /\ cs \in G /\ \A k \in DOMAIN cs : place[cs[k].player] \in 1 .. i
                           /\ \A k, l \in DOMAIN cs : cs[k].player = cs[l].player => k = l
<1>1. n \in Nat /\ \A i \in 1 .. n : Schedule[i] \in Nat
  BY RoundAssumption
<1>2. Len(Numbered(n)) = n /\ \A i \in 1 .. n : Numbered(n)[i] = i
  BY <1>1 DEF Numbered
<1>3. Candidates(place) =
        (CHOOSE d : d = [i \in 0 .. Len(Numbered(n)) |-> IF i = 0 THEN << >> ELSE Given(d[i - 1], Numbered(n)[i])])
          [Len(Numbered(n))]
  BY Zenon DEF Candidates, InTurn
<1>4. ASSUME NEW i \in 1 .. n, Found(i) # {}
      PROVE  \E x \in Prizes : place[x.player] = i /\ \A cs : Given(cs, i) = Append(cs, x)
  <2>. DEFINE p == CHOOSE q \in Found(i) : TRUE
              x == [player |-> p, amount |-> Schedule[i]]
  <2>1. p \in DOMAIN place /\ place[p] = i
    BY <1>4
  <2>2. \A cs : Given(cs, i) = Append(cs, x)
    BY <1>4
  <2>. HIDE DEF p
  <2>3. x \in Prizes /\ x.player = p
    BY <1>1, <2>1
  <2>. QED  BY <2>1, <2>2, <2>3
<1>5. \A i \in 1 .. n : Found(i) = {} => \A cs : Given(cs, i) = cs
  OBVIOUS
<1>. HIDE DEF n, Found, Given
<1>17. << >> \in G /\ DOMAIN << >> = {} /\ \A cs \in G, x \in Prizes : Append(cs, x) \in G
  <2>. HIDE DEF Prizes
  <2>. QED  OBVIOUS
<1>. HIDE DEF G, Prizes
<1>6. \A i \in 1 .. n : \A cs \in G : Given(cs, i) \in G
  <2>. SUFFICES ASSUME NEW i \in 1 .. n, NEW cs \in G PROVE Given(cs, i) \in G
    OBVIOUS
  <2>1. CASE Found(i) = {}
    BY <1>5, <2>1
  <2>2. CASE Found(i) # {}
    <3>1. PICK x \in Prizes : Given(cs, i) = Append(cs, x)
      BY <1>4, <2>2
    <3>. QED  BY <1>17, <3>1
  <2>. QED  BY <2>1, <2>2
<1>7. \E d : InSteps(F, n, << >>, G, d)
  <2>1. Stepwise(F, n, G)
    BY <1>6 DEF Stepwise
  <2>. HIDE DEF F
  <2>. QED  BY <1>1, <1>17, <2>1, Iterates
<1>8. PICK d \in [0 .. n -> G] : d[0] = << >> /\ \A i \in 1 .. n : d[i] = F[i][d[i - 1]]
  BY <1>7 DEF InSteps
<1>9. d = Follows(d)
  <2>1. \A i \in 1 .. n : i \in 0 .. n /\ i - 1 \in 0 .. n /\ i # 0
    BY <1>1
  <2>2. \A i \in 1 .. n : d[i] = Given(d[i - 1], i)
    BY <1>8, <2>1
  <2>3. \A i \in 0 .. n : i = 0 \/ i \in 1 .. n
    BY <1>1
  <2>. QED  BY <1>8, <2>1, <2>2, <2>3
<1>. HIDE DEF F
<1>10. t = Follows(t)
  BY <1>9
<1>11. Candidates(place) = t[n]
  <2>1. ASSUME NEW e
        PROVE  [i \in 0 .. Len(Numbered(n)) |-> IF i = 0 THEN << >> ELSE Given(e[i - 1], Numbered(n)[i])] = Follows(e)
    <3>1. \A i \in 0 .. n : i # 0 => Numbered(n)[i] = i
      BY <1>2
    <3>. QED  BY <1>2, <3>1
  <2>2. Len(Numbered(n)) = n
    BY <1>2
  <2>. QED  BY <1>3, <2>1, <2>2
<1>. HIDE DEF t
<1>12. t[0] = << >> /\ \A i \in 1 .. n : t[i] = Given(t[i - 1], i)
  <2>1. 0 \in 0 .. n /\ \A i \in 1 .. n : i \in 0 .. n /\ i # 0
    BY <1>1
  <2>. QED  BY <1>10, <2>1
<1>. DEFINE S == {i \in 0 .. n : Upto(i, t[i])}
<1>13. 0 \in S
  <2>1. Upto(0, << >>)
    BY <1>17
  <2>. QED  BY <1>1, <1>12, <2>1
<1>14. ASSUME NEW i \in 1 .. n, i - 1 \in S PROVE i \in S
  <2>. DEFINE cs == t[i - 1]
  <2>1. Upto(i - 1, cs) /\ t[i] = Given(cs, i) /\ i \in 0 .. n
    BY <1>1, <1>12, <1>14
  <2>. HIDE DEF cs
  <2>2. CASE Found(i) = {}
    <3>1. t[i] = cs
      BY <1>5, <2>1, <2>2
    <3>2. \A k : k \in 1 .. i - 1 => k \in 1 .. i
      OBVIOUS
    <3>3. Upto(i, cs)
      BY <2>1, <3>2
    <3>. QED  BY <2>1, <3>1, <3>3
  <2>3. CASE Found(i) # {}
    <3>0. \E x \in Prizes : place[x.player] = i /\ \A s : Given(s, i) = Append(s, x)
      BY <1>4, <2>3
    <3>1. PICK x \in Prizes : place[x.player] = i /\ t[i] = Append(cs, x)
      BY <2>1, <3>0
    <3>. DEFINE m == Len(cs)
                e == Append(cs, x)
    <3>2. cs \in Seq(Prizes)
      BY <2>1 DEF G
    <3>3. /\ e \in Seq(Prizes) /\ m \in Nat /\ DOMAIN cs = 1 .. m /\ DOMAIN e = 1 .. m + 1
          /\ e[m + 1] = x /\ \A k \in 1 .. m : e[k] = cs[k]
      BY <3>2, AppendIs
    <3>4. \A k \in 1 .. m + 1 : k = m + 1 \/ k \in 1 .. m
      BY <3>3
    <3>. HIDE DEF m, e
    <3>5. \A k \in 1 .. m : place[cs[k].player] \in 1 .. i - 1
      BY <2>1, <3>3
    <3>6. \A k \in 1 .. m : cs[k].player # x.player
      BY <3>1, <3>5
    <3>7. \A k \in DOMAIN e : place[e[k].player] \in 1 .. i
      <4>1. i \in 1 .. i /\ \A y : y \in 1 .. i - 1 => y \in 1 .. i
        BY <1>1
      <4>. QED  BY <3>1, <3>3, <3>4, <3>5, <4>1
    <3>8. \A k, l \in DOMAIN e : e[k].player = e[l].player => k = l
      BY <2>1, <3>3, <3>4, <3>6
    <3>9. Upto(i, e)
      BY <3>3, <3>7, <3>8 DEF G
    <3>. QED  BY <2>1, <3>1, <3>9 DEF e
  <2>. QED  BY <2>2, <2>3
<1>. HIDE DEF S
<1>15. n \in S
  <2>1. \A i \in 0 .. n : i \in S
    BY <1>1, <1>13, <1>14, Climbs
  <2>. QED  BY <1>1, <2>1
<1>16. Upto(n, t[n])
  BY <1>15 DEF S
<1>. QED  BY <1>11, <1>16


-----------------------------------------------------------------------------
(* The invariant of a round.                                                       *)

\* What is saved, and announced, is what the tick that ended the round has computed.
Recorded ==
    /\ stage \in {"running", "saving", "unsaved", "saved", "announced"}
    /\ stage \in {"running", "saving", "unsaved"} => saved = NoResult /\ prizes = << >> /\ announced = << >>
    /\ stage = "saved" => saved = result /\ prizes = Candidates(result.place) /\ announced = << >>
    /\ stage = "announced" =>
          announced = <<result.winner>> /\ (saved = NoResult \/ (saved = result /\ prizes = Candidates(result.place)))

RoundKept ==
    /\ Adds(round) /\ round.events = << >> /\ feed \in Seq(Deaths) /\ tick \in Int
    /\ stage # "running" => DOMAIN result.place \in SUBSET Tanks
    /\ Recorded

LEMMA RoundBegins == ASSUME RoundInit PROVE RoundKept
<1>. DEFINE zero == [p \in Tanks |-> 0]
<1>1. feed = << >> /\ stage = "running" /\ saved = NoResult /\ prizes = << >> /\ announced = << >> /\ tick = 0
  BY DEF RoundInit
<1>2. MaxHp \in Nat \ {0} /\ ShieldCooldown \in Nat /\ NoTank \notin Tanks
  BY RoundAssumption
<1>3. zero \in [Tanks -> Nat] /\ zero \in [Tanks -> Int]
  OBVIOUS
<1>4. NoHit \in Blows /\ NoHit.by = NoTank
  BY DEF NoHit, Blows, Agents
<1>5. /\ [p \in Tanks |-> MaxHp] \in [Tanks -> 0 .. MaxHp] /\ [p \in Tanks |-> MaxHp] \in [Tanks -> Int]
      /\ [p \in Tanks |-> -ShieldCooldown] \in [Tanks -> Int] /\ [p \in Tanks |-> NoHit] \in [Tanks -> Blows]
      /\ << >> \in Seq(Bullets) /\ << >> \in Seq(Tanks) /\ << >> \in Seq(Deaths)
  BY <1>2, <1>4
<1>6. /\ round.players = Tanks /\ round.alive = Tanks /\ round.status = "playing"
      /\ round.hp = [p \in Tanks |-> MaxHp] /\ round.shield = zero /\ round.shieldUntil = zero
      /\ round.lastShield = [p \in Tanks |-> -ShieldCooldown] /\ round.lastCombat = zero /\ round.regen = zero
      /\ round.burn = zero /\ round.taken = 0 /\ round.dealt = 0 /\ round.kills = zero /\ round.deaths = zero
      /\ round.recent = [p \in Tanks |-> NoHit] /\ round.bullets = << >> /\ round.order = << >>
      /\ round.events = << >>
  BY DEF RoundInit
<1>7. DOMAIN round = Fields /\ round = [f \in DOMAIN round |-> round[f]]
  BY DEF RoundInit, Fields
<1>8. \A f \in Fields : round[f] \in Values
  <2>1. /\ round.players \in Values /\ round.alive \in Values /\ round.status \in Values
    BY <1>6, ValuesAre DEF Statuses
  <2>2. /\ round.hp \in Values /\ round.shield \in Values /\ round.shieldUntil \in Values
        /\ round.lastShield \in Values /\ round.lastCombat \in Values /\ round.regen \in Values
        /\ round.burn \in Values /\ round.kills \in Values /\ round.deaths \in Values
    BY <1>3, <1>5, <1>6, ValuesAre
  <2>3. round.taken \in Values /\ round.dealt \in Values
    BY <1>6, ValuesAre
  <2>4. round.recent \in Values /\ round.bullets \in Values /\ round.order \in Values /\ round.events \in Values
    BY <1>5, <1>6, ValuesAre
  <2>. QED  BY <2>1, <2>2, <2>3, <2>4 DEF Fields
<1>9. round \in [Fields -> Values]
  BY <1>7, <1>8
<1>10. Typed(round)
  BY <1>3, <1>5, <1>6, <1>9 DEF Typed, Statuses
<1>11. Booked(round.order, feed \o round.events, round.kills, round.deaths)
  <2>1. feed \o round.events = << >>
    BY <1>1, <1>6
  <2>2. Victims(<< >>) = << >> /\ Distinct(<< >>) /\ Credits(<< >>) = {} /\ Among(<< >>) = {}
    BY DEF Victims, Distinct, Credits, Among
  <2>3. Total(zero) = Cardinality(Credits(<< >>))
    BY <2>2, TotalOfNone, FS_EmptySet
  <2>4. \A p \in Tanks : zero[p] = 0
    OBVIOUS
  <2>. HIDE DEF zero
  <2>5. Booked(<< >>, << >>, zero, zero)
    BY <1>3, <1>5, <2>2, <2>3, <2>4 DEF Booked
  <2>. QED  BY <1>6, <2>1, <2>5
<1>12. Counted(round.players, round.alive, round.hp, round.order)
  <2>1. Among(<< >>) = {}
    BY DEF Among
  <2>2. \A p \in Tanks : round.hp[p] > 0
    BY <1>2, <1>6
  <2>. QED  BY <1>6, <2>1, <2>2 DEF Counted
<1>13. \A p \in Tanks : round.recent[p].by # p
  BY <1>2, <1>4, <1>6
<1>14. round.dealt <= round.taken
  BY <1>6
<1>15. Adds(round)
  BY <1>1, <1>6, <1>10, <1>11, <1>12, <1>13, <1>14 DEF Adds
<1>16. Recorded
  BY <1>1 DEF Recorded
<1>. QED  BY <1>1, <1>5, <1>6, <1>15, <1>16 DEF RoundKept

\* The invariant says what is checked.
LEMMA RoundIsRight == ASSUME RoundKept PROVE RoundAddsUp
<1>1. /\ Typed(round) /\ round.dealt <= round.taken /\ Counted(round.players, round.alive, round.hp, round.order)
      /\ Booked(round.order, feed, round.kills, round.deaths)
  <2>1. feed \o round.events = feed
    BY DEF RoundKept
  <2>. QED  BY <2>1 DEF RoundKept, Adds
<1>2. round.order \in Seq(Tanks) /\ Distinct(round.order)
  BY <1>1 DEF Booked
<1>3. ASSUME NEW p \in Tanks
      PROVE  /\ round.deaths[p] = Cardinality({i \in DOMAIN round.order : round.order[i] = p})
             /\ round.deaths[p] <= 1
  <2>. DEFINE T == {i \in DOMAIN round.order : round.order[i] = p}
  <2>1. round.deaths[p] = IF p \in Among(round.order) THEN 1 ELSE 0
    BY <1>1 DEF Booked
  <2>2. CASE p \in Among(round.order)
    <3>1. PICK i \in DOMAIN round.order : round.order[i] = p
      BY <2>2 DEF Among
    <3>2. T = {i}
      BY <1>2, <3>1 DEF Distinct
    <3>3. Cardinality(T) = 1
      BY <3>2, FS_Singleton
    <3>. QED  BY <2>1, <2>2, <3>3
  <2>3. CASE p \notin Among(round.order)
    <3>1. T = {}
      BY <2>3 DEF Among
    <3>2. Cardinality(T) = 0
      BY <3>1, FS_EmptySet
    <3>. QED  BY <2>1, <2>3, <3>2
  <2>. QED  BY <2>2, <2>3
<1>4. StatsAddUp
  <2>1. Total(round.kills) = Cardinality({i \in DOMAIN feed : feed[i].credited # NoTank})
    BY <1>1 DEF Booked, Credits
  <2>2. [i \in DOMAIN feed |-> feed[i].victim] = round.order
    BY <1>1 DEF Booked, Victims
  <2>3. \A p \in round.players : p \in round.alive <=> round.hp[p] > 0
    BY <1>1 DEF Counted
  <2>4. \A i \in DOMAIN feed : feed[i].credited # feed[i].victim
    BY <1>1 DEF Booked
  <2>. QED  BY <1>1, <1>3, <2>1, <2>2, <2>3, <2>4 DEF StatsAddUp
<1>5. RankingHolds
  <2>. SUFFICES ASSUME stage \in {"saved", "announced"}, saved # NoResult
                PROVE  /\ Ranks(round.order, saved.winner, saved.place)
                       /\ \A i, j \in DOMAIN prizes : prizes[i].player = prizes[j].player => i = j
                       /\ announced # <<>> => announced = <<saved.winner>>
    BY DEF RankingHolds, Ranks
  <2>1. saved = result /\ prizes = Candidates(result.place) /\ (announced # << >> => announced = <<result.winner>>)
    BY DEF RoundKept, Recorded
  <2>2. stage # "running"
    OBVIOUS
  <2>3. Placed(round.order, round.alive, result.winner, result.place) /\ DOMAIN result.place \in SUBSET Tanks
    BY <2>2 DEF RoundKept, Adds
  <2>4. Ranks(round.order, result.winner, result.place)
    BY <1>2, <2>3, PlacedRanks
  <2>5. \A i, j \in DOMAIN prizes : prizes[i].player = prizes[j].player => i = j
    BY <2>1, CandidatesAre
  <2>. QED  BY <2>1, <2>4, <2>5
<1>. QED  BY <1>4, <1>5 DEF RoundAddsUp


\* A tick publishes its deaths, and ends the round when one is left.
LEMMA ClosedKeeps ==
    ASSUME NEW g, Adds(g), NEW over \in BOOLEAN, feed \in Seq(Deaths),
           over => g.status = "playing" /\ Cardinality(g.alive) <= 1,
           stage # "running" => DOMAIN result.place \in SUBSET Tanks,
           round' = [g EXCEPT !.events = << >>, !.status = IF over THEN "finished" ELSE @],
           feed' = feed \o g.events,
           result' = IF over THEN ResultOf(round') ELSE result,
           stage' = IF over THEN "saving" ELSE stage
    PROVE  /\ Adds(round)' /\ round'.events = << >> /\ feed' \in Seq(Deaths)
           /\ stage' # "running" => DOMAIN result'.place \in SUBSET Tanks
           /\ over => stage = "running"
<1>. DEFINE ended == IF over THEN "finished" ELSE g.status
            h1 == [g EXCEPT !.events = << >>]
            h == [h1 EXCEPT !.status = ended]
<1>1. Typed(g) /\ g \in [Fields -> Values] /\ g.status \in Statuses /\ g.events \in Seq(Deaths)
  BY DEF Adds, Typed
<1>2. ended \in Statuses /\ ended \in Values /\ << >> \in Seq(Deaths) /\ << >> \in Values
  <2>1. ended \in Statuses /\ << >> \in Seq(Deaths)
    BY <1>1 DEF Statuses
  <2>. QED  BY <2>1, ValuesAre
<1>3. round' = h
  OBVIOUS
<1>. HIDE DEF ended
<1>4. {"events", "status"} \subseteq Fields
  BY DEF Fields
<1>5. h1 \in [Fields -> Values] /\ h1.events = << >> /\ \A f \in Fields \ {"events"} : h1[f] = g[f]
  BY <1>1, <1>2, <1>4
<1>. HIDE DEF h1
<1>6. h \in [Fields -> Values] /\ h.status = ended /\ \A f \in Fields \ {"status"} : h[f] = h1[f]
  BY <1>2, <1>4, <1>5
<1>. HIDE DEF h
<1>7. /\ h.events = << >>
      /\ h.players = g.players /\ h.alive = g.alive /\ h.order = g.order
      /\ h.kills = g.kills /\ h.deaths = g.deaths /\ h.taken = g.taken
      /\ h.dealt = g.dealt /\ h.shield = g.shield /\ h.shieldUntil = g.shieldUntil /\ h.lastShield = g.lastShield
      /\ h.recent = g.recent /\ h.bullets = g.bullets /\ h.hp = g.hp
      /\ h.lastCombat = g.lastCombat /\ h.burn = g.burn /\ h.regen = g.regen
  BY <1>5, <1>6 DEF Fields
<1>8. Typed(h)
  BY <1>1, <1>2, <1>6, <1>7 DEF Typed
<1>9. /\ Booked(g.order, feed \o g.events, g.kills, g.deaths) /\ g.dealt <= g.taken
      /\ \A p \in Tanks : g.recent[p].by # p
      /\ Counted(g.players, g.alive, g.hp, g.order)
      /\ g.status = IF stage = "running" THEN "playing" ELSE "finished"
      /\ stage # "running" => Placed(g.order, g.alive, result.winner, result.place)
  BY DEF Adds
<1>10. over => stage = "running"
  BY <1>9
<1>11. feed' \in Seq(Deaths) /\ feed' \o h.events = feed'
  BY <1>1, <1>7
<1>12. h.status = IF stage' = "running" THEN "playing" ELSE "finished"
  BY <1>6, <1>9, <1>10 DEF ended
<1>13. stage' # "running" =>
         Placed(h.order, h.alive, result'.winner, result'.place) /\ DOMAIN result'.place \in SUBSET Tanks
  <2>1. CASE over
    <3>1. Distinct(h.order) /\ Counted(h.players, h.alive, h.hp, h.order) /\ Cardinality(h.alive) <= 1
      BY <1>7, <1>9, <2>1 DEF Booked
    <3>2. result' = ResultOf(h)
      BY <1>3, <2>1
    <3>3. /\ Placed(h.order, h.alive, ResultOf(h).winner, ResultOf(h).place)
          /\ DOMAIN ResultOf(h).place \in SUBSET Tanks
      BY <1>8, <3>1, ResultIs
    <3>. QED  BY <3>2, <3>3
  <2>2. CASE ~ over
    BY <1>7, <1>9, <2>2
  <2>. QED  BY <2>1, <2>2
<1>14. Booked(h.order, feed' \o h.events, h.kills, h.deaths)
  BY <1>7, <1>9, <1>11
<1>15. Adds(round)'
  BY <1>3, <1>7, <1>8, <1>9, <1>12, <1>13, <1>14 DEF Adds
<1>. QED  BY <1>3, <1>7, <1>10, <1>11, <1>13, <1>15

LEMMA FiredKeeps ==
    ASSUME NEW g, Adds(g), NEW S \in SUBSET g.alive, Cardinality(S) <= 1
    PROVE  Adds([g EXCEPT !.bullets = @ \o [i \in 1 .. Cardinality(S) |->
                    LET p == CHOOSE q \in S : TRUE IN [owner |-> p, kind |-> Loadout[p], bounced |-> FALSE]]])
<1>. DEFINE n == Cardinality(S)
            p == CHOOSE q \in S : TRUE
            shot == [owner |-> p, kind |-> Loadout[p], bounced |-> FALSE]
            more == [i \in 1 .. n |-> shot]
            s == g.bullets \o more
<1>1. S \in SUBSET Tanks /\ g.bullets \in Seq(Bullets)
  BY DEF Adds, Typed
<1>2. IsFiniteSet(S) /\ n \in Nat
  BY <1>1, RoundAssumption, FS_Subset, FS_CardinalityType
<1>3. n > 0 => shot \in Bullets
  <2>. SUFFICES ASSUME n > 0 PROVE shot \in Bullets
    OBVIOUS
  <2>1. S # {}
    BY <1>2, FS_EmptySet
  <2>2. p \in Tanks
    BY <1>1, <2>1
  <2>3. Loadout[p] \in DOMAIN Damage
    BY <2>2, RoundAssumption
  <2>. HIDE DEF p
  <2>. QED  BY <2>2, <2>3 DEF Bullets
<1>. HIDE DEF n, shot
<1>4. more \in Seq(Bullets)
  <2>1. \A i \in 1 .. n : shot \in Bullets
    BY <1>2, <1>3
  <2>. QED  BY <1>2, <2>1
<1>. HIDE DEF more
<1>5. s \in Seq(Bullets)
  BY <1>1, <1>4
<1>. HIDE DEF s
<1>6. Adds([g EXCEPT !.bullets = s])
  BY <1>5, BulletsKeep
<1>. QED  BY <1>6 DEF s, more, shot, n

LEMMA TickKeeps == ASSUME RoundKept, Tick PROVE RoundKept'
<1>1. PICK shooters \in SUBSET round.alive, out \in MayBeOutside(round, Elapsed) :
        /\ Cardinality(shooters) <= 1
        /\ LET fired == [round EXCEPT !.bullets = @ \o [i \in 1..Cardinality(shooters) |->
                    LET p == CHOOSE q \in shooters : TRUE
                    IN  [owner |-> p, kind |-> Loadout[p], bounced |-> FALSE]]]
           IN \E shot \in AfterBullets(Burnt(fired, out, Elapsed), Elapsed) :
                LET g    == Healed(shot, out, Elapsed)
                    over == g.status = "playing" /\ Cardinality(g.alive) <= 1
                    h    == [g EXCEPT !.events = << >>,
                                      !.status = IF over THEN "finished" ELSE @]
                IN  /\ round' = h /\ feed' = feed \o g.events
                    /\ result' = IF over THEN ResultOf(h) ELSE result
                    /\ stage' = IF over THEN "saving" ELSE stage
  BY Zenon DEF Tick
<1>. DEFINE fired == [round EXCEPT !.bullets = @ \o [i \in 1..Cardinality(shooters) |->
                    LET p == CHOOSE q \in shooters : TRUE
                    IN  [owner |-> p, kind |-> Loadout[p], bounced |-> FALSE]]]
            burnt == Burnt(fired, out, Elapsed)
<1>2. /\ Adds(round) /\ feed \in Seq(Deaths) /\ Elapsed \in Int
      /\ stage # "running" => DOMAIN result.place \in SUBSET Tanks
  BY DEF RoundKept, Elapsed
<1>3. Adds(fired)
  BY <1>1, <1>2, FiredKeeps
<1>4. PICK shot \in AfterBullets(burnt, Elapsed) :
                LET g    == Healed(shot, out, Elapsed)
                    over == g.status = "playing" /\ Cardinality(g.alive) <= 1
                    h    == [g EXCEPT !.events = << >>,
                                      !.status = IF over THEN "finished" ELSE @]
                IN  /\ round' = h /\ feed' = feed \o g.events
                    /\ result' = IF over THEN ResultOf(h) ELSE result
                    /\ stage' = IF over THEN "saving" ELSE stage
  BY <1>1, Zenon
<1>. HIDE DEF fired
<1>5. Adds(burnt)
  BY <1>2, <1>3, BurntKeeps
<1>. HIDE DEF burnt
<1>6. Adds(shot)
  BY <1>2, <1>5, AfterBulletsKeep
<1>. DEFINE g == Healed(shot, out, Elapsed)
            over == g.status = "playing" /\ Cardinality(g.alive) <= 1
<1>7. /\ round' = [g EXCEPT !.events = << >>, !.status = IF over THEN "finished" ELSE @]
      /\ feed' = feed \o g.events
      /\ result' = (IF over THEN ResultOf(round') ELSE result)
      /\ stage' = (IF over THEN "saving" ELSE stage)
  BY <1>4, Zenon
<1>8. Adds(g)
  BY <1>2, <1>6, HealedKeeps
<1>. HIDE DEF g
<1>9. over \in BOOLEAN /\ (over => g.status = "playing" /\ Cardinality(g.alive) <= 1)
  OBVIOUS
<1>. HIDE DEF over
<1>10. /\ Adds(round)' /\ round'.events = << >> /\ feed' \in Seq(Deaths)
       /\ stage' # "running" => DOMAIN result'.place \in SUBSET Tanks
       /\ over => stage = "running"
  BY <1>2, <1>7, <1>8, <1>9, ClosedKeeps
<1>11. tick' \in Int /\ saved' = saved /\ prizes' = prizes /\ announced' = announced
  BY DEF Tick, RoundKept
<1>12. Recorded'
  <2>1. stage # "announced"
    BY DEF Tick
  <2>2. CASE over
    BY <1>7, <1>10, <1>11, <2>2 DEF RoundKept, Recorded
  <2>3. CASE ~ over
    <3>1. stage' = stage /\ result' = result
      BY <1>7, <2>3
    <3>. QED  BY <1>11, <3>1 DEF RoundKept, Recorded
  <2>. QED  BY <2>2, <2>3
<1>. QED  BY <1>10, <1>11, <1>12 DEF RoundKept

LEMMA RoundInductive == ASSUME RoundKept, [RoundNext]_roundVars PROVE RoundKept'
<1>1. CASE Tick
  BY <1>1, TickKeeps
<1>2. CASE Persist \/ PersistFails \/ Finish
  <2>1. UNCHANGED <<round, tick, feed, result>> /\ stage # "running" /\ stage' # "running"
    BY <1>2 DEF Persist, PersistFails, Finish
  <2>2. Adds(round)'
    BY <2>1 DEF RoundKept, Adds
  <2>3. Recorded'
    <3>1. CASE Persist
      BY <3>1 DEF Persist, RoundKept, Recorded
    <3>2. CASE PersistFails
      BY <3>2 DEF PersistFails, RoundKept, Recorded
    <3>3. CASE Finish
      BY <3>3 DEF Finish, RoundKept, Recorded
    <3>. QED  BY <1>2, <3>1, <3>2, <3>3
  <2>. QED  BY <2>1, <2>2, <2>3 DEF RoundKept
<1>3. CASE \E p \in Tanks : RaiseShield(p) \/ LeaveRound(p)
  <2>1. PICK p \in Tanks : RaiseShield(p) \/ LeaveRound(p)
    BY <1>3
  <2>2. UNCHANGED <<tick, feed, result, stage, saved, prizes, announced>>
    BY <2>1 DEF RaiseShield, LeaveRound
  <2>3. Adds(round') /\ round'.events = << >>
    <3>1. CASE RaiseShield(p)
      BY <3>1, ShieldedKeeps DEF RaiseShield, RoundKept
    <3>2. CASE LeaveRound(p)
      BY <3>2, RemovedKeeps DEF LeaveRound, RoundKept
    <3>. QED  BY <2>1, <3>1, <3>2
  <2>4. Adds(round)'
    BY <2>2, <2>3 DEF Adds
  <2>5. Recorded'
    BY <2>2 DEF RoundKept, Recorded
  <2>. QED  BY <2>2, <2>3, <2>4, <2>5 DEF RoundKept
<1>4. CASE UNCHANGED roundVars
  <2>1. UNCHANGED <<round, tick, feed, result, stage, saved, prizes, announced>>
    BY <1>4 DEF roundVars
  <2>2. Adds(round)' /\ Recorded'
    BY <2>1 DEF RoundKept, Adds, Recorded
  <2>. QED  BY <2>1, <2>2 DEF RoundKept
<1>. QED  BY <1>1, <1>2, <1>3, <1>4 DEF RoundNext

-----------------------------------------------------------------------------
(* The parts together: a behaviour takes the steps of one of them.               *)

LEMMA StepsOfParts ==
    ASSUME [ArenaNext]_arenaVars
    PROVE  /\ part' = part /\ (part # "sound" => UNCHANGED audioVars)
           /\ [RoundNext]_roundVars /\ [WeaponNext]_weaponVars /\ [ZoneStep]_zoneVars /\ [InputNext]_inputVars /\ [SceneNext]_sceneVars
           /\ [PictureNext]_pictureVars /\ [AudioNext]_audioVars /\ [DeviceNext]_deviceVars
           /\ [ScreenNext]_screenVars /\ [StreamNext]_streamVars
<1>1. CASE UNCHANGED arenaVars
  BY <1>1 DEF arenaVars
<1>2. CASE ArenaNext
  BY <1>2 DEF ArenaNext
<1>. QED  BY <1>1, <1>2

\* A round adds up, for any tanks, damage, shields and prizes, whoever dies of what in one
\* tick, leaves or is shielded while it goes on or is saved (game.service.ts,
\* matches.service.ts).
THEOREM RoundsHold == ArenaSpec => []RoundAddsUp
<1>1. ArenaInit => RoundKept
  BY RoundBegins DEF ArenaInit
<1>2. RoundKept /\ [ArenaNext]_arenaVars => RoundKept'
  BY StepsOfParts, RoundInductive
<1>3. RoundKept => RoundAddsUp
  BY RoundIsRight
<1>. QED  BY <1>1, <1>2, <1>3, PTL DEF ArenaSpec

\* A weapon whose magazine is empty reloads, or has a power-up whose shots are counted,
\* whatever is picked up, expires or is fired in between (weapon.service.ts), for
\* weapons of any magazine, cooldown and duration.
THEOREM WeaponsHold == ArenaSpec => []NeverJammed
<1>1. ArenaInit => WeaponKept
  BY WeaponBegins DEF ArenaInit
<1>2. WeaponKept /\ [ArenaNext]_arenaVars => WeaponKept'
  BY StepsOfParts, WeaponInductive
<1>3. WeaponKept => NeverJammed
  BY DEF WeaponKept
<1>. QED  BY <1>1, <1>2, <1>3, PTL DEF ArenaSpec

\* A stick, a button or a key that nothing holds has let go, for any number of fingers
\* that come down, slide off, are cancelled or outlive the menu (touch-controls.ts).
THEOREM ControlsHold == ArenaSpec => []ControlsLetGo
<1>1. ArenaInit => InputKept
  BY InputBegins DEF ArenaInit
<1>2. InputKept /\ [ArenaNext]_arenaVars => InputKept'
  BY StepsOfParts, InputInductive
<1>3. InputKept => ControlsLetGo
  BY DEF InputKept
<1>. QED  BY <1>1, <1>2, <1>3, PTL DEF ArenaSpec

\* The page shows what happens, for any players: every tank that dies explodes, the
\* camera follows somebody alive, the game fills its place and nothing stays behind
\* (game-scene.ts, game-host.component.ts).
THEOREM SceneHolds == ArenaSpec => []SceneAgrees
<1>. DEFINE Both == SceneKept /\ ScreenKept
<1>1. ArenaInit => Both
  BY SceneBegins, ScreenBegins DEF ArenaInit
<1>2. Both /\ [ArenaNext]_arenaVars => Both'
  BY StepsOfParts, SceneInductive, ScreenInductive
<1>3. Both => SceneAgrees
  BY DEF SceneKept, ScreenKept, SceneAgrees
<1>. QED  BY <1>1, <1>2, <1>3, PTL DEF ArenaSpec

\* Every sound that goes on is held or fades out, at the volume that was set last, for
\* any tanks that raise shields and any volumes, and the device sounds again when it
\* was interrupted (audio-manager.ts, audio-context.service.ts).
THEOREM SoundsHold == ArenaSpec => []SoundsAreHeard
<1>. DEFINE Audible == DeviceKept /\ IF part = "sound" THEN AudioKept ELSE SoundsAreKept
<1>1. ArenaInit => Audible
  <2>. SUFFICES ASSUME ArenaInit PROVE Audible
    OBVIOUS
  <2>1. DeviceKept
    BY DeviceBegins DEF ArenaInit
  <2>2. CASE part = "sound"
    BY <2>1, <2>2, AudioBegins DEF ArenaInit
  <2>3. CASE part # "sound"
    <3>1. audio = NoAudio("none") /\ sounds = << >>
      BY <2>3 DEF ArenaInit
    <3>2. 0 \in Loudness /\ "none" \in Tracks
      BY DEF Loudness, Tracks
    <3>3. HeldOf(NoAudio("none")) = {NoSound}
      BY <3>2, NewAudioIs
    <3>4. DOMAIN sounds = {}
      BY <3>1
    <3>. QED  BY <2>1, <2>3, <3>1, <3>3, <3>4 DEF SoundsAreKept, Held, HeldOf
  <2>. QED  BY <2>2, <2>3
<1>2. Audible /\ [ArenaNext]_arenaVars => Audible'
  <2>. SUFFICES ASSUME Audible, [ArenaNext]_arenaVars PROVE Audible'
    OBVIOUS
  <2>1. DeviceKept' /\ part' = part
    BY StepsOfParts, DeviceInductive
  <2>2. CASE part = "sound"
    BY <2>1, <2>2, StepsOfParts, AudioInductive
  <2>3. CASE part # "sound"
    <3>1. UNCHANGED audioVars
      BY <2>3, StepsOfParts
    <3>. QED  BY <2>1, <2>3, <3>1 DEF audioVars, SoundsAreKept, Held
  <2>. QED  BY <2>2, <2>3
<1>3. Audible => SoundsAreHeard
  BY AudioIsSteady DEF DeviceKept, SoundsAreHeard
<1>. QED  BY <1>1, <1>2, <1>3, PTL DEF ArenaSpec

\* What a frame draws is never older than what the frame before it drew, for any delay,
\* buffer and arrivals (snapshot-interpolator.ts).
THEOREM PicturesHold == ArenaSpec => PictureAdvances
<1>1. ArenaInit => PictureKept
  BY PictureBegins DEF ArenaInit
<1>2. PictureKept /\ [ArenaNext]_arenaVars => PictureKept'
  BY StepsOfParts, PictureInductive
<1>3. PictureKept => [DrawFrame => picture' <= picture]_pictureVars
  BY FrameIsNoOlder
<1>. QED  BY <1>1, <1>2, <1>3, PTL DEF ArenaSpec, PictureAdvances

\* The zone only closes: for a round of any number of players, a map of any size and
\* clocks of any unit, no step of time makes the circle grow or brings a phase back
\* (danger-zone.service.ts).
THEOREM ZoneHolds == ArenaSpec => ZoneOnlyCloses
<1>. DEFINE Closes == LET before == RadiusAt(zone, elapsed)
                          after  == RadiusAt(zone, elapsed')
                      IN  /\ after.num * before.den <= before.num * after.den
                          /\ Rank(PhaseAt(zone, elapsed)) <= Rank(PhaseAt(zone, elapsed'))
<1>1. ArenaInit => ZoneKept
  <2>. SUFFICES ASSUME ArenaInit PROVE ZoneKept
    OBVIOUS
  <2>1. elapsed = 0 /\ \E n \in Nat, far \in Nat : zone = Scaled(Created(n, far))
    <3>1. CASE part = "zone"
      BY <3>1, ZoneAssumption DEF ArenaInit, ZoneInit
    <3>2. CASE part # "zone"
      <4>1. elapsed = 0 /\ zone = Scaled(Created(4, 0))
        BY <3>2 DEF ArenaInit
      <4>. QED  BY <4>1
    <3>. QED  BY <3>1, <3>2
  <2>. QED  BY <2>1, ZoneIsOrdered DEF ZoneKept
<1>2. ZoneKept /\ [ArenaNext]_arenaVars => ZoneKept'
  BY StepsOfParts, ZoneInductive
<1>3. ZoneKept /\ [ArenaNext]_arenaVars => [Closes]_zoneVars
  <2>. SUFFICES ASSUME ZoneKept, [ArenaNext]_arenaVars, ~ UNCHANGED zoneVars PROVE Closes
    BY DEF zoneVars
  <2>1. ZoneStep
    BY StepsOfParts
  <2>2. elapsed \in Nat /\ elapsed' \in Nat /\ elapsed <= elapsed' /\ Ordered(zone)
    BY <2>1, ZoneInductive DEF ZoneKept
  <2>3. Rank(PhaseAt(zone, elapsed)) <= Rank(PhaseAt(zone, elapsed'))
    BY <2>2, StageIs, StageRises
  <2>. QED  BY <2>2, <2>3, CircleCloses
<1>. QED  BY <1>1, <1>2, <1>3, PTL DEF ArenaSpec, ZoneOnlyCloses

\* A client that is connected and has received all there is holds the obstacles of the
\* server, and the end of every shot is shown once, for any map, shots and rates of the
\* snapshots, whatever is told between two of them and whoever joins, takes a seat or is
\* cut off in between (game-loop.service.ts, game-scene.ts, state-change-tracker.ts).
THEOREM StreamHolds == ArenaSpec => []ClientAgrees
<1>1. ArenaInit => StreamKept
  BY StreamBegins DEF ArenaInit
<1>2. StreamKept /\ [ArenaNext]_arenaVars => StreamKept'
  BY StepsOfParts, StreamKeeps
<1>3. StreamKept => ClientAgrees
  BY StreamIsRight
<1>. QED  BY <1>1, <1>2, <1>3, PTL DEF ArenaSpec
=============================================================================
