------------------------------- MODULE Weapon -------------------------------
(***************************************************************************)
(* The weapon of one tank: weapon.service.ts.  A tick of the loop lets the *)
(* tank shoot, a player's input may reload, a pick-up changes the power,   *)
(* and building the public state settles what the clock has changed.       *)
(* Modifiers are left out: nothing ever adds one.  Times are in steps of   *)
(* the instance, which keeps the order of the real durations.              *)
(***************************************************************************)
EXTENDS Integers

CONSTANTS
    Stats,     \* per power: magazine, cooldown, reload, active, pattern
    Duration,  \* per power: durationMs, 0 for none
    LaserShots,
    MaxNow     \* bound

Powers == DOMAIN Stats

ASSUME WeaponAssumption ==
    /\ {"standard", "laser"} \subseteq Powers /\ LaserShots \in Nat \ {0}
    /\ \A p \in Powers : Stats[p].magazine \in Nat \ {0} /\ Stats[p].reload \in Nat
                      /\ Stats[p].cooldown \in Nat /\ Stats[p].active \in Nat \ {0}
                      /\ Stats[p].pattern \in Nat \ {0} /\ Duration[p] \in Nat
    \* LASER_CONFIG.stats: its magazine is its shots, one of which is in flight at a time.
    /\ Stats["laser"].magazine = LaserShots /\ Stats["laser"].active = 1

VARIABLES
    power,   \* activePowerUp: type ("standard" for none), expiresAt, shots
    weapon,  \* ammo, lastFiredAt, reloadsAt, triggerHeld
    shells, beams, \* the tank's shots in flight
    clock

weaponVars == <<power, weapon, shells, beams, clock>>

NoPower == [type |-> "standard", expiresAt |-> 0, shots |-> 0]

WeaponInit ==
    /\ power = NoPower /\ shells = 0 /\ beams = 0 /\ clock = 10
    /\ weapon = [ammo |-> Stats["standard"].magazine, lastFiredAt |-> 0,
                 reloadsAt |-> 0, triggerHeld |-> FALSE]

-----------------------------------------------------------------------------
\* clearExpiredPowerUp.
Unexpired(p, now) == IF p.expiresAt # 0 /\ p.expiresAt <= now THEN NoPower ELSE p

\* getPowerAdjustedStats; and how many shots one shot makes.
PowerAdjustedStats(p) == Stats[p.type]
ShotPattern(p)        == PowerAdjustedStats(p).pattern

\* finishReloadIfReady.
Reloaded(w, stats, now) ==
    IF w.reloadsAt # 0 /\ w.reloadsAt <= now
    THEN [w EXCEPT !.reloadsAt = 0, !.ammo = stats.magazine] ELSE w

StartReload(w, stats, now) ==
    IF w.reloadsAt > now THEN w ELSE [w EXCEPT !.reloadsAt = now + stats.reload]

\* Fired with what is left; the last shot starts a reload.
Fired(w, stats, now) ==
    LET shot == [w EXCEPT !.ammo = @ - 1, !.lastFiredAt = now]
    IN  IF shot.ammo = 0 THEN StartReload(shot, stats, now) ELSE shot

\* tryShootLaser.
ShootLaser(hold, now) ==
    LET fires == /\ hold /\ ~weapon.triggerHeld /\ power.shots > 0
                 /\ now - weapon.lastFiredAt >= Stats["laser"].cooldown
                 /\ shells + beams < Stats["laser"].active
        left  == power.shots - 1
    IN  /\ weapon' = IF fires
                     THEN [weapon EXCEPT !.triggerHeld = hold, !.lastFiredAt = now,
                            !.ammo = IF left = 0 THEN Stats["standard"].magazine ELSE left]
                     ELSE [weapon EXCEPT !.triggerHeld = hold]
        /\ beams' = IF fires THEN beams + 1 ELSE beams
        /\ power' = IF fires /\ left > 0 THEN [power EXCEPT !.shots = left]
                    ELSE IF fires \/ (hold /\ ~weapon.triggerHeld /\ power.shots <= 0)
                    THEN NoPower ELSE power
        /\ UNCHANGED shells

\* The rest of tryShoot, with the power that has not expired.
ShootShell(p, hold, now) ==
    LET stats == PowerAdjustedStats(p)
        ready == Reloaded(weapon, stats, now)
        may   == /\ hold /\ ready.reloadsAt <= now
                 /\ now - ready.lastFiredAt >= stats.cooldown
                 /\ shells + beams < stats.active
        fires == may /\ ready.ammo > 0 /\ shells + beams + ShotPattern(p) <= stats.active
    IN  /\ IF beams > 0 THEN UNCHANGED <<weapon, shells>>
           ELSE /\ weapon' = CASE fires -> Fired(ready, stats, now)
                               [] may /\ ready.ammo <= 0 -> StartReload(ready, stats, now)
                               [] OTHER -> ready
                /\ shells' = IF fires THEN shells + ShotPattern(p) ELSE shells
        /\ power' = p /\ UNCHANGED beams

\* processPlayers calls tryShoot with the trigger as the last input left it.
Shoot(hold) ==
    /\ IF Unexpired(power, clock).type = "laser" THEN ShootLaser(hold, clock)
       ELSE ShootShell(Unexpired(power, clock), hold, clock)
    /\ UNCHANGED clock

\* processBullets drops shots that hit, fade or leave the map.
ShotsEnd ==
    /\ shells + beams > 0
    /\ \E s \in 0..shells, b \in 0..beams : shells' = s /\ beams' = b
    /\ UNCHANGED <<power, weapon, clock>>

\* Mutant: the magazine is not filled.
ApplyPowerUpMutant(type) ==
    /\ power' = [type |-> type, shots |-> IF type = "laser" THEN LaserShots ELSE 0,
                 expiresAt |-> IF Duration[type] # 0 THEN clock + Duration[type] ELSE 0]
    /\ weapon' = [weapon EXCEPT !.reloadsAt = 0]
    /\ UNCHANGED <<shells, beams, clock>>

ApplyPowerUp(type) ==
    /\ power' = [type |-> type, shots |-> IF type = "laser" THEN LaserShots ELSE 0,
                 expiresAt |-> IF Duration[type] # 0 THEN clock + Duration[type] ELSE 0]
    /\ weapon' = [weapon EXCEPT !.reloadsAt = 0, !.ammo = Stats[type].magazine]
    /\ UNCHANGED <<shells, beams, clock>>

\* tryManualReload: with a power that may have expired, but was not cleared yet.
ManualReload ==
    /\ power.type # "laser" /\ weapon.reloadsAt <= clock
    /\ weapon.ammo < PowerAdjustedStats(power).magazine
    /\ weapon' = StartReload(weapon, PowerAdjustedStats(power), clock)
    /\ UNCHANGED <<power, shells, beams, clock>>

\* getPublicState, for every snapshot that is built.
PublicState ==
    /\ power' = Unexpired(power, clock)
    /\ weapon' = Reloaded(weapon, PowerAdjustedStats(power'), clock)
    /\ UNCHANGED <<shells, beams, clock>>

PassTime ==
    /\ clock < MaxNow /\ clock' = clock + 1
    /\ UNCHANGED <<power, weapon, shells, beams>>

WeaponNext ==
    \/ \E hold \in BOOLEAN : Shoot(hold)
    \/ \E type \in Powers \ {"standard"} : ApplyPowerUp(type)
    \/ ShotsEnd \/ ManualReload \/ PublicState \/ PassTime

WeaponSpec == WeaponInit /\ [][WeaponNext]_weaponVars
-----------------------------------------------------------------------------
\* Whatever power-ups come and go while shots fly and a reload runs: a beam is its
\* owner's only shot, and a weapon without ammunition is reloading, so that it can
\* shoot again.
NeverJammed ==
    /\ beams <= 1 /\ (beams = 1 => shells = 0)
    /\ weapon.ammo >= 0 /\ (weapon.ammo = 0 => weapon.reloadsAt # 0)
    /\ power.type = "laser" => power.shots > 0 /\ weapon.ammo = power.shots
=============================================================================
