-------------------------------- MODULE Zone --------------------------------
(***************************************************************************)
(* What depends on the number of players of a round: the danger zone of    *)
(* danger-zone.service.ts, the prizes of rewards.config.ts, the map and    *)
(* the number of power-ups.  Times are in milliseconds; a radius between   *)
(* two whole ones is the fraction [num, den].                              *)
(***************************************************************************)
EXTENDS Integers

\* tierForPlayerCount: the number of spawn points of the map a round gets.
Tier(n) == IF n <= 4 THEN 4 ELSE IF n <= 8 THEN 8 ELSE 16

\* maxActiveForPlayerCount.
MaxPowerUps(n) ==
    LET limit == [t \in {4, 8, 16} |-> IF t = 4 THEN 3 ELSE IF t = 8 THEN 4 ELSE 8]
    IN  limit[Tier(n)]

\* DANGER_ZONE_CONFIGS_BY_PLAYER_TIER.
ConfigFor(n) ==
    LET config == [t \in {4, 8, 16} |->
        CASE t = 4 -> [warning |-> 90000, damage |-> 120000, target |-> 240000,
                       hold |-> 40000, shrink |-> 30000,
                       initial |-> 900, final |-> 220, sudden |-> 40]
          [] t = 8 -> [warning |-> 100000, damage |-> 130000, target |-> 300000,
                       hold |-> 45000, shrink |-> 35000,
                       initial |-> 1000, final |-> 250, sudden |-> 50]
          [] OTHER -> [warning |-> 120000, damage |-> 150000, target |-> 420000,
                       hold |-> 50000, shrink |-> 45000,
                       initial |-> 1150, final |-> 300, sudden |-> 60]]
    IN  config[Tier(n)]

\* createRuntimeState: the first circle covers the map from wherever its centre
\* was drawn; `covering` is the distance to the farthest corner, rounded up.
Created(n, covering) ==
    [ConfigFor(n) EXCEPT !.initial = IF @ >= covering + 10 THEN @ ELSE covering + 10]

PhaseAt(zone, elapsed) ==
    CASE elapsed < zone.warning               -> "inactive"
      [] zone.warning <= elapsed /\ elapsed < zone.damage -> "warning"
      [] elapsed >= zone.target + zone.hold   -> "sudden_death"
      [] zone.target <= elapsed /\ elapsed < zone.target + zone.hold -> "final"
      [] OTHER                                -> "active"

Damaging(zone, elapsed) == PhaseAt(zone, elapsed) \notin {"inactive", "warning"}

\* part/whole of the way from one radius to another.
Between(from, to, part, whole) ==
    [num |-> from * whole + (to - from) * (IF part < whole THEN part ELSE whole), den |-> whole]

AtLeastOne(d) == IF d >= 1 THEN d ELSE 1

\* Mutant: the sudden death shrinks from the first circle.
RadiusAtMutant(zone, elapsed) ==
    CASE elapsed < zone.damage -> Between(zone.initial, zone.initial, 0, 1)
      [] elapsed >= zone.target + zone.hold ->
            Between(zone.initial, zone.sudden, elapsed - zone.target - zone.hold, AtLeastOne(zone.shrink))
      [] zone.target <= elapsed /\ elapsed < zone.target + zone.hold ->
            Between(zone.final, zone.final, 0, 1)
      [] OTHER -> Between(zone.initial, zone.final, elapsed - zone.damage,
                          AtLeastOne(zone.target - zone.damage))

RadiusAt(zone, elapsed) ==
    CASE elapsed < zone.damage -> Between(zone.initial, zone.initial, 0, 1)
      [] elapsed >= zone.target + zone.hold ->
            Between(zone.final, zone.sudden, elapsed - zone.target - zone.hold, AtLeastOne(zone.shrink))
      [] zone.target <= elapsed /\ elapsed < zone.target + zone.hold ->
            Between(zone.final, zone.final, 0, 1)
      [] OTHER -> Between(zone.initial, zone.final, elapsed - zone.damage,
                          AtLeastOne(zone.target - zone.damage))

\* isOutside, `far` being a player's distance from the centre.
Beyond(far, radius) == far * radius.den > radius.num

-----------------------------------------------------------------------------
(* rewardPrizesForPlayerCount: the prize of each rewarded placement. *)

Clamped(n) == IF n < 0 THEN 0 ELSE IF n > 16 THEN 16 ELSE n

PrizesFor(players) ==
    LET n == Clamped(players)
    IN  CASE n = 4             -> <<400>>
          [] 5 <= n /\ n <= 8  -> <<400 + 75 * (n - 4), 50 * (n - 4)>>
          [] 9 <= n /\ n <= 16 -> <<700 + 50 * (n - 8), 200 + 35 * (n - 8), 50 + 25 * (n - 8)>>
          [] OTHER             -> << >>
=============================================================================
