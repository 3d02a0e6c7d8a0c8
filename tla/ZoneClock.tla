----------------------------- MODULE ZoneClock -----------------------------
(***************************************************************************)
(* The danger zone of a round as time passes (danger-zone.service.ts): the *)
(* loop, the snapshots and the damage all ask for its phase and radius at  *)
(* their own moment.  Time runs in whole units of ZoneUnit milliseconds,   *)
(* which divides every time of the configuration.                          *)
(***************************************************************************)
EXTENDS Zone

CONSTANTS
    RoundSizes, \* numbers of players
    Coverings,  \* distances from the centre to the farthest corner of the map
    ZoneUnit, ZoneSteps

ASSUME ZoneAssumption ==
    /\ RoundSizes \subseteq Nat /\ Coverings \subseteq Nat
    /\ ZoneUnit \in Nat \ {0} /\ ZoneSteps \in Nat

VARIABLES zone, \* the DangerZoneRuntimeState
          elapsed

zoneVars == <<zone, elapsed>>

Scaled(z) == [z EXCEPT !.warning = @ \div ZoneUnit, !.damage = @ \div ZoneUnit,
                       !.target = @ \div ZoneUnit, !.hold = @ \div ZoneUnit,
                       !.shrink = @ \div ZoneUnit]

ZoneInit ==
    /\ \E n \in RoundSizes, far \in Coverings : zone = Scaled(Created(n, far))
    /\ elapsed = 0

ZoneStep ==
    /\ elapsed' \in (elapsed + 1)..ZoneSteps /\ UNCHANGED zone

ZoneSpec == ZoneInit /\ [][ZoneStep]_zoneVars
-----------------------------------------------------------------------------
Phases == <<"inactive", "warning", "active", "final", "sudden_death">>
Rank(phase) == CHOOSE i \in DOMAIN Phases : Phases[i] = phase

\* The zone only closes: across the boundaries of its phases, where two formulas
\* meet, the circle never grows again, and no phase comes back.
ZoneOnlyCloses ==
    [][LET before == RadiusAt(zone, elapsed)
           after  == RadiusAt(zone, elapsed')
       IN  /\ after.num * before.den <= before.num * after.den
           /\ Rank(PhaseAt(zone, elapsed)) <= Rank(PhaseAt(zone, elapsed'))]_zoneVars
=============================================================================
