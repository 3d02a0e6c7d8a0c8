------------------------------- MODULE Round -------------------------------
(***************************************************************************)
(* A round of tanks: game-loop.service.ts runs it tick by tick on the      *)
(* rules of game.service.ts, and matches.service.ts saves its result while *)
(* it goes on being simulated.                                             *)
(*                                                                         *)
(* A tick is one action: nothing in it awaits.  Geometry decides who is    *)
(* hit, who bounces a shot and who is outside the danger zone, so these    *)
(* are choices of the tick; what follows from them is not.  The round      *)
(* object (GameRuntimeState) is a record that the operators below take and *)
(* return.  Tanks are numbered in the order in which Maps iterate them.    *)
(* Health in parts (a fraction of a point accrued per tick) is carried as  *)
(* in the code.  Left out: names, colours, cosmetics, and which weapon a   *)
(* tank may fire when (module Weapon).                                     *)
(***************************************************************************)
EXTENDS Zone, Turns, SequencesExt, FiniteSets

CONSTANTS
    Tanks,
    MaxHp, ShieldHp, ShieldTime, ShieldCooldown,
    RegenDelay, RegenParts, ZoneParts, Parts, \* per tick, in 1/Parts of a point
    Window,                  \* KILL_ATTRIBUTION_WINDOW_MS, in ticks
    Damage, Loadout,         \* what a kind of shot may do; the kind each tank fires
    Schedule,                \* rewardPrizesForPlayerCount(rewardPlayerCount)
    RoundZone, MapReach,     \* the zone's times in ticks; the reach of the map
    MaxShots, MaxTicks, Leavers, Shielders, \* bounds; who leaves, who uses the shield
    NoTank

ASSUME RoundAssumption ==
    /\ IsFiniteSet(Tanks) /\ Cardinality(Tanks) > 1 /\ Tanks = 1..Cardinality(Tanks)
    /\ NoTank \notin Tanks /\ MaxHp \in Nat \ {0} /\ Parts \in Nat \ {0}
    /\ ShieldHp \in Nat /\ ShieldTime \in Nat /\ ShieldCooldown \in Nat
    /\ RegenParts \in Nat /\ ZoneParts \in Nat /\ Schedule \in Seq(Nat)
    /\ Damage \in [DOMAIN Damage -> SUBSET Nat] /\ Loadout \in [Tanks -> DOMAIN Damage]

VARIABLES
    round,    \* the GameRuntimeState
    tick,     \* time, in ticks since the start
    shots,    \* fired so far (bounded)
    feed,     \* PLAYER_ELIMINATED events published
    result,   \* what persist has computed
    stage,    \* of onFinished: awaiting persist, then rooms.finish
    saved,    \* the MatchPlayer rows
    prizes,   \* the reward candidates registered
    announced \* GAME.ENDED

roundVars == <<round, tick, shots, feed, result, stage, saved, prizes, announced>>

Min2(a, b) == IF a < b THEN a ELSE b

Everyone   == Numbered(Cardinality(Tanks))
NoHit      == [by |-> NoTank, at |-> 0]
NoResult   == [winner |-> NoTank, place |-> << >>]

\* prepare and start.
RoundInit ==
    LET zero == [p \in Tanks |-> 0]
    IN  /\ round = [players |-> Tanks, alive |-> Tanks, status |-> "playing",
                    hp |-> [p \in Tanks |-> MaxHp], shield |-> zero, shieldUntil |-> zero,
                    lastShield |-> [p \in Tanks |-> -ShieldCooldown],
                    lastCombat |-> zero, regen |-> zero, burn |-> zero,
                    taken |-> 0, dealt |-> 0, kills |-> zero, deaths |-> zero,
                    recent |-> [p \in Tanks |-> NoHit],
                    bullets |-> << >>, order |-> << >>, events |-> << >>]
        /\ tick = 0 /\ shots = 0 /\ feed = << >> /\ result = NoResult /\ stage = "running"
        /\ saved = NoResult /\ prizes = << >> /\ announced = <<>>

-----------------------------------------------------------------------------
(* game.service.ts and elimination.service.ts. *)

MarkCombat(g, S, now) ==
    [g EXCEPT !.lastCombat = [p \in Tanks |-> IF p \in S THEN now ELSE @[p]],
              !.regen = [p \in Tanks |-> IF p \in S THEN 0 ELSE @[p]]]

\* recordElimination, with the part of applyHpDamage that follows a death.
Eliminate(g, p, by, now) ==
    LET direct   == IF by = p THEN NoTank ELSE by
        recent   == IF now - g.recent[p].at <= Window THEN g.recent[p].by ELSE NoTank
        credited == IF direct # NoTank THEN direct ELSE recent
        event    == [victim |-> p, credited |-> credited, lethal |-> by,
                     attribution |-> CASE direct # NoTank -> "direct"
                                       [] direct = NoTank /\ recent # NoTank -> "recent_damage"
                                       [] direct = NoTank /\ recent = NoTank /\ by = p -> "self"
                                       [] OTHER -> "environment"]
    IN  [g EXCEPT !.alive = @ \ {p}, !.deaths[p] = @ + 1,
                  !.kills = [k \in Tanks |-> IF k = credited THEN @[k] + 1 ELSE @[k]],
                  !.recent[p] = NoHit, !.events = Append(@, event),
                  !.order = Append(@, p)]

\* taken and dealt stand for the sums of damageTaken and damageDealt over the tanks.
ApplyHpDamage(g, p, amount, by, now) ==
    LET applied == Min2(g.hp[p], amount)
        other   == by \notin {NoTank, p}
        hurt    == [g EXCEPT
            !.hp[p] = @ - applied, !.taken = @ + applied,
            !.dealt = IF other THEN @ + applied ELSE @,
            !.recent[p] = IF other THEN [by |-> by, at |-> now] ELSE @]
    IN  IF hurt.hp[p] = 0 THEN Eliminate(hurt, p, by, now) ELSE hurt

DamagePlayer(g, p, amount, by, now) ==
    IF p \notin g.alive THEN g
    ELSE LET fought   == MarkCombat(g, {p} \cup ({by} \cap g.alive), now)
             absorbed == IF now < g.shieldUntil[p] THEN Min2(g.shield[p], amount) ELSE 0
             shielded == [fought EXCEPT !.shield[p] = @ - absorbed]
         IN  IF absorbed = amount THEN shielded
             ELSE ApplyHpDamage(shielded, p, amount - absorbed, by, now)

DamagePlayerDirect(g, p, amount, now) ==
    IF p \notin g.alive \/ amount = 0 THEN g
    ELSE ApplyHpDamage(MarkCombat(g, {p}, now), p, amount, NoTank, now)

Regenerated(g, p, now) ==
    LET carried == g.regen[p] + RegenParts
        healed  == Min2(MaxHp, g.hp[p] + carried \div Parts)
    IN  IF p \notin g.alive \/ g.hp[p] = MaxHp \/ now - g.lastCombat[p] < RegenDelay
        THEN [g EXCEPT !.regen[p] = 0]
        ELSE [g EXCEPT !.hp[p] = healed,
                       !.regen[p] = IF healed = MaxHp THEN 0 ELSE carried % Parts]

Shielded(g, p, now) ==
    [g EXCEPT !.shieldUntil[p] = now + ShieldTime, !.lastShield[p] = now + ShieldTime,
              !.shield[p] = ShieldHp]

Removed(g, p) ==
    [g EXCEPT !.players = @ \ {p}, !.alive = @ \ {p}, !.recent[p] = NoHit]

-----------------------------------------------------------------------------
(* The tick. *)

Elapsed == tick + 1

\* processDangerZone, for the players whom the choice `out` puts outside.
Burnt(g, out, now) ==
    LET burn(h, p) ==
            IF p \notin h.alive THEN h
            ELSE IF p \notin out THEN [h EXCEPT !.burn[p] = 0]
            ELSE LET carried == h.burn[p] + ZoneParts
                 IN  DamagePlayerDirect([h EXCEPT !.burn[p] = carried % Parts],
                                        p, carried \div Parts, now)
    IN  InTurn(burn, g, Everyone)

\* A living tank is outside only while the circle does not cover the map.
MayBeOutside(g, now) ==
    IF Damaging(RoundZone, now) /\ Beyond(MapReach, RadiusAt(RoundZone, now))
    THEN SUBSET g.players ELSE {{}}

\* What a tick may make of a shot: a beam lasts while its owner does and hurts
\* whom it crosses, its owner only after a mirror; a grenade hurts whom its
\* explosion reaches; another bullet hurts one tank, its owner only after a
\* mirror (canBulletHitPlayer).
Outcomes(g, b) ==
    CASE b.kind = "laser" ->
            {[bounced |-> FALSE, hits |-> S, over |-> FALSE] :
                S \in IF b.owner \in g.alive THEN SUBSET g.alive ELSE {}}
            \cup {[bounced |-> FALSE, hits |-> {}, over |-> TRUE]}
      [] b.kind = "grenade" ->
            {[bounced |-> FALSE, hits |-> S, over |-> TRUE] : S \in SUBSET g.alive}
            \cup {[bounced |-> FALSE, hits |-> {}, over |-> FALSE]}
      [] OTHER -> UNION {
            {[bounced |-> m, hits |-> {}, over |-> o] : o \in BOOLEAN}
            \cup {[bounced |-> m, hits |-> {p}, over |-> TRUE] :
                     p \in g.alive \ (IF m THEN {} ELSE {b.owner})} : m \in {TRUE, b.bounced}}

Struck(g, b, o, amount, now) ==
    LET hit(h, p) == IF p \in o.hits THEN DamagePlayer(h, p, amount, b.owner, now) ELSE h
        after     == InTurn(hit, g, Everyone)
    IN  IF o.over THEN after
        ELSE [after EXCEPT !.bullets = Append(@,
                [b EXCEPT !.bounced = o.bounced])]

\* What a shot may make of each state of S.
StatesAfter(S, b, now) ==
    UNION {{Struck(h, b, o, a, now) : o \in Outcomes(h, b), a \in Damage[b.kind]} : h \in S}

\* processBullets: every state the shots of g, in turn, may lead to.
AfterBullets(g, now) ==
    LET step(S, b) == StatesAfter(S, b, now)
    IN  InTurn(step, {[g EXCEPT !.bullets = << >>]}, g.bullets)

\* processHealthRegeneration.
Healed(g, out, now) ==
    LET heal(h, p) == IF p \notin h.players THEN h
                      ELSE IF p \in out THEN [h EXCEPT !.regen[p] = 0] ELSE Regenerated(h, p, now)
    IN  InTurn(heal, g, Everyone)

-----------------------------------------------------------------------------
(* matches.service.ts. *)

Placement(g, winner) ==
    LET first == IF winner = NoTank THEN 0 ELSE 1
        last  == Reverse(g.order)
    IN  [p \in g.players |-> IF p = winner THEN 1
            ELSE first + CHOOSE i \in 1..Len(last) : last[i] = p]

SoleSurvivor(g) ==
    IF Cardinality(g.alive) = 1 THEN CHOOSE p \in g.alive : TRUE ELSE NoTank

\* persist up to its await: all it saves is what it has computed here.
ResultOf(g) ==
    LET winner == SoleSurvivor(g)
    IN  [winner |-> winner, place |-> Placement(g, winner)]

\* The candidates among the players saved: Schedule is that of the players at the start.
Candidates(place) ==
    LET given(cs, i) ==
            LET found == {p \in DOMAIN place : place[p] = i}
            IN  IF found = {} THEN cs
                ELSE Append(cs, [player |-> CHOOSE p \in found : TRUE, amount |-> Schedule[i]])
    IN  InTurn(given, << >>, Numbered(Len(Schedule)))

-----------------------------------------------------------------------------
(* Actions. *)

\* checkWinCondition ends a round once; the round goes on being simulated.
Tick ==
    /\ tick < MaxTicks /\ stage # "announced"
    /\ \E shooters \in SUBSET round.alive, out \in MayBeOutside(round, Elapsed) :
        /\ Cardinality(shooters) <= 1 /\ shots' = shots + Cardinality(shooters) /\ shots' <= MaxShots
        /\ LET fired == [round EXCEPT !.bullets = @ \o [i \in 1..Cardinality(shooters) |->
                    LET p == CHOOSE q \in shooters : TRUE
                    IN  [owner |-> p, kind |-> Loadout[p], bounced |-> FALSE]]]
           IN \E shot \in AfterBullets(Burnt(fired, out, Elapsed), Elapsed) :
                LET g    == Healed(shot, out, Elapsed)
                    over == g.status = "playing" /\ Cardinality(g.alive) <= 1
                    h    == [g EXCEPT !.events = << >>,
                                      !.status = IF over THEN "finished" ELSE @]
                IN  /\ round' = h /\ feed' = feed \o g.events
                    /\ result' = IF over THEN ResultOf(h) ELSE result
                    /\ stage' = IF over THEN "saving" ELSE stage
    /\ tick' = tick + 1
    /\ UNCHANGED <<saved, prizes, announced>>

\* applyInput with the shield's button (tryShield).
RaiseShield(p) ==
    /\ stage # "announced" /\ p \in round.alive \cap Shielders
    /\ tick >= round.shieldUntil[p] /\ tick - round.lastShield[p] >= ShieldCooldown
    /\ round' = Shielded(round, p, tick)
    /\ UNCHANGED <<tick, shots, feed, result, stage, saved, prizes, announced>>

\* leave calls removePlayer.
LeaveRound(p) ==
    /\ stage # "announced" /\ p \in round.players \cap Leavers
    /\ round' = Removed(round, p)
    /\ UNCHANGED <<tick, shots, feed, result, stage, saved, prizes, announced>>

\* Mutant: the result is computed when the transaction ends.
PersistMutant ==
    /\ stage = "saving"
    /\ saved' = ResultOf(round) /\ prizes' = Candidates(saved'.place)
    /\ stage' = "saved"
    /\ UNCHANGED <<round, tick, shots, feed, result, announced>>

\* The transaction of persistCompleted commits, and the rewards are registered.
Persist ==
    /\ stage = "saving"
    /\ saved' = result /\ prizes' = Candidates(result.place)
    /\ stage' = "saved"
    /\ UNCHANGED <<round, tick, shots, feed, result, announced>>

\* It is rolled back: onFinished logs the error and goes on to rooms.finish.
PersistFails ==
    /\ stage = "saving" /\ stage' = "unsaved"
    /\ UNCHANGED <<round, tick, shots, feed, result, saved, prizes, announced>>

\* rooms.finish announces the winner it was given by the tick; the five seconds
\* of simulation that follow are left out.
Finish ==
    /\ stage \in {"saved", "unsaved"} /\ stage' = "announced"
    /\ announced' = <<result.winner>>
    /\ UNCHANGED <<round, tick, shots, feed, result, saved, prizes>>

RoundNext ==
    \/ Tick \/ Persist \/ PersistFails \/ Finish
    \/ \E p \in Tanks : RaiseShield(p) \/ LeaveRound(p)

RoundSpec == RoundInit /\ [][RoundNext]_roundVars
-----------------------------------------------------------------------------
(* Properties. *)

Total(f) == LET plus(a, p) == a + f[p] IN InTurn(plus, 0, Everyone)

\* The statistics of a round add up, whoever died of what in one tick, left or
\* was shielded: no damage or kill is credited that nobody suffered, a tank dies
\* once, and it is announced, placed and credited to at most one other tank.
StatsAddUp ==
    /\ round.dealt <= round.taken
    /\ Total(round.kills) = Cardinality({i \in DOMAIN feed : feed[i].credited # NoTank})
    /\ [i \in DOMAIN feed |-> feed[i].victim] = round.order
    /\ \A p \in Tanks : round.deaths[p] = Cardinality({i \in DOMAIN round.order : round.order[i] = p})
                     /\ round.deaths[p] <= 1
    /\ \A p \in round.players : p \in round.alive <=> round.hp[p] > 0
    /\ \A i \in DOMAIN feed : feed[i].credited # feed[i].victim

\* What was saved is a ranking of the round that was announced, although tanks go
\* on dying and leaving while it is saved: one player per place, the survivor
\* first, a tank that died later before one that died earlier, no two prizes for
\* one player.
RankingHolds ==
    stage \in {"saved", "announced"} /\ saved # NoResult =>
        /\ \A p, q \in DOMAIN saved.place : saved.place[p] = saved.place[q] => p = q
        /\ saved.winner # NoTank => saved.place[saved.winner] = 1
        /\ \A i, j \in DOMAIN round.order :
              {round.order[i], round.order[j]} \subseteq DOMAIN saved.place /\ i < j
              /\ saved.winner \notin {round.order[i], round.order[j]}
                => saved.place[round.order[j]] < saved.place[round.order[i]]
        /\ \A i, j \in DOMAIN prizes : prizes[i].player = prizes[j].player => i = j
        /\ announced # <<>> => announced = <<saved.winner>>

\* A round adds up, while it goes on and in what is saved of it: both of the above.
RoundAddsUp == StatsAddUp /\ RankingHolds
=============================================================================
