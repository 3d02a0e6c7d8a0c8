# A TLA+ model of Tank Arena

Tank Arena is a multiplayer tank game: a NestJS backend (`src/backend/src`) that
matches players into rooms, simulates rounds at 60 Hz, stores results and pays
token rewards, and an Angular/Phaser client (`src/frontend/src/app`).  This
directory holds TLA+ modules that model both, TLC runs that check them on small
instances, and proofs that TLAPS checks for all instances.  Paths below are
relative to `src/backend/src`, or to `src/frontend/src/app` where they begin with
`app/`.

## 1. The system

| Component | State it keeps | Operations | Interacts with | Modules |
|---|---|---|---|---|
| Rooms (`rooms/rooms.service.ts`) | rooms, `userRoom`, names, timers, calls suspended at an `await` | quickPlay, createPrivate, joinPrivate, leave, disconnect, reconnect, startNow, startGame, finish, reset, expiry | gateway, loop, Redis, runtime activity | `Rooms` |
| Gateway, rate limiter, watchers (`games/tanks/game.gateway.ts`, `socket-rate-limiter.service.ts`, `events/watcher-presence.service.ts`) | sockets, connections per address, subscriptions, rooms of watchers | one handler per message, connection middleware | rooms, loop, client | `Rooms`, `Lobby`, `Watchers`, `Dashboard` |
| Game loop and combat (`games/tanks/game-loop.service.ts`, `game.service.ts`, `events/elimination.service.ts`) | a session per room | start, tick, removePlayer, finish | rooms, matches | `Round` |
| Weapons, collisions, zone, power-ups (`games/tanks/`) | a part of the session each | called by the tick | loop | `Weapon`, `Geometry`, `Zone`, `ZoneClock`, `PowerUpSpawns` |
| Matches and their history (`matches/`, `rewards/rewards-history.service.ts`, `app/pages/matches/`) | the `persisted` flag, `Match` rows, lists | persist, pages by cursor | loop, rewards | `Round`, `History` |
| Rewards (`rewards/`, `solana/`) | `RewardLog`, `DailyRewardLimit`, the chain | register, evaluate, claim, pay, reconcile, retry by hand | matches, scheduler, Solana | `Payout`, `Rewards` |
| Reward scheduler (`rewards/reward-processor.scheduler.ts`) | two timers, `running`, the signal file | requestProcessing, tick | processor, runtime activity | `Scheduler` |
| Sessions (`auth/tokens.service.ts`, `app/core/auth/`, `app/core/realtime/socket.ts`) | Redis sessions, the cookie, tabs, one shared renewal each | issue, rotate, revoke, retry, reconnect | gateway | `Sessions` |
| Users, identities, wallets (`users/`, `auth/`) | users, accounts, wallets, challenges | sign in, link, rename | rewards | `Accounts` |
| Runtime telemetry (`runtime/`, `app/pages/admin/stats/`) | samples, files, rows, subscriptions | sample, checkpoint, flush, broadcast | end of a match | `Telemetry`, `Dashboard` |
| Snapshots and the scene (`app/game/scenes/`, `app/game/state/`, `app/game/spectator/`) | buffer of snapshots, what was drawn, the camera | onState, frame, end of the round | loop | `Stream`, `Picture`, `Scene` |
| Input (`app/game/input/`) | fingers, keys, the menu | pointer and key handlers | loop | `Controls` |
| Audio and settings (`app/game/audio/`, `app/game/config/`) | sounds, fades, the audio device, settings | play, fade, apply, recover | | `Audio`, `Device` |
| Page of a round (`app/pages/game/`, `app/shared/utilities/`) | size, full screen, orientation | open, resize, leave | scene | `Screen` |
| Lobby (`app/pages/lobby/`, `app/features/matchmaking/`) | the room that is shown, requests under way | quick play, dialogs, leave | gateway | `Lobby` |
| Tank customization (`tank-customization/`, `app/features/tank-customization/`) | colours, the editor, the browser's history | read and repair, patch, edit, close | | `Paint` |
| Map editor (`app/pages/map-editor/`) | document, selection, history, drag | place, drag, delete, undo, import | | `Editor` |
| Tutorial (`app/game/tutorial/`, `app/pages/tutorial/`) | the exercise, the page, the user's status | frame, finish, skip, repeat | users | `Tutorial` |

What makes them hard: Node interleaves handlers at every `await`; sockets close
and return at any time; timers of earlier events fire after the state they were
armed for is gone; Redis, the database and the chain fail between two steps; in
the browser, frames, messages, timers, answers and events of the device come in
any order, also after the page they were for was left.  `PROJECT.json` lists these
hazards at their lines with the properties for them.

## 2. Modules

| Modules | What they are |
|---|---|
| `Rooms`, `MCRooms` | the rooms service and its instances |
| `RoomsProofs`, `RoomsSafetyProofs`, `RoomsRoundsProofs` | theorems about `Rooms` |
| `Payout` | what the rewards promise: paid within a reservation, and once |
| `Rewards`, `MCRewards` | evaluation, ledger, claims, payment, retries, faults; `Rewards` refines `Payout` |
| `RewardsProofs` | theorems about `Rewards` |
| `Scheduler` | when rewards are paid |
| `Sessions`, `Accounts`, `Telemetry`, `Lobby`, `Watchers`, `Paint`, `Editor`, `Tutorial`, `History`, `Dashboard` | what happens around the games, server and client together |
| `Ordering` | the order of a query's answer and of a filtered list |
| `SessionsProofs`, `ServicesProofs` | theorems about `Sessions`, and about `Accounts`, `Tutorial`, `History`, `Telemetry`, `Editor`, `Paint`, `Watchers`, `Dashboard` and `Lobby` |
| `Round`, `Weapon`, `Zone`, `ZoneClock`, `Geometry`, `PowerUpSpawns` | what a round computes |
| `Stream`, `Controls`, `Scene`, `Picture`, `Audio`, `Device`, `Screen` | what a client makes of a round |
| `Turns` | loops that go through a list, for `Round` and `Stream` |
| `MCServices`, `MCSettle`, `MCArena` | these put together for TLC |
| `StreamProofs`, `ArenaProofs` | theorems about `Stream`, and about `Round`, `Weapon`, `ZoneClock`, `Controls`, `Scene`, `Screen`, `Picture`, `Audio` and `Device` |

`MCServices`, `MCSettle` and `MCArena` choose one part at the start of a behaviour and keep the
others as they are: the parts share no variable, so that a property of one part
is checked exactly as it would be alone, and the run has the sum of their states
and not the product.  Components that interact are modelled in one module, with
the messages between them: gateway and lobby in `Lobby`, loop and client in
`Stream`, tabs and token service in `Sessions`, page and server in `Tutorial`,
`Paint`, `History` and `Dashboard`, worker and ledger in `Rewards`, scheduler and
runtime activity in `Scheduler`, the save of a match within `Round`.

## 3. Rooms

### State and actions

A handler runs without interruption up to its next `await`, so an action of
`Rooms` is one such stretch, and a call waiting at an `await` is data:

| Variable | Code |
|---|---|
| `live`, `room`, `players`, `member` | `rooms`, the fields of `GameRoom`, its `players` map and the `RoomMember`s |
| `userRoom`, `byName` | `userRoom`, `privateRoomsByName` |
| `activity` | `RuntimeActivityService.connectedPlayerIds` |
| `open` | connected sockets |
| `redisQ` | `join`, `leave` and `disconnect` awaiting Redis; one ioredis connection answers in order |
| `creating`, `joining` | `createPrivate` (with `pendingPrivateRoomNames`, `usersCreatingPrivateRooms`) and `joinPrivate`, hashing a password |
| `starting`, `snapshot` | `roomsStarting` and the members `startGame` copied before `getMany` |
| `session`, `saving` | the loop's session; `onFinished` awaiting `matches.persist` |
| `grace`, `stray` | armed reconnection timers; countdown intervals no field refers to |

Map order matters to the transfer of administration, so a member carries the set
of members older than it.  A disconnection instant is one of `Stamps`, fresh
among those still referred to.  A destroyed room keeps its record, because
suspended calls still hold the object: this is how a `leave`, a `join` or a
`startGame` that resumes too late acts in the model.

Production mode is modelled: development rooms, `restartGame` and the forced
start of a public room exist only in development.  Left out besides: statistics
of members, the text of messages, the shortening of a running public countdown,
the presence keys themselves.  A rejection of `getMany` is unhandled in the code
and ends the process, and the model has no such step.  After the end of a round
the loop goes on simulating until the reset; nothing of it is visible to rooms.

### Runs

All instances have one or two rooms, two or three users and one or two sockets
per user; the minimum is two players (three in `RoomsMixed`, which keeps it in the
lobby).  `MaxInFlight` bounds the calls that await Redis at once and `Stamps`
the disconnection instants in use.  Users with one socket each are interchangeable
(`RoomsCapacity`, `RoomsAdmin`), and so are the two tabs of one user (`RoomsMixed`):
nothing in `Rooms` tells them apart, and none of these runs checks liveness.

| Run | Instance | What it shows |
|---|---|---|
| `RoomsPublic` | two users, two tabs of one, two calls in flight | `CountdownDriven`, `FullRoomCountsDown`, `EmptyRoomIsDoomed` |
| `RoomsPrivate` | two users through a private room's whole cycle | `NamesLeadToRooms`, `WaitingHasDeadline`, `RoundEndsOnce`; under fairness `DisconnectedMemberSettles`, `EmptyRoomIsReclaimed` |
| `RoomsCapacity` | three password checks for two seats | `TypeOK`, `CapacityRespected` |
| `RoomsAdmin` | three seats, Redis may reject any command that is awaited | `AdminIsMember`, `AdminPassesToOldest` |
| `RoomsMixed` | a public and a private room in the lobby, two tabs, two timers, two calls in flight, Redis may reject any command that is awaited | `MembershipAgrees`, `PresenceAgrees`, `ReturnedMemberStays` |

The bounds are enough for the interesting cases: each race here is between two
suspended calls, or one and a timer, of one or two users; a third user is there
where a seat or a role can pass to somebody.  Redis rejects commands in
`RoomsAdmin` and `RoomsMixed`: the SET of a join (`JoinRejected`, which destroys the
room when it was being created) and the DEL of a leave, an eviction or a
disconnection (`DelRejected`: nothing that follows the await happens).  In the other
runs, and for `FullRoomCountsDown`, `EmptyRoomIsDoomed` and the liveness, a command
that is awaited is accepted.  A rejected SET leaves a full public room without a
countdown, a rejected DEL leaves a tank in its round, an empty public lobby that
nothing removes (a quick play may fill it again) or a lost member without a timer, and
no document says what should happen then.

A rejected DEL of a disconnection, or of the leave a timer calls, is caught by nobody,
and Node ends the process.  The model lets the process go on.  Since no room is
persisted, this adds behaviours and takes none away: what holds with them holds
without.

Fairness (`FairSpec`): Redis answers, the hashing and the queries end, armed
intervals and timers fire, and the tick that checks the win condition runs, as
the loop's interval does.  No request is fair and nobody is assumed to hit
anybody.  A reconnection timer is strongly fair because `MaxInFlight`, a bound of
the model only, may keep it from firing for a while.

With three users an empty room may keep an endless round: tanks of members who
left while `startGame` awaited are not removed from it, two of them never fight,
and the danger zone never shrinks to nothing.  `EmptyRoomIsReclaimed` is
therefore claimed, and checked, for rounds of at most two.

### Disagreements with the documents

Each of these runs states a sentence of a document as a property and ends with a
counterexample; `PROJECT.json` quotes the sentences.

| Run | Counterexample |
|---|---|
| `RoomsNoSessionRemains` | all members leave while `startGame` awaits the customizations: the room is destroyed, its session and loop are created afterwards and stay |
| `RoomsShownConnectedIsConnected` | a socket closes while `createPrivate` hashes the password of its new room (`rooms.service.ts:178`), and `join` stores its id all the same (line 251): a member connected for ever; `joinPrivate` can do the same around its password check (line 220) |

A user who joins while the last member's `leave` awaits Redis finds himself in a
room without administrator.  The await of `startGame` has more consequences, all visible in the model: a
countdown cancelled meanwhile does not keep the game from starting, leaves the
match with an armed inactivity deadline, and, when a second countdown has begun,
leaves an interval that `resetPrivateRound` forgets (variable `stray`).
`startGame` also drops members who are within their grace period.

The `disconnect` of a public lobby looks its user's room up again after its await
(`rooms.service.ts:320`): a user who has entered a private room meanwhile, with
another socket, is taken out of it, although `backend/docs/private-rooms.md:60` says
that no disconnect removes a member of a private room at once.
`ReturnedMemberStays` leaves out exactly this step (`EvictedFromElsewhere`);
`RoomsMixed`, with its two calls in flight, reaches it.

Figures in the documents are stale too (a ten-second countdown, a two-minute
deadline and a thirty-second warning in `backend/docs/private-rooms.md`; eight
seconds, four minutes and forty-five seconds in `games/tanks/config/room.config.ts`).

### Proofs

All theorems assume only `RoomsAssumption` (named in `Rooms`): users are finitely
many, identifiers of public and private rooms differ, `1 <= MinPlayers <=
MaxPlayers`, and the null values are outside the sets they extend.

* `TypesHold`: `TypeOK`, split into the rooms, the suspended calls and the game.
* `MembershipHolds`: `Seats` adds to `MembershipAgrees` that destroyed rooms have
  no members, since a suspended `leave` or `startGame` may still write to one.
* `PresenceHolds`: `activity` is compared member by member (`Attends`); a user is
  in at most one live room by `Seats`, so removing the user from one room is
  removing the user from all.
* `AdminHolds`, `CountdownHolds`, `DeadlineHolds`, `NamesHold`: one inductive
  invariant, `WellKept`, a conjunction over rooms (`RoomsKept`).  A countdown needs
  to know that a ticking interval or a start under way belongs to it, a deadline
  that a room leaves `waiting` only by a countdown, a name that a pending creation
  has not taken it yet.
* `CapacityHolds`: by `AcceptsPlayers` at the moment of entry, which is the point:
  `joinPrivate` looks again after hashing.
* `RoundHolds`, `DoomHolds`, `CountHolds` (`RoomsRoundsProofs`): `NextEffect` first
  reduces every step to what it does to one room, its round and the queue of
  replies (`Effect`).  `RoundKept` adds to `RoundEndsOnce` in which statuses a start and
  a save may be under way, and that a room that was never used has neither, nor a
  session.  `DoomKept` and `CountKept` are the properties room by room: what is to
  remove or start a room stays in the queue until it does.
  `CountHolds` and `DoomHolds` assume `~RedisFaults`, as the run does: a rejected SET
  leaves a full room that nobody starts, and a rejected DEL an empty one that nobody
  removes.  All other theorems about `Rooms` hold whatever Redis rejects.
* `AdminPasses` and `ReturnedStays` are action properties.  The first needs
  `RoomsInOrder`: the members older than a member (`elders`) order each room, and
  every set of members has a first, which `Oldest` chooses.  For the second,
  `NextSeating` lists the ways into and out of a seat, and a timer only takes a
  member whom `StillAway` finds away.

Only model-checked: liveness, which is beyond the prover.

## 4. Rewards

### State and actions

PostgreSQL is the only shared state of the reward services, so an action is one
statement or transaction of `rewards/rewards.repository.ts`, or one call of the
Solana gateway.

| Variable | Code |
|---|---|
| `row` | `RewardLog`: status, eligibility, retryable flag, retry count, whether it has a `transactionSignature` |
| `evaluation` | how far `registerAndEvaluate` has come for the reward |
| `reserved`, `sent` | `DailyRewardLimit.reservedAmount`, `sentAmount` |
| `work` | where `processBatch` of each processor is: reconciling submitted rewards or paying claimed ones, the claims left, the one in hand and the step due |
| `landed` | transfers the chain holds for the reward; no code sees it |
| `manual` | retries by hand, bounded by `MaxManual` |

| Actions | Code |
|---|---|
| `Register`, `RegisterDisabled`, `TryReserve`, `Decline`, `Approve`, `EvaluationFails` | `rewards.service.ts` |
| `FindSubmitted`, `ClaimPending`, `Send`, `Verify`, `Write` | `processBatch`, `processReward`, `reconcile`, `handleFailure`; `Effect` is the transaction written, `Continued` and `Broken` what the worker does next |
| `WriteUnacknowledged`, `WriteFails`, `Crash` | an error of the database after or instead of the write; a restart |
| `RetryManually` | an operator |

A claim is a copy of the row, and `handleFailure` decides from it: this is the
staleness the properties are about.  An error inside the `try` of `processReward`
turns into a retry or a review, any other ends the batch and leaves its rewards
in `PROCESSING`.  `Faults` names what may go wrong in an instance, `Operated` the
statuses an operator retries by hand: the runs use the two the comment of
`retryManually` names, `MANUAL_REVIEW` and `FAILED`.

Abstractions: an amount is the prize of an eligible row and nothing otherwise.  A
signature is returned only for a confirmed transfer, so a row has one or has none.
The time of a retry is any time.  `Register` is two statements, the second of
which finds the row as the first left it.  Rewards are evaluated once: a second
evaluation needs a second call of `registerAndEvaluate`, and `matches` makes one.
Transactions are atomic; under PostgreSQL's default isolation two of them may read
one row before either writes it, a hazard that is listed and not modelled.

### Runs

| Run | Instance | What it shows |
|---|---|---|
| `Services` | two rewards of 1 and 2 tokens in a budget of 2, two workers, three attempts, one manual retry; crashes, failing writes, lost answers | `TypeOK`, `LedgerBalances`, `PaidAtMostOnce`, `ClaimsAreExclusive`, `RetriesRemain`, refinement of `Payout` (`Pays`) |
| `Settle` | one worker, a budget for both; transfers reported as errors, failing `markSubmitted` | `SentAddsUp`; under fairness `RewardSettles` |

In a budget of 2 either reward excludes the other, which is what a reservation
that leaks or doubles needs to show.  Three attempts leave one retry that may be
repeated and one that is the last; two workers are enough for every race for a
row, as each is between two of them.

Fairness: a processor with work goes on (`WF`), since the scheduler runs batches
as long as `nextAutomaticWorkAt` finds any, and a retry that is waiting is claimed
in the end (`SF`), since its time comes while batches go on.  No evaluation and
no operator is fair.  `RewardSettles` is claimed without crashes and without
failing writes other than `markSubmitted`: a row that is left in `PROCESSING` is
never claimed again, so it does not settle.

`PaidAtMostOnce` is claimed where an error of the gateway means that no transfer
was made and `markSubmitted` does not fail; `SentAddsUp` for one worker, since two
may reconcile one row that an operator retried in between.

### Disagreements with the comments

| Run | Counterexample |
|---|---|
| `RewardsPaidTwice` | `sendAndConfirmTransaction` reports an error for a transfer that is made; the signature is lost, and the retry sends the reward again |
| `RewardsOverLimit` | a manual retry finds the budget used up and sets `DAILY_LIMIT_REACHED`; the next one reserves nothing for that status and the reward is paid over the limit |

Seen while modelling: a reservation whose evaluation fails afterwards is never
returned, and a `FAILED` evaluation is retried by nothing, although
`claimRewardEvaluation` is written for it.

### Proofs

All theorems assume `RewardsAssumption`: finitely many rewards, each with a budget
and a positive prize, at least one attempt, and a null claim outside the claims.

* `TypesHold`: `TypeOK` for any number of rewards and workers and any faults; the
  subtraction of `Release` stays in the naturals.
* `PaidOnce`, `ClaimsStayExclusive`: under `Honest` (the gateway's errors mean that
  nothing was transferred, `markSubmitted` does not fail, no operator retries a
  reward in `PROCESSING`; crashes, lost answers, other failing writes and retries
  from any other status are allowed).  `PaidAtMostOnce` is not inductive.  `PaidInv`
  relates three things: a row (`RowSound`: what was transferred is signed or stays
  in `PROCESSING`), the claims of a worker (`WorkerSound`: what it is yet to send
  was not sent, the reward in hand is untouched until its signature is written, a
  batch has no reward twice), and two workers (`Apart`: never both a claim without
  signature of one reward).  `Undisturbed` shows that the step of anybody else
  keeps a worker sound, and each kind of step then has a lemma of its own.  TLC
  checks `PaidAtMostOnce` and `ClaimsAreExclusive` in `Services`.
* `RetriesStay`: `RetriesRemain` under the same assumptions.  `handleFailure` compares
  the count of its claim, the next claim that of the row; `RetryInv` says that they
  are the same for every claim without signature, which needs `Apart`.

* `LedgerHolds`, `PayoutKept`: under `Careful`, which is `Honest` and that no operator
  retries what was refused for the limit (`RewardsOverLimit` shows what that does).
  The sum over a set of rewards (`Total`) is the number of the units of their
  prizes (`Units`, pairs of a reward and a number below its prize), because a sum
  by recursion is beyond the prover and the size of a set is not: a reward that
  enters a set adds a disjoint set of units.  The refinement is proved step by step:
  what `Rewards` does to the ledger is a reservation, a release, a payment or a
  stutter of `Payout`, and a release never exceeds what is reserved because of
  `LedgerBalances`.
* `SentHolds`: under `Alone` (one worker whose writes are answered, no retry by hand of
  what was sent), with any other fault: with two workers both may record one
  transfer.

Only model-checked: liveness.

### When rewards are paid

`Scheduler` models `RewardProcessorScheduler`: `scheduler` holds its fields while
the process runs (`Down` while it does not), `registered` the matches that were
saved and have not asked for processing yet, `signal` and `writes` the file
`pending-work.json` and what is still to be done to it, `playing` whether anybody
plays.  `IntervalTick` and `KnownWorkTimer` begin a tick, `TickGoesOn` is each of
its further stretches between two awaits, `ProcessStops` and `ProcessStarts` a
restart, which finds the file.  A reward is due, claimed, settled, or abandoned: left
in `PROCESSING`, where nothing claims it, by a batch that broke off (`BreaksOff`).
What a batch does to a reward otherwise is in `Rewards`.

`WorkIsProcessed` says that every reward that is due is taken up, and settled if no
batch breaks off with it, while people keep playing from time to time
(`[]<>playing`).  A reward that is abandoned stays so until an operator acts.  The
assumption is needed: a wake-up can be lost.  A tick reads that nothing is due; a
registration then sets timer and signal; the tick goes on and clears both.  Only the
interval, which runs while somebody plays, makes up for that, whatever the comment
at line 52 says of the signal.  Fair are the timers, the awaited calls and the start
of the process, and strongly fair the interval, which is enabled only while somebody
plays, and the outcome of a batch that it claims and pays something, since the
database is not down for ever.

The run `Settle` holds both: `Rewards` with one worker, and the scheduler with two
matches and one restart, so that a signal must survive a process and two ticks
must collide.

## 5. Around the games

The run `Services` checks these modules beside `Rewards`.  No behaviour of theirs
needs fairness: their properties are invariants, and one action property.

| Module | Code and variables | Property | What may disturb it | Instance |
|---|---|---|---|---|
| `Sessions` | `tokens.service.ts` (`sessions`), the cookie, `auth.service.ts`, `auth.interceptor.ts`, `socket.ts` (`tab`, `restores`) | `CookieIsCurrent`: the browser never keeps a refresh token its session has replaced; `SocketRecovers`: a refused socket connects again or the tab learns that it is signed out | two tabs, renewals shared and dropped by a logout, expiry, lost requests and answers | two tabs, one of them with a socket and one with a request, one session, one loss, one expiry |
| `Accounts` | `users.service.ts`, `phantom-auth.service.ts`, `google-auth.service.ts` (`db`, `challenge`, `request`) | `EveryUserSignsIn`: no user and no wallet is orphaned | requests interleaved at every statement, unique indexes that refuse one, failures | two requests, two addresses, one Google subject, two users, one challenge |
| `Telemetry` | `runtime-telemetry.service.ts` (`meter`, `ending`, `flush`, `disk`, `table`) | `SamplesCountedOnce` | matches that end together, stops between inserting a file and removing it | two matches, two minutes, one stop |
| `Lobby` | `lobby.controller.ts` (`page`), `queue-status.service.ts` (`queue`), `game-asset-preloader.service.ts` (`assets`), the gateway's room messages (`seat`, `hashing`, `replies`), the connection (`net`) | `RoomShown`: once nothing is under way the page shows the user's room | quick plays prepared, cancelled and repeated, dialogs, lost connections noticed late, another tab, evictions, commands Redis rejects | one connection lost once, four events, two messages each way, two answers of Redis |
| `Watchers` | `game.gateway.ts`, `socket-rate-limiter.service.ts`, `watcher-presence.service.ts` (`link`, `counted`, `meters`, `watches`, `placed`, `shown`) | `CountIsShown`: whoever takes part in a round knows how many look on; `SocketsCounted`: nothing is kept for a closed socket | sockets replaced, closed, verified at the same time; rounds that start and end | three sockets of two users, one of them an administrator, one connection per address, one round |
| `Paint` | `tank-customization.service.ts` (`paint`, `call`), the store and editor (`store`, `editor`), the browser's history (`browser`) | `LookIsKept`: only a save changes how a tank looks; `HistoryIsClean`: the editor has its one entry while it is open | requests that read, repair and patch at once; closing by hand, by Back, by a question, by an answer | two calls, one part, two colours |
| `Editor` | `map-editor.store.ts`, `map-editor-canvas.component.ts` (`doc`, `past`, `future`, `start`, `selection`, `drag`; `leftOpen` is a history) | `EditorConsistent`: what is selected exists, and a transaction has its drag | undo, delete, import, arrow keys and a second pointer in a drag | two entities on a line of width 1, one step of history; an obstacle is as wide as the line, so that only spawn points move, and `EditorsHold` covers the others |
| `Tutorial` | `tutorial-scene.ts` (`lesson`), `tutorial.component.ts` (`screen`), the user's status (`profile`, `post`) | `TutorialIsEarned` | everything done in one frame, games that are repeated, requests that fail and are written later | two games, two requests |
| `History` | `rewards-history.service.ts` (`saved`), the lists (`listing`, `asked`) and the detail (`detail`) | `HistoryIsWhole`: no match twice, none out of order, none missed, each can be opened | matches saved late, several in one millisecond, pages read at different moments, failed requests | five matches, three of which ended together, pages of two |
| `Dashboard` | `admin-stats.component.ts` (`board`), the gateway's subscriptions (`watching`), the socket with its buffer (`wire`) | `BoardIsServed`: samples are sent exactly while they are shown, and shown once and in order | views changed, page hidden or left, connection lost with what is under way | two connections, three samples, two messages each way |

The run's properties join what concerns one kind of state: `UsersAgree` is
`EveryUserSignsIn`, `TutorialIsEarned` and `HistoryIsWhole`; `EditorsAgree` is
`EditorConsistent` and `PaintAgrees` (`LookIsKept` and `HistoryIsClean`);
`SocketsAgree` is `CountIsShown`, `SocketsCounted` and `BoardIsServed`.

Histories excuse what the code does leave open, each at the step where it happens
and no further:

* `CookieIsCurrent`: a session one of whose answers was lost (`lost`).  Two tabs that
  renew at the same moment present one token twice, and the server revokes the
  session; that is not a stale cookie but the end of the session.
* `RoomShown` (`crossed`): work that awaited Redis or a password overtakes the last
  answer about the seat, and no later answer is to set it right (`Outstanding`); or
  Redis   rejects the command that answer waited for (`RedisRejects`): of a SET the
  socket is   told an error although its user is seated (`rooms.service.ts:263`), of
  a DEL nothing   (line 282).  So a disconnection in a public lobby removes a member
  who   has already come back and does not tell him (`rooms.service.ts:320`); a join
  whose   password is checked after its socket is gone seats a dead socket; a join
  may be   told of a room that was closed meanwhile.
* `CountIsShown` (`untold`, pairs of a socket and a room): an eliminated player who
  leaves or comes back changes the count and only he is told; those who watch a
  room are not told of the round that begins; a socket that has gone is taken from
  the count at once and the room is told when Redis has answered.  Each is excused
  until that socket is told the next count of that room.
* `SocketsCounted` (`together`): the limit is looked at when the token is verified
  and counted when the socket opens (`game.gateway.ts:75`, `106`), so that sockets
  verified together may exceed it.
* `EditorConsistent` (`leftOpen`): `pointerDown` does not ask whether another pointer is
  dragging.  A second touch that begins a box or a pan takes the place of a drag, and
  no `pointerUp` finishes its transaction: what was moved is no step of the history
  until the next drag or arrow ends, which then takes both for one step.
* `LookIsKept` (`overwrote`): a read repairs a row from what it read, and a patch
  made in between is lost (`tank-customization.service.ts:27`).
* `TutorialIsEarned` (`unsure`): an answer was lost, or a failed request is written
  after a later one.

Bounds.  Each race in these modules is between two requests, two tabs, two messages
or a request and an event of the page, and the instances have two of each.  Matches
come in threes in `History`, because a tie must be cut by the end of a page.

### Proofs

The assumptions are named in each module and say no more than that numbers are
numbers and null values are not values: `SessionsAssumption`, `EditorAssumption`,
`PaintAssumption`, `HistoryAssumption`, `TelemetryAssumption`,
`DashboardAssumption`, `WatchersAssumption`, `LobbyAssumption`.  Theorems of `ServicesProofs` are about
`ServicesSpec`; `StepsOfParts` says that a step of it is a step of one part.

* `CookieHolds`, `SocketsRecover` (`SessionsProofs`): for any tabs and tokens.  No token
  is ahead of its session (`NobodyAhead`), and an answer that is on its way from a
  session that lives is its newest token and no other's (`AnswersAhead`); a tab
  that shares a renewal, or whose socket waits for one, has it under way (`Shares`).
* `UsersHold` joins three invariants; it does not say that an account or a name
  belongs   to one user only, which is left to the unique indexes that the model
  takes as given.  `AccountsAgree`: each call knows the account it   read, and
  accounts stay.  `TutorialKept`: the page is at most as far as the game, and   at
  most one request waits for its answer.  `HistoryKept`: what a list has shown are
  all matches up to its cursor, in order, and a page that was read goes on there;
  since a match saved later may belong in between, nothing is missing of what was
  saved when the list began (`sawFirst`).
* `EditorsHold`: `EditorKept` adds to `EditorConsistent` that what is edited, undone and
  redone are documents, whose spawns are entities they have; `PaintKept` adds to
  `LookIsKept` and `HistoryIsClean` that a closed editor asks nothing and has no entry.
  That a repair keeps the look, and a patch sets it, for any stored row, are the
  lemmas `CanonicalLooks` and `MergedLooks`.
* `SamplesHold`: `TelemetryKept` looks at every row, from the meter to the table, in
  files and between them: rows that share a sample have one time (`OneTime`), no
  sample is later than the clock (`NotLater`), so that a part that is opened shares
  none, and the table has one row of each time (`OneRowEach`).
* `SocketsHold` joins `WatchersKept` and `DashboardKept`.  For the counts, a user's socket
  is his own (`OwnSeats`), so that an audience is known socket by socket; a step
  leaves a room as it is seen (`SameRoom`), changes only where one sits who is not
  out (`SameViewers`), tells the whole audience (`BroadcastIsHeard`), or puts those
  it does not tell into `untold`.  For the limit of an address, one token being
  verified has room (`LimitsLookedAt`).  For the statistics, the last message of the
  page says what it wants (`LastWord`), and samples on their way are newer than
  those shown (`InTurn`); the greatest sample is in the list, since what is cut off
  is older than all that stays (`UpdatedProperties`).
* `LobbyHolds`: `LobbyKept` looks at a connection on which nobody is going to ask for the
  state and nothing has crossed, nor was rejected (`Steady`).  Its socket has the seat, and what the
  messages on their way will have made of the page and the panel (`MakeOf`) is what the
  server holds (`Knows`), or an answer of Redis that is awaited will tell it
  (`Outstanding`).  The proof corrected the model twice.  A join whose own socket is
  gone tells the socket that took its place; and `crossed` has to count an answer to a
  leave that comes after the state was asked for again, as it does when a password
  checked for an earlier connection takes a seat in between.  Neither shows with one
  answer of Redis at a time, the bound of the run before; it now has two, and the
  second needs three.

`History`, `Editor` and `Dashboard` order finite sets with `Ordering`, and `Paint` overlays
colours with `Over`: `SelectSeq`, `SetToSortSeq` and `@@` say the same to TLC, but are
recursive or built from what the prover cannot expand.  `KeptPlaces` proves what is
needed of it, by counting the elements before each.

## 6. A round and what a client makes of it

The run `Arena` checks these modules.

| Module | Code and variables | Property | Instance |
|---|---|---|---|
| `Round` | `tick` of the loop with hits, shields, regeneration, the zone, eliminations, the end and `MatchesService.persist` (`round`, `feed`, `stage`, `saved`, `prizes`) | `RoundAddsUp`: `StatsAddUp` (damage, kills and deaths balance, a tank dies once) and `RankingHolds` (what is saved is a ranking of the round, though tanks die and leave during the save) | three tanks of two hit points with a shell, a beam and a grenade, one of which leaves or shields are raised, three ticks, a save that may fail |
| `Weapon` | `weapon.service.ts`, `weapon-laser.service.ts` (`weapon`, `power`, `shells`, `beams`) | `NeverJammed`: a weapon without ammunition is reloading, a beam is its owner's only shot | magazines of two and three, both power-ups, twenty units of time |
| `Zone`, `ZoneClock` | `danger-zone.service.ts` with the real durations; the sizes of maps and prizes | `ZoneOnlyCloses`: across the boundaries of the phases the circle never grows and no phase comes back | 4, 8 and 16 players, two distances to cover, steps of five seconds |
| `Geometry` | `collision.service.ts`, the start of a beam (`at`, `was`, `dir`) | `CollisionsHold`: `SweepAgrees` (the slab test agrees with a test by sides) and `LeftClear` (what was pushed out is outside) | one rectangle, every place of a grid of 21 by 21 around it, strides up to 7 |
| `PowerUpSpawns` | `power-up-spawn.service.ts`, `processPowerUpSpawns`, `processPlayers` (`driver`, `lying`, `walls`) | `SuppliesHold`: one tank takes one power-up in a tick, none before it could be seen, each can be reached, and never too many | two tanks with the real distances on a line of 1100, a wall and a bush, seven places to draw, at most 80 a tick |
| `Stream` | the snapshots of the loop and what `game-scene.ts` and `state-change-tracker.ts` make of them (`arena`, `queue`, `client`) | `ClientAgrees`: `ObstaclesAgree` (told change by change, they agree when all has arrived) and `EffectsOnce` (a shot ends and is fired once) | three shots of three kinds, wood, a bush and a mirror, players every second tick, watchers every third |
| `Controls` | `touch-controls.ts`, `phaser-keyboard-guard.ts`, `input-controller.ts`, the menu (`touch`, `keyboard`, `menu`, `heard`) | `ControlsLetGo`: `SticksAreHeld`, `KeysAreHeld`, `MenuRests` | two fingers, one key, three areas, every order of Phaser's, the window's and the guard's events |
| `Scene` | `state-change-tracker.ts`, `spectator-camera-controller.ts`, `game-scene.ts` (`memory`, `scene`, `host`) | `TanksExplode`: whoever dies or goes explodes, and nobody else; `CameraFollows` | three players, two joins |
| `Picture` | `snapshot-interpolator.ts` (`snapshots`, `picture`) | `PictureAdvances`: a frame never draws an older moment than the one before | a buffer of three, a delay of two, ages up to six |
| `Audio` | `audio-manager.ts`, `game-settings.service.ts` (`audio`, `sounds`, `panel`, `stored`) | `SoundsAreKept`: a looping sound is held once, or fades; what is held plays at the volume that was set | two volumes, two sounds, one change |
| `Device` | the recovery of the audio context (`device`, `needs`) | `DeviceRecovers`: a silent device is restarted by the next gesture | two recoveries |
| `Screen` | `game-host.component.ts`, `visible-viewport-resizer.ts` (`page`, `display`, `fitted`) | `GameFits` and `DisplayIsReleased` | one visit, three sizes, three changes of size |

`CollisionsHold` also holds `SuppliesHold`; `SceneAgrees` is `TanksExplode`,
`CameraFollows`, `GameFits` and `DisplayIsReleased`; `SoundsAreHeard` is
`SoundsAreKept` and `DeviceRecovers`.

Numbers.  `Zone` and `PowerUpSpawns` use the code's own constants, `Zone` with radii
as fractions, so that its comparisons are exact.  `Geometry` uses whole numbers and
fractions in place of floating point: what it shows is that the algorithm is right
at every corner, not that rounding cannot move a hit by a fraction of a pixel.
The other modules keep the order of the code's durations and not their values.

Excuses: `DisplayIsReleased` leaves out full screen that is granted after the page
was left (`late`), `DeviceRecovers` a recovery that ends after the page was hidden
again (`overlaps`).

### Proofs

The theorems of `ArenaProofs` are about `ArenaSpec`; its `StepsOfParts` says that a step
of it is a step of one part.  The assumptions are named in the modules:
`RoundAssumption`, `WeaponAssumption`, `ZoneAssumption`, `PlayersAssumption`,
`PictureAssumption`, `AudioAssumption`, `StreamAssumption`.  They say that hit points, damage, prizes,
durations and volumes are numbers, that obstacles and shots have their kinds, that
snapshots come every so many ticks, that tanks are numbered from 1, that shots come
in at least one pattern, and that null values are no values.

* `RoundsHold`: `RoundKept`.  While a tick goes on, the deaths it has not published
  count like those published (`Adds`): the list of the dead is that of the victims
  told of (`Booked`), nobody on it lives, and who plays lives or is on it (`Counted`).
  Each operation keeps this, so a tick does, in whatever order it hurts whom; that
  what is done in turn is done at all is `Iterates`, and `BookedOnce` that one death
  more is one credit more in the sum of the kills.  For the ranking, a place is a
  distance from the end of that list, which only the winner may still lengthen
  (`Placed`), and what is saved is what the tick computed (`Recorded`).
* `WeaponsHold`: `WeaponKept` adds to `NeverJammed` that the laser has no reload, so that
  its ammunition is its shots.
* `ControlsHold`: `InputKept` adds to `ControlsLetGo` that while the scene does not
  receive the keyboard, Phaser holds no key down (`KeysRest`).
* `SceneHolds`: `SceneKept` and `ScreenKept`.  Who lived in the snapshot
  drawn last is known to the tracker or exploded, and who has left is not alive
  (`Remembered`); only who is out spectates, and a free camera has no target
  (`Spectates`).  Full screen that is still asked for when the page is gone is noted
  (`LateIsNoted`).
* `SoundsHold`: `AudioKept` and `DeviceKept`.  Every sound the manager holds exists, is not
  fading out and has the volume that was set, and every other one fades out (`Agreed`);
  a manager that is closed holds nothing and nothing sounds (`ClosedIsSilent`).  While
  the page is hidden, a recovery that is under way began before (`HiddenIsNoted`).
* `PicturesHold`: `PictureKept`; the ages in the buffer fall from its oldest snapshot to its
  newest, and the moment drawn stays between its ends.
* `ZoneHolds`: `ZoneKept`; the phases of any size of round follow each other without a
  gap (`Ordered`), and inside one the radius is a line that falls (`CircleCloses`).
* `StreamHolds` (from `StreamProofs`): `StreamKept`.  The messages under way tell the client
  exactly what it does not know of the obstacles (`Tells`); the one that seats it comes
  before any state it is to show (`Seats`).  For the shots there is a moment of the game
  behind what was drawn, one behind the next snapshot to be drawn, and one behind each
  message, each a possible past of the next: a shot is fired, ends, is told to have
  ended, and none of it comes back (`Chronicled`).  Between two of these moments lie the
  changes of one tick in whatever order shots and tanks are gone through.

`Round` and `Stream` go through tanks, shots and obstacles one after the other with
recursive functions (`InTurn`), which the prover can expand, and not with folds, which it
cannot.

Only model-checked: `CollisionsHold`, whose slab test compares products of four
coordinates and whose pushes multiply them, which is beyond the provers'
arithmetic, and whose last part is about the walls of the instance.

## 7. Seen while modelling

What the code does and no document speaks of:

* Combat: a shot that ends inside a mirror it entered from above or below comes out
  at its right side; `pierceMetalRemaining` of a beam is used up by ticks and not by
  obstacles.  Pushed out of one obstacle a tank may end in another one; only a single
  obstacle is claimed.  When players leave, the power-ups that lie on the map may be
  more than a map of their number is to have.
* Stream: watchers and players who are out never see effects of impacts; the client
  never emits the message that makes it a watcher.
* Scene: a dead tank that leaves explodes a second time, and if it was told to have
  left before the last snapshot that has it, once more; the end of a round overwrites
  its own timer; the scene ignores the messages of the lobby.
* Screen: see `late` above.
* Audio and settings: a change of volume before the manager exists is read from old
  storage; the answer of the server overwrites a change made meanwhile; a change
  within 300 ms of leaving is not sent; two requests may be reordered.
* Lobby: `searching` and `pending` stay set after a lost request; a quick play that
  is cancelled and repeated before the first one's preparation ends loses its
  preparation to the first one's failure (`lobby.controller.ts:157`).
* Editor: see `leftOpen` above.
* Paint: the answer to a save closes the editor and drops what was edited meanwhile.
* Tutorial: who has completed it and opens it again may skip it and is `SKIPPED`.
* Accounts: the wallet of a user and the account of its address may come to belong to
  two users; a user can end with two accounts of one provider.
* Scheduler: the lost wake-up of section 4; rewards in `PROCESSING` are not counted
  as work.
* Telemetry: samples taken while a checkpoint awaits belong to no row.
* Statistics: answers for two ranges of hours may be shown in the wrong order, and
  a flush reports success over an error of the reload that follows it.

## 8. Not modelled

* Rendering and HUD: functions of a snapshot, with no state that several steps
  change.  What decides what is drawn is in `Stream`, `Scene` and `Picture`.
* Modifiers of weapons, the flight of grenades, several obstacles at once and the
  turning of tanks; floating point.
* Message rates of sockets and of sign-in; development mode; roles beyond a guard.
* Statistics, settings, health, configuration and static data: queries and
  validation; library wrappers (Redis, Prisma).
* A second evaluation of a reward, `cancelledAmount`, the batch size; transactions
  split at their reads; the approval of an evaluation whose answer is lost.
* Liveness outside `RoomsPrivate` and `Settle`: elsewhere the code promises none, or
  it follows from a browser's and a server's answering at all.
* No theorem is about `Geometry` and `PowerUpSpawns`: their properties are checked on the
  instances above and hold for these.
