# Parlor Room: specifications and proofs

Parlor Room is a matchmaking service for mahjong. Players and bots send queue
requests over AMQP; the service seats them in lobbies, announces who joined, and
announces a game when a lobby is full. These modules say what the core of the
service promises, check it with TLC on small instances, and prove the most
important promises with TLAPS for instances of every size.

Paths such as `src/lobby/manager.rs` are relative to the repository's root; in
`PROJECT.json` they carry the leading `src/` of the checkout.

## 1. The system

| Part | State | Operations | Talks to |
|---|---|---|---|
| Lobby instance (`src/lobby/instance.rs`) | state, queue of entries, created_at, last_activity, wait_timeout | add_player, remove_player, mark_starting, mark_game_started; queries is_full, should_start, needs_backfill, should_cleanup | called by the manager and the backfill manager |
| Configuration (`src/lobby/provider.rs`) | one configuration per lobby type | get, validate | read by the manager and the instances |
| Matching (`src/lobby/matching.rs`) | none | find_lobby_for_player: scores the lobbies on offer | called by the manager on a snapshot |
| Lobby manager (`src/lobby/manager.rs`) | map of lobbies (RwLock), statistics (RwLock) | handle_queue_request, remove_player, cleanup_stale_lobbies, queries | provider, matcher, publisher, rating calculator |
| Bot backfill (`src/bot/backfill.rs`), bot provider (`src/bot/provider.rs`) | cooldowns, statistics; available and reserved bots | needs_backfill, backfill_lobby; select, reserve, release | lobby, wait times |
| Event publisher (`src/amqp/publisher.rs`) | deduplication cache | three publish calls with retries | broker |
| Queue consumer (`src/amqp/handlers.rs`, `messages.rs`) | none | consume, parse, dispatch, log errors | broker, service |
| Connection (`src/amqp/connection.rs`) | connection | connect with retries | broker |
| Service (`src/service/app.rs`, `src/main.rs`) | running flag, tasks, consumer | start, background tasks, shutdown; main and its signal handler | everything |
| Application configuration (`src/config/`) | settings | load, validate, override on the command line | service |
| Health (`src/service/health.rs`, `src/metrics/health.rs`) | none | liveness, readiness, status | reads the service |
| Wait times (`src/wait_time/`) | samples per lobby and player type | record, estimate | backfill |
| Ratings (`src/rating/`) | ratings and history | store, update, rate a game | manager (scenario table) |

Hard behaviours, in the order of what they can do to a player:

* `handle_queue_request` is a chain of critical sections. It chooses a lobby from
  a *copy* of the map, enters it later, publishes outside the lock, and only then
  asks whether the lobby can start. Other handlers, `remove_player` and the
  cleanup task run in the gaps.
* A publish may fail; the error ends the handler wherever it is.
* Only the request that just joined a lobby ever asks whether it can start: a
  wake-up that is lost is lost for good.
* The cleanup task collects ids under one lock and removes under another, while
  the statistics are guarded by a third.
* Priority order, the queue beyond capacity and the state machine must stay in
  step whatever the order of joins and departures.
* The broker keeps every request that nobody acknowledged, and nobody does: what
  was handled comes again with the next connection. A publish that fails may have
  been written.
* The service starts and stops in steps that can each fail, around loops that
  read the running flag before they wait.
* The rating storage and the wait statistics insert and evict under two locks.

One consumer hands its deliveries to the service one after the other, which is
`MaxConcurrent = 1`. The manager is written for more: every operation takes
`&self`, the state is behind locks, and the service's handler
(`src/service/app.rs:71`) holds the manager only for reading, which any number of
handlers can do at once. `MaxConcurrent = 2` and `3` are that use. The cleanup
task runs beside the handlers either way.

## 2. Modules

| Module | Models | Extends |
|---|---|---|
| `Lobby` | one lobby as a value: configuration, queue order, state machine, start and cleanup conditions | – |
| `Matchmaking` | what the manager promises: lobbies opened, entered, left, closed with a team, announced | – |
| `LobbyManager` | the manager as a state machine over a map of `Lobby` values; implements `Matchmaking` | `Lobby` |
| `TimedLobby` | a lobby with its timestamps, as a value | `Lobby` |
| `LobbyInstance` | one instance as a state machine with a clock | `TimedLobby` |
| `BotBackfill` | backfill manager and bot provider over a map of `TimedLobby` values | `TimedLobby` |
| `RequestQueue` | what the queue, the consumer and the publisher promise the sender of a request | – |
| `Delivery` | connection, consumer and publisher around an external broker, with crashes and lost connections; implements `RequestQueue` | – |
| `Service` | configuration, start, background tasks, shutdown, health | – |
| `Matching` | the matcher's loop and its scores | – |
| `RatingScenarios` | the rankings behind the scenario table of a game | – |
| `RatingStorage` | the bounded rating store under several threads | – |
| `WaitTime` | wait statistics, the estimate, its configuration | – |
| `MCLobbyManager`, `MCBotBackfill`, `MCDelivery`, `MCService` | the constants of the TLC runs | the module named |
| `MCParts` | one lobby instance and the four library modules side by side, one exercised in each behaviour | `LobbyInstance`, `Matching`, `RatingScenarios`, `RatingStorage`, `WaitTime` |
| `LobbyProofs` | lemmas about sequences, the priority queue and the state machine | `Lobby` |
| `LobbyManagerProofs` | type correctness, queue order, state/queue agreement, closed lobbies, the bound on overfull lobbies, one game per lobby, playable games, listed joiners, wake-ups, totals, announced players, gathered players, the refinement of `Matchmaking` | `LobbyManager`, `LobbyProofs` |
| `TimedLobbyProofs` | what each operation does to each field | `TimedLobby`, `LobbyProofs` |
| `LobbyInstanceProofs` | fair queues, bounded waits, patient cleanup | `LobbyInstance`, `TimedLobbyProofs` |
| `BotBackfillProofs` | bots are exclusive, backfills fit, are counted and spaced | `BotBackfill`, `TimedLobbyProofs` |
| `DeliveryProofs` | nothing lost, nothing handled twice on a connection, bounded copies, the refinement of `RequestQueue` | `Delivery` |
| `ServiceProofs` | how long the background loops last, what shutdown leaves behind | `Service` |
| `LibraryProofs` | the matcher, the rankings, the rating store, the wait times | `Matching`, `RatingScenarios`, `RatingStorage`, `WaitTime` |

A definition whose name ends in an underscore and a word (`FindLobby_Forgets`,
`Enqueue_Unsorted`, ...) is a faulty variant of the definition below it. None of
them is used by a specification; each is the plausible bug that shows a property
is able to fail, and `PROJECT.json` names the pairs.

### Lobby

A lobby is a record with `type`, `state` and `queue`; `instance.rs` keeps the
same in `config.lobby_type`, `state` and `player_queue`. A player is an id,
`Human` says whose `player_type` is Human. The ratings are left out: in this
component they only decide which of several joinable lobbies is chosen.
`Enqueue` is `push_back` followed by `sort_queue`: the sort is stable on
(priority, joined_at) and the new entry has the latest `joined_at`, so it goes
behind every entry of its own or a better priority. `LobbyProofs` proves that
this keeps the queue ordered and keeps ids distinct. `WithPlayer` and
`WithoutPlayer` are the successful paths of `add_player` and `remove_player`,
`update_state` included; `CanAdd` is the conjunction of the error returns. The
time fields are not here: `LobbyManager` adds the one bit `should_cleanup` needs.

### LobbyManager

| Variable | Code |
|---|---|
| `issued` | ids `generate_lobby_id` has returned; a UUID is not returned twice |
| `live`, `lobby` | the keys and values of `lobbies`; a removed lobby keeps its last value so that properties can speak of it |
| `request` | the local variables of every `handle_queue_request`: where it is, its player, its lobby, the roster of the event it is about to publish |
| `cleanup` | `lobbies_to_remove` of the pass in progress |
| `stats` | `LobbyManagerStats` |
| `published` | the events the publisher has accepted |

| Action | Code | Atomic because |
|---|---|---|
| `Receive` | start of `handle_queue_request`, `players_queued += 1` | stats lock |
| `FindLobby` | `get_available_lobbies_for_type` and the matcher | read lock, then a local copy |
| `CreateLobby` | insertion in `create_new_lobby` | write lock |
| `CountLobby` | `lobbies_created`, `active_lobbies` | stats lock |
| `AddPlayer` | critical section of `add_player_to_lobby` with its two error returns | write lock |
| `PublishJoined` | `publish_player_joined_lobby(..).await?` | one await |
| `CheckAndStart` | critical section of `check_and_start_game`, statistics nested | write lock |
| `PublishStarting` | `publish_game_starting(..).await?` | one await |
| `RemovePlayer` | `remove_player` | write lock |
| `CleanupScan`, `CleanupRemove` | the two halves of `cleanup_stale_lobbies` | read lock; write lock |
| `FallIdle` | thirty minutes pass in a lobby nobody touched | time |

`FallIdle` needs the handlers to be at an await on the publisher and the cleanup
pass to be between passes: the other gaps are instructions, not minutes. Time in
the gap of a cleanup pass is therefore excluded, and everything the cleanup race
shows happens without it. `RemovePlayer` takes the player from *some* lobby that
holds the id, since a `HashMap` has no order.

`MatcherMayDecline` stands for the matching configuration. With
`MatchingConfig::default()` every joinable lobby scores far above
`wait_threshold`, so the matcher never declines; with another configuration it
may, and the manager then creates a lobby (the `ShouldWait` branch).

### Matchmaking and the refinement

`Matchmaking` is what a player could be told: a lobby is opened, entered and left;
it is closed once, with a team chosen from those in it, of the right size and with
the humans it needs, and with no bot in the place of a human; the announced game
is that team. A lobby may be discarded at any time, and a team may be forfeited.
It knows no queue, handler, lock or cleanup pass.

`Promise` in `LobbyManager` is the instance of it under the refinement mapping:
`phase` is the state of the lobby in the map, `members` the set of ids in its
queue, and `team` the roster that the request between `mark_starting` and the
publish of `GameStarting` carries, or the roster of the published event.
`KeepsPromise` is `Promise!Spec`: `AddPlayer` is an `Enter`, `CheckAndStart` a
`Close`, `PublishStarting` an `Announce` or, when it fails, a `Forfeit`,
`CleanupRemove` a `Discard`, and every other step a stutter. That the roster is
captured under the lock and published after it is the reason this is worth
checking: `PublishStarting_Refreshed`, which reads the queue again before it
publishes, announces other players than those the lobby was closed with.

### TimedLobby and LobbyInstance

`TimedLobby` adds the fields the clock needs: `created_at`, `last_activity`,
`wait_timeout` and the `joined_at` of the queued entries (a function on ids; its
value for an id that is not queued means nothing). `Added` and `Removed` are
`add_player` and `remove_player` whole, in the order of the code:
`set_wait_timeout_if_needed` sees the *old* `last_activity`.

`LobbyInstance` is one instance under every sequence of calls of its trait
(`AddPlayer`, `RemovePlayer`, `MarkStarting`, `MarkGameStarted`) and of ticks of
the clock. Calls that return an error change nothing and are left out as steps.
The clock is `Utc::now()`, which the model lets advance by one unit at a time and
never go back; several calls may read the same time. `occupied` is a history
variable: when the lobby last stopped being empty.

### BotBackfill

| Variable | Code |
|---|---|
| `lobby` | the `LobbyInstance` values whoever owns them passes in, all General |
| `available`, `reserved` | the two collections of `MockBotProvider`, the only provider there is |
| `last_backfill` | `last_backfill_times` |
| `stats` | `BackfillStats`; `failed_backfills` is left out, nothing counts a failure |
| `op` | the local variables of the `backfill_lobby` in progress |

`CallBackfill` is a caller that asks `needs_backfill`, or has a reason of its own
(`Manual`, for the Manual trigger), and then calls `backfill_lobby`; the call is a
step of its own, so that the lobby may change in between. `SelectBots`,
`ReserveBots`, `AddBot` and `FinishBackfill` are `backfill_lobby` between its
awaits. It holds `&mut` borrows of the manager and of its lobby: one backfill at a
time, and its own lobby stands still (`Borrowed`), while players come and go in
the others and bots are withdrawn (`remove_bot`) and brought back (`add_bot`).

The ratings decide which free bots are near enough and which of those come first;
`SelectBots` takes any set of free bots up to the number asked for, the empty one
included. Bots that a lobby gets from the provider do not also queue on their own:
nothing in the code connects the two ways in. `ExtendedWait` stands for twice what
the wait time provider answers. Backfilling is enabled: with `enabled` off there
is nothing to model.

Poisoned locks (a panic inside a critical section) are not modelled.

### Delivery

| Variable | Code |
|---|---|
| `queue`, `unacked` | the durable request queue of the broker (external) and what was pushed on the connection; nothing in the code acknowledges a delivery |
| `process`, `dials`, `connected` | `main` and `connect_with_retry`; the container is started again when it stops |
| `inbox`, `job` | what the consumer was given, and the request it is handling with its publish call |
| `cache` | `published_messages` of the publisher |
| `connections`, `written`, `handled`, `reported` | history |

The manager is reduced to the events one request makes it publish. `Consume` is
`QueueConsumer::consume` with `process_message`, `PublishSucceeds` and `TryFails`
one round of the loop in `publish_to_exchange`, `Disconnect` what the broker does
with the deliveries of a connection that is gone. `TryFails` leaves open whether
the event was written all the same: no confirm is awaited. Nothing in the process
notices a lost connection, so `LoseConnection` leaves it serving and `Exit`, which
may come at any time, is the only way to another one.

`RequestQueue` is what the sender of a request could be told: the request is owed
for ever, each connection may handle it once, and each connection announces its
joining before its game. It knows no push, retry, cache or process. `Promise` in
`Delivery` is its instance with `owed` the messages in `queue` and `unacked`,
`epoch` the connections made and `announced` the events written at least once;
`KeepsPromise` is `Promise!Spec`. `Send` is an `Enqueue`, `Connect` a `Reconnect`,
`PublishSucceeds` and `TryFails` are `Work`, and every other step, the loss of a
connection and the death of the process among them, is a stutter. `Retry_GoesOn`,
which goes on to the game when the retries of the joining are used up, breaks it.

### Service

`config` is what `load_config` made of a file or the environment (`Settings`) and
the command line; `main` is where the owner of the `AppState` is, `tasks` where
each background task is, `is_running`, `aborted`, `consumer`, `handling` and
`subscribed` are the code's. An owner is the program's `main`, which never calls
`shutdown`, or a program that embeds the library, which does. A step lies between
two awaits at which something else can happen. A loop is
`CheckRunning`, `BeginRound`, `EndRound`: `while *is_running`, `tick().await`, the
work. The rounds change nothing the module speaks of; what the cleanup round does
is `CleanupScan` and `CleanupRemove` of `LobbyManager`, and the backfill round only
logs. The health checks are operators on the state: they read.

### Matching, RatingScenarios, RatingStorage, WaitTime

`Matching` computes the scores of the matcher under `MatchingConfig::default()`,
scaled to integers; what the rating library returns (match quality, and the bonus
for an even match) is any value of its range, and compatibility is computed from
the ratings. `Examine` is one round of the loop, `Decide` what follows it.

`RatingScenarios` is the double loop of `calculate_rating_scenarios` over players
and ranks; `BalancedRankings` is `create_balanced_rankings`. The numbers of the
rating library do not appear.

`RatingStorage` has one entry per player, which is the time of its last update.
`PrepareEntries` is a thread with entries in hand, `StoreEntries` the first critical
section of `store_rating` and `store_ratings`, the clean-up the second. Equal
ages may be evicted in any order: the map has none.

`WaitTime` keeps count, sum and sum of squares per kind of wait, as the code
does; the mean, the deviation (rounded down) and the multiplier in percent give
`TargetWait`, and `Clamped` and the fallback what the provider answers.

## 3. Runs

For the manager, lobbies have two places (`MCConfig`: the defaults of the code with capacity 2),
so that joining, filling and overfilling take one, two and three requests; there
are two humans and two bots, so that priority order can be wrong and a player can
repeat a request. Deadlock checking is on: the cleanup task can always run.

| Run | Instance | Shows |
|---|---|---|
| `concurrent` | 3 requests at once by two humans and a bot, failing publisher, one leaver, every lobby may go idle; 663 000 states | `TypeOK`, `StartedOnce`, `QueuesInOrder`, `StatesMatchQueues`, `TotalsExact`, `ActiveLobbiesNearlyExact`, `ReadyHasStarter`, `JoinersListed`, `PlayersAnnounced`, `StartedLobbyClosed`, `KeepsPromise` |
| `overflow` | 4 requests of a human and two bots for either lobby type, two at once, failing publisher, a matcher that may decline; 203 000 states | `OverflowBounded` (tight: a queue of three occurs), `GamesArePlayable` |
| `serial` | 4 requests, one at a time, reliable publisher, both humans may leave, an idle lobby, repeated requests; 236 000 states | `AnnouncedBeforeStart`, `OneOpenLobby` |
| `liveness` | 2 requests at once of humans who may ask for either lobby type, three lobbies, two of which may go idle, one leaver, reliable publisher, `TimedSpec`; 25 000 states | `RequestsAnswered`, `ReadyLobbyStarts`, `EventuallyReclaimed` |
| `backfill` | two lobbies of two places, two humans, two bots, Manual trigger, everybody may leave, bots withdrawn and brought back, clock to 3, both lobbies in use until 1; 798 000 states | `BotsExclusive`, `ReservationsCounted`, `BackfillFits`, `BackfillsSpaced` |
| `delivery` | a request and a malformed message, three connections, one retry of the publisher and one of the connection, `FairSpec`; 210 000 states | `NothingLost`, `CopiesBounded`, `ReportedWritten`, `RequestsHandled`, `KeepsPromise` |
| `service` | the default configuration and those with a zero interval, both owners, `FairSpec`; 198 000 states | `OneLastRound`, `LoopsLast`, `ShutdownQuiesces` |
| `parts` | one part at a time: one lobby of either type, two humans, two bots, `min_human_players` = 1, clock to 4; offers of up to two lobbies of two places; games of up to five; a store of two entries with three players and two threads; three samples under six configurations; 407 000 states | `FirstComeFirstServed`, `TimeoutTracksQueue`, `WaitBounded`, `CleanupSparesActive`; `FirstOfTheBest`; `OutcomesPossible`; `StorageBounded`; `WaitWithinBounds` |

Why these bounds are enough: an interleaving of the handlers is about two of
them and one lobby, or a handler and the cleanup task; a third handler adds the
case of a lobby chosen twice over. `OverflowBounded` and `StartedOnce`, which are
about numbers of handlers, are also proved for any number. For one lobby
in `parts` the base wait is one unit and the idle limit two, so that a clock that stops
at four lets a lobby be idle, be entered again and be idle again. In `backfill` the
cooldown is one unit, so that a backfill called for by the wait can follow another at
times 1 and 3. Sharing bots takes no such time: `SharedTime` ends the clock earlier
where both lobbies are used. A lobby of two places takes one bot in a backfill; for
backfills of several bots there are the theorems. In `liveness` a human who
asks for an AllBot lobby is refused by the one its request has just made, which stays
behind unentered. Two requests make at most two lobbies: in the behaviours that make the
two that may go idle all are reclaimed, and in those that make the third it is never
removed, so that a ready lobby has to start and cannot just be swept away. In
`delivery` two losses separate three connections, which is one more than a request
needs to be handled twice. In `parts` two lobbies make a comparison, three
players overfill a store of two, and two threads can clean up after each other.

The state space of `parts` is cut at the last tick or the last sample, and a service
that has stopped does nothing: these runs, `bad_health` and `bad_distant` do not check
for deadlock.

`concurrent`, `overflow`, `serial`, `backfill` and `parts` use symmetry over
interchangeable ids. Runs with liveness properties do not: symmetry is unsound for
them. (`KeepsPromise` has no liveness part, and its mapping treats all ids alike.)

Properties that hold only in serial use are checked in serial runs and said to be
so: with two handlers a `GameStarting` can overtake a `PlayerJoinedLobby` (what is
left then is `PlayersAnnounced`: the handler that owes the announcement is at it, or
failed to make it) and a joiner can be missing from the roster of its own event (an overfull lobby lists
its first `capacity` players, humans first; `JoinersListed` says that this is the
only way, and that it never costs a human the place of a bot). A failed publish
leaves a full lobby waiting and a retry seats its player again, which is why
`serial` has the reliable publisher.

**Fairness.** In `LobbyManager`, `FairSpec` assumes that a handler which can take a
step eventually does (the runtime polls every task; a publish returns, with success
or failure) and that the cleanup interval ticks. Nobody has to queue or to leave.
`TimedSpec` adds that a lobby nobody touches becomes idle. With a failing publisher
`ReadyLobbyStarts` is false, which is the finding `bad_full`. In `Delivery` the
container is started again whenever it has stopped (`restart: unless-stopped` in
the compose file), the runtime runs what can run and the broker pushes; no dial has
to succeed and no connection has to last, which is why `RequestsHandled` excludes a
service that stays cut off. In `Service` steps of the owner are taken, intervals
tick and an aborted task is dropped at its next await; a round of work may take for
ever, and nobody has to stop the service.

### What the code does not do

Four runs end in a counterexample, each against a sentence of the repository.

* `bad_cleanup`: a lobby that was stale at the scan and was joined before the
  removal is removed with its new player.
* `bad_full`: a failed publish of the joiner's event skips the start check; the
  full lobby is offered to nobody and never starts, although
  `immediate_start_when_full` says it should.
* `bad_health`: a service that serves is found healthy by none of its checks. The
  server binds `metrics_port`, so that the documented `GET /health` on port 8080 is
  refused; it was made without an `AppState` and answers 503 where it does listen;
  and `--health-check`, which the container uses, asks an `AppState` of its own that
  was never started.
* `bad_distant`: no distance between ratings keeps a player out of a lobby.
  `max_rating_difference` is called the "Maximum rating difference allowed for matching"
  and `wait_threshold` the "Minimum score threshold to wait for better matches"
  (`src/lobby/matching.rs:25`, `:29`); `tests/integration/lobby_lifecycle.rs:440-446` queues a
  beginner of 1200 and an expert of 2000 and asserts "Should create separate lobbies for
  different skill levels", and `tests/integration_tests.rs:342` allows for it. But the
  difference costs a lobby 50 points out of a score that never falls below the threshold
  for a lobby with a place. The run has the players of the test; that every player who may
  enter a lobby is matched to one is the theorem `MatcherNeverDeclines`. `OneOpenLobby`,
  which holds, is the same fact seen from the manager: the second player joins the first.

Smaller differences, met while modelling and visible in the actions themselves:

* `CountLobby` after a `CleanupRemove` leaves `active_lobbies` one too high
  (`ActiveLobbiesNearlyExact` bounds the error);
  `players_waiting` is assigned by `CleanupRemove` only.
* `RemovePlayer` publishes no `PlayerLeftLobby`, which `README.md` promises "When a
  player leaves".
* `RemovePlayer` can make an overfull lobby ready that nobody will start, under a
  configuration that requires humans without serving them first (section 4).
* The base wait is counted from the activity *before* the join
  (`src/lobby/instance.rs:170`): in a lobby that stood empty it may be over at once.
* The extended wait does not ask `allow_bot_backfill` (`src/bot/backfill.rs:282`).
* The "Cooldown period between backfill attempts" (`src/bot/backfill.rs:27`) starts in
  `FinishBackfill` when bots were added; an attempt that found no suitable bot, or whose
  bots were all refused, does not start it, and `needs_backfill` may ask for the next one
  at once. `BackfillsSpaced` is about backfills that brought bots and no others.
* A reserved bot that is withdrawn stays reserved; a bot that has played is never given
  back (`ReservationsCounted`).
* The deduplication cache can never hit: every publish call draws a new id.
* `validate_config` accepts `backfill_delay_seconds = 0`, on which the interval of the
  backfill task panics (`LoopsLast`); options of the command line are not validated,
  and `health_port` is validated but not bound.
* `is_running` is set before anything runs and stays set when `start` fails; `main`
  never calls `shutdown`.

## 4. Proofs

All theorems are about the `Spec` of their component and hold for every value of the constants that
satisfies `PlayerAssumption` and `ConfigAssumption` of `Lobby` (a finite set of
players; configurations that `validate_config` accepts) and `ManagerAssumption`
of `LobbyManager` (finite sets of requests and lobby ids, `None` outside them, at
least one handler), `TimeAssumption`, `HorizonAssumption` and
`BackfillAssumption` (numbers are numbers, the backfill configuration passes its
`validate`), `DeliveryAssumption`, `ServiceAssumption`, `MatchingAssumption`,
`ScenarioAssumption`, `StorageAssumption` and `WaitTimeAssumption` (types of their
constants). The runs evaluate these assumptions. Three theorems have a condition of
their own, each named and explained below: `HumansCount`, `SingleConsumer` and
`Gathering`.

| Theorem | States | Argument |
|---|---|---|
| `TypeCorrect` | `TypeOK` always | `TypeInv` = `TypeOK` and every queue duplicate-free and in order |
| `QueuesStayInOrder` | `QueuesInOrder` always | part of `TypeInv` |
| `StatesStayMatched` | `StatesMatchQueues` always | inductive on top of `TypeInv`: each lobby changes only by `WithPlayer`, `WithoutPlayer`, `MarkedStarting` or `NewLobby` |
| `StartedLobbiesStayClosed` | `[][..]_vars` | the guard `Open` of `CanAdd` at the moment of entry, and `UpdateState` leaves Starting alone |
| `LobbiesStayBounded` | `OverflowBounded` always | see below |
| `GamesStartOnce` | `StartedOnce` always | see below |
| `GamesPlayable` | `GamesArePlayable` always | `PlayInv`, see below |
| `ManagerKeepsPromise` | `KeepsPromise`: `LobbyManager` implements `Matchmaking` | step simulation under `TypeInv`, `OnceInv` and `PlayInv`, see below |
| `JoinersAreListed` | `JoinersListed` always | `JoinInv`, see below |
| `ReadyLobbiesHaveStarters` | `ReadyHasStarter` always, if `HumansCount` | a lobby becomes ready by a joining only (`ReadyByEntry`), and who joined it goes on answering for it (`AnswersKept`) |
| `TotalsStayExact` | `TotalsExact` always | each counter and the set it counts change together, or the requests in between (`Counting`) are counted too |
| `ActiveLobbiesStayNear` | `ActiveLobbiesNearlyExact` always | `NearlyInv`: the requests in `Counting` are some of those in flight |
| `PlayersAreAnnounced` | `PlayersAnnounced` always | `AccountInv`, see below |
| `JoiningsComeFirst` | `AnnouncedBeforeStart` always, if `SingleConsumer` | `SerialInv` and `HeardInv`, see below |
| `PlayersAreGathered` | `OneOpenLobby` always, if `Gathering` | `GatherInv`, see below |
| `InstanceTypeCorrect`, `QueueIsFair`, `TimeoutIsTracked`, `WaitIsBounded`, `CleanupIsPatient` | `TypeOK`, `FirstComeFirstServed`, `TimeoutTracksQueue`, `WaitBounded`, `CleanupSparesActive` of `LobbyInstance` always | `InstanceInv`, see below |
| `BackfillTypeCorrect`, `BotsStayExclusive`, `BackfillsFit` | `TypeOK` and `BotsExclusive` of `BotBackfill` always, `BackfillFits` at every step | `BackfillInv`, see below |
| `ReservationsStayCounted`, `BackfillsStaySpaced` | `ReservationsCounted` always, `BackfillsSpaced` at every step | `CountInv` and `SpacedInv` on top of `BackfillInv` |
| `DeliveryTypeCorrect`, `NothingGetsLost`, `HandledAtMostOncePerConnection`, `CopiesStayBounded`, `ReportedIsWritten` | `TypeOK`, `NothingLost`, `HandledOncePerConnection`, `CopiesBounded`, `ReportedWritten` of `Delivery` always | `DeliveryInv`, see below |
| `DeliveryKeepsPromise` | `KeepsPromise`: `Delivery` implements `RequestQueue` | step simulation under `DeliveryInv` and `OrderInv`, see below |
| `ServiceTypeCorrect`, `LoopsStopInTime`, `LoopsKeepRunning` | `TypeOK`, `OneLastRound`, `LoopsLast` of `Service` always | `ServiceInv`, see below |
| `ShutdownIsThorough` | `ShutdownLeavesNothing` always | `AbortedInv`: after the handles are aborted nothing is spawned any more |
| `MatcherNeverDeclines`, `MatcherFindsBest` | `MatchesWheneverJoinable`, `FirstOfTheBest` of `Matching` always | a joinable lobby scores at least 66, the threshold is 30 (`JoinableScore`); `LoopInv` for the loop |
| `ScenariosArePossible` | `OutcomesPossible` of `RatingScenarios` always | `BalancedIsPermutation` and the order of the loops |
| `StorageStaysBounded` | `StorageBounded` always | cardinalities of the map before and after each critical section |
| `WaitsStayWithinBounds` | `WaitWithinBounds` of `WaitTime` always | `WaitInv` and `SquareRootProperties`, see below |

`TypeOK` alone is not inductive: `Dequeue` removes *the* position of an id and
`Enqueue` inserts at *the* position the order determines, and both are only
defined as the code computes them when the queue has no duplicates and is in
order. `LobbyProofs` supplies the facts about those two operations
(`EnqueueProperties`, `DequeueProperties`) from lemmas about `InsertAt` and
`RemoveAt`. `LobbyChange` in `LobbyManagerProofs` lists the ways in which a
step changes a lobby; one lemma shows that every action is among them, and the
other theorems reuse it instead of walking through the actions again.

`OverflowBounded` counts the players in a lobby together with the requests that
have chosen it and not entered yet (`JoiningLobby`): a lobby is chosen only when
it is not full, by a request that is one of at most `MaxConcurrent` in flight, and
entering turns a chooser into a player. The strengthening (`HandlersBounded`)
is that the number of requests in flight never exceeds `MaxConcurrent`.

`StartedOnce` follows from `OnceInv`: a lobby that has a starter or a
`GameStarting` event is in state Starting, which no action leaves, and
`CheckAndStart` needs ReadyToStart.

`GamesArePlayable` follows from `PlayInv`: the queue of every lobby holds nobody
twice and nobody its type does not admit, so the roster copied by `CheckAndStart` is
a team; a roster waiting to be published stays one because no step changes the type
of a lobby, and a published one is never changed.

`KeepsPromise` is proved step by step. One lemma per operation shows which step of
`Matchmaking` it is (`CreateOpens`, `AddEnters`, `RemoveLeaves`, `CheckCloses`,
`PublishAnnounces`, `CleanupDiscards`), and `QuietHandlers` that the others are
stutters. What has to be shown besides the lobby that is acted on is that the other
teams stay what they are (`TeamsKept`): the team of a lobby is read off the request
that carries it, or off the event, and `OnceInv` makes it one and the same through the
publish.

`JoinersListed` needs that a player who was just queued is among the active ones
unless the active places are taken by players at least as important (`JoinerListed`);
the roster is copied in the same critical section, and `JoinInv` carries the fact to
the event.

`ReadyHasStarter` holds under a condition, and the proof is what brought it to light.
Nobody checks whether a lobby can start after a departure, so a departure must never
be what makes it ready. In an overfull lobby it can: with `min_human_players` = 2,
`prioritize_humans` off and two places, a queue of a human, a bot and a human waits, the
three who joined have checked, the bot leaves, and the lobby is ready for two humans
whom nothing will start. `HumansCount` excludes it: every lobby type serves humans first
or requires none. Both default configurations do; `validate_config` does not ask.

`PlayersAnnounced` follows from `AccountInv`, which says the same of everybody who sits
in a lobby or on a roster that is to be published, whatever becomes of the lobby: a
player comes in by a step whose handler then owes the announcement (`EntryOwed`), and
a debt is paid, kept or written off as failed (`OwedMoves`), never forgotten. Rosters
are taken from queues (`TeamQueued`), so games inherit the account.

`AnnouncedBeforeStart` is what remains of it when nobody can be overtaken.
`SingleConsumer` is `MaxConcurrent` = 1 and a publisher that does not fail. Then
there is one handler (`OneHandler`), no request has failed after it seated its player
(`SerialInv`), and when the handler asks whether the lobby can start it has announced
its own player: nobody is left who owes anything (`NobodyOwes`, `HeardInv`). With a
failing publisher the property is false already for one consumer, since a request that
failed leaves its player in the lobby.

`OneOpenLobby` holds under `Gathering`: a single consumer, a matcher that never declines,
and a General lobby that starts when it is full, without asking for humans. `GatherInv`
says that one General lobby at most is open, full or not, and none while a new one is
about to be inserted. A lobby that is open and full is one whose joiner has not checked
it yet (`FullIsWatched`, from `ReadyHasStarter` and `StatesMatchQueues`), and the
handler that looks for a lobby is not that joiner; so it finds the open lobby or there
is none. The condition on the configuration is needed: a full lobby that does not start
cannot be joined, a second one is opened, and a departure from the first leaves two.
The defaults satisfy it.

`InstanceInv` ties the clock readings together: nobody joined after
`last_activity`, and `wait_timeout` is at most the base wait after *every* queued
`joined_at`. The second is what a first look misses: it survives a new arrival
only because the timeout was set from an activity that is not later than any join
since. `FirstComeFirstServed` is inductive with the lemmas `EnqueueOrder` and
`DequeueOrder`: old entries keep their order, and a new one stands behind all of
its own priority, who joined no later.

`BackfillInv` follows the bots in hand: selected bots are free until they are
reserved, those still to be added sit nowhere, those given back were never added,
and the lobby has a free place for each bot still to come (`RoomLeft`).

`CountInv` follows the reservations through a backfill: those of the bots still to
be added, those seated in this backfill, and those counted before. `SpacedInv`
carries what `needs_backfill` found out about the cooldown to the end of the
backfill it led to.

`DeliveryInv` says where a request can be: at one place of the broker at most, in the
process only if the broker has it too, and no longer in the inbox when it is being
handled. What is still ahead on a connection was handled at most once on each
earlier one and nothing of it was written on this one. An event in the cache was
written, and the event being published has been written at most once for every
attempt so far.

`KeepsPromise` of `Delivery` is proved step by step as that of the manager is. That the
request at work is owed and was handled less often than there were connections is in
`DeliveryInv`, and so is that the broker gets back all it had pushed (`DisconnectParts`).
The order of the events needs `OrderInv`: a game is being published only after the
joining of the same request on the same connection was written. What the deduplication
cache would skip was written before, so it does not matter whether it ever hits.

`ServiceInv` says what exists in which phase of the owner: no task before it is
spawned, the flag up exactly between start and shutdown, nobody but the monitor
aborted while it is up; a loop that began a round too late is not waiting for
another. `AbortedInv` adds the end of the shutdown; that the tasks then do end is
`ShutdownQuiesces`, which needs fairness.

`WaitInv` keeps the recorded sums natural numbers and the configuration one that
`validate_config` accepted. The estimate contains an integer square root, chosen as
*the* number with r * r <= n < (r + 1) * (r + 1); that there is one (`SquareRootProperties`)
is the only place where the proofs need induction. It comes from `LeastNumber`, that a
non-empty set of numbers has a least one, which follows from the library's
theorem that < is well-founded on the numbers and needs no operator as a parameter.

The library modules are proved for their own specifications (`MatchSpec`,
`ScenarioSpec`, `StorageSpec`, `WaitSpec`); `MCParts` runs each of them with the others standing
still.

Only model-checked: the liveness properties `RequestsAnswered`, `ReadyLobbyStarts`,
`EventuallyReclaimed`, `RequestsHandled` and `ShutdownQuiesces` (fairness and ENABLED
are outside the prover). Every invariant and every action property that a passing run
checks is also the statement of a theorem. The other way round, some theorems state what
no run repeats: the type invariants of the components but the manager's,
`HandledOncePerConnection`, which `KeepsPromise` of `Delivery` implies,
`ShutdownLeavesNothing`, the part of `ShutdownQuiesces` that needs no fairness, and
`MatchesWheneverJoinable`, which says that what `bad_distant` shows of two players
holds of all.

## 5. Not modelled, and the plan

What is left, most important first:

1. The composition of `Delivery` and `LobbyManager`: what a request that is
   delivered again does to the lobbies. `LobbyManager` has repeated requests of a
   player, `Delivery` has the repetition; no module has both.
2. A second `start` after `shutdown` of the same `AppState`.

Left out for good:

* the numerics of the rating model (floating point of an external library);
* metrics (written, never read by the program);
* the parsing of files and environments, logging, the payloads of events;
* code without a caller in the program: `AmqpConnectionPool`, `DeadLetterHandler`,
  `publish_player_left_lobby`, `update_config` of the backfill manager; the mocks, of
  which only the bot provider is used by the service;
* the command-line queue tester.
