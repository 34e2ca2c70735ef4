------------------------------- MODULE Service -------------------------------
(***************************************************************************)
(* The life of the service: its configuration (src/config/app.rs),         *)
(* AppState::new, start and shutdown with the background tasks             *)
(* (src/service/app.rs), the program around them (src/main.rs), the health *)
(* checks (src/service/health.rs) and the server that answers them         *)
(* (src/metrics/health.rs).                                                *)
(*                                                                         *)
(* An AppState has one of two owners: main, which waits for a signal, stops*)
(* its own health task, sleeps and returns, or a program that embeds the   *)
(* library and calls shutdown.  A step of the owner lies between two awaits*)
(* at which something else can happen; a background task is a loop that    *)
(* reads is_running, waits for its interval and does one round of work.    *)
(***************************************************************************)
EXTENDS Naturals, FiniteSets

CONSTANT Settings   \* what files and environments may say, well-typed

\* AppConfig, as far as the life of the service depends on it.
AppConfig ==
    [cleanup_interval_seconds : Nat, backfill_delay_seconds : Nat,
     enable_bot_backfill : BOOLEAN, health_port : Nat, metrics_port : Nat]

ASSUME ServiceAssumption == Settings \subseteq AppConfig

DefaultConfig ==
    [cleanup_interval_seconds |-> 60, backfill_delay_seconds |-> 30,
     enable_bot_backfill |-> TRUE, health_port |-> 8080, metrics_port |-> 9090]

ValidConfig_AnyInterval(c) == c.health_port # 0

\* validate_config; the values that nothing here depends on are left out.
ValidConfig(c) ==
    /\ c.health_port # 0
    /\ c.cleanup_interval_seconds # 0

Owner == {"main", "embedder"}

\* The loops start_background_tasks can spawn; those of AppState::background_tasks;
\* and the health_check_task of main.
Loop == {"metrics", "cleanup", "backfill", "health"}
Background == Loop \cup {"server"}
Task == Background \cup {"monitor"}

VARIABLES
    config,      \* the configuration of the AppState
    owner,       \* who has the AppState
    main,        \* where the owner is
    is_running,
    tasks,       \* where each task is
    aborted,     \* the tasks whose handle was aborted
    subscribed,  \* whether the health server listens for the stop signal
    consumer,    \* the AMQP consumer
    handling,    \* whether the consumer is in handle_queue_request
    late         \* rounds each task began with is_running false, a history variable

vars == <<config, owner, main, is_running, tasks, aborted, subscribed, consumer, handling, late>>

\* An owner is done with the AppState in "failed" and "stopped", a process in "exited".
MainState == {"load", "connect", "matchmaking", "start", "consume", "spawn", "serving",
              "sleeping", "stop_consumer", "abort", "stop_server", "failed",
              "stopped", "exited"}

TaskState == {"none", "checking", "waiting", "working", "binding", "listening", "ended"}

TypeOK ==
    /\ config \in AppConfig
    /\ owner \in Owner
    /\ main \in MainState
    /\ is_running \in BOOLEAN
    /\ tasks \in [Task -> TaskState]
    /\ aborted \subseteq Task
    /\ subscribed \in BOOLEAN
    /\ consumer \in {"none", "consuming", "cancelled"}
    /\ handling \in BOOLEAN
    /\ late \in [Task -> Nat]

Init ==
    /\ config = DefaultConfig
    /\ owner \in Owner
    /\ main = "load"
    /\ is_running = FALSE
    /\ tasks = [t \in Task |-> "none"]
    /\ aborted = {}
    /\ subscribed = FALSE
    /\ consumer = "none" /\ handling = FALSE
    /\ late = [t \in Task |-> 0]

\* Tasks ts are spawned, each at s.
Spawned(ts, s) == [t \in Task |-> IF t \in ts THEN s ELSE tasks[t]]

Live(t) == tasks[t] \notin {"none", "ended"}

\* Everything the process ran ends with it.
Exit ==
    /\ main' = "exited"
    /\ tasks' = [t \in Task |-> IF Live(t) THEN "ended" ELSE tasks[t]]
    /\ consumer' = "none" /\ handling' = FALSE

\* main exits with 1 when new or start fails; another owner has the error.
Fail ==
    IF owner = "main" THEN Exit
    ELSE main' = "failed" /\ UNCHANGED <<tasks, consumer, handling>>
-----------------------------------------------------------------------------
(***************************************************************************)
(* load_config, new, start and shutdown.                                   *)
(***************************************************************************)

\* from_file or from_env; the options of the command line are applied afterwards and
\* not validated.
LoadConfig(c, no_bot_backfill) ==
    /\ main = "load"
    /\ IF ValidConfig(c)
       THEN /\ config' = [c EXCEPT !.enable_bot_backfill = @ /\ ~no_bot_backfill]
            /\ main' = "connect"
            /\ UNCHANGED <<tasks, consumer, handling>>
       ELSE Fail /\ UNCHANGED config
    /\ UNCHANGED <<owner, is_running, aborted, subscribed, late>>

\* initialize_amqp and initialize_metrics.
Initialize ==
    /\ main = "connect"
    /\ \/ main' = "matchmaking" /\ UNCHANGED <<tasks, consumer, handling>>
       \/ Fail
    /\ UNCHANGED <<config, owner, is_running, aborted, subscribed, late>>

\* initialize_matchmaking_system: a channel and the exchanges of the publisher.
InitializeMatchmaking ==
    /\ main = "matchmaking"
    /\ \/ main' = "start" /\ UNCHANGED <<tasks, consumer, handling>>
       \/ Fail
    /\ UNCHANGED <<config, owner, is_running, aborted, subscribed, late>>

\* start: the service counts as running before anything of it runs.
Start ==
    /\ main = "start"
    /\ main' = "consume"
    /\ is_running' = TRUE
    /\ tasks' = Spawned({"server"}, "binding")
    /\ UNCHANGED <<config, owner, aborted, subscribed, consumer, handling, late>>

\* start_amqp_consumption; what was started stays when it fails.
StartConsumption ==
    /\ main = "consume"
    /\ \/ /\ main' = "spawn"
          /\ consumer' = "consuming"
          /\ UNCHANGED <<tasks, handling>>
       \/ Fail
    /\ UNCHANGED <<config, owner, is_running, aborted, subscribed, late>>

\* start_background_tasks, and main spawns its own health task.
StartBackgroundTasks ==
    /\ main = "spawn"
    /\ main' = "serving"
    /\ tasks' = Spawned({t \in Loop : t = "backfill" => config.enable_bot_backfill} \cup
                        {t \in {"monitor"} : owner = "main"}, "checking")
    /\ UNCHANGED <<config, owner, is_running, aborted, subscribed, consumer, handling, late>>

\* shutdown: the flag first.  It may be called after a failed start as well.
Shutdown ==
    /\ owner = "embedder" /\ main \in {"serving", "failed"}
    /\ is_running
    /\ main' = "stop_consumer"
    /\ is_running' = FALSE
    /\ UNCHANGED <<config, owner, tasks, aborted, subscribed, consumer, handling, late>>

StopConsumer_Propagates ==
    /\ main = "stop_consumer"
    /\ \/ consumer = "none" /\ main' = "abort" /\ UNCHANGED consumer
       \/ consumer = "consuming" /\ main' = "abort" /\ consumer' = "cancelled"
       \/ consumer = "consuming" /\ main' = "failed" /\ UNCHANGED consumer
    /\ UNCHANGED <<config, owner, is_running, tasks, aborted, subscribed, handling, late>>

\* stop_consuming; that it failed is only logged.
StopConsumer ==
    /\ main = "stop_consumer"
    /\ main' = "abort"
    /\ \/ UNCHANGED consumer
       \/ consumer = "consuming" /\ consumer' = "cancelled"
    /\ UNCHANGED <<config, owner, is_running, tasks, aborted, subscribed, handling, late>>

\* stop_background_tasks aborts the handles and sleeps; it does not wait for them.
AbortTasks ==
    /\ main = "abort"
    /\ main' = "stop_server"
    /\ aborted' = aborted \cup {t \in Background : tasks[t] # "none"}
    /\ UNCHANGED <<config, owner, is_running, tasks, subscribed, consumer, handling, late>>

\* MetricsService::stop and the final statistics.  The stop signal reaches the server
\* if it has subscribed.
StopServer ==
    /\ main = "stop_server"
    /\ main' = "stopped"
    /\ tasks' = IF subscribed /\ tasks["server"] = "listening"
                THEN [tasks EXCEPT !["server"] = "ended"] ELSE tasks
    /\ UNCHANGED <<config, owner, is_running, aborted, subscribed, consumer, handling, late>>
-----------------------------------------------------------------------------
(***************************************************************************)
(* main after a signal.                                                    *)
(***************************************************************************)

\* wait_for_shutdown_signal returns; AppState::shutdown is not called.
HandleSignal ==
    /\ owner = "main" /\ main = "serving"
    /\ main' = "sleeping"
    /\ aborted' = aborted \cup {"monitor"}
    /\ UNCHANGED <<config, owner, is_running, tasks, subscribed, consumer, handling, late>>

\* main returns after the sleep, and the runtime goes with everything in it.
Return ==
    /\ main = "sleeping"
    /\ Exit
    /\ UNCHANGED <<config, owner, is_running, aborted, subscribed, late>>
-----------------------------------------------------------------------------
(***************************************************************************)
(* The background tasks and the consumer.                                  *)
(***************************************************************************)

\* The period of the interval of task t, in seconds.
Period(t) ==
    CASE t = "cleanup" -> config.cleanup_interval_seconds
      [] t = "backfill" -> config.backfill_delay_seconds
      [] t = "health" -> 60
      [] OTHER -> 30

CheckRunning_Loops(t) ==
    /\ t \in Loop \cup {"monitor"} /\ tasks[t] = "checking"
    /\ tasks' = [tasks EXCEPT ![t] = IF Period(t) # 0 THEN "waiting" ELSE "ended"]
    /\ UNCHANGED <<config, owner, main, is_running, aborted, subscribed, consumer, handling, late>>

\* while *is_running.read().await; before the first time tokio's interval has panicked
\* and ended the task if the period is zero.
CheckRunning(t) ==
    /\ t \in Loop \cup {"monitor"} /\ tasks[t] = "checking"
    /\ tasks' = [tasks EXCEPT ![t] = IF is_running /\ Period(t) # 0
                                     THEN "waiting" ELSE "ended"]
    /\ UNCHANGED <<config, owner, main, is_running, aborted, subscribed, consumer, handling, late>>

\* interval.tick().await returns and the work begins, whatever has become of the flag.
BeginRound(t) ==
    /\ t \in Loop \cup {"monitor"} /\ tasks[t] = "waiting"
    /\ tasks' = [tasks EXCEPT ![t] = "working"]
    /\ late' = [late EXCEPT ![t] = @ + (IF is_running THEN 0 ELSE 1)]
    /\ UNCHANGED <<config, owner, main, is_running, aborted, subscribed, consumer, handling>>

\* The round is over; errors in it are logged.
EndRound(t) ==
    /\ t \in Loop \cup {"monitor"} /\ tasks[t] = "working"
    /\ tasks' = [tasks EXCEPT ![t] = "checking"]
    /\ UNCHANGED <<config, owner, main, is_running, aborted, subscribed, consumer, handling, late>>

\* HealthServer::start binds the port, or its task ends with an error ...
Bind ==
    /\ tasks["server"] = "binding"
    /\ \E s \in {"listening", "ended"} :
        /\ tasks' = [tasks EXCEPT !["server"] = s]
        /\ subscribed' = (s = "listening")
    /\ UNCHANGED <<config, owner, main, is_running, aborted, consumer, handling, late>>

\* The runtime drops an aborted task at an await.
Cancelled(t) ==
    /\ t \in aborted /\ Live(t)
    /\ tasks' = [tasks EXCEPT ![t] = "ended"]
    /\ UNCHANGED <<config, owner, main, is_running, aborted, subscribed, consumer, handling, late>>

\* The consumer takes up a request and finishes it; nothing waits for it to do so.
TakeRequest ==
    /\ consumer = "consuming" /\ ~handling
    /\ handling' = TRUE
    /\ UNCHANGED <<config, owner, main, is_running, tasks, aborted, subscribed, consumer, late>>

FinishRequest ==
    /\ handling
    /\ handling' = FALSE
    /\ UNCHANGED <<config, owner, main, is_running, tasks, aborted, subscribed, consumer, late>>
-----------------------------------------------------------------------------
MainStep ==
    \/ \E c \in Settings, no_bot_backfill \in BOOLEAN : LoadConfig(c, no_bot_backfill)
    \/ Initialize \/ InitializeMatchmaking \/ Start \/ StartConsumption
    \/ StartBackgroundTasks \/ StopConsumer \/ AbortTasks \/ StopServer \/ Return

Next ==
    \/ MainStep \/ Shutdown \/ HandleSignal
    \/ \E t \in Task : CheckRunning(t) \/ BeginRound(t) \/ EndRound(t) \/ Cancelled(t)
    \/ Bind \/ TakeRequest \/ FinishRequest

Spec == Init /\ [][Next]_vars

\* The runtime runs what can run and intervals tick.  A round of work may take as long
\* as it likes, and nobody has to stop the service.
Fairness ==
    /\ WF_vars(MainStep)
    /\ WF_vars(Bind)
    /\ \A t \in Task :
        /\ WF_vars(CheckRunning(t))
        /\ WF_vars(BeginRound(t))
        /\ WF_vars(Cancelled(t))

FairSpec == Spec /\ Fairness
-----------------------------------------------------------------------------
(***************************************************************************)
(* The health checks.                                                      *)
(***************************************************************************)

\* HealthCheck::check: the worst of its parts.  The lobby manager can always be read,
\* for nothing takes the lock around it for writing; the connection is not looked at.
CheckedHealth(running) == IF running THEN "healthy" ELSE "unhealthy"

\* liveness_check.
Alive(running) == IF running THEN "healthy" ELSE "unhealthy"

\* parlor-room --health-check: it asks an AppState of its own, which was never started.
HealthCheckExit == IF CheckedHealth(FALSE) = "healthy" THEN 0 ELSE 1

\* GET /health of a server whose state has the AppState or not; the one that
\* initialize_metrics makes has none.
HealthStatus(has_app_state) ==
    IF has_app_state /\ Alive(is_running) = "healthy" THEN 200 ELSE 503

ServerHasAppState == FALSE

\* What GET /health on a port answers: the server binds metrics_port.
Refused == 0
GetHealth(port) ==
    IF tasks["server"] = "listening" /\ port = config.metrics_port
    THEN HealthStatus(ServerHasAppState) ELSE Refused
-----------------------------------------------------------------------------
\* A loop begins at most one more round once is_running is false: it reads the flag
\* before it waits and not after.
OneLastRound == \A t \in Task : late[t] <= 1

\* A background task ends early only because its interval is zero, and of the tasks
\* that have one configured validate_config protects the cleanup but not the backfill.
LoopsLast ==
    is_running /\ main # "exited" =>
        \A t \in Loop : tasks[t] = "ended" =>
            t = "backfill" /\ config.backfill_delay_seconds = 0

\* When shutdown is over, what of the background still runs has been told to end,
\* also after a start that failed half-way, and also a server that had not bound its
\* port when the stop signal was sent and never hears it.
ShutdownLeavesNothing ==
    main = "stopped" =>
        /\ ~is_running
        /\ \A t \in Background : Live(t) => t \in aborted

\* After shutdown has been called every background task ends, also when the consumer
\* could not be stopped and whatever the task was doing.
ShutdownQuiesces ==
    (main = "stop_consumer") ~> (\A t \in Background : ~Live(t))

\* README.md: "Check health": a service that serves is found healthy, by GET /health
\* on one of its ports or by --health-check.
ServingIsHealthy ==
    main = "serving" /\ tasks["server"] = "listening" =>
        \/ \E port \in {config.health_port, config.metrics_port} : GetHealth(port) = 200
        \/ HealthCheckExit = 0
=============================================================================
