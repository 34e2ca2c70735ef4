---------------------------- MODULE ServiceProofs ----------------------------
(***************************************************************************)
(* What Service guarantees for every set of configurations: how long its   *)
(* background loops last, and that they do not outlast is_running by more  *)
(* than a round.                                                           *)
(***************************************************************************)
EXTENDS Service, TLAPS

Starting == {"load", "connect", "matchmaking", "start"}
Stopping == {"stop_consumer", "abort", "stop_server", "stopped"}

\* Until the background tasks are spawned there is none, and nobody is aborted.
NothingYet ==
    main \in Starting \cup {"consume", "spawn"} =>
        /\ \A t \in Loop \cup {"monitor"} : tasks[t] = "none"
        /\ \A t \in Task : late[t] = 0
        /\ aborted = {}

\* The flag is up from start to shutdown, and only shutdown aborts background tasks.
FlagFollowsMain ==
    /\ main \in Starting \cup Stopping => ~is_running
    /\ is_running => aborted \subseteq {"monitor"}

\* A loop that began a round too late reads the flag before it can wait again.
LateRounds ==
    \A t \in Task :
        late[t] = 0 \/ (late[t] = 1 /\ ~is_running /\ tasks[t] # "waiting")

ServiceInv ==
    /\ TypeOK /\ ValidConfig(config)
    /\ NothingYet /\ FlagFollowsMain /\ LateRounds /\ LoopsLast

LEMMA Tasks ==
    /\ Loop \subseteq Background /\ Background \subseteq Task
    /\ "monitor" \in Task /\ "monitor" \notin Background
    /\ "server" \in Background /\ "server" \notin Loop
BY DEF Loop, Background, Task

LEMMA ServiceStart == Init => ServiceInv
<1> SUFFICES ASSUME Init PROVE ServiceInv
  OBVIOUS
<1>1. DefaultConfig \in AppConfig /\ ValidConfig(DefaultConfig)
  BY DEF DefaultConfig, AppConfig, ValidConfig
<1>2. TypeOK
  BY <1>1 DEF Init, TypeOK, MainState, TaskState
<1>3. NothingYet /\ FlagFollowsMain /\ LateRounds /\ LoopsLast
  BY Tasks DEF Init, NothingYet, FlagFollowsMain, LateRounds, LoopsLast, Starting, Stopping
<1>4. QED
  BY <1>1, <1>2, <1>3 DEF ServiceInv, Init

LEMMA TypeStep == TypeOK /\ [Next]_vars => TypeOK'
<1> SUFFICES ASSUME TypeOK, [Next]_vars PROVE TypeOK'
  OBVIOUS
<1> USE DEF TypeOK, MainState, TaskState
<1>1. ASSUME NEW c \in Settings, NEW b \in BOOLEAN, LoadConfig(c, b) PROVE TypeOK'
  <2>1. c \in AppConfig
    BY ServiceAssumption
  <2>2. [c EXCEPT !.enable_bot_backfill = @ /\ ~b] \in AppConfig
    BY <2>1 DEF AppConfig
  <2>3. QED
    BY <1>1, <2>2 DEF LoadConfig, Fail, Exit
<1>2. CASE Initialize \/ InitializeMatchmaking \/ StartConsumption \/ Return
  BY <1>2 DEF Initialize, InitializeMatchmaking, StartConsumption, Return, Fail, Exit
<1>3. CASE Start \/ StartBackgroundTasks
  BY <1>3 DEF Start, StartBackgroundTasks, Spawned
<1>4. CASE Shutdown \/ HandleSignal
  BY <1>4 DEF Shutdown, HandleSignal, Task
<1>5. CASE StopConsumer \/ AbortTasks
  BY <1>5 DEF StopConsumer, AbortTasks, Task
<1>6. CASE StopServer
  BY <1>6 DEF StopServer
<1>7. ASSUME NEW t \in Task, CheckRunning(t) \/ EndRound(t) \/ Cancelled(t) PROVE TypeOK'
  BY <1>7 DEF CheckRunning, EndRound, Cancelled
<1>8. ASSUME NEW t \in Task, BeginRound(t) PROVE TypeOK'
  BY <1>8 DEF BeginRound
<1>9. CASE Bind
  BY <1>9 DEF Bind
<1>10. CASE TakeRequest \/ FinishRequest \/ UNCHANGED vars
  BY <1>10 DEF TakeRequest, FinishRequest, vars
<1>11. QED
  BY <1>1, <1>2, <1>3, <1>4, <1>5, <1>6, <1>7, <1>8, <1>9, <1>10 DEF Next, MainStep

LEMMA ConfigStep == ValidConfig(config) /\ TypeOK /\ [Next]_vars => ValidConfig(config')
<1> SUFFICES ASSUME ValidConfig(config), TypeOK, [Next]_vars PROVE ValidConfig(config')
  OBVIOUS
<1>1. ASSUME NEW c \in Settings, NEW b \in BOOLEAN, LoadConfig(c, b) PROVE ValidConfig(config')
  <2>1. c \in AppConfig
    BY ServiceAssumption
  <2>2. QED
    BY <1>1, <2>1 DEF LoadConfig, ValidConfig, AppConfig
<1>2. CASE config' = config
  BY <1>2
<1>3. QED
  BY <1>1, <1>2 DEF Next, MainStep, Initialize, InitializeMatchmaking, Start, StartConsumption,
       StartBackgroundTasks, StopConsumer, AbortTasks, StopServer, Return, Shutdown,
       HandleSignal, CheckRunning, BeginRound, EndRound, Cancelled, Bind, TakeRequest,
       FinishRequest, vars

LEMMA ServiceStep == ServiceInv /\ [Next]_vars => ServiceInv'
<1> SUFFICES ASSUME ServiceInv, [Next]_vars PROVE ServiceInv'
  OBVIOUS
<1> DEFINE Rest == NothingYet /\ FlagFollowsMain /\ LateRounds /\ LoopsLast
<1>0. /\ TypeOK /\ ValidConfig(config) /\ Rest
      /\ tasks \in [Task -> TaskState] /\ late \in [Task -> Nat]
  BY DEF ServiceInv, TypeOK
<1>types. TypeOK' /\ ValidConfig(config')
  BY <1>0, TypeStep, ConfigStep
<1> USE Tasks DEF NothingYet, FlagFollowsMain, LateRounds, LoopsLast, Starting, Stopping
<1>1. ASSUME NEW c \in Settings, NEW b \in BOOLEAN, LoadConfig(c, b) PROVE Rest'
  <2>1. NothingYet' /\ FlagFollowsMain'
    BY <1>0, <1>1 DEF LoadConfig, Fail, Exit
  <2>2. LateRounds'
    BY <1>0, <1>1 DEF LoadConfig, Fail, Exit
  <2>3. LoopsLast'
    BY <1>0, <1>1 DEF LoadConfig, Fail, Exit
  <2>4. QED
    BY <2>1, <2>2, <2>3
<1>2. ASSUME Initialize PROVE Rest'
  <2>1. NothingYet' /\ FlagFollowsMain'
    BY <1>0, <1>2 DEF Initialize, Fail, Exit
  <2>2. LateRounds'
    BY <1>0, <1>2 DEF Initialize, Fail, Exit
  <2>3. LoopsLast'
    BY <1>0, <1>2 DEF Initialize, Fail, Exit
  <2>4. QED
    BY <2>1, <2>2, <2>3
<1>3. ASSUME InitializeMatchmaking PROVE Rest'
  <2>1. NothingYet' /\ FlagFollowsMain'
    BY <1>0, <1>3 DEF InitializeMatchmaking, Fail, Exit
  <2>2. LateRounds'
    BY <1>0, <1>3 DEF InitializeMatchmaking, Fail, Exit
  <2>3. LoopsLast'
    BY <1>0, <1>3 DEF InitializeMatchmaking, Fail, Exit
  <2>4. QED
    BY <2>1, <2>2, <2>3
<1>4. ASSUME Start PROVE Rest'
  <2>1. NothingYet' /\ FlagFollowsMain'
    BY <1>0, <1>4 DEF Start, Spawned
  <2>2. LateRounds'
    BY <1>0, <1>4 DEF Start, Spawned
  <2>3. LoopsLast'
    BY <1>0, <1>4 DEF Start, Spawned
  <2>4. QED
    BY <2>1, <2>2, <2>3
<1>5. ASSUME StartConsumption PROVE Rest'
  <2>1. NothingYet' /\ FlagFollowsMain'
    BY <1>0, <1>5 DEF StartConsumption, Fail, Exit
  <2>2. LateRounds'
    BY <1>0, <1>5 DEF StartConsumption, Fail, Exit
  <2>3. LoopsLast'
    BY <1>0, <1>5 DEF StartConsumption, Fail, Exit
  <2>4. QED
    BY <2>1, <2>2, <2>3
<1>6. ASSUME StartBackgroundTasks PROVE Rest'
  <2>1. NothingYet' /\ FlagFollowsMain'
    BY <1>0, <1>6 DEF StartBackgroundTasks, Spawned
  <2>2. LateRounds'
    BY <1>0, <1>6 DEF StartBackgroundTasks, Spawned
  <2>3. LoopsLast'
    BY <1>0, <1>6 DEF StartBackgroundTasks, Spawned
  <2>4. QED
    BY <2>1, <2>2, <2>3
<1>7. ASSUME Shutdown PROVE Rest'
  <2>1. NothingYet' /\ FlagFollowsMain'
    BY <1>0, <1>7 DEF Shutdown
  <2>2. LateRounds'
    BY <1>0, <1>7 DEF Shutdown
  <2>3. LoopsLast'
    BY <1>0, <1>7 DEF Shutdown
  <2>4. QED
    BY <2>1, <2>2, <2>3
<1>8. ASSUME HandleSignal PROVE Rest'
  <2>1. NothingYet' /\ FlagFollowsMain'
    BY <1>0, <1>8 DEF HandleSignal
  <2>2. LateRounds'
    BY <1>0, <1>8 DEF HandleSignal
  <2>3. LoopsLast'
    BY <1>0, <1>8 DEF HandleSignal
  <2>4. QED
    BY <2>1, <2>2, <2>3
<1>9. ASSUME StopConsumer PROVE Rest'
  <2>1. NothingYet' /\ FlagFollowsMain'
    BY <1>0, <1>9 DEF StopConsumer
  <2>2. LateRounds'
    BY <1>0, <1>9 DEF StopConsumer
  <2>3. LoopsLast'
    BY <1>0, <1>9 DEF StopConsumer
  <2>4. QED
    BY <2>1, <2>2, <2>3
<1>10. ASSUME AbortTasks PROVE Rest'
  <2>1. NothingYet' /\ FlagFollowsMain'
    BY <1>0, <1>10 DEF AbortTasks
  <2>2. LateRounds'
    BY <1>0, <1>10 DEF AbortTasks
  <2>3. LoopsLast'
    BY <1>0, <1>10 DEF AbortTasks
  <2>4. QED
    BY <2>1, <2>2, <2>3
<1>11. ASSUME StopServer PROVE Rest'
  <2>1. NothingYet' /\ FlagFollowsMain'
    BY <1>0, <1>11 DEF StopServer
  <2>2. LateRounds'
    BY <1>0, <1>11 DEF StopServer
  <2>3. LoopsLast'
    BY <1>0, <1>11 DEF StopServer
  <2>4. QED
    BY <2>1, <2>2, <2>3
<1>12. ASSUME Return PROVE Rest'
  <2>1. NothingYet' /\ FlagFollowsMain'
    BY <1>0, <1>12 DEF Return, Exit
  <2>2. LateRounds'
    BY <1>0, <1>12 DEF Return, Exit
  <2>3. LoopsLast'
    BY <1>0, <1>12 DEF Return, Exit
  <2>4. QED
    BY <2>1, <2>2, <2>3
<1>13. ASSUME Bind PROVE Rest'
  <2>1. NothingYet' /\ FlagFollowsMain'
    BY <1>0, <1>13 DEF Bind
  <2>2. LateRounds'
    BY <1>0, <1>13 DEF Bind
  <2>3. LoopsLast'
    BY <1>0, <1>13 DEF Bind
  <2>4. QED
    BY <2>1, <2>2, <2>3
<1>14. ASSUME TakeRequest \/ FinishRequest \/ UNCHANGED vars PROVE Rest'
  <2>1. NothingYet' /\ FlagFollowsMain'
    BY <1>0, <1>14 DEF TakeRequest, FinishRequest, vars
  <2>2. LateRounds'
    BY <1>0, <1>14 DEF TakeRequest, FinishRequest, vars
  <2>3. LoopsLast'
    BY <1>0, <1>14 DEF TakeRequest, FinishRequest, vars
  <2>4. QED
    BY <2>1, <2>2, <2>3
<1>15. ASSUME NEW t \in Task, CheckRunning(t) PROVE Rest'
  <2>1. NothingYet' /\ FlagFollowsMain'
    BY <1>0, <1>15 DEF CheckRunning, Period, ValidConfig, Loop
  <2>2. LateRounds'
    BY <1>0, <1>15 DEF CheckRunning, Period, ValidConfig, Loop
  <2>3. LoopsLast'
    BY <1>0, <1>15 DEF CheckRunning, Period, ValidConfig, Loop
  <2>4. QED
    BY <2>1, <2>2, <2>3
<1>16. ASSUME NEW t \in Task, BeginRound(t) PROVE Rest'
  <2>1. NothingYet' /\ FlagFollowsMain'
    BY <1>0, <1>16 DEF BeginRound
  <2>2. LateRounds'
    BY <1>0, <1>16 DEF BeginRound
  <2>3. LoopsLast'
    BY <1>0, <1>16 DEF BeginRound
  <2>4. QED
    BY <2>1, <2>2, <2>3
<1>17. ASSUME NEW t \in Task, EndRound(t) PROVE Rest'
  <2>1. NothingYet' /\ FlagFollowsMain'
    BY <1>0, <1>17 DEF EndRound
  <2>2. LateRounds'
    BY <1>0, <1>17 DEF EndRound
  <2>3. LoopsLast'
    BY <1>0, <1>17 DEF EndRound
  <2>4. QED
    BY <2>1, <2>2, <2>3
<1>18. ASSUME NEW t \in Task, Cancelled(t) PROVE Rest'
  <2>1. NothingYet' /\ FlagFollowsMain'
    BY <1>0, <1>18 DEF Cancelled
  <2>2. LateRounds'
    BY <1>0, <1>18 DEF Cancelled
  <2>3. LoopsLast'
    BY <1>0, <1>18 DEF Cancelled
  <2>4. QED
    BY <2>1, <2>2, <2>3
<1>19. Rest'
  BY <1>1, <1>2, <1>3, <1>4, <1>5, <1>6, <1>7, <1>8, <1>9,
     <1>10, <1>11, <1>12, <1>13, <1>14, <1>15, <1>16, <1>17, <1>18 DEF Next, MainStep
<1>20. QED
  BY <1>types, <1>19 DEF ServiceInv

THEOREM ServiceInvariant == Spec => []ServiceInv
<1>1. QED
  BY ServiceStart, ServiceStep, PTL DEF Spec

\* Type correctness of the life cycle, for every set of configurations.
THEOREM ServiceTypeCorrect == Spec => []TypeOK
<1>1. ServiceInv => TypeOK
  BY DEF ServiceInv
<1>2. QED
  BY <1>1, ServiceInvariant, PTL

\* No task begins more than one round after shutdown has cleared is_running.
THEOREM LoopsStopInTime == Spec => []OneLastRound
<1>1. ServiceInv => OneLastRound
  BY DEF ServiceInv, LateRounds, OneLastRound
<1>2. QED
  BY <1>1, ServiceInvariant, PTL

\* While the service runs, none of its loops ends but a backfill task whose configured
\* delay is zero.
THEOREM LoopsKeepRunning == Spec => []LoopsLast
<1>1. ServiceInv => LoopsLast
  BY DEF ServiceInv
<1>2. QED
  BY <1>1, ServiceInvariant, PTL
-----------------------------------------------------------------------------
(***************************************************************************)
(* What shutdown leaves behind.                                            *)
(***************************************************************************)

\* Once the handles are aborted nothing is spawned any more.
AbortedInv ==
    /\ main \in Stopping => ~is_running
    /\ main \in {"stop_server", "stopped"} =>
          \A t \in Background : tasks[t] # "none" => t \in aborted

LEMMA AbortedStep == ServiceInv /\ AbortedInv /\ [Next]_vars => AbortedInv'
<1> SUFFICES ASSUME ServiceInv, AbortedInv, [Next]_vars PROVE AbortedInv'
  OBVIOUS
<1>0. /\ tasks \in [Task -> TaskState] /\ Background \subseteq Task
      /\ main \in Stopping => ~is_running
      /\ main \in {"stop_server", "stopped"} =>
            \A t \in Background : tasks[t] # "none" => t \in aborted
  BY Tasks DEF ServiceInv, TypeOK, AbortedInv
<1>1. CASE (\E c \in Settings, b \in BOOLEAN : LoadConfig(c, b)) \/ Initialize \/ InitializeMatchmaking
           \/ Start \/ StartConsumption \/ StartBackgroundTasks \/ Return \/ HandleSignal
  <2>1. main' \notin Stopping
    BY <1>1 DEF LoadConfig, Initialize, InitializeMatchmaking, Start, StartConsumption,
                StartBackgroundTasks, Return, HandleSignal, Fail, Exit, Stopping
  <2>2. QED
    BY <2>1 DEF AbortedInv, Stopping
<1>2. CASE Shutdown \/ StopConsumer
  BY <1>0, <1>2 DEF Shutdown, StopConsumer, AbortedInv, Stopping
<1>3. CASE AbortTasks
  BY <1>0, <1>3 DEF AbortTasks, AbortedInv, Stopping
<1>4. CASE StopServer
  BY <1>0, <1>4 DEF StopServer, AbortedInv, Stopping
<1>5. ASSUME NEW t \in Task, CheckRunning(t) \/ BeginRound(t) \/ EndRound(t) \/ Cancelled(t)
      PROVE  AbortedInv'
  <2>1. /\ tasks[t] # "none" /\ \A u \in Task \ {t} : tasks'[u] = tasks[u]
        /\ UNCHANGED <<main, is_running, aborted>>
    BY <1>0, <1>5 DEF CheckRunning, BeginRound, EndRound, Cancelled, Live
  <2>2. QED
    BY <1>0, <2>1 DEF AbortedInv
<1>6. CASE Bind
  BY <1>0, <1>6 DEF Bind, AbortedInv
<1>7. CASE TakeRequest \/ FinishRequest \/ UNCHANGED vars
  BY <1>0, <1>7 DEF TakeRequest, FinishRequest, vars, AbortedInv
<1>8. QED
  BY <1>1, <1>2, <1>3, <1>4, <1>5, <1>6, <1>7 DEF Next, MainStep

\* What runs after a shutdown has been aborted, for every configuration and wherever the
\* start had failed.
THEOREM ShutdownIsThorough == Spec => []ShutdownLeavesNothing
<1>1. Init => AbortedInv
  BY DEF Init, AbortedInv, Stopping
<1>2. AbortedInv => ShutdownLeavesNothing
  BY DEF AbortedInv, ShutdownLeavesNothing, Live, Stopping
<1>3. QED
  BY <1>1, <1>2, AbortedStep, ServiceInvariant, PTL DEF Spec
=============================================================================
