---------------------------- MODULE LobbyManager ----------------------------
(***************************************************************************)
(* LobbyManager (src/lobby/manager.rs): the handlers that share the map of *)
(* lobbies and the statistics.  A step is what a handler does under one    *)
(* acquisition of a lock, or one await on the event publisher; between two *)
(* steps of a handler the other handlers, the cleanup task and the callers *)
(* of remove_player may run.                                               *)
(*                                                                         *)
(* handle_queue_request is the chain                                       *)
(*   Receive -> FindLobby -> (CreateLobby -> CountLobby ->) AddPlayer      *)
(*           -> PublishJoined -> CheckAndStart (-> PublishStarting)        *)
(* and returns Ok ("ok") or, at the first error, Err ("failed").           *)
(*                                                                         *)
(* As in Lobby, a name that ends in an underscore and a word is a faulty   *)
(* variant of the definition below it.                                     *)
(***************************************************************************)
EXTENDS Lobby

CONSTANTS
    None,            \* the player and the lobby of a request that has none yet
    LobbyId,         \* the ids generate_lobby_id can return
    Request,         \* the queue requests handled in a behaviour
    Offers,          \* what a request may ask for: [player, lobby_type] records
    Leavers,         \* the players remove_player may be called for
    Idlers,          \* the lobbies that may go half an hour without activity
    MaxConcurrent,   \* how many requests are handled at the same time
    PublishMayFail,  \* whether the event publisher may return an error
    MatcherMayDecline \* whether the matcher may turn down every joinable lobby

Offer == [player : Player, lobby_type : LobbyType]

ASSUME ManagerAssumption ==
    /\ IsFiniteSet(Request)
    /\ IsFiniteSet(LobbyId)
    /\ None \notin Player \cup LobbyId
    /\ Offers \subseteq Offer
    /\ Leavers \subseteq Player
    /\ Idlers \subseteq LobbyId
    /\ MaxConcurrent \in Nat \ {0}
    /\ PublishMayFail \in BOOLEAN
    /\ MatcherMayDecline \in BOOLEAN

VARIABLES
    issued,     \* the lobby ids generated so far
    live,       \* the keys of the map lobbies
    lobby,      \* the LobbyInstance of every issued id (the last one it held)
    request,    \* the local state of every handle_queue_request
    cleanup,    \* lobbies_to_remove of the cleanup pass in progress
    stats,      \* LobbyManagerStats
    published   \* the events the publisher has accepted

vars == <<issued, live, lobby, request, cleanup, stats, published>>
-----------------------------------------------------------------------------
(***************************************************************************)
(* Types.                                                                  *)
(***************************************************************************)

\* idle: more than 30 minutes have passed since last_activity.
LobbyRecord ==
    [type : LobbyType, state : LobbyState, queue : Seq(Player), idle : BOOLEAN]

NewLobby(t) ==
    [type |-> t, state |-> "WaitingForPlayers", queue |-> <<>>, idle |-> FALSE]

\* The steps of handle_queue_request by what is to be done next: before it has
\* a lobby id, between that and the insertion, and after the insertion.
Searching == {"find", "create"}
Joining   == {"count", "add"}
Joined    == {"publish_joined", "check", "publish_starting"}
Pending   == Searching \cup Joining \cup Joined

\* roster: the players of the event that is about to be published.
RequestRecord ==
    [pc : {"unsent", "ok", "failed"} \cup Pending, player : Player \cup {None},
     lobby_type : LobbyType, lobby : LobbyId \cup {None}, roster : Seq(Player)]

Stats ==
    [lobbies_created : Nat, lobbies_cleaned : Nat, players_queued : Nat,
     games_started : Nat, active_lobbies : Nat, players_waiting : Nat]

JoinedEvent ==
    [kind : {"PlayerJoinedLobby"}, lobby : LobbyId, player : Player,
     players : Seq(Player)]
StartingEvent == [kind : {"GameStarting"}, lobby : LobbyId, players : Seq(Player)]
Event         == JoinedEvent \cup StartingEvent

TypeOK ==
    /\ issued \subseteq LobbyId
    /\ live \subseteq issued
    /\ lobby \in [LobbyId -> LobbyRecord]
    /\ request \in [Request -> RequestRecord]
    /\ \A r \in Request :
          /\ request[r].pc \in Pending => request[r].player \in Player
          /\ request[r].pc \in Joining \cup Joined => request[r].lobby \in issued
    /\ cleanup \subseteq LobbyId
    /\ stats \in Stats
    /\ published \subseteq Event
-----------------------------------------------------------------------------
InFlight == {r \in Request : request[r].pc \in Pending}

\* A handler that holds the processor: only a publish suspends it.
Running ==
    {r \in InFlight : request[r].pc \notin {"publish_joined", "publish_starting"}}

AvailableLobbies_Full(t) == {l \in live : lobby[l].type = t /\ Open(lobby[l])}

\* get_available_lobbies_for_type
AvailableLobbies(t) ==
    {l \in live : lobby[l].type = t /\ Open(lobby[l]) /\ ~IsFull(lobby[l])}

\* can_player_join_lobby over the available lobbies
JoinableLobbies(t, p) == {l \in AvailableLobbies(t) : AllowsPlayerType(t, p)}

\* players_waiting as cleanup_stale_lobbies sums it: get_players over a map.
Waiting(ids) ==
    Cardinality({s \in ids \X (1..MaxCapacity) :
                    s[2] <= Len(ActivePlayers(lobby[s[1]]))})

Goto(r, pc) == request' = [request EXCEPT ![r].pc = pc]

GotoWith(r, pc, roster) ==
    request' = [request EXCEPT ![r].pc = pc, ![r].roster = roster]

\* The lobby a request works on, and the same lobby with its clock restarted.
Target(r)  == lobby[request[r].lobby]
Touched(l) == [l EXCEPT !.idle = FALSE]

Unsent ==
    [pc |-> "unsent", player |-> None, lobby_type |-> "General", lobby |-> None,
     roster |-> <<>>]

Init ==
    /\ issued = {}
    /\ live = {}
    /\ lobby = [l \in LobbyId |-> NewLobby("General")]
    /\ request = [r \in Request |-> Unsent]
    /\ cleanup = {}
    /\ stats = [lobbies_created |-> 0, lobbies_cleaned |-> 0, players_queued |-> 0,
                games_started |-> 0, active_lobbies |-> 0, players_waiting |-> 0]
    /\ published = {}
-----------------------------------------------------------------------------
(***************************************************************************)
(* handle_queue_request.                                                   *)
(***************************************************************************)

\* The request arrives and is counted.
Receive(r) ==
    /\ request[r].pc = "unsent"
    /\ Cardinality(InFlight) < MaxConcurrent
    /\ \E o \in Offers :
          request' = [request EXCEPT ![r].pc = "find", ![r].player = o.player,
                                     ![r].lobby_type = o.lobby_type]
    /\ stats' = [stats EXCEPT !.players_queued = @ + 1]
    /\ UNCHANGED <<issued, live, lobby, cleanup, published>>

FindLobby_Forgets(r) ==
    /\ request[r].pc = "find"
    /\ IF JoinableLobbies(request[r].lobby_type, request[r].player) = {}
       THEN Goto(r, "create")
       ELSE Goto(r, "add")
    /\ UNCHANGED <<issued, live, lobby, cleanup, stats, published>>

FindLobby_Scatters(r) ==
    /\ request[r].pc = "find"
    /\ Goto(r, "create")
    /\ UNCHANGED <<issued, live, lobby, cleanup, stats, published>>

\* find_or_create_lobby_for_player on a snapshot of the map.  Which joinable
\* lobby scores best depends on the ratings, so each of them may be the one; a
\* new lobby is created when there is none (CreateNewLobby) or, with a
\* MatchingConfig whose wait_threshold rejects them all, on ShouldWait.
FindLobby(r) ==
    /\ request[r].pc = "find"
    /\ LET joinable == JoinableLobbies(request[r].lobby_type, request[r].player)
       IN \/ \E l \in joinable :
                request' = [request EXCEPT ![r].pc = "add", ![r].lobby = l]
          \/ /\ joinable = {} \/ MatcherMayDecline
             /\ Goto(r, "create")
    /\ UNCHANGED <<issued, live, lobby, cleanup, stats, published>>

\* create_new_lobby: the insertion ...
CreateLobby(r) ==
    /\ request[r].pc = "create"
    /\ \E l \in LobbyId \ issued :
          /\ issued' = issued \cup {l}
          /\ live' = live \cup {l}
          /\ lobby' = [lobby EXCEPT ![l] = NewLobby(request[r].lobby_type)]
          /\ request' = [request EXCEPT ![r].pc = "count", ![r].lobby = l]
    /\ UNCHANGED <<cleanup, stats, published>>

CountLobby_CreatedOnly(r) ==
    /\ request[r].pc = "count"
    /\ stats' = [stats EXCEPT !.lobbies_created = @ + 1]
    /\ Goto(r, "add")
    /\ UNCHANGED <<issued, live, lobby, cleanup, published>>

CountLobby_ActiveOnly(r) ==
    /\ request[r].pc = "count"
    /\ stats' = [stats EXCEPT !.active_lobbies = @ + 1]
    /\ Goto(r, "add")
    /\ UNCHANGED <<issued, live, lobby, cleanup, published>>

\* ... and, after the map is unlocked, the statistics.
CountLobby(r) ==
    /\ request[r].pc = "count"
    /\ stats' = [stats EXCEPT !.lobbies_created = @ + 1, !.active_lobbies = @ + 1]
    /\ Goto(r, "add")
    /\ UNCHANGED <<issued, live, lobby, cleanup, published>>

AddPlayer_Waits(r) ==
    /\ request[r].pc = "add"
    /\ request[r].lobby \in live
    /\ CanAdd(Target(r), request[r].player)
    /\ LET grown == Touched(WithPlayer(Target(r), request[r].player))
       IN  /\ lobby' = [lobby EXCEPT ![request[r].lobby] = grown]
           /\ GotoWith(r, "publish_joined", ActivePlayers(grown))
    /\ UNCHANGED <<issued, live, cleanup, stats, published>>

\* add_player_to_lobby under the map's lock; the error paths change nothing.
AddPlayer(r) ==
    /\ request[r].pc = "add"
    /\ IF request[r].lobby \in live /\ CanAdd(Target(r), request[r].player)
       THEN LET grown == Touched(WithPlayer(Target(r), request[r].player))
            IN  /\ lobby' = [lobby EXCEPT ![request[r].lobby] = grown]
                /\ GotoWith(r, "publish_joined", ActivePlayers(grown))
       ELSE Goto(r, "failed") /\ UNCHANGED lobby
    /\ UNCHANGED <<issued, live, cleanup, stats, published>>

PublishJoined_Unchecked(r) ==
    /\ request[r].pc = "publish_joined"
    /\ published' = published \cup
          {[kind |-> "PlayerJoinedLobby", lobby |-> request[r].lobby,
            player |-> request[r].player, players |-> request[r].roster]}
    /\ GotoWith(r, "ok", <<>>)
    /\ UNCHANGED <<issued, live, lobby, cleanup, stats>>

PublishJoined_Ignored(r) ==
    /\ request[r].pc = "publish_joined"
    /\ GotoWith(r, "check", <<>>)
    /\ UNCHANGED <<issued, live, lobby, cleanup, stats, published>>

\* publish_player_joined_lobby; its error ends the request with `?`.
PublishJoined(r) ==
    /\ request[r].pc = "publish_joined"
    /\ \/ /\ published' = published \cup
                {[kind |-> "PlayerJoinedLobby", lobby |-> request[r].lobby,
                  player |-> request[r].player, players |-> request[r].roster]}
          /\ GotoWith(r, "check", <<>>)
       \/ PublishMayFail /\ Goto(r, "failed") /\ UNCHANGED published
    /\ UNCHANGED <<issued, live, lobby, cleanup, stats>>

\* check_and_start_game under the map's lock, with the nested stats lock.
CheckAndStart(r) ==
    /\ request[r].pc = "check"
    /\ IF request[r].lobby \in live /\ ShouldStart(Target(r))
       THEN /\ lobby' = [lobby EXCEPT
                            ![request[r].lobby] = Touched(MarkedStarting(Target(r)))]
            /\ stats' = [stats EXCEPT !.games_started = @ + 1]
            /\ GotoWith(r, "publish_starting", ActivePlayers(Target(r)))
       ELSE /\ Goto(r, IF request[r].lobby \in live THEN "ok" ELSE "failed")
            /\ UNCHANGED <<lobby, stats>>
    /\ UNCHANGED <<issued, live, cleanup, published>>

PublishStarting_Refreshed(r) ==
    /\ request[r].pc = "publish_starting"
    /\ published' = published \cup
          {[kind |-> "GameStarting", lobby |-> request[r].lobby,
            players |-> ActivePlayers(Target(r))]}
    /\ GotoWith(r, "ok", <<>>)
    /\ UNCHANGED <<issued, live, lobby, cleanup, stats>>

\* publish_game_starting; there is no retry and no way back to ReadyToStart.
PublishStarting(r) ==
    /\ request[r].pc = "publish_starting"
    /\ \/ /\ published' = published \cup
                {[kind |-> "GameStarting", lobby |-> request[r].lobby,
                  players |-> request[r].roster]}
          /\ GotoWith(r, "ok", <<>>)
       \/ PublishMayFail /\ Goto(r, "failed") /\ UNCHANGED published
    /\ UNCHANGED <<issued, live, lobby, cleanup, stats>>

Handle(r) ==
    \/ FindLobby(r) \/ CreateLobby(r) \/ CountLobby(r) \/ AddPlayer(r)
    \/ PublishJoined(r) \/ CheckAndStart(r) \/ PublishStarting(r)
-----------------------------------------------------------------------------
(***************************************************************************)
(* The other callers.                                                      *)
(***************************************************************************)

\* remove_player: the first lobby of the map's iteration order that holds the
\* player, whatever its state.  No event is published.
RemovePlayer(p) ==
    /\ \E l \in live :
          /\ InQueue(lobby[l], p)
          /\ lobby' = [lobby EXCEPT ![l] = Touched(WithoutPlayer(lobby[l], p))]
    /\ UNCHANGED <<issued, live, request, cleanup, stats, published>>

ShouldCleanup_Ended(l) == l.state \in {"Abandoned", "GameStarted"}

\* should_cleanup
ShouldCleanup(l) == l.state \in {"Abandoned", "GameStarted"} \/ l.idle

\* cleanup_stale_lobbies: the ids are collected under the read lock ...
CleanupScan ==
    /\ cleanup = {}
    /\ cleanup' = {l \in live : ShouldCleanup(lobby[l])}
    /\ UNCHANGED <<issued, live, lobby, request, stats, published>>

\* ... and removed under the write lock, the statistics with them.
CleanupRemove ==
    /\ cleanup # {}
    /\ live' = live \ cleanup
    /\ stats' = [stats EXCEPT
                    !.lobbies_cleaned = @ + Cardinality(cleanup \cap live),
                    !.active_lobbies = Cardinality(live \ cleanup),
                    !.players_waiting = Waiting(live \ cleanup)]
    /\ cleanup' = {}
    /\ UNCHANGED <<issued, lobby, request, published>>

\* Half an hour without activity in a lobby, which no handler and no cleanup
\* pass spends between two of its steps that do not wait for the publisher.
FallIdle(l) ==
    /\ l \in live
    /\ ~lobby[l].idle
    /\ Running = {}
    /\ cleanup = {}
    /\ lobby' = [lobby EXCEPT ![l].idle = TRUE]
    /\ UNCHANGED <<issued, live, request, cleanup, stats, published>>
-----------------------------------------------------------------------------
Next ==
    \/ \E r \in Request : Receive(r) \/ Handle(r)
    \/ \E p \in Leavers : RemovePlayer(p)
    \/ CleanupScan
    \/ CleanupRemove
    \/ \E l \in Idlers : FallIdle(l)

Spec == Init /\ [][Next]_vars

\* The runtime runs every handler it has started and the cleanup interval keeps
\* ticking; nobody has to queue or to leave.
Fairness ==
    /\ \A r \in Request : WF_vars(Handle(r))
    /\ WF_vars(CleanupScan)
    /\ WF_vars(CleanupRemove)

\* Time passes too: a lobby nobody touches does become idle.
FairSpec == Spec /\ Fairness
TimedSpec == FairSpec /\ \A l \in Idlers : WF_vars(FallIdle(l))
-----------------------------------------------------------------------------
(***************************************************************************)
(* Safety.                                                                 *)
(***************************************************************************)

\* The requests that have chosen lobby l and have not tried to enter it yet.
JoiningLobby(l) ==
    {r \in Request : request[r].pc \in Joining /\ request[r].lobby = l}

\* A request chooses its lobby on a snapshot and enters it later, so a lobby may
\* be filled beyond its capacity, but only by the requests that were handled at
\* the same time: with one handler, never.
OverflowBounded ==
    \A l \in live :
        Len(lobby[l].queue) + Cardinality(JoiningLobby(l))
            <= Capacity(lobby[l]) + MaxConcurrent - 1

\* The events of kind k the publisher has accepted.
EventsOf(k) == {e \in published : e.kind = k}

\* The requests that are about to publish the game of lobby l.
Starters(l) ==
    {r \in Request : request[r].pc = "publish_starting" /\ request[r].lobby = l}

\* However many handlers see a lobby ReadyToStart, one of them starts its game.
StartedOnce ==
    \A l \in LobbyId :
        Cardinality(Starters(l))
          + Cardinality({e \in EventsOf("GameStarting") : e.lobby = l}) <= 1

\* A game is announced with exactly the lobby's capacity of distinct players,
\* bots only for an AllBot lobby, whoever joined or left while it was starting.
GamesArePlayable ==
    \A e \in EventsOf("GameStarting") :
        LET l == lobby[e.lobby] IN
        /\ Len(e.players) = Capacity(l)
        /\ \A i, j \in 1..Len(e.players) : e.players[i] = e.players[j] => i = j
        /\ l.type = "AllBot" => \A i \in 1..Len(e.players) : e.players[i] \notin Human

\* Joins and departures in any order leave every queue in priority order: no
\* bot is among the active players of a lobby that keeps a human waiting.
QueuesInOrder == \A l \in live : InOrder(lobby[l])

\* Interleaved joins and departures never leave a lobby in the wrong state: it
\* is ReadyToStart exactly while its queue lets a game start.
StatesMatchQueues == \A l \in live : StateMatchesQueue(lobby[l])

\* A wake-up is lost only with a publish that failed: while a lobby is
\* ReadyToStart, some request that joined it has yet to check whether to start
\* it, or one has ended because its joining could not be announced.
ReadyHasStarter ==
    \A l \in live :
        lobby[l].state = "ReadyToStart" =>
            \E r \in Request :
                /\ request[r].lobby = l
                /\ \/ request[r].pc \in {"publish_joined", "check"}
                   \/ request[r].pc = "failed" /\ request[r].roster # <<>>

\* A PlayerJoinedLobby event leaves its own player out only when the lobby was
\* overfilled by handlers running at once, and never a human for a bot.
JoinersListed ==
    \A e \in EventsOf("PlayerJoinedLobby") :
        LET l == lobby[e.lobby] IN
        (\A i \in 1..Len(e.players) : e.players[i] # e.player) =>
            /\ Len(e.players) = Capacity(l)
            /\ \A i \in 1..Len(e.players) :
                  Priority(l.type, e.players[i]) <= Priority(l.type, e.player)

\* The requests that have inserted a lobby and not counted it yet.
Counting == {r \in Request : request[r].pc = "count"}

\* The totals agree with what happened, although each is updated in a critical
\* section other than the change it counts.
TotalsExact ==
    /\ stats.players_queued = Cardinality({r \in Request : request[r].pc # "unsent"})
    /\ stats.lobbies_created + Cardinality(Counting) = Cardinality(issued)
    /\ stats.lobbies_cleaned = Cardinality(issued \ live)
    /\ stats.games_started = Cardinality({l \in issued : lobby[l].state = "Starting"})

\* active_lobbies is incremented by the handlers, and set to the size of the map
\* by a cleanup pass, which already finds the lobbies that are yet to be counted
\* there: it never falls short of the map, and exceeds it by no more than the
\* handlers that run at the same time, however many passes there were.
ActiveLobbiesNearlyExact ==
    /\ Cardinality(live) <= stats.active_lobbies + Cardinality(Counting)
    /\ stats.active_lobbies + Cardinality(Counting) <= Cardinality(live) + MaxConcurrent

JoinAnnounced(l, p) ==
    \E e \in EventsOf("PlayerJoinedLobby") : e.lobby = l /\ e.player = p

\* Request r entered player p into lobby l and is about to say so, or failed to.
JoinOwed(r, l, p) ==
    /\ request[r].lobby = l /\ request[r].player = p
    /\ \/ request[r].pc = "publish_joined"
       \/ request[r].pc = "failed" /\ request[r].roster # <<>>

\* A game names nobody who came in unnoticed: the joining of each of its players
\* is announced, or a handler is at it (and was overtaken), or could not.
PlayersAnnounced ==
    \A e \in EventsOf("GameStarting") : \A i \in 1..Len(e.players) :
        \/ JoinAnnounced(e.lobby, e.players[i])
        \/ \E r \in Request : JoinOwed(r, e.lobby, e.players[i])

\* Once a game is starting nobody enters its lobby any more, not even a request
\* that had chosen it before, and it is never opened again.
StartedLobbyClosed ==
    [][\A l \in live :
          lobby[l].state = "Starting" =>
             /\ lobby'[l].state = "Starting"
             /\ \A i \in 1..Len(lobby'[l].queue) : InQueue(lobby[l], lobby'[l].queue[i])]_vars
-----------------------------------------------------------------------------
(***************************************************************************)
(* The promise: see Matchmaking.                                           *)
(***************************************************************************)

PhaseOf(l) ==
    IF l \notin issued THEN "none"
    ELSE IF l \notin live THEN "gone"
    ELSE IF Open(lobby[l]) THEN "open" ELSE "closed"

\* The team of a lobby is what its handler is about to announce or has announced.
TeamOf(l) ==
    UNION ({Range(request[r].roster) : r \in Starters(l)} \cup
           {Range(e.players) : e \in {e \in EventsOf("GameStarting") : e.lobby = l}})

Promise ==
    INSTANCE Matchmaking WITH
        Kind         <- LobbyType,
        BotsOnly     <- {"AllBot"},
        HumansFirst  <- {t \in LobbyType : Config[t].prioritize_humans},
        TeamSize     <- [t \in LobbyType |-> Config[t].capacity],
        HumansNeeded <- [t \in LobbyType |-> Config[t].min_human_players],
        phase        <- [l \in LobbyId |-> PhaseOf(l)],
        kind         <- [l \in LobbyId |-> lobby[l].type],
        members      <- [l \in LobbyId |-> Range(lobby[l].queue)],
        team         <- [l \in LobbyId |-> TeamOf(l)],
        announced    <- {e.lobby : e \in EventsOf("GameStarting")}

\* The handlers, interleaved at every lock and every publish, keep the promise:
\* whoever joins, leaves or is cleaned away in between, a lobby closes once, with
\* a playable team of the players then in it, and what is announced is that team.
KeepsPromise == Promise!Spec
-----------------------------------------------------------------------------
(***************************************************************************)
(* What one consumer, which handles one request at a time, adds.           *)
(***************************************************************************)

\* A game never names a player whose joining was not announced before.
\* (Reliable publisher.)
AnnouncedBeforeStart ==
    \A e \in EventsOf("GameStarting") : \A i \in 1..Len(e.players) :
        JoinAnnounced(e.lobby, e.players[i])

\* Players are gathered rather than scattered: at most one General lobby has a
\* free place at any time.  (Reliable publisher, matcher that never declines.)  That
\* holds for players of any ratings, where tests/integration/lobby_lifecycle.rs:440
\* expects separate lobbies for distant ones: MatchedWithinDifference in Matching is
\* about that disagreement.
OneOpenLobby ==
    Cardinality(AvailableLobbies("General")) <= 1
-----------------------------------------------------------------------------
(***************************************************************************)
(* Liveness.                                                               *)
(***************************************************************************)

\* Every request that is taken up is answered.
RequestsAnswered ==
    \A r \in Request :
        request[r].pc = "find" ~> request[r].pc \in {"ok", "failed"}

\* A lobby that is ready starts, unless somebody leaves it first or it is
\* removed.  (Reliable publisher.)
ReadyLobbyStarts ==
    \A l \in LobbyId :
        (l \in live /\ lobby[l].state = "ReadyToStart")
            ~> (l \notin live \/ lobby[l].state # "ReadyToStart")

\* Once the requests stop coming every lobby that time passes for, started, waiting
\* or never entered, is removed from the map in the end.
EventuallyReclaimed == <>[](live \cap Idlers = {})
-----------------------------------------------------------------------------
(***************************************************************************)
(* What the documentation says and the code does not do.                   *)
(***************************************************************************)

\* instance.rs:408, "Clean up if no activity for 30 minutes": what a cleanup
\* pass removes is stale when it is removed.
CleanupRemovesOnlyStale ==
    [][\A l \in live \ live' : ShouldCleanup(lobby[l])]_vars

\* provider.rs:26, "Whether lobby should start immediately when full": a full
\* lobby so configured starts, unless somebody leaves it first.
FullLobbyStarts ==
    \A l \in LobbyId :
        (/\ l \in live
         /\ Open(lobby[l])
         /\ IsFull(lobby[l])
         /\ Config[lobby[l].type].immediate_start_when_full)
            ~> (~IsFull(lobby[l]) \/ lobby[l].state = "Starting")
=============================================================================
