--------------------------- MODULE LobbyInstance ---------------------------
(***************************************************************************)
(* One LobbyInstance (src/lobby/instance.rs) and everything that can be    *)
(* done to it: players join and leave, its game is started and marked as   *)
(* started, and time passes.                                               *)
(***************************************************************************)
EXTENDS TimedLobby

CONSTANT Horizon    \* where the clock stops

ASSUME HorizonAssumption == Horizon \in Nat

VARIABLES
    lobby,      \* the instance
    now,        \* the clock
    occupied    \* history: when the queue last stopped being empty, or Unset

vars == <<lobby, now, occupied>>

TypeOK ==
    /\ lobby \in TimedLobbyRecord
    /\ now \in Nat
    /\ occupied \in Nat \cup {Unset}

Init ==
    /\ \E t \in LobbyType : lobby = NewInstance(t, 0)
    /\ now = 0
    /\ occupied = Unset

\* add_player; a call that returns an error changes nothing.
AddPlayer(p) ==
    /\ CanAdd(lobby, p)
    /\ lobby' = Added(lobby, p, now)
    /\ occupied' = IF lobby.queue = <<>> THEN now ELSE occupied
    /\ UNCHANGED now

\* remove_player; with an id that is not queued it changes nothing.
RemovePlayer(p) ==
    /\ InQueue(lobby, p)
    /\ lobby' = Removed(lobby, p, now)
    /\ occupied' = IF Len(lobby.queue) = 1 THEN Unset ELSE occupied
    /\ UNCHANGED now

MarkStarting ==
    /\ ShouldStart(lobby)
    /\ lobby' = Starting(lobby, now)
    /\ UNCHANGED <<now, occupied>>

MarkGameStarted ==
    /\ lobby.state = "Starting"
    /\ lobby' = GameStarted(lobby, now)
    /\ UNCHANGED <<now, occupied>>

Tick ==
    /\ now < Horizon
    /\ now' = now + 1
    /\ UNCHANGED <<lobby, occupied>>

Next ==
    \/ \E p \in Player : AddPlayer(p) \/ RemovePlayer(p)
    \/ MarkStarting
    \/ MarkGameStarted
    \/ Tick

Spec == Init /\ [][Next]_vars
-----------------------------------------------------------------------------
\* Among players of one priority those who joined earlier are served earlier,
\* whatever joins and departures came in between.
FirstComeFirstServed ==
    \A i, j \in 1..Len(lobby.queue) :
        i < j /\ Priority(lobby.type, lobby.queue[i]) = Priority(lobby.type, lobby.queue[j])
            => lobby.joined_at[lobby.queue[i]] <= lobby.joined_at[lobby.queue[j]]

\* The wait runs exactly while somebody is queued: a lobby that was emptied and
\* entered again does not go on with the old wait.
TimeoutTracksQueue == lobby.wait_timeout = Unset <=> lobby.queue = <<>>

\* A human in a lobby with a free place who has waited longer than the base wait
\* time may be joined by bots: others who come or leave never put that off.
WaitBounded ==
    /\ Config["General"].allow_bot_backfill
    /\ lobby.type = "General"
    /\ ~IsFull(lobby)
    => \A i \in 1..Len(lobby.queue) :
          /\ lobby.queue[i] \in Human
          /\ now > lobby.joined_at[lobby.queue[i]] + BaseWait(lobby)
          => NeedsBackfill(lobby, now)

\* A lobby whose game has not been marked as started is given up only when the
\* last player to join it has waited for longer than the idle limit.
CleanupSparesActive ==
    lobby.state # "GameStarted" /\ ShouldCleanup(lobby, now) =>
        \A i \in 1..Len(lobby.queue) :
            now > lobby.joined_at[lobby.queue[i]] + IdleLimit
=============================================================================
