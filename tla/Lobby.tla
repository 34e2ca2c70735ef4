------------------------------- MODULE Lobby -------------------------------
(***************************************************************************)
(* One lobby as a value: what LobbyInstance (src/lobby/instance.rs) and    *)
(* its LobbyConfiguration (src/lobby/provider.rs) compute.  A lobby is a   *)
(* record with at least the fields                                         *)
(*                                                                         *)
(*    type   the LobbyType, which selects the configuration                *)
(*    state  the LobbyState                                                *)
(*    queue  the player ids of player_queue, first in line first           *)
(*                                                                         *)
(* Modules that use it add the time fields they need (LobbyManager an idle *)
(* flag, LobbyInstance the timestamps); the operators leave them alone.    *)
(* A player is its id; its player_type is whether the id is in Human.      *)
(*                                                                         *)
(* A definition whose name ends in an underscore and a word is a faulty    *)
(* variant of the one below it: the README says which property it breaks.  *)
(***************************************************************************)
EXTENDS Naturals, Sequences, FiniteSets, SequencesExt

CONSTANTS
    Player,   \* the ids players and bots queue under
    Human,    \* the ids whose player_type is Human; every other id is a Bot
    Config    \* the LobbyConfiguration of each lobby type

LobbyType == {"AllBot", "General"}

LobbyState ==
    {"WaitingForPlayers", "ReadyToStart", "Starting", "Abandoned", "GameStarted"}

\* The largest capacity validate_config accepts.
MaxCapacity == 8

LobbyConfiguration ==
    [capacity : 1..MaxCapacity, base_wait_time_seconds : Nat,
     allow_bot_backfill : BOOLEAN, prioritize_humans : BOOLEAN,
     min_human_players : Nat, immediate_start_when_full : BOOLEAN]

\* LobbyConfiguration::all_bot and ::general, the defaults.
AllBotConfig ==
    [capacity |-> 4, base_wait_time_seconds |-> 0, allow_bot_backfill |-> FALSE,
     prioritize_humans |-> FALSE, min_human_players |-> 0,
     immediate_start_when_full |-> TRUE]

GeneralConfig ==
    [capacity |-> 4, base_wait_time_seconds |-> 120, allow_bot_backfill |-> TRUE,
     prioritize_humans |-> TRUE, min_human_players |-> 0,
     immediate_start_when_full |-> TRUE]

\* StaticLobbyProvider::validate_config
ValidConfig(t, c) ==
    /\ c \in LobbyConfiguration
    /\ t = "AllBot"  => c.min_human_players = 0 /\ ~c.allow_bot_backfill
    /\ t = "General" => c.min_human_players <= c.capacity

ASSUME PlayerAssumption == IsFiniteSet(Player) /\ Human \subseteq Player

ASSUME ConfigAssumption ==
    /\ Config \in [LobbyType -> LobbyConfiguration]
    /\ \A t \in LobbyType : ValidConfig(t, Config[t])
-----------------------------------------------------------------------------
(***************************************************************************)
(* The queue.                                                              *)
(***************************************************************************)

AllowsPlayerType_Any(t, p) == TRUE

\* LobbyConfiguration::allows_player_type
AllowsPlayerType(t, p) == t = "AllBot" => p \notin Human

\* QueueEntry::new: a lower number is served first.
Priority(t, p) == IF Config[t].prioritize_humans /\ p \in Human THEN 1 ELSE 2

InQueue(l, p) == \E i \in 1..Len(l.queue) : l.queue[i] = p

InsertionPoint_Newest(l, p) ==
    CHOOSE k \in 0..Len(l.queue) :
        \A i \in 1..Len(l.queue) :
            i <= k <=> Priority(l.type, l.queue[i]) < Priority(l.type, p)

\* push_back and then sort_queue: the sort is stable on (priority, joined_at)
\* and the new entry is the latest, so on a queue that is in order it goes
\* behind every entry of its own or a better priority.
InsertionPoint(l, p) ==
    CHOOSE k \in 0..Len(l.queue) :
        \A i \in 1..Len(l.queue) :
            i <= k <=> Priority(l.type, l.queue[i]) <= Priority(l.type, p)

Enqueue_Unsorted(l, p) == Append(l.queue, p)

Enqueue(l, p) == InsertAt(l.queue, InsertionPoint(l, p) + 1, p)

\* retain(|entry| entry.player.id != player_id), where an id is queued once.
Dequeue(l, p) == RemoveAt(l.queue, CHOOSE i \in 1..Len(l.queue) : l.queue[i] = p)

Capacity(l) == Config[l.type].capacity

IsFull(l) == Len(l.queue) >= Capacity(l)

ActivePlayers_Untruncated(l) == l.queue

\* get_active_players: the players a game started now would be played with.
ActivePlayers(l) == IF IsFull(l) THEN SubSeq(l.queue, 1, Capacity(l)) ELSE l.queue

ActiveHumans(l) == {i \in 1..Len(ActivePlayers(l)) : ActivePlayers(l)[i] \in Human}

MeetsHumanRequirement(l) ==
    Cardinality(ActiveHumans(l)) >= Config[l.type].min_human_players
-----------------------------------------------------------------------------
(***************************************************************************)
(* The life cycle.                                                         *)
(***************************************************************************)

Open(l) == l.state \in {"WaitingForPlayers", "ReadyToStart"}

Startable(l) == IsFull(l) /\ MeetsHumanRequirement(l)

\* update_state, which add_player and remove_player end with.
UpdateState(l) ==
    [l EXCEPT !.state =
        CASE @ = "WaitingForPlayers" /\ Startable(l)
                /\ Config[l.type].immediate_start_when_full -> "ReadyToStart"
          [] @ = "ReadyToStart" /\ ~Startable(l) -> "WaitingForPlayers"
          [] OTHER -> @]

CanAdd_Started(l, p) ==
    /\ AllowsPlayerType(l.type, p)
    /\ ~InQueue(l, p)
    /\ Len(l.queue) < 2 * Capacity(l)

\* The early returns of add_player, in order: the lobby has started, the type
\* is not accepted, the player is queued already, twice the capacity is queued.
CanAdd(l, p) ==
    /\ Open(l)
    /\ AllowsPlayerType(l.type, p)
    /\ ~InQueue(l, p)
    /\ Len(l.queue) < 2 * Capacity(l)

WithPlayer(l, p) == UpdateState([l EXCEPT !.queue = Enqueue(l, p)])

WithoutPlayer_Stale(l, p) == [l EXCEPT !.queue = Dequeue(l, p)]

WithoutPlayer(l, p) == UpdateState([l EXCEPT !.queue = Dequeue(l, p)])

ShouldStart(l) == l.state = "ReadyToStart" /\ Startable(l)

MarkedStarting_Forgotten(l) == l

\* mark_starting once should_start held.
MarkedStarting(l) == [l EXCEPT !.state = "Starting"]
-----------------------------------------------------------------------------
(***************************************************************************)
(* What the queue and the state of a lobby promise each other.             *)
(***************************************************************************)

\* No id is queued twice.
QueuedOnce(l) ==
    \A i, j \in 1..Len(l.queue) : l.queue[i] = l.queue[j] => i = j

\* The queue is in priority order.
InOrder(l) ==
    \A i, j \in 1..Len(l.queue) :
        i < j => Priority(l.type, l.queue[i]) <= Priority(l.type, l.queue[j])

\* An open lobby is ReadyToStart exactly when a game could start from its queue.
StateMatchesQueue(l) ==
    Open(l) => (l.state = "ReadyToStart"
                  <=> Startable(l) /\ Config[l.type].immediate_start_when_full)
=============================================================================
