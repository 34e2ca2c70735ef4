---------------------------- MODULE TimedLobby -----------------------------
(***************************************************************************)
(* A lobby with its clock readings: the operations of LobbyInstance        *)
(* (src/lobby/instance.rs) on a record that has, besides the fields of     *)
(* Lobby,                                                                  *)
(*                                                                         *)
(*    created_at, last_activity   timestamps                               *)
(*    wait_timeout                when bots may fill the lobby, or Unset   *)
(*    joined_at                   the joined_at of every queued entry      *)
(*                                                                         *)
(* Time is counted in the unit of base_wait_time_seconds; now is what      *)
(* current_timestamp() returns.                                            *)
(***************************************************************************)
EXTENDS Lobby

CONSTANTS
    Unset,      \* None, for wait_timeout and last_backfill
    IdleLimit   \* the thirty minutes of should_cleanup

ASSUME TimeAssumption == Unset \notin Nat /\ IdleLimit \in Nat

TimedLobbyRecord ==
    [type : LobbyType, state : LobbyState, queue : Seq(Player),
     created_at : Nat, last_activity : Nat, wait_timeout : Nat \cup {Unset},
     joined_at : [Player -> Nat]]

\* LobbyInstance::new
NewInstance(t, now) ==
    [type |-> t, state |-> "WaitingForPlayers", queue |-> <<>>,
     created_at |-> now, last_activity |-> now, wait_timeout |-> Unset,
     joined_at |-> [p \in Player |-> now]]

BaseWait(l) == Config[l.type].base_wait_time_seconds

WaitTimeout_Restarted(l) == l.last_activity + BaseWait(l)

\* set_wait_timeout_if_needed, which runs before update_activity.
WaitTimeout(l) ==
    IF l.wait_timeout = Unset THEN l.last_activity + BaseWait(l) ELSE l.wait_timeout

Added_Unnoticed(l, p, now) ==
    [WithPlayer(l, p) EXCEPT !.wait_timeout = WaitTimeout(l), !.joined_at[p] = now]

\* add_player, once CanAdd held.
Added(l, p, now) ==
    [WithPlayer(l, p) EXCEPT !.wait_timeout = WaitTimeout(l),
                             !.last_activity = now, !.joined_at[p] = now]

Removed_KeepsTimeout(l, p, now) == [WithoutPlayer(l, p) EXCEPT !.last_activity = now]

\* remove_player of a queued player.
Removed(l, p, now) ==
    [WithoutPlayer(l, p) EXCEPT
        !.last_activity = now,
        !.wait_timeout = IF Len(l.queue) = 1 THEN Unset ELSE @]

\* mark_starting and mark_game_started, once their checks have passed.
Starting(l, now)    == [MarkedStarting(l) EXCEPT !.last_activity = now]
GameStarted(l, now) == [l EXCEPT !.state = "GameStarted", !.last_activity = now]

\* needs_backfill
NeedsBackfill(l, now) ==
    /\ l.type = "General"
    /\ Config[l.type].allow_bot_backfill
    /\ l.wait_timeout # Unset
    /\ now > l.wait_timeout
    /\ ~IsFull(l)
    /\ ActiveHumans(l) # {}

\* should_cleanup
ShouldCleanup(l, now) ==
    \/ l.state \in {"Abandoned", "GameStarted"}
    \/ now - l.last_activity > IdleLimit
=============================================================================
