---------------------------- MODULE BotBackfill ----------------------------
(***************************************************************************)
(* DefaultBackfillManager (src/bot/backfill.rs) filling lobbies with the   *)
(* bots of a BotProvider (src/bot/provider.rs).                            *)
(*                                                                         *)
(* needs_backfill only reads; backfill_lobby is the chain                  *)
(*    SelectBots -> ReserveBots -> AddBot ... AddBot -> FinishBackfill     *)
(* with an await on the provider between its steps.  It borrows the        *)
(* manager and the lobby mutably for all of it, so there is one backfill   *)
(* at a time and nothing else happens to its lobby; between needs_backfill *)
(* and backfill_lobby, and to the other lobbies, anything may happen.      *)
(*                                                                         *)
(* Which bots are near enough to the humans' mean rating is left open:     *)
(* any set of free bots, up to the number asked for, may be selected.      *)
(***************************************************************************)
EXTENDS TimedLobby

CONSTANTS
    LobbyId,          \* the lobbies, all of them General
    MinHumans,        \* min_humans_for_backfill
    MaxBots,          \* max_bots_per_backfill
    Cooldown,         \* backfill_cooldown_seconds
    ExtendedWait,     \* twice what the wait time provider returns for humans
    Manual,           \* whether backfill_lobby is also called with trigger Manual
    Leavers,          \* who may be taken out of a lobby
    Withdrawals,      \* the bots the provider may be told to remove
    Horizon           \* where the clock stops

Bot == Player \ Human

ASSUME BackfillAssumption ==
    /\ MinHumans \in Nat \ {0}      \* BackfillConfig::validate
    /\ MaxBots \in Nat \ {0}
    /\ Cooldown \in Nat /\ ExtendedWait \in Nat /\ Horizon \in Nat
    /\ Manual \in BOOLEAN
    /\ Leavers \subseteq Player
    /\ Withdrawals \subseteq Bot

VARIABLES
    now,            \* the clock
    lobby,          \* the LobbyInstance of every id
    available,      \* the keys of available_bots
    reserved,       \* reserved_bots, which never holds an id twice
    last_backfill,  \* last_backfill_times
    stats,          \* BackfillStats
    op              \* the operation in progress

vars == <<now, lobby, available, reserved, last_backfill, stats, op>>

Idle == [pc |-> "idle", lobby |-> Unset, trigger |-> Unset, started |-> Unset,
         selected |-> {}, todo |-> {}, added |-> {}]

Trigger == {"WaitTimeExpired", "ExtendedWait", "Manual"}

\* failed_backfills is left out: nothing ever counts a failure.
Stats ==
    [total_backfills : Nat, successful_backfills : Nat, bots_added : Nat,
     lobbies_filled : Nat]

\* selected: the bots chosen, todo: those not yet tried, added: those seated.
Operation ==
    [pc : {"idle", "called", "reserve", "add"}, lobby : LobbyId \cup {Unset},
     trigger : Trigger \cup {Unset}, started : Nat \cup {Unset}, selected : SUBSET Bot, todo : SUBSET Bot,
     added : SUBSET Bot]

TypeOK ==
    /\ now \in Nat
    /\ lobby \in [LobbyId -> TimedLobbyRecord]
    /\ available \subseteq Bot
    /\ reserved \subseteq Bot
    /\ last_backfill \in [LobbyId -> Nat \cup {Unset}]
    /\ stats \in Stats
    /\ op \in Operation

Init ==
    /\ now = 0
    /\ lobby = [l \in LobbyId |-> NewInstance("General", 0)]
    /\ available = Bot
    /\ reserved = {}
    /\ last_backfill = [l \in LobbyId |-> Unset]
    /\ stats = [total_backfills |-> 0, successful_backfills |-> 0, bots_added |-> 0,
                lobbies_filled |-> 0]
    /\ op = Idle
-----------------------------------------------------------------------------
(***************************************************************************)
(* The backfill manager.                                                   *)
(***************************************************************************)

Seated(l) == {lobby[l].queue[i] : i \in 1..Len(lobby[l].queue)}

CooldownExpired_Inclusive(l) ==
    last_backfill[l] # Unset => now >= last_backfill[l] + Cooldown

\* is_cooldown_expired
CooldownExpired(l) ==
    last_backfill[l] # Unset => now > last_backfill[l] + Cooldown

\* DefaultBackfillManager::needs_backfill: WaitTimeExpired or ExtendedWait.
Wanted(l) ==
    /\ lobby[l].type = "General"
    /\ ~IsFull(lobby[l])
    /\ Cardinality(ActiveHumans(lobby[l])) >= MinHumans
    /\ CooldownExpired(l)
    /\ \/ NeedsBackfill(lobby[l], now)
       \/ now - lobby[l].created_at > ExtendedWait

BotsNeeded_Unchecked(l) == MaxBots

\* calculate_bots_needed, with its saturating subtraction.
BotsNeeded(l) ==
    IF IsFull(lobby[l]) THEN 0
    ELSE LET free == Capacity(lobby[l]) - Len(lobby[l].queue)
         IN  IF free <= MaxBots THEN free ELSE MaxBots

FreeBots_Reserved(l) == available \ Seated(l)

\* What select_backfill_bots may return for the lobby, but for the ratings.
FreeBots(l) == (available \ reserved) \ Seated(l)

\* What needs_backfill answers for a lobby that wants bots.
WantedBecause(l) ==
    IF NeedsBackfill(lobby[l], now) THEN "WaitTimeExpired" ELSE "ExtendedWait"

\* Somebody asks whether lobby l needs bots, or wants them anyway.
CallBackfill(l) ==
    /\ op = Idle
    /\ \E trigger \in Trigger :
          /\ \/ Wanted(l) /\ trigger = WantedBecause(l)
             \/ Manual /\ trigger = "Manual"
          /\ op' = [Idle EXCEPT !.pc = "called", !.lobby = l, !.trigger = trigger]
    /\ UNCHANGED <<now, lobby, available, reserved, last_backfill, stats>>

\* backfill_lobby up to the selection: nothing to do, no human to rate the bots
\* by, and no suitable bot are early returns.
SelectBots ==
    /\ op.pc = "called"
    /\ IF BotsNeeded(op.lobby) = 0 \/ ActiveHumans(lobby[op.lobby]) = {}
       THEN op' = Idle
       ELSE \E chosen \in SUBSET FreeBots(op.lobby) :
               /\ Cardinality(chosen) <= BotsNeeded(op.lobby)
               /\ op' = IF chosen = {} THEN Idle
                        ELSE [op EXCEPT !.pc = "reserve", !.started = now,
                                        !.selected = chosen, !.todo = chosen]
    /\ UNCHANGED <<now, lobby, available, reserved, last_backfill, stats>>

\* reserve_bots
ReserveBots ==
    /\ op.pc = "reserve"
    /\ reserved' = reserved \cup op.selected
    /\ op' = [op EXCEPT !.pc = "add"]
    /\ UNCHANGED <<now, lobby, available, last_backfill, stats>>

\* One turn of the loop: a bot that cannot be added is released.
AddBot(b) ==
    /\ op.pc = "add"
    /\ b \in op.todo
    /\ IF CanAdd(lobby[op.lobby], b)
       THEN /\ lobby' = [lobby EXCEPT ![op.lobby] = Added(@, b, now)]
            /\ op' = [op EXCEPT !.todo = @ \ {b}, !.added = @ \cup {b}]
            /\ UNCHANGED reserved
       ELSE /\ reserved' = reserved \ {b}
            /\ op' = [op EXCEPT !.todo = @ \ {b}]
            /\ UNCHANGED lobby
    /\ UNCHANGED <<now, available, last_backfill, stats>>

\* update_stats, which starts the cooldown at the time the operation began.
UpdateStats ==
    /\ stats' = [stats EXCEPT
                    !.total_backfills = @ + 1,
                    !.successful_backfills = @ + 1,
                    !.bots_added = @ + Cardinality(op.added),
                    !.lobbies_filled = @ + (IF IsFull(lobby[op.lobby]) THEN 1 ELSE 0)]
    /\ last_backfill' = [last_backfill EXCEPT ![op.lobby] = op.started]

FinishBackfill_ReleasesAll ==
    /\ op.pc = "add"
    /\ op.todo = {}
    /\ op' = Idle
    /\ reserved' = reserved \ op.selected
    /\ IF op.added = {} THEN UNCHANGED <<last_backfill, stats>> ELSE UpdateStats
    /\ UNCHANGED <<now, lobby, available>>

\* The end: release everything if no bot was added, else update the statistics.
FinishBackfill ==
    /\ op.pc = "add"
    /\ op.todo = {}
    /\ op' = Idle
    /\ IF op.added = {}
       THEN reserved' = reserved \ op.selected /\ UNCHANGED <<last_backfill, stats>>
       ELSE UpdateStats /\ UNCHANGED reserved
    /\ UNCHANGED <<now, lobby, available>>
-----------------------------------------------------------------------------
(***************************************************************************)
(* Everything else that happens to the lobbies and the provider.           *)
(***************************************************************************)

\* The lobby backfill_lobby has borrowed.
Borrowed(l) == op.pc \in {"reserve", "add"} /\ op.lobby = l

HumanJoins(l, p) ==
    /\ ~Borrowed(l)
    /\ CanAdd(lobby[l], p)
    /\ lobby' = [lobby EXCEPT ![l] = Added(@, p, now)]
    /\ UNCHANGED <<now, available, reserved, last_backfill, stats, op>>

PlayerLeaves(l, p) ==
    /\ ~Borrowed(l)
    /\ InQueue(lobby[l], p)
    /\ lobby' = [lobby EXCEPT ![l] = Removed(@, p, now)]
    /\ UNCHANGED <<now, available, reserved, last_backfill, stats, op>>

GameStarts(l) ==
    /\ ~Borrowed(l)
    /\ ShouldStart(lobby[l])
    /\ lobby' = [lobby EXCEPT ![l] = Starting(@, now)]
    /\ UNCHANGED <<now, available, reserved, last_backfill, stats, op>>

\* MockBotProvider::remove_bot
WithdrawBot(b) ==
    /\ b \in available
    /\ available' = available \ {b}
    /\ UNCHANGED <<now, lobby, reserved, last_backfill, stats, op>>

\* MockBotProvider::add_bot, which turns down a human; a reservation of a bot
\* that was removed and is added again still stands.
ReturnBot(p) ==
    /\ p \in Bot
    /\ available' = available \cup {p}
    /\ UNCHANGED <<now, lobby, reserved, last_backfill, stats, op>>

Tick ==
    /\ now < Horizon
    /\ now' = now + 1
    /\ UNCHANGED <<lobby, available, reserved, last_backfill, stats, op>>

Next ==
    \/ \E l \in LobbyId :
          \/ CallBackfill(l)
          \/ \E p \in Human : HumanJoins(l, p)
          \/ \E p \in Leavers : PlayerLeaves(l, p)
          \/ GameStarts(l)
    \/ SelectBots \/ ReserveBots \/ FinishBackfill
    \/ \E b \in Bot : AddBot(b)
    \/ \E b \in Withdrawals : WithdrawBot(b)
    \/ \E p \in Player : ReturnBot(p)
    \/ Tick

Spec == Init /\ [][Next]_vars
-----------------------------------------------------------------------------
\* A bot that was brought into a lobby stays reserved and sits in no other one,
\* whatever happened to the lobby it was meant for.
BotsExclusive ==
    \A l \in LobbyId : \A b \in Seated(l) \cap Bot :
        /\ b \in reserved
        /\ \A k \in LobbyId \ {l} : b \notin Seated(k)

\* Bots are brought in for free places only, even when the lobby changed since
\* it was found to need them.
BackfillFits ==
    [][\A l \in LobbyId :
          Borrowed(l) => \/ lobby'[l] = lobby[l]
                         \/ Len(lobby'[l].queue) <= Capacity(lobby[l])]_vars

\* Every reservation is for a bot that was seated: a backfill that fails half-way,
\* say because the game is starting, gives back what it reserved, and nothing else
\* ever gives one back, so a bot that has left its lobby stays reserved.
ReservationsCounted ==
    op = Idle => Cardinality(reserved) = stats.bots_added

\* Two backfills of one lobby that brought bots are further apart than the
\* cooldown, unless somebody asked for the later one by hand.
BackfillsSpaced ==
    [][\A l \in LobbyId :
          /\ last_backfill[l] \notin {Unset, last_backfill'[l]}
          /\ op.trigger # "Manual"
          => last_backfill'[l] > last_backfill[l] + Cooldown]_vars
=============================================================================
