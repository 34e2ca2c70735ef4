------------------------- MODULE BotBackfillProofs -------------------------
(***************************************************************************)
(* What the reservations of the bot provider guarantee, for any number of  *)
(* lobbies, humans and bots, every configuration that validate_config      *)
(* accepts and every choice of bots by rating.                             *)
(***************************************************************************)
EXTENDS BotBackfill, TimedLobbyProofs, FiniteSetTheorems

WellFormed ==
    /\ TypeOK
    /\ \A l \in LobbyId : Sorted(lobby[l]) /\ QueuedOnce(lobby[l])
    /\ op.pc # "idle" => op.lobby \in LobbyId

\* Where the bots are: reserved once they sit somewhere, and in one place only.
SeatsReserved ==
    /\ \A l \in LobbyId, b \in Bot : InQueue(lobby[l], b) => b \in reserved
    /\ \A k, l \in LobbyId, b \in Bot :
          InQueue(lobby[k], b) /\ InQueue(lobby[l], b) => k = l

\* Where the bots of the backfill in progress are: nowhere yet, except those
\* that have been added.
BotsInHand ==
    /\ op.pc = "called" => op.added = {}
    /\ op.pc = "reserve" =>
          op.selected \cap reserved = {} /\ op.todo = op.selected /\ op.added = {}
    /\ op.pc = "add" =>
          /\ op.todo \subseteq reserved
          /\ \A l \in LobbyId, b \in op.todo : ~InQueue(lobby[l], b)
          /\ \A l \in LobbyId, b \in op.selected : InQueue(lobby[l], b) => b \in op.added

\* The lobby has a free place for every bot that is still to be added.
RoomLeft ==
    op.pc \in {"reserve", "add"} =>
        Len(lobby[op.lobby].queue) + Cardinality(op.todo) <= Capacity(lobby[op.lobby])

\* The steps that touch neither a lobby nor the backfill in progress.
OutsideAction ==
    \/ \E b \in Withdrawals : WithdrawBot(b)
    \/ \E p \in Player : ReturnBot(p)
    \/ Tick

BackfillInv == WellFormed /\ SeatsReserved /\ BotsInHand /\ RoomLeft
-----------------------------------------------------------------------------
(***************************************************************************)
(* Preliminaries.                                                          *)
(***************************************************************************)

\* The sets of bots that occur are finite.
LEMMA BotsFinite ==
    ASSUME NEW S \in SUBSET Bot
    PROVE  IsFiniteSet(S) /\ Cardinality(S) \in Nat
<1>1. IsFiniteSet(S)
  BY PlayerAssumption, FS_Subset DEF Bot
<1>2. QED
  BY <1>1, FS_CardinalityType

\* Seated and InQueue say the same.
LEMMA SeatedIsQueued ==
    ASSUME NEW l, NEW b
    PROVE  b \in Seated(l) <=> InQueue(lobby[l], b)
  BY DEF Seated, InQueue

\* The capacity of every lobby of the map.
LEMMA LobbyCapacityType ==
    ASSUME NEW l \in TimedLobbyRecord
    PROVE  Capacity(l) \in Nat /\ Len(l.queue) \in Nat
<1>1. Capacity(l) \in 1..MaxCapacity
  BY TimedIsLobby, CapacityType
<1>2. l.queue \in Seq(Player)
  BY DEF TimedLobbyRecord
<1>3. QED
  BY <1>1, <1>2 DEF MaxCapacity
-----------------------------------------------------------------------------
(***************************************************************************)
(* The invariant.                                                          *)
(***************************************************************************)

\* An empty lobby per id, no bot reserved, nothing in progress.
LEMMA BackfillInit ==
    Init => BackfillInv
<1> SUFFICES ASSUME Init PROVE BackfillInv
  OBVIOUS
<1> DEFINE e == NewInstance("General", 0)
<1>1. e \in TimedLobbyRecord /\ e.queue = <<>>
  BY DEF NewInstance, TimedLobbyRecord, LobbyState, LobbyType
<1>2. Len(e.queue) = 0 /\ 1..Len(e.queue) = {}
  BY <1>1
<1>3. Sorted(e) /\ QueuedOnce(e) /\ \A x : ~InQueue(e, x)
  BY <1>2 DEF Sorted, QueuedOnce, InQueue
<1>4. /\ op.pc = "idle" /\ op \in Operation
      /\ \A l \in LobbyId : lobby[l] = e
      /\ lobby \in [LobbyId -> TimedLobbyRecord]
  BY <1>1 DEF Init, Idle, Operation
<1>5. TypeOK
  BY <1>4 DEF Init, TypeOK, Stats
<1>6. QED
  BY <1>3, <1>4, <1>5 DEF BackfillInv, WellFormed, SeatsReserved, BotsInHand, RoomLeft

\* Somebody else changes a lobby that is not borrowed, and brings in no bot.
LEMMA OthersStep ==
    ASSUME BackfillInv, NEW l \in LobbyId, NEW m, ~Borrowed(l),
           Follows(m, lobby[l]),
           \A b \in Bot : InQueue(m, b) => InQueue(lobby[l], b),
           lobby' = [lobby EXCEPT ![l] = m],
           UNCHANGED <<now, available, reserved, last_backfill, stats, op>>
    PROVE  BackfillInv'
<1>1. lobby \in [LobbyId -> TimedLobbyRecord] /\ m \in TimedLobbyRecord
  BY DEF BackfillInv, WellFormed, TypeOK, Follows
<1>2. \A k \in LobbyId : lobby'[k] = IF k = l THEN m ELSE lobby[k]
  BY <1>1
<1>3. TypeOK'
  BY <1>1 DEF BackfillInv, WellFormed, TypeOK
<1>4. \A k \in LobbyId : Sorted(lobby'[k]) /\ QueuedOnce(lobby'[k])
  BY <1>2 DEF BackfillInv, WellFormed, Follows
<1>5. WellFormed'
  BY <1>3, <1>4 DEF BackfillInv, WellFormed
<1>6. \A k \in LobbyId, b \in Bot : InQueue(lobby'[k], b) => InQueue(lobby[k], b)
  BY <1>2
<1>7. SeatsReserved'
  BY <1>6 DEF BackfillInv, SeatsReserved
<1>8. op \in Operation
  BY DEF BackfillInv, WellFormed, TypeOK
<1>9. BotsInHand'
  <2>1. op.todo \subseteq Bot /\ op.selected \subseteq Bot
    BY <1>8 DEF Operation
  <2>2. QED
    BY <1>6, <2>1 DEF BackfillInv, BotsInHand
<1>10. RoomLeft'
  <2> SUFFICES ASSUME op.pc \in {"reserve", "add"}
               PROVE  Len(lobby'[op.lobby].queue) + Cardinality(op.todo)
                         <= Capacity(lobby'[op.lobby])
    BY DEF RoomLeft
  <2>1. op.lobby \in LobbyId /\ op.lobby # l
    BY DEF BackfillInv, WellFormed, Borrowed
  <2>2. lobby'[op.lobby] = lobby[op.lobby]
    BY <1>2, <2>1
  <2>3. QED
    BY <2>2 DEF BackfillInv, RoomLeft
<1>11. QED
  BY <1>5, <1>7, <1>9, <1>10 DEF BackfillInv

\* needs_backfill and the calls that follow it change nothing but the operation.
LEMMA CallStep ==
    ASSUME BackfillInv, NEW l \in LobbyId, CallBackfill(l)
    PROVE  BackfillInv'
<1>1. /\ op'.pc = "called" /\ op'.lobby = l /\ op' \in Operation
      /\ UNCHANGED <<now, lobby, available, reserved, last_backfill, stats>>
  BY DEF CallBackfill, Idle, Operation
<1>2. WellFormed' /\ op'.added = {}
  BY <1>1 DEF BackfillInv, WellFormed, TypeOK, CallBackfill, Idle
<1>3. QED
  BY <1>1, <1>2 DEF BackfillInv, SeatsReserved, BotsInHand, RoomLeft

\* SelectBots ends the call or goes on to the reservation.
LEMMA SelectOutcome ==
    ASSUME BackfillInv, SelectBots
    PROVE  /\ op.pc = "called"
           /\ UNCHANGED <<now, lobby, available, reserved, last_backfill, stats>>
           /\ \/ op' = Idle
              \/ \E chosen \in SUBSET FreeBots(op.lobby) :
                    op' = [op EXCEPT !.pc = "reserve", !.started = now,
                                     !.selected = chosen, !.todo = chosen]
  BY DEF SelectBots

\* The bots selected are free, and no more than there are free places.
LEMMA SelectStep ==
    ASSUME BackfillInv, SelectBots
    PROVE  BackfillInv'
<1> DEFINE k == op.lobby
<1>1. /\ op.pc = "called" /\ k \in LobbyId
      /\ lobby[k] \in TimedLobbyRecord /\ now \in Nat /\ available \subseteq Bot
      /\ UNCHANGED <<now, lobby, available, reserved, last_backfill, stats>>
  BY DEF SelectBots, BackfillInv, WellFormed, TypeOK
<1>2. CASE op' = Idle
  <2>1. op'.pc = "idle" /\ op' \in Operation
    BY <1>2 DEF Idle, Operation
  <2>2. WellFormed'
    BY <1>1, <2>1 DEF BackfillInv, WellFormed, TypeOK
  <2>3. QED
    BY <1>1, <2>1, <2>2 DEF BackfillInv, SeatsReserved, BotsInHand, RoomLeft
<1>3. CASE op' # Idle
  <2>1. PICK chosen \in SUBSET FreeBots(k) :
          /\ Cardinality(chosen) <= BotsNeeded(k)
          /\ op' = [op EXCEPT !.pc = "reserve", !.started = now,
                              !.selected = chosen, !.todo = chosen]
    BY <1>3 DEF SelectBots
  <2>2. ~IsFull(lobby[k])
    <3>1. BotsNeeded(k) # 0
      BY <1>3 DEF SelectBots
    <3>2. QED
      BY <3>1 DEF BotsNeeded
  <2>3. chosen \subseteq Bot /\ chosen \cap reserved = {}
    BY <1>1 DEF FreeBots
  <2>4. op \in Operation /\ op.added \subseteq Bot
    BY DEF BackfillInv, WellFormed, TypeOK, Operation
  <2>5. /\ op' \in Operation
        /\ op'.pc = "reserve" /\ op'.lobby = k
        /\ op'.selected = chosen /\ op'.todo = chosen /\ op'.added = op.added
    BY <1>1, <2>1, <2>3, <2>4 DEF Operation
  <2>6. op.added = {}
    BY <1>1 DEF BackfillInv, BotsInHand
  <2>7. WellFormed'
    BY <1>1, <2>5 DEF BackfillInv, WellFormed, TypeOK
  <2>8. Len(lobby[k].queue) + Cardinality(chosen) <= Capacity(lobby[k])
    <3>1. /\ Capacity(lobby[k]) \in Nat /\ Len(lobby[k].queue) \in Nat
          /\ Len(lobby[k].queue) < Capacity(lobby[k])
      BY <1>1, <2>2, LobbyCapacityType DEF IsFull
    <3>2. Cardinality(chosen) \in Nat
      BY <2>3, BotsFinite
    <3>3. BotsNeeded(k) \in Nat /\ BotsNeeded(k) <= Capacity(lobby[k]) - Len(lobby[k].queue)
      BY <2>2, <3>1, BackfillAssumption DEF BotsNeeded
    <3>4. QED
      BY <2>1, <3>1, <3>2, <3>3
  <2>9. RoomLeft'
    BY <1>1, <2>5, <2>8 DEF RoomLeft
  <2>10. BotsInHand'
    BY <1>1, <2>3, <2>5, <2>6 DEF BotsInHand
  <2>11. SeatsReserved'
    BY <1>1 DEF BackfillInv, SeatsReserved
  <2>12. QED
    BY <2>7, <2>9, <2>10, <2>11, <2>5 DEF BackfillInv
<1>4. QED
  BY <1>2, <1>3

\* reserve_bots: the bots in hand are still free.
LEMMA ReserveStep ==
    ASSUME BackfillInv, ReserveBots
    PROVE  BackfillInv'
<1>1. /\ op.pc = "reserve" /\ op \in Operation /\ reserved \subseteq Bot
      /\ op.todo = op.selected /\ op.selected \cap reserved = {} /\ op.lobby \in LobbyId
      /\ reserved' = reserved \cup op.selected
      /\ op' = [op EXCEPT !.pc = "add"]
      /\ UNCHANGED <<now, lobby, available, last_backfill, stats>>
  BY DEF ReserveBots, BackfillInv, WellFormed, TypeOK, BotsInHand
<1>2. /\ op' \in Operation /\ op.selected \subseteq Bot
      /\ op'.pc = "add" /\ op'.lobby = op.lobby
      /\ op'.selected = op.selected /\ op'.todo = op.todo /\ op'.added = op.added
  BY <1>1 DEF Operation
<1>3. WellFormed'
  BY <1>1, <1>2 DEF BackfillInv, WellFormed, TypeOK
<1>4. SeatsReserved'
  BY <1>1 DEF BackfillInv, SeatsReserved
<1>5. BotsInHand'
  <2>1. \A l \in LobbyId, b \in op.selected : ~InQueue(lobby[l], b)
    BY <1>1, <1>2 DEF BackfillInv, SeatsReserved
  <2>2. QED
    BY <1>1, <1>2, <2>1 DEF BotsInHand
<1>6. RoomLeft'
  BY <1>1, <1>2 DEF BackfillInv, RoomLeft
<1>7. QED
  BY <1>3, <1>4, <1>5, <1>6 DEF BackfillInv

\* A bot that can be added takes its seat.
LEMMA SeatStep ==
    ASSUME BackfillInv, NEW b \in Bot, AddBot(b), CanAdd(lobby[op.lobby], b)
    PROVE  BackfillInv'
<1> DEFINE k == op.lobby
           m == Added(lobby[k], b, now)
<1>1. /\ op.pc = "add" /\ op \in Operation /\ b \in op.todo /\ k \in LobbyId
      /\ lobby \in [LobbyId -> TimedLobbyRecord] /\ now \in Nat
      /\ Sorted(lobby[k]) /\ QueuedOnce(lobby[k])
      /\ lobby' = [lobby EXCEPT ![k] = m]
      /\ op' = [op EXCEPT !.todo = @ \ {b}, !.added = @ \cup {b}]
      /\ UNCHANGED <<now, reserved, available, last_backfill, stats>>
  BY DEF AddBot, BackfillInv, WellFormed, TypeOK
<1>2. /\ Follows(m, lobby[k])
      /\ \A x : InQueue(m, x) <=> x = b \/ InQueue(lobby[k], x)
      /\ Len(m.queue) = Len(lobby[k].queue) + 1
  <2>1. b \in Player /\ lobby[k] \in TimedLobbyRecord
    BY <1>1 DEF Bot
  <2>2. QED
    BY <1>1, <2>1, AddedSeats
<1> HIDE DEF m
<1>3. \A l \in LobbyId : lobby'[l] = IF l = k THEN m ELSE lobby[l]
  BY <1>1
<1>4. /\ op' \in Operation
      /\ op'.pc = "add" /\ op'.lobby = k /\ op'.selected = op.selected
      /\ op'.todo = op.todo \ {b} /\ op'.added = op.added \cup {b}
      /\ op.todo \subseteq Bot /\ op.selected \subseteq Bot
  BY <1>1 DEF Operation
<1>5. WellFormed'
  <2>1. TypeOK'
    BY <1>1, <1>2, <1>4 DEF BackfillInv, WellFormed, TypeOK, Follows
  <2>2. \A l \in LobbyId : Sorted(lobby'[l]) /\ QueuedOnce(lobby'[l])
    BY <1>2, <1>3 DEF BackfillInv, WellFormed, Follows
  <2>3. QED
    BY <1>1, <1>4, <2>1, <2>2 DEF WellFormed
<1>6. \A l \in LobbyId, x \in Bot :
         InQueue(lobby'[l], x) <=> InQueue(lobby[l], x) \/ (l = k /\ x = b)
  BY <1>2, <1>3
<1>7. /\ b \in reserved
      /\ op.todo \subseteq reserved
      /\ \A l \in LobbyId, x \in op.todo : ~InQueue(lobby[l], x)
      /\ \A l \in LobbyId, x \in op.selected : InQueue(lobby[l], x) => x \in op.added
  BY <1>1 DEF BackfillInv, BotsInHand
<1>8. SeatsReserved'
  <2>1. \A l \in LobbyId, x \in Bot : InQueue(lobby'[l], x) => x \in reserved
    BY <1>6, <1>7 DEF BackfillInv, SeatsReserved
  <2>2. \A j, l \in LobbyId, x \in Bot :
           InQueue(lobby'[j], x) /\ InQueue(lobby'[l], x) => j = l
    BY <1>1, <1>6, <1>7 DEF BackfillInv, SeatsReserved
  <2>3. QED
    BY <1>1, <2>1, <2>2 DEF SeatsReserved
<1>9. BotsInHand'
  <2>1. op.todo \ {b} \subseteq reserved
    BY <1>7
  <2>2. \A l \in LobbyId, x \in op.todo \ {b} : ~InQueue(lobby'[l], x)
    BY <1>4, <1>6, <1>7
  <2>3. \A l \in LobbyId, x \in op.selected :
           InQueue(lobby'[l], x) => x \in op.added \cup {b}
    BY <1>4, <1>6, <1>7
  <2>4. QED
    BY <1>1, <1>4, <2>1, <2>2, <2>3 DEF BotsInHand
<1>10. RoomLeft'
  <2>1. Cardinality(op.todo \ {b}) = Cardinality(op.todo) - 1
    BY <1>1, <1>4, BotsFinite, FS_RemoveElement
  <2>2. Cardinality(op.todo) \in Nat
    BY <1>4, BotsFinite
  <2>3. Capacity(lobby[k]) \in Nat /\ Len(lobby[k].queue) \in Nat
    BY <1>1, LobbyCapacityType
  <2>4. Len(lobby[k].queue) + Cardinality(op.todo) <= Capacity(lobby[k])
    BY <1>1 DEF BackfillInv, RoomLeft
  <2>5. Capacity(m) = Capacity(lobby[k])
    BY <1>2 DEF Capacity, Follows
  <2>6. Len(m.queue) + Cardinality(op.todo \ {b}) <= Capacity(m)
    BY <1>2, <2>1, <2>2, <2>3, <2>4, <2>5
  <2>7. QED
    BY <1>1, <1>3, <1>4, <2>6 DEF RoomLeft
<1>11. QED
  BY <1>5, <1>8, <1>9, <1>10 DEF BackfillInv

\* A bot that cannot be added is released; it sits nowhere.
LEMMA RefuseStep ==
    ASSUME BackfillInv, NEW b \in Bot, AddBot(b), ~CanAdd(lobby[op.lobby], b)
    PROVE  BackfillInv'
<1>1. /\ op.pc = "add" /\ op \in Operation /\ b \in op.todo /\ op.lobby \in LobbyId
      /\ reserved' = reserved \ {b}
      /\ op' = [op EXCEPT !.todo = @ \ {b}]
      /\ UNCHANGED <<now, lobby, available, last_backfill, stats>>
      /\ lobby \in [LobbyId -> TimedLobbyRecord]
  BY DEF AddBot, BackfillInv, WellFormed, TypeOK
<1>2. /\ op' \in Operation
      /\ op'.pc = "add" /\ op'.lobby = op.lobby /\ op'.selected = op.selected
      /\ op'.todo = op.todo \ {b} /\ op'.added = op.added
      /\ op.todo \subseteq Bot
  BY <1>1 DEF Operation
<1>3. /\ op.todo \subseteq reserved
      /\ \A l \in LobbyId, x \in op.todo : ~InQueue(lobby[l], x)
      /\ \A l \in LobbyId, x \in op.selected : InQueue(lobby[l], x) => x \in op.added
  BY <1>1 DEF BackfillInv, BotsInHand
<1>4. WellFormed'
  BY <1>1, <1>2 DEF BackfillInv, WellFormed, TypeOK
<1>5. SeatsReserved'
  BY <1>1, <1>3 DEF BackfillInv, SeatsReserved
<1>6. BotsInHand'
  BY <1>1, <1>2, <1>3 DEF BotsInHand
<1>7. RoomLeft'
  <2>1. Cardinality(op.todo \ {b}) = Cardinality(op.todo) - 1
    BY <1>1, <1>2, BotsFinite, FS_RemoveElement
  <2>2. Cardinality(op.todo) \in Nat
    BY <1>2, BotsFinite
  <2>3. Capacity(lobby[op.lobby]) \in Nat /\ Len(lobby[op.lobby].queue) \in Nat
    BY <1>1, LobbyCapacityType
  <2>4. Len(lobby[op.lobby].queue) + Cardinality(op.todo) <= Capacity(lobby[op.lobby])
    BY <1>1 DEF BackfillInv, RoomLeft
  <2>5. Len(lobby[op.lobby].queue) + Cardinality(op.todo \ {b}) <= Capacity(lobby[op.lobby])
    BY <2>1, <2>2, <2>3, <2>4
  <2>6. QED
    BY <1>1, <1>2, <2>5 DEF RoomLeft
<1>8. QED
  BY <1>4, <1>5, <1>6, <1>7 DEF BackfillInv

\* The bots given back at the end sit nowhere.
LEMMA FinishStep ==
    ASSUME BackfillInv, FinishBackfill
    PROVE  BackfillInv'
<1>1. /\ op.pc = "add" /\ op \in Operation /\ op.lobby \in LobbyId
      /\ op' = Idle
      /\ \/ op.added = {} /\ reserved' = reserved \ op.selected
         \/ reserved' = reserved
      /\ UNCHANGED <<now, lobby, available>>
      /\ last_backfill \in [LobbyId -> Nat \cup {Unset}]
  BY DEF FinishBackfill, BackfillInv, WellFormed, TypeOK
<1>2. op'.pc = "idle" /\ op' \in Operation
  BY <1>1 DEF Idle, Operation
<1>3. last_backfill' \in [LobbyId -> Nat \cup {Unset}] /\ stats' \in Stats
  <2>1. stats \in Stats /\ op.started \in Nat \cup {Unset} /\ Cardinality(op.added) \in Nat
    <3>1. op.added \subseteq Bot
      BY <1>1 DEF Operation
    <3>2. QED
      BY <1>1, <3>1, BotsFinite DEF BackfillInv, WellFormed, TypeOK, Operation
  <2>2. CASE op.added = {}
    BY <1>1, <2>1, <2>2 DEF FinishBackfill
  <2>3. CASE op.added # {}
    <3>1. UpdateStats
      BY <2>3 DEF FinishBackfill
    <3>2. last_backfill' \in [LobbyId -> Nat \cup {Unset}]
      BY <1>1, <2>1, <3>1 DEF UpdateStats
    <3>3. stats' \in Stats
      <4> DEFINE n == IF IsFull(lobby[op.lobby]) THEN 1 ELSE 0
      <4>1. n \in Nat
        OBVIOUS
      <4>2. stats' = [stats EXCEPT !.total_backfills = @ + 1,
                                   !.successful_backfills = @ + 1,
                                   !.bots_added = @ + Cardinality(op.added),
                                   !.lobbies_filled = @ + n]
        BY <3>1 DEF UpdateStats
      <4> HIDE DEF n
      <4>3. /\ stats.total_backfills \in Nat /\ stats.successful_backfills \in Nat
            /\ stats.bots_added \in Nat /\ stats.lobbies_filled \in Nat
        BY <2>1 DEF Stats
      <4>4. stats' = [total_backfills |-> stats.total_backfills + 1,
                      successful_backfills |-> stats.successful_backfills + 1,
                      bots_added |-> stats.bots_added + Cardinality(op.added),
                      lobbies_filled |-> stats.lobbies_filled + n]
        BY <2>1, <4>2 DEF Stats
      <4>5. QED
        BY <2>1, <4>1, <4>3, <4>4 DEF Stats
    <3>4. QED
      BY <3>2, <3>3
  <2>4. QED
    BY <2>2, <2>3
<1>4. WellFormed'
  BY <1>1, <1>2, <1>3 DEF BackfillInv, WellFormed, TypeOK
<1>5. SeatsReserved'
  <2>1. \A l \in LobbyId, x \in op.selected : InQueue(lobby[l], x) => x \in op.added
    BY <1>1 DEF BackfillInv, BotsInHand
  <2>2. \A l \in LobbyId, x \in Bot : InQueue(lobby[l], x) => x \in reserved'
    BY <1>1, <2>1 DEF BackfillInv, SeatsReserved
  <2>3. QED
    BY <1>1, <2>2 DEF BackfillInv, SeatsReserved
<1>6. QED
  BY <1>2, <1>4, <1>5 DEF BackfillInv, BotsInHand, RoomLeft

\* Withdrawals and the clock touch neither the lobbies nor the reservations.
LEMMA OutsideStep ==
    ASSUME BackfillInv, OutsideAction \/ UNCHANGED vars
    PROVE  BackfillInv'
<1>1. /\ available' \subseteq Bot /\ now' \in Nat
      /\ UNCHANGED <<lobby, reserved, last_backfill, stats, op>>
  BY DEF OutsideAction, WithdrawBot, ReturnBot, Tick, vars, BackfillInv, WellFormed,
         TypeOK
<1>2. TypeOK'
  BY <1>1 DEF BackfillInv, WellFormed, TypeOK
<1>3. QED
  BY <1>1, <1>2 DEF BackfillInv, WellFormed, SeatsReserved, BotsInHand, RoomLeft

\* Players join and leave, and games start, in the lobbies that are not borrowed.
LEMMA LobbyStep ==
    ASSUME BackfillInv, NEW l \in LobbyId,
           \/ \E p \in Human : HumanJoins(l, p)
           \/ \E p \in Leavers : PlayerLeaves(l, p)
           \/ GameStarts(l)
    PROVE  BackfillInv'
<1>1. /\ lobby[l] \in TimedLobbyRecord /\ now \in Nat
      /\ Sorted(lobby[l]) /\ QueuedOnce(lobby[l])
  BY DEF BackfillInv, WellFormed, TypeOK
<1>2. ASSUME NEW p \in Human, HumanJoins(l, p) PROVE BackfillInv'
  <2> DEFINE m == Added(lobby[l], p, now)
  <2>1. /\ ~Borrowed(l) /\ CanAdd(lobby[l], p)
        /\ lobby' = [lobby EXCEPT ![l] = m]
        /\ UNCHANGED <<now, available, reserved, last_backfill, stats, op>>
    BY <1>2 DEF HumanJoins
  <2>2. p \in Player /\ p \notin Bot
    BY PlayerAssumption DEF Bot
  <2>3. /\ Follows(m, lobby[l])
        /\ \A x : InQueue(m, x) <=> x = p \/ InQueue(lobby[l], x)
    BY <1>1, <2>1, <2>2, AddedSeats
  <2> HIDE DEF m
  <2>4. \A b \in Bot : InQueue(m, b) => InQueue(lobby[l], b)
    BY <2>2, <2>3
  <2>5. QED
    BY <2>1, <2>3, <2>4, OthersStep
<1>3. ASSUME NEW p \in Leavers, PlayerLeaves(l, p) PROVE BackfillInv'
  <2> DEFINE m == Removed(lobby[l], p, now)
  <2>1. /\ ~Borrowed(l) /\ InQueue(lobby[l], p)
        /\ lobby' = [lobby EXCEPT ![l] = m]
        /\ UNCHANGED <<now, available, reserved, last_backfill, stats, op>>
    BY <1>3 DEF PlayerLeaves
  <2>2. Follows(m, lobby[l]) /\ \A x : InQueue(m, x) => InQueue(lobby[l], x)
    BY <1>1, <2>1, RemovedSeats
  <2> HIDE DEF m
  <2>3. QED
    BY <2>1, <2>2, OthersStep
<1>4. ASSUME GameStarts(l) PROVE BackfillInv'
  <2> DEFINE m == Starting(lobby[l], now)
  <2>1. /\ ~Borrowed(l)
        /\ lobby' = [lobby EXCEPT ![l] = m]
        /\ UNCHANGED <<now, available, reserved, last_backfill, stats, op>>
    BY <1>4 DEF GameStarts
  <2>2. Follows(m, lobby[l]) /\ \A x : InQueue(m, x) => InQueue(lobby[l], x)
    BY <1>1, StartingSeats
  <2> HIDE DEF m
  <2>3. QED
    BY <2>1, <2>2, OthersStep
<1>5. QED
  BY <1>2, <1>3, <1>4

\* Every step keeps the invariant.
LEMMA BackfillNext ==
    ASSUME BackfillInv, [Next]_vars
    PROVE  BackfillInv'
<1>1. ASSUME NEW l \in LobbyId, CallBackfill(l) PROVE BackfillInv'
  BY <1>1, CallStep
<1>2. ASSUME NEW l \in LobbyId,
             \/ \E p \in Human : HumanJoins(l, p)
             \/ \E p \in Leavers : PlayerLeaves(l, p)
             \/ GameStarts(l)
      PROVE  BackfillInv'
  BY <1>2, LobbyStep
<1>3. ASSUME SelectBots PROVE BackfillInv'
  BY <1>3, SelectStep
<1>4. ASSUME ReserveBots PROVE BackfillInv'
  BY <1>4, ReserveStep
<1>5. ASSUME FinishBackfill PROVE BackfillInv'
  BY <1>5, FinishStep
<1>6. ASSUME NEW b \in Bot, AddBot(b) PROVE BackfillInv'
  BY <1>6, SeatStep, RefuseStep
<1>7. ASSUME OutsideAction \/ UNCHANGED vars
      PROVE  BackfillInv'
  BY <1>7, OutsideStep
<1>8. QED
  BY <1>1, <1>2, <1>3, <1>4, <1>5, <1>6, <1>7 DEF Next, OutsideAction

\* The invariant holds in every reachable state.
LEMMA BackfillInvariant ==
    Spec => []BackfillInv
<1>1. Init => BackfillInv
  BY BackfillInit
<1>2. BackfillInv /\ [Next]_vars => BackfillInv'
  BY BackfillNext
<1>3. QED
  BY <1>1, <1>2, PTL DEF Spec
-----------------------------------------------------------------------------
(***************************************************************************)
(* The theorems.                                                           *)
(***************************************************************************)

\* Every variable has its type in every reachable state.
THEOREM BackfillTypeCorrect ==
    Spec => []TypeOK
<1>1. BackfillInv => TypeOK
  BY DEF BackfillInv, WellFormed
<1>2. QED
  BY <1>1, BackfillInvariant, PTL

\* select_backfill_bots and reserve_bots never bring a bot into two lobbies.
THEOREM BotsStayExclusive ==
    Spec => []BotsExclusive
<1>1. BackfillInv => BotsExclusive
  BY SeatedIsQueued DEF BackfillInv, SeatsReserved, BotsExclusive
<1>2. QED
  BY <1>1, BackfillInvariant, PTL

\* backfill_lobby never fills a lobby beyond its capacity.
THEOREM BackfillsFit ==
    Spec => BackfillFits
<1>1. ASSUME BackfillInv, [Next]_vars
      PROVE  [\A l \in LobbyId :
                 Borrowed(l) => \/ lobby'[l] = lobby[l]
                                \/ Len(lobby'[l].queue) <= Capacity(lobby[l])]_vars
  <2> SUFFICES ASSUME NEW l \in LobbyId, Borrowed(l), lobby'[l] # lobby[l]
               PROVE  Len(lobby'[l].queue) <= Capacity(lobby[l])
    OBVIOUS
  <2>1. op.pc \in {"reserve", "add"} /\ op.lobby = l
    BY DEF Borrowed
  <2>2. lobby \in [LobbyId -> TimedLobbyRecord]
    BY <1>1 DEF BackfillInv, WellFormed, TypeOK
  <2>3. \E b \in Bot : AddBot(b) /\ CanAdd(lobby[l], b)
    <3>1. ASSUME NEW k \in LobbyId,
                 \/ CallBackfill(k)
                 \/ \E p \in Human : HumanJoins(k, p)
                 \/ \E p \in Leavers : PlayerLeaves(k, p)
                 \/ GameStarts(k)
          PROVE  lobby'[l] = lobby[l]
      <4>1. CASE CallBackfill(k)
        BY <4>1 DEF CallBackfill
      <4>2. CASE ~CallBackfill(k)
        <5>1. ~Borrowed(k) /\ \E m : lobby' = [lobby EXCEPT ![k] = m]
          BY <3>1, <4>2 DEF HumanJoins, PlayerLeaves, GameStarts
        <5>2. k # l
          BY <5>1
        <5>3. QED
          BY <2>2, <5>1, <5>2
      <4>3. QED
        BY <4>1, <4>2
    <3>2. ASSUME SelectBots \/ ReserveBots \/ FinishBackfill
                   \/ OutsideAction \/ UNCHANGED vars
          PROVE  lobby'[l] = lobby[l]
      BY <3>2 DEF SelectBots, ReserveBots, FinishBackfill, OutsideAction, Tick,
             WithdrawBot, ReturnBot, vars
    <3>3. PICK b \in Bot : AddBot(b)
      BY <1>1, <3>1, <3>2 DEF Next, OutsideAction
    <3>4. CanAdd(lobby[l], b)
      BY <2>1, <3>3 DEF AddBot
    <3>5. QED
      BY <3>3, <3>4
  <2>4. PICK b \in Bot : AddBot(b) /\ CanAdd(lobby[l], b)
    BY <2>3
  <2>5. BackfillInv' /\ op'.pc = "add" /\ op'.lobby = l
    <3>1. op'.pc = op.pc /\ op'.lobby = op.lobby /\ op.pc = "add"
      <4>1. op \in Operation
        BY <1>1 DEF BackfillInv, WellFormed, TypeOK
      <4>2. QED
        BY <2>4, <4>1 DEF AddBot, Operation
    <3>2. QED
      BY <1>1, <2>1, <3>1, BackfillNext
  <2>6. Len(lobby'[l].queue) + Cardinality(op'.todo) <= Capacity(lobby'[l])
    BY <2>5 DEF BackfillInv, RoomLeft
  <2>7. lobby'[l] \in TimedLobbyRecord /\ op'.todo \subseteq Bot
    BY <2>5 DEF BackfillInv, WellFormed, TypeOK, Operation
  <2>8. Capacity(lobby'[l]) = Capacity(lobby[l])
    <3>1. lobby'[l].type = lobby[l].type
      <4>1. lobby'[l] = Added(lobby[l], b, now)
        BY <2>1, <2>2, <2>4 DEF AddBot
      <4>2. lobby[l] \in TimedLobbyRecord /\ now \in Nat /\ b \in Player /\ Sorted(lobby[l])
        BY <1>1, <2>2 DEF BackfillInv, WellFormed, TypeOK, Bot
      <4>3. HasAdded(lobby[l], b, now, lobby'[l])
        BY <4>1, <4>2, AddedProperties
      <4>4. QED
        BY <4>3 DEF HasAdded
    <3>2. QED
      BY <3>1 DEF Capacity
  <2>9. Cardinality(op'.todo) \in Nat /\ Len(lobby'[l].queue) \in Nat /\ Capacity(lobby'[l]) \in Nat
    BY <2>7, BotsFinite, LobbyCapacityType
  <2>10. QED
    BY <2>6, <2>8, <2>9
<1>2. QED
  BY <1>1, BackfillInvariant, PTL DEF Spec, BackfillFits
-----------------------------------------------------------------------------
(***************************************************************************)
(* The reservations against the statistics.                                *)
(***************************************************************************)

\* What is reserved is what was counted, and the bots in hand.
CountInv ==
    /\ op.pc # "add" => Cardinality(reserved) = stats.bots_added
    /\ op.pc = "add" =>
          /\ op.selected \cap reserved = op.todo \cup op.added
          /\ op.todo \cap op.added = {}
          /\ Cardinality(reserved)
                = stats.bots_added + Cardinality(op.todo) + Cardinality(op.added)

\* Reserving, seating, refusing and finishing keep the count.
LEMMA CountNext ==
    ASSUME BackfillInv, CountInv, [Next]_vars
    PROVE  CountInv'
<1>1. /\ op \in Operation /\ reserved \subseteq Bot /\ op.todo \subseteq Bot
      /\ op.selected \subseteq Bot /\ op.added \subseteq Bot
      /\ stats \in Stats /\ stats.bots_added \in Nat
  BY DEF BackfillInv, WellFormed, TypeOK, Operation, Stats
<1>2. /\ Cardinality(reserved) \in Nat /\ Cardinality(op.todo) \in Nat
      /\ Cardinality(op.added) \in Nat
      /\ IsFiniteSet(reserved) /\ IsFiniteSet(op.todo) /\ IsFiniteSet(op.added)
      /\ IsFiniteSet(op.selected)
  BY <1>1, BotsFinite
<1>3. ASSUME UNCHANGED <<reserved, stats, op>> PROVE CountInv'
  BY <1>3 DEF CountInv
<1>4. ASSUME NEW l \in LobbyId, CallBackfill(l) PROVE CountInv'
  <2>1. op.pc = "idle" /\ op'.pc = "called" /\ UNCHANGED <<reserved, stats>>
    BY <1>4 DEF CallBackfill, Idle
  <2>2. QED
    BY <2>1 DEF CountInv
<1>5. ASSUME SelectBots PROVE CountInv'
  <2>1. /\ op.pc = "called" /\ UNCHANGED <<reserved, stats>>
        /\ op' = Idle \/ op'.pc = "reserve"
    BY <1>1, <1>5, SelectOutcome DEF Operation
  <2>2. QED
    BY <2>1 DEF CountInv, Idle
<1>6. ASSUME ReserveBots PROVE CountInv'
  <2>1. /\ op.pc = "reserve" /\ op'.pc = "add" /\ reserved' = reserved \cup op.selected
        /\ op'.selected = op.selected /\ op'.todo = op.selected /\ op'.added = {}
        /\ op.selected \cap reserved = {} /\ stats' = stats
        /\ Cardinality(reserved) = stats.bots_added
    BY <1>1, <1>6 DEF ReserveBots, BackfillInv, BotsInHand, CountInv, Operation
  <2>2. Cardinality(reserved \cup op.selected)
           = Cardinality(reserved) + Cardinality(op.selected) - Cardinality(reserved \cap op.selected)
    BY <1>2, FS_Union
  <2>3. Cardinality(reserved \cap op.selected) = 0 /\ Cardinality({}) = 0
    BY <2>1, FS_EmptySet
  <2>4. Cardinality(op.selected) \in Nat
    BY <1>2, FS_CardinalityType
  <2>5. QED
    BY <1>2, <2>1, <2>2, <2>3, <2>4 DEF CountInv
<1>7. ASSUME NEW b \in Bot, AddBot(b) PROVE CountInv'
  <2>1. /\ op.pc = "add" /\ b \in op.todo /\ op'.pc = "add" /\ op'.selected = op.selected
        /\ op'.todo = op.todo \ {b} /\ stats' = stats
        /\ \/ op'.added = op.added \cup {b} /\ reserved' = reserved
           \/ op'.added = op.added /\ reserved' = reserved \ {b}
    BY <1>1, <1>7 DEF AddBot, Operation
  <2>2. /\ op.selected \cap reserved = op.todo \cup op.added
        /\ op.todo \cap op.added = {} /\ b \in reserved /\ b \notin op.added
        /\ Cardinality(reserved)
              = stats.bots_added + Cardinality(op.todo) + Cardinality(op.added)
    BY <2>1 DEF CountInv
  <2>3. /\ Cardinality(op.todo \ {b}) = Cardinality(op.todo) - 1
        /\ Cardinality(reserved \ {b}) = Cardinality(reserved) - 1
        /\ Cardinality(op.added \cup {b}) = Cardinality(op.added) + 1
    BY <1>2, <2>1, <2>2, FS_RemoveElement, FS_AddElement
  <2>4. /\ op'.selected \cap reserved' = op'.todo \cup op'.added
        /\ op'.todo \cap op'.added = {}
    BY <2>1, <2>2
  <2>5. Cardinality(reserved')
           = stats'.bots_added + Cardinality(op'.todo) + Cardinality(op'.added)
    <3>1. CASE op'.added = op.added \cup {b} /\ reserved' = reserved
      BY <1>1, <1>2, <2>1, <2>2, <2>3, <3>1
    <3>2. CASE op'.added = op.added /\ reserved' = reserved \ {b}
      BY <1>1, <1>2, <2>1, <2>2, <2>3, <3>2
    <3>3. QED
      BY <2>1, <3>1, <3>2
  <2>6. QED
    BY <2>1, <2>4, <2>5 DEF CountInv
<1>8. ASSUME FinishBackfill PROVE CountInv'
  <2>1. /\ op.pc = "add" /\ op.todo = {} /\ op'.pc = "idle" /\ Cardinality({}) = 0
        /\ op.selected \cap reserved = op.added
        /\ Cardinality(reserved) = stats.bots_added + Cardinality(op.added)
    BY <1>1, <1>2, <1>8, FS_EmptySet DEF FinishBackfill, Idle, CountInv
  <2>2. CASE op.added = {}
    <3>1. reserved' = reserved /\ stats' = stats
      BY <1>8, <2>1, <2>2 DEF FinishBackfill
    <3>2. QED
      BY <1>1, <2>1, <2>2, <3>1 DEF CountInv
  <2>3. CASE op.added # {}
    <3>1. reserved' = reserved /\ stats'.bots_added = stats.bots_added + Cardinality(op.added)
      BY <1>1, <1>8, <2>3 DEF FinishBackfill, UpdateStats, Stats
    <3>2. QED
      BY <2>1, <3>1 DEF CountInv
  <2>4. QED
    BY <2>2, <2>3
<1>9. QED
  <2>1. ASSUME NEW l \in LobbyId,
               \/ \E p \in Human : HumanJoins(l, p)
               \/ \E p \in Leavers : PlayerLeaves(l, p)
               \/ GameStarts(l)
        PROVE  CountInv'
    BY <1>3, <2>1 DEF HumanJoins, PlayerLeaves, GameStarts
  <2>2. ASSUME OutsideAction \/ UNCHANGED vars PROVE CountInv'
    BY <1>3, <2>2 DEF OutsideAction, WithdrawBot, ReturnBot, Tick, vars
  <2>3. QED
    BY <1>4, <1>5, <1>6, <1>7, <1>8, <2>1, <2>2 DEF Next, OutsideAction

\* backfill_lobby gives back what it reserved and did not seat, and nothing else is
\* ever given back.
THEOREM ReservationsStayCounted ==
    Spec => []ReservationsCounted
<1>1. Init => CountInv
  BY FS_EmptySet DEF Init, Idle, CountInv
<1>2. BackfillInv /\ CountInv /\ [Next]_vars => CountInv'
  BY CountNext
<1>3. CountInv => ReservationsCounted
  BY DEF CountInv, ReservationsCounted, Idle
<1>4. QED
  BY <1>1, <1>2, <1>3, BackfillInvariant, PTL DEF Spec
-----------------------------------------------------------------------------
(***************************************************************************)
(* The cooldown.                                                           *)
(***************************************************************************)

\* While a backfill that was not asked for by hand is under way, the cooldown of
\* its lobby is over, at the latest when it began.
SpacedInv ==
    op.pc # "idle" /\ op.trigger # "Manual" =>
        /\ op.pc = "called" =>
              (last_backfill[op.lobby] # Unset => now > last_backfill[op.lobby] + Cooldown)
        /\ op.pc \in {"reserve", "add"} =>
              (last_backfill[op.lobby] # Unset
                  => op.started > last_backfill[op.lobby] + Cooldown)

\* Nothing but the end of a backfill moves last_backfill_times.
LEMMA SpacedNext ==
    ASSUME BackfillInv, SpacedInv, [Next]_vars
    PROVE  SpacedInv'
<1>1. /\ op \in Operation /\ now \in Nat
      /\ op.pc # "idle" => op.lobby \in LobbyId
      /\ last_backfill \in [LobbyId -> Nat \cup {Unset}] /\ Cooldown \in Nat
  BY BackfillAssumption DEF BackfillInv, WellFormed, TypeOK
<1>2. ASSUME UNCHANGED <<last_backfill, op>>, now' = now PROVE SpacedInv'
  BY <1>2 DEF SpacedInv
<1>3. ASSUME NEW l \in LobbyId, CallBackfill(l) PROVE SpacedInv'
  <2>1. /\ op'.pc = "called" /\ op'.lobby = l
        /\ op'.trigger # "Manual" => Wanted(l)
        /\ UNCHANGED <<now, last_backfill>>
    BY <1>3 DEF CallBackfill, Idle
  <2>2. QED
    BY <2>1 DEF SpacedInv, Wanted, CooldownExpired
<1>4. ASSUME SelectBots PROVE SpacedInv'
  <2>1. /\ op.pc = "called" /\ UNCHANGED <<now, last_backfill>>
        /\ \/ op'.pc = "idle"
           \/ /\ op'.pc = "reserve" /\ op'.lobby = op.lobby /\ op'.started = now
              /\ op'.trigger = op.trigger
    <3>1. /\ op.pc = "called" /\ UNCHANGED <<now, last_backfill>>
          /\ \/ op' = Idle
             \/ \E chosen : op' = [op EXCEPT !.pc = "reserve", !.started = now,
                                             !.selected = chosen, !.todo = chosen]
      BY <1>4, SelectOutcome
    <3>2. CASE op' = Idle
      BY <3>1, <3>2 DEF Idle
    <3>3. ASSUME NEW chosen, op' = [op EXCEPT !.pc = "reserve", !.started = now,
                                              !.selected = chosen, !.todo = chosen]
          PROVE  /\ op'.pc = "reserve" /\ op'.lobby = op.lobby /\ op'.started = now
                 /\ op'.trigger = op.trigger
      BY <1>1, <3>3 DEF Operation
    <3>4. QED
      BY <3>1, <3>2, <3>3
  <2>2. QED
    BY <2>1 DEF SpacedInv
<1>5. ASSUME ReserveBots \/ \E b \in Bot : AddBot(b) PROVE SpacedInv'
  <2>1. /\ op.pc \in {"reserve", "add"} /\ op'.pc = "add" /\ op'.lobby = op.lobby
        /\ op'.started = op.started /\ op'.trigger = op.trigger
        /\ UNCHANGED <<now, last_backfill>>
    <3>1. CASE ReserveBots
      BY <1>1, <3>1 DEF ReserveBots, Operation
    <3>2. ASSUME NEW b \in Bot, AddBot(b)
          PROVE  /\ op.pc = "add" /\ op'.pc = "add" /\ op'.lobby = op.lobby
                 /\ op'.started = op.started /\ op'.trigger = op.trigger
                 /\ UNCHANGED <<now, last_backfill>>
      BY <1>1, <3>2 DEF AddBot, Operation
    <3>3. QED
      BY <1>5, <3>1, <3>2
  <2>2. QED
    BY <2>1 DEF SpacedInv
<1>6. ASSUME FinishBackfill PROVE SpacedInv'
  BY <1>6 DEF FinishBackfill, Idle, SpacedInv
<1>7. ASSUME Tick PROVE SpacedInv'
  <2>1. now' = now + 1 /\ UNCHANGED <<last_backfill, op>>
    BY <1>7 DEF Tick
  <2>2. op.pc # "idle" => last_backfill[op.lobby] \in Nat \cup {Unset}
    BY <1>1
  <2>3. QED
    BY <1>1, <2>1, <2>2 DEF SpacedInv
<1>8. QED
  <2>1. ASSUME NEW l \in LobbyId,
               \/ \E p \in Human : HumanJoins(l, p)
               \/ \E p \in Leavers : PlayerLeaves(l, p)
               \/ GameStarts(l)
        PROVE  SpacedInv'
    BY <1>2, <2>1 DEF HumanJoins, PlayerLeaves, GameStarts
  <2>2. ASSUME \/ \E b \in Withdrawals : WithdrawBot(b)
               \/ \E p \in Player : ReturnBot(p)
               \/ UNCHANGED vars
        PROVE  SpacedInv'
    BY <1>2, <2>2 DEF WithdrawBot, ReturnBot, vars
  <2>3. QED
    BY <1>3, <1>4, <1>5, <1>6, <1>7, <2>1, <2>2 DEF Next

\* needs_backfill and update_stats keep the backfills of a lobby apart.
THEOREM BackfillsStaySpaced ==
    Spec => BackfillsSpaced
<1>1. Init => SpacedInv
  BY DEF Init, Idle, SpacedInv
<1>2. BackfillInv /\ SpacedInv /\ [Next]_vars => SpacedInv'
  BY SpacedNext
<1>3. ASSUME BackfillInv, SpacedInv, [Next]_vars
      PROVE  [\A l \in LobbyId :
                 /\ last_backfill[l] \notin {Unset, last_backfill'[l]}
                 /\ op.trigger # "Manual"
                 => last_backfill'[l] > last_backfill[l] + Cooldown]_vars
  <2> SUFFICES ASSUME NEW l \in LobbyId, last_backfill[l] # Unset,
                      last_backfill'[l] # last_backfill[l], op.trigger # "Manual"
               PROVE  last_backfill'[l] > last_backfill[l] + Cooldown
    OBVIOUS
  <2>1. FinishBackfill
    BY <1>3 DEF Next, CallBackfill, HumanJoins, PlayerLeaves, GameStarts, SelectBots,
               ReserveBots, AddBot, WithdrawBot, ReturnBot, Tick, vars
  <2>2. op.pc = "add" /\ last_backfill' = [last_backfill EXCEPT ![op.lobby] = op.started]
    BY <2>1 DEF FinishBackfill, UpdateStats
  <2>3. last_backfill \in [LobbyId -> Nat \cup {Unset}]
    BY <1>3 DEF BackfillInv, WellFormed, TypeOK
  <2>4. l = op.lobby /\ last_backfill'[l] = op.started
    BY <2>2, <2>3
  <2>5. QED
    BY <1>3, <2>2, <2>4 DEF SpacedInv
<1>4. QED
  BY <1>1, <1>2, <1>3, BackfillInvariant, PTL DEF Spec, BackfillsSpaced
=============================================================================
