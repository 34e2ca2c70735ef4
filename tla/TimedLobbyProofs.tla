-------------------------- MODULE TimedLobbyProofs --------------------------
(***************************************************************************)
(* What the operations of TimedLobby do to the fields of a lobby, for      *)
(* every configuration that validate_config accepts.                       *)
(***************************************************************************)
EXTENDS TimedLobby, LobbyProofs

\* A lobby with a clock has the fields the lemmas of LobbyProofs ask for.
LEMMA TimedIsLobby ==
    ASSUME NEW l \in TimedLobbyRecord
    PROVE  IsLobby(l)
  BY DEF TimedLobbyRecord, IsLobby

\* update_state changes the state alone, and no terminal state.
LEMMA TimedUpdateState ==
    ASSUME NEW l \in TimedLobbyRecord
    PROVE  \E s \in LobbyState :
              /\ UpdateState(l) = [l EXCEPT !.state = s]
              /\ ~Open(l) => s = l.state
              /\ Open(l) => s \in {"WaitingForPlayers", "ReadyToStart"}
<1> DEFINE m == UpdateState(l)
<1>1. m = [l EXCEPT !.state = m.state]
  BY DEF UpdateState, TimedLobbyRecord
<1>2. /\ l.state = "WaitingForPlayers" => m.state \in {"WaitingForPlayers", "ReadyToStart"}
      /\ l.state = "ReadyToStart" => m.state \in {"WaitingForPlayers", "ReadyToStart"}
      /\ l.state \notin {"WaitingForPlayers", "ReadyToStart"} => m.state = l.state
  BY DEF UpdateState, TimedLobbyRecord
<1> HIDE DEF m
<1>3. l.state \in LobbyState
  BY DEF TimedLobbyRecord
<1>4. m.state \in LobbyState
  BY <1>2, <1>3 DEF LobbyState
<1>5. /\ ~Open(l) => m.state = l.state
      /\ Open(l) => m.state \in {"WaitingForPlayers", "ReadyToStart"}
  BY <1>2 DEF Open
<1>6. QED
  BY <1>1, <1>4, <1>5 DEF m

\* The base wait time is a number of seconds.
LEMMA BaseWaitType ==
    ASSUME NEW l \in TimedLobbyRecord
    PROVE  BaseWait(l) \in Nat
  BY ConfigAssumption DEF TimedLobbyRecord, BaseWait, LobbyConfiguration

\* m is lobby l after p was added to it, field by field.
HasAdded(l, p, now, m) ==
    /\ m \in TimedLobbyRecord
    /\ m.type = l.type
    /\ m.queue = Enqueue(l, p)
    /\ m.last_activity = now
    /\ m.wait_timeout = WaitTimeout(l)
    /\ m.joined_at = [l.joined_at EXCEPT ![p] = now]
    /\ ~Open(l) => m.state = l.state
    /\ Open(l) => m.state \in {"WaitingForPlayers", "ReadyToStart"}

\* add_player, once its checks have passed.
LEMMA AddedProperties ==
    ASSUME NEW l \in TimedLobbyRecord, Sorted(l), NEW p \in Player, NEW now \in Nat
    PROVE  HasAdded(l, p, now, Added(l, p, now))
<1> DEFINE k == [l EXCEPT !.queue = Enqueue(l, p)]
           u == UpdateState(k)
           m == Added(l, p, now)
<1>1. /\ k.type = l.type
      /\ k.queue = Enqueue(l, p)
      /\ k.state = l.state
      /\ k.joined_at = l.joined_at
  BY DEF TimedLobbyRecord
<1>2. k.queue \in Seq(Player)
  BY <1>1, TimedIsLobby, EnqueueProperties
<1>3. k \in TimedLobbyRecord
  BY <1>1, <1>2 DEF TimedLobbyRecord
<1>4. u = WithPlayer(l, p)
  BY DEF WithPlayer
<1> HIDE DEF k
<1>5. PICK s \in LobbyState :
        /\ u = [k EXCEPT !.state = s]
        /\ ~Open(k) => s = k.state
        /\ Open(k) => s \in {"WaitingForPlayers", "ReadyToStart"}
  BY <1>3, TimedUpdateState
<1> HIDE DEF u
<1>6. /\ u \in TimedLobbyRecord
      /\ u.type = k.type /\ u.queue = k.queue /\ u.state = s
      /\ u.joined_at = k.joined_at
  BY <1>3, <1>5 DEF TimedLobbyRecord
<1>7. WaitTimeout(l) \in Nat \cup {Unset}
  <2>1. BaseWait(l) \in Nat
    BY BaseWaitType
  <2>2. l.last_activity \in Nat /\ l.wait_timeout \in Nat \cup {Unset}
    BY DEF TimedLobbyRecord
  <2>3. QED
    BY <2>1, <2>2 DEF WaitTimeout
<1>8. m = [u EXCEPT !.wait_timeout = WaitTimeout(l), !.last_activity = now, !.joined_at[p] = now]
  BY <1>4 DEF Added
<1> DEFINE j == [u.joined_at EXCEPT ![p] = now]
           w == WaitTimeout(l)
<1>9. /\ m \in TimedLobbyRecord
      /\ m.type = u.type /\ m.queue = u.queue /\ m.state = u.state
      /\ m.last_activity = now
      /\ m.wait_timeout = w
      /\ m.joined_at = j
  <2>1. j \in [Player -> Nat]
    BY <1>6 DEF TimedLobbyRecord
  <2>2. m = [u EXCEPT !.wait_timeout = w, !.last_activity = now, !.joined_at = j]
    BY <1>8
  <2> HIDE DEF m, j, w
  <2>3. QED
    BY <1>6, <1>7, <2>1, <2>2 DEF TimedLobbyRecord, w
<1>10. Open(k) <=> Open(l)
  BY <1>1 DEF Open
<1>11. HasAdded(l, p, now, m)
  BY <1>1, <1>5, <1>6, <1>9, <1>10 DEF HasAdded
<1>12. QED
  BY <1>11

\* remove_player of a queued player.
LEMMA RemovedProperties ==
    ASSUME NEW l \in TimedLobbyRecord, NEW p, InQueue(l, p), NEW now \in Nat
    PROVE  LET m == Removed(l, p, now) IN
           /\ m \in TimedLobbyRecord
           /\ m.type = l.type
           /\ m.queue = Dequeue(l, p)
           /\ m.last_activity = now
           /\ m.wait_timeout = IF Len(l.queue) = 1 THEN Unset ELSE l.wait_timeout
           /\ m.joined_at = l.joined_at
           /\ ~Open(l) => m.state = l.state
           /\ Open(l) => m.state \in {"WaitingForPlayers", "ReadyToStart"}
<1> DEFINE k == [l EXCEPT !.queue = Dequeue(l, p)]
           u == UpdateState(k)
           m == Removed(l, p, now)
<1>1. /\ k.type = l.type
      /\ k.queue = Dequeue(l, p)
      /\ k.state = l.state
      /\ k.joined_at = l.joined_at
      /\ k.wait_timeout = l.wait_timeout
  BY DEF TimedLobbyRecord
<1>2. k.queue \in Seq(Player)
  BY <1>1, TimedIsLobby, DequeueProperties
<1>3. k \in TimedLobbyRecord
  BY <1>1, <1>2 DEF TimedLobbyRecord
<1>4. u = WithoutPlayer(l, p)
  BY DEF WithoutPlayer
<1> HIDE DEF k
<1>5. PICK s \in LobbyState :
        /\ u = [k EXCEPT !.state = s]
        /\ ~Open(k) => s = k.state
        /\ Open(k) => s \in {"WaitingForPlayers", "ReadyToStart"}
  BY <1>3, TimedUpdateState
<1> HIDE DEF u
<1>6. /\ u \in TimedLobbyRecord
      /\ u.type = k.type /\ u.queue = k.queue /\ u.state = s
      /\ u.joined_at = k.joined_at /\ u.wait_timeout = k.wait_timeout
  BY <1>3, <1>5 DEF TimedLobbyRecord
<1>7. m = [u EXCEPT !.last_activity = now,
                    !.wait_timeout = IF Len(l.queue) = 1 THEN Unset ELSE u.wait_timeout]
  BY <1>4 DEF Removed
<1>8. /\ m \in TimedLobbyRecord
      /\ m.type = u.type /\ m.queue = u.queue /\ m.state = u.state
      /\ m.last_activity = now
      /\ m.wait_timeout = IF Len(l.queue) = 1 THEN Unset ELSE u.wait_timeout
      /\ m.joined_at = u.joined_at
  BY <1>6, <1>7 DEF TimedLobbyRecord
<1>9. Open(k) <=> Open(l)
  BY <1>1 DEF Open
<1>10. QED
  BY <1>1, <1>5, <1>6, <1>8, <1>9

\* mark_starting and mark_game_started change the state and the last activity.
LEMMA MarkedProperties ==
    ASSUME NEW l \in TimedLobbyRecord, NEW now \in Nat,
           NEW m \in {Starting(l, now), GameStarted(l, now)}
    PROVE  /\ m \in TimedLobbyRecord
           /\ m.type = l.type
           /\ m.queue = l.queue
           /\ m.last_activity = now
           /\ m.wait_timeout = l.wait_timeout
           /\ m.joined_at = l.joined_at
           /\ m.state \in {"Starting", "GameStarted"}
<1>1. \E s \in {"Starting", "GameStarted"} :
         m = [l EXCEPT !.state = s, !.last_activity = now]
  BY DEF Starting, GameStarted, MarkedStarting, TimedLobbyRecord
<1>2. QED
  BY <1>1 DEF TimedLobbyRecord, LobbyState
-----------------------------------------------------------------------------
(***************************************************************************)
(* Who sits in a lobby afterwards, for the modules with several lobbies.   *)
(***************************************************************************)

\* m is a lobby of l's type with a queue the operations can work on.
Follows(m, l) ==
    /\ m \in TimedLobbyRecord
    /\ m.type = l.type
    /\ Sorted(m)
    /\ QueuedOnce(m)

\* add_player brings in the player and nobody else.
LEMMA AddedSeats ==
    ASSUME NEW l \in TimedLobbyRecord, Sorted(l), QueuedOnce(l),
           NEW p \in Player, CanAdd(l, p), NEW now \in Nat
    PROVE  /\ Follows(Added(l, p, now), l)
           /\ \A x : InQueue(Added(l, p, now), x) <=> x = p \/ InQueue(l, x)
           /\ Len(Added(l, p, now).queue) = Len(l.queue) + 1
<1> DEFINE m == Added(l, p, now)
<1>0. HasAdded(l, p, now, m)
  BY AddedProperties
<1> HIDE DEF m
<1>1. m \in TimedLobbyRecord /\ m.type = l.type /\ m.queue = Enqueue(l, p)
  BY <1>0 DEF HasAdded
<1>2. IsLobby(l) /\ ~InQueue(l, p)
  BY TimedIsLobby DEF CanAdd
<1>3. Len(m.queue) = Len(l.queue) + 1 /\ Sorted(m) /\ QueuedOnce(m)
  BY <1>1, <1>2, EnqueueProperties
<1>4. \A x : InQueue(m, x) <=> x = p \/ InQueue(l, x)
  BY <1>1, <1>2, EnqueueOrder
<1>5. QED
  BY <1>1, <1>3, <1>4 DEF m, Follows

\* remove_player brings in nobody.
LEMMA RemovedSeats ==
    ASSUME NEW l \in TimedLobbyRecord, Sorted(l), QueuedOnce(l),
           NEW p, InQueue(l, p), NEW now \in Nat
    PROVE  /\ Follows(Removed(l, p, now), l)
           /\ \A x : InQueue(Removed(l, p, now), x) => InQueue(l, x)
<1> DEFINE m == Removed(l, p, now)
<1>1. m \in TimedLobbyRecord /\ m.type = l.type /\ m.queue = Dequeue(l, p)
  BY RemovedProperties
<1> HIDE DEF m
<1>2. IsLobby(l)
  BY TimedIsLobby
<1>3. Sorted(m) /\ QueuedOnce(m)
  BY <1>1, <1>2, DequeueProperties
<1>4. \A x : InQueue(m, x) => InQueue(l, x)
  BY <1>1, <1>2, DequeueOrder
<1>5. QED
  BY <1>1, <1>3, <1>4 DEF m, Follows

\* mark_starting leaves everybody seated.
LEMMA StartingSeats ==
    ASSUME NEW l \in TimedLobbyRecord, Sorted(l), QueuedOnce(l), NEW now \in Nat
    PROVE  /\ Follows(Starting(l, now), l)
           /\ \A x : InQueue(Starting(l, now), x) => InQueue(l, x)
<1> DEFINE m == Starting(l, now)
<1>1. m \in TimedLobbyRecord /\ m.type = l.type /\ m.queue = l.queue
  BY MarkedProperties
<1> HIDE DEF m
<1>2. Sorted(m)
  BY <1>1, SameQueue
<1>3. QueuedOnce(m) /\ \A x : InQueue(m, x) => InQueue(l, x)
  BY <1>1 DEF QueuedOnce, InQueue
<1>4. QED
  BY <1>1, <1>2, <1>3 DEF m, Follows
=============================================================================
