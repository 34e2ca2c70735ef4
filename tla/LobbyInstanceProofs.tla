------------------------ MODULE LobbyInstanceProofs ------------------------
(***************************************************************************)
(* What a LobbyInstance promises the players who wait in it, for every     *)
(* number of players, every configuration that validate_config accepts and *)
(* every course of the clock.                                              *)
(***************************************************************************)
EXTENDS LobbyInstance, TimedLobbyProofs

\* The queue is as the operations need it and nobody has abandoned the lobby.
WellFormed ==
    /\ TypeOK
    /\ Sorted(lobby)
    /\ QueuedOnce(lobby)
    /\ lobby.state # "Abandoned"

\* The clock readings agree: nobody joined after the last activity, and the
\* wait is over for all once the first of them has waited for the base time.
Timely ==
    /\ lobby.last_activity <= now
    /\ \A i \in 1..Len(lobby.queue) :
          /\ lobby.joined_at[lobby.queue[i]] <= lobby.last_activity
          /\ lobby.wait_timeout <= lobby.joined_at[lobby.queue[i]] + BaseWait(lobby)

InstanceInv ==
    /\ WellFormed
    /\ TimeoutTracksQueue
    /\ Timely
    /\ FirstComeFirstServed
-----------------------------------------------------------------------------
(***************************************************************************)
(* The invariant.                                                          *)
(***************************************************************************)

\* LobbyInstance::new
LEMMA InstanceInit ==
    Init => InstanceInv
<1> SUFFICES ASSUME Init PROVE InstanceInv
  OBVIOUS
<1>1. PICK t \in LobbyType : lobby = NewInstance(t, 0)
  BY DEF Init
<1>2. /\ lobby \in TimedLobbyRecord
      /\ lobby.queue = <<>> /\ lobby.state = "WaitingForPlayers"
      /\ lobby.last_activity = 0 /\ lobby.wait_timeout = Unset
  BY <1>1 DEF NewInstance, TimedLobbyRecord, LobbyState
<1>3. TypeOK /\ now = 0
  BY <1>2 DEF Init, TypeOK
<1>4. Len(lobby.queue) = 0 /\ 1..Len(lobby.queue) = {}
  BY <1>2
<1>5. Sorted(lobby)
  BY <1>4 DEF Sorted
<1>6. QED
  BY <1>2, <1>3, <1>4, <1>5
     DEF InstanceInv, WellFormed, TimeoutTracksQueue, Timely, FirstComeFirstServed, QueuedOnce

\* What a queued entry's joined_at and the wait say once a player was added.
LEMMA AddStep ==
    ASSUME InstanceInv, NEW p \in Player, AddPlayer(p)
    PROVE  InstanceInv'
<1> DEFINE n == Len(lobby.queue)
           base == BaseWait(lobby)
           q == lobby'.queue
           joined == lobby.joined_at
           joined1 == lobby'.joined_at
<1>1. /\ lobby \in TimedLobbyRecord /\ now \in Nat /\ occupied \in Nat \cup {Unset}
      /\ Sorted(lobby) /\ QueuedOnce(lobby) /\ lobby.state # "Abandoned"
  BY DEF InstanceInv, WellFormed, TypeOK
<1>2. /\ lobby' = Added(lobby, p, now) /\ now' = now
      /\ occupied' \in Nat \cup {Unset}
      /\ Open(lobby) /\ ~InQueue(lobby, p)
  BY <1>1 DEF AddPlayer, CanAdd
<1>3. /\ lobby' \in TimedLobbyRecord
      /\ lobby'.type = lobby.type
      /\ q = Enqueue(lobby, p)
      /\ lobby'.last_activity = now
      /\ lobby'.wait_timeout = WaitTimeout(lobby)
      /\ joined1 = [joined EXCEPT ![p] = now]
      /\ lobby'.state \in {"WaitingForPlayers", "ReadyToStart"}
  <2>1. HasAdded(lobby, p, now, lobby')
    BY <1>1, <1>2, AddedProperties
  <2>2. QED
    BY <1>2, <2>1 DEF HasAdded
<1>4. IsLobby(lobby)
  BY <1>1, TimedIsLobby
<1>5. /\ Len(q) = n + 1
      /\ Sorted(lobby')
      /\ QueuedOnce(lobby')
  BY <1>1, <1>2, <1>3, <1>4, EnqueueProperties
<1>6. /\ \A x : InQueue(lobby', x) <=> x = p \/ InQueue(lobby, x)
      /\ JoinsInOrder(lobby, p, lobby')
  BY <1>1, <1>3, <1>4, EnqueueOrder
<1>7. /\ n \in Nat /\ base \in Nat
      /\ lobby.last_activity \in Nat
      /\ joined \in [Player -> Nat]
      /\ \A i \in 1..n : lobby.queue[i] \in Player
      /\ \A i \in 1..(n+1) : q[i] \in Player
  <2>1. lobby.queue \in Seq(Player) /\ q \in Seq(Player)
    BY <1>1, <1>3 DEF TimedLobbyRecord
  <2>2. QED
    BY <1>1, <1>5, <2>1, BaseWaitType, ElementOfSeq DEF TimedLobbyRecord
<1>8. /\ joined1[p] = now
      /\ \A x \in Player : InQueue(lobby, x) => joined1[x] = joined[x]
  BY <1>2, <1>3, <1>7
<1>9. /\ lobby.last_activity <= now
      /\ \A x : InQueue(lobby, x) => joined[x] <= lobby.last_activity
      /\ \A x : InQueue(lobby, x) => lobby.wait_timeout <= joined[x] + base
  BY DEF InstanceInv, Timely, InQueue
<1>10. \A x \in Player : InQueue(lobby', x) => joined1[x] <= now
  BY <1>1, <1>6, <1>7, <1>8, <1>9
<1>11. /\ lobby'.wait_timeout \in Nat
       /\ \A x \in Player : InQueue(lobby', x) => lobby'.wait_timeout <= joined1[x] + base
  <2>1. CASE n = 0
    <3>1. lobby.queue = <<>>
      BY <1>1, <2>1, EmptySeq DEF TimedLobbyRecord
    <3>2. lobby'.wait_timeout = lobby.last_activity + base
      BY <1>3, <3>1 DEF InstanceInv, TimeoutTracksQueue, WaitTimeout
    <3>3. \A x \in Player : InQueue(lobby', x) => x = p
      BY <1>6, <2>1 DEF InQueue
    <3>4. QED
      BY <1>1, <1>7, <1>8, <1>9, <3>2, <3>3
  <2>2. CASE n # 0
    <3>1. lobby.queue # <<>>
      BY <2>2
    <3>2. lobby.wait_timeout # Unset /\ lobby'.wait_timeout = lobby.wait_timeout
      BY <1>3, <3>1 DEF InstanceInv, TimeoutTracksQueue, WaitTimeout
    <3>3. lobby.wait_timeout \in Nat
      BY <1>1, <3>2 DEF TimedLobbyRecord
    <3>4. PICK y \in Player : InQueue(lobby, y)
      BY <1>7, <2>2 DEF InQueue
    <3>5. joined[y] \in Nat
      BY <1>7
    <3>6. lobby.wait_timeout <= now + base
      BY <1>1, <1>7, <1>9, <3>3, <3>4, <3>5
    <3>7. QED
      BY <1>1, <1>6, <1>7, <1>8, <1>9, <3>2, <3>3, <3>6
  <2>3. QED
    BY <2>1, <2>2
<1>12. BaseWait(lobby') = base
  BY <1>3 DEF BaseWait
<1>13. WellFormed'
  BY <1>1, <1>2, <1>3, <1>5 DEF WellFormed, TypeOK
<1>14. TimeoutTracksQueue'
  <2>1. q # <<>>
    BY <1>5, <1>7
  <2>2. lobby'.wait_timeout # Unset
    BY <1>11, TimeAssumption
  <2>3. QED
    BY <2>1, <2>2 DEF TimeoutTracksQueue
<1>15. Timely'
  <2>1. \A i \in 1..Len(q) : q[i] \in Player /\ InQueue(lobby', q[i])
    BY <1>5, <1>7 DEF InQueue
  <2>2. QED
    BY <1>1, <1>2, <1>3, <1>10, <1>11, <1>12, <2>1 DEF Timely
<1>16. FirstComeFirstServed'
  <2> SUFFICES ASSUME NEW i \in 1..Len(q), NEW j \in 1..Len(q), i < j,
                      Priority(lobby.type, q[i]) = Priority(lobby.type, q[j])
               PROVE  joined1[q[i]] <= joined1[q[j]]
    BY <1>3 DEF FirstComeFirstServed
  <2>1. q[i] \in Player /\ q[j] \in Player /\ InQueue(lobby', q[i])
    BY <1>5, <1>7 DEF InQueue
  <2>2. ASSUME InOldOrder(lobby, lobby', i, j)
        PROVE  joined1[q[i]] <= joined1[q[j]]
    <3> PICK a \in 1..n, b \in 1..n : a < b /\ q[i] = lobby.queue[a] /\ q[j] = lobby.queue[b]
      BY <2>2 DEF InOldOrder
    <3>1. joined[lobby.queue[a]] <= joined[lobby.queue[b]]
      BY <2>2 DEF InstanceInv, FirstComeFirstServed
    <3>2. InQueue(lobby, q[i]) /\ InQueue(lobby, q[j])
      BY <2>2 DEF InQueue
    <3>3. QED
      BY <1>8, <2>1, <2>2, <3>1, <3>2
  <2>3. ASSUME q[j] = p
        PROVE  joined1[q[i]] <= joined1[q[j]]
    BY <1>8, <1>10, <2>1, <2>3
  <2>4. ~(Priority(lobby.type, q[i]) < Priority(lobby.type, q[j]))
    <3>1. Priority(lobby.type, q[i]) \in {1, 2}
      BY PriorityType
    <3>2. QED
      BY <3>1
  <2>5. \/ InOldOrder(lobby, lobby', i, j)
        \/ q[j] = p
        \/ Priority(lobby.type, q[i]) < Priority(lobby.type, q[j])
    BY <1>6 DEF JoinsInOrder
  <2>6. QED
    BY <2>2, <2>3, <2>4, <2>5
<1>17. QED
  BY <1>13, <1>14, <1>15, <1>16 DEF InstanceInv

\* A departure leaves the order of the others and their wait alone.
LEMMA RemoveStep ==
    ASSUME InstanceInv, NEW p \in Player, RemovePlayer(p)
    PROVE  InstanceInv'
<1> DEFINE n == Len(lobby.queue)
           base == BaseWait(lobby)
           q == lobby'.queue
           joined == lobby.joined_at
<1>1. /\ lobby \in TimedLobbyRecord /\ now \in Nat /\ occupied \in Nat \cup {Unset}
      /\ Sorted(lobby) /\ QueuedOnce(lobby) /\ lobby.state # "Abandoned"
  BY DEF InstanceInv, WellFormed, TypeOK
<1>2. /\ lobby' = Removed(lobby, p, now) /\ now' = now
      /\ occupied' \in Nat \cup {Unset}
      /\ InQueue(lobby, p)
  BY <1>1 DEF RemovePlayer
<1>3. /\ lobby' \in TimedLobbyRecord
      /\ lobby'.type = lobby.type
      /\ q = Dequeue(lobby, p)
      /\ lobby'.last_activity = now
      /\ lobby'.wait_timeout = IF n = 1 THEN Unset ELSE lobby.wait_timeout
      /\ lobby'.joined_at = joined
      /\ lobby'.state = lobby.state \/ lobby'.state \in {"WaitingForPlayers", "ReadyToStart"}
  BY <1>1, <1>2, RemovedProperties
<1>4. IsLobby(lobby)
  BY <1>1, TimedIsLobby
<1>5. /\ Len(q) = n - 1
      /\ Sorted(lobby')
      /\ QueuedOnce(lobby')
  BY <1>1, <1>2, <1>3, <1>4, DequeueProperties
<1>6. /\ \A x : InQueue(lobby', x) => InQueue(lobby, x)
      /\ KeepsOrder(lobby, lobby')
  BY <1>2, <1>3, <1>4, DequeueOrder
<1>7. /\ n \in Nat /\ base \in Nat
      /\ lobby.last_activity \in Nat
      /\ joined \in [Player -> Nat]
      /\ q \in Seq(Player)
      /\ \A i \in 1..Len(q) : q[i] \in Player
  <2>1. lobby.queue \in Seq(Player) /\ q \in Seq(Player)
    BY <1>1, <1>3 DEF TimedLobbyRecord
  <2>2. QED
    BY <1>1, <2>1, BaseWaitType, ElementOfSeq DEF TimedLobbyRecord
<1>8. /\ lobby.last_activity <= now
      /\ \A x : InQueue(lobby, x) => joined[x] <= lobby.last_activity
      /\ \A x : InQueue(lobby, x) => lobby.wait_timeout <= joined[x] + base
  BY DEF InstanceInv, Timely, InQueue
<1>9. BaseWait(lobby') = base
  BY <1>3 DEF BaseWait
<1>10. WellFormed'
  BY <1>1, <1>2, <1>3, <1>5 DEF WellFormed, TypeOK
<1>11. n >= 1 /\ (q = <<>> <=> n = 1)
  <2>1. n # 0
    BY <1>2, <1>7 DEF InQueue
  <2>2. q = <<>> <=> Len(q) = 0
    BY <1>7, EmptySeq
  <2>3. QED
    BY <1>5, <1>7, <2>1, <2>2
<1>12. lobby.queue # <<>>
  BY <1>11
<1>13. lobby.wait_timeout # Unset
  BY <1>12 DEF InstanceInv, TimeoutTracksQueue
<1>14. TimeoutTracksQueue'
  BY <1>3, <1>11, <1>13 DEF TimeoutTracksQueue
<1>15. Timely'
  <2> SUFFICES ASSUME NEW i \in 1..Len(q)
               PROVE  /\ joined[q[i]] <= now
                      /\ lobby'.wait_timeout <= joined[q[i]] + base
    BY <1>1, <1>2, <1>3, <1>9 DEF Timely
  <2>1. q[i] \in Player /\ InQueue(lobby, q[i])
    <3>1. InQueue(lobby', q[i])
      BY DEF InQueue
    <3>2. QED
      BY <1>6, <1>7, <3>1
  <2>2. n # 1
    <3>1. i \in 1..(n - 1) /\ n \in Nat
      BY <1>5, <1>7
    <3> HIDE DEF n
    <3>2. QED
      BY <3>1
  <2>3. joined[q[i]] \in Nat
    BY <1>7, <2>1
  <2>4. joined[q[i]] <= now
    BY <1>1, <1>7, <1>8, <2>1, <2>3
  <2>5. QED
    BY <1>3, <1>8, <2>1, <2>2, <2>4
<1>16. FirstComeFirstServed'
  <2> SUFFICES ASSUME NEW i \in 1..Len(q), NEW j \in 1..Len(q), i < j,
                      Priority(lobby.type, q[i]) = Priority(lobby.type, q[j])
               PROVE  joined[q[i]] <= joined[q[j]]
    BY <1>3 DEF FirstComeFirstServed
  <2>1. PICK a \in 1..n, b \in 1..n : a < b /\ q[i] = lobby.queue[a] /\ q[j] = lobby.queue[b]
    BY <1>6 DEF KeepsOrder, InOldOrder
  <2>2. QED
    BY <2>1 DEF InstanceInv, FirstComeFirstServed
<1>17. QED
  BY <1>10, <1>14, <1>15, <1>16 DEF InstanceInv

\* The marks change the state and the last activity.
LEMMA MarkStep ==
    ASSUME InstanceInv, MarkStarting \/ MarkGameStarted
    PROVE  InstanceInv'
<1>1. /\ lobby \in TimedLobbyRecord /\ now \in Nat
      /\ Sorted(lobby) /\ QueuedOnce(lobby)
  BY DEF InstanceInv, WellFormed, TypeOK
<1>2. /\ lobby' \in {Starting(lobby, now), GameStarted(lobby, now)}
      /\ now' = now /\ occupied' = occupied
  BY DEF MarkStarting, MarkGameStarted
<1>3. /\ lobby' \in TimedLobbyRecord
      /\ lobby'.type = lobby.type
      /\ lobby'.queue = lobby.queue
      /\ lobby'.last_activity = now
      /\ lobby'.wait_timeout = lobby.wait_timeout
      /\ lobby'.joined_at = lobby.joined_at
      /\ lobby'.state \in {"Starting", "GameStarted"}
  BY <1>1, <1>2, MarkedProperties
<1>4. BaseWait(lobby') = BaseWait(lobby)
  BY <1>3 DEF BaseWait
<1>5. Sorted(lobby')
  BY <1>1, <1>3, SameQueue
<1>6. QueuedOnce(lobby')
  BY <1>1, <1>3 DEF QueuedOnce
<1>7. WellFormed'
  BY <1>1, <1>2, <1>3, <1>5, <1>6 DEF InstanceInv, WellFormed, TypeOK
<1>8. TimeoutTracksQueue'
  BY <1>3 DEF InstanceInv, TimeoutTracksQueue
<1>9. Timely'
  <2>1. lobby.last_activity \in Nat /\ lobby.last_activity <= now
    BY <1>1 DEF TimedLobbyRecord, InstanceInv, Timely
  <2>2. ASSUME NEW i \in 1..Len(lobby.queue)
        PROVE  /\ lobby.joined_at[lobby.queue[i]] <= now
               /\ lobby.wait_timeout <= lobby.joined_at[lobby.queue[i]] + BaseWait(lobby)
    <3>1. /\ lobby.joined_at[lobby.queue[i]] <= lobby.last_activity
          /\ lobby.wait_timeout <= lobby.joined_at[lobby.queue[i]] + BaseWait(lobby)
      BY DEF InstanceInv, Timely
    <3>2. lobby.joined_at[lobby.queue[i]] \in Nat
      BY <1>1, ElementOfSeq DEF TimedLobbyRecord
    <3>3. QED
      BY <1>1, <2>1, <3>1, <3>2
  <2>3. QED
    BY <1>1, <1>2, <1>3, <1>4, <2>2 DEF Timely
<1>10. FirstComeFirstServed'
  BY <1>3 DEF InstanceInv, FirstComeFirstServed
<1>11. QED
  BY <1>7, <1>8, <1>9, <1>10 DEF InstanceInv

\* The passing of time makes nobody's wait longer.
LEMMA TickStep ==
    ASSUME InstanceInv, Tick
    PROVE  InstanceInv'
<1>1. lobby' = lobby /\ occupied' = occupied /\ now' = now + 1
  BY DEF Tick
<1>2. lobby \in TimedLobbyRecord /\ now \in Nat
  BY DEF InstanceInv, WellFormed, TypeOK
<1>3. WellFormed'
  <2>1. TypeOK'
    BY <1>1, <1>2 DEF InstanceInv, WellFormed, TypeOK
  <2>2. Sorted(lobby') /\ QueuedOnce(lobby') /\ lobby'.state # "Abandoned"
    BY <1>1 DEF InstanceInv, WellFormed
  <2>3. QED
    BY <2>1, <2>2 DEF WellFormed
<1>4. Timely'
  <2>1. lobby.last_activity \in Nat /\ lobby.last_activity <= now
    BY <1>2 DEF TimedLobbyRecord, InstanceInv, Timely
  <2>2. QED
    BY <1>1, <1>2, <2>1 DEF InstanceInv, Timely
<1>5. QED
  BY <1>1, <1>3, <1>4 DEF InstanceInv, TimeoutTracksQueue, FirstComeFirstServed

\* Every step keeps the invariant.
LEMMA InstanceNext ==
    ASSUME InstanceInv, [Next]_vars
    PROVE  InstanceInv'
<1>1. ASSUME NEW p \in Player, AddPlayer(p) PROVE InstanceInv'
  BY <1>1, AddStep
<1>2. ASSUME NEW p \in Player, RemovePlayer(p) PROVE InstanceInv'
  BY <1>2, RemoveStep
<1>3. ASSUME MarkStarting \/ MarkGameStarted PROVE InstanceInv'
  BY <1>3, MarkStep
<1>4. ASSUME Tick PROVE InstanceInv'
  BY <1>4, TickStep
<1>5. ASSUME UNCHANGED vars PROVE InstanceInv'
  BY <1>5 DEF vars, InstanceInv, WellFormed, TypeOK, Sorted, QueuedOnce,
              TimeoutTracksQueue, Timely, FirstComeFirstServed
<1>6. QED
  BY <1>1, <1>2, <1>3, <1>4, <1>5 DEF Next

\* The invariant holds in every reachable state.
LEMMA InstanceInvariant ==
    Spec => []InstanceInv
<1>1. Init => InstanceInv
  BY InstanceInit
<1>2. InstanceInv /\ [Next]_vars => InstanceInv'
  BY InstanceNext
<1>3. QED
  BY <1>1, <1>2, PTL DEF Spec
-----------------------------------------------------------------------------
(***************************************************************************)
(* The theorems.                                                           *)
(***************************************************************************)

\* Every field of the instance has its type in every reachable state.
THEOREM InstanceTypeCorrect ==
    Spec => []TypeOK
<1>1. InstanceInv => TypeOK
  BY DEF InstanceInv, WellFormed
<1>2. QED
  BY <1>1, InstanceInvariant, PTL

\* add_player's stable sort and remove_player's retain serve the players of one
\* priority in the order in which they joined.
THEOREM QueueIsFair ==
    Spec => []FirstComeFirstServed
<1>1. InstanceInv => FirstComeFirstServed
  BY DEF InstanceInv
<1>2. QED
  BY <1>1, InstanceInvariant, PTL

\* wait_timeout is set exactly while somebody is queued.
THEOREM TimeoutIsTracked ==
    Spec => []TimeoutTracksQueue
<1>1. InstanceInv => TimeoutTracksQueue
  BY DEF InstanceInv
<1>2. QED
  BY <1>1, InstanceInvariant, PTL

\* needs_backfill asks for bots once any human has waited for the base time.
THEOREM WaitIsBounded ==
    Spec => []WaitBounded
<1>1. ASSUME InstanceInv PROVE WaitBounded
  <2> SUFFICES ASSUME Config["General"].allow_bot_backfill,
                      lobby.type = "General",
                      ~IsFull(lobby),
                      NEW i \in 1..Len(lobby.queue),
                      lobby.queue[i] \in Human,
                      now > lobby.joined_at[lobby.queue[i]] + BaseWait(lobby)
               PROVE  NeedsBackfill(lobby, now)
    BY DEF WaitBounded
  <2>1. lobby \in TimedLobbyRecord /\ now \in Nat
    BY <1>1 DEF InstanceInv, WellFormed, TypeOK
  <2>2. lobby.queue # <<>>
    OBVIOUS
  <2>3. lobby.wait_timeout # Unset
    BY <1>1, <2>2 DEF InstanceInv, TimeoutTracksQueue
  <2>4. lobby.wait_timeout \in Nat
    BY <2>1, <2>3 DEF TimedLobbyRecord
  <2>5. lobby.wait_timeout <= lobby.joined_at[lobby.queue[i]] + BaseWait(lobby)
    BY <1>1 DEF InstanceInv, Timely
  <2>6. lobby.joined_at[lobby.queue[i]] \in Nat /\ BaseWait(lobby) \in Nat
    BY <2>1, BaseWaitType, ElementOfSeq DEF TimedLobbyRecord
  <2>7. now > lobby.wait_timeout
    BY <2>1, <2>4, <2>5, <2>6
  <2>8. ActivePlayers(lobby) = lobby.queue
    BY DEF ActivePlayers
  <2>9. i \in ActiveHumans(lobby)
    BY <2>8 DEF ActiveHumans
  <2>10. QED
    BY <2>3, <2>7, <2>9 DEF NeedsBackfill
<1>2. QED
  BY <1>1, InstanceInvariant, PTL

\* should_cleanup gives a lobby up only after everybody in it has been waiting for
\* longer than the idle limit, unless its game was marked as started.
THEOREM CleanupIsPatient ==
    Spec => []CleanupSparesActive
<1>1. ASSUME InstanceInv PROVE CleanupSparesActive
  <2> SUFFICES ASSUME lobby.state # "GameStarted", ShouldCleanup(lobby, now),
                      NEW i \in 1..Len(lobby.queue)
               PROVE  now > lobby.joined_at[lobby.queue[i]] + IdleLimit
    BY DEF CleanupSparesActive
  <2>1. lobby \in TimedLobbyRecord /\ now \in Nat /\ lobby.state # "Abandoned"
    BY <1>1 DEF InstanceInv, WellFormed, TypeOK
  <2>2. now - lobby.last_activity > IdleLimit
    BY <2>1 DEF ShouldCleanup
  <2>3. lobby.joined_at[lobby.queue[i]] <= lobby.last_activity
    BY <1>1 DEF InstanceInv, Timely
  <2>4. lobby.joined_at[lobby.queue[i]] \in Nat /\ lobby.last_activity \in Nat
    BY <2>1, ElementOfSeq DEF TimedLobbyRecord
  <2>5. QED
    BY <2>1, <2>2, <2>3, <2>4, TimeAssumption
<1>2. QED
  BY <1>1, InstanceInvariant, PTL
=============================================================================
