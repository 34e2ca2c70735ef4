------------------------- MODULE LobbyManagerProofs -------------------------
(***************************************************************************)
(* What LobbyManager guarantees for any number of players, lobbies,        *)
(* requests and concurrent handlers, and for every configuration that      *)
(* validate_config accepts.                                                *)
(***************************************************************************)
EXTENDS LobbyManager, LobbyProofs, FiniteSetTheorems

\* Every queue, whether its lobby is in the map or not, is sorted: without it
\* the place of a new entry would not be determined.
QueuesSorted == \A l \in LobbyId : Sorted(lobby[l])

\* The invariant the others rest on.
TypeInv == TypeOK /\ QueuesSorted
-----------------------------------------------------------------------------
(***************************************************************************)
(* The values a lobby takes.                                               *)
(***************************************************************************)

\* A lobby of the map has the fields the lemmas of LobbyProofs ask for.
LEMMA RecordIsLobby ==
    ASSUME NEW l \in LobbyRecord
    PROVE  IsLobby(l)
  BY DEF LobbyRecord, IsLobby

\* update_state opens and closes nothing and leaves an open lobby in the state
\* its queue calls for.
LEMMA UpdateStateProperties ==
    ASSUME NEW l \in LobbyRecord
    PROVE  /\ UpdateState(l) \in LobbyRecord
           /\ UpdateState(l).type = l.type
           /\ UpdateState(l).queue = l.queue
           /\ ~Open(l) => UpdateState(l).state = l.state
           /\ Open(l) => Open(UpdateState(l))
           /\ (l.state = "ReadyToStart" => Config[l.type].immediate_start_when_full)
                  => StateMatchesQueue(UpdateState(l))
<1> DEFINE m == UpdateState(l)
           go == Config[l.type].immediate_start_when_full
<1>1. m = [l EXCEPT !.state = m.state]
  BY DEF UpdateState, LobbyRecord
<1>2. m.type = l.type /\ m.queue = l.queue /\ m.idle = l.idle
  BY DEF UpdateState, LobbyRecord
<1>3. /\ l.state = "WaitingForPlayers" =>
            m.state = IF Startable(l) /\ go THEN "ReadyToStart" ELSE "WaitingForPlayers"
      /\ l.state = "ReadyToStart" =>
            m.state = IF Startable(l) THEN "ReadyToStart" ELSE "WaitingForPlayers"
      /\ l.state \notin {"WaitingForPlayers", "ReadyToStart"} => m.state = l.state
  BY DEF UpdateState, LobbyRecord
<1>4. Startable(m) <=> Startable(l)
  BY <1>2, SameQueue
<1> HIDE DEF m
<1>5. m.state \in LobbyState
  BY <1>3 DEF LobbyRecord, LobbyState
<1>6. m \in LobbyRecord
  BY <1>1, <1>5 DEF LobbyRecord
<1>7. (l.state = "ReadyToStart" => go) => StateMatchesQueue(m)
  BY <1>2, <1>3, <1>4 DEF StateMatchesQueue, Open
<1>8. /\ ~Open(l) => m.state = l.state
      /\ Open(l) => Open(m)
  BY <1>3 DEF Open
<1>9. QED
  BY <1>2, <1>6, <1>7, <1>8 DEF m

\* update_activity changes neither the state nor the queue.
LEMMA TouchedProperties ==
    ASSUME NEW l \in LobbyRecord
    PROVE  /\ Touched(l) \in LobbyRecord
           /\ Touched(l).type = l.type
           /\ Touched(l).queue = l.queue
           /\ Touched(l).state = l.state
  BY DEF Touched, LobbyRecord

\* add_player, once its checks have passed.
LEMMA WithPlayerProperties ==
    ASSUME NEW l \in LobbyRecord, Sorted(l), NEW p \in Player
    PROVE  LET m == Touched(WithPlayer(l, p)) IN
           /\ m \in LobbyRecord
           /\ m.type = l.type
           /\ Len(m.queue) = Len(l.queue) + 1
           /\ Sorted(m)
           /\ ~Open(l) => m.state = l.state
           /\ Open(l) => Open(m)
           /\ StateMatchesQueue(l) /\ Open(l) => StateMatchesQueue(m)
<1> DEFINE k == [l EXCEPT !.queue = Enqueue(l, p)]
           u == UpdateState(k)
           m == Touched(u)
<1>1. /\ k.type = l.type
      /\ k.queue = Enqueue(l, p)
      /\ k.state = l.state
  BY DEF LobbyRecord
<1>2. /\ k.queue \in Seq(Player)
      /\ Len(k.queue) = Len(l.queue) + 1
      /\ Sorted(k)
  BY <1>1, RecordIsLobby, EnqueueProperties
<1>3. k \in LobbyRecord
  BY <1>1, <1>2 DEF LobbyRecord
<1> HIDE DEF k
<1>4. /\ u \in LobbyRecord
      /\ u.type = k.type
      /\ u.queue = k.queue
      /\ ~Open(k) => u.state = k.state
      /\ Open(k) => Open(u)
      /\ (k.state = "ReadyToStart" => Config[k.type].immediate_start_when_full)
             => StateMatchesQueue(u)
  BY <1>3, UpdateStateProperties
<1> HIDE DEF u
<1>5. /\ m \in LobbyRecord
      /\ m.type = u.type
      /\ m.queue = u.queue
      /\ m.state = u.state
  BY <1>4, TouchedProperties
<1>6. m = Touched(WithPlayer(l, p))
  BY DEF WithPlayer, k, u
<1> HIDE DEF m
<1>7. (Sorted(m) <=> Sorted(k)) /\ (Startable(m) <=> Startable(u))
  BY <1>4, <1>5, SameQueue
<1>8. /\ ~Open(l) => m.state = l.state
      /\ Open(l) => Open(m)
  BY <1>1, <1>4, <1>5 DEF Open
<1>9. StateMatchesQueue(l) /\ Open(l) => StateMatchesQueue(m)
  BY <1>1, <1>4, <1>5, <1>7 DEF StateMatchesQueue, Open
<1>10. QED
  BY <1>1, <1>2, <1>4, <1>5, <1>6, <1>7, <1>8, <1>9

\* remove_player.
LEMMA WithoutPlayerProperties ==
    ASSUME NEW l \in LobbyRecord, Sorted(l), NEW p, InQueue(l, p)
    PROVE  LET m == Touched(WithoutPlayer(l, p)) IN
           /\ m \in LobbyRecord
           /\ m.type = l.type
           /\ Len(m.queue) = Len(l.queue) - 1
           /\ \A i \in 1..Len(m.queue) : InQueue(l, m.queue[i])
           /\ Sorted(m)
           /\ ~Open(l) => m.state = l.state
           /\ Open(l) => Open(m)
           /\ StateMatchesQueue(l) => StateMatchesQueue(m)
<1> DEFINE k == [l EXCEPT !.queue = Dequeue(l, p)]
           u == UpdateState(k)
           m == Touched(u)
<1>1. /\ k.type = l.type
      /\ k.queue = Dequeue(l, p)
      /\ k.state = l.state
  BY DEF LobbyRecord
<1>2. /\ k.queue \in Seq(Player)
      /\ Len(k.queue) = Len(l.queue) - 1
      /\ \A i \in 1..Len(k.queue) : InQueue(l, k.queue[i])
      /\ Sorted(k)
  BY <1>1, RecordIsLobby, DequeueProperties
<1>3. k \in LobbyRecord
  BY <1>1, <1>2 DEF LobbyRecord
<1> HIDE DEF k
<1>4. /\ u \in LobbyRecord
      /\ u.type = k.type
      /\ u.queue = k.queue
      /\ ~Open(k) => u.state = k.state
      /\ Open(k) => Open(u)
      /\ (k.state = "ReadyToStart" => Config[k.type].immediate_start_when_full)
             => StateMatchesQueue(u)
  BY <1>3, UpdateStateProperties
<1> HIDE DEF u
<1>5. /\ m \in LobbyRecord
      /\ m.type = u.type
      /\ m.queue = u.queue
      /\ m.state = u.state
  BY <1>4, TouchedProperties
<1>6. m = Touched(WithoutPlayer(l, p))
  BY DEF WithoutPlayer, k, u
<1> HIDE DEF m
<1>7. (Sorted(m) <=> Sorted(k)) /\ (Startable(m) <=> Startable(u))
  BY <1>4, <1>5, SameQueue
<1>8. /\ ~Open(l) => m.state = l.state
      /\ Open(l) => Open(m)
  BY <1>1, <1>4, <1>5 DEF Open
<1>9. StateMatchesQueue(l) => StateMatchesQueue(m)
  BY <1>1, <1>4, <1>5, <1>7, <1>8 DEF StateMatchesQueue, Open
<1>10. QED
  BY <1>1, <1>2, <1>4, <1>5, <1>6, <1>7, <1>8, <1>9
-----------------------------------------------------------------------------
(***************************************************************************)
(* The local state of a request.                                           *)
(***************************************************************************)

Pc == {"unsent", "ok", "failed"} \cup Pending

RequestsTyped ==
    /\ request \in [Request -> RequestRecord]
    /\ \A r \in Request :
          /\ request[r].pc \in Pending => request[r].player \in Player
          /\ request[r].pc \in Joining \cup Joined => request[r].lobby \in issued

\* Going on to the next step of a request.
LEMMA MoveProperties ==
    ASSUME RequestsTyped, NEW r \in Request, NEW pc \in Pc,
           \/ Goto(r, pc)
           \/ \E s \in Seq(Player) : GotoWith(r, pc, s)
    PROVE  /\ request' \in [Request -> RequestRecord]
           /\ request'[r].pc = pc
           /\ request'[r].player = request[r].player
           /\ request'[r].lobby = request[r].lobby
           /\ \A x \in Request \ {r} : request'[x] = request[x]
<1>1. request[r] \in RequestRecord /\ r \in DOMAIN request
  BY DEF RequestsTyped
<1>2. CASE Goto(r, pc)
  <2>1. [request[r] EXCEPT !.pc = pc] \in RequestRecord
    BY <1>1 DEF RequestRecord, Pc
  <2>2. request' = [request EXCEPT ![r] = [request[r] EXCEPT !.pc = pc]]
    BY <1>2 DEF Goto
  <2>3. QED
    BY <1>1, <2>1, <2>2 DEF RequestsTyped, RequestRecord
<1>3. ASSUME NEW s \in Seq(Player), GotoWith(r, pc, s)
      PROVE  /\ request' \in [Request -> RequestRecord]
             /\ request'[r].pc = pc
             /\ request'[r].player = request[r].player
             /\ request'[r].lobby = request[r].lobby
             /\ \A x \in Request \ {r} : request'[x] = request[x]
  <2> DEFINE new == [request[r] EXCEPT !.pc = pc, !.roster = s]
  <2>1. /\ new \in RequestRecord
        /\ new.pc = pc
        /\ new.player = request[r].player
        /\ new.lobby = request[r].lobby
    BY <1>1 DEF RequestRecord, Pc
  <2>2. request' = [request EXCEPT ![r] = new]
    BY <1>3 DEF GotoWith
  <2> HIDE DEF new
  <2>3. QED
    BY <1>1, <2>1, <2>2 DEF RequestsTyped
<1>4. QED
  BY <1>2, <1>3

\* A request that goes on keeps its types.
LEMMA MoveTyped ==
    ASSUME RequestsTyped, NEW r \in Request, request[r].pc \in Pending,
           NEW pc \in Pc,
           \/ Goto(r, pc)
           \/ \E s \in Seq(Player) : GotoWith(r, pc, s),
           pc \in Joining \cup Joined => request[r].pc \in Joining \cup Joined,
           issued \subseteq issued'
    PROVE  RequestsTyped'
<1>1. /\ request' \in [Request -> RequestRecord]
      /\ request'[r].pc = pc
      /\ request'[r].player = request[r].player
      /\ request'[r].lobby = request[r].lobby
      /\ \A x \in Request \ {r} : request'[x] = request[x]
  BY MoveProperties
<1>2. QED
  BY <1>1 DEF RequestsTyped

\* The counters a handler advances stay numbers.
LEMMA CountedStats ==
    ASSUME NEW s \in Stats
    PROVE  [s EXCEPT !.lobbies_created = @ + 1, !.active_lobbies = @ + 1] \in Stats
<1>1. PICK c \in Nat : c = s.lobbies_created + 1
  BY DEF Stats
<1>2. PICK a \in Nat : a = s.active_lobbies + 1
  BY DEF Stats
<1>3. [s EXCEPT !.lobbies_created = c, !.active_lobbies = a] \in Stats
  BY DEF Stats
<1>4. QED
  BY <1>1, <1>2, <1>3

\* The figures a cleanup pass sets are numbers.
LEMMA CleanedStats ==
    ASSUME NEW s \in Stats, NEW c \in Nat, NEW a \in Nat, NEW w \in Nat
    PROVE  [s EXCEPT !.lobbies_cleaned = @ + c, !.active_lobbies = a,
                     !.players_waiting = w] \in Stats
<1>1. s.lobbies_cleaned + c \in Nat
  BY DEF Stats
<1>2. PICK d \in Nat : d = s.lobbies_cleaned + c
  BY <1>1
<1>3. [s EXCEPT !.lobbies_cleaned = d, !.active_lobbies = a,
                !.players_waiting = w] \in Stats
  BY DEF Stats
<1>4. QED
  BY <1>2, <1>3

\* What leaves the requests alone leaves their types alone.
LEMMA RequestsUnchanged ==
    ASSUME RequestsTyped, issued' = issued, request' = request
    PROVE  RequestsTyped'
  BY DEF RequestsTyped

\* Setting one lobby keeps the map typed and sorted.
LEMMA SetLobby ==
    ASSUME TypeInv, NEW l \in LobbyId, NEW m \in LobbyRecord, Sorted(m),
           lobby' = [lobby EXCEPT ![l] = m]
    PROVE  /\ lobby' \in [LobbyId -> LobbyRecord]
           /\ QueuesSorted'
           /\ lobby'[l] = m
           /\ \A k \in LobbyId \ {l} : lobby'[k] = lobby[k]
  BY DEF TypeInv, TypeOK, QueuesSorted

\* mark_starting, once should_start held.
LEMMA MarkedStartingProperties ==
    ASSUME NEW l \in LobbyRecord
    PROVE  LET m == Touched(MarkedStarting(l)) IN
           /\ m \in LobbyRecord
           /\ m.type = l.type
           /\ m.queue = l.queue
           /\ m.state = "Starting"
           /\ Sorted(l) => Sorted(m)
<1> DEFINE m == Touched(MarkedStarting(l))
<1>1. /\ m \in LobbyRecord
      /\ m.type = l.type
      /\ m.queue = l.queue
      /\ m.state = "Starting"
  BY DEF Touched, MarkedStarting, LobbyRecord, LobbyState
<1> HIDE DEF m
<1>2. Sorted(l) <=> Sorted(m)
  BY <1>1, SameQueue
<1>3. QED
  BY <1>1, <1>2 DEF m

\* LobbyInstance::new: empty, in order and waiting.
LEMMA NewLobbyProperties ==
    ASSUME NEW t \in LobbyType
    PROVE  /\ NewLobby(t) \in LobbyRecord
           /\ NewLobby(t).queue = <<>>
           /\ NewLobby(t).state = "WaitingForPlayers"
           /\ Sorted(NewLobby(t))
<1>1. /\ NewLobby(t) \in LobbyRecord
      /\ NewLobby(t).queue = <<>>
      /\ NewLobby(t).state = "WaitingForPlayers"
  BY DEF NewLobby, LobbyRecord, LobbyState
<1>2. Sorted(NewLobby(t))
  <2>1. Len(NewLobby(t).queue) = 0 /\ 0 \in 0..0 /\ 1..0 = {}
    BY <1>1
  <2>2. QED
    BY <2>1 DEF Sorted
<1>3. QED
  BY <1>1, <1>2

\* players_waiting as cleanup sums it is a number.
LEMMA WaitingType ==
    ASSUME NEW ids, IsFiniteSet(ids)
    PROVE  Waiting(ids) \in Nat
<1> DEFINE all == ids \X (1..MaxCapacity)
           some == {s \in all : s[2] <= Len(ActivePlayers(lobby[s[1]]))}
<1>1. IsFiniteSet(all)
  <2>1. IsFiniteSet(1..MaxCapacity)
    <3>1. 1 \in Int /\ MaxCapacity \in Int
      BY DEF MaxCapacity
    <3>2. QED
      BY <3>1, FS_Interval
  <2>2. QED
    BY <2>1, FS_Product
<1>2. some \subseteq all
  OBVIOUS
<1>3. Cardinality(some) \in Nat
  BY <1>1, <1>2, FS_Subset, FS_CardinalityType
<1>4. QED
  BY <1>3 DEF Waiting
-----------------------------------------------------------------------------
(***************************************************************************)
(* Types.                                                                  *)
(***************************************************************************)

\* The manager starts in a typed state.
LEMMA TypeInit ==
    ASSUME Init
    PROVE  TypeInv
<1>1. "General" \in LobbyType
  BY DEF LobbyType
<1>2. lobby \in [LobbyId -> LobbyRecord] /\ QueuesSorted
  BY <1>1, NewLobbyProperties DEF Init, QueuesSorted
<1>3. Unsent \in RequestRecord /\ Unsent.pc = "unsent"
  BY DEF Unsent, RequestRecord, LobbyType
<1>4. RequestsTyped
  BY <1>3 DEF Init, RequestsTyped, Pending, Searching, Joining, Joined
<1>5. stats \in Stats
  BY DEF Init, Stats
<1>6. QED
  BY <1>2, <1>4, <1>5 DEF Init, TypeInv, TypeOK, RequestsTyped

\* The parts of TypeOK, for the steps below.
LEMMA TypeParts ==
    ASSUME TypeInv
    PROVE  /\ issued \subseteq LobbyId
           /\ live \subseteq issued
           /\ lobby \in [LobbyId -> LobbyRecord]
           /\ QueuesSorted
           /\ RequestsTyped
           /\ cleanup \subseteq LobbyId
           /\ stats \in Stats
           /\ published \subseteq Event
  BY DEF TypeInv, TypeOK, RequestsTyped

\* Every operation keeps the types and the order of the queues.
LEMMA TypeStep ==
    ASSUME TypeInv, [Next]_vars
    PROVE  TypeInv'
<1> USE DEF Pending, Searching, Joining, Joined, Pc
<1> DEFINE Goal == /\ issued' \subseteq LobbyId
                   /\ live' \subseteq issued'
                   /\ lobby' \in [LobbyId -> LobbyRecord]
                   /\ QueuesSorted'
                   /\ RequestsTyped'
                   /\ cleanup' \subseteq LobbyId
                   /\ stats' \in Stats
                   /\ published' \subseteq Event
<1>0. /\ issued \subseteq LobbyId
      /\ live \subseteq issued
      /\ lobby \in [LobbyId -> LobbyRecord]
      /\ QueuesSorted
      /\ RequestsTyped
      /\ cleanup \subseteq LobbyId
      /\ stats \in Stats
      /\ published \subseteq Event
  BY TypeParts
<1>1. ASSUME NEW r \in Request, Receive(r) PROVE Goal
  <2>1. PICK o \in Offers :
            request' = [request EXCEPT ![r].pc = "find", ![r].player = o.player,
                                       ![r].lobby_type = o.lobby_type]
    BY <1>1 DEF Receive
  <2>2. o.player \in Player /\ o.lobby_type \in LobbyType
    BY <2>1, ManagerAssumption DEF Offer
  <2> DEFINE new == [request[r] EXCEPT !.pc = "find", !.player = o.player,
                                       !.lobby_type = o.lobby_type]
  <2>3. /\ new \in RequestRecord
        /\ new.pc = "find"
        /\ new.player = o.player
    BY <1>0, <2>2 DEF RequestsTyped, RequestRecord
  <2>4. request' = [request EXCEPT ![r] = new]
    BY <2>1
  <2> HIDE DEF new
  <2>5. RequestsTyped'
    BY <1>0, <1>1, <2>2, <2>3, <2>4 DEF RequestsTyped, Receive
  <2>6. stats' \in Stats
    BY <1>0, <1>1 DEF Receive, Stats
  <2>7. QED
    BY <1>0, <1>1, <2>5, <2>6 DEF Receive, QueuesSorted
<1>2. ASSUME NEW r \in Request, FindLobby(r) PROVE Goal
  <2>1. CASE Goto(r, "create")
    <3>1. RequestsTyped'
      BY <1>0, <1>2, <2>1, MoveTyped DEF FindLobby
    <3>2. QED
      BY <1>0, <1>2, <3>1 DEF FindLobby, QueuesSorted
  <2>2. ASSUME NEW l \in live,
               request' = [request EXCEPT ![r].pc = "add", ![r].lobby = l]
        PROVE  Goal
    <3> DEFINE new == [request[r] EXCEPT !.pc = "add", !.lobby = l]
    <3>1. /\ new \in RequestRecord
          /\ new.pc = "add"
          /\ new.lobby = l
          /\ new.player = request[r].player
          /\ request[r].player \in Player
      BY <1>0, <1>2, <2>2 DEF RequestsTyped, RequestRecord, FindLobby
    <3>2. request' = [request EXCEPT ![r] = new]
      BY <2>2
    <3> HIDE DEF new
    <3>3. RequestsTyped'
      BY <1>0, <1>2, <3>1, <3>2 DEF RequestsTyped, FindLobby
    <3>4. QED
      BY <1>0, <1>2, <3>3 DEF FindLobby, QueuesSorted
  <2>3. QED
    BY <1>2, <2>1, <2>2 DEF FindLobby, JoinableLobbies, AvailableLobbies
<1>3. ASSUME NEW r \in Request, CreateLobby(r) PROVE Goal
  <2>1. PICK l \in LobbyId \ issued :
          /\ issued' = issued \cup {l}
          /\ live' = live \cup {l}
          /\ lobby' = [lobby EXCEPT ![l] = NewLobby(request[r].lobby_type)]
          /\ request' = [request EXCEPT ![r].pc = "count", ![r].lobby = l]
    BY <1>3 DEF CreateLobby
  <2> DEFINE new == [request[r] EXCEPT !.pc = "count", !.lobby = l]
  <2>2. /\ new \in RequestRecord
        /\ new.pc = "count"
        /\ new.lobby = l
        /\ new.player = request[r].player
        /\ request[r].player \in Player
        /\ request[r].lobby_type \in LobbyType
    <3>1. l \in LobbyId /\ request[r].pc = "create"
      BY <1>3, <2>1 DEF CreateLobby
    <3>2. QED
      BY <1>0, <3>1 DEF RequestsTyped, RequestRecord
  <2>3. request' = [request EXCEPT ![r] = new]
    BY <2>1
  <2> HIDE DEF new
  <2>4. RequestsTyped'
    BY <1>0, <1>3, <2>1, <2>2, <2>3 DEF RequestsTyped
  <2>5. lobby' \in [LobbyId -> LobbyRecord] /\ QueuesSorted'
    BY <2>1, <2>2, NewLobbyProperties, SetLobby
  <2>6. QED
    BY <1>0, <1>3, <2>1, <2>4, <2>5 DEF CreateLobby
<1>4. ASSUME NEW r \in Request, CountLobby(r) PROVE Goal
  <2>1. RequestsTyped'
    BY <1>0, <1>4, MoveTyped DEF CountLobby
  <2>2. stats' \in Stats
    BY <1>0, <1>4, CountedStats DEF CountLobby
  <2>3. QED
    BY <1>0, <1>4, <2>1, <2>2 DEF CountLobby, QueuesSorted
<1>5. ASSUME NEW r \in Request, AddPlayer(r) PROVE Goal
  <2> DEFINE l == request[r].lobby
             p == request[r].player
             grown == Touched(WithPlayer(lobby[l], p))
  <2>1. /\ l \in LobbyId
        /\ p \in Player
        /\ lobby[l] \in LobbyRecord
        /\ Sorted(lobby[l])
    BY <1>0, <1>5 DEF AddPlayer, RequestsTyped, QueuesSorted
  <2>2. grown \in LobbyRecord /\ Sorted(grown)
    BY <2>1, WithPlayerProperties
  <2>3. CASE /\ lobby' = [lobby EXCEPT ![l] = grown]
             /\ GotoWith(r, "publish_joined", ActivePlayers(grown))
    <3>1. ActivePlayers(grown) \in Seq(Player)
      BY <2>2, RecordIsLobby, ActivePlayersProperties
    <3>2. RequestsTyped'
      BY <1>0, <1>5, <2>3, <3>1, MoveTyped DEF AddPlayer
    <3>3. lobby' \in [LobbyId -> LobbyRecord] /\ QueuesSorted'
      BY <2>1, <2>2, <2>3, SetLobby
    <3>4. QED
      BY <1>0, <1>5, <3>2, <3>3 DEF AddPlayer
  <2>4. CASE Goto(r, "failed") /\ UNCHANGED lobby
    <3>1. RequestsTyped'
      BY <1>0, <1>5, <2>4, MoveTyped DEF AddPlayer
    <3>2. QED
      BY <1>0, <1>5, <2>4, <3>1 DEF AddPlayer, QueuesSorted
  <2>5. QED
    BY <1>5, <2>3, <2>4 DEF AddPlayer, Target
<1>6. ASSUME NEW r \in Request, PublishJoined(r) PROVE Goal
  <2>1. request[r] \in RequestRecord /\ request[r].lobby \in issued /\ request[r].player \in Player
    BY <1>0, <1>6 DEF PublishJoined, RequestsTyped
  <2>2. CASE GotoWith(r, "check", <<>>)
    <3>1. RequestsTyped'
      <4>1. <<>> \in Seq(Player)
        OBVIOUS
      <4>2. QED
        BY <1>0, <1>6, <2>2, <4>1, MoveTyped DEF PublishJoined
    <3>2. [kind |-> "PlayerJoinedLobby", lobby |-> request[r].lobby,
           player |-> request[r].player, players |-> request[r].roster] \in Event
      BY <1>0, <2>1 DEF RequestRecord, Event, JoinedEvent
    <3>3. published' \subseteq Event
      BY <1>0, <1>6, <3>2 DEF PublishJoined
    <3>4. QED
      BY <1>0, <1>6, <3>1, <3>3 DEF PublishJoined, QueuesSorted
  <2>3. CASE Goto(r, "failed") /\ UNCHANGED published
    <3>1. RequestsTyped'
      BY <1>0, <1>6, <2>3, MoveTyped DEF PublishJoined
    <3>2. QED
      BY <1>0, <1>6, <2>3, <3>1 DEF PublishJoined, QueuesSorted
  <2>4. QED
    BY <1>6, <2>2, <2>3 DEF PublishJoined
<1>7. ASSUME NEW r \in Request, CheckAndStart(r) PROVE Goal
  <2> DEFINE l == request[r].lobby
             started == Touched(MarkedStarting(lobby[l]))
  <2>1. /\ l \in LobbyId
        /\ lobby[l] \in LobbyRecord
        /\ Sorted(lobby[l])
    BY <1>0, <1>7 DEF CheckAndStart, RequestsTyped, QueuesSorted
  <2>2. started \in LobbyRecord /\ Sorted(started)
    BY <2>1, MarkedStartingProperties
  <2>3. CASE /\ lobby' = [lobby EXCEPT ![l] = started]
             /\ stats' = [stats EXCEPT !.games_started = @ + 1]
             /\ GotoWith(r, "publish_starting", ActivePlayers(lobby[l]))
    <3>1. ActivePlayers(lobby[l]) \in Seq(Player)
      BY <2>1, RecordIsLobby, ActivePlayersProperties
    <3>2. RequestsTyped'
      BY <1>0, <1>7, <2>3, <3>1, MoveTyped DEF CheckAndStart
    <3>3. lobby' \in [LobbyId -> LobbyRecord] /\ QueuesSorted'
      BY <2>1, <2>2, <2>3, SetLobby
    <3>4. stats' \in Stats
      BY <1>0, <2>3 DEF Stats
    <3>5. QED
      BY <1>0, <1>7, <3>2, <3>3, <3>4 DEF CheckAndStart
  <2>4. CASE /\ Goto(r, "ok") \/ Goto(r, "failed")
             /\ UNCHANGED <<lobby, stats>>
    <3>1. RequestsTyped'
      BY <1>0, <1>7, <2>4, MoveTyped DEF CheckAndStart
    <3>2. QED
      BY <1>0, <1>7, <2>4, <3>1 DEF CheckAndStart, QueuesSorted
  <2>5. QED
    BY <1>7, <2>3, <2>4 DEF CheckAndStart, Target
<1>8. ASSUME NEW r \in Request, PublishStarting(r) PROVE Goal
  <2>1. request[r] \in RequestRecord /\ request[r].lobby \in issued
    BY <1>0, <1>8 DEF PublishStarting, RequestsTyped
  <2>2. CASE GotoWith(r, "ok", <<>>)
    <3>1. RequestsTyped'
      <4>1. <<>> \in Seq(Player)
        OBVIOUS
      <4>2. QED
        BY <1>0, <1>8, <2>2, <4>1, MoveTyped DEF PublishStarting
    <3>2. [kind |-> "GameStarting", lobby |-> request[r].lobby,
           players |-> request[r].roster] \in Event
      BY <1>0, <2>1 DEF RequestRecord, Event, StartingEvent
    <3>3. published' \subseteq Event
      BY <1>0, <1>8, <3>2 DEF PublishStarting
    <3>4. QED
      BY <1>0, <1>8, <3>1, <3>3 DEF PublishStarting, QueuesSorted
  <2>3. CASE Goto(r, "failed") /\ UNCHANGED published
    <3>1. RequestsTyped'
      BY <1>0, <1>8, <2>3, MoveTyped DEF PublishStarting
    <3>2. QED
      BY <1>0, <1>8, <2>3, <3>1 DEF PublishStarting, QueuesSorted
  <2>4. QED
    BY <1>8, <2>2, <2>3 DEF PublishStarting
<1>9. ASSUME NEW p \in Leavers, RemovePlayer(p) PROVE Goal
  <2>1. PICK l \in live :
          /\ InQueue(lobby[l], p)
          /\ lobby' = [lobby EXCEPT ![l] = Touched(WithoutPlayer(lobby[l], p))]
    BY <1>9 DEF RemovePlayer
  <2>2. l \in LobbyId /\ lobby[l] \in LobbyRecord /\ Sorted(lobby[l])
    BY <1>0 DEF QueuesSorted
  <2>3. /\ Touched(WithoutPlayer(lobby[l], p)) \in LobbyRecord
        /\ Sorted(Touched(WithoutPlayer(lobby[l], p)))
    BY <2>1, <2>2, WithoutPlayerProperties
  <2>4. lobby' \in [LobbyId -> LobbyRecord] /\ QueuesSorted'
    BY <2>1, <2>2, <2>3, SetLobby
  <2>5. RequestsTyped'
    BY <1>0, <1>9, RequestsUnchanged DEF RemovePlayer
  <2>6. QED
    BY <1>0, <1>9, <2>4, <2>5 DEF RemovePlayer
<1>10. ASSUME CleanupScan PROVE Goal
  BY <1>0, <1>10, RequestsUnchanged DEF CleanupScan, QueuesSorted
<1>11. ASSUME CleanupRemove PROVE Goal
  <2>1. /\ IsFiniteSet(live)
        /\ cleanup \cap live \subseteq live
        /\ live \ cleanup \subseteq live
    BY <1>0, ManagerAssumption, FS_Subset
  <2>2. /\ Cardinality(cleanup \cap live) \in Nat
        /\ Cardinality(live \ cleanup) \in Nat
        /\ Waiting(live \ cleanup) \in Nat
    <3>1. IsFiniteSet(cleanup \cap live)
      BY <2>1, FS_Subset
    <3>2. IsFiniteSet(live \ cleanup)
      BY <2>1, FS_Subset
    <3>3. Cardinality(cleanup \cap live) \in Nat
      BY <3>1, FS_CardinalityType
    <3>4. Cardinality(live \ cleanup) \in Nat
      BY <3>2, FS_CardinalityType
    <3>5. QED
      BY <3>2, <3>3, <3>4, WaitingType
  <2>3. stats' \in Stats
    BY <1>0, <1>11, <2>2, CleanedStats DEF CleanupRemove
  <2>4. RequestsTyped'
    BY <1>0, <1>11, RequestsUnchanged DEF CleanupRemove
  <2>5. QED
    BY <1>0, <1>11, <2>3, <2>4 DEF CleanupRemove, QueuesSorted
<1>12. ASSUME NEW l \in Idlers, FallIdle(l) PROVE Goal
  <2> DEFINE m == [lobby[l] EXCEPT !.idle = TRUE]
  <2>1. l \in LobbyId /\ lobby[l] \in LobbyRecord /\ Sorted(lobby[l])
    BY <1>0, <1>12 DEF FallIdle, QueuesSorted
  <2>2. m \in LobbyRecord /\ m.type = lobby[l].type /\ m.queue = lobby[l].queue
    BY <2>1 DEF LobbyRecord
  <2>3. lobby' = [lobby EXCEPT ![l] = m]
    BY <1>12 DEF FallIdle
  <2> HIDE DEF m
  <2>4. Sorted(m)
    BY <2>1, <2>2, SameQueue
  <2>5. lobby' \in [LobbyId -> LobbyRecord] /\ QueuesSorted'
    BY <2>1, <2>2, <2>3, <2>4, SetLobby
  <2>6. RequestsTyped'
    BY <1>0, <1>12, RequestsUnchanged DEF FallIdle
  <2>7. QED
    BY <1>0, <1>12, <2>5, <2>6 DEF FallIdle
<1>13. ASSUME UNCHANGED vars PROVE Goal
  <2>1. RequestsTyped'
    BY <1>0, <1>13, RequestsUnchanged DEF vars
  <2>2. QED
    BY <1>0, <1>13, <2>1 DEF vars, QueuesSorted
<1>14. Goal
  BY <1>1, <1>2, <1>3, <1>4, <1>5, <1>6, <1>7, <1>8, <1>9, <1>10, <1>11, <1>12,
     <1>13 DEF Next, Handle
<1>15. QED
  BY <1>14 DEF TypeInv, TypeOK, RequestsTyped

\* The inductive invariant behind TypeCorrect and QueuesStayInOrder.
LEMMA TypeInvariant == Spec => []TypeInv
<1>1. Init => TypeInv
  BY TypeInit
<1>2. TypeInv /\ [Next]_vars => TypeInv'
  BY TypeStep
<1>3. QED
  BY <1>1, <1>2, PTL DEF Spec

\* Every variable has its type in every reachable state; in particular no event
\* names a player or a lobby that does not exist.
THEOREM TypeCorrect == Spec => []TypeOK
<1>1. TypeInv => TypeOK
  BY DEF TypeInv
<1>2. QED
  BY <1>1, TypeInvariant, PTL

\* Joins and departures in any order leave every queue in priority order.
THEOREM QueuesStayInOrder == Spec => []QueuesInOrder
<1>1. TypeInv => QueuesInOrder
  <2>1. ASSUME TypeInv, NEW l \in live PROVE InOrder(lobby[l])
    <3>1. l \in LobbyId /\ lobby[l] \in LobbyRecord /\ Sorted(lobby[l])
      BY <2>1, TypeParts DEF QueuesSorted
    <3>2. QED
      BY <3>1, RecordIsLobby, SortedInOrder
  <2>2. QED
    BY <2>1 DEF QueuesInOrder
<1>2. QED
  BY <1>1, TypeInvariant, PTL
-----------------------------------------------------------------------------
(***************************************************************************)
(* What a step may do to a lobby.                                          *)
(***************************************************************************)

\* The handlers that write an existing lobby, with what they checked under the
\* lock they write it under.
LobbyChange(l) ==
    \/ lobby'[l] = lobby[l]
    \/ \E p \in Player : /\ CanAdd(lobby[l], p)
                         /\ lobby'[l] = Touched(WithPlayer(lobby[l], p))
    \/ \E p \in Player : /\ InQueue(lobby[l], p)
                         /\ lobby'[l] = Touched(WithoutPlayer(lobby[l], p))
    \/ /\ ShouldStart(lobby[l])
       /\ lobby'[l] = Touched(MarkedStarting(lobby[l]))
    \/ lobby'[l] = [lobby[l] EXCEPT !.idle = TRUE]

\* Every operation changes a lobby in one of the ways of LobbyChange only.
LEMMA LobbyChanges ==
    ASSUME TypeInv, [Next]_vars
    PROVE  /\ issued \subseteq issued'
           /\ \A l \in issued : LobbyChange(l)
           /\ \A l \in live' \ live : l \in issued' \ issued
           /\ \A l \in issued' \ issued :
                 \E t \in LobbyType : lobby'[l] = NewLobby(t)
           /\ \A l \in LobbyId \ issued' : lobby'[l] = lobby[l]
<1> DEFINE Goal == /\ issued \subseteq issued'
                   /\ \A l \in issued : LobbyChange(l)
                   /\ \A l \in live' \ live : l \in issued' \ issued
                   /\ \A l \in issued' \ issued :
                         \E t \in LobbyType : lobby'[l] = NewLobby(t)
                   /\ \A l \in LobbyId \ issued' : lobby'[l] = lobby[l]
<1>0. /\ issued \subseteq LobbyId
      /\ live \subseteq issued
      /\ lobby \in [LobbyId -> LobbyRecord]
      /\ RequestsTyped
  BY TypeParts
<1>1. ASSUME issued' = issued, live' \subseteq live, lobby' = lobby PROVE Goal
  BY <1>1 DEF LobbyChange
<1>2. ASSUME issued' = issued, live' = live, NEW k \in issued, NEW m,
             lobby' = [lobby EXCEPT ![k] = m],
             lobby'[k] = m => LobbyChange(k)
      PROVE  Goal
  <2>1. lobby'[k] = m /\ \A l \in LobbyId \ {k} : lobby'[l] = lobby[l]
    BY <1>0, <1>2
  <2>2. \A l \in issued : LobbyChange(l)
    <3>1. ASSUME NEW l \in issued, l # k PROVE LobbyChange(l)
      BY <1>0, <2>1, <3>1 DEF LobbyChange
    <3>2. QED
      BY <1>2, <2>1, <3>1
  <2>3. QED
    BY <1>2, <2>1, <2>2
<1>3. ASSUME NEW r \in Request, Receive(r) \/ FindLobby(r) \/ CountLobby(r) PROVE Goal
  BY <1>1, <1>3 DEF Receive, FindLobby, CountLobby
<1>4. ASSUME NEW r \in Request, CreateLobby(r) PROVE Goal
  <2>1. PICK k \in LobbyId \ issued :
          /\ issued' = issued \cup {k}
          /\ live' = live \cup {k}
          /\ lobby' = [lobby EXCEPT ![k] = NewLobby(request[r].lobby_type)]
    BY <1>4 DEF CreateLobby
  <2>2. request[r].lobby_type \in LobbyType
    BY <1>0 DEF RequestsTyped, RequestRecord
  <2>3. lobby'[k] = NewLobby(request[r].lobby_type)
    BY <1>0, <2>1
  <2>4. \A l \in LobbyId \ {k} : lobby'[l] = lobby[l]
    BY <1>0, <2>1
  <2>5. \A l \in issued : LobbyChange(l)
    BY <1>0, <2>1, <2>4 DEF LobbyChange
  <2>6. QED
    BY <2>1, <2>2, <2>3, <2>4, <2>5
<1>5. ASSUME NEW r \in Request, AddPlayer(r) PROVE Goal
  <2> DEFINE k == request[r].lobby
             p == request[r].player
  <2>1. k \in issued /\ p \in Player
    BY <1>0, <1>5 DEF AddPlayer, RequestsTyped, Pending, Joining
  <2>2. CASE /\ CanAdd(lobby[k], p)
             /\ lobby' = [lobby EXCEPT ![k] = Touched(WithPlayer(lobby[k], p))]
    <3>1. lobby'[k] = Touched(WithPlayer(lobby[k], p)) => LobbyChange(k)
      BY <2>1, <2>2 DEF LobbyChange
    <3>2. QED
      BY <1>2, <1>5, <2>1, <2>2, <3>1 DEF AddPlayer
  <2>3. CASE UNCHANGED lobby
    BY <1>1, <1>5, <2>3 DEF AddPlayer
  <2>4. QED
    BY <1>5, <2>2, <2>3 DEF AddPlayer, Target
<1>6. ASSUME NEW r \in Request, PublishJoined(r) \/ PublishStarting(r) PROVE Goal
  BY <1>1, <1>6 DEF PublishJoined, PublishStarting
<1>7. ASSUME NEW r \in Request, CheckAndStart(r) PROVE Goal
  <2> DEFINE k == request[r].lobby
  <2>1. k \in issued
    BY <1>0, <1>7 DEF CheckAndStart, RequestsTyped, Joined
  <2>2. CASE /\ ShouldStart(lobby[k])
             /\ lobby' = [lobby EXCEPT ![k] = Touched(MarkedStarting(lobby[k]))]
    <3>1. lobby'[k] = Touched(MarkedStarting(lobby[k])) => LobbyChange(k)
      BY <2>2 DEF LobbyChange
    <3>2. QED
      BY <1>2, <1>7, <2>1, <2>2, <3>1 DEF CheckAndStart
  <2>3. CASE UNCHANGED lobby
    BY <1>1, <1>7, <2>3 DEF CheckAndStart
  <2>4. QED
    BY <1>7, <2>2, <2>3 DEF CheckAndStart, Target
<1>8. ASSUME NEW p \in Leavers, RemovePlayer(p) PROVE Goal
  <2>1. PICK k \in live :
          /\ InQueue(lobby[k], p)
          /\ lobby' = [lobby EXCEPT ![k] = Touched(WithoutPlayer(lobby[k], p))]
    BY <1>8 DEF RemovePlayer
  <2>2. p \in Player /\ k \in issued
    BY <1>0, <2>1, ManagerAssumption
  <2>3. lobby'[k] = Touched(WithoutPlayer(lobby[k], p)) => LobbyChange(k)
    BY <2>1, <2>2 DEF LobbyChange
  <2>4. QED
    BY <1>2, <1>8, <2>1, <2>2, <2>3 DEF RemovePlayer
<1>9. ASSUME CleanupScan \/ CleanupRemove \/ UNCHANGED vars PROVE Goal
  BY <1>1, <1>9 DEF CleanupScan, CleanupRemove, vars
<1>10. ASSUME NEW k \in Idlers, FallIdle(k) PROVE Goal
  <2>1. k \in issued /\ lobby' = [lobby EXCEPT ![k] = [lobby[k] EXCEPT !.idle = TRUE]]
    BY <1>0, <1>10 DEF FallIdle
  <2>2. lobby'[k] = [lobby[k] EXCEPT !.idle = TRUE] => LobbyChange(k)
    BY DEF LobbyChange
  <2>3. QED
    BY <1>2, <1>10, <2>1, <2>2 DEF FallIdle
<1>11. QED
  BY <1>3, <1>4, <1>5, <1>6, <1>7, <1>8, <1>9, <1>10 DEF Next, Handle

\* What each of the changes does to the state and the queue.
LEMMA LobbyChangeProperties ==
    ASSUME TypeInv, NEW l \in issued, LobbyChange(l)
    PROVE  /\ ~Open(lobby[l]) =>
                 /\ lobby'[l].state = lobby[l].state
                 /\ \A i \in 1..Len(lobby'[l].queue) :
                       InQueue(lobby[l], lobby'[l].queue[i])
           /\ StateMatchesQueue(lobby[l]) => StateMatchesQueue(lobby'[l])
<1> DEFINE old == lobby[l]
           new == lobby'[l]
           Goal == /\ ~Open(old) =>
                         /\ new.state = old.state
                         /\ \A i \in 1..Len(new.queue) : InQueue(old, new.queue[i])
                   /\ StateMatchesQueue(old) => StateMatchesQueue(new)
<1>1. old \in LobbyRecord /\ Sorted(old)
  BY TypeParts DEF QueuesSorted
<1> HIDE DEF old, new
<1>2. ASSUME new.type = old.type, new.queue = old.queue, new.state = old.state
      PROVE  Goal
  <2>1. Startable(new) <=> Startable(old)
    BY <1>2, SameQueue
  <2>2. \A i \in 1..Len(new.queue) : InQueue(old, new.queue[i])
    BY <1>2 DEF InQueue
  <2>3. QED
    BY <1>2, <2>1, <2>2 DEF StateMatchesQueue, Open
<1>3. ASSUME new = old PROVE Goal
  BY <1>2, <1>3
<1>4. ASSUME NEW p \in Player, CanAdd(old, p), new = Touched(WithPlayer(old, p))
      PROVE  Goal
  BY <1>1, <1>4, WithPlayerProperties DEF CanAdd
<1>5. ASSUME NEW p \in Player, InQueue(old, p), new = Touched(WithoutPlayer(old, p))
      PROVE  Goal
  BY <1>1, <1>5, WithoutPlayerProperties
<1>6. ASSUME ShouldStart(old), new = Touched(MarkedStarting(old)) PROVE Goal
  BY <1>1, <1>6, MarkedStartingProperties DEF ShouldStart, StateMatchesQueue, Open
<1>7. ASSUME new = [old EXCEPT !.idle = TRUE] PROVE Goal
  <2>1. new.type = old.type /\ new.queue = old.queue /\ new.state = old.state
    BY <1>1, <1>7 DEF LobbyRecord
  <2>2. QED
    BY <1>2, <2>1
<1>8. QED
  BY <1>3, <1>4, <1>5, <1>6, <1>7 DEF LobbyChange, old, new
-----------------------------------------------------------------------------
(***************************************************************************)
(* The life cycle of a lobby.                                              *)
(***************************************************************************)

\* Once a game is starting nobody enters its lobby any more, not even a request
\* that had chosen it before, and it is never opened again.
THEOREM StartedLobbiesStayClosed == Spec => StartedLobbyClosed
<1> DEFINE Closed ==
        \A l \in live :
            lobby[l].state = "Starting" =>
               /\ lobby'[l].state = "Starting"
               /\ \A i \in 1..Len(lobby'[l].queue) : InQueue(lobby[l], lobby'[l].queue[i])
<1>1. TypeInv /\ [Next]_vars => Closed
  <2> SUFFICES ASSUME TypeInv, [Next]_vars, NEW l \in live, lobby[l].state = "Starting"
               PROVE  /\ lobby'[l].state = "Starting"
                      /\ \A i \in 1..Len(lobby'[l].queue) :
                            InQueue(lobby[l], lobby'[l].queue[i])
    OBVIOUS
  <2>1. l \in issued /\ LobbyChange(l)
    BY TypeParts, LobbyChanges
  <2>2. ~Open(lobby[l])
    BY DEF Open
  <2>3. QED
    BY <2>1, <2>2, LobbyChangeProperties
<1>2. TypeInv /\ [Next]_vars => [Closed]_vars
  BY <1>1
<1>3. QED
  BY <1>2, TypeInvariant, PTL DEF Spec, StartedLobbyClosed

\* Interleaved joins and departures never leave a lobby in the wrong state.
THEOREM StatesStayMatched == Spec => []StatesMatchQueues
<1>1. Init => StatesMatchQueues
  BY DEF Init, StatesMatchQueues
<1>2. TypeInv /\ StatesMatchQueues /\ [Next]_vars => StatesMatchQueues'
  <2> SUFFICES ASSUME TypeInv, StatesMatchQueues, [Next]_vars, NEW l \in live'
               PROVE  StateMatchesQueue(lobby'[l])
    BY DEF StatesMatchQueues
  <2>1. CASE l \in live
    <3>1. l \in issued /\ LobbyChange(l) /\ StateMatchesQueue(lobby[l])
      BY <2>1, TypeParts, LobbyChanges DEF StatesMatchQueues
    <3>2. QED
      BY <3>1, LobbyChangeProperties
  <2>2. CASE l \notin live
    <3>1. PICK t \in LobbyType : lobby'[l] = NewLobby(t)
      BY <2>2, LobbyChanges
    <3>2. StateMatchesQueue(NewLobby(t))
      <4> DEFINE m == NewLobby(t)
      <4>1. m \in LobbyRecord /\ m.queue = <<>> /\ m.state = "WaitingForPlayers"
        BY NewLobbyProperties
      <4> HIDE DEF m
      <4>2. Capacity(m) \in 1..MaxCapacity
        BY <4>1, RecordIsLobby, CapacityType
      <4>3. ~IsFull(m)
        <5>1. Len(m.queue) = 0
          BY <4>1
        <5>2. QED
          BY <4>2, <5>1 DEF IsFull, MaxCapacity
      <4>4. QED
        BY <4>1, <4>3 DEF StateMatchesQueue, Startable, m
    <3>3. QED
      BY <3>1, <3>2
  <2>3. QED
    BY <2>1, <2>2
<1>3. QED
  BY <1>1, <1>2, TypeInvariant, PTL DEF Spec
-----------------------------------------------------------------------------
(***************************************************************************)
(* Counting requests.                                                      *)
(***************************************************************************)

\* The sets of requests that are counted are finite.
LEMMA RequestSets ==
    ASSUME NEW S, S \subseteq Request
    PROVE  IsFiniteSet(S) /\ Cardinality(S) \in Nat
<1>1. IsFiniteSet(S)
  BY ManagerAssumption, FS_Subset
<1>2. QED
  BY <1>1, FS_CardinalityType

\* Fewer requests count less.
LEMMA RequestSubsets ==
    ASSUME NEW S, S \subseteq Request, NEW T, T \subseteq S
    PROVE  Cardinality(T) <= Cardinality(S)
  BY RequestSets, FS_Subset

\* A handler's step is a step of its own request.
LEMMA HandleMoves ==
    ASSUME TypeInv, NEW r \in Request, Handle(r)
    PROVE  /\ request[r].pc \in Pending
           /\ \A x \in Request \ {r} : request'[x] = request[x]
<1> USE DEF Pending, Searching, Joining, Joined
<1>0. request \in [Request -> RequestRecord]
  BY TypeParts DEF RequestsTyped
<1>1. CASE FindLobby(r)
  BY <1>0, <1>1 DEF FindLobby, Goto
<1>2. CASE CreateLobby(r)
  BY <1>0, <1>2 DEF CreateLobby
<1>3. CASE CountLobby(r)
  BY <1>0, <1>3 DEF CountLobby, Goto
<1>4. CASE AddPlayer(r)
  BY <1>0, <1>4 DEF AddPlayer, Goto, GotoWith
<1>5. CASE PublishJoined(r)
  BY <1>0, <1>5 DEF PublishJoined, Goto, GotoWith
<1>6. CASE CheckAndStart(r)
  BY <1>0, <1>6 DEF CheckAndStart, Goto, GotoWith
<1>7. CASE PublishStarting(r)
  BY <1>0, <1>7 DEF PublishStarting, Goto, GotoWith
<1>8. QED
  BY <1>1, <1>2, <1>3, <1>4, <1>5, <1>6, <1>7 DEF Handle

(***************************************************************************)
(* Capacity.  A request chooses its lobby on a snapshot and enters it later, *)
(* so what bounds a queue is the number of handlers, and the invariant has *)
(* to count the requests that have chosen a lobby and not entered it yet.  *)
(***************************************************************************)

HandlersBounded == Cardinality(InFlight) <= MaxConcurrent

\* Only a free handler takes up a request.
LEMMA HandlersStayBounded ==
    ASSUME TypeInv, HandlersBounded, [Next]_vars
    PROVE  HandlersBounded'
<1>0. /\ request \in [Request -> RequestRecord]
      /\ MaxConcurrent \in Nat
      /\ InFlight \subseteq Request /\ InFlight' \subseteq Request
      /\ Cardinality(InFlight) \in Nat /\ Cardinality(InFlight') \in Nat
  BY TypeParts, ManagerAssumption, RequestSets DEF RequestsTyped, InFlight
<1>1. ASSUME InFlight' \subseteq InFlight PROVE HandlersBounded'
  <2>1. Cardinality(InFlight') <= Cardinality(InFlight)
    BY <1>0, <1>1, RequestSubsets
  <2>2. QED
    BY <1>0, <2>1 DEF HandlersBounded
<1>2. ASSUME NEW r \in Request, Receive(r) PROVE HandlersBounded'
  <2>1. \A x \in Request \ {r} : request'[x] = request[x]
    BY <1>0, <1>2 DEF Receive
  <2>2. InFlight' \subseteq InFlight \cup {r}
    BY <1>0, <2>1 DEF InFlight
  <2>3. /\ InFlight \cup {r} \subseteq Request
        /\ IsFiniteSet(InFlight)
    BY <1>0, RequestSets
  <2>4. Cardinality(InFlight') <= Cardinality(InFlight \cup {r})
    BY <2>2, <2>3, RequestSubsets
  <2>5. Cardinality(InFlight \cup {r}) = Cardinality(InFlight) + 1
    <3>1. r \notin InFlight
      BY <1>2 DEF Receive, InFlight, Pending, Searching, Joining, Joined
    <3>2. QED
      BY <2>3, <3>1, FS_AddElement
  <2>6. Cardinality(InFlight) < MaxConcurrent
    BY <1>2 DEF Receive
  <2>7. Cardinality(InFlight \cup {r}) \in Nat
    BY <2>3, RequestSets
  <2>8. QED
    BY <1>0, <2>4, <2>5, <2>6, <2>7 DEF HandlersBounded
<1>3. ASSUME NEW r \in Request, Handle(r) PROVE HandlersBounded'
  <2>1. /\ request[r].pc \in Pending
        /\ \A x \in Request \ {r} : request'[x] = request[x]
    BY <1>3, HandleMoves
  <2>2. InFlight' \subseteq InFlight
    BY <1>0, <2>1 DEF InFlight
  <2>3. QED
    BY <1>1, <2>2
<1>4. ASSUME request' = request PROVE HandlersBounded'
  <2>1. InFlight' \subseteq InFlight
    BY <1>4 DEF InFlight
  <2>2. QED
    BY <1>1, <2>1
<1>5. QED
  BY <1>2, <1>3, <1>4
     DEF Next, RemovePlayer, CleanupScan, CleanupRemove, FallIdle, vars

\* The part of OverflowBounded that is about lobby l.
Bound(l) ==
    Len(lobby[l].queue) + Cardinality(JoiningLobby(l))
        <= Capacity(lobby[l]) + MaxConcurrent - 1

\* The numbers the bound is about are numbers.
LEMMA BoundTypes ==
    ASSUME NEW l, NEW m \in LobbyRecord
    PROVE  /\ Len(m.queue) \in Nat
           /\ Capacity(m) \in Nat \ {0}
           /\ MaxConcurrent \in Nat \ {0}
<1>1. Capacity(m) \in 1..MaxCapacity
  BY RecordIsLobby, CapacityType
<1>2. Len(m.queue) \in Nat
  BY DEF LobbyRecord
<1>3. QED
  BY <1>1, <1>2, ManagerAssumption DEF MaxCapacity

\* The requests on their way into a lobby are handlers.
LEMMA JoiningTypes ==
    ASSUME NEW l
    PROVE  /\ JoiningLobby(l) \subseteq InFlight
           /\ JoiningLobby(l)' \subseteq InFlight'
           /\ IsFiniteSet(JoiningLobby(l))
           /\ Cardinality(JoiningLobby(l)) \in Nat
           /\ Cardinality(JoiningLobby(l)') \in Nat
           /\ Cardinality(InFlight') \in Nat
           /\ Cardinality(JoiningLobby(l)') <= Cardinality(InFlight')
<1>1. /\ JoiningLobby(l) \subseteq Request
      /\ JoiningLobby(l)' \subseteq Request
      /\ InFlight' \subseteq Request
      /\ JoiningLobby(l) \subseteq InFlight
      /\ JoiningLobby(l)' \subseteq InFlight'
  BY DEF JoiningLobby, InFlight, Pending
<1>2. QED
  BY <1>1, RequestSets, RequestSubsets

\* Nobody entered the lobby and nobody chose it.
LEMMA BoundKept ==
    ASSUME TypeInv, TypeInv', NEW l \in LobbyId, Bound(l),
           lobby'[l].type = lobby[l].type,
           Len(lobby'[l].queue) <= Len(lobby[l].queue),
           JoiningLobby(l)' \subseteq JoiningLobby(l)
    PROVE  Bound(l)'
<1>1. /\ lobby[l] \in LobbyRecord
      /\ lobby'[l] \in LobbyRecord
  BY DEF TypeInv, TypeOK
<1>2. Capacity(lobby'[l]) = Capacity(lobby[l])
  BY DEF Capacity
<1>3. JoiningLobby(l) \subseteq Request
  BY DEF JoiningLobby
<1>4. Cardinality(JoiningLobby(l)') <= Cardinality(JoiningLobby(l))
  BY <1>3, RequestSubsets
<1>5. /\ Len(lobby[l].queue) \in Nat
      /\ Len(lobby'[l].queue) \in Nat
      /\ Capacity(lobby[l]) \in Nat
      /\ MaxConcurrent \in Nat
      /\ Cardinality(JoiningLobby(l)) \in Nat
      /\ Cardinality(JoiningLobby(l)') \in Nat
  BY <1>1, BoundTypes, JoiningTypes
<1>6. QED
  BY <1>2, <1>4, <1>5 DEF Bound

\* A lobby with a free place: all the handlers together cannot exceed the bound.
LEMMA BoundFresh ==
    ASSUME TypeInv', HandlersBounded', NEW l \in LobbyId,
           Len(lobby'[l].queue) < Capacity(lobby'[l])
    PROVE  Bound(l)'
<1>1. lobby'[l] \in LobbyRecord
  BY DEF TypeInv, TypeOK
<1>2. /\ Len(lobby'[l].queue) \in Nat
      /\ Capacity(lobby'[l]) \in Nat
      /\ MaxConcurrent \in Nat
      /\ Cardinality(JoiningLobby(l)') \in Nat
      /\ Cardinality(InFlight') \in Nat
      /\ Cardinality(JoiningLobby(l)') <= Cardinality(InFlight')
  BY <1>1, BoundTypes, JoiningTypes
<1>3. QED
  BY <1>2 DEF Bound, HandlersBounded

\* A request that had chosen the lobby entered it.
LEMMA BoundEntered ==
    ASSUME TypeInv, TypeInv', NEW l \in LobbyId, Bound(l),
           lobby'[l].type = lobby[l].type,
           Len(lobby'[l].queue) = Len(lobby[l].queue) + 1,
           NEW r \in JoiningLobby(l),
           JoiningLobby(l)' \subseteq JoiningLobby(l) \ {r}
    PROVE  Bound(l)'
<1>1. /\ lobby[l] \in LobbyRecord
      /\ lobby'[l] \in LobbyRecord
  BY DEF TypeInv, TypeOK
<1>2. Capacity(lobby'[l]) = Capacity(lobby[l])
  BY DEF Capacity
<1>3. JoiningLobby(l) \ {r} \subseteq Request
  BY DEF JoiningLobby
<1>4. /\ Cardinality(JoiningLobby(l)') <= Cardinality(JoiningLobby(l) \ {r})
      /\ Cardinality(JoiningLobby(l) \ {r}) \in Nat
  BY <1>3, RequestSubsets, RequestSets
<1>5. Cardinality(JoiningLobby(l) \ {r}) = Cardinality(JoiningLobby(l)) - 1
  BY JoiningTypes, FS_RemoveElement
<1>6. /\ Len(lobby[l].queue) \in Nat
      /\ Capacity(lobby[l]) \in Nat
      /\ MaxConcurrent \in Nat
      /\ Cardinality(JoiningLobby(l)) \in Nat
      /\ Cardinality(JoiningLobby(l)') \in Nat
  BY <1>1, BoundTypes, JoiningTypes
<1>7. QED
  BY <1>2, <1>4, <1>5, <1>6 DEF Bound

\* Every operation keeps the bound.
LEMMA BoundStep ==
    ASSUME TypeInv, TypeInv', OverflowBounded, HandlersBounded', [Next]_vars,
           NEW l \in live'
    PROVE  Bound(l)'
<1> USE DEF Pending, Searching, Joining, Joined
<1>0. /\ issued \subseteq LobbyId
      /\ live \subseteq issued
      /\ l \in LobbyId
      /\ lobby \in [LobbyId -> LobbyRecord]
      /\ request \in [Request -> RequestRecord]
      /\ RequestsTyped
  BY TypeParts DEF TypeInv, TypeOK, RequestsTyped
\* A step that leaves the lobby and does not choose it.
<1>1. ASSUME l \in live, lobby'[l] = lobby[l], JoiningLobby(l)' \subseteq JoiningLobby(l)
      PROVE  Bound(l)'
  <2>1. lobby[l] \in LobbyRecord /\ Bound(l)
    BY <1>0, <1>1 DEF OverflowBounded, Bound
  <2>2. Len(lobby'[l].queue) <= Len(lobby[l].queue)
    BY <1>1, <2>1 DEF LobbyRecord
  <2>3. QED
    BY <1>0, <1>1, <2>1, <2>2, BoundKept
\* A step of a request that is not entering a lobby afterwards.
<1>2. ASSUME NEW r \in Request, \A x \in Request \ {r} : request'[x] = request[x],
             request'[r].pc \notin Joining
      PROVE  JoiningLobby(l)' \subseteq JoiningLobby(l) \ {r}
  BY <1>2 DEF JoiningLobby
<1>3. ASSUME request' = request PROVE JoiningLobby(l)' = JoiningLobby(l)
  BY <1>3 DEF JoiningLobby
<1>4. ASSUME NEW r \in Request, Receive(r) PROVE Bound(l)'
  <2>1. /\ \A x \in Request \ {r} : request'[x] = request[x]
        /\ request'[r].pc = "find"
        /\ lobby' = lobby
        /\ live' = live
    <3>1. PICK o \in Offers :
              request' = [request EXCEPT ![r].pc = "find", ![r].player = o.player,
                                         ![r].lobby_type = o.lobby_type]
      BY <1>4 DEF Receive
    <3>2. /\ \A x \in Request \ {r} : request'[x] = request[x]
          /\ request'[r].pc = "find"
      BY <1>0, <3>1 DEF RequestRecord
    <3>3. QED
      BY <1>4, <3>2 DEF Receive
  <2>2. QED
    BY <1>1, <1>2, <2>1
<1>5. ASSUME NEW r \in Request, FindLobby(r) PROVE Bound(l)'
  <2>1. CASE Goto(r, "create")
    <3>1. /\ \A x \in Request \ {r} : request'[x] = request[x]
          /\ request'[r].pc = "create"
      BY <1>0, <2>1 DEF Goto, RequestRecord
    <3>2. QED
      BY <1>1, <1>2, <1>5, <3>1 DEF FindLobby
  <2>2. ASSUME NEW k \in live, ~IsFull(lobby[k]),
               request' = [request EXCEPT ![r].pc = "add", ![r].lobby = k]
        PROVE  Bound(l)'
    <3>1. CASE l = k
      <4>1. lobby'[l] = lobby[l] /\ lobby[l] \in LobbyRecord
        BY <1>0, <1>5 DEF FindLobby
      <4>2. Len(lobby'[l].queue) < Capacity(lobby'[l])
        BY <2>2, <3>1, <4>1, BoundTypes DEF IsFull
      <4>3. QED
        BY <1>0, <4>2, BoundFresh
    <3>2. CASE l # k
      <4>1. /\ \A x \in Request \ {r} : request'[x] = request[x]
            /\ request'[r].lobby = k
        BY <1>0, <2>2 DEF RequestRecord
      <4>2. JoiningLobby(l)' \subseteq JoiningLobby(l)
        BY <3>2, <4>1 DEF JoiningLobby
      <4>3. QED
        BY <1>1, <1>5, <4>2 DEF FindLobby
    <3>3. QED
      BY <3>1, <3>2
  <2>3. QED
    BY <1>5, <2>1, <2>2 DEF FindLobby, JoinableLobbies, AvailableLobbies
<1>6. ASSUME NEW r \in Request, CreateLobby(r) PROVE Bound(l)'
  <2>1. PICK k \in LobbyId \ issued :
          /\ live' = live \cup {k}
          /\ lobby' = [lobby EXCEPT ![k] = NewLobby(request[r].lobby_type)]
          /\ request' = [request EXCEPT ![r].pc = "count", ![r].lobby = k]
    BY <1>6 DEF CreateLobby
  <2>2. CASE l = k
    <3>1. request[r].lobby_type \in LobbyType
      BY <1>0 DEF RequestRecord
    <3>2. lobby'[l] = NewLobby(request[r].lobby_type)
      BY <1>0, <2>1, <2>2
    <3>3. lobby'[l].queue = <<>> /\ lobby'[l] \in LobbyRecord
      BY <3>1, <3>2, NewLobbyProperties
    <3>4. Capacity(lobby'[l]) \in Nat \ {0}
      BY <3>3, BoundTypes
    <3>5. Len(lobby'[l].queue) = 0
      BY <3>3
    <3>6. Len(lobby'[l].queue) < Capacity(lobby'[l])
      BY <3>4, <3>5
    <3>7. QED
      BY <1>0, <3>6, BoundFresh
  <2>3. CASE l # k
    <3>1. l \in live /\ lobby'[l] = lobby[l]
      BY <1>0, <2>1, <2>3
    <3>2. /\ \A x \in Request \ {r} : request'[x] = request[x]
          /\ request'[r].lobby = k
      BY <1>0, <2>1 DEF RequestRecord
    <3>3. JoiningLobby(l)' \subseteq JoiningLobby(l)
      BY <2>3, <3>2 DEF JoiningLobby
    <3>4. QED
      BY <1>1, <3>1, <3>3
  <2>4. QED
    BY <2>2, <2>3
<1>7. ASSUME NEW r \in Request, CountLobby(r) PROVE Bound(l)'
  <2>1. /\ \A x \in Request \ {r} : request'[x] = request[x]
        /\ request'[r].lobby = request[r].lobby
        /\ request[r].pc = "count"
    BY <1>0, <1>7 DEF CountLobby, Goto, RequestRecord
  <2>2. JoiningLobby(l)' \subseteq JoiningLobby(l)
    BY <2>1 DEF JoiningLobby
  <2>3. QED
    BY <1>1, <1>7, <2>2 DEF CountLobby
<1>8. ASSUME NEW r \in Request, AddPlayer(r) PROVE Bound(l)'
  <2> DEFINE k == request[r].lobby
             grown == Touched(WithPlayer(lobby[k], request[r].player))
  <2>1. /\ k \in LobbyId
        /\ request[r].player \in Player
        /\ request[r].pc = "add"
        /\ live' = live
    BY <1>0, <1>8 DEF AddPlayer, RequestsTyped
  <2>2. CASE /\ lobby' = [lobby EXCEPT ![k] = grown]
             /\ GotoWith(r, "publish_joined", ActivePlayers(grown))
    <3>1. /\ \A x \in Request \ {r} : request'[x] = request[x]
          /\ request'[r].pc = "publish_joined"
      BY <1>0, <2>2 DEF GotoWith, RequestRecord
    <3>2. JoiningLobby(l)' \subseteq JoiningLobby(l) \ {r}
      BY <1>2, <3>1
    <3>3. CASE l = k
      <4>1. lobby[l] \in LobbyRecord /\ Sorted(lobby[l])
        BY <1>0 DEF TypeInv, QueuesSorted
      <4>2. lobby'[l] = Touched(WithPlayer(lobby[l], request[r].player))
        BY <1>0, <2>2, <3>3
      <4>3. /\ lobby'[l].type = lobby[l].type
            /\ Len(lobby'[l].queue) = Len(lobby[l].queue) + 1
        BY <2>1, <4>1, <4>2, WithPlayerProperties
      <4>4. r \in JoiningLobby(l)
        BY <2>1, <3>3 DEF JoiningLobby
      <4>5. Bound(l)
        BY <2>1 DEF OverflowBounded, Bound
      <4>6. QED
        BY <1>0, <3>2, <4>3, <4>4, <4>5, BoundEntered
    <3>4. CASE l # k
      <4>1. lobby'[l] = lobby[l]
        BY <1>0, <2>2, <3>4
      <4>2. QED
        BY <1>1, <2>1, <3>2, <4>1
    <3>5. QED
      BY <3>3, <3>4
  <2>3. CASE Goto(r, "failed") /\ UNCHANGED lobby
    <3>1. /\ \A x \in Request \ {r} : request'[x] = request[x]
          /\ request'[r].pc = "failed"
      BY <1>0, <2>3 DEF Goto, RequestRecord
    <3>2. QED
      BY <1>1, <1>2, <2>1, <2>3, <3>1
  <2>4. QED
    BY <1>8, <2>2, <2>3 DEF AddPlayer, Target
<1>9. ASSUME NEW r \in Request, PublishJoined(r) \/ PublishStarting(r) PROVE Bound(l)'
  <2>1. /\ \A x \in Request \ {r} : request'[x] = request[x]
        /\ request'[r].pc \in {"check", "ok", "failed"}
    BY <1>0, <1>9 DEF PublishJoined, PublishStarting, Goto, GotoWith, RequestRecord
  <2>2. lobby' = lobby /\ live' = live
    BY <1>9 DEF PublishJoined, PublishStarting
  <2>3. QED
    BY <1>1, <1>2, <2>1, <2>2
<1>10. ASSUME NEW r \in Request, CheckAndStart(r) PROVE Bound(l)'
  <2> DEFINE k == request[r].lobby
             started == Touched(MarkedStarting(lobby[k]))
  <2>1. live' = live /\ k \in LobbyId
    BY <1>0, <1>10 DEF CheckAndStart, RequestsTyped
  <2>2. /\ \A x \in Request \ {r} : request'[x] = request[x]
        /\ request'[r].pc \in {"publish_starting", "ok", "failed"}
    BY <1>0, <1>10 DEF CheckAndStart, Goto, GotoWith, RequestRecord
  <2>3. JoiningLobby(l)' \subseteq JoiningLobby(l)
    BY <1>2, <2>2
  <2>4. CASE lobby' = [lobby EXCEPT ![k] = started] /\ l = k
    <3>1. lobby[l] \in LobbyRecord /\ lobby'[l] = Touched(MarkedStarting(lobby[l]))
      BY <1>0, <2>4
    <3>2. lobby'[l].type = lobby[l].type /\ lobby'[l].queue = lobby[l].queue
      BY <3>1, MarkedStartingProperties
    <3>3. Len(lobby'[l].queue) <= Len(lobby[l].queue)
      BY <3>1, <3>2, BoundTypes
    <3>4. Bound(l)
      BY <2>1 DEF OverflowBounded, Bound
    <3>5. QED
      BY <1>0, <2>3, <3>2, <3>3, <3>4, BoundKept
  <2>5. CASE lobby' = [lobby EXCEPT ![k] = started] /\ l # k
    BY <1>0, <1>1, <2>1, <2>3, <2>5
  <2>6. CASE UNCHANGED lobby
    BY <1>1, <2>1, <2>3, <2>6
  <2>7. QED
    BY <1>10, <2>4, <2>5, <2>6 DEF CheckAndStart, Target
<1>11. ASSUME NEW p \in Leavers, RemovePlayer(p) PROVE Bound(l)'
  <2>1. PICK k \in live :
          /\ InQueue(lobby[k], p)
          /\ lobby' = [lobby EXCEPT ![k] = Touched(WithoutPlayer(lobby[k], p))]
    BY <1>11 DEF RemovePlayer
  <2>2. live' = live /\ JoiningLobby(l)' = JoiningLobby(l)
    BY <1>3, <1>11 DEF RemovePlayer
  <2>3. CASE l = k
    <3>1. /\ lobby[l] \in LobbyRecord
          /\ Sorted(lobby[l])
          /\ InQueue(lobby[l], p)
          /\ lobby'[l] = Touched(WithoutPlayer(lobby[l], p))
      BY <1>0, <2>1, <2>3 DEF TypeInv, QueuesSorted
    <3>2. /\ lobby'[l].type = lobby[l].type
          /\ Len(lobby'[l].queue) = Len(lobby[l].queue) - 1
      BY <3>1, WithoutPlayerProperties
    <3>3. Len(lobby'[l].queue) <= Len(lobby[l].queue)
      BY <3>1, <3>2, BoundTypes
    <3>4. Bound(l)
      BY <2>2 DEF OverflowBounded, Bound
    <3>5. QED
      BY <1>0, <2>2, <3>2, <3>3, <3>4, BoundKept
  <2>4. CASE l # k
    BY <1>0, <1>1, <2>1, <2>2, <2>4
  <2>5. QED
    BY <2>3, <2>4
<1>12. ASSUME CleanupScan \/ CleanupRemove \/ UNCHANGED vars PROVE Bound(l)'
  <2>1. l \in live /\ lobby' = lobby /\ request' = request
    BY <1>12 DEF CleanupScan, CleanupRemove, vars
  <2>2. QED
    BY <1>1, <1>3, <2>1
<1>13. ASSUME NEW k \in Idlers, FallIdle(k) PROVE Bound(l)'
  <2>1. live' = live /\ JoiningLobby(l)' = JoiningLobby(l)
    BY <1>3, <1>13 DEF FallIdle
  <2>2. lobby[l] \in LobbyRecord /\ lobby' = [lobby EXCEPT ![k] = [lobby[k] EXCEPT !.idle = TRUE]]
    BY <1>0, <1>13 DEF FallIdle
  <2>3. lobby'[l].type = lobby[l].type /\ lobby'[l].queue = lobby[l].queue
    BY <1>0, <2>2 DEF LobbyRecord
  <2>4. Len(lobby'[l].queue) <= Len(lobby[l].queue)
    BY <2>2, <2>3, BoundTypes
  <2>5. Bound(l)
    BY <2>1 DEF OverflowBounded, Bound
  <2>6. QED
    BY <1>0, <2>1, <2>3, <2>4, <2>5, BoundKept
<1>14. QED
  BY <1>4, <1>5, <1>6, <1>7, <1>8, <1>9, <1>10, <1>11, <1>12, <1>13 DEF Next, Handle

\* A lobby is never filled beyond its capacity by more than the number of
\* handlers that run besides the one that fills it: with one consumer, never.
THEOREM LobbiesStayBounded == Spec => []OverflowBounded
<1>1. Init => OverflowBounded /\ HandlersBounded
  <2> SUFFICES ASSUME Init PROVE OverflowBounded /\ HandlersBounded
    OBVIOUS
  <2>1. InFlight = {}
    BY DEF Init, InFlight, Unsent, Pending, Searching, Joining, Joined
  <2>2. Cardinality(InFlight) = 0
    BY <2>1, FS_EmptySet
  <2>3. QED
    BY <2>2, ManagerAssumption DEF Init, OverflowBounded, HandlersBounded
<1>2. TypeInv /\ TypeInv' /\ OverflowBounded /\ HandlersBounded /\ [Next]_vars
         => OverflowBounded' /\ HandlersBounded'
  <2> SUFFICES ASSUME TypeInv, TypeInv', OverflowBounded, HandlersBounded, [Next]_vars
               PROVE  OverflowBounded' /\ HandlersBounded'
    OBVIOUS
  <2>1. HandlersBounded'
    BY HandlersStayBounded
  <2>2. \A l \in live' : Bound(l)'
    BY <2>1, BoundStep
  <2>3. QED
    BY <2>1, <2>2 DEF OverflowBounded, Bound
<1>3. QED
  BY <1>1, <1>2, TypeInvariant, PTL DEF Spec

(***************************************************************************)
(* The start of a game.  Two handlers may both see a lobby ReadyToStart; its *)
(* game is announced once.  The invariant counts the announcements that    *)
(* have been made together with the requests that are about to make one,   *)
(* and ties both to the state Starting, which mark_starting sets under the *)
(* lock of the check.                                                      *)
(***************************************************************************)

Announced(l) == {e \in EventsOf("GameStarting") : e.lobby = l}

\* A lobby has at most one game, being published or published, and none before
\* its state says so; a lobby that is not created yet has not started.
Once(l) ==
    /\ IsFiniteSet(published)
    /\ Cardinality(Starters(l)) + Cardinality(Announced(l)) <= 1
    /\ lobby[l].state # "Starting" => Starters(l) = {} /\ Announced(l) = {}
    /\ l \notin issued => lobby[l].state # "Starting"

OnceInv == \A l \in LobbyId : Once(l)

\* The starters and the announced games of a lobby can be counted.
LEMMA OnceTypes ==
    ASSUME NEW l, IsFiniteSet(published)
    PROVE  /\ IsFiniteSet(Starters(l))
           /\ Cardinality(Starters(l)) \in Nat
           /\ IsFiniteSet(Announced(l))
           /\ Cardinality(Announced(l)) \in Nat
<1>1. Starters(l) \subseteq Request /\ Announced(l) \subseteq published
  BY DEF Starters, Announced, EventsOf
<1>2. IsFiniteSet(Announced(l))
  BY <1>1, FS_Subset
<1>3. QED
  BY <1>1, <1>2, RequestSets, FS_CardinalityType

\* Neither a starter nor an event more.
LEMMA OnceKept ==
    ASSUME IsFiniteSet(published'), NEW l, Once(l),
           Starters(l)' \subseteq Starters(l),
           Announced(l)' \subseteq Announced(l),
           lobby[l].state = "Starting" => lobby'[l].state = "Starting",
           l \notin issued' => lobby'[l].state # "Starting"
    PROVE  Once(l)'
<1>1. /\ IsFiniteSet(Starters(l))
      /\ IsFiniteSet(Announced(l))
      /\ Cardinality(Starters(l)) \in Nat
      /\ Cardinality(Announced(l)) \in Nat
  BY OnceTypes DEF Once
<1>2. /\ Cardinality(Starters(l)') \in Nat
      /\ Cardinality(Announced(l)') \in Nat
  <2>1. IsFiniteSet(Starters(l)') /\ IsFiniteSet(Announced(l)')
    BY <1>1, FS_Subset
  <2>2. QED
    BY <2>1, FS_CardinalityType
<1>3. Cardinality(Starters(l)') <= Cardinality(Starters(l))
  BY <1>1, FS_Subset
<1>4. Cardinality(Announced(l)') <= Cardinality(Announced(l))
  BY <1>1, FS_Subset
<1>5. QED
  BY <1>1, <1>2, <1>3, <1>4 DEF Once

\* A step keeps a starting lobby starting, and starts none that is not created.
LEMMA StartingKept ==
    ASSUME TypeInv, OnceInv, [Next]_vars, NEW l \in LobbyId
    PROVE  /\ lobby[l].state = "Starting" => lobby'[l].state = "Starting"
           /\ l \notin issued' => lobby'[l] = lobby[l]
<1>1. CASE l \in issued
  <2>1. LobbyChange(l) /\ l \in issued'
    BY <1>1, LobbyChanges
  <2>2. ~Open(lobby[l]) => lobby'[l].state = lobby[l].state
    BY <1>1, <2>1, LobbyChangeProperties
  <2>3. QED
    BY <2>1, <2>2 DEF Open
<1>2. CASE l \notin issued
  <2>1. lobby[l].state # "Starting"
    BY <1>2 DEF OnceInv, Once
  <2>2. l \notin issued' => lobby'[l] = lobby[l]
    BY LobbyChanges
  <2>3. QED
    BY <2>1, <2>2
<1>3. QED
  BY <1>1, <1>2

\* Every operation keeps OnceInv.
LEMMA OnceStep ==
    ASSUME TypeInv, OnceInv, [Next]_vars, NEW l \in LobbyId
    PROVE  Once(l)'
<1>0. /\ request \in [Request -> RequestRecord]
      /\ lobby \in [LobbyId -> LobbyRecord]
      /\ issued \subseteq LobbyId
      /\ RequestsTyped
      /\ IsFiniteSet(published)
      /\ Once(l)
      /\ lobby[l].state = "Starting" => lobby'[l].state = "Starting"
      /\ l \notin issued' => lobby'[l].state # "Starting"
  <2>1. /\ lobby[l].state = "Starting" => lobby'[l].state = "Starting"
        /\ l \notin issued' => lobby'[l] = lobby[l]
    BY StartingKept
  <2>2. issued \subseteq issued'
    BY LobbyChanges
  <2>3. QED
    BY <2>1, <2>2, TypeParts DEF OnceInv, Once, RequestsTyped
<1>1. ASSUME published' = published, Starters(l)' \subseteq Starters(l) PROVE Once(l)'
  <2>1. Announced(l)' \subseteq Announced(l)
    BY <1>1 DEF Announced, EventsOf
  <2>2. QED
    BY <1>0, <1>1, <2>1, OnceKept
\* A step of a request that is not about to publish a game afterwards.
<1>2. ASSUME NEW r \in Request, \A x \in Request \ {r} : request'[x] = request[x],
             request'[r].pc # "publish_starting"
      PROVE  Starters(l)' \subseteq Starters(l) \ {r}
  BY <1>2 DEF Starters
<1>3. ASSUME request' = request, published' = published PROVE Once(l)'
  <2>1. Starters(l)' \subseteq Starters(l)
    BY <1>3 DEF Starters
  <2>2. QED
    BY <1>1, <1>3, <2>1
<1>4. ASSUME NEW r \in Request,
             Receive(r) \/ FindLobby(r) \/ CreateLobby(r) \/ CountLobby(r) \/ AddPlayer(r)
      PROVE  Once(l)'
  <2>1. /\ \A x \in Request \ {r} : request'[x] = request[x]
        /\ request'[r].pc # "publish_starting"
    <3>1. CASE Receive(r)
      <4>1. PICK o \in Offers :
                request' = [request EXCEPT ![r].pc = "find", ![r].player = o.player,
                                           ![r].lobby_type = o.lobby_type]
        BY <3>1 DEF Receive
      <4>2. QED
        BY <1>0, <4>1 DEF RequestRecord
    <3>2. CASE FindLobby(r)
      BY <1>0, <3>2 DEF FindLobby, Goto, RequestRecord
    <3>3. CASE CreateLobby(r)
      BY <1>0, <3>3 DEF CreateLobby, RequestRecord
    <3>4. CASE CountLobby(r)
      BY <1>0, <3>4 DEF CountLobby, Goto, RequestRecord
    <3>5. CASE AddPlayer(r)
      BY <1>0, <3>5 DEF AddPlayer, Goto, GotoWith, RequestRecord
    <3>6. QED
      BY <1>4, <3>1, <3>2, <3>3, <3>4, <3>5
  <2>2. published' = published
    BY <1>4 DEF Receive, FindLobby, CreateLobby, CountLobby, AddPlayer
  <2>3. QED
    BY <1>1, <1>2, <2>1, <2>2
<1>5. ASSUME NEW r \in Request, PublishJoined(r) PROVE Once(l)'
  <2>1. /\ \A x \in Request \ {r} : request'[x] = request[x]
        /\ request'[r].pc \in {"check", "failed"}
    BY <1>0, <1>5 DEF PublishJoined, Goto, GotoWith, RequestRecord
  <2>2. Starters(l)' \subseteq Starters(l)
    BY <1>2, <2>1
  <2>3. ASSUME NEW e, e.kind = "PlayerJoinedLobby", published' = published \cup {e}
        PROVE  Once(l)'
    <3>1. IsFiniteSet(published')
      BY <1>0, <2>3, FS_AddElement
    <3>2. Announced(l)' \subseteq Announced(l)
      BY <2>3 DEF Announced, EventsOf
    <3>3. QED
      BY <1>0, <2>2, <3>1, <3>2, OnceKept
  <2>4. CASE published' = published \cup
                {[kind |-> "PlayerJoinedLobby", lobby |-> request[r].lobby,
                  player |-> request[r].player, players |-> request[r].roster]}
    <3> DEFINE e == [kind |-> "PlayerJoinedLobby", lobby |-> request[r].lobby,
                     player |-> request[r].player, players |-> request[r].roster]
    <3>1. e.kind = "PlayerJoinedLobby" /\ published' = published \cup {e}
      BY <2>4
    <3> HIDE DEF e
    <3>2. QED
      BY <2>3, <3>1
  <2>5. QED
    BY <1>1, <1>5, <2>2, <2>4 DEF PublishJoined
<1>6. ASSUME NEW r \in Request, CheckAndStart(r) PROVE Once(l)'
  <2> DEFINE k == request[r].lobby
             started == Touched(MarkedStarting(lobby[k]))
  <2>1. k \in LobbyId /\ published' = published
    BY <1>0, <1>6 DEF CheckAndStart, RequestsTyped, Joined
  <2>2. CASE Goto(r, "ok") \/ Goto(r, "failed")
    <3>1. /\ \A x \in Request \ {r} : request'[x] = request[x]
          /\ request'[r].pc \in {"ok", "failed"}
      BY <1>0, <2>2 DEF Goto, RequestRecord
    <3>2. QED
      BY <1>1, <1>2, <2>1, <3>1
  <2>3. CASE /\ ShouldStart(lobby[k])
             /\ lobby' = [lobby EXCEPT ![k] = started]
             /\ GotoWith(r, "publish_starting", ActivePlayers(lobby[k]))
    <3>1. /\ \A x \in Request \ {r} : request'[x] = request[x]
          /\ request'[r].lobby = k
      BY <1>0, <2>3 DEF GotoWith, RequestRecord
    <3>2. CASE l # k
      <4>1. Starters(l)' \subseteq Starters(l)
        BY <3>1, <3>2 DEF Starters
      <4>2. QED
        BY <1>1, <2>1, <4>1
    <3>3. CASE l = k
      <4>1. /\ lobby[l] \in LobbyRecord
            /\ lobby'[l] = Touched(MarkedStarting(lobby[l]))
            /\ lobby[l].state = "ReadyToStart"
        BY <1>0, <2>3, <3>3 DEF ShouldStart
      <4>2. lobby'[l].state = "Starting"
        BY <4>1, MarkedStartingProperties
      <4>3. Starters(l) = {} /\ Announced(l) = {}
        BY <1>0, <4>1 DEF Once
      <4>4. Starters(l)' \subseteq {r}
        BY <3>1, <4>3 DEF Starters
      <4>5. Announced(l)' = {}
        BY <2>1, <4>3 DEF Announced, EventsOf
      <4>6. Cardinality(Starters(l)') \in {0, 1} /\ Cardinality(Announced(l)') = 0
        <5>1. Starters(l)' = {} \/ Starters(l)' = {r}
          BY <4>4
        <5>2. QED
          BY <4>5, <5>1, FS_EmptySet, FS_Singleton
      <4>7. QED
        BY <1>0, <2>1, <4>2, <4>6 DEF Once
    <3>4. QED
      BY <3>2, <3>3
  <2>4. QED
    BY <1>6, <2>2, <2>3 DEF CheckAndStart, Target
<1>7. ASSUME NEW r \in Request, PublishStarting(r) PROVE Once(l)'
  <2> DEFINE k == request[r].lobby
             e == [kind |-> "GameStarting", lobby |-> k, players |-> request[r].roster]
  <2>1. /\ \A x \in Request \ {r} : request'[x] = request[x]
        /\ request'[r].pc \in {"ok", "failed"}
        /\ request[r].pc = "publish_starting"
        /\ k \in LobbyId
    BY <1>0, <1>7 DEF PublishStarting, Goto, GotoWith, RequestRecord, RequestsTyped, Joined
  <2>2. Starters(l)' \subseteq Starters(l) \ {r}
    BY <1>2, <2>1
  <2>3. CASE published' = published
    BY <1>1, <2>2, <2>3
  <2>4. CASE published' = published \cup {e}
    <3>1. IsFiniteSet(published')
      BY <1>0, <2>4, FS_AddElement
    <3>2. e.lobby = k
      OBVIOUS
    <3> HIDE DEF e
    <3>3. CASE l # k
      <4>1. Announced(l)' \subseteq Announced(l)
        BY <2>4, <3>2, <3>3 DEF Announced, EventsOf
      <4>2. Starters(l)' \subseteq Starters(l)
        BY <2>2
      <4>3. QED
        BY <1>0, <3>1, <4>1, <4>2, OnceKept
    <3>4. CASE l = k
      <4>1. r \in Starters(l)
        BY <2>1, <3>4 DEF Starters
      <4>2. Announced(l)' \subseteq Announced(l) \cup {e}
        BY <2>4 DEF Announced, EventsOf
      <4>3. /\ IsFiniteSet(Starters(l))
            /\ IsFiniteSet(Announced(l))
            /\ Cardinality(Starters(l)) \in Nat
            /\ Cardinality(Announced(l)) \in Nat
        BY <1>0, OnceTypes
      <4>4. Cardinality(Starters(l)) # 0
        BY <4>1, <4>3, FS_EmptySet
      <4>5. Cardinality(Starters(l)) = 1 /\ Cardinality(Announced(l)) = 0
        BY <1>0, <4>3, <4>4 DEF Once
      <4>6. Announced(l) = {}
        BY <4>3, <4>5, FS_EmptySet
      <4>7. Starters(l) = {r}
        <5>1. PICK x : Starters(l) = {x}
          BY <4>3, <4>5, FS_Singleton
        <5>2. QED
          BY <4>1, <5>1
      <4>8. Starters(l)' = {}
        BY <2>2, <4>7
      <4>9. Announced(l)' = {} \/ Announced(l)' = {e}
        BY <4>2, <4>6
      <4>10. Cardinality(Starters(l)') = 0 /\ Cardinality(Announced(l)') \in {0, 1}
        BY <4>8, <4>9, FS_EmptySet, FS_Singleton
      <4>11. lobby'[l].state = "Starting"
        BY <1>0, <4>1 DEF Once
      <4>12. QED
        BY <1>0, <3>1, <4>10, <4>11 DEF Once
    <3>5. QED
      BY <3>3, <3>4
  <2>5. QED
    BY <1>7, <2>3, <2>4 DEF PublishStarting
<1>8. QED
  BY <1>3, <1>4, <1>5, <1>6, <1>7
     DEF Next, Handle, RemovePlayer, CleanupScan, CleanupRemove, FallIdle, vars

\* At first no game is announced or about to be.
LEMMA OnceInit ==
    ASSUME Init
    PROVE  OnceInv
<1> SUFFICES ASSUME NEW l \in LobbyId PROVE Once(l)
  BY DEF OnceInv
<1>1. published = {} /\ IsFiniteSet(published)
  BY FS_EmptySet DEF Init
<1>2. Starters(l) = {} /\ Announced(l) = {}
  BY <1>1 DEF Init, Starters, Announced, EventsOf, Unsent
<1>3. lobby[l].state = "WaitingForPlayers"
  BY DEF Init, NewLobby
<1>4. QED
  BY <1>1, <1>2, <1>3, FS_EmptySet DEF Once

\* However many handlers see a lobby ReadyToStart, its game is announced once.
THEOREM GamesStartOnce == Spec => []StartedOnce
<1>1. Init => OnceInv
  BY OnceInit
<1>2. TypeInv /\ OnceInv /\ [Next]_vars => OnceInv'
  BY OnceStep DEF OnceInv
<1>3. OnceInv => StartedOnce
  BY DEF OnceInv, Once, StartedOnce, Announced
<1>4. QED
  BY <1>1, <1>2, <1>3, TypeInvariant, PTL DEF Spec
-----------------------------------------------------------------------------
(***************************************************************************)
(* Who plays a game.  A lobby's queue holds nobody twice and nobody its    *)
(* type does not admit, so its active players make a team; what a handler  *)
(* copied when it started the game stays one, whatever happens to the      *)
(* queue before the event is published.                                    *)
(***************************************************************************)

\* add_player brings its player, once, and nobody else.
LEMMA WithPlayerMembers ==
    ASSUME NEW l \in LobbyRecord, Sorted(l), NEW p \in Player
    PROVE  LET m == Touched(WithPlayer(l, p)) IN
           /\ m.type = l.type
           /\ \A x : InQueue(m, x) <=> x = p \/ InQueue(l, x)
           /\ QueuedOnce(l) /\ ~InQueue(l, p) => QueuedOnce(m)
<1> DEFINE k == [l EXCEPT !.queue = Enqueue(l, p)]
           u == UpdateState(k)
           m == Touched(u)
<1>1. k.type = l.type /\ k.queue = Enqueue(l, p) /\ k.state = l.state
  BY DEF LobbyRecord
<1> HIDE DEF k
<1>2. /\ k.queue \in Seq(Player)
      /\ \A x : InQueue(k, x) <=> x = p \/ InQueue(l, x)
      /\ QueuedOnce(l) /\ ~InQueue(l, p) => QueuedOnce(k)
  <2>1. IsLobby(l)
    BY RecordIsLobby
  <2>2. k.queue \in Seq(Player) /\ (QueuedOnce(l) /\ ~InQueue(l, p) => QueuedOnce(k))
    BY <1>1, <2>1, EnqueueProperties
  <2>3. \A x : InQueue(k, x) <=> x = p \/ InQueue(l, x)
    BY <1>1, <2>1, EnqueueOrder
  <2>4. QED
    BY <2>2, <2>3
<1>3. k \in LobbyRecord
  BY <1>1, <1>2 DEF LobbyRecord, k
<1>4. u \in LobbyRecord /\ u.type = k.type /\ u.queue = k.queue
  BY <1>3, UpdateStateProperties
<1> HIDE DEF u
<1>5. m.type = k.type /\ m.queue = k.queue
  BY <1>4, TouchedProperties
<1>6. m = Touched(WithPlayer(l, p))
  BY DEF WithPlayer, k, u
<1> HIDE DEF m
<1>7. /\ \A x : InQueue(m, x) <=> InQueue(k, x)
      /\ QueuedOnce(m) <=> QueuedOnce(k)
  BY <1>5 DEF InQueue, QueuedOnce
<1>8. QED
  BY <1>1, <1>2, <1>5, <1>6, <1>7

\* remove_player takes its player away, and nobody else.
LEMMA WithoutPlayerMembers ==
    ASSUME NEW l \in LobbyRecord, Sorted(l), NEW p, InQueue(l, p)
    PROVE  LET m == Touched(WithoutPlayer(l, p)) IN
           /\ m.type = l.type
           /\ \A x : InQueue(m, x) => InQueue(l, x)
           /\ \A x : x # p /\ InQueue(l, x) => InQueue(m, x)
           /\ QueuedOnce(l) => QueuedOnce(m) /\ ~InQueue(m, p)
<1> DEFINE k == [l EXCEPT !.queue = Dequeue(l, p)]
           u == UpdateState(k)
           m == Touched(u)
<1>1. k.type = l.type /\ k.queue = Dequeue(l, p) /\ k.state = l.state
  BY DEF LobbyRecord
<1> HIDE DEF k
<1>2. /\ k.queue \in Seq(Player)
      /\ \A x : InQueue(k, x) => InQueue(l, x)
      /\ \A x : x # p /\ InQueue(l, x) => InQueue(k, x)
      /\ QueuedOnce(l) => QueuedOnce(k) /\ ~InQueue(k, p)
  <2>1. IsLobby(l)
    BY RecordIsLobby
  <2>2. k.queue \in Seq(Player) /\ (QueuedOnce(l) => QueuedOnce(k))
    BY <1>1, <2>1, DequeueProperties
  <2>3. /\ \A x : InQueue(k, x) => InQueue(l, x)
        /\ \A x : x # p /\ InQueue(l, x) => InQueue(k, x)
        /\ QueuedOnce(l) => ~InQueue(k, p)
    BY <1>1, <2>1, DequeueOrder
  <2>4. QED
    BY <2>2, <2>3
<1>3. k \in LobbyRecord
  BY <1>1, <1>2 DEF LobbyRecord, k
<1>4. u \in LobbyRecord /\ u.type = k.type /\ u.queue = k.queue
  BY <1>3, UpdateStateProperties
<1> HIDE DEF u
<1>5. m.type = k.type /\ m.queue = k.queue
  BY <1>4, TouchedProperties
<1>6. m = Touched(WithoutPlayer(l, p))
  BY DEF WithoutPlayer, k, u
<1> HIDE DEF m
<1>7. /\ \A x : InQueue(m, x) <=> InQueue(k, x)
      /\ QueuedOnce(m) <=> QueuedOnce(k)
  BY <1>5 DEF InQueue, QueuedOnce
<1>8. QED
  BY <1>1, <1>2, <1>5, <1>6, <1>7

\* The players q could play a game of type t: GamesArePlayable for one game.
IsGame(t, q) ==
    /\ Len(q) = Config[t].capacity
    /\ \A i, j \in 1..Len(q) : q[i] = q[j] => i = j
    /\ t = "AllBot" => \A i \in 1..Len(q) : q[i] \notin Human

\* The queue of a lobby holds nobody twice and nobody its type does not admit.
Admits(l) ==
    /\ QueuedOnce(l)
    /\ \A x : InQueue(l, x) => AllowsPlayerType(l.type, x)

\* The active players of a full lobby can play.
LEMMA ActivePlayersPlay ==
    ASSUME NEW l \in LobbyRecord, Admits(l), IsFull(l)
    PROVE  IsGame(l.type, ActivePlayers(l))
<1> DEFINE q == ActivePlayers(l)
<1>1. /\ q \in Seq(Player)
      /\ Len(q) = Capacity(l)
      /\ Len(q) <= Len(l.queue)
      /\ \A i \in 1..Len(q) : q[i] = l.queue[i]
  BY RecordIsLobby, ActivePlayersProperties
<1> HIDE DEF q
<1>2. \A i \in 1..Len(q) : i \in 1..Len(l.queue)
  BY <1>1 DEF LobbyRecord
<1>3. \A i, j \in 1..Len(q) : q[i] = q[j] => i = j
  BY <1>1, <1>2 DEF Admits, QueuedOnce
<1>4. \A i \in 1..Len(q) : InQueue(l, q[i])
  BY <1>1, <1>2 DEF InQueue
<1>5. l.type = "AllBot" => \A i \in 1..Len(q) : q[i] \notin Human
  BY <1>4 DEF Admits, AllowsPlayerType
<1>6. QED
  BY <1>1, <1>3, <1>5 DEF IsGame, Capacity, q

\* What the queue of lobby l owes to its history; an id that was not generated
\* yet holds the lobby of Init.
QueueInv(l) ==
    /\ Admits(lobby[l])
    /\ l \notin issued => lobby[l] = NewLobby("General")

\* The roster of a request that is about to publish a game.
RostersPlayable ==
    \A r \in Request :
        request[r].pc = "publish_starting" =>
            IsGame(lobby[request[r].lobby].type, request[r].roster)

PlayInv == (\A l \in LobbyId : QueueInv(l)) /\ RostersPlayable /\ GamesArePlayable

\* GamesArePlayable by IsGame.
LEMMA GamesByIsGame ==
    GamesArePlayable <=>
        \A e \in EventsOf("GameStarting") : IsGame(lobby[e.lobby].type, e.players)
  BY DEF GamesArePlayable, IsGame, Capacity

\* A new lobby admits, having nobody.
LEMMA NewLobbyAdmits ==
    ASSUME NEW t \in LobbyType
    PROVE  Admits(NewLobby(t))
<1>1. NewLobby(t).queue = <<>> /\ Len(<<>>) = 0 /\ 1..0 = {}
  BY NewLobbyProperties
<1>2. QED
  BY <1>1 DEF Admits, QueuedOnce, InQueue

\* The type of a lobby is settled when it is created.
LEMMA TypeKept ==
    ASSUME TypeInv, [Next]_vars, NEW l \in issued
    PROVE  lobby'[l].type = lobby[l].type
<1>1. lobby[l] \in LobbyRecord /\ Sorted(lobby[l]) /\ LobbyChange(l)
  BY TypeParts, LobbyChanges DEF QueuesSorted
<1>2. ASSUME NEW p \in Player, lobby'[l] = Touched(WithPlayer(lobby[l], p))
      PROVE  lobby'[l].type = lobby[l].type
  BY <1>1, <1>2, WithPlayerMembers
<1>3. ASSUME NEW p, InQueue(lobby[l], p), lobby'[l] = Touched(WithoutPlayer(lobby[l], p))
      PROVE  lobby'[l].type = lobby[l].type
  BY <1>1, <1>3, WithoutPlayerMembers
<1>4. CASE lobby'[l] = Touched(MarkedStarting(lobby[l]))
  BY <1>1, <1>4, MarkedStartingProperties
<1>5. CASE lobby'[l] = [lobby[l] EXCEPT !.idle = TRUE]
  BY <1>1, <1>5 DEF LobbyRecord
<1>6. QED
  BY <1>1, <1>2, <1>3, <1>4, <1>5 DEF LobbyChange

\* Every operation keeps QueueInv.
LEMMA QueueStep ==
    ASSUME TypeInv, [Next]_vars, NEW l \in LobbyId, QueueInv(l)
    PROVE  QueueInv(l)'
<1> DEFINE old == lobby[l]
           new == lobby'[l]
<1>1. /\ old \in LobbyRecord
      /\ Sorted(old)
      /\ Admits(old)
      /\ issued \subseteq issued'
  BY TypeParts, LobbyChanges DEF QueuesSorted, QueueInv
<1>2. CASE l \in issued
  <2>1. LobbyChange(l) /\ l \in issued'
    BY <1>1, <1>2, LobbyChanges
  <2> HIDE DEF old, new
  <2>2. ASSUME NEW p \in Player, CanAdd(old, p), new = Touched(WithPlayer(old, p))
        PROVE  Admits(new)
    <3>1. /\ new.type = old.type
          /\ \A x : InQueue(new, x) <=> x = p \/ InQueue(old, x)
          /\ QueuedOnce(old) /\ ~InQueue(old, p) => QueuedOnce(new)
      BY <1>1, <2>2, WithPlayerMembers
    <3>2. QED
      BY <1>1, <2>2, <3>1 DEF Admits, CanAdd
  <2>3. ASSUME NEW p \in Player, InQueue(old, p), new = Touched(WithoutPlayer(old, p))
        PROVE  Admits(new)
    <3>1. /\ new.type = old.type
          /\ \A x : InQueue(new, x) => InQueue(old, x)
          /\ QueuedOnce(old) => QueuedOnce(new)
      BY <1>1, <2>3, WithoutPlayerMembers
    <3>2. QED
      BY <1>1, <3>1 DEF Admits
  <2>4. ASSUME new.type = old.type, new.queue = old.queue PROVE Admits(new)
    BY <1>1, <2>4 DEF Admits, QueuedOnce, InQueue
  <2>5. ASSUME new = Touched(MarkedStarting(old)) PROVE Admits(new)
    BY <1>1, <2>4, <2>5, MarkedStartingProperties
  <2>6. ASSUME new = [old EXCEPT !.idle = TRUE] PROVE Admits(new)
    <3>1. new.type = old.type /\ new.queue = old.queue
      BY <1>1, <2>6 DEF LobbyRecord
    <3>2. QED
      BY <2>4, <3>1
  <2>7. QED
    BY <1>1, <2>1, <2>2, <2>3, <2>5, <2>6 DEF LobbyChange, QueueInv, old, new
<1>3. CASE l \in issued' \ issued
  <2>1. PICK t \in LobbyType : new = NewLobby(t)
    BY <1>3, LobbyChanges
  <2>2. QED
    BY <1>3, <2>1, NewLobbyAdmits DEF QueueInv
<1>4. CASE l \notin issued'
  <2>1. new = old /\ l \notin issued
    BY <1>1, <1>4, LobbyChanges
  <2>2. QED
    BY <1>1, <2>1 DEF QueueInv
<1>5. QED
  BY <1>2, <1>3, <1>4

\* A request that is about to publish a game was so before the step, or has
\* just started the game of its lobby.
LEMMA StarterStep ==
    ASSUME TypeInv, [Next]_vars, NEW r \in Request,
           request'[r].pc = "publish_starting"
    PROVE  \/ request'[r] = request[r]
           \/ /\ request[r].lobby \in issued
              /\ request'[r].lobby = request[r].lobby
              /\ ShouldStart(Target(r))
              /\ request'[r].roster = ActivePlayers(Target(r))
<1> DEFINE Goal == \/ request'[r] = request[r]
                   \/ /\ request[r].lobby \in issued
                      /\ request'[r].lobby = request[r].lobby
                      /\ ShouldStart(Target(r))
                      /\ request'[r].roster = ActivePlayers(Target(r))
<1>0. request \in [Request -> RequestRecord] /\ RequestsTyped
  BY TypeParts DEF RequestsTyped
<1>1. ASSUME NEW x \in Request, Receive(x) PROVE Goal
  <2>1. PICK o \in Offers :
            request' = [request EXCEPT ![x].pc = "find", ![x].player = o.player,
                                       ![x].lobby_type = o.lobby_type]
    BY <1>1 DEF Receive
  <2>2. QED
    BY <1>0, <2>1 DEF RequestRecord
<1>2. ASSUME NEW x \in Request, FindLobby(x) PROVE Goal
  BY <1>0, <1>2 DEF FindLobby, Goto, RequestRecord
<1>3. ASSUME NEW x \in Request, CreateLobby(x) PROVE Goal
  BY <1>0, <1>3 DEF CreateLobby, RequestRecord
<1>4. ASSUME NEW x \in Request, CountLobby(x) PROVE Goal
  BY <1>0, <1>4 DEF CountLobby, Goto, RequestRecord
<1>5. ASSUME NEW x \in Request, AddPlayer(x) PROVE Goal
  BY <1>0, <1>5 DEF AddPlayer, Goto, GotoWith, RequestRecord
<1>6. ASSUME NEW x \in Request, PublishJoined(x) \/ PublishStarting(x) PROVE Goal
  BY <1>0, <1>6 DEF PublishJoined, PublishStarting, Goto, GotoWith, RequestRecord
<1>7. ASSUME NEW x \in Request, CheckAndStart(x) PROVE Goal
  <2>1. CASE x = r
    <3>1. request[r].lobby \in issued
      BY <1>0, <1>7, <2>1 DEF CheckAndStart, RequestsTyped, Joined
    <3>2. CASE /\ ShouldStart(Target(r))
               /\ GotoWith(r, "publish_starting", ActivePlayers(Target(r)))
      <4>1. /\ request'[r].lobby = request[r].lobby
            /\ request'[r].roster = ActivePlayers(Target(r))
        BY <1>0, <3>2 DEF GotoWith, RequestRecord
      <4>2. QED
        BY <3>1, <3>2, <4>1
    <3>3. CASE Goto(r, "ok") \/ Goto(r, "failed")
      BY <1>0, <3>3 DEF Goto, RequestRecord
    <3>4. QED
      BY <1>7, <2>1, <3>2, <3>3 DEF CheckAndStart
  <2>2. CASE x # r
    BY <1>0, <1>7, <2>2 DEF CheckAndStart, Goto, GotoWith
  <2>3. QED
    BY <2>1, <2>2
<1>8. ASSUME request' = request PROVE Goal
  BY <1>8
<1>9. QED
  BY <1>1, <1>2, <1>3, <1>4, <1>5, <1>6, <1>7, <1>8
     DEF Next, Handle, RemovePlayer, CleanupScan, CleanupRemove, FallIdle, vars

\* A game is announced by a request that was about to publish it.
LEMMA AnnouncementStep ==
    ASSUME TypeInv, [Next]_vars, NEW e \in EventsOf("GameStarting")'
    PROVE  \/ e \in EventsOf("GameStarting")
           \/ \E r \in Request :
                 /\ request[r].pc = "publish_starting"
                 /\ e.lobby = request[r].lobby
                 /\ e.players = request[r].roster
<1> DEFINE Goal == \/ e \in EventsOf("GameStarting")
                   \/ \E r \in Request :
                         /\ request[r].pc = "publish_starting"
                         /\ e.lobby = request[r].lobby
                         /\ e.players = request[r].roster
<1>1. e \in published' /\ e.kind = "GameStarting"
  BY DEF EventsOf
<1>2. ASSUME published' = published PROVE Goal
  BY <1>1, <1>2 DEF EventsOf
<1>3. ASSUME NEW r \in Request, PublishJoined(r) PROVE Goal
  BY <1>1, <1>3 DEF PublishJoined, EventsOf
<1>4. ASSUME NEW r \in Request, PublishStarting(r) PROVE Goal
  BY <1>1, <1>4 DEF PublishStarting, EventsOf
<1>5. QED
  BY <1>2, <1>3, <1>4
     DEF Next, Handle, Receive, FindLobby, CreateLobby, CountLobby, AddPlayer,
         CheckAndStart, RemovePlayer, CleanupScan, CleanupRemove, FallIdle, vars

\* Every operation keeps the games playable.
LEMMA PlayStep ==
    ASSUME TypeInv, OnceInv, PlayInv, [Next]_vars
    PROVE  PlayInv'
<1>0. /\ RequestsTyped
      /\ lobby \in [LobbyId -> LobbyRecord]
      /\ issued \subseteq LobbyId
      /\ published \subseteq Event
  BY TypeParts
<1>1. \A l \in LobbyId : QueueInv(l)'
  BY QueueStep DEF PlayInv
<1>2. ASSUME NEW r \in Request, request[r].pc = "publish_starting"
      PROVE  /\ IsGame(lobby[request[r].lobby].type, request[r].roster)
             /\ request[r].lobby \in issued
  BY <1>0, <1>2 DEF PlayInv, RostersPlayable, RequestsTyped, Joined
<1>3. ASSUME NEW r \in Request, request'[r].pc = "publish_starting"
      PROVE  IsGame(lobby'[request'[r].lobby].type, request'[r].roster)
  <2>1. CASE request'[r] = request[r]
    <3>1. /\ IsGame(lobby[request[r].lobby].type, request[r].roster)
          /\ request[r].lobby \in issued
      BY <1>2, <1>3, <2>1
    <3>2. lobby'[request[r].lobby].type = lobby[request[r].lobby].type
      BY <3>1, TypeKept
    <3>3. QED
      BY <2>1, <3>1, <3>2
  <2>2. CASE /\ request[r].lobby \in issued
             /\ request'[r].lobby = request[r].lobby
             /\ ShouldStart(Target(r))
             /\ request'[r].roster = ActivePlayers(Target(r))
    <3> DEFINE l == lobby[request[r].lobby]
    <3>1. /\ l \in LobbyRecord
          /\ Admits(l)
          /\ IsFull(l)
      BY <1>0, <2>2 DEF PlayInv, QueueInv, Target, ShouldStart, Startable
    <3>2. IsGame(l.type, ActivePlayers(l))
      BY <3>1, ActivePlayersPlay
    <3>3. lobby'[request[r].lobby].type = l.type
      BY <2>2, TypeKept
    <3>4. QED
      BY <2>2, <3>2, <3>3 DEF Target
  <2>3. QED
    BY <1>3, <2>1, <2>2, StarterStep
<1>4. ASSUME NEW e \in EventsOf("GameStarting")'
      PROVE  IsGame(lobby'[e.lobby].type, e.players)
  <2>1. CASE e \in EventsOf("GameStarting")
    <3>1. e.lobby \in LobbyId
      BY <1>0, <2>1 DEF EventsOf, Event, JoinedEvent, StartingEvent
    <3>2. e \in Announced(e.lobby)
      BY <2>1 DEF Announced
    <3>3. e.lobby \in issued
      BY <3>1, <3>2 DEF OnceInv, Once
    <3>4. lobby'[e.lobby].type = lobby[e.lobby].type
      BY <3>3, TypeKept
    <3>5. IsGame(lobby[e.lobby].type, e.players)
      BY <2>1, GamesByIsGame DEF PlayInv
    <3>6. QED
      BY <3>4, <3>5
  <2>2. ASSUME NEW r \in Request, request[r].pc = "publish_starting",
               e.lobby = request[r].lobby, e.players = request[r].roster
        PROVE  IsGame(lobby'[e.lobby].type, e.players)
    BY <1>2, <2>2, TypeKept
  <2>3. QED
    BY <2>1, <2>2, AnnouncementStep
<1>5. GamesArePlayable'
  <2>1. (\A e \in EventsOf("GameStarting") : IsGame(lobby[e.lobby].type, e.players))'
    BY <1>4
  <2>2. GamesArePlayable' <=>
           (\A e \in EventsOf("GameStarting") : IsGame(lobby[e.lobby].type, e.players))'
    BY DEF GamesArePlayable, IsGame, Capacity
  <2>3. QED
    BY <2>1, <2>2
<1>6. RostersPlayable'
  BY <1>3 DEF RostersPlayable
<1>7. QED
  BY <1>1, <1>5, <1>6 DEF PlayInv

\* At first nothing is queued, started or announced.
LEMMA PlayInit ==
    ASSUME Init
    PROVE  PlayInv
<1>1. ASSUME NEW l \in LobbyId PROVE QueueInv(l)
  <2>1. lobby[l] = NewLobby("General") /\ "General" \in LobbyType
    BY DEF Init, LobbyType
  <2>2. QED
    BY <2>1, NewLobbyAdmits DEF QueueInv
<1>2. RostersPlayable
  BY DEF Init, RostersPlayable, Unsent
<1>3. GamesArePlayable
  BY DEF Init, GamesArePlayable, EventsOf
<1>4. QED
  BY <1>1, <1>2, <1>3 DEF PlayInv

\* The start of the games and who plays them, for every reachable state.
LEMMA PlayInvariant == Spec => [](OnceInv /\ PlayInv)
<1>1. TypeInv /\ OnceInv /\ [Next]_vars => OnceInv'
  BY OnceStep DEF OnceInv
<1>2. TypeInv /\ OnceInv /\ PlayInv /\ [Next]_vars => PlayInv'
  BY PlayStep
<1>3. Init => OnceInv /\ PlayInv
  BY OnceInit, PlayInit
<1>4. QED
  BY <1>1, <1>2, <1>3, TypeInvariant, PTL DEF Spec

\* A game is announced with exactly the lobby's capacity of distinct players,
\* bots only for an AllBot lobby, whoever joined or left while it was starting.
THEOREM GamesPlayable == Spec => []GamesArePlayable
<1>1. OnceInv /\ PlayInv => GamesArePlayable
  BY DEF PlayInv
<1>2. QED
  BY <1>1, PlayInvariant, PTL
-----------------------------------------------------------------------------
(***************************************************************************)
(* The promise.  Every step of the manager is a step of Matchmaking or     *)
(* changes nothing of what it speaks about.                                *)
(***************************************************************************)

\* The players of a queue, as a set and by InQueue.
LEMMA QueueRange ==
    ASSUME NEW l, l.queue \in Seq(Player), NEW x
    PROVE  x \in Range(l.queue) <=> InQueue(l, x)
  BY DEF Range, InQueue

\* As many players as places, when nobody has two.
LEMMA TeamSize ==
    ASSUME NEW q \in Seq(Player), \A i, j \in 1..Len(q) : q[i] = q[j] => i = j
    PROVE  IsFiniteSet(Range(q)) /\ Cardinality(Range(q)) = Len(q)
<1> DEFINE n == Len(q)
           f == [i \in 1..n |-> q[i]]
<1>1. n \in Nat /\ DOMAIN q = 1..n
  OBVIOUS
<1>2. f \in Bijection(1..n, Range(q))
  <2>1. f \in [1..n -> Range(q)]
    BY <1>1 DEF Range
  <2>2. \A t \in Range(q) : \E s \in 1..n : f[s] = t
    BY <1>1 DEF Range
  <2>3. \A a, b \in DOMAIN f : f[a] = f[b] => a = b
    OBVIOUS
  <2>4. QED
    BY <2>1, <2>2, <2>3 DEF Bijection, Injection, Surjection, IsInjective
<1>3. ExistsBijection(1..n, Range(q))
  BY <1>2 DEF ExistsBijection
<1>4. IsFiniteSet(1..n) /\ Cardinality(1..n) = n
  <2>1. 1 \in Int /\ n \in Int
    BY <1>1
  <2>2. IsFiniteSet(1..n) /\ Cardinality(1..n) = IF 1 > n THEN 0 ELSE n-1+1
    BY <2>1, FS_Interval
  <2>3. QED
    BY <1>1, <2>2
<1>5. QED
  BY <1>3, <1>4, FS_Bijection

\* As many humans as places of humans.
LEMMA TeamHumans ==
    ASSUME NEW q \in Seq(Player), \A i, j \in 1..Len(q) : q[i] = q[j] => i = j
    PROVE  Cardinality(Range(q) \cap Human)
             = Cardinality({i \in 1..Len(q) : q[i] \in Human})
<1> DEFINE n == Len(q)
           A == {i \in 1..n : q[i] \in Human}
           f == [i \in A |-> q[i]]
           T == Range(q) \cap Human
<1>1. n \in Nat /\ DOMAIN q = 1..n
  OBVIOUS
<1>2. f \in Bijection(A, T)
  <2>1. f \in [A -> T]
    BY <1>1 DEF Range
  <2>2. \A t \in T : \E s \in A : f[s] = t
    BY <1>1 DEF Range
  <2>3. \A a, b \in DOMAIN f : f[a] = f[b] => a = b
    OBVIOUS
  <2>4. QED
    BY <2>1, <2>2, <2>3 DEF Bijection, Injection, Surjection, IsInjective
<1>3. ExistsBijection(A, T)
  BY <1>2 DEF ExistsBijection
<1>4. IsFiniteSet(A)
  <2>1. 1 \in Int /\ n \in Int
    BY <1>1
  <2>2. IsFiniteSet(1..n)
    BY <2>1, FS_Interval
  <2>3. QED
    BY <2>2, FS_Subset
<1>5. QED
  BY <1>3, <1>4, FS_Bijection

\* The team of a lobby that can start: Matchmaking's Playable.
LEMMA TeamPlayable ==
    ASSUME NEW l \in LobbyRecord, Sorted(l), Admits(l), Startable(l)
    PROVE  LET T == Range(ActivePlayers(l)) IN
           /\ T \subseteq Range(l.queue)
           /\ Cardinality(T) = Config[l.type].capacity
           /\ Cardinality(T \cap Human) >= Config[l.type].min_human_players
           /\ Config[l.type].prioritize_humans =>
                 T \subseteq Human \/ Range(l.queue) \cap Human \subseteq T
<1> DEFINE q == ActivePlayers(l)
           T == Range(q)
           n == Len(l.queue)
<1>1. /\ q \in Seq(Player)
      /\ Len(q) = Capacity(l)
      /\ Len(q) <= n
      /\ \A i \in 1..Len(q) : q[i] = l.queue[i]
      /\ l.queue \in Seq(Player)
      /\ InOrder(l)
  BY RecordIsLobby, ActivePlayersProperties, SortedInOrder DEF Startable, LobbyRecord
<1>2. IsGame(l.type, q)
  BY ActivePlayersPlay DEF Startable
<1>3. Cardinality({i \in 1..Len(q) : q[i] \in Human}) >= Config[l.type].min_human_players
  BY DEF Startable, MeetsHumanRequirement, ActiveHumans
<1> HIDE DEF q
<1>4. Len(q) \in Nat /\ DOMAIN q = 1..Len(q) /\ n \in Nat /\ DOMAIN l.queue = 1..n
  BY <1>1
<1>5. \A i, j \in 1..Len(q) : q[i] = q[j] => i = j
  BY <1>2 DEF IsGame
<1>6. T \subseteq Range(l.queue)
  BY <1>1, <1>4 DEF Range
<1>7. Cardinality(T) = Config[l.type].capacity
  BY <1>1, <1>5, TeamSize DEF Capacity
<1>8. Cardinality(T \cap Human) >= Config[l.type].min_human_players
  BY <1>1, <1>3, <1>5, TeamHumans
<1>9. ASSUME Config[l.type].prioritize_humans,
             NEW h \in Range(l.queue) \cap Human, h \notin T
      PROVE  T \subseteq Human
  <2>1. PICK j \in 1..n : l.queue[j] = h
    BY <1>4 DEF Range
  <2>2. j > Len(q)
    BY <1>1, <1>4, <1>9, <2>1 DEF Range
  <2>3. ASSUME NEW i \in 1..Len(q) PROVE q[i] \in Human
    <3>1. i \in 1..n /\ i < j
      BY <1>1, <1>4, <2>2
    <3>2. Priority(l.type, l.queue[i]) <= Priority(l.type, l.queue[j])
      BY <1>1, <3>1 DEF InOrder
    <3>3. Priority(l.type, l.queue[j]) = 1
      BY <1>9, <2>1 DEF Priority
    <3>4. l.queue[i] \in Human
      BY <3>2, <3>3 DEF Priority
    <3>5. QED
      BY <1>1, <3>4
  <2>4. QED
    BY <1>4, <2>3 DEF Range
<1>10. QED
  BY <1>6, <1>7, <1>8, <1>9 DEF q

\* The lobbies whose game was announced.
GamesOf == {e.lobby : e \in EventsOf("GameStarting")}

\* What Matchmaking sees of lobby l is as it was.
Kept(l) ==
    /\ PhaseOf(l)' = PhaseOf(l)
    /\ lobby'[l].type = lobby[l].type
    /\ Range(lobby'[l].queue) = Range(lobby[l].queue)

TeamsKept == (\A l \in LobbyId : TeamOf(l)' = TeamOf(l)) /\ GamesOf' = GamesOf

\* A request that has nothing to do with the start of a game leaves the teams.
LEMMA QuietRequest ==
    ASSUME NEW r \in Request, \A x \in Request \ {r} : request'[x] = request[x],
           request[r].pc # "publish_starting", request'[r].pc # "publish_starting",
           EventsOf("GameStarting")' = EventsOf("GameStarting")
    PROVE  TeamsKept
<1>1. ASSUME NEW l \in LobbyId PROVE TeamOf(l)' = TeamOf(l)
  <2>1. Starters(l)' = Starters(l)
    BY DEF Starters
  <2>2. \A x \in Starters(l) : request'[x].roster = request[x].roster
    BY DEF Starters
  <2>3. {Range(request'[x].roster) : x \in Starters(l)'} = {Range(request[x].roster) : x \in Starters(l)}
    BY <2>1, <2>2
  <2>4. QED
    BY <2>3 DEF TeamOf
<1>2. GamesOf' = GamesOf
  BY DEF GamesOf
<1>3. QED
  BY <1>1, <1>2 DEF TeamsKept

\* So does a step of no request.
LEMMA QuietStep ==
    ASSUME request' = request, published' = published
    PROVE  TeamsKept
<1>1. EventsOf("GameStarting")' = EventsOf("GameStarting")
  BY DEF EventsOf
<1>2. \A l \in LobbyId : Starters(l)' = Starters(l)
  BY DEF Starters
<1>3. \A l \in LobbyId : TeamOf(l)' = TeamOf(l)
  BY <1>1, <1>2 DEF TeamOf
<1>4. QED
  BY <1>1, <1>3 DEF TeamsKept, GamesOf

\* The steps Matchmaking does not see.
LEMMA Unseen ==
    ASSUME TeamsKept, \A l \in LobbyId : Kept(l)
    PROVE  UNCHANGED Promise!vars
<1>1. [l \in LobbyId |-> PhaseOf(l)]' = [l \in LobbyId |-> PhaseOf(l)]
  BY DEF Kept
<1>2. [l \in LobbyId |-> lobby[l].type]' = [l \in LobbyId |-> lobby[l].type]
  BY DEF Kept
<1>3. [l \in LobbyId |-> Range(lobby[l].queue)]' = [l \in LobbyId |-> Range(lobby[l].queue)]
  BY DEF Kept
<1>4. [l \in LobbyId |-> TeamOf(l)]' = [l \in LobbyId |-> TeamOf(l)]
  BY DEF TeamsKept
<1>5. QED
  BY <1>1, <1>2, <1>3, <1>4 DEF TeamsKept, GamesOf, Promise!vars

\* A step that writes no lobby and no set of ids.
LEMMA MapKept ==
    ASSUME issued' = issued, live' = live, lobby' = lobby, NEW l
    PROVE  Kept(l)
  BY DEF Kept, PhaseOf

\* A step that writes lobby k: the others are as they were.
LEMMA OthersKept ==
    ASSUME lobby \in [LobbyId -> LobbyRecord], issued' = issued, live' = live,
           NEW k, NEW m, lobby' = [lobby EXCEPT ![k] = m],
           NEW l \in LobbyId \ {k}
    PROVE  Kept(l)
<1>1. lobby'[l] = lobby[l]
  OBVIOUS
<1>2. QED
  BY <1>1 DEF Kept, PhaseOf

\* The handlers' quiet steps.
LEMMA QuietHandlers ==
    ASSUME TypeInv, NEW r \in Request,
           Receive(r) \/ FindLobby(r) \/ CreateLobby(r) \/ CountLobby(r) \/ AddPlayer(r)
             \/ PublishJoined(r)
    PROVE  TeamsKept
<1>0. request \in [Request -> RequestRecord]
  BY TypeParts DEF RequestsTyped
<1>1. EventsOf("GameStarting")' = EventsOf("GameStarting")
  <2>1. CASE PublishJoined(r)
    BY <2>1 DEF PublishJoined, EventsOf
  <2>2. CASE published' = published
    BY <2>2 DEF EventsOf
  <2>3. QED
    BY <2>1, <2>2 DEF Receive, FindLobby, CreateLobby, CountLobby, AddPlayer
<1>2. /\ \A x \in Request \ {r} : request'[x] = request[x]
      /\ request[r].pc # "publish_starting"
      /\ request'[r].pc # "publish_starting"
  <2>1. CASE Receive(r)
    <3>1. PICK o \in Offers :
              request' = [request EXCEPT ![r].pc = "find", ![r].player = o.player,
                                         ![r].lobby_type = o.lobby_type]
      BY <2>1 DEF Receive
    <3>2. request[r].pc = "unsent"
      BY <2>1 DEF Receive
    <3>3. QED
      BY <1>0, <3>1, <3>2 DEF RequestRecord
  <2>2. CASE FindLobby(r)
    BY <1>0, <2>2 DEF FindLobby, Goto, RequestRecord
  <2>3. CASE CreateLobby(r)
    BY <1>0, <2>3 DEF CreateLobby, RequestRecord
  <2>4. CASE CountLobby(r)
    BY <1>0, <2>4 DEF CountLobby, Goto, RequestRecord
  <2>5. CASE AddPlayer(r)
    BY <1>0, <2>5 DEF AddPlayer, Goto, GotoWith, RequestRecord
  <2>6. CASE PublishJoined(r)
    BY <1>0, <2>6 DEF PublishJoined, Goto, GotoWith, RequestRecord
  <2>7. QED
    BY <2>1, <2>2, <2>3, <2>4, <2>5, <2>6
<1>3. QED
  BY <1>1, <1>2, QuietRequest

\* create_new_lobby opens a lobby.
LEMMA CreateOpens ==
    ASSUME TypeInv, PlayInv, NEW r \in Request, CreateLobby(r)
    PROVE  \E l \in LobbyId : Promise!OpenLobby(l)
<1>0. /\ lobby \in [LobbyId -> LobbyRecord]
      /\ request \in [Request -> RequestRecord]
      /\ live \subseteq issued
      /\ TeamsKept
  BY TypeParts, QuietHandlers DEF RequestsTyped
<1>1. PICK k \in LobbyId \ issued :
        /\ issued' = issued \cup {k}
        /\ live' = live \cup {k}
        /\ lobby' = [lobby EXCEPT ![k] = NewLobby(request[r].lobby_type)]
  BY DEF CreateLobby
<1>2. PICK t \in LobbyType : t = request[r].lobby_type
  BY <1>0 DEF RequestRecord
<1>3. /\ lobby[k].queue = <<>>
      /\ lobby'[k].queue = <<>>
      /\ lobby'[k].type = t
      /\ lobby'[k].state = "WaitingForPlayers"
  <2>1. lobby[k] = NewLobby("General")
    BY <1>1 DEF PlayInv, QueueInv
  <2>2. lobby'[k] = NewLobby(t)
    BY <1>0, <1>1, <1>2
  <2>3. QED
    BY <2>1, <2>2 DEF NewLobby
<1>4. k \in LobbyId /\ PhaseOf(k) = "none" /\ PhaseOf(k)' = "open"
  BY <1>1, <1>3 DEF PhaseOf, Open
<1>5. ASSUME NEW l \in LobbyId \ {k} PROVE Kept(l)
  <2>1. lobby'[l] = lobby[l] /\ (l \in issued' <=> l \in issued) /\ (l \in live' <=> l \in live)
    BY <1>0, <1>1
  <2>2. QED
    BY <2>1 DEF Kept, PhaseOf
<1>6. [l \in LobbyId |-> PhaseOf(l)]' = [[l \in LobbyId |-> PhaseOf(l)] EXCEPT ![k] = "open"]
  BY <1>4, <1>5 DEF Kept
<1>7. [l \in LobbyId |-> lobby[l].type]' = [[l \in LobbyId |-> lobby[l].type] EXCEPT ![k] = t]
  BY <1>3, <1>4, <1>5 DEF Kept
<1>8. [l \in LobbyId |-> Range(lobby[l].queue)]' = [l \in LobbyId |-> Range(lobby[l].queue)]
  BY <1>3, <1>5 DEF Kept
<1>9. [l \in LobbyId |-> TeamOf(l)]' = [l \in LobbyId |-> TeamOf(l)] /\ GamesOf' = GamesOf
  BY <1>0 DEF TeamsKept
<1>10. Promise!OpenLobby(k)
  BY <1>1, <1>2, <1>4, <1>6, <1>7, <1>8, <1>9 DEF Promise!OpenLobby, GamesOf
<1>11. QED
  BY <1>10

\* add_player_to_lobby, when nothing forbids it, has the player enter.
LEMMA AddEnters ==
    ASSUME TypeInv, NEW r \in Request, AddPlayer(r)
    PROVE  \/ UNCHANGED Promise!vars
           \/ \E l \in LobbyId, p \in Player : Promise!Enter(l, p)
<1>1. PICK k \in issued, p \in Player : k = request[r].lobby /\ p = request[r].player
  BY TypeParts DEF AddPlayer, RequestsTyped, Pending, Joining
<1> DEFINE m == Touched(WithPlayer(lobby[k], p))
<1>2. /\ lobby \in [LobbyId -> LobbyRecord]
      /\ live \subseteq issued
      /\ issued \subseteq LobbyId
      /\ k \in LobbyId
      /\ lobby[k] \in LobbyRecord
      /\ Sorted(lobby[k])
      /\ issued' = issued
      /\ live' = live
      /\ TeamsKept
  BY TypeParts, QuietHandlers DEF AddPlayer, QueuesSorted
<1>3. CASE lobby' = lobby
  BY <1>2, <1>3, MapKept, Unseen
<1>4. CASE k \in live /\ CanAdd(lobby[k], p) /\ lobby' = [lobby EXCEPT ![k] = m]
  <2>1. lobby'[k] = m
    BY <1>2, <1>4
  <2>2. /\ m \in LobbyRecord
        /\ m.type = lobby[k].type
        /\ Open(m)
        /\ \A x : InQueue(m, x) <=> x = p \/ InQueue(lobby[k], x)
    BY <1>2, <1>4, WithPlayerProperties, WithPlayerMembers DEF CanAdd
  <2>3. Range(m.queue) = Range(lobby[k].queue) \cup {p} /\ p \notin Range(lobby[k].queue)
    <3>1. m.queue \in Seq(Player) /\ lobby[k].queue \in Seq(Player)
      BY <1>2, <2>2 DEF LobbyRecord
    <3>2. \A x : /\ x \in Range(m.queue) <=> InQueue(m, x)
                 /\ x \in Range(lobby[k].queue) <=> InQueue(lobby[k], x)
      BY <3>1, QueueRange
    <3>3. ~InQueue(lobby[k], p)
      BY <1>4 DEF CanAdd
    <3> HIDE DEF m
    <3>4. QED
      BY <2>2, <3>2, <3>3
  <2>4. PhaseOf(k) = "open" /\ PhaseOf(k)' = "open"
    BY <1>2, <1>4, <2>1, <2>2 DEF PhaseOf, CanAdd
  <2>5. lobby[k].type = "AllBot" => p \notin Human
    BY <1>4 DEF CanAdd, AllowsPlayerType
  <2>6. \A l \in LobbyId \ {k} : Kept(l)
    BY <1>2, <1>4, OthersKept
  <2> HIDE DEF m
  <2>7. [l \in LobbyId |-> PhaseOf(l)]' = [l \in LobbyId |-> PhaseOf(l)]
    BY <2>4, <2>6 DEF Kept
  <2>8. [l \in LobbyId |-> lobby[l].type]' = [l \in LobbyId |-> lobby[l].type]
    BY <2>1, <2>2, <2>6 DEF Kept
  <2>9. [l \in LobbyId |-> Range(lobby[l].queue)]'
          = [[l \in LobbyId |-> Range(lobby[l].queue)] EXCEPT ![k] = @ \cup {p}]
    BY <1>2, <2>1, <2>3, <2>6 DEF Kept
  <2>10. [l \in LobbyId |-> TeamOf(l)]' = [l \in LobbyId |-> TeamOf(l)] /\ GamesOf' = GamesOf
    BY <1>2 DEF TeamsKept
  <2>11. Promise!Enter(k, p)
    BY <1>2, <2>3, <2>4, <2>5, <2>7, <2>8, <2>9, <2>10 DEF Promise!Enter, GamesOf
  <2>12. QED
    BY <1>2, <2>11
<1>5. QED
  BY <1>1, <1>3, <1>4 DEF AddPlayer, Target

\* remove_player has the player leave.
LEMMA RemoveLeaves ==
    ASSUME TypeInv, PlayInv, NEW p \in Leavers, RemovePlayer(p)
    PROVE  \E l \in LobbyId : Promise!Leave(l, p)
<1>0. /\ lobby \in [LobbyId -> LobbyRecord]
      /\ live \subseteq issued
      /\ issued \subseteq LobbyId
      /\ issued' = issued
      /\ live' = live
      /\ TeamsKept
  BY TypeParts, QuietStep DEF RemovePlayer
<1>1. PICK k \in live :
        /\ InQueue(lobby[k], p)
        /\ lobby' = [lobby EXCEPT ![k] = Touched(WithoutPlayer(lobby[k], p))]
  BY DEF RemovePlayer
<1> DEFINE m == Touched(WithoutPlayer(lobby[k], p))
<1>2. /\ k \in LobbyId
      /\ lobby[k] \in LobbyRecord
      /\ Sorted(lobby[k])
      /\ Admits(lobby[k])
  BY <1>0, <1>1, TypeParts DEF QueuesSorted, PlayInv, QueueInv
<1>3. lobby'[k] = m
  BY <1>0, <1>1
<1>4. /\ m \in LobbyRecord
      /\ m.type = lobby[k].type
      /\ Open(m) <=> Open(lobby[k])
  BY <1>1, <1>2, WithoutPlayerProperties DEF Open
<1>5. \A x : InQueue(m, x) <=> x # p /\ InQueue(lobby[k], x)
  <2>1. /\ \A x : InQueue(m, x) => InQueue(lobby[k], x)
        /\ \A x : x # p /\ InQueue(lobby[k], x) => InQueue(m, x)
        /\ ~InQueue(m, p)
    BY <1>1, <1>2, WithoutPlayerMembers DEF Admits
  <2> HIDE DEF m
  <2>2. QED
    BY <2>1
<1>6. Range(m.queue) = Range(lobby[k].queue) \ {p} /\ p \in Range(lobby[k].queue)
  <2>1. m.queue \in Seq(Player) /\ lobby[k].queue \in Seq(Player)
    BY <1>2, <1>4 DEF LobbyRecord
  <2>2. \A x : /\ x \in Range(m.queue) <=> InQueue(m, x)
               /\ x \in Range(lobby[k].queue) <=> InQueue(lobby[k], x)
    BY <2>1, QueueRange
  <2> HIDE DEF m
  <2>3. QED
    BY <1>1, <1>5, <2>2
<1>7. PhaseOf(k) \in {"open", "closed"} /\ PhaseOf(k)' = PhaseOf(k)
  BY <1>0, <1>1, <1>3, <1>4 DEF PhaseOf
<1>8. \A l \in LobbyId \ {k} : Kept(l)
  BY <1>0, <1>1, OthersKept
<1> HIDE DEF m
<1>9. [l \in LobbyId |-> PhaseOf(l)]' = [l \in LobbyId |-> PhaseOf(l)]
  BY <1>7, <1>8 DEF Kept
<1>10. [l \in LobbyId |-> lobby[l].type]' = [l \in LobbyId |-> lobby[l].type]
  BY <1>3, <1>4, <1>8 DEF Kept
<1>11. [l \in LobbyId |-> Range(lobby[l].queue)]'
         = [[l \in LobbyId |-> Range(lobby[l].queue)] EXCEPT ![k] = @ \ {p}]
  BY <1>2, <1>3, <1>6, <1>8 DEF Kept
<1>12. [l \in LobbyId |-> TeamOf(l)]' = [l \in LobbyId |-> TeamOf(l)] /\ GamesOf' = GamesOf
  BY <1>0 DEF TeamsKept
<1>13. Promise!Leave(k, p)
  BY <1>2, <1>6, <1>7, <1>9, <1>10, <1>11, <1>12 DEF Promise!Leave, Promise!Live, GamesOf
<1>14. QED
  BY <1>2, <1>13

\* Matchmaking counts as LobbyManager does.
LEMMA SameCardinality ==
    ASSUME NEW S
    PROVE  Promise!Cardinality(S) = Cardinality(S)
  BY DEF Promise!Cardinality, Cardinality

\* check_and_start_game, when it starts the game, closes the lobby with a team.
LEMMA CheckCloses ==
    ASSUME TypeInv, OnceInv, PlayInv, NEW r \in Request, CheckAndStart(r)
    PROVE  \/ UNCHANGED Promise!vars
           \/ \E l \in LobbyId : Promise!Close(l)
<1>1. PICK k \in issued : k = request[r].lobby
  BY TypeParts DEF CheckAndStart, RequestsTyped, Joined
<1> DEFINE q == ActivePlayers(lobby[k])
           m == Touched(MarkedStarting(lobby[k]))
<1>2. /\ lobby \in [LobbyId -> LobbyRecord]
      /\ request \in [Request -> RequestRecord]
      /\ issued \subseteq LobbyId
      /\ k \in LobbyId
      /\ lobby[k] \in LobbyRecord
      /\ Sorted(lobby[k])
      /\ Admits(lobby[k])
      /\ issued' = issued
      /\ live' = live
      /\ EventsOf("GameStarting")' = EventsOf("GameStarting")
      /\ request[r].pc = "check"
  BY TypeParts DEF CheckAndStart, RequestsTyped, QueuesSorted, PlayInv, QueueInv, EventsOf
<1>3. CASE lobby' = lobby /\ (Goto(r, "ok") \/ Goto(r, "failed"))
  <2>1. /\ \A x \in Request \ {r} : request'[x] = request[x]
        /\ request'[r].pc \in {"ok", "failed"}
    BY <1>2, <1>3 DEF Goto, RequestRecord
  <2>2. TeamsKept
    BY <1>2, <2>1, QuietRequest
  <2>3. QED
    BY <1>2, <1>3, <2>2, MapKept, Unseen
<1>4. CASE /\ k \in live
           /\ ShouldStart(lobby[k])
           /\ lobby' = [lobby EXCEPT ![k] = m]
           /\ GotoWith(r, "publish_starting", q)
  <2>1. /\ \A x \in Request \ {r} : request'[x] = request[x]
        /\ request'[r].pc = "publish_starting"
        /\ request'[r].lobby = k
        /\ request'[r].roster = q
    BY <1>1, <1>2, <1>4 DEF GotoWith, RequestRecord
  <2>2. lobby'[k].type = lobby[k].type /\ lobby'[k].queue = lobby[k].queue /\ lobby'[k].state = "Starting"
    <3>1. lobby'[k] = m
      BY <1>2, <1>4
    <3>2. QED
      BY <1>2, <3>1, MarkedStartingProperties
  <2>3. PhaseOf(k) = "open" /\ PhaseOf(k)' = "closed"
    BY <1>2, <1>4, <2>2 DEF PhaseOf, ShouldStart, Open
  <2>4. \A l \in LobbyId \ {k} : Kept(l)
    BY <1>2, <1>4, OthersKept
  <2>5. TeamOf(k)' = Range(q)
    <3>1. Starters(k) = {} /\ Announced(k) = {}
      BY <1>2, <1>4 DEF OnceInv, Once, ShouldStart
    <3>2. Starters(k)' = {r} /\ request'[r].roster = q
      BY <2>1, <3>1 DEF Starters
    <3>3. {e \in EventsOf("GameStarting")' : e.lobby = k} = {}
      BY <1>2, <3>1 DEF Announced
    <3>4. TeamOf(k)' = UNION ({Range(request'[x].roster) : x \in Starters(k)'} \cup
                              {Range(e.players) : e \in {e \in EventsOf("GameStarting")' : e.lobby = k}})
      BY DEF TeamOf
    <3> HIDE DEF q
    <3>5. QED
      BY <3>2, <3>3, <3>4
  <2>6. ASSUME NEW l \in LobbyId \ {k} PROVE TeamOf(l)' = TeamOf(l)
    <3>1. Starters(l)' = Starters(l) /\ r \notin Starters(l)
      BY <1>1, <1>2, <2>1 DEF Starters
    <3>2. \A x \in Starters(l) : request'[x].roster = request[x].roster
      BY <2>1, <3>1 DEF Starters
    <3>3. {Range(request'[x].roster) : x \in Starters(l)'} = {Range(request[x].roster) : x \in Starters(l)}
      BY <3>1, <3>2
    <3>4. QED
      BY <1>2, <3>3 DEF TeamOf
  <2>7. /\ Range(q) \subseteq Range(lobby[k].queue)
        /\ Cardinality(Range(q)) = Config[lobby[k].type].capacity
        /\ Cardinality(Range(q) \cap Human) >= Config[lobby[k].type].min_human_players
        /\ Config[lobby[k].type].prioritize_humans =>
              Range(q) \subseteq Human \/ Range(lobby[k].queue) \cap Human \subseteq Range(q)
    BY <1>2, <1>4, TeamPlayable DEF ShouldStart
  <2>8. lobby[k].type \in LobbyType
    BY <1>2 DEF LobbyRecord
  <2>9. PICK T : T = Range(q)
    OBVIOUS
  <2> HIDE DEF m, q
  <2>10. [l \in LobbyId |-> PhaseOf(l)]' = [[l \in LobbyId |-> PhaseOf(l)] EXCEPT ![k] = "closed"]
    BY <1>2, <2>3, <2>4 DEF Kept
  <2>11. [l \in LobbyId |-> lobby[l].type]' = [l \in LobbyId |-> lobby[l].type]
    BY <2>2, <2>4 DEF Kept
  <2>12. [l \in LobbyId |-> Range(lobby[l].queue)]' = [l \in LobbyId |-> Range(lobby[l].queue)]
    BY <2>2, <2>4 DEF Kept
  <2>13. [l \in LobbyId |-> TeamOf(l)]' = [[l \in LobbyId |-> TeamOf(l)] EXCEPT ![k] = T]
    BY <1>2, <2>5, <2>6, <2>9
  <2>14. GamesOf' = GamesOf
    BY <1>2 DEF GamesOf
  <2>15. Promise!Playable(k, T)
    <3>1. PICK t \in LobbyType : t = lobby[k].type
      BY <2>8
    <3>2. /\ [l \in LobbyId |-> lobby[l].type][k] = t
          /\ [l \in LobbyId |-> Range(lobby[l].queue)][k] = Range(lobby[k].queue)
          /\ [x \in LobbyType |-> Config[x].capacity][t] = Config[t].capacity
          /\ [x \in LobbyType |-> Config[x].min_human_players][t] = Config[t].min_human_players
          /\ t \in {x \in LobbyType : Config[x].prioritize_humans} => Config[t].prioritize_humans
      BY <1>2, <3>1
    <3>3. QED
      BY <2>7, <2>9, <3>1, <3>2, SameCardinality DEF Promise!Playable
  <2>16. Promise!Close(k)
    <3>1. T \in SUBSET Range(lobby[k].queue)
      BY <2>7, <2>9
    <3>2. [l \in LobbyId |-> PhaseOf(l)][k] = "open" /\ [l \in LobbyId |-> Range(lobby[l].queue)][k] = Range(lobby[k].queue)
      BY <1>2, <2>3
    <3>3. QED
      BY <3>1, <3>2, <2>10, <2>11, <2>12, <2>13, <2>14, <2>15 DEF Promise!Close, GamesOf
  <2>17. QED
    BY <1>2, <2>16
<1>5. QED
  BY <1>1, <1>3, <1>4 DEF CheckAndStart, Target

\* publish_game_starting announces the team, or its failure forfeits the game.
LEMMA PublishAnnounces ==
    ASSUME TypeInv, OnceInv, PlayInv, NEW r \in Request, PublishStarting(r)
    PROVE  \E l \in LobbyId : Promise!Announce(l) \/ Promise!Forfeit(l)
<1>1. PICK k \in issued, q \in Seq(Player) : k = request[r].lobby /\ q = request[r].roster
  BY TypeParts DEF PublishStarting, RequestsTyped, RequestRecord, Joined
<1> DEFINE e == [kind |-> "GameStarting", lobby |-> k, players |-> q]
<1>2. /\ request \in [Request -> RequestRecord]
      /\ issued \subseteq LobbyId
      /\ lobby \in [LobbyId -> LobbyRecord]
      /\ k \in LobbyId
      /\ request[r].pc = "publish_starting"
      /\ issued' = issued
      /\ live' = live
      /\ lobby' = lobby
  BY TypeParts DEF PublishStarting, RequestsTyped
<1>3. /\ \A x \in Request \ {r} : request'[x] = request[x]
      /\ request'[r].pc \in {"ok", "failed"}
  BY <1>2 DEF PublishStarting, Goto, GotoWith, RequestRecord
<1>4. Starters(k) = {r} /\ Announced(k) = {}
  <2>1. /\ IsFiniteSet(Starters(k))
        /\ IsFiniteSet(Announced(k))
        /\ Cardinality(Starters(k)) \in Nat
        /\ Cardinality(Announced(k)) \in Nat
    BY <1>2, OnceTypes DEF OnceInv, Once
  <2>2. r \in Starters(k)
    BY <1>1, <1>2 DEF Starters
  <2>3. Cardinality(Starters(k)) # 0
    BY <2>1, <2>2, FS_EmptySet
  <2>4. Cardinality(Starters(k)) = 1 /\ Cardinality(Announced(k)) = 0
    BY <1>2, <2>1, <2>3 DEF OnceInv, Once
  <2>5. Announced(k) = {}
    BY <2>1, <2>4, FS_EmptySet
  <2>6. PICK x : Starters(k) = {x}
    BY <2>1, <2>4, FS_Singleton
  <2>7. QED
    BY <2>2, <2>5, <2>6
<1>5. Starters(k)' = {} /\ \A l \in LobbyId \ {k} : Starters(l)' = Starters(l)
  BY <1>1, <1>2, <1>3, <1>4 DEF Starters
<1>6. TeamOf(k) = Range(q)
  <2>1. {x \in EventsOf("GameStarting") : x.lobby = k} = {}
    BY <1>4 DEF Announced
  <2>2. QED
    BY <1>1, <1>4, <2>1 DEF TeamOf
<1>7. Range(q) # {}
  <2>1. Len(q) = Config[lobby[k].type].capacity
    BY <1>1, <1>2 DEF PlayInv, RostersPlayable, IsGame
  <2>2. Config[lobby[k].type].capacity \in 1..MaxCapacity
    BY <1>2, RecordIsLobby, CapacityType DEF Capacity
  <2>3. 1 \in DOMAIN q
    BY <2>1, <2>2 DEF MaxCapacity
  <2>4. QED
    BY <2>3 DEF Range
<1>8. k \notin GamesOf
  BY <1>4 DEF GamesOf, Announced
<1>9. \A l \in LobbyId : Kept(l)
  BY <1>2, MapKept
<1>10. /\ [l \in LobbyId |-> PhaseOf(l)]' = [l \in LobbyId |-> PhaseOf(l)]
       /\ [l \in LobbyId |-> lobby[l].type]' = [l \in LobbyId |-> lobby[l].type]
       /\ [l \in LobbyId |-> Range(lobby[l].queue)]' = [l \in LobbyId |-> Range(lobby[l].queue)]
  BY <1>9 DEF Kept
\* The requests of the other lobbies keep their rosters.
<1>11. ASSUME NEW l \in LobbyId \ {k}
       PROVE  {Range(request'[x].roster) : x \in Starters(l)'} = {Range(request[x].roster) : x \in Starters(l)}
  <2>1. Starters(l)' = Starters(l) /\ r \notin Starters(l)
    BY <1>1, <1>5 DEF Starters
  <2>2. \A x \in Starters(l) : request'[x].roster = request[x].roster
    BY <1>3, <2>1 DEF Starters
  <2>3. QED
    BY <2>1, <2>2
<1>12. CASE published' = published \cup {e}
  <2>1. EventsOf("GameStarting")' = EventsOf("GameStarting") \cup {e}
    BY <1>12 DEF EventsOf
  <2>2. e.lobby = k /\ e.players = q
    OBVIOUS
  <2> HIDE DEF e
  <2>3. TeamOf(k)' = TeamOf(k)
    <3>1. {x \in EventsOf("GameStarting")' : x.lobby = k} = {e}
      BY <1>4, <2>1, <2>2 DEF Announced
    <3>2. TeamOf(k)' = UNION ({Range(request'[x].roster) : x \in Starters(k)'} \cup
                              {Range(x.players) : x \in {x \in EventsOf("GameStarting")' : x.lobby = k}})
      BY DEF TeamOf
    <3>3. QED
      BY <1>5, <1>6, <2>2, <3>1, <3>2
  <2>4. ASSUME NEW l \in LobbyId \ {k} PROVE TeamOf(l)' = TeamOf(l)
    <3>1. {x \in EventsOf("GameStarting")' : x.lobby = l} = {x \in EventsOf("GameStarting") : x.lobby = l}
      BY <2>1, <2>2
    <3>2. QED
      BY <1>11, <3>1 DEF TeamOf
  <2>5. [l \in LobbyId |-> TeamOf(l)]' = [l \in LobbyId |-> TeamOf(l)]
    BY <2>3, <2>4
  <2>6. GamesOf' = GamesOf \cup {k}
    BY <2>1, <2>2 DEF GamesOf
  <2>7. Promise!Announce(k)
    BY <1>2, <1>6, <1>7, <1>8, <1>10, <2>5, <2>6 DEF Promise!Announce, GamesOf
  <2>8. QED
    BY <1>2, <2>7
<1>13. CASE published' = published
  <2>1. EventsOf("GameStarting")' = EventsOf("GameStarting")
    BY <1>13 DEF EventsOf
  <2>2. TeamOf(k)' = {}
    <3>1. {x \in EventsOf("GameStarting")' : x.lobby = k} = {}
      BY <1>4, <2>1 DEF Announced
    <3>2. QED
      BY <1>5, <3>1 DEF TeamOf
  <2>3. \A l \in LobbyId \ {k} : TeamOf(l)' = TeamOf(l)
    BY <1>11, <2>1 DEF TeamOf
  <2>4. [l \in LobbyId |-> TeamOf(l)]' = [[l \in LobbyId |-> TeamOf(l)] EXCEPT ![k] = {}]
    BY <1>2, <2>2, <2>3
  <2>5. GamesOf' = GamesOf
    BY <2>1 DEF GamesOf
  <2>6. Promise!Forfeit(k)
    BY <1>2, <1>6, <1>7, <1>8, <1>10, <2>4, <2>5 DEF Promise!Forfeit, GamesOf
  <2>7. QED
    BY <1>2, <2>6
<1>14. QED
  BY <1>1, <1>12, <1>13 DEF PublishStarting

\* The write half of a cleanup pass discards lobbies.
LEMMA CleanupDiscards ==
    ASSUME TypeInv, CleanupRemove
    PROVE  \E S \in SUBSET LobbyId : Promise!Discard(S)
<1> DEFINE S == cleanup \cap live
<1>1. PICK T \in SUBSET LobbyId : T = S
  BY TypeParts
<1>2. /\ live \subseteq issued
      /\ issued' = issued
      /\ live' = live \ T
      /\ lobby' = lobby
      /\ TeamsKept
  BY <1>1, TypeParts, QuietStep DEF CleanupRemove
<1>3. \A l \in LobbyId : PhaseOf(l)' = IF l \in T THEN "gone" ELSE PhaseOf(l)
  BY <1>1, <1>2 DEF PhaseOf
<1>4. \A l \in T : PhaseOf(l) \in {"open", "closed"}
  BY <1>1, <1>2 DEF PhaseOf
<1>5. [l \in LobbyId |-> PhaseOf(l)]'
        = [l \in LobbyId |-> IF l \in T THEN "gone" ELSE [k \in LobbyId |-> PhaseOf(k)][l]]
  BY <1>3
<1>6. /\ [l \in LobbyId |-> lobby[l].type]' = [l \in LobbyId |-> lobby[l].type]
      /\ [l \in LobbyId |-> Range(lobby[l].queue)]' = [l \in LobbyId |-> Range(lobby[l].queue)]
      /\ [l \in LobbyId |-> TeamOf(l)]' = [l \in LobbyId |-> TeamOf(l)]
      /\ GamesOf' = GamesOf
  BY <1>2 DEF TeamsKept
<1>7. Promise!Discard(T)
  BY <1>4, <1>5, <1>6 DEF Promise!Discard, Promise!Live, GamesOf
<1>8. QED
  BY <1>7

\* Every step of the manager is a step of Matchmaking, or it sees nothing of it.
LEMMA PromiseStep ==
    ASSUME TypeInv, OnceInv, PlayInv, [Next]_vars
    PROVE  [Promise!Next]_Promise!vars
<1>1. ASSUME NEW r \in Request,
             Receive(r) \/ FindLobby(r) \/ CountLobby(r) \/ PublishJoined(r)
      PROVE  UNCHANGED Promise!vars
  BY <1>1, QuietHandlers, MapKept, Unseen DEF Receive, FindLobby, CountLobby, PublishJoined
<1>2. ASSUME NEW r \in Request, CreateLobby(r) PROVE [Promise!Next]_Promise!vars
  BY <1>2, CreateOpens DEF Promise!Next
<1>3. ASSUME NEW r \in Request, AddPlayer(r) PROVE [Promise!Next]_Promise!vars
  BY <1>3, AddEnters DEF Promise!Next
<1>4. ASSUME NEW r \in Request, CheckAndStart(r) PROVE [Promise!Next]_Promise!vars
  BY <1>4, CheckCloses DEF Promise!Next
<1>5. ASSUME NEW r \in Request, PublishStarting(r) PROVE [Promise!Next]_Promise!vars
  BY <1>5, PublishAnnounces DEF Promise!Next
<1>6. ASSUME NEW p \in Leavers, RemovePlayer(p) PROVE [Promise!Next]_Promise!vars
  BY <1>6, RemoveLeaves, ManagerAssumption DEF Promise!Next
<1>7. ASSUME CleanupRemove PROVE [Promise!Next]_Promise!vars
  BY <1>7, CleanupDiscards DEF Promise!Next
<1>8. ASSUME CleanupScan \/ UNCHANGED vars PROVE UNCHANGED Promise!vars
  BY <1>8, QuietStep, MapKept, Unseen DEF CleanupScan, vars
<1>9. ASSUME NEW k \in Idlers, FallIdle(k) PROVE UNCHANGED Promise!vars
  <2>1. /\ lobby \in [LobbyId -> LobbyRecord]
        /\ live \subseteq LobbyId
        /\ k \in live
        /\ issued' = issued
        /\ live' = live
        /\ lobby' = [lobby EXCEPT ![k] = [lobby[k] EXCEPT !.idle = TRUE]]
        /\ TeamsKept
    BY <1>9, TypeParts, QuietStep DEF FallIdle
  <2>2. Kept(k)
    <3>1. lobby[k] \in LobbyRecord /\ lobby'[k] = [lobby[k] EXCEPT !.idle = TRUE]
      BY <2>1
    <3>2. /\ lobby'[k].type = lobby[k].type
          /\ lobby'[k].queue = lobby[k].queue
          /\ lobby'[k].state = lobby[k].state
      BY <3>1 DEF LobbyRecord
    <3>3. QED
      BY <2>1, <3>2 DEF Kept, PhaseOf, Open
  <2>3. \A l \in LobbyId \ {k} : Kept(l)
    BY <2>1, OthersKept
  <2>4. QED
    BY <2>1, <2>2, <2>3, Unseen
<1>10. QED
  BY <1>1, <1>2, <1>3, <1>4, <1>5, <1>6, <1>7, <1>8, <1>9 DEF Next, Handle

\* At first no lobby exists, nobody is anywhere and no game has a team.
LEMMA PromiseInit ==
    ASSUME Init
    PROVE  Promise!Init
<1>1. \A l \in LobbyId : PhaseOf(l) = "none"
  BY DEF Init, PhaseOf
<1>2. \A l \in LobbyId : lobby[l].type \in LobbyType /\ lobby[l].queue = <<>>
  BY DEF Init, NewLobby, LobbyType
<1>3. Range(<<>>) = {}
  BY DEF Range
<1>4. EventsOf("GameStarting") = {}
  BY DEF Init, EventsOf
<1>5. \A l \in LobbyId : Starters(l) = {}
  BY DEF Init, Starters, Unsent
<1>6. \A l \in LobbyId : TeamOf(l) = {}
  BY <1>4, <1>5 DEF TeamOf
<1>7. QED
  BY <1>1, <1>2, <1>3, <1>4, <1>6 DEF Promise!Init

\* The handlers, interleaved at every lock and every publish, implement the
\* promise: whoever joins, leaves or is cleaned away in between, a lobby closes
\* once, with a playable team of the players then in it, and the game that is
\* announced is the game of that team.
THEOREM ManagerKeepsPromise == Spec => KeepsPromise
<1>1. Init => Promise!Init
  BY PromiseInit
<1>2. TypeInv /\ OnceInv /\ PlayInv /\ [Next]_vars => [Promise!Next]_Promise!vars
  BY PromiseStep
<1>3. QED
  BY <1>1, <1>2, TypeInvariant, PlayInvariant, PTL DEF Spec, KeepsPromise, Promise!Spec
-----------------------------------------------------------------------------
(***************************************************************************)
(* The players of a PlayerJoinedLobby event, which are copied under the    *)
(* lock and published after it.                                            *)
(***************************************************************************)

\* JoinersListed for one event: q are the players published when p joins.
Listed(t, p, q) ==
    (\A i \in 1..Len(q) : q[i] # p) =>
        /\ Len(q) = Config[t].capacity
        /\ \A i \in 1..Len(q) : Priority(t, q[i]) <= Priority(t, p)

\* A queued player is active, or the active places are taken by players that
\* are not behind it in the priorities.
LEMMA JoinerListed ==
    ASSUME NEW l \in LobbyRecord, Sorted(l), NEW p, InQueue(l, p)
    PROVE  Listed(l.type, p, ActivePlayers(l))
<1> DEFINE q == ActivePlayers(l)
           n == Len(l.queue)
<1>1. /\ q \in Seq(Player)
      /\ Len(q) <= n
      /\ IsFull(l) => Len(q) = Capacity(l)
      /\ \A i \in 1..Len(q) : q[i] = l.queue[i]
      /\ n \in Nat
      /\ InOrder(l)
  BY RecordIsLobby, ActivePlayersProperties, SortedInOrder DEF LobbyRecord
<1>2. ~IsFull(l) => q = l.queue
  BY DEF ActivePlayers
<1>3. PICK j \in 1..n : l.queue[j] = p
  BY DEF InQueue
<1> HIDE DEF q
<1>4. ASSUME \A i \in 1..Len(q) : q[i] # p
      PROVE  /\ Len(q) = Config[l.type].capacity
             /\ \A i \in 1..Len(q) : Priority(l.type, q[i]) <= Priority(l.type, p)
  <2>1. j > Len(q)
    BY <1>1, <1>3, <1>4
  <2>2. Len(q) = Config[l.type].capacity
    BY <1>1, <1>2, <1>3, <2>1 DEF Capacity
  <2>3. ASSUME NEW i \in 1..Len(q) PROVE Priority(l.type, q[i]) <= Priority(l.type, p)
    <3>1. i \in 1..n /\ i < j
      BY <1>1, <2>1
    <3>2. Priority(l.type, l.queue[i]) <= Priority(l.type, l.queue[j])
      BY <1>1, <3>1 DEF InOrder
    <3>3. QED
      BY <1>1, <1>3, <3>2
  <2>4. QED
    BY <2>2, <2>3
<1>5. QED
  BY <1>4 DEF Listed, q

\* What a request that is about to publish a joining has in hand, and what was
\* published.
JoinInv ==
    /\ \A r \in Request :
          request[r].pc = "publish_joined" =>
              /\ Listed(lobby[request[r].lobby].type, request[r].player, request[r].roster)
              /\ request[r].roster # <<>>
    /\ \A e \in EventsOf("PlayerJoinedLobby") :
          e.lobby \in issued /\ Listed(lobby[e.lobby].type, e.player, e.players)

\* A request that is about to publish a joining was so before the step, or has
\* just entered its player.
LEMMA JoinerStep ==
    ASSUME TypeInv, [Next]_vars, NEW r \in Request,
           request'[r].pc = "publish_joined"
    PROVE  \/ request'[r] = request[r]
           \/ /\ request[r].lobby \in issued
              /\ request'[r].lobby = request[r].lobby
              /\ request'[r].player = request[r].player
              /\ request'[r].roster = ActivePlayers(lobby'[request[r].lobby])
              /\ InQueue(lobby'[request[r].lobby], request[r].player)
<1> DEFINE Goal == \/ request'[r] = request[r]
                   \/ /\ request[r].lobby \in issued
                      /\ request'[r].lobby = request[r].lobby
                      /\ request'[r].player = request[r].player
                      /\ request'[r].roster = ActivePlayers(lobby'[request[r].lobby])
                      /\ InQueue(lobby'[request[r].lobby], request[r].player)
<1>0. /\ request \in [Request -> RequestRecord]
      /\ RequestsTyped
      /\ lobby \in [LobbyId -> LobbyRecord]
      /\ issued \subseteq LobbyId
  BY TypeParts DEF RequestsTyped
<1>1. ASSUME NEW x \in Request, Receive(x) PROVE Goal
  <2>1. PICK o \in Offers :
            request' = [request EXCEPT ![x].pc = "find", ![x].player = o.player,
                                       ![x].lobby_type = o.lobby_type]
    BY <1>1 DEF Receive
  <2>2. QED
    BY <1>0, <2>1 DEF RequestRecord
<1>2. ASSUME NEW x \in Request, FindLobby(x) PROVE Goal
  BY <1>0, <1>2 DEF FindLobby, Goto, RequestRecord
<1>3. ASSUME NEW x \in Request, CreateLobby(x) PROVE Goal
  BY <1>0, <1>3 DEF CreateLobby, RequestRecord
<1>4. ASSUME NEW x \in Request, CountLobby(x) PROVE Goal
  BY <1>0, <1>4 DEF CountLobby, Goto, RequestRecord
<1>5. ASSUME NEW x \in Request,
             PublishJoined(x) \/ CheckAndStart(x) \/ PublishStarting(x)
      PROVE  Goal
  BY <1>0, <1>5 DEF PublishJoined, CheckAndStart, PublishStarting, Goto, GotoWith, RequestRecord
<1>6. ASSUME NEW x \in Request, AddPlayer(x) PROVE Goal
  <2>1. CASE x = r
    <3>1. PICK k \in issued, p \in Player : k = request[r].lobby /\ p = request[r].player
      BY <1>0, <1>6, <2>1 DEF AddPlayer, RequestsTyped, Pending, Joining
    <3> DEFINE m == Touched(WithPlayer(lobby[k], p))
    <3>2. CASE lobby' = [lobby EXCEPT ![k] = m] /\ GotoWith(r, "publish_joined", ActivePlayers(m))
      <4>1. lobby'[k] = m
        BY <1>0, <3>2
      <4>2. lobby[k] \in LobbyRecord /\ Sorted(lobby[k])
        BY <1>0, TypeParts DEF QueuesSorted
      <4>3. InQueue(m, p)
        BY <4>2, WithPlayerMembers
      <4> HIDE DEF m
      <4>4. /\ request'[r].lobby = k
            /\ request'[r].player = p
            /\ request'[r].roster = ActivePlayers(m)
        BY <1>0, <3>1, <3>2 DEF GotoWith, RequestRecord
      <4>5. QED
        BY <3>1, <4>1, <4>3, <4>4
    <3>3. CASE Goto(r, "failed")
      BY <1>0, <3>3 DEF Goto, RequestRecord
    <3>4. QED
      BY <1>6, <2>1, <3>1, <3>2, <3>3 DEF AddPlayer, Target
  <2>2. CASE x # r
    BY <1>0, <1>6, <2>2 DEF AddPlayer, Goto, GotoWith
  <2>3. QED
    BY <2>1, <2>2
<1>7. ASSUME request' = request PROVE Goal
  BY <1>7
<1>8. QED
  BY <1>1, <1>2, <1>3, <1>4, <1>5, <1>6, <1>7
     DEF Next, Handle, RemovePlayer, CleanupScan, CleanupRemove, FallIdle, vars

\* A joining is published by a request that was about to.
LEMMA JoinedEventStep ==
    ASSUME TypeInv, [Next]_vars, NEW e \in EventsOf("PlayerJoinedLobby")'
    PROVE  \/ e \in EventsOf("PlayerJoinedLobby")
           \/ \E r \in Request :
                 /\ request[r].pc = "publish_joined"
                 /\ e.lobby = request[r].lobby
                 /\ e.player = request[r].player
                 /\ e.players = request[r].roster
<1> DEFINE Goal == \/ e \in EventsOf("PlayerJoinedLobby")
                   \/ \E r \in Request :
                         /\ request[r].pc = "publish_joined"
                         /\ e.lobby = request[r].lobby
                         /\ e.player = request[r].player
                         /\ e.players = request[r].roster
<1>1. e \in published' /\ e.kind = "PlayerJoinedLobby"
  BY DEF EventsOf
<1>2. ASSUME published' = published PROVE Goal
  BY <1>1, <1>2 DEF EventsOf
<1>3. ASSUME NEW r \in Request, PublishJoined(r) PROVE Goal
  BY <1>1, <1>3 DEF PublishJoined, EventsOf
<1>4. ASSUME NEW r \in Request, PublishStarting(r) PROVE Goal
  BY <1>1, <1>4 DEF PublishStarting, EventsOf
<1>5. QED
  BY <1>2, <1>3, <1>4
     DEF Next, Handle, Receive, FindLobby, CreateLobby, CountLobby, AddPlayer,
         CheckAndStart, RemovePlayer, CleanupScan, CleanupRemove, FallIdle, vars

\* Every operation keeps JoinInv.
LEMMA JoinStep ==
    ASSUME TypeInv, TypeInv', JoinInv, [Next]_vars
    PROVE  JoinInv'
<1>0. /\ RequestsTyped
      /\ lobby' \in [LobbyId -> LobbyRecord]
      /\ QueuesSorted'
      /\ issued \subseteq LobbyId
      /\ issued \subseteq issued'
  BY TypeParts, LobbyChanges DEF TypeInv, TypeOK
<1>1. ASSUME NEW r \in Request, request[r].pc = "publish_joined"
      PROVE  /\ request[r].lobby \in issued
             /\ lobby'[request[r].lobby].type = lobby[request[r].lobby].type
             /\ Listed(lobby[request[r].lobby].type, request[r].player, request[r].roster)
             /\ request[r].roster # <<>>
  <2>1. request[r].lobby \in issued
    BY <1>0, <1>1 DEF RequestsTyped, Joined
  <2>2. QED
    BY <1>1, <2>1, TypeKept DEF JoinInv
<1>2. ASSUME NEW r \in Request, request'[r].pc = "publish_joined"
      PROVE  /\ Listed(lobby'[request'[r].lobby].type, request'[r].player, request'[r].roster)
             /\ request'[r].roster # <<>>
  <2>1. CASE request'[r] = request[r]
    BY <1>1, <1>2, <2>1
  <2>2. CASE /\ request[r].lobby \in issued
             /\ request'[r].lobby = request[r].lobby
             /\ request'[r].player = request[r].player
             /\ request'[r].roster = ActivePlayers(lobby'[request[r].lobby])
             /\ InQueue(lobby'[request[r].lobby], request[r].player)
    <3>1. PICK m \in LobbyRecord : m = lobby'[request[r].lobby]
      BY <1>0, <2>2
    <3>2. Sorted(m) /\ InQueue(m, request[r].player)
      BY <1>0, <2>2, <3>1 DEF QueuesSorted
    <3>3. Listed(m.type, request[r].player, ActivePlayers(m))
      BY <3>1, <3>2, JoinerListed
    <3>4. ActivePlayers(m) # <<>>
      <4>1. Len(m.queue) \in Nat \ {0} /\ Capacity(m) \in Nat \ {0}
        BY <3>1, <3>2, BoundTypes DEF InQueue
      <4>2. Len(ActivePlayers(m)) # 0
        <5>1. IsFull(m) => Len(ActivePlayers(m)) = Capacity(m)
          BY <3>1, RecordIsLobby, ActivePlayersProperties
        <5>2. ~IsFull(m) => ActivePlayers(m) = m.queue
          BY DEF ActivePlayers
        <5>3. QED
          BY <4>1, <5>1, <5>2
      <4>3. QED
        BY <4>2
    <3>5. QED
      BY <2>2, <3>1, <3>3, <3>4
  <2>3. QED
    BY <1>2, <2>1, <2>2, JoinerStep
<1>3. ASSUME NEW e \in EventsOf("PlayerJoinedLobby")'
      PROVE  e.lobby \in issued' /\ Listed(lobby'[e.lobby].type, e.player, e.players)
  <2>1. CASE e \in EventsOf("PlayerJoinedLobby")
    BY <1>0, <2>1, TypeKept DEF JoinInv
  <2>2. ASSUME NEW r \in Request, request[r].pc = "publish_joined",
               e.lobby = request[r].lobby, e.player = request[r].player,
               e.players = request[r].roster
        PROVE  e.lobby \in issued' /\ Listed(lobby'[e.lobby].type, e.player, e.players)
    BY <1>0, <1>1, <2>2
  <2>3. QED
    BY <2>1, <2>2, JoinedEventStep
<1>4. QED
  BY <1>2, <1>3 DEF JoinInv

\* JoinInv in every reachable state.
LEMMA JoinInvariant == Spec => []JoinInv
<1>1. Init => JoinInv
  BY DEF Init, JoinInv, Unsent, EventsOf
<1>2. TypeInv /\ TypeInv' /\ JoinInv /\ [Next]_vars => JoinInv'
  BY JoinStep
<1>3. QED
  BY <1>1, <1>2, TypeInvariant, PTL DEF Spec

\* A PlayerJoinedLobby event leaves its own player out only when the lobby was
\* overfilled by handlers running at once, and never a human for a bot.
THEOREM JoinersAreListed == Spec => []JoinersListed
<1>1. JoinInv => JoinersListed
  BY DEF JoinInv, JoinersListed, Listed, Capacity
<1>2. QED
  BY <1>1, JoinInvariant, PTL
-----------------------------------------------------------------------------
(***************************************************************************)
(* Wake-ups.  A lobby becomes ReadyToStart by a joining, whose request will *)
(* check it, and never by a departure: with humans first, or no humans     *)
(* required, a departure brings no human among the active players who were *)
(* not enough before.  validate_config accepts configurations without      *)
(* either, and for those the property does not hold.                       *)
(***************************************************************************)

HumansCount ==
    \A t \in LobbyType : Config[t].prioritize_humans \/ Config[t].min_human_players = 0

\* A departure does not make a lobby startable.
LEMMA DepartureStartsNothing ==
    ASSUME HumansCount, NEW l \in LobbyRecord, Sorted(l), NEW p, InQueue(l, p),
           Startable(Touched(WithoutPlayer(l, p)))
    PROVE  Startable(l)
<1> DEFINE k == [l EXCEPT !.queue = Dequeue(l, p)]
           u == UpdateState(k)
           m == Touched(u)
           n == Len(l.queue)
           c == Config[l.type].capacity
<1>1. k.type = l.type /\ k.queue = Dequeue(l, p)
  BY DEF LobbyRecord
<1> HIDE DEF k
<1>2. IsLobby(l) /\ l.queue \in Seq(Player) /\ n \in Nat /\ l.type \in LobbyType
  BY RecordIsLobby DEF LobbyRecord
<1>3. PICK x \in 1..n : LeavesFrom(l, x, k)
  BY <1>1, <1>2, DequeuePositions
<1>4. k.queue \in Seq(Player) /\ Len(k.queue) = n - 1
  BY <1>3 DEF LeavesFrom
<1>5. k \in LobbyRecord
  BY <1>1, <1>4 DEF LobbyRecord, k
<1>6. u \in LobbyRecord /\ u.type = k.type /\ u.queue = k.queue
  BY <1>5, UpdateStateProperties
<1> HIDE DEF u
<1>7. m.type = k.type /\ m.queue = k.queue
  BY <1>6, TouchedProperties
<1>8. m = Touched(WithoutPlayer(l, p))
  BY DEF WithoutPlayer, k, u
<1> HIDE DEF m
<1>9. Startable(k)
  BY <1>7, <1>8, SameQueue
<1>10. c \in Nat \ {0} /\ c = Capacity(l) /\ c = Capacity(k)
  BY <1>1, <1>2, CapacityType DEF Capacity, MaxCapacity
<1>11. IsFull(l) /\ IsFull(k)
  BY <1>2, <1>4, <1>9, <1>10 DEF Startable, IsFull
<1>12. /\ \A i \in 1..c : ActivePlayers(l)[i] = l.queue[i]
       /\ \A i \in 1..c : ActivePlayers(k)[i] = k.queue[i]
       /\ Len(ActivePlayers(l)) = c
       /\ Len(ActivePlayers(k)) = c
  BY <1>2, <1>5, <1>10, <1>11, RecordIsLobby, ActivePlayersProperties
<1>13. ActiveHumans(l) \subseteq 1..c /\ IsFiniteSet(ActiveHumans(l)) /\ Cardinality(ActiveHumans(l)) \in Nat
  <2>1. ActiveHumans(l) \subseteq 1..c
    BY <1>12 DEF ActiveHumans
  <2>2. 1 \in Int /\ c \in Int
    BY <1>10
  <2>3. IsFiniteSet(1..c)
    BY <2>2, FS_Interval
  <2>4. QED
    BY <2>1, <2>3, FS_Subset, FS_CardinalityType
<1>14. CASE Config[l.type].prioritize_humans
  <2>1. ASSUME NEW i \in ActiveHumans(k) PROVE i \in ActiveHumans(l)
    <3>1. i \in 1..c /\ k.queue[i] \in Human /\ i \in 1..(n - 1)
      BY <1>2, <1>4, <1>10, <1>11, <1>12 DEF ActiveHumans, IsFull
    <3>2. l.queue[i] \in Human
      <4>1. CASE k.queue[i] = l.queue[i]
        BY <3>1, <4>1
      <4>2. CASE i + 1 \in 1..n /\ k.queue[i] = l.queue[i+1]
        <5>1. InOrder(l)
          BY <1>2, SortedInOrder
        <5>2. i \in 1..n /\ i + 1 \in 1..n /\ i < i + 1
          BY <1>2, <3>1, <4>2
        <5>3. Priority(l.type, l.queue[i]) <= Priority(l.type, l.queue[i+1])
          BY <5>1, <5>2, Zenon DEF InOrder
        <5>4. Priority(l.type, l.queue[i+1]) = 1
          BY <1>14, <3>1, <4>2 DEF Priority
        <5>5. QED
          BY <5>3, <5>4 DEF Priority
      <4>3. QED
        BY <1>3, <3>1, <4>1, <4>2 DEF LeavesFrom
    <3>3. QED
      BY <1>12, <3>1, <3>2 DEF ActiveHumans
  <2>2. ActiveHumans(k) \subseteq ActiveHumans(l)
    BY <2>1
  <2>3. Cardinality(ActiveHumans(k)) <= Cardinality(ActiveHumans(l)) /\ Cardinality(ActiveHumans(k)) \in Nat
    BY <1>13, <2>2, FS_Subset, FS_CardinalityType
  <2>4. Cardinality(ActiveHumans(k)) >= Config[l.type].min_human_players
    BY <1>1, <1>9 DEF Startable, MeetsHumanRequirement
  <2>5. Config[l.type].min_human_players \in Nat
    BY <1>2, ConfigAssumption DEF LobbyConfiguration
  <2>6. QED
    BY <1>11, <1>13, <2>3, <2>4, <2>5 DEF Startable, MeetsHumanRequirement
<1>15. CASE Config[l.type].min_human_players = 0
  BY <1>11, <1>13, <1>15 DEF Startable, MeetsHumanRequirement
<1>16. QED
  BY <1>2, <1>14, <1>15 DEF HumansCount

\* Somebody answers for lobby l: ReadyHasStarter for one lobby.
Answers(r, l) ==
    /\ request[r].lobby = l
    /\ \/ request[r].pc \in {"publish_joined", "check"}
       \/ request[r].pc = "failed" /\ request[r].roster # <<>>

\* A request that answers for a lobby goes on doing so until it starts the game.
LEMMA AnswersKept ==
    ASSUME TypeInv, JoinInv, [Next]_vars, NEW l \in live, NEW w \in Request,
           Answers(w, l), ShouldStart(lobby[l]), lobby'[l].state # "Starting"
    PROVE  Answers(w, l)'
<1>0. /\ request \in [Request -> RequestRecord]
      /\ lobby \in [LobbyId -> LobbyRecord]
      /\ l \in LobbyId
  BY TypeParts DEF RequestsTyped
<1>1. ASSUME request'[w] = request[w] PROVE Answers(w, l)'
  BY <1>1 DEF Answers
<1>2. ASSUME NEW r \in Request, Receive(r) PROVE request'[w] = request[w]
  <2>1. r # w
    BY <1>2 DEF Receive, Answers
  <2>2. QED
    BY <1>0, <1>2, <2>1 DEF Receive
<1>3. ASSUME NEW r \in Request, r # w, Handle(r) PROVE request'[w] = request[w]
  BY <1>3, HandleMoves
<1>4. ASSUME FindLobby(w) \/ CreateLobby(w) \/ CountLobby(w) \/ AddPlayer(w) \/ PublishStarting(w)
      PROVE  FALSE
  BY <1>4 DEF FindLobby, CreateLobby, CountLobby, AddPlayer, PublishStarting, Answers
<1>5. ASSUME PublishJoined(w) PROVE Answers(w, l)'
  <2>1. request[w].roster # <<>> /\ request[w].lobby = l
    BY <1>5 DEF PublishJoined, JoinInv, Answers
  <2>2. CASE GotoWith(w, "check", <<>>)
    <3>1. request'[w].pc = "check" /\ request'[w].lobby = l
      BY <1>0, <2>1, <2>2 DEF GotoWith, RequestRecord
    <3>2. QED
      BY <3>1 DEF Answers
  <2>3. CASE Goto(w, "failed")
    <3>1. /\ request'[w].pc = "failed"
          /\ request'[w].lobby = l
          /\ request'[w].roster = request[w].roster
      BY <1>0, <2>1, <2>3 DEF Goto, RequestRecord
    <3>2. QED
      BY <2>1, <3>1 DEF Answers
  <2>4. QED
    BY <1>5, <2>2, <2>3 DEF PublishJoined
<1>6. ASSUME CheckAndStart(w) PROVE FALSE
  <2>1. lobby' = [lobby EXCEPT ![l] = Touched(MarkedStarting(lobby[l]))]
    BY <1>6 DEF CheckAndStart, Answers, Target
  <2>2. lobby[l] \in LobbyRecord /\ lobby'[l] = Touched(MarkedStarting(lobby[l]))
    BY <1>0, <2>1
  <2>3. QED
    BY <2>2, MarkedStartingProperties
<1>7. ASSUME NEW r \in Request, Handle(r) PROVE Answers(w, l)'
  BY <1>1, <1>3, <1>4, <1>5, <1>6, <1>7 DEF Handle
<1>8. CASE request' = request
  BY <1>1, <1>8
<1>9. QED
  BY <1>1, <1>2, <1>7, <1>8
     DEF Next, RemovePlayer, CleanupScan, CleanupRemove, FallIdle, vars

\* A lobby that becomes ready was entered in that step.
LEMMA ReadyByEntry ==
    ASSUME HumansCount, TypeInv, StatesMatchQueues, [Next]_vars, NEW l \in live,
           lobby[l].state # "ReadyToStart", lobby'[l].state = "ReadyToStart"
    PROVE  \E r \in Request : Answers(r, l)'
<1>0. /\ request \in [Request -> RequestRecord]
      /\ RequestsTyped
      /\ lobby \in [LobbyId -> LobbyRecord]
      /\ issued \subseteq LobbyId
      /\ live \subseteq issued
      /\ l \in LobbyId
      /\ Sorted(lobby[l])
      /\ StateMatchesQueue(lobby[l])
  BY TypeParts DEF RequestsTyped, QueuesSorted, StatesMatchQueues
<1>1. ASSUME lobby'[l] = lobby[l] PROVE FALSE
  BY <1>1
<1>2. ASSUME NEW r \in Request, CreateLobby(r) PROVE FALSE
  BY <1>0, <1>1, <1>2 DEF CreateLobby
<1>3. ASSUME NEW r \in Request, AddPlayer(r) PROVE \E x \in Request : Answers(x, l)'
  <2>1. PICK k \in issued, p \in Player : k = request[r].lobby /\ p = request[r].player
    BY <1>0, <1>3 DEF AddPlayer, RequestsTyped, Pending, Joining
  <2> DEFINE m == Touched(WithPlayer(lobby[k], p))
  <2>2. lobby' = [lobby EXCEPT ![k] = m] /\ GotoWith(r, "publish_joined", ActivePlayers(m))
    BY <1>1, <1>3, <2>1 DEF AddPlayer, Target
  <2>3. k = l
    BY <1>0, <1>1, <2>2
  <2> HIDE DEF m
  <2>4. request'[r].pc = "publish_joined" /\ request'[r].lobby = l
    BY <1>0, <2>1, <2>2, <2>3 DEF GotoWith, RequestRecord
  <2>5. QED
    BY <2>4 DEF Answers
<1>4. ASSUME NEW r \in Request, CheckAndStart(r) PROVE FALSE
  <2> DEFINE k == request[r].lobby
             m == Touched(MarkedStarting(lobby[k]))
  <2>1. lobby' = [lobby EXCEPT ![k] = m]
    BY <1>1, <1>4 DEF CheckAndStart, Target
  <2>2. CASE l # k
    BY <1>0, <1>1, <2>1, <2>2
  <2>3. CASE l = k
    <3>1. lobby[l] \in LobbyRecord /\ lobby'[l] = Touched(MarkedStarting(lobby[l]))
      BY <1>0, <2>1, <2>3
    <3>2. QED
      BY <3>1, MarkedStartingProperties
  <2>4. QED
    BY <2>2, <2>3
<1>5. ASSUME NEW p \in Leavers, RemovePlayer(p) PROVE FALSE
  <2>1. PICK k \in live :
          /\ InQueue(lobby[k], p)
          /\ lobby' = [lobby EXCEPT ![k] = Touched(WithoutPlayer(lobby[k], p))]
    BY <1>5 DEF RemovePlayer
  <2>2. k = l
    BY <1>0, <1>1, <2>1
  <2> DEFINE m == Touched(WithoutPlayer(lobby[l], p))
  <2>3. lobby'[l] = m /\ lobby[l] \in LobbyRecord /\ InQueue(lobby[l], p)
    BY <1>0, <2>1, <2>2
  <2>4. /\ m.type = lobby[l].type
        /\ ~Open(lobby[l]) => m.state = lobby[l].state
        /\ StateMatchesQueue(m)
        /\ m.state = "ReadyToStart"
    BY <1>0, <2>3, WithoutPlayerProperties
  <2>5. Startable(m) /\ Config[lobby[l].type].immediate_start_when_full
    BY <2>4 DEF StateMatchesQueue, Open
  <2>6. Startable(lobby[l])
    BY <1>0, <2>3, <2>5, DepartureStartsNothing
  <2>7. Open(lobby[l])
    BY <2>4 DEF Open
  <2>8. QED
    BY <1>0, <2>5, <2>6, <2>7 DEF StateMatchesQueue
<1>6. ASSUME NEW k \in Idlers, FallIdle(k) PROVE FALSE
  <2>1. lobby[l] \in LobbyRecord /\ lobby' = [lobby EXCEPT ![k] = [lobby[k] EXCEPT !.idle = TRUE]]
    BY <1>0, <1>6 DEF FallIdle
  <2>2. lobby'[l].state = lobby[l].state
    BY <1>0, <2>1 DEF LobbyRecord
  <2>3. QED
    BY <2>2
<1>7. ASSUME lobby' = lobby PROVE FALSE
  BY <1>1, <1>7
<1>8. QED
  BY <1>2, <1>3, <1>4, <1>5, <1>6, <1>7
     DEF Next, Handle, Receive, FindLobby, CountLobby, PublishJoined, PublishStarting,
         CleanupScan, CleanupRemove, vars

\* A wake-up is lost only with a publish that failed: while a lobby is
\* ReadyToStart, some request that joined it has yet to check whether to start
\* it, or one has ended because its joining could not be announced.
THEOREM ReadyLobbiesHaveStarters == HumansCount => (Spec => []ReadyHasStarter)
<1> SUFFICES ASSUME HumansCount PROVE Spec => []ReadyHasStarter
  OBVIOUS
<1>1. Init => ReadyHasStarter
  BY DEF Init, ReadyHasStarter
<1>2. TypeInv /\ JoinInv /\ StatesMatchQueues /\ ReadyHasStarter /\ [Next]_vars
         => ReadyHasStarter'
  <2> SUFFICES ASSUME TypeInv, JoinInv, StatesMatchQueues, ReadyHasStarter, [Next]_vars
               PROVE  ReadyHasStarter'
    OBVIOUS
  <2> SUFFICES ASSUME NEW l \in live', lobby'[l].state = "ReadyToStart"
               PROVE  \E r \in Request : Answers(r, l)'
    BY DEF ReadyHasStarter, Answers
  <2>1. l \in live
    <3>1. CASE l \notin live
      <4>1. PICK t \in LobbyType : lobby'[l] = NewLobby(t)
        BY <3>1, LobbyChanges
      <4>2. QED
        BY <4>1, NewLobbyProperties
    <3>2. QED
      BY <3>1
  <2>2. CASE lobby[l].state = "ReadyToStart"
    <3>1. PICK w \in Request : Answers(w, l)
      BY <2>1, <2>2 DEF ReadyHasStarter, Answers
    <3>2. ShouldStart(lobby[l])
      BY <2>1, <2>2 DEF StatesMatchQueues, StateMatchesQueue, Open, ShouldStart
    <3>3. Answers(w, l)'
      BY <2>1, <3>1, <3>2, AnswersKept
    <3>4. QED
      BY <3>3
  <2>3. CASE lobby[l].state # "ReadyToStart"
    BY <2>1, <2>3, ReadyByEntry
  <2>4. QED
    BY <2>2, <2>3
<1>3. QED
  BY <1>1, <1>2, TypeInvariant, JoinInvariant, StatesStayMatched, PTL DEF Spec
-----------------------------------------------------------------------------
(***************************************************************************)
(* The totals.  Each counter is compared with a set of requests or of      *)
(* lobbies, and every operation changes both or neither, or the requests   *)
(* in between are counted as well.                                         *)
(***************************************************************************)

Taken    == {r \in Request : request[r].pc # "unsent"}
Started  == {l \in issued : lobby[l].state = "Starting"}

\* TotalsExact by the names of its sets.
LEMMA TotalsBySets ==
    TotalsExact <=>
        /\ stats.players_queued = Cardinality(Taken)
        /\ stats.lobbies_created + Cardinality(Counting) = Cardinality(issued)
        /\ stats.lobbies_cleaned = Cardinality(issued \ live)
        /\ stats.games_started = Cardinality(Started)
  BY DEF TotalsExact, Taken, Started

\* The sets are finite.
LEMMA TotalSets ==
    ASSUME TypeInv
    PROVE  /\ IsFiniteSet(Taken) /\ Cardinality(Taken) \in Nat
           /\ IsFiniteSet(Counting) /\ Cardinality(Counting) \in Nat
           /\ IsFiniteSet(issued) /\ Cardinality(issued) \in Nat
           /\ IsFiniteSet(issued \ live) /\ Cardinality(issued \ live) \in Nat
           /\ IsFiniteSet(Started) /\ Cardinality(Started) \in Nat
<1>1. Taken \subseteq Request /\ Counting \subseteq Request
  BY DEF Taken, Counting
<1>2. IsFiniteSet(issued)
  BY TypeParts, ManagerAssumption, FS_Subset
<1>3. IsFiniteSet(issued \ live) /\ IsFiniteSet(Started)
  <2>1. issued \ live \subseteq issued /\ Started \subseteq issued
    BY DEF Started
  <2>2. QED
    BY <1>2, <2>1, FS_Subset
<1>4. QED
  BY <1>1, <1>2, <1>3, RequestSets, FS_CardinalityType

\* A handler's step from one pc to another.
LEMMA PcStep ==
    ASSUME TypeInv, NEW r \in Request, Handle(r)
    PROVE  /\ Taken' = Taken
           /\ CreateLobby(r) => r \notin Counting /\ Counting' = Counting \cup {r}
           /\ CountLobby(r) => r \in Counting /\ Counting' = Counting \ {r}
           /\ ~CreateLobby(r) /\ ~CountLobby(r) => Counting' = Counting
<1>0. request \in [Request -> RequestRecord]
  BY TypeParts DEF RequestsTyped
<1>1. /\ request[r].pc \in Pending
      /\ \A x \in Request \ {r} : request'[x] = request[x]
  BY HandleMoves
<1>2. request'[r].pc # "unsent" /\ request[r].pc # "unsent"
  <2>1. request[r].pc # "unsent"
    BY <1>1 DEF Pending, Searching, Joining, Joined
  <2>2. CASE FindLobby(r)
    BY <1>0, <2>2 DEF FindLobby, Goto, RequestRecord
  <2>3. CASE CreateLobby(r)
    BY <1>0, <2>3 DEF CreateLobby, RequestRecord
  <2>4. CASE CountLobby(r) \/ AddPlayer(r) \/ PublishJoined(r)
    BY <1>0, <2>4 DEF CountLobby, AddPlayer, PublishJoined, Goto, GotoWith, RequestRecord
  <2>5. CASE CheckAndStart(r) \/ PublishStarting(r)
    BY <1>0, <2>5 DEF CheckAndStart, PublishStarting, Goto, GotoWith, RequestRecord
  <2>6. QED
    BY <2>1, <2>2, <2>3, <2>4, <2>5 DEF Handle
<1>3. Taken' = Taken
  BY <1>1, <1>2 DEF Taken
<1>4. ASSUME CreateLobby(r) PROVE r \notin Counting /\ Counting' = Counting \cup {r}
  <2>1. request[r].pc = "create" /\ request'[r].pc = "count"
    BY <1>0, <1>4 DEF CreateLobby, RequestRecord
  <2>2. QED
    BY <1>1, <2>1 DEF Counting
<1>5. ASSUME CountLobby(r) PROVE r \in Counting /\ Counting' = Counting \ {r}
  <2>1. request[r].pc = "count" /\ request'[r].pc = "add"
    BY <1>0, <1>5 DEF CountLobby, Goto, RequestRecord
  <2>2. QED
    BY <1>1, <2>1 DEF Counting
<1>6. ASSUME ~CreateLobby(r), ~CountLobby(r) PROVE Counting' = Counting
  <2>1. request[r].pc # "count" /\ request'[r].pc # "count"
    <3>1. CASE FindLobby(r)
      BY <1>0, <3>1 DEF FindLobby, Goto, RequestRecord
    <3>2. CASE AddPlayer(r) \/ PublishJoined(r)
      BY <1>0, <3>2 DEF AddPlayer, PublishJoined, Goto, GotoWith, RequestRecord
    <3>3. CASE CheckAndStart(r) \/ PublishStarting(r)
      BY <1>0, <3>3 DEF CheckAndStart, PublishStarting, Goto, GotoWith, RequestRecord
    <3>4. QED
      BY <1>6, <3>1, <3>2, <3>3 DEF Handle
  <2>2. QED
    BY <1>1, <2>1 DEF Counting
<1>7. QED
  BY <1>3, <1>4, <1>5, <1>6

\* Every operation keeps the totals.
LEMMA TotalsStep ==
    ASSUME TypeInv, TotalsExact, [Next]_vars
    PROVE  TotalsExact'
<1> DEFINE Goal == /\ stats'.players_queued = Cardinality(Taken')
                   /\ stats'.lobbies_created + Cardinality(Counting') = Cardinality(issued')
                   /\ stats'.lobbies_cleaned = Cardinality(issued' \ live')
                   /\ stats'.games_started = Cardinality(Started')
<1>0. /\ stats \in Stats
      /\ request \in [Request -> RequestRecord]
      /\ lobby \in [LobbyId -> LobbyRecord]
      /\ live \subseteq issued
      /\ issued \subseteq LobbyId
      /\ stats.players_queued = Cardinality(Taken)
      /\ stats.lobbies_created + Cardinality(Counting) = Cardinality(issued)
      /\ stats.lobbies_cleaned = Cardinality(issued \ live)
      /\ stats.games_started = Cardinality(Started)
  BY TypeParts, TotalsBySets DEF RequestsTyped
<1>1. /\ IsFiniteSet(Taken) /\ Cardinality(Taken) \in Nat
      /\ IsFiniteSet(Counting) /\ Cardinality(Counting) \in Nat
      /\ IsFiniteSet(issued) /\ Cardinality(issued) \in Nat
      /\ IsFiniteSet(issued \ live) /\ Cardinality(issued \ live) \in Nat
      /\ IsFiniteSet(Started) /\ Cardinality(Started) \in Nat
  BY TotalSets
<1>2. /\ stats.players_queued \in Nat
      /\ stats.lobbies_created \in Nat
      /\ stats.lobbies_cleaned \in Nat
      /\ stats.games_started \in Nat
  BY <1>0 DEF Stats
\* A step that moves no lobby into Starting.
<1>3. ASSUME issued' = issued, lobby' = lobby PROVE Started' = Started
  BY <1>3 DEF Started
<1>4. ASSUME request' = request PROVE Taken' = Taken /\ Counting' = Counting
  BY <1>4 DEF Taken, Counting
<1>5. ASSUME NEW r \in Request, Receive(r) PROVE Goal
  <2>1. /\ \A x \in Request \ {r} : request'[x] = request[x]
        /\ request[r].pc = "unsent"
        /\ request'[r].pc = "find"
    <3>1. PICK o \in Offers :
              request' = [request EXCEPT ![r].pc = "find", ![r].player = o.player,
                                         ![r].lobby_type = o.lobby_type]
      BY <1>5 DEF Receive
    <3>2. request[r].pc = "unsent"
      BY <1>5 DEF Receive
    <3>3. QED
      BY <1>0, <3>1, <3>2 DEF RequestRecord
  <2>2. Taken' = Taken \cup {r} /\ r \notin Taken /\ Counting' = Counting
    BY <2>1 DEF Taken, Counting
  <2>3. Cardinality(Taken') = Cardinality(Taken) + 1
    BY <1>1, <2>2, FS_AddElement
  <2>4. /\ stats'.players_queued = stats.players_queued + 1
        /\ stats'.lobbies_created = stats.lobbies_created
        /\ stats'.lobbies_cleaned = stats.lobbies_cleaned
        /\ stats'.games_started = stats.games_started
    BY <1>0, <1>5 DEF Receive, Stats
  <2>5. issued' = issued /\ live' = live /\ lobby' = lobby
    BY <1>5 DEF Receive
  <2>6. QED
    BY <1>0, <1>3, <2>2, <2>3, <2>4, <2>5
<1>6. ASSUME NEW r \in Request, CreateLobby(r) PROVE Goal
  <2>1. PICK k \in LobbyId \ issued :
          /\ issued' = issued \cup {k}
          /\ live' = live \cup {k}
          /\ lobby' = [lobby EXCEPT ![k] = NewLobby(request[r].lobby_type)]
    BY <1>6 DEF CreateLobby
  <2>2. Cardinality(issued') = Cardinality(issued) + 1 /\ issued' \ live' = issued \ live
    <3>1. k \notin issued /\ k \notin live
      BY <1>0
    <3>2. Cardinality(issued \cup {k}) = Cardinality(issued) + 1
      BY <1>1, <3>1, FS_AddElement
    <3>3. issued' \ live' = issued \ live
      BY <1>0, <2>1, <3>1
    <3>4. QED
      BY <2>1, <3>2, <3>3
  <2>3. Cardinality(Counting') = Cardinality(Counting) + 1 /\ Taken' = Taken
    <3>1. Taken' = Taken /\ r \notin Counting /\ Counting' = Counting \cup {r}
      BY <1>6, PcStep DEF Handle
    <3>2. QED
      BY <1>1, <3>1, FS_AddElement
  <2>4. Started' = Started
    <3>1. lobby'[k].state = "WaitingForPlayers"
      BY <1>0, <2>1 DEF NewLobby
    <3>2. \A l \in issued : lobby'[l] = lobby[l]
      BY <1>0, <2>1
    <3>3. QED
      BY <2>1, <3>1, <3>2 DEF Started
  <2>5. stats' = stats
    BY <1>6 DEF CreateLobby
  <2>6. stats'.lobbies_created + Cardinality(Counting') = Cardinality(issued')
    BY <1>0, <1>1, <1>2, <2>2, <2>3, <2>5
  <2>7. QED
    BY <1>0, <2>2, <2>3, <2>4, <2>5, <2>6
<1>7. ASSUME NEW r \in Request, CountLobby(r) PROVE Goal
  <2>1. /\ issued' = issued /\ live' = live /\ lobby' = lobby
        /\ stats' = [stats EXCEPT !.lobbies_created = @ + 1, !.active_lobbies = @ + 1]
    BY <1>7 DEF CountLobby
  <2>2. Cardinality(Counting') = Cardinality(Counting) - 1 /\ Taken' = Taken
    <3>1. Taken' = Taken /\ r \in Counting /\ Counting' = Counting \ {r}
      BY <1>7, PcStep DEF Handle
    <3>2. QED
      BY <1>1, <3>1, FS_RemoveElement
  <2>3. /\ stats'.players_queued = stats.players_queued
        /\ stats'.lobbies_created = stats.lobbies_created + 1
        /\ stats'.lobbies_cleaned = stats.lobbies_cleaned
        /\ stats'.games_started = stats.games_started
    BY <1>0, <2>1 DEF Stats
  <2>4. QED
    BY <1>0, <1>1, <1>2, <1>3, <2>1, <2>2, <2>3
<1>8. ASSUME NEW r \in Request, FindLobby(r) \/ PublishJoined(r) \/ PublishStarting(r)
      PROVE  Goal
  <2>1. issued' = issued /\ live' = live /\ lobby' = lobby /\ stats' = stats
    BY <1>8 DEF FindLobby, PublishJoined, PublishStarting
  <2>2. Taken' = Taken /\ Counting' = Counting
    <3>1. ~CreateLobby(r) /\ ~CountLobby(r)
      BY <1>8 DEF FindLobby, PublishJoined, PublishStarting, CreateLobby, CountLobby
    <3>2. QED
      BY <1>8, <3>1, PcStep DEF Handle
  <2>3. QED
    BY <1>0, <1>3, <2>1, <2>2
<1>9. ASSUME NEW r \in Request, AddPlayer(r) PROVE Goal
  <2>1. issued' = issued /\ live' = live /\ stats' = stats
    BY <1>9 DEF AddPlayer
  <2>2. Taken' = Taken /\ Counting' = Counting
    <3>1. ~CreateLobby(r) /\ ~CountLobby(r)
      BY <1>9 DEF AddPlayer, CreateLobby, CountLobby
    <3>2. QED
      BY <1>9, <3>1, PcStep DEF Handle
  <2>3. Started' = Started
    <3>1. PICK k \in issued, p \in Player : k = request[r].lobby /\ p = request[r].player
      BY <1>9, TypeParts DEF AddPlayer, RequestsTyped, Pending, Joining
    <3> DEFINE m == Touched(WithPlayer(lobby[k], p))
    <3>2. CASE CanAdd(lobby[k], p) /\ lobby' = [lobby EXCEPT ![k] = m]
      <4>1. lobby[k] \in LobbyRecord /\ Sorted(lobby[k])
        BY <1>0, TypeParts DEF QueuesSorted
      <4>2. lobby[k].state # "Starting" /\ m.state # "Starting"
        BY <3>2, <4>1, WithPlayerProperties DEF CanAdd, Open
      <4>3. lobby'[k] = m /\ \A l \in issued \ {k} : lobby'[l] = lobby[l]
        BY <1>0, <3>2
      <4> HIDE DEF m
      <4>4. QED
        BY <2>1, <4>2, <4>3 DEF Started
    <3>3. CASE lobby' = lobby
      BY <1>3, <2>1, <3>3
    <3>4. QED
      BY <1>9, <3>1, <3>2, <3>3 DEF AddPlayer, Target
  <2>4. QED
    BY <1>0, <2>1, <2>2, <2>3
<1>10. ASSUME NEW r \in Request, CheckAndStart(r) PROVE Goal
  <2>1. issued' = issued /\ live' = live
    BY <1>10 DEF CheckAndStart
  <2>2. Taken' = Taken /\ Counting' = Counting
    <3>1. ~CreateLobby(r) /\ ~CountLobby(r)
      BY <1>10 DEF CheckAndStart, CreateLobby, CountLobby
    <3>2. QED
      BY <1>10, <3>1, PcStep DEF Handle
  <2>3. PICK k \in issued : k = request[r].lobby
    BY <1>10, TypeParts DEF CheckAndStart, RequestsTyped, Joined
  <2> DEFINE m == Touched(MarkedStarting(lobby[k]))
  <2>4. CASE /\ ShouldStart(lobby[k])
             /\ lobby' = [lobby EXCEPT ![k] = m]
             /\ stats' = [stats EXCEPT !.games_started = @ + 1]
    <3>1. lobby[k] \in LobbyRecord
      BY <1>0
    <3>2. lobby'[k] = m /\ \A l \in issued \ {k} : lobby'[l] = lobby[l]
      BY <1>0, <2>4
    <3>3. lobby[k].state # "Starting" /\ m.state = "Starting"
      BY <2>4, <3>1, MarkedStartingProperties DEF ShouldStart
    <3> HIDE DEF m
    <3>4. k \notin Started /\ Started' = Started \cup {k}
      BY <2>1, <3>2, <3>3 DEF Started
    <3>5. Cardinality(Started') = Cardinality(Started) + 1
      BY <1>1, <3>4, FS_AddElement
    <3>6. /\ stats'.players_queued = stats.players_queued
          /\ stats'.lobbies_created = stats.lobbies_created
          /\ stats'.lobbies_cleaned = stats.lobbies_cleaned
          /\ stats'.games_started = stats.games_started + 1
      BY <1>0, <2>4 DEF Stats
    <3>7. QED
      BY <1>0, <1>1, <1>2, <2>1, <2>2, <3>5, <3>6
  <2>5. CASE lobby' = lobby /\ stats' = stats
    BY <1>0, <1>3, <2>1, <2>2, <2>5
  <2>6. QED
    BY <1>10, <2>3, <2>4, <2>5 DEF CheckAndStart, Target
<1>11. ASSUME NEW p \in Leavers, RemovePlayer(p) PROVE Goal
  <2>1. issued' = issued /\ live' = live /\ request' = request /\ stats' = stats
    BY <1>11 DEF RemovePlayer
  <2>2. PICK k \in live :
          /\ InQueue(lobby[k], p)
          /\ lobby' = [lobby EXCEPT ![k] = Touched(WithoutPlayer(lobby[k], p))]
    BY <1>11 DEF RemovePlayer
  <2> DEFINE m == Touched(WithoutPlayer(lobby[k], p))
  <2>3. lobby[k] \in LobbyRecord /\ Sorted(lobby[k]) /\ k \in issued
    BY <1>0, TypeParts DEF QueuesSorted
  <2>4. m.state = "Starting" <=> lobby[k].state = "Starting"
    BY <2>2, <2>3, WithoutPlayerProperties DEF Open
  <2>5. lobby'[k] = m /\ \A l \in issued \ {k} : lobby'[l] = lobby[l]
    BY <1>0, <2>2
  <2> HIDE DEF m
  <2>6. Started' = Started
    BY <2>1, <2>3, <2>4, <2>5 DEF Started
  <2>7. QED
    BY <1>0, <1>4, <2>1, <2>6
<1>12. ASSUME CleanupRemove PROVE Goal
  <2> DEFINE C == cleanup \cap live
  <2>1. /\ issued' = issued /\ lobby' = lobby /\ request' = request
        /\ live' = live \ cleanup
    BY <1>12 DEF CleanupRemove
  <2>2. issued' \ live' = (issued \ live) \cup C /\ (issued \ live) \cap C = {}
    BY <1>0, <2>1
  <2>3. IsFiniteSet(C) /\ Cardinality(C) \in Nat
    BY <1>0, <1>1, FS_Subset, FS_CardinalityType
  <2>4. Cardinality(issued' \ live') = Cardinality(issued \ live) + Cardinality(C)
    <3>1. Cardinality((issued \ live) \cap C) = 0
      BY <2>2, FS_EmptySet
    <3> HIDE DEF C
    <3>2. Cardinality((issued \ live) \cup C) =
            Cardinality(issued \ live) + Cardinality(C) - Cardinality((issued \ live) \cap C)
      BY <1>1, <2>3, FS_Union
    <3>3. Cardinality((issued \ live) \cup C) = Cardinality(issued \ live) + Cardinality(C)
      BY <1>1, <2>3, <3>1, <3>2
    <3>4. QED
      BY <2>2, <3>3, Zenon
  <2>5. /\ stats'.players_queued = stats.players_queued
        /\ stats'.lobbies_created = stats.lobbies_created
        /\ stats'.lobbies_cleaned = stats.lobbies_cleaned + Cardinality(C)
        /\ stats'.games_started = stats.games_started
    BY <1>0, <1>12 DEF CleanupRemove, Stats
  <2>6. QED
    BY <1>0, <1>3, <1>4, <2>1, <2>4, <2>5
<1>13. ASSUME NEW k \in Idlers, FallIdle(k) PROVE Goal
  <2>1. issued' = issued /\ live' = live /\ request' = request /\ stats' = stats
    BY <1>13 DEF FallIdle
  <2>2. lobby[k] \in LobbyRecord /\ lobby' = [lobby EXCEPT ![k] = [lobby[k] EXCEPT !.idle = TRUE]]
    BY <1>0, <1>13 DEF FallIdle
  <2>3. \A l \in issued : lobby'[l].state = lobby[l].state
    BY <1>0, <2>2 DEF LobbyRecord
  <2>4. Started' = Started
    BY <2>1, <2>3 DEF Started
  <2>5. QED
    BY <1>0, <1>4, <2>1, <2>4
<1>14. ASSUME CleanupScan \/ UNCHANGED vars PROVE Goal
  <2>1. /\ issued' = issued /\ live' = live /\ lobby' = lobby
        /\ request' = request /\ stats' = stats
    BY <1>14 DEF CleanupScan, vars
  <2>2. QED
    BY <1>0, <1>3, <1>4, <2>1
<1>15. Goal
  BY <1>5, <1>6, <1>7, <1>8, <1>9, <1>10, <1>11, <1>12, <1>13, <1>14 DEF Next, Handle
<1>16. TotalsExact' <=> Goal
  BY DEF TotalsExact, Taken, Started
<1>17. QED
  BY <1>15, <1>16

\* The totals agree with what happened, although each is updated in a critical
\* section other than the change it counts.
THEOREM TotalsStayExact == Spec => []TotalsExact
<1>1. Init => TotalsExact
  <2> SUFFICES ASSUME Init PROVE TotalsExact
    OBVIOUS
  <2>1. Taken = {} /\ Counting = {} /\ issued = {} /\ issued \ live = {} /\ Started = {}
    BY DEF Init, Taken, Counting, Started, Unsent
  <2>2. Cardinality({}) = 0
    BY FS_EmptySet
  <2>3. /\ stats.players_queued = 0
        /\ stats.lobbies_created = 0
        /\ stats.lobbies_cleaned = 0
        /\ stats.games_started = 0
    BY DEF Init
  <2>4. QED
    BY <2>1, <2>2, <2>3, TotalsBySets
<1>2. TypeInv /\ TotalsExact /\ [Next]_vars => TotalsExact'
  BY TotalsStep
<1>3. QED
  BY <1>1, <1>2, TypeInvariant, PTL DEF Spec
-----------------------------------------------------------------------------
(***************************************************************************)
(* Announcements.  Whoever is in a queue came in by a request that owes    *)
(* the announcement until it has made it or failed to, and a game is       *)
(* played by players who were in the queue.                                *)
(***************************************************************************)

\* The joining of player p to lobby l is accounted for.
Accounted(l, p) == JoinAnnounced(l, p) \/ \E r \in Request : JoinOwed(r, l, p)

\* Everyone in a queue and on a roster is accounted for.
AccountInv ==
    /\ \A l \in LobbyId : \A p : InQueue(lobby[l], p) => Accounted(l, p)
    /\ \A r \in Request :
          request[r].pc = "publish_starting" =>
              \A i \in 1..Len(request[r].roster) :
                  Accounted(request[r].lobby, request[r].roster[i])
    /\ PlayersAnnounced

\* Events are not taken back.
LEMMA PublishedKept ==
    ASSUME [Next]_vars
    PROVE  published \subseteq published'
  BY DEF Next, Handle, Receive, FindLobby, CreateLobby, CountLobby, AddPlayer, PublishJoined,
         CheckAndStart, PublishStarting, RemovePlayer, CleanupScan, CleanupRemove, FallIdle, vars

\* An announced joining stays announced.
LEMMA AnnouncedKept ==
    ASSUME [Next]_vars, NEW l, NEW p, JoinAnnounced(l, p)
    PROVE  JoinAnnounced(l, p)'
  BY PublishedKept DEF JoinAnnounced, EventsOf

\* A step of a handler that is about to announce a joining, or failed to.
LEMMA OwedMoves ==
    ASSUME TypeInv, JoinInv, NEW r \in Request, NEW l, NEW p, JoinOwed(r, l, p), Handle(r)
    PROVE  JoinAnnounced(l, p)' \/ JoinOwed(r, l, p)'
<1>0. request \in [Request -> RequestRecord]
  BY TypeParts DEF RequestsTyped
<1>1. PublishJoined(r)
  BY HandleMoves DEF JoinOwed, Handle, FindLobby, CreateLobby, CountLobby, AddPlayer,
     CheckAndStart, PublishStarting
<1>2. /\ request[r].pc = "publish_joined" /\ request[r].roster # <<>>
      /\ request[r].lobby = l /\ request[r].player = p
  BY <1>1 DEF PublishJoined, JoinInv, JoinOwed
<1>3. CASE published' = published \cup
             {[kind |-> "PlayerJoinedLobby", lobby |-> request[r].lobby,
               player |-> request[r].player, players |-> request[r].roster]}
  <2> DEFINE e == [kind |-> "PlayerJoinedLobby", lobby |-> l, player |-> p,
                   players |-> request[r].roster]
  <2>1. e \in published'
    BY <1>2, <1>3
  <2>2. e.kind = "PlayerJoinedLobby" /\ e.lobby = l /\ e.player = p
    OBVIOUS
  <2> HIDE DEF e
  <2>3. QED
    BY <2>1, <2>2 DEF JoinAnnounced, EventsOf
<1>4. CASE Goto(r, "failed")
  <2>1. /\ request'[r].pc = "failed" /\ request'[r].roster = request[r].roster
        /\ request'[r].lobby = l /\ request'[r].player = p
    BY <1>0, <1>2, <1>4 DEF Goto, RequestRecord
  <2>2. QED
    BY <1>2, <2>1 DEF JoinOwed
<1>5. QED
  BY <1>1, <1>3, <1>4 DEF PublishJoined

\* What is accounted for stays so.
LEMMA AccountKept ==
    ASSUME TypeInv, JoinInv, [Next]_vars, NEW l, NEW p, Accounted(l, p)
    PROVE  Accounted(l, p)'
<1>0. request \in [Request -> RequestRecord]
  BY TypeParts DEF RequestsTyped
<1>1. CASE JoinAnnounced(l, p)
  BY <1>1, AnnouncedKept DEF Accounted
<1>2. ASSUME NEW w \in Request, JoinOwed(w, l, p) PROVE Accounted(l, p)'
  <2>1. ASSUME request'[w] = request[w] PROVE Accounted(l, p)'
    BY <1>2, <2>1 DEF Accounted, JoinOwed
  <2>2. ASSUME NEW r \in Request, Receive(r) PROVE request'[w] = request[w]
    <3>1. r # w
      BY <1>2, <2>2 DEF Receive, JoinOwed
    <3>2. QED
      BY <1>0, <2>2, <3>1 DEF Receive
  <2>3. ASSUME NEW r \in Request, r # w, Handle(r) PROVE request'[w] = request[w]
    BY <2>3, HandleMoves
  <2>4. CASE Handle(w)
    BY <1>2, <2>4, OwedMoves DEF Accounted
  <2>5. CASE request' = request
    BY <2>1, <2>5
  <2>6. QED
    BY <2>1, <2>2, <2>3, <2>4, <2>5
       DEF Next, RemovePlayer, CleanupScan, CleanupRemove, FallIdle, vars
<1>3. QED
  BY <1>1, <1>2 DEF Accounted

\* Whoever is new in a queue was entered by a request that owes the announcement.
LEMMA EntryOwed ==
    ASSUME TypeInv, [Next]_vars, NEW l \in LobbyId, NEW p,
           InQueue(lobby'[l], p), ~InQueue(lobby[l], p)
    PROVE  \E r \in Request : JoinOwed(r, l, p)'
<1> DEFINE Goal == \E r \in Request : JoinOwed(r, l, p)'
<1>0. /\ request \in [Request -> RequestRecord]
      /\ RequestsTyped
      /\ lobby \in [LobbyId -> LobbyRecord]
      /\ issued \subseteq LobbyId
      /\ live \subseteq issued
      /\ lobby[l] \in LobbyRecord /\ Sorted(lobby[l])
  BY TypeParts DEF RequestsTyped, QueuesSorted
<1>1. ASSUME lobby'[l].queue = lobby[l].queue PROVE FALSE
  BY <1>1 DEF InQueue
<1>2. ASSUME NEW r \in Request, CreateLobby(r) PROVE FALSE
  <2>1. PICK k \in LobbyId \ issued :
            lobby' = [lobby EXCEPT ![k] = NewLobby(request[r].lobby_type)]
    BY <1>2 DEF CreateLobby
  <2>2. k = l
    BY <1>0, <1>1, <2>1
  <2>3. request[r].lobby_type \in LobbyType
    BY <1>0 DEF RequestRecord
  <2>4. lobby'[l].queue = <<>>
    BY <1>0, <2>1, <2>2, <2>3, NewLobbyProperties
  <2>5. QED
    BY <2>4 DEF InQueue
<1>3. ASSUME NEW r \in Request, AddPlayer(r) PROVE Goal
  <2>1. PICK k \in issued, x \in Player : k = request[r].lobby /\ x = request[r].player
    BY <1>0, <1>3 DEF AddPlayer, RequestsTyped, Pending, Joining
  <2> DEFINE m == Touched(WithPlayer(lobby[k], x))
  <2>2. lobby' = [lobby EXCEPT ![k] = m] /\ GotoWith(r, "publish_joined", ActivePlayers(m))
    BY <1>1, <1>3, <2>1 DEF AddPlayer, Target
  <2>3. k = l
    BY <1>0, <1>1, <2>2
  <2>4. InQueue(m, p)
    BY <1>0, <2>2, <2>3
  <2>5. x = p
    BY <1>0, <2>3, <2>4, WithPlayerMembers
  <2> HIDE DEF m
  <2>6. request'[r].pc = "publish_joined" /\ request'[r].lobby = l /\ request'[r].player = p
    BY <1>0, <2>1, <2>2, <2>3, <2>5 DEF GotoWith, RequestRecord
  <2>7. QED
    BY <2>6 DEF JoinOwed
<1>4. ASSUME NEW r \in Request, CheckAndStart(r) PROVE FALSE
  <2> DEFINE k == request[r].lobby
             m == Touched(MarkedStarting(lobby[k]))
  <2>1. lobby' = [lobby EXCEPT ![k] = m]
    BY <1>1, <1>4 DEF CheckAndStart, Target
  <2>2. CASE l # k
    BY <1>0, <1>1, <2>1, <2>2
  <2>3. CASE l = k
    <3>1. lobby'[l] = Touched(MarkedStarting(lobby[l]))
      BY <1>0, <2>1, <2>3
    <3>2. QED
      BY <1>0, <1>1, <3>1, MarkedStartingProperties
  <2>4. QED
    BY <2>2, <2>3
<1>5. ASSUME NEW x \in Leavers, RemovePlayer(x) PROVE FALSE
  <2>1. PICK k \in live :
          /\ InQueue(lobby[k], x)
          /\ lobby' = [lobby EXCEPT ![k] = Touched(WithoutPlayer(lobby[k], x))]
    BY <1>5 DEF RemovePlayer
  <2>2. k = l
    BY <1>0, <1>1, <2>1
  <2>3. lobby'[l] = Touched(WithoutPlayer(lobby[l], x)) /\ InQueue(lobby[l], x)
    BY <1>0, <2>1, <2>2
  <2>4. QED
    BY <1>0, <2>3, WithoutPlayerMembers
<1>6. ASSUME NEW k \in Idlers, FallIdle(k) PROVE FALSE
  <2>1. lobby' = [lobby EXCEPT ![k] = [lobby[k] EXCEPT !.idle = TRUE]]
    BY <1>6 DEF FallIdle
  <2>2. lobby'[l].queue = lobby[l].queue
    BY <1>0, <2>1 DEF LobbyRecord
  <2>3. QED
    BY <1>1, <2>2
<1>7. ASSUME lobby' = lobby PROVE FALSE
  BY <1>1, <1>7
<1>8. QED
  BY <1>2, <1>3, <1>4, <1>5, <1>6, <1>7
     DEF Next, Handle, Receive, FindLobby, CountLobby, PublishJoined, PublishStarting,
         CleanupScan, CleanupRemove, vars

\* The team of a starting game is queued.
LEMMA TeamQueued ==
    ASSUME NEW l \in LobbyRecord
    PROVE  \A i \in 1..Len(ActivePlayers(l)) : InQueue(l, ActivePlayers(l)[i])
<1> DEFINE q == ActivePlayers(l)
<1>1. /\ q \in Seq(Player) /\ Len(q) <= Len(l.queue)
      /\ \A i \in 1..Len(q) : q[i] = l.queue[i]
      /\ Len(l.queue) \in Nat /\ Len(q) \in Nat
  BY RecordIsLobby, ActivePlayersProperties DEF LobbyRecord
<1> HIDE DEF q
<1>2. \A i \in 1..Len(q) : InQueue(l, q[i])
  BY <1>1 DEF InQueue
<1>3. QED
  BY <1>2 DEF q

\* Every operation keeps AccountInv.
LEMMA AccountStep ==
    ASSUME TypeInv, JoinInv, AccountInv, [Next]_vars
    PROVE  AccountInv'
<1>0. /\ RequestsTyped
      /\ lobby \in [LobbyId -> LobbyRecord]
      /\ issued \subseteq LobbyId
  BY TypeParts
<1>1. ASSUME NEW l \in LobbyId, NEW p, InQueue(lobby'[l], p) PROVE Accounted(l, p)'
  <2>1. CASE InQueue(lobby[l], p)
    <3>1. Accounted(l, p)
      BY <2>1 DEF AccountInv
    <3>2. QED
      BY <3>1, AccountKept
  <2>2. CASE ~InQueue(lobby[l], p)
    BY <1>1, <2>2, EntryOwed DEF Accounted
  <2>3. QED
    BY <2>1, <2>2
<1>2. ASSUME NEW r \in Request, request[r].pc = "publish_starting",
             NEW i \in 1..Len(request[r].roster),
             NEW l, l = request[r].lobby, NEW p, p = request[r].roster[i]
      PROVE  Accounted(l, p)'
  <2>1. Accounted(l, p)
    BY <1>2 DEF AccountInv
  <2>2. QED
    BY <2>1, AccountKept
<1>3. ASSUME NEW r \in Request, request'[r].pc = "publish_starting",
             NEW i \in 1..Len(request'[r].roster),
             NEW l, l = request'[r].lobby, NEW p, p = request'[r].roster[i]
      PROVE  Accounted(l, p)'
  <2>1. CASE request'[r] = request[r]
    BY <1>2, <1>3, <2>1
  <2>2. CASE /\ request[r].lobby \in issued
             /\ request'[r].lobby = request[r].lobby
             /\ ShouldStart(Target(r))
             /\ request'[r].roster = ActivePlayers(Target(r))
    <3>1. l \in LobbyId /\ Target(r) = lobby[l]
      BY <1>0, <1>3, <2>2 DEF Target
    <3>2. InQueue(lobby[l], p)
      BY <1>0, <1>3, <2>2, <3>1, TeamQueued
    <3>3. Accounted(l, p)
      BY <3>1, <3>2 DEF AccountInv
    <3>4. QED
      BY <3>3, AccountKept
  <2>3. QED
    BY <1>3, <2>1, <2>2, StarterStep
<1>4. ASSUME NEW e \in EventsOf("GameStarting")', NEW i \in 1..Len(e.players)
      PROVE  Accounted(e.lobby, e.players[i])'
  <2>1. CASE e \in EventsOf("GameStarting")
    <3>1. Accounted(e.lobby, e.players[i])
      BY <2>1 DEF AccountInv, PlayersAnnounced, Accounted
    <3>2. QED
      BY <3>1, AccountKept
  <2>2. ASSUME NEW r \in Request, request[r].pc = "publish_starting",
               e.lobby = request[r].lobby, e.players = request[r].roster
        PROVE  Accounted(e.lobby, e.players[i])'
    BY <1>2, <2>2
  <2>3. QED
    BY <2>1, <2>2, AnnouncementStep
<1>5. QED
  BY <1>1, <1>3, <1>4 DEF AccountInv, PlayersAnnounced, Accounted

\* AccountInv in every reachable state.
LEMMA AccountInvariant == Spec => []AccountInv
<1>1. Init => AccountInv
  <2> SUFFICES ASSUME Init PROVE AccountInv
    OBVIOUS
  <2>1. ASSUME NEW l \in LobbyId, NEW p PROVE ~InQueue(lobby[l], p)
    <3>1. lobby[l].queue = <<>>
      BY DEF Init, NewLobby
    <3>2. QED
      BY <3>1 DEF InQueue
  <2>2. (\A r \in Request : request[r].pc = "unsent") /\ EventsOf("GameStarting") = {}
    BY DEF Init, Unsent, EventsOf
  <2>3. QED
    BY <2>1, <2>2 DEF AccountInv, PlayersAnnounced
<1>2. TypeInv /\ JoinInv /\ AccountInv /\ [Next]_vars => AccountInv'
  BY AccountStep
<1>3. QED
  BY <1>1, <1>2, TypeInvariant, JoinInvariant, PTL DEF Spec

\* A game names nobody who came in unnoticed: the joining of each of its players
\* is announced, or a handler is at it (and was overtaken), or could not.
THEOREM PlayersAreAnnounced == Spec => []PlayersAnnounced
<1>1. AccountInv => PlayersAnnounced
  BY DEF AccountInv
<1>2. QED
  BY <1>1, AccountInvariant, PTL
-----------------------------------------------------------------------------
(***************************************************************************)
(* One consumer.  The service takes one request from the queue and answers *)
(* it before the next: MaxConcurrent is 1.  With a publisher that does not *)
(* fail either, nobody else owes an announcement while a game is started.  *)
(***************************************************************************)

SingleConsumer == MaxConcurrent = 1 /\ ~PublishMayFail

\* At most one request is being handled, and only one that is about to publish
\* has players in hand: a request that failed has not entered its player.
SerialInv ==
    /\ HandlersBounded
    /\ \A r \in Request :
          request[r].pc \notin {"publish_joined", "publish_starting"} =>
              request[r].roster = <<>>

\* The handler that runs is alone.
LEMMA OneHandler ==
    ASSUME SingleConsumer, HandlersBounded, NEW r \in Request, request[r].pc \in Pending,
           NEW x \in Request, request[x].pc \in Pending
    PROVE  x = r
<1>1. /\ InFlight \subseteq Request
      /\ r \in InFlight /\ x \in InFlight
      /\ Cardinality(InFlight) \in Nat /\ Cardinality(InFlight) <= 1
  BY RequestSets DEF InFlight, HandlersBounded, SingleConsumer
<1>2. ASSUME x # r PROVE FALSE
  <2>1. {r, x} \subseteq InFlight /\ IsFiniteSet(InFlight)
    BY <1>1, RequestSets
  <2>2. Cardinality({r, x}) <= Cardinality(InFlight)
    BY <1>1, <2>1, RequestSubsets
  <2>3. Cardinality({r, x}) = 2
    <3>1. Cardinality({r}) = 1 /\ IsFiniteSet({r})
      BY FS_Singleton
    <3>2. Cardinality({r} \cup {x}) = Cardinality({r}) + 1
      BY <1>2, <3>1, FS_AddElement
    <3>3. {r} \cup {x} = {r, x}
      OBVIOUS
    <3>4. QED
      BY <3>1, <3>2, <3>3
  <2>4. QED
    BY <1>1, <2>2, <2>3
<1>3. QED
  BY <1>2

\* Every operation keeps SerialInv.
LEMMA SerialStep ==
    ASSUME SingleConsumer, TypeInv, SerialInv, [Next]_vars
    PROVE  SerialInv'
<1> DEFINE Empty(x) == request'[x].pc \notin {"publish_joined", "publish_starting"} =>
                           request'[x].roster = <<>>
<1>0. request \in [Request -> RequestRecord]
  BY TypeParts DEF RequestsTyped
<1>1. HandlersBounded'
  BY HandlersStayBounded DEF SerialInv
<1>2. ASSUME NEW x \in Request PROVE Empty(x)
  <2>1. CASE request'[x] = request[x]
    BY <2>1 DEF SerialInv
  <2>2. ASSUME NEW r \in Request, Receive(r) PROVE Empty(x)
    <3>1. request[r].pc = "unsent" /\ request'[r].roster = request[r].roster
      BY <1>0, <2>2 DEF Receive, RequestRecord
    <3>2. request[r].roster = <<>>
      BY <3>1 DEF SerialInv
    <3>3. CASE x = r
      BY <3>1, <3>2, <3>3
    <3>4. CASE x # r
      BY <1>0, <2>1, <2>2, <3>4 DEF Receive
    <3>5. QED
      BY <3>3, <3>4
  <2>3. ASSUME Handle(x) PROVE Empty(x)
    <3>1. CASE FindLobby(x)
      <4>1. request'[x].roster = request[x].roster /\ request[x].pc = "find"
        BY <1>0, <3>1 DEF FindLobby, Goto, RequestRecord
      <4>2. QED
        BY <4>1 DEF SerialInv
    <3>2. CASE CreateLobby(x)
      <4>1. request'[x].roster = request[x].roster /\ request[x].pc = "create"
        BY <1>0, <3>2 DEF CreateLobby, RequestRecord
      <4>2. QED
        BY <4>1 DEF SerialInv
    <3>3. CASE CountLobby(x)
      <4>1. request'[x].roster = request[x].roster /\ request[x].pc = "count"
        BY <1>0, <3>3 DEF CountLobby, Goto, RequestRecord
      <4>2. QED
        BY <4>1 DEF SerialInv
    <3>4. CASE AddPlayer(x)
      <4>1. /\ request[x].pc = "add"
            /\ \/ request'[x].pc = "publish_joined"
               \/ request'[x].roster = request[x].roster
        BY <1>0, <3>4 DEF AddPlayer, Goto, GotoWith, RequestRecord
      <4>2. QED
        BY <4>1 DEF SerialInv
    <3>5. CASE PublishJoined(x) \/ PublishStarting(x)
      <4>1. request'[x].roster = <<>>
        BY <1>0, <3>5 DEF PublishJoined, PublishStarting, GotoWith, RequestRecord, SingleConsumer
      <4>2. QED
        BY <4>1
    <3>6. CASE CheckAndStart(x)
      <4>1. /\ request[x].pc = "check"
            /\ \/ request'[x].pc = "publish_starting"
               \/ request'[x].roster = request[x].roster
        BY <1>0, <3>6 DEF CheckAndStart, Goto, GotoWith, RequestRecord
      <4>2. QED
        BY <4>1 DEF SerialInv
    <3>7. QED
      BY <2>3, <3>1, <3>2, <3>3, <3>4, <3>5, <3>6 DEF Handle
  <2>4. ASSUME NEW r \in Request, r # x, Handle(r) PROVE request'[x] = request[x]
    BY <2>4, HandleMoves
  <2>5. CASE request' = request
    BY <2>1, <2>5
  <2>6. QED
    BY <2>1, <2>2, <2>3, <2>4, <2>5
       DEF Next, RemovePlayer, CleanupScan, CleanupRemove, FallIdle, vars
<1>3. QED
  BY <1>1, <1>2 DEF SerialInv

\* SerialInv in every reachable state.
LEMMA SerialInvariant == SingleConsumer => (Spec => []SerialInv)
<1> SUFFICES ASSUME SingleConsumer PROVE Spec => []SerialInv
  OBVIOUS
<1>1. Init => SerialInv
  <2> SUFFICES ASSUME Init PROVE SerialInv
    OBVIOUS
  <2>1. \A r \in Request : request[r].pc = "unsent" /\ request[r].roster = <<>>
    BY DEF Init, Unsent
  <2>2. InFlight = {}
    BY <2>1 DEF InFlight, Pending, Searching, Joining, Joined
  <2>3. HandlersBounded
    BY <2>2, FS_EmptySet DEF HandlersBounded, SingleConsumer
  <2>4. QED
    BY <2>1, <2>3 DEF SerialInv
<1>2. TypeInv /\ SerialInv /\ [Next]_vars => SerialInv'
  BY SerialStep
<1>3. QED
  BY <1>1, <1>2, TypeInvariant, PTL DEF Spec

\* What is accounted for is announced, when the handler is past announcing.
LEMMA NobodyOwes ==
    ASSUME SingleConsumer, SerialInv, NEW r \in Request, request[r].pc = "check",
           NEW l, NEW p, Accounted(l, p)
    PROVE  JoinAnnounced(l, p)
<1>1. ASSUME NEW x \in Request, JoinOwed(x, l, p) PROVE FALSE
  <2>1. CASE request[x].pc = "publish_joined"
    <3>1. request[x].pc \in Pending /\ request[r].pc \in Pending
      BY <2>1 DEF Pending, Joined
    <3>2. x = r
      BY <3>1, OneHandler DEF SerialInv
    <3>3. QED
      BY <2>1, <3>2
  <2>2. CASE request[x].pc = "failed" /\ request[x].roster # <<>>
    BY <2>2 DEF SerialInv
  <2>3. QED
    BY <1>1, <2>1, <2>2 DEF JoinOwed
<1>2. QED
  BY <1>1 DEF Accounted

\* The players of a game that is about to be announced, and of those that were.
HeardInv ==
    /\ \A r \in Request :
          request[r].pc = "publish_starting" =>
              \A i \in 1..Len(request[r].roster) :
                  JoinAnnounced(request[r].lobby, request[r].roster[i])
    /\ AnnouncedBeforeStart

\* A game that a step starts is started by the check of its request.
LEMMA StartingChecks ==
    ASSUME TypeInv, [Next]_vars, NEW r \in Request,
           request'[r].pc = "publish_starting", request'[r] # request[r]
    PROVE  request[r].pc = "check"
<1>0. request \in [Request -> RequestRecord]
  BY TypeParts DEF RequestsTyped
<1>1. ASSUME NEW x \in Request, Receive(x) PROVE FALSE
  <2>1. request'[x].pc = "find" /\ \A y \in Request \ {x} : request'[y] = request[y]
    BY <1>0, <1>1 DEF Receive, RequestRecord
  <2>2. QED
    BY <2>1
<1>2. ASSUME NEW x \in Request, Handle(x) PROVE request[r].pc = "check"
  <2>1. x = r
    BY <1>2, HandleMoves
  <2>2. ~FindLobby(r) /\ ~CreateLobby(r) /\ ~CountLobby(r)
    BY <1>0 DEF FindLobby, CreateLobby, CountLobby, Goto, RequestRecord
  <2>3. ~AddPlayer(r) /\ ~PublishJoined(r) /\ ~PublishStarting(r)
    BY <1>0 DEF AddPlayer, PublishJoined, PublishStarting, Goto, GotoWith, RequestRecord
  <2>4. QED
    BY <1>2, <2>1, <2>2, <2>3 DEF Handle, CheckAndStart
<1>3. QED
  BY <1>1, <1>2 DEF Next, RemovePlayer, CleanupScan, CleanupRemove, FallIdle, vars

\* Every operation keeps HeardInv.
LEMMA HeardStep ==
    ASSUME SingleConsumer, TypeInv, AccountInv, SerialInv, HeardInv, [Next]_vars
    PROVE  HeardInv'
<1>0. /\ RequestsTyped
      /\ lobby \in [LobbyId -> LobbyRecord]
      /\ issued \subseteq LobbyId
  BY TypeParts
<1>2. ASSUME NEW r \in Request, request[r].pc = "publish_starting",
             NEW i \in 1..Len(request[r].roster),
             NEW l, l = request[r].lobby, NEW p, p = request[r].roster[i]
      PROVE  JoinAnnounced(l, p)'
  <2>1. JoinAnnounced(l, p)
    BY <1>2 DEF HeardInv
  <2>2. QED
    BY <2>1, AnnouncedKept
<1>3. ASSUME NEW r \in Request, request'[r].pc = "publish_starting",
             NEW i \in 1..Len(request'[r].roster),
             NEW l, l = request'[r].lobby, NEW p, p = request'[r].roster[i]
      PROVE  JoinAnnounced(l, p)'
  <2>1. CASE request'[r] = request[r]
    BY <1>2, <1>3, <2>1
  <2>2. CASE request'[r] # request[r]
    <3>1. /\ request[r].lobby \in issued
          /\ request'[r].lobby = request[r].lobby
          /\ request'[r].roster = ActivePlayers(Target(r))
      BY <1>3, <2>2, StarterStep
    <3>2. l \in LobbyId /\ Target(r) = lobby[l]
      BY <1>0, <1>3, <3>1 DEF Target
    <3>3. InQueue(lobby[l], p)
      BY <1>0, <1>3, <3>1, <3>2, TeamQueued
    <3>4. Accounted(l, p) /\ request[r].pc = "check"
      BY <1>3, <2>2, <3>2, <3>3, StartingChecks DEF AccountInv
    <3>5. QED
      BY <3>4, NobodyOwes, AnnouncedKept
  <2>3. QED
    BY <2>1, <2>2
<1>4. ASSUME NEW e \in EventsOf("GameStarting")', NEW i \in 1..Len(e.players)
      PROVE  JoinAnnounced(e.lobby, e.players[i])'
  <2>1. CASE e \in EventsOf("GameStarting")
    <3>1. JoinAnnounced(e.lobby, e.players[i])
      BY <2>1 DEF HeardInv, AnnouncedBeforeStart
    <3>2. QED
      BY <3>1, AnnouncedKept
  <2>2. ASSUME NEW r \in Request, request[r].pc = "publish_starting",
               e.lobby = request[r].lobby, e.players = request[r].roster
        PROVE  JoinAnnounced(e.lobby, e.players[i])'
    BY <1>2, <2>2
  <2>3. QED
    BY <2>1, <2>2, AnnouncementStep
<1>5. QED
  BY <1>3, <1>4 DEF HeardInv, AnnouncedBeforeStart

\* One consumer announces every player's joining before it announces their game,
\* whoever leaves and is cleaned away in between.
THEOREM JoiningsComeFirst == SingleConsumer => (Spec => []AnnouncedBeforeStart)
<1> SUFFICES ASSUME SingleConsumer PROVE Spec => []AnnouncedBeforeStart
  OBVIOUS
<1>1. Init => HeardInv
  BY DEF Init, Unsent, EventsOf, HeardInv, AnnouncedBeforeStart
<1>2. TypeInv /\ AccountInv /\ SerialInv /\ HeardInv /\ [Next]_vars => HeardInv'
  BY HeardStep
<1>3. HeardInv => AnnouncedBeforeStart
  BY DEF HeardInv
<1>4. Spec => []SerialInv
  BY SerialInvariant
<1>5. QED
  BY <1>1, <1>2, <1>3, <1>4, TypeInvariant, AccountInvariant, PTL DEF Spec
-----------------------------------------------------------------------------
(***************************************************************************)
(* Gathering.  A General lobby that can take no more players starts, when  *)
(* it is configured to start as soon as it is full and its players need    *)
(* not be human; so by the time one consumer looks for a lobby again, the  *)
(* one it filled is closed.  validate_config accepts configurations that   *)
(* are not like that, and with those a full lobby stays open: the second   *)
(* one that is opened beside it makes two when somebody leaves the first.  *)
(***************************************************************************)

Gathering ==
    /\ SingleConsumer
    /\ ~MatcherMayDecline
    /\ Config["General"].min_human_players = 0
    /\ Config["General"].immediate_start_when_full

\* The General lobbies players may still be in the queue of, full or not.
OpenGeneral == {l \in live : lobby[l].type = "General" /\ Open(lobby[l])}

\* There is one such lobby, and none when a request is about to create one.
GatherInv ==
    /\ \A k, l \in OpenGeneral : k = l
    /\ \A r \in Request :
          request[r].pc = "create" /\ request[r].lobby_type = "General" => OpenGeneral = {}

\* The configurations that start a full General lobby need no humans.
LEMMA GatheringCounts == Gathering => HumansCount
<1>1. \A t \in LobbyType : t # "General" => t = "AllBot"
  BY DEF LobbyType
<1>2. Config["AllBot"].min_human_players = 0
  BY ConfigAssumption DEF ValidConfig, LobbyType
<1>3. QED
  BY <1>1, <1>2 DEF Gathering, HumansCount

\* A General lobby that is full and open is waiting for the handler that filled it.
LEMMA FullIsWatched ==
    ASSUME Gathering, TypeInv, StatesMatchQueues, ReadyHasStarter, SerialInv,
           NEW l \in OpenGeneral, IsFull(lobby[l])
    PROVE  \E r \in Request : request[r].pc \in {"publish_joined", "check"}
<1>1. /\ l \in live /\ lobby[l] \in LobbyRecord /\ lobby[l].type = "General"
      /\ Open(lobby[l])
  BY TypeParts DEF OpenGeneral
<1>2. Startable(lobby[l])
  <2>1. ActiveHumans(lobby[l]) \subseteq 1..Len(ActivePlayers(lobby[l]))
    BY DEF ActiveHumans
  <2>2. ActivePlayers(lobby[l]) \in Seq(Player)
    BY <1>1, RecordIsLobby, ActivePlayersProperties
  <2>3. Len(ActivePlayers(lobby[l])) \in Int /\ 1 \in Int
    BY <2>2
  <2>4. IsFiniteSet(1..Len(ActivePlayers(lobby[l])))
    BY <2>3, FS_Interval
  <2>5. Cardinality(ActiveHumans(lobby[l])) \in Nat
    BY <2>1, <2>4, FS_Subset, FS_CardinalityType
  <2>6. MeetsHumanRequirement(lobby[l])
    BY <1>1, <2>5 DEF MeetsHumanRequirement, Gathering
  <2>7. QED
    BY <2>6 DEF Startable
<1>3. lobby[l].state = "ReadyToStart"
  BY <1>1, <1>2 DEF StatesMatchQueues, StateMatchesQueue, Gathering
<1>4. PICK r \in Request :
          \/ request[r].pc \in {"publish_joined", "check"}
          \/ request[r].pc = "failed" /\ request[r].roster # <<>>
  BY <1>1, <1>3 DEF ReadyHasStarter
<1>5. QED
  BY <1>4 DEF SerialInv

\* A lobby is opened only by its creation.
LEMMA OpenGeneralStep ==
    ASSUME TypeInv, [Next]_vars
    PROVE  \A l \in OpenGeneral' : l \in OpenGeneral \/ l \in issued' \ issued
<1> SUFFICES ASSUME NEW l \in OpenGeneral', l \notin issued' \ issued PROVE l \in OpenGeneral
  OBVIOUS
<1>1. l \in live' /\ lobby'[l].type = "General" /\ Open(lobby'[l])
  BY DEF OpenGeneral
<1>2. l \in live /\ l \in issued /\ LobbyChange(l)
  BY <1>1, TypeParts, LobbyChanges
<1>3. lobby[l].type = "General"
  BY <1>1, <1>2, TypeKept
<1>4. Open(lobby[l])
  BY <1>1, <1>2, LobbyChangeProperties DEF Open
<1>5. QED
  BY <1>2, <1>3, <1>4 DEF OpenGeneral

\* A step that issues no lobby and sends no request to create one keeps GatherInv.
LEMMA GatherKept ==
    ASSUME TypeInv, GatherInv, [Next]_vars, issued' = issued,
           \A r \in Request :
               request'[r].pc = "create" =>
                   request[r].pc = "create" /\ request'[r].lobby_type = request[r].lobby_type
    PROVE  GatherInv'
<1>1. OpenGeneral' \subseteq OpenGeneral
  BY OpenGeneralStep
<1>2. QED
  BY <1>1 DEF GatherInv

\* Every operation keeps GatherInv.
LEMMA GatherStep ==
    ASSUME Gathering, TypeInv, StatesMatchQueues, ReadyHasStarter, SerialInv, GatherInv,
           [Next]_vars
    PROVE  GatherInv'
<1>0. request \in [Request -> RequestRecord] /\ SingleConsumer
  BY TypeParts DEF RequestsTyped, Gathering
<1>1. ASSUME NEW r \in Request, Receive(r) PROVE GatherInv'
  <2>1. issued' = issued /\ request'[r].pc = "find"
    BY <1>0, <1>1 DEF Receive, RequestRecord
  <2>2. \A x \in Request \ {r} : request'[x] = request[x]
    BY <1>0, <1>1 DEF Receive
  <2>3. QED
    BY <2>1, <2>2, GatherKept
<1>2. ASSUME NEW r \in Request, FindLobby(r), request'[r].pc # "create" PROVE GatherInv'
  <2>1. issued' = issued /\ \A x \in Request \ {r} : request'[x] = request[x]
    BY <1>0, <1>2 DEF FindLobby, Goto
  <2>2. QED
    BY <1>2, <2>1, GatherKept
<1>3. ASSUME NEW r \in Request, FindLobby(r), request'[r].pc = "create" PROVE GatherInv'
  <2>1. /\ request[r].pc = "find" /\ Goto(r, "create") /\ lobby' = lobby /\ live' = live
        /\ JoinableLobbies(request[r].lobby_type, request[r].player) = {}
    BY <1>0, <1>3 DEF FindLobby, RequestRecord, Gathering
  <2>2. request'[r].lobby_type = request[r].lobby_type /\ \A x \in Request \ {r} : request'[x] = request[x]
    BY <1>0, <2>1 DEF Goto, RequestRecord
  <2>3. OpenGeneral' = OpenGeneral
    BY <2>1 DEF OpenGeneral
  <2>4. ASSUME request[r].lobby_type = "General", NEW l \in OpenGeneral PROVE FALSE
    <3>1. IsFull(lobby[l])
      BY <2>1, <2>4 DEF JoinableLobbies, AvailableLobbies, AllowsPlayerType, OpenGeneral
    <3>2. PICK x \in Request : request[x].pc \in {"publish_joined", "check"}
      BY <3>1, FullIsWatched
    <3>3. request[x].pc \in Pending /\ request[r].pc \in Pending
      BY <2>1, <3>2 DEF Pending, Searching, Joined
    <3>4. x = r
      BY <1>0, <3>3, OneHandler DEF SerialInv
    <3>5. QED
      BY <2>1, <3>2, <3>4
  <2>5. QED
    BY <2>2, <2>3, <2>4 DEF GatherInv
<1>4. ASSUME NEW r \in Request, CreateLobby(r) PROVE GatherInv'
  <2>1. PICK k \in LobbyId \ issued :
          /\ issued' = issued \cup {k}
          /\ lobby' = [lobby EXCEPT ![k] = NewLobby(request[r].lobby_type)]
          /\ request' = [request EXCEPT ![r].pc = "count", ![r].lobby = k]
    BY <1>4 DEF CreateLobby
  <2>2. request'[r].pc = "count" /\ \A x \in Request \ {r} : request'[x] = request[x]
    BY <1>0, <2>1 DEF RequestRecord
  <2>3. lobby'[k].type = request[r].lobby_type
    <3>1. lobby'[k] = NewLobby(request[r].lobby_type)
      BY <2>1, TypeParts
    <3>2. QED
      BY <3>1 DEF NewLobby
  <2>4. \A l \in OpenGeneral' : l \in OpenGeneral \/ l = k
    BY <2>1, OpenGeneralStep
  <2>5. \A x \in Request : request'[x].pc # "create"
    <3>1. ASSUME NEW x \in Request, x # r, request'[x].pc = "create" PROVE FALSE
      <4>1. request[x].pc \in Pending /\ request[r].pc \in Pending
        BY <1>4, <2>2, <3>1 DEF CreateLobby, Pending, Searching
      <4>2. QED
        BY <1>0, <3>1, <4>1, OneHandler DEF SerialInv
    <3>2. QED
      BY <2>2, <3>1
  <2>6. \A x, y \in OpenGeneral' : x = y
    <3>1. CASE request[r].lobby_type = "General"
      <4>1. OpenGeneral = {}
        BY <1>4, <3>1 DEF CreateLobby, GatherInv
      <4>2. QED
        BY <2>4, <4>1
    <3>2. CASE request[r].lobby_type # "General"
      <4>1. k \notin OpenGeneral'
        BY <2>3, <3>2 DEF OpenGeneral
      <4>2. QED
        BY <2>4, <4>1 DEF GatherInv
    <3>3. QED
      BY <3>1, <3>2
  <2>7. QED
    BY <2>5, <2>6 DEF GatherInv
<1>5. ASSUME NEW r \in Request, CountLobby(r) \/ AddPlayer(r) \/ PublishJoined(r)
      PROVE  GatherInv'
  <2>1. issued' = issued /\ request'[r].pc # "create"
    BY <1>0, <1>5 DEF CountLobby, AddPlayer, PublishJoined, Goto, GotoWith, RequestRecord
  <2>2. \A x \in Request \ {r} : request'[x] = request[x]
    BY <1>5, HandleMoves DEF Handle
  <2>3. QED
    BY <2>1, <2>2, GatherKept
<1>6. ASSUME NEW r \in Request, CheckAndStart(r) \/ PublishStarting(r)
      PROVE  GatherInv'
  <2>1. issued' = issued /\ request'[r].pc # "create"
    BY <1>0, <1>6 DEF CheckAndStart, PublishStarting, Goto, GotoWith, RequestRecord
  <2>2. \A x \in Request \ {r} : request'[x] = request[x]
    BY <1>6, HandleMoves DEF Handle
  <2>3. QED
    BY <2>1, <2>2, GatherKept
<1>7. ASSUME request' = request, issued' = issued PROVE GatherInv'
  BY <1>7, GatherKept
<1>8. QED
  BY <1>1, <1>2, <1>3, <1>4, <1>5, <1>6, <1>7
     DEF Next, Handle, RemovePlayer, CleanupScan, CleanupRemove, FallIdle, vars

\* Players are gathered rather than scattered: at most one General lobby has a
\* free place at any time, whatever the ratings of those who ask.
THEOREM PlayersAreGathered == Gathering => (Spec => []OneOpenLobby)
<1> SUFFICES ASSUME Gathering PROVE Spec => []OneOpenLobby
  OBVIOUS
<1>1. Init => GatherInv
  BY DEF Init, Unsent, GatherInv, OpenGeneral
<1>2. TypeInv /\ StatesMatchQueues /\ ReadyHasStarter /\ SerialInv /\ GatherInv /\ [Next]_vars
         => GatherInv'
  BY GatherStep
<1>3. GatherInv => OneOpenLobby
  <2> SUFFICES ASSUME GatherInv PROVE OneOpenLobby
    OBVIOUS
  <2> DEFINE A == AvailableLobbies("General")
  <2>1. \A k, l \in A : k = l
    BY DEF AvailableLobbies, OpenGeneral, GatherInv
  <2>2. OneOpenLobby <=> Cardinality(A) <= 1
    BY DEF OneOpenLobby
  <2> HIDE DEF A
  <2>3. CASE A = {}
    BY <2>2, <2>3, FS_EmptySet
  <2>4. ASSUME NEW l \in A PROVE OneOpenLobby
    <3>1. A = {l}
      BY <2>1, <2>4
    <3>2. Cardinality({l}) = 1
      BY FS_Singleton
    <3>3. QED
      BY <2>2, <3>1, <3>2
  <2>5. QED
    BY <2>3, <2>4
<1>4. Spec => []ReadyHasStarter
  BY GatheringCounts, ReadyLobbiesHaveStarters
<1>5. Spec => []SerialInv
  BY SerialInvariant DEF Gathering
<1>6. QED
  BY <1>1, <1>2, <1>3, <1>4, <1>5, TypeInvariant, StatesStayMatched, PTL DEF Spec
-----------------------------------------------------------------------------
(***************************************************************************)
(* The number of active lobbies, by how far it is off.                     *)
(***************************************************************************)

NearlyInv == ActiveLobbiesNearlyExact /\ HandlersBounded

\* Every operation keeps NearlyInv: a lobby is inserted and counted once, and
\* after a cleanup pass the figure is off by the lobbies not counted yet.
LEMMA NearlyStep ==
    ASSUME TypeInv, NearlyInv, [Next]_vars
    PROVE  NearlyInv'
<1> DEFINE act == stats.active_lobbies
           Near(n, c, v) == v <= n + c /\ n + c <= v + MaxConcurrent
<1>0. /\ stats \in Stats /\ act \in Nat
      /\ request \in [Request -> RequestRecord]
      /\ live \subseteq issued /\ issued \subseteq LobbyId
      /\ IsFiniteSet(live) /\ Cardinality(live) \in Nat
      /\ IsFiniteSet(Counting) /\ Cardinality(Counting) \in Nat
      /\ MaxConcurrent \in Nat
  <2>1. live \subseteq LobbyId
    BY TypeParts
  <2>2. IsFiniteSet(live)
    BY <2>1, ManagerAssumption, FS_Subset
  <2>3. QED
    BY <2>2, TypeParts, TotalSets, FS_CardinalityType, ManagerAssumption
       DEF RequestsTyped, Stats
<1>1. Near(act, Cardinality(Counting), Cardinality(live))
  BY DEF NearlyInv, ActiveLobbiesNearlyExact
<1>2. HandlersBounded'
  BY HandlersStayBounded DEF NearlyInv
<1>3. ASSUME act' = act, Counting' = Counting, live' = live PROVE NearlyInv'
  BY <1>1, <1>2, <1>3 DEF NearlyInv, ActiveLobbiesNearlyExact
<1>4. ASSUME NEW r \in Request, Receive(r) PROVE NearlyInv'
  <2>1. act' = act /\ live' = live
    BY <1>0, <1>4 DEF Receive, Stats
  <2>2. request'[r].pc = "find" /\ request[r].pc = "unsent" /\ \A x \in Request \ {r} : request'[x] = request[x]
    BY <1>0, <1>4 DEF Receive, RequestRecord
  <2>3. Counting' = Counting
    BY <2>2 DEF Counting
  <2>4. QED
    BY <1>3, <2>1, <2>3
<1>5. ASSUME NEW r \in Request, CreateLobby(r) PROVE NearlyInv'
  <2>1. PICK k \in LobbyId \ issued : live' = live \cup {k} /\ stats' = stats
    BY <1>5 DEF CreateLobby
  <2>2. r \notin Counting /\ Counting' = Counting \cup {r}
    BY <1>5, PcStep DEF Handle
  <2>3. Cardinality(live \cup {k}) = Cardinality(live) + 1
    <3>1. k \notin live
      BY <1>0, <2>1
    <3>2. QED
      BY <1>0, <3>1, FS_AddElement
  <2>4. Cardinality(Counting \cup {r}) = Cardinality(Counting) + 1
    BY <1>0, <2>2, FS_AddElement
  <2>5. act' = act /\ Cardinality(live') = Cardinality(live) + 1
                   /\ Cardinality(Counting') = Cardinality(Counting) + 1
    BY <2>1, <2>2, <2>3, <2>4, Zenon
  <2>6. Near(act', Cardinality(Counting'), Cardinality(live'))
    BY <1>0, <1>1, <2>5
  <2>7. QED
    BY <1>2, <2>6 DEF NearlyInv, ActiveLobbiesNearlyExact
<1>6. ASSUME NEW r \in Request, CountLobby(r) PROVE NearlyInv'
  <2>1. live' = live /\ act' = act + 1
    BY <1>0, <1>6 DEF CountLobby, Stats
  <2>2. r \in Counting /\ Counting' = Counting \ {r}
    BY <1>6, PcStep DEF Handle
  <2>3. Cardinality(Counting \ {r}) = Cardinality(Counting) - 1
    BY <1>0, <2>2, FS_RemoveElement
  <2>4. Cardinality(live') = Cardinality(live) /\ Cardinality(Counting') = Cardinality(Counting) - 1
    BY <2>1, <2>2, <2>3, Zenon
  <2>5. Near(act', Cardinality(Counting'), Cardinality(live'))
    BY <1>0, <1>1, <2>1, <2>4
  <2>6. QED
    BY <1>2, <2>5 DEF NearlyInv, ActiveLobbiesNearlyExact
<1>7. ASSUME NEW r \in Request,
             FindLobby(r) \/ AddPlayer(r) \/ PublishJoined(r) \/ CheckAndStart(r) \/ PublishStarting(r)
      PROVE  NearlyInv'
  <2>1. act' = act /\ live' = live
    BY <1>0, <1>7 DEF FindLobby, AddPlayer, PublishJoined, CheckAndStart, PublishStarting, Stats
  <2>2. ~CreateLobby(r) /\ ~CountLobby(r)
    BY <1>7 DEF FindLobby, CreateLobby, CountLobby, AddPlayer, PublishJoined, CheckAndStart, PublishStarting
  <2>3. Counting' = Counting
    BY <1>7, <2>2, PcStep DEF Handle
  <2>4. QED
    BY <1>3, <2>1, <2>3
<1>8. ASSUME CleanupRemove PROVE NearlyInv'
  <2>1. live' = live \ cleanup /\ act' = Cardinality(live \ cleanup) /\ Counting' = Counting
    BY <1>0, <1>8 DEF CleanupRemove, Counting, Stats
  <2>2. Cardinality(live \ cleanup) \in Nat
    <3>1. live \ cleanup \subseteq live
      OBVIOUS
    <3>2. QED
      BY <1>0, <3>1, FS_Subset, FS_CardinalityType
  <2>3. Cardinality(Counting) <= MaxConcurrent
    <3>1. Counting \subseteq InFlight /\ InFlight \subseteq Request
      BY DEF Counting, InFlight, Pending, Joining
    <3>2. Cardinality(Counting) <= Cardinality(InFlight) /\ Cardinality(InFlight) \in Nat
      BY <3>1, RequestSubsets, RequestSets
    <3>3. QED
      BY <1>0, <3>2 DEF NearlyInv, HandlersBounded
  <2>4. Cardinality(live') = act' /\ Cardinality(Counting') = Cardinality(Counting)
    BY <2>1, Zenon
  <2>5. act' \in Nat
    BY <2>1, <2>2
  <2>6. Near(act', Cardinality(Counting'), Cardinality(live'))
    BY <1>0, <2>3, <2>4, <2>5
  <2>7. QED
    BY <1>2, <2>6 DEF NearlyInv, ActiveLobbiesNearlyExact
<1>9. ASSUME UNCHANGED <<live, request, stats>> PROVE NearlyInv'
  BY <1>3, <1>9 DEF Counting
<1>10. QED
  BY <1>4, <1>5, <1>6, <1>7, <1>8, <1>9
     DEF Next, Handle, RemovePlayer, CleanupScan, FallIdle, vars

\* active_lobbies never falls short of the map, and exceeds it by no more than the
\* handlers that run at the same time, however many cleanup passes there were.
THEOREM ActiveLobbiesStayNear == Spec => []ActiveLobbiesNearlyExact
<1>1. Init => NearlyInv
  <2> SUFFICES ASSUME Init PROVE NearlyInv
    OBVIOUS
  <2>1. \A r \in Request : request[r].pc = "unsent"
    BY DEF Init, Unsent
  <2>2. InFlight = {} /\ Counting = {}
    BY <2>1 DEF InFlight, Counting, Pending, Searching, Joining, Joined
  <2>3. live = {} /\ stats.active_lobbies = 0 /\ Cardinality({}) = 0
    BY FS_EmptySet DEF Init
  <2>4. Cardinality(live) = 0 /\ Cardinality(Counting) = 0 /\ Cardinality(InFlight) = 0
    BY <2>2, <2>3
  <2>5. QED
    BY <2>3, <2>4, ManagerAssumption DEF NearlyInv, ActiveLobbiesNearlyExact, HandlersBounded
<1>2. TypeInv /\ NearlyInv /\ [Next]_vars => NearlyInv'
  BY NearlyStep
<1>3. NearlyInv => ActiveLobbiesNearlyExact
  BY DEF NearlyInv
<1>4. QED
  BY <1>1, <1>2, <1>3, TypeInvariant, PTL DEF Spec
=============================================================================
