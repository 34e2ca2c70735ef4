--------------------------- MODULE DeliveryProofs ---------------------------
(***************************************************************************)
(* What Delivery keeps through lost connections, crashes, restarts and     *)
(* retries: no request is lost, none is handled twice on one connection,   *)
(* and no event is written more often than there are attempts.             *)
(***************************************************************************)
EXTENDS Delivery, TLAPS

(***************************************************************************)
(* Sequences.                                                              *)
(***************************************************************************)

Distinct(s) == \A i, j \in 1..Len(s) : s[i] = s[j] => i = j

LEMMA RangeMembers ==
    ASSUME NEW S, NEW s \in Seq(S)
    PROVE  /\ \A x : x \in Range(s) <=> \E i \in 1..Len(s) : s[i] = x
           /\ Range(s) \subseteq S
<1>1. DOMAIN s = 1..Len(s) /\ \A i \in 1..Len(s) : s[i] \in S
  OBVIOUS
<1>2. QED
  BY <1>1 DEF Range

LEMMA EmptyRange == Range(<<>>) = {} /\ Distinct(<<>>)
  BY DEF Range, Distinct

LEMMA AppendRange ==
    ASSUME NEW S, NEW s \in Seq(S), NEW e \in S
    PROVE  /\ Append(s, e) \in Seq(S)
           /\ Range(Append(s, e)) = Range(s) \cup {e}
           /\ Distinct(s) /\ e \notin Range(s) => Distinct(Append(s, e))
<1>1. /\ Append(s, e) \in Seq(S)
      /\ Len(Append(s, e)) = Len(s) + 1
      /\ \A i \in 1..Len(s) : Append(s, e)[i] = s[i]
      /\ Append(s, e)[Len(s) + 1] = e
  OBVIOUS
<1>2. Range(Append(s, e)) = Range(s) \cup {e}
  <2> DEFINE t == Append(s, e)
  <2>1. \A x : x \in Range(t) <=> \E i \in 1..(Len(s) + 1) : t[i] = x
    <3>1. t \in Seq(S) /\ Len(t) = Len(s) + 1
      BY <1>1
    <3> HIDE DEF t
    <3>2. \A x : x \in Range(t) <=> \E i \in 1..Len(t) : t[i] = x
      BY <3>1, RangeMembers
    <3>3. QED
      BY <3>1, <3>2
  <2>2. \A x : x \in Range(s) <=> \E i \in 1..Len(s) : s[i] = x
    BY RangeMembers
  <2>3. Len(s) \in Nat /\ Len(s) + 1 \in 1..(Len(s) + 1)
    OBVIOUS
  <2>4. \A i \in 1..(Len(s) + 1) : i \in 1..Len(s) \/ i = Len(s) + 1
    BY <2>3
  <2>5. \A i \in 1..Len(s) : i \in 1..(Len(s) + 1)
    BY <2>3
  <2>6. QED
    BY <1>1, <2>1, <2>2, <2>3, <2>4, <2>5
<1>3. ASSUME Distinct(s), e \notin Range(s) PROVE Distinct(Append(s, e))
  <2>1. \A i \in 1..Len(s) : s[i] # e
    BY <1>3, RangeMembers
  <2>2. QED
    BY <1>1, <1>3, <2>1 DEF Distinct
<1>4. QED
  BY <1>1, <1>2, <1>3

LEMMA TailRange ==
    ASSUME NEW S, NEW s \in Seq(S), s # <<>>
    PROVE  /\ Tail(s) \in Seq(S)
           /\ Head(s) \in S
           /\ Range(s) = {Head(s)} \cup Range(Tail(s))
           /\ Distinct(s) => Distinct(Tail(s)) /\ Head(s) \notin Range(Tail(s))
<1>1. /\ Len(s) \in Nat /\ Len(s) >= 1
      /\ Tail(s) \in Seq(S)
      /\ Len(Tail(s)) = Len(s) - 1
      /\ \A i \in 1..(Len(s) - 1) : Tail(s)[i] = s[i + 1]
      /\ Head(s) = s[1] /\ Head(s) \in S
  OBVIOUS
<1>2. /\ \A x : x \in Range(s) <=> \E i \in 1..Len(s) : s[i] = x
      /\ \A x : x \in Range(Tail(s)) <=> \E i \in 1..(Len(s) - 1) : Tail(s)[i] = x
  <2> DEFINE t == Tail(s)
  <2>1. t \in Seq(S) /\ Len(t) = Len(s) - 1
    BY <1>1
  <2> HIDE DEF t
  <2>2. \A x : x \in Range(t) <=> \E i \in 1..Len(t) : t[i] = x
    BY <2>1, RangeMembers
  <2>3. \A x : x \in Range(t) <=> \E i \in 1..(Len(s) - 1) : t[i] = x
    BY <2>1, <2>2
  <2>4. \A x : x \in Range(s) <=> \E i \in 1..Len(s) : s[i] = x
    BY RangeMembers
  <2>5. QED
    BY <2>3, <2>4 DEF t
<1>3. \A i \in 1..(Len(s) - 1) : i + 1 \in 1..Len(s)
  BY <1>1
<1>4. \A i \in 1..Len(s) : i = 1 \/ (i - 1 \in 1..(Len(s) - 1) /\ Tail(s)[i - 1] = s[i])
  BY <1>1
<1>5. Range(s) = {Head(s)} \cup Range(Tail(s))
  <2>1. \A x \in Range(s) : x = Head(s) \/ x \in Range(Tail(s))
    BY <1>1, <1>2, <1>4
  <2>2. \A x \in Range(Tail(s)) : x \in Range(s)
    BY <1>1, <1>2, <1>3
  <2>3. Head(s) \in Range(s)
    <3>1. 1 \in 1..Len(s)
      BY <1>1
    <3>2. QED
      BY <1>1, <1>2, <3>1
  <2>4. QED
    BY <2>1, <2>2, <2>3
<1>6. ASSUME Distinct(s) PROVE Distinct(Tail(s)) /\ Head(s) \notin Range(Tail(s))
  <2>1. Distinct(Tail(s))
    BY <1>1, <1>6 DEF Distinct
  <2>2. \A i \in 1..(Len(s) - 1) : Tail(s)[i] # Head(s)
    BY <1>1, <1>6 DEF Distinct
  <2>3. QED
    BY <1>2, <2>1, <2>2
<1>7. QED
  BY <1>1, <1>5, <1>6

LEMMA ConcatRange ==
    ASSUME NEW S, NEW s \in Seq(S), NEW t \in Seq(S)
    PROVE  /\ s \o t \in Seq(S)
           /\ Range(s \o t) = Range(s) \cup Range(t)
           /\ Distinct(s) /\ Distinct(t) /\ Range(s) \cap Range(t) = {} => Distinct(s \o t)
<1>1. /\ s \o t \in Seq(S)
      /\ Len(s) \in Nat /\ Len(t) \in Nat /\ Len(s \o t) = Len(s) + Len(t)
      /\ \A i \in 1..Len(s) : (s \o t)[i] = s[i]
      /\ \A i \in 1..(Len(s) + Len(t)) :
            i > Len(s) => i - Len(s) \in 1..Len(t) /\ (s \o t)[i] = t[i - Len(s)]
  OBVIOUS
<1>2. Range(s \o t) = Range(s) \cup Range(t)
  <2>1. /\ \A x : x \in Range(s \o t) <=> \E i \in 1..Len(s \o t) : (s \o t)[i] = x
        /\ \A x : x \in Range(s) <=> \E i \in 1..Len(s) : s[i] = x
        /\ \A x : x \in Range(t) <=> \E i \in 1..Len(t) : t[i] = x
    BY <1>1, RangeMembers
  <2>2. \A i \in 1..Len(s \o t) :
            \/ i \in 1..Len(s) /\ (s \o t)[i] = s[i]
            \/ i - Len(s) \in 1..Len(t) /\ (s \o t)[i] = t[i - Len(s)]
    BY <1>1
  <2>3. \A i \in 1..Len(s) : i \in 1..Len(s \o t) /\ s[i] = (s \o t)[i]
    BY <1>1
  <2>4. \A i \in 1..Len(t) : i + Len(s) \in 1..Len(s \o t) /\ t[i] = (s \o t)[i + Len(s)]
    BY <1>1
  <2>5. QED
    BY <2>1, <2>2, <2>3, <2>4
<1>3. ASSUME Distinct(s), Distinct(t), Range(s) \cap Range(t) = {}
      PROVE  Distinct(s \o t)
  <2>1. \A i \in 1..Len(s), j \in 1..Len(t) : s[i] # t[j]
    BY <1>3, RangeMembers
  <2>2. QED
    BY <1>1, <1>3, <2>1 DEF Distinct
<1>4. QED
  BY <1>1, <1>2, <1>3
-----------------------------------------------------------------------------
(***************************************************************************)
(* The invariant.                                                          *)
(***************************************************************************)

\* The messages the broker has.
Known == Range(queue) \cup Range(unacked)

\* The messages that will be handled on the present connection, the one being
\* handled aside.
Ahead == Range(inbox) \cup (IF connected THEN Range(queue) ELSE {})

\* No message is in two places, and the process has nothing that the broker has not.
PlacesInv ==
    /\ Distinct(queue) /\ Distinct(unacked) /\ Distinct(inbox)
    /\ Range(queue) \cap Range(unacked) = {}
    /\ connected => Range(inbox) \subseteq Range(unacked)
    /\ process # "serving" => inbox = <<>> /\ job = NoJob /\ ~connected
    /\ process = "serving" => connections >= 1
    /\ job # NoJob => /\ job.event.message \notin Range(inbox)
                      /\ connected => job.event.message \in Range(unacked)

Other(e) == [message |-> e.message, kind |-> "GameStarting", connection |-> e.connection]

\* What is still to be handled on a connection was not handled on it, and nothing was
\* written of it.
CountsInv ==
    /\ \A e \in Event : e.connection > connections => written[e] = 0
    /\ \A m \in Message \ Known :
        handled[m] = 0 /\ \A e \in Event : e.message = m => written[e] = 0
    /\ \A m \in Ahead :
        /\ handled[m] < connections
        /\ \A e \in Event : e.message = m /\ e.connection = connections => written[e] = 0
    /\ job # NoJob =>
        /\ job.event.connection = connections
        /\ handled[job.event.message] < connections
        /\ written[job.event] <= job.retries
        /\ job.event.kind = "PlayerJoinedLobby" => written[Other(job.event)] = 0
    /\ \A e \in cache : written[e] >= 1

DeliveryInv ==
    /\ TypeOK /\ NothingLost /\ PlacesInv /\ CountsInv
    /\ HandledOncePerConnection /\ CopiesBounded /\ ReportedWritten

LEMMA Start == Init => DeliveryInv
<1> SUFFICES ASSUME Init PROVE DeliveryInv
  OBVIOUS
<1>1. TypeOK
  <2>1. NoJob \in Job /\ <<>> \in Seq(Message)
    BY DEF Job
  <2>2. /\ [e \in Event |-> 0] \in [Event -> Nat]
        /\ [m \in Message |-> 0] \in [Message -> Nat]
    OBVIOUS
  <2>3. 0 \in 0..MaxDialRetries /\ 0 \in 0..MaxConnections
    BY DeliveryAssumption
  <2>4. QED
    BY <2>1, <2>2, <2>3 DEF Init, TypeOK
<1>2. NothingLost /\ PlacesInv
  BY EmptyRange DEF Init, NothingLost, PlacesInv
<1>3. CountsInv
  BY EmptyRange DEF Init, CountsInv, Ahead, Known
<1>4. HandledOncePerConnection /\ CopiesBounded /\ ReportedWritten
  BY DeliveryAssumption DEF Init, HandledOncePerConnection, CopiesBounded, ReportedWritten
<1>5. QED
  BY <1>1, <1>2, <1>3, <1>4 DEF DeliveryInv

\* The facts about a job that is not NoJob.
LEMMA JobParts ==
    ASSUME TypeOK, job # NoJob
    PROVE  /\ job = [pc |-> "publish", event |-> job.event, retries |-> job.retries]
           /\ job.event \in Event /\ job.retries \in 0..MaxRetries
           /\ job.event.message \in Message
           /\ job.event.kind \in EventKind
           /\ job.event.connection \in 1..MaxConnections
           /\ Other(job.event) \in Event
           /\ [job.event EXCEPT !.kind = "GameStarting"] = Other(job.event)
<1>1. job \in [pc : {"publish"}, event : Event, retries : 0..MaxRetries]
  BY DEF TypeOK, Job
<1>2. job.event \in Event
  BY <1>1
<1>3. job = [pc |-> "publish", event |-> job.event, retries |-> job.retries]
  BY <1>1
<1>4. Other(job.event) \in Event
  BY <1>2 DEF Event, EventKind, Other
<1>5. [job.event EXCEPT !.kind = "GameStarting"] = Other(job.event)
  BY <1>2 DEF Event, Other
<1>6. QED
  BY <1>1, <1>2, <1>3, <1>4, <1>5 DEF Event
-----------------------------------------------------------------------------
(***************************************************************************)
(* The steps that neither publish nor connect.                             *)
(***************************************************************************)

\* The places as sets.
LEMMA Places ==
    ASSUME TypeOK
    PROVE  /\ Known \subseteq Message
           /\ Range(inbox) \subseteq Message
           /\ Range(queue) \subseteq Message
           /\ Range(unacked) \subseteq Message
           /\ Ahead \subseteq Message
           /\ connections \in Nat
  BY RangeMembers, DeliveryAssumption DEF TypeOK, Known, Ahead

\* Nothing is written or handled, and only a message that is new to the broker comes
\* to those that will be handled.
LEMMA CountsKept ==
    ASSUME DeliveryInv,
           written' = written, handled' = handled, reported' = reported,
           connections' = connections, cache' \subseteq cache,
           Known \subseteq Known',
           \A m \in Ahead' : m \in Ahead \/ (m \in Message \ Known /\ connections >= 1),
           job' = job \/ job' = NoJob
    PROVE  CountsInv' /\ HandledOncePerConnection' /\ CopiesBounded' /\ ReportedWritten'
<1>0. /\ TypeOK /\ CountsInv /\ HandledOncePerConnection /\ CopiesBounded /\ ReportedWritten
      /\ connections \in Nat
  BY Places DEF DeliveryInv
<1>1. \A m \in Message \ Known' :
        handled'[m] = 0 /\ \A e \in Event : e.message = m => written'[e] = 0
  BY <1>0 DEF CountsInv
<1>2. \A m \in Ahead' :
        /\ handled'[m] < connections'
        /\ \A e \in Event : e.message = m /\ e.connection = connections' => written'[e] = 0
  BY <1>0 DEF CountsInv
<1>3. job' # NoJob =>
        /\ job'.event.connection = connections'
        /\ handled'[job'.event.message] < connections'
        /\ written'[job'.event] <= job'.retries
        /\ job'.event.kind = "PlayerJoinedLobby" => written'[Other(job'.event)] = 0
  BY <1>0 DEF CountsInv
<1>4. CountsInv'
  BY <1>0, <1>1, <1>2, <1>3 DEF CountsInv, Other
<1>5. HandledOncePerConnection' /\ CopiesBounded' /\ ReportedWritten'
  BY <1>0 DEF HandledOncePerConnection, CopiesBounded, ReportedWritten
<1>6. QED
  BY <1>4, <1>5

LEMMA SendStep ==
    ASSUME DeliveryInv, NEW m \in Message, Send(m) PROVE DeliveryInv'
<1>0. /\ TypeOK /\ NothingLost /\ PlacesInv
      /\ queue \in Seq(Message)
  BY DEF DeliveryInv, TypeOK
<1>1. /\ m \notin Known
      /\ queue' = Append(queue, m)
      /\ UNCHANGED <<process, dials, connections, connected, unacked, inbox, job,
                     cache, written, handled, reported>>
  BY DEF Send, Known
<1>2. /\ queue' \in Seq(Message)
      /\ Range(queue') = Range(queue) \cup {m}
      /\ Distinct(queue')
  BY <1>0, <1>1, AppendRange DEF PlacesInv, Known
<1>3. Known' = Known \cup {m}
  BY <1>1, <1>2 DEF Known
<1>4. TypeOK'
  BY <1>0, <1>1, <1>2 DEF TypeOK
<1>5. NothingLost'
  BY <1>0, <1>1, <1>2 DEF NothingLost
<1>6. PlacesInv'
  BY <1>0, <1>1, <1>2 DEF PlacesInv, Known
<1>7. \A x \in Ahead' : x \in Ahead \/ (x \in Message \ Known /\ connections >= 1)
  BY <1>0, <1>1, <1>2 DEF Ahead, PlacesInv
<1>8. QED
  BY <1>1, <1>3, <1>4, <1>5, <1>6, <1>7, CountsKept DEF DeliveryInv

LEMMA PushStep == ASSUME DeliveryInv, Push PROVE DeliveryInv'
<1>0. /\ TypeOK /\ NothingLost /\ PlacesInv
      /\ queue \in Seq(Message) /\ unacked \in Seq(Message) /\ inbox \in Seq(Message)
  BY DEF DeliveryInv, TypeOK
<1>1. /\ process = "serving" /\ connected /\ queue # <<>>
      /\ queue' = Tail(queue)
      /\ unacked' = Append(unacked, Head(queue))
      /\ inbox' = Append(inbox, Head(queue))
      /\ UNCHANGED <<process, dials, connections, connected, job, cache, written,
                     handled, reported>>
  BY DEF Push
<1> DEFINE h == Head(queue)
<1>2. /\ queue' \in Seq(Message) /\ h \in Message
      /\ Range(queue) = {h} \cup Range(queue')
      /\ Distinct(queue') /\ h \notin Range(queue')
  BY <1>0, <1>1, TailRange DEF PlacesInv
<1>3. h \notin Range(unacked) /\ h \notin Range(inbox)
  BY <1>0, <1>1, <1>2 DEF PlacesInv
<1> HIDE DEF h
<1>4. /\ unacked' \in Seq(Message) /\ Distinct(unacked')
      /\ Range(unacked') = Range(unacked) \cup {h}
      /\ inbox' \in Seq(Message) /\ Distinct(inbox')
      /\ Range(inbox') = Range(inbox) \cup {h}
  <2>1. unacked' = Append(unacked, h) /\ inbox' = Append(inbox, h)
    BY <1>1 DEF h
  <2>2. QED
    BY <1>0, <1>2, <1>3, <2>1, AppendRange DEF PlacesInv
<1>5. Known' = Known
  BY <1>2, <1>4 DEF Known
<1>6. TypeOK'
  BY <1>0, <1>1, <1>2, <1>4 DEF TypeOK
<1>7. NothingLost'
  BY <1>0, <1>1, <1>2, <1>4 DEF NothingLost
<1>8. PlacesInv'
  BY <1>0, <1>1, <1>2, <1>3, <1>4 DEF PlacesInv
<1>9. \A x \in Ahead' : x \in Ahead
  BY <1>1, <1>2, <1>4 DEF Ahead
<1>10. QED
  BY <1>1, <1>5, <1>6, <1>7, <1>8, <1>9, CountsKept DEF DeliveryInv

\* What the broker puts back keeps its messages apart.
LEMMA DisconnectParts ==
    ASSUME TypeOK, PlacesInv, Disconnect
    PROVE  /\ ~connected'
           /\ queue' \in Seq(Message) /\ unacked' = <<>>
           /\ Distinct(queue') /\ Distinct(unacked')
           /\ Range(queue') = Known /\ Range(unacked') = {}
           /\ Known' = Known
<1>1. /\ queue \in Seq(Message) /\ unacked \in Seq(Message)
      /\ queue' = unacked \o queue /\ unacked' = <<>> /\ ~connected'
  BY DEF TypeOK, Disconnect
<1>2. /\ queue' \in Seq(Message)
      /\ Range(queue') = Range(unacked) \cup Range(queue)
      /\ Distinct(queue')
  BY <1>1, ConcatRange DEF PlacesInv
<1>3. QED
  BY <1>1, <1>2, EmptyRange DEF Known

LEMMA LoseConnectionStep == ASSUME DeliveryInv, LoseConnection PROVE DeliveryInv'
<1>0. TypeOK /\ NothingLost /\ PlacesInv
  BY DEF DeliveryInv
<1>1. /\ Disconnect /\ connected
      /\ UNCHANGED <<process, dials, connections, inbox, job, cache, written, handled,
                     reported>>
  BY DEF LoseConnection
<1>2. /\ ~connected'
      /\ queue' \in Seq(Message) /\ unacked' = <<>>
      /\ Distinct(queue') /\ Distinct(unacked')
      /\ Range(queue') = Known /\ Range(unacked') = {}
      /\ Known' = Known
  BY <1>0, <1>1, DisconnectParts
<1>3. connected' = FALSE
  BY <1>1 DEF Disconnect
<1>4. TypeOK'
  <2>1. <<>> \in Seq(Message)
    OBVIOUS
  <2>2. QED
    BY <1>0, <1>1, <1>2, <1>3, <2>1 DEF TypeOK
<1>5. NothingLost'
  BY <1>0, <1>1, <1>2 DEF NothingLost, Known
<1>6. PlacesInv'
  BY <1>0, <1>1, <1>2 DEF PlacesInv
<1>7. \A x \in Ahead' : x \in Ahead
  BY <1>1, <1>2 DEF Ahead
<1>8. QED
  BY <1>1, <1>2, <1>4, <1>5, <1>6, <1>7, CountsKept DEF DeliveryInv

LEMMA ExitStep == ASSUME DeliveryInv, Exit PROVE DeliveryInv'
<1>0. TypeOK /\ NothingLost /\ PlacesInv
  BY DEF DeliveryInv
<1>1. /\ Disconnect /\ process' = "stopped"
      /\ inbox' = <<>> /\ job' = NoJob /\ cache' = {}
      /\ UNCHANGED <<dials, connections, written, handled, reported>>
  BY DEF Exit
<1>2. /\ ~connected'
      /\ queue' \in Seq(Message) /\ unacked' = <<>>
      /\ Distinct(queue') /\ Distinct(unacked')
      /\ Range(queue') = Known /\ Range(unacked') = {}
      /\ Known' = Known
  BY <1>0, <1>1, DisconnectParts
<1>3. connected' = FALSE
  BY <1>1 DEF Disconnect
<1>4. TypeOK'
  <2>1. NoJob \in Job /\ <<>> \in Seq(Message)
    BY DEF Job
  <2>2. QED
    BY <1>0, <1>1, <1>2, <1>3, <2>1 DEF TypeOK
<1>5. NothingLost'
  BY <1>1, EmptyRange DEF NothingLost
<1>6. PlacesInv'
  BY <1>1, <1>2, EmptyRange DEF PlacesInv
<1>7. \A x \in Ahead' : x \in Ahead
  BY <1>1, <1>2, EmptyRange DEF Ahead
<1>8. QED
  BY <1>1, <1>2, <1>4, <1>5, <1>6, <1>7, CountsKept DEF DeliveryInv

LEMMA DialStep == ASSUME DeliveryInv, StartProcess \/ DialFails PROVE DeliveryInv'
<1>0. TypeOK /\ NothingLost /\ PlacesInv
  BY DEF DeliveryInv
<1>1. /\ process # "serving" /\ process' \in {"stopped", "dialing"}
      /\ dials' \in 0..MaxDialRetries
      /\ UNCHANGED <<connections, connected, queue, unacked, inbox, job, cache, written,
                     handled, reported>>
  BY <1>0, DeliveryAssumption DEF StartProcess, DialFails, TypeOK
<1>2. TypeOK'
  BY <1>0, <1>1 DEF TypeOK
<1>3. NothingLost' /\ PlacesInv'
  BY <1>0, <1>1 DEF NothingLost, PlacesInv
<1>4. Known' = Known /\ Ahead' = Ahead
  BY <1>1 DEF Known, Ahead
<1>5. QED
  BY <1>1, <1>2, <1>3, <1>4, CountsKept DEF DeliveryInv
-----------------------------------------------------------------------------
(***************************************************************************)
(* The steps that begin a connection, a message and an attempt to publish. *)
(***************************************************************************)

LEMMA ConnectStep == ASSUME DeliveryInv, Connect PROVE DeliveryInv'
<1>0. /\ TypeOK /\ NothingLost /\ PlacesInv /\ CountsInv
      /\ HandledOncePerConnection /\ CopiesBounded /\ ReportedWritten
      /\ connections \in Nat
  BY Places DEF DeliveryInv
<1>1. /\ process = "dialing" /\ process' = "serving"
      /\ connections < MaxConnections
      /\ connections' = connections + 1
      /\ connected' = TRUE
      /\ UNCHANGED <<dials, queue, unacked, inbox, job, cache, written, handled, reported>>
  BY DEF Connect
<1>2. inbox = <<>> /\ job = NoJob /\ Range(inbox) = {}
  BY <1>0, <1>1, EmptyRange DEF PlacesInv
<1>3. TypeOK'
  BY <1>0, <1>1, DeliveryAssumption DEF TypeOK
<1>4. NothingLost' /\ PlacesInv'
  BY <1>0, <1>1, <1>2 DEF NothingLost, PlacesInv
<1>5. \A m \in Message : handled[m] \in Nat /\ handled[m] < connections + 1
  BY <1>0 DEF HandledOncePerConnection, TypeOK
<1>6. \A e \in Event : e.connection \in Nat
  BY DEF Event
<1>7. Ahead' = Range(queue) /\ Ahead' \subseteq Message /\ Known' = Known
  BY <1>0, <1>1, <1>2, Places DEF Ahead, Known
<1>8. CountsInv'
  <2>1. \A e \in Event : e.connection > connections' => written'[e] = 0
    BY <1>0, <1>1, <1>6 DEF CountsInv
  <2>2. \A m \in Ahead' :
        /\ handled'[m] < connections'
        /\ \A e \in Event : e.message = m /\ e.connection = connections' => written'[e] = 0
    BY <1>0, <1>1, <1>5, <1>6, <1>7 DEF CountsInv
  <2>3. QED
    BY <1>0, <1>1, <1>2, <1>7, <2>1, <2>2 DEF CountsInv
<1>9. HandledOncePerConnection'
  BY <1>1, <1>5, <1>0 DEF HandledOncePerConnection
<1>10. CopiesBounded' /\ ReportedWritten'
  BY <1>0, <1>1 DEF CopiesBounded, ReportedWritten
<1>11. QED
  BY <1>3, <1>4, <1>8, <1>9, <1>10 DEF DeliveryInv

LEMMA ConsumeStep == ASSUME DeliveryInv, Consume PROVE DeliveryInv'
<1>0. /\ TypeOK /\ NothingLost /\ PlacesInv /\ CountsInv
      /\ HandledOncePerConnection /\ CopiesBounded /\ ReportedWritten
      /\ inbox \in Seq(Message) /\ connections \in 1..MaxConnections
  BY DEF DeliveryInv, TypeOK, Consume, PlacesInv
<1> DEFINE h == Head(inbox)
           e0 == [message |-> h, kind |-> "PlayerJoinedLobby", connection |-> connections]
<1>1. /\ process = "serving" /\ job = NoJob /\ inbox # <<>>
      /\ inbox' = Tail(inbox)
      /\ (IF h \in Malformed THEN job' = job ELSE job' = Call(e0))
      /\ UNCHANGED <<process, dials, connections, connected, queue, unacked, cache,
                     written, handled, reported>>
  BY DEF Consume, broker
<1>2. /\ inbox' \in Seq(Message) /\ h \in Message
      /\ Range(inbox) = {h} \cup Range(inbox')
      /\ Distinct(inbox') /\ h \notin Range(inbox')
  BY <1>0, <1>1, TailRange DEF PlacesInv
<1>3. h \in Ahead /\ h \in Known
  BY <1>0, <1>2 DEF Ahead, NothingLost, Known
<1> HIDE DEF h
<1>4. Known' = Known /\ \A m \in Ahead' : m \in Ahead
  BY <1>1, <1>2 DEF Known, Ahead
<1>5. CASE h \in Malformed
  <2>1. job' = job
    BY <1>1, <1>5
  <2>2. TypeOK'
    BY <1>0, <1>1, <1>2, <2>1 DEF TypeOK
  <2>3. NothingLost' /\ PlacesInv'
    BY <1>0, <1>1, <1>2, <2>1 DEF NothingLost, PlacesInv
  <2>4. QED
    BY <1>1, <1>4, <2>1, <2>2, <2>3, CountsKept DEF DeliveryInv
<1>6. CASE h \notin Malformed
  <2>1. /\ e0 \in Event /\ e0.message = h /\ e0.connection = connections
        /\ e0.kind = "PlayerJoinedLobby"
        /\ Other(e0) \in Event /\ Other(e0).message = h
        /\ Other(e0).connection = connections
    BY <1>0, <1>2 DEF Event, EventKind, Other
  <2>2. written[e0] = 0 /\ written[Other(e0)] = 0 /\ handled[h] < connections
    BY <1>0, <1>3, <2>1 DEF CountsInv
  <2> HIDE DEF e0
  <2>3. /\ job' = [pc |-> "publish", event |-> e0, retries |-> 0]
        /\ job'.event = e0 /\ job'.retries = 0
    BY <1>1, <1>6 DEF Call
  <2>4. job' \in Job
    BY <2>1, <2>3, DeliveryAssumption DEF Job
  <2>5. TypeOK'
    BY <1>0, <1>1, <1>2, <2>4 DEF TypeOK
  <2>6. NothingLost'
    BY <1>0, <1>1, <1>2, <1>3, <2>1, <2>3 DEF NothingLost, Known
  <2>7. PlacesInv'
    BY <1>0, <1>1, <1>2, <2>1, <2>3 DEF PlacesInv
  <2>8. /\ job'.event.connection = connections'
        /\ handled'[job'.event.message] < connections'
        /\ written'[job'.event] <= job'.retries
        /\ (job'.event.kind = "PlayerJoinedLobby" => written'[Other(job'.event)] = 0)
    BY <1>1, <2>1, <2>2, <2>3
  <2>9. CountsInv'
    <3>1. \A e \in Event : e.connection > connections' => written'[e] = 0
      BY <1>0, <1>1 DEF CountsInv
    <3>2. \A m \in Message \ Known' :
            handled'[m] = 0 /\ \A e \in Event : e.message = m => written'[e] = 0
      BY <1>0, <1>1, <1>4 DEF CountsInv
    <3>3. \A m \in Ahead' :
            /\ handled'[m] < connections'
            /\ \A e \in Event :
                  e.message = m /\ e.connection = connections' => written'[e] = 0
      BY <1>0, <1>1, <1>4 DEF CountsInv
    <3>4. \A e \in cache' : written'[e] >= 1
      BY <1>0, <1>1 DEF CountsInv
    <3>5. QED
      BY <2>8, <3>1, <3>2, <3>3, <3>4 DEF CountsInv, Other
  <2>10. HandledOncePerConnection' /\ CopiesBounded' /\ ReportedWritten'
    BY <1>0, <1>1 DEF HandledOncePerConnection, CopiesBounded, ReportedWritten
  <2>11. QED
    BY <2>5, <2>6, <2>7, <2>9, <2>10 DEF DeliveryInv
<1>7. QED
  BY <1>5, <1>6

\* An attempt to publish writes the event once or not at all; then the message is done,
\* tried again, or continued with the other event.
LEMMA AttemptKept ==
    ASSUME DeliveryInv, job # NoJob,
           UNCHANGED <<process, dials, connections, connected, queue, unacked, inbox>>,
           \/ written' = written
           \/ written' = [written EXCEPT ![job.event] = @ + 1],
           cache' \subseteq cache \cup {job.event},
           reported' \subseteq reported \cup {job.event},
           job.event \in cache' \cup reported' => written'[job.event] >= 1,
           \/ /\ job' = NoJob
              /\ handled' = [handled EXCEPT ![job.event.message] = @ + 1]
           \/ /\ job.retries < MaxRetries
              /\ job' = [pc |-> "publish", event |-> job.event, retries |-> job.retries + 1]
              /\ handled' = handled
           \/ /\ job.event.kind = "PlayerJoinedLobby"
              /\ job' = [pc |-> "publish", event |-> Other(job.event), retries |-> 0]
              /\ handled' = handled
    PROVE  DeliveryInv'
<1> DEFINE e0 == job.event
           m0 == job.event.message
<1>0. /\ TypeOK /\ NothingLost /\ PlacesInv /\ CountsInv
      /\ HandledOncePerConnection /\ CopiesBounded /\ ReportedWritten
      /\ MaxRetries \in Nat /\ connections \in Nat
      /\ written \in [Event -> Nat] /\ handled \in [Message -> Nat]
  BY Places, DeliveryAssumption DEF DeliveryInv, TypeOK
<1>1. /\ e0 \in Event /\ job.retries \in 0..MaxRetries /\ m0 \in Message
      /\ Other(e0) \in Event
      /\ Other(e0).message = m0 /\ Other(e0).connection = e0.connection
      /\ Other(e0).kind = "GameStarting"
  BY <1>0, JobParts DEF Other
<1>2. /\ e0.connection = connections /\ handled[m0] < connections
      /\ written[e0] <= job.retries
      /\ e0.kind = "PlayerJoinedLobby" => written[Other(e0)] = 0
  BY <1>0 DEF CountsInv
<1>3. /\ \A e \in Event \ {e0} : written'[e] = written[e]
      /\ written'[e0] \in {written[e0], written[e0] + 1}
      /\ written' \in [Event -> Nat]
  BY <1>0, <1>1
<1>4. /\ \A m \in Message \ {m0} : handled'[m] = handled[m]
      /\ handled'[m0] <= connections
      /\ job' # NoJob => handled'[m0] < connections
      /\ handled' \in [Message -> Nat]
  BY <1>0, <1>1, <1>2 DEF NoJob
<1>5. /\ Known' = Known /\ Ahead' = Ahead
      /\ m0 \in Known /\ m0 \notin Ahead
  BY <1>0 DEF Known, Ahead, NothingLost, PlacesInv
<1>6. \/ job' = NoJob
      \/ /\ job' # NoJob /\ job'.event = e0 /\ job'.retries = job.retries + 1
         /\ job.retries < MaxRetries
      \/ /\ job' # NoJob /\ job'.event = Other(e0) /\ job'.retries = 0
         /\ e0.kind = "PlayerJoinedLobby"
  BY DEF NoJob
<1>7. TypeOK'
  <2>1. job' \in Job
    BY <1>0, <1>1 DEF Job
  <2>2. cache' \subseteq Event /\ reported' \subseteq Event
    BY <1>0, <1>1 DEF TypeOK
  <2>3. QED
    BY <1>0, <1>3, <1>4, <2>1, <2>2 DEF TypeOK
<1>8. NothingLost'
  BY <1>0, <1>1, <1>5, <1>6 DEF NothingLost, Known
<1>9. PlacesInv'
  BY <1>0, <1>1, <1>6 DEF PlacesInv
<1>10. \A e \in Event : e.message # m0 \/ e.connection # connections => written'[e] = written[e]
  BY <1>2, <1>3
<1>11. CountsInv'
  <2>1. \A e \in Event : e.connection > connections' => written'[e] = 0
    BY <1>0, <1>10 DEF CountsInv, Event
  <2>2. \A m \in Message \ Known' :
          handled'[m] = 0 /\ \A e \in Event : e.message = m => written'[e] = 0
    BY <1>0, <1>4, <1>5, <1>10 DEF CountsInv
  <2>3. \A m \in Ahead' :
          /\ handled'[m] < connections'
          /\ \A e \in Event :
                e.message = m /\ e.connection = connections' => written'[e] = 0
    <3>1. Ahead \subseteq Message
      BY <1>0, Places
    <3>2. QED
      BY <1>0, <1>4, <1>5, <1>10, <3>1 DEF CountsInv
  <2>4. ASSUME job' # NoJob
        PROVE  /\ job'.event.connection = connections'
               /\ handled'[job'.event.message] < connections'
               /\ written'[job'.event] <= job'.retries
               /\ job'.event.kind = "PlayerJoinedLobby" => written'[Other(job'.event)] = 0
    <3>1. CASE job'.event = e0 /\ job'.retries = job.retries + 1
      <4>1. written'[e0] <= job.retries + 1
        BY <1>0, <1>1, <1>2, <1>3
      <4>2. e0.kind = "PlayerJoinedLobby" => Other(e0) # e0
        BY <1>1
      <4>3. e0.kind = "PlayerJoinedLobby" => written'[Other(e0)] = 0
        BY <1>1, <1>2, <1>3, <4>2
      <4>4. QED
        BY <1>2, <1>4, <2>4, <3>1, <4>1, <4>3
    <3>2. CASE job'.event = Other(e0) /\ job'.retries = 0 /\ e0.kind = "PlayerJoinedLobby"
      <4>1. Other(e0) # e0
        BY <1>1, <3>2
      <4>2. written'[Other(e0)] = 0
        BY <1>1, <1>2, <1>3, <3>2, <4>1
      <4>3. QED
        BY <1>1, <1>2, <1>4, <2>4, <3>2, <4>2
    <3>3. QED
      BY <1>6, <2>4, <3>1, <3>2
  <2>5. \A e \in cache' : written'[e] >= 1
    BY <1>0, <1>3, <1>7 DEF CountsInv, TypeOK
  <2>6. QED
    BY <2>1, <2>2, <2>3, <2>4, <2>5 DEF CountsInv, Other
<1>12. HandledOncePerConnection'
  BY <1>0, <1>4 DEF HandledOncePerConnection
<1>13. CopiesBounded'
  BY <1>0, <1>1, <1>2, <1>3 DEF CopiesBounded
<1>14. ReportedWritten'
  BY <1>0, <1>3, <1>7 DEF ReportedWritten, TypeOK
<1>15. QED
  BY <1>7, <1>8, <1>9, <1>11, <1>12, <1>13, <1>14 DEF DeliveryInv

\* The two ways Proceed goes on.
LEMMA ProceedParts ==
    ASSUME TypeOK, job # NoJob, Proceed
    PROVE  /\ reported' = reported \cup {job.event}
           /\ \/ /\ job' = NoJob
                 /\ handled' = [handled EXCEPT ![job.event.message] = @ + 1]
              \/ /\ job.event.kind = "PlayerJoinedLobby"
                 /\ job' = [pc |-> "publish", event |-> Other(job.event), retries |-> 0]
                 /\ handled' = handled
  BY JobParts DEF Proceed, Finish, Call

LEMMA PublishSucceedsStep == ASSUME DeliveryInv, PublishSucceeds PROVE DeliveryInv'
<1>0. TypeOK /\ CountsInv /\ job # NoJob /\ written \in [Event -> Nat] /\ job.event \in Event
  BY JobParts DEF DeliveryInv, TypeOK, PublishSucceeds
<1>1. UNCHANGED <<process, dials, connections, connected, queue, unacked, inbox>>
  BY DEF PublishSucceeds, broker
<1>2. /\ written' = written \/ written' = [written EXCEPT ![job.event] = @ + 1]
      /\ cache' \subseteq cache \cup {job.event}
      /\ written'[job.event] >= 1
  <2>1. CASE job.event \in cache
    BY <1>0, <2>1 DEF PublishSucceeds, CorrelationId, CountsInv
  <2>2. CASE job.event \notin cache
    <3>1. /\ written' = [written EXCEPT ![job.event] = @ + 1]
          /\ cache' = cache \cup {job.event}
      BY <2>2 DEF PublishSucceeds, CorrelationId, Write
    <3>2. written'[job.event] = written[job.event] + 1 /\ written[job.event] \in Nat
      BY <1>0, <3>1
    <3>3. QED
      BY <3>1, <3>2
  <2>3. QED
    BY <2>1, <2>2
<1>3. Proceed
  BY DEF PublishSucceeds
<1>4. QED
  BY <1>0, <1>1, <1>2, <1>3, ProceedParts, AttemptKept

LEMMA TryFailsStep == ASSUME DeliveryInv, TryFails PROVE DeliveryInv'
<1>0. /\ TypeOK /\ CountsInv /\ ReportedWritten /\ job # NoJob
      /\ written \in [Event -> Nat] /\ job.event \in Event
      /\ job = [pc |-> "publish", event |-> job.event, retries |-> job.retries]
  BY JobParts DEF DeliveryInv, TypeOK, TryFails
<1>1. /\ UNCHANGED <<process, dials, connections, connected, queue, unacked>>
      /\ cache' = cache /\ reported' = reported
      /\ written' = written \/ written' = [written EXCEPT ![job.event] = @ + 1]
  BY DEF TryFails, broker, Write
<1>2. /\ inbox' = inbox
      /\ \/ /\ job' = NoJob
            /\ handled' = [handled EXCEPT ![job.event.message] = @ + 1]
         \/ /\ job.retries < MaxRetries
            /\ job' = [pc |-> "publish", event |-> job.event, retries |-> job.retries + 1]
            /\ handled' = handled
  <2>1. [job EXCEPT !.retries = @ + 1]
            = [pc |-> "publish", event |-> job.event, retries |-> job.retries + 1]
    BY <1>0
  <2>2. QED
    BY <2>1 DEF TryFails, Retry, Fail, Finish
<1>3. job.event \in cache' \cup reported' => written'[job.event] >= 1
  <2>1. job.event \in cache \cup reported => written[job.event] >= 1
    BY <1>0 DEF CountsInv, ReportedWritten
  <2>2. written'[job.event] \in {written[job.event], written[job.event] + 1}
    BY <1>0, <1>1
  <2>3. QED
    BY <1>0, <1>1, <2>1, <2>2
<1>4. QED
  BY <1>0, <1>1, <1>2, <1>3, AttemptKept
-----------------------------------------------------------------------------
LEMMA Step == DeliveryInv /\ [Next]_vars => DeliveryInv'
<1> SUFFICES ASSUME DeliveryInv, [Next]_vars PROVE DeliveryInv'
  OBVIOUS
<1>1. CASE UNCHANGED vars
  BY <1>1 DEF vars, DeliveryInv, TypeOK, NothingLost, PlacesInv, CountsInv, Known, Ahead,
              HandledOncePerConnection, CopiesBounded, ReportedWritten, Other
<1>2. CASE Next
  BY <1>2, SendStep, PushStep, LoseConnectionStep, DialStep, ConnectStep, ExitStep,
     ConsumeStep, PublishSucceedsStep, TryFailsStep DEF Next
<1>3. QED
  BY <1>1, <1>2

THEOREM DeliveryInvariant == Spec => []DeliveryInv
<1>1. QED
  BY Start, Step, PTL DEF Spec

\* Type correctness.
THEOREM DeliveryTypeCorrect == Spec => []TypeOK
<1>1. DeliveryInv => TypeOK
  BY DEF DeliveryInv
<1>2. QED
  BY <1>1, DeliveryInvariant, PTL

\* However often the connection is lost and the process dies, the broker has every
\* request that the process has and has not handled.
THEOREM NothingGetsLost == Spec => []NothingLost
<1>1. DeliveryInv => NothingLost
  BY DEF DeliveryInv
<1>2. QED
  BY <1>1, DeliveryInvariant, PTL

\* A request is handled at most once for every connection.
THEOREM HandledAtMostOncePerConnection == Spec => []HandledOncePerConnection
<1>1. DeliveryInv => HandledOncePerConnection
  BY DEF DeliveryInv
<1>2. QED
  BY <1>1, DeliveryInvariant, PTL

\* An event has at most as many copies as there are attempts to publish it.
THEOREM CopiesStayBounded == Spec => []CopiesBounded
<1>1. DeliveryInv => CopiesBounded
  BY DEF DeliveryInv
<1>2. QED
  BY <1>1, DeliveryInvariant, PTL

\* What was reported as published was written.
THEOREM ReportedIsWritten == Spec => []ReportedWritten
<1>1. DeliveryInv => ReportedWritten
  BY DEF DeliveryInv
<1>2. QED
  BY <1>1, DeliveryInvariant, PTL
-----------------------------------------------------------------------------
(***************************************************************************)
(* The promise: Delivery implements RequestQueue.                          *)
(***************************************************************************)

\* The event that comes before GameStarting.
Opening(e) ==
    [message |-> e.message, kind |-> "PlayerJoinedLobby", connection |-> e.connection]

\* A game is about to be announced only after the joining was.
OrderInv ==
    job # NoJob /\ job.event.kind = "GameStarting" => written[Opening(job.event)] >= 1

LEMMA OrderStart == Init => OrderInv
  BY DEF Init, OrderInv

\* What an attempt to publish does, for PublishSucceeds and TryFails alike.
LEMMA AttemptParts ==
    ASSUME DeliveryInv, PublishSucceeds \/ TryFails
    PROVE  /\ job # NoJob /\ job.event \in Event
           /\ UNCHANGED <<process, dials, connections, connected, queue, unacked, inbox>>
           /\ \/ written' = written
              \/ written' = [written EXCEPT ![job.event] = @ + 1]
           /\ \/ /\ job' = NoJob
                 /\ handled' = [handled EXCEPT ![job.event.message] = @ + 1]
              \/ /\ job'.event = job.event
                 /\ handled' = handled
              \/ /\ job.event.kind = "PlayerJoinedLobby"
                 /\ job'.event = Other(job.event)
                 /\ handled' = handled
                 /\ written'[job.event] >= 1
<1>0. /\ TypeOK /\ CountsInv /\ job # NoJob
      /\ written \in [Event -> Nat] /\ job.event \in Event
      /\ job = [pc |-> "publish", event |-> job.event, retries |-> job.retries]
  BY JobParts DEF DeliveryInv, TypeOK, PublishSucceeds, TryFails
<1>1. CASE PublishSucceeds
  <2>1. UNCHANGED <<process, dials, connections, connected, queue, unacked, inbox>>
    BY <1>1 DEF PublishSucceeds, broker
  <2>2. /\ written' = written \/ written' = [written EXCEPT ![job.event] = @ + 1]
        /\ written'[job.event] >= 1
    <3>1. CASE job.event \in cache
      BY <1>0, <1>1, <3>1 DEF PublishSucceeds, CorrelationId, CountsInv
    <3>2. CASE job.event \notin cache
      <4>1. written' = [written EXCEPT ![job.event] = @ + 1]
        BY <1>1, <3>2 DEF PublishSucceeds, CorrelationId, Write
      <4>2. written'[job.event] = written[job.event] + 1 /\ written[job.event] \in Nat
        BY <1>0, <4>1
      <4>3. QED
        BY <4>1, <4>2
    <3>3. QED
      BY <3>1, <3>2
  <2>3. Proceed
    BY <1>1 DEF PublishSucceeds
  <2>4. QED
    BY <1>0, <2>1, <2>2, <2>3, ProceedParts
<1>2. CASE TryFails
  <2>1. /\ UNCHANGED <<process, dials, connections, connected, queue, unacked>>
        /\ written' = written \/ written' = [written EXCEPT ![job.event] = @ + 1]
    BY <1>2 DEF TryFails, broker, Write
  <2>2. [job EXCEPT !.retries = @ + 1].event = job.event
    BY <1>0
  <2>3. /\ inbox' = inbox
        /\ \/ /\ job' = NoJob
              /\ handled' = [handled EXCEPT ![job.event.message] = @ + 1]
           \/ /\ job'.event = job.event
              /\ handled' = handled
    BY <1>2, <2>2 DEF TryFails, Retry, Fail, Finish
  <2>4. QED
    BY <1>0, <2>1, <2>3
<1>3. QED
  BY <1>1, <1>2

LEMMA OrderStep == DeliveryInv /\ OrderInv /\ [Next]_vars => OrderInv'
<1> SUFFICES ASSUME DeliveryInv, OrderInv, [Next]_vars PROVE OrderInv'
  OBVIOUS
<1>1. CASE job' = job /\ written' = written
  BY <1>1 DEF OrderInv, Opening
<1>2. CASE job' = NoJob
  BY <1>2 DEF OrderInv
<1>3. CASE Consume
  BY <1>1, <1>3 DEF Consume, Call, OrderInv
<1>4. CASE PublishSucceeds \/ TryFails
  <2>1. job # NoJob /\ job.event \in Event /\ written \in [Event -> Nat]
    BY <1>4, AttemptParts DEF DeliveryInv, TypeOK
  <2> DEFINE e0 == job.event
  <2>2. \A e \in Event : written[e] >= 1 => written'[e] >= 1
    <3>1. CASE written' = written
      BY <3>1
    <3>2. CASE written' = [written EXCEPT ![e0] = @ + 1]
      BY <2>1, <3>2
    <3>3. QED
      BY <1>4, <3>1, <3>2, AttemptParts
  <2>3. Opening(e0) \in Event
    BY <2>1 DEF Event, EventKind, Opening
  <2>4. CASE job'.event = e0
    BY <2>1, <2>2, <2>3, <2>4 DEF OrderInv, Opening
  <2>5. CASE /\ e0.kind = "PlayerJoinedLobby" /\ job'.event = Other(e0)
             /\ written'[e0] >= 1
    <3>1. Opening(Other(e0)) = e0
      BY <2>1, <2>5 DEF Event, Opening, Other
    <3>2. QED
      BY <2>5, <3>1 DEF OrderInv, Opening
  <2>6. QED
    BY <1>2, <1>4, <2>4, <2>5, AttemptParts
<1>5. QED
  BY <1>1, <1>2, <1>3, <1>4
     DEF Next, vars, Send, Push, LoseConnection, StartProcess, Connect, DialFails, Exit

LEMMA PromiseStart == Init => Promise!Init
<1> SUFFICES ASSUME Init PROVE Promise!Init
  OBVIOUS
<1>1. {e \in Event : written[e] >= 1} = {}
  BY DEF Init
<1>2. QED
  BY <1>1, EmptyRange DEF Init, Promise!Init

\* Steps that announce nothing, handle nothing and keep what the broker has.
LEMMA PromiseStutters ==
    ASSUME Known' = Known,
           handled' = handled, connections' = connections, written' = written
    PROVE  UNCHANGED Promise!vars
  BY DEF Known, Promise!vars

\* An attempt to publish is some work on the request.
LEMMA AttemptWorks ==
    ASSUME DeliveryInv, OrderInv, PublishSucceeds \/ TryFails,
           NEW m0, m0 = job.event.message, NEW k0, k0 = job.event.kind
    PROVE  Promise!Next
<1> DEFINE e0 == job.event
           Seen == {e \in Event : written[e] >= 1}
<1>0. /\ job # NoJob /\ e0 \in Event /\ m0 \in Message
      /\ UNCHANGED <<connections, queue, unacked>>
      /\ written' = written \/ written' = [written EXCEPT ![e0] = @ + 1]
      /\ handled' = handled \/ handled' = [handled EXCEPT ![m0] = @ + 1]
      /\ written \in [Event -> Nat]
  BY AttemptParts, JobParts DEF DeliveryInv, TypeOK
<1>1. m0 \in Range(queue) \cup Range(unacked)
  BY <1>0 DEF DeliveryInv, NothingLost
<1>2. handled[m0] < connections /\ e0.connection = connections
  BY <1>0 DEF DeliveryInv, CountsInv
<1>3. /\ k0 \in {"PlayerJoinedLobby", "GameStarting"}
      /\ Promise!About(m0, k0) = e0
      /\ Promise!About(m0, "PlayerJoinedLobby") = Opening(e0)
      /\ Opening(e0) \in Event
  BY <1>0, <1>2 DEF Event, EventKind, Promise!About, Opening
<1>4. k0 = "GameStarting" => Opening(e0) \in Seen
  BY <1>0, <1>3 DEF OrderInv
<1>5. Seen' = Seen \/ Seen' = Seen \cup {e0}
  <2>1. CASE written' = written
    BY <2>1
  <2>2. CASE written' = [written EXCEPT ![e0] = @ + 1]
    <3>1. written'[e0] >= 1 /\ \A e \in Event \ {e0} : written'[e] = written[e]
      BY <1>0, <2>2
    <3>2. QED
      BY <1>0, <3>1
  <2>3. QED
    BY <1>0, <2>1, <2>2
<1>6. UNCHANGED <<Range(queue) \cup Range(unacked), connections>>
  BY <1>0
<1>7. Promise!Work(m0, k0)
  BY <1>0, <1>1, <1>2, <1>3, <1>4, <1>5, <1>6 DEF Promise!Work
<1>8. QED
  BY <1>0, <1>3, <1>7 DEF Promise!Next

\* Every step is one of RequestQueue's, or none.
LEMMA PromiseStep ==
    DeliveryInv /\ OrderInv /\ [Next]_vars => [Promise!Next]_Promise!vars
<1> SUFFICES ASSUME DeliveryInv, OrderInv, [Next]_vars
             PROVE  [Promise!Next]_Promise!vars
  OBVIOUS
<1>0. /\ TypeOK /\ PlacesInv
      /\ queue \in Seq(Message) /\ unacked \in Seq(Message)
  BY DEF DeliveryInv, TypeOK
<1>1. CASE \E m \in Message : Send(m)
  <2>1. PICK m \in Message : Send(m)
    BY <1>1
  <2>2. /\ Range(queue') \cup Range(unacked') = Range(queue) \cup Range(unacked) \cup {m}
    BY <1>0, <2>1, AppendRange DEF Send
  <2>3. Promise!Enqueue(m)
    BY <2>1, <2>2 DEF Send, Promise!Enqueue
  <2>4. QED
    BY <2>3 DEF Promise!Next
<1>2. CASE Push
  <2>1. /\ queue # <<>> /\ queue' = Tail(queue)
        /\ unacked' = Append(unacked, Head(queue))
        /\ UNCHANGED <<handled, connections, written>>
    BY <1>2 DEF Push
  <2>2. /\ Head(queue) \in Message
        /\ Range(queue) = {Head(queue)} \cup Range(queue')
    BY <1>0, <2>1, TailRange
  <2>3. Range(unacked') = Range(unacked) \cup {Head(queue)}
    BY <1>0, <2>1, <2>2, AppendRange
  <2>4. Known' = Known
    BY <2>2, <2>3 DEF Known
  <2>5. QED
    BY <2>1, <2>4, PromiseStutters
<1>3. CASE LoseConnection \/ Exit
  <2>1. Disconnect /\ UNCHANGED <<handled, connections, written>>
    BY <1>3 DEF LoseConnection, Exit
  <2>2. Known' = Known
    BY <1>0, <2>1, DisconnectParts
  <2>3. QED
    BY <2>1, <2>2, PromiseStutters
<1>4. CASE Connect
  <2>1. Promise!Reconnect
    BY <1>4 DEF Connect, Promise!Reconnect
  <2>2. QED
    BY <2>1 DEF Promise!Next
<1>5. CASE StartProcess \/ DialFails \/ Consume \/ UNCHANGED vars
  <2>1. UNCHANGED <<queue, unacked, handled, connections, written>>
    BY <1>5 DEF StartProcess, DialFails, Consume, broker, vars
  <2>2. Known' = Known
    BY <2>1 DEF Known
  <2>3. QED
    BY <2>1, <2>2, PromiseStutters
<1>6. CASE PublishSucceeds \/ TryFails
  BY <1>6, AttemptWorks
<1>7. QED
  BY <1>1, <1>2, <1>3, <1>4, <1>5, <1>6 DEF Next

\* The queue, the consumer and the publisher implement the promise: a request is owed
\* for ever, handled at most once per connection, and the start of a game is written to
\* a connection only after the player's joining was.
THEOREM DeliveryKeepsPromise == Spec => KeepsPromise
<1>1. Init => Promise!Init /\ OrderInv
  BY PromiseStart, OrderStart
<1>2. DeliveryInv /\ OrderInv /\ [Next]_vars
        => OrderInv' /\ [Promise!Next]_Promise!vars
  BY PromiseStep, OrderStep
<1>3. QED
  BY <1>1, <1>2, DeliveryInvariant, PTL DEF Spec, KeepsPromise, Promise!Spec
=============================================================================
