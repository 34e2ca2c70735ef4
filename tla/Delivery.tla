------------------------------ MODULE Delivery ------------------------------
(***************************************************************************)
(* How queue requests reach the lobby manager and its events reach the     *)
(* broker: the AMQP connection (src/amqp/connection.rs), the consumer of   *)
(* the durable request queue (src/amqp/handlers.rs) and the publisher with *)
(* its retries and its deduplication cache (src/amqp/publisher.rs), while  *)
(* connections are lost and the process dies and is started again.         *)
(*                                                                         *)
(* The lobby manager is here only the events a request makes it publish:   *)
(* PlayerJoinedLobby and then, perhaps, GameStarting.  A failed publish    *)
(* ends the request.                                                       *)
(*                                                                         *)
(* The broker and the client library are external: the broker pushes the   *)
(* queue in order, keeps what was never acknowledged and puts it back at   *)
(* the head of the queue when the connection goes; a publish that returns  *)
(* Ok was written to the connection, one that returns an error may still   *)
(* have been.                                                              *)
(***************************************************************************)
EXTENDS Naturals, Sequences, SequencesExt

CONSTANTS
    Message,         \* the requests that may be sent
    Malformed,       \* those that deserialize_queue_request rejects
    MaxRetries,      \* max_retries of the publisher
    MaxDialRetries,  \* max_retries of the connection
    MaxConnections   \* how many connections a behaviour has: a bound

ASSUME DeliveryAssumption ==
    /\ Malformed \subseteq Message
    /\ MaxRetries \in Nat /\ MaxDialRetries \in Nat /\ MaxConnections \in Nat

VARIABLES
    process,      \* "stopped", "dialing" or "serving"
    dials,        \* retry_count of connect_with_retry
    connections,  \* the connections made so far, a history variable
    connected,    \* whether the last of them is still there
    queue,        \* the request queue, as far as it has not been pushed
    unacked,      \* what was pushed on this connection: nothing acknowledges it
    inbox,        \* what the process was given and has not taken up yet
    job,          \* the message the consumer works on and its publish call
    cache,        \* published_messages, the deduplication cache
    written,      \* how often each event was written to its connection
    handled,      \* how often each message was handled, a history variable
    reported      \* the events whose publish returned Ok, a history variable

broker == <<queue, unacked>>
vars == <<process, dials, connections, connected, queue, unacked, inbox, job,
          cache, written, handled, reported>>

EventKind == {"PlayerJoinedLobby", "GameStarting"}

\* A publish call by what it announces and for which delivery of which message.
Event == [message : Message, kind : EventKind, connection : 1..MaxConnections]

NoJob == [pc |-> "idle"]
Call(e) == [pc |-> "publish", event |-> e, retries |-> 0]

Job == {NoJob} \cup
       [pc : {"publish"}, event : Event, retries : 0..MaxRetries]

TypeOK ==
    /\ process \in {"stopped", "dialing", "serving"}
    /\ dials \in 0..MaxDialRetries
    /\ connections \in 0..MaxConnections
    /\ connected \in BOOLEAN
    /\ queue \in Seq(Message) /\ unacked \in Seq(Message) /\ inbox \in Seq(Message)
    /\ job \in Job
    /\ cache \subseteq Event
    /\ written \in [Event -> Nat]
    /\ handled \in [Message -> Nat]
    /\ reported \subseteq Event

Init ==
    /\ process = "stopped" /\ dials = 0
    /\ connections = 0 /\ connected = FALSE
    /\ queue = <<>> /\ unacked = <<>> /\ inbox = <<>>
    /\ job = NoJob /\ cache = {}
    /\ written = [e \in Event |-> 0]
    /\ handled = [m \in Message |-> 0]
    /\ reported = {}
-----------------------------------------------------------------------------
(***************************************************************************)
(* The broker and the clients: external.                                   *)
(***************************************************************************)

\* A client queues message m, once.
Send(m) ==
    /\ m \notin Range(queue) \cup Range(unacked)
    /\ handled[m] = 0
    /\ queue' = Append(queue, m)
    /\ UNCHANGED <<process, dials, connections, connected, unacked, inbox, job,
                   cache, written, handled, reported>>

\* The broker pushes the next message; the consumer sets no prefetch limit.
Push ==
    /\ process = "serving" /\ connected /\ queue # <<>>
    /\ queue' = Tail(queue)
    /\ unacked' = Append(unacked, Head(queue))
    /\ inbox' = Append(inbox, Head(queue))
    /\ UNCHANGED <<process, dials, connections, connected, job, cache, written,
                   handled, reported>>

\* What the loss of the connection does to the broker and to what is under way.
Disconnect ==
    /\ connected' = FALSE
    /\ queue' = unacked \o queue
    /\ unacked' = <<>>

\* The connection is lost.  The process does not notice: it goes on with what it
\* was given, and it never connects again.
LoseConnection ==
    /\ connected
    /\ Disconnect
    /\ UNCHANGED <<process, dials, connections, inbox, job, cache, written,
                   handled, reported>>
-----------------------------------------------------------------------------
(***************************************************************************)
(* The process.                                                            *)
(***************************************************************************)

\* The container starts, with nothing in memory.
StartProcess ==
    /\ process = "stopped"
    /\ process' = "dialing"
    /\ dials' = 0
    /\ UNCHANGED <<connections, connected, queue, unacked, inbox, job, cache, written,
                   handled, reported>>

\* connect_with_retry: one attempt succeeds, the queue is declared, consumed ...
Connect ==
    /\ process = "dialing"
    /\ connections < MaxConnections
    /\ process' = "serving"
    /\ connections' = connections + 1
    /\ connected' = TRUE
    /\ UNCHANGED <<dials, queue, unacked, inbox, job, cache, written, handled,
                   reported>>

\* ... or fails; after max_retries further ones main exits.
DialFails ==
    /\ process = "dialing"
    /\ IF dials < MaxDialRetries
       THEN dials' = dials + 1 /\ UNCHANGED process
       ELSE process' = "stopped" /\ UNCHANGED dials
    /\ UNCHANGED <<connections, connected, queue, unacked, inbox, job, cache, written,
                   handled, reported>>

\* The process dies or is told to stop, which it does without waiting for the
\* message it is handling; its memory is gone.
Exit ==
    /\ process # "stopped"
    /\ process' = "stopped"
    /\ Disconnect
    /\ inbox' = <<>> /\ job' = NoJob /\ cache' = {}
    /\ UNCHANGED <<dials, connections, written, handled, reported>>
-----------------------------------------------------------------------------
(***************************************************************************)
(* The consumer.                                                           *)
(***************************************************************************)

Consume_Acks ==
    /\ process = "serving" /\ job = NoJob /\ inbox # <<>>
    /\ inbox' = Tail(inbox)
    /\ unacked' = SelectSeq(unacked, LAMBDA m : m # Head(inbox))
    /\ IF Head(inbox) \in Malformed THEN UNCHANGED job
       ELSE job' = Call([message |-> Head(inbox), kind |-> "PlayerJoinedLobby",
                         connection |-> connections])
    /\ UNCHANGED <<process, dials, connections, connected, queue, cache, written,
                   handled, reported>>

Consume_Poisoned ==
    /\ process = "serving" /\ job = NoJob /\ inbox # <<>>
    /\ Head(inbox) \notin Malformed
    /\ inbox' = Tail(inbox)
    /\ job' = Call([message |-> Head(inbox), kind |-> "PlayerJoinedLobby",
                    connection |-> connections])
    /\ UNCHANGED <<process, dials, connections, connected, broker, cache, written,
                   handled, reported>>

\* consume takes up the next message; one that cannot be parsed is only logged.
Consume ==
    /\ process = "serving" /\ job = NoJob /\ inbox # <<>>
    /\ inbox' = Tail(inbox)
    /\ IF Head(inbox) \in Malformed THEN UNCHANGED job
       ELSE job' = Call([message |-> Head(inbox), kind |-> "PlayerJoinedLobby",
                         connection |-> connections])
    /\ UNCHANGED <<process, dials, connections, connected, broker, cache, written,
                   handled, reported>>

\* The message has been handled; an error is logged and nothing else.
Finish ==
    /\ job' = NoJob
    /\ handled' = [handled EXCEPT ![job.event.message] = @ + 1]

\* handle_queue_request after an error: process_message returns it.
Fail == Finish /\ UNCHANGED inbox

\* handle_queue_request after a publish that returned Ok: it publishes the other
\* event if the lobby starts.
Proceed ==
    /\ reported' = reported \cup {job.event}
    /\ \/ Finish
       \/ /\ job.event.kind = "PlayerJoinedLobby"
          /\ job' = Call([job.event EXCEPT !.kind = "GameStarting"])
          /\ UNCHANGED handled
-----------------------------------------------------------------------------
(***************************************************************************)
(* The publisher: publish_to_exchange.                                     *)
(***************************************************************************)

CorrelationId_Request(e) == [e EXCEPT !.kind = "PlayerJoinedLobby"]

\* MessageEnvelope::new draws a fresh uuid for every publish call.
CorrelationId(e) == e

\* basic_publish hands the event to the connection; no confirm is awaited.
Write == written' = [written EXCEPT ![job.event] = @ + 1]

\* The publish call returns Ok: the event is in the cache and skipped, or try_publish
\* wrote it to the connection.
PublishSucceeds ==
    /\ job # NoJob
    /\ IF CorrelationId(job.event) \in cache THEN UNCHANGED <<written, cache>>
       ELSE /\ connected
            /\ Write
            /\ cache' = cache \cup {CorrelationId(job.event)}
    /\ Proceed
    /\ UNCHANGED <<process, dials, connections, connected, broker, inbox>>

Retry_GoesOn ==
    IF job.retries < MaxRetries
    THEN job' = [job EXCEPT !.retries = @ + 1] /\ UNCHANGED <<handled, inbox>>
    ELSE IF job.event.kind = "PlayerJoinedLobby"
    THEN /\ job' = Call([job.event EXCEPT !.kind = "GameStarting"])
         /\ UNCHANGED <<handled, inbox>>
    ELSE Fail

Retry_Uncounted == UNCHANGED <<job, handled, inbox>>

\* Another attempt after the delay, or the error once there were max_retries.
Retry ==
    IF job.retries < MaxRetries
    THEN job' = [job EXCEPT !.retries = @ + 1] /\ UNCHANGED <<handled, inbox>>
    ELSE Fail

\* try_publish fails, with the event written all the same or not.
TryFails ==
    /\ job # NoJob /\ CorrelationId(job.event) \notin cache
    /\ \/ UNCHANGED written
       \/ connected /\ Write
    /\ Retry
    /\ UNCHANGED <<process, dials, connections, connected, broker, cache, reported>>
-----------------------------------------------------------------------------
Next ==
    \/ \E m \in Message : Send(m)
    \/ Push \/ LoseConnection
    \/ StartProcess \/ Connect \/ DialFails \/ Exit
    \/ Consume \/ PublishSucceeds \/ TryFails

Spec == Init /\ [][Next]_vars

\* The container is started again whenever it has stopped (restart:
\* unless-stopped), the runtime runs what can run, and the broker delivers.
\* Nothing makes a dial succeed, a connection last, or a process that has lost
\* its connection exit.
Fairness ==
    /\ WF_vars(StartProcess)
    /\ WF_vars(Connect \/ DialFails)
    /\ WF_vars(Push)
    /\ WF_vars(Consume)
    /\ WF_vars(PublishSucceeds \/ TryFails)

FairSpec == Spec /\ Fairness
-----------------------------------------------------------------------------
\* A request is lost neither with a connection nor with the process: until it has
\* been handled once, the broker still has it.
NothingLost ==
    /\ Range(inbox) \subseteq Range(queue) \cup Range(unacked)
    /\ job # NoJob => job.event.message \in Range(queue) \cup Range(unacked)

\* A request that failed is not tried again, and one that was pushed before is
\* handled again only on another connection.
HandledOncePerConnection ==
    \A m \in Message : handled[m] <= connections

\* An event that failed after it was written is written again, at most as often as
\* there are retries.
CopiesBounded ==
    \A e \in Event : written[e] <= MaxRetries + 1

\* Deduplication never swallows an event: what was reported as published was
\* written to the connection.
ReportedWritten ==
    \A e \in reported : written[e] >= 1

\* Every request that is queued is handled, whatever came before it, or the service
\* is cut off from the broker for good.
RequestsHandled ==
    \A m \in Message \ Malformed :
        [](m \in Range(queue) => <>(handled[m] > 0 \/ []~connected))
-----------------------------------------------------------------------------
(***************************************************************************)
(* The promise: see RequestQueue.                                          *)
(***************************************************************************)

Promise ==
    INSTANCE RequestQueue WITH
        owed      <- Range(queue) \cup Range(unacked),
        epoch     <- connections,
        announced <- {e \in Event : written[e] >= 1}

\* The broker, the consumer and the publisher, through lost connections, crashes
\* and retries, keep the promise: a request once queued is owed for ever, it is
\* handled at most once per connection and only while it is owed, and a game is
\* announced on a connection only after the player's joining was announced on it.
KeepsPromise == Promise!Spec
=============================================================================
