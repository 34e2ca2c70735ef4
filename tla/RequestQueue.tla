---------------------------- MODULE RequestQueue ----------------------------
(***************************************************************************)
(* What the durable queue, the consumer and the publisher promise together *)
(* to whoever queues a request: it is owed for ever, worked on at most     *)
(* once per connection, and what is announced of it comes in order.  No    *)
(* push, acknowledgement, retry, cache or process appears here; Delivery   *)
(* is shown to implement this.                                             *)
(***************************************************************************)
EXTENDS Naturals

CONSTANTS
    Message,        \* the requests
    MaxConnections  \* how many connections there may be

VARIABLES
    owed,      \* the requests that a connection to come will be given
    handled,   \* how often each was handled
    epoch,     \* the connections made so far
    announced  \* the events that were announced at least once

vars == <<owed, handled, epoch, announced>>

About(m, k) == [message |-> m, kind |-> k, connection |-> epoch]

Init ==
    /\ owed = {}
    /\ handled = [m \in Message |-> 0]
    /\ epoch = 0
    /\ announced = {}

\* A request that was never seen is queued.  It stays owed: nothing settles it.
Enqueue(m) ==
    /\ m \notin owed
    /\ handled[m] = 0
    /\ owed' = owed \cup {m}
    /\ UNCHANGED <<handled, epoch, announced>>

\* With a new connection everything that is owed may be handled once more.
Reconnect ==
    /\ epoch < MaxConnections
    /\ epoch' = epoch + 1
    /\ UNCHANGED <<owed, handled, announced>>

\* Some work on a request that has a connection left to be handled on: one event of it
\* is announced, or the request is done, or both, because a publish that failed may have
\* come through and ends the request all the same.
Work(m, k) ==
    /\ m \in owed
    /\ handled[m] < epoch
    /\ k = "GameStarting" => About(m, "PlayerJoinedLobby") \in announced
    /\ announced' = announced \/ announced' = announced \cup {About(m, k)}
    /\ handled' = handled \/ handled' = [handled EXCEPT ![m] = @ + 1]
    /\ UNCHANGED <<owed, epoch>>

Next ==
    \/ \E m \in Message : Enqueue(m)
    \/ Reconnect
    \/ \E m \in Message, k \in {"PlayerJoinedLobby", "GameStarting"} : Work(m, k)

Spec == Init /\ [][Next]_vars
=============================================================================
