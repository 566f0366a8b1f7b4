------------------------- MODULE WebSocketPublisher -------------------------
(***************************************************************************)
(* The publisher of builders/flashblocks/wspub.rs: the build threads put   *)
(* flashblocks into a broadcast ring, the listener task accepts clients    *)
(* one at a time, handshake included, and a task per client copies the     *)
(* ring to its socket.  Flashblocks are numbered in the order they are     *)
(* published; a client connects once.                                      *)
(***************************************************************************)
EXTENDS Integers, Sequences, FiniteSets

CONSTANTS
    Clients,
    RingCap,         \* messages the broadcast channel retains
    SubscriberLimit, \* ws_subscriber_limit, 0 for no limit
    MaxPublished     \* bound on the flashblocks published

ASSUME PublisherAssumption ==
    /\ IsFiniteSet(Clients)
    /\ RingCap \in Nat \ {0}
    /\ SubscriberLimit \in Nat
    /\ MaxPublished \in Nat

VARIABLES
    published, \* number of messages sent into the ring
    dropped,   \* the publisher was dropped and term is true
    listener,  \* "select", "handshake", "deaf" or "gone"
    client,    \* where the connection of each client is
    next,      \* the message the client's receiver reads next
    first,     \* history: the value of next when the connection was accepted
    inbox,     \* the messages written to the client's socket
    lagged,    \* history: the receiver fell out of the ring
    subs       \* the subscription counter

vars == <<published, dropped, listener, client, next, first, inbox, lagged, subs>>

\* "away": not connected; "backlog": waiting for accept; "accepted": in the
\* handshake; "task": the spawned task is about to read subs; "admitted": it
\* has read subs; "loop", "sending": in broadcast_loop; "leaving": back from
\* it; "refused", "ended": finished.
Subscribed == {"loop", "sending", "leaving"}

\* No receiver is ahead of the ring and the counter never wraps.
TypeOK ==
    /\ published \in 0..MaxPublished
    /\ dropped \in BOOLEAN
    /\ listener \in {"select", "handshake", "deaf", "gone"}
    /\ client \in [Clients -> {"away", "backlog", "accepted", "task", "admitted",
                               "refused", "ended"} \cup Subscribed]
    /\ next \in [Clients -> 1..(MaxPublished + 1)]
    /\ first \in [Clients -> 1..(MaxPublished + 1)]
    /\ inbox \in [Clients -> Seq(1..MaxPublished)]
    /\ lagged \in [Clients -> BOOLEAN]
    /\ subs \in 0..Cardinality(Clients)

Init ==
    /\ published = 0
    /\ dropped = FALSE
    /\ listener = "select"
    /\ client = [c \in Clients |-> "away"]
    /\ next = [c \in Clients |-> 1]
    /\ first = [c \in Clients |-> 1]
    /\ inbox = [c \in Clients |-> << >>]
    /\ lagged = [c \in Clients |-> FALSE]
    /\ subs = 0

Goto(c, place) == client' = [client EXCEPT ![c] = place]

-----------------------------------------------------------------------------
\* publish: the listener task holds a receiver as long as it runs, and so
\* does every client's task; without any of them send fails.
Receivers ==
    {c \in Clients : client[c] \in {"accepted", "task", "admitted", "loop", "sending"}}

Publish ==
    /\ ~dropped
    /\ published < MaxPublished
    /\ listener # "gone" \/ Receivers # {}
    /\ published' = published + 1
    /\ UNCHANGED <<dropped, listener, client, next, first, inbox, lagged, subs>>

Drop ==
    /\ ~dropped
    /\ dropped' = TRUE
    /\ UNCHANGED <<published, listener, client, next, first, inbox, lagged, subs>>

Connect(c) ==
    /\ client[c] = "away"
    /\ Goto(c, "backlog")
    /\ UNCHANGED <<published, dropped, listener, next, first, inbox, lagged, subs>>

-----------------------------------------------------------------------------
\* listener_loop.

ListenerTerm ==
    /\ listener \in {"select", "deaf"}
    /\ dropped
    /\ listener' = "gone"
    /\ UNCHANGED <<published, dropped, client, next, first, inbox, lagged, subs>>

\* listener.accept yields a connection, and the receiver is made before the
\* handshake.
Accept(c) ==
    /\ listener = "select"
    /\ client[c] = "backlog"
    /\ listener' = "handshake"
    /\ Goto(c, "accepted")
    /\ next' = [next EXCEPT ![c] = published + 1]
    /\ first' = [first EXCEPT ![c] = published + 1]
    /\ UNCHANGED <<published, dropped, inbox, lagged, subs>>

\* listener.accept fails: the pattern of the select! branch does not match,
\* the branch is disabled and only term.changed() is awaited from then on.
AcceptError ==
    /\ listener = "select"
    /\ listener' = "deaf"
    /\ UNCHANGED <<published, dropped, client, next, first, inbox, lagged, subs>>

\* Mutant: the receiver is made after the handshake.
Handshake_Resubscribes(c) ==
    /\ client[c] = "accepted"
    /\ listener' = "select"
    /\ \/ Goto(c, "task") /\ next' = [next EXCEPT ![c] = published + 1]
       \/ Goto(c, "ended") /\ UNCHANGED next
    /\ UNCHANGED <<published, dropped, first, inbox, lagged, subs>>

\* Mutant: a handshake that fails ends the listener.
Handshake_ErrorEnds(c) ==
    /\ client[c] = "accepted"
    /\ \/ Goto(c, "task") /\ listener' = "select"
       \/ Goto(c, "ended") /\ listener' = "gone"
    /\ UNCHANGED <<published, dropped, next, first, inbox, lagged, subs>>

\* accept_async completes or fails; until then the listener does nothing else.
Handshake(c) ==
    /\ client[c] = "accepted"
    /\ listener' = "select"
    /\ Goto(c, "task") \/ Goto(c, "ended")
    /\ UNCHANGED <<published, dropped, next, first, inbox, lagged, subs>>

-----------------------------------------------------------------------------
\* The task of a client.

LimitReached == SubscriberLimit # 0 /\ subs >= SubscriberLimit

CheckLimit(c) ==
    /\ client[c] = "task"
    /\ Goto(c, IF LimitReached THEN "refused" ELSE "admitted")
    /\ UNCHANGED <<published, dropped, listener, next, first, inbox, lagged, subs>>

Subscribe(c) ==
    /\ client[c] = "admitted"
    /\ subs' = subs + 1
    /\ Goto(c, "loop")
    /\ UNCHANGED <<published, dropped, listener, next, first, inbox, lagged>>

\* The oldest message the ring retains.
Oldest == IF published > RingCap THEN published - RingCap + 1 ELSE 1

\* Mutant: a receiver that lags is told so again and again.
Recv_Unmoved(c) ==
    /\ client[c] = "loop"
    /\ next[c] <= published
    /\ IF next[c] < Oldest
       THEN /\ lagged' = [lagged EXCEPT ![c] = TRUE]
            /\ UNCHANGED <<client, inbox, next>>
       ELSE /\ inbox' = [inbox EXCEPT ![c] = Append(@, next[c])]
            /\ next' = [next EXCEPT ![c] = @ + 1]
            /\ Goto(c, "sending")
            /\ UNCHANGED lagged
    /\ UNCHANGED <<published, dropped, listener, first, subs>>

\* blocks.recv: a receiver the ring has overtaken is moved to the oldest
\* message and told so; otherwise the message goes to stream.send.
Recv(c) ==
    /\ client[c] = "loop"
    /\ next[c] <= published
    /\ IF next[c] < Oldest
       THEN /\ next' = [next EXCEPT ![c] = Oldest]
            /\ lagged' = [lagged EXCEPT ![c] = TRUE]
            /\ UNCHANGED <<client, inbox>>
       ELSE /\ inbox' = [inbox EXCEPT ![c] = Append(@, next[c])]
            /\ next' = [next EXCEPT ![c] = @ + 1]
            /\ Goto(c, "sending")
            /\ UNCHANGED lagged
    /\ UNCHANGED <<published, dropped, listener, first, subs>>

\* stream.send returns: the client has read, or the connection is broken.
\* The task notices neither term nor the ring meanwhile.
SendReturns(c) ==
    /\ client[c] = "sending"
    /\ Goto(c, "loop") \/ Goto(c, "leaving")
    /\ UNCHANGED <<published, dropped, listener, next, first, inbox, lagged, subs>>

\* Mutant: term is only looked at after a message.
LoopTerm_OnMessage(c) ==
    /\ client[c] = "loop"
    /\ dropped
    /\ next[c] <= published
    /\ Goto(c, "leaving")
    /\ UNCHANGED <<published, dropped, listener, next, first, inbox, lagged, subs>>

\* term.changed(), or the ring is closed and everything in it was read.
LoopTerm(c) ==
    /\ client[c] = "loop"
    /\ dropped
    /\ Goto(c, "leaving")
    /\ UNCHANGED <<published, dropped, listener, next, first, inbox, lagged, subs>>

\* stream.next() yields a close frame or an error.
ClientCloses(c) ==
    /\ client[c] = "loop"
    /\ Goto(c, "leaving")
    /\ UNCHANGED <<published, dropped, listener, next, first, inbox, lagged, subs>>

\* Mutant: the counter is only given back when the publisher still exists.
Unsubscribe_Leaks(c) ==
    /\ client[c] = "leaving"
    /\ subs' = IF dropped THEN subs ELSE subs - 1
    /\ Goto(c, "ended")
    /\ UNCHANGED <<published, dropped, listener, next, first, inbox, lagged>>

Unsubscribe(c) ==
    /\ client[c] = "leaving"
    /\ subs' = subs - 1
    /\ Goto(c, "ended")
    /\ UNCHANGED <<published, dropped, listener, next, first, inbox, lagged>>

TaskStep(c) ==
    CheckLimit(c) \/ Subscribe(c) \/ Recv(c) \/ LoopTerm(c) \/ Unsubscribe(c)

ListenerStep == ListenerTerm \/ \E c \in Clients : Accept(c)

ClientNext(c) ==
    Connect(c) \/ Handshake(c) \/ TaskStep(c) \/ SendReturns(c) \/ ClientCloses(c)

Next ==
    \/ Publish \/ Drop
    \/ ListenerStep \/ AcceptError
    \/ \E c \in Clients : ClientNext(c)

Spec == Init /\ [][Next]_vars

\* tokio schedules the listener and the tasks.  Clients may stall for ever in
\* the handshake and in a send, and nothing obliges the builder to publish.
FairSpec ==
    /\ Spec
    /\ WF_vars(ListenerTerm)
    /\ \A c \in Clients : WF_vars(Accept(c)) /\ WF_vars(TaskStep(c))

-----------------------------------------------------------------------------
\* The counter is the number of connections being served, through refusals,
\* broken connections and termination (fetch_add, fetch_sub).
SubsExact == subs = Cardinality({c \in Clients : client[c] \in Subscribed})

\* A client is sent flashblocks in the order of publication, none of them
\* twice, and, unless it fell behind by more than the ring holds, every one
\* published since its connection was accepted, the handshake included.
InboxInOrder ==
    \A c \in Clients :
        \A k \in 1..Len(inbox[c]) :
            /\ k > 1 => inbox[c][k] > inbox[c][k - 1]
            /\ ~lagged[c] => inbox[c][k] = first[c] + k - 1

\* What is published reaches every client that keeps reading, stays and is
\* still being served, possibly by way of being told that it lags.
DeliveredToReaders ==
    \A c \in Clients :
        []<>(client[c] # "sending") =>
            \A m \in 1..MaxPublished :
                (client[c] = "loop" /\ next[c] <= m /\ m <= published)
                    ~> (next[c] > m \/ client[c] \notin Subscribed)

\* After Drop every task ends, apart from those a client keeps in a handshake
\* or in a send.
TermEnds ==
    <>dropped => /\ <>[](listener \in {"handshake", "gone"})
                 /\ \A c \in Clients :
                        <>[](client[c] \notin {"task", "admitted", "loop", "leaving"})

\* A client that waits is accepted as long as no other stalls in its handshake,
\* which listener_loop awaits, and no accept has failed; handshakes that fail do
\* not matter.
WaitingAccepted ==
    (\A d \in Clients : []<>(client[d] # "accepted")) =>
        \A c \in Clients :
            client[c] = "backlog" ~> (client[c] # "backlog" \/ listener = "deaf" \/ dropped)

=============================================================================
