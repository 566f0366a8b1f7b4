------------------------------ MODULE P2PNode ------------------------------
(***************************************************************************)
(* The p2p crate: the event loop Node::run of every node, the map of       *)
(* outbound streams (outgoing.rs), the tasks that read inbound streams,    *)
(* and the two bounded channels to and from the PayloadHandler.            *)
(*                                                                         *)
(* A connection has a slot that is used again once both ends have seen it  *)
(* close.  The swarm of a node hears of a connection (established, closed) *)
(* some time after the network does.  A stream is named by the node that   *)
(* opened it and the connection whose event made it do so; its bytes are   *)
(* the messages in flight, at most Window of them.  There is one protocol, *)
(* as in flashblocks/service.rs.                                           *)
(***************************************************************************)
EXTENDS Naturals, Sequences, FiniteSets

CONSTANTS
    Nodes,
    KnownPeers,  \* p2p_known_peers of each node
    Conns,       \* connection slots
    MaxPeers,    \* max_established of connection_limits
    Window,      \* messages a stream holds before the writer waits
    OutCap,      \* capacity of the outgoing channel, 100
    InCap,       \* capacity of an incoming channel, 100
    Stoppable,   \* nodes that may fail to start or be cancelled
    Visible,     \* nodes that mDNS may discover
    Messages,
    NONE

ASSUME P2PAssumption ==
    /\ KnownPeers \in [Nodes -> SUBSET Nodes]
    /\ \A n \in Nodes : n \notin KnownPeers[n]
    /\ MaxPeers \in Nat \ {0}
    /\ Window \in Nat \ {0} /\ OutCap \in Nat \ {0} /\ InCap \in Nat \ {0}
    /\ NONE \notin Nodes \cup Conns \cup Messages

VARIABLES
    ends,      \* the two nodes of the connection in each slot
    alive,     \* connections the network still carries
    fresh,     \* per node, connections whose ConnectionEstablished is to come
    up,        \* per node, connections its swarm counts
    dialing,   \* per node, peers being dialled
    at,        \* where Node::run of each node is
    message,   \* the message it broadcasts, or NONE
    sending,   \* the peers whose send it still awaits
    peers,     \* keys of peers_to_stream
    stream,    \* per node and peer, the stream in peers_to_stream, or NONE
    carrier,   \* per node and stream it opened, the connection that carries it
    inflight,  \* per node and stream it opened, the messages not yet read
    reader,    \* per node and stream it opened, the peer's reading task
    outgoing,  \* outgoing_message_rx
    incoming,  \* incoming_message_rx
    cancelled  \* nodes whose cancellation token is triggered

netVars == <<ends, alive, fresh, up, dialing>>
loopVars == <<at, message, sending>>
streamVars == <<peers, stream, carrier, inflight, reader>>
p2pVars == <<netVars, loopVars, streamVars, outgoing, incoming, cancelled>>

P2PTypeOK ==
    /\ ends \in [Conns -> SUBSET Nodes]
    /\ alive \subseteq Conns
    /\ fresh \in [Nodes -> SUBSET Conns]
    /\ up \in [Nodes -> SUBSET Conns]
    /\ dialing \in [Nodes -> SUBSET Nodes]
    /\ at \in [Nodes -> {"select", "broadcast", "stopped"}]
    /\ message \in [Nodes -> Messages \cup {NONE}]
    /\ sending \in [Nodes -> SUBSET Nodes]
    /\ peers \in [Nodes -> SUBSET Nodes]
    /\ stream \in [Nodes -> [Nodes -> Conns \cup {NONE}]]
    /\ carrier \in [Nodes -> [Conns -> Conns \cup {NONE}]]
    /\ inflight \in [Nodes -> [Conns -> Seq(Messages)]]
    /\ reader \in [Nodes -> [Conns -> {"none", "reading"}]]
    /\ outgoing \in [Nodes -> Seq(Messages)]
    /\ incoming \in [Nodes -> Seq(Messages)]
    /\ cancelled \subseteq Nodes

\* NodeBuilder::try_build, and Node::run before its loop: the node listens and
\* dials its known peers, or ends because it cannot.
P2PInit ==
    /\ ends = [c \in Conns |-> {}]
    /\ alive = {}
    /\ fresh = [n \in Nodes |-> {}]
    /\ up = [n \in Nodes |-> {}]
    /\ at \in [Nodes -> {"select", "stopped"}]
    /\ \A n \in Nodes \ Stoppable : at[n] = "select"
    /\ dialing = [n \in Nodes |-> IF at[n] = "select" THEN KnownPeers[n] ELSE {}]
    /\ message = [n \in Nodes |-> NONE]
    /\ sending = [n \in Nodes |-> {}]
    /\ peers = [n \in Nodes |-> {}]
    /\ stream = [n \in Nodes |-> [p \in Nodes |-> NONE]]
    /\ carrier = [n \in Nodes |-> [c \in Conns |-> NONE]]
    /\ inflight = [n \in Nodes |-> [c \in Conns |-> << >>]]
    /\ reader = [n \in Nodes |-> [c \in Conns |-> "none"]]
    /\ outgoing = [n \in Nodes |-> << >>]
    /\ incoming = [n \in Nodes |-> << >>]
    /\ cancelled = {}

Peer(n, c) == CHOOSE p \in ends[c] : p # n

Between(n, p) == {c \in Conns : ends[c] = {n, p}}

\* swarm.connected_peers().
connected_peers(n) == {p \in Nodes \ {n} : up[n] \cap Between(n, p) # {}}

InUse(c) ==
    \/ c \in alive
    \/ \E n \in Nodes :
          \/ c \in fresh[n] \cup up[n]
          \/ reader[n][c] = "reading"
          \/ \E d \in Conns : reader[n][d] = "reading" /\ carrier[n][d] = c

-----------------------------------------------------------------------------
\* The network: dials succeed or fail, connections break.

Established(n) == Cardinality(fresh[n] \cup up[n])

Connect(n, p, c) ==
    /\ p \in dialing[n]
    /\ ~InUse(c)
    /\ at[p] # "stopped"
    /\ Established(n) < MaxPeers /\ Established(p) < MaxPeers
    /\ ends' = [ends EXCEPT ![c] = {n, p}]
    /\ alive' = alive \cup {c}
    /\ fresh' = [fresh EXCEPT ![n] = @ \cup {c}, ![p] = @ \cup {c}]
    /\ dialing' = [dialing EXCEPT ![n] = @ \ {p}]
    /\ UNCHANGED <<up, loopVars, streamVars, outgoing, incoming, cancelled>>

DialFails(n, p) ==
    /\ p \in dialing[n]
    /\ dialing' = [dialing EXCEPT ![n] = @ \ {p}]
    /\ UNCHANGED <<ends, alive, fresh, up, loopVars, streamVars, outgoing, incoming, cancelled>>

Break(c) ==
    /\ c \in alive
    /\ alive' = alive \ {c}
    /\ UNCHANGED <<ends, fresh, up, dialing, loopVars, streamVars, outgoing, incoming, cancelled>>

Cancel(n) ==
    /\ n \in Stoppable \ cancelled
    /\ cancelled' = cancelled \cup {n}
    /\ UNCHANGED <<netVars, loopVars, streamVars, outgoing, incoming>>

-----------------------------------------------------------------------------
\* Node::run.

\* The select! is biased: a triggered token comes first, a message before the
\* events of the swarm.
Selects(n) == at[n] = "select" /\ n \notin cancelled

PollsSwarm(n) == Selects(n) /\ outgoing[n] = << >>

\* The loop ends and drops the swarm, and with it every connection and stream.
Shutdown(n) ==
    /\ at[n] = "select"
    /\ n \in cancelled
    /\ at' = [at EXCEPT ![n] = "stopped"]
    /\ alive' = alive \ {c \in Conns : n \in ends[c]}
    /\ fresh' = [fresh EXCEPT ![n] = {}]
    /\ up' = [up EXCEPT ![n] = {}]
    /\ dialing' = [dialing EXCEPT ![n] = {}]
    /\ peers' = [peers EXCEPT ![n] = {}]
    /\ stream' = [stream EXCEPT ![n] = [p \in Nodes |-> NONE]]
    /\ outgoing' = [outgoing EXCEPT ![n] = << >>]
    /\ UNCHANGED <<ends, message, sending, carrier, inflight, reader, incoming, cancelled>>

\* Mutant: the timer fires and nobody is dialled.
RetryTick_None(n) == Selects(n) /\ UNCHANGED p2pVars

RetryTick(n) ==
    /\ Selects(n)
    /\ dialing' = [dialing EXCEPT ![n] = @ \cup (KnownPeers[n] \ connected_peers(n))]
    /\ UNCHANGED <<ends, alive, fresh, up, loopVars, streamVars, outgoing, incoming, cancelled>>

\* BehaviourEvent::handle: mDNS has discovered a peer.
Discovered(n, p) ==
    /\ PollsSwarm(n)
    /\ p \in Visible \ ({n} \cup connected_peers(n))
    /\ dialing' = [dialing EXCEPT ![n] = @ \cup {p}]
    /\ UNCHANGED <<ends, alive, fresh, up, loopVars, streamVars, outgoing, incoming, cancelled>>

\* open_stream gives a stream on some connection with the peer, whose
\* IncomingStreamsHandler starts a task to read it; an error is logged and the
\* stream is not tried again.
OpenStream(n, p, c) ==
    \/ \E d \in up'[n] \cap Between(n, p) \cap alive :
          /\ peers' = [peers EXCEPT ![n] = @ \cup {p}]
          /\ stream' = [stream EXCEPT ![n][p] = c]
          /\ carrier' = [carrier EXCEPT ![n][c] = d]
          /\ reader' = [reader EXCEPT ![n][c] = "reading"]
    \/ UNCHANGED <<peers, stream, carrier, reader>>

\* Streams are opened unless the peer has an entry.
ConnectionEstablished(n, c) ==
    /\ PollsSwarm(n)
    /\ c \in fresh[n]
    /\ fresh' = [fresh EXCEPT ![n] = @ \ {c}]
    /\ up' = [up EXCEPT ![n] = @ \cup {c}]
    /\ IF Peer(n, c) \in peers[n]
       THEN UNCHANGED <<peers, stream, carrier, reader>>
       ELSE OpenStream(n, Peer(n, c), c)
    /\ UNCHANGED <<ends, alive, dialing, loopVars, inflight, outgoing, incoming, cancelled>>

\* Mutant: the streams of a peer survive its connection.
remove_peer_None(n, p) == UNCHANGED <<peers, stream>>

remove_peer(n, p) ==
    /\ peers' = [peers EXCEPT ![n] = @ \ {p}]
    /\ stream' = [stream EXCEPT ![n][p] = NONE]

\* ConnectionClosed: the streams go, also when another connection is left.
ConnectionClosed(n, c) ==
    /\ PollsSwarm(n)
    /\ c \in up[n] \ alive
    /\ up' = [up EXCEPT ![n] = @ \ {c}]
    /\ remove_peer(n, Peer(n, c))
    /\ UNCHANGED <<ends, alive, fresh, dialing, loopVars, carrier, inflight, reader,
                   outgoing, incoming, cancelled>>

-----------------------------------------------------------------------------
\* broadcast_message: the loop waits until every send has returned.

Broadcast(n) ==
    /\ Selects(n)
    /\ outgoing[n] # << >>
    /\ outgoing' = [outgoing EXCEPT ![n] = Tail(@)]
    /\ sending' = [sending EXCEPT ![n] = {p \in peers[n] : stream[n][p] # NONE}]
    /\ IF sending'[n] = {}
       THEN UNCHANGED <<at, message>>
       ELSE /\ message' = [message EXCEPT ![n] = Head(outgoing[n])]
            /\ at' = [at EXCEPT ![n] = "broadcast"]
    /\ UNCHANGED <<netVars, streamVars, incoming, cancelled>>

\* Mutant: a write does not notice that the other end is gone.
Dead_Never(n, c) == FALSE

\* The reader has gone, or the connection has.
Dead(n, c) == reader[n][c] = "none" \/ carrier[n][c] \notin alive

\* The send to p returns, the loop goes on after the last one.
Sent(n, p) ==
    /\ p \in sending[n]
    /\ sending' = [sending EXCEPT ![n] = @ \ {p}]
    /\ IF sending'[n] = {}
       THEN /\ at' = [at EXCEPT ![n] = "select"]
            /\ message' = [message EXCEPT ![n] = NONE]
       ELSE UNCHANGED <<at, message>>
    /\ UNCHANGED <<netVars, peers, carrier, reader, outgoing, incoming, cancelled>>

SendTo(n, p) ==
    LET c == stream[n][p]
    IN  /\ Sent(n, p)
        /\ ~Dead(n, c)
        /\ Len(inflight[n][c]) < Window
        /\ inflight' = [inflight EXCEPT ![n][c] = Append(@, message[n])]
        /\ UNCHANGED stream

\* The bytes are buffered and never arrive.
SendLost(n, p) ==
    /\ Sent(n, p)
    /\ Dead(n, stream[n][p])
    /\ UNCHANGED <<inflight, stream>>

\* The stream is not put back; the entry of the peer stays.
SendFails(n, p) ==
    /\ Sent(n, p)
    /\ Dead(n, stream[n][p])
    /\ stream' = [stream EXCEPT ![n][p] = NONE]
    /\ UNCHANGED inflight

-----------------------------------------------------------------------------
\* handle_incoming_stream, the task of the peer that reads stream c of n.

Reads(n, c) == CHOOSE p \in ends[carrier[n][c]] : p # n

\* A message is read and sent to the channel when there is room.
ReadMessage(n, c) ==
    LET p == Reads(n, c)
    IN  /\ reader[n][c] = "reading"
        /\ inflight[n][c] # << >>
        /\ Len(incoming[p]) < InCap
        /\ incoming' = [incoming EXCEPT ![p] = Append(@, Head(inflight[n][c]))]
        /\ inflight' = [inflight EXCEPT ![n][c] = Tail(@)]
        /\ UNCHANGED <<netVars, loopVars, peers, stream, carrier, reader, outgoing, cancelled>>

EndReader(n, c) ==
    /\ reader[n][c] = "reading"
    /\ reader' = [reader EXCEPT ![n][c] = "none"]
    /\ carrier' = [carrier EXCEPT ![n][c] = NONE]
    /\ inflight' = [inflight EXCEPT ![n][c] = << >>]
    /\ UNCHANGED <<netVars, loopVars, peers, stream, outgoing, incoming, cancelled>>

\* A message that does not decode ends the task, and the stream with it.
DecodeFails(n, c) == inflight[n][c] # << >> /\ EndReader(n, c)

\* The writer has dropped the stream, or the connection is gone.
StreamEnds(n, c) ==
    /\ reader[n][c] = "reading"
    /\ \/ stream[n][Reads(n, c)] # c
       \/ carrier[n][c] \notin alive
    /\ EndReader(n, c)

LoopStep(n) ==
    \/ Shutdown(n)
    \/ Broadcast(n)
    \/ \E p \in Nodes : SendTo(n, p) \/ SendLost(n, p) \/ SendFails(n, p)
    \/ \E c \in Conns : ConnectionEstablished(n, c) \/ ConnectionClosed(n, c)

NodeStep(n) ==
    \/ LoopStep(n) \/ RetryTick(n)
    \/ \E p \in Nodes : Discovered(n, p)

ReaderStep(n, c) == ReadMessage(n, c) \/ DecodeFails(n, c) \/ StreamEnds(n, c)

NetworkStep ==
    \/ \E n, p \in Nodes : DialFails(n, p) \/ \E c \in Conns : Connect(n, p, c)
    \/ \E c \in Conns : Break(c)
    \/ \E n \in Nodes : Cancel(n)

=============================================================================
