---------------------------- MODULE PayloadSync ----------------------------
(***************************************************************************)
(* Payloads travel between nodes: the PayloadHandler of every node         *)
(* (payload_handler.rs) announces the payloads its node builds and gives   *)
(* them to the p2p node; what comes from peers it executes on threads of   *)
(* their own and announces when the execution agrees with the header.      *)
(*                                                                         *)
(* A payload is named by its builder and a number.  Of its block the model *)
(* keeps the gas of its transactions and whether it has a state root.      *)
(***************************************************************************)
EXTENDS P2PNode

CONSTANTS
    Builders,       \* the nodes that build
    Body,           \* per payload number: [forced, pool, no_tx_pool]
    MaxGasPerTxn,   \* max_gas_per_txn, the same on every node
    DisableRoot     \* disable_state_root

Payloads == Builders \X DOMAIN Body

ASSUME SyncAssumption ==
    /\ Builders \subseteq Nodes
    /\ Messages = Payloads
    /\ \A k \in DOMAIN Body :
          /\ Body[k].forced \subseteq Nat /\ Body[k].pool \subseteq Nat
          /\ Body[k].no_tx_pool \in BOOLEAN
    /\ MaxGasPerTxn \in Nat /\ DisableRoot \in BOOLEAN

VARIABLES
    count,     \* per node, how many payloads came on built_rx
    handler,   \* the payload whose p2p_tx.send is awaited, or NONE
    announced, \* per payload, the BuiltPayload events sent to the engine
    rejected   \* history: received payloads the execution refused

syncVars == <<count, handler, announced, rejected>>
vars == <<p2pVars, syncVars>>

\* Types, and the capacities of the channels between the handler and its node.
TypeOK ==
    /\ P2PTypeOK
    /\ count \in [Nodes -> 0..Cardinality(DOMAIN Body)]
    /\ handler \in [Nodes -> Payloads \cup {NONE}]
    /\ announced \in [Nodes -> [Payloads -> Nat]]
    /\ rejected \in [Nodes -> SUBSET Payloads]
    /\ \A n \in Nodes : /\ Len(outgoing[n]) <= OutCap /\ Len(incoming[n]) <= InCap

Init ==
    /\ P2PInit
    /\ count = [n \in Nodes |-> 0]
    /\ handler = [n \in Nodes |-> NONE]
    /\ announced = [n \in Nodes |-> [m \in Payloads |-> 0]]
    /\ rejected = [n \in Nodes |-> {}]

-----------------------------------------------------------------------------
\* What a builder puts into payload k and what a follower makes of it.

\* Mutant: the limit is forgotten when the pool is executed.
Included_All(k) == Body[k].forced \cup Body[k].pool

\* Sequencer and sidecar transactions are not checked against the limit.
Included(k) == Body[k].forced \cup {g \in Body[k].pool : g <= MaxGasPerTxn}

HasRoot(k) == ~DisableRoot \/ Body[k].no_tx_pool

\* execute_transactions fails on a transaction above the limit, and build_block
\* with a state root gives another hash when the payload came without.
Agrees(k) == (\A g \in Included(k) : g <= MaxGasPerTxn) /\ HasRoot(k)

\* The next payload arrives on built_rx: the event goes out, then p2p_tx.send is
\* awaited.
HandleBuilt(n) ==
    /\ n \in Builders
    /\ handler[n] = NONE
    /\ count[n] + 1 \in DOMAIN Body
    /\ LET m == <<n, count[n] + 1>>
       IN  /\ announced' = [announced EXCEPT ![n][m] = @ + 1]
           /\ handler' = [handler EXCEPT ![n] = m]
    /\ count' = [count EXCEPT ![n] = @ + 1]
    /\ UNCHANGED <<p2pVars, rejected>>

\* Mutant: the receiver of the channel outlives the node that stopped.
Forward_Kept(n) ==
    /\ handler[n] # NONE
    /\ Len(outgoing[n]) < OutCap
    /\ outgoing' = [outgoing EXCEPT ![n] = Append(@, handler[n])]
    /\ handler' = [handler EXCEPT ![n] = NONE]
    /\ UNCHANGED <<netVars, loopVars, streamVars, incoming, cancelled,
                   count, announced, rejected>>

\* There is room, or the node has stopped and the error is ignored.
Forward(n) ==
    /\ handler[n] # NONE
    /\ \/ /\ at[n] # "stopped"
          /\ Len(outgoing[n]) < OutCap
          /\ outgoing' = [outgoing EXCEPT ![n] = Append(@, handler[n])]
       \/ /\ at[n] = "stopped"
          /\ UNCHANGED outgoing
    /\ handler' = [handler EXCEPT ![n] = NONE]
    /\ UNCHANGED <<netVars, loopVars, streamVars, incoming, cancelled,
                   count, announced, rejected>>

\* execute_flashblock on a thread of its own: the parent or its state is not in
\* the follower's chain, or the payload is announced, or refused.
Execute(n, m) ==
    \/ UNCHANGED <<announced, rejected>>
    \/ /\ Agrees(m[2])
       /\ announced' = [announced EXCEPT ![n][m] = @ + 1]
       /\ UNCHANGED rejected
    \/ /\ ~Agrees(m[2])
       /\ rejected' = [rejected EXCEPT ![n] = @ \cup {m}]
       /\ UNCHANGED announced

\* Mutant: a received payload is passed on to the other peers.
HandleReceived_Gossip(n) ==
    /\ handler[n] = NONE
    /\ incoming[n] # << >>
    /\ incoming' = [incoming EXCEPT ![n] = Tail(@)]
    /\ Execute(n, Head(incoming[n]))
    /\ handler' = [handler EXCEPT ![n] = Head(incoming[n])]
    /\ UNCHANGED <<netVars, loopVars, streamVars, outgoing, cancelled, count>>

\* p2p_rx.recv: the threads share nothing and their results are not ordered, so
\* that the result is part of this step.
HandleReceived(n) ==
    /\ handler[n] = NONE
    /\ incoming[n] # << >>
    /\ incoming' = [incoming EXCEPT ![n] = Tail(@)]
    /\ Execute(n, Head(incoming[n]))
    /\ UNCHANGED <<netVars, loopVars, streamVars, outgoing, cancelled, count, handler>>

HandlerStep(n) == HandleBuilt(n) \/ Forward(n) \/ HandleReceived(n)

P2PStep ==
    \/ \E n \in Nodes : NodeStep(n)
    \/ \E n \in Nodes, c \in Conns : ReaderStep(n, c)
    \/ NetworkStep

Next ==
    \/ \E n \in Nodes : HandlerStep(n)
    \/ P2PStep /\ UNCHANGED syncVars

\* The loop of the handler, the loop of the p2p node with its timer, which the
\* select! polls before messages and events, and the tasks that read.  Nothing
\* is assumed of the network, of mDNS or of the threads that execute.
Fairness ==
    /\ \A n \in Nodes :
          /\ WF_vars(Forward(n) \/ HandleReceived(n))
          /\ WF_vars(LoopStep(n) /\ UNCHANGED syncVars)
          /\ WF_vars(RetryTick(n) /\ UNCHANGED syncVars)
    /\ \A n \in Builders, c \in Conns : WF_vars(ReadMessage(n, c) /\ UNCHANGED syncVars)

Spec == Init /\ [][Next]_vars /\ Fairness

-----------------------------------------------------------------------------
\* A payload is announced at most once by a node, whatever connections come
\* and go and whichever thread finishes first: no message is sent again, and
\* what was received is not passed on.
AnnouncedOnce == \A n \in Nodes, m \in Payloads : announced[n][m] <= 1

\* A node keeps streams only to peers its swarm is connected with, so that a
\* reconnect finds no leftover entry.
StreamsNeedConnection ==
    \A n \in Nodes : peers[n] \subseteq connected_peers(n)

\* A follower with the builder's configuration refuses a payload only for a
\* transaction the builder does not check against max_gas_per_txn or for a
\* state root that was left out.
FollowersAgree ==
    \A n \in Nodes : \A m \in rejected[n] :
        ~HasRoot(m[2]) \/ \E g \in Body[m[2]].forced : ~(g <= MaxGasPerTxn)

\* The handler does not wait for its peers for ever: as long as no two nodes
\* build, broadcast_message always returns, also when a peer hangs up.
HandlerFree == \A n \in Builders : handler[n] # NONE ~> handler[n] = NONE

\* A known peer that is not connected is dialled again.
Reconnects ==
    \A n \in Nodes : \A p \in KnownPeers[n] :
        p \notin connected_peers(n) ~>
            p \in connected_peers(n) \cup dialing[n] \/ at[n] = "stopped"

\* A triggered token ends the node, also one that is in the middle of a
\* broadcast.
CancelEnds == \A n \in Stoppable : n \in cancelled ~> at[n] = "stopped"

=============================================================================
