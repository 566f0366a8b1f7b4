--------------------------- MODULE PayloadHandler ---------------------------
(***************************************************************************)
(* The path of a payload built by this node after build_payload has        *)
(* finished with it: the bounded built_payload channel, the PayloadHandler *)
(* task of builders/flashblocks/payload_handler.rs that announces it to    *)
(* the engine and forwards it to the p2p node, and the bounded channel of  *)
(* outgoing p2p messages.                                                  *)
(***************************************************************************)
EXTENDS PayloadJobs

CONSTANTS
    BuiltCap,    \* capacity of the built_payload channel, 16 in service.rs
    P2pEnabled,  \* p2p_enabled: otherwise the outgoing channel is closed
    P2pCap       \* capacity of the outgoing channel, 100 in the p2p crate

ASSUME HandlerAssumption ==
    /\ BuiltCap \in Nat \ {0}
    /\ P2pEnabled \in BOOLEAN
    /\ P2pCap \in Nat \ {0}

VARIABLES
    built,     \* the built_payload channel, a sequence of <<job, payload>>
    sent,      \* per job, how many payloads the builder put in the channel
    announced, \* per job, how many BuiltPayload events the engine was sent
    handler,   \* "select", or "forward" while p2p_tx.send is awaited
    outgoing   \* how many messages wait for the p2p node

handlerVars == <<built, sent, announced, handler, outgoing>>

HandlerTypeOK ==
    /\ built \in Seq(Jobs \X Nat)
    /\ Len(built) <= BuiltCap
    /\ sent \in [Jobs -> Nat]
    /\ announced \in [Jobs -> Nat]
    /\ handler \in {"select", "forward"}
    /\ outgoing \in 0..P2pCap

HandlerInit ==
    /\ built = << >>
    /\ sent = [j \in Jobs |-> 0]
    /\ announced = [j \in Jobs |-> 0]
    /\ handler = "select"
    /\ outgoing = 0

\* Mutant: the channel is unbounded.
TrySendFails_Never == FALSE

\* payload_tx.try_send fails when the channel is full; the receiver lives as
\* long as the handler task.
TrySendFails == Len(built) = BuiltCap

TrySend(j, payload) ==
    /\ ~TrySendFails
    /\ built' = Append(built, <<j, payload>>)
    /\ sent' = [sent EXCEPT ![j] = @ + 1]
    /\ UNCHANGED <<announced, handler, outgoing>>

\* built_rx.recv: the event goes out, then the task awaits p2p_tx.send.
HandleBuilt ==
    /\ handler = "select"
    /\ built # << >>
    /\ announced' = [announced EXCEPT ![Head(built)[1]] = @ + 1]
    /\ built' = Tail(built)
    /\ handler' = "forward"
    /\ UNCHANGED <<sent, outgoing>>

\* p2p_tx.send returns: there is room, or the channel is closed and the error
\* is ignored.
Forward ==
    /\ handler = "forward"
    /\ IF P2pEnabled
       THEN outgoing < P2pCap /\ outgoing' = outgoing + 1
       ELSE UNCHANGED outgoing
    /\ handler' = "select"
    /\ UNCHANGED <<built, sent, announced>>

\* The p2p node takes a message to broadcast it to its peers.
NodeTakes ==
    /\ outgoing > 0
    /\ outgoing' = outgoing - 1
    /\ UNCHANGED <<built, sent, announced, handler>>

=============================================================================
