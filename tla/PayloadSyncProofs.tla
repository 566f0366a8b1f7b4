-------------------------- MODULE PayloadSyncProofs --------------------------
(***************************************************************************)
(* The p2p node and the payload handler for any nodes, connections, limits *)
(* and payloads.                                                           *)
(***************************************************************************)
EXTENDS PayloadSync, TLAPS

\* Connection c joins n with p.
Joins(c, n, p) == p # n /\ ends[c] = {n, p}

LinkTypes ==
    /\ ends \in [Conns -> SUBSET Nodes]
    /\ fresh \in [Nodes -> SUBSET Conns]
    /\ up \in [Nodes -> SUBSET Conns]
    /\ dialing \in [Nodes -> SUBSET Nodes]
    /\ peers \in [Nodes -> SUBSET Nodes]

\* No node dials itself; a connection a swarm has heard of or will hear of joins its
\* node with another; and every entry of peers_to_stream has such a connection.
LinkInv ==
    /\ LinkTypes
    /\ \A n \in Nodes : n \notin dialing[n]
    /\ \A n \in Nodes : \A c \in fresh[n] \cup up[n] : \E p \in Nodes : Joins(c, n, p)
    /\ \A n \in Nodes : \A p \in peers[n] : \E c \in up[n] : Joins(c, n, p)

\* Peer names the other end.
LEMMA PeerJoins ==
    ASSUME NEW n \in Nodes, NEW p \in Nodes, NEW c \in Conns, Joins(c, n, p)
    PROVE  Peer(n, c) = p
  BY DEF Joins, Peer

\* The invariant implies the property.
LEMMA LinkImplies ==
    ASSUME LinkInv
    PROVE  StreamsNeedConnection
<1> SUFFICES ASSUME NEW n \in Nodes, NEW p \in peers[n]
             PROVE  p \in connected_peers(n)
  BY DEF StreamsNeedConnection
<1>1. PICK c \in up[n] : Joins(c, n, p)
  BY DEF LinkInv
<1>2. c \in Conns /\ p \in Nodes
  BY DEF LinkInv, LinkTypes
<1>3. c \in up[n] \cap Between(n, p)
  BY <1>1, <1>2 DEF Joins, Between
<1>4. p # n
  BY <1>1 DEF Joins
<1> QED
  BY <1>2, <1>3, <1>4, Zenon DEF connected_peers

\* No node starts with a connection, or dials itself.
LEMMA LinkInit == Init => LinkInv
<1> SUFFICES ASSUME Init PROVE LinkInv
  OBVIOUS
<1>1. /\ ends = [c \in Conns |-> {}] /\ fresh = [n \in Nodes |-> {}]
      /\ up = [n \in Nodes |-> {}] /\ peers = [n \in Nodes |-> {}]
      /\ dialing = [n \in Nodes |-> IF at[n] = "select" THEN KnownPeers[n] ELSE {}]
  BY DEF Init, P2PInit
<1>2. \A n \in Nodes : KnownPeers[n] \subseteq Nodes /\ n \notin KnownPeers[n]
  BY P2PAssumption
<1>3. LinkTypes
  BY <1>1, <1>2 DEF LinkTypes
<1> QED
  BY <1>1, <1>2, <1>3 DEF LinkInv

\* A step that leaves connections and streams alone.
LEMMA LinkUnchanged ==
    ASSUME LinkInv, UNCHANGED <<ends, fresh, up, dialing, peers>>
    PROVE  LinkInv'
<1>1. LinkTypes'
  BY DEF LinkInv, LinkTypes
<1>2. \A c, n, p : Joins(c, n, p)' <=> Joins(c, n, p)
  BY DEF Joins
<1> QED
  BY <1>1, <1>2 DEF LinkInv

\* A step that only changes whom a node dials.
LEMMA LinkDials ==
    ASSUME LinkInv, UNCHANGED <<ends, fresh, up, peers>>, NEW n \in Nodes,
           NEW S \in SUBSET Nodes, n \notin S, dialing' = [dialing EXCEPT ![n] = S]
    PROVE  LinkInv'
<1>1. LinkTypes'
  BY DEF LinkInv, LinkTypes
<1>2. \A m \in Nodes : m \notin dialing'[m]
  BY DEF LinkInv, LinkTypes
<1> QED
  BY <1>1, <1>2 DEF LinkInv, Joins

\* A new connection joins two nodes and takes a slot nobody counts on.
LEMMA LinkConnect ==
    ASSUME LinkInv, NEW n \in Nodes, NEW p \in Nodes, NEW c \in Conns, Connect(n, p, c)
    PROVE  LinkInv'
<1>1. /\ ends' = [ends EXCEPT ![c] = {n, p}]
      /\ fresh' = [fresh EXCEPT ![n] = @ \cup {c}, ![p] = @ \cup {c}]
      /\ dialing' = [dialing EXCEPT ![n] = @ \ {p}]
      /\ UNCHANGED <<up, peers>>
  BY DEF Connect, streamVars
<1>2. \A m \in Nodes : c \notin fresh[m] \cup up[m]
  BY DEF Connect, InUse
<1>3. p # n
  BY DEF Connect, LinkInv
<1>4. LinkTypes'
  BY <1>1 DEF LinkInv, LinkTypes
<1>5. \A m \in Nodes : m \notin dialing'[m]
  BY <1>1 DEF LinkInv, LinkTypes
<1>6. ends'[c] = {n, p} /\ \A d \in Conns : d # c => ends'[d] = ends[d]
  BY <1>1 DEF LinkInv, LinkTypes
<1>7. \A m \in Nodes : fresh'[m] = IF m \in {n, p} THEN fresh[m] \cup {c} ELSE fresh[m]
  BY <1>1, <1>3 DEF LinkInv, LinkTypes
<1>8. ASSUME NEW m \in Nodes, NEW d \in fresh[m] \cup up[m], NEW q \in Nodes, Joins(d, m, q)
      PROVE  Joins(d, m, q)'
  BY <1>2, <1>6, <1>8 DEF Joins, LinkInv, LinkTypes
<1>9. ASSUME NEW m \in Nodes, NEW d \in fresh'[m] \cup up'[m]
      PROVE  \E q \in Nodes : Joins(d, m, q)'
  <2>1. CASE d \in fresh[m] \cup up[m]
    BY <2>1, <1>8 DEF LinkInv
  <2>2. CASE d \notin fresh[m] \cup up[m]
    <3>1. d = c /\ m \in {n, p}
      <4>1. d \in fresh'[m] \ fresh[m]
        BY <2>2, <1>1
      <4> QED
        BY <4>1, <1>7
    <3>2. Joins(c, n, p)' /\ Joins(c, p, n)'
      BY <1>3, <1>6 DEF Joins
    <3> QED
      BY <3>1, <3>2
  <2> QED
    BY <2>1, <2>2
<1>10. ASSUME NEW m \in Nodes, NEW q \in peers'[m]
       PROVE  \E d \in up'[m] : Joins(d, m, q)'
  <2>1. q \in peers[m] /\ q \in Nodes
    BY <1>1 DEF LinkInv, LinkTypes
  <2> QED
    BY <1>1, <1>8, <2>1 DEF LinkInv
<1> QED
  BY <1>4, <1>5, <1>9, <1>10 DEF LinkInv

\* The swarm counts the connection before streams are opened on it.
LEMMA LinkEstablished ==
    ASSUME LinkInv, NEW n \in Nodes, NEW c \in Conns, ConnectionEstablished(n, c)
    PROVE  LinkInv'
<1>1. /\ c \in fresh[n]
      /\ fresh' = [fresh EXCEPT ![n] = @ \ {c}]
      /\ up' = [up EXCEPT ![n] = @ \cup {c}]
      /\ UNCHANGED <<ends, dialing>>
  BY DEF ConnectionEstablished
<1>2. PICK p \in Nodes : Joins(c, n, p)
  BY <1>1 DEF LinkInv
<1>3. Peer(n, c) = p
  BY <1>2, PeerJoins
<1>4. peers' = peers \/ peers' = [peers EXCEPT ![n] = @ \cup {p}]
  BY <1>3 DEF ConnectionEstablished, OpenStream
<1>5. LinkTypes'
  BY <1>1, <1>4 DEF LinkInv, LinkTypes
<1>6. \A m \in Nodes : up[m] \subseteq up'[m] /\ fresh'[m] \cup up'[m] \subseteq fresh[m] \cup up[m]
  BY <1>1 DEF LinkInv, LinkTypes
<1>7. c \in up'[n]
  BY <1>1 DEF LinkInv, LinkTypes
<1>8. ASSUME NEW m \in Nodes, NEW q \in peers'[m]
      PROVE  q \in peers[m] \/ (m = n /\ q = p)
  BY <1>4 DEF LinkInv, LinkTypes
<1>9. \A d, m, q : Joins(d, m, q)' <=> Joins(d, m, q)
  BY <1>1 DEF Joins
<1> QED
  BY <1>1, <1>2, <1>5, <1>6, <1>7, <1>8, <1>9 DEF LinkInv

\* The entry of the peer goes with any connection of it, so that no other entry
\* loses the connection it rests on.
LEMMA LinkClosed ==
    ASSUME LinkInv, NEW n \in Nodes, NEW c \in Conns, ConnectionClosed(n, c)
    PROVE  LinkInv'
<1>1. /\ c \in up[n]
      /\ up' = [up EXCEPT ![n] = @ \ {c}]
      /\ peers' = [peers EXCEPT ![n] = @ \ {Peer(n, c)}]
      /\ UNCHANGED <<ends, fresh, dialing>>
  BY DEF ConnectionClosed, remove_peer
<1>2. PICK p \in Nodes : Joins(c, n, p)
  BY <1>1 DEF LinkInv
<1>3. Peer(n, c) = p
  BY <1>2, PeerJoins
<1>4. LinkTypes'
  BY <1>1 DEF LinkInv, LinkTypes
<1>5. \A d, m, q : Joins(d, m, q)' <=> Joins(d, m, q)
  BY <1>1 DEF Joins
<1>6. \A m \in Nodes : up'[m] \subseteq up[m]
  BY <1>1 DEF LinkInv, LinkTypes
<1>7. ASSUME NEW m \in Nodes, NEW q \in peers'[m]
      PROVE  \E d \in up'[m] : Joins(d, m, q)
  <2>1. q \in peers[m] /\ (m = n => q # p)
    BY <1>1, <1>3 DEF LinkInv, LinkTypes
  <2>2. PICK d \in up[m] : Joins(d, m, q)
    BY <2>1 DEF LinkInv
  <2>3. m = n => d # c
    BY <1>2, <2>1, <2>2 DEF Joins
  <2>4. d \in up'[m]
    BY <1>1, <2>2, <2>3 DEF LinkInv, LinkTypes
  <2> QED
    BY <2>2, <2>4
<1> QED
  BY <1>1, <1>4, <1>5, <1>6, <1>7 DEF LinkInv

\* Shutdown of a node takes its connections and streams away.
LEMMA LinkShutdown ==
    ASSUME LinkInv, NEW n \in Nodes, Shutdown(n)
    PROVE  LinkInv'
<1>1. /\ fresh' = [fresh EXCEPT ![n] = {}] /\ up' = [up EXCEPT ![n] = {}]
      /\ dialing' = [dialing EXCEPT ![n] = {}] /\ peers' = [peers EXCEPT ![n] = {}]
      /\ UNCHANGED ends
  BY DEF Shutdown
<1>2. LinkTypes'
  BY <1>1 DEF LinkInv, LinkTypes
<1>3. \A m \in Nodes :
         IF m = n THEN fresh'[m] = {} /\ up'[m] = {} /\ dialing'[m] = {} /\ peers'[m] = {}
         ELSE /\ fresh'[m] = fresh[m] /\ up'[m] = up[m]
              /\ dialing'[m] = dialing[m] /\ peers'[m] = peers[m]
  BY <1>1 DEF LinkInv, LinkTypes
<1>4. \A c, m, p : Joins(c, m, p)' <=> Joins(c, m, p)
  BY <1>1 DEF Joins
<1> QED
  BY <1>2, <1>3, <1>4 DEF LinkInv

\* Every step keeps the invariant.
LEMMA LinkStep ==
    ASSUME LinkInv, Next
    PROVE  LinkInv'
<1> DEFINE Same == UNCHANGED <<ends, fresh, up, dialing, peers>>
<1>1. ASSUME NEW n \in Nodes, HandlerStep(n)
      PROVE  Same
  BY <1>1 DEF HandlerStep, HandleBuilt, Forward, HandleReceived, p2pVars, netVars, streamVars
<1>2. ASSUME NEW n \in Nodes, LoopStep(n)
      PROVE  LinkInv'
  <2>1. CASE Shutdown(n)
    BY <2>1, LinkShutdown
  <2>2. CASE Broadcast(n)
    BY <2>2, LinkUnchanged DEF Broadcast, netVars, streamVars
  <2>3. ASSUME NEW p \in Nodes, SendTo(n, p) \/ SendLost(n, p) \/ SendFails(n, p)
        PROVE  LinkInv'
    BY <2>3, LinkUnchanged DEF SendTo, SendLost, SendFails, Sent, netVars
  <2>4. ASSUME NEW c \in Conns, ConnectionEstablished(n, c) \/ ConnectionClosed(n, c)
        PROVE  LinkInv'
    BY <2>4, LinkEstablished, LinkClosed
  <2> QED
    BY <1>2, <2>1, <2>2, <2>3, <2>4 DEF LoopStep
<1>3. ASSUME NEW n \in Nodes, RetryTick(n)
      PROVE  LinkInv'
  <2> DEFINE S == dialing[n] \cup (KnownPeers[n] \ connected_peers(n))
  <2>1. S \in SUBSET Nodes /\ n \notin S
    BY P2PAssumption DEF LinkInv, LinkTypes
  <2>2. dialing' = [dialing EXCEPT ![n] = S] /\ UNCHANGED <<ends, fresh, up, peers>>
    BY <1>3 DEF RetryTick, streamVars
  <2> HIDE DEF S
  <2> QED
    BY <2>1, <2>2, LinkDials
<1>4. ASSUME NEW n \in Nodes, NEW p \in Nodes, Discovered(n, p)
      PROVE  LinkInv'
  <2> DEFINE S == dialing[n] \cup {p}
  <2>1. S \in SUBSET Nodes /\ n \notin S
    BY <1>4 DEF Discovered, LinkInv, LinkTypes
  <2>2. dialing' = [dialing EXCEPT ![n] = S] /\ UNCHANGED <<ends, fresh, up, peers>>
    BY <1>4 DEF Discovered, streamVars
  <2> HIDE DEF S
  <2> QED
    BY <2>1, <2>2, LinkDials
<1>5. ASSUME NEW n \in Nodes, NEW c \in Conns, ReaderStep(n, c)
      PROVE  Same
  BY <1>5 DEF ReaderStep, ReadMessage, DecodeFails, StreamEnds, EndReader, netVars
<1>6. ASSUME NEW n \in Nodes, NEW p \in Nodes, DialFails(n, p)
      PROVE  LinkInv'
  <2> DEFINE S == dialing[n] \ {p}
  <2>1. S \in SUBSET Nodes /\ n \notin S
    BY DEF LinkInv, LinkTypes
  <2>2. dialing' = [dialing EXCEPT ![n] = S] /\ UNCHANGED <<ends, fresh, up, peers>>
    BY <1>6 DEF DialFails, streamVars
  <2> HIDE DEF S
  <2> QED
    BY <2>1, <2>2, LinkDials
<1>7. ASSUME NEW c \in Conns, Break(c)
      PROVE  Same
  BY <1>7 DEF Break, streamVars
<1>8. ASSUME NEW n \in Nodes, Cancel(n)
      PROVE  Same
  BY <1>8 DEF Cancel, netVars, streamVars
<1>9. CASE NetworkStep
  <2>1. ASSUME NEW n \in Nodes, NEW p \in Nodes, NEW c \in Conns, Connect(n, p, c)
        PROVE  LinkInv'
    BY <2>1, LinkConnect
  <2> HIDE DEF Same
  <2>2. Same => LinkInv'
    BY LinkUnchanged DEF Same
  <2> QED
    BY <1>6, <1>7, <1>8, <1>9, <2>1, <2>2 DEF NetworkStep
<1>10. Same => LinkInv'
  BY LinkUnchanged
<1> HIDE DEF Same
<1> QED
  BY <1>1, <1>2, <1>3, <1>4, <1>5, <1>9, <1>10 DEF Next, P2PStep, NodeStep

\* The streams of a node and the connections of its swarm: peers_to_stream has no
\* entry without a connection, whatever dials, connections and closings overlap.
THEOREM StreamsNeedConnectionHolds == Spec => []StreamsNeedConnection
<1>1. LinkInv /\ [Next]_vars => LinkInv'
  <2>1. LinkInv /\ UNCHANGED vars => LinkInv'
    BY LinkUnchanged DEF vars, p2pVars, netVars, streamVars
  <2> QED
    BY <2>1, LinkStep
<1> QED
  BY <1>1, LinkInit, LinkImplies, PTL DEF Spec

-----------------------------------------------------------------------------
\* What was refused is a payload its execution does not agree with.
RefusedInv ==
    /\ rejected = [n \in Nodes |-> rejected[n]]
    /\ \A n \in Nodes : \A m \in rejected[n] : ~Agrees(m[2])

\* Only HandleReceived refuses, and only what does not agree.
LEMMA RefusedStep ==
    ASSUME RefusedInv, Next
    PROVE  RefusedInv'
<1>1. CASE UNCHANGED rejected
  BY <1>1 DEF RefusedInv
<1>2. ASSUME NEW n \in Nodes, HandleReceived(n), rejected' # rejected
      PROVE  RefusedInv'
  <2> DEFINE m == Head(incoming[n])
  <2>1. ~Agrees(m[2]) /\ rejected' = [rejected EXCEPT ![n] = @ \cup {m}]
    BY <1>2 DEF HandleReceived, Execute
  <2> HIDE DEF m
  <2>2. rejected' = [k \in Nodes |-> rejected'[k]]
    BY <2>1 DEF RefusedInv
  <2>3. \A k \in Nodes : rejected'[k] = rejected[k] \/ rejected'[k] = rejected[k] \cup {m}
    BY <2>1 DEF RefusedInv
  <2> QED
    BY <2>1, <2>2, <2>3 DEF RefusedInv
<1>3. ASSUME NEW n \in Nodes, HandleBuilt(n) \/ Forward(n)
      PROVE  UNCHANGED rejected
  BY <1>3 DEF HandleBuilt, Forward
<1>4. P2PStep /\ UNCHANGED syncVars => UNCHANGED rejected
  BY DEF syncVars
<1> QED
  BY <1>1, <1>2, <1>3, <1>4 DEF Next, HandlerStep

\* A node refuses a payload of a builder with its configuration only for a
\* transaction the builder does not check, or for the missing state root.
THEOREM FollowersAgreeHolds == Spec => []FollowersAgree
<1>1. Init => RefusedInv
  BY DEF Init, RefusedInv
<1>2. RefusedInv /\ [Next]_vars => RefusedInv'
  <2>1. RefusedInv /\ UNCHANGED vars => RefusedInv'
    BY DEF vars, syncVars, RefusedInv
  <2> QED
    BY <2>1, RefusedStep
<1>3. RefusedInv => FollowersAgree
  BY DEF RefusedInv, FollowersAgree, Agrees, Included
<1> QED
  BY <1>1, <1>2, <1>3, PTL DEF Spec
=============================================================================
