---------------------- MODULE WebSocketPublisherProofs ----------------------
(***************************************************************************)
(* Types, the subscription counter and the order of what a client is sent, *)
(* for any finite set of clients, any ring and any limit on subscribers.   *)
(***************************************************************************)
EXTENDS WebSocketPublisher, FiniteSetTheorems, TLAPS

\* The type invariant without the bound on the counter, which needs SubsExact.
Types ==
    /\ published \in 0..MaxPublished
    /\ dropped \in BOOLEAN
    /\ listener \in {"select", "handshake", "deaf", "gone"}
    /\ client \in [Clients -> {"away", "backlog", "accepted", "task", "admitted",
                               "refused", "ended"} \cup Subscribed]
    /\ next \in [Clients -> 1..(MaxPublished + 1)]
    /\ first \in [Clients -> 1..(MaxPublished + 1)]
    /\ inbox \in [Clients -> Seq(1..MaxPublished)]
    /\ lagged \in [Clients -> BOOLEAN]
    /\ subs \in Int

Served == {c \in Clients : client[c] \in Subscribed}

\* Where the receiver of a client is: no message at or behind it has been sent,
\* it is not ahead of the ring, and without a lag it has sent all it passed.
ReceiverOf(c) ==
    /\ client[c] \in {"away", "backlog"} => inbox[c] = << >>
    /\ next[c] <= published + 1
    /\ \A k \in 1..Len(inbox[c]) : inbox[c][k] < next[c]
    /\ ~lagged[c] => next[c] = first[c] + Len(inbox[c])

InOrderOf(c) ==
    \A k \in 1..Len(inbox[c]) :
        /\ k > 1 => inbox[c][k] > inbox[c][k - 1]
        /\ ~lagged[c] => inbox[c][k] = first[c] + k - 1

Delivery == \A c \in Clients : ReceiverOf(c) /\ InOrderOf(c)

-----------------------------------------------------------------------------

\* Every step keeps the types (wspub.rs).
LEMMA TypesStep ==
    ASSUME Types, \A c \in Clients : next[c] <= published + 1, [Next]_vars
    PROVE  Types'
<1> USE PublisherAssumption DEF Types, Goto, Subscribed
<1>1. CASE Publish
  BY <1>1 DEF Publish
<1>2. CASE Drop
  BY <1>2 DEF Drop
<1>3. CASE ListenerTerm
  BY <1>3 DEF ListenerTerm
<1>4. CASE AcceptError
  BY <1>4 DEF AcceptError
<1>5. ASSUME NEW c \in Clients, Accept(c)
      PROVE  Types'
  BY <1>5 DEF Accept
<1>6. ASSUME NEW c \in Clients, Recv(c)
      PROVE  Types'
  <2>1. next[c] \in 1..MaxPublished
    BY <1>6 DEF Recv
  <2>2. CASE next[c] < Oldest
    <3>1. Oldest \in 1..(MaxPublished + 1)
      BY DEF Oldest
    <3> QED
      BY <1>6, <2>2, <3>1 DEF Recv
  <2>3. CASE ~(next[c] < Oldest)
    <3>1. Append(inbox[c], next[c]) \in Seq(1..MaxPublished)
      BY <2>1
    <3>2. inbox' \in [Clients -> Seq(1..MaxPublished)]
      BY <1>6, <2>3, <3>1 DEF Recv
    <3>3. next' = [next EXCEPT ![c] = next[c] + 1] /\ next[c] + 1 \in 1..(MaxPublished + 1)
      BY <1>6, <2>1, <2>3 DEF Recv
    <3> QED
      BY <1>6, <2>3, <3>2, <3>3 DEF Recv
  <2> QED
    BY <2>2, <2>3
<1>7. ASSUME NEW c \in Clients, Connect(c) \/ Handshake(c) \/ SendReturns(c) \/ ClientCloses(c)
      PROVE  Types'
  BY <1>7 DEF Connect, Handshake, SendReturns, ClientCloses
<1>8. ASSUME NEW c \in Clients, CheckLimit(c) \/ Subscribe(c) \/ LoopTerm(c) \/ Unsubscribe(c)
      PROVE  Types'
  <2>1. CASE CheckLimit(c)
    BY <2>1 DEF CheckLimit
  <2>2. CASE Subscribe(c)
    BY <2>2 DEF Subscribe
  <2>3. CASE LoopTerm(c)
    BY <2>3 DEF LoopTerm
  <2>4. CASE Unsubscribe(c)
    BY <2>4 DEF Unsubscribe
  <2> QED
    BY <1>8, <2>1, <2>2, <2>3, <2>4
<1>9. CASE UNCHANGED vars
  BY <1>9 DEF vars
<1> QED
  BY <1>1, <1>2, <1>3, <1>4, <1>5, <1>6, <1>7, <1>8, <1>9
  DEF Next, ListenerStep, ClientNext, TaskStep

-----------------------------------------------------------------------------

\* The clients in broadcast_loop can be counted.
LEMMA ServedFinite == IsFiniteSet(Served)
  BY FS_Subset, PublisherAssumption DEF Served

\* Only fetch_add and fetch_sub change the counter, and each goes with a client
\* that enters or leaves broadcast_loop.
LEMMA SubsStep ==
    ASSUME Types, SubsExact, [Next]_vars
    PROVE  SubsExact'
<1> USE DEF Types
<1>0. SubsExact <=> subs = Cardinality(Served)
  BY DEF SubsExact, Served
<1>1. SubsExact' <=> subs' = Cardinality(Served')
  BY DEF SubsExact, Served
<1>2. ASSUME NEW c \in Clients, Subscribe(c)
      PROVE  SubsExact'
  <2>1. Served' = Served \cup {c} /\ c \notin Served
    BY <1>2 DEF Subscribe, Goto, Served, Subscribed
  <2>2. Cardinality(Served') = Cardinality(Served) + 1
    BY <2>1, ServedFinite, FS_AddElement
  <2> QED
    BY <1>0, <1>1, <1>2, <2>2 DEF Subscribe
<1>3. ASSUME NEW c \in Clients, Unsubscribe(c)
      PROVE  SubsExact'
  <2>1. Served' = Served \ {c} /\ c \in Served
    BY <1>3 DEF Unsubscribe, Goto, Served, Subscribed
  <2>2. Cardinality(Served') = Cardinality(Served) - 1
    BY <2>1, ServedFinite, FS_RemoveElement
  <2> QED
    BY <1>0, <1>1, <1>3, <2>2 DEF Unsubscribe
<1>4. ASSUME Served' = Served, subs' = subs
      PROVE  SubsExact'
  BY <1>0, <1>1, <1>4
<1>5. CASE Publish \/ Drop \/ ListenerTerm \/ AcceptError \/ UNCHANGED vars
  <2>1. client' = client /\ subs' = subs
    BY <1>5 DEF Publish, Drop, ListenerTerm, AcceptError, vars
  <2> QED
    BY <1>4, <2>1 DEF Served
<1>6. ASSUME NEW c \in Clients, Accept(c) \/ Connect(c) \/ Handshake(c)
      PROVE  SubsExact'
  <2>1. Served' = Served /\ subs' = subs
    BY <1>6 DEF Accept, Connect, Handshake, Goto, Served, Subscribed
  <2> QED
    BY <1>4, <2>1
<1>7. ASSUME NEW c \in Clients, SendReturns(c) \/ ClientCloses(c) \/ LoopTerm(c)
      PROVE  SubsExact'
  <2>1. Served' = Served /\ subs' = subs
    BY <1>7 DEF SendReturns, ClientCloses, LoopTerm, Goto, Served, Subscribed
  <2> QED
    BY <1>4, <2>1
<1>8. ASSUME NEW c \in Clients, CheckLimit(c)
      PROVE  SubsExact'
  <2>1. Served' = Served /\ subs' = subs
    BY <1>8 DEF CheckLimit, Goto, Served, Subscribed
  <2> QED
    BY <1>4, <2>1
<1>9. ASSUME NEW c \in Clients, Recv(c)
      PROVE  SubsExact'
  <2>1. client' = client \/ client' = [client EXCEPT ![c] = "sending"]
    BY <1>9 DEF Recv, Goto
  <2>2. client[c] = "loop" /\ subs' = subs
    BY <1>9 DEF Recv
  <2>3. Served' = Served
    BY <2>1, <2>2 DEF Served, Subscribed
  <2> QED
    BY <1>4, <2>2, <2>3
<1> QED
  BY <1>2, <1>3, <1>5, <1>6, <1>7, <1>8, <1>9
  DEF Next, ListenerStep, ClientNext, TaskStep

-----------------------------------------------------------------------------

\* A client none of whose fields change keeps its place, also when the ring grows.
LEMMA ReceiverUnchanged ==
    ASSUME Types, NEW d \in Clients, ReceiverOf(d), InOrderOf(d),
           published' \in Nat, published' >= published,
           next'[d] = next[d], first'[d] = first[d], inbox'[d] = inbox[d],
           lagged'[d] = lagged[d],
           client'[d] \in {"away", "backlog"} => client[d] \in {"away", "backlog"}
    PROVE  ReceiverOf(d)' /\ InOrderOf(d)'
<1>1. ReceiverOf(d)'
  BY PublisherAssumption DEF ReceiverOf, Types
<1>2. InOrderOf(d)'
  BY DEF InOrderOf
<1> QED
  BY <1>1, <1>2

\* recv moves the receiver of a client that fell behind, or sends it the message
\* at its place and moves on by one.
LEMMA RecvInOrder ==
    ASSUME Types, NEW c \in Clients, ReceiverOf(c), InOrderOf(c), Recv(c)
    PROVE  ReceiverOf(c)' /\ InOrderOf(c)'
<1> USE PublisherAssumption DEF Types
<1>1. /\ client[c] = "loop" /\ next[c] <= published
      /\ published' = published /\ first' = first
  BY DEF Recv
<1>2. CASE next[c] < Oldest
  <2>1. /\ next'[c] = Oldest /\ lagged'[c] = TRUE
        /\ client' = client /\ inbox' = inbox
    BY <1>2 DEF Recv
  <2>2. Oldest \in Nat /\ Oldest <= published + 1
    BY DEF Oldest
  <2>3. \A k \in 1..Len(inbox[c]) : inbox[c][k] \in 1..MaxPublished
    OBVIOUS
  <2>4. ReceiverOf(c)'
    BY <1>1, <1>2, <2>1, <2>2, <2>3 DEF ReceiverOf
  <2>5. InOrderOf(c)'
    BY <2>1 DEF InOrderOf
  <2> QED
    BY <2>4, <2>5
<1>3. CASE ~(next[c] < Oldest)
  <2> DEFINE old == inbox[c]
             new == inbox'[c]
  <2>1. /\ new = Append(old, next[c]) /\ next'[c] = next[c] + 1
        /\ lagged' = lagged /\ client'[c] = "sending"
    BY <1>3 DEF Recv, Goto
  <2>2. next[c] \in Nat /\ first[c] \in Nat /\ old \in Seq(1..MaxPublished)
    OBVIOUS
  <2>3. Len(old) \in Nat /\ \A k \in 1..Len(old) : old[k] \in Nat
    BY <2>2
  <2>4. /\ Len(new) = Len(old) + 1
        /\ \A k \in 1..Len(old) : new[k] = old[k]
        /\ new[Len(old) + 1] = next[c]
    BY <1>1, <2>1, <2>2
  <2>5. ReceiverOf(c)'
    <3>1. \A k \in 1..Len(new) : new[k] < next'[c]
      BY <2>1, <2>2, <2>3, <2>4 DEF ReceiverOf
    <3>2. ~lagged'[c] => next'[c] = first'[c] + Len(new)
      BY <1>1, <2>1, <2>2, <2>3, <2>4 DEF ReceiverOf
    <3> QED
      BY <1>1, <2>1, <2>2, <3>1, <3>2 DEF ReceiverOf
  <2>6. InOrderOf(c)'
    <3>1. ASSUME NEW k \in 1..Len(new)
          PROVE  /\ k > 1 => new[k] > new[k - 1]
                 /\ ~lagged'[c] => new[k] = first'[c] + k - 1
      <4>1. CASE k \in 1..Len(old)
        BY <1>1, <2>1, <2>3, <2>4, <4>1 DEF InOrderOf
      <4>2. CASE k = Len(old) + 1
        BY <1>1, <2>1, <2>2, <2>3, <2>4, <4>2 DEF ReceiverOf
      <4> QED
        BY <2>3, <2>4, <4>1, <4>2
    <3> QED
      BY <3>1 DEF InOrderOf
  <2> QED
    BY <2>5, <2>6
<1> QED
  BY <1>2, <1>3

\* Only accept and recv move a receiver.
LEMMA DeliveryStep ==
    ASSUME Types, Types', Delivery, [Next]_vars
    PROVE  Delivery'
<1> SUFFICES ASSUME NEW d \in Clients
             PROVE  ReceiverOf(d)' /\ InOrderOf(d)'
  BY DEF Delivery
<1> USE PublisherAssumption
<1>0. ReceiverOf(d) /\ InOrderOf(d) /\ published \in Nat /\ published' \in Nat
  BY DEF Delivery, Types
<1>1. CASE Publish
  <2>1. published' >= published
    BY <1>0, <1>1 DEF Publish
  <2> QED
    BY <1>0, <1>1, <2>1, ReceiverUnchanged DEF Publish
<1>2. CASE Drop \/ ListenerTerm \/ AcceptError \/ UNCHANGED vars
  <2>1. UNCHANGED <<published, client, next, first, inbox, lagged>>
    BY <1>2 DEF Drop, ListenerTerm, AcceptError, vars
  <2> QED
    BY <1>0, <2>1, ReceiverUnchanged
<1>3. ASSUME NEW c \in Clients, Accept(c)
      PROVE  ReceiverOf(d)' /\ InOrderOf(d)'
  <2>1. CASE d # c
    <3>1. /\ UNCHANGED <<published, inbox, lagged>>
          /\ next'[d] = next[d] /\ first'[d] = first[d] /\ client'[d] = client[d]
      BY <1>3, <2>1 DEF Accept, Goto, Types
    <3> QED
      BY <1>0, <3>1, ReceiverUnchanged
  <2>2. CASE d = c
    <3>1. inbox'[d] = << >> /\ next'[d] = published + 1 /\ first'[d] = published + 1
          /\ published' = published
      BY <1>0, <1>3, <2>2 DEF Accept, ReceiverOf, Types
    <3> QED
      BY <1>0, <3>1 DEF ReceiverOf, InOrderOf
  <2> QED
    BY <2>1, <2>2
<1>4. ASSUME NEW c \in Clients, Recv(c)
      PROVE  ReceiverOf(d)' /\ InOrderOf(d)'
  <2>1. CASE d # c
    <3>1. /\ UNCHANGED <<published, first>>
          /\ next'[d] = next[d] /\ inbox'[d] = inbox[d] /\ lagged'[d] = lagged[d]
          /\ client'[d] = client[d]
      BY <1>4, <2>1 DEF Recv, Goto, Types
    <3> QED
      BY <1>0, <3>1, ReceiverUnchanged
  <2>2. CASE d = c
    BY <1>0, <1>4, <2>2, RecvInOrder
  <2> QED
    BY <2>1, <2>2
<1>5. ASSUME NEW c \in Clients,
             \/ Connect(c) \/ Handshake(c) \/ SendReturns(c) \/ ClientCloses(c)
             \/ CheckLimit(c) \/ Subscribe(c) \/ LoopTerm(c) \/ Unsubscribe(c)
      PROVE  ReceiverOf(d)' /\ InOrderOf(d)'
  <2>1. UNCHANGED <<published, next, first, inbox, lagged>>
    BY <1>5 DEF Connect, Handshake, SendReturns, ClientCloses, CheckLimit, Subscribe,
                LoopTerm, Unsubscribe
  <2>2. client'[d] \in {"away", "backlog"} => client[d] \in {"away", "backlog"}
    BY <1>5 DEF Connect, Handshake, SendReturns, ClientCloses, CheckLimit, Subscribe,
                LoopTerm, Unsubscribe, Goto, Types
  <2> QED
    BY <1>0, <2>1, <2>2, ReceiverUnchanged
<1> QED
  BY <1>1, <1>2, <1>3, <1>4, <1>5 DEF Next, ListenerStep, ClientNext, TaskStep

-----------------------------------------------------------------------------

IInv == Types /\ SubsExact /\ Delivery

\* The inductive invariant: the counter with the places of the clients, and each
\* receiver with the ring and with what was sent.
THEOREM Invariant == Spec => []IInv
<1>1. Init => IInv
  <2> SUFFICES ASSUME Init
               PROVE  IInv
    OBVIOUS
  <2>1. Types
    <3>1. inbox \in [Clients -> Seq(1..MaxPublished)]
      BY DEF Init
    <3>2. next \in [Clients -> 1..(MaxPublished + 1)] /\ first = next
      BY PublisherAssumption DEF Init
    <3>3. published \in 0..MaxPublished /\ subs \in Int
      BY PublisherAssumption DEF Init
    <3>4. client \in [Clients -> {"away"}] /\ lagged \in [Clients -> BOOLEAN]
      BY DEF Init
    <3> QED
      BY <3>1, <3>2, <3>3, <3>4 DEF Init, Types
  <2>2. {c \in Clients : client[c] \in Subscribed} = {}
    BY DEF Init, Subscribed
  <2>3. SubsExact
    BY <2>2, FS_EmptySet DEF Init, SubsExact
  <2>4. Delivery
    BY DEF Init, Delivery, ReceiverOf, InOrderOf
  <2> QED
    BY <2>1, <2>3, <2>4 DEF IInv
<1>2. IInv /\ [Next]_vars => IInv'
  <2> SUFFICES ASSUME IInv, [Next]_vars
               PROVE  IInv'
    OBVIOUS
  <2>1. \A c \in Clients : next[c] <= published + 1
    BY DEF IInv, Delivery, ReceiverOf
  <2>2. Types'
    BY <2>1, TypesStep DEF IInv
  <2>3. SubsExact'
    BY SubsStep DEF IInv
  <2>4. Delivery'
    BY <2>2, DeliveryStep DEF IInv
  <2> QED
    BY <2>2, <2>3, <2>4 DEF IInv
<1> QED
  BY <1>1, <1>2, PTL DEF Spec

\* The types, with the counter never below zero nor above the number of clients.
THEOREM TypeCorrect == Spec => []TypeOK
<1>1. IInv => TypeOK
  <2> SUFFICES ASSUME IInv
               PROVE  TypeOK
    OBVIOUS
  <2>1. Cardinality(Served) \in Nat /\ Cardinality(Served) <= Cardinality(Clients)
        /\ Cardinality(Clients) \in Nat
    BY PublisherAssumption, FS_Subset, FS_CardinalityType DEF Served
  <2>2. subs \in 0..Cardinality(Clients)
    BY <2>1 DEF IInv, SubsExact, Served
  <2> QED
    BY <2>2 DEF IInv, Types, TypeOK
<1> QED
  BY <1>1, Invariant, PTL

\* The counter is the number of connections in broadcast_loop.
THEOREM SubsExactHolds == Spec => []SubsExact
<1>1. IInv => SubsExact
  BY DEF IInv
<1> QED
  BY <1>1, Invariant, PTL

\* Every client is sent flashblocks in order, and without a lag all of them.
THEOREM InboxInOrderHolds == Spec => []InboxInOrder
<1>1. IInv => InboxInOrder
  BY DEF IInv, Delivery, InOrderOf, InboxInOrder
<1> QED
  BY <1>1, Invariant, PTL

=============================================================================
