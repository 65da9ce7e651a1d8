------------------------------ MODULE V2XNode_proofs ------------------------------
(***************************************************************************)
(* Proofs about V2XNode for every network, every set of messages and every  *)
(* limit: delivery and forwarding happen once, and restarts keep the threads *)
(* and the table of peers in order.                                         *)
(***************************************************************************)
EXTENDS V2XNode, FiniteSetTheorems, TLAPS

USE V2XAssumption

Reception == [msg : Message, at : {"peer", "deliver"}]

(* The types, with what is needed to count the messages of a queue.         *)
TypeInv == V2XTypeOK /\ \A n \in Node : IsFiniteSet(queue[n])

(* A node that is off or was never started has no dispatch thread, and      *)
(* start() brings one up only in the place of one that has ended.           *)
ThreadInv ==
    \A n \in Node :
        /\ dispatchers[n] <= 1
        /\ control[n] = "starting" => dispatchers[n] = 0 /\ state[n] \notin {"INITIALIZING", "OFFLINE"}
        /\ state[n] \in {"INITIALIZING", "OFFLINE"} => dispatchers[n] = 0

(* A node has taken an identity in and its reception is over.               *)
Settled(n, i) == i \in seen[n] /\ \A r \in receiving[n] : r.msg.id # i

(* An identity is inside receive() at most once, and only while it is       *)
(* remembered, not yet delivered and not yet sent on.                       *)
ReceptionInv ==
    \A n \in Node :
        /\ \A r \in receiving[n] : r.msg.id \in seen[n] /\ delivered[n][r.msg.id] = 0
        /\ \A r, s \in receiving[n] : r.msg.id = s.msg.id => r = s
        /\ \A i \in Id : delivered[n][i] <= 1 /\ (i \notin seen[n] => delivered[n][i] = 0)

(* A message that has hopped waits at a node, or has been transmitted by    *)
(* it, only after its reception is over, in one copy; one that has not      *)
(* hopped is the one its origin made.                                       *)
NodeForwardInv(n) ==
    /\ \A m \in queue[n] :
          /\ m.hops # 0 => Settled(n, m.id) /\ forwarded[n][m.id] = 0
          /\ m.hops = 0 => n = Origin[m.id] /\ m.id \in published /\ injected[n][m.id] = 0
    /\ \A m, k \in queue[n] : m.hops # 0 /\ k.hops # 0 /\ m.id = k.id => m = k
    /\ \A i \in Id :
          /\ forwarded[n][i] <= 1 /\ (forwarded[n][i] # 0 => Settled(n, i))
          /\ injected[n][i] <= 1 /\ (injected[n][i] # 0 => n = Origin[i] /\ i \in published)

ForwardInv == \A n \in Node : NodeForwardInv(n)

V2XInv == TypeInv /\ ThreadInv /\ ConnectedKnowsPeers /\ ReceptionInv /\ ForwardInv
--------------------------------------------------------------------------------
LEMMA InitInv == Init => V2XInv
  <1> SUFFICES ASSUME Init PROVE V2XInv
    OBVIOUS
  <1> USE DEF Init
  <1>1. TypeInv
    <2>1. \A n \in Node : queue[n] = {} /\ IsFiniteSet(queue[n]) /\ Cardinality(queue[n]) = 0
      BY FS_EmptySet
    <2>2. starts \in [Node -> Nat] /\ \A n \in Node : starts[n] <= MaxStarts[n]
      OBVIOUS
    <2>3. delivered \in [Node -> [Id -> Nat]]
      OBVIOUS
    <2> QED
      BY <2>1, <2>2, <2>3 DEF TypeInv, V2XTypeOK, NodeState
  <1>2. ThreadInv
    BY DEF ThreadInv
  <1>3. ConnectedKnowsPeers
    BY DEF ConnectedKnowsPeers
  <1>4. ReceptionInv
    BY DEF ReceptionInv
  <1>5. ForwardInv
    BY DEF ForwardInv, NodeForwardInv
  <1> QED
    BY <1>1, <1>2, <1>3, <1>4, <1>5 DEF V2XInv

(* Publishing or forwarding adds at most the one message to one queue, and  *)
(* keeps the queue inside its limit.                                        *)
LEMMA EnqueueProps ==
    ASSUME TypeInv, NEW n \in Node, NEW m \in Message, Enqueue(n, m)
    PROVE  /\ queue' \in [Node -> SUBSET Message] /\ dropped' \in [Node -> BOOLEAN]
           /\ \A k \in Node : IsFiniteSet(queue'[k]) /\ Cardinality(queue'[k]) <= Capacity
           /\ \A k \in Node : k # n => queue'[k] = queue[k]
           /\ queue'[n] \subseteq queue[n] \cup {m}
  <1>1. /\ queue \in [Node -> SUBSET Message] /\ dropped \in [Node -> BOOLEAN]
        /\ \A k \in Node : IsFiniteSet(queue[k]) /\ Cardinality(queue[k]) <= Capacity
    BY DEF TypeInv, V2XTypeOK
  <1>2. dropped' \in [Node -> BOOLEAN]
    BY <1>1 DEF Enqueue
  <1>3. CASE queue' = queue
    BY <1>1, <1>2, <1>3
  <1>4. CASE queue' = [queue EXCEPT ![n] = @ \union {m}] /\ ~(Cardinality(queue[n]) >= Capacity)
    <2>1. queue'[n] = queue[n] \cup {m} /\ \A k \in Node : k # n => queue'[k] = queue[k]
      BY <1>1, <1>4
    <2>2. IsFiniteSet(queue'[n]) /\ Cardinality(queue'[n]) <= Capacity
      <3>1. IsFiniteSet(queue[n]) /\ Cardinality(queue[n]) \in Nat /\ Capacity \in Nat
        BY <1>1, FS_CardinalityType
      <3>2. /\ IsFiniteSet(queue[n] \cup {m})
            /\ Cardinality(queue[n] \cup {m}) \in {Cardinality(queue[n]), Cardinality(queue[n]) + 1}
        <4> HIDE V2XAssumption
        <4> QED
          BY <3>1, FS_AddElement, Zenon
      <3>3. Cardinality(queue[n]) < Capacity
        BY <1>4, <3>1
      <3>4. Cardinality(queue[n] \cup {m}) <= Capacity
        BY <3>1, <3>2, <3>3
      <3> QED
        BY <2>1, <3>2, <3>4
    <2>3. queue' \in [Node -> SUBSET Message]
      BY <1>1, <1>4
    <2>4. \A k \in Node : IsFiniteSet(queue'[k]) /\ Cardinality(queue'[k]) <= Capacity
      BY <1>1, <2>1, <2>2
    <2> QED
      BY <1>2, <2>1, <2>3, <2>4
  <1> QED
    BY <1>3, <1>4 DEF Enqueue

(* A message that is sent on has hopped once more.                          *)
LEMMA ForwardsProps ==
    ASSUME NEW m \in Message, NEW f \in Forwards(m)
    PROVE  f \in Message /\ f.id = m.id /\ f.hops # 0
  <1>1. m.hops \in 0 .. MaxHops /\ m.id \in Id /\ m.hops < MaxHops /\ f = [m EXCEPT !.hops = @ + 1]
    BY DEF Forwards, Message
  <1>2. f = [id |-> m.id, hops |-> m.hops + 1]
    BY <1>1 DEF Message
  <1> QED
    BY <1>1, <1>2 DEF Message
--------------------------------------------------------------------------------
(* The controlling thread, the threads it ends, the subscriptions and the   *)
(* clean-up of peers: neither messages nor their reception are touched.     *)
LEMMA ControlKeepsInv ==
    ASSUME V2XInv, NEW n \in Node,
           \/ Start(n) \/ Spawn(n) \/ Stop(n) \/ Clear(n) \/ Subscribe(n) \/ Unsubscribe(n)
           \/ DispatchEnds(n) \/ CleanupEnds(n)
           \/ \E stale \in SUBSET peers[n] : stale # {} /\ Cleanup(n, stale)
    PROVE  V2XInv'
  <1> USE DEF threadVars, inVars, radioVars, worldVars
  <1>1. UNCHANGED <<queue, seen, receiving, delivered, sent, injected, forwarded, dropped, published, expired>>
    BY DEF Start, Spawn, Stop, Clear, Subscribe, Unsubscribe, DispatchEnds, CleanupEnds, Cleanup
  <1>2. ReceptionInv' /\ ForwardInv' /\ \A k \in Node : IsFiniteSet(queue'[k])
    BY <1>1 DEF V2XInv, TypeInv, ReceptionInv, ForwardInv, NodeForwardInv, Settled
  <1>3. /\ state \in [Node -> NodeState] /\ running \in [Node -> BOOLEAN]
        /\ control \in [Node -> {"idle", "starting", "stopping"}] /\ starts \in [Node -> Nat]
        /\ \A k \in Node : starts[k] <= MaxStarts[k]
        /\ dispatchers \in [Node -> Nat] /\ cleaners \in [Node -> Nat]
        /\ peers \in [Node -> SUBSET Node] /\ subscribed \in [Node -> BOOLEAN]
    BY DEF V2XInv, TypeInv, V2XTypeOK
  <1>4. ThreadInv /\ ConnectedKnowsPeers
    BY DEF V2XInv
  <1>5. ASSUME state' \in [Node -> NodeState], running' \in [Node -> BOOLEAN],
               control' \in [Node -> {"idle", "starting", "stopping"}], starts' \in [Node -> Nat],
               \A k \in Node : starts'[k] <= MaxStarts[k],
               dispatchers' \in [Node -> Nat], cleaners' \in [Node -> Nat],
               peers' \in [Node -> SUBSET Node], subscribed' \in [Node -> BOOLEAN],
               ThreadInv', ConnectedKnowsPeers'
        PROVE  V2XInv'
    <2>1. V2XTypeOK'
      BY <1>1, <1>5, Zenon DEF V2XInv, TypeInv, V2XTypeOK
    <2> QED
      BY <1>2, <1>5, <2>1 DEF V2XInv, TypeInv
  <1>6. CASE Start(n)
    <2>1. starts' \in [Node -> Nat] /\ \A k \in Node : starts'[k] <= MaxStarts[k]
      BY <1>3, <1>6 DEF Start
    <2>2. ThreadInv' /\ ConnectedKnowsPeers'
      BY <1>3, <1>4, <1>6 DEF Start, ThreadInv, ConnectedKnowsPeers, NodeState
    <2> QED
      BY <1>3, <1>5, <1>6, <2>1, <2>2 DEF Start, NodeState
  <1>7. CASE Spawn(n)
    <2>1. dispatchers' \in [Node -> Nat] /\ cleaners' \in [Node -> Nat]
      BY <1>3, <1>7 DEF Spawn
    <2>2. ThreadInv' /\ ConnectedKnowsPeers'
      BY <1>3, <1>4, <1>7 DEF Spawn, ThreadInv, ConnectedKnowsPeers
    <2> QED
      BY <1>3, <1>5, <1>7, <2>1, <2>2 DEF Spawn
  <1>8. CASE Stop(n)
    <2>1. ThreadInv' /\ ConnectedKnowsPeers'
      BY <1>3, <1>4, <1>8 DEF Stop, ThreadInv, ConnectedKnowsPeers
    <2> QED
      BY <1>3, <1>5, <1>8, <2>1 DEF Stop
  <1>9. CASE Clear(n)
    <2>1. ThreadInv' /\ ConnectedKnowsPeers'
      BY <1>3, <1>4, <1>9 DEF Clear, ThreadInv, ConnectedKnowsPeers
    <2> QED
      BY <1>3, <1>5, <1>9, <2>1 DEF Clear, NodeState
  <1>10. CASE Subscribe(n) \/ Unsubscribe(n)
    <2>1. ThreadInv' /\ ConnectedKnowsPeers'
      BY <1>4, <1>10 DEF Subscribe, Unsubscribe, ThreadInv, ConnectedKnowsPeers
    <2> QED
      BY <1>3, <1>5, <1>10, <2>1 DEF Subscribe, Unsubscribe
  <1>11. CASE DispatchEnds(n)
    <2>1. dispatchers' \in [Node -> Nat] /\ \A k \in Node : dispatchers'[k] <= dispatchers[k]
      BY <1>3, <1>11 DEF DispatchEnds
    <2>2. ThreadInv' /\ ConnectedKnowsPeers'
      BY <1>3, <1>4, <1>11, <2>1 DEF DispatchEnds, ThreadInv, ConnectedKnowsPeers
    <2> QED
      BY <1>3, <1>5, <1>11, <2>1, <2>2 DEF DispatchEnds
  <1>12. CASE CleanupEnds(n)
    <2>1. cleaners' \in [Node -> Nat]
      BY <1>3, <1>12 DEF CleanupEnds
    <2>2. ThreadInv' /\ ConnectedKnowsPeers'
      BY <1>4, <1>12 DEF CleanupEnds, ThreadInv, ConnectedKnowsPeers
    <2> QED
      BY <1>3, <1>5, <1>12, <2>1, <2>2 DEF CleanupEnds
  <1>13. ASSUME NEW stale \in SUBSET peers[n], Cleanup(n, stale)
         PROVE  V2XInv'
    <2>1. peers' \in [Node -> SUBSET Node] /\ state' \in [Node -> NodeState]
      BY <1>3, <1>13 DEF Cleanup, NodeState
    <2>2. ConnectedKnowsPeers'
      BY <1>3, <1>4, <1>13 DEF Cleanup, ConnectedKnowsPeers
    <2>3. ASSUME NEW k \in Node
          PROVE  state'[k] = state[k] \/ (state[k] = "CONNECTED" /\ state'[k] = "READY")
      <3>1. \/ state' = state
            \/ state[n] = "CONNECTED" /\ state' = [state EXCEPT ![n] = "READY"]
        <4>1. state' = IF peers'[n] = {} /\ state[n] = "CONNECTED" THEN [state EXCEPT ![n] = "READY"] ELSE state
          BY <1>13 DEF Cleanup
        <4> QED
          BY <4>1, Zenon
      <3>2. state \in [Node -> NodeState]
        BY <1>3
      <3> QED
        BY <3>1, <3>2
    <2>4. ThreadInv'
      BY <1>3, <1>4, <1>13, <2>3 DEF Cleanup, ThreadInv
    <2> QED
      BY <1>3, <1>5, <1>13, <2>1, <2>2, <2>4 DEF Cleanup
  <1> QED
    BY <1>6, <1>7, <1>8, <1>9, <1>10, <1>11, <1>12, <1>13
--------------------------------------------------------------------------------
(* Any step that leaves the threads and the peers alone and respects the    *)
(* types keeps the invariant if it keeps the parts about messages.          *)
LEMMA MessagesKeepInv ==
    ASSUME V2XInv, UNCHANGED <<state, threadVars, peers, subscribed>>,
           queue' \in [Node -> SUBSET Message], sent' \in [Node -> SUBSET Message],
           \A n \in Node : IsFiniteSet(queue'[n]) /\ Cardinality(queue'[n]) <= Capacity,
           seen' \in [Node -> SUBSET Id], dropped' \in [Node -> BOOLEAN],
           receiving' \in [Node -> SUBSET Reception],
           {delivered', injected', forwarded'} \subseteq [Node -> [Id -> Nat]],
           published' \subseteq Id, expired' \subseteq Id,
           ReceptionInv', ForwardInv'
    PROVE  V2XInv'
  <1>1. V2XTypeOK'
    BY Zenon DEF V2XInv, TypeInv, V2XTypeOK, threadVars, Reception
  <1>2. ThreadInv' /\ ConnectedKnowsPeers'
    BY DEF V2XInv, ThreadInv, ConnectedKnowsPeers, threadVars
  <1> QED
    BY <1>1, <1>2 DEF V2XInv, TypeInv

LEMMA TypesInUse ==
    ASSUME V2XInv
    PROVE  /\ queue \in [Node -> SUBSET Message] /\ sent \in [Node -> SUBSET Message]
           /\ \A n \in Node : IsFiniteSet(queue[n]) /\ Cardinality(queue[n]) <= Capacity
           /\ seen \in [Node -> SUBSET Id] /\ dropped \in [Node -> BOOLEAN]
           /\ receiving \in [Node -> SUBSET Reception] /\ delivered \in [Node -> [Id -> Nat]]
           /\ injected \in [Node -> [Id -> Nat]] /\ forwarded \in [Node -> [Id -> Nat]]
           /\ published \subseteq Id /\ expired \subseteq Id
           /\ state \in [Node -> NodeState] /\ peers \in [Node -> SUBSET Node]
           /\ TypeInv /\ ReceptionInv /\ ForwardInv /\ ThreadInv /\ ConnectedKnowsPeers
  BY Zenon DEF V2XInv, TypeInv, V2XTypeOK, Reception

(* A node whose queue, receptions and histories are left alone keeps its    *)
(* part of the invariant; messages made elsewhere do not matter.            *)
LEMMA OthersKeepForwarding ==
    ASSUME NEW n \in Node, NodeForwardInv(n), published \subseteq published',
           UNCHANGED <<queue[n], seen[n], receiving[n], injected[n], forwarded[n]>>
    PROVE  NodeForwardInv(n)'
  BY DEF NodeForwardInv, Settled

(* The application publishes, the dispatch thread sends, a time runs out.   *)
LEMMA SendingKeepsInv ==
    ASSUME V2XInv, NEW n \in Node, NEW m \in Message, NEW i \in Id,
           Publish(i) \/ Expire(i) \/ Dispatch(n, m)
    PROVE  V2XInv'
  <1> USE DEF inVars, radioVars, worldVars
  <1>1. CASE Expire(i)
    <2>1. UNCHANGED <<state, threadVars, peers, subscribed, queue, sent, injected, forwarded, seen,
                      dropped, receiving, delivered, published>>
          /\ expired' \subseteq Id
      BY <1>1, TypesInUse DEF Expire
    <2>2. ReceptionInv' /\ ForwardInv'
      BY <2>1, TypesInUse DEF ReceptionInv, ForwardInv, NodeForwardInv, Settled
    <2> QED
      BY <2>1, <2>2, TypesInUse, MessagesKeepInv
  <1>2. CASE Publish(i)
    <2> DEFINE p == [id |-> i, hops |-> 0]
    <2>1. p \in Message /\ p.hops = 0 /\ p.id = i
      BY DEF Message
    <2>2. /\ UNCHANGED <<state, threadVars, peers, subscribed, sent, injected, forwarded, seen,
                         receiving, delivered, expired>>
          /\ Enqueue(Origin[i], p) /\ published' \subseteq Id /\ Origin[i] \in Node
          /\ i \notin published /\ published' = published \cup {i}
      BY <1>2, TypesInUse DEF Publish
    <2>3. /\ queue' \in [Node -> SUBSET Message] /\ dropped' \in [Node -> BOOLEAN]
          /\ \A k \in Node : IsFiniteSet(queue'[k]) /\ Cardinality(queue'[k]) <= Capacity
          /\ \A k \in Node : k # Origin[i] => queue'[k] = queue[k]
          /\ queue'[Origin[i]] \subseteq queue[Origin[i]] \cup {p}
      <3> HIDE DEF p
      <3> QED
        BY <2>1, <2>2, TypesInUse, EnqueueProps
    <2>4. ASSUME NEW k \in Node
          PROVE  NodeForwardInv(k)'
      <3> HIDE DEF p
      <3>1. NodeForwardInv(k)
        BY TypesInUse DEF ForwardInv
      <3>2. CASE k # Origin[i]
        BY <2>2, <2>3, <3>1, <3>2, OthersKeepForwarding
      <3>3. CASE k = Origin[i]
        <4>1. injected[k][i] = 0
          BY <2>2, <3>1 DEF NodeForwardInv
        <4> QED
          BY <2>1, <2>2, <2>3, <3>1, <3>3, <4>1 DEF NodeForwardInv, Settled
      <3> QED
        BY <3>2, <3>3
    <2>5. ForwardInv' /\ ReceptionInv'
      <3>1. ForwardInv'
        BY <2>4 DEF ForwardInv
      <3> QED
        BY <2>2, <3>1, TypesInUse DEF ReceptionInv
    <2> QED
      BY <2>2, <2>3, <2>5, TypesInUse, MessagesKeepInv
  <1>3. CASE Dispatch(n, m)
    <2>1. /\ UNCHANGED <<state, threadVars, peers, subscribed, seen, receiving, delivered, dropped, published, expired>>
          /\ queue' = [queue EXCEPT ![n] = @ \ {m}] /\ m \in queue[n] /\ m.id \in Id
      BY <1>3 DEF Dispatch, Message
    <2>2. /\ \A k \in Node : k # n => queue'[k] = queue[k]
          /\ queue'[n] = queue[n] \ {m} /\ queue' \in [Node -> SUBSET Message]
      <3>1. queue \in [Node -> SUBSET Message]
        BY TypesInUse
      <3> QED
        BY <2>1, <3>1
    <2>3. /\ injected' = injected \/ injected' = [injected EXCEPT ![n][m.id] = @ + 1]
          /\ forwarded' = forwarded \/ forwarded' = [forwarded EXCEPT ![n][m.id] = @ + 1]
          /\ sent' = sent \/ sent' = [sent EXCEPT ![n] = @ \union {m}]
          /\ m.hops = 0 => forwarded' = forwarded
          /\ m.hops # 0 => injected' = injected
      BY <1>3 DEF Dispatch, Transmit
    <2>4. /\ injected' \in [Node -> [Id -> Nat]] /\ forwarded' \in [Node -> [Id -> Nat]]
          /\ \A k \in Node : k # n => injected'[k] = injected[k] /\ forwarded'[k] = forwarded[k]
          /\ \A j \in Id : j # m.id => injected'[n][j] = injected[n][j] /\ forwarded'[n][j] = forwarded[n][j]
      <3>1. m.id \in Id /\ injected \in [Node -> [Id -> Nat]] /\ forwarded \in [Node -> [Id -> Nat]]
        BY <2>1, TypesInUse
      <3> DEFINE i0 == m.id
      <3> HIDE DEF i0
      <3>2. i0 = m.id /\ i0 \in Id
        BY <3>1 DEF i0
      <3>3. /\ injected' = injected \/ injected' = [injected EXCEPT ![n][i0] = @ + 1]
            /\ forwarded' = forwarded \/ forwarded' = [forwarded EXCEPT ![n][i0] = @ + 1]
        BY <2>3, <3>2
      <3>4. /\ injected' \in [Node -> [Id -> Nat]]
            /\ \A k \in Node : k # n => injected'[k] = injected[k]
            /\ \A j \in Id : j # i0 => injected'[n][j] = injected[n][j]
        <4>1. CASE injected' = injected
          BY <3>1, <4>1
        <4>2. CASE injected' = [injected EXCEPT ![n][i0] = @ + 1]
          BY <3>1, <3>2, <4>2
        <4> QED
          BY <3>3, <4>1, <4>2
      <3>5. /\ forwarded' \in [Node -> [Id -> Nat]]
            /\ \A k \in Node : k # n => forwarded'[k] = forwarded[k]
            /\ \A j \in Id : j # i0 => forwarded'[n][j] = forwarded[n][j]
        <4>1. CASE forwarded' = forwarded
          BY <3>1, <4>1
        <4>2. CASE forwarded' = [forwarded EXCEPT ![n][i0] = @ + 1]
          BY <3>1, <3>2, <4>2
        <4> QED
          BY <3>3, <4>1, <4>2
      <3> QED
        BY <3>2, <3>4, <3>5
    <2>5. sent' \in [Node -> SUBSET Message]
      <3>1. sent \in [Node -> SUBSET Message]
        BY TypesInUse
      <3> QED
        BY <2>3, <3>1
    <2>6. /\ m.hops = 0 => injected'[n][m.id] \in {0, 1} /\ forwarded'[n] = forwarded[n]
          /\ m.hops # 0 => forwarded'[n][m.id] \in {0, 1} /\ injected'[n] = injected[n]
      <3>1. /\ m.hops = 0 => injected[n][m.id] = 0
            /\ m.hops # 0 => forwarded[n][m.id] = 0
        BY <2>1, TypesInUse DEF ForwardInv, NodeForwardInv
      <3>2. injected \in [Node -> [Id -> Nat]] /\ forwarded \in [Node -> [Id -> Nat]]
        BY TypesInUse
      <3> QED
        BY <2>1, <2>3, <3>1, <3>2
    <2>7. ASSUME NEW k \in Node
           PROVE  NodeForwardInv(k)'
      <3>1. NodeForwardInv(k)
        BY TypesInUse DEF ForwardInv
      <3>2. CASE k # n
        BY <2>1, <2>2, <2>4, <3>1, <3>2, OthersKeepForwarding
      <3>3. CASE k = n
        <4>1. \A q \in queue'[n] : q \in queue[n] /\ q # m /\ q \in Message /\ q.id \in Id
          BY <2>2 DEF Message
        <4>2. \A q \in queue'[n] : q.id = m.id => (q.hops = 0) # (m.hops = 0)
          <5>1. ASSUME NEW q \in queue'[n], q.id = m.id, q.hops = 0, m.hops = 0
                PROVE  FALSE
            BY <4>1, <5>1 DEF Message
          <5>2. ASSUME NEW q \in queue'[n], q.id = m.id, q.hops # 0, m.hops # 0
                PROVE  FALSE
            BY <2>1, <3>1, <3>3, <4>1, <5>2 DEF NodeForwardInv
          <5> QED
            BY <5>1, <5>2
        <4>3. /\ seen'[n] = seen[n] /\ receiving'[n] = receiving[n] /\ published' = published
          BY <2>1
        <4>4. /\ \A q \in queue[n] :
                    /\ q.hops # 0 => Settled(n, q.id) /\ forwarded[n][q.id] = 0
                    /\ q.hops = 0 => n = Origin[q.id] /\ q.id \in published /\ injected[n][q.id] = 0
              /\ \A q, r \in queue[n] : q.hops # 0 /\ r.hops # 0 /\ q.id = r.id => q = r
              /\ \A j \in Id :
                    /\ forwarded[n][j] <= 1 /\ (forwarded[n][j] # 0 => Settled(n, j))
                    /\ injected[n][j] <= 1 /\ (injected[n][j] # 0 => n = Origin[j] /\ j \in published)
          BY <3>1, <3>3 DEF NodeForwardInv
        <4>5. \A j \in Id : Settled(n, j) => Settled(n, j)'
          BY <4>3 DEF Settled
        <4>6. \A q \in queue'[n] :
                    /\ q.hops # 0 => Settled(n, q.id)' /\ forwarded'[n][q.id] = 0
                    /\ q.hops = 0 => n = Origin[q.id] /\ q.id \in published' /\ injected'[n][q.id] = 0
          <5> SUFFICES ASSUME NEW q \in queue'[n]
                       PROVE  /\ q.hops # 0 => Settled(n, q.id)' /\ forwarded'[n][q.id] = 0
                              /\ q.hops = 0 => n = Origin[q.id] /\ q.id \in published' /\ injected'[n][q.id] = 0
            OBVIOUS
          <5>1. /\ q.hops # 0 => Settled(n, q.id)' /\ forwarded[n][q.id] = 0
                /\ q.hops = 0 => n = Origin[q.id] /\ q.id \in published' /\ injected[n][q.id] = 0
            BY <4>1, <4>3, <4>4, <4>5
          <5>2. CASE q.id # m.id
            BY <2>4, <4>1, <5>1, <5>2
          <5>3. CASE q.id = m.id
            BY <2>6, <4>2, <5>1, <5>3
          <5> QED
            BY <5>2, <5>3
        <4>7. \A j \in Id :
                    /\ forwarded'[n][j] <= 1 /\ (forwarded'[n][j] # 0 => Settled(n, j)')
                    /\ injected'[n][j] <= 1 /\ (injected'[n][j] # 0 => n = Origin[j] /\ j \in published')
          BY <2>1, <2>4, <2>6, <4>3, <4>4, <4>5
        <4>8. \A q, r \in queue'[n] : q.hops # 0 /\ r.hops # 0 /\ q.id = r.id => q = r
          BY <4>1, <4>4
        <4> QED
          BY <3>3, <4>6, <4>7, <4>8 DEF NodeForwardInv
      <3> QED
        BY <3>2, <3>3
    <2>8. ASSUME NEW k \in Node
          PROVE  IsFiniteSet(queue'[k]) /\ Cardinality(queue'[k]) <= Capacity
      <3>1. IsFiniteSet(queue[k]) /\ Cardinality(queue[k]) \in Nat /\ Cardinality(queue[k]) <= Capacity
        BY TypesInUse, FS_CardinalityType
      <3>2. queue'[k] \in SUBSET queue[k]
        BY <2>2, TypesInUse
      <3>3. IsFiniteSet(queue'[k]) /\ Cardinality(queue'[k]) <= Cardinality(queue[k])
        BY <3>1, <3>2, FS_Subset, Zenon
      <3>4. Cardinality(queue'[k]) \in Nat
        BY <3>3, FS_CardinalityType
      <3> QED
        BY <3>1, <3>3, <3>4
    <2>9. ReceptionInv' /\ ForwardInv'
      <3>1. ForwardInv'
        BY <2>7 DEF ForwardInv
      <3> QED
        BY <2>1, <3>1, TypesInUse DEF ReceptionInv
    <2> QED
      BY <2>1, <2>2, <2>8, <2>9, <2>4, <2>5, TypesInUse, MessagesKeepInv
  <1> QED
    BY <1>1, <1>2, <1>3

(* A message taken in is a new one.                                         *)
LEMMA TakeInKeepsInv ==
    ASSUME V2XInv, NEW n \in Node, NEW m \in Message, TakeIn(n, m)
    PROVE  V2XInv'
  <1> DEFINE new == [msg |-> m, at |-> "peer"]
  <1>1. /\ UNCHANGED <<state, threadVars, peers, subscribed, queue, sent, injected, forwarded,
                       dropped, delivered, published, expired>>
        /\ m.id \notin seen[n] /\ m.id \in Id
        /\ seen' = [seen EXCEPT ![n] = @ \union {m.id}]
        /\ receiving' = receiving \/ receiving' = [receiving EXCEPT ![n] = @ \union {new}]
    BY DEF TakeIn, Message, radioVars, worldVars
  <1>2. new \in Reception /\ new.msg = m
    BY DEF Reception
  <1> HIDE DEF new
  <1>3. /\ \A k \in Node : k # n => seen'[k] = seen[k] /\ receiving'[k] = receiving[k]
        /\ seen'[n] = seen[n] \cup {m.id} /\ receiving'[n] \subseteq receiving[n] \cup {new}
        /\ seen' \in [Node -> SUBSET Id] /\ receiving' \in [Node -> SUBSET Reception]
    <2>1. seen \in [Node -> SUBSET Id] /\ receiving \in [Node -> SUBSET Reception]
      BY TypesInUse
    <2>2. /\ seen' \in [Node -> SUBSET Id] /\ seen'[n] = seen[n] \cup {m.id}
          /\ \A k \in Node : k # n => seen'[k] = seen[k]
      BY <1>1, <2>1
    <2>3. CASE receiving' = receiving
      BY <2>1, <2>2, <2>3
    <2>4. CASE receiving' = [receiving EXCEPT ![n] = @ \union {new}]
      <3>1. /\ receiving' \in [Node -> SUBSET Reception] /\ receiving'[n] = receiving[n] \cup {new}
            /\ \A k \in Node : k # n => receiving'[k] = receiving[k]
        BY <1>2, <2>1, <2>4
      <3> QED
        BY <2>2, <3>1
    <2> QED
      BY <1>1, <2>3, <2>4
  <1>4. ReceptionInv'
    <2> SUFFICES ASSUME NEW k \in Node
                 PROVE  /\ \A r \in receiving'[k] : r.msg.id \in seen'[k] /\ delivered[k][r.msg.id] = 0
                        /\ \A r, s \in receiving'[k] : r.msg.id = s.msg.id => r = s
                        /\ \A i \in Id : delivered[k][i] <= 1 /\ (i \notin seen'[k] => delivered[k][i] = 0)
      BY <1>1, Zenon DEF ReceptionInv
    <2>1. /\ \A r \in receiving[k] : r.msg.id \in seen[k] /\ delivered[k][r.msg.id] = 0
          /\ \A r, s \in receiving[k] : r.msg.id = s.msg.id => r = s
          /\ \A i \in Id : delivered[k][i] <= 1 /\ (i \notin seen[k] => delivered[k][i] = 0)
      BY TypesInUse DEF ReceptionInv
    <2> QED
      BY <1>1, <1>2, <1>3, <2>1
  <1>5. ForwardInv'
    <2> SUFFICES ASSUME NEW k \in Node PROVE NodeForwardInv(k)'
      BY DEF ForwardInv
    <2>1. NodeForwardInv(k)
      BY TypesInUse DEF ForwardInv
    <2>2. CASE k # n
      BY <1>1, <1>3, <2>1, <2>2, OthersKeepForwarding
    <2>3. CASE k = n
      <3>1. \A i \in Id : Settled(n, i) => Settled(n, i)'
        BY <1>1, <1>2, <1>3 DEF Settled
      <3>2. \A q \in queue[n] : q.id \in Id
        BY TypesInUse DEF Message
      <3> QED
        BY <1>1, <2>1, <2>3, <3>1, <3>2 DEF NodeForwardInv
    <2> QED
      BY <2>2, <2>3
  <1> QED
    BY <1>1, <1>3, <1>4, <1>5, TypesInUse, MessagesKeepInv

(* The sender becomes a peer.                                               *)
LEMMA UpdatePeerKeepsInv ==
    ASSUME V2XInv, NEW n \in Node, NEW r \in receiving[n], UpdatePeer(n, r)
    PROVE  V2XInv'
  <1> DEFINE next == [r EXCEPT !.at = "deliver"]
  <1>1. /\ UNCHANGED <<running, control, starts, dispatchers, cleaners, queue, seen, subscribed,
                       delivered, sent, injected, forwarded, dropped, published, expired>>
        /\ peers' = [peers EXCEPT ![n] = @ \union {Origin[r.msg.id]}]
        /\ receiving' = [receiving EXCEPT ![n] = (@ \ {r}) \union {next}]
        /\ state' = IF state[n] = "READY" THEN [state EXCEPT ![n] = "CONNECTED"] ELSE state
    BY DEF UpdatePeer, threadVars, radioVars, worldVars
  <1>2. /\ r \in Reception /\ r.msg.id \in Id /\ Origin[r.msg.id] \in Node
        /\ next \in Reception /\ next.msg = r.msg
    <2>1. r \in Reception
      BY TypesInUse
    <2>2. r.msg \in Message /\ r.msg.id \in Id /\ Origin[r.msg.id] \in Node
      BY <2>1 DEF Reception, Message
    <2>3. next = [msg |-> r.msg, at |-> "deliver"]
      BY <2>1 DEF Reception
    <2> QED
      BY <2>1, <2>2, <2>3 DEF Reception
  <1> HIDE DEF next
  <1>3. state' = state \/ (state[n] = "READY" /\ state' = [state EXCEPT ![n] = "CONNECTED"])
    BY <1>1, Zenon
  <1>4. /\ state' \in [Node -> NodeState] /\ peers' \in [Node -> SUBSET Node]
        /\ \A k \in Node : /\ peers[k] \subseteq peers'[k]
                           /\ \/ state'[k] = state[k]
                              \/ k = n /\ state[k] = "READY" /\ state'[k] = "CONNECTED"
        /\ Origin[r.msg.id] \in peers'[n]
    <2>1. CASE state' = state
      BY <1>1, <1>2, <2>1, TypesInUse
    <2>2. CASE state[n] = "READY" /\ state' = [state EXCEPT ![n] = "CONNECTED"]
      BY <1>1, <1>2, <2>2, TypesInUse DEF NodeState
    <2> QED
      BY <1>3, <2>1, <2>2
  <1>5. /\ \A k \in Node : k # n => receiving'[k] = receiving[k]
        /\ receiving'[n] = (receiving[n] \ {r}) \cup {next}
        /\ receiving' \in [Node -> SUBSET Reception]
    BY <1>1, <1>2, TypesInUse
  <1>6. ThreadInv' /\ ConnectedKnowsPeers'
    <2>1. ThreadInv /\ ConnectedKnowsPeers
      BY TypesInUse
    <2>2. ThreadInv'
      BY <1>1, <1>4, <2>1 DEF ThreadInv
    <2>3. ConnectedKnowsPeers'
      BY <1>4, <2>1 DEF ConnectedKnowsPeers
    <2> QED
      BY <2>2, <2>3
  <1>7. ReceptionInv'
    <2> SUFFICES ASSUME NEW k \in Node
                 PROVE  /\ \A p \in receiving'[k] : p.msg.id \in seen[k] /\ delivered[k][p.msg.id] = 0
                        /\ \A p, s \in receiving'[k] : p.msg.id = s.msg.id => p = s
                        /\ \A i \in Id : delivered[k][i] <= 1 /\ (i \notin seen[k] => delivered[k][i] = 0)
      BY <1>1, Zenon DEF ReceptionInv
    <2>1. /\ \A p \in receiving[k] : p.msg.id \in seen[k] /\ delivered[k][p.msg.id] = 0
          /\ \A p, s \in receiving[k] : p.msg.id = s.msg.id => p = s
          /\ \A i \in Id : delivered[k][i] <= 1 /\ (i \notin seen[k] => delivered[k][i] = 0)
      BY TypesInUse DEF ReceptionInv
    <2> QED
      BY <1>2, <1>5, <2>1
  <1>8. ForwardInv'
    <2> SUFFICES ASSUME NEW k \in Node PROVE NodeForwardInv(k)'
      BY DEF ForwardInv
    <2>1. NodeForwardInv(k)
      BY TypesInUse DEF ForwardInv
    <2>2. CASE k # n
      BY <1>1, <1>5, <2>1, <2>2, OthersKeepForwarding
    <2>3. CASE k = n
      <3>1. \A i \in Id : Settled(n, i) => Settled(n, i)'
        BY <1>1, <1>2, <1>5 DEF Settled
      <3>2. \A q \in queue[n] : q.id \in Id
        BY TypesInUse DEF Message
      <3> QED
        BY <1>1, <2>1, <2>3, <3>1, <3>2 DEF NodeForwardInv
    <2> QED
      BY <2>2, <2>3
  <1>9. V2XTypeOK' /\ \A k \in Node : IsFiniteSet(queue'[k])
    BY <1>1, <1>4, <1>5, Zenon DEF V2XInv, TypeInv, V2XTypeOK, Reception
  <1> QED
    BY <1>6, <1>7, <1>8, <1>9 DEF V2XInv, TypeInv

(* A message is delivered, and sent on, as its reception ends.              *)
LEMMA FinishKeepsInv ==
    ASSUME V2XInv, NEW n \in Node, NEW r \in receiving[n], Finish(n, r)
    PROVE  V2XInv'
  <1>1. /\ UNCHANGED <<state, threadVars, peers, seen, subscribed, sent, injected, forwarded, published, expired>>
        /\ receiving' = [receiving EXCEPT ![n] = @ \ {r}]
        /\ delivered' = delivered \/ delivered' = [delivered EXCEPT ![n][r.msg.id] = @ + 1]
    BY DEF Finish, radioVars, worldVars
  <1>2. r \in Reception /\ r.msg \in Message /\ r.msg.id \in Id
    BY TypesInUse DEF Reception, Message
  <1>3. /\ \A k \in Node : k # n => receiving'[k] = receiving[k]
        /\ receiving'[n] = receiving[n] \ {r}
        /\ receiving' \in [Node -> SUBSET Reception]
    BY <1>1, TypesInUse
  <1>4. /\ delivered' \in [Node -> [Id -> Nat]]
        /\ \A k \in Node : \A i \in Id :
              \/ delivered'[k][i] = delivered[k][i]
              \/ k = n /\ i = r.msg.id /\ delivered'[k][i] = delivered[k][i] + 1
    <2>1. CASE delivered' = delivered
      BY <2>1, TypesInUse
    <2>2. CASE delivered' = [delivered EXCEPT ![n][r.msg.id] = @ + 1]
      <3>1. delivered \in [Node -> [Id -> Nat]]
        BY TypesInUse
      <3> QED
        BY <1>2, <2>2, <3>1
    <2> QED
      BY <1>1, <2>1, <2>2
  <1>5. ReceptionInv'
    <2> SUFFICES ASSUME NEW k \in Node
                 PROVE  /\ \A p \in receiving'[k] : p.msg.id \in seen[k] /\ delivered'[k][p.msg.id] = 0
                        /\ \A p, s \in receiving'[k] : p.msg.id = s.msg.id => p = s
                        /\ \A i \in Id : delivered'[k][i] <= 1 /\ (i \notin seen[k] => delivered'[k][i] = 0)
      BY <1>1, Zenon DEF ReceptionInv
    <2>1. /\ \A p \in receiving[k] : p.msg.id \in seen[k] /\ delivered[k][p.msg.id] = 0
          /\ \A p, s \in receiving[k] : p.msg.id = s.msg.id => p = s
          /\ \A i \in Id : delivered[k][i] <= 1 /\ (i \notin seen[k] => delivered[k][i] = 0)
      BY TypesInUse DEF ReceptionInv
    <2>2. \A p \in receiving[k] : p.msg.id \in Id
      BY TypesInUse DEF Reception, Message
    <2>3. /\ r.msg.id \in seen[n] /\ delivered[n][r.msg.id] = 0
          /\ \A p \in receiving[n] : p.msg.id = r.msg.id => p = r
      BY TypesInUse DEF ReceptionInv
    <2>4. receiving'[k] \subseteq receiving[k] /\ (k = n => r \notin receiving'[k])
      BY <1>3
    <2>5. \A i \in Id : delivered'[k][i] <= 1 /\ (i \notin seen[k] => delivered'[k][i] = 0)
      <3> SUFFICES ASSUME NEW i \in Id
                   PROVE  delivered'[k][i] <= 1 /\ (i \notin seen[k] => delivered'[k][i] = 0)
        OBVIOUS
      <3>1. CASE delivered'[k][i] = delivered[k][i]
        BY <2>1, <3>1
      <3>2. CASE k = n /\ i = r.msg.id /\ delivered'[k][i] = delivered[k][i] + 1
        BY <2>3, <3>2
      <3> QED
        BY <1>4, <3>1, <3>2
    <2>6. \A p \in receiving'[k] : p.msg.id \in seen[k] /\ delivered'[k][p.msg.id] = 0
      BY <1>4, <2>1, <2>2, <2>3, <2>4
    <2> QED
      BY <2>1, <2>4, <2>5, <2>6
  <1>6. /\ queue' \in [Node -> SUBSET Message] /\ dropped' \in [Node -> BOOLEAN]
        /\ \A k \in Node : IsFiniteSet(queue'[k]) /\ Cardinality(queue'[k]) <= Capacity
        /\ \A k \in Node : k # n => queue'[k] = queue[k]
        /\ \A m \in queue'[n] : m \in queue[n] \/ (m.id = r.msg.id /\ m.hops # 0)
        /\ \A m, k \in queue'[n] \ queue[n] : m = k
    <2>1. CASE UNCHANGED <<queue, dropped>>
      BY <2>1, TypesInUse
    <2>2. ASSUME NEW f \in Forwards(r.msg), Enqueue(n, f)
          PROVE  <1>6
      <3>1. f \in Message /\ f.id = r.msg.id /\ f.hops # 0
        BY <1>2, ForwardsProps
      <3>2. /\ queue' \in [Node -> SUBSET Message] /\ dropped' \in [Node -> BOOLEAN]
            /\ \A k \in Node : IsFiniteSet(queue'[k]) /\ Cardinality(queue'[k]) <= Capacity
            /\ \A k \in Node : k # n => queue'[k] = queue[k]
            /\ queue'[n] \subseteq queue[n] \cup {f}
        BY <2>2, <3>1, TypesInUse, EnqueueProps
      <3> QED
        BY <3>1, <3>2
    <2> QED
      BY <2>1, <2>2 DEF Finish
  <1>7. ForwardInv'
    <2> SUFFICES ASSUME NEW k \in Node PROVE NodeForwardInv(k)'
      BY DEF ForwardInv
    <2>1. NodeForwardInv(k)
      BY TypesInUse DEF ForwardInv
    <2>2. CASE k # n
      BY <1>1, <1>3, <1>6, <2>1, <2>2, OthersKeepForwarding
    <2>3. CASE k = n
      <3>1. /\ r.msg.id \in seen[n] /\ r \in receiving[n]
            /\ \A p \in receiving[n] : p.msg.id = r.msg.id => p = r
        BY TypesInUse DEF ReceptionInv
      <3>2. \A i \in Id : Settled(n, i) => Settled(n, i)'
        BY <1>1, <1>3 DEF Settled
      <3>3. Settled(n, r.msg.id)'
        BY <1>1, <1>3, <3>1 DEF Settled
      <3>4. /\ forwarded[n][r.msg.id] = 0
            /\ \A q \in queue[n] : q.hops # 0 => q.id # r.msg.id
        <4>1. forwarded[n][r.msg.id] \in Nat /\ ~Settled(n, r.msg.id)
          BY <1>2, <3>1, TypesInUse DEF Settled
        <4> QED
          BY <1>2, <2>1, <2>3, <4>1 DEF NodeForwardInv
      <3>5. \A q \in queue'[n] : q.id \in Id
        BY <1>6 DEF Message
      <3>6. /\ \A q \in queue[n] :
                  /\ q.hops # 0 => Settled(n, q.id) /\ forwarded[n][q.id] = 0
                  /\ q.hops = 0 => n = Origin[q.id] /\ q.id \in published /\ injected[n][q.id] = 0
            /\ \A q, p \in queue[n] : q.hops # 0 /\ p.hops # 0 /\ q.id = p.id => q = p
            /\ \A i \in Id :
                  /\ forwarded[n][i] <= 1 /\ (forwarded[n][i] # 0 => Settled(n, i))
                  /\ injected[n][i] <= 1 /\ (injected[n][i] # 0 => n = Origin[i] /\ i \in published)
        BY <2>1, <2>3 DEF NodeForwardInv
      <3>7. \A q \in queue'[n] :
                  /\ q.hops # 0 => Settled(n, q.id)' /\ forwarded'[n][q.id] = 0
                  /\ q.hops = 0 => n = Origin[q.id] /\ q.id \in published' /\ injected'[n][q.id] = 0
        <4> SUFFICES ASSUME NEW q \in queue'[n]
                     PROVE  /\ q.hops # 0 => Settled(n, q.id)' /\ forwarded'[n][q.id] = 0
                            /\ q.hops = 0 => n = Origin[q.id] /\ q.id \in published' /\ injected'[n][q.id] = 0
          OBVIOUS
        <4>1. CASE q \in queue[n]
          BY <1>1, <3>2, <3>5, <3>6, <4>1
        <4>2. CASE q.id = r.msg.id /\ q.hops # 0
          BY <1>1, <3>3, <3>4, <4>2
        <4> QED
          BY <1>6, <4>1, <4>2
      <3>8. \A q, p \in queue'[n] : q.hops # 0 /\ p.hops # 0 /\ q.id = p.id => q = p
        BY <1>6, <3>4, <3>6
      <3>9. \A i \in Id :
                  /\ forwarded'[n][i] <= 1 /\ (forwarded'[n][i] # 0 => Settled(n, i)')
                  /\ injected'[n][i] <= 1 /\ (injected'[n][i] # 0 => n = Origin[i] /\ i \in published')
        BY <1>1, <3>2, <3>6
      <3> QED
        BY <2>3, <3>7, <3>8, <3>9 DEF NodeForwardInv
    <2> QED
      BY <2>2, <2>3
  <1> QED
    BY <1>1, <1>3, <1>4, <1>5, <1>6, <1>7, TypesInUse, MessagesKeepInv
--------------------------------------------------------------------------------
LEMMA StepInv == V2XInv /\ [Next]_vars => V2XInv'
  <1> SUFFICES ASSUME V2XInv, [Next]_vars PROVE V2XInv'
    OBVIOUS
  <1>1. ASSUME NEW n \in Node,
               \/ Start(n) \/ Spawn(n) \/ Stop(n) \/ Clear(n) \/ Subscribe(n) \/ Unsubscribe(n)
               \/ DispatchEnds(n) \/ CleanupEnds(n)
               \/ \E stale \in SUBSET peers[n] : stale # {} /\ Cleanup(n, stale)
        PROVE  V2XInv'
    BY <1>1, ControlKeepsInv
  <1>2. ASSUME NEW n \in Node, NEW m \in Message, TakeIn(n, m)
        PROVE  V2XInv'
    BY <1>2, TakeInKeepsInv
  <1>3. ASSUME NEW n \in Node, NEW m \in Message, Dispatch(n, m)
        PROVE  V2XInv'
    <2>1. m.id \in Id
      BY DEF Message
    <2> QED
      BY <1>3, <2>1, SendingKeepsInv
  <1>4. ASSUME NEW n \in Node, NEW r \in receiving[n], UpdatePeer(n, r) \/ Finish(n, r)
        PROVE  V2XInv'
    BY <1>4, UpdatePeerKeepsInv, FinishKeepsInv
  <1>5. ASSUME NEW i \in Id, Publish(i) \/ Expire(i)
        PROVE  V2XInv'
    <2>1. Origin[i] \in Node /\ [id |-> i, hops |-> 0] \in Message
      BY DEF Message
    <2> QED
      BY <1>5, <2>1, SendingKeepsInv
  <1>6. CASE UNCHANGED vars
    <2>1. TypeInv'
      BY <1>6, Zenon DEF vars, threadVars, inVars, radioVars, worldVars, V2XInv, TypeInv, V2XTypeOK
    <2>2. ThreadInv' /\ ConnectedKnowsPeers'
      BY <1>6 DEF vars, threadVars, V2XInv, ThreadInv, ConnectedKnowsPeers
    <2>3. ReceptionInv' /\ ForwardInv'
      BY <1>6 DEF vars, inVars, radioVars, worldVars, V2XInv, ReceptionInv, ForwardInv, NodeForwardInv, Settled
    <2> QED
      BY <2>1, <2>2, <2>3 DEF V2XInv
  <1> QED
    BY <1>1, <1>2, <1>3, <1>4, <1>5, <1>6 DEF Next

(* In every run the threads, peers, receptions and transmissions agree.      *)
THEOREM V2XInvariant == Spec => []V2XInv
  BY InitInv, StepInv, PTL DEF Spec

(* The types, and that restarts never multiply the dispatch thread: a node  *)
(* that is off is silent.                                                   *)
THEOREM NodesDispatchOnce == Spec => []V2XTypeOK /\ []OneDispatcher
  <1>1. V2XInv => V2XTypeOK /\ OneDispatcher
    BY DEF V2XInv, TypeInv, ThreadInv, OneDispatcher
  <1> QED
    BY <1>1, V2XInvariant, PTL

(* In any network the callbacks see a message at most once.                 *)
THEOREM MessagesArriveOnce == Spec => []DeliveredOnce
  <1>1. V2XInv => DeliveredOnce
    BY DEF V2XInv, ReceptionInv, DeliveredOnce
  <1> QED
    BY <1>1, V2XInvariant, PTL

(* In any network, of any diameter, a node transmits at most one copy that  *)
(* has hopped of any message, and at most one of its own message.           *)
THEOREM FloodsDieOut == Spec => []ForwardedOnce
  <1>1. ASSUME V2XInv, NEW n \in Node, NEW i \in Id
        PROVE  forwarded[n][i] <= 1 /\ injected[n][i] <= IF n = Origin[i] THEN 1 ELSE 0
    <2>1. injected[n][i] \in Nat
      BY <1>1, TypesInUse
    <2>2. /\ forwarded[n][i] <= 1 /\ injected[n][i] <= 1
          /\ injected[n][i] # 0 => n = Origin[i]
      BY <1>1 DEF V2XInv, ForwardInv, NodeForwardInv
    <2> QED
      BY <2>1, <2>2
  <1>2. V2XInv => ForwardedOnce
    BY <1>1 DEF ForwardedOnce
  <1> QED
    BY <1>2, V2XInvariant, PTL

(* A node that calls itself connected has peers.                            *)
THEOREM ConnectedNodesHavePeers == Spec => []ConnectedKnowsPeers
  BY V2XInvariant, PTL DEF V2XInv
================================================================================
