---------------------------------- MODULE V2XNode ----------------------------------
(***************************************************************************)
(* src/control/v2x_node.py: V2XNode instances, each with a controlling      *)
(* thread (start, stop), a dispatch thread, peer clean-up threads, and any  *)
(* number of threads inside receive().  The radio that _transmit() stands   *)
(* for is external: a neighbour may take in a frame that was sent at any    *)
(* time after, any number of times, or never.  A message is its identity    *)
(* and its hop count; priority and time stamp belong to the identity, and   *)
(* the time to live of an identity may run out at any moment.               *)
(***************************************************************************)
EXTENDS Naturals, FiniteSets

CONSTANTS Node, Id,
          Origin,           (* Origin[i]: the node that publishes i          *)
          Broadcast,        (* the identities without a destination          *)
          Urgency,          (* Urgency[i]: priority and age; smaller is first*)
          Link,             (* Link[n]: the nodes in radio range of n        *)
          MaxHops,          (* max_hops of every message                     *)
          Capacity,         (* max_queue_size                                *)
          MaxStarts,        (* bound: MaxStarts[n] calls of start() for n    *)
          Up,               (* the nodes that start() has brought up before  *)
          Perishable,       (* bound: the identities whose time may run out  *)
          Listener          (* the nodes whose application registers a callback *)

ASSUME V2XAssumption ==
    /\ Origin \in [Id -> Node] /\ Broadcast \subseteq Id
    /\ Urgency \in [Id -> Nat] /\ Link \in [Node -> SUBSET Node]
    /\ MaxHops \in Nat /\ Capacity \in Nat \ {0}
    /\ MaxStarts \in [Node -> Nat \ {0}] /\ Listener \subseteq Node /\ Perishable \subseteq Id /\ Up \subseteq Node

VARIABLES
    state, running,     (* _state and the _running event                    *)
    control,            (* where the controlling thread is                  *)
    starts,             (* calls of start() so far                          *)
    dispatchers,        (* dispatch threads alive                           *)
    cleaners,           (* clean-up threads alive                           *)
    queue,              (* _outbound_queue                                  *)
    seen,               (* _seen_msg_ids                                    *)
    peers,              (* keys of _peers                                   *)
    subscribed,         (* a callback is registered                         *)
    receiving,          (* messages inside receive(), with the next step    *)
    delivered,          (* history: deliveries of an identity to callbacks  *)
    sent,               (* messages given to the radio                      *)
    injected, forwarded,(* history: transmissions of an identity by a node, *)
                        (* of the copy it made and of copies that hopped    *)
    dropped,            (* _stats["dropped"] > 0                            *)
    published, expired  (* identities made so far; those out of time        *)

threadVars == <<running, control, starts, dispatchers, cleaners>>
inVars == <<seen, subscribed, receiving, delivered>>
radioVars == <<sent, injected, forwarded>>
worldVars == <<published, expired>>
vars == <<state, threadVars, queue, peers, inVars, radioVars, dropped, worldVars>>

NodeState == {"INITIALIZING", "READY", "CONNECTED", "OFFLINE"}
Message == [id : Id, hops : 0 .. MaxHops]

V2XTypeOK ==
    /\ state \in [Node -> NodeState] /\ running \in [Node -> BOOLEAN]
    /\ control \in [Node -> {"idle", "starting", "stopping"}]
    /\ starts \in [Node -> Nat] /\ \A n \in Node : starts[n] <= MaxStarts[n]
    /\ dispatchers \in [Node -> Nat] /\ cleaners \in [Node -> Nat]
    /\ queue \in [Node -> SUBSET Message] /\ sent \in [Node -> SUBSET Message]
    /\ \A n \in Node : Cardinality(queue[n]) <= Capacity
    /\ seen \in [Node -> SUBSET Id] /\ peers \in [Node -> SUBSET Node]
    /\ subscribed \in [Node -> BOOLEAN] /\ dropped \in [Node -> BOOLEAN]
    /\ receiving \in [Node -> SUBSET [msg : Message, at : {"peer", "deliver"}]]
    /\ {delivered, injected, forwarded} \subseteq [Node -> [Id -> Nat]]
    /\ published \subseteq Id /\ expired \subseteq Id

Init ==
    /\ state = [n \in Node |-> IF n \in Up THEN "READY" ELSE "INITIALIZING"]
    /\ running = [n \in Node |-> n \in Up] /\ control = [n \in Node |-> "idle"]
    /\ starts = [n \in Node |-> IF n \in Up THEN 1 ELSE 0]
    /\ dispatchers = starts /\ cleaners = starts
    /\ queue = [n \in Node |-> {}] /\ sent = [n \in Node |-> {}]
    /\ seen = [n \in Node |-> {}] /\ peers = [n \in Node |-> {}]
    /\ subscribed = [n \in Node |-> FALSE] /\ dropped = [n \in Node |-> FALSE]
    /\ receiving = [n \in Node |-> {}]
    /\ delivered = [n \in Node |-> [i \in Id |-> 0]]
    /\ injected = delivered /\ forwarded = delivered
    /\ published = {} /\ expired = {}
--------------------------------------------------------------------------------
(* The controlling thread.  start(): state and flag under the lock, then the *)
(* two threads.                                                              *)
Start(n) ==
    /\ control[n] = "idle" /\ starts[n] < MaxStarts[n]
    /\ state[n] \notin {"READY", "CONNECTED"}
    /\ state' = [state EXCEPT ![n] = "READY"]
    /\ running' = [running EXCEPT ![n] = TRUE]
    /\ starts' = [starts EXCEPT ![n] = @ + 1]
    /\ control' = [control EXCEPT ![n] = "starting"]
    /\ UNCHANGED <<dispatchers, cleaners, queue, peers, inVars, radioVars, dropped, worldVars>>

Spawn(n) ==
    /\ control[n] = "starting"
    /\ dispatchers' = [dispatchers EXCEPT ![n] = @ + 1]
    /\ cleaners' = [cleaners EXCEPT ![n] = @ + 1]
    /\ control' = [control EXCEPT ![n] = "idle"]
    /\ UNCHANGED <<state, running, starts, queue, peers, inVars, radioVars, dropped, worldVars>>

(* stop(): the flag, two joins, then state and tables under the lock.  Only *)
(* stops that a start() may follow are explored.                            *)
Stop(n) ==
    /\ control[n] = "idle" /\ starts[n] \in 1 .. MaxStarts[n] - 1
    /\ running' = [running EXCEPT ![n] = FALSE]
    /\ control' = [control EXCEPT ![n] = "stopping"]
    /\ UNCHANGED <<state, starts, dispatchers, cleaners, queue, peers, inVars, radioVars, dropped, worldVars>>

(* The dispatch thread looks at the flag every 10 ms, so its join of 5 s     *)
(* ends with the thread; the clean-up thread may sleep for 15 s and may well *)
(* outlive its join of 5 s.                                                  *)
Clear(n) ==
    /\ control[n] = "stopping" /\ dispatchers[n] = 0
    /\ state' = [state EXCEPT ![n] = "OFFLINE"]
    /\ subscribed' = [subscribed EXCEPT ![n] = FALSE]
    /\ peers' = [peers EXCEPT ![n] = {}]
    /\ control' = [control EXCEPT ![n] = "idle"]
    /\ UNCHANGED <<running, starts, dispatchers, cleaners, queue, seen, receiving, delivered, radioVars, dropped, worldVars>>

Subscribe(n) ==
    /\ n \in Listener /\ ~subscribed[n]
    /\ subscribed' = [subscribed EXCEPT ![n] = TRUE]
    /\ UNCHANGED <<state, threadVars, queue, peers, seen, receiving, delivered, radioVars, dropped, worldVars>>

Unsubscribe(n) ==
    /\ subscribed[n]
    /\ subscribed' = [subscribed EXCEPT ![n] = FALSE]
    /\ UNCHANGED <<state, threadVars, queue, peers, seen, receiving, delivered, radioVars, dropped, worldVars>>
--------------------------------------------------------------------------------
(* publish(): refused by a node that is off and for a message out of time, *)
(* dropped by a full queue.                                                *)
Enqueue(n, m) ==
    LET taken == state[n] # "OFFLINE" /\ m.id \notin expired
        full == Cardinality(queue[n]) >= Capacity
    IN  /\ queue' = IF taken /\ ~full THEN [queue EXCEPT ![n] = @ \union {m}] ELSE queue
        /\ dropped' = IF taken /\ full THEN [dropped EXCEPT ![n] = TRUE] ELSE dropped

(* The application of the origin makes a message and publishes it. *)
Publish(i) ==
    /\ i \notin published
    /\ published' = published \union {i}
    /\ Enqueue(Origin[i], [id |-> i, hops |-> 0])
    /\ UNCHANGED <<state, threadVars, peers, inVars, radioVars, expired>>

InRange(n) == UNION {sent[k] : k \in {j \in Node : n \in Link[j]}}

(* Mutants of TakeIn: a copy that has hopped is not looked up; a node does  *)
(* not look its own messages up.                                            *)
TakeInHopped(n, m) ==
    /\ m \in InRange(n) /\ (m.id \notin seen[n] \/ m.hops > 0)
    /\ seen' = [seen EXCEPT ![n] = @ \union {m.id}]
    /\ receiving' = IF m.id \in expired THEN receiving
                    ELSE [receiving EXCEPT ![n] = @ \union {[msg |-> m, at |-> "peer"]}]
    /\ UNCHANGED <<state, threadVars, queue, peers, subscribed, delivered, radioVars, dropped, worldVars>>

TakeInOwn(n, m) ==
    /\ m \in InRange(n) /\ (m.id \notin seen[n] \/ n = Origin[m.id])
    /\ seen' = [seen EXCEPT ![n] = @ \union {m.id}]
    /\ receiving' = IF m.id \in expired THEN receiving
                    ELSE [receiving EXCEPT ![n] = @ \union {[msg |-> m, at |-> "peer"]}]
    /\ UNCHANGED <<state, threadVars, queue, peers, subscribed, delivered, radioVars, dropped, worldVars>>

(* receive(), first part: an identity seen before is ignored, a new one is *)
(* remembered, in one critical section; then the time to live is checked.  *)
TakeIn(n, m) ==
    /\ m \in InRange(n) /\ m.id \notin seen[n]
    /\ seen' = [seen EXCEPT ![n] = @ \union {m.id}]
    /\ receiving' = IF m.id \in expired THEN receiving
                    ELSE [receiving EXCEPT ![n] = @ \union {[msg |-> m, at |-> "peer"]}]
    /\ UNCHANGED <<state, threadVars, queue, peers, subscribed, delivered, radioVars, dropped, worldVars>>

(* _update_peer(): the sender of the message, and the state. *)
UpdatePeer(n, r) ==
    /\ r \in receiving[n] /\ r.at = "peer"
    /\ peers' = [peers EXCEPT ![n] = @ \union {Origin[r.msg.id]}]
    /\ state' = IF state[n] = "READY" THEN [state EXCEPT ![n] = "CONNECTED"] ELSE state
    /\ receiving' = [receiving EXCEPT ![n] = (@ \ {r}) \union {[r EXCEPT !.at = "deliver"]}]
    /\ UNCHANGED <<threadVars, queue, seen, subscribed, delivered, radioVars, dropped, worldVars>>

(* Mutant of Forwards: the test for a broadcast is turned round. *)
ForwardsDirected(m) == IF m.id \notin Broadcast /\ m.hops < MaxHops THEN {[m EXCEPT !.hops = @ + 1]} ELSE {}

(* What receive() sends on: a broadcast that may still hop. *)
Forwards(m) == IF m.id \in Broadcast /\ m.hops < MaxHops THEN {[m EXCEPT !.hops = @ + 1]} ELSE {}

(* The rest of receive(): _deliver_to_subscribers() hands the message to     *)
(* whatever is registered at this moment, and it is forwarded.               *)
Finish(n, r) ==
    /\ r \in receiving[n] /\ r.at = "deliver"
    /\ delivered' = IF subscribed[n] THEN [delivered EXCEPT ![n][r.msg.id] = @ + 1] ELSE delivered
    /\ receiving' = [receiving EXCEPT ![n] = @ \ {r}]
    /\ IF Forwards(r.msg) = {} THEN UNCHANGED <<queue, dropped>>
       ELSE \E m \in Forwards(r.msg) : Enqueue(n, m)
    /\ UNCHANGED <<state, threadVars, peers, seen, subscribed, radioVars, worldVars>>
--------------------------------------------------------------------------------
(* _transmit() *)
Transmit(n, m) ==
    /\ sent' = [sent EXCEPT ![n] = @ \union {m}]
    /\ injected' = IF m.hops = 0 THEN [injected EXCEPT ![n][m.id] = @ + 1] ELSE injected
    /\ forwarded' = IF m.hops = 0 THEN forwarded ELSE [forwarded EXCEPT ![n][m.id] = @ + 1]

(* One round of _dispatch_loop(): the most urgent message is taken out and *)
(* sent unless its time is over.                                           *)
Dispatch(n, m) ==
    /\ dispatchers[n] > 0 /\ m \in queue[n]
    /\ \A q \in queue[n] : Urgency[m.id] <= Urgency[q.id]
    /\ queue' = [queue EXCEPT ![n] = @ \ {m}]
    /\ \/ m.id \in expired /\ UNCHANGED radioVars
       \/ m.id \notin expired /\ Transmit(n, m)
    /\ UNCHANGED <<state, threadVars, peers, inVars, dropped, worldVars>>

DispatchEnds(n) ==
    /\ dispatchers[n] > 0 /\ ~running[n]
    /\ dispatchers' = [dispatchers EXCEPT ![n] = @ - 1]
    /\ UNCHANGED <<state, running, control, starts, cleaners, queue, peers, inVars, radioVars, dropped, worldVars>>

(* Mutant of Cleanup: the state is left alone. *)
CleanupKeepsState(n, stale) ==
    /\ cleaners[n] > 0
    /\ peers' = [peers EXCEPT ![n] = @ \ stale]
    /\ UNCHANGED <<state, threadVars, queue, inVars, radioVars, dropped, worldVars>>

(* _cleanup_stale_peers(): any of the peers may have been silent too long. *)
Cleanup(n, stale) ==
    /\ cleaners[n] > 0
    /\ peers' = [peers EXCEPT ![n] = @ \ stale]
    /\ state' = IF peers'[n] = {} /\ state[n] = "CONNECTED" THEN [state EXCEPT ![n] = "READY"] ELSE state
    /\ UNCHANGED <<threadVars, queue, inVars, radioVars, dropped, worldVars>>

CleanupEnds(n) ==
    /\ cleaners[n] > 0 /\ ~running[n]
    /\ cleaners' = [cleaners EXCEPT ![n] = @ - 1]
    /\ UNCHANGED <<state, running, control, starts, dispatchers, queue, peers, inVars, radioVars, dropped, worldVars>>

(* The time to live of a message runs out. *)
Expire(i) ==
    /\ i \in (published \intersect Perishable) \ expired
    /\ expired' = expired \union {i}
    /\ UNCHANGED <<state, threadVars, queue, peers, inVars, radioVars, dropped, published>>

Next ==
    \/ \E n \in Node :
        \/ Start(n) \/ Spawn(n) \/ Stop(n) \/ Clear(n)
        \/ Subscribe(n) \/ Unsubscribe(n)
        \/ \E m \in Message : TakeIn(n, m) \/ Dispatch(n, m)
        \/ \E r \in receiving[n] : UpdatePeer(n, r) \/ Finish(n, r)
        \/ DispatchEnds(n) \/ CleanupEnds(n)
        \/ \E stale \in SUBSET peers[n] : stale # {} /\ Cleanup(n, stale)
    \/ \E i \in Id : Publish(i) \/ Expire(i)

Spec == Init /\ [][Next]_vars

(* Threads keep running, and the radio brings a frame to a neighbour at last. *)
FairSpec ==
    /\ Spec
    /\ \A n \in Node :
        /\ WF_vars(Spawn(n)) /\ WF_vars(\E m \in Message : TakeIn(n, m))
        /\ WF_vars(\E r \in receiving[n] : UpdatePeer(n, r) \/ Finish(n, r))
        /\ WF_vars(\E m \in Message : Dispatch(n, m))
--------------------------------------------------------------------------------
(* However often the radio repeats a frame and however many copies come in *)
(* over different ways and on different threads, the callbacks of a node   *)
(* see a message at most once (receive()).                                 *)
DeliveredOnce == \A n \in Node, i \in Id : delivered[n][i] <= 1

(* A flood dies out: whatever the radio repeats and echoes, a node puts an  *)
(* identity on the air at most once for others, and its own at most once    *)
(* besides.  (The echo of an own message is sent on: receive() and          *)
(* clone_for_rebroadcast() do not look at the source.)                      *)
ForwardedOnce ==
    \A n \in Node, i \in Id :
        /\ forwarded[n][i] <= 1
        /\ injected[n][i] <= IF n = Origin[i] THEN 1 ELSE 0

(* A node that calls itself connected knows somebody, whatever the clean-up *)
(* thread, stop() and the receiving threads do (_update_peer(),             *)
(* _cleanup_stale_peers(), stop()).                                         *)
ConnectedKnowsPeers == \A n \in Node : state[n] = "CONNECTED" => peers[n] # {}

(* Restarts do not multiply the dispatch thread, and a node that is off has *)
(* none, so that it is silent (start(), stop()).                            *)
OneDispatcher ==
    \A n \in Node : dispatchers[n] <= 1 /\ (state[n] = "OFFLINE" => dispatchers[n] = 0)

(* A broadcast reaches every node of the network over the nodes in between, *)
(* unless its time runs out, a full queue drops something, or a node is or  *)
(* was off (receive(), _dispatch_loop()).                                   *)
Lost(i) == i \in expired \/ \E n \in Node : dropped[n] \/ ~running[n] \/ starts[n] > 1
EveryoneHears ==
    \A i \in Broadcast : i \in published ~> (Lost(i) \/ \A n \in Node \ {Origin[i]} : i \in seen[n])
================================================================================
