---------------------------- MODULE RaspberryPi_proofs ----------------------------
(***************************************************************************)
(* Proofs about the two programs of hardware/raspberry_pi: RpiVehicle, for  *)
(* every set of subscriptions, period of the fallback stop, size of the     *)
(* buffer and number of iterations; and ControlNode with NavigationNode,    *)
(* for every length of paths, depth of the queue and time the watchdog      *)
(* allows.                                                                  *)
(***************************************************************************)
EXTENDS RpiVehicle, ControlNode, FiniteSetTheorems, TLAPS

(***************************************************************************)
(* RpiVehicle.  First the subscriptions of MqttClient.                     *)
(***************************************************************************)

(* What the broker holds, what is to be sent again and what is on its way  *)
(* are together the registry, at each stage of the connection: the event   *)
(* is set before the snapshot is taken, so that a topic registered after   *)
(* the snapshot finds the client connected when it is sent.                *)
MqttInv ==
    /\ MqttTypeOK
    /\ granted \union todo \union app \subseteq registered
    /\ link \in {"none", "open"} => ~connected /\ net \in {"idle", "ended"}
    /\ net = "connack" => ~connected
    /\ net \in {"snapshot", "resubscribe"} => connected
    /\ link = "accepted" /\ connected /\ net = "idle" => registered \subseteq granted \union app
    /\ link = "accepted" /\ net = "resubscribe" =>
          registered \subseteq granted \union todo \union app
    /\ net = "ended" => link = "lost"

LEMMA MqttInvInit == MqttInit => MqttInv
  <1> SUFFICES ASSUME MqttInit PROVE MqttInv
    OBVIOUS
  <1>1. /\ {looping, connected} \subseteq BOOLEAN
        /\ ~connected /\ net = "idle" /\ link = "none"
    BY DEF MqttInit
  <1>2. /\ granted = {} /\ todo = {} /\ app = {} /\ registered = {} /\ unanswered = {}
        /\ Cardinality({}) = 0
    BY FS_EmptySet DEF MqttInit
  <1> QED
    BY <1>1, <1>2 DEF MqttInv, MqttTypeOK

(* The calls of the application keep it ...                                *)
LEMMA CallsKeepMqttInv ==
    ASSUME MqttInv, Connect \/ SendSubscribe \/ Disconnect \/ \E f \in Filters : Register(f)
    PROVE  MqttInv'
  <1> USE DEF MqttInv, MqttTypeOK, linkVars
  <1>1. CASE Connect
    BY <1>1 DEF Connect
  <1>2. CASE SendSubscribe
    BY <1>2, FS_EmptySet DEF SendSubscribe
  <1>3. CASE Disconnect
    <2>1. {looping', connected'} \subseteq BOOLEAN
      BY <1>3 DEF Disconnect
    <2>2. \/ link' = link /\ connected' = connected /\ granted' = granted /\ net' = net
          \/ link' = "lost" /\ ~connected' /\ net' = "ended" /\ granted' = {}
      BY <1>3 DEF Disconnect
    <2>3. UNCHANGED <<registered, todo, app, unanswered>>
      BY <1>3 DEF Disconnect
    <2> QED
      BY <2>1, <2>2, <2>3
  <1>4. ASSUME NEW f \in Filters, Register(f) PROVE MqttInv'
    <2>1. Cardinality({f}) <= 1
      BY FS_Singleton
    <2> QED
      BY <1>4, <2>1 DEF Register
  <1> QED
    BY <1>1, <1>2, <1>3, <1>4

(* ... and so do the connection and the thread of the network.             *)
LEMMA NetworkKeepsMqttInv ==
    ASSUME MqttInv, Network \/ Link
    PROVE  MqttInv'
  <1> USE DEF MqttInv, MqttTypeOK, linkVars
  <1>1. CASE LinkUp
    BY <1>1 DEF LinkUp
  <1>2. CASE LinkDown
    BY <1>2 DEF LinkDown
  <1>3. CASE OnConnect
    BY <1>3 DEF OnConnect
  <1>4. CASE Resubscribe
    BY <1>4 DEF Resubscribe
  <1>5. CASE OnDisconnect \/ OnMessage
    BY <1>5 DEF OnDisconnect, OnMessage
  <1> QED
    BY <1>1, <1>2, <1>3, <1>4, <1>5 DEF Network, Link
--------------------------------------------------------------------------------
(***************************************************************************)
(* The vehicle: the main loop and its shutdown beside the PID thread.      *)
(***************************************************************************)
Starting == main \in {"connect", "subscribe"}
InTick   == main \in {"sense", "drive", "steer", "publish"}

(* A series of failures without a stop has not met a multiple of           *)
(* FailPeriod: it is shorter than the loops since the last one.            *)
Counters ==
    /\ Starting => failures = 0 /\ loops = 0 /\ ~estop
    /\ failures <= loops
    /\ InTick => failures < loops
    /\ main = "centre" => estop
    /\ main = "check" /\ ~estop => failures <= loops % FailPeriod
    /\ InTick /\ ~estop => failures <= (loops - 1) % FailPeriod

(* An engaged stop holds at every stage of the loop.                       *)
StopKept == estop /\ main \in LoopStages => target = 0 /\ (~closed => duty = 0)

(* A thread that was joined, or never started, does not write.             *)
PidEnds == ~closed \/ joined => pid = "dead"

(* Once the shutdown has braked, only the PID thread can undo it.          *)
Braked ==
    \/ main \in {"straighten", "flush", "disconnect"}
    \/ main = "done" /\ aborted \notin {"stop", "brake"}
    => target = 0 /\ (joined => duty = 0)

(* The iteration of the last payload.                                      *)
Last == IF InTick THEN loops - 1 ELSE loops

(* The payloads of q are in order, after sent and up to last.              *)
Waiting(q, sent, last) ==
    \A i \in DOMAIN q :
        sent < q[i] /\ q[i] <= last /\ \A j \in 1 .. i - 1 : q[j] < q[i]

QueueInv == published <= Last /\ Waiting(buffer, published, Last)

CarInv == Counters /\ StopKept /\ PidEnds /\ Braked /\ QueueInv
VehicleInv == MqttInv /\ RpiTypeOK /\ CarInv

(* Counting on from a number that is no multiple of a period counts on     *)
(* its remainder.                                                          *)
LEMMA RemainderCounts ==
    ASSUME NEW n \in Nat \ {0}, NEW p \in Nat \ {0}
    PROVE  /\ (n - 1) % p \in Nat /\ (n - 1) % p < p /\ n % p \in Nat /\ n % p < p
           /\ n % p # 0 => n % p = ((n - 1) % p) + 1
  <1> DEFINE q == (n - 1) \div p
             r == (n - 1) % p
             s == n \div p
             t == n % p
  <1>1. /\ q \in Int /\ r \in Nat /\ r < p /\ n - 1 = p * q + r
    OBVIOUS
  <1>2. /\ s \in Int /\ t \in Nat /\ t < p /\ n = p * s + t
    OBVIOUS
  <1>3. ASSUME t # 0 PROVE t = r + 1
    <2> HIDE DEF q, r, s, t
    <2>1. p * q + r = p * s + (t - 1) /\ t - 1 \in Nat /\ t - 1 < p
      BY <1>1, <1>2, <1>3
    <2>2. CASE q = s
      BY <1>1, <1>2, <2>1, <2>2
    <2>3. CASE q <= s - 1
      <3>1. p * q <= p * (s - 1)
        BY <1>1, <1>2, <2>3
      <3>2. p * (s - 1) = p * s - p
        BY <1>2
      <3> QED
        BY <1>1, <1>2, <2>1, <3>1, <3>2
    <2>4. CASE s <= q - 1
      <3>1. p * s <= p * (q - 1)
        BY <1>1, <1>2, <2>4
      <3>2. p * (q - 1) = p * q - p
        BY <1>1
      <3> QED
        BY <1>1, <1>2, <2>1, <3>1, <3>2
    <2> QED
      BY <1>1, <1>2, <2>2, <2>3, <2>4
  <1> QED
    BY <1>1, <1>2, <1>3

(* Behind the oldest payload the others wait as before, and after it.      *)
LEMMA TailWaits ==
    ASSUME NEW q \in Seq(1 .. MaxLoops), q # << >>, NEW sent \in Nat, NEW last \in Nat,
           Waiting(q, sent, last)
    PROVE  /\ Tail(q) \in Seq(1 .. MaxLoops) /\ Len(Tail(q)) = Len(q) - 1
           /\ Head(q) \in 1 .. MaxLoops /\ Head(q) <= last
           /\ Waiting(Tail(q), sent, last) /\ Waiting(Tail(q), Head(q), last)
  <1> USE RpiAssumption
  <1>1. /\ Tail(q) \in Seq(1 .. MaxLoops) /\ Len(Tail(q)) = Len(q) - 1
        /\ Head(q) = q[1] /\ 1 \in DOMAIN q /\ Len(q) \in Nat
        /\ DOMAIN Tail(q) = 1 .. Len(q) - 1 /\ DOMAIN q = 1 .. Len(q)
        /\ \A i \in 1 .. Len(q) - 1 : Tail(q)[i] = q[i + 1]
    OBVIOUS
  <1>2. ASSUME NEW i \in DOMAIN Tail(q)
        PROVE  /\ sent < Tail(q)[i] /\ q[1] < Tail(q)[i] /\ Tail(q)[i] <= last
               /\ \A j \in 1 .. i - 1 : Tail(q)[j] < Tail(q)[i]
    <2>1. i + 1 \in DOMAIN q /\ 1 \in 1 .. (i + 1) - 1 /\ Tail(q)[i] = q[i + 1]
      BY <1>1
    <2>2. ASSUME NEW j \in 1 .. i - 1 PROVE j + 1 \in 1 .. (i + 1) - 1 /\ Tail(q)[j] = q[j + 1]
      BY <1>1
    <2> QED
      BY <2>1, <2>2 DEF Waiting
  <1>3. q[1] \in 1 .. MaxLoops /\ q[1] <= last
    <2>1. \A i \in DOMAIN q : q[i] <= last
      BY DEF Waiting
    <2>2. q[1] \in 1 .. MaxLoops
      BY <1>1
    <2> QED
      BY <1>1, <2>1, <2>2, Zenon
  <1>4. Waiting(Tail(q), sent, last) /\ Waiting(Tail(q), q[1], last)
    BY <1>2 DEF Waiting
  <1> QED
    BY <1>1, <1>3, <1>4

(* A new payload goes behind the others and may push the oldest out.       *)
LEMMA PushProps ==
    ASSUME NEW q \in Seq(1 .. MaxLoops), Len(q) <= BufferSize, NEW sent \in Nat,
           NEW n \in 1 .. MaxLoops, sent <= n - 1, Waiting(q, sent, n - 1)
    PROVE  /\ Push(q, n) \in Seq(1 .. MaxLoops) /\ Len(Push(q, n)) <= BufferSize
           /\ Waiting(Push(q, n), sent, n)
  <1> USE RpiAssumption
  <1>1. ASSUME NEW p \in Seq(1 .. MaxLoops), Waiting(p, sent, n - 1)
        PROVE  /\ Append(p, n) \in Seq(1 .. MaxLoops) /\ Len(Append(p, n)) = Len(p) + 1
               /\ Waiting(Append(p, n), sent, n)
    BY <1>1 DEF Waiting
  <1>2. CASE Len(q) = BufferSize
    <2>1. q # << >>
      BY <1>2
    <2>2. /\ Tail(q) \in Seq(1 .. MaxLoops) /\ Len(Tail(q)) = Len(q) - 1
          /\ Waiting(Tail(q), sent, n - 1)
      BY <2>1, TailWaits
    <2>3. Push(q, n) = Append(Tail(q), n)
      BY <1>2 DEF Push
    <2>4. /\ Append(Tail(q), n) \in Seq(1 .. MaxLoops)
          /\ Len(Append(Tail(q), n)) = Len(Tail(q)) + 1
          /\ Waiting(Append(Tail(q), n), sent, n)
      BY <1>1, <2>2
    <2> QED
      BY <1>2, <2>2, <2>3, <2>4
  <1>3. CASE Len(q) # BufferSize
    <2>1. Push(q, n) = Append(q, n) /\ Len(q) + 1 <= BufferSize
      BY <1>3 DEF Push
    <2> QED
      BY <1>1, <2>1
  <1> QED
    BY <1>2, <1>3

(* What leaves the buffer is its oldest payload.                           *)
LEMMA FlushProps ==
    ASSUME NEW q \in Seq(1 .. MaxLoops), Len(q) <= BufferSize, NEW last \in Nat,
           published \in 0 .. MaxLoops, published <= last, Waiting(q, published, last),
           FlushOne(q)
    PROVE  /\ buffer' \in Seq(1 .. MaxLoops) /\ Len(buffer') <= BufferSize
           /\ published' \in 0 .. MaxLoops /\ published' <= last
           /\ Waiting(buffer', published', last)
  <1> USE RpiAssumption
  <1>1. CASE buffer' = q /\ UNCHANGED published
    BY <1>1
  <1>2. CASE q # << >> /\ buffer' = Tail(q) /\ published' = Head(q)
    <2>1. /\ Tail(q) \in Seq(1 .. MaxLoops) /\ Len(Tail(q)) = Len(q) - 1
          /\ Waiting(Tail(q), Head(q), last) /\ Head(q) \in 1 .. MaxLoops /\ Head(q) <= last
      BY <1>2, TailWaits
    <2> QED
      BY <1>2, <2>1
  <1> QED
    BY <1>1, <1>2 DEF FlushOne

(* The thread of the PID loop writes the duty while it is alive.           *)
LEMMA PidKeepsInv ==
    ASSUME RpiTypeOK, CarInv, Pid
    PROVE  RpiTypeOK' /\ CarInv'
  <1> USE DEF CarInv, RpiTypeOK, Counters, StopKept, PidEnds, Braked, QueueInv, Last, InTick,
              Starting, Waiting, MqttTypeOK, mqttVars, appVars, dataVars, history
  <1>1. CASE PidLoop
    BY <1>1 DEF PidLoop
  <1>2. CASE PidCompute
    BY <1>2 DEF PidCompute
  <1>3. CASE PidWrite
    BY <1>3 DEF PidWrite, LoopStages
  <1> QED
    BY <1>1, <1>2, <1>3 DEF Pid

(* Leaving an iteration by an exception counts a failure and tries the     *)
(* stop on every multiple of FailPeriod; motor, buffer and flags follow    *)
(* from the stage.                                                         *)
LEMMA FailureKeepsCounters ==
    ASSUME RpiTypeOK, Counters, InTick, IterationFails, loops' = loops, estop' = estop
    PROVE  Counters' /\ main' \in {"check", "fallback"} /\ failures' \in 0 .. MaxLoops
  <1> USE RpiAssumption
  <1>1. /\ loops \in Nat /\ failures \in Nat /\ failures < loops /\ loops <= MaxLoops
        /\ failures' = failures + 1 /\ loops \in Nat \ {0}
    BY DEF RpiTypeOK, Counters, IterationFails
  <1>2. main' = IF loops % FailPeriod = 0 THEN "fallback" ELSE "check"
    BY DEF IterationFails, Goto
  <1>3. /\ (loops - 1) % FailPeriod \in Nat /\ loops % FailPeriod \in Nat
        /\ loops % FailPeriod # 0 => loops % FailPeriod = ((loops - 1) % FailPeriod) + 1
    BY <1>1, RemainderCounts
  <1>4. main' = "check" /\ ~estop' => failures' <= loops' % FailPeriod
    <2> SUFFICES ASSUME main' = "check", ~estop' PROVE failures' <= loops' % FailPeriod
      OBVIOUS
    <2>1. loops % FailPeriod # 0 /\ ~estop
      BY <1>2
    <2>2. failures <= (loops - 1) % FailPeriod
      BY <2>1 DEF Counters
    <2> HIDE DEF Counters
    <2> QED
      BY <1>1, <1>3, <2>1, <2>2
  <1>5. main' \in {"check", "fallback"}
    BY <1>2
  <1>6. ~Starting' /\ ~InTick' /\ main' # "centre"
    BY <1>5 DEF Starting, InTick
  <1>7. failures' <= loops' /\ failures' \in 0 .. MaxLoops
    BY <1>1
  <1> QED
    BY <1>4, <1>5, <1>6, <1>7, Zenon DEF Counters

(* An iteration of the main loop up to its telemetry, with its failures.   *)
LEMMA TickKeepsInv ==
    ASSUME RpiTypeOK, CarInv, Tick
    PROVE  RpiTypeOK' /\ CarInv'
  <1> USE RpiAssumption DEF CarInv
  <1>1. /\ InTick /\ loops \in Nat \ {0} /\ loops' = loops /\ estop' = estop
        /\ failures < loops /\ failures \in Nat
    BY DEF Tick, Sense, Drive, Steer, PublishTelemetry, InTick, RpiTypeOK, Counters, appVars
  <1>2. /\ UNCHANGED mqttVars /\ closed' = closed /\ pid' = pid /\ joined' = joined
        /\ running' = running /\ control' = control /\ stopEvent' = stopEvent
    BY DEF Tick, Sense, Drive, Steer, PublishTelemetry, appVars, motorVars, SetSpeed, SetSpeedRaises
  <1>3. /\ motion' \in [speed : Duties, angle : Duties] /\ aborted' = aborted
        /\ target' \in Duties /\ duty' \in Duties /\ angle' \in Duties
        /\ estop => /\ target' = 0 \/ target' = target
                    /\ duty' = 0 \/ duty' = duty
    BY DEF Tick, Sense, Drive, Steer, PublishTelemetry, appVars, motorVars, history,
           SetSpeed, SetSpeedRaises, IterationFails, RpiTypeOK, Duties, Still, Straight
  <1>4. \/ IterationFails /\ UNCHANGED dataVars
        \/ /\ UNCHANGED <<failures, dataVars>>
           /\ main' \in {"drive", "steer", "publish"}
        \/ main' = "check" /\ failures' = 0 /\ FlushOne(Push(buffer, loops))
    BY DEF Tick, Sense, Drive, Steer, PublishTelemetry, history, Goto
  <1>5. Counters' /\ main' \in LoopStages /\ failures' \in 0 .. MaxLoops
    <2>1. CASE IterationFails
      BY <1>1, <2>1, FailureKeepsCounters DEF LoopStages
    <2>2. CASE failures' = failures /\ main' \in {"drive", "steer", "publish"}
      BY <1>1, <2>2 DEF Counters, Starting, InTick, LoopStages, RpiTypeOK
    <2>3. CASE main' = "check" /\ failures' = 0
      <3>1. loops % FailPeriod \in Nat
        BY <1>1, RemainderCounts
      <3> QED
        BY <1>1, <2>3, <3>1 DEF Counters, Starting, InTick, LoopStages, RpiTypeOK
    <2> QED
      BY <1>4, <2>1, <2>2, <2>3
  <1>6. /\ buffer' \in Seq(1 .. MaxLoops) /\ Len(buffer') <= BufferSize
        /\ published' \in 0 .. MaxLoops /\ QueueInv'
    <2>1. /\ published <= loops - 1 /\ Waiting(buffer, published, loops - 1)
          /\ buffer \in Seq(1 .. MaxLoops) /\ Len(buffer) <= BufferSize
          /\ published \in 0 .. MaxLoops /\ loops \in 1 .. MaxLoops
      BY <1>1 DEF QueueInv, Last, RpiTypeOK
    <2>2. CASE UNCHANGED dataVars
      <3>1. Last' = loops - 1 \/ Last' = loops
        BY <1>1 DEF Last
      <3>2. published <= Last' /\ Waiting(buffer, published, Last')
        BY <1>1, <2>1, <3>1 DEF Waiting
      <3> QED
        BY <2>1, <2>2, <3>2 DEF QueueInv, dataVars, Waiting
    <2>3. CASE main' = "check" /\ FlushOne(Push(buffer, loops))
      <3>1. Last' = loops
        BY <1>1, <2>3 DEF Last, InTick
      <3>2. /\ Push(buffer, loops) \in Seq(1 .. MaxLoops) /\ Len(Push(buffer, loops)) <= BufferSize
            /\ Waiting(Push(buffer, loops), published, loops) /\ published <= loops
        BY <2>1, PushProps
      <3>3. /\ buffer' \in Seq(1 .. MaxLoops) /\ Len(buffer') <= BufferSize
            /\ published' \in 0 .. MaxLoops /\ published' <= loops
            /\ Waiting(buffer', published', loops)
        BY <1>1, <2>1, <2>3, <3>2, FlushProps
      <3> QED
        BY <3>1, <3>3 DEF QueueInv, Waiting
    <2> QED
      BY <1>4, <2>2, <2>3
  <1>7. StopKept' /\ PidEnds'
    BY <1>1, <1>2, <1>3 DEF StopKept, PidEnds, InTick, LoopStages
  <1>8. Braked'
    BY <1>5 DEF Braked, LoopStages
  <1>9. RpiTypeOK'
    BY <1>1, <1>2, <1>3, <1>5, <1>6 DEF RpiTypeOK, MqttTypeOK, mqttVars
  <1> QED
    BY <1>5, <1>6, <1>7, <1>8, <1>9

(* Starting up, looking at the flag and the signal handler.                *)
LEMMA ControlKeepsInv ==
    ASSUME VehicleInv, InitializeMqtt \/ Subscribe \/ Initialized \/ HandleSignal \/ RunCheck
    PROVE  VehicleInv'
  <1> USE RpiAssumption DEF VehicleInv
  <1>1. MqttInv'
    <2>1. CASE InitializeMqtt
      BY <2>1, CallsKeepMqttInv DEF InitializeMqtt
    <2>2. CASE Subscribe
      BY <2>2, CallsKeepMqttInv DEF Subscribe
    <2>3. CASE UNCHANGED mqttVars
      BY <2>3 DEF mqttVars, MqttInv, MqttTypeOK
    <2> QED
      BY <2>1, <2>2, <2>3 DEF Initialized, HandleSignal, RunCheck
  <1>2. /\ UNCHANGED <<estop, motion, motorVars, angle, dataVars, history>>
        /\ \/ main' = main /\ loops' = loops
           \/ main = "connect" /\ main' = "subscribe" /\ loops' = loops
           \/ main = "subscribe" /\ main' \in {"check", "stop"} /\ loops' = loops
           \/ main = "check" /\ main' = "sense" /\ loops < MaxLoops /\ loops' = loops + 1
           \/ main = "check" /\ main' = "stop" /\ loops' = loops
    BY DEF InitializeMqtt, Subscribe, Initialized, HandleSignal, RunCheck, carVars, appVars, Goto
  <1>3. running' \in BOOLEAN
    BY DEF InitializeMqtt, Subscribe, Initialized, HandleSignal, RunCheck, carVars, appVars, RpiTypeOK
  <1>4. loops \in Nat /\ failures \in Nat /\ published \in Nat /\ failures <= loops
    BY DEF RpiTypeOK, CarInv, Counters
  <1>5. RpiTypeOK'
    <2>1. loops' \in 0 .. MaxLoops
      BY <1>2 DEF RpiTypeOK
    <2>2. main' \in LoopStages \union ShutdownStages \union {"connect", "subscribe", "done"}
      BY <1>2 DEF RpiTypeOK, LoopStages, ShutdownStages
    <2> QED
      BY <1>1, <1>2, <1>3, <2>1, <2>2 DEF MqttInv, RpiTypeOK, motorVars, dataVars, history
  <1>6. Counters'
    <2>1. CASE main' = main /\ loops' = loops
      BY <1>2, <2>1 DEF CarInv, Counters, Starting, InTick, history
    <2>2. CASE Starting /\ main' \in {"subscribe", "check", "stop"} /\ loops' = loops
      <3>1. 0 % FailPeriod = 0
        OBVIOUS
      <3> QED
        BY <1>2, <2>2, <3>1 DEF CarInv, Counters, Starting, InTick, history
    <2>3. CASE main = "check" /\ main' = "sense" /\ loops' = loops + 1
      BY <1>2, <1>4, <2>3 DEF CarInv, Counters, Starting, InTick, history
    <2>4. CASE main = "check" /\ main' = "stop" /\ loops' = loops
      BY <1>2, <1>4, <2>4 DEF CarInv, Counters, Starting, InTick, history
    <2> QED
      BY <1>2, <2>1, <2>2, <2>3, <2>4 DEF Starting
  <1>7. QueueInv'
    <2>1. Last' = Last
      BY <1>2, <1>4 DEF Last, InTick
    <2> QED
      BY <1>2, <2>1 DEF CarInv, QueueInv, Waiting, dataVars
  <1>8. StopKept' /\ PidEnds' /\ Braked'
    BY <1>2 DEF CarInv, Counters, StopKept, PidEnds, Braked, Starting, LoopStages, motorVars, history
  <1> QED
    BY <1>1, <1>5, <1>6, <1>7, <1>8 DEF CarInv

(* The fallback stop.                                                      *)
LEMMA SafeEstopKeepsInv ==
    ASSUME RpiTypeOK, CarInv, SafeEstop \/ SafeEstopCentre
    PROVE  RpiTypeOK' /\ CarInv'
  <1>1. /\ UNCHANGED <<mqttVars, running, loops, motion, dataVars, failures>>
        /\ closed' = closed /\ pid' = pid /\ joined' = joined
        /\ control' = control /\ stopEvent' = stopEvent
    BY DEF SafeEstop, SafeEstopCentre, SetSpeed, SetSpeedRaises, LeaveRun, motorVars, appVars, history
  <1>2. /\ estop' = TRUE /\ main \in {"fallback", "centre"} /\ main' \in {"check", "centre", "stop"}
        /\ target' \in Duties /\ duty' \in Duties /\ angle' \in Duties
        /\ aborted' \in {aborted, "fallback", "centre"}
        /\ main' # "stop" => target' = 0 /\ (~closed => duty' = 0)
    BY DEF SafeEstop, SafeEstopCentre, SetSpeed, SetSpeedRaises, LeaveRun, motorVars, appVars,
           history, RpiTypeOK, CarInv, Counters, StopKept, LoopStages, Duties, Goto, Straight
  <1>3. RpiTypeOK'
    BY <1>1, <1>2 DEF RpiTypeOK, MqttTypeOK, mqttVars, dataVars, LoopStages, ShutdownStages
  <1>4. Counters' /\ StopKept' /\ PidEnds' /\ Braked'
    BY <1>1, <1>2 DEF CarInv, Counters, StopKept, PidEnds, Braked, Starting, InTick, LoopStages
  <1>5. Last' = Last
    BY <1>1, <1>2 DEF Last, InTick
  <1> QED
    BY <1>1, <1>3, <1>4, <1>5 DEF CarInv, QueueInv, Waiting, dataVars

(* The shutdown up to the connection: what it does to the motor, and the   *)
(* telemetry it flushes.                                                   *)
LEMMA ShutdownKeepsInv ==
    ASSUME RpiTypeOK, CarInv, StopMotor \/ StopThread \/ Brake \/ Straighten \/ Flush
    PROVE  RpiTypeOK' /\ CarInv'
  <1> USE RpiAssumption
  <1>1. /\ UNCHANGED <<mqttVars, estop, loops, motion, failures>>
        /\ closed' = closed /\ pid' = pid /\ control' = control
    BY DEF StopMotor, StopThread, Brake, Straighten, Flush, SetSpeed, SetSpeedRaises, Abandon,
           motorVars, appVars, history
  <1>2. /\ running' \in BOOLEAN /\ stopEvent' \in BOOLEAN /\ joined' \in BOOLEAN
        /\ joined' = joined \/ (joined' = TRUE /\ pid = "dead") \/ joined' = FALSE
    BY DEF StopMotor, StopThread, Brake, Straighten, Flush, SetSpeed, SetSpeedRaises,
           motorVars, appVars, RpiTypeOK
  <1>3. /\ main \in ShutdownStages /\ main' \in ShutdownStages \union {"done"}
        /\ target' \in Duties /\ duty' \in Duties /\ angle' \in Duties
        /\ aborted' \in ShutdownStages \union {"none", "fallback", "centre"}
    BY DEF StopMotor, StopThread, Brake, Straighten, Flush, SetSpeed, SetSpeedRaises, Abandon,
           motorVars, appVars, history, RpiTypeOK, Duties, Goto, Straight, ShutdownStages
  <1>4. Braked'
    BY DEF StopMotor, StopThread, Brake, Straighten, Flush, SetSpeed, SetSpeedRaises, Abandon,
           motorVars, appVars, history, CarInv, Braked, Goto
  <1>5. /\ buffer' \in Seq(1 .. MaxLoops) /\ Len(buffer') <= BufferSize
        /\ published' \in 0 .. MaxLoops /\ QueueInv'
    <2>1. Last' = Last /\ Last = loops /\ loops \in Nat
      BY <1>1, <1>3 DEF Last, InTick, ShutdownStages, RpiTypeOK
    <2>2. /\ published <= loops /\ Waiting(buffer, published, loops)
          /\ buffer \in Seq(1 .. MaxLoops) /\ Len(buffer) <= BufferSize
          /\ published \in 0 .. MaxLoops
      BY <2>1 DEF CarInv, QueueInv, RpiTypeOK
    <2>3. CASE UNCHANGED dataVars
      BY <2>1, <2>2, <2>3 DEF QueueInv, dataVars, Waiting
    <2>4. CASE FlushOne(buffer)
      <3>1. /\ buffer' \in Seq(1 .. MaxLoops) /\ Len(buffer') <= BufferSize
            /\ published' \in 0 .. MaxLoops /\ published' <= loops
            /\ Waiting(buffer', published', loops)
        BY <2>1, <2>2, <2>4, FlushProps
      <3> QED
        BY <2>1, <3>1 DEF QueueInv, Waiting
    <2> QED
      BY <2>3, <2>4 DEF StopMotor, StopThread, Brake, Straighten, Flush
  <1>6. Counters' /\ StopKept' /\ PidEnds'
    BY <1>1, <1>2, <1>3
       DEF CarInv, Counters, StopKept, PidEnds, Starting, InTick, LoopStages, ShutdownStages
  <1>7. RpiTypeOK'
    BY <1>1, <1>2, <1>3, <1>5 DEF RpiTypeOK, MqttTypeOK, mqttVars
  <1> QED
    BY <1>4, <1>5, <1>6, <1>7 DEF CarInv

LEMMA VehicleInit == RpiInit => VehicleInv
  <1> SUFFICES ASSUME RpiInit PROVE VehicleInv
    OBVIOUS
  <1> USE RpiAssumption
  <1>1. MqttInv
    BY MqttInvInit DEF RpiInit
  <1>2. RpiTypeOK
    <2>1. /\ running \in BOOLEAN /\ estop \in BOOLEAN /\ closed \in BOOLEAN
          /\ stopEvent \in BOOLEAN /\ joined \in BOOLEAN
      BY DEF RpiInit
    <2>2. motion \in [speed : Duties, angle : Duties]
      BY DEF RpiInit, Still, Straight, Duties
    <2>3. /\ main = "connect" /\ loops = 0 /\ failures = 0 /\ published = 0 /\ aborted = "none"
          /\ target = 0 /\ duty = 0 /\ control = 0 /\ angle = 0 /\ pid \in {"check", "dead"}
          /\ buffer = << >>
      BY DEF RpiInit, Straight
    <2> QED
      BY <1>1, <2>1, <2>2, <2>3 DEF RpiTypeOK, MqttInv, Duties
  <1>3. CarInv
    BY DEF RpiInit, CarInv, Counters, StopKept, PidEnds, Braked, QueueInv, Waiting, Last, InTick,
           Starting, LoopStages
  <1> QED
    BY <1>1, <1>2, <1>3 DEF VehicleInv

LEMMA VehicleStep == VehicleInv /\ [RpiNext]_rpiVars => VehicleInv'
  <1> SUFFICES ASSUME VehicleInv, [RpiNext]_rpiVars PROVE VehicleInv'
    OBVIOUS
  <1> USE DEF VehicleInv
  <1>1. ASSUME UNCHANGED carVars, MqttInv' PROVE VehicleInv'
    BY <1>1 DEF MqttInv, RpiTypeOK, CarInv, Counters, StopKept, PidEnds, Braked, QueueInv, Waiting,
                Last, InTick, Starting, carVars, appVars, motorVars, dataVars, history
  <1>2. ASSUME UNCHANGED mqttVars PROVE MqttInv'
    BY <1>2 DEF mqttVars, MqttInv, MqttTypeOK
  <1>3. CASE InitializeMqtt \/ Subscribe \/ Initialized \/ HandleSignal \/ RunCheck
    BY <1>3, ControlKeepsInv
  <1>4. CASE Tick
    BY <1>2, <1>4, TickKeepsInv DEF Tick, Sense, Drive, Steer, PublishTelemetry
  <1>5. CASE SafeEstop \/ SafeEstopCentre
    BY <1>2, <1>5, SafeEstopKeepsInv DEF SafeEstop, SafeEstopCentre
  <1>6. CASE StopMotor \/ StopThread \/ Brake \/ Straighten \/ Flush
    BY <1>2, <1>6, ShutdownKeepsInv DEF StopMotor, StopThread, Brake, Straighten, Flush
  <1>7. CASE DisconnectMqtt
    <2>1. MqttInv'
      BY <1>7, CallsKeepMqttInv DEF DisconnectMqtt
    <2>2. /\ UNCHANGED <<appVars, motorVars, angle, dataVars, history>>
          /\ main = "disconnect" /\ main' \in {"disconnect", "done"}
      BY <1>7 DEF DisconnectMqtt, Goto
    <2>3. Last' = Last
      BY <2>2 DEF Last, InTick, appVars
    <2>4. CarInv'
      BY <2>2, <2>3 DEF CarInv, Counters, StopKept, PidEnds, Braked, QueueInv, Waiting,
                   InTick, Starting, LoopStages, appVars, motorVars, dataVars, history
    <2>5. RpiTypeOK'
      BY <2>1, <2>2 DEF MqttInv, RpiTypeOK, ShutdownStages, appVars, motorVars, dataVars, history
    <2> QED
      BY <2>1, <2>4, <2>5
  <1>8. CASE Pid
    BY <1>2, <1>8, PidKeepsInv DEF Pid, PidLoop, PidCompute, PidWrite
  <1>9. CASE MqttThread \/ Connection
    BY <1>1, <1>9, NetworkKeepsMqttInv DEF MqttThread, Connection
  <1>10. CASE Done \/ UNCHANGED rpiVars
    BY <1>1, <1>2, <1>10 DEF Done, rpiVars
  <1> QED
    BY <1>3, <1>4, <1>5, <1>6, <1>7, <1>8, <1>9, <1>10 DEF RpiNext, Main, Shutdown

(* The invariant of the vehicle.                                           *)
THEOREM VehicleInvariant == RpiSpec => []VehicleInv
  BY VehicleInit, VehicleStep, PTL DEF RpiSpec

(* Between the calls of both threads the broker holds what the application *)
(* asked for while the one connection of the client is up, in every order  *)
(* of subscriptions, the broker's answer and the end of the connection.    *)
THEOREM SubscriptionsAreKept == RpiSpec => []NoSubscriptionLost
  <1>1. VehicleInv => NoSubscriptionLost
    BY DEF VehicleInv, MqttInv, NoSubscriptionLost
  <1> QED
    BY <1>1, VehicleInvariant, PTL

(* Types, an engaged stop holds and telemetry leaves in order.             *)
THEOREM VehicleIsTyped == RpiSpec => []RpiInv
  <1>1. VehicleInv => RpiInv
    BY DEF VehicleInv, CarInv, RpiInv, StopKept, EstopHolds, LoopStages, QueueInv, Waiting,
           TelemetryInOrder
  <1> QED
    BY <1>1, VehicleInvariant, PTL

(* A series of FailPeriod failing iterations has met a fallback, and that  *)
(* has engaged the stop or ended the loop.                                 *)
THEOREM FailingLoopStops == RpiSpec => []EndlessFailureStops
  <1>1. VehicleInv => EndlessFailureStops
    <2> SUFFICES ASSUME VehicleInv, main = "check", failures >= FailPeriod, ~estop
                 PROVE  FALSE
      BY DEF EndlessFailureStops
    <2>1. loops \in Nat /\ failures \in Nat /\ FailPeriod \in Nat \ {0}
      BY RpiAssumption DEF VehicleInv, RpiTypeOK
    <2>2. failures <= loops % FailPeriod
      BY DEF VehicleInv, CarInv, Counters
    <2>3. loops % FailPeriod \in Nat /\ loops % FailPeriod < FailPeriod
      BY <2>1
    <2> QED
      BY <2>1, <2>2, <2>3
  <1> QED
    BY <1>1, VehicleInvariant, PTL

(* A process that has ended, its PID thread joined and its motor writable, *)
(* has left the motor without drive.                                       *)
THEOREM NoDriveAfterExit == RpiSpec => []StoppedAtExit
  <1>1. VehicleInv => StoppedAtExit
    BY DEF VehicleInv, CarInv, Braked, StoppedAtExit
  <1> QED
    BY <1>1, VehicleInvariant, PTL
--------------------------------------------------------------------------------
USE NavigationAssumption, WatchdogAssumption

Moving == {"FOLLOW_PATH", "AVOID_OBSTACLE"}

(* The timer belongs to a node that was activated, and outlives it only if *)
(* the node is shut down.                                                  *)
TimerInStage == timer => life \in {"active", "finalized"}

(* The state machine is on a path only if one came in since the release.   *)
InvitedToMove == state \in Moving => invited

ControlInv == ControlTypeOK /\ InactiveIsStill /\ TimerInStage /\ InvitedToMove

(* The queue of paths keeps its type and its depth.                         *)
LEMMA EnqueueProps ==
    ASSUME NEW q \in Seq(PathLengths), Len(q) <= Depth, NEW p \in PathLengths
    PROVE  Enqueue(q, p) \in Seq(PathLengths) /\ Len(Enqueue(q, p)) <= Depth
  <1>1. Append(q, p) \in Seq(PathLengths) /\ Len(Append(q, p)) = Len(q) + 1 /\ Len(q) \in Nat
    OBVIOUS
  <1>2. CASE Len(q) = Depth
    <2>1. Len(q) > 0 /\ q # <<>>
      BY <1>2
    <2>2. Tail(q) \in Seq(PathLengths) /\ Len(Tail(q)) = Len(q) - 1
      BY <2>1
    <2> QED
      BY <1>2, <2>2 DEF Enqueue
  <1>3. CASE Len(q) # Depth
    BY <1>1, <1>3 DEF Enqueue
  <1> QED
    BY <1>2, <1>3

(* Nothing the navigation node does leaves its types.                       *)
LEMMA NavKeepsTypes ==
    ASSUME NavTypeOK, NavNext
    PROVE  NavTypeOK'
  <1>1. ASSUME NEW known \in BOOLEAN, Replan(known)
        PROVE  wire' \in Seq(PathLengths) /\ Len(wire') <= Depth
    BY <1>1, EnqueueProps DEF Replan, NavTypeOK
  <1>2. CASE NavTransition
    BY <1>2 DEF NavTransition, NavTypeOK, Lifecycle
  <1>3. CASE NavOnMap \/ NavOnOdom
    BY <1>3 DEF NavOnMap, NavOnOdom, NavTypeOK
  <1>4. CASE NavOnGoal
    <2>1. wire' \in Seq(PathLengths) /\ Len(wire') <= Depth
      BY <1>1, <1>4 DEF NavOnGoal, NavTypeOK
    <2> QED
      BY <1>4, <2>1 DEF NavOnGoal, NavTypeOK
  <1>5. CASE NavOnTimer
    <2>1. wire' \in Seq(PathLengths) /\ Len(wire') <= Depth
      BY <1>1, <1>5 DEF NavOnTimer, NavTypeOK
    <2> QED
      BY <1>5, <2>1 DEF NavOnTimer, NavTypeOK
  <1> QED
    BY <1>2, <1>3, <1>4, <1>5 DEF NavNext

(* Taking a path off the queue, and unsubscribing, keep its type.           *)
LEMMA WireShrinks ==
    ASSUME NavTypeOK, wire # <<>>
    PROVE  /\ Tail(wire) \in Seq(PathLengths) /\ Len(Tail(wire)) <= Depth
           /\ Head(wire) \in PathLengths /\ Head(wire) \in Nat
  <1>1. wire \in Seq(PathLengths) /\ Len(wire) <= Depth /\ wire # <<>>
    BY DEF NavTypeOK
  <1>2. Tail(wire) \in Seq(PathLengths) /\ Head(wire) \in PathLengths /\ Len(Tail(wire)) = Len(wire) - 1
    BY <1>1
  <1>3. \A n \in Nat : n <= Depth => n - 1 <= Depth
    OBVIOUS
  <1>4. Len(wire) \in Nat
    BY <1>1
  <1>5. Len(Tail(wire)) <= Depth
    BY <1>1, <1>2, <1>3, <1>4, Zenon
  <1> QED
    BY <1>2, <1>5

(* The age of a command that was just sent, and of one that grew older.     *)
LEMMA Ages ==
    /\ 0 \in 0 .. Watchdog + 1 /\ Watchdog \in Int
    /\ \A n \in 0 .. Watchdog + 1 : n <= Watchdog => n + 1 \in 0 .. Watchdog + 1
  OBVIOUS

LEMMA InitInv == Init => ControlInv
  <1> SUFFICES ASSUME Init PROVE ControlInv
    OBVIOUS
  <1>1. << >> \in Seq(PathLengths) /\ Len(<< >>) = 0 /\ 0 <= Depth
    OBVIOUS
  <1>2. /\ navLife = "unconfigured" /\ grid = FALSE /\ navPose = FALSE /\ goal = FALSE /\ wire = <<>>
        /\ life = "unconfigured" /\ timer = FALSE /\ state = "IDLE" /\ engaged = FALSE
        /\ path = -1 /\ idx = 0 /\ posed = FALSE /\ near = FALSE /\ age = 0 /\ cmd = "zero"
        /\ latched = "none" /\ fresh = FALSE /\ invited = FALSE
    BY DEF Init, NavInit
  <1>3. wire \in Seq(PathLengths) /\ Len(wire) <= Depth
    BY <1>1, <1>2
  <1>4. NavTypeOK
    BY <1>2, <1>3, Zenon DEF NavTypeOK, Lifecycle
  <1>5. path \in PathLengths \union {-1} /\ idx \in 0 .. (IF path = -1 THEN 0 ELSE path)
    BY <1>2
  <1>6. age \in 0 .. Watchdog + 1
    BY <1>2, Ages
  <1>7. ControlTypeOK
    BY <1>2, <1>4, <1>5, <1>6, Zenon DEF ControlTypeOK, ControlState, Lifecycle
  <1> QED
    BY <1>2, <1>7 DEF ControlInv, InactiveIsStill, TimerInStage, InvitedToMove, Moving
--------------------------------------------------------------------------------
(* A transition of the life cycle.                                          *)
LEMMA LifeKeepsInv ==
    ASSUME ControlInv, OnConfigure \/ OnActivate \/ OnDeactivate \/ OnCleanup \/ OnShutdown
    PROVE  ControlInv'
  <1> USE DEF ControlInv, ControlTypeOK, NavTypeOK, InactiveIsStill, TimerInStage, InvitedToMove,
              navVars, fsmVars, outVars, estopVars, Lifecycle
  <1>1. CASE OnConfigure
    BY <1>1 DEF OnConfigure
  <1>2. CASE OnActivate
    <2>1. age' \in 0 .. Watchdog + 1
      BY <1>2, Ages DEF OnActivate
    <2> QED
      BY <1>2, <2>1 DEF OnActivate
  <1>3. CASE OnDeactivate
    <2>1. age' \in 0 .. Watchdog + 1
      BY <1>3, Ages DEF OnDeactivate, Publish
    <2> QED
      BY <1>3, <2>1 DEF OnDeactivate, Publish
  <1>4. CASE OnCleanup
    <2>1. << >> \in Seq(PathLengths) /\ Len(<< >>) = 0
      OBVIOUS
    <2>2. NavTypeOK'
      BY <1>4, <2>1 DEF OnCleanup
    <2> QED
      BY <1>4, <2>2 DEF OnCleanup
  <1>5. CASE OnShutdown
    BY <1>5 DEF OnShutdown
  <1> QED
    BY <1>1, <1>2, <1>3, <1>4, <1>5

(* A message of one of the subscriptions.                                   *)
LEMMA MessagesKeepInv ==
    ASSUME ControlInv, OnPath \/ OnObstacles \/ OnOdom \/ OnEstop
    PROVE  ControlInv'
  <1> USE DEF ControlInv, ControlTypeOK, InactiveIsStill, TimerInStage, InvitedToMove,
              navVars, nodeVars, outVars, estopVars
  <1>1. CASE OnPath
    <2>1. NavTypeOK'
      BY <1>1, WireShrinks DEF OnPath, NavTypeOK
    <2>2. path' \in PathLengths /\ path' \in Nat /\ idx' = 0 /\ idx' \in 0 .. path' /\ path' # -1
      BY <1>1, WireShrinks DEF OnPath
    <2> QED
      BY <1>1, <2>1, <2>2 DEF OnPath, ControlState
  <1>2. CASE OnObstacles
    BY <1>2 DEF OnObstacles, NavTypeOK
  <1>3. CASE OnOdom
    BY <1>3 DEF OnOdom, NavTypeOK
  <1>4. CASE OnEstop
    BY <1>4 DEF OnEstop, NavTypeOK, ControlState, Moving
  <1> QED
    BY <1>1, <1>2, <1>3, <1>4

(* A cycle of the control loop moves the vehicle only when it is invited.   *)
LEMMA CycleProps ==
    ASSUME ControlInv, OnTimer
    PROVE  /\ ControlInv'
           /\ engaged' => cmd' = "zero"
           /\ cmd' = "move" => age' <= Watchdog
           /\ cmd = "zero" /\ cmd' = "move" => invited
  <1> USE DEF ControlInv, ControlTypeOK, TimerInStage, InvitedToMove, InactiveIsStill,
              navVars, nodeVars, estopVars, outVars, Moving, ControlState
  <1>1. /\ NavTypeOK' /\ path' = path /\ invited' = invited /\ timer /\ life' = life /\ timer' = timer
        /\ {posed', near', fresh', timer', invited'} \subseteq BOOLEAN /\ life' \in Lifecycle
        /\ latched' = latched
    BY DEF OnTimer, NavTypeOK
  <1>2. life \in {"active", "finalized"} /\ age \in Int /\ Watchdog \in Int
    BY <1>1
  <1>3. engaged' = (engaged \/ Expired) /\ engaged' \in BOOLEAN
    BY DEF OnTimer, Expired
  <1>4. CASE Stopped
    <2>1. cmd' = "zero" /\ age' = 0 /\ idx' = idx /\ state' \in {state, "ESTOP"}
      BY <1>4 DEF OnTimer, Publish
    <2> QED
      BY <1>1, <1>2, <1>3, <2>1
  <1>5. CASE ~Stopped
    <2>1. ~engaged' /\ age <= Watchdog /\ state # "ESTOP"
      BY <1>2, <1>3, <1>5 DEF Stopped, Expired
    <2>2. CASE state = "IDLE"
      <3>1. cmd' = "zero" /\ age' = 0 /\ idx' = idx /\ state' = state
        BY <1>5, <2>2 DEF OnTimer, Publish
      <3> QED
        BY <1>1, <1>2, <1>3, <2>1, <2>2, <3>1
    <2>3. CASE state # "IDLE" /\ (~posed \/ path = -1)
      <3>1. UNCHANGED <<state, idx, outVars>>
        BY <1>5, <2>3 DEF OnTimer
      <3> QED
        BY <1>1, <1>2, <1>3, <2>1, <2>3, <3>1
    <2>4. CASE state # "IDLE" /\ posed /\ path # -1
      <3>1. FollowPath /\ invited
        BY <1>5, <2>1, <2>4 DEF OnTimer
      <3>2. /\ state' \in ControlState /\ cmd' \in {"zero", "move"}
            /\ age' \in 0 .. Watchdog + 1 /\ age' <= Watchdog
            /\ idx' \in 0 .. path
        BY <1>2, <2>1, <2>4, <3>1 DEF FollowPath, Publish
      <3> QED
        BY <1>1, <1>2, <1>3, <2>1, <2>4, <3>1, <3>2
    <2> QED
      BY <2>2, <2>3, <2>4
  <1> QED
    BY <1>4, <1>5

LEMMA StepProps ==
    ASSUME ControlInv, [Next]_vars
    PROVE  /\ ControlInv'
           /\ cmd = "zero" /\ cmd' = "move" => invited
  <1>1. CASE OnConfigure \/ OnActivate \/ OnDeactivate \/ OnCleanup \/ OnShutdown
    BY <1>1, LifeKeepsInv
       DEF OnConfigure, OnActivate, OnDeactivate, OnCleanup, OnShutdown, Publish, outVars
  <1>2. CASE OnPath \/ OnObstacles \/ OnOdom \/ OnEstop
    BY <1>2, MessagesKeepInv DEF OnPath, OnObstacles, OnOdom, OnEstop, outVars
  <1>3. CASE OnTimer
    BY <1>3, CycleProps
  <1>4. CASE NavNext /\ UNCHANGED ctlVars
    <2>1. NavTypeOK'
      BY <1>4, NavKeepsTypes DEF ControlInv, ControlTypeOK
    <2> QED
      BY <1>4, <2>1 DEF ControlInv, ControlTypeOK, InactiveIsStill, TimerInStage, InvitedToMove,
                        ctlVars, nodeVars, fsmVars, outVars, estopVars
  <1>5. CASE PublishEstop
    BY <1>5 DEF PublishEstop, ControlInv, ControlTypeOK, NavTypeOK, InactiveIsStill,
                TimerInStage, InvitedToMove, navVars, nodeVars, fsmVars, outVars
  <1>6. CASE Elapse
    <2>1. age' \in 0 .. Watchdog + 1
      BY <1>6, Ages DEF Elapse, ControlInv, ControlTypeOK
    <2> QED
      BY <1>6, <2>1 DEF Elapse, ControlInv, ControlTypeOK, NavTypeOK, InactiveIsStill,
                TimerInStage, InvitedToMove, navVars, nodeVars, fsmVars, estopVars
  <1>7. CASE UNCHANGED vars
    BY <1>7 DEF vars, navVars, ctlVars, ControlInv, ControlTypeOK, NavTypeOK, InactiveIsStill,
                TimerInStage, InvitedToMove, nodeVars, fsmVars, outVars, estopVars
  <1> QED
    BY <1>1, <1>2, <1>3, <1>4, <1>5, <1>6, <1>7 DEF Next
--------------------------------------------------------------------------------
(* Types, and that a node which is configured and not active has commanded  *)
(* a standstill, whatever order its life cycle was taken through.           *)
THEOREM InactiveNodeIsStill == Spec => []ControlTypeOK /\ []InactiveIsStill
  BY InitInv, StepProps, PTL DEF Spec, ControlInv

(* No cycle with the stop engaged leaves a moving command.                  *)
THEOREM StoppedCyclesAreStill == Spec => StopHolds
  <1>1. ControlInv => [OnTimer /\ engaged' => cmd' = "zero"]_vars
    BY CycleProps
  <1>2. Spec => []ControlInv
    BY InitInv, StepProps, PTL DEF Spec
  <1> QED
    BY <1>1, <1>2, PTL DEF StopHolds

(* No cycle leaves a moving command that is older than the watchdog allows, *)
(* though some cycles publish nothing.                                      *)
THEOREM MovingCommandsAreFresh == Spec => MovingCommandIsFresh
  <1>1. ControlInv => [OnTimer /\ cmd' = "move" => age' <= Watchdog]_vars
    BY CycleProps
  <1>2. Spec => []ControlInv
    BY InitInv, StepProps, PTL DEF Spec
  <1> QED
    BY <1>1, <1>2, PTL DEF MovingCommandIsFresh

(* After a release nothing but a new path sets the vehicle in motion.       *)
THEOREM OnlyAPathRestarts == Spec => RestartNeedsPath
  <1>1. ControlInv /\ [Next]_vars => [cmd = "zero" /\ cmd' = "move" => invited]_vars
    BY StepProps
  <1>2. Spec => []ControlInv
    BY InitInv, StepProps, PTL DEF Spec
  <1> QED
    BY <1>1, <1>2, PTL DEF Spec, RestartNeedsPath
================================================================================
