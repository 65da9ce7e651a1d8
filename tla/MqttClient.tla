------------------------------- MODULE MqttClient -------------------------------
(***************************************************************************)
(* MqttClient of hardware/raspberry_pi/python/mqtt_client.py: the registry *)
(* of subscriptions, the connected event, and the two threads that touch   *)
(* them: the application, which subscribes and publishes, and the network  *)
(* loop of paho, which runs the callbacks.  The two interleave between the *)
(* registration of a topic, the test of the event and the request to the   *)
(* broker.  The connection and the broker are external.                    *)
(*                                                                         *)
(* A client has one connection in its life.  paho 2.0 (requirements.txt)   *)
(* calls on_disconnect of a VERSION2 client with five arguments, and       *)
(* _on_disconnect takes four: the TypeError leaves the network loop, so    *)
(* the event stays set and nobody connects again.                          *)
(***************************************************************************)
EXTENDS Integers, FiniteSets

CONSTANTS
    Filters,    (* what the application subscribes to                       *)
    Topics,     (* what other parties publish on                            *)
    Matches     (* the pairs <<filter, topic>> in which the broker delivers *)

ASSUME MatchesAssumption == Matches \subseteq Filters \X Topics

VARIABLES
    looping,    (* the network loop was started                             *)
    link,       (* the connection: "none", "open" (CONNECT is sent),        *)
                (* "accepted" by the broker, "lost"                         *)
    connected,  (* MqttClient._connected                                    *)
    registered, (* the keys of MqttClient._subscriptions                    *)
    granted,    (* the filters the broker holds for this connection         *)
    net,        (* what the network thread does next; "ended" without one   *)
    todo,       (* _resubscribe_all: the snapshot still to be sent          *)
    app,        (* subscribe(): the topic registered and not yet sent       *)
    unanswered  (* topics a message came in on and no callback was found    *)

linkVars == <<looping, link, granted>>
mqttVars == <<looping, link, connected, registered, granted, net, todo, app, unanswered>>

MqttTypeOK ==
    /\ {looping, connected} \subseteq BOOLEAN
    /\ link \in {"none", "open", "accepted", "lost"}
    /\ registered \subseteq Filters /\ granted \subseteq Filters /\ todo \subseteq Filters
    /\ net \in {"idle", "connack", "snapshot", "resubscribe", "ended"}
    /\ app \subseteq Filters /\ Cardinality(app) <= 1
    /\ unanswered \subseteq Topics

MqttInit ==
    /\ looping = FALSE /\ link = "none" /\ connected = FALSE
    /\ registered = {} /\ granted = {} /\ todo = {} /\ app = {} /\ unanswered = {}
    /\ net = "idle"
--------------------------------------------------------------------------------
(* The application. *)

(* connect(): an attempt that fails returns before the loop is started.    *)
(* The wait for the event that follows ends without effect, by its timeout *)
(* at the latest.                                                          *)
Connect ==
    /\ link = "none"
    /\ \/ link' = "open" /\ looping' = TRUE
       \/ UNCHANGED <<link, looping>>
    /\ UNCHANGED <<connected, registered, granted, net, todo, app, unanswered>>

(* subscribe(), first half: the registration under the lock. *)
Register(f) ==
    /\ app = {}
    /\ registered' = registered \union {f}
    /\ app' = {f}
    /\ UNCHANGED <<linkVars, connected, net, todo, unanswered>>

(* subscribe(), second half: a request on a lost connection is only logged.*)
SendSubscribe ==
    /\ app # {}
    /\ granted' = IF connected /\ link = "accepted" THEN granted \union app ELSE granted
    /\ app' = {}
    /\ UNCHANGED <<looping, link, connected, registered, net, todo, unanswered>>

(* disconnect(): loop_stop() waits for the callback that is under way.     *)
(* The DISCONNECT then sent runs _on_disconnect in this thread: its        *)
(* TypeError is caught here, and the event is cleared behind it.           *)
Disconnect ==
    \/ /\ looping /\ looping' = FALSE
       /\ UNCHANGED <<link, connected, registered, granted, net, todo, app, unanswered>>
    \/ /\ ~looping /\ net \in {"idle", "ended"}
       /\ link' = "lost" /\ connected' = FALSE /\ granted' = {} /\ net' = "ended"
       /\ UNCHANGED <<looping, registered, todo, app, unanswered>>
--------------------------------------------------------------------------------
(* The connection (external) and the network thread. *)

LinkUp ==
    /\ link = "open" /\ net = "idle"
    /\ link' = "accepted" /\ net' = "connack"
    /\ UNCHANGED <<looping, connected, registered, granted, todo, app, unanswered>>

(* The broker refuses the connection, or it is lost. *)
LinkDown ==
    /\ link \in {"open", "accepted"}
    /\ link' = "lost" /\ granted' = {}
    /\ UNCHANGED <<looping, connected, registered, net, todo, app, unanswered>>

(* Mutant of OnConnect: the snapshot is taken before the event is set. *)
OnConnectLate ==
    \/ /\ net = "connack"
       /\ net' = "snapshot" /\ todo' = registered
       /\ UNCHANGED <<linkVars, connected, registered, app, unanswered>>
    \/ /\ net = "snapshot"
       /\ net' = "resubscribe" /\ connected' = TRUE
       /\ UNCHANGED <<linkVars, registered, todo, app, unanswered>>

(* _on_connect: set the event, then take the registered topics under the lock. *)
OnConnect ==
    \/ /\ net = "connack"
       /\ net' = "snapshot" /\ connected' = TRUE
       /\ UNCHANGED <<linkVars, registered, todo, app, unanswered>>
    \/ /\ net = "snapshot"
       /\ net' = "resubscribe" /\ todo' = registered
       /\ UNCHANGED <<linkVars, connected, registered, app, unanswered>>

Resubscribe ==
    /\ net = "resubscribe"
    /\ \/ \E f \in todo :
            /\ todo' = todo \ {f}
            /\ granted' = IF link = "accepted" THEN granted \union {f} ELSE granted
            /\ UNCHANGED net
       \/ todo = {} /\ net' = "idle" /\ UNCHANGED <<todo, granted>>
    /\ UNCHANGED <<looping, link, connected, registered, app, unanswered>>

(* The call of _on_disconnect raises before its first line: the event is   *)
(* not cleared, and the loop that would reconnect is left.                 *)
OnDisconnect ==
    /\ net = "idle" /\ link = "lost"
    /\ net' = "ended"
    /\ UNCHANGED <<linkVars, connected, registered, todo, app, unanswered>>

(* _on_message: the callback is looked up under the topic of the message. *)
OnMessage ==
    /\ net = "idle" /\ link = "accepted" /\ connected
    /\ \E t \in Topics :
        /\ \E f \in granted : <<f, t>> \in Matches
        /\ unanswered' = IF t \in registered THEN unanswered ELSE unanswered \union {t}
    /\ UNCHANGED <<linkVars, connected, registered, net, todo, app>>

Network == OnConnect \/ Resubscribe \/ OnDisconnect \/ OnMessage
Link == LinkUp \/ LinkDown
--------------------------------------------------------------------------------
(* Whichever comes first, the broker's answer or a subscription, and       *)
(* however their steps interleave: when both threads are between calls on  *)
(* an accepted connection, the broker holds every topic the application    *)
(* asked for.  A connection that is lost is not resumed (OnDisconnect).    *)
NoSubscriptionLost ==
    link = "accepted" /\ connected /\ net = "idle" /\ app = {} => granted = registered

(* "Per-topic callbacks": a message on a topic the application subscribed  *)
(* to with a callback reaches that callback.                               *)
MessagesAreAnswered == unanswered = {}
================================================================================
