-------------------------------- MODULE VehicleMonitor ---------------------------------
(***************************************************************************)
(* src/cybersecurity/vehicle_security/vehicle_monitor.py: start() brings up *)
(* a poll thread and a dispatch thread that share a stop event and a queue. *)
(* stop() waits at most five seconds for each, so a later start() may find  *)
(* the old threads still at work; each start() has a pair of its own here.  *)
(* What the readers return is external.                                     *)
(***************************************************************************)
EXTENDS Naturals, Sequences

CONSTANTS Ecu,          (* the control units that the reader lists           *)
          SafetyEcu,    (* those whose loss has severity HIGH                *)
          Reading,      (* the states of a unit that the reader may return   *)
          OtherEvent,   (* events of the other checks of a poll              *)
          QueueSize,    (* maxsize of the event queue; the limit of events   *)
                        (* per second drops what comes after it as well      *)
          MaxStarts,    (* bound: calls of start()                           *)
          MaxEvents     (* bound: events that polls make                     *)

VARIABLES
    running, stopSet,   (* state.running, _stop_event                       *)
    starts,             (* calls of start()                                 *)
    poller,             (* poll threads: their stage                        *)
    fresh,              (* poll threads: the status read and not yet stored *)
    known,              (* state.ecu_status                                 *)
    queue,              (* _event_queue: the events, with their numbers     *)
    made,               (* events made by polls, and numbered in their order*)
    listening           (* dispatch threads: waiting, busy or ended         *)

monitorVars == <<running, stopSet, starts, poller, fresh, known, queue, made, listening>>

EcuState == {"ONLINE", "OFFLINE", "RESTARTING"}

ASSUME MonitorAssumption ==
    /\ Reading \subseteq EcuState /\ SafetyEcu \subseteq Ecu
    /\ QueueSize \in Nat \ {0} /\ MaxStarts \in Nat /\ MaxEvents \in Nat

Pair == 1 .. MaxStarts
NotRead == [e \in Ecu |-> "unknown"]

MonitorTypeOK ==
    /\ running \in BOOLEAN /\ stopSet \in BOOLEAN /\ starts \in 0 .. MaxStarts
    /\ poller \in [Pair -> {"none", "wait", "store"}]
    /\ \A p \in Pair : fresh[p] \in [Ecu -> EcuState \cup {"unknown"}]
    /\ known \in [Ecu -> EcuState \cup {"unknown"}]
    /\ Len(queue) <= QueueSize /\ made \in 0 .. MaxEvents
    /\ listening \in [Pair -> {"none", "wait", "busy"}]

MonitorInit ==
    /\ running = FALSE /\ stopSet = FALSE /\ starts = 0 /\ made = 0 /\ queue = <<>>
    /\ poller = [p \in Pair |-> "none"] /\ listening = [p \in Pair |-> "none"]
    /\ fresh = [p \in Pair |-> NotRead] /\ known = NotRead
--------------------------------------------------------------------------------
Start ==
    /\ ~running /\ starts < MaxStarts
    /\ running' = TRUE /\ stopSet' = FALSE /\ starts' = starts + 1
    /\ poller' = [poller EXCEPT ![starts + 1] = "wait"]
    /\ listening' = [listening EXCEPT ![starts + 1] = "wait"]
    /\ UNCHANGED <<fresh, known, queue, made>>

Stop ==
    /\ running
    /\ running' = FALSE /\ stopSet' = TRUE
    /\ UNCHANGED <<starts, poller, fresh, known, queue, made, listening>>

(* _check_ecu_state_changes: the event, if any, for one unit. *)
Change(e, old, new) ==
    IF old = "ONLINE" /\ new # "ONLINE"
    THEN <<[source |-> e, severity |-> IF e \in SafetyEcu THEN "HIGH" ELSE "MEDIUM",
            tamper |-> FALSE, injection |-> FALSE]>>
    ELSE IF old # "unknown" /\ new = "RESTARTING"
    THEN <<[source |-> e, severity |-> "MEDIUM", tamper |-> FALSE, injection |-> FALSE]>>
    ELSE <<>>

Numbered(events) == [i \in DOMAIN events |-> [no |-> made + i, event |-> events[i]]]

(* _emit: put_nowait drops what finds the queue full. *)
Emit(events) ==
    LET all == queue \o Numbered(events)
    IN  queue' = SubSeq(all, 1, IF Len(all) < QueueSize THEN Len(all) ELSE QueueSize)

(* _poll_once up to the comparison with the last status.  One unit changes *)
(* at a time.                                                               *)
Poll(p) ==
    \E e \in Ecu, s \in Reading :
        LET status == IF known = NotRead THEN [u \in Ecu |-> s] ELSE [known EXCEPT ![e] = s]
            events == Change(e, known[e], s)
        IN  /\ poller[p] = "wait" /\ ~stopSet
            /\ made + Len(events) <= MaxEvents
            /\ fresh' = [fresh EXCEPT ![p] = status]
            /\ poller' = [poller EXCEPT ![p] = "store"]
            /\ made' = made + Len(events) /\ Emit(events)
            /\ UNCHANGED <<running, stopSet, starts, known, listening>>

(* The status is kept; the checks of the bus and of the files follow. *)
Store(p) ==
    \E events \in {<<>>} \cup {<<o>> : o \in OtherEvent} :
        /\ poller[p] = "store"
        /\ made + Len(events) <= MaxEvents
        /\ known' = fresh[p] /\ fresh' = [fresh EXCEPT ![p] = NotRead]
        /\ poller' = [poller EXCEPT ![p] = "wait"]
        /\ made' = made + Len(events) /\ Emit(events)
        /\ UNCHANGED <<running, stopSet, starts, listening>>

PollEnds(p) ==
    /\ poller[p] = "wait" /\ stopSet
    /\ poller' = [poller EXCEPT ![p] = "none"]
    /\ UNCHANGED <<running, stopSet, starts, fresh, known, queue, made, listening>>

(* _dispatch_loop: the next event goes to the callback. *)
Take(p) ==
    /\ listening[p] = "wait" /\ queue # <<>>
    /\ queue' = Tail(queue)
    /\ listening' = [listening EXCEPT ![p] = "busy"]
    /\ UNCHANGED <<running, stopSet, starts, poller, fresh, known, made>>

CallbackReturns(p) ==
    /\ listening' = [listening EXCEPT ![p] = "wait"]
    /\ UNCHANGED <<running, stopSet, starts, poller, fresh, known, queue, made>>

DispatchEnds(p) ==
    /\ listening[p] = "wait" /\ stopSet /\ queue = <<>>
    /\ listening' = [listening EXCEPT ![p] = "none"]
    /\ UNCHANGED <<running, stopSet, starts, poller, fresh, known, queue, made>>
================================================================================
