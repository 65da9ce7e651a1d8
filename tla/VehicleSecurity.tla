-------------------------------- MODULE VehicleSecurity --------------------------------
(***************************************************************************)
(* src/cybersecurity/vehicle_security/vehicle_security.py and               *)
(* incident_response.py: handle_security_event() runs in the dispatch       *)
(* threads of the monitor (_on_monitor_event) and in the threads of other   *)
(* modules that report events themselves.  It checks the safety goals,      *)
(* opens an incident for a severe violation, runs the containment step of   *)
(* the playbook, which locks the vehicle down, and locks it down for        *)
(* critical tampering.  One operator thread starts and stops the monitor,   *)
(* releases a lockdown, resets the safety state and works on incidents.     *)
(* Every call of log_event() may raise, since it writes its file unguarded  *)
(* (security_event_logger.py, _flush_locked); the handler ends there and    *)
(* the dispatch loop goes on (VehicleMonitor._dispatch_loop).               *)
(***************************************************************************)
EXTENDS SafetyMonitor, EmergencyLockdown, VehicleMonitor

CONSTANTS Reporter,         (* threads of other modules                      *)
          ReportedEvent,    (* what they report, once each                   *)
          Operator,         (* the operator thread                           *)
          MaxCommands       (* bound: releases, forced states, resets, goals *)
                            (* registered and steps on incidents             *)

Handler == Pair \cup Reporter

ASSUME SecurityAssumption ==
    /\ LockCaller = Handler \cup {Operator} /\ Operator \notin Handler
    /\ Reporter \cap Pair = {}
    /\ MaxCommands \in Nat

VARIABLES
    task,       (* of each handler: the event and the next step             *)
    incidents,  (* of each incident, in the order of opening: its status,   *)
                (* and the number of the event it was opened for            *)
    operator,   (* what the operator thread is in the middle of             *)
    reported,   (* the reporters that have had their say                    *)
    commands,   (* commands of the operator                                 *)
    alarms,     (* history: the severe events against a goal that handlers  *)
                (* have taken; an event of a reporter has its name for number*)
    silenced,   (* history: of the alarms, those whose handler the log      *)
    uncontained (* ended before it had opened an incident; those whose      *)
                (* handler it ended after that, before the containment      *)

historyVars == <<alarms, silenced, uncontained>>
securityVars == <<safetyVars, lockVars, monitorVars, task, incidents, operator, reported, commands, historyVars>>

NoTask == [at |-> "idle"]
IncidentStatus == {"REPORTED", "CONTAINING", "RECOVERING", "RESOLVED", "CLOSED"}

SecurityTypeOK ==
    /\ SafetyTypeOK /\ LockTypeOK /\ MonitorTypeOK
    /\ \A h \in Handler : task[h].at \in {"idle", "check", "compare", "set", "report",
                                          "contain", "contained", "tamper", "lock", "locking"}
    /\ \A i \in DOMAIN incidents : incidents[i].status \in IncidentStatus
    /\ commands \in 0 .. MaxCommands /\ operator \in {"idle", "resetting"} /\ reported \subseteq Reporter
    /\ \A p \in Pair : listening[p] = "busy" <=> task[p].at # "idle"
    /\ (alarms \cup silenced \cup uncontained) \subseteq (Nat \cup Reporter)

SecurityInit ==
    /\ SafetyInit /\ LockInit /\ MonitorInit
    /\ task = [h \in Handler |-> NoTask]
    /\ incidents = <<>> /\ operator = "idle" /\ reported = {} /\ commands = 0
    /\ alarms = {} /\ silenced = {} /\ uncontained = {}
--------------------------------------------------------------------------------
NoSafety == UNCHANGED safetyVars
NoLock == UNCHANGED lockVars
NoMonitor == UNCHANGED monitorVars
NoHistory == UNCHANGED historyVars

Goto(h, step) == task' = [task EXCEPT ![h].at = step]

Severe(event) == event.severity \in {"HIGH", "CRITICAL"}

BeginTask(h, event, no) ==
    /\ task' = [task EXCEPT ![h] = [at |-> "check", event |-> event, no |-> no, incident |-> 0]]
    /\ alarms' = IF Severe(event) /\ Affected(event.source) # {} THEN alarms \cup {no} ELSE alarms
    /\ UNCHANGED <<silenced, uncontained>>

(* _on_monitor_event: the dispatch thread of the monitor. *)
HandleMonitorEvent(p) ==
    /\ Take(p) /\ BeginTask(p, Head(queue).event, Head(queue).no)
    /\ NoSafety /\ NoLock /\ UNCHANGED <<incidents, operator, reported, commands>>

HandleReport(r) ==
    /\ r \notin reported /\ reported' = reported \cup {r}
    /\ \E event \in ReportedEvent : BeginTask(r, event, r)
    /\ NoSafety /\ NoLock /\ NoMonitor /\ UNCHANGED <<incidents, operator, commands>>

Event(h) == task[h].event

(* check_safety_violation: mark the goal, compare, set the state. *)
Check(h) ==
    /\ task[h].at = "check"
    /\ IF Affected(Event(h).source) = {}
       THEN Goto(h, "tamper") /\ NoSafety
       ELSE Goto(h, "compare") /\ MarkViolation(Event(h).severity, Target(Event(h).source))
    /\ NoLock /\ NoMonitor /\ NoHistory /\ UNCHANGED <<incidents, operator, reported, commands>>

(* Mutant of AfterSafety: only critical violations become incidents. *)
AfterSafetyCritical(event) == IF event.severity = "CRITICAL" THEN "report" ELSE "tamper"

AfterSafety(event) == IF Severe(event) THEN "report" ELSE "tamper"

Compare(h) ==
    /\ task[h].at = "compare"
    /\ Goto(h, IF Worsens(Event(h).severity, Target(Event(h).source))
               THEN "set" ELSE AfterSafety(Event(h)))
    /\ NoSafety /\ NoLock /\ NoMonitor /\ NoHistory /\ UNCHANGED <<incidents, operator, reported, commands>>

Set(h) ==
    /\ task[h].at = "set"
    /\ SetState(ComputeNewState(Event(h).severity, Target(Event(h).source)))
    /\ Goto(h, AfterSafety(Event(h)))
    /\ NoLock /\ NoMonitor /\ NoHistory /\ UNCHANGED <<incidents, operator, reported, commands>>

Finish(h) ==
    /\ task' = [task EXCEPT ![h] = NoTask]
    /\ IF h \in Pair THEN CallbackReturns(h) ELSE NoMonitor

(* log_event() raises, at the head of the handler or after a violation was *)
(* found (_set_state(), check_safety_violation()).                         *)
LogFails(h) ==
    /\ task[h].at \in {"check", "report"}
    /\ silenced' = silenced \cup ({task[h].no} \cap alarms) /\ Finish(h)
    /\ NoSafety /\ NoLock /\ UNCHANGED <<incidents, operator, reported, commands, alarms, uncontained>>

Opened(h) ==
    /\ task[h].at = "report"
    /\ incidents' = Append(incidents, [no |-> task[h].no, status |-> "REPORTED"])
    /\ NoSafety /\ UNCHANGED <<operator, reported, commands, alarms, silenced>>

(* Handed over to the playbook, which may have a lockdown to carry out. *)
ToPlaybook(h, step) ==
    /\ task' = [task EXCEPT ![h].at = step, ![h].incident = Len(incidents) + 1]
    /\ NoMonitor /\ UNCHANGED uncontained

(* Mutant of Report: the playbook for injected bus frames is run for all. *)
ReportForBus(h) == Opened(h) /\ ToPlaybook(h, "contained") /\ NoLock

(* auto_classify, by what the event says of itself. *)
Playbook(event) == IF event.injection THEN "CAN_BUS_INJECTION" ELSE "DEFAULT"

(* The containment step of a playbook: that for injected bus frames         *)
(* isolates the identifier only, the others lock the vehicle down.          *)
ContainStep(h, playbook) == IF playbook = "CAN_BUS_INJECTION" THEN NoLock ELSE Trigger(h)

(* _auto_report_incident: a new incident, and the start of its containment, *)
(* unless the log raises between the two.                                   *)
Report(h) ==
    /\ Opened(h)
    /\ \/ /\ ToPlaybook(h, IF locked \/ Playbook(Event(h)) = "CAN_BUS_INJECTION" THEN "contained" ELSE "contain")
          /\ ContainStep(h, Playbook(Event(h)))
       \/ Finish(h) /\ NoLock /\ uncontained' = uncontained \cup {task[h].no}

(* run_playbook writes the status of the step over whatever it finds; the   *)
(* step has failed if the log raised after a lockdown.  The log may raise   *)
(* once more after that.                                                    *)
Contained(h) ==
    /\ task[h].at \in {"contain", "contained"} /\ switching[h] = Idle
    /\ \E status \in {"CONTAINING"} \cup (IF task[h].at = "contain" THEN {"RECOVERING"} ELSE {}) :
          incidents' = [incidents EXCEPT ![task[h].incident].status = status]
    /\ (Goto(h, "tamper") /\ NoMonitor) \/ Finish(h)
    /\ NoSafety /\ NoLock /\ NoHistory /\ UNCHANGED <<operator, reported, commands>>

(* Critical tampering: is_locked_down() first, then the lockdown. *)
Tamper(h) ==
    /\ task[h].at = "tamper"
    /\ IF Event(h).tamper /\ Event(h).severity = "CRITICAL" /\ ~locked
       THEN Goto(h, "lock") /\ NoMonitor ELSE Finish(h)
    /\ NoSafety /\ NoLock /\ NoHistory /\ UNCHANGED <<incidents, operator, reported, commands>>

Lock(h) ==
    /\ task[h].at = "lock"
    /\ Trigger(h) /\ Goto(h, "locking")
    /\ NoSafety /\ NoMonitor /\ NoHistory /\ UNCHANGED <<incidents, operator, reported, commands>>

Locked(h) ==
    /\ task[h].at = "locking" /\ switching[h] = Idle
    /\ Finish(h)
    /\ NoSafety /\ NoLock /\ NoHistory /\ UNCHANGED <<incidents, operator, reported, commands>>

SwitchScope(t) ==
    /\ Switch(t)
    /\ NoSafety /\ NoMonitor /\ NoHistory /\ UNCHANGED <<task, incidents, operator, reported, commands>>
--------------------------------------------------------------------------------
(* The operator thread does one thing at a time. *)
OperatorFree == operator = "idle" /\ switching[Operator] = Idle

Command == OperatorFree /\ commands < MaxCommands /\ commands' = commands + 1

StartMonitor ==
    /\ OperatorFree /\ Start
    /\ NoSafety /\ NoLock /\ NoHistory /\ UNCHANGED <<task, incidents, operator, reported, commands>>

StopMonitor ==
    /\ OperatorFree /\ Stop
    /\ NoSafety /\ NoLock /\ NoHistory /\ UNCHANGED <<task, incidents, operator, reported, commands>>

ReleaseLockdown ==
    /\ Command /\ Release(Operator)
    /\ NoSafety /\ NoMonitor /\ NoHistory /\ UNCHANGED <<task, incidents, operator, reported>>

(* trigger_safe_state() and trigger_emergency_stop(). *)
ForceState(state) ==
    /\ Command /\ SetState(state)
    /\ NoLock /\ NoMonitor /\ NoHistory /\ UNCHANGED <<task, incidents, operator, reported>>

(* reset_to_normal(): the look at the goals, then the state. *)
ResetCheck ==
    /\ Command /\ AllSatisfied /\ operator' = "resetting"
    /\ NoSafety /\ NoLock /\ NoMonitor /\ NoHistory /\ UNCHANGED <<task, incidents, reported>>

ResetSet ==
    /\ operator = "resetting" /\ operator' = "idle" /\ SetState("NORMAL")
    /\ NoLock /\ NoMonitor /\ NoHistory /\ UNCHANGED <<task, incidents, reported, commands>>

Reregister(g) ==
    /\ Command /\ ~satisfied[g] /\ RegisterGoal(g)
    /\ NoLock /\ NoMonitor /\ NoHistory /\ UNCHANGED <<task, incidents, operator, reported>>

(* run_playbook() with the steps after containment, whose statuses nobody   *)
(* looks at before the last one, and close_incident().                      *)
SetStatus(i, status) ==
    /\ Command /\ incidents' = [incidents EXCEPT ![i].status = status]
    /\ NoSafety /\ NoLock /\ NoMonitor /\ NoHistory /\ UNCHANGED <<task, operator, reported>>

OperatorStep ==
    \/ StartMonitor \/ StopMonitor \/ ReleaseLockdown \/ ResetCheck \/ ResetSet
    \/ ForceState("FAIL_SAFE") \/ ForceState("EMERGENCY_STOP")
    \/ \E g \in Goal : Reregister(g)
    \/ \E i \in DOMAIN incidents :
          \E status \in {"RESOLVED", "CLOSED"} : SetStatus(i, status)

MonitorOnly == NoSafety /\ NoLock /\ NoHistory /\ UNCHANGED <<task, incidents, operator, reported, commands>>

MonitorStep(p) == (Poll(p) \/ Store(p) \/ PollEnds(p) \/ DispatchEnds(p)) /\ MonitorOnly

HandlerStep(h) ==
    \/ Check(h) \/ Compare(h) \/ Set(h) \/ LogFails(h) \/ Report(h) \/ Contained(h)
    \/ Tamper(h) \/ Lock(h) \/ Locked(h)

SecurityNext ==
    \/ OperatorStep
    \/ \E p \in Pair : MonitorStep(p) \/ HandleMonitorEvent(p)
    \/ \E r \in Reporter : HandleReport(r)
    \/ \E h \in Handler : HandlerStep(h)
    \/ \E t \in LockCaller : SwitchScope(t)

SecuritySpec == SecurityInit /\ [][SecurityNext]_securityVars

(* Threads that have something to do get to do it.  The operator does what *)
(* it likes and when; a reset that it began ends.                           *)
SecurityFairness ==
    /\ \A p \in Pair : WF_securityVars(HandleMonitorEvent(p)) /\ WF_securityVars(MonitorStep(p))
    /\ \A h \in Handler : WF_securityVars(HandlerStep(h))
    /\ \A t \in LockCaller : WF_securityVars(SwitchScope(t))
    /\ WF_securityVars(ResetSet)

SecurityFairSpec == SecuritySpec /\ SecurityFairness
--------------------------------------------------------------------------------
(* Every severe event against a goal that a handler has taken has an        *)
(* incident of its own, or its handler is on the way to open it, or the log *)
(* has raised in that handler before.                                       *)
SevereBreachHasIncident ==
    \A a \in alarms :
        \/ \E i \in DOMAIN incidents : incidents[i].no = a
        \/ \E h \in Handler : task[h].at \in {"check", "compare", "set", "report"} /\ task[h].no = a
        \/ a \in silenced

(* The types, and the record of severe breaches                             *)
(* (handle_security_event(), _auto_report_incident()).                      *)
SecurityInv == SecurityTypeOK /\ SevereBreachHasIncident

(* Two threads change the safety state at a time: two handlers between      *)
(* their marks and their states, or a reset that has looked at the goals    *)
(* before one of them was breached.                                         *)
SafetyOverlap ==
    \/ \E h, k \in Handler : /\ h # k /\ task[h].at \in {"compare", "set"}
                             /\ task[k].at \in {"compare", "set"}
    \/ operator = "resetting" /\ ~AllSatisfied

(* As long as such overlaps do not happen, the vehicle is at least as       *)
(* limited as the worst violation of a goal that still stands asks for.     *)
GoalsLimitState ==
    [](~SafetyOverlap) =>
        [](\A g \in Goal :
              \/ breach[g] <= Weight(safety)
              \/ \E h \in Handler : task[h].at \in {"compare", "set"} /\ Target(Event(h).source) = g)

(* As long as no lockdown is switching scopes off while a release switches  *)
(* them on, all scopes are off when the vehicle is locked and nobody is     *)
(* switching, and all are on when it is not, but for those that refused     *)
(* themselves: one that fails does not keep the others from being switched. *)
ScopesFollowFlag ==
    [](~LockdownOverlap) =>
        [](NobodySwitches => \A s \in ToSet(Scopes) \ refused : s \in disabled <=> locked)

(* The loss of a safety unit that waits in the queue of a live dispatch     *)
(* thread leads to a lockdown, even when the monitor is stopped meanwhile,  *)
(* unless the log raises while that very event is handled.                  *)
OutageLocksDown ==
    \A n \in 1 .. MaxEvents :
        (/\ \E p \in Pair : listening[p] # "none"
         /\ \E i \in DOMAIN queue : /\ queue[i].no = n /\ queue[i].event.severity = "HIGH"
                                    /\ queue[i].event.source \in SafetyEcu)
            ~> (locked \/ n \in silenced \cup uncontained)
================================================================================
