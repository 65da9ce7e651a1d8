------------------------------- MODULE ControlNode -------------------------------
(***************************************************************************)
(* The ROS 2 node of hardware/raspberry_pi/ros2/control_node.py, composed  *)
(* with NavigationNode over /navigation/path.  Callbacks and the timer are *)
(* in one mutually exclusive group: each is one action.  /estop is         *)
(* transient local: its last message is delivered again to a node that     *)
(* subscribes later.  Time is counted in units of which the command        *)
(* watchdog allows Watchdog; it passes between any two callbacks.          *)
(***************************************************************************)
EXTENDS NavigationNode

CONSTANTS Watchdog      (* estop_on_watchdog_timeout_s                       *)

ASSUME WatchdogAssumption == Watchdog \in Nat

VARIABLES
    life,           (* lifecycle state                                      *)
    timer,          (* the timer exists                                     *)
    state,          (* ControlState                                         *)
    engaged,        (* _estop_engaged                                       *)
    path, idx,      (* poses of _current_path (-1: none yet), _path_idx     *)
    posed,          (* _current_pose is known                               *)
    near,           (* _obstacle_distance_m is below the safe distance      *)
    age,            (* time since _last_cmd_time, counted up to Watchdog + 1*)
    cmd,            (* the last command on /cmd_vel                         *)
    latched, fresh, (* the last message on /estop; it is still to be taken  *)
    invited         (* history: a path came in since the stop was released  *)

nodeVars == <<life, timer>>
fsmVars == <<state, engaged, path, idx, posed, near>>
outVars == <<age, cmd>>
estopVars == <<latched, fresh>>
ctlVars == <<nodeVars, fsmVars, outVars, estopVars, invited>>
vars == <<navVars, ctlVars>>

ControlState == {"IDLE", "FOLLOW_PATH", "AVOID_OBSTACLE", "ESTOP"}

ControlTypeOK ==
    /\ NavTypeOK
    /\ life \in Lifecycle /\ state \in ControlState
    /\ {timer, engaged, posed, near, fresh, invited} \subseteq BOOLEAN
    /\ path \in PathLengths \union {-1} /\ idx \in 0 .. (IF path = -1 THEN 0 ELSE path)
    /\ age \in 0 .. Watchdog + 1 /\ cmd \in {"zero", "move"}
    /\ latched \in {"none", "engage", "release"}

Init ==
    /\ NavInit
    /\ life = "unconfigured" /\ timer = FALSE
    /\ state = "IDLE" /\ engaged = FALSE /\ path = -1 /\ idx = 0
    /\ posed = FALSE /\ near = FALSE
    /\ age = 0 /\ cmd = "zero" /\ latched = "none" /\ fresh = FALSE
    /\ invited = FALSE
--------------------------------------------------------------------------------
(* _publish_cmd() of an activated publisher. *)
Publish(c) == cmd' = c /\ age' = 0

OnConfigure ==
    /\ life = "unconfigured" /\ life' = "inactive"
    /\ fresh' = (latched # "none")
    /\ UNCHANGED <<navVars, timer, fsmVars, outVars, latched, invited>>

OnActivate ==
    /\ life = "inactive" /\ life' = "active"
    /\ timer' = TRUE /\ age' = 0
    /\ UNCHANGED <<navVars, fsmVars, cmd, estopVars, invited>>

OnDeactivate ==
    /\ life = "active" /\ life' = "inactive"
    /\ timer' = FALSE /\ Publish("zero")
    /\ UNCHANGED <<navVars, fsmVars, estopVars, invited>>

(* on_cleanup(): the subscriptions go, path, pose and stop flag stay. *)
OnCleanup ==
    /\ life = "inactive" /\ life' = "unconfigured"
    /\ wire' = <<>> /\ fresh' = FALSE
    /\ UNCHANGED <<navLife, grid, navPose, goal, timer, fsmVars, outVars, latched, invited>>

(* on_shutdown() does nothing, so a running timer and publisher go on. *)
OnShutdown ==
    /\ life # "finalized" /\ life' = "finalized"
    /\ UNCHANGED <<navVars, timer, fsmVars, outVars, estopVars, invited>>

Subscribed == life # "unconfigured"

OnPath ==
    /\ Subscribed /\ wire # <<>>
    /\ wire' = Tail(wire)
    /\ path' = Head(wire) /\ idx' = 0 /\ state' = "FOLLOW_PATH"
    /\ invited' = TRUE
    /\ UNCHANGED <<navLife, grid, navPose, goal, nodeVars, engaged, posed, near, outVars, estopVars>>

OnObstacles ==
    /\ Subscribed /\ near' = ~near
    /\ UNCHANGED <<navVars, nodeVars, state, engaged, path, idx, posed, outVars, estopVars, invited>>

OnOdom ==
    /\ Subscribed /\ posed' = TRUE
    /\ UNCHANGED <<navVars, nodeVars, state, engaged, path, idx, near, outVars, estopVars, invited>>

(* Mutant of OnEstop: a release only clears the flag. *)
OnEstopFlagOnly ==
    /\ Subscribed /\ fresh /\ fresh' = FALSE
    /\ engaged' = (latched = "engage")
    /\ state' = IF engaged' THEN "ESTOP" ELSE state
    /\ invited' = IF engaged' THEN invited ELSE FALSE
    /\ UNCHANGED <<navVars, nodeVars, path, idx, posed, near, outVars, latched>>

(* Mutant of OnEstop: a message that arrives while a path is followed is dropped. *)
OnEstopNotUnderway ==
    /\ Subscribed /\ fresh /\ fresh' = FALSE
    /\ engaged' = (engaged \/ (latched = "engage" /\ state # "FOLLOW_PATH"))
    /\ state' = IF engaged' THEN "ESTOP" ELSE state
    /\ UNCHANGED <<navVars, nodeVars, path, idx, posed, near, outVars, latched, invited>>

OnEstop ==
    /\ Subscribed /\ fresh /\ fresh' = FALSE
    /\ engaged' = (latched = "engage")
    /\ state' = IF engaged' THEN "ESTOP" ELSE "IDLE"
    /\ invited' = IF engaged' THEN invited ELSE FALSE
    /\ UNCHANGED <<navVars, nodeVars, path, idx, posed, near, outVars, latched>>
--------------------------------------------------------------------------------
(***************************************************************************)
(* _on_timer(): the watchdog, then the state machine.                      *)
(***************************************************************************)
(* Mutant of Expired: off by one time unit. *)
ExpiredLate == age > Watchdog + 1 /\ ~engaged

Expired == age > Watchdog /\ ~engaged

(* Mutant of Stopped: the state machine looks at its state only. *)
StoppedByState == Expired \/ state = "ESTOP"

(* The stop is engaged, or the watchdog engages it in this cycle. *)
Stopped == Expired \/ engaged \/ state = "ESTOP"

(* The cycle of a vehicle with pose and path: at its end, at a waypoint    *)
(* (which publishes nothing), before an obstacle, or driving.              *)
FollowPath ==
    \/ idx >= path /\ state' = "IDLE" /\ Publish("zero") /\ UNCHANGED idx
    \/ idx < path /\ idx' = idx + 1 /\ UNCHANGED <<state, age, cmd>>
    \/ idx < path /\ near /\ state' = "AVOID_OBSTACLE" /\ Publish("zero") /\ UNCHANGED idx
    \/ idx < path /\ ~near /\ state' = "FOLLOW_PATH" /\ Publish("move") /\ UNCHANGED idx

OnTimer ==
    /\ timer
    /\ engaged' = (engaged \/ Expired)
    /\ \/ /\ Stopped
          /\ Publish("zero")
          /\ state' = IF Expired THEN "ESTOP" ELSE state
          /\ UNCHANGED idx
       \/ ~Stopped /\ state = "IDLE" /\ Publish("zero") /\ UNCHANGED <<state, idx>>
       \/ /\ ~Stopped /\ state # "IDLE" /\ (~posed \/ path = -1)
          /\ UNCHANGED <<state, idx, outVars>>
       \/ ~Stopped /\ state # "IDLE" /\ posed /\ path # -1 /\ FollowPath
    /\ UNCHANGED <<navVars, nodeVars, path, posed, near, estopVars, invited>>
--------------------------------------------------------------------------------
(* The environment: somebody publishes on /estop; time passes. *)
PublishEstop ==
    /\ latched' \in {"engage", "release"} /\ fresh' = TRUE
    /\ UNCHANGED <<navVars, nodeVars, fsmVars, outVars, invited>>

Elapse ==
    /\ age <= Watchdog /\ age' = age + 1
    /\ UNCHANGED <<navVars, nodeVars, fsmVars, cmd, estopVars, invited>>

Next ==
    \/ OnConfigure \/ OnActivate \/ OnDeactivate \/ OnCleanup \/ OnShutdown
    \/ OnPath \/ OnObstacles \/ OnOdom \/ OnEstop \/ OnTimer
    \/ PublishEstop \/ Elapse
    \/ NavNext /\ UNCHANGED ctlVars

Spec == Init /\ [][Next]_vars

FairSpec == Spec /\ WF_vars(OnTimer) /\ WF_vars(OnEstop)
--------------------------------------------------------------------------------
(***************************************************************************)
(* Properties.                                                             *)
(***************************************************************************)

(* A cycle that ends with the stop engaged has commanded a standstill,     *)
(* also when a path that came in meanwhile has moved the state machine out *)
(* of ESTOP.                                                               *)
StopHolds == [][OnTimer /\ engaged' => cmd' = "zero"]_vars

(* No cycle leaves a moving command older than the watchdog allows, though *)
(* cycles at waypoints and without a pose publish nothing.                 *)
MovingCommandIsFresh == [][OnTimer /\ cmd' = "move" => age' <= Watchdog]_vars

(* After a release the vehicle waits for a new path: neither the path it   *)
(* was on nor one that came in during the stop sets it in motion.          *)
RestartNeedsPath == [][cmd = "zero" /\ cmd' = "move" => invited]_vars

(* A node that is configured but not active has commanded a standstill.    *)
InactiveIsStill == life \in {"unconfigured", "inactive"} => cmd = "zero"

(* An engaged stop reaches the wheels, unless it is released first or the  *)
(* node is taken down.                                                     *)
StopTakesEffect ==
    fresh /\ latched = "engage" /\ life = "active" ~>
        cmd = "zero" \/ latched = "release" \/ life # "active"
================================================================================
