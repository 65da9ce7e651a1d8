----------------------------- MODULE NavigationNode -----------------------------
(***************************************************************************)
(* The ROS 2 node of hardware/raspberry_pi/ros2/navigation_node.py.  All   *)
(* callbacks are in one mutually exclusive group: each is one action.  The *)
(* grid, the pose and the goal are kept as "known or not"; whether the     *)
(* planner finds a path, and whether start and goal are in bounds and      *)
(* free, depends on them and is left open.                                 *)
(* A path is the number of its poses.                                      *)
(***************************************************************************)
EXTENDS Integers, Sequences

CONSTANTS
    PathLengths,    (* how many poses a published path may have             *)
    Depth           (* depth of the KEEP_LAST queue of /navigation/path     *)

(* A path without poses is never published: `if not path_cells: return'. *)
ASSUME NavigationAssumption ==
    PathLengths \subseteq Nat \ {0} /\ Depth \in Nat \ {0}

VARIABLES
    navLife,        (* lifecycle state                                      *)
    grid, navPose, goal,    (* NavigationNode._grid, _current_pose, _goal   *)
    wire            (* paths published and not yet taken by the subscriber  *)

navVars == <<navLife, grid, navPose, goal, wire>>

Lifecycle == {"unconfigured", "inactive", "active", "finalized"}

NavTypeOK ==
    /\ navLife \in Lifecycle
    /\ {grid, navPose, goal} \subseteq BOOLEAN
    /\ wire \in Seq(PathLengths) /\ Len(wire) <= Depth

NavInit ==
    /\ navLife = "unconfigured"
    /\ grid = FALSE /\ navPose = FALSE /\ goal = FALSE /\ wire = <<>>

(* Lifecycle transitions; on_cleanup drops subscriptions, not the data. *)
NavTransition ==
    /\ \/ navLife = "unconfigured" /\ navLife' = "inactive"     (* configure  *)
       \/ navLife = "inactive" /\ navLife' \in {"active", "unconfigured"}
       \/ navLife = "active" /\ navLife' = "inactive"           (* deactivate *)
    /\ UNCHANGED <<grid, navPose, goal, wire>>

Listening == navLife \in {"inactive", "active"}

(* The queue keeps the last Depth messages. *)
Enqueue(q, p) == IF Len(q) = Depth THEN Append(Tail(q), p) ELSE Append(q, p)

(* _replan(): returns without a word when something is missing or nothing  *)
(* is found; the publisher of an inactive node drops the path.             *)
Replan(known) ==
    \/ wire' = wire
    \/ /\ known /\ navLife = "active"
       /\ \E p \in PathLengths : wire' = Enqueue(wire, p)

NavOnMap ==
    /\ Listening /\ grid' = TRUE
    /\ UNCHANGED <<navLife, navPose, goal, wire>>

NavOnOdom ==
    /\ Listening /\ navPose' = TRUE
    /\ UNCHANGED <<navLife, grid, goal, wire>>

NavOnGoal ==
    /\ Listening /\ goal' = TRUE
    /\ Replan(grid /\ navPose)
    /\ UNCHANGED <<navLife, grid, navPose>>

NavOnTimer ==
    /\ navLife = "active"
    /\ Replan(grid /\ navPose /\ goal)
    /\ UNCHANGED <<navLife, grid, navPose, goal>>

NavNext == NavTransition \/ NavOnMap \/ NavOnOdom \/ NavOnGoal \/ NavOnTimer
================================================================================
