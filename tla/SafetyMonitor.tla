--------------------------------- MODULE SafetyMonitor ---------------------------------
(***************************************************************************)
(* src/cybersecurity/vehicle_security/safety_monitor.py: SafetyMonitor, the *)
(* safety goals and the safety state.  A thread that reports a violation    *)
(* marks the goal under the lock, compares the new state with the present   *)
(* one outside it and sets the state under the lock again; reset_to_normal  *)
(* looks at the goals under the lock and sets the state afterwards.         *)
(***************************************************************************)
EXTENDS Naturals, Sequences, SequencesExt

CONSTANTS Goals,        (* the goals in the order of the table DEFAULT_GOALS *)
          Asil,         (* Asil[g]: "C" or "D"                               *)
          RelatedEcus   (* RelatedEcus[g]: the sources that affect the goal  *)

Goal == ToSet(Goals)

ASSUME SafetyAssumption ==
    /\ Asil \in [Goal -> {"C", "D"}] /\ DOMAIN RelatedEcus = Goal

VARIABLES
    safety,     (* _state                                                   *)
    satisfied,  (* SafetyGoal.satisfied                                     *)
    breach      (* of _violations: the weight of the state that the worst   *)
                (* one since the goal was registered asks for               *)

safetyVars == <<safety, satisfied, breach>>

SafetyState == {"NORMAL", "DEGRADED", "LIMP_HOME", "FAIL_SAFE", "EMERGENCY_STOP"}
Severity == {"INFO", "LOW", "MEDIUM", "HIGH", "CRITICAL"}

Weight(s) == CASE s = "NORMAL" -> 0 [] s = "DEGRADED" -> 1 [] s = "LIMP_HOME" -> 2
               [] s = "FAIL_SAFE" -> 3 [] OTHER -> 4

SafetyTypeOK ==
    /\ safety \in SafetyState
    /\ satisfied \in [Goal -> BOOLEAN] /\ breach \in [Goal -> 0 .. 4]

SafetyInit ==
    /\ safety = "NORMAL"
    /\ satisfied = [g \in Goal |-> TRUE] /\ breach = [g \in Goal |-> 0]
--------------------------------------------------------------------------------
Affected(source) == {g \in Goal : source \in RelatedEcus[g]}

(* max(affected_goals, key=weight): the first goal of the highest level. *)
Target(source) ==
    LET found == SelectSeq(Goals, LAMBDA g : g \in Affected(source))
        top == SelectSeq(found, LAMBDA g : Asil[g] = "D")
    IN  Head(IF top = <<>> THEN found ELSE top)

(* Mutant of ComputeNewState: HIGH is looked up by the row below its own. *)
ComputeTooMild(severity, goal) ==
    CASE severity = "CRITICAL" -> "FAIL_SAFE"
      [] severity \in {"HIGH", "MEDIUM"} -> "DEGRADED"
      [] OTHER -> "NORMAL"

ComputeNewState(severity, goal) ==
    CASE severity = "CRITICAL" -> "FAIL_SAFE"
      [] severity = "HIGH" /\ Asil[goal] = "D" -> "LIMP_HOME"
      [] severity = "HIGH" \/ severity = "MEDIUM" -> "DEGRADED"
      [] OTHER -> "NORMAL"

(* What a violation of this severity asks for, by the table of the class. *)
AsksFor(severity, goal) ==
    CASE severity = "CRITICAL" -> 3
      [] severity = "HIGH" /\ Asil[goal] = "D" -> 2
      [] severity \in {"HIGH", "MEDIUM"} -> 1
      [] OTHER -> 0

(* check_safety_violation, the part under the lock. *)
MarkViolation(severity, goal) ==
    /\ satisfied' = [satisfied EXCEPT ![goal] = FALSE]
    /\ breach' = [breach EXCEPT ![goal] =
                    IF AsksFor(severity, goal) > @ THEN AsksFor(severity, goal) ELSE @]
    /\ UNCHANGED safety

(* Its comparison, without the lock. *)
Worsens(severity, goal) == Weight(ComputeNewState(severity, goal)) > Weight(safety)

SetState(new) == safety' = new /\ UNCHANGED <<satisfied, breach>>

(* The guard of reset_to_normal(). *)
AllSatisfied == \A g \in Goal : satisfied[g]

(* register_safety_goal() with a fresh goal of the same name. *)
RegisterGoal(g) ==
    /\ satisfied' = [satisfied EXCEPT ![g] = TRUE]
    /\ breach' = [breach EXCEPT ![g] = 0]
    /\ UNCHANGED safety
================================================================================
