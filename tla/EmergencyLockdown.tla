------------------------------- MODULE EmergencyLockdown -------------------------------
(***************************************************************************)
(* src/cybersecurity/vehicle_security/emergency_lockdown.py: the lockdown   *)
(* flag is changed under the lock, the scopes (network, updates, ...) are   *)
(* switched one after the other outside it, by the calling thread.  The     *)
(* switches themselves are external: action_callback(scope, enable) may     *)
(* refuse or raise, and nothing is known then of how it left the scope.     *)
(***************************************************************************)
EXTENDS Sequences, SequencesExt

CONSTANTS Scopes,       (* DEFAULT_SCOPES, in their order                    *)
          Fallible,     (* external: those whose switch may refuse or raise  *)
          LockCaller    (* the threads that trigger or release               *)

(* An empty list gives way to the default, which is not empty.             *)
ASSUME LockdownAssumption == Scopes \in Seq(ToSet(Scopes)) /\ Scopes # <<>>

VARIABLES
    locked,     (* LockdownState.locked_down                                *)
    disabled,   (* external: the scopes that have been switched off         *)
    refused,    (* external: those whose last switch refused or raised,     *)
                (* which may be on or off                                   *)
    switching   (* of each thread: what it is doing and the scopes left     *)

lockVars == <<locked, disabled, refused, switching>>

Idle == [what |-> "none", left |-> <<>>]

LockTypeOK ==
    /\ locked \in BOOLEAN /\ disabled \subseteq ToSet(Scopes) /\ refused \subseteq ToSet(Scopes)
    /\ \A t \in LockCaller :
        /\ switching[t].what \in {"none", "disable", "enable"}
        /\ IsSuffix(switching[t].left, Scopes) \/ IsSuffix(switching[t].left, Reverse(Scopes))

LockInit ==
    /\ locked = FALSE /\ disabled = {} /\ refused = {}
    /\ switching = [t \in LockCaller |-> Idle]
--------------------------------------------------------------------------------
(* trigger_lockdown(): an active lockdown is left alone. *)
Trigger(t) ==
    /\ switching[t] = Idle
    /\ locked' = TRUE
    /\ switching' = IF locked THEN switching
                    ELSE [switching EXCEPT ![t] = [what |-> "disable", left |-> Scopes]]
    /\ UNCHANGED <<disabled, refused>>

(* release_lockdown() with the right PIN; any other changes nothing here. *)
Release(t) ==
    /\ switching[t] = Idle /\ locked
    /\ locked' = FALSE
    /\ switching' = [switching EXCEPT ![t] = [what |-> "enable", left |-> Reverse(Scopes)]]
    /\ UNCHANGED <<disabled, refused>>

(* The callback returns True, or it returns False or raises. *)
Act(t) ==
    LET scope == Head(switching[t].left)
    IN  \/ /\ disabled' = IF switching[t].what = "disable"
                          THEN disabled \cup {scope} ELSE disabled \ {scope}
           /\ refused' = refused \ {scope}
        \/ scope \in Fallible /\ disabled' = disabled \ {scope} /\ refused' = refused \cup {scope}

(* Mutant of Switch: the loop ends with the first scope that refuses. *)
SwitchUntilRefused(t) ==
    /\ switching[t].left # <<>>
    /\ Act(t)
    /\ switching' = [switching EXCEPT ![t] =
                        IF Len(@.left) = 1 \/ Head(@.left) \in refused' THEN Idle
                        ELSE [what |-> @.what, left |-> Tail(@.left)]]
    /\ UNCHANGED locked

(* One turn of either loop over the scopes; it goes on after a failure. *)
Switch(t) ==
    /\ switching[t].left # <<>>
    /\ Act(t)
    /\ switching' = [switching EXCEPT ![t] =
                        IF Len(@.left) = 1 THEN Idle ELSE [what |-> @.what, left |-> Tail(@.left)]]
    /\ UNCHANGED locked

(* A thread switches scopes off while another switches them on again. *)
LockdownOverlap ==
    \E t, u \in LockCaller : switching[t].what = "disable" /\ switching[u].what = "enable"

NobodySwitches == \A t \in LockCaller : switching[t] = Idle
================================================================================
