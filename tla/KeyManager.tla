--------------------------------- MODULE KeyManager ---------------------------------
(***************************************************************************)
(* src/cybersecurity/encryption/key_manager.py: KeyManager.  The registry   *)
(* of keys in memory and the keystore file, which every change replaces as  *)
(* a whole by a rename.  Key material and usage are left out.  Keys are     *)
(* numbered in the order they are made; a deleted one keeps its metadata    *)
(* object, which threads may still hold, under the status DESTROYED.        *)
(***************************************************************************)
EXTENDS Integers, FiniteSets

CONSTANTS MaxKeys,          (* bound: keys made                             *)
          MaxFailures       (* bound: writes and loads of the keystore that fail *)

ASSUME KeyAssumption == MaxKeys \in Nat /\ MaxFailures \in Nat

VARIABLES
    store,      (* _store: status and version of each key, rotated_from (0:
                   none), and the key that its line of rotations began with *)
    disk,       (* the keystore file                                        *)
    unread,     (* history: keys in the file which the last load left out   *)
    created,    (* keys made so far                                         *)
    failures

keyVars == <<store, disk, unread, created, failures>>

Key == 1 .. MaxKeys
NoKey == [status |-> "none", version |-> 1, from |-> 0, first |-> 0]

Known(k) == store[k].status \in {"ACTIVE", "RETIRED"}
Registered(s) == [k \in Key |-> IF s[k].status = "DESTROYED" THEN NoKey ELSE s[k]]

KeyTypeOK ==
    /\ created \in 0 .. MaxKeys /\ failures \in 0 .. MaxFailures
    /\ store \in [Key -> [status : {"none", "ACTIVE", "RETIRED", "DESTROYED"},
                          version : 1 .. MaxKeys, from : 0 .. MaxKeys, first : 0 .. MaxKeys]]
    /\ disk \in [Key -> [status : {"none", "ACTIVE", "RETIRED"},
                         version : 1 .. MaxKeys, from : 0 .. MaxKeys, first : 0 .. MaxKeys]]
    /\ unread \subseteq 1 .. created
    /\ \A k \in Key : created < k => store[k] = NoKey /\ disk[k] = NoKey
    /\ \A k \in Key : store[k].first <= k /\ store[k].from < k

KeyInit ==
    /\ store = [k \in Key |-> NoKey] /\ disk = store /\ unread = {} /\ created = 0 /\ failures = 0

(* _persist_store() replaces the file by what the registry holds.  It may   *)
(* raise before the rename or, from os.chmod(), after it.                   *)
Fails == failures < MaxFailures /\ failures' = failures + 1
Persist(s) == store' = s /\ disk' = Registered(s) /\ UNCHANGED <<unread, failures>>
PersistFails(s) == store' = s /\ Fails /\ disk' \in {disk, Registered(s)} /\ UNCHANGED unread

(* create_key(), for the rotation of k or of its own (0). *)
WithNew(k) ==
    [store EXCEPT ![created + 1] =
        [status |-> "ACTIVE", version |-> 1, from |-> 0,
         first |-> IF k = 0 THEN created + 1 ELSE store[k].first]]
(* Mutant of WithStatus: a key that was deleted is put back. *)
WithStatusAnyway(k, status) == [store EXCEPT ![k].status = status]
(* set_status(); a key that is gone raises. *)
WithStatus(k, status) == IF Known(k) THEN [store EXCEPT ![k].status = status] ELSE store

(* _load_store() of the next process: an exception at any record is only    *)
(* logged, and the registry begins with the keys before it.                 *)
Load ==
    /\ \/ store' = disk /\ unread' = {} /\ UNCHANGED failures
       \/ /\ Fails
          /\ \E n \in {k \in Key : disk[k].status # "none"} :
                /\ store' = [k \in Key |-> IF k < n THEN disk[k] ELSE NoKey]
                /\ unread' = {k \in Key : n <= k /\ disk[k].status # "none"}
    /\ UNCHANGED <<disk, created>>
================================================================================
