--------------------------------- MODULE KeyRotation ---------------------------------
(***************************************************************************)
(* src/cybersecurity/encryption/key_rotation.py: KeyRotationManager.  The   *)
(* scheduler thread and an administrator rotate keys of one KeyManager,     *)
(* each in several calls between which the other may act, the keystore may  *)
(* fail to be written and the process may be killed.  The scheduler runs    *)
(* from the start of the process; stop_scheduler() is left out.             *)
(***************************************************************************)
EXTENDS KeyManager

CONSTANTS Scheduler, Admin, (* the two threads                              *)
          MaxNew,           (* bound: keys made up to which a new line begins *)
          MaxCrashes        (* bound: times the process is killed           *)

ASSUME RotationAssumption ==
    /\ Admin # Scheduler /\ MaxCrashes \in Nat /\ MaxNew \in 0 .. MaxKeys

VARIABLES
    rotation,   (* how far each thread's rotate_key() is, and its two keys  *)
    tick,       (* the stage of _tick(), keys yet to see, keys expired at its start *)
    scheduled,  (* _scheduled: rotations asked for, and whether they are due *)
    expired,    (* keys past their TTL                                      *)
    completed,  (* history: rotations that returned, of which _history is told *)
    hasty,      (* history: keys whose version was taken from a key that another
                   rotation had made and not given its version yet         *)
    crashes

vars == <<keyVars, rotation, tick, scheduled, expired, completed, hasty, crashes>>

Actors == {Scheduler, Admin}
NoRotation == [pc |-> "idle", key |-> 0, new |-> 0]
Asleep == [stage |-> "wait", todo |-> {}, now |-> {}]

RotationTypeOK ==
    /\ KeyTypeOK
    /\ rotation \in [Actors -> [pc : {"idle", "create", "bump", "retire", "end"},
                                key : 0 .. MaxKeys, new : 0 .. MaxKeys]]
    /\ \A a \in Actors : rotation[a].pc \in {"bump", "retire"} =>
            rotation[a].key < rotation[a].new /\ rotation[a].new <= created
    /\ tick \in [stage : {"wait", "scheduled", "expired"}, todo : SUBSET Key, now : SUBSET Key]
    /\ scheduled \in [Key -> {"no", "later", "due"}] /\ expired \subseteq 1 .. created
    /\ completed \subseteq Key \X Key /\ hasty \subseteq Key /\ crashes \in 0 .. MaxCrashes

Init ==
    /\ KeyInit
    /\ rotation = [a \in Actors |-> NoRotation] /\ tick = Asleep
    /\ scheduled = [k \in Key |-> "no"] /\ expired = {} /\ completed = {}
    /\ hasty = {} /\ crashes = 0
--------------------------------------------------------------------------------
(* rotate_key(): the calls of one rotation. *)
At(a, pc, key, new) == rotation' = [rotation EXCEPT ![a] = [pc |-> pc, key |-> key, new |-> new]]
(* The administrator's call returns or raises; a scheduler goes on. *)
Ends(a) == IF a = Admin THEN At(a, "idle", 0, 0) ELSE At(a, "end", rotation[a].key, 0)

(* get_key() of a key that is gone raises. *)
Begin(a, k) == At(a, IF Known(k) THEN "create" ELSE "end", k, 0)

(* Mutant of Create: the old key is retired first. *)
CreateAfterRetiring(a) ==
    /\ rotation[a].pc = "create" /\ created < MaxKeys
    /\ \/ /\ Known(rotation[a].key) /\ store[rotation[a].key].status = "ACTIVE"
          /\ Persist(WithStatus(rotation[a].key, "RETIRED")) /\ UNCHANGED <<rotation, created>>
       \/ /\ store[rotation[a].key].status # "ACTIVE" /\ created' = created + 1
          /\ Persist(WithNew(rotation[a].key)) /\ At(a, "bump", rotation[a].key, created + 1)
    /\ UNCHANGED <<tick, scheduled, expired, completed, hasty, crashes>>

Create(a) ==
    /\ rotation[a].pc = "create"
    /\ \/ /\ created < MaxKeys /\ created' = created + 1
          /\ \/ Persist(WithNew(rotation[a].key)) /\ At(a, "bump", rotation[a].key, created + 1)
             \/ PersistFails(WithNew(rotation[a].key)) /\ Ends(a)
       \/ created = MaxKeys /\ Ends(a) /\ UNCHANGED keyVars
    /\ UNCHANGED <<tick, scheduled, expired, completed, hasty, crashes>>

(* Mutant of Bump: the new key keeps the version it was made with. *)
BumpNothing(a) ==
    /\ rotation[a].pc = "bump" /\ At(a, "retire", rotation[a].key, rotation[a].new)
    /\ UNCHANGED <<keyVars, tick, scheduled, expired, completed, hasty, crashes>>

(* Version and origin are set in memory only; the old key's version may be  *)
(* set meanwhile, by the rotation that made it.                             *)
Bump(a) ==
    LET r == rotation[a]
    IN  /\ r.pc = "bump"
        /\ IF Known(r.new)
           THEN /\ store' = [store EXCEPT ![r.new] =
                    [@ EXCEPT !.version = store[r.key].version + 1, !.from = r.key]]
                /\ hasty' = IF \E b \in Actors : rotation[b].pc = "bump" /\ rotation[b].new = r.key
                            THEN hasty \cup {r.new} ELSE hasty
                /\ At(a, "retire", r.key, r.new)
           ELSE Ends(a) /\ UNCHANGED <<store, hasty>>
        /\ UNCHANGED <<disk, unread, created, failures, tick, scheduled, expired, completed, crashes>>

Retire(a) ==
    LET r == rotation[a]
    IN  /\ r.pc = "retire" /\ Ends(a)
        /\ IF WithStatus(r.key, "RETIRED")[r.key].status # "RETIRED"
           THEN UNCHANGED <<keyVars, completed>>
           ELSE /\ UNCHANGED created
                /\ \/ /\ Persist(WithStatus(r.key, "RETIRED"))
                      /\ completed' = completed \cup {<<r.key, r.new>>}
                   \/ PersistFails(WithStatus(r.key, "RETIRED")) /\ UNCHANGED completed
        /\ UNCHANGED <<tick, scheduled, expired, hasty, crashes>>
--------------------------------------------------------------------------------
(* The scheduler thread. *)
(* _tick() takes the time and the rotations that are due. *)
BeginTick ==
    /\ tick.stage = "wait"
    /\ tick' = [stage |-> "scheduled", now |-> expired, todo |-> {k \in Key : scheduled[k] = "due"}]
    /\ UNCHANGED <<keyVars, rotation, scheduled, expired, completed, hasty, crashes>>

RotateNext ==
    /\ rotation[Scheduler].pc = "idle" /\ \E k \in tick.todo : Begin(Scheduler, k)
    /\ UNCHANGED <<keyVars, tick, scheduled, expired, completed, hasty, crashes>>

(* The entry is deleted after the rotation, whatever it says by now.        *)
Conclude ==
    LET k == rotation[Scheduler].key
    IN  /\ rotation[Scheduler].pc = "end" /\ At(Scheduler, "idle", 0, 0)
        /\ tick' = [tick EXCEPT !.todo = @ \ {k}]
        /\ scheduled' = IF tick.stage = "scheduled" THEN [scheduled EXCEPT ![k] = "no"] ELSE scheduled
        /\ UNCHANGED <<keyVars, expired, completed, hasty, crashes>>

(* Mutant of ListExpired: the keys that are not active are listed. *)
ListRetired == {k \in tick.now : store[k].status = "RETIRED"}
ListExpired == {k \in tick.now : store[k].status = "ACTIVE"}

Seen == tick.todo = {} /\ rotation[Scheduler].pc = "idle"

SecondStage ==
    /\ tick.stage = "scheduled" /\ Seen
    /\ tick' = [stage |-> "expired", todo |-> ListExpired, now |-> {}]
    /\ UNCHANGED <<keyVars, rotation, scheduled, expired, completed, hasty, crashes>>

EndTick ==
    /\ tick.stage = "expired" /\ Seen /\ tick' = Asleep
    /\ UNCHANGED <<keyVars, rotation, scheduled, expired, completed, hasty, crashes>>
--------------------------------------------------------------------------------
(* The administrator, and time. *)
NewKey ==
    /\ rotation[Admin].pc = "idle" /\ created < MaxNew
    /\ created' = created + 1 /\ (Persist(WithNew(0)) \/ PersistFails(WithNew(0)))
    /\ UNCHANGED <<rotation, tick, scheduled, expired, completed, hasty, crashes>>

RotateByHand(k) ==
    /\ rotation[Admin].pc = "idle" /\ Known(k) /\ Begin(Admin, k)
    /\ UNCHANGED <<keyVars, tick, scheduled, expired, completed, hasty, crashes>>

(* retire_key(): the grace period is only warned about. *)
RetireKey(k) ==
    /\ rotation[Admin].pc = "idle" /\ store[k].status = "RETIRED"
    /\ UNCHANGED created
    /\ (Persist(WithStatus(k, "DESTROYED")) \/ PersistFails(WithStatus(k, "DESTROYED")))
    /\ UNCHANGED <<rotation, tick, scheduled, expired, completed, hasty, crashes>>

(* Bound: one key is scheduled at a time. *)
ScheduleRotation(k) ==
    /\ rotation[Admin].pc = "idle" /\ Known(k)
    /\ \A j \in Key : scheduled[j] # "no" => j = k
    /\ scheduled' = [scheduled EXCEPT ![k] = "later"]
    /\ UNCHANGED <<keyVars, rotation, tick, expired, completed, hasty, crashes>>

TimeComes(k) ==
    /\ scheduled[k] = "later" /\ scheduled' = [scheduled EXCEPT ![k] = "due"]
    /\ UNCHANGED <<keyVars, rotation, tick, expired, completed, hasty, crashes>>

(* It matters while the key is active.  Bound: one active key at a time is  *)
(* past its TTL.                                                            *)
Expire(k) ==
    /\ \A j \in expired : store[j].status # "ACTIVE"
    /\ store[k].status = "ACTIVE" /\ k \notin expired /\ expired' = expired \cup {k}
    /\ UNCHANGED <<keyVars, rotation, tick, scheduled, completed, hasty, crashes>>

(* The process is killed, and the next one loads the keystore. *)
Crash ==
    /\ crashes < MaxCrashes /\ crashes' = crashes + 1 /\ Load
    /\ rotation' = [a \in Actors |-> NoRotation] /\ tick' = Asleep
    /\ scheduled' = [k \in Key |-> "no"] /\ UNCHANGED <<expired, completed, hasty>>

Rotate(a) == Create(a) \/ Bump(a) \/ Retire(a)
Tick == BeginTick \/ RotateNext \/ Conclude \/ SecondStage \/ EndTick

Next ==
    \/ \E a \in Actors : Rotate(a)
    \/ Tick \/ NewKey \/ Crash
    \/ \E k \in Key : RotateByHand(k) \/ RetireKey(k) \/ ScheduleRotation(k) \/ TimeComes(k) \/ Expire(k)

(* The scheduler's thread is scheduled. *)
Fairness == WF_vars(Rotate(Scheduler) \/ Tick)

Spec == Init /\ [][Next]_vars /\ Fairness
--------------------------------------------------------------------------------
Lines(s) == {s[k].first : k \in {j \in Key : s[j].status = "ACTIVE"}}

LinesOf(keys) == {disk[k].first : k \in keys}

(* A line of keys that has an active key in the keystore does not lose it,  *)
(* whoever rotates, retires and is killed in between, and the registry in   *)
(* memory loses one only with the process: the new key is stored before the *)
(* old one is retired.  The exception are the keys that a failed load left  *)
(* out of the registry, which the next write erases from the file.          *)
NeverWithout ==
    [][/\ Lines(disk) \subseteq Lines(disk') \cup LinesOf(unread)
       /\ crashes' = crashes => Lines(store) \subseteq Lines(store')]_vars

(* The origin and the version of a new key, which rotate_key() sets in      *)
(* memory only, are in the keystore once the rotation has returned, also    *)
(* after a crash: it names the key it replaced and is one version later,    *)
(* unless that key's own rotation was not through with its version (two     *)
(* rotations of one key make two keys of the same version).                 *)
LineageIsKept ==
    \A r \in completed :
        LET old == disk[r[1]]
            new == disk[r[2]]
        IN  new.status # "none" =>
                /\ new.from = r[1] /\ new.version >= 2
                /\ old.status # "none" /\ r[2] \notin hasty => new.version = old.version + 1

(* In the keystore a key only gets older: active, retired, gone.  No crash, *)
(* failed write or late call makes a retired key active or puts a key that  *)
(* the registry does not hold (any more) back into the file.                *)
KeysOnlyAge ==
    [][\A k \in Key :
        /\ disk[k].status = "RETIRED" => disk'[k].status # "ACTIVE"
        /\ disk[k].status = "none" => disk'[k].status # "RETIRED"
        /\ k <= created /\ ~Known(k) => disk'[k].status \in {disk[k].status, "none"}]_vars

(* A key past its TTL does not stay active, through failed writes and       *)
(* restarts (unless the numbers of the model are used up).                  *)
ExpiredIsRotated ==
    \A k \in Key :
        (k \in expired /\ store[k].status = "ACTIVE")
            ~> (store[k].status # "ACTIVE" \/ created = MaxKeys)
================================================================================
