--------------------------------- MODULE ObjectTracker ---------------------------------
(***************************************************************************)
(* src/src/perception/object_tracker.py: ObjectTracker.  update() predicts, *)
(* assigns the detections of the frame to the tracks, updates what matched, *)
(* makes tracks of the detections left over and handles the misses.         *)
(* The assignment solver works on a matrix that is infinite for pairs out   *)
(* of range: it matches the whole smaller side, or raises an error that     *)
(* ends update() after the prediction.  Positions are left out; any outcome *)
(* that some positions bring about may happen.                              *)
(***************************************************************************)
EXTENDS Integers, FiniteSets

CONSTANTS MaxTracks,        (* bound: tracks made since the last reset       *)
          MaxDetections,    (* bound: detections in a frame                  *)
          MinHits, MaxAge, MaxCoasting

ASSUME TrackerAssumption ==
    /\ MaxTracks \in Nat \ {0} /\ MaxDetections \in Nat
    /\ MinHits \in Nat \ {0} /\ MaxAge \in Nat /\ MaxCoasting \in Nat

VARIABLES
    tracks,     (* _tracks: state, hit_streak and miss_streak of each       *)
    nextId,     (* _next_id                                                 *)
    streak,     (* history: detections in a row, and the most of them        *)
    matched,    (* the tracks that the last frame updated                   *)
    outcome     (* how the last call of update() ended                      *)

trackerVars == <<tracks, nextId, streak, matched, outcome>>

TrackId == 0 .. MaxTracks - 1
TrackState == {"TENTATIVE", "CONFIRMED", "COASTING", "LOST"}

(* Streaks matter up to the largest number they are compared with. *)
MissBound == IF MaxAge > MaxCoasting THEN IF MaxAge > 3 THEN MaxAge + 1 ELSE 4
             ELSE IF MaxCoasting > 3 THEN MaxCoasting + 1 ELSE 4
UpTo(bound, n) == IF n > bound THEN bound ELSE n

NoStreak == [now |-> 0, most |-> 0]
NextStreak(s, seen) ==
    LET now == IF seen THEN UpTo(MinHits, s.now + 1) ELSE 0
    IN  [now |-> now, most |-> IF now > s.most THEN now ELSE s.most]

NoTrack == [state |-> "none", hits |-> 0, misses |-> 0]
Live == {t \in TrackId : tracks[t].state # "none"}
Active == {t \in Live : tracks[t].state # "LOST"}

TrackerTypeOK ==
    /\ tracks \in [TrackId -> [state : TrackState \cup {"none"},
                               hits : 0 .. MinHits, misses : 0 .. MissBound]]
    /\ nextId \in 0 .. MaxTracks /\ streak \in [TrackId -> [now : 0 .. MinHits, most : 0 .. MinHits]]
    /\ \A t \in TrackId : nextId <= t => tracks[t] = NoTrack
    /\ matched \subseteq TrackId /\ outcome \in {"ok", "error"}

TrackerInit ==
    /\ tracks = [t \in TrackId |-> NoTrack] /\ nextId = 0
    /\ streak = [t \in TrackId |-> NoStreak] /\ matched = {} /\ outcome = "ok"
--------------------------------------------------------------------------------
(* _update_track: a hit; a lost track stays lost. *)
Hit(track) ==
    LET hits == UpTo(MinHits, track.hits + 1)
    IN  [state |-> IF \/ track.state = "TENTATIVE" /\ hits >= MinHits
                      \/ track.state = "COASTING"
                   THEN "CONFIRMED" ELSE track.state,
         hits |-> hits, misses |-> 0]

(* Mutant of Miss: hit_streak is not set back. *)
MissKeepsHits(track) ==
    LET misses == UpTo(MissBound, track.misses + 1)
    IN  [state |-> IF track.state = "CONFIRMED"
                   THEN IF misses > MaxCoasting THEN "LOST" ELSE "COASTING"
                   ELSE IF track.state = "TENTATIVE" /\ misses > 3 THEN "LOST" ELSE track.state,
         hits |-> track.hits, misses |-> misses]

(* Mutant of Miss: only confirmed tracks can be lost. *)
MissLeavesTentative(track) ==
    LET misses == UpTo(MissBound, track.misses + 1)
    IN  [state |-> IF track.state = "CONFIRMED"
                   THEN IF misses > MaxCoasting THEN "LOST" ELSE "COASTING"
                   ELSE track.state,
         hits |-> 0, misses |-> misses]

(* _handle_miss: a coasting track goes on coasting. *)
Miss(track) ==
    LET misses == UpTo(MissBound, track.misses + 1)
    IN  [state |-> IF track.state = "CONFIRMED"
                   THEN IF misses > MaxCoasting THEN "LOST" ELSE "COASTING"
                   ELSE IF track.state = "TENTATIVE" /\ misses > 3 THEN "LOST" ELSE track.state,
         hits |-> 0, misses |-> misses]

(* _create_track. *)
NewTrack == [state |-> "TENTATIVE", hits |-> 1, misses |-> 0]

(* Mutant of Cleanup: a track goes as soon as it is lost. *)
CleanupAtOnce(track) == IF track.state = "LOST" THEN NoTrack ELSE track

(* _cleanup. *)
Cleanup(track) ==
    IF track.state = "LOST" /\ track.misses > MaxAge THEN NoTrack ELSE track

(* The tracks after a frame that matched hit and made tracks of the         *)
(* numbers made.                                                            *)
AfterFrame(hit, made) ==
    [t \in TrackId |->
        Cleanup(CASE t \in made -> NewTrack
                  [] t \in hit -> Hit(tracks[t])
                  [] t \in Live \ hit -> Miss(tracks[t])
                  [] OTHER -> tracks[t])]

(* What _associate may return for n detections: without tracks or without   *)
(* detections nothing is matched, else the whole smaller side is.           *)
Assignments(n) ==
    IF Live = {} \/ n = 0 THEN {{}}
    ELSE {hit \in SUBSET Live : Cardinality(hit) = IF n < Cardinality(Live) THEN n ELSE Cardinality(Live)}

(* update() with n detections; those without a box make no track. *)
UpdateTracks ==
    \E n \in 0 .. MaxDetections : \E hit \in Assignments(n) : \E new \in 0 .. n - Cardinality(hit) :
        LET made == {t \in TrackId : nextId <= t /\ t < nextId + new}
            after == AfterFrame(hit, made)
        IN  /\ nextId + new <= MaxTracks
            /\ tracks' = after /\ nextId' = nextId + new
            /\ streak' = [t \in TrackId |-> NextStreak(streak[t], t \in hit \cup made)]
            /\ matched' = hit /\ outcome' = "ok"

(* The solver finds no finite assignment. *)
UpdateFails ==
    /\ Live # {} /\ MaxDetections > 0
    /\ outcome' = "error" /\ matched' = {}
    /\ UNCHANGED <<tracks, nextId, streak>>

Reset ==
    /\ tracks' = [t \in TrackId |-> NoTrack] /\ nextId' = 0
    /\ streak' = [t \in TrackId |-> NoStreak] /\ matched' = {} /\ outcome' = "ok"

TrackerNext == UpdateTracks \/ UpdateFails \/ Reset

TrackerSpec == TrackerInit /\ [][TrackerNext]_trackerVars

(* Frames keep coming. *)
TrackerFairness == WF_trackerVars(UpdateTracks)
--------------------------------------------------------------------------------
(* Decisions use tracks that are confirmed or coasting (is_valid): each had *)
(* min_hits detections in a row at some time.                               *)
ValidWasEarned ==
    \A t \in TrackId : tracks[t].state \in {"CONFIRMED", "COASTING"} => streak[t].most >= MinHits

(* A tentative track that no frame sees any more does not stay tentative,   *)
(* whatever else the frames see, as long as updates go on succeeding.       *)
TentativeGoesAway ==
    \A t \in TrackId :
        <>[](t \notin matched /\ outcome = "ok") => []<>(tracks[t].state # "TENTATIVE")

(* The tracker keeps the promises about the numbers of tracks. *)
Registry == INSTANCE TrackRegistry WITH
    Track <- TrackId, alive <- Live, given <- nextId,
    unseen <- [t \in TrackId |-> UpTo(MaxAge + 1, tracks[t].misses)]

TrackerKeepsRegistry == Registry!RegistrySpec
================================================================================
