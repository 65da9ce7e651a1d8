---------------------------------- MODULE SortTracker ----------------------------------
(***************************************************************************)
(* src/hardware/nvidia_jetson/python/tracking.py: ObjectTracker, the SORT   *)
(* tracker of the Jetson.  Its cost matrix is finite, so any set of tracks  *)
(* may be matched in a frame; hits are never taken back.  Numbers start at  *)
(* 1 in the code and at 0 here.  The caller says which frame it is; it may  *)
(* leave that out, which makes every frame the first.                       *)
(***************************************************************************)
EXTENDS Integers, FiniteSets

CONSTANTS MaxBoxes,         (* bound: tracks made since the last reset       *)
          MaxDetected,      (* bound: detections in a frame                  *)
          SortHits, SortAge (* min_hits, max_age                             *)

ASSUME SortAssumption ==
    MaxBoxes \in Nat \ {0} /\ MaxDetected \in Nat /\ SortHits \in Nat \ {0} /\ SortAge \in Nat

VARIABLES
    boxes,      (* _tracks: hits, time_since_update, confirmed              *)
    nextBox,    (* _next_id                                                 *)
    reported    (* what the last update() returned                          *)

sortVars == <<boxes, nextBox, reported>>

BoxId == 0 .. MaxBoxes - 1
NoBox == [kept |-> FALSE, hits |-> 0, since |-> 0, confirmed |-> FALSE]
Kept == {b \in BoxId : boxes[b].kept}

SortInit == boxes = [b \in BoxId |-> NoBox] /\ nextBox = 0 /\ reported = {}
--------------------------------------------------------------------------------
(* Step 3 of update(): a matched track. *)
Seen(box) ==
    LET hits == IF box.hits < SortHits THEN box.hits + 1 ELSE SortHits
    IN  [box EXCEPT !.hits = hits, !.since = 0, !.confirmed = @ \/ hits >= SortHits]

(* Step 4: a new track; one hit never confirms it. *)
NewBox == [kept |-> TRUE, hits |-> 1, since |-> 0, confirmed |-> FALSE]

(* Mutant of Aged: the frame of the last chance is not given. *)
AgedEarly(box) ==
    IF box.since + 2 > SortAge THEN NoBox ELSE [box EXCEPT !.since = @ + 1]

(* Steps 1 and 5: a track without a match grows older, and goes. *)
Aged(box) == IF box.since + 1 > SortAge THEN NoBox ELSE [box EXCEPT !.since = @ + 1]

AfterBoxes(hit, made) ==
    [b \in BoxId |-> CASE b \in made -> NewBox
                       [] b \in hit -> Seen(boxes[b])
                       [] b \in Kept \ hit -> Aged(boxes[b])
                       [] OTHER -> boxes[b]]

(* Step 6; early: frame_idx < min_hits. *)
Reported(after, early) ==
    {b \in BoxId : after[b].kept /\ after[b].since = 0 /\ (early \/ after[b].confirmed)}

UpdateBoxes ==
    \E n \in 0 .. MaxDetected, early \in BOOLEAN : \E hit \in SUBSET Kept :
        LET new == n - Cardinality(hit)
            made == {b \in BoxId : nextBox <= b /\ b < nextBox + new}
            after == AfterBoxes(hit, made)
        IN  /\ Cardinality(hit) <= n /\ nextBox + new <= MaxBoxes
            /\ boxes' = after /\ nextBox' = nextBox + new
            /\ reported' = Reported(after, early)

ResetBoxes == boxes' = [b \in BoxId |-> NoBox] /\ nextBox' = 0 /\ reported' = {}

SortNext == UpdateBoxes \/ ResetBoxes

SortSpec == SortInit /\ [][SortNext]_sortVars
--------------------------------------------------------------------------------
(* The tracker keeps the promises about the numbers of tracks. *)
BoxRegistry == INSTANCE TrackRegistry WITH
    Track <- BoxId, MaxAge <- SortAge, alive <- Kept, given <- nextBox,
    unseen <- [b \in BoxId |-> boxes[b].since]

SortKeepsRegistry == BoxRegistry!RegistrySpec
================================================================================
