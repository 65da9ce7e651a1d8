---------------------------------- MODULE MCTracking -----------------------------------
(* Model checking of the two trackers, each on its own: the first state says *)
(* which of them is at work.                                                 *)
EXTENDS ObjectTracker, SortTracker

VARIABLE working

Init == TrackerInit /\ SortInit /\ working \in {"tracker", "sort"}

TrackerWorks == working = "tracker" /\ TrackerNext /\ UNCHANGED <<sortVars, working>>
SortWorks == working = "sort" /\ SortNext /\ UNCHANGED <<trackerVars, working>>

vars == <<trackerVars, sortVars, working>>

Spec ==
    /\ Init /\ [][TrackerWorks \/ SortWorks]_vars
    /\ WF_vars(working = "tracker" /\ UpdateTracks /\ UNCHANGED <<sortVars, working>>)
================================================================================
