--------------------------------- MODULE TrackRegistry ---------------------------------
(***************************************************************************)
(* What a tracker promises to those who keep the identity of a track: every *)
(* number is given out once between two resets, and a track is forgotten    *)
(* only after more than MaxAge frames in a row in which it was not seen.    *)
(* Both trackers of the repository implement it.                            *)
(***************************************************************************)
EXTENDS Naturals

CONSTANTS Track,        (* the numbers of tracks, 0 .. n - 1                 *)
          MaxAge        (* max_age                                           *)

VARIABLES
    alive,      (* the tracks that are kept                                 *)
    unseen,     (* frames in a row without a detection, up to MaxAge + 1    *)
    given       (* numbers given out                                        *)

registryVars == <<alive, unseen, given>>

Later(n) == IF n > MaxAge THEN n ELSE n + 1

RegistryInit == alive = {} /\ unseen = [t \in Track |-> 0] /\ given = 0

(* One frame: some tracks are seen, new ones get the next numbers, and some *)
(* of those unseen for too long are forgotten.                              *)
Frame ==
    \E seen \in SUBSET alive :
        LET missed == alive \ seen
            made == {t \in Track : given <= t /\ t < given'}
        IN  /\ given' >= given
            /\ made \subseteq alive' /\ alive' \subseteq alive \cup made
            /\ \A t \in alive \ alive' : t \in missed /\ Later(unseen[t]) > MaxAge
            /\ unseen' = [t \in Track |-> IF t \in missed \cap alive' THEN Later(unseen[t]) ELSE 0]

Forget == alive' = {} /\ unseen' = [t \in Track |-> 0] /\ given' = 0

RegistrySpec == RegistryInit /\ [][Frame \/ Forget]_registryVars
================================================================================
