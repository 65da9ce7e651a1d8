--------------------------- MODULE Perception_proofs ---------------------------
(***************************************************************************)
(* Proofs about what stands between the cameras and the decisions: that     *)
(* the two trackers keep the promises about the identity of tracks, what a  *)
(* track of ObjectTracker that is used for decisions has behind it, and     *)
(* that the batch engine keeps every request in one place.                  *)
(***************************************************************************)
EXTENDS ObjectTracker, SortTracker, BatchInference,
        SequenceTheorems, FiniteSetTheorems, WellFoundedInduction, TLAPS

TrackData == [state : TrackState \cup {"none"}, hits : 0 .. MinHits, misses : 0 .. MissBound]
StreakData == [now : 0 .. MinHits, most : 0 .. MinHits]

(* The streak a track counts is the one the history saw; a number that was  *)
(* not given out has no history, and one that was given up no data.         *)
History ==
    \A t \in TrackId :
        /\ tracks[t].state = "none" => tracks[t] = NoTrack
        /\ tracks[t].state # "none" => tracks[t].hits = streak[t].now
        /\ streak[t].now <= streak[t].most
        /\ nextId <= t => streak[t] = NoStreak

TrackerInv == TrackerTypeOK /\ History /\ ValidWasEarned

(* The largest number of misses that is told apart exceeds max_age.         *)
LEMMA Bounds ==
    /\ MinHits \in Nat /\ MinHits >= 1 /\ MaxAge \in Nat /\ MaxTracks \in Nat
    /\ MissBound \in Nat /\ MissBound >= 4 /\ MissBound >= MaxAge + 1
  BY TrackerAssumption DEF MissBound

(* A number taken up to a bound.                                            *)
LEMMA UpToProps ==
    ASSUME NEW b \in Nat, NEW n \in Nat
    PROVE  /\ UpTo(b, n) \in 0 .. b /\ UpTo(b, n) <= n
           /\ n <= b => UpTo(b, n) = n
           /\ n > b => UpTo(b, n) = b
  BY DEF UpTo

(* What a hit makes of a track.                                             *)
LEMMA HitProps ==
    ASSUME NEW track \in TrackData, track.state # "none"
    PROVE  /\ Hit(track) \in TrackData /\ Hit(track).state # "none"
           /\ Hit(track).hits = UpTo(MinHits, track.hits + 1)
           /\ Hit(track).misses = 0
           /\ Hit(track).state \in {"CONFIRMED", "COASTING"} =>
                 track.state \in {"CONFIRMED", "COASTING"} \/ Hit(track).hits >= MinHits
  <1>1. UpTo(MinHits, track.hits + 1) \in 0 .. MinHits /\ 0 \in 0 .. MissBound
    <2>1. track.hits + 1 \in Nat
      BY DEF TrackData
    <2> QED
      BY <2>1, Bounds, UpToProps
  <1>2. "CONFIRMED" \in TrackState
    BY DEF TrackState
  <1> DEFINE h == UpTo(MinHits, track.hits + 1)
             s == IF \/ track.state = "TENTATIVE" /\ h >= MinHits
                     \/ track.state = "COASTING"
                  THEN "CONFIRMED" ELSE track.state
  <1>3. Hit(track) = [state |-> s, hits |-> h, misses |-> 0]
    BY DEF Hit
  <1>4. /\ s \in TrackState \cup {"none"} /\ s # "none"
        /\ s \in {"CONFIRMED", "COASTING"} => track.state \in {"CONFIRMED", "COASTING"} \/ h >= MinHits
    BY <1>2 DEF TrackData
  <1> HIDE DEF h, s
  <1>5. h \in 0 .. MinHits /\ h = UpTo(MinHits, track.hits + 1)
    BY <1>1 DEF h
  <1> QED
    BY <1>1, <1>3, <1>4, <1>5 DEF TrackData

(* What a miss makes of one.                                                *)
LEMMA MissProps ==
    ASSUME NEW track \in TrackData, track.state # "none"
    PROVE  /\ Miss(track) \in TrackData /\ Miss(track).state # "none"
           /\ Miss(track).hits = 0
           /\ Miss(track).misses = UpTo(MissBound, track.misses + 1)
           /\ Miss(track).state \in {"CONFIRMED", "COASTING"} =>
                 track.state \in {"CONFIRMED", "COASTING"}
  <1>1. UpTo(MissBound, track.misses + 1) \in 0 .. MissBound /\ 0 \in 0 .. MinHits
    <2>1. track.misses + 1 \in Nat
      BY Bounds DEF TrackData
    <2> QED
      BY <2>1, Bounds, UpToProps
  <1> DEFINE m == UpTo(MissBound, track.misses + 1)
             s == IF track.state = "CONFIRMED"
                  THEN IF m > MaxCoasting THEN "LOST" ELSE "COASTING"
                  ELSE IF track.state = "TENTATIVE" /\ m > 3 THEN "LOST" ELSE track.state
  <1>2. Miss(track) = [state |-> s, hits |-> 0, misses |-> m]
    BY DEF Miss
  <1>3. /\ s \in TrackState \cup {"none"} /\ s # "none"
        /\ s \in {"CONFIRMED", "COASTING"} => track.state \in {"CONFIRMED", "COASTING"}
    BY DEF TrackData, TrackState
  <1> HIDE DEF m, s
  <1>4. m \in 0 .. MissBound /\ m = UpTo(MissBound, track.misses + 1)
    BY <1>1 DEF m
  <1> QED
    BY <1>1, <1>2, <1>3, <1>4 DEF TrackData

(* The cleanup takes a track as it is or takes it away, and then for its    *)
(* misses.                                                                  *)
LEMMA CleanupProps ==
    ASSUME NEW track
    PROVE  \/ Cleanup(track) = track
           \/ Cleanup(track) = NoTrack /\ track.state = "LOST" /\ track.misses > MaxAge
  BY DEF Cleanup

LEMMA NoTrackProps ==
    /\ NoTrack \in TrackData /\ NoTrack.state = "none" /\ NoTrack.hits = 0 /\ NoTrack.misses = 0
    /\ NewTrack \in TrackData /\ NewTrack.state = "TENTATIVE" /\ NewTrack.hits = 1 /\ NewTrack.misses = 0
    /\ Cleanup(NewTrack) = NewTrack
  BY Bounds DEF NoTrack, NewTrack, TrackData, TrackState, Cleanup

(* The history of a track after a frame.                                    *)
LEMMA StreakProps ==
    ASSUME NEW s \in StreakData, s.now <= s.most, NEW seen \in BOOLEAN
    PROVE  /\ NextStreak(s, seen) \in StreakData
           /\ NextStreak(s, seen).now <= NextStreak(s, seen).most
           /\ NextStreak(s, seen).most >= s.most
           /\ NextStreak(s, seen).now = IF seen THEN UpTo(MinHits, s.now + 1) ELSE 0
  <1> DEFINE now == IF seen THEN UpTo(MinHits, s.now + 1) ELSE 0
  <1>1. s.now \in 0 .. MinHits /\ s.most \in 0 .. MinHits
    BY DEF StreakData
  <1>2. now \in 0 .. MinHits
    <2>1. s.now + 1 \in Nat
      BY <1>1
    <2> QED
      BY <2>1, Bounds, UpToProps
  <1> DEFINE most == IF now > s.most THEN now ELSE s.most
  <1>3. NextStreak(s, seen) = [now |-> now, most |-> most]
    BY DEF NextStreak
  <1> HIDE DEF now
  <1>4. most \in 0 .. MinHits /\ now <= most /\ most >= s.most
    BY <1>1, <1>2
  <1> HIDE DEF most
  <1>5. [now |-> now, most |-> most] \in StreakData
    BY <1>2, <1>4 DEF StreakData
  <1> QED
    BY <1>3, <1>4, <1>5 DEF now
--------------------------------------------------------------------------------
Numbered(n) == {t \in TrackId : nextId <= t /\ t < nextId + n}

LEMMA TypesInUse ==
    ASSUME TrackerInv
    PROVE  /\ tracks \in [TrackId -> TrackData] /\ streak \in [TrackId -> StreakData]
           /\ nextId \in 0 .. MaxTracks /\ nextId \in Nat
           /\ \A t \in TrackId : t \in Nat /\ (t \in Live => t < nextId)
           /\ \A t \in TrackId : nextId <= t => tracks[t] = NoTrack
  <1>1. tracks \in [TrackId -> TrackData] /\ streak \in [TrackId -> StreakData]
    BY Zenon DEF TrackerInv, TrackerTypeOK, TrackData, StreakData
  <1>2. nextId \in 0 .. MaxTracks /\ nextId \in Nat
    BY Bounds DEF TrackerInv, TrackerTypeOK
  <1>3. \A t \in TrackId : nextId <= t => tracks[t] = NoTrack
    BY DEF TrackerInv, TrackerTypeOK
  <1>4. \A t \in TrackId : t \in Nat
    BY Bounds DEF TrackId
  <1>5. \A t \in TrackId : t \in Live => t < nextId
    BY <1>2, <1>3, <1>4, NoTrackProps DEF Live
  <1> QED
    BY <1>1, <1>2, <1>3, <1>4, <1>5

(* What a frame makes of each track.                                        *)
LEMMA FrameProps ==
    ASSUME TrackerInv, NEW hit \in SUBSET Live, NEW new \in Nat, nextId + new <= MaxTracks,
           NEW t \in TrackId
    PROVE  LET after == AfterFrame(hit, Numbered(new))[t]
           IN  /\ t \in Numbered(new) => t \notin Live /\ after = NewTrack
               /\ t \in hit => after = Hit(tracks[t])
               /\ t \in Live \ hit =>
                     \/ after = Miss(tracks[t])
                     \/ after = NoTrack /\ Miss(tracks[t]).misses > MaxAge
               /\ t \notin Live /\ t \notin Numbered(new) => after = NoTrack
  <1> DEFINE made == Numbered(new)
             after == AfterFrame(hit, made)[t]
  <1>1. after = Cleanup(CASE t \in made -> NewTrack
                          [] t \in hit -> Hit(tracks[t])
                          [] t \in Live \ hit -> Miss(tracks[t])
                          [] OTHER -> tracks[t])
    BY DEF AfterFrame
  <1>2. t \in made => t \notin Live
    BY TypesInUse DEF Numbered
  <1>3. t \in Live => tracks[t] \in TrackData /\ tracks[t].state # "none"
    BY TypesInUse DEF Live
  <1>4. CASE t \in made
    BY <1>1, <1>2, <1>4, NoTrackProps
  <1>5. CASE t \in hit
    <2>1. t \notin made /\ t \in Live
      BY <1>2, <1>5
    <2>2. after = Cleanup(Hit(tracks[t]))
      BY <1>1, <1>5, <2>1
    <2>3. ~(Hit(tracks[t]).misses > MaxAge)
      BY <1>3, <2>1, HitProps, Bounds
    <2> QED
      BY <1>5, <2>1, <2>2, <2>3, CleanupProps
  <1>6. CASE t \in Live \ hit
    <2>1. after = Cleanup(Miss(tracks[t]))
      BY <1>1, <1>2, <1>6
    <2> QED
      BY <1>2, <1>6, <2>1, CleanupProps
  <1>7. CASE t \notin Live /\ t \notin made
    <2>1. after = Cleanup(tracks[t])
      BY <1>1, <1>7
    <2>2. tracks[t] = NoTrack
      BY <1>7 DEF Live, TrackerInv, History
    <2> QED
      BY <1>7, <2>1, <2>2, NoTrackProps, CleanupProps
  <1> QED
    BY <1>4, <1>5, <1>6, <1>7

(* A frame keeps the invariant.                                             *)
LEMMA FrameKeepsInv ==
    ASSUME TrackerInv, NEW hit \in SUBSET Live, NEW new \in Nat, nextId + new <= MaxTracks,
           tracks' = AfterFrame(hit, Numbered(new)), nextId' = nextId + new,
           streak' = [t \in TrackId |-> NextStreak(streak[t], t \in hit \cup Numbered(new))],
           matched' = hit, outcome' = "ok"
    PROVE  TrackerInv'
  <1> DEFINE made == Numbered(new)
  <1>1. ASSUME NEW t \in TrackId
        PROVE  /\ tracks'[t] \in TrackData
               /\ tracks'[t].state = "none" => tracks'[t] = NoTrack
               /\ tracks'[t].state # "none" => tracks'[t].hits = streak'[t].now
               /\ streak'[t] \in StreakData /\ streak'[t].now <= streak'[t].most
               /\ tracks'[t].state \in {"CONFIRMED", "COASTING"} => streak'[t].most >= MinHits
               /\ nextId' <= t => tracks'[t] = NoTrack /\ streak'[t] = NoStreak
    <2>1. /\ streak[t] \in StreakData /\ tracks[t] \in TrackData
          /\ streak[t].now <= streak[t].most
          /\ streak[t].now \in 0 .. MinHits /\ streak[t].most \in 0 .. MinHits
          /\ t \in Live => tracks[t].state # "none" /\ tracks[t].hits = streak[t].now
          /\ t \in Live /\ tracks[t].state \in {"CONFIRMED", "COASTING"} => streak[t].most >= MinHits
          /\ nextId <= t => streak[t] = NoStreak
      BY TypesInUse DEF TrackerInv, History, ValidWasEarned, Live, StreakData
    <2>2. /\ t \in made => t \notin Live /\ tracks'[t] = NewTrack
          /\ t \in hit => tracks'[t] = Hit(tracks[t])
          /\ t \in Live \ hit => \/ tracks'[t] = Miss(tracks[t])
                                 \/ tracks'[t] = NoTrack
          /\ t \notin Live /\ t \notin made => tracks'[t] = NoTrack
      BY FrameProps
    <2>3. /\ streak'[t] \in StreakData /\ streak'[t].now <= streak'[t].most
          /\ streak'[t].most >= streak[t].most
          /\ streak'[t].now = IF t \in hit \cup made THEN UpTo(MinHits, streak[t].now + 1) ELSE 0
          /\ streak'[t].most \in 0 .. MinHits /\ streak'[t].now \in 0 .. MinHits
      <3>1. streak'[t] = NextStreak(streak[t], t \in hit \cup made)
        OBVIOUS
      <3>2. (t \in hit \cup made) \in BOOLEAN
        OBVIOUS
      <3>3. /\ streak'[t] \in StreakData /\ streak'[t].now <= streak'[t].most
            /\ streak'[t].most >= streak[t].most
            /\ streak'[t].now = IF t \in hit \cup made THEN UpTo(MinHits, streak[t].now + 1) ELSE 0
        BY <2>1, <3>1, <3>2, StreakProps
      <3> QED
        BY <3>3 DEF StreakData
    <2>4. nextId' <= t => t \notin Live /\ t \notin made /\ streak[t] = NoStreak
      <3>1. t \in Nat /\ nextId \in Nat /\ (t \in Live => t < nextId)
        BY TypesInUse
      <3> QED
        BY <2>1, <3>1 DEF Numbered
    <2>5. CASE t \in made
      <3>1. tracks'[t] = NewTrack /\ nextId <= t /\ streak[t] = NoStreak /\ ~(nextId' <= t)
        BY <2>1, <2>2, <2>4, <2>5 DEF Numbered
      <3>2. streak'[t].now = 1
        <4>1. streak[t].now = 0 /\ 1 <= MinHits /\ 1 \in Nat /\ MinHits \in Nat
          BY <3>1, Bounds DEF NoStreak
        <4>2. UpTo(MinHits, 1) = 1
          BY <4>1, UpToProps
        <4>3. streak[t].now + 1 = 1 /\ t \in hit \cup made
          BY <2>5, <4>1
        <4> QED
          BY <2>3, <4>2, <4>3
      <3> QED
        BY <2>3, <3>1, <3>2, NoTrackProps
    <2>6. CASE t \in hit
      <3>1. tracks'[t] = Hit(tracks[t]) /\ t \in Live /\ ~(nextId' <= t)
        BY <2>2, <2>4, <2>6
      <3>2. tracks'[t].hits = streak'[t].now
        BY <2>1, <2>3, <2>6, <3>1, HitProps
      <3> QED
        BY <2>1, <2>3, <3>1, <3>2, HitProps, Bounds
    <2>7. CASE t \in Live \ hit
      <3>1. t \notin made /\ ~(nextId' <= t)
        BY <2>2, <2>4, <2>7
      <3>2. streak'[t].now = 0
        BY <2>3, <2>7, <3>1
      <3>3. CASE tracks'[t] = Miss(tracks[t])
        BY <2>1, <2>3, <2>7, <3>1, <3>2, <3>3, MissProps, Bounds
      <3>4. CASE tracks'[t] = NoTrack
        BY <2>3, <3>1, <3>4, NoTrackProps
      <3> QED
        BY <2>2, <2>7, <3>3, <3>4
    <2>8. CASE t \notin Live /\ t \notin made
      <3>1. tracks'[t] = NoTrack
        BY <2>2, <2>8
      <3>2. nextId' <= t => streak'[t] = NoStreak
        <4>1. t \notin hit
          BY <2>8
        <4>2. streak'[t] = NextStreak(streak[t], FALSE)
          <5>1. (t \in hit \cup made) = FALSE
            BY <2>8, <4>1
          <5>2. streak'[t] = NextStreak(streak[t], t \in hit \cup made)
            OBVIOUS
          <5> QED
            BY <5>1, <5>2, Zenon
        <4>3. NextStreak(NoStreak, FALSE) = NoStreak
          BY DEF NextStreak, NoStreak
        <4> QED
          BY <2>4, <4>2, <4>3
      <3> QED
        BY <2>3, <3>1, <3>2, NoTrackProps
    <2> QED
      BY <2>5, <2>6, <2>7, <2>8
  <1>2. tracks' \in [TrackId -> TrackData] /\ streak' \in [TrackId -> StreakData]
    <2>1. tracks' = [t \in TrackId |-> tracks'[t]]
      BY DEF AfterFrame
    <2>2. streak' = [t \in TrackId |-> streak'[t]]
      OBVIOUS
    <2> QED
      BY <1>1, <2>1, <2>2
  <1>3. nextId' \in 0 .. MaxTracks
    BY TypesInUse, Bounds
  <1>4. hit \subseteq TrackId /\ outcome' \in {"ok", "error"}
    BY DEF Live
  <1>5. TrackerTypeOK'
    BY <1>1, <1>2, <1>3, <1>4, Zenon DEF TrackerTypeOK, TrackData, StreakData
  <1>6. History' /\ ValidWasEarned'
    BY <1>1 DEF History, ValidWasEarned
  <1> QED
    BY <1>5, <1>6 DEF TrackerInv
--------------------------------------------------------------------------------
(* Any frame is one of those above.                                         *)
LEMMA UpdateIsFrame ==
    ASSUME TrackerInv, UpdateTracks
    PROVE  \E hit \in SUBSET Live, new \in Nat :
              /\ nextId + new <= MaxTracks
              /\ tracks' = AfterFrame(hit, Numbered(new)) /\ nextId' = nextId + new
              /\ streak' = [t \in TrackId |-> NextStreak(streak[t], t \in hit \cup Numbered(new))]
              /\ matched' = hit /\ outcome' = "ok"
  <1> DEFINE F(hit, new) ==
            /\ nextId + new <= MaxTracks
            /\ tracks' = AfterFrame(hit, Numbered(new)) /\ nextId' = nextId + new
            /\ streak' = [t \in TrackId |-> NextStreak(streak[t], t \in hit \cup Numbered(new))]
            /\ matched' = hit /\ outcome' = "ok"
  <1>1. PICK n \in 0 .. MaxDetections :
           \E hit \in Assignments(n) : \E new \in 0 .. n - Cardinality(hit) : F(hit, new)
    BY Zenon DEF UpdateTracks, Numbered
  <1>2. PICK hit \in Assignments(n) : \E new \in 0 .. n - Cardinality(hit) : F(hit, new)
    BY <1>1, Zenon
  <1>3. PICK new \in 0 .. n - Cardinality(hit) : F(hit, new)
    BY <1>2, Zenon
  <1>4. hit \in SUBSET Live
    BY DEF Assignments
  <1>5. new \in Nat
    OBVIOUS
  <1> QED
    BY <1>3, <1>4, <1>5, Zenon

(* A frame is one of the registry's.                                        *)
LEMMA FrameIsRegistered ==
    ASSUME TrackerInv, NEW hit \in SUBSET Live, NEW new \in Nat, nextId + new <= MaxTracks,
           tracks' = AfterFrame(hit, Numbered(new)), nextId' = nextId + new
    PROVE  Registry!Frame
  <1> DEFINE made == Numbered(new)
             after(t) == AfterFrame(hit, made)[t]
             u(t) == UpTo(MaxAge + 1, tracks[t].misses)
  <1>1. ASSUME NEW t \in TrackId
        PROVE  /\ t \in made => t \notin Live /\ tracks'[t] = NewTrack
               /\ t \in hit => tracks'[t] = Hit(tracks[t])
               /\ t \in Live \ hit => \/ tracks'[t] = Miss(tracks[t])
                                      \/ tracks'[t] = NoTrack /\ Miss(tracks[t]).misses > MaxAge
               /\ t \notin Live /\ t \notin made => tracks'[t] = NoTrack
    BY FrameProps
  <1>2. \A t \in TrackId : t \in Live => tracks[t] \in TrackData /\ tracks[t].state # "none"
    BY TypesInUse DEF Live
  <1>3. Live' = {t \in TrackId : tracks'[t].state # "none"}
    BY DEF Live
  <1>4. \A t \in TrackId : /\ t \in made \cup hit => t \in Live'
                           /\ t \in Live' => t \in Live \cup made
    BY <1>1, <1>2, <1>3, HitProps, NoTrackProps
  <1>5. ASSUME NEW t \in Live \ hit
        PROVE  /\ tracks'[t] = Miss(tracks[t]) \/ Registry!Later(u(t)) > MaxAge
               /\ Registry!Later(u(t)) = UpTo(MaxAge + 1, Miss(tracks[t]).misses)
    <2> DEFINE m == tracks[t].misses
    <2>1. t \in TrackId /\ m \in Nat /\ MaxAge \in Nat /\ MissBound \in Nat /\ MissBound >= MaxAge + 1
      BY <1>2, Bounds DEF Live, TrackData
    <2>2. Miss(tracks[t]).misses = UpTo(MissBound, m + 1)
      BY <1>2, <2>1, MissProps
    <2>3. Registry!Later(u(t)) = UpTo(MaxAge + 1, UpTo(MissBound, m + 1))
      <3> HIDE DEF m
      <3>1. Registry!Later(UpTo(MaxAge + 1, m)) = UpTo(MaxAge + 1, UpTo(MissBound, m + 1))
        BY <2>1 DEF Registry!Later, UpTo
      <3> QED
        BY <3>1 DEF m
    <2>4. UpTo(MissBound, m + 1) > MaxAge => Registry!Later(u(t)) > MaxAge
      <3> HIDE DEF m, u
      <3> QED
        BY <2>1, <2>3 DEF UpTo
    <2> QED
      BY <1>1, <2>1, <2>2, <2>3, <2>4
  <1>6. [t \in TrackId |-> UpTo(MaxAge + 1, tracks'[t].misses)]
           = [t \in TrackId |-> IF t \in (Live \ hit) \cap Live'
                                THEN Registry!Later([s \in TrackId |-> u(s)][t]) ELSE 0]
    <2> SUFFICES ASSUME NEW t \in TrackId
                 PROVE  UpTo(MaxAge + 1, tracks'[t].misses)
                           = IF t \in (Live \ hit) \cap Live' THEN Registry!Later(u(t)) ELSE 0
      BY Zenon
    <2>1. UpTo(MaxAge + 1, 0) = 0
      BY Bounds DEF UpTo
    <2>2. CASE t \in Live \ hit /\ tracks'[t] = Miss(tracks[t])
      <3>1. t \in Live'
        BY <1>2, <1>3, <2>2, MissProps
      <3> QED
        BY <1>5, <2>2, <3>1
    <2>3. CASE t \in Live \ hit /\ tracks'[t] = NoTrack
      BY <1>3, <2>1, <2>3, NoTrackProps
    <2>4. CASE t \in hit
      BY <1>1, <1>2, <2>1, <2>4, HitProps
    <2>5. CASE t \in made
      BY <1>1, <2>1, <2>5, NoTrackProps
    <2>6. CASE t \notin Live /\ t \notin made
      BY <1>1, <2>1, <2>6, NoTrackProps
    <2> QED
      BY <1>1, <2>2, <2>3, <2>4, <2>5, <2>6
  <1>7. nextId' >= nextId /\ made = {t \in TrackId : nextId <= t /\ t < nextId'}
    BY TypesInUse DEF Numbered
  <1>8. Live \subseteq TrackId /\ Live' \subseteq TrackId /\ made \subseteq TrackId
    BY <1>3 DEF Numbered, Live
  <1>9. made \subseteq Live' /\ Live' \subseteq Live \cup made
    BY <1>4, <1>8
  <1>10. ASSUME NEW t \in Live \ Live'
        PROVE  t \in Live \ hit /\ Registry!Later([s \in TrackId |-> u(s)][t]) > MaxAge
    <2>1. t \in TrackId /\ t \notin hit
      BY <1>4, <1>8, <1>10
    <2>2. tracks'[t] # Miss(tracks[t])
      BY <1>2, <1>3, <1>10, <2>1, MissProps
    <2> QED
      BY <1>5, <2>1, <2>2
  <1> QED
    BY <1>6, <1>7, <1>9, <1>10 DEF Registry!Frame
--------------------------------------------------------------------------------
LEMMA InitInv == TrackerInit => TrackerInv
  <1> SUFFICES ASSUME TrackerInit PROVE TrackerInv
    OBVIOUS
  <1>1. /\ tracks = [t \in TrackId |-> NoTrack] /\ nextId = 0 /\ matched = {} /\ outcome = "ok"
        /\ streak = [t \in TrackId |-> NoStreak]
    BY DEF TrackerInit
  <1>2. /\ NoTrack \in TrackData /\ NoTrack.state = "none"
        /\ NoStreak \in StreakData /\ NoStreak.now = 0 /\ NoStreak.most = 0
        /\ 0 \in 0 .. MaxTracks
    BY NoTrackProps, Bounds DEF NoStreak, StreakData
  <1>3. TrackerTypeOK
    <2>1. tracks \in [TrackId -> TrackData] /\ streak \in [TrackId -> StreakData]
      BY <1>1, <1>2
    <2>2. \A t \in TrackId : tracks[t] = NoTrack
      BY <1>1
    <2> QED
      BY <1>1, <1>2, <2>1, <2>2, Zenon DEF TrackerTypeOK, TrackData, StreakData
  <1>4. History /\ ValidWasEarned
    BY <1>1, <1>2 DEF History, ValidWasEarned
  <1> QED
    BY <1>3, <1>4 DEF TrackerInv

LEMMA StepInv == TrackerInv /\ [TrackerNext]_trackerVars => TrackerInv'
  <1> SUFFICES ASSUME TrackerInv, [TrackerNext]_trackerVars PROVE TrackerInv'
    OBVIOUS
  <1>1. CASE UpdateTracks
    BY <1>1, UpdateIsFrame, FrameKeepsInv
  <1>2. CASE UNCHANGED <<tracks, nextId, streak>> /\ matched' \subseteq TrackId /\ outcome' \in {"ok", "error"}
    <2>1. TrackerTypeOK'
      BY <1>2, Zenon DEF TrackerInv, TrackerTypeOK
    <2>2. History' /\ ValidWasEarned'
      BY <1>2 DEF TrackerInv, History, ValidWasEarned
    <2> QED
      BY <2>1, <2>2 DEF TrackerInv
  <1>3. CASE Reset
    <2>1. TrackerInit'
      BY <1>3 DEF Reset, TrackerInit
    <2> QED
      BY <2>1, InitInv, PTL
  <1>4. UpdateFails => UNCHANGED <<tracks, nextId, streak>> /\ matched' \subseteq TrackId /\ outcome' \in {"ok", "error"}
    BY DEF UpdateFails
  <1>5. UNCHANGED trackerVars => UNCHANGED <<tracks, nextId, streak>> /\ matched' \subseteq TrackId /\ outcome' \in {"ok", "error"}
    BY DEF trackerVars, TrackerInv, TrackerTypeOK
  <1> QED
    BY <1>1, <1>2, <1>3, <1>4, <1>5 DEF TrackerNext

(* Every track that decisions use had min_hits detections in a row, for     *)
(* every number of tracks and detections and every setting of the tracker.  *)
THEOREM TracksAreEarned == TrackerSpec => []TrackerTypeOK /\ []ValidWasEarned
  BY InitInv, StepInv, PTL DEF TrackerSpec, TrackerInv

(* A number means one object between two resets, and a track is given up    *)
(* only after more than max_age frames without it.                          *)
THEOREM TracksKeepTheirNumber == TrackerSpec => TrackerKeepsRegistry
  <1>1. TrackerInit => Registry!RegistryInit
    <2> SUFFICES ASSUME TrackerInit PROVE Registry!RegistryInit
      OBVIOUS
    <2>1. \A t \in TrackId : tracks[t] = NoTrack
      BY DEF TrackerInit
    <2>2. UpTo(MaxAge + 1, 0) = 0
      BY Bounds DEF UpTo
    <2> QED
      BY <2>1, <2>2, NoTrackProps DEF TrackerInit, Registry!RegistryInit, Live
  <1>2. TrackerInv /\ [TrackerNext]_trackerVars => [Registry!Frame \/ Registry!Forget]_Registry!registryVars
    <2> SUFFICES ASSUME TrackerInv, [TrackerNext]_trackerVars
                 PROVE  [Registry!Frame \/ Registry!Forget]_Registry!registryVars
      OBVIOUS
    <2>1. CASE UpdateTracks
      BY <2>1, UpdateIsFrame, FrameIsRegistered
    <2>2. CASE Reset
      <3>1. \A t \in TrackId : tracks'[t] = NoTrack
        BY <2>2 DEF Reset
      <3>2. UpTo(MaxAge + 1, 0) = 0
        BY Bounds DEF UpTo
      <3>3. Live' = {}
        BY <3>1, NoTrackProps DEF Live
      <3> QED
        BY <2>2, <3>1, <3>2, <3>3, NoTrackProps DEF Reset, Registry!Forget
    <2>3. CASE UNCHANGED <<tracks, nextId>>
      BY <2>3 DEF Registry!registryVars, Live
    <2> QED
      BY <2>1, <2>2, <2>3 DEF TrackerNext, UpdateFails, trackerVars
  <1> QED
    BY <1>1, <1>2, InitInv, StepInv, PTL
       DEF TrackerSpec, TrackerKeepsRegistry, Registry!RegistrySpec
--------------------------------------------------------------------------------
BoxData == [kept : BOOLEAN, hits : 0 .. SortHits, since : 0 .. SortAge, confirmed : BOOLEAN]

(* A number that was not given out, or was given up, has no data; a track   *)
(* is confirmed with enough hits behind it.                                 *)
SortInv ==
    /\ boxes \in [BoxId -> BoxData] /\ nextBox \in 0 .. MaxBoxes
    /\ \A b \in BoxId : /\ ~boxes[b].kept => boxes[b] = NoBox
                        /\ nextBox <= b => boxes[b] = NoBox
                        /\ boxes[b].confirmed => boxes[b].hits >= SortHits

LEMMA SortBounds ==
    /\ MaxBoxes \in Nat /\ SortHits \in Nat /\ SortHits >= 1 /\ SortAge \in Nat
    /\ \A b \in BoxId : b \in Nat /\ b < MaxBoxes
    /\ NoBox \in BoxData /\ ~NoBox.kept /\ NoBox.since = 0 /\ ~NoBox.confirmed
    /\ NewBox \in BoxData /\ NewBox.kept /\ NewBox.since = 0 /\ ~NewBox.confirmed
  BY SortAssumption DEF BoxId, NoBox, NewBox, BoxData

(* What a match makes of a track.                                           *)
LEMMA SeenProps ==
    ASSUME NEW box \in BoxData, box.kept, box.confirmed => box.hits >= SortHits
    PROVE  /\ Seen(box) \in BoxData /\ Seen(box).kept /\ Seen(box).since = 0
           /\ Seen(box).confirmed => Seen(box).hits >= SortHits
  <1> DEFINE h == IF box.hits < SortHits THEN box.hits + 1 ELSE SortHits
             c == box.confirmed \/ h >= SortHits
  <1>1. box = [kept |-> box.kept, hits |-> box.hits, since |-> box.since, confirmed |-> box.confirmed]
    BY DEF BoxData
  <1>2. /\ box.kept \in BOOLEAN /\ box.confirmed \in BOOLEAN
        /\ box.hits \in 0 .. SortHits /\ box.since \in 0 .. SortAge
    BY DEF BoxData
  <1>3. Seen(box) = [box EXCEPT !.hits = h, !.since = 0, !.confirmed = c]
    BY DEF Seen
  <1>4. h \in 0 .. SortHits /\ 0 \in 0 .. SortAge /\ (box.hits >= SortHits => h >= SortHits)
    BY <1>2, SortBounds
  <1> HIDE DEF h
  <1>5. c \in BOOLEAN /\ (c => h >= SortHits)
    BY <1>4
  <1> HIDE DEF c
  <1>6. Seen(box) = [kept |-> box.kept, hits |-> h, since |-> 0, confirmed |-> c]
    BY <1>1, <1>3, Zenon
  <1> QED
    BY <1>2, <1>4, <1>5, <1>6 DEF BoxData

(* What a frame without one makes of it.                                    *)
LEMMA AgedProps ==
    ASSUME NEW box \in BoxData, box.kept, box.confirmed => box.hits >= SortHits
    PROVE  \/ /\ Aged(box) \in BoxData /\ Aged(box).kept /\ Aged(box).since = box.since + 1
              /\ Aged(box).confirmed => Aged(box).hits >= SortHits
           \/ Aged(box) = NoBox /\ box.since + 1 > SortAge
  <1>1. box = [kept |-> box.kept, hits |-> box.hits, since |-> box.since, confirmed |-> box.confirmed]
    BY DEF BoxData
  <1>2. /\ box.kept \in BOOLEAN /\ box.confirmed \in BOOLEAN
        /\ box.hits \in 0 .. SortHits /\ box.since \in 0 .. SortAge
    BY DEF BoxData
  <1>3. CASE box.since + 1 > SortAge
    BY <1>3 DEF Aged
  <1>4. CASE ~(box.since + 1 > SortAge)
    <2>1. Aged(box) = [kept |-> box.kept, hits |-> box.hits, since |-> box.since + 1, confirmed |-> box.confirmed]
      BY <1>1, <1>4, Zenon DEF Aged
    <2>2. box.since + 1 \in 0 .. SortAge
      BY <1>2, <1>4, SortBounds
    <2> QED
      BY <1>2, <2>1, <2>2 DEF BoxData
  <1> QED
    BY <1>3, <1>4

NewBoxes(n) == {b \in BoxId : nextBox <= b /\ b < nextBox + n}

(* What a frame makes of each track.                                        *)
LEMMA BoxFrameProps ==
    ASSUME SortInv, NEW hit \in SUBSET Kept, NEW new \in Nat, NEW b \in BoxId
    PROVE  LET after == AfterBoxes(hit, NewBoxes(new))[b]
           IN  /\ b \in NewBoxes(new) => b \notin Kept /\ after = NewBox
               /\ b \in hit => after = Seen(boxes[b])
               /\ b \in Kept \ hit => after = Aged(boxes[b])
               /\ b \notin Kept /\ b \notin NewBoxes(new) => after = NoBox
  <1> DEFINE made == NewBoxes(new)
             after == AfterBoxes(hit, made)[b]
  <1>1. after = CASE b \in made -> NewBox
                  [] b \in hit -> Seen(boxes[b])
                  [] b \in Kept \ hit -> Aged(boxes[b])
                  [] OTHER -> boxes[b]
    BY DEF AfterBoxes
  <1>2. b \in made => b \notin Kept
    BY SortBounds DEF SortInv, NewBoxes, Kept
  <1>3. b \notin Kept => boxes[b] = NoBox
    BY DEF SortInv, Kept
  <1> HIDE DEF made, after
  <1>4. b \in made => after = NewBox
    BY <1>1, <1>2
  <1>5. b \in hit => after = Seen(boxes[b])
    BY <1>1, <1>2
  <1>6. b \in Kept \ hit => after = Aged(boxes[b])
    BY <1>1, <1>2
  <1>7. b \notin Kept /\ b \notin made => after = NoBox
    BY <1>1, <1>3
  <1> QED
    BY <1>2, <1>4, <1>5, <1>6, <1>7 DEF made, after

(* What update() is: the tracks it matches and the number of those it makes. *)
LEMMA UpdateBoxesIs ==
    ASSUME SortInv, UpdateBoxes
    PROVE  \E hit \in SUBSET Kept, new \in Nat :
              /\ nextBox + new <= MaxBoxes /\ nextBox' = nextBox + new
              /\ boxes' = AfterBoxes(hit, NewBoxes(new))
  <1>1. PICK n \in 0 .. MaxDetected, hit \in SUBSET Kept :
           LET new == n - Cardinality(hit)
           IN  /\ Cardinality(hit) <= n /\ nextBox + new <= MaxBoxes
               /\ boxes' = AfterBoxes(hit, NewBoxes(new)) /\ nextBox' = nextBox + new
    BY Zenon DEF UpdateBoxes, NewBoxes
  <1>2. Cardinality(hit) \in Nat
    <2>1. IsFiniteSet(BoxId)
      BY SortBounds, FS_Interval DEF BoxId
    <2>2. hit \subseteq BoxId
      BY DEF Kept
    <2> QED
      BY <2>1, <2>2, FS_Subset, FS_CardinalityType
  <1>3. n - Cardinality(hit) \in Nat
    BY <1>1, <1>2, SortAssumption
  <1> QED
    BY <1>1, <1>3

LEMMA SortInitInv == SortInit => SortInv
  BY SortBounds DEF SortInit, SortInv

(* A frame keeps the invariant.                                             *)
LEMMA BoxFrameKeepsInv ==
    ASSUME SortInv, NEW hit \in SUBSET Kept, NEW new \in Nat, nextBox + new <= MaxBoxes,
           boxes' = AfterBoxes(hit, NewBoxes(new)), nextBox' = nextBox + new
    PROVE  SortInv'
  <1>1. ASSUME NEW b \in BoxId
        PROVE  /\ boxes'[b] \in BoxData
               /\ ~boxes'[b].kept => boxes'[b] = NoBox
               /\ nextBox' <= b => boxes'[b] = NoBox
               /\ boxes'[b].confirmed => boxes'[b].hits >= SortHits
    <2>1. boxes[b] \in BoxData /\ (boxes[b].confirmed => boxes[b].hits >= SortHits)
      BY DEF SortInv
    <2>2. b \in Kept => boxes[b].kept
      BY DEF Kept
    <2>3. nextBox' <= b => b \notin Kept /\ b \notin NewBoxes(new)
      BY SortBounds DEF SortInv, Kept, NewBoxes
    <2>4. CASE b \in NewBoxes(new)
      BY <2>3, <2>4, BoxFrameProps, SortBounds
    <2>5. CASE b \in hit
      BY <2>1, <2>2, <2>3, <2>5, BoxFrameProps, SeenProps
    <2>6. CASE b \in Kept \ hit
      BY <2>1, <2>2, <2>3, <2>6, BoxFrameProps, AgedProps, SortBounds
    <2>7. CASE b \notin Kept /\ b \notin NewBoxes(new)
      BY <2>7, BoxFrameProps, SortBounds
    <2> QED
      BY <2>4, <2>5, <2>6, <2>7
  <1>2. boxes' = [b \in BoxId |-> boxes'[b]]
    BY DEF AfterBoxes
  <1>3. nextBox' \in 0 .. MaxBoxes
    BY SortBounds DEF SortInv
  <1>4. boxes' \in [BoxId -> BoxData]
    BY <1>1, <1>2
  <1> QED
    BY <1>1, <1>3, <1>4 DEF SortInv

LEMMA SortStepInv == SortInv /\ [SortNext]_sortVars => SortInv'
  <1> SUFFICES ASSUME SortInv, [SortNext]_sortVars PROVE SortInv'
    OBVIOUS
  <1>1. CASE UpdateBoxes
    BY <1>1, UpdateBoxesIs, BoxFrameKeepsInv
  <1>2. CASE ResetBoxes
    BY <1>2, SortBounds DEF ResetBoxes, SortInv
  <1>3. CASE UNCHANGED sortVars
    BY <1>3 DEF sortVars, SortInv
  <1> QED
    BY <1>1, <1>2, <1>3 DEF SortNext

(* A frame of the SORT tracker is one of the registry's.                    *)
LEMMA BoxFrameIsRegistered ==
    ASSUME SortInv, NEW hit \in SUBSET Kept, NEW new \in Nat, nextBox + new <= MaxBoxes,
           boxes' = AfterBoxes(hit, NewBoxes(new)), nextBox' = nextBox + new
    PROVE  BoxRegistry!Frame
  <1> DEFINE made == NewBoxes(new)
             u == [b \in BoxId |-> boxes[b].since]
  <1>1. \A b \in BoxId : /\ boxes[b] \in BoxData /\ boxes[b].since \in 0 .. SortAge
                         /\ boxes[b].confirmed => boxes[b].hits >= SortHits
                         /\ b \in Kept <=> boxes[b].kept
    BY DEF SortInv, BoxData, Kept
  <1>2. Kept' = {b \in BoxId : boxes'[b].kept}
    BY DEF Kept
  <1>3. ASSUME NEW b \in BoxId
        PROVE  /\ b \in made => b \notin Kept /\ b \in Kept' /\ boxes'[b].since = 0
               /\ b \in hit => b \in Kept' /\ boxes'[b].since = 0
               /\ b \in Kept \ hit =>
                    \/ b \in Kept' /\ boxes'[b].since = BoxRegistry!Later(u[b])
                    \/ b \notin Kept' /\ boxes'[b].since = 0 /\ BoxRegistry!Later(u[b]) > SortAge
               /\ b \notin Kept /\ b \notin made => b \notin Kept' /\ boxes'[b].since = 0
    <2>1. BoxRegistry!Later(u[b]) = boxes[b].since + 1
      BY <1>1, SortBounds DEF BoxRegistry!Later
    <2>2. CASE b \in made
      BY <1>2, <2>2, BoxFrameProps, SortBounds
    <2>3. CASE b \in hit
      BY <1>1, <1>2, <2>2, <2>3, BoxFrameProps, SeenProps
    <2>4. CASE b \in Kept \ hit
      BY <1>1, <1>2, <2>1, <2>2, <2>4, BoxFrameProps, AgedProps, SortBounds
    <2>5. CASE b \notin Kept /\ b \notin made
      BY <1>2, <2>5, BoxFrameProps, SortBounds
    <2> QED
      BY <2>2, <2>3, <2>4, <2>5
  <1>4. nextBox' >= nextBox /\ made = {b \in BoxId : nextBox <= b /\ b < nextBox'}
    BY SortBounds DEF SortInv, NewBoxes
  <1>5. Kept \subseteq BoxId /\ Kept' \subseteq BoxId /\ made \subseteq BoxId
    BY <1>2 DEF Kept, NewBoxes
  <1> HIDE DEF made, u
  <1>6. made \subseteq Kept' /\ Kept' \subseteq Kept \cup made
    BY <1>3, <1>5
  <1>7. \A b \in Kept \ Kept' : b \in Kept \ hit /\ BoxRegistry!Later(u[b]) > SortAge
    BY <1>3, <1>5
  <1>8. [b \in BoxId |-> boxes'[b].since]
           = [b \in BoxId |-> IF b \in (Kept \ hit) \cap Kept' THEN BoxRegistry!Later(u[b]) ELSE 0]
    <2> SUFFICES ASSUME NEW b \in BoxId
                 PROVE  boxes'[b].since
                          = IF b \in (Kept \ hit) \cap Kept' THEN BoxRegistry!Later(u[b]) ELSE 0
      BY Zenon
    <2> QED
      BY <1>3
  <1> QED
    BY <1>4, <1>6, <1>7, <1>8 DEF BoxRegistry!Frame, u

(* The SORT tracker keeps the promises about the numbers of tracks, too.    *)
THEOREM BoxesKeepTheirNumber == SortSpec => SortKeepsRegistry
  <1>1. SortInit => BoxRegistry!RegistryInit
    BY SortBounds DEF SortInit, BoxRegistry!RegistryInit, Kept
  <1>2. SortInv /\ [SortNext]_sortVars
           => [BoxRegistry!Frame \/ BoxRegistry!Forget]_BoxRegistry!registryVars
    <2> SUFFICES ASSUME SortInv, [SortNext]_sortVars
                 PROVE  [BoxRegistry!Frame \/ BoxRegistry!Forget]_BoxRegistry!registryVars
      OBVIOUS
    <2>1. CASE UpdateBoxes
      BY <2>1, UpdateBoxesIs, BoxFrameIsRegistered
    <2>2. CASE ResetBoxes
      <3>1. \A b \in BoxId : boxes'[b] = NoBox
        BY <2>2 DEF ResetBoxes
      <3> QED
        BY <2>2, <3>1, SortBounds DEF ResetBoxes, BoxRegistry!Forget, Kept
    <2>3. CASE UNCHANGED sortVars
      BY <2>3 DEF sortVars, BoxRegistry!registryVars, Kept
    <2> QED
      BY <2>1, <2>2, <2>3 DEF SortNext
  <1> QED
    BY <1>1, <1>2, SortInitInv, SortStepInv, PTL
       DEF SortSpec, SortKeepsRegistry, BoxRegistry!RegistrySpec
--------------------------------------------------------------------------------
(* The batch engine.                                                        *)
(* Lists without repetition; those a worker runs, for one model; a worker's *)
(* jobs, none with a request of another.                                    *)
Lists == {s \in Seq(Requests) : IsInjective(s)}
Jobs == {l \in Lists : /\ Len(l) \in 1 .. MaxBatch
                       /\ \A x, y \in ToSet(l) : x \in Unknown <=> y \in Unknown}
Good(jobs) ==
    /\ jobs \in Seq(Jobs)
    /\ \A i, k \in 1 .. Len(jobs) : i # k => \A x : ~(x \in ToSet(jobs[i]) /\ x \in ToSet(jobs[k]))

(* A set of numbers has a least one: the library's well-founded order on finite sets, applied to intervals. *)
LEMMA LeastNumber ==
    ASSUME NEW S \in SUBSET Nat, S # {}
    PROVE  \E m \in S : \A k \in S : m <= k
  <1> DEFINE T == {1 .. k : k \in S}
             R == StrictSubsetOrdering(Nat)
  <1>1. T \subseteq FiniteSubsetsOf(Nat)
    <2> SUFFICES ASSUME NEW k \in S PROVE IsFiniteSet(1 .. k) /\ 1 .. k \subseteq Nat
      BY DEF FiniteSubsetsOf
    <2> QED
      BY FS_Interval
  <1>2. PICK x \in T : \A y \in T : ~(<<y, x>> \in R)
    <2>1. T # {}
      OBVIOUS
    <2>2. IsWellFoundedOn(R, FiniteSubsetsOf(Nat))
      BY FS_StrictSubsetOrderingWellFounded
    <2> HIDE DEF T, R
    <2> QED
      BY <1>1, <2>1, <2>2, WFMin
  <1>3. PICK m \in S : x = 1 .. m
    OBVIOUS
  <1>4. ASSUME NEW k \in S, k < m PROVE FALSE
    <2>1. 1 .. k \in T /\ 1 .. k \subseteq 1 .. m /\ m \in 1 .. m /\ m \notin 1 .. k
      BY <1>4
    <2>2. <<1 .. k, 1 .. m>> \in R
      BY <2>1 DEF StrictSubsetOrdering
    <2> QED
      BY <1>2, <1>3, <2>1, <2>2
  <1> QED
    BY <1>4

(* A sequence, its length, its set, and when no element is in it twice.     *)
LEMMA Members ==
    ASSUME NEW E, NEW s \in Seq(E)
    PROVE  /\ DOMAIN s = 1 .. Len(s) /\ Len(s) \in Nat
           /\ ToSet(s) \subseteq E
           /\ \A x : x \in ToSet(s) <=> \E i \in 1 .. Len(s) : s[i] = x
           /\ IsInjective(s) <=> \A i, j \in 1 .. Len(s) : s[i] = s[j] => i = j
           /\ s = <<>> <=> Len(s) = 0
           /\ s = <<>> <=> ToSet(s) = {}
  <1>1. DOMAIN s = 1 .. Len(s) /\ Len(s) \in Nat /\ \A i \in 1 .. Len(s) : s[i] \in E
    OBVIOUS
  <1>2. s = <<>> <=> Len(s) = 0
    OBVIOUS
  <1>3. \A x : x \in ToSet(s) <=> \E i \in 1 .. Len(s) : s[i] = x
    BY <1>1 DEF ToSet
  <1>4. s = <<>> <=> ToSet(s) = {}
    <2>1. Len(s) = 0 \/ 1 \in 1 .. Len(s)
      BY <1>1
    <2>2. CASE Len(s) = 0
      <3>1. ToSet(<<>>) = {}
        BY DEF ToSet
      <3> QED
        BY <1>2, <2>2, <3>1
    <2>3. CASE 1 \in 1 .. Len(s)
      <3>1. s[1] \in ToSet(s)
        BY <1>3, <2>3
      <3>2. Len(s) # 0
        BY <1>1, <2>3
      <3> QED
        BY <1>2, <3>1, <3>2
    <2> QED
      BY <2>1, <2>2, <2>3
  <1> QED
    BY <1>1, <1>2, <1>3, <1>4 DEF IsInjective
--------------------------------------------------------------------------------
(* The loop of a filter over the first m elements.                          *)
LoopStep(f, list, S, n) == IF list[n] \in S THEN Append(f[n - 1], list[n]) ELSE f[n - 1]
Loop(f, list, S, m) == f = [n \in 0 .. m |-> IF n = 0 THEN <<>> ELSE LoopStep(f, list, S, n)]

(* The recursive function of a filter exists, up to any length.             *)
LEMMA LoopExists ==
    ASSUME NEW list, NEW S, NEW l \in Nat
    PROVE  \E f : Loop(f, list, S, l)
  <1> DEFINE T == {n \in Nat : ~\E f : Loop(f, list, S, n)}
  <1> SUFFICES ASSUME T # {} PROVE FALSE
    OBVIOUS
  <1>1. PICK m \in T : \A k \in T : m <= k
    BY LeastNumber
  <1>2. CASE m = 0
    <2> DEFINE f == [n \in 0 .. 0 |-> <<>>]
    <2>1. Loop(f, list, S, 0)
      BY DEF Loop
    <2> QED
      BY <1>2, <2>1
  <1>3. CASE m # 0
    <2>1. m - 1 \in Nat /\ m - 1 \notin T
      BY <1>1, <1>3
    <2>2. PICK f : Loop(f, list, S, m - 1)
      BY <2>1
    <2> DEFINE g == [n \in 0 .. m |-> IF n < m THEN f[n] ELSE LoopStep(f, list, S, m)]
    <2>3. ASSUME NEW n \in 0 .. m PROVE g[n] = IF n = 0 THEN <<>> ELSE LoopStep(g, list, S, n)
      <3>1. CASE n = 0
        BY <1>3, <2>1, <2>2, <3>1 DEF Loop
      <3>2. CASE n # 0
        <4>1. n - 1 \in 0 .. m /\ n - 1 < m
          BY <3>2
        <4>2. g[n - 1] = f[n - 1]
          BY <4>1
        <4>3. LoopStep(g, list, S, n) = LoopStep(f, list, S, n)
          BY <4>2 DEF LoopStep
        <4>4. n < m => f[n] = LoopStep(f, list, S, n)
          BY <2>1, <2>2, <3>2 DEF Loop
        <4> QED
          BY <3>2, <4>3, <4>4
      <3> QED
        BY <3>1, <3>2
    <2>4. g = [n \in 0 .. m |-> g[n]]
      OBVIOUS
    <2> HIDE DEF g
    <2>5. Loop(g, list, S, m)
      BY <2>3, <2>4, Zenon DEF Loop
    <2> QED
      BY <2>5
  <1> QED
    BY <1>2, <1>3

(* What the loop has collected after n elements.                            *)
LEMMA LoopProps ==
    ASSUME NEW E, NEW list \in Seq(E), NEW S, NEW f, Loop(f, list, S, Len(list))
    PROVE  \A n \in 0 .. Len(list) :
              /\ f[n] \in Seq(E) /\ Len(f[n]) <= n
              /\ \A x : x \in ToSet(f[n]) <=> x \in S /\ \E i \in 1 .. n : list[i] = x
              /\ IsInjective(list) => IsInjective(f[n])
  <1> DEFINE P(n) == /\ f[n] \in Seq(E) /\ Len(f[n]) <= n
                     /\ \A x : x \in ToSet(f[n]) <=> x \in S /\ \E i \in 1 .. n : list[i] = x
                     /\ IsInjective(list) => IsInjective(f[n])
             T == {n \in 0 .. Len(list) : ~P(n)}
  <1> SUFFICES ASSUME T # {} PROVE FALSE
    OBVIOUS
  <1>1. PICK m \in T : \A k \in T : m <= k
    <2>1. T \subseteq Nat
      OBVIOUS
    <2> HIDE DEF T
    <2> QED
      BY <2>1, LeastNumber
  <1>2. m \in 0 .. Len(list) /\ ~P(m) /\ Len(list) \in Nat
    OBVIOUS
  <1>3. CASE m = 0
    <2>1. f[0] = <<>>
      BY <1>2, <1>3 DEF Loop
    <2>2. <<>> \in Seq(E) /\ Len(<<>>) = 0
      OBVIOUS
    <2>3. ToSet(f[0]) = {} /\ IsInjective(f[0])
      BY <2>1 DEF ToSet, IsInjective
    <2> QED
      BY <1>2, <1>3, <2>1, <2>2, <2>3
  <1>4. CASE m # 0
    <2> DEFINE s == f[m - 1]
               e == list[m]
    <2>1. m - 1 \in 0 .. Len(list) /\ m \in 1 .. Len(list)
      BY <1>2, <1>4
    <2>2. P(m - 1)
      <3>1. m - 1 \notin T
        <4> HIDE DEF T
        <4> QED
          BY <1>1, <2>1
      <3> QED
        BY <2>1, <3>1
    <2>3. f[m] = IF e \in S THEN Append(s, e) ELSE s
      BY <1>2, <1>4 DEF Loop, LoopStep
    <2>4. s \in Seq(E) /\ e \in E /\ Len(s) <= m - 1 /\ Len(s) \in Nat
      BY <2>1, <2>2
    <2>5. \A x : x \in ToSet(s) <=> x \in S /\ \E i \in 1 .. m - 1 : list[i] = x
      BY <2>2
    <2>6. IsInjective(list) => IsInjective(s)
      BY <2>2
    <2>7. \A x : (\E i \in 1 .. m : list[i] = x) <=> x = e \/ \E i \in 1 .. m - 1 : list[i] = x
      BY <1>2, <2>1
    <2> HIDE DEF P, T, s
    <2>8. CASE e \notin S
      <3>1. f[m] = s
        BY <2>3, <2>8
      <3>2. \A x : x \in ToSet(s) <=> x \in S /\ \E i \in 1 .. m : list[i] = x
        BY <2>5, <2>7, <2>8
      <3> QED
        BY <1>2, <2>4, <2>6, <3>1, <3>2 DEF P
    <2>9. CASE e \in S
      <3> DEFINE a == Append(s, e)
      <3>1. f[m] = a
        BY <2>3, <2>9
      <3>2. /\ a \in Seq(E) /\ Len(a) = Len(s) + 1
            /\ \A i \in 1 .. Len(s) : a[i] = s[i]
            /\ a[Len(s) + 1] = e
        BY <2>4, AppendProperties
      <3> HIDE DEF a
      <3>3. \A x : x \in ToSet(a) <=> x \in ToSet(s) \/ x = e
        <4>1. \A x : x \in ToSet(a) <=> \E i \in 1 .. Len(s) + 1 : a[i] = x
          BY <3>2, Members
        <4>2. \A x : x \in ToSet(s) <=> \E i \in 1 .. Len(s) : s[i] = x
          BY <2>4, Members
        <4> HIDE DEF e
        <4> QED
          BY <2>4, <3>2, <4>1, <4>2
      <3>4. \A x : x \in ToSet(a) <=> x \in S /\ \E i \in 1 .. m : list[i] = x
        BY <2>5, <2>7, <2>9, <3>3
      <3>5. ASSUME IsInjective(list) PROVE IsInjective(a)
        <4>1. e \notin ToSet(s)
          BY <1>2, <2>1, <2>5, <3>5, Members
        <4>2. \A i \in 1 .. Len(s) : s[i] # e
          BY <2>4, <4>1, Members
        <4>3. \A i, j \in 1 .. Len(s) : s[i] = s[j] => i = j
          BY <2>4, <2>6, <3>5, Members
        <4> HIDE DEF e
        <4>4. \A i, j \in 1 .. Len(a) : a[i] = a[j] => i = j
          BY <2>4, <3>2, <4>2, <4>3
        <4> QED
          BY <3>2, <4>4, Members
      <3> QED
        BY <1>2, <2>4, <3>1, <3>2, <3>4, <3>5 DEF P
    <2> QED
      BY <2>8, <2>9
  <1> QED
    BY <1>3, <1>4

(* Filter keeps the elements in S, and no repetition appears.               *)
LEMMA FilterProps ==
    ASSUME NEW list \in Seq(Requests), NEW S
    PROVE  /\ Filter(list, S) \in Seq(Requests) /\ Len(Filter(list, S)) <= Len(list)
           /\ \A x : x \in ToSet(Filter(list, S)) <=> x \in ToSet(list) /\ x \in S
           /\ list \in Lists => Filter(list, S) \in Lists
  <1> DEFINE f == CHOOSE upTo :
                    upTo = [n \in 0 .. Len(list) |->
                              IF n = 0 THEN <<>>
                              ELSE IF list[n] \in S THEN Append(upTo[n - 1], list[n]) ELSE upTo[n - 1]]
  <1>1. Len(list) \in Nat
    OBVIOUS
  <1>2. Filter(list, S) = f[Len(list)]
    BY DEF Filter
  <1>3. Loop(f, list, S, Len(list))
    <2>1. \E g : Loop(g, list, S, Len(list))
      BY <1>1, LoopExists
    <2> QED
      BY <2>1, Zenon DEF Loop, LoopStep
  <1> HIDE DEF f
  <1>4. /\ f[Len(list)] \in Seq(Requests) /\ Len(f[Len(list)]) <= Len(list)
        /\ \A x : x \in ToSet(f[Len(list)]) <=> x \in S /\ \E i \in 1 .. Len(list) : list[i] = x
        /\ IsInjective(list) => IsInjective(f[Len(list)])
    <2>1. Len(list) \in 0 .. Len(list)
      BY <1>1
    <2> QED
      BY <1>3, <2>1, LoopProps
  <1>5. \A x : x \in ToSet(list) <=> \E i \in 1 .. Len(list) : list[i] = x
    BY Members
  <1> QED
    BY <1>2, <1>4, <1>5 DEF Lists
--------------------------------------------------------------------------------
(* A list cut in two.                                                       *)
LEMMA SplitProps ==
    ASSUME NEW list \in Lists, NEW k \in 0 .. Len(list)
    PROVE  LET a == SubSeq(list, 1, k)
               b == SubSeq(list, k + 1, Len(list))
           IN  /\ a \in Lists /\ Len(a) = k /\ b \in Lists /\ Len(b) = Len(list) - k
               /\ \A x : x \in ToSet(list) <=> x \in ToSet(a) \/ x \in ToSet(b)
               /\ \A x : ~(x \in ToSet(a) /\ x \in ToSet(b))
               /\ k > 0 => a[1] = list[1]
               /\ k = Len(list) => a = list
  <1> DEFINE a == SubSeq(list, 1, k)
             b == SubSeq(list, k + 1, Len(list))
             n == Len(list)
  <1>1. list \in Seq(Requests) /\ n \in Nat /\ \A i, j \in 1 .. n : list[i] = list[j] => i = j
    BY Members DEF Lists
  <1>2. \A i \in 1 .. n : list[i] \in Requests
    BY <1>1
  <1>3. /\ a \in Seq(Requests) /\ Len(a) = k /\ \A i \in 1 .. k : a[i] = list[i]
    <2>1. \A i \in 1 .. k : list[i] \in Requests
      BY <1>2
    <2> QED
      BY <2>1, SubSeqProperties
  <1>4. /\ b \in Seq(Requests) /\ Len(b) = n - k /\ \A i \in 1 .. n - k : b[i] = list[k + i]
    <2>1. \A i \in k + 1 .. n : list[i] \in Requests
      BY <1>2
    <2>2. /\ b \in Seq(Requests) /\ Len(b) = IF k + 1 <= n THEN n - (k + 1) + 1 ELSE 0
          /\ \A i \in 1 .. n - (k + 1) + 1 : b[i] = list[k + 1 + i - 1]
      BY <1>1, <2>1, SubSeqProperties
    <2>3. n - (k + 1) + 1 = n - k /\ (~(k + 1 <= n) => n - k = 0)
      BY <1>1
    <2>4. \A i \in 1 .. n - k : k + 1 + i - 1 = k + i
      BY <1>1
    <2> HIDE DEF b, n
    <2>5. Len(b) = n - k
      BY <2>2, <2>3
    <2>6. \A i \in 1 .. n - k : b[i] = list[k + 1 + i - 1]
      BY <2>2, <2>3
    <2> QED
      BY <2>2, <2>4, <2>5, <2>6
  <1> HIDE DEF a, b, n
  <1>5. a \in Lists
    <2>1. \A i, j \in 1 .. Len(a) : a[i] = a[j] => i = j
      BY <1>1, <1>3 DEF n
    <2> QED
      BY <1>3, <2>1, Members DEF Lists
  <1>6. b \in Lists
    <2>1. \A i, j \in 1 .. n - k : k + i \in 1 .. n /\ (k + i = k + j => i = j)
      BY <1>1 DEF n
    <2>2. \A i, j \in 1 .. Len(b) : b[i] = b[j] => i = j
      BY <1>1, <1>4, <2>1
    <2> QED
      BY <1>4, <2>2, Members DEF Lists
  <1>7. /\ \A x : x \in ToSet(list) <=> \E i \in 1 .. n : list[i] = x
        /\ \A x : x \in ToSet(a) <=> \E i \in 1 .. k : list[i] = x
        /\ \A x : x \in ToSet(b) <=> \E i \in 1 .. n - k : list[k + i] = x
    <2>1. \A x : x \in ToSet(a) <=> \E i \in 1 .. k : a[i] = x
      BY <1>3, Members
    <2>2. \A x : x \in ToSet(b) <=> \E i \in 1 .. n - k : b[i] = x
      BY <1>4, Members
    <2>3. \A x : x \in ToSet(list) <=> \E i \in 1 .. n : list[i] = x
      BY <1>1, Members DEF n
    <2> QED
      BY <1>3, <1>4, <2>1, <2>2, <2>3
  <1>8. \A i \in 1 .. n : i \in 1 .. k \/ (i - k \in 1 .. n - k /\ k + (i - k) = i)
    BY <1>1 DEF n
  <1>9. \A i \in 1 .. k, j \in 1 .. n - k : i \in 1 .. n /\ k + j \in 1 .. n /\ i # k + j
    BY <1>1 DEF n
  <1>10. \A x : x \in ToSet(list) <=> x \in ToSet(a) \/ x \in ToSet(b)
    <2>1. \A x : x \in ToSet(list) => x \in ToSet(a) \/ x \in ToSet(b)
      <3> SUFFICES ASSUME NEW i \in 1 .. n
                   PROVE  list[i] \in ToSet(a) \/ list[i] \in ToSet(b)
        BY <1>7
      <3> QED
        BY <1>7, <1>8
    <2>2. \A x : x \in ToSet(a) => x \in ToSet(list)
      BY <1>1, <1>7 DEF n
    <2>3. \A x : x \in ToSet(b) => x \in ToSet(list)
      <3>1. \A j \in 1 .. n - k : k + j \in 1 .. n
        BY <1>1 DEF n
      <3> QED
        BY <1>7, <3>1
    <2> QED
      BY <2>1, <2>2, <2>3
  <1>11. \A x : ~(x \in ToSet(a) /\ x \in ToSet(b))
    <2> SUFFICES ASSUME NEW i \in 1 .. k, NEW j \in 1 .. n - k, list[i] = list[k + j] PROVE FALSE
      BY <1>7
    <2> QED
      BY <1>1, <1>9
  <1>12. k > 0 => a[1] = list[1]
    BY <1>3
  <1>13. k = n => a = list
    BY <1>1, <1>3, SeqEqual DEF n
  <1> QED
    BY <1>3, <1>4, <1>5, <1>6, <1>10, <1>11, <1>12, <1>13 DEF a, b, n

(* list[:size] is a beginning of the list, empty only if the list is.       *)
LEMMA CutProps ==
    ASSUME NEW list \in Lists, NEW size \in Nat, size >= 1
    PROVE  LET c == CutTo(size, list)
           IN  /\ c \in Lists /\ Len(c) <= size /\ Len(c) <= Len(list)
               /\ c = <<>> <=> list = <<>>
               /\ \A x : x \in ToSet(c) => x \in ToSet(list)
               /\ Len(list) <= size => c = list
               /\ list # <<>> => c[1] = list[1]
  <1> DEFINE k == IF Len(list) < size THEN Len(list) ELSE size
             c == SubSeq(list, 1, k)
  <1>1. CutTo(size, list) = c
    BY DEF CutTo
  <1>2. Len(list) \in Nat /\ (list = <<>> <=> Len(list) = 0)
    BY Members DEF Lists
  <1>3. k \in 0 .. Len(list) /\ k <= size /\ (k = 0 <=> Len(list) = 0) /\ (Len(list) <= size => k = Len(list))
    BY <1>2
  <1> HIDE DEF k
  <1>4. /\ c \in Lists /\ Len(c) = k
        /\ \A x : x \in ToSet(c) => x \in ToSet(list)
        /\ k > 0 => c[1] = list[1]
        /\ k = Len(list) => c = list
    BY <1>3, SplitProps
  <1> HIDE DEF c
  <1>5. c = <<>> <=> Len(c) = 0
    BY <1>4, Members DEF Lists
  <1> QED
    BY <1>1, <1>2, <1>3, <1>4, <1>5

(* Two lists without a common element, one after the other.                 *)
LEMMA JoinProps ==
    ASSUME NEW a \in Lists, NEW b \in Lists, \A x : ~(x \in ToSet(a) /\ x \in ToSet(b))
    PROVE  /\ a \o b \in Lists /\ Len(a \o b) = Len(a) + Len(b)
           /\ \A x : x \in ToSet(a \o b) <=> x \in ToSet(a) \/ x \in ToSet(b)
  <1> DEFINE c == a \o b
             m == Len(a)
             n == Len(b)
  <1>1. /\ a \in Seq(Requests) /\ b \in Seq(Requests) /\ m \in Nat /\ n \in Nat
        /\ \A i, j \in 1 .. m : a[i] = a[j] => i = j
        /\ \A i, j \in 1 .. n : b[i] = b[j] => i = j
    BY Members DEF Lists
  <1>2. /\ c \in Seq(Requests) /\ Len(c) = m + n
        /\ \A i \in 1 .. m + n : c[i] = IF i <= m THEN a[i] ELSE b[i - m]
    BY <1>1, ConcatProperties
  <1>3. /\ \A x : x \in ToSet(a) <=> \E i \in 1 .. m : a[i] = x
        /\ \A x : x \in ToSet(b) <=> \E i \in 1 .. n : b[i] = x
    BY <1>1, Members
  <1> HIDE DEF c
  <1>4. \A x : x \in ToSet(c) <=> \E i \in 1 .. m + n : c[i] = x
    BY <1>2, Members
  <1> HIDE DEF m, n
  <1>5. /\ \A i \in 1 .. m + n : i <= m => i \in 1 .. m /\ c[i] = a[i]
        /\ \A i \in 1 .. m + n : ~(i <= m) => i - m \in 1 .. n /\ c[i] = b[i - m]
    <2>1. \A i \in 1 .. m + n : i <= m => i \in 1 .. m
      BY <1>1
    <2>2. \A i \in 1 .. m + n : ~(i <= m) => i - m \in 1 .. n
      BY <1>1
    <2>3. \A i \in 1 .. m + n : i <= m => c[i] = a[i]
      BY <1>2
    <2>4. \A i \in 1 .. m + n : ~(i <= m) => c[i] = b[i - m]
      BY <1>2
    <2> QED
      BY <2>1, <2>2, <2>3, <2>4
  <1>6. /\ \A i \in 1 .. m : i \in 1 .. m + n /\ c[i] = a[i]
        /\ \A i \in 1 .. n : m + i \in 1 .. m + n /\ c[m + i] = b[i]
    <2>1. \A i \in 1 .. n : m + i \in 1 .. m + n /\ ~(m + i <= m) /\ m + i - m = i
      BY <1>1
    <2>2. \A i \in 1 .. m : i \in 1 .. m + n /\ i <= m
      BY <1>1
    <2>3. \A i \in 1 .. m : c[i] = a[i]
      BY <1>5, <2>2
    <2>4. ASSUME NEW i \in 1 .. n PROVE c[m + i] = b[i]
      <3> DEFINE k == m + i
      <3>1. k \in 1 .. m + n /\ ~(k <= m) /\ k - m = i
        BY <1>1
      <3> HIDE DEF k
      <3>2. c[k] = b[k - m]
        BY <1>5, <3>1
      <3> QED
        BY <3>1, <3>2 DEF k
    <2> QED
      BY <2>1, <2>2, <2>3, <2>4
  <1>7. \A x : x \in ToSet(c) <=> x \in ToSet(a) \/ x \in ToSet(b)
    BY <1>3, <1>4, <1>5, <1>6
  <1>8. ASSUME NEW i \in 1 .. m + n, NEW j \in 1 .. m + n, c[i] = c[j] PROVE i = j
    <2>1. CASE i <= m /\ j <= m
      BY <1>1, <1>5, <1>8, <2>1
    <2>2. CASE ~(i <= m) /\ ~(j <= m)
      <3>1. i - m \in 1 .. n /\ j - m \in 1 .. n /\ b[i - m] = b[j - m]
        BY <1>5, <1>8, <2>2
      <3>2. i - m = j - m
        BY <1>1, <3>1
      <3> QED
        BY <1>1, <3>2
    <2>3. CASE i <= m /\ ~(j <= m)
      <3>1. c[i] \in ToSet(a) /\ c[j] \in ToSet(b)
        BY <1>3, <1>5, <2>3
      <3> QED
        BY <1>8, <3>1
    <2>4. CASE ~(i <= m) /\ j <= m
      <3>1. c[j] \in ToSet(a) /\ c[i] \in ToSet(b)
        BY <1>3, <1>5, <2>4
      <3> QED
        BY <1>8, <3>1
    <2> QED
      BY <2>1, <2>2, <2>3, <2>4
  <1>9. c \in Lists
    BY <1>2, <1>8, Members DEF Lists
  <1> QED
    BY <1>2, <1>7, <1>9 DEF c, m, n

(* A list is as long as its set is large.                                   *)
LEMMA ListSize == ASSUME NEW list \in Lists
                  PROVE  Cardinality(ToSet(list)) = Len(list)
  <1>1. /\ DOMAIN list = 1 .. Len(list) /\ Len(list) \in Nat /\ list \in Seq(Requests)
        /\ \A i, j \in 1 .. Len(list) : list[i] = list[j] => i = j
        /\ \A x : x \in ToSet(list) <=> \E i \in 1 .. Len(list) : list[i] = x
    BY Members DEF Lists
  <1>2. list \in [1 .. Len(list) -> ToSet(list)]
    BY <1>1
  <1>3. list \in Bijection(1 .. Len(list), ToSet(list))
    BY <1>1, <1>2 DEF Bijection, Injection, Surjection, IsInjective
  <1>4. IsFiniteSet(1 .. Len(list)) /\ Cardinality(1 .. Len(list)) = Len(list)
    BY <1>1, FS_Interval
  <1> QED
    BY <1>3, <1>4, FS_Bijection DEF ExistsBijection

(* The sort by priority neither loses nor doubles a request.                *)
LEMMA PriorityProps ==
    ASSUME NEW list \in Lists
    PROVE  /\ ByPriority(list) \in Lists /\ Len(ByPriority(list)) = Len(list)
           /\ \A x : x \in ToSet(ByPriority(list)) <=> x \in ToSet(list)
  <1> DEFINE a == Filter(list, Urgent)
             b == Filter(list, Requests \ Urgent)
  <1>1. list \in Seq(Requests) /\ \A x \in ToSet(list) : x \in Requests
    BY Members DEF Lists
  <1>2. a \in Lists /\ \A x : x \in ToSet(a) <=> x \in ToSet(list) /\ x \in Urgent
    BY <1>1, FilterProps
  <1>3. b \in Lists /\ \A x : x \in ToSet(b) <=> x \in ToSet(list) /\ x \in Requests \ Urgent
    BY <1>1, FilterProps
  <1> HIDE DEF a, b
  <1>4. a \o b \in Lists /\ \A x : x \in ToSet(a \o b) <=> x \in ToSet(a) \/ x \in ToSet(b)
    BY <1>2, <1>3, JoinProps
  <1>5. ByPriority(list) = a \o b
    BY DEF ByPriority, a, b
  <1>6. \A x : x \in ToSet(a \o b) <=> x \in ToSet(list)
    BY <1>1, <1>2, <1>3, <1>4
  <1>7. ToSet(a \o b) = ToSet(list)
    BY <1>6
  <1>8. Len(a \o b) = Len(list)
    BY <1>4, <1>7, ListSize
  <1> QED
    BY <1>4, <1>5, <1>6, <1>8
--------------------------------------------------------------------------------
(* A job, and the jobs a worker holds.                                      *)
LEMMA JobProps ==
    ASSUME NEW l \in Jobs
    PROVE  /\ l \in Lists /\ Len(l) \in 1 .. MaxBatch /\ Len(l) \in Nat /\ l # <<>>
           /\ Head(l) \in ToSet(l) /\ Head(l) = l[1] /\ ToSet(l) \subseteq Requests
           /\ \A x \in ToSet(l) : x \in Unknown <=> Head(l) \in Unknown
  <1>1. l \in Lists /\ l \in Seq(Requests) /\ Len(l) \in 1 .. MaxBatch
    BY DEF Jobs, Lists
  <1>2. /\ Len(l) \in Nat /\ (l = <<>> <=> Len(l) = 0) /\ ToSet(l) \subseteq Requests
        /\ \A x : x \in ToSet(l) <=> \E i \in 1 .. Len(l) : l[i] = x
    BY <1>1, Members
  <1>3. l # <<>> /\ 1 \in 1 .. Len(l)
    BY <1>1, <1>2
  <1>4. Head(l) = l[1]
    BY <1>1, <1>3, HeadTailProperties
  <1>5. Head(l) \in ToSet(l)
    BY <1>2, <1>3, <1>4
  <1>6. \A x \in ToSet(l) : x \in Unknown <=> Head(l) \in Unknown
    BY <1>5 DEF Jobs
  <1> QED
    BY <1>1, <1>2, <1>3, <1>4, <1>5, <1>6

(* A request of a list of jobs is in one of them.                           *)
LEMMA RequestsOfProps ==
    ASSUME NEW jobs \in Seq(Jobs)
    PROVE  /\ \A x : x \in RequestsOf(jobs) <=> \E i \in 1 .. Len(jobs) : x \in ToSet(jobs[i])
           /\ RequestsOf(jobs) \subseteq Requests
           /\ Len(jobs) \in Nat /\ (jobs = <<>> <=> Len(jobs) = 0)
           /\ jobs \in Seq(Seq(Requests))
  <1>1. /\ DOMAIN jobs = 1 .. Len(jobs) /\ Len(jobs) \in Nat /\ (jobs = <<>> <=> Len(jobs) = 0)
        /\ \A i \in 1 .. Len(jobs) : jobs[i] \in Jobs
    OBVIOUS
  <1>2. \A x : x \in RequestsOf(jobs) <=> \E i \in 1 .. Len(jobs) : x \in ToSet(jobs[i])
    BY <1>1 DEF RequestsOf
  <1>3. \A i \in 1 .. Len(jobs) : ToSet(jobs[i]) \subseteq Requests
    BY <1>1, JobProps
  <1>4. Jobs \subseteq Seq(Requests)
    BY DEF Jobs, Lists
  <1>5. jobs \in Seq(Seq(Requests))
    BY <1>4
  <1> QED
    BY <1>1, <1>2, <1>3, <1>5

(* An idle worker has nothing in hand.                                      *)
LEMMA NoJobs == Good(<<>>) /\ RequestsOf(<<>>) = {}
  <1>1. <<>> \in Seq(Jobs) /\ Len(<<>>) = 0 /\ 1 .. 0 = {} /\ DOMAIN <<>> = {}
    OBVIOUS
  <1>2. RequestsOf(<<>>) = {}
    BY <1>1 DEF RequestsOf
  <1> QED
    BY <1>1, <1>2 DEF Good

(* A worker's first job is apart from the rest.                             *)
LEMMA HeadJob ==
    ASSUME NEW jobs, Good(jobs), jobs # <<>>
    PROVE  /\ Head(jobs) \in Jobs /\ Good(Tail(jobs)) /\ (Tail(jobs) = <<>> <=> Len(jobs) = 1)
           /\ \A x : x \in RequestsOf(jobs) <=> x \in ToSet(Head(jobs)) \/ x \in RequestsOf(Tail(jobs))
           /\ \A x : ~(x \in ToSet(Head(jobs)) /\ x \in RequestsOf(Tail(jobs)))
  <1> DEFINE h == Head(jobs)
             r == Tail(jobs)
             n == Len(jobs)
  <1>1. /\ jobs \in Seq(Jobs) /\ n \in Nat /\ n >= 1
        /\ \A i, k \in 1 .. n : i # k => \A x : ~(x \in ToSet(jobs[i]) /\ x \in ToSet(jobs[k]))
    BY RequestsOfProps DEF Good
  <1>2. /\ h = jobs[1] /\ h \in Jobs /\ r \in Seq(Jobs) /\ Len(r) = n - 1
        /\ \A i \in 1 .. n - 1 : r[i] = jobs[i + 1]
    BY <1>1, HeadTailProperties
  <1> HIDE DEF h, r
  <1>3. /\ \A x : x \in RequestsOf(jobs) <=> \E i \in 1 .. n : x \in ToSet(jobs[i])
        /\ \A x : x \in RequestsOf(r) <=> \E i \in 1 .. n - 1 : x \in ToSet(r[i])
        /\ r = <<>> <=> Len(r) = 0
    <2>1. \A x : x \in RequestsOf(r) <=> \E i \in 1 .. Len(r) : x \in ToSet(r[i])
      BY <1>2, RequestsOfProps
    <2>2. r = <<>> <=> Len(r) = 0
      BY <1>2, RequestsOfProps
    <2> QED
      BY <1>1, <1>2, <2>1, <2>2, RequestsOfProps
  <1> HIDE DEF n
  <1>4. /\ \A i \in 1 .. n - 1 : i + 1 \in 1 .. n /\ i + 1 # 1
        /\ \A i \in 1 .. n : i = 1 \/ (i - 1 \in 1 .. n - 1 /\ i - 1 + 1 = i)
        /\ \A i, k \in 1 .. n - 1 : i # k => i + 1 # k + 1
        /\ 1 \in 1 .. n
    BY <1>1
  <1>5. \A x : x \in RequestsOf(jobs) => x \in ToSet(h) \/ x \in RequestsOf(r)
    <2> SUFFICES ASSUME NEW x, NEW i \in 1 .. n, x \in ToSet(jobs[i])
                 PROVE  x \in ToSet(h) \/ x \in RequestsOf(r)
      BY <1>3
    <2>1. CASE i = 1
      BY <1>2, <2>1
    <2>2. CASE i - 1 \in 1 .. n - 1 /\ i - 1 + 1 = i
      <3>1. r[i - 1] = jobs[i]
        BY <1>2, <2>2
      <3> QED
        BY <1>3, <2>2, <3>1
    <2> QED
      BY <1>4, <2>1, <2>2
  <1>6. \A x : x \in ToSet(h) => x \in RequestsOf(jobs)
    BY <1>2, <1>3, <1>4
  <1>7. \A x : x \in RequestsOf(r) => x \in RequestsOf(jobs) /\ x \notin ToSet(h)
    <2> SUFFICES ASSUME NEW x, NEW i \in 1 .. n - 1, x \in ToSet(r[i])
                 PROVE  x \in RequestsOf(jobs) /\ x \notin ToSet(h)
      BY <1>3
    <2>1. r[i] = jobs[i + 1] /\ i + 1 \in 1 .. n /\ i + 1 # 1 /\ 1 \in 1 .. n
      BY <1>2, <1>4
    <2> QED
      BY <1>1, <1>2, <1>3, <2>1
  <1>8. Good(r)
    <2>1. ASSUME NEW i \in 1 .. n - 1, NEW k \in 1 .. n - 1, i # k, NEW x
          PROVE  ~(x \in ToSet(r[i]) /\ x \in ToSet(r[k]))
      <3>1. /\ r[i] = jobs[i + 1] /\ r[k] = jobs[k + 1] /\ i + 1 # k + 1
            /\ i + 1 \in 1 .. n /\ k + 1 \in 1 .. n
        BY <1>2, <1>4, <2>1
      <3> QED
        BY <1>1, <3>1
    <2> QED
      BY <1>2, <2>1 DEF Good
  <1>9. r = <<>> <=> n = 1
    BY <1>1, <1>2, <1>3
  <1> QED
    BY <1>2, <1>5, <1>6, <1>7, <1>8, <1>9 DEF h, r, n

(* A job put before others, apart from them.                                *)
LEMMA AddJob ==
    ASSUME NEW l \in Jobs, NEW rest, Good(rest),
           \A x : ~(x \in ToSet(l) /\ x \in RequestsOf(rest))
    PROVE  /\ Good(<<l>> \o rest) /\ <<l>> \o rest # <<>>
           /\ \A x : x \in RequestsOf(<<l>> \o rest) <=> x \in ToSet(l) \/ x \in RequestsOf(rest)
  <1> DEFINE c == <<l>> \o rest
             n == Len(rest)
  <1>1. /\ rest \in Seq(Jobs) /\ n \in Nat
        /\ \A i, k \in 1 .. n : i # k => \A x : ~(x \in ToSet(rest[i]) /\ x \in ToSet(rest[k]))
    BY RequestsOfProps DEF Good
  <1>2. c \in Seq(Jobs) /\ Len(c) = n + 1 /\ c[1] = l /\ \A i \in 1 .. n : c[i + 1] = rest[i]
    <2>1. <<l>> \in Seq(Jobs) /\ Len(<<l>>) = 1 /\ <<l>>[1] = l
      OBVIOUS
    <2>2. /\ c \in Seq(Jobs) /\ Len(c) = 1 + n
          /\ \A i \in 1 .. 1 + n : c[i] = IF i <= 1 THEN <<l>>[i] ELSE rest[i - 1]
      BY <1>1, <2>1, ConcatProperties
    <2>3. 1 \in 1 .. 1 + n /\ \A i \in 1 .. n : i + 1 \in 1 .. 1 + n /\ ~(i + 1 <= 1) /\ i + 1 - 1 = i
      BY <1>1
    <2> HIDE DEF c, n
    <2>4. c[1] = l
      BY <2>1, <2>2, <2>3
    <2>5. \A i \in 1 .. n : c[i + 1] = rest[i]
      BY <2>2, <2>3
    <2>6. 1 + n = n + 1
      BY <1>1
    <2> QED
      BY <2>2, <2>4, <2>5, <2>6
  <1> HIDE DEF c
  <1>3. /\ \A x : x \in RequestsOf(c) <=> \E i \in 1 .. n + 1 : x \in ToSet(c[i])
        /\ \A x : x \in RequestsOf(rest) <=> \E i \in 1 .. n : x \in ToSet(rest[i])
        /\ c # <<>>
    <2>1. (\A x : x \in RequestsOf(c) <=> \E i \in 1 .. Len(c) : x \in ToSet(c[i])) /\ (c = <<>> <=> Len(c) = 0)
      BY <1>2, RequestsOfProps
    <2>2. n + 1 # 0
      BY <1>1
    <2> QED
      BY <1>1, <1>2, <2>1, <2>2, RequestsOfProps
  <1> HIDE DEF n
  <1>4. /\ \A i \in 1 .. n : i + 1 \in 1 .. n + 1
        /\ \A i \in 1 .. n + 1 : i = 1 \/ (i - 1 \in 1 .. n /\ i - 1 + 1 = i)
        /\ \A i, k \in 1 .. n + 1 : i # k => i - 1 # k - 1
        /\ 1 \in 1 .. n + 1
    BY <1>1
  <1>5. \A i \in 1 .. n + 1 : i = 1 \/ (i - 1 \in 1 .. n /\ c[i] = rest[i - 1])
    <2> SUFFICES ASSUME NEW i \in 1 .. n + 1, i - 1 \in 1 .. n, i - 1 + 1 = i
                 PROVE  c[i] = rest[i - 1]
      BY <1>4
    <2>1. c[i - 1 + 1] = rest[i - 1]
      BY <1>2
    <2> QED
      BY <2>1
  <1>6. \A x : x \in RequestsOf(c) => x \in ToSet(l) \/ x \in RequestsOf(rest)
    BY <1>2, <1>3, <1>5
  <1>7. \A x : x \in ToSet(l) \/ x \in RequestsOf(rest) => x \in RequestsOf(c)
    BY <1>2, <1>3, <1>4
  <1>8. ASSUME NEW i \in 1 .. n + 1, NEW k \in 1 .. n + 1, i # k, NEW x
        PROVE  ~(x \in ToSet(c[i]) /\ x \in ToSet(c[k]))
    <2>1. CASE i = 1
      <3>1. c[i] = l /\ k - 1 \in 1 .. n /\ c[k] = rest[k - 1]
        BY <1>2, <1>5, <1>8, <2>1
      <3> QED
        BY <1>3, <3>1
    <2>2. CASE k = 1
      <3>1. c[k] = l /\ i - 1 \in 1 .. n /\ c[i] = rest[i - 1]
        BY <1>2, <1>5, <1>8, <2>2
      <3> QED
        BY <1>3, <3>1
    <2>3. CASE i # 1 /\ k # 1
      <3>1. /\ i - 1 \in 1 .. n /\ c[i] = rest[i - 1] /\ k - 1 \in 1 .. n /\ c[k] = rest[k - 1]
            /\ i - 1 # k - 1
        BY <1>4, <1>5, <1>8, <2>3
      <3> QED
        BY <1>1, <3>1
    <2> QED
      BY <2>1, <2>2, <2>3
  <1>9. Good(c)
    BY <1>2, <1>8 DEF Good
  <1> QED
    BY <1>3, <1>6, <1>7, <1>9 DEF c
--------------------------------------------------------------------------------
(* What a worker does with a batch.                                         *)
LEMMA OneJob == ASSUME NEW l \in Jobs
                PROVE  /\ Good(<<l>>) /\ <<l>> # <<>>
                       /\ \A x : x \in RequestsOf(<<l>>) <=> x \in ToSet(l)
  <1>1. <<l>> \in Seq(Jobs) /\ <<l>> \o <<>> = <<l>>
    BY ConcatEmptySeq
  <1>2. Good(<<>>) /\ RequestsOf(<<>>) = {}
    BY NoJobs
  <1>3. /\ Good(<<l>> \o <<>>) /\ <<l>> \o <<>> # <<>>
        /\ \A x : x \in RequestsOf(<<l>> \o <<>>) <=> x \in ToSet(l) \/ x \in RequestsOf(<<>>)
    BY <1>2, AddJob
  <1> QED
    BY <1>1, <1>2, <1>3

(* Two jobs that are apart.                                                 *)
LEMMA TwoJobs ==
    ASSUME NEW l \in Jobs, NEW m \in Jobs, \A x : ~(x \in ToSet(l) /\ x \in ToSet(m))
    PROVE  /\ Good(<<l, m>>) /\ <<l, m>> # <<>>
           /\ \A x : x \in RequestsOf(<<l, m>>) <=> x \in ToSet(l) \/ x \in ToSet(m)
  <1>1. <<l>> \o <<m>> = <<l, m>>
    <2> DEFINE c == <<l>> \o <<m>>
               d == <<l, m>>
    <2>1. <<l>> \in Seq(Jobs) /\ <<m>> \in Seq(Jobs) /\ Len(<<l>>) = 1 /\ Len(<<m>>) = 1 /\ d \in Seq(Jobs)
      OBVIOUS
    <2>2. c \in Seq(Jobs) /\ Len(c) = 2 /\ Len(d) = 2
      BY <2>1, ConcatProperties
    <2>3. c[1] = l /\ c[2] = m /\ d[1] = l /\ d[2] = m
      OBVIOUS
    <2> HIDE DEF c, d
    <2>4. \A i \in 1 .. Len(c) : c[i] = d[i]
      BY <2>2, <2>3
    <2>5. c = d
      BY <2>1, <2>2, <2>4, SeqEqual
    <2> QED
      BY <2>5 DEF c, d
  <1>2. Good(<<m>>) /\ \A x : x \in RequestsOf(<<m>>) <=> x \in ToSet(m)
    BY OneJob
  <1>3. /\ Good(<<l>> \o <<m>>) /\ <<l>> \o <<m>> # <<>>
        /\ \A x : x \in RequestsOf(<<l>> \o <<m>>) <=> x \in ToSet(l) \/ x \in RequestsOf(<<m>>)
    BY <1>2, AddJob
  <1> QED
    BY <1>1, <1>2, <1>3

(* The groups by model make up the batch.                                   *)
LEMMA GroupProps ==
    ASSUME NEW batch \in Lists, batch # <<>>, Len(batch) <= MaxBatch
    PROVE  /\ Good(ModelGroups(batch)) /\ ModelGroups(batch) # <<>>
           /\ \A x : x \in RequestsOf(ModelGroups(batch)) <=> x \in ToSet(batch)
  <1> DEFINE known == Filter(batch, Requests \ Unknown)
             unknown == Filter(batch, Unknown)
  <1>1. batch \in Seq(Requests) /\ Len(batch) \in Nat /\ Len(batch) # 0 /\ ToSet(batch) \subseteq Requests
    BY Members DEF Lists
  <1>2. /\ known \in Lists /\ Len(known) <= Len(batch)
        /\ \A x : x \in ToSet(known) <=> x \in ToSet(batch) /\ x \in Requests \ Unknown
    BY <1>1, FilterProps
  <1>3. /\ unknown \in Lists /\ Len(unknown) <= Len(batch)
        /\ \A x : x \in ToSet(unknown) <=> x \in ToSet(batch) /\ x \in Unknown
    BY <1>1, FilterProps
  <1>4. ModelGroups(batch) = IF known = <<>> \/ unknown = <<>> THEN <<batch>>
                             ELSE IF batch[1] \in Unknown THEN <<unknown, known>> ELSE <<known, unknown>>
    BY DEF ModelGroups
  <1> HIDE DEF known, unknown
  <1>5. MaxBatch \in Int
    BY BatchAssumption
  <1>6. /\ Len(known) \in Nat /\ (known = <<>> <=> Len(known) = 0) /\ (known = <<>> <=> ToSet(known) = {})
        /\ Len(unknown) \in Nat /\ (unknown = <<>> <=> Len(unknown) = 0) /\ (unknown = <<>> <=> ToSet(unknown) = {})
    BY <1>2, <1>3, Members DEF Lists
  <1>7. CASE known = <<>> \/ unknown = <<>>
    <2>1. \A x, y \in ToSet(batch) : x \in Unknown <=> y \in Unknown
      BY <1>1, <1>2, <1>3, <1>6, <1>7
    <2>2. batch \in Jobs
      BY <1>1, <1>5, <2>1 DEF Jobs
    <2> QED
      BY <1>4, <1>7, <2>2, OneJob
  <1>8. CASE known # <<>> /\ unknown # <<>>
    <2>1. known \in Jobs
      BY <1>1, <1>2, <1>5, <1>6, <1>8 DEF Jobs
    <2>2. unknown \in Jobs
      BY <1>1, <1>3, <1>5, <1>6, <1>8 DEF Jobs
    <2>3. \A x : ~(x \in ToSet(known) /\ x \in ToSet(unknown))
      BY <1>2, <1>3
    <2>4. \A x : x \in ToSet(batch) <=> x \in ToSet(known) \/ x \in ToSet(unknown)
      BY <1>1, <1>2, <1>3
    <2>5. /\ Good(<<known, unknown>>) /\ <<known, unknown>> # <<>>
          /\ \A x : x \in RequestsOf(<<known, unknown>>) <=> x \in ToSet(known) \/ x \in ToSet(unknown)
      BY <2>1, <2>2, <2>3, TwoJobs
    <2>6. /\ Good(<<unknown, known>>) /\ <<unknown, known>> # <<>>
          /\ \A x : x \in RequestsOf(<<unknown, known>>) <=> x \in ToSet(unknown) \/ x \in ToSet(known)
      BY <2>1, <2>2, <2>3, TwoJobs
    <2>7. CASE batch[1] \in Unknown
      <3>1. ModelGroups(batch) = <<unknown, known>>
        BY <1>4, <1>8, <2>7
      <3> QED
        BY <2>4, <2>6, <3>1
    <2>8. CASE batch[1] \notin Unknown
      <3>1. ModelGroups(batch) = <<known, unknown>>
        BY <1>4, <1>8, <2>8
      <3> QED
        BY <2>4, <2>5, <3>1
    <2> QED
      BY <2>7, <2>8
  <1> QED
    BY <1>7, <1>8

(* A job cut to a size the sizers answer is a job.                          *)
LEMMA CutJob ==
    ASSUME NEW l \in Jobs, NEW size \in 1 .. MaxBatch
    PROVE  /\ CutTo(size, l) \in Jobs
           /\ \A x \in ToSet(CutTo(size, l)) : x \in ToSet(l)
           /\ size = MaxBatch => CutTo(size, l) = l
  <1> DEFINE c == CutTo(size, l)
  <1>1. l \in Lists /\ Len(l) \in 1 .. MaxBatch /\ l # <<>> /\ size \in Nat /\ size >= 1 /\ MaxBatch \in Int
    BY JobProps, BatchAssumption
  <1>2. /\ c \in Lists /\ Len(c) <= size /\ (c = <<>> <=> l = <<>>)
        /\ \A x : x \in ToSet(c) => x \in ToSet(l)
        /\ Len(l) <= size => c = l
    BY <1>1, CutProps
  <1> HIDE DEF c
  <1>3. Len(c) \in Nat /\ Len(c) # 0
    BY <1>1, <1>2, Members DEF Lists
  <1>4. Len(c) \in 1 .. MaxBatch
    BY <1>1, <1>2, <1>3
  <1>5. \A x, y \in ToSet(c) : x \in Unknown <=> y \in Unknown
    BY <1>2 DEF Jobs
  <1> QED
    BY <1>1, <1>2, <1>4, <1>5 DEF Jobs, c

(* The halves that are tried again make up the job.                         *)
LEMMA RetryProps ==
    ASSUME NEW l \in Jobs, NEW rest, Good(rest),
           \A x : ~(x \in ToSet(l) /\ x \in RequestsOf(rest))
    PROVE  /\ Retry(l, rest) = [pc |-> Retry(l, rest).pc, jobs |-> Retry(l, rest).jobs]
           /\ Retry(l, rest).pc \in {"infer", "store"}
           /\ Good(Retry(l, rest).jobs) /\ Retry(l, rest).jobs # <<>>
           /\ \A x : x \in RequestsOf(Retry(l, rest).jobs) <=> x \in ToSet(l) \/ x \in RequestsOf(rest)
  <1> DEFINE half == Len(l) \div 2
             a == SubSeq(l, 1, half)
             b == SubSeq(l, half + 1, Len(l))
  <1>1. l \in Lists /\ Len(l) \in 1 .. MaxBatch /\ Len(l) \in Nat /\ MaxBatch \in Int
    BY JobProps, BatchAssumption
  <1>2. half \in 0 .. Len(l) /\ half < Len(l)
    BY <1>1
  <1>3. Retry(l, rest) = IF half = 0 THEN [pc |-> "store", jobs |-> <<l>> \o rest]
                         ELSE [pc |-> "infer", jobs |-> <<a>> \o (<<b>> \o rest)]
    BY DEF Retry
  <1> HIDE DEF half
  <1>4. CASE half = 0
    <2>1. Retry(l, rest) = [pc |-> "store", jobs |-> <<l>> \o rest]
      BY <1>3, <1>4
    <2>2. /\ Good(<<l>> \o rest) /\ <<l>> \o rest # <<>>
          /\ \A x : x \in RequestsOf(<<l>> \o rest) <=> x \in ToSet(l) \/ x \in RequestsOf(rest)
      BY AddJob
    <2> QED
      BY <2>1, <2>2
  <1>5. CASE half # 0
    <2>1. /\ a \in Lists /\ Len(a) = half /\ b \in Lists /\ Len(b) = Len(l) - half
          /\ \A x : x \in ToSet(l) <=> x \in ToSet(a) \/ x \in ToSet(b)
          /\ \A x : ~(x \in ToSet(a) /\ x \in ToSet(b))
      BY <1>1, <1>2, SplitProps
    <2>2. Retry(l, rest) = [pc |-> "infer", jobs |-> <<a>> \o (<<b>> \o rest)]
      BY <1>3, <1>5
    <2> HIDE DEF a, b
    <2>3. a \in Jobs
      <3>1. Len(a) \in 1 .. MaxBatch
        BY <1>1, <1>2, <1>5, <2>1
      <3> QED
        BY <2>1, <3>1 DEF Jobs
    <2>4. b \in Jobs
      <3>1. Len(b) \in 1 .. MaxBatch
        BY <1>1, <1>2, <1>5, <2>1
      <3> QED
        BY <2>1, <3>1 DEF Jobs
    <2> DEFINE c == <<b>> \o rest
    <2>5. Good(c) /\ \A x : x \in RequestsOf(c) <=> x \in ToSet(b) \/ x \in RequestsOf(rest)
      BY <2>1, <2>4, AddJob
    <2> HIDE DEF c
    <2>6. /\ Good(<<a>> \o c) /\ <<a>> \o c # <<>>
          /\ \A x : x \in RequestsOf(<<a>> \o c) <=> x \in ToSet(a) \/ x \in RequestsOf(c)
      BY <2>1, <2>3, <2>5, AddJob
    <2>7. Retry(l, rest) = [pc |-> "infer", jobs |-> <<a>> \o c]
      BY <2>2 DEF c
    <2> QED
      BY <2>1, <2>5, <2>6, <2>7
  <1> QED
    BY <1>4, <1>5

(* The sizers answer a size in range; two strategies do not cut.            *)
LEMMA SizesProps ==
    ASSUME strategy \in Strategies
    PROVE  /\ Sizes \subseteq 1 .. MaxBatch
           /\ strategy \in {"fixed_size", "timeout"} => Sizes = {MaxBatch}
  <1>1. /\ MinBatch \in 1 .. MaxBatch /\ MaxBatch \in Nat /\ MaxBatch \in 1 .. MaxBatch
        /\ strategy \in {"fixed_size", "timeout", "adaptive", "memory_aware"}
    BY BatchAssumption
  <1>2. CASE strategy \in {"fixed_size", "timeout"}
    <2>1. strategy # "memory_aware" /\ strategy # "adaptive"
      BY <1>2
    <2>2. Sizes = {MaxBatch}
      BY <2>1, Zenon DEF Sizes
    <2> QED
      BY <1>1, <2>2
  <1>3. CASE strategy = "adaptive"
    <2>1. strategy # "memory_aware"
      BY <1>3
    <2>2. Sizes = MinBatch .. MaxBatch
      BY <1>3, <2>1, Zenon DEF Sizes
    <2> QED
      BY <1>1, <1>3, <2>2
  <1>4. CASE strategy = "memory_aware"
    <2>1. Sizes = {IF oom > 0 THEN Larger(MinBatch, n \div 2) ELSE n : n \in MinBatch .. MaxBatch}
      BY <1>4, Zenon DEF Sizes
    <2>2. \A n \in MinBatch .. MaxBatch : Larger(MinBatch, n \div 2) \in 1 .. MaxBatch /\ n \in 1 .. MaxBatch
      BY <1>1 DEF Larger
    <2> QED
      BY <1>4, <2>1, <2>2
  <1> QED
    BY <1>1, <1>2, <1>3, <1>4

(* A request is in a list once or not at all.                               *)
LEMMA CountProps ==
    ASSUME NEW l \in Lists, NEW r
    PROVE  Count(l, r) = IF r \in ToSet(l) THEN 1 ELSE 0
  <1> DEFINE S == {i \in DOMAIN l : l[i] = r}
  <1>1. /\ DOMAIN l = 1 .. Len(l)
        /\ r \in ToSet(l) <=> \E i \in 1 .. Len(l) : l[i] = r
        /\ \A i, j \in 1 .. Len(l) : l[i] = l[j] => i = j
    BY Members DEF Lists
  <1>2. CASE r \in ToSet(l)
    <2>1. PICK i \in 1 .. Len(l) : l[i] = r
      BY <1>1, <1>2
    <2>2. S = {i}
      BY <1>1, <2>1
    <2> QED
      BY <1>2, <2>2, FS_Singleton DEF Count
  <1>3. CASE r \notin ToSet(l)
    <2>1. S = {}
      BY <1>1, <1>3
    <2> QED
      BY <1>3, <2>1, FS_EmptySet DEF Count
  <1> QED
    BY <1>2, <1>3

(* A finite set has subsets of every size up to its own.                    *)
LEMMA SubsetOfSize ==
    ASSUME NEW S, IsFiniteSet(S), NEW n \in Nat, n <= Cardinality(S)
    PROVE  \E w \in SUBSET S : Cardinality(w) = n
  <1>1. Cardinality(S) \in Nat /\ ExistsBijection(1 .. Cardinality(S), S)
    BY FS_CardinalityType
  <1>2. PICK f \in Bijection(1 .. Cardinality(S), S) : TRUE
    BY <1>1 DEF ExistsBijection
  <1> DEFINE w == {f[i] : i \in 1 .. n}
             g == [i \in 1 .. n |-> f[i]]
  <1>3. f \in [1 .. Cardinality(S) -> S] /\ \A i, j \in 1 .. Cardinality(S) : f[i] = f[j] => i = j
    BY <1>2 DEF Bijection, Injection, IsInjective
  <1>4. \A i \in 1 .. n : i \in 1 .. Cardinality(S)
    BY <1>1
  <1>5. w \in SUBSET S
    BY <1>3, <1>4
  <1>6. g \in Bijection(1 .. n, w)
    <2>1. g \in [1 .. n -> w]
      OBVIOUS
    <2>2. \A i, j \in 1 .. n : g[i] = g[j] => i = j
      BY <1>3, <1>4
    <2>3. \A y \in w : \E i \in 1 .. n : g[i] = y
      OBVIOUS
    <2> HIDE DEF g, w
    <2> QED
      BY <2>1, <2>2, <2>3 DEF Bijection, Injection, Surjection, IsInjective
  <1> HIDE DEF w, g
  <1>7. IsFiniteSet(1 .. n) /\ Cardinality(1 .. n) = n
    BY FS_Interval
  <1>8. Cardinality(w) = n
    BY <1>6, <1>7, FS_Bijection DEF ExistsBijection
  <1> QED
    BY <1>5, <1>8

(* The largest of a bounded set of numbers is one of them.                  *)
LEMMA MaxProps ==
    ASSUME NEW S, S # {}, NEW n \in Nat, S \subseteq 1 .. n
    PROVE  Max(S) \in S
  <1> DEFINE U == {k \in Nat : \A x \in S : x <= k}
  <1>1. PICK k \in U : \A m \in U : k <= m
    <2>1. n \in U
      OBVIOUS
    <2>2. U \in SUBSET Nat /\ U # {}
      BY <2>1
    <2> HIDE DEF U
    <2> QED
      BY <2>2, LeastNumber
  <1>2. k \in S
    <2> SUFFICES ASSUME k \notin S PROVE FALSE
      OBVIOUS
    <2>1. PICK x \in S : x \in 1 .. n
      OBVIOUS
    <2>2. x < k
      BY <1>1, <2>1
    <2>3. \A y \in S : y <= k - 1
      BY <1>1
    <2>4. k - 1 \in U
      BY <1>1, <2>1, <2>2, <2>3
    <2> QED
      BY <1>1, <2>4
  <1>3. k \in S /\ \A y \in S : k >= y
    BY <1>1, <1>2
  <1> HIDE DEF U
  <1> QED
    BY <1>3, Zenon DEF Max
--------------------------------------------------------------------------------
(* The inductive invariant of the engine.  A request is in the pending      *)
(* list, or in one job of one worker, or has been called back; a result in  *)
(* the table is the answer to a request that was called back and that       *)
(* nobody has taken.                                                        *)
EngineTypes ==
    /\ strategy \in Strategies /\ running \in BOOLEAN /\ stopping \in BOOLEAN
    /\ workers \subseteq Threads /\ starts \in 0 .. MaxStarts
    /\ asked \subseteq Requests /\ late \subseteq asked
    /\ id \in [Requests -> Nat] /\ lastId \in Nat
    /\ sameId \in BOOLEAN /\ oom \in 0 .. MaxOom
    /\ got \in [Requests -> Requests \cup {Nobody}]

Hands ==
    /\ thread \in [Threads -> [pc : PCs, jobs : Seq(Jobs)]]
    /\ \A t \in Threads : /\ Good(thread[t].jobs)
                          /\ thread[t].pc \in {"infer", "store"} <=> thread[t].jobs # <<>>

Apart ==
    \A t \in Threads : \A r \in InHands(t) :
        /\ r \in asked /\ called[r] = 0 /\ r \notin ToSet(pending)
        /\ \A u \in Threads \ {t} : r \notin InHands(u)

Waiting ==
    /\ pending \in Lists /\ Len(pending) <= MaxQueue
    /\ \A r \in ToSet(pending) : r \in asked /\ called[r] = 0

Calls ==
    /\ called \in [Requests -> Nat]
    /\ \A r \in Requests : called[r] <= 1 /\ (called[r] > 0 => r \in asked)

PlaceInv == Hands /\ Apart /\ Waiting /\ Calls /\ UncutLosesNothing

ResultsKnown ==
    \A i \in DOMAIN results :
        /\ results[i] \in asked /\ id[results[i]] = i /\ called[results[i]] > 0
        /\ \A r \in Requests : got[r] # results[i]
GotKnown == \A r \in Requests : got[r] # Nobody => called[got[r]] > 0
ResultInv == ResultsKnown /\ GotKnown /\ TakenOnce

EngineInv == EngineTypes /\ PlaceInv /\ ResultInv

(* What a worker holds, and its loop's place.                               *)
LEMMA HandsProps ==
    ASSUME Hands, NEW t \in Threads
    PROVE  /\ Good(thread[t].jobs) /\ thread[t].jobs \in Seq(Jobs) /\ thread[t].pc \in PCs
           /\ thread[t].pc \in {"infer", "store"} <=> thread[t].jobs # <<>>
           /\ InHands(t) \subseteq Requests
           /\ thread[t].jobs = <<>> => InHands(t) = {}
  <1>1. Good(thread[t].jobs) /\ (thread[t].pc \in {"infer", "store"} <=> thread[t].jobs # <<>>)
    BY DEF Hands
  <1>2. thread[t].jobs \in Seq(Jobs) /\ thread[t].pc \in PCs
    BY DEF Hands
  <1>3. InHands(t) \subseteq Requests
    BY <1>2, RequestsOfProps DEF InHands
  <1> QED
    BY <1>1, <1>2, <1>3, NoJobs DEF InHands

(* The inductive invariant is at least what the runs check.                 *)
LEMMA EngineInvSuffices == EngineInv => BatchInv
  <1> SUFFICES ASSUME EngineInv PROVE BatchInv
    OBVIOUS
  <1>1. EngineTypes /\ Hands /\ Apart /\ Waiting /\ Calls /\ UncutLosesNothing /\ ResultsKnown /\ TakenOnce
    BY DEF EngineInv, PlaceInv, ResultInv
  <1>2. \A t \in Threads : /\ thread[t].jobs \in Seq(Jobs) /\ Good(thread[t].jobs)
                           /\ thread[t].jobs \in Seq(Seq(Requests))
                           /\ \A i \in DOMAIN thread[t].jobs : thread[t].jobs[i] \in Jobs
    BY <1>1, HandsProps, RequestsOfProps
  <1>3. thread \in [Threads -> [pc : PCs, jobs : Seq(Seq(Requests))]]
    <2>1. ASSUME NEW t \in Threads PROVE thread[t] \in [pc : PCs, jobs : Seq(Seq(Requests))]
      <3>1. thread[t] \in [pc : PCs, jobs : Seq(Jobs)]
        BY <1>1 DEF Hands
      <3> QED
        BY <1>2, <3>1
    <2>2. thread = [t \in Threads |-> thread[t]]
      BY <1>1 DEF Hands
    <2> QED
      BY <2>1, <2>2
  <1>4. ASSUME NEW t \in Threads PROVE Distinct(thread[t].jobs)
    <2> DEFINE jobs == thread[t].jobs
    <2>1. /\ DOMAIN jobs = 1 .. Len(jobs) /\ \A i \in DOMAIN jobs : jobs[i] \in Jobs
          /\ \A i, k \in 1 .. Len(jobs) : i # k => \A x : ~(x \in ToSet(jobs[i]) /\ x \in ToSet(jobs[k]))
      <3>1. jobs \in Seq(Jobs) /\ Good(jobs)
        BY <1>2
      <3> HIDE DEF jobs
      <3> QED
        BY <3>1 DEF Good
    <2> HIDE DEF jobs
    <2>2. ASSUME NEW i \in DOMAIN jobs, NEW k \in DOMAIN jobs, NEW j \in DOMAIN jobs[i], NEW l \in DOMAIN jobs[k],
                 jobs[i][j] = jobs[k][l]
          PROVE  i = k /\ j = l
      <3>1. jobs[i] \in Lists /\ jobs[k] \in Lists
        BY <2>1, JobProps
      <3>2. jobs[i][j] \in ToSet(jobs[i]) /\ jobs[k][l] \in ToSet(jobs[k])
        BY DEF ToSet
      <3>3. i = k
        BY <2>1, <2>2, <3>2
      <3> QED
        BY <2>2, <3>1, <3>3 DEF Lists, IsInjective
    <2> QED
      BY <2>2 DEF Distinct, jobs
  <1>5. OnePlace
    BY <1>1, <1>4 DEF OnePlace, Waiting, Calls, Apart, Lists
  <1>6. BatchTypeOK
    <2>1. DOMAIN results \subseteq {id[r] : r \in asked}
      BY <1>1 DEF ResultsKnown
    <2>2. /\ pending \in Seq(Requests) /\ Len(pending) <= MaxQueue /\ ToSet(pending) \subseteq asked
          /\ called \in [Requests -> Nat]
      BY <1>1 DEF Waiting, Calls, Lists
    <2>3. \A t \in Threads : /\ thread[t].pc \in {"infer", "store"} <=> thread[t].jobs # <<>>
                             /\ \A i \in DOMAIN thread[t].jobs : Len(thread[t].jobs[i]) \in 1 .. MaxBatch
                             /\ InHands(t) \subseteq asked
      BY <1>1, <1>2, HandsProps, JobProps DEF Apart
    <2> QED
      BY <1>1, <1>3, <2>1, <2>2, <2>3 DEF BatchTypeOK, EngineTypes
  <1> QED
    BY <1>1, <1>5, <1>6 DEF BatchInv

(* A new engine has no request.                                             *)
LEMMA EngineInit == Init => EngineInv
  <1> SUFFICES ASSUME Init PROVE EngineInv
    OBVIOUS
  <1> USE BatchAssumption
  <1>1. EngineTypes
    <2>1. MaxStarts \in Nat /\ MaxOom \in Nat
      OBVIOUS
    <2>2. id \in [Requests -> Nat] /\ got \in [Requests -> Requests \cup {Nobody}]
      BY DEF Init
    <2>3. starts \in 0 .. MaxStarts /\ oom \in 0 .. MaxOom /\ lastId \in Nat
      BY <2>1 DEF Init
    <2> QED
      BY <2>2, <2>3 DEF Init, EngineTypes
  <1>2. Hands
    BY NoJobs DEF Init, Hands, Dead, PCs
  <1>3. Apart
    BY NoJobs DEF Init, Apart, InHands, Dead
  <1>4. Waiting
    <2>1. <<>> \in Lists /\ ToSet(<<>>) = {} /\ Len(<<>>) <= MaxQueue
      BY DEF Lists, IsInjective, ToSet
    <2> QED
      BY <2>1 DEF Init, Waiting
  <1>5. Calls /\ UncutLosesNothing
    BY DEF Init, Calls, UncutLosesNothing
  <1>6. ResultsKnown /\ GotKnown /\ TakenOnce
    BY DEF Init, ResultsKnown, GotKnown, TakenOnce
  <1> QED
    BY <1>1, <1>2, <1>3, <1>4, <1>5, <1>6 DEF EngineInv, PlaceInv, ResultInv
--------------------------------------------------------------------------------
(* A step of a worker that gets jobs js, from what it had and what waits,   *)
(* and calls back the requests in L.                                        *)
LEMMA WorkerStep ==
    ASSUME EngineTypes, PlaceInv, NEW t \in Threads, NEW p \in PCs, NEW js, NEW L,
           Good(js), p \in {"infer", "store"} <=> js # <<>>,
           thread' = [thread EXCEPT ![t] = [pc |-> p, jobs |-> js]],
           UNCHANGED <<asked, strategy, late>>,
           pending' \in Lists, Len(pending') <= MaxQueue,
           \A x : x \in ToSet(pending') => x \in ToSet(pending),
           \A x : x \in RequestsOf(js) =>
                     x \in InHands(t) \cup ToSet(pending) /\ x \notin ToSet(pending') /\ x \notin L,
           L \subseteq InHands(t),
           called' \in [Requests -> Nat],
           \A r \in Requests : called'[r] = called[r] + (IF r \in L THEN 1 ELSE 0),
           strategy \in {"fixed_size", "timeout"} =>
              \A r \in (InHands(t) \cup ToSet(pending)) \ (late \cup Unknown) :
                  r \in RequestsOf(js) \/ r \in ToSet(pending') \/ r \in L
    PROVE  PlaceInv'
  <1>1. Hands /\ Apart /\ Waiting /\ Calls /\ UncutLosesNothing
    BY DEF PlaceInv
  <1>2. /\ thread' \in [Threads -> [pc : PCs, jobs : Seq(Jobs)]]
        /\ thread'[t].pc = p /\ thread'[t].jobs = js
        /\ \A u \in Threads \ {t} : thread'[u] = thread[u]
    BY <1>1 DEF Hands, Good
  <1>3. InHands(t)' = RequestsOf(js) /\ \A u \in Threads \ {t} : InHands(u)' = InHands(u)
    BY <1>2 DEF InHands
  <1>4. Hands'
    BY <1>1, <1>2 DEF Hands
  <1>5. InHands(t) \subseteq Requests /\ ToSet(pending) \subseteq Requests
    BY <1>1, HandsProps, Members DEF Waiting, Lists
  <1>6. \A x : x \in InHands(t) \cup ToSet(pending) =>
            /\ x \in asked /\ called[x] = 0
            /\ \A u \in Threads \ {t} : x \notin InHands(u)
    BY <1>1 DEF Apart, Waiting
  <1>7. Apart'
    <2> SUFFICES ASSUME NEW u \in Threads, NEW r \in InHands(u)'
                 PROVE  /\ r \in asked' /\ called'[r] = 0 /\ r \notin ToSet(pending')
                        /\ \A v \in Threads \ {u} : r \notin InHands(v)'
      BY DEF Apart
    <2>1. CASE u = t
      <3>1. r \in RequestsOf(js)
        BY <1>3, <2>1
      <3>2. r \in Requests /\ r \notin L /\ r \in InHands(t) \cup ToSet(pending)
        BY <1>5, <3>1
      <3> QED
        BY <1>3, <1>6, <2>1, <3>1, <3>2
    <2>2. CASE u # t
      <3>1. r \in InHands(u) /\ r \in Requests
        BY <1>1, <1>3, <2>2, HandsProps
      <3>2. /\ r \in asked /\ called[r] = 0 /\ r \notin ToSet(pending) /\ r \notin InHands(t)
            /\ \A v \in Threads \ {u} : r \notin InHands(v)
        BY <1>1, <2>2, <3>1 DEF Apart
      <3>3. r \notin L /\ r \notin RequestsOf(js) /\ r \notin ToSet(pending')
        BY <3>2
      <3> QED
        BY <1>3, <3>1, <3>2, <3>3
    <2> QED
      BY <2>1, <2>2
  <1>8. Waiting'
    <2>1. ASSUME NEW r \in ToSet(pending') PROVE r \in asked' /\ called'[r] = 0
      <3>1. r \in ToSet(pending) /\ r \in Requests /\ r \notin InHands(t)
        BY <1>1, <1>5 DEF Apart
      <3> QED
        BY <1>6, <3>1
    <2> QED
      BY <2>1 DEF Waiting
  <1>9. Calls'
    <2>1. ASSUME NEW r \in Requests PROVE called'[r] <= 1 /\ (called'[r] > 0 => r \in asked')
      <3>1. r \in L => r \in asked /\ called[r] = 0
        BY <1>6
      <3>2. called[r] \in Nat /\ called[r] <= 1 /\ (called[r] > 0 => r \in asked)
        BY <1>1 DEF Calls
      <3> QED
        BY <3>1, <3>2
    <2> QED
      BY <2>1 DEF Calls
  <1>10. UncutLosesNothing'
    <2> SUFFICES ASSUME strategy \in {"fixed_size", "timeout"}, NEW r \in asked \ (late \cup Unknown)
                 PROVE  r \in ToSet(pending') \/ called'[r] > 0 \/ \E u \in Threads : r \in InHands(u)'
      BY DEF UncutLosesNothing
    <2>1. r \in Requests
      BY DEF EngineTypes
    <2>2. r \in ToSet(pending) \/ called[r] > 0 \/ \E u \in Threads : r \in InHands(u)
      BY <1>1 DEF UncutLosesNothing
    <2>3. CASE called[r] > 0
      BY <1>1, <2>1, <2>3 DEF Calls
    <2>4. CASE r \in InHands(t) \cup ToSet(pending)
      <3>1. r \in RequestsOf(js) \/ r \in ToSet(pending') \/ r \in L
        BY <2>4
      <3>2. r \in L => called'[r] > 0
        BY <1>1, <2>1 DEF Calls
      <3> QED
        BY <1>3, <3>1, <3>2
    <2>5. CASE \E u \in Threads \ {t} : r \in InHands(u)
      BY <1>3, <2>5
    <2> QED
      BY <2>2, <2>3, <2>4, <2>5
  <1> QED
    BY <1>4, <1>7, <1>8, <1>9, <1>10 DEF PlaceInv

(* A step of a worker that calls nobody back and leaves the pending list.   *)
LEMMA QuietStep ==
    ASSUME EngineTypes, PlaceInv, NEW t \in Threads, NEW p \in PCs, NEW js,
           Good(js), p \in {"infer", "store"} <=> js # <<>>,
           thread' = [thread EXCEPT ![t] = [pc |-> p, jobs |-> js]],
           UNCHANGED <<asked, strategy, late, pending, called>>,
           RequestsOf(js) \subseteq InHands(t),
           strategy \in {"fixed_size", "timeout"} =>
              \A r \in InHands(t) \ Unknown : r \in RequestsOf(js)
    PROVE  PlaceInv'
  <1>1. Hands /\ Apart /\ Waiting /\ Calls
    BY DEF PlaceInv
  <1> DEFINE N == {}
  <1>2. pending' \in Lists /\ Len(pending') <= MaxQueue
    BY <1>1 DEF Waiting
  <1>3. called' \in [Requests -> Nat] /\ \A r \in Requests : called'[r] = called[r] + (IF r \in N THEN 1 ELSE 0)
    BY <1>1 DEF Calls
  <1>4. \A x : x \in RequestsOf(js) =>
            x \in InHands(t) \cup ToSet(pending) /\ x \notin ToSet(pending') /\ x \notin N
    BY <1>1 DEF Apart
  <1>5. strategy \in {"fixed_size", "timeout"} =>
            \A r \in (InHands(t) \cup ToSet(pending)) \ (late \cup Unknown) :
                r \in RequestsOf(js) \/ r \in ToSet(pending') \/ r \in N
    OBVIOUS
  <1>6. \A x : x \in ToSet(pending') => x \in ToSet(pending)
    OBVIOUS
  <1>7. UNCHANGED <<asked, strategy, late>> /\ N \subseteq InHands(t)
    OBVIOUS
  <1> HIDE DEF N
  <1> QED
    BY <1>2, <1>3, <1>4, <1>5, <1>6, <1>7, WorkerStep

(* A worker without a job goes elsewhere.                                   *)
LEMMA IdleStep ==
    ASSUME EngineTypes, PlaceInv, NEW t \in Threads, NEW p \in {"none", "poll", "take"},
           thread[t].pc \in {"none", "poll", "take"}, Goes(t, p),
           UNCHANGED <<asked, strategy, late, pending, called>>
    PROVE  PlaceInv'
  <1>1. thread[t].jobs = <<>> /\ InHands(t) = {}
    BY HandsProps DEF PlaceInv
  <1>2. /\ thread' = [thread EXCEPT ![t] = [pc |-> p, jobs |-> <<>>]] /\ p \in PCs
        /\ Good(<<>>) /\ RequestsOf(<<>>) = {} /\ (p \in {"infer", "store"} <=> <<>> # <<>>)
    BY NoJobs DEF Goes, PCs
  <1> QED
    BY <1>1, <1>2, QuietStep

(* The job at hand and the ones after it.                                   *)
LEMMA AtWork ==
    ASSUME PlaceInv, NEW t \in Threads, thread[t].pc \in {"infer", "store"}
    PROVE  LET l == Head(thread[t].jobs)
               rest == Tail(thread[t].jobs)
           IN  /\ l \in Jobs /\ Good(rest) /\ (rest = <<>> <=> Len(thread[t].jobs) = 1)
               /\ \A x : x \in InHands(t) <=> x \in ToSet(l) \/ x \in RequestsOf(rest)
               /\ \A x : ~(x \in ToSet(l) /\ x \in RequestsOf(rest))
  <1>1. Hands
    BY DEF PlaceInv
  <1>2. Good(thread[t].jobs) /\ thread[t].jobs # <<>>
    BY <1>1, HandsProps
  <1> QED
    BY <1>2, HeadJob DEF InHands

(* A worker goes on with the next job, or polls.                            *)
LEMMA JobDoneProps ==
    ASSUME PlaceInv, NEW t \in Threads, thread[t].pc \in {"infer", "store"}, JobDone(t)
    PROVE  LET rest == Tail(thread[t].jobs)
               p == IF rest = <<>> THEN "poll" ELSE "infer"
           IN  /\ thread' = [thread EXCEPT ![t] = [pc |-> p, jobs |-> rest]]
               /\ p \in PCs /\ (p \in {"infer", "store"} <=> rest # <<>>)
  <1>1. Tail(thread[t].jobs) = <<>> <=> Len(thread[t].jobs) = 1
    BY AtWork
  <1> QED
    BY <1>1 DEF JobDone, Goes, PCs

(* A group for no model is dropped as a whole.                              *)
LEMMA DiscardPlaces ==
    ASSUME EngineTypes, PlaceInv, NEW t \in Threads, Discard(t)
    PROVE  PlaceInv'
  <1> DEFINE l == Head(thread[t].jobs)
             rest == Tail(thread[t].jobs)
             p == IF rest = <<>> THEN "poll" ELSE "infer"
  <1>1. /\ thread[t].pc \in {"infer", "store"} /\ Head(l) \in Unknown /\ JobDone(t)
        /\ UNCHANGED <<asked, strategy, late, pending, called>>
    BY DEF Discard, clientVars
  <1>2. /\ l \in Jobs /\ Good(rest)
        /\ \A x : x \in InHands(t) <=> x \in ToSet(l) \/ x \in RequestsOf(rest)
    BY <1>1, AtWork
  <1>3. /\ thread' = [thread EXCEPT ![t] = [pc |-> p, jobs |-> rest]]
        /\ p \in PCs /\ (p \in {"infer", "store"} <=> rest # <<>>)
    BY <1>1, JobDoneProps
  <1>4. \A x \in ToSet(l) : x \in Unknown
    BY <1>1, <1>2, JobProps
  <1> HIDE DEF l, rest, p
  <1> QED
    BY <1>1, <1>2, <1>3, <1>4, QuietStep

(* The model runs on the group, cut to a size.                              *)
LEMMA InferPlaces ==
    ASSUME EngineTypes, PlaceInv, NEW t \in Threads, Infer(t)
    PROVE  PlaceInv'
  <1> DEFINE l == Head(thread[t].jobs)
             rest == Tail(thread[t].jobs)
  <1>1. /\ thread[t].pc \in {"infer", "store"}
        /\ UNCHANGED <<asked, strategy, late, pending, called>>
    BY DEF Infer, clientVars
  <1>2. PICK size \in Sizes : thread' = [thread EXCEPT ![t] = [pc |-> "store", jobs |-> <<CutTo(size, l)>> \o rest]]
    BY DEF Infer
  <1>3. /\ l \in Jobs /\ Good(rest)
        /\ \A x : x \in InHands(t) <=> x \in ToSet(l) \/ x \in RequestsOf(rest)
        /\ \A x : ~(x \in ToSet(l) /\ x \in RequestsOf(rest))
    BY <1>1, AtWork
  <1>4. size \in 1 .. MaxBatch /\ (strategy \in {"fixed_size", "timeout"} => size = MaxBatch)
    BY SizesProps DEF EngineTypes
  <1> DEFINE c == CutTo(size, l)
             js == <<c>> \o rest
  <1> HIDE DEF l, rest
  <1>5. c \in Jobs /\ (\A x \in ToSet(c) : x \in ToSet(l)) /\ (size = MaxBatch => c = l)
    BY <1>3, <1>4, CutJob
  <1> HIDE DEF c
  <1>6. /\ Good(js) /\ js # <<>>
        /\ \A x : x \in RequestsOf(js) <=> x \in ToSet(c) \/ x \in RequestsOf(rest)
    BY <1>3, <1>5, AddJob
  <1>7. thread' = [thread EXCEPT ![t] = [pc |-> "store", jobs |-> js]]
    BY <1>2 DEF c
  <1> HIDE DEF js
  <1>8. "store" \in PCs /\ ("store" \in {"infer", "store"} <=> js # <<>>)
    BY <1>6 DEF PCs
  <1>9. RequestsOf(js) \subseteq InHands(t)
    BY <1>3, <1>5, <1>6
  <1>10. strategy \in {"fixed_size", "timeout"} => \A r \in InHands(t) \ Unknown : r \in RequestsOf(js)
    BY <1>3, <1>4, <1>5, <1>6
  <1> QED
    BY <1>1, <1>6, <1>7, <1>8, <1>9, <1>10, QuietStep

(* The group is halved.                                                     *)
LEMMA OutOfMemoryPlaces ==
    ASSUME EngineTypes, PlaceInv, NEW t \in Threads, OutOfMemory(t)
    PROVE  PlaceInv'
  <1> DEFINE l == Head(thread[t].jobs)
             rest == Tail(thread[t].jobs)
  <1>1. /\ thread[t].pc \in {"infer", "store"}
        /\ UNCHANGED <<asked, strategy, late, pending, called>>
    BY DEF OutOfMemory, clientVars
  <1>2. PICK size \in Sizes : thread' = [thread EXCEPT ![t] = Retry(CutTo(size, l), rest)]
    BY DEF OutOfMemory
  <1>3. /\ l \in Jobs /\ Good(rest)
        /\ \A x : x \in InHands(t) <=> x \in ToSet(l) \/ x \in RequestsOf(rest)
        /\ \A x : ~(x \in ToSet(l) /\ x \in RequestsOf(rest))
    BY <1>1, AtWork
  <1>4. size \in 1 .. MaxBatch /\ (strategy \in {"fixed_size", "timeout"} => size = MaxBatch)
    BY SizesProps DEF EngineTypes
  <1> DEFINE c == CutTo(size, l)
             p == Retry(c, rest).pc
             js == Retry(c, rest).jobs
  <1> HIDE DEF l, rest
  <1>5. c \in Jobs /\ (\A x \in ToSet(c) : x \in ToSet(l)) /\ (size = MaxBatch => c = l)
    BY <1>3, <1>4, CutJob
  <1>6. thread' = [thread EXCEPT ![t] = Retry(c, rest)]
    BY <1>2
  <1> HIDE DEF c
  <1>7. /\ Retry(c, rest) = [pc |-> p, jobs |-> js] /\ p \in {"infer", "store"}
        /\ Good(js) /\ js # <<>>
        /\ \A x : x \in RequestsOf(js) <=> x \in ToSet(c) \/ x \in RequestsOf(rest)
    BY <1>3, <1>5, RetryProps
  <1>8. thread' = [thread EXCEPT ![t] = [pc |-> p, jobs |-> js]]
    BY <1>6, <1>7
  <1> HIDE DEF js, p
  <1>9. p \in PCs /\ (p \in {"infer", "store"} <=> js # <<>>)
    BY <1>7 DEF PCs
  <1>10. RequestsOf(js) \subseteq InHands(t)
    BY <1>3, <1>5, <1>7
  <1>11. strategy \in {"fixed_size", "timeout"} => \A r \in InHands(t) \ Unknown : r \in RequestsOf(js)
    BY <1>3, <1>4, <1>5, <1>7
  <1> QED
    BY <1>1, <1>7, <1>8, <1>9, <1>10, <1>11, QuietStep

(* A batch is taken: late requests go, the rest is in it or still waits.    *)
LEMMA TakePlaces ==
    ASSUME EngineTypes, PlaceInv, NEW t \in Threads, Take(t)
    PROVE  PlaceInv'
  <1> DEFINE inTime == Filter(pending, InTime)
             valid == ByPriority(inTime)
             batch == CutTo(MaxBatch, valid)
             left == Remaining(valid)
             N == {}
  <1>1. Hands /\ Waiting /\ Calls /\ thread[t].pc = "take"
    BY DEF PlaceInv, Take
  <1>2. /\ pending' = left
        /\ IF batch = <<>> THEN Goes(t, "poll")
           ELSE thread' = [thread EXCEPT ![t] = [pc |-> "infer", jobs |-> ModelGroups(batch)]]
        /\ UNCHANGED <<asked, strategy, late, called>>
    BY DEF Take, clientVars
  <1>3. thread[t].jobs = <<>> /\ InHands(t) = {}
    BY <1>1, HandsProps
  <1>4. pending \in Lists /\ pending \in Seq(Requests) /\ Len(pending) <= MaxQueue /\ ToSet(pending) \subseteq Requests
        /\ Len(pending) \in Nat
    BY <1>1, Members DEF Waiting, Lists
  <1>5. /\ inTime \in Lists /\ Len(inTime) <= Len(pending)
        /\ \A x : x \in ToSet(inTime) <=> x \in ToSet(pending) /\ x \notin late
    BY <1>4, FilterProps DEF InTime
  <1> HIDE DEF inTime
  <1>6. /\ valid \in Lists /\ Len(valid) = Len(inTime)
        /\ \A x : x \in ToSet(valid) <=> x \in ToSet(inTime)
    BY <1>5, PriorityProps
  <1> HIDE DEF valid
  <1>7. MaxBatch \in Nat /\ MaxBatch >= 1 /\ Len(valid) \in Nat /\ Len(inTime) \in Nat /\ MaxQueue \in Nat
    BY <1>5, <1>6, Members, BatchAssumption DEF Lists
  <1>8. /\ batch \in Lists /\ left \in Lists /\ Len(batch) <= MaxBatch /\ Len(left) <= Len(valid)
        /\ \A x : x \in ToSet(valid) <=> x \in ToSet(batch) \/ x \in ToSet(left)
        /\ \A x : ~(x \in ToSet(batch) /\ x \in ToSet(left))
    <2> DEFINE k == IF Len(valid) < MaxBatch THEN Len(valid) ELSE MaxBatch
    <2>1. k \in 0 .. Len(valid) /\ k <= MaxBatch
      BY <1>7
    <2>2. batch = SubSeq(valid, 1, k)
      BY DEF CutTo
    <2>3. left = SubSeq(valid, k + 1, Len(valid))
      <3>1. CASE MaxBatch <= Len(valid)
        <4>1. k = MaxBatch
          BY <1>7, <3>1
        <4> QED
          BY <4>1 DEF Remaining
      <3>2. CASE Len(valid) < MaxBatch
        <4>1. left = <<>>
          BY <1>6, <1>7, <3>2, SubSeqEmpty DEF Remaining, Lists
        <4>2. SubSeq(valid, Len(valid) + 1, Len(valid)) = <<>>
          BY <1>6, <1>7, SubSeqEmpty DEF Lists
        <4>3. k = Len(valid)
          BY <3>2
        <4> HIDE DEF k, left
        <4> QED
          BY <4>1, <4>2, <4>3
      <3> HIDE DEF k, left
      <3> QED
        BY <1>7, <3>1, <3>2
    <2> HIDE DEF k, batch, left
    <2>4. /\ SubSeq(valid, 1, k) \in Lists /\ Len(SubSeq(valid, 1, k)) = k
          /\ SubSeq(valid, k + 1, Len(valid)) \in Lists /\ Len(SubSeq(valid, k + 1, Len(valid))) = Len(valid) - k
          /\ \A x : x \in ToSet(valid) <=>
                      x \in ToSet(SubSeq(valid, 1, k)) \/ x \in ToSet(SubSeq(valid, k + 1, Len(valid)))
          /\ \A x : ~(x \in ToSet(SubSeq(valid, 1, k)) /\ x \in ToSet(SubSeq(valid, k + 1, Len(valid))))
      BY <1>6, <2>1, SplitProps
    <2>5. Len(valid) - k <= Len(valid)
      BY <1>7, <2>1
    <2> QED
      BY <2>1, <2>2, <2>3, <2>4, <2>5
  <1> HIDE DEF batch, left
  <1>9. /\ pending' \in Lists /\ Len(pending') <= MaxQueue
        /\ \A x : x \in ToSet(pending') => x \in ToSet(pending)
    <2>1. Len(left) \in Nat
      BY <1>8, Members DEF Lists
    <2> QED
      BY <1>2, <1>4, <1>5, <1>6, <1>7, <1>8, <2>1
  <1>10. called' \in [Requests -> Nat] /\ \A r \in Requests : called'[r] = called[r] + (IF r \in N THEN 1 ELSE 0)
    BY <1>1, <1>2 DEF Calls
  <1>11. UNCHANGED <<asked, strategy, late>> /\ N \subseteq InHands(t)
    BY <1>2
  <1>12. ASSUME NEW p \in PCs, NEW js, Good(js), p \in {"infer", "store"} <=> js # <<>>,
                thread' = [thread EXCEPT ![t] = [pc |-> p, jobs |-> js]],
                \A x : x \in RequestsOf(js) <=> x \in ToSet(batch)
         PROVE  PlaceInv'
    <2>1. \A x : x \in RequestsOf(js) =>
              x \in InHands(t) \cup ToSet(pending) /\ x \notin ToSet(pending') /\ x \notin N
      BY <1>2, <1>5, <1>6, <1>8, <1>12
    <2>2. strategy \in {"fixed_size", "timeout"} =>
              \A r \in (InHands(t) \cup ToSet(pending)) \ (late \cup Unknown) :
                  r \in RequestsOf(js) \/ r \in ToSet(pending') \/ r \in N
      BY <1>2, <1>3, <1>5, <1>6, <1>8, <1>12
    <2> HIDE DEF N
    <2> QED
      BY <1>9, <1>10, <1>11, <1>12, <2>1, <2>2, WorkerStep
  <1>13. CASE batch = <<>>
    <2>1. /\ thread' = [thread EXCEPT ![t] = [pc |-> "poll", jobs |-> <<>>]] /\ "poll" \in PCs
          /\ Good(<<>>) /\ ("poll" \in {"infer", "store"} <=> <<>> # <<>>)
      BY <1>2, <1>13, NoJobs DEF Goes, PCs
    <2>2. \A x : x \in RequestsOf(<<>>) <=> x \in ToSet(batch)
      BY <1>8, <1>13, NoJobs, Members DEF Lists
    <2> QED
      BY <1>12, <2>1, <2>2
  <1>14. CASE batch # <<>>
    <2>1. /\ Good(ModelGroups(batch)) /\ ModelGroups(batch) # <<>>
          /\ \A x : x \in RequestsOf(ModelGroups(batch)) <=> x \in ToSet(batch)
      BY <1>8, <1>14, GroupProps
    <2>2. /\ thread' = [thread EXCEPT ![t] = [pc |-> "infer", jobs |-> ModelGroups(batch)]] /\ "infer" \in PCs
          /\ ("infer" \in {"infer", "store"} <=> ModelGroups(batch) # <<>>)
      BY <1>2, <1>14, <2>1 DEF PCs
    <2> QED
      BY <1>12, <2>1, <2>2
  <1> QED
    BY <1>13, <1>14

(* The group is called back.                                                *)
LEMMA StorePlaces ==
    ASSUME EngineTypes, PlaceInv, NEW t \in Threads, Store(t)
    PROVE  PlaceInv'
  <1> DEFINE l == Head(thread[t].jobs)
             rest == Tail(thread[t].jobs)
             p == IF rest = <<>> THEN "poll" ELSE "infer"
  <1>1. /\ thread[t].pc \in {"infer", "store"} /\ JobDone(t)
        /\ called' = [r \in Requests |-> called[r] + Count(l, r)]
        /\ UNCHANGED <<asked, strategy, late, pending>>
    BY DEF Store, clientVars
  <1>2. Hands /\ Apart /\ Waiting /\ Calls
    BY DEF PlaceInv
  <1>3. /\ l \in Jobs /\ Good(rest)
        /\ \A x : x \in InHands(t) <=> x \in ToSet(l) \/ x \in RequestsOf(rest)
        /\ \A x : ~(x \in ToSet(l) /\ x \in RequestsOf(rest))
    BY <1>1, AtWork
  <1>4. /\ thread' = [thread EXCEPT ![t] = [pc |-> p, jobs |-> rest]]
        /\ p \in PCs /\ (p \in {"infer", "store"} <=> rest # <<>>)
    BY <1>1, JobDoneProps
  <1> HIDE DEF l, rest, p
  <1>5. \A r : Count(l, r) = IF r \in ToSet(l) THEN 1 ELSE 0
    BY <1>3, JobProps, CountProps
  <1>6. /\ called' \in [Requests -> Nat]
        /\ \A r \in Requests : called'[r] = called[r] + (IF r \in ToSet(l) THEN 1 ELSE 0)
    BY <1>1, <1>2, <1>5 DEF Calls
  <1>7. pending' \in Lists /\ Len(pending') <= MaxQueue /\ (\A x : x \in ToSet(pending') => x \in ToSet(pending))
    BY <1>1, <1>2 DEF Waiting
  <1>8. ToSet(l) \subseteq InHands(t)
    BY <1>3
  <1>9. \A x : x \in RequestsOf(rest) =>
            x \in InHands(t) \cup ToSet(pending) /\ x \notin ToSet(pending') /\ x \notin ToSet(l)
    BY <1>1, <1>2, <1>3 DEF Apart
  <1>10. strategy \in {"fixed_size", "timeout"} =>
            \A r \in (InHands(t) \cup ToSet(pending)) \ (late \cup Unknown) :
                r \in RequestsOf(rest) \/ r \in ToSet(pending') \/ r \in ToSet(l)
    BY <1>1, <1>3
  <1> QED
    BY <1>1, <1>3, <1>4, <1>6, <1>7, <1>8, <1>9, <1>10, WorkerStep
--------------------------------------------------------------------------------
(* The steps of the control thread and of the clients.                      *)
LEMMA StartPlaces ==
    ASSUME EngineTypes, PlaceInv, Start
    PROVE  PlaceInv' /\ workers' \subseteq Threads
  <1> DEFINE free == {t \in Threads : thread[t].pc = "none"}
             new == CHOOSE w \in SUBSET free : Cardinality(w) = NumWorkers
  <1>1. /\ Cardinality(free) >= NumWorkers /\ workers' = new
        /\ thread' = [t \in Threads |-> IF t \in new THEN [Dead EXCEPT !.pc = "poll"] ELSE thread[t]]
        /\ UNCHANGED <<strategy, pending, asked, late, called>>
    BY DEF Start, clientVars
  <1>2. Hands /\ Apart /\ Waiting /\ Calls /\ UncutLosesNothing
    BY DEF PlaceInv
  <1>3. new \in SUBSET free
    <2>1. free \subseteq Threads /\ IsFiniteSet(Threads) /\ NumWorkers \in Nat
      BY BatchAssumption
    <2>2. IsFiniteSet(free)
      BY <2>1, FS_Subset
    <2> HIDE DEF free
    <2>3. \E w \in SUBSET free : Cardinality(w) = NumWorkers
      BY <1>1, <2>1, <2>2, SubsetOfSize
    <2> QED
      BY <2>3
  <1>4. \A t \in new : t \in Threads /\ thread[t].pc = "none" /\ thread[t].jobs = <<>>
    BY <1>2, <1>3, HandsProps
  <1> HIDE DEF free, new
  <1>5. [Dead EXCEPT !.pc = "poll"] = [pc |-> "poll", jobs |-> <<>>]
    BY DEF Dead
  <1>6. \A t \in Threads : /\ thread'[t].jobs = thread[t].jobs
                           /\ thread'[t].pc = IF t \in new THEN "poll" ELSE thread[t].pc
    BY <1>1, <1>4, <1>5
  <1>7. \A t \in Threads : InHands(t)' = InHands(t)
    BY <1>6 DEF InHands
  <1>8. Hands'
    <2>1. ASSUME NEW t \in Threads
          PROVE  /\ thread'[t] \in [pc : PCs, jobs : Seq(Jobs)] /\ Good(thread'[t].jobs)
                 /\ thread'[t].pc \in {"infer", "store"} <=> thread'[t].jobs # <<>>
      <3>1. thread[t] \in [pc : PCs, jobs : Seq(Jobs)] /\ [pc |-> "poll", jobs |-> <<>>] \in [pc : PCs, jobs : Seq(Jobs)]
        BY <1>2 DEF Hands, PCs
      <3>2. thread'[t] \in [pc : PCs, jobs : Seq(Jobs)]
        BY <1>1, <1>5, <3>1
      <3>3. Good(thread[t].jobs) /\ (thread[t].pc \in {"infer", "store"} <=> thread[t].jobs # <<>>)
        BY <1>2, HandsProps
      <3> QED
        BY <1>4, <1>6, <3>2, <3>3
    <2>2. thread' = [t \in Threads |-> thread'[t]]
      BY <1>1
    <2>3. thread' \in [Threads -> [pc : PCs, jobs : Seq(Jobs)]]
      BY <2>1, <2>2
    <2> QED
      BY <2>1, <2>3 DEF Hands
  <1>9. Apart'
    BY <1>1, <1>2, <1>7 DEF Apart
  <1>10. Waiting' /\ Calls'
    BY <1>1, <1>2 DEF Waiting, Calls
  <1>11. UncutLosesNothing'
    BY <1>1, <1>2, <1>7 DEF UncutLosesNothing
  <1> QED
    BY <1>1, <1>3, <1>8, <1>9, <1>10, <1>11 DEF PlaceInv, free

(* A step that leaves the places of the requests alone, and may make some   *)
(* late.                                                                    *)
LEMMA StillPlaces ==
    ASSUME PlaceInv, UNCHANGED <<strategy, thread, pending, asked, called>>, late \subseteq late'
    PROVE  PlaceInv'
  <1>1. \A t \in Threads : InHands(t)' = InHands(t)
    BY DEF InHands
  <1>2. Hands' /\ Apart' /\ Waiting' /\ Calls'
    BY <1>1 DEF PlaceInv, Hands, Apart, Waiting, Calls
  <1>3. UncutLosesNothing'
    BY <1>1 DEF PlaceInv, UncutLosesNothing
  <1> QED
    BY <1>2, <1>3 DEF PlaceInv

(* A new request waits.                                                     *)
LEMMA SubmitPlaces ==
    ASSUME EngineTypes, PlaceInv, NEW r \in Requests, Submit(r)
    PROVE  PlaceInv'
  <1>1. /\ r \notin asked /\ Len(pending) < MaxQueue
        /\ pending' = Append(pending, r) /\ asked' = asked \cup {r}
        /\ UNCHANGED <<strategy, thread, late, called>>
    BY DEF Submit
  <1>2. Hands /\ Apart /\ Waiting /\ Calls /\ UncutLosesNothing
    BY DEF PlaceInv
  <1>3. \A t \in Threads : InHands(t)' = InHands(t)
    BY <1>1 DEF InHands
  <1>4. pending \in Lists /\ <<r>> \in Lists /\ \A x : x \in ToSet(<<r>>) <=> x = r
    <2>1. <<r>> \in Seq(Requests) /\ Len(<<r>>) = 1 /\ <<r>>[1] = r
      OBVIOUS
    <2>2. \A i, j \in 1 .. Len(<<r>>) : <<r>>[i] = <<r>>[j] => i = j
      BY <2>1
    <2>3. IsInjective(<<r>>) /\ \A x : x \in ToSet(<<r>>) <=> \E i \in 1 .. Len(<<r>>) : <<r>>[i] = x
      BY <2>1, <2>2, Members
    <2> QED
      BY <1>2, <2>1, <2>3 DEF Lists, Waiting
  <1>5. r \notin ToSet(pending)
    BY <1>1, <1>2 DEF Waiting
  <1>6. pending' = pending \o <<r>>
    BY <1>1, <1>4, AppendIsConcat DEF Lists
  <1>7. /\ pending' \in Lists /\ Len(pending') = Len(pending) + 1
        /\ \A x : x \in ToSet(pending') <=> x \in ToSet(pending) \/ x = r
    <2>1. \A x : ~(x \in ToSet(pending) /\ x \in ToSet(<<r>>))
      BY <1>4, <1>5
    <2>2. Len(<<r>>) = 1
      OBVIOUS
    <2> QED
      BY <1>4, <1>6, <2>1, <2>2, JoinProps
  <1>8. called[r] = 0
    BY <1>1, <1>2 DEF Calls
  <1>9. Hands'
    BY <1>1, <1>2 DEF Hands
  <1>10. Apart'
    BY <1>1, <1>2, <1>3, <1>7 DEF Apart
  <1>11. Waiting'
    <2>1. Len(pending) \in Nat /\ MaxQueue \in Nat
      BY <1>4, Members, BatchAssumption DEF Lists
    <2>2. Len(pending') <= MaxQueue
      BY <1>1, <1>7, <2>1
    <2>3. \A x \in ToSet(pending') : x \in asked' /\ called'[x] = 0
      BY <1>1, <1>2, <1>7, <1>8 DEF Waiting
    <2> QED
      BY <1>7, <2>2, <2>3 DEF Waiting
  <1>12. Calls'
    BY <1>1, <1>2 DEF Calls
  <1>13. UncutLosesNothing'
    BY <1>1, <1>2, <1>3, <1>7 DEF UncutLosesNothing
  <1> QED
    BY <1>9, <1>10, <1>11, <1>12, <1>13 DEF PlaceInv
--------------------------------------------------------------------------------
(* The results.                                                             *)
LEMMA StoreResults ==
    ASSUME EngineInv, NEW t \in Threads, Store(t)
    PROVE  ResultInv'
  <1> DEFINE l == Head(thread[t].jobs)
             At(i) == {n \in DOMAIN l : id[l[n]] = i}
             table == [i \in DOMAIN results \cup {id[r] : r \in ToSet(l)} |->
                         IF \E n \in DOMAIN l : id[l[n]] = i THEN l[Max(At(i))] ELSE results[i]]
  <1>1. EngineTypes /\ Apart /\ Calls /\ ResultsKnown /\ GotKnown /\ TakenOnce /\ PlaceInv
    BY DEF EngineInv, PlaceInv, ResultInv
  <1>2. thread[t].pc \in {"infer", "store"} /\ called' = [r \in Requests |-> called[r] + Count(l, r)]
        /\ UNCHANGED <<asked, id, got>>
    BY DEF Store, clientVars
  <1>3. PICK old \in SUBSET DOMAIN table : results' = [i \in DOMAIN table \ old |-> table[i]]
    BY DEF Store
  <1>4. l \in Jobs /\ l \in Lists /\ l \in Seq(Requests) /\ \A r \in ToSet(l) : r \in InHands(t) /\ r \in Requests
    <2>1. l \in Jobs /\ \A r \in ToSet(l) : r \in InHands(t)
      BY <1>1, <1>2, AtWork
    <2> HIDE DEF l
    <2> QED
      BY <2>1, JobProps DEF Lists
  <1> HIDE DEF l
  <1>5. \A r \in ToSet(l) : r \in asked /\ called[r] = 0 /\ called'[r] = 1
    <2> SUFFICES ASSUME NEW r \in ToSet(l) PROVE r \in asked /\ called[r] = 0 /\ called'[r] = 1
      OBVIOUS
    <2>1. r \in asked /\ called[r] = 0 /\ r \in Requests
      BY <1>1, <1>4 DEF Apart
    <2>2. Count(l, r) = 1
      BY <1>4, CountProps
    <2> QED
      BY <1>2, <2>1, <2>2
  <1>6. \A r \in Requests : called[r] > 0 => called'[r] > 0
    <2>1. \A r : Count(l, r) \in {0, 1}
      BY <1>4, CountProps
    <2>2. \A r \in Requests : called[r] \in Nat
      BY <1>1 DEF Calls
    <2> QED
      BY <1>2, <2>1, <2>2
  <1>7. ASSUME NEW i \in DOMAIN table
        PROVE  \/ table[i] \in ToSet(l) /\ id[table[i]] = i
               \/ i \in DOMAIN results /\ table[i] = results[i]
    <2>1. CASE \E n \in DOMAIN l : id[l[n]] = i
      <3>1. DOMAIN l = 1 .. Len(l) /\ Len(l) \in Nat
        BY <1>4, Members
      <3>2. At(i) # {} /\ At(i) \subseteq 1 .. Len(l)
        BY <2>1, <3>1
      <3>3. Max(At(i)) \in At(i)
        <4> HIDE DEF At
        <4> QED
          BY <3>1, <3>2, MaxProps
      <3>4. table[i] = l[Max(At(i))]
        BY <2>1
      <3> HIDE DEF table
      <3>5. table[i] \in ToSet(l) /\ id[table[i]] = i
        BY <3>3, <3>4 DEF ToSet
      <3> QED
        BY <3>5
    <2>2. CASE ~\E n \in DOMAIN l : id[l[n]] = i
      <3>1. \A r \in ToSet(l) : \E n \in DOMAIN l : l[n] = r
        BY DEF ToSet
      <3>2. i \in DOMAIN results
        BY <2>2, <3>1
      <3>3. table[i] = results[i]
        BY <2>2
      <3> QED
        BY <3>2, <3>3
    <2> QED
      BY <2>1, <2>2
  <1> HIDE DEF table, At
  <1>8. ResultsKnown'
    <2> SUFFICES ASSUME NEW i \in DOMAIN results'
                 PROVE  /\ results'[i] \in asked' /\ id'[results'[i]] = i /\ called'[results'[i]] > 0
                        /\ \A r \in Requests : got'[r] # results'[i]
      BY DEF ResultsKnown
    <2>1. i \in DOMAIN table /\ results'[i] = table[i]
      BY <1>3
    <2>2. CASE table[i] \in ToSet(l) /\ id[table[i]] = i
      <3>1. table[i] \in asked /\ called[table[i]] = 0 /\ called'[table[i]] = 1 /\ table[i] \in Requests
        BY <1>4, <1>5, <2>2
      <3>2. \A r \in Requests : got[r] # table[i]
        <4>1. table[i] # Nobody
          BY <3>1, BatchAssumption DEF Nobody
        <4> QED
          BY <1>1, <3>1, <4>1 DEF GotKnown
      <3> QED
        BY <1>2, <2>1, <2>2, <3>1, <3>2
    <2>3. CASE i \in DOMAIN results /\ table[i] = results[i]
      <3>1. /\ results[i] \in asked /\ id[results[i]] = i /\ called[results[i]] > 0
            /\ \A r \in Requests : got[r] # results[i]
        BY <1>1, <2>3 DEF ResultsKnown
      <3>2. results[i] \in Requests
        BY <1>1, <3>1 DEF EngineTypes
      <3> QED
        BY <1>2, <1>6, <2>1, <2>3, <3>1, <3>2
    <2> QED
      BY <1>7, <2>1, <2>2, <2>3
  <1>9. GotKnown'
    <2>1. \A r \in Requests : got[r] # Nobody => got[r] \in Requests
      BY <1>1 DEF EngineTypes
    <2> QED
      BY <1>1, <1>2, <1>6, <2>1 DEF GotKnown
  <1>10. TakenOnce'
    BY <1>1, <1>2 DEF TakenOnce
  <1> QED
    BY <1>8, <1>9, <1>10 DEF ResultInv

(* A result leaves the table with the client that takes it.                 *)
LEMMA GetResultResults ==
    ASSUME EngineInv, NEW r \in Requests, GetResult(r)
    PROVE  ResultInv' /\ got' \in [Requests -> Requests \cup {Nobody}]
  <1>1. EngineTypes /\ Calls /\ ResultsKnown /\ GotKnown /\ TakenOnce
    BY DEF EngineInv, PlaceInv, ResultInv
  <1>2. /\ r \in asked /\ got[r] = Nobody /\ id[r] \in DOMAIN results
        /\ got' = [got EXCEPT ![r] = results[id[r]]]
        /\ results' = [i \in DOMAIN results \ {id[r]} |-> results[i]]
        /\ UNCHANGED <<asked, id, called>>
    BY DEF GetResult
  <1> DEFINE q == results[id[r]]
  <1>3. /\ q \in asked /\ q \in Requests /\ id[q] = id[r] /\ called[q] > 0
        /\ \A s \in Requests : got[s] # q
    BY <1>1, <1>2 DEF ResultsKnown, EngineTypes
  <1>4. got' \in [Requests -> Requests \cup {Nobody}] /\ \A s \in Requests : got'[s] = IF s = r THEN q ELSE got[s]
    BY <1>1, <1>2, <1>3 DEF EngineTypes
  <1>5. q # Nobody
    BY <1>3, BatchAssumption DEF Nobody
  <1>6. ResultsKnown'
    <2> SUFFICES ASSUME NEW i \in DOMAIN results'
                 PROVE  /\ results'[i] \in asked' /\ id'[results'[i]] = i /\ called'[results'[i]] > 0
                        /\ \A s \in Requests : got'[s] # results'[i]
      BY DEF ResultsKnown
    <2>1. i \in DOMAIN results /\ i # id[r] /\ results'[i] = results[i]
      BY <1>2
    <2>2. /\ results[i] \in asked /\ id[results[i]] = i /\ called[results[i]] > 0
          /\ \A s \in Requests : got[s] # results[i]
      BY <1>1, <2>1 DEF ResultsKnown
    <2>3. results[i] # q
      BY <1>3, <2>1, <2>2
    <2> HIDE DEF q
    <2> QED
      BY <1>2, <1>4, <2>1, <2>2, <2>3
  <1> HIDE DEF q
  <1>7. GotKnown'
    BY <1>1, <1>2, <1>3, <1>4 DEF GotKnown
  <1>8. TakenOnce'
    BY <1>1, <1>3, <1>4 DEF TakenOnce
  <1> QED
    BY <1>4, <1>6, <1>7, <1>8 DEF ResultInv

(* A step that touches no result.                                           *)
LEMMA StillResults ==
    ASSUME ResultInv, UNCHANGED <<results, got, called>>, asked \subseteq asked',
           \A r \in asked : id'[r] = id[r]
    PROVE  ResultInv'
  BY DEF ResultInv, ResultsKnown, GotKnown, TakenOnce
--------------------------------------------------------------------------------
(* start() and stop().                                                      *)
LEMMA ControlStep ==
    ASSUME EngineInv, Start \/ Stop \/ StopReturns
    PROVE  EngineInv'
  <1>1. EngineTypes /\ PlaceInv /\ ResultInv
    BY DEF EngineInv
  <1>2. ResultInv'
    <2>1. UNCHANGED <<results, got, called, asked, id>>
      BY DEF Start, Stop, StopReturns, clientVars
    <2> QED
      BY <1>1, <2>1, StillResults
  <1>3. CASE Start
    <2>1. PlaceInv' /\ workers' \subseteq Threads
      BY <1>1, <1>3, StartPlaces
    <2>2. EngineTypes'
      <3>1. starts' \in 0 .. MaxStarts
        BY <1>1, <1>3, BatchAssumption DEF Start, EngineTypes
      <3> QED
        BY <1>1, <1>3, <2>1, <3>1 DEF Start, EngineTypes, clientVars, sizerVars
    <2> QED
      BY <1>2, <2>1, <2>2 DEF EngineInv
  <1>4. CASE Stop \/ StopReturns
    <2>1. PlaceInv'
      <3>1. UNCHANGED <<strategy, thread, pending, asked, called, late>>
        BY <1>4 DEF Stop, StopReturns, clientVars
      <3> QED
        BY <1>1, <3>1, StillPlaces
    <2>2. EngineTypes'
      BY <1>1, <1>4 DEF Stop, StopReturns, EngineTypes, clientVars, sizerVars
    <2> QED
      BY <1>2, <2>1, <2>2 DEF EngineInv
  <1> QED
    BY <1>3, <1>4

(* submit(), get_result() and the deadline.                                 *)
LEMMA ClientStep ==
    ASSUME EngineInv, NEW r \in Requests, Submit(r) \/ Expire(r) \/ GetResult(r)
    PROVE  EngineInv'
  <1>1. EngineTypes /\ PlaceInv /\ ResultInv
    BY DEF EngineInv
  <1>2. CASE Submit(r)
    <2>1. PlaceInv'
      BY <1>1, <1>2, SubmitPlaces
    <2>2. lastId' \in Nat /\ id' = [id EXCEPT ![r] = lastId'] /\ r \notin asked /\ asked' = asked \cup {r}
          /\ UNCHANGED <<results, got, called>>
      BY <1>1, <1>2 DEF Submit, EngineTypes
    <2>3. id' \in [Requests -> Nat] /\ \A s \in asked : id'[s] = id[s]
      BY <1>1, <2>2 DEF EngineTypes
    <2>4. ResultInv'
      BY <1>1, <2>2, <2>3, StillResults
    <2>5. EngineTypes'
      BY <1>1, <1>2, <2>2, <2>3 DEF Submit, EngineTypes, engineVars
    <2> QED
      BY <2>1, <2>4, <2>5 DEF EngineInv
  <1>3. CASE Expire(r)
    <2>1. r \in ToSet(pending) /\ late' = late \cup {r} /\ UNCHANGED <<strategy, thread, pending, clientVars, results, called>>
      BY <1>3 DEF Expire
    <2>2. PlaceInv'
      BY <1>1, <2>1, StillPlaces DEF clientVars
    <2>3. ResultInv'
      BY <1>1, <2>1, StillResults DEF clientVars
    <2>4. r \in asked
      BY <1>1, <2>1 DEF PlaceInv, Waiting
    <2>5. EngineTypes'
      BY <1>1, <1>3, <2>4 DEF Expire, EngineTypes, engineVars, clientVars, sizerVars
    <2> QED
      BY <2>2, <2>3, <2>5 DEF EngineInv
  <1>4. CASE GetResult(r)
    <2>1. ResultInv' /\ got' \in [Requests -> Requests \cup {Nobody}]
      BY <1>4, GetResultResults
    <2>2. PlaceInv'
      <3>1. UNCHANGED <<strategy, thread, pending, asked, called, late>>
        BY <1>4 DEF GetResult
      <3> QED
        BY <1>1, <3>1, StillPlaces
    <2>3. EngineTypes'
      BY <1>1, <1>4, <2>1 DEF GetResult, EngineTypes, engineVars, sizerVars
    <2> QED
      BY <2>1, <2>2, <2>3 DEF EngineInv
  <1> QED
    BY <1>2, <1>3, <1>4

(* A worker's step.                                                         *)
LEMMA WorkKeepsInv ==
    ASSUME EngineInv, NEW t \in Threads, Work(t)
    PROVE  EngineInv'
  <1>1. EngineTypes /\ PlaceInv /\ ResultInv
    BY DEF EngineInv
  <1>2. PlaceInv'
    <2>1. CASE Flush(t)
      <3>1. thread[t].pc = "poll" /\ Goes(t, "take") /\ UNCHANGED <<asked, strategy, late, pending, called>>
        BY <2>1 DEF Flush, clientVars
      <3> QED
        BY <1>1, <3>1, IdleStep
    <2>2. CASE WorkerEnds(t)
      <3>1. thread[t].pc = "poll" /\ Goes(t, "none") /\ UNCHANGED <<asked, strategy, late, pending, called>>
        BY <2>2 DEF WorkerEnds, clientVars
      <3> QED
        BY <1>1, <3>1, IdleStep
    <2>3. CASE Take(t)
      BY <1>1, <2>3, TakePlaces
    <2>4. CASE Discard(t)
      BY <1>1, <2>4, DiscardPlaces
    <2>5. CASE Infer(t)
      BY <1>1, <2>5, InferPlaces
    <2>6. CASE OutOfMemory(t)
      BY <1>1, <2>6, OutOfMemoryPlaces
    <2>7. CASE Store(t)
      BY <1>1, <2>7, StorePlaces
    <2> QED
      BY <2>1, <2>2, <2>3, <2>4, <2>5, <2>6, <2>7 DEF Work
  <1>3. ResultInv'
    <2>1. CASE Store(t)
      BY <2>1, StoreResults
    <2>2. CASE Flush(t) \/ WorkerEnds(t) \/ Take(t) \/ Discard(t) \/ Infer(t) \/ OutOfMemory(t)
      <3>1. UNCHANGED <<results, got, called, asked, id>>
        BY <2>2 DEF Flush, WorkerEnds, Take, Discard, Infer, OutOfMemory, clientVars
      <3> QED
        BY <1>1, <3>1, StillResults
    <2> QED
      BY <2>1, <2>2 DEF Work
  <1>4. EngineTypes'
    <2>1. UNCHANGED <<strategy, engineVars, clientVars, late>>
      BY DEF Work, Flush, WorkerEnds, Take, Discard, Infer, OutOfMemory, Store
    <2>2. sameId' \in BOOLEAN /\ oom' \in 0 .. MaxOom
      <3>1. MaxOom \in Nat
        BY BatchAssumption
      <3>2. CASE Infer(t)
        <4>1. sameId' \in BOOLEAN
          BY <1>1, <3>2 DEF Infer, EngineTypes, sizerVars
        <4>2. oom' = Larger(0, oom - 1) \/ oom' = oom
          BY <3>2 DEF Infer, sizerVars
        <4> QED
          BY <1>1, <3>1, <4>1, <4>2 DEF EngineTypes, Larger
      <3>3. CASE OutOfMemory(t)
        BY <1>1, <3>1, <3>3 DEF OutOfMemory, EngineTypes
      <3>4. CASE UNCHANGED sizerVars
        BY <1>1, <3>4 DEF EngineTypes, sizerVars
      <3> QED
        BY <3>2, <3>3, <3>4 DEF Work, Flush, WorkerEnds, Take, Discard, Store
    <2> QED
      BY <1>1, <2>1, <2>2 DEF EngineTypes, engineVars, clientVars
  <1> QED
    BY <1>2, <1>3, <1>4 DEF EngineInv

(* In every run of the engine, whatever the number of requests, workers and *)
(* batch sizes: a request waits, is in one job of one worker or has had its *)
(* one callback; the strategies that do not cut lose no request in time;    *)
(* and no result is handed out twice, whatever ids collide.                 *)
THEOREM RequestsHaveOnePlace == Spec => []BatchInv
  <1>1. Init => EngineInv
    BY EngineInit
  <1>2. EngineInv /\ [Next]_vars => EngineInv'
    <2> SUFFICES ASSUME EngineInv, [Next]_vars PROVE EngineInv'
      OBVIOUS
    <2>1. CASE Start \/ Stop \/ StopReturns
      BY <2>1, ControlStep
    <2>2. CASE \E r \in Requests : Submit(r) \/ Expire(r) \/ GetResult(r)
      BY <2>2, ClientStep
    <2>3. CASE \E t \in Threads : Work(t)
      BY <2>3, WorkKeepsInv
    <2>4. CASE UNCHANGED vars
      <3>1. /\ UNCHANGED <<strategy, thread, pending, asked, called, late, results, got, id>>
            /\ UNCHANGED <<running, stopping, workers, starts, lastId, sameId, oom>>
        BY <2>4 DEF vars, engineVars, clientVars, sizerVars
      <3>2. EngineTypes /\ PlaceInv /\ ResultInv
        BY DEF EngineInv
      <3>3. PlaceInv'
        BY <3>1, <3>2, StillPlaces
      <3>4. ResultInv'
        BY <3>1, <3>2, StillResults
      <3>5. EngineTypes'
        BY <3>1, <3>2 DEF EngineTypes
      <3> QED
        BY <3>3, <3>4, <3>5 DEF EngineInv
    <2> QED
      BY <2>1, <2>2, <2>3, <2>4 DEF Next
  <1>3. EngineInv => BatchInv
    BY EngineInvSuffices
  <1> QED
    BY <1>1, <1>2, <1>3, PTL DEF Spec
================================================================================
