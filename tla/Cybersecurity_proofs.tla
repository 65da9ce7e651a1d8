----------------------------- MODULE Cybersecurity_proofs -----------------------------
(***************************************************************************)
(* Proofs about the two specifications of src/cybersecurity/.              *)
(* VehicleSecurity: severe breaches of safety goals become incidents unless *)
(* the log silences their handler, the scopes that do not refuse follow the *)
(* lockdown flag and the safety state follows the goals while calls do not  *)
(* overlap, for all tables, threads and events.                            *)
(* KeyRotation: no line of keys loses its active key but by a failed load,  *)
(* keys only age, and what a completed rotation recorded survives crashes,  *)
(* for every number of keys, failed writes, failed loads and crashes.      *)
(***************************************************************************)
EXTENDS VehicleSecurity, KeyRotation, SequenceTheorems, TLAPS

(* Lockdown.  A thread that is switching has scopes left, the last ones of  *)
(* the list or of the list read backwards.                                 *)
SwitchState == [what : {"none", "disable", "enable"}, left : Seq(ToSet(Scopes))]

LockInv ==
    /\ LockTypeOK /\ switching \in [LockCaller -> SwitchState]
    /\ \A t \in LockCaller : switching[t].what = "none" <=> switching[t].left = << >>

(* Without overlaps one thread at most is switching, the way the flag says, *)
(* and the scopes it has passed are as they will be or refused themselves.  *)
OneSwitches == \A t, u \in LockCaller : switching[t] # Idle /\ switching[u] # Idle => t = u
AsFlagSays ==
    \A t \in LockCaller :
        switching[t].what # "none" => switching[t].what = IF locked THEN "disable" ELSE "enable"
PassedAreOff ==
    \A t \in LockCaller :
        switching[t].what = "disable" =>
            ToSet(Scopes) \subseteq disabled \cup refused \cup ToSet(switching[t].left)
PassedAreOn ==
    \A t \in LockCaller :
        switching[t].what = "enable" => disabled \subseteq refused \cup ToSet(switching[t].left)
AllFollowFlag == NobodySwitches => \A s \in ToSet(Scopes) \ refused : s \in disabled <=> locked

ScopesInv == OneSwitches /\ AsFlagSays /\ PassedAreOff /\ PassedAreOn /\ AllFollowFlag

Switches(t) == Trigger(t) \/ Release(t) \/ Switch(t)
--------------------------------------------------------------------------------
(* A suffix agrees with the whole counted from the end.                    *)
LEMMA ReverseProps ==
    ASSUME NEW S, NEW s \in Seq(S)
    PROVE  /\ Reverse(s) \in Seq(S) /\ Len(Reverse(s)) = Len(s)
           /\ \A i \in 1 .. Len(s) : Reverse(s)[i] = s[Len(s) - i + 1]
           /\ ToSet(Reverse(s)) = ToSet(s)
  <1>1. Reverse(s) \in Seq(S) /\ Len(Reverse(s)) = Len(s)
        /\ \A i \in 1 .. Len(s) : Reverse(s)[i] = s[Len(s) - i + 1]
    BY DEF Reverse
  <1>2. \A i \in 1 .. Len(s) : Len(s) - i + 1 \in 1 .. Len(s) /\ Len(s) - (Len(s) - i + 1) + 1 = i
    OBVIOUS
  <1>3. DOMAIN s = 1 .. Len(s) /\ DOMAIN Reverse(s) = 1 .. Len(s)
    BY <1>1
  <1>4. ToSet(Reverse(s)) = ToSet(s)
    <2>1. ASSUME NEW i \in 1 .. Len(s) PROVE Reverse(s)[i] \in ToSet(s)
      BY <1>1, <1>2, <1>3 DEF ToSet
    <2>2. ASSUME NEW i \in 1 .. Len(s) PROVE s[i] \in ToSet(Reverse(s))
      <3>1. Reverse(s)[Len(s) - i + 1] = s[i]
        BY <1>1, <1>2
      <3> QED
        BY <1>2, <1>3, <3>1 DEF ToSet
    <2> QED
      BY <1>3, <2>1, <2>2 DEF ToSet
  <1> QED
    BY <1>1, <1>4

(* Being a suffix, position by position from the end.                      *)
LEMMA SuffixIndex ==
    ASSUME NEW S, NEW s \in Seq(S), NEW t \in Seq(S)
    PROVE  IsSuffix(s, t) <=> /\ Len(s) <= Len(t)
                              /\ \A i \in 1 .. Len(s) : s[Len(s) - i + 1] = t[Len(t) - i + 1]
  <1> DEFINE r == Reverse(s)
             q == Reverse(t)
  <1>1. /\ r \in Seq(S) /\ Len(r) = Len(s) /\ q \in Seq(S) /\ Len(q) = Len(t)
        /\ \A i \in 1 .. Len(s) : r[i] = s[Len(s) - i + 1]
        /\ \A i \in 1 .. Len(t) : q[i] = t[Len(t) - i + 1]
    BY ReverseProps
  <1>2. IsSuffix(s, t) <=> Len(r) <= Len(q) /\ SubSeq(r, 1, Len(r)) = SubSeq(q, 1, Len(r))
    BY DEF IsSuffix, IsPrefix
  <1> HIDE DEF r, q
  <1>3. Len(r) <= Len(q) =>
           /\ Len(SubSeq(r, 1, Len(r))) = Len(r) /\ Len(SubSeq(q, 1, Len(r))) = Len(r)
           /\ SubSeq(r, 1, Len(r)) \in Seq(S) /\ SubSeq(q, 1, Len(r)) \in Seq(S)
           /\ \A i \in 1 .. Len(r) : SubSeq(r, 1, Len(r))[i] = r[i] /\ SubSeq(q, 1, Len(r))[i] = q[i]
    BY <1>1
  <1>4. Len(r) <= Len(q) =>
           (SubSeq(r, 1, Len(r)) = SubSeq(q, 1, Len(r)) <=> \A i \in 1 .. Len(r) : r[i] = q[i])
    BY <1>1, <1>3, SeqEqual
  <1>5. Len(r) <= Len(q) =>
           ((\A i \in 1 .. Len(r) : r[i] = q[i])
             <=> \A i \in 1 .. Len(s) : s[Len(s) - i + 1] = t[Len(t) - i + 1])
    <2> SUFFICES ASSUME Len(s) <= Len(t)
                 PROVE  \A i \in 1 .. Len(s) :
                            r[i] = s[Len(s) - i + 1] /\ q[i] = t[Len(t) - i + 1]
      BY <1>1
    <2>1. Len(s) \in Nat /\ Len(t) \in Nat
      OBVIOUS
    <2>2. 1 .. Len(s) \subseteq 1 .. Len(t)
      BY <2>1
    <2> QED
      BY <1>1, <2>2, Zenon
  <1> QED
    BY <1>1, <1>2, <1>4, <1>5

(* The empty and the whole sequence are suffixes, and so is what is left    *)
(* of one without its first element.                                       *)
LEMMA SuffixProps ==
    ASSUME NEW S, NEW t \in Seq(S)
    PROVE  /\ IsSuffix(<< >>, t) /\ IsSuffix(t, t)
           /\ \A s \in Seq(S) : s # << >> /\ IsSuffix(s, t) => IsSuffix(Tail(s), t)
  <1>1. << >> \in Seq(S) /\ Len(<< >>) = 0 /\ Len(t) \in Nat
    BY EmptySeq
  <1> DEFINE e == << >>
  <1>2. e \in Seq(S) /\ Len(e) = 0
    BY <1>1
  <1> HIDE DEF e
  <1>3. Len(e) <= Len(t) /\ \A i \in 1 .. Len(e) : e[Len(e) - i + 1] = t[Len(t) - i + 1]
    BY <1>1, <1>2
  <1>4. IsSuffix(e, t)
    BY <1>2, <1>3, SuffixIndex
  <1>5. IsSuffix(t, t)
    BY <1>1, SuffixIndex
  <1>6. ASSUME NEW s \in Seq(S), s # << >>, IsSuffix(s, t) PROVE IsSuffix(Tail(s), t)
    <2>1. Tail(s) \in Seq(S) /\ Len(Tail(s)) = Len(s) - 1
          /\ \A i \in 1 .. Len(s) - 1 : Tail(s)[i] = s[i + 1]
      BY <1>6
    <2>2. Len(s) <= Len(t) /\ \A i \in 1 .. Len(s) : s[Len(s) - i + 1] = t[Len(t) - i + 1]
      BY <1>6, SuffixIndex
    <2>3. ASSUME NEW i \in 1 .. Len(Tail(s))
          PROVE  Tail(s)[Len(Tail(s)) - i + 1] = t[Len(t) - i + 1]
      <3>1. i \in 1 .. Len(s) /\ (Len(s) - 1) - i + 1 \in 1 .. Len(s) - 1
            /\ ((Len(s) - 1) - i + 1) + 1 = Len(s) - i + 1
        BY <2>1
      <3> QED
        BY <2>1, <2>2, <3>1
    <2>4. Len(Tail(s)) <= Len(t)
      BY <1>6, <2>1, <2>2
    <2> QED
      BY <2>1, <2>3, <2>4, SuffixIndex
  <1> QED
    BY <1>4, <1>5, <1>6 DEF e

(* What lock and scopes are after a call or a turn of a loop.              *)
LEMMA SwitchFacts ==
    ASSUME LockInv, NEW t \in LockCaller, Switch(t)
    PROVE  /\ switching[t].what \in {"disable", "enable"} /\ locked' = locked
           /\ switching' \in [LockCaller -> SwitchState]
           /\ \A u \in LockCaller : u # t => switching'[u] = switching[u]
           /\ \/ switching'[t] = Idle /\ ToSet(switching[t].left) = {Head(switching[t].left)}
              \/ /\ switching'[t].what = switching[t].what
                 /\ switching'[t].left = Tail(switching[t].left) /\ switching'[t].left # << >>
                 /\ ToSet(switching[t].left) = {Head(switching[t].left)} \cup ToSet(switching'[t].left)
           /\ Head(switching[t].left) \in ToSet(Scopes)
           /\ \/ /\ disabled' = IF switching[t].what = "disable"
                             THEN disabled \cup {Head(switching[t].left)}
                             ELSE disabled \ {Head(switching[t].left)}
                 /\ refused' = refused \ {Head(switching[t].left)}
              \/ /\ disabled' = disabled \ {Head(switching[t].left)}
                 /\ refused' = refused \cup {Head(switching[t].left)}
  <1> DEFINE state == switching[t]
             next == IF Len(state.left) = 1 THEN Idle ELSE [what |-> state.what, left |-> Tail(state.left)]
  <1>1. state \in SwitchState /\ state.left # << >> /\ state.left \in Seq(ToSet(Scopes))
        /\ state.what \in {"none", "disable", "enable"}
    BY DEF LockInv, SwitchState, Switch
  <1>2. state.what # "none" => state.what \in {"disable", "enable"}
    BY <1>1
  <1>3. switching' = [switching EXCEPT ![t] = next]
    BY DEF Switch
  <1>4. Len(state.left) \in Nat /\ Len(state.left) >= 1 /\ DOMAIN state.left = 1 .. Len(state.left)
    BY <1>1
  <1>5. state.what # "none"
    BY <1>1 DEF LockInv
  <1>6. Head(state.left) \in ToSet(Scopes)
    BY <1>1, <1>4
  <1>7. /\ locked' = locked
        /\ \/ /\ disabled' = IF state.what = "disable" THEN disabled \cup {Head(state.left)}
                             ELSE disabled \ {Head(state.left)}
              /\ refused' = refused \ {Head(state.left)}
           \/ disabled' = disabled \ {Head(state.left)} /\ refused' = refused \cup {Head(state.left)}
    BY DEF Switch, Act
  <1>8. CASE Len(state.left) = 1
    <2>1. next = Idle
      BY <1>8
    <2>2. Idle \in SwitchState
      BY DEF Idle, SwitchState
    <2>3. ToSet(state.left) = {Head(state.left)}
      BY <1>1, <1>4, <1>8 DEF ToSet
    <2> HIDE DEF next
    <2>4. switching'[t] = next /\ \A u \in LockCaller : u # t => switching'[u] = switching[u]
      BY <1>3 DEF LockInv
    <2>5. switching' \in [LockCaller -> SwitchState]
      BY <1>3, <2>1, <2>2 DEF LockInv
    <2> QED
      BY <1>5, <1>6, <1>7, <1>2, <2>1, <2>3, <2>4, <2>5, Zenon
  <1>9. CASE Len(state.left) # 1
    <2> DEFINE rest == Tail(state.left)
    <2>1. rest \in Seq(ToSet(Scopes)) /\ Len(rest) = Len(state.left) - 1 /\ rest # << >>
          /\ \A i \in 1 .. Len(rest) : rest[i] = state.left[i + 1]
          /\ DOMAIN rest = 1 .. Len(rest)
      <3>1. rest \in Seq(ToSet(Scopes)) /\ Len(rest) = Len(state.left) - 1
            /\ \A i \in 1 .. Len(rest) : rest[i] = state.left[i + 1]
        BY <1>1, HeadTailProperties
      <3> HIDE DEF rest
      <3>2. DOMAIN rest = 1 .. Len(rest) /\ Len(rest) >= 1
        <4>1. DOMAIN rest = 1 .. Len(rest)
          BY <3>1
        <4> DEFINE n == Len(state.left)
        <4>2. n \in Nat /\ n >= 1 /\ n # 1 /\ Len(rest) = n - 1
          BY <1>4, <1>9, <3>1, Zenon
        <4> HIDE DEF n
        <4> QED
          BY <4>1, <4>2
      <3>3. rest # << >>
        BY <3>2
      <3> QED
        BY <3>1, <3>2, <3>3
    <2>2. next.what = state.what /\ next.left = rest /\ next \in SwitchState
      <3>1. next = [what |-> state.what, left |-> rest]
        BY <1>9
      <3> HIDE DEF next, rest
      <3> QED
        BY <1>1, <2>1, <3>1 DEF SwitchState
    <2>3. ToSet(state.left) = {Head(state.left)} \cup ToSet(rest)
      <3>1. ASSUME NEW i \in 1 .. Len(state.left)
            PROVE  state.left[i] = Head(state.left) \/ state.left[i] \in ToSet(rest)
        <4>1. CASE i = 1
          BY <1>1, <4>1
        <4>2. CASE i # 1
          <5>1. i - 1 \in 1 .. Len(rest) /\ (i - 1) + 1 = i
            BY <1>4, <2>1, <4>2
          <5> QED
            BY <2>1, <5>1 DEF ToSet
        <4> QED
          BY <4>1, <4>2
      <3>2. ASSUME NEW i \in 1 .. Len(rest) PROVE rest[i] \in ToSet(state.left)
        <4>1. i + 1 \in 1 .. Len(state.left)
          BY <1>4, <2>1
        <4> QED
          BY <1>4, <2>1, <4>1 DEF ToSet
      <3>3. Head(state.left) \in ToSet(state.left)
        BY <1>1, <1>4 DEF ToSet
      <3>4. ToSet(rest) \subseteq ToSet(state.left)
        BY <2>1, <3>2 DEF ToSet
      <3>5. ASSUME NEW x \in ToSet(state.left) PROVE x \in {Head(state.left)} \cup ToSet(rest)
        <4>1. PICK i \in 1 .. Len(state.left) : x = state.left[i]
          BY <1>4 DEF ToSet
        <4> QED
          BY <3>1, <4>1
      <3> QED
        BY <3>3, <3>4, <3>5
    <2> HIDE DEF next, rest
    <2>4. switching'[t] = next /\ \A u \in LockCaller : u # t => switching'[u] = switching[u]
      BY <1>3 DEF LockInv
    <2>5. switching' \in [LockCaller -> SwitchState]
      BY <1>3, <2>2 DEF LockInv
    <2>6. switching'[t].what = state.what /\ switching'[t].left = rest
      BY <2>2, <2>4
    <2> QED
      BY <1>5, <1>6, <1>7, <1>2, <2>1, <2>3, <2>4, <2>5, <2>6, Zenon DEF rest
  <1> QED
    BY <1>8, <1>9

(* A call that finds the flag the other way gives its thread all scopes.   *)
LEMMA CallFacts ==
    ASSUME LockInv, NEW t \in LockCaller, Trigger(t) \/ Release(t)
    PROVE  /\ disabled' = disabled /\ refused' = refused
           /\ \/ locked /\ locked' = TRUE /\ switching' = switching
              \/ /\ switching[t] = Idle /\ locked' = ~locked
                 /\ switching' \in [LockCaller -> SwitchState]
                 /\ \A u \in LockCaller : u # t => switching'[u] = switching[u]
                 /\ switching'[t].what = IF locked THEN "enable" ELSE "disable"
                 /\ switching'[t].left \in {Scopes, Reverse(Scopes)}
                 /\ switching'[t].left # << >>
                 /\ ToSet(switching'[t].left) = ToSet(Scopes)
  <1>1. /\ locked \in BOOLEAN /\ switching \in [LockCaller -> SwitchState]
        /\ Scopes \in Seq(ToSet(Scopes)) /\ Scopes # << >>
    BY LockdownAssumption DEF LockInv, LockTypeOK
  <1>2. /\ Reverse(Scopes) \in Seq(ToSet(Scopes)) /\ Len(Reverse(Scopes)) = Len(Scopes)
        /\ ToSet(Reverse(Scopes)) = ToSet(Scopes)
    BY <1>1, ReverseProps
  <1>3. Reverse(Scopes) # << >>
    BY <1>1, <1>2
  <1>4. CASE Trigger(t) /\ ~locked
    <2> DEFINE next == [what |-> "disable", left |-> Scopes]
    <2>1. switching' = [switching EXCEPT ![t] = next] /\ locked' = TRUE /\ disabled' = disabled
          /\ switching[t] = Idle /\ refused' = refused
      BY <1>4 DEF Trigger
    <2>2. next \in SwitchState /\ next.what = "disable" /\ next.left = Scopes
      BY <1>1 DEF SwitchState
    <2> HIDE DEF next
    <2> QED
      BY <1>1, <1>4, <2>1, <2>2
  <1>5. CASE Release(t)
    <2> DEFINE next == [what |-> "enable", left |-> Reverse(Scopes)]
    <2>1. switching' = [switching EXCEPT ![t] = next] /\ locked' = FALSE /\ locked /\ disabled' = disabled
          /\ switching[t] = Idle /\ refused' = refused
      BY <1>5 DEF Release
    <2>2. next \in SwitchState /\ next.what = "enable" /\ next.left = Reverse(Scopes)
      BY <1>2 DEF SwitchState
    <2> HIDE DEF next
    <2> QED
      BY <1>1, <1>2, <1>3, <2>1, <2>2
  <1>6. CASE Trigger(t) /\ locked
    BY <1>6 DEF Trigger
  <1> QED
    BY <1>1, <1>4, <1>5, <1>6

(* Calls and turns keep the lockdown typed.                                *)
LEMMA LockStep ==
    ASSUME LockInv, NEW t \in LockCaller, Switches(t)
    PROVE  LockInv'
  <1>1. /\ locked \in BOOLEAN /\ switching \in [LockCaller -> SwitchState]
        /\ disabled \subseteq ToSet(Scopes) /\ refused \subseteq ToSet(Scopes)
        /\ Scopes \in Seq(ToSet(Scopes)) /\ Reverse(Scopes) \in Seq(ToSet(Scopes))
        /\ \A u \in LockCaller :
             /\ switching[u].left \in Seq(ToSet(Scopes))
             /\ switching[u].what = "none" <=> switching[u].left = << >>
             /\ IsSuffix(switching[u].left, Scopes) \/ IsSuffix(switching[u].left, Reverse(Scopes))
    BY LockdownAssumption, ReverseProps DEF LockInv, LockTypeOK, SwitchState
  <1>2. Idle.what = "none" /\ Idle.left = << >>
    BY DEF Idle
  <1> DEFINE Good(state) == /\ state.what = "none" <=> state.left = << >>
                            /\ IsSuffix(state.left, Scopes) \/ IsSuffix(state.left, Reverse(Scopes))
  <1>3. /\ locked' \in BOOLEAN /\ switching' \in [LockCaller -> SwitchState]
        /\ disabled' \subseteq ToSet(Scopes) /\ refused' \subseteq ToSet(Scopes)
        /\ switching' = switching
           \/ (Good(switching'[t]) /\ \A u \in LockCaller : u # t => switching'[u] = switching[u])
    <2>1. CASE Trigger(t) \/ Release(t)
      <3>1. IsSuffix(Scopes, Scopes) /\ IsSuffix(Reverse(Scopes), Reverse(Scopes))
        BY <1>1, SuffixProps
      <3>2. switching' = switching
            \/ (/\ switching'[t].left \in {Scopes, Reverse(Scopes)} /\ switching'[t].left # << >>
                /\ switching'[t].what \in {"enable", "disable"}
                /\ \A u \in LockCaller : u # t => switching'[u] = switching[u])
        BY <2>1, CallFacts
      <3>3. switching' = switching
            \/ (Good(switching'[t]) /\ \A u \in LockCaller : u # t => switching'[u] = switching[u])
        BY <3>1, <3>2
      <3>4. locked' \in BOOLEAN /\ switching' \in [LockCaller -> SwitchState]
            /\ disabled' = disabled /\ refused' = refused
        BY <1>1, <2>1, CallFacts
      <3> QED
        BY <1>1, <3>3, <3>4
    <2>2. CASE Switch(t)
      <3>1. /\ locked' = locked /\ switching' \in [LockCaller -> SwitchState]
            /\ \A u \in LockCaller : u # t => switching'[u] = switching[u]
            /\ switching[t].what \in {"disable", "enable"}
            /\ Head(switching[t].left) \in ToSet(Scopes)
            /\ disabled' \subseteq disabled \cup {Head(switching[t].left)}
            /\ refused' \subseteq refused \cup {Head(switching[t].left)}
        BY <2>2, SwitchFacts
      <3>2. switching'[t] = Idle
            \/ (/\ switching'[t].what = switching[t].what
                /\ switching'[t].left = Tail(switching[t].left) /\ switching'[t].left # << >>)
        BY <2>2, SwitchFacts
      <3>3. switching[t].left # << >>
        BY <2>2 DEF Switch
      <3>4. Good(switching'[t])
        <4>1. CASE switching'[t] = Idle
          BY <1>1, <1>2, <4>1, SuffixProps
        <4>2. CASE switching'[t] # Idle
          <5>1. \/ IsSuffix(Tail(switching[t].left), Scopes)
                \/ IsSuffix(Tail(switching[t].left), Reverse(Scopes))
            BY <1>1, <3>3, SuffixProps
          <5> QED
            BY <3>1, <3>2, <4>2, <5>1
        <4> QED
          BY <4>1, <4>2
      <3>5. disabled' \subseteq ToSet(Scopes) /\ refused' \subseteq ToSet(Scopes)
        BY <1>1, <3>1
      <3> QED
        BY <1>1, <3>1, <3>4, <3>5
    <2> QED
      BY <2>1, <2>2 DEF Switches
  <1>4. ASSUME NEW u \in LockCaller PROVE Good(switching'[u])
    BY <1>1, <1>3
  <1>5. \A u \in LockCaller : switching'[u].what \in {"none", "disable", "enable"}
    BY <1>3 DEF SwitchState
  <1> QED
    BY <1>3, <1>4, <1>5 DEF LockInv, LockTypeOK

(* Without overlaps a call finds nobody switching, and a turn nobody else.  *)
LEMMA ScopesStep ==
    ASSUME LockInv, ScopesInv, ~LockdownOverlap, ~LockdownOverlap',
           NEW t \in LockCaller, Switches(t)
    PROVE  ScopesInv'
  <1>1. /\ locked \in BOOLEAN /\ disabled \subseteq ToSet(Scopes)
        /\ switching \in [LockCaller -> SwitchState]
    BY DEF LockInv, LockTypeOK
  <1>2. \A u \in LockCaller : switching[u] = Idle <=> switching[u].what = "none"
    <2> SUFFICES ASSUME NEW u \in LockCaller
                 PROVE  switching[u] = Idle <=> switching[u].what = "none"
      OBVIOUS
    <2>1. switching[u] \in SwitchState /\ (switching[u].what = "none" => switching[u].left = << >>)
      BY <1>1 DEF LockInv
    <2> QED
      BY <2>1 DEF SwitchState, Idle
  <1>3. LockInv'
    BY LockStep
  <1>4. \A u \in LockCaller : switching'[u] = Idle <=> switching'[u].what = "none"
    <2> SUFFICES ASSUME NEW u \in LockCaller
                 PROVE  switching'[u] = Idle <=> switching'[u].what = "none"
      OBVIOUS
    <2>1. switching'[u] \in SwitchState /\ (switching'[u].what = "none" => switching'[u].left = << >>)
      BY <1>3 DEF LockInv
    <2> QED
      BY <2>1 DEF SwitchState, Idle
  <1>5. CASE Trigger(t) \/ Release(t)
    <2>1. CASE /\ locked /\ locked' = TRUE /\ switching' = switching
               /\ disabled' = disabled /\ refused' = refused
      BY <2>1 DEF ScopesInv, OneSwitches, AsFlagSays, PassedAreOff, PassedAreOn, AllFollowFlag, NobodySwitches
    <2>2. CASE /\ switching[t] = Idle /\ locked' = ~locked
               /\ disabled' = disabled /\ refused' = refused
               /\ \A u \in LockCaller : u # t => switching'[u] = switching[u]
               /\ switching'[t].what = IF locked THEN "enable" ELSE "disable"
               /\ ToSet(switching'[t].left) = ToSet(Scopes)
      <3>1. \A u \in LockCaller : u # t => switching[u].what = "none"
        <4> SUFFICES ASSUME NEW u \in LockCaller, u # t, switching[u].what # "none" PROVE FALSE
          OBVIOUS
        <4>1. switching[u].what = (IF locked THEN "disable" ELSE "enable") /\ switching'[u] = switching[u]
          BY <2>2 DEF ScopesInv, AsFlagSays
        <4> QED
          BY <1>1, <2>2, <4>1 DEF LockdownOverlap
      <3>2. NobodySwitches
        BY <1>2, <2>2, <3>1 DEF NobodySwitches
      <3>4. \A u \in LockCaller : u # t => switching'[u].what = "none" /\ switching'[u] = Idle
        BY <1>2, <2>2, <3>1
      <3>5. OneSwitches' /\ AsFlagSays' /\ ~NobodySwitches'
        BY <1>1, <1>4, <2>2, <3>4 DEF OneSwitches, AsFlagSays, NobodySwitches
      <3>6. PassedAreOff' /\ PassedAreOn'
        BY <1>1, <2>2, <3>4 DEF PassedAreOff, PassedAreOn
      <3> QED
        BY <3>5, <3>6 DEF ScopesInv, AllFollowFlag
    <2> QED
      BY <1>5, <2>1, <2>2, CallFacts
  <1>6. CASE Switch(t)
    <2> DEFINE h == Head(switching[t].left)
    <2>1. /\ switching[t].what \in {"disable", "enable"} /\ locked' = locked
          /\ \A u \in LockCaller : u # t => switching'[u] = switching[u]
          /\ h \in ToSet(Scopes)
          /\ \/ /\ disabled' = IF switching[t].what = "disable" THEN disabled \cup {h} ELSE disabled \ {h}
                /\ refused' = refused \ {h}
             \/ disabled' = disabled \ {h} /\ refused' = refused \cup {h}
          /\ \/ switching'[t] = Idle /\ ToSet(switching[t].left) = {h}
             \/ /\ switching'[t].what = switching[t].what /\ switching'[t] # Idle
                /\ ToSet(switching[t].left) = {h} \cup ToSet(switching'[t].left)
      BY <1>4, <1>6, SwitchFacts
    <2> HIDE DEF h
    <2>2. switching[t].what = IF locked THEN "disable" ELSE "enable"
      BY <2>1 DEF ScopesInv, AsFlagSays
    <2>3. \A u \in LockCaller : u # t => switching'[u] = Idle /\ switching'[u].what = "none"
      BY <1>2, <2>1 DEF ScopesInv, OneSwitches
    <2>4. OneSwitches' /\ AsFlagSays'
      BY <1>4, <2>1, <2>2, <2>3 DEF OneSwitches, AsFlagSays
    <2>5. CASE switching'[t] = Idle
      <3>1. switching'[t].what = "none" /\ ToSet(switching[t].left) = {h}
        BY <1>4, <2>1, <2>5
      <3>2. PassedAreOff' /\ PassedAreOn'
        BY <2>3, <3>1 DEF PassedAreOff, PassedAreOn
      <3>3. \A s \in ToSet(Scopes) \ refused' : s \in disabled' <=> locked
        <4>1. CASE switching[t].what = "disable"
          BY <2>1, <2>2, <3>1, <4>1 DEF ScopesInv, PassedAreOff
        <4>2. CASE switching[t].what = "enable"
          BY <2>1, <2>2, <3>1, <4>2 DEF ScopesInv, PassedAreOn
        <4> QED
          BY <2>1, <4>1, <4>2
      <3> QED
        BY <2>1, <2>4, <3>2, <3>3 DEF ScopesInv, AllFollowFlag
    <2>6. CASE switching'[t] # Idle
      <3>1. /\ switching'[t].what = switching[t].what
            /\ ToSet(switching[t].left) = {h} \cup ToSet(switching'[t].left)
        BY <2>1, <2>6
      <3>2. PassedAreOff'
        BY <2>1, <2>3, <3>1 DEF ScopesInv, PassedAreOff
      <3>3. PassedAreOn'
        BY <2>1, <2>3, <3>1 DEF ScopesInv, PassedAreOn
      <3>4. ~NobodySwitches'
        BY <2>6 DEF NobodySwitches
      <3> QED
        BY <2>4, <3>2, <3>3, <3>4 DEF ScopesInv, AllFollowFlag
    <2> QED
      BY <2>5, <2>6
  <1> QED
    BY <1>5, <1>6 DEF Switches
--------------------------------------------------------------------------------
(* The monitor.  Its queue holds events that polls make, and a pair of      *)
(* threads that start() has not made yet does not listen.                  *)
MonitorEvent ==
    [source : Ecu, severity : {"HIGH", "MEDIUM"}, tamper : {FALSE}, injection : {FALSE}]
        \cup OtherEvent
Queued == [no : Nat, event : MonitorEvent]
Statuses == [Ecu -> EcuState \cup {"unknown"}]

MonitorInv ==
    /\ MonitorTypeOK /\ fresh \in [Pair -> Statuses] /\ queue \in Seq(Queued)
    /\ \A p \in Pair : p > starts => listening[p] = "none"

(* A unit that changes its state makes one event or none.                  *)
LEMMA ChangeProps ==
    ASSUME NEW e \in Ecu, NEW old, NEW new
    PROVE  Change(e, old, new) \in Seq(MonitorEvent)
  <1> DEFINE event(severity) == [source |-> e, severity |-> severity, tamper |-> FALSE, injection |-> FALSE]
             grave == IF e \in SafetyEcu THEN "HIGH" ELSE "MEDIUM"
  <1>1. event(grave) \in MonitorEvent /\ event("MEDIUM") \in MonitorEvent
    <2>1. grave \in {"HIGH", "MEDIUM"} /\ "MEDIUM" \in {"HIGH", "MEDIUM"} /\ FALSE \in {FALSE}
      OBVIOUS
    <2> HIDE DEF grave
    <2> QED
      BY <2>1, Zenon DEF MonitorEvent
  <1>2. Change(e, old, new) \in {<<event(grave)>>, <<event("MEDIUM")>>, << >>}
    BY DEF Change
  <1>3. ASSUME NEW x \in MonitorEvent PROVE <<x>> \in Seq(MonitorEvent)
    OBVIOUS
  <1>4. << >> \in Seq(MonitorEvent)
    OBVIOUS
  <1> QED
    BY <1>1, <1>2, <1>3, <1>4, Zenon

(* What finds the queue full is dropped.                                   *)
LEMMA EmitProps ==
    ASSUME queue \in Seq(Queued), made \in Nat, NEW events \in Seq(MonitorEvent), Emit(events)
    PROVE  queue' \in Seq(Queued) /\ Len(queue') <= QueueSize
  <1> DEFINE new == Numbered(events)
             all == queue \o new
             n == IF Len(all) < QueueSize THEN Len(all) ELSE QueueSize
  <1>3. new \in Seq(Queued)
    <2>1. Len(events) \in Nat /\ DOMAIN events = 1 .. Len(events)
      OBVIOUS
    <2>2. ASSUME NEW i \in 1 .. Len(events) PROVE [no |-> made + i, event |-> events[i]] \in Queued
      BY <2>1, <2>2 DEF Queued
    <2>3. new \in [1 .. Len(events) -> Queued]
      BY <2>1, <2>2 DEF Numbered
    <2> QED
      BY <2>1, <2>3, SeqDef
  <1> HIDE DEF new
  <1>1. all \in Seq(Queued) /\ Len(all) \in Nat /\ QueueSize \in Nat
    BY <1>3, MonitorAssumption
  <1>2. queue' = SubSeq(all, 1, n)
    BY DEF Emit, new
  <1> HIDE DEF all
  <1>4. n \in 0 .. Len(all) /\ n <= QueueSize
    BY <1>1
  <1> HIDE DEF n
  <1> QED
    BY <1>1, <1>2, <1>4

(* A poll makes the events of one unit and keeps the status for itself.    *)
LEMMA PollStep ==
    ASSUME MonitorInv, NEW p \in Pair, Poll(p)
    PROVE  MonitorInv' /\ listening' = listening
  <1>1. PICK e \in Ecu, s \in Reading :
            LET status == IF known = NotRead THEN [u \in Ecu |-> s] ELSE [known EXCEPT ![e] = s]
                events == Change(e, known[e], s)
            IN  /\ made + Len(events) <= MaxEvents
                /\ fresh' = [fresh EXCEPT ![p] = status]
                /\ poller' = [poller EXCEPT ![p] = "store"]
                /\ made' = made + Len(events) /\ Emit(events)
                /\ UNCHANGED <<running, stopSet, starts, known, listening>>
    BY DEF Poll
  <1> DEFINE status == IF known = NotRead THEN [u \in Ecu |-> s] ELSE [known EXCEPT ![e] = s]
             events == Change(e, known[e], s)
  <1>2. events \in Seq(MonitorEvent)
    BY ChangeProps
  <1>3. status \in Statuses
    BY MonitorAssumption DEF MonitorInv, MonitorTypeOK, Statuses
  <1>4. /\ made + Len(events) <= MaxEvents /\ made' = made + Len(events) /\ Emit(events)
        /\ fresh' = [fresh EXCEPT ![p] = status]
        /\ poller' = [poller EXCEPT ![p] = "store"]
        /\ UNCHANGED <<running, stopSet, starts, known, listening>>
    BY <1>1
  <1> HIDE DEF status, events
  <1>5. queue' \in Seq(Queued) /\ Len(queue') <= QueueSize
    BY <1>2, <1>4, EmitProps, MonitorAssumption DEF MonitorInv, MonitorTypeOK
  <1>6. made' \in 0 .. MaxEvents
    BY <1>2, <1>4, MonitorAssumption DEF MonitorInv, MonitorTypeOK
  <1>7. fresh' \in [Pair -> Statuses] /\ poller' \in [Pair -> {"none", "wait", "store"}]
    BY <1>3, <1>4 DEF MonitorInv, MonitorTypeOK
  <1> QED
    BY <1>4, <1>5, <1>6, <1>7 DEF MonitorInv, MonitorTypeOK, Statuses

(* The status is stored, and the other checks add one event at most.       *)
LEMMA StoreStep ==
    ASSUME MonitorInv, NEW p \in Pair, Store(p)
    PROVE  MonitorInv' /\ listening' = listening
  <1>1. PICK events \in {<< >>} \cup {<<o>> : o \in OtherEvent} :
            /\ made + Len(events) <= MaxEvents /\ made' = made + Len(events) /\ Emit(events)
            /\ known' = fresh[p] /\ fresh' = [fresh EXCEPT ![p] = NotRead]
            /\ poller' = [poller EXCEPT ![p] = "wait"]
            /\ UNCHANGED <<running, stopSet, starts, listening>>
    BY DEF Store
  <1>2. events \in Seq(MonitorEvent)
    <2>1. OtherEvent \subseteq MonitorEvent
      BY DEF MonitorEvent
    <2>2. ASSUME NEW x \in MonitorEvent PROVE <<x>> \in Seq(MonitorEvent)
      OBVIOUS
    <2>3. << >> \in Seq(MonitorEvent)
      OBVIOUS
    <2> QED
      BY <2>1, <2>2, <2>3, Zenon
  <1>3. NotRead \in Statuses
    BY DEF NotRead, Statuses
  <1>4. queue' \in Seq(Queued) /\ Len(queue') <= QueueSize
    BY <1>1, <1>2, EmitProps, MonitorAssumption DEF MonitorInv, MonitorTypeOK
  <1>5. made' \in 0 .. MaxEvents
    BY <1>1, <1>2, MonitorAssumption DEF MonitorInv, MonitorTypeOK
  <1>6. /\ fresh' \in [Pair -> Statuses] /\ poller' \in [Pair -> {"none", "wait", "store"}]
        /\ known' \in Statuses
    BY <1>1, <1>3 DEF MonitorInv, MonitorTypeOK
  <1> QED
    BY <1>1, <1>4, <1>5, <1>6 DEF MonitorInv, MonitorTypeOK, Statuses

(* A thread that ends was not busy.                                        *)
LEMMA ThreadStep ==
    ASSUME MonitorInv, NEW p \in Pair, PollEnds(p) \/ DispatchEnds(p)
    PROVE  MonitorInv' /\ \A q \in Pair : listening'[q] = "busy" <=> listening[q] = "busy"
  <1>1. /\ UNCHANGED <<running, stopSet, starts, fresh, known, queue, made>>
        /\ poller' \in [Pair -> {"none", "wait", "store"}]
        /\ listening' \in [Pair -> {"none", "wait", "busy"}]
        /\ \A q \in Pair : listening'[q] = listening[q] \/ (listening[q] = "wait" /\ listening'[q] = "none")
    BY DEF PollEnds, DispatchEnds, MonitorInv, MonitorTypeOK
  <1> QED
    BY <1>1 DEF MonitorInv, MonitorTypeOK, Statuses

(* start() brings up the next pair of threads; stop() only sets the event. *)
LEMMA CommandStep ==
    ASSUME MonitorInv, Start \/ Stop
    PROVE  MonitorInv' /\ \A q \in Pair : listening'[q] = "busy" <=> listening[q] = "busy"
  <1>1. CASE Start
    <2>1. starts + 1 \in Pair /\ starts \in Nat /\ starts' = starts + 1 /\ starts' \in 0 .. MaxStarts
      BY <1>1, MonitorAssumption DEF Start, MonitorInv, MonitorTypeOK, Pair
    <2>2. /\ running' \in BOOLEAN /\ stopSet' \in BOOLEAN
          /\ poller' = [poller EXCEPT ![starts + 1] = "wait"]
          /\ listening' = [listening EXCEPT ![starts + 1] = "wait"]
          /\ UNCHANGED <<fresh, known, queue, made>>
      BY <1>1 DEF Start
    <2>3. \A q \in Pair : q \in Nat
      BY DEF Pair
    <2>4. /\ poller' \in [Pair -> {"none", "wait", "store"}]
          /\ listening' \in [Pair -> {"none", "wait", "busy"}]
          /\ listening[starts + 1] = "none" /\ listening'[starts + 1] = "wait"
          /\ \A q \in Pair : q # starts + 1 => listening'[q] = listening[q]
      BY <2>1, <2>2 DEF MonitorInv, MonitorTypeOK
    <2>5. \A q \in Pair : q > starts' => listening'[q] = "none"
      BY <2>1, <2>3, <2>4 DEF MonitorInv
    <2> QED
      BY <2>1, <2>2, <2>4, <2>5 DEF MonitorInv, MonitorTypeOK, Statuses
  <1>2. CASE Stop
    BY <1>2 DEF Stop, MonitorInv, MonitorTypeOK, Statuses
  <1> QED
    BY <1>1, <1>2

(* A dispatch thread is busy from the event it takes to the return of the  *)
(* callback.                                                               *)
LEMMA TakeStep ==
    ASSUME MonitorInv, NEW p \in Pair, Take(p) \/ (listening[p] = "busy" /\ CallbackReturns(p))
    PROVE  /\ MonitorInv'
           /\ \A q \in Pair : q # p => listening'[q] = listening[q]
           /\ Take(p) => /\ listening'[p] = "busy" /\ listening[p] # "busy"
                         /\ Head(queue) \in Queued
           /\ ~Take(p) => listening'[p] # "busy"
  <1>1. /\ UNCHANGED <<running, stopSet, starts, poller, fresh, known, made>>
        /\ listening' \in [Pair -> {"none", "wait", "busy"}] /\ listening[p] # "none"
        /\ \A q \in Pair : q # p => listening'[q] = listening[q]
    BY DEF Take, CallbackReturns, MonitorInv, MonitorTypeOK
  <1>2. queue' \in Seq(Queued) /\ Len(queue') <= QueueSize
        /\ (Take(p) => Head(queue) \in Queued)
    <2>1. CASE Take(p)
      <3>1. queue # << >> /\ queue' = Tail(queue) /\ queue \in Seq(Queued)
            /\ Len(queue) <= QueueSize /\ QueueSize \in Nat
        BY <2>1, MonitorAssumption DEF Take, MonitorInv, MonitorTypeOK
      <3> QED
        BY <3>1, HeadTailProperties
    <2>2. CASE queue' = queue /\ ~Take(p)
      BY <2>2 DEF MonitorInv, MonitorTypeOK
    <2> QED
      BY <2>1, <2>2 DEF CallbackReturns
  <1>3. MonitorInv'
    BY <1>1, <1>2 DEF MonitorInv, MonitorTypeOK, Statuses
  <1> QED
    BY <1>1, <1>2, <1>3 DEF Take, CallbackReturns, MonitorInv, MonitorTypeOK
--------------------------------------------------------------------------------
(* The handlers.  A task at work carries an event of the monitor or of a   *)
(* reporter, with its number; dispatch threads are busy while they have one.*)
Steps == {"check", "compare", "set", "report", "contain", "contained", "tamper", "lock", "locking"}
AnyEvent == MonitorEvent \cup ReportedEvent
Number == Nat \cup Reporter
Working == [at : Steps, event : AnyEvent, no : Number, incident : Nat]
Tasks == [Handler -> {NoTask} \cup Working]
Incident == [no : Number, status : IncidentStatus]

TaskInv ==
    /\ task \in Tasks /\ incidents \in Seq(Incident)
    /\ commands \in 0 .. MaxCommands /\ operator \in {"idle", "resetting"} /\ reported \subseteq Reporter
    /\ (alarms \cup silenced \cup uncontained) \subseteq Number
    /\ \A p \in Pair : listening[p] = "busy" <=> task[p].at # "idle"
    /\ \A r \in Reporter \ reported : task[r].at = "idle"

(* A handler that has taken a severe event against a goal is on its way to  *)
(* open an incident for it.                                                *)
Owes(work, no) ==
    /\ work.at \in {"check", "compare", "set", "report"} /\ work.no = no
    /\ work.at # "report" => Severe(work.event)
    /\ work.at = "check" => Affected(work.event.source) # {}

HasOne(list, no) == \E i \in DOMAIN list : list[i].no = no

AlarmsAreKnown ==
    \A a \in alarms : HasOne(incidents, a) \/ a \in silenced \/ \E h \in Handler : Owes(task[h], a)

HandlersInv == SafetyTypeOK /\ LockInv /\ MonitorInv /\ TaskInv /\ AlarmsAreKnown

OthersWait(h) == \A k \in Handler : k # h => task'[k] = task[k]

(* Incidents keep the numbers of their events.                             *)
IncidentsStay == incidents' \in Seq(Incident) /\ \A no : HasOne(incidents, no) => HasOne(incidents', no)
--------------------------------------------------------------------------------
(* A task moves on to another step with its event.                         *)
LEMMA GotoProps ==
    ASSUME task \in Tasks, NEW h \in Handler, task[h].at # "idle", NEW step \in Steps, Goto(h, step)
    PROVE  /\ task' \in Tasks /\ OthersWait(h) /\ task'[h].at = step
           /\ task'[h].event = task[h].event /\ task'[h].no = task[h].no
  <1> DEFINE next == [task[h] EXCEPT !.at = step]
  <1>1. task[h] \in Working
    BY DEF Tasks, NoTask
  <1>2. next \in Working /\ next.at = step /\ next.event = task[h].event /\ next.no = task[h].no
    BY <1>1 DEF Working
  <1>3. task' = [task EXCEPT ![h] = next]
    BY DEF Goto
  <1> HIDE DEF next
  <1> QED
    BY <1>2, <1>3 DEF Tasks, OthersWait

(* A task begins with the check of the safety goals.                       *)
LEMMA BeginProps ==
    ASSUME task \in Tasks, NEW h \in Handler, NEW event \in AnyEvent, NEW no \in Number,
           BeginTask(h, event, no)
    PROVE  /\ task' \in Tasks /\ OthersWait(h)
           /\ task'[h].at = "check" /\ task'[h].event = event /\ task'[h].no = no
  <1> DEFINE next == [at |-> "check", event |-> event, no |-> no, incident |-> 0]
  <1>1. next \in Working /\ next.at = "check" /\ next.event = event /\ next.no = no
    BY DEF Working, Steps
  <1>2. task' = [task EXCEPT ![h] = next]
    BY DEF BeginTask
  <1> HIDE DEF next
  <1> QED
    BY <1>1, <1>2 DEF Tasks, OthersWait

(* A status is written over another, or nowhere.                           *)
LEMMA StatusProps ==
    ASSUME incidents \in Seq(Incident), NEW i, NEW st \in IncidentStatus,
           incidents' = [incidents EXCEPT ![i].status = st]
    PROVE  IncidentsStay
  <1> DEFINE entry == [incidents[i] EXCEPT !.status = st]
  <1>1. Len(incidents) \in Nat /\ incidents \in [1 .. Len(incidents) -> Incident]
        /\ DOMAIN incidents = 1 .. Len(incidents)
    BY LenProperties
  <1>2. i \in 1 .. Len(incidents) => entry \in Incident /\ entry.no = incidents[i].no
    BY <1>1 DEF Incident
  <1>3. incidents' = [incidents EXCEPT ![i] = entry]
    OBVIOUS
  <1> HIDE DEF entry
  <1>4. incidents' \in [1 .. Len(incidents) -> Incident]
        /\ \A k \in 1 .. Len(incidents) : incidents'[k].no = incidents[k].no
    BY <1>1, <1>2, <1>3
  <1>5. incidents' \in Seq(Incident)
    BY <1>1, <1>4, SeqDef
  <1>6. DOMAIN incidents' = 1 .. Len(incidents)
    BY <1>4
  <1> QED
    BY <1>1, <1>4, <1>5, <1>6 DEF IncidentsStay, HasOne

(* A new incident goes to the end of the list, with the number of its event.*)
LEMMA AppendedProps ==
    ASSUME TaskInv, NEW h \in Handler, Opened(h)
    PROVE  IncidentsStay /\ HasOne(incidents', task[h].no)
  <1> DEFINE entry == [no |-> task[h].no, status |-> "REPORTED"]
             n == Len(incidents) + 1
  <1>1. task[h] \in Working /\ incidents \in Seq(Incident) /\ incidents' = Append(incidents, entry)
    BY DEF Opened, TaskInv, Tasks, NoTask
  <1>2. entry \in Incident /\ entry.no = task[h].no
    BY <1>1 DEF Incident, Working, IncidentStatus
  <1> HIDE DEF entry
  <1>3. /\ incidents' \in Seq(Incident) /\ DOMAIN incidents = 1 .. Len(incidents)
        /\ DOMAIN incidents' = 1 .. n /\ Len(incidents) \in Nat
        /\ incidents'[n] = entry
        /\ \A k \in 1 .. Len(incidents) : incidents'[k] = incidents[k]
    BY <1>1, <1>2
  <1>4. n \in 1 .. n /\ \A k \in 1 .. Len(incidents) : k \in 1 .. n
    BY <1>3
  <1>5. ASSUME NEW no, HasOne(incidents, no) PROVE HasOne(incidents', no)
    <2>1. PICK k \in 1 .. Len(incidents) : incidents[k].no = no
      BY <1>3, <1>5 DEF HasOne
    <2> QED
      BY <1>3, <1>4, <2>1 DEF HasOne
  <1>6. HasOne(incidents', task[h].no)
    BY <1>2, <1>3, <1>4 DEF HasOne
  <1> QED
    BY <1>3, <1>5, <1>6 DEF IncidentsStay

(* The playbook begins for the new incident, with a lockdown or without.   *)
LEMMA OpenedProps ==
    ASSUME TaskInv, NEW h \in Handler, Opened(h), NEW step \in {"contain", "contained"},
           ToPlaybook(h, step)
    PROVE  /\ task' \in Tasks /\ OthersWait(h) /\ task'[h].at = step
           /\ task'[h].event = task[h].event /\ task'[h].no = task[h].no
  <1> DEFINE n == Len(incidents) + 1
             next == [task[h] EXCEPT !.at = step, !.incident = n]
  <1>1. task[h] \in Working /\ task \in Tasks /\ n \in Nat
    BY DEF Opened, TaskInv, Tasks, NoTask
  <1>2. task' = [task EXCEPT ![h] = next]
    BY DEF ToPlaybook
  <1> HIDE DEF n
  <1>3. next \in Working /\ next.at = step /\ next.event = task[h].event /\ next.no = task[h].no
    BY <1>1 DEF Working, Steps
  <1> HIDE DEF next
  <1> QED
    BY <1>1, <1>2, <1>3 DEF Tasks, OthersWait

(* What one step of a handler does to its task, to the incidents and to    *)
(* the monitor, and that it does not forget an event it owes an incident.  *)
LEMMA HandlerMoves ==
    ASSUME TaskInv, NEW h \in Handler, HandlerStep(h)
    PROVE  /\ task' \in Tasks /\ OthersWait(h) /\ task[h].at # "idle"
           /\ IncidentsStay /\ UNCHANGED <<operator, reported, commands, alarms>>
           /\ silenced \subseteq silenced' /\ (silenced' \cup uncontained') \subseteq Number
           /\ \/ task'[h].at \in Steps /\ task'[h].event = task[h].event /\ NoMonitor
              \/ Finish(h) /\ task'[h] = NoTask
           /\ \A a \in alarms :
                 Owes(task[h], a) => Owes(task'[h], a) \/ HasOne(incidents', a) \/ a \in silenced'
  <1>1. task \in Tasks /\ incidents \in Seq(Incident) /\ (alarms \cup silenced \cup uncontained) \subseteq Number
    BY DEF TaskInv
  <1>2. task[h].at # "idle" /\ task[h] \in Working /\ task[h].no \in Number
    <2>1. task[h].at # "idle"
      BY DEF HandlerStep, Check, Compare, Set, LogFails, Report, Opened, Contained, Tamper, Lock, Locked
    <2> QED
      BY <1>1, <2>1 DEF Tasks, NoTask, Working
  <1>3. UNCHANGED <<operator, reported, commands, alarms>>
    BY DEF HandlerStep, Check, Compare, Set, LogFails, Report, Opened, Contained, Tamper, Lock, Locked,
           NoHistory, historyVars
  <1>4. incidents' = incidents => IncidentsStay
    BY <1>1 DEF IncidentsStay
  <1>5. NoHistory => silenced' = silenced /\ uncontained' = uncontained
    BY DEF NoHistory, historyVars
  <1>6. ASSUME Finish(h)
        PROVE  task' \in Tasks /\ OthersWait(h) /\ task'[h] = NoTask
    BY <1>1, <1>6 DEF Finish, Tasks, OthersWait
  <1>7. CASE Check(h)
    <2>1. PICK step \in {"compare", "tamper"} :
              Goto(h, step) /\ (step = "tamper" => Affected(Event(h).source) = {})
      BY <1>7 DEF Check
    <2>2. step \in Steps
      BY <2>1 DEF Steps
    <2>3. /\ task' \in Tasks /\ OthersWait(h) /\ task'[h].at = step
          /\ task'[h].event = task[h].event /\ task'[h].no = task[h].no
      BY <1>1, <1>2, <2>1, <2>2, GotoProps
    <2>4. \A a \in alarms : Owes(task[h], a) => Owes(task'[h], a)
      BY <1>7, <2>1, <2>3 DEF Owes, Check, Event
    <2> QED
      BY <1>1, <1>2, <1>3, <1>4, <1>5, <1>7, <2>2, <2>3, <2>4 DEF Check
  <1>8. CASE Compare(h) \/ Set(h)
    <2>1. PICK step \in {"set", AfterSafety(Event(h))} : Goto(h, step)
      BY <1>8, Zenon DEF Compare, Set
    <2>2. step \in Steps
      BY <2>1 DEF AfterSafety, Steps
    <2>3. /\ task' \in Tasks /\ OthersWait(h) /\ task'[h].at = step
          /\ task'[h].event = task[h].event /\ task'[h].no = task[h].no
      BY <1>1, <1>2, <2>1, <2>2, GotoProps
    <2>4. \A a \in alarms : Owes(task[h], a) => Owes(task'[h], a)
      BY <1>8, <2>1, <2>3 DEF Owes, Compare, Set, AfterSafety, Event
    <2> QED
      BY <1>1, <1>2, <1>3, <1>4, <1>5, <1>8, <2>2, <2>3, <2>4 DEF Compare, Set
  <1>9. CASE LogFails(h)
    <2>1. /\ Finish(h) /\ incidents' = incidents /\ uncontained' = uncontained
          /\ silenced' = silenced \cup ({task[h].no} \cap alarms)
      BY <1>9 DEF LogFails
    <2>2. \A a \in alarms : Owes(task[h], a) => a \in silenced'
      BY <2>1 DEF Owes
    <2> QED
      BY <1>1, <1>2, <1>3, <1>4, <1>6, <2>1, <2>2
  <1>10. CASE Report(h)
    <2>1. Opened(h) /\ silenced' = silenced
      BY <1>10 DEF Report, Opened
    <2>2. IncidentsStay /\ HasOne(incidents', task[h].no)
      BY <2>1, AppendedProps
    <2>3. \A a \in alarms : Owes(task[h], a) => HasOne(incidents', a)
      BY <2>2 DEF Owes
    <2>4. CASE Finish(h) /\ uncontained' = uncontained \cup {task[h].no}
      BY <1>1, <1>2, <1>3, <1>6, <2>1, <2>2, <2>3, <2>4
    <2>5. ASSUME NEW step \in {"contain", "contained"}, ToPlaybook(h, step)
          PROVE  /\ task' \in Tasks /\ OthersWait(h) /\ NoMonitor /\ uncontained' = uncontained
                 /\ task'[h].at \in Steps /\ task'[h].event = task[h].event
      BY <2>1, <2>5, OpenedProps DEF ToPlaybook, Steps
    <2> QED
      BY <1>1, <1>2, <1>3, <1>10, <2>1, <2>2, <2>3, <2>4, <2>5 DEF Report
  <1>11. CASE Contained(h)
    <2>1. /\ Finish(h) \/ (Goto(h, "tamper") /\ NoMonitor)
          /\ \A a : ~Owes(task[h], a)
      BY <1>11 DEF Contained, Owes
    <2>2. IncidentsStay
      <3>1. PICK status \in {"CONTAINING", "RECOVERING"} :
                incidents' = [incidents EXCEPT ![task[h].incident].status = status]
        BY <1>11 DEF Contained
      <3>2. status \in IncidentStatus
        BY DEF IncidentStatus
      <3> QED
        BY <1>1, <3>1, <3>2, StatusProps
    <2>3. NoHistory
      BY <1>11 DEF Contained
    <2>4. "tamper" \in Steps
      BY DEF Steps
    <2> QED
      BY <1>1, <1>2, <1>3, <1>5, <1>6, <2>1, <2>2, <2>3, <2>4, GotoProps
  <1>12. CASE Tamper(h) \/ Lock(h) \/ Locked(h)
    <2>1. /\ NoHistory /\ IncidentsStay /\ \A a : ~Owes(task[h], a)
      BY <1>4, <1>12 DEF Tamper, Lock, Locked, Owes
    <2>2. Finish(h) \/ \E step \in {"lock", "locking"} : Goto(h, step) /\ NoMonitor
      BY <1>12 DEF Tamper, Lock, Locked
    <2>3. "lock" \in Steps /\ "locking" \in Steps
      BY DEF Steps
    <2> QED
      BY <1>1, <1>2, <1>3, <1>5, <1>6, <2>1, <2>2, <2>3, GotoProps
  <1> QED
    BY <1>7, <1>8, <1>9, <1>10, <1>11, <1>12 DEF HandlerStep

(* The state that a violation leads to is the one its severity asks for.   *)
LEMMA WeightProps ==
    /\ Weight("NORMAL") = 0 /\ Weight("FAIL_SAFE") = 3 /\ Weight("EMERGENCY_STOP") = 4
    /\ \A s, g : /\ ComputeNewState(s, g) \in SafetyState
                 /\ Weight(ComputeNewState(s, g)) = AsksFor(s, g)
                 /\ AsksFor(s, g) \in 0 .. 3
                 /\ AsksFor(s, g) >= 2 => s \in {"HIGH", "CRITICAL"}
    /\ \A s \in SafetyState : Weight(s) \in 0 .. 4
  <1>1. /\ Weight("NORMAL") = 0 /\ Weight("DEGRADED") = 1 /\ Weight("LIMP_HOME") = 2
        /\ Weight("FAIL_SAFE") = 3 /\ Weight("EMERGENCY_STOP") = 4
    BY DEF Weight
  <1>2. ASSUME NEW s, NEW g
        PROVE  /\ ComputeNewState(s, g) \in SafetyState
               /\ Weight(ComputeNewState(s, g)) = AsksFor(s, g)
               /\ AsksFor(s, g) \in 0 .. 3
               /\ AsksFor(s, g) >= 2 => s \in {"HIGH", "CRITICAL"}
    <2>1. CASE s = "CRITICAL"
      BY <1>1, <2>1 DEF ComputeNewState, AsksFor, SafetyState
    <2>2. CASE s = "HIGH" /\ Asil[g] = "D"
      BY <1>1, <2>2 DEF ComputeNewState, AsksFor, SafetyState
    <2>3. CASE (s = "HIGH" /\ Asil[g] # "D") \/ s = "MEDIUM"
      BY <1>1, <2>3 DEF ComputeNewState, AsksFor, SafetyState
    <2>4. CASE s \notin {"CRITICAL", "HIGH", "MEDIUM"}
      BY <1>1, <2>4 DEF ComputeNewState, AsksFor, SafetyState
    <2> QED
      BY <2>1, <2>2, <2>3, <2>4
  <1>3. \A s \in SafetyState : Weight(s) \in 0 .. 4
    BY <1>1 DEF SafetyState
  <1> QED
    BY <1>1, <1>2, <1>3

(* The mark is on the goal aimed at, and as grave as the graver of two.    *)
LEMMA MarkProps ==
    ASSUME SafetyTypeOK, NEW s, NEW goal, MarkViolation(s, goal)
    PROVE  /\ SafetyTypeOK' /\ safety' = safety
           /\ \A g \in Goal : g # goal => breach'[g] = breach[g] /\ satisfied'[g] = satisfied[g]
           /\ goal \in Goal => /\ ~satisfied'[goal]
                               /\ breach'[goal] = breach[goal] \/ breach'[goal] = AsksFor(s, goal)
                               /\ AsksFor(s, goal) <= breach'[goal]
  <1> DEFINE new == IF AsksFor(s, goal) > breach[goal] THEN AsksFor(s, goal) ELSE breach[goal]
  <1>1. /\ safety' = safety /\ breach' = [breach EXCEPT ![goal] = new]
        /\ satisfied' = [satisfied EXCEPT ![goal] = FALSE]
    BY DEF MarkViolation
  <1>2. AsksFor(s, goal) \in 0 .. 3 /\ breach \in [Goal -> 0 .. 4]
    BY WeightProps DEF SafetyTypeOK
  <1>3. goal \in Goal => /\ new \in 0 .. 4 /\ AsksFor(s, goal) <= new
                         /\ new = breach[goal] \/ new = AsksFor(s, goal)
    BY <1>2
  <1> HIDE DEF new
  <1>4. breach' \in [Goal -> 0 .. 4]
        /\ \A g \in Goal : breach'[g] = IF g = goal THEN new ELSE breach[g]
    BY <1>1, <1>2, <1>3
  <1>5. satisfied' \in [Goal -> BOOLEAN]
        /\ \A g \in Goal : satisfied'[g] = IF g = goal THEN FALSE ELSE satisfied[g]
    BY <1>1, Zenon DEF SafetyTypeOK
  <1> QED
    BY <1>1, <1>3, <1>4, <1>5 DEF SafetyTypeOK

(* Every step leaves the safety state alone, sets the state, registers a   *)
(* goal afresh or is a handler's mark.                                     *)
LEMMA SafetyChanges ==
    ASSUME SafetyTypeOK, [SecurityNext]_securityVars
    PROVE  SafetyTypeOK'
  <1>1. ASSUME NoSafety PROVE SafetyTypeOK'
    BY <1>1 DEF NoSafety, safetyVars, SafetyTypeOK
  <1>2. ASSUME NEW new \in SafetyState, SetState(new)
        PROVE  SafetyTypeOK'
    BY <1>2 DEF SetState, SafetyTypeOK
  <1>3. ASSUME NEW g \in Goal, RegisterGoal(g)
        PROVE  SafetyTypeOK'
    <2>1. breach' \in [Goal -> 0 .. 4]
      BY <1>3 DEF RegisterGoal, SafetyTypeOK
    <2>2. satisfied' \in [Goal -> BOOLEAN] /\ safety' \in SafetyState
      BY <1>3, Zenon DEF RegisterGoal, SafetyTypeOK
    <2> QED
      BY <2>1, <2>2 DEF SafetyTypeOK
  <1>4. CASE OperatorStep
    <2>1. /\ "NORMAL" \in SafetyState /\ "FAIL_SAFE" \in SafetyState
          /\ "EMERGENCY_STOP" \in SafetyState
      BY DEF SafetyState
    <2> QED
      BY <1>1, <1>2, <1>3, <1>4, <2>1
         DEF OperatorStep, StartMonitor, StopMonitor, ReleaseLockdown, ResetCheck, ResetSet,
             ForceState, Reregister, SetStatus
  <1>5. ASSUME NEW h \in Handler, HandlerStep(h)
        PROVE  SafetyTypeOK'
    <2>1. CASE Check(h)
      <3>1. CASE Affected(Event(h).source) = {}
        BY <1>1, <2>1, <3>1 DEF Check
      <3>2. CASE Affected(Event(h).source) # {}
        BY <2>1, <3>2, MarkProps DEF Check
      <3> QED
        BY <3>1, <3>2
    <2>2. CASE Set(h)
      BY <1>2, <2>2, WeightProps DEF Set
    <2>3. CASE ~Check(h) /\ ~Set(h)
      BY <1>1, <1>5, <2>3 DEF HandlerStep, Compare, LogFails, Report, Opened, Contained, Tamper, Lock, Locked
    <2> QED
      BY <2>1, <2>2, <2>3
  <1>6. CASE UNCHANGED securityVars
    BY <1>1, <1>6 DEF securityVars, NoSafety
  <1>7. CASE \/ \E p \in Pair : MonitorStep(p) \/ HandleMonitorEvent(p)
             \/ \E r \in Reporter : HandleReport(r)
             \/ \E t \in LockCaller : SwitchScope(t)
    BY <1>1, <1>7 DEF MonitorStep, MonitorOnly, HandleMonitorEvent, HandleReport, SwitchScope
  <1> QED
    BY <1>4, <1>5, <1>6, <1>7 DEF SecurityNext

(* Every step leaves the lockdown alone or is a call or a turn of one      *)
(* thread.                                                                 *)
LEMMA LockChanges ==
    ASSUME [SecurityNext]_securityVars
    PROVE  NoLock \/ \E t \in LockCaller : Switches(t)
  <1>1. Handler \subseteq LockCaller /\ Operator \in LockCaller
    BY SecurityAssumption
  <1>2. ASSUME NEW h \in Handler, HandlerStep(h)
        PROVE  NoLock \/ Switches(h)
    BY <1>2 DEF HandlerStep, Check, Compare, Set, LogFails, Report, ContainStep, Contained, Tamper,
                Lock, Locked, Switches
  <1>3. CASE OperatorStep
    BY <1>1, <1>3 DEF OperatorStep, StartMonitor, StopMonitor, ReleaseLockdown, ResetCheck,
                      ResetSet, ForceState, Reregister, SetStatus, Switches
  <1>4. CASE UNCHANGED securityVars
    BY <1>4 DEF securityVars, NoLock
  <1>5. CASE \/ \E p \in Pair : MonitorStep(p) \/ HandleMonitorEvent(p)
             \/ \E r \in Reporter : HandleReport(r)
             \/ \E t \in LockCaller : SwitchScope(t)
    BY <1>5 DEF MonitorStep, MonitorOnly, HandleMonitorEvent, HandleReport, SwitchScope, Switches
  <1> QED
    BY <1>1, <1>2, <1>3, <1>4, <1>5 DEF SecurityNext

(* An event begins a task of a thread that has none.                       *)
LEMMA TaskBegins ==
    ASSUME TaskInv, AlarmsAreKnown, NEW h \in Handler, task[h].at = "idle",
           NEW event \in AnyEvent, NEW no \in Number, BeginTask(h, event, no), incidents' = incidents
    PROVE  /\ task' \in Tasks /\ OthersWait(h) /\ task'[h].at = "check" /\ AlarmsAreKnown'
           /\ (alarms' \cup silenced' \cup uncontained') \subseteq Number
  <1>1. /\ task' \in Tasks /\ OthersWait(h)
        /\ task'[h].at = "check" /\ task'[h].event = event /\ task'[h].no = no
    BY BeginProps DEF TaskInv
  <1>2. /\ silenced' = silenced /\ uncontained' = uncontained
        /\ \A a \in alarms' : a \in alarms \/ (a = no /\ Severe(event) /\ Affected(event.source) # {})
    BY DEF BeginTask
  <1>3. \A a \in alarms, k \in Handler : Owes(task[k], a) => Owes(task'[k], a)
    BY <1>1 DEF OthersWait, Owes
  <1>4. Severe(event) /\ Affected(event.source) # {} => Owes(task'[h], no)
    BY <1>1 DEF Owes
  <1>5. AlarmsAreKnown'
    BY <1>2, <1>3, <1>4 DEF AlarmsAreKnown
  <1>6. alarms' \subseteq alarms \cup {no}
    BY <1>2
  <1> QED
    BY <1>1, <1>2, <1>5, <1>6 DEF TaskInv

(* Nothing the operator does gives or takes away a task or an incident.    *)
LEMMA OperatorMoves ==
    ASSUME MonitorInv, TaskInv, AlarmsAreKnown, OperatorStep
    PROVE  MonitorInv' /\ TaskInv' /\ AlarmsAreKnown'
  <1>1. /\ task' = task /\ reported' = reported
        /\ UNCHANGED <<alarms, silenced, uncontained>>
    BY DEF OperatorStep, StartMonitor, StopMonitor, ReleaseLockdown, ResetCheck, ResetSet, ForceState,
           Reregister, SetStatus, NoHistory, historyVars
  <1>2. MonitorInv' /\ \A p \in Pair : listening'[p] = "busy" <=> listening[p] = "busy"
    <2>1. CASE NoMonitor
      BY <2>1 DEF NoMonitor, monitorVars, MonitorInv, MonitorTypeOK
    <2>2. CASE StartMonitor \/ StopMonitor
      BY <2>2, CommandStep DEF StartMonitor, StopMonitor
    <2> QED
      BY <2>1, <2>2 DEF OperatorStep, ReleaseLockdown, ResetCheck, ResetSet, ForceState, Reregister, SetStatus
  <1>3. commands' \in 0 .. MaxCommands /\ operator' \in {"idle", "resetting"}
    <2>1. CASE Command
      BY <2>1, SecurityAssumption
         DEF OperatorStep, StartMonitor, StopMonitor, ReleaseLockdown, ResetCheck, ResetSet, ForceState,
             Reregister, SetStatus, Command, TaskInv
    <2>2. CASE commands' = commands
      BY <2>2 DEF OperatorStep, StartMonitor, StopMonitor, ReleaseLockdown, ResetCheck, ResetSet,
                  ForceState, Reregister, SetStatus, TaskInv
    <2> QED
      BY <2>1, <2>2 DEF OperatorStep, StartMonitor, StopMonitor, ReleaseLockdown, ResetCheck,
                        ResetSet, ForceState, Reregister, SetStatus
  <1>4. IncidentsStay
    <2>1. CASE incidents' = incidents
      BY <2>1 DEF TaskInv, IncidentsStay
    <2>2. ASSUME NEW i \in DOMAIN incidents, NEW st \in {"RESOLVED", "CLOSED"}, SetStatus(i, st)
          PROVE  IncidentsStay
      <3>1. st \in IncidentStatus
        BY DEF IncidentStatus
      <3> QED
        BY <2>2, <3>1, StatusProps DEF SetStatus, TaskInv
    <2> QED
      BY <2>1, <2>2 DEF OperatorStep, StartMonitor, StopMonitor, ReleaseLockdown, ResetCheck,
                        ResetSet, ForceState, Reregister
  <1>5. TaskInv'
    BY <1>1, <1>2, <1>3, <1>4 DEF TaskInv, IncidentsStay
  <1>6. AlarmsAreKnown'
    BY <1>1, <1>4 DEF AlarmsAreKnown, IncidentsStay
  <1> QED
    BY <1>2, <1>5, <1>6

(* One step of a handler keeps its task and its dispatch thread in step.   *)
LEMMA HandlerMovesOn ==
    ASSUME HandlersInv, NEW h \in Handler, HandlerStep(h)
    PROVE  MonitorInv' /\ TaskInv' /\ AlarmsAreKnown'
  <1>1. MonitorInv /\ TaskInv /\ AlarmsAreKnown
    BY DEF HandlersInv
  <1>2. /\ task' \in Tasks /\ OthersWait(h) /\ task[h].at # "idle"
        /\ IncidentsStay /\ UNCHANGED <<operator, reported, commands, alarms>>
        /\ silenced \subseteq silenced' /\ (silenced' \cup uncontained') \subseteq Number
        /\ \/ task'[h].at \in Steps /\ NoMonitor
           \/ Finish(h) /\ task'[h] = NoTask
        /\ \A a \in alarms :
              Owes(task[h], a) => Owes(task'[h], a) \/ HasOne(incidents', a) \/ a \in silenced'
    BY <1>1, HandlerMoves
  <1>3. NoMonitor => MonitorInv' /\ listening' = listening
    BY <1>1 DEF NoMonitor, monitorVars, MonitorInv, MonitorTypeOK
  <1>4. /\ MonitorInv'
        /\ \A p \in Pair : listening'[p] = "busy" <=> task'[p].at # "idle"
        /\ \A r \in Reporter \ reported : task'[r].at = "idle"
    <2>1. \A k \in Handler : k # h => task'[k].at = task[k].at
      BY <1>2 DEF OthersWait
    <2>2. Pair \subseteq Handler /\ Reporter \subseteq Handler
      BY DEF Handler
    <2>3. \A r \in Reporter \ reported : task'[r].at = "idle"
      BY <1>1, <1>2, <2>1, <2>2 DEF TaskInv
    <2>4. CASE task'[h].at \in Steps /\ NoMonitor
      BY <1>1, <1>2, <1>3, <2>1, <2>2, <2>3, <2>4 DEF TaskInv, Steps
    <2>5. CASE Finish(h) /\ task'[h] = NoTask /\ h \in Pair
      <3>1. CallbackReturns(h) /\ listening[h] = "busy"
        BY <1>1, <1>2, <2>5 DEF Finish, TaskInv
      <3>2. ~Take(h)
        BY <3>1 DEF Take
      <3>3. /\ MonitorInv' /\ listening'[h] # "busy"
            /\ \A q \in Pair : q # h => listening'[q] = listening[q]
        BY <1>1, <2>5, <3>1, <3>2, TakeStep
      <3>4. task'[h].at = "idle"
        BY <2>5 DEF NoTask
      <3> QED
        BY <1>1, <2>1, <2>2, <2>3, <3>3, <3>4 DEF TaskInv
    <2>6. CASE Finish(h) /\ task'[h] = NoTask /\ h \notin Pair
      BY <1>1, <1>3, <2>1, <2>2, <2>3, <2>6 DEF Finish, TaskInv
    <2> QED
      BY <1>2, <2>4, <2>5, <2>6
  <1>5. TaskInv'
    BY <1>1, <1>2, <1>4 DEF TaskInv, IncidentsStay
  <1>6. AlarmsAreKnown'
    <2> SUFFICES ASSUME NEW a \in alarms
                 PROVE  HasOne(incidents', a) \/ a \in silenced' \/ \E k \in Handler : Owes(task'[k], a)
      BY <1>2 DEF AlarmsAreKnown
    <2>1. CASE HasOne(incidents, a) \/ a \in silenced
      BY <1>2, <2>1 DEF IncidentsStay
    <2>2. ASSUME NEW k \in Handler, Owes(task[k], a)
          PROVE  HasOne(incidents', a) \/ a \in silenced' \/ \E j \in Handler : Owes(task'[j], a)
      BY <1>2, <2>2 DEF OthersWait
    <2> QED
      BY <1>1, <2>1, <2>2 DEF AlarmsAreKnown
  <1> QED
    BY <1>4, <1>5, <1>6

(* The inductive invariant of the handlers: types, the state of lockdown   *)
(* and monitor, threads that are busy while they have a task, and every     *)
(* severe event against a goal on the list of incidents, on its way there   *)
(* or silenced by the log.                                                 *)
THEOREM HandlersInvariant == SecuritySpec => []HandlersInv
  <1>1. SecurityInit => HandlersInv
    <2> SUFFICES ASSUME SecurityInit PROVE HandlersInv
      OBVIOUS
    <2>1. SafetyTypeOK
      BY DEF SecurityInit, SafetyInit, SafetyTypeOK, SafetyState
    <2>2. LockInv
      <3>1. << >> \in Seq(ToSet(Scopes)) /\ IsSuffix(<< >>, Scopes)
        BY LockdownAssumption, SuffixProps
      <3>2. Idle.what = "none" /\ Idle.left = << >> /\ Idle \in SwitchState
        BY <3>1 DEF Idle, SwitchState
      <3>3. switching \in [LockCaller -> SwitchState] /\ \A t \in LockCaller : switching[t] = Idle
        BY <3>2 DEF SecurityInit, LockInit
      <3>4. locked \in BOOLEAN /\ disabled \subseteq ToSet(Scopes) /\ refused \subseteq ToSet(Scopes)
        BY DEF SecurityInit, LockInit
      <3>5. ASSUME NEW t \in LockCaller
            PROVE  /\ switching[t].what = "none" /\ switching[t].left = << >>
                   /\ IsSuffix(switching[t].left, Scopes)
        BY <3>1, <3>2, <3>3
      <3>6. LockTypeOK
        BY <3>4, <3>5 DEF LockTypeOK
      <3> QED
        BY <3>3, <3>5, <3>6 DEF LockInv
    <2>3. MonitorInv
      <3>1. NotRead \in Statuses
        BY DEF NotRead, Statuses
      <3>2. /\ running = FALSE /\ stopSet = FALSE /\ starts = 0 /\ made = 0 /\ queue = << >>
            /\ poller = [p \in Pair |-> "none"] /\ listening = [p \in Pair |-> "none"]
            /\ fresh = [p \in Pair |-> NotRead] /\ known = NotRead
        BY DEF SecurityInit, MonitorInit
      <3>3. queue \in Seq(Queued) /\ Len(queue) = 0
        BY <3>2
      <3>4. /\ starts \in 0 .. MaxStarts /\ made \in 0 .. MaxEvents /\ 0 <= QueueSize
        BY <3>2, MonitorAssumption
      <3>5. /\ fresh \in [Pair -> Statuses] /\ known \in Statuses
            /\ poller \in [Pair -> {"none", "wait", "store"}]
            /\ listening \in [Pair -> {"none", "wait", "busy"}]
            /\ \A p \in Pair : listening[p] = "none"
        BY <3>1, <3>2
      <3>6. running \in BOOLEAN /\ stopSet \in BOOLEAN
        BY <3>2
      <3>7. MonitorTypeOK
        BY <3>3, <3>4, <3>5, <3>6 DEF MonitorTypeOK, Statuses
      <3> QED
        BY <3>3, <3>5, <3>7 DEF MonitorInv
    <2>4. TaskInv
      <3>1. incidents = << >> /\ << >> \in Seq(Incident)
        BY DEF SecurityInit
      <3> QED
        BY <2>3, <3>1, SecurityAssumption
           DEF SecurityInit, MonitorInit, TaskInv, Tasks, NoTask, Handler
    <2>5. AlarmsAreKnown
      BY DEF SecurityInit, AlarmsAreKnown
    <2> QED
      BY <2>1, <2>2, <2>3, <2>4, <2>5 DEF HandlersInv
  <1>2. HandlersInv /\ [SecurityNext]_securityVars => HandlersInv'
    <2> SUFFICES ASSUME HandlersInv, [SecurityNext]_securityVars PROVE HandlersInv'
      OBVIOUS
    <2>1. SafetyTypeOK'
      BY SafetyChanges DEF HandlersInv
    <2>2. LockInv'
      <3>1. CASE NoLock
        BY <3>1 DEF NoLock, lockVars, HandlersInv, LockInv, LockTypeOK
      <3>2. CASE \E t \in LockCaller : Switches(t)
        BY <3>2, LockStep DEF HandlersInv
      <3> QED
        BY <3>1, <3>2, LockChanges
    <2>3. MonitorInv' /\ TaskInv' /\ AlarmsAreKnown'
      <3>1. /\ MonitorInv /\ TaskInv /\ AlarmsAreKnown
            /\ Pair \subseteq Handler /\ Reporter \subseteq Handler
        BY DEF HandlersInv, Handler
      <3>2. ASSUME UNCHANGED <<task, incidents, operator, reported, commands, historyVars>>,
                   \A p \in Pair : listening'[p] = "busy" <=> listening[p] = "busy"
            PROVE  TaskInv' /\ AlarmsAreKnown'
        BY <3>1, <3>2 DEF TaskInv, AlarmsAreKnown, historyVars
      <3>3. NoMonitor => MonitorInv' /\ listening' = listening
        BY <3>1 DEF NoMonitor, monitorVars, MonitorInv, MonitorTypeOK
      <3>4. ASSUME NEW p \in Pair, MonitorStep(p) PROVE MonitorInv' /\ TaskInv' /\ AlarmsAreKnown'
        <4>1. MonitorInv' /\ \A q \in Pair : listening'[q] = "busy" <=> listening[q] = "busy"
          BY <3>1, <3>4, PollStep, StoreStep, ThreadStep DEF MonitorStep
        <4> QED
          BY <3>2, <3>4, <4>1 DEF MonitorStep, MonitorOnly, NoHistory
      <3>5. ASSUME NEW p \in Pair, HandleMonitorEvent(p) PROVE MonitorInv' /\ TaskInv' /\ AlarmsAreKnown'
        <4>1. /\ Take(p) /\ BeginTask(p, Head(queue).event, Head(queue).no)
              /\ UNCHANGED <<incidents, operator, reported, commands>>
          BY <3>5 DEF HandleMonitorEvent
        <4>2. /\ MonitorInv' /\ listening'[p] = "busy" /\ listening[p] # "busy"
              /\ \A q \in Pair : q # p => listening'[q] = listening[q]
              /\ Head(queue).event \in AnyEvent /\ Head(queue).no \in Number
          BY <3>1, <4>1, TakeStep DEF AnyEvent, Queued, Number
        <4>3. task[p].at = "idle"
          BY <3>1, <4>2 DEF TaskInv
        <4>4. /\ task' \in Tasks /\ OthersWait(p) /\ task'[p].at = "check" /\ AlarmsAreKnown'
              /\ (alarms' \cup silenced' \cup uncontained') \subseteq Number
          BY <3>1, <4>1, <4>2, <4>3, TaskBegins
        <4>5. p \notin Reporter
          BY SecurityAssumption
        <4>6. TaskInv'
          BY <3>1, <4>1, <4>2, <4>4, <4>5 DEF TaskInv, OthersWait
        <4> QED
          BY <4>2, <4>4, <4>6
      <3>6. ASSUME NEW r \in Reporter, HandleReport(r) PROVE MonitorInv' /\ TaskInv' /\ AlarmsAreKnown'
        <4>1. /\ r \notin reported /\ reported' = reported \cup {r}
              /\ UNCHANGED <<incidents, operator, commands>> /\ MonitorInv' /\ listening' = listening
          BY <3>3, <3>6 DEF HandleReport
        <4>2. PICK event \in ReportedEvent : BeginTask(r, event, r)
          BY <3>6 DEF HandleReport
        <4>3. event \in AnyEvent /\ r \in Number /\ task[r].at = "idle"
          BY <3>1, <4>1 DEF TaskInv, AnyEvent, Number
        <4>4. /\ task' \in Tasks /\ OthersWait(r) /\ task'[r].at = "check" /\ AlarmsAreKnown'
              /\ (alarms' \cup silenced' \cup uncontained') \subseteq Number
          BY <3>1, <4>1, <4>2, <4>3, TaskBegins
        <4>5. r \notin Pair
          BY SecurityAssumption
        <4>6. TaskInv'
          BY <3>1, <4>1, <4>4, <4>5 DEF TaskInv, OthersWait
        <4> QED
          BY <4>1, <4>4, <4>6
      <3>7. CASE UNCHANGED securityVars
        BY <3>2, <3>3, <3>7 DEF securityVars, NoMonitor, monitorVars
      <3>8. ASSUME NEW t \in LockCaller, SwitchScope(t) PROVE MonitorInv' /\ TaskInv' /\ AlarmsAreKnown'
        BY <3>2, <3>3, <3>8 DEF SwitchScope, NoHistory
      <3> QED
        BY <3>1, <3>4, <3>5, <3>6, <3>7, <3>8, OperatorMoves, HandlerMovesOn DEF SecurityNext
    <2> QED
      BY <2>1, <2>2, <2>3 DEF HandlersInv
  <1> QED
    BY <1>1, <1>2, PTL DEF SecuritySpec

(* Types, and every severe event against a goal that a handler has taken    *)
(* has an incident of its own or a handler on the way to open it, unless    *)
(* the log raised in that handler, for all sets of goals, units, threads    *)
(* and events and every length of the queue (handle_security_event(),       *)
(* _auto_report_incident()).                                               *)
THEOREM SevereBreachesAreKnown == SecuritySpec => []SecurityInv
  <1>1. HandlersInv => SecurityInv
    <2> SUFFICES ASSUME HandlersInv PROVE SecurityInv
      OBVIOUS
    <2>1. SafetyTypeOK /\ LockTypeOK /\ MonitorTypeOK /\ TaskInv /\ AlarmsAreKnown
      BY DEF HandlersInv, LockInv, MonitorInv
    <2>2. \A h \in Handler : task[h].at = "idle" \/ task[h].at \in Steps
      BY <2>1 DEF TaskInv, Tasks, NoTask, Working
    <2>3. SevereBreachHasIncident
      BY <2>1 DEF AlarmsAreKnown, SevereBreachHasIncident, Owes, HasOne
    <2>4. \A i \in DOMAIN incidents : incidents[i].status \in IncidentStatus
      <3>1. incidents \in Seq(Incident)
        BY <2>1 DEF TaskInv
      <3>2. \A i \in DOMAIN incidents : incidents[i] \in Incident
        BY <3>1
      <3> QED
        BY <3>2 DEF Incident
    <2> QED
      BY <2>1, <2>2, <2>3, <2>4 DEF SecurityInv, SecurityTypeOK, TaskInv, Steps, Number
  <1> QED
    BY <1>1, HandlersInvariant, PTL

(* While no lockdown overlaps a release, the scopes that do not refuse      *)
(* follow the flag, for every list of scopes, whichever of them may fail,   *)
(* and any number of threads that trigger (trigger_lockdown(),              *)
(* release_lockdown()).                                                    *)
THEOREM ScopesEndAsFlagSays == SecuritySpec => ScopesFollowFlag
  <1>1. SecurityInit => ScopesInv
    BY DEF SecurityInit, LockInit, ScopesInv, OneSwitches, AsFlagSays, PassedAreOff, PassedAreOn,
           AllFollowFlag, Idle
  <1>2. /\ HandlersInv /\ ScopesInv /\ ~LockdownOverlap /\ ~LockdownOverlap'
        /\ [SecurityNext]_securityVars
        => ScopesInv'
    <2> SUFFICES ASSUME HandlersInv, ScopesInv, ~LockdownOverlap, ~LockdownOverlap',
                        [SecurityNext]_securityVars
                 PROVE  ScopesInv'
      OBVIOUS
    <2>1. CASE NoLock
      BY <2>1 DEF NoLock, lockVars, ScopesInv, OneSwitches, AsFlagSays, PassedAreOff, PassedAreOn,
                  AllFollowFlag, NobodySwitches
    <2>2. CASE \E t \in LockCaller : Switches(t)
      BY <2>2, ScopesStep DEF HandlersInv
    <2> QED
      BY <2>1, <2>2, LockChanges
  <1>3. ScopesInv => (NobodySwitches => \A s \in ToSet(Scopes) \ refused : s \in disabled <=> locked)
    BY DEF ScopesInv, AllFollowFlag
  <1> QED
    BY <1>1, <1>2, <1>3, HandlersInvariant, PTL DEF SecuritySpec, ScopesFollowFlag
--------------------------------------------------------------------------------
(* The safety goals.  A goal that stands has no breach; without overlaps a  *)
(* breach is no graver than the state, or the one handler between its mark  *)
(* and its state marked it, and what that handler sets covers all of them.  *)
Asks(h) == AsksFor(Event(h).severity, Target(Event(h).source))
Acts(h) == task[h].at \in {"compare", "set"}

GoalsInv ==
    /\ \A g \in Goal : breach[g] <= 3 /\ (satisfied[g] => breach[g] = 0)
    /\ \A g \in Goal :
          \/ breach[g] <= Weight(safety)
          \/ \E h \in Handler : Acts(h) /\ Target(Event(h).source) = g /\ breach[g] <= Asks(h)
    /\ \A h \in Handler : task[h].at = "set" => \A g \in Goal : breach[g] <= Asks(h)

(* A handler's step touches the goals between Check and Set only.          *)
LEMMA GoalsHandlerStep ==
    ASSUME HandlersInv, GoalsInv, ~SafetyOverlap, ~SafetyOverlap', NEW h \in Handler, HandlerStep(h)
    PROVE  GoalsInv'
  <1>1. /\ task \in Tasks /\ SafetyTypeOK /\ safety \in SafetyState
        /\ \A g \in Goal : breach[g] \in 0 .. 4
        /\ Weight(safety) \in 0 .. 4
        /\ \A k \in Handler : Asks(k) \in 0 .. 3
    BY WeightProps DEF HandlersInv, TaskInv, SafetyTypeOK, Asks
  <1>2. /\ OthersWait(h) /\ task[h].at # "idle"
        /\ task'[h] = NoTask \/ task'[h].event = task[h].event
    BY HandlerMoves DEF HandlersInv
  <1>3. \A k \in Handler : k # h => /\ Acts(k)' = Acts(k) /\ Asks(k)' = Asks(k)
                                    /\ Event(k)' = Event(k) /\ task'[k].at = task[k].at
    BY <1>2 DEF OthersWait, Acts, Asks, Event
  <1>4. task'[h] # NoTask => Asks(h)' = Asks(h) /\ Event(h)' = Event(h)
    BY <1>2 DEF Asks, Event
  <1>5. NoTask.at = "idle"
    BY DEF NoTask
  <1>6. Acts(h) \/ Acts(h)' => \A k \in Handler : k # h => ~Acts(k)
    BY <1>3 DEF SafetyOverlap, Acts
  <1>7. CASE Check(h) /\ Affected(Event(h).source) # {}
    <2> DEFINE goal == Target(Event(h).source)
    <2>1. Goto(h, "compare") /\ MarkViolation(Event(h).severity, goal)
      BY <1>7 DEF Check
    <2>2. task'[h].at = "compare" /\ task'[h] # NoTask
      <3>1. "compare" \in Steps
        BY DEF Steps
      <3> QED
        BY <1>1, <1>2, <1>5, <2>1, <3>1, GotoProps
    <2>3. ~Acts(h)
      BY <1>7 DEF Check, Acts
    <2>4. \A k \in Handler : ~Acts(k)
      BY <1>6, <2>2, <2>3 DEF Acts
    <2>5. \A g \in Goal : breach[g] <= Weight(safety)
      BY <2>4 DEF GoalsInv
    <2>6. /\ safety' = safety
          /\ \A g \in Goal : g # goal => breach'[g] = breach[g] /\ satisfied'[g] = satisfied[g]
          /\ goal \in Goal => /\ ~satisfied'[goal]
                              /\ breach'[goal] = breach[goal] \/ breach'[goal] = Asks(h)
      BY <1>1, <2>1, MarkProps DEF Asks
    <2>7. \A g \in Goal : breach'[g] <= 3 /\ (satisfied'[g] => breach'[g] = 0)
      BY <1>1, <2>6 DEF GoalsInv
    <2>8. \A g \in Goal :
            \/ breach'[g] <= Weight(safety')
            \/ Acts(h)' /\ Target(Event(h).source)' = g /\ breach'[g] <= Asks(h)'
      BY <1>1, <1>4, <2>2, <2>5, <2>6 DEF Acts
    <2>9. \A k \in Handler : task'[k].at # "set"
      BY <1>3, <2>2, <2>4 DEF Acts
    <2> QED
      BY <2>7, <2>8, <2>9 DEF GoalsInv
  <1>8. CASE Compare(h)
    <2> DEFINE goal == Target(Event(h).source)
    <2>1. /\ UNCHANGED safetyVars /\ Acts(h)
          /\ Goto(h, IF Worsens(Event(h).severity, goal) THEN "set" ELSE AfterSafety(Event(h)))
          /\ Worsens(Event(h).severity, goal) <=> Asks(h) > Weight(safety)
      BY <1>8, WeightProps DEF Compare, NoSafety, Worsens, Asks, Acts
    <2>2. \A g \in Goal : \/ breach[g] <= Weight(safety)
                          \/ goal = g /\ breach[g] <= Asks(h)
      BY <1>6, <2>1 DEF GoalsInv
    <2>3. \A g \in Goal : breach'[g] <= 3 /\ (satisfied'[g] => breach'[g] = 0)
      BY <2>1 DEF GoalsInv, safetyVars
    <2>4. \A k \in Handler : k # h => task'[k].at # "set"
      BY <1>3, <1>6, <2>1 DEF Acts
    <2>5. CASE Worsens(Event(h).severity, goal)
      <3>1. Asks(h) > Weight(safety) /\ Goto(h, "set")
        BY <2>1, <2>5
      <3>2. task'[h].at = "set" /\ task'[h] # NoTask
        <4>1. "set" \in Steps
          BY DEF Steps
        <4> QED
          BY <1>1, <1>2, <1>5, <3>1, <4>1, GotoProps
      <3>3. \A g \in Goal : breach[g] <= Asks(h)
        BY <1>1, <2>2, <3>1
      <3>4. \A g \in Goal : breach'[g] <= Asks(h)'
        BY <1>4, <2>1, <3>2, <3>3 DEF safetyVars
      <3>5. \A g \in Goal :
              \/ breach'[g] <= Weight(safety')
              \/ Acts(h)' /\ Target(Event(h).source)' = g /\ breach'[g] <= Asks(h)'
        BY <1>4, <2>1, <2>2, <3>2 DEF Acts, safetyVars
      <3> QED
        BY <2>3, <2>4, <3>4, <3>5 DEF GoalsInv
    <2>6. CASE ~Worsens(Event(h).severity, goal)
      <3>1. Asks(h) <= Weight(safety) /\ Goto(h, AfterSafety(Event(h)))
        BY <1>1, <2>1, <2>6
      <3>2. AfterSafety(Event(h)) \in Steps /\ AfterSafety(Event(h)) # "set"
        BY DEF AfterSafety, Steps
      <3>3. task'[h].at # "set"
        BY <1>1, <1>2, <3>1, <3>2, GotoProps
      <3>4. \A g \in Goal : breach[g] <= Weight(safety)
        BY <1>1, <2>2, <3>1
      <3> QED
        BY <2>1, <2>3, <2>4, <3>3, <3>4 DEF GoalsInv, safetyVars
    <2> QED
      BY <2>5, <2>6
  <1>9. CASE Set(h)
    <2>1. /\ safety' = ComputeNewState(Event(h).severity, Target(Event(h).source))
          /\ breach' = breach /\ satisfied' = satisfied
          /\ Goto(h, AfterSafety(Event(h))) /\ task[h].at = "set" /\ Acts(h)
      BY <1>9 DEF Set, SetState, Acts
    <2>2. Weight(safety') = Asks(h)
      BY <2>1, WeightProps DEF Asks
    <2>3. \A g \in Goal : breach'[g] <= Weight(safety')
      BY <2>1, <2>2 DEF GoalsInv
    <2>4. \A k \in Handler : k # h => task'[k].at # "set"
      BY <1>3, <1>6, <2>1 DEF Acts
    <2>5. task'[h].at # "set"
      <3>1. AfterSafety(Event(h)) \in Steps /\ AfterSafety(Event(h)) # "set"
        BY DEF AfterSafety, Steps
      <3> QED
        BY <1>1, <1>2, <2>1, <3>1, GotoProps
    <2> QED
      BY <2>1, <2>3, <2>4, <2>5 DEF GoalsInv
  <1>10. CASE /\ NoSafety /\ ~Compare(h) /\ ~Set(h)
              /\ ~(Check(h) /\ Affected(Event(h).source) # {})
    <2>1. UNCHANGED safetyVars
      BY <1>10 DEF NoSafety
    <2>2. ~Acts(h)
      BY <1>10 DEF HandlerStep, Check, LogFails, Report, Opened, Contained, Tamper, Lock, Locked, Acts
    <2>3. task'[h].at \notin {"compare", "set"}
      <3>1. ASSUME NEW step \in {"contain", "contained"}, Opened(h), ToPlaybook(h, step)
            PROVE  task'[h].at \notin {"compare", "set"}
        BY <3>1, OpenedProps DEF HandlersInv
      <3>2. ASSUME NEW step \in {"tamper", "lock", "locking"}, Goto(h, step)
            PROVE  task'[h].at \notin {"compare", "set"}
        <4>1. step \in Steps
          BY DEF Steps
        <4> QED
          BY <1>1, <1>2, <3>2, <4>1, GotoProps
      <3>3. CASE Finish(h)
        BY <1>1, <1>5, <3>3 DEF Finish, Tasks
      <3> QED
        BY <1>10, <3>1, <3>2, <3>3 DEF HandlerStep, Check, LogFails, Report, Contained, Tamper, Lock, Locked
    <2>4. ~Acts(h)'
      BY <2>3 DEF Acts
    <2>5. /\ \A g \in Goal : breach'[g] = breach[g] /\ satisfied'[g] = satisfied[g]
          /\ safety' = safety
      BY <2>1 DEF safetyVars
    <2>6. ASSUME NEW g \in Goal
          PROVE  \/ breach'[g] <= Weight(safety')
                 \/ \E k \in Handler : Acts(k)' /\ Target(Event(k).source)' = g /\ breach'[g] <= Asks(k)'
      <3>1. CASE breach[g] <= Weight(safety)
        BY <2>5, <3>1
      <3>2. ASSUME NEW k \in Handler, Acts(k), Target(Event(k).source) = g, breach[g] <= Asks(k)
            PROVE  Acts(k)' /\ Target(Event(k).source)' = g /\ breach'[g] <= Asks(k)'
        BY <1>3, <2>2, <2>5, <3>2
      <3> QED
        BY <3>1, <3>2 DEF GoalsInv
    <2>7. ASSUME NEW k \in Handler, task'[k].at = "set", NEW g \in Goal PROVE breach'[g] <= Asks(k)'
      BY <1>3, <2>3, <2>5, <2>7 DEF GoalsInv
    <2> QED
      BY <2>5, <2>6, <2>7 DEF GoalsInv
  <1> QED
    BY <1>7, <1>8, <1>9, <1>10
       DEF HandlerStep, Check, LogFails, Report, Opened, Contained, Tamper, Lock, Locked

(* As long as changes of the safety state do not overlap, the vehicle is as *)
(* limited as the worst standing violation asks for, or the handler that    *)
(* found it is about to see to that, for every table of goals and any       *)
(* number of threads (check_safety_violation(), reset_to_normal()).         *)
THEOREM GoalsAreRespected == SecuritySpec => GoalsLimitState
  <1>1. SecurityInit => GoalsInv
    BY WeightProps DEF SecurityInit, SafetyInit, GoalsInv, NoTask
  <1>2. /\ HandlersInv /\ GoalsInv /\ ~SafetyOverlap /\ ~SafetyOverlap'
        /\ [SecurityNext]_securityVars
        => GoalsInv'
    <2> SUFFICES ASSUME HandlersInv, GoalsInv, ~SafetyOverlap, ~SafetyOverlap',
                        [SecurityNext]_securityVars
                 PROVE  GoalsInv'
      OBVIOUS
    <2>1. \A g \in Goal : breach[g] \in 0 .. 4
      BY DEF HandlersInv, SafetyTypeOK
    <2>2. ASSUME NEW h \in Handler, HandlerStep(h) PROVE GoalsInv'
      BY <2>2, GoalsHandlerStep
    <2>3. ASSUME UNCHANGED safetyVars,
                 \A h \in Handler : task'[h] = task[h] \/ (~Acts(h) /\ ~Acts(h)')
          PROVE  GoalsInv'
      BY <2>3 DEF GoalsInv, safetyVars, Acts, Asks, Event
    <2>4. ASSUME NEW h \in Handler, task[h].at = "idle", NEW event \in AnyEvent,
                 NEW no \in Nat \cup Reporter, BeginTask(h, event, no), UNCHANGED safetyVars
          PROVE  GoalsInv'
      <3>1. task \in Tasks /\ no \in Number
        BY <2>4 DEF HandlersInv, TaskInv, Number
      <3>2. OthersWait(h) /\ task'[h].at = "check"
        BY <2>4, <3>1, BeginProps
      <3>3. ASSUME NEW k \in Handler PROVE task'[k] = task[k] \/ (~Acts(k) /\ ~Acts(k)')
        <4>1. CASE k = h
          BY <2>4, <3>2, <4>1 DEF Acts
        <4>2. CASE k # h
          BY <3>2, <4>2 DEF OthersWait
        <4> QED
          BY <4>1, <4>2
      <3> QED
        BY <2>3, <2>4, <3>3
    <2>5. CASE OperatorStep
      <3>1. task' = task
        BY <2>5 DEF OperatorStep, StartMonitor, StopMonitor, ReleaseLockdown, ResetCheck, ResetSet,
                    ForceState, Reregister, SetStatus
      <3>2. \A h \in Handler : Acts(h)' = Acts(h) /\ Asks(h)' = Asks(h) /\ Event(h)' = Event(h)
        BY <3>1 DEF Acts, Asks, Event
      <3>3. ASSUME NEW new \in {"FAIL_SAFE", "EMERGENCY_STOP"}, SetState(new) PROVE GoalsInv'
        <4>1. Weight(safety') >= 3 /\ breach' = breach /\ satisfied' = satisfied
              /\ Weight(safety') \in Nat
          BY <3>3, WeightProps DEF SetState
        <4>2. \A g \in Goal : breach'[g] <= Weight(safety')
          BY <2>1, <4>1 DEF GoalsInv
        <4> QED
          BY <3>1, <3>2, <4>1, <4>2 DEF GoalsInv
      <3>4. CASE ResetSet
        <4>1. AllSatisfied /\ safety' = "NORMAL" /\ breach' = breach /\ satisfied' = satisfied
          BY <3>4 DEF ResetSet, SetState, SafetyOverlap
        <4>2. \A g \in Goal : breach'[g] <= Weight(safety')
          BY <4>1, WeightProps DEF AllSatisfied, GoalsInv
        <4> QED
          BY <3>1, <3>2, <4>1, <4>2 DEF GoalsInv
      <3>5. ASSUME NEW goal \in Goal, Reregister(goal) PROVE GoalsInv'
        <4>1. /\ safety' = safety
              /\ \A g \in Goal : g # goal => breach'[g] = breach[g] /\ satisfied'[g] = satisfied[g]
              /\ breach'[goal] = 0
          BY <3>5 DEF Reregister, RegisterGoal, HandlersInv, SafetyTypeOK
        <4>2. Weight(safety) \in 0 .. 4 /\ \A h \in Handler : Asks(h) \in 0 .. 3
          BY WeightProps DEF HandlersInv, SafetyTypeOK, Asks
        <4>3. \A g \in Goal : breach'[g] <= breach[g] /\ breach'[g] \in 0 .. 4
          BY <2>1, <4>1
        <4>4. \A g \in Goal : breach'[g] <= 3 /\ (satisfied'[g] => breach'[g] = 0)
          BY <2>1, <4>1 DEF GoalsInv
        <4>5. ASSUME NEW h \in Handler, task'[h].at = "set", NEW g \in Goal
              PROVE  breach'[g] <= Asks(h)'
          BY <2>1, <3>1, <3>2, <4>2, <4>3, <4>5 DEF GoalsInv
        <4>6. ASSUME NEW g \in Goal
              PROVE  \/ breach'[g] <= Weight(safety')
                     \/ \E h \in Handler : Acts(h)' /\ Target(Event(h).source)' = g /\ breach'[g] <= Asks(h)'
          <5>1. CASE g = goal
            BY <4>1, <4>2, <5>1
          <5>2. CASE g # goal
            BY <3>2, <4>1, <5>2 DEF GoalsInv
          <5> QED
            BY <5>1, <5>2
        <4> QED
          BY <4>4, <4>5, <4>6 DEF GoalsInv
      <3>6. CASE NoSafety
        BY <2>3, <3>1, <3>6 DEF NoSafety
      <3> QED
        BY <2>5, <3>3, <3>4, <3>5, <3>6
           DEF OperatorStep, StartMonitor, StopMonitor, ReleaseLockdown, ResetCheck, ForceState, SetStatus
    <2>6. ASSUME NEW p \in Pair, HandleMonitorEvent(p) PROVE GoalsInv'
      <3>1. /\ p \in Handler /\ Take(p) /\ UNCHANGED safetyVars
            /\ BeginTask(p, Head(queue).event, Head(queue).no)
        BY <2>6 DEF HandleMonitorEvent, NoSafety, Handler
      <3>2. /\ Head(queue).event \in AnyEvent /\ Head(queue).no \in Nat
            /\ task[p].at = "idle"
        BY <3>1, TakeStep DEF HandlersInv, TaskInv, AnyEvent, Queued
      <3> QED
        BY <2>4, <3>1, <3>2
    <2>7. ASSUME NEW r \in Reporter, HandleReport(r) PROVE GoalsInv'
      <3>1. /\ r \in Handler /\ r \notin reported /\ UNCHANGED safetyVars
            /\ \E event \in ReportedEvent : BeginTask(r, event, r)
        BY <2>7 DEF HandleReport, NoSafety, Handler
      <3>2. task[r].at = "idle" /\ ReportedEvent \subseteq AnyEvent
        BY <3>1 DEF HandlersInv, TaskInv, AnyEvent
      <3> QED
        BY <2>4, <3>1, <3>2
    <2>8. ASSUME UNCHANGED <<safetyVars, task>> PROVE GoalsInv'
      BY <2>3, <2>8
    <2>9. CASE \/ \E p \in Pair : MonitorStep(p)
               \/ \E t \in LockCaller : SwitchScope(t)
               \/ UNCHANGED securityVars
      BY <2>8, <2>9 DEF MonitorStep, MonitorOnly, SwitchScope, NoSafety, securityVars
    <2> QED
      BY <2>2, <2>5, <2>6, <2>7, <2>9 DEF SecurityNext
  <1>3. GoalsInv => \A g \in Goal :
                      \/ breach[g] <= Weight(safety)
                      \/ \E h \in Handler : task[h].at \in {"compare", "set"} /\ Target(Event(h).source) = g
    BY DEF GoalsInv, Acts
  <1> QED
    BY <1>1, <1>2, <1>3, HandlersInvariant, PTL DEF SecuritySpec, GoalsLimitState
--------------------------------------------------------------------------------
(* KeyRotation.  What is in memory and in the file, and the calls.         *)
Stored == [Key -> [status : {"none", "ACTIVE", "RETIRED", "DESTROYED"},
                   version : 1 .. MaxKeys, from : 0 .. MaxKeys, first : 0 .. MaxKeys]]
Written == [Key -> [status : {"none", "ACTIVE", "RETIRED"},
                    version : 1 .. MaxKeys, from : 0 .. MaxKeys, first : 0 .. MaxKeys]]

Calls == {"idle", "create", "bump", "retire", "end"}
Turn == [pc : Calls, key : 0 .. MaxKeys, new : 0 .. MaxKeys]
Turns == [Actors -> Turn]

(* A rotation that got as far as making a key.                             *)
Replacing(a) == rotation[a].pc \in {"bump", "retire"}

(* Versions do not run ahead of the numbers of keys, nor origins and lines  *)
(* in the file.                                                            *)
Versions ==
    \A k \in Key : /\ store[k].version <= k /\ disk[k].version <= k
                   /\ disk[k].first <= k /\ disk[k].from < k

(* What the keystore file may lag behind the registry in memory: it knows   *)
(* every key that is retired in memory.  The registry knows nothing of the  *)
(* keys that a load left out, and all the others that the file has.         *)
Lag ==
    \A k \in Key :
        /\ k \in unread => store[k].status = "none"
        /\ disk[k].status = "RETIRED" /\ k \notin unread => store[k].status \in {"RETIRED", "DESTROYED"}
        /\ disk[k].status = "ACTIVE" /\ k \notin unread => store[k].status # "none"
        /\ store[k].status = "RETIRED" => disk[k].status # "none"

Covered == Lines(disk) \subseteq Lines(store) \cup LinesOf(unread)

KeysInv == KeyTypeOK /\ Versions /\ Lag /\ Covered

(* A key that may be retired: a later active key of its line is in memory,  *)
(* and the file knows the key itself.                                       *)
Replaced(s, k) ==
    \E j \in Key : j > k /\ s[j].status = "ACTIVE" /\ s[j].first = s[k].first
Prepared(s, d, k) == Replaced(s, k) /\ (s[k].status = "ACTIVE" => d[k].status # "none")

(* A key that a rotation made carries its version before the old key is     *)
(* retired, and keeps it.                                                  *)
HasLineage(key) == key.status # "none" => key.version >= 2
Sound(s, d, k) == HasLineage(s[k]) /\ HasLineage(d[k])

Rotations ==
    /\ \A a \in Actors :
        /\ rotation[a].pc \in {"create", "bump", "retire"} => rotation[a].key \in 1 .. created
        /\ Replacing(a) => Prepared(store, disk, rotation[a].key)
        /\ rotation[a].pc = "retire" => store[rotation[a].new].version >= 2
    /\ \A r \in completed : r[2] <= created /\ Sound(store, disk, r[2])

RotationInv == RotationTypeOK /\ KeysInv /\ Rotations

(* What a step other than a crash does to the keys.                        *)
LosesNoLine ==
    Lines(disk) \subseteq Lines(disk') \cup LinesOf(unread) /\ Lines(store) \subseteq Lines(store')
OnlyAges ==
    \A k \in Key :
        /\ disk[k].status = "RETIRED" => disk'[k].status # "ACTIVE"
        /\ disk[k].status = "none" => disk'[k].status # "RETIRED"
        /\ k <= created /\ ~Known(k) => disk'[k].status \in {disk[k].status, "none"}
--------------------------------------------------------------------------------
(* What is in the file after a write: all but the destroyed keys.          *)
LEMMA RegisteredProps ==
    ASSUME NEW s \in Stored
    PROVE  /\ Registered(s) \in Written
           /\ \A k \in Key : /\ s[k].status = "DESTROYED" => Registered(s)[k] = NoKey
                             /\ s[k].status # "DESTROYED" => Registered(s)[k] = s[k]
           /\ Lines(Registered(s)) = Lines(s)
  <1>1. \A k \in Key : /\ s[k].status = "DESTROYED" => Registered(s)[k] = NoKey
                       /\ s[k].status # "DESTROYED" => Registered(s)[k] = s[k]
    BY DEF Registered
  <1>2. \A k \in Key : NoKey.status = "none" /\ 1 \in 1 .. MaxKeys /\ 0 \in 0 .. MaxKeys
    BY KeyAssumption DEF NoKey, Key
  <1>3. \A k \in Key : Registered(s)[k] \in [status : {"none", "ACTIVE", "RETIRED"},
                                             version : 1 .. MaxKeys, from : 0 .. MaxKeys, first : 0 .. MaxKeys]
    <2> TAKE k \in Key
    <2>1. s[k] \in [status : {"none", "ACTIVE", "RETIRED", "DESTROYED"},
                   version : 1 .. MaxKeys, from : 0 .. MaxKeys, first : 0 .. MaxKeys]
      BY DEF Stored
    <2>2. CASE s[k].status = "DESTROYED"
      BY <1>1, <1>2, <2>2 DEF NoKey
    <2>3. CASE s[k].status # "DESTROYED"
      BY <1>1, <2>1, <2>3
    <2> QED
      BY <2>2, <2>3
  <1>4. Registered(s) \in Written
    BY <1>3 DEF Registered, Written
  <1>5. \A k \in Key : Registered(s)[k].status = "ACTIVE" <=> s[k].status = "ACTIVE"
    BY <1>1, <1>2
  <1>6. Lines(Registered(s)) = Lines(s)
    BY <1>1, <1>5 DEF Lines
  <1> QED
    BY <1>1, <1>4, <1>6

(* A status changes nothing but the status of a key that is known.         *)
LEMMA WithStatusProps ==
    ASSUME store \in Stored, NEW k \in Key, NEW st \in {"RETIRED", "DESTROYED"}
    PROVE  /\ WithStatus(k, st) \in Stored
           /\ \A j \in Key : /\ WithStatus(k, st)[j].version = store[j].version
                             /\ WithStatus(k, st)[j].first = store[j].first
                             /\ WithStatus(k, st)[j].from = store[j].from
                             /\ j # k => WithStatus(k, st)[j] = store[j]
           /\ Known(k) => WithStatus(k, st)[k].status = st
           /\ ~Known(k) => WithStatus(k, st) = store
  <1> DEFINE t == [store[k] EXCEPT !.status = st]
  <1>1. store[k] \in [status : {"none", "ACTIVE", "RETIRED", "DESTROYED"},
                      version : 1 .. MaxKeys, from : 0 .. MaxKeys, first : 0 .. MaxKeys]
    BY DEF Stored
  <1>2. /\ t \in [status : {"none", "ACTIVE", "RETIRED", "DESTROYED"},
                  version : 1 .. MaxKeys, from : 0 .. MaxKeys, first : 0 .. MaxKeys]
        /\ t.status = st /\ t.version = store[k].version
        /\ t.first = store[k].first /\ t.from = store[k].from
    BY <1>1
  <1> HIDE DEF t
  <1>3. [store EXCEPT ![k].status = st] = [store EXCEPT ![k] = t]
    BY DEF t
  <1>4. CASE Known(k)
    <2>1. WithStatus(k, st) = [store EXCEPT ![k] = t]
      BY <1>3, <1>4 DEF WithStatus
    <2> QED
      BY <1>2, <1>4, <2>1 DEF Stored
  <1>5. CASE ~Known(k)
    BY <1>5 DEF WithStatus
  <1> QED
    BY <1>4, <1>5

(* A new key is active, and of the line of the key it replaces.            *)
LEMMA WithNewProps ==
    ASSUME store \in Stored, created \in Nat, created < MaxKeys, NEW k \in 0 .. created,
           \A j \in Key : store[j].first <= j
    PROVE  /\ WithNew(k) \in Stored
           /\ created + 1 \in Key
           /\ WithNew(k)[created + 1].status = "ACTIVE"
           /\ WithNew(k)[created + 1].version = 1 /\ WithNew(k)[created + 1].from = 0
           /\ WithNew(k)[created + 1].first <= created + 1
           /\ k # 0 => WithNew(k)[created + 1].first = store[k].first
           /\ \A j \in Key : j # created + 1 => WithNew(k)[j] = store[j]
  <1> DEFINE f == IF k = 0 THEN created + 1 ELSE store[k].first
             t == [status |-> "ACTIVE", version |-> 1, from |-> 0, first |-> f]
  <1>1. created + 1 \in Key /\ 1 \in 1 .. MaxKeys /\ 0 \in 0 .. MaxKeys /\ (k # 0 => k \in Key)
    BY KeyAssumption DEF Key
  <1>2. k # 0 => store[k].first \in 0 .. MaxKeys /\ store[k].first <= k
    BY <1>1 DEF Stored
  <1>3. f \in 0 .. MaxKeys /\ f <= created + 1
    BY <1>2, KeyAssumption
  <1>4. WithNew(k) = [store EXCEPT ![created + 1] = t]
    BY DEF WithNew
  <1> HIDE DEF f
  <1>5. t \in [status : {"none", "ACTIVE", "RETIRED", "DESTROYED"},
               version : 1 .. MaxKeys, from : 0 .. MaxKeys, first : 0 .. MaxKeys]
    BY <1>1, <1>3
  <1> QED
    BY <1>1, <1>3, <1>4, <1>5 DEF Stored, f

--------------------------------------------------------------------------------
(* The calls of an actor change its own rotation only.                     *)
LEMMA AtProps ==
    ASSUME rotation \in Turns, NEW a \in Actors, NEW pc \in Calls,
           NEW key \in 0 .. MaxKeys, NEW new \in 0 .. MaxKeys, At(a, pc, key, new)
    PROVE  /\ rotation' \in Turns
           /\ rotation'[a].pc = pc /\ rotation'[a].key = key /\ rotation'[a].new = new
           /\ \A b \in Actors : b # a => rotation'[b] = rotation[b]
  <1> DEFINE t == [pc |-> pc, key |-> key, new |-> new]
  <1>1. t \in Turn /\ t.pc = pc /\ t.key = key /\ t.new = new
    BY DEF Turn
  <1>2. rotation' = [rotation EXCEPT ![a] = t]
    BY DEF At
  <1> HIDE DEF t
  <1> QED
    BY <1>1, <1>2 DEF Turns

(* A rotation that has come to its end replaces nothing any more.          *)
LEMMA EndsProps ==
    ASSUME rotation \in Turns, NEW a \in Actors, Ends(a)
    PROVE  /\ rotation' \in Turns
           /\ rotation'[a].pc \in {"idle", "end"}
           /\ \A b \in Actors : b # a => rotation'[b] = rotation[b]
  <1>1. 0 \in 0 .. MaxKeys /\ "idle" \in Calls /\ "end" \in Calls
    BY KeyAssumption DEF Calls
  <1>2. rotation[a].key \in 0 .. MaxKeys
    BY DEF Turns, Turn
  <1>3. CASE a = Admin
    BY <1>1, <1>3, AtProps DEF Ends
  <1>4. CASE a # Admin
    BY <1>1, <1>2, <1>4, AtProps DEF Ends
  <1> QED
    BY <1>3, <1>4

(* What every action relies on of the types.                               *)
LEMMA TypesInUse ==
    ASSUME RotationTypeOK
    PROVE  /\ store \in Stored /\ disk \in Written /\ rotation \in Turns
           /\ created \in 0 .. MaxKeys /\ created \in Nat /\ MaxKeys \in Nat
           /\ \A k \in Key : k > created => store[k] = NoKey /\ disk[k] = NoKey
           /\ \A k \in Key : store[k].first <= k /\ store[k].from < k
           /\ unread \subseteq 1 .. created
           /\ \A k \in Key : store[k].status # "none" => k <= created
           /\ \A k \in Key : disk[k].status # "none" => k <= created
           /\ Key = 1 .. MaxKeys
  <1>1. store \in Stored /\ disk \in Written /\ rotation \in Turns
    BY Zenon DEF RotationTypeOK, KeyTypeOK, Stored, Written, Turns, Turn, Calls
  <1>2. created \in 0 .. MaxKeys /\ MaxKeys \in Nat /\ Key = 1 .. MaxKeys
    BY KeyAssumption DEF RotationTypeOK, KeyTypeOK, Key
  <1>3. \A k \in Key : k > created => store[k] = NoKey /\ disk[k] = NoKey
    BY <1>2 DEF RotationTypeOK, KeyTypeOK
  <1>4. (\A k \in Key : store[k].first <= k /\ store[k].from < k) /\ unread \subseteq 1 .. created
    BY DEF RotationTypeOK, KeyTypeOK
  <1>5. \A k \in Key : k > created => store[k].status = "none" /\ disk[k].status = "none"
    BY <1>3 DEF NoKey
  <1> QED
    BY <1>1, <1>2, <1>3, <1>4, <1>5

(* What is written is typed and covered by what is in memory.              *)
LEMMA Writing ==
    ASSUME store' \in Stored, disk \in Written, unread' = unread,
           disk' = Registered(store') \/ disk' = disk,
           Covered, Lines(store) \subseteq Lines(store')
    PROVE  disk' \in Written /\ Covered' /\ LosesNoLine
  <1>1. CASE disk' = Registered(store')
    BY <1>1, RegisteredProps DEF Covered, LosesNoLine
  <1>2. CASE disk' = disk
    <2>1. Lines(disk') = Lines(disk) /\ LinesOf(unread)' = LinesOf(unread)
      BY <1>2 DEF LinesOf
    <2> QED
      BY <1>2, <2>1 DEF Covered, LosesNoLine
  <1> QED
    BY <1>1, <1>2

(* A new key disturbs nothing, and when it is stored the key it replaces    *)
(* may be retired.                                                         *)
LEMMA NewStep ==
    ASSUME RotationTypeOK, KeysInv, created < MaxKeys, NEW k \in 0 .. created,
           created' = created + 1, store' = WithNew(k),
           disk' = Registered(store') \/ disk' = disk, failures' \in 0 .. MaxFailures,
           unread' = unread
    PROVE  /\ KeysInv' /\ LosesNoLine /\ OnlyAges
           /\ \A j \in 1 .. created :
                /\ Prepared(store, disk, j) => Prepared(store', disk', j)
                /\ store'[j] = store[j]
                /\ Sound(store, disk, j) => Sound(store', disk', j)
           /\ k # 0 /\ disk' = Registered(store') => Prepared(store', disk', k)
  <1> DEFINE n == created + 1
  <1>1. /\ store \in Stored /\ disk \in Written /\ created \in Nat /\ MaxKeys \in Nat
        /\ Key = 1 .. MaxKeys /\ n \in Key
        /\ \A j \in Key : j > created => store[j] = NoKey /\ disk[j] = NoKey
        /\ \A j \in Key : store[j].first <= j /\ store[j].from < j
        /\ unread \subseteq 1 .. created
    BY TypesInUse
  <1>2. /\ store' \in Stored
        /\ store'[n].status = "ACTIVE" /\ store'[n].version = 1 /\ store'[n].first <= n
        /\ store'[n].from = 0
        /\ k # 0 => store'[n].first = store[k].first
        /\ \A j \in Key : j # n => store'[j] = store[j]
    BY <1>1, WithNewProps
  <1>3. store[n].status = "none" /\ disk[n].status = "none" /\ disk[n].version = 1 /\ n \notin unread
    BY <1>1 DEF NoKey
  <1>4. Lines(store) \subseteq Lines(store')
    BY <1>2, <1>3 DEF Lines
  <1>5. disk' \in Written /\ Covered' /\ LosesNoLine
    BY <1>1, <1>2, <1>4, Writing DEF KeysInv
  <1>6. \A j \in Key :
                      \/ disk'[j] = disk[j]
                      \/ disk'[j] = NoKey /\ store'[j].status = "DESTROYED"
                      \/ disk'[j] = store'[j] /\ store'[j].status # "DESTROYED"
    BY <1>2, RegisteredProps
  <1>7. disk' = Registered(store') => \A j \in Key : store'[j].status = "ACTIVE" => disk'[j] = store'[j]
    BY <1>2, RegisteredProps
  <1>8. NoKey.status = "none" /\ NoKey.version = 1 /\ NoKey.first = 0 /\ NoKey.from = 0
    BY DEF NoKey
  <1>9. Versions'
    <2> SUFFICES ASSUME NEW j \in Key PROVE store'[j].version <= j /\ disk'[j].version <= j /\ disk'[j].first <= j
                                          /\ disk'[j].from < j
      BY DEF Versions
    <2>1. store'[j].version <= j /\ store'[j].first <= j /\ store'[j].from < j
      BY <1>1, <1>2 DEF KeysInv, Versions
    <2> QED
      BY <1>1, <1>6, <1>8, <2>1 DEF KeysInv, Versions
  <1>10. \A j \in Key : j > created' => store'[j] = NoKey /\ disk'[j] = NoKey
    <2> SUFFICES ASSUME NEW j \in Key, j > created + 1 PROVE store'[j] = NoKey /\ disk'[j] = NoKey
      OBVIOUS
    <2>1. j # n /\ j > created
      BY <1>1
    <2> QED
      BY <1>1, <1>2, <1>6, <2>1
  <1>11. KeyTypeOK'
    <2>1. created' \in 0 .. MaxKeys
      BY <1>1
    <2>2. \A j \in Key : store'[j].first <= j /\ store'[j].from < j
      BY <1>1, <1>2
    <2>3. \A j \in Key : created' < j => store'[j] = NoKey /\ disk'[j] = NoKey
      BY <1>1, <1>10
    <2>4. unread' \subseteq 1 .. created'
      BY <1>1
    <2> QED
      BY <1>2, <1>5, <2>1, <2>2, <2>3, <2>4, Zenon DEF KeyTypeOK, Stored, Written
  <1>12. Lag' /\ OnlyAges
    <2> SUFFICES ASSUME NEW j \in Key
                 PROVE  /\ j \in unread => store'[j].status = "none"
                        /\ disk'[j].status = "RETIRED" /\ j \notin unread => store'[j].status \in {"RETIRED", "DESTROYED"}
                        /\ disk'[j].status = "ACTIVE" /\ j \notin unread => store'[j].status # "none"
                        /\ store'[j].status = "RETIRED" => disk'[j].status # "none"
                        /\ disk[j].status = "RETIRED" => disk'[j].status # "ACTIVE"
                        /\ disk[j].status = "none" => disk'[j].status # "RETIRED"
                        /\ j <= created /\ ~Known(j) => disk'[j].status \in {disk[j].status, "none"}
      BY DEF Lag, OnlyAges
    <2>1. CASE j = n
      <3>1. ~(j <= created) /\ disk'[j].status # "RETIRED" /\ store'[j].status = "ACTIVE"
        BY <1>1, <1>2, <1>3, <1>6, <1>8, <2>1
      <3> HIDE DEF n
      <3> QED
        BY <1>3, <2>1, <3>1
    <2>2. CASE j # n
      <3>1. /\ store'[j] = store[j]
            /\ store[j].status \in {"none", "ACTIVE", "RETIRED", "DESTROYED"}
            /\ \/ disk'[j] = disk[j]
               \/ disk'[j].status = "none" /\ store[j].status = "DESTROYED"
               \/ disk'[j] = store[j] /\ store[j].status # "DESTROYED"
        BY <1>1, <1>2, <1>6, <1>8, <2>2 DEF Stored
      <3>2. ~Known(j) => disk'[j].status \in {disk[j].status, "none"}
        BY <3>1 DEF Known
      <3>3. /\ j \in unread => store[j].status = "none"
            /\ disk[j].status = "RETIRED" /\ j \notin unread => store[j].status \in {"RETIRED", "DESTROYED"}
            /\ disk[j].status = "ACTIVE" /\ j \notin unread => store[j].status # "none"
            /\ store[j].status = "RETIRED" => disk[j].status # "none"
        BY DEF KeysInv, Lag
      <3> QED
        BY <3>1, <3>2, <3>3
    <2> QED
      BY <2>1, <2>2
  <1>13. ASSUME NEW j \in 1 .. created
         PROVE  /\ Prepared(store, disk, j) => Prepared(store', disk', j)
                /\ store'[j] = store[j]
                /\ Sound(store, disk, j) => Sound(store', disk', j)
    <2>1. j \in Key /\ j # n /\ store'[j] = store[j]
      BY <1>1, <1>2
    <2>2. Replaced(store, j) => Replaced(store', j)
      BY <1>2, <1>3, <2>1 DEF Replaced
    <2>3. store'[j].status = "ACTIVE" /\ disk[j].status # "none" => disk'[j].status # "none"
      BY <1>6, <1>8, <2>1
    <2>4. HasLineage(store[j]) /\ HasLineage(disk[j]) => HasLineage(disk'[j])
      BY <1>6, <1>8, <2>1 DEF HasLineage
    <2> QED
      BY <2>1, <2>2, <2>3, <2>4 DEF Prepared, Sound
  <1>14. ASSUME k # 0, disk' = Registered(store') PROVE Prepared(store', disk', k)
    <2>1. k \in Key /\ k # n /\ n > k /\ store'[k] = store[k]
      BY <1>1, <1>2, <1>14
    <2>2. Replaced(store', k)
      BY <1>1, <1>2, <1>14, <2>1 DEF Replaced
    <2> QED
      BY <1>7, <1>14, <2>1, <2>2 DEF Prepared
  <1> QED
    BY <1>5, <1>9, <1>11, <1>12, <1>13, <1>14 DEF KeysInv

(* A status may be changed to RETIRED when the key may be retired, and to   *)
(* DESTROYED when it is retired.                                           *)
LEMMA StatusStep ==
    ASSUME RotationTypeOK, KeysInv, NEW k \in Key, NEW st \in {"RETIRED", "DESTROYED"},
           st = "RETIRED" => Prepared(store, disk, k), st = "DESTROYED" => store[k].status = "RETIRED",
           created' = created, store' = WithStatus(k, st),
           disk' = Registered(store') \/ disk' = disk, failures' \in 0 .. MaxFailures,
           unread' = unread
    PROVE  /\ KeysInv' /\ LosesNoLine /\ OnlyAges
           /\ \A j \in Key :
                /\ Prepared(store, disk, j) => Prepared(store', disk', j)
                /\ store'[j].version = store[j].version
                /\ Sound(store, disk, j) => Sound(store', disk', j)
                /\ disk' = Registered(store') /\ store'[j].version >= 2 => Sound(store', disk', j)
  <1>1. /\ store \in Stored /\ disk \in Written /\ created \in Nat /\ MaxKeys \in Nat
        /\ Key = 1 .. MaxKeys
        /\ \A j \in Key : j > created => store[j] = NoKey /\ disk[j] = NoKey
        /\ \A j \in Key : store[j].first <= j /\ store[j].from < j
        /\ unread \subseteq 1 .. created
    BY TypesInUse
  <1>2. /\ store' \in Stored
        /\ \A j \in Key : /\ store'[j].version = store[j].version
                          /\ store'[j].first = store[j].first
                          /\ store'[j].from = store[j].from
                          /\ j # k => store'[j] = store[j]
        /\ Known(k) => store'[k].status = st
        /\ ~Known(k) => store' = store
    BY <1>1, WithStatusProps
  <1>3. NoKey.status = "none" /\ NoKey.version = 1 /\ NoKey.first = 0 /\ NoKey.from = 0
    BY DEF NoKey
  <1>4. \A j \in Key :
                      \/ disk'[j] = disk[j]
                      \/ disk'[j] = NoKey /\ store'[j].status = "DESTROYED"
                      \/ disk'[j] = store'[j] /\ store'[j].status # "DESTROYED"
    BY <1>2, RegisteredProps
  <1>5. disk' = Registered(store') =>
            \A j \in Key : /\ store'[j].status = "DESTROYED" => disk'[j] = NoKey
                           /\ store'[j].status # "DESTROYED" => disk'[j] = store'[j]
    BY <1>2, RegisteredProps
  <1>6. \A j \in Key : store'[j].status = "ACTIVE" => store[j].status = "ACTIVE"
    BY <1>2
  <1>7. \A j \in Key : Replaced(store, j) => Replaced(store', j)
    <2> SUFFICES ASSUME NEW j \in Key, Replaced(store, j) PROVE Replaced(store', j)
      OBVIOUS
    <2>1. PICK w \in Key : w > j /\ store[w].status = "ACTIVE" /\ store[w].first = store[j].first
      BY DEF Replaced
    <2>2. CASE store'[w] = store[w]
      BY <1>2, <2>1, <2>2 DEF Replaced
    <2>3. CASE store'[w] # store[w]
      <3>1. w = k /\ st = "RETIRED"
        BY <1>2, <2>1, <2>3
      <3>2. PICK v \in Key : v > w /\ store[v].status = "ACTIVE" /\ store[v].first = store[w].first
        BY <3>1 DEF Prepared, Replaced
      <3>3. v > j /\ v # k /\ store'[v] = store[v]
        BY <1>1, <1>2, <2>1, <3>1, <3>2
      <3> QED
        BY <1>2, <2>1, <3>2, <3>3 DEF Replaced
    <2> QED
      BY <2>2, <2>3
  <1>8. Lines(store) \subseteq Lines(store')
    <2> SUFFICES ASSUME NEW i \in Key, store[i].status = "ACTIVE"
                 PROVE  store[i].first \in Lines(store')
      BY DEF Lines
    <2>1. CASE store'[i] = store[i]
      BY <2>1 DEF Lines
    <2>2. CASE store'[i] # store[i]
      <3>1. i = k /\ st = "RETIRED"
        BY <1>2, <2>2
      <3>2. Replaced(store', i)
        BY <1>7, <3>1 DEF Prepared
      <3> QED
        BY <1>2, <3>2 DEF Replaced, Lines
    <2> QED
      BY <2>1, <2>2
  <1>9. disk' \in Written /\ Covered' /\ LosesNoLine
    BY <1>1, <1>2, <1>8, Writing DEF KeysInv
  <1>10. Versions'
    <2> SUFFICES ASSUME NEW j \in Key PROVE store'[j].version <= j /\ disk'[j].version <= j /\ disk'[j].first <= j
                                          /\ disk'[j].from < j
      BY DEF Versions
    <2>1. store'[j].version <= j /\ store'[j].first <= j /\ store'[j].from < j
      BY <1>1, <1>2 DEF KeysInv, Versions
    <2> QED
      BY <1>1, <1>3, <1>4, <2>1 DEF KeysInv, Versions
  <1>11. KeyTypeOK'
    <2>1. \A j \in Key : store'[j].first <= j /\ store'[j].from < j
      BY <1>1, <1>2
    <2>2. ASSUME NEW j \in Key, created' < j PROVE store'[j] = NoKey /\ disk'[j] = NoKey
      <3>1. store[j] = NoKey /\ disk[j] = NoKey
        BY <1>1, <2>2
      <3>2. store'[j] = store[j]
        BY <1>2, <1>3, <3>1 DEF Known
      <3> QED
        BY <1>4, <3>1, <3>2
    <2>3. created' \in 0 .. MaxKeys
      BY DEF KeysInv, KeyTypeOK
    <2>4. unread' \subseteq 1 .. created'
      BY <1>1
    <2> QED
      BY <1>2, <1>9, <2>1, <2>2, <2>3, <2>4, Zenon DEF KeyTypeOK, Stored, Written
  <1>12. Lag' /\ OnlyAges
    <2> SUFFICES ASSUME NEW j \in Key
                 PROVE  /\ j \in unread => store'[j].status = "none"
                        /\ disk'[j].status = "RETIRED" /\ j \notin unread => store'[j].status \in {"RETIRED", "DESTROYED"}
                        /\ disk'[j].status = "ACTIVE" /\ j \notin unread => store'[j].status # "none"
                        /\ store'[j].status = "RETIRED" => disk'[j].status # "none"
                        /\ disk[j].status = "RETIRED" => disk'[j].status # "ACTIVE"
                        /\ disk[j].status = "none" => disk'[j].status # "RETIRED"
                        /\ j <= created /\ ~Known(j) => disk'[j].status \in {disk[j].status, "none"}
      BY DEF Lag, OnlyAges
    <2>1. /\ j \in unread => store[j].status = "none"
          /\ disk[j].status = "RETIRED" /\ j \notin unread => store[j].status \in {"RETIRED", "DESTROYED"}
          /\ disk[j].status = "ACTIVE" /\ j \notin unread => store[j].status # "none"
          /\ store[j].status = "RETIRED" => disk[j].status # "none"
      BY DEF KeysInv, Lag
    <2>2. CASE j = k /\ Known(k)
      <3>1. store[k].status \in {"ACTIVE", "RETIRED"} /\ store'[k].status = st
        BY <1>2, <2>2 DEF Known
      <3>2. disk[k].status # "none"
        BY <2>1, <2>2, <3>1 DEF Prepared
      <3> QED
        BY <1>3, <1>4, <2>1, <2>2, <3>1, <3>2
    <2>3. CASE store'[j] = store[j]
      <3>1. /\ store[j].status \in {"none", "ACTIVE", "RETIRED", "DESTROYED"}
            /\ \/ disk'[j] = disk[j]
               \/ disk'[j].status = "none" /\ store[j].status = "DESTROYED"
               \/ disk'[j] = store[j] /\ store[j].status # "DESTROYED"
        BY <1>1, <1>3, <1>4, <2>3 DEF Stored
      <3>2. ~Known(j) => disk'[j].status \in {disk[j].status, "none"}
        BY <3>1 DEF Known
      <3> QED
        BY <2>1, <2>3, <3>1, <3>2
    <2> QED
      BY <1>2, <2>2, <2>3
  <1>13. ASSUME NEW j \in Key
         PROVE  /\ Prepared(store, disk, j) => Prepared(store', disk', j)
                /\ Sound(store, disk, j) => Sound(store', disk', j)
                /\ disk' = Registered(store') /\ store'[j].version >= 2 => Sound(store', disk', j)
    <2>1. store'[j].status = "ACTIVE" /\ disk[j].status # "none" => disk'[j].status # "none"
      BY <1>3, <1>4
    <2>2. Prepared(store, disk, j) => Prepared(store', disk', j)
      BY <1>6, <1>7, <2>1 DEF Prepared
    <2>3. HasLineage(store[j]) => HasLineage(store'[j])
      BY <1>2, <1>3 DEF HasLineage, Known
    <2>4. HasLineage(store'[j]) /\ HasLineage(disk[j]) => HasLineage(disk'[j])
      BY <1>3, <1>4 DEF HasLineage
    <2>5. disk' = Registered(store') /\ store'[j].version >= 2 => HasLineage(store'[j]) /\ HasLineage(disk'[j])
      BY <1>3, <1>5 DEF HasLineage
    <2> QED
      BY <2>2, <2>3, <2>4, <2>5 DEF Sound
  <1> QED
    BY <1>2, <1>9, <1>10, <1>11, <1>12, <1>13 DEF KeysInv

(* A new version disturbs nothing else.                                    *)
LEMMA VersionStep ==
    ASSUME RotationTypeOK, KeysInv, NEW k \in 1 .. created, NEW n \in 1 .. created, k < n,
           store' = [store EXCEPT ![n] = [@ EXCEPT !.version = store[k].version + 1, !.from = k]],
           UNCHANGED <<disk, unread, created, failures>>
    PROVE  /\ KeysInv' /\ LosesNoLine /\ OnlyAges
           /\ store'[n].version >= 2
           /\ \A j \in Key :
                /\ Prepared(store, disk, j) => Prepared(store', disk', j)
                /\ store[j].version >= 2 => store'[j].version >= 2
                /\ Sound(store, disk, j) => Sound(store', disk', j)
  <1>1. /\ store \in Stored /\ disk \in Written /\ created \in 0 .. MaxKeys /\ MaxKeys \in Nat
        /\ Key = 1 .. MaxKeys /\ n \in Key /\ k \in Key
        /\ \A j \in Key : j > created => store[j] = NoKey /\ disk[j] = NoKey
        /\ \A j \in Key : store[j].first <= j /\ store[j].from < j
        /\ unread \subseteq 1 .. created
    BY TypesInUse
  <1> DEFINE v == store[k].version + 1
             t == [store[n] EXCEPT !.version = v, !.from = k]
  <1>2. store[k].version \in 1 .. MaxKeys /\ store[k].version <= k
    BY <1>1 DEF Stored, KeysInv, Versions
  <1>3. v \in 1 .. MaxKeys /\ v >= 2 /\ v <= n
    BY <1>1, <1>2
  <1>4. store' = [store EXCEPT ![n] = t]
    OBVIOUS
  <1>5. /\ t \in [status : {"none", "ACTIVE", "RETIRED", "DESTROYED"},
                  version : 1 .. MaxKeys, from : 0 .. MaxKeys, first : 0 .. MaxKeys]
        /\ t.version = v /\ t.status = store[n].status /\ t.first = store[n].first
        /\ t.from = k
    <2>1. store[n] \in [status : {"none", "ACTIVE", "RETIRED", "DESTROYED"},
                        version : 1 .. MaxKeys, from : 0 .. MaxKeys, first : 0 .. MaxKeys]
      BY <1>1 DEF Stored
    <2>2. k \in 0 .. MaxKeys
      BY <1>1
    <2> HIDE DEF v
    <2> QED
      BY <1>3, <2>1, <2>2
  <1> HIDE DEF t, v
  <1>6. /\ store' \in Stored
        /\ store'[n].version = v /\ store'[n].from = k
        /\ \A j \in Key : /\ store'[j].status = store[j].status
                          /\ store'[j].first = store[j].first
                          /\ j # n => store'[j] = store[j]
    <2>1. store'[n] = t /\ \A j \in Key : j # n => store'[j] = store[j]
      BY <1>1, <1>4, Zenon DEF Stored
    <2>2. store' \in Stored
      BY <1>1, <1>4, <1>5, Zenon DEF Stored
    <2> QED
      BY <1>5, <2>1, <2>2, Zenon
  <1>7. Versions'
    BY <1>1, <1>3, <1>6 DEF KeysInv, Versions
  <1>8. KeyTypeOK'
    <2>1. \A j \in Key : created' < j => store'[j] = NoKey /\ disk'[j] = NoKey
      BY <1>1, <1>6
    <2>2. \A j \in Key : store'[j].first <= j /\ store'[j].from < j
      BY <1>1, <1>6
    <2>3. failures' \in 0 .. MaxFailures
      BY DEF KeysInv, KeyTypeOK
    <2> QED
      BY <1>1, <1>6, <2>1, <2>2, <2>3, Zenon DEF KeyTypeOK, Stored, Written
  <1>9. Lag' /\ OnlyAges
    BY <1>6 DEF KeysInv, Lag, OnlyAges
  <1>10. Lines(store') = Lines(store) /\ Lines(disk') = Lines(disk) /\ LinesOf(unread)' = LinesOf(unread)
    BY <1>6 DEF Lines, LinesOf
  <1>11. \A j \in Key : Prepared(store, disk, j) => Prepared(store', disk', j)
    BY <1>6 DEF Prepared, Replaced
  <1>12. \A j \in Key : store[j].version >= 2 => store'[j].version >= 2
    BY <1>3, <1>6
  <1>13. \A j \in Key : Sound(store, disk, j) => Sound(store', disk', j)
    BY <1>6, <1>12 DEF Sound, HasLineage
  <1> QED
    BY <1>3, <1>6, <1>7, <1>8, <1>9, <1>10, <1>11, <1>12, <1>13 DEF KeysInv, Covered, LosesNoLine
--------------------------------------------------------------------------------
(* The types, part by part.                                                *)
InOrder ==
    \A a \in Actors : Replacing(a) =>
        rotation[a].key < rotation[a].new /\ rotation[a].new <= created
Others ==
    /\ tick \in [stage : {"wait", "scheduled", "expired"}, todo : SUBSET Key, now : SUBSET Key]
    /\ scheduled \in [Key -> {"no", "later", "due"}] /\ expired \subseteq 1 .. created
    /\ completed \subseteq Key \X Key /\ hasty \subseteq Key /\ crashes \in 0 .. MaxCrashes

LEMMA TypeParts == RotationTypeOK <=> KeyTypeOK /\ rotation \in Turns /\ InOrder /\ Others
  BY Zenon DEF RotationTypeOK, Turns, Turn, Calls, InOrder, Others, Replacing

LEMMA TypePartsNext == RotationTypeOK' <=> KeyTypeOK' /\ (rotation \in Turns)' /\ InOrder' /\ Others'
  BY Zenon DEF RotationTypeOK, Turns, Turn, Calls, InOrder, Others, Replacing

(* Steps that leave the keys alone: a rotation that starts keeps the        *)
(* invariant if it starts on a key that was made.                          *)
LEMMA KeysUntouched ==
    ASSUME RotationInv, UNCHANGED <<keyVars, completed>>, rotation' \in Turns, Others',
           \A a \in Actors : \/ rotation'[a] = rotation[a]
                             \/ rotation'[a].pc \in {"idle", "end"}
                             \/ rotation'[a].pc = "create" /\ rotation'[a].key \in 1 .. created
    PROVE  RotationInv' /\ LosesNoLine /\ OnlyAges
  <1>1. UNCHANGED <<store, disk, unread, created, failures, completed>>
    BY DEF keyVars
  <1>2. KeysInv'
    <2>1. KeyTypeOK'
      BY <1>1, Zenon DEF RotationInv, KeysInv, KeyTypeOK
    <2>2. Versions' /\ Lag'
      BY <1>1 DEF RotationInv, KeysInv, Versions, Lag
    <2>3. Covered'
      BY <1>1 DEF RotationInv, KeysInv, Covered, Lines, LinesOf
    <2> QED
      BY <2>1, <2>2, <2>3 DEF KeysInv
  <1>3. InOrder'
    BY <1>1, TypeParts DEF RotationInv, InOrder, Replacing
  <1>4. RotationTypeOK'
    BY <1>2, <1>3, TypePartsNext DEF KeysInv
  <1>5. \A k : /\ Prepared(store', disk', k) <=> Prepared(store, disk, k)
               /\ Sound(store', disk', k) <=> Sound(store, disk, k)
    BY <1>1 DEF Prepared, Replaced, Sound, HasLineage
  <1>6. ASSUME NEW a \in Actors
        PROVE  /\ rotation'[a].pc \in {"create", "bump", "retire"} => rotation'[a].key \in 1 .. created
               /\ Replacing(a)' => Prepared(store', disk', rotation'[a].key)
               /\ rotation'[a].pc = "retire" => store[rotation'[a].new].version >= 2
    <2>1. /\ rotation[a].pc \in {"create", "bump", "retire"} => rotation[a].key \in 1 .. created
          /\ Replacing(a) => Prepared(store, disk, rotation[a].key)
          /\ rotation[a].pc = "retire" => store[rotation[a].new].version >= 2
      BY DEF RotationInv, Rotations
    <2>2. CASE rotation'[a] = rotation[a]
      BY <1>5, <2>1, <2>2 DEF Replacing
    <2>3. CASE rotation'[a].pc \in {"idle", "end"}
      BY <2>3 DEF Replacing
    <2>4. CASE rotation'[a].pc = "create" /\ rotation'[a].key \in 1 .. created
      BY <2>4 DEF Replacing
    <2> QED
      BY <2>2, <2>3, <2>4
  <1>7. \A r \in completed : r[2] <= created /\ Sound(store', disk', r[2])
    BY <1>5 DEF RotationInv, Rotations
  <1>8. Rotations'
    BY <1>1, <1>6, <1>7 DEF Rotations
  <1>9. LosesNoLine /\ OnlyAges
    BY <1>1 DEF LosesNoLine, OnlyAges, Lines, Known
  <1> QED
    BY <1>2, <1>4, <1>8, <1>9 DEF RotationInv

(* A key is made for a rotation, or the rotation ends.                     *)
LEMMA CreateStep ==
    ASSUME RotationInv, NEW a \in Actors, Create(a)
    PROVE  RotationInv' /\ LosesNoLine /\ OnlyAges
  <1>1. /\ rotation \in Turns /\ created \in 0 .. MaxKeys /\ MaxKeys \in Nat /\ Key = 1 .. MaxKeys
        /\ rotation[a].key \in 1 .. created /\ InOrder /\ Others /\ KeysInv /\ RotationTypeOK
    BY TypesInUse, TypeParts DEF RotationInv, Rotations, Create
  <1>2. ASSUME created < MaxKeys, created' = created + 1, store' = WithNew(rotation[a].key),
               disk' = Registered(store') \/ disk' = disk, failures' \in 0 .. MaxFailures,
               unread' = unread,
               \/ /\ disk' = Registered(store')
                  /\ At(a, "bump", rotation[a].key, created + 1)
               \/ Ends(a)
        PROVE  RotationInv' /\ LosesNoLine /\ OnlyAges
    <2>1. /\ KeysInv' /\ LosesNoLine /\ OnlyAges
          /\ \A j \in 1 .. created :
               /\ Prepared(store, disk, j) => Prepared(store', disk', j)
               /\ store'[j] = store[j]
               /\ Sound(store, disk, j) => Sound(store', disk', j)
          /\ disk' = Registered(store') => Prepared(store', disk', rotation[a].key)
      <3>1. rotation[a].key \in 0 .. created /\ rotation[a].key # 0
        BY <1>1
      <3> QED
        BY <1>1, <1>2, <3>1, NewStep
    <2>2. /\ rotation' \in Turns
          /\ \A b \in Actors : b # a => rotation'[b] = rotation[b]
          /\ \/ rotation'[a].pc \in {"idle", "end"}
             \/ /\ disk' = Registered(store') /\ rotation'[a].pc = "bump"
                /\ rotation'[a].key = rotation[a].key /\ rotation'[a].new = created + 1
      <3>1. CASE Ends(a)
        BY <1>1, <3>1, EndsProps
      <3>2. CASE disk' = Registered(store') /\ At(a, "bump", rotation[a].key, created + 1)
        <4>1. "bump" \in Calls /\ rotation[a].key \in 0 .. MaxKeys /\ created + 1 \in 0 .. MaxKeys
          BY <1>1, <1>2 DEF Calls
        <4> QED
          BY <1>1, <3>2, <4>1, AtProps
      <3> QED
        BY <1>2, <3>1, <3>2
    <2>3. InOrder'
      <3> SUFFICES ASSUME NEW b \in Actors, rotation'[b].pc \in {"bump", "retire"}
                   PROVE  rotation'[b].key < rotation'[b].new /\ rotation'[b].new <= created'
        BY DEF InOrder, Replacing
      <3>1. CASE b = a
        BY <1>1, <1>2, <2>2, <3>1
      <3>2. CASE b # a
        <4>1. rotation[b].key < rotation[b].new /\ rotation[b].new <= created
          BY <1>1, <2>2, <3>2 DEF InOrder, Replacing
        <4>2. rotation[b].new \in Nat
          BY <1>1 DEF Turns, Turn
        <4> QED
          BY <1>1, <1>2, <2>2, <3>2, <4>1, <4>2
      <3> QED
        BY <3>1, <3>2
    <2>4. Others'
      BY <1>1, <1>2 DEF Others, Create
    <2>5. RotationTypeOK'
      BY <2>1, <2>2, <2>3, <2>4, TypePartsNext DEF KeysInv
    <2>6. ASSUME NEW b \in Actors
          PROVE  /\ rotation'[b].pc \in {"create", "bump", "retire"} => rotation'[b].key \in 1 .. created'
                 /\ Replacing(b)' => Prepared(store', disk', rotation'[b].key)
                 /\ rotation'[b].pc = "retire" => store'[rotation'[b].new].version >= 2
      <3>1. CASE b = a
        BY <1>1, <1>2, <2>1, <2>2, <3>1 DEF Replacing
      <3>2. CASE b # a
        <4>1. rotation'[b] = rotation[b]
          BY <2>2, <3>2
        <4>2. /\ rotation[b].pc \in {"create", "bump", "retire"} => rotation[b].key \in 1 .. created
              /\ Replacing(b) => Prepared(store, disk, rotation[b].key)
              /\ rotation[b].pc = "retire" => store[rotation[b].new].version >= 2
          BY DEF RotationInv, Rotations
        <4>3. Replacing(b) => rotation[b].key \in 1 .. created /\ rotation[b].new \in 1 .. created
          <5>1. rotation[b].new \in 0 .. MaxKeys
            BY <1>1 DEF Turns, Turn
          <5> QED
            BY <1>1, <4>2, <5>1 DEF InOrder, Replacing
        <4>4. Replacing(b)' => Prepared(store', disk', rotation'[b].key)
          BY <2>1, <4>1, <4>2, <4>3 DEF Replacing
        <4>5. rotation'[b].pc = "retire" => store'[rotation'[b].new].version >= 2
          BY <2>1, <4>1, <4>2, <4>3 DEF Replacing
        <4> QED
          BY <1>1, <1>2, <4>1, <4>2, <4>4, <4>5
      <3> QED
        BY <3>1, <3>2
    <2>7. \A r \in completed' : r[2] <= created' /\ Sound(store', disk', r[2])
      <3> SUFFICES ASSUME NEW r \in completed' PROVE r[2] <= created' /\ Sound(store', disk', r[2])
        OBVIOUS
      <3>1. r \in completed /\ r[2] \in Key
        BY <1>1 DEF Create, Others
      <3>2. r[2] <= created /\ Sound(store, disk, r[2]) /\ r[2] \in 1 .. created
        BY <1>1, <3>1 DEF RotationInv, Rotations
      <3> QED
        BY <1>1, <1>2, <2>1, <3>2
    <2>8. Rotations'
      BY <2>6, <2>7 DEF Rotations
    <2> QED
      BY <2>1, <2>5, <2>8 DEF RotationInv
  <1>3. CASE created = MaxKeys /\ Ends(a) /\ UNCHANGED keyVars
    <2>1. /\ rotation' \in Turns
          /\ rotation'[a].pc \in {"idle", "end"}
          /\ \A b \in Actors : b # a => rotation'[b] = rotation[b]
      BY <1>1, <1>3, EndsProps
    <2>2. Others'
      BY <1>1, <1>3 DEF Others, Create, keyVars
    <2> QED
      BY <1>3, <2>1, <2>2, KeysUntouched DEF Create
  <1>4. CASE created < MaxKeys /\ created' = created + 1
              /\ Persist(WithNew(rotation[a].key)) /\ At(a, "bump", rotation[a].key, created + 1)
    BY <1>1, <1>2, <1>4 DEF Persist, KeysInv, KeyTypeOK
  <1>5. CASE created < MaxKeys /\ created' = created + 1
              /\ PersistFails(WithNew(rotation[a].key)) /\ Ends(a)
    <2>1. failures' \in 0 .. MaxFailures
      BY <1>1, <1>5, KeyAssumption DEF PersistFails, Fails, KeysInv, KeyTypeOK
    <2> QED
      BY <1>1, <1>2, <1>5, <2>1 DEF PersistFails, Fails
  <1> QED
    BY <1>3, <1>4, <1>5 DEF Create

(* What a rotation keeps when the keys change under it, but no key is made. *)
LEMMA RotationsKept ==
    ASSUME RotationInv, UNCHANGED created, rotation' \in Turns, Others', KeysInv',
           \A j \in Key : /\ Prepared(store, disk, j) => Prepared(store', disk', j)
                          /\ store[j].version >= 2 => store'[j].version >= 2
                          /\ Sound(store, disk, j) => Sound(store', disk', j),
           \A a \in Actors :
              \/ rotation'[a] = rotation[a]
              \/ rotation'[a].pc \in {"idle", "end"}
              \/ /\ rotation[a].pc = "bump" /\ rotation'[a].pc = "retire"
                 /\ rotation'[a].key = rotation[a].key /\ rotation'[a].new = rotation[a].new
                 /\ store'[rotation[a].new].version >= 2,
           \A r \in completed' : r \in completed \/ (r[2] <= created /\ Sound(store', disk', r[2]))
    PROVE  RotationInv'
  <1>1. /\ rotation \in Turns /\ created \in 0 .. MaxKeys /\ MaxKeys \in Nat /\ Key = 1 .. MaxKeys
        /\ InOrder /\ Others
    BY TypesInUse, TypeParts DEF RotationInv
  <1>2. InOrder'
    BY <1>1 DEF InOrder, Replacing
  <1>3. RotationTypeOK'
    BY <1>2, TypePartsNext DEF KeysInv
  <1>4. ASSUME NEW a \in Actors
        PROVE  /\ rotation'[a].pc \in {"create", "bump", "retire"} => rotation'[a].key \in 1 .. created
               /\ Replacing(a)' => Prepared(store', disk', rotation'[a].key)
               /\ rotation'[a].pc = "retire" => store'[rotation'[a].new].version >= 2
    <2>1. /\ rotation[a].pc \in {"create", "bump", "retire"} => rotation[a].key \in 1 .. created
          /\ Replacing(a) => Prepared(store, disk, rotation[a].key)
          /\ rotation[a].pc = "retire" => store[rotation[a].new].version >= 2
      BY DEF RotationInv, Rotations
    <2>2. Replacing(a) => rotation[a].key \in Key /\ rotation[a].new \in Key
      <3>1. rotation[a].new \in 0 .. MaxKeys
        BY <1>1 DEF Turns, Turn
      <3> QED
        BY <1>1, <2>1, <3>1 DEF InOrder, Replacing
    <2>3. CASE rotation'[a] = rotation[a]
      BY <2>1, <2>2, <2>3 DEF Replacing
    <2>4. CASE rotation'[a].pc \in {"idle", "end"}
      BY <2>4 DEF Replacing
    <2>5. CASE /\ rotation[a].pc = "bump" /\ rotation'[a].pc = "retire"
               /\ rotation'[a].key = rotation[a].key /\ rotation'[a].new = rotation[a].new
               /\ store'[rotation[a].new].version >= 2
      BY <2>1, <2>2, <2>5 DEF Replacing
    <2> QED
      BY <2>3, <2>4, <2>5
  <1>5. ASSUME NEW r \in completed' PROVE r[2] <= created' /\ Sound(store', disk', r[2])
    <2>1. CASE r \in completed
      <3>1. r[2] \in Key
        BY <1>1, <2>1 DEF Others
      <3>2. r[2] <= created /\ Sound(store, disk, r[2])
        BY <2>1 DEF RotationInv, Rotations
      <3> QED
        BY <3>1, <3>2
    <2> QED
      BY <1>5, <2>1
  <1>6. Rotations'
    BY <1>4, <1>5 DEF Rotations
  <1> QED
    BY <1>3, <1>6 DEF RotationInv

(* The version is set, or the rotation finds its new key gone.             *)
LEMMA BumpStep ==
    ASSUME RotationInv, NEW a \in Actors, Bump(a)
    PROVE  RotationInv' /\ LosesNoLine /\ OnlyAges
  <1> DEFINE k == rotation[a].key
             n == rotation[a].new
  <1>1. /\ rotation \in Turns /\ created \in 0 .. MaxKeys /\ MaxKeys \in Nat /\ Key = 1 .. MaxKeys
        /\ InOrder /\ Others /\ KeysInv /\ RotationTypeOK
    BY TypesInUse, TypeParts DEF RotationInv
  <1>2. k \in 1 .. created /\ n \in 1 .. created /\ k < n /\ rotation[a].pc = "bump"
        /\ k \in 0 .. MaxKeys /\ n \in 0 .. MaxKeys
    <2>1. k \in 1 .. created /\ k < n /\ n <= created /\ rotation[a].pc = "bump"
      BY <1>1 DEF RotationInv, Rotations, InOrder, Replacing, Bump
    <2>2. n \in 0 .. MaxKeys
      BY <1>1 DEF Turns, Turn
    <2> QED
      BY <1>1, <2>1, <2>2
  <1>3. UNCHANGED <<disk, unread, created, failures, completed>> /\ Others'
    BY <1>1, <1>2 DEF Bump, Others
  <1> HIDE DEF k, n
  <1>4. CASE store' = [store EXCEPT ![n] = [@ EXCEPT !.version = store[k].version + 1, !.from = k]] /\ At(a, "retire", k, n)
    <2>1. /\ KeysInv' /\ LosesNoLine /\ OnlyAges
          /\ store'[n].version >= 2
          /\ \A j \in Key :
               /\ Prepared(store, disk, j) => Prepared(store', disk', j)
               /\ store[j].version >= 2 => store'[j].version >= 2
               /\ Sound(store, disk, j) => Sound(store', disk', j)
      BY <1>1, <1>2, <1>3, <1>4, VersionStep
    <2>2. "retire" \in Calls
      BY DEF Calls
    <2>3. /\ rotation' \in Turns
          /\ rotation'[a].pc = "retire" /\ rotation'[a].key = k /\ rotation'[a].new = n
          /\ \A b \in Actors : b # a => rotation'[b] = rotation[b]
      BY <1>1, <1>2, <1>4, <2>2, AtProps
    <2>4. \A b \in Actors :
              \/ rotation'[b] = rotation[b]
              \/ /\ rotation[b].pc = "bump" /\ rotation'[b].pc = "retire"
                 /\ rotation'[b].key = rotation[b].key /\ rotation'[b].new = rotation[b].new
                 /\ store'[rotation[b].new].version >= 2
      BY <1>2, <2>1, <2>3 DEF k, n
    <2> QED
      BY <1>3, <2>1, <2>3, <2>4, RotationsKept
  <1>5. CASE Ends(a) /\ UNCHANGED store
    <2>1. /\ rotation' \in Turns /\ rotation'[a].pc \in {"idle", "end"}
          /\ \A b \in Actors : b # a => rotation'[b] = rotation[b]
      BY <1>1, <1>5, EndsProps
    <2>2. UNCHANGED <<keyVars, completed>>
      BY <1>3, <1>5 DEF keyVars
    <2> QED
      BY <1>3, <2>1, <2>2, KeysUntouched
  <1> QED
    BY <1>4, <1>5 DEF Bump, k, n

(* The old key is retired, or found gone.                                  *)
LEMMA RetireStep ==
    ASSUME RotationInv, NEW a \in Actors, Retire(a)
    PROVE  RotationInv' /\ LosesNoLine /\ OnlyAges
  <1> DEFINE k == rotation[a].key
             n == rotation[a].new
  <1>1. /\ rotation \in Turns /\ created \in 0 .. MaxKeys /\ MaxKeys \in Nat /\ Key = 1 .. MaxKeys
        /\ InOrder /\ Others /\ KeysInv /\ RotationTypeOK
    BY TypesInUse, TypeParts DEF RotationInv
  <1>2. /\ k \in Key /\ n \in Key /\ n <= created
        /\ Prepared(store, disk, k) /\ store[n].version >= 2
    <2>1. k \in 1 .. created /\ k < n /\ n <= created /\ Prepared(store, disk, k) /\ store[n].version >= 2
      BY <1>1 DEF RotationInv, Rotations, InOrder, Replacing, Retire
    <2>2. n \in 0 .. MaxKeys
      BY <1>1 DEF Turns, Turn
    <2> QED
      BY <1>1, <2>1, <2>2
  <1>3. /\ rotation' \in Turns /\ rotation'[a].pc \in {"idle", "end"}
        /\ \A b \in Actors : b # a => rotation'[b] = rotation[b]
    BY <1>1, EndsProps DEF Retire
  <1> HIDE DEF k, n
  <1>4. CASE UNCHANGED <<keyVars, completed>>
    <2>1. Others'
      BY <1>1, <1>4 DEF Retire, Others, keyVars
    <2> QED
      BY <1>3, <1>4, <2>1, KeysUntouched
  <1>5. CASE /\ created' = created /\ store' = WithStatus(k, "RETIRED")
             /\ failures' \in 0 .. MaxFailures /\ unread' = unread
             /\ \/ (disk' = disk \/ disk' = Registered(store')) /\ completed' = completed
                \/ disk' = Registered(store') /\ completed' = completed \cup {<<k, n>>}
    <2>1. /\ KeysInv' /\ LosesNoLine /\ OnlyAges
          /\ \A j \in Key :
               /\ Prepared(store, disk, j) => Prepared(store', disk', j)
               /\ store'[j].version = store[j].version
               /\ Sound(store, disk, j) => Sound(store', disk', j)
               /\ disk' = Registered(store') /\ store'[j].version >= 2 => Sound(store', disk', j)
      BY <1>1, <1>2, <1>5, StatusStep
    <2>2. Others'
      BY <1>1, <1>2, <1>5 DEF Retire, Others
    <2>3. ASSUME NEW r \in completed'
          PROVE  r \in completed \/ (r[2] <= created /\ Sound(store', disk', r[2]))
      <3>1. CASE r \in completed
        BY <3>1
      <3>2. CASE r = <<k, n>> /\ disk' = Registered(store')
        BY <1>2, <2>1, <3>2
      <3> QED
        BY <1>5, <3>1, <3>2
    <2>4. RotationInv'
      BY <1>3, <1>5, <2>1, <2>2, <2>3, RotationsKept
    <2> QED
      BY <2>1, <2>4
  <1>6. Persist(WithStatus(k, "RETIRED")) => failures' \in 0 .. MaxFailures
    BY <1>1 DEF Persist, KeysInv, KeyTypeOK
  <1>7. PersistFails(WithStatus(k, "RETIRED")) => failures' \in 0 .. MaxFailures
    BY <1>1, KeyAssumption DEF PersistFails, Fails, KeysInv, KeyTypeOK
  <1> QED
    BY <1>4, <1>5, <1>6, <1>7 DEF Retire, Persist, PersistFails, Fails, k, n

(* A key of a new line is made.                                            *)
LEMMA NewKeyStep ==
    ASSUME RotationInv, NewKey
    PROVE  RotationInv' /\ LosesNoLine /\ OnlyAges
  <1>1. /\ rotation \in Turns /\ created \in 0 .. MaxKeys /\ MaxKeys \in Nat /\ Key = 1 .. MaxKeys
        /\ InOrder /\ Others /\ KeysInv /\ RotationTypeOK
    BY TypesInUse, TypeParts DEF RotationInv
  <1>2. /\ created < MaxKeys /\ created' = created + 1 /\ store' = WithNew(0)
        /\ disk' = Registered(store') \/ disk' = disk
        /\ failures' \in 0 .. MaxFailures /\ unread' = unread
    <2>1. Persist(WithNew(0)) => failures' \in 0 .. MaxFailures
      BY <1>1 DEF Persist, KeysInv, KeyTypeOK
    <2>2. PersistFails(WithNew(0)) => failures' \in 0 .. MaxFailures
      BY <1>1, KeyAssumption DEF PersistFails, Fails, KeysInv, KeyTypeOK
    <2> QED
      BY <1>1, <2>1, <2>2, RotationAssumption DEF NewKey, Persist, PersistFails, Fails
  <1>3. /\ KeysInv' /\ LosesNoLine /\ OnlyAges
        /\ \A j \in 1 .. created :
             /\ Prepared(store, disk, j) => Prepared(store', disk', j)
             /\ store'[j] = store[j]
             /\ Sound(store, disk, j) => Sound(store', disk', j)
    <2>1. 0 \in 0 .. created
      BY <1>1
    <2> QED
      BY <1>1, <1>2, <2>1, NewStep
  <1>4. rotation' = rotation /\ completed' = completed
    BY DEF NewKey
  <1>5. InOrder' /\ Others'
    <2>1. Others'
      BY <1>1, <1>2 DEF Others, NewKey
    <2>2. ASSUME NEW b \in Actors, Replacing(b)
          PROVE  rotation[b].key < rotation[b].new /\ rotation[b].new <= created + 1
      <3>1. rotation[b].new \in 0 .. MaxKeys
        BY <1>1 DEF Turns, Turn
      <3> QED
        BY <1>1, <2>2, <3>1 DEF InOrder
    <2> QED
      BY <1>2, <1>4, <2>1, <2>2 DEF InOrder, Replacing
  <1>6. RotationTypeOK'
    BY <1>1, <1>3, <1>4, <1>5, TypePartsNext DEF KeysInv
  <1>7. ASSUME NEW b \in Actors
        PROVE  /\ rotation[b].pc \in {"create", "bump", "retire"} => rotation[b].key \in 1 .. created + 1
               /\ Replacing(b) => Prepared(store', disk', rotation[b].key)
               /\ rotation[b].pc = "retire" => store'[rotation[b].new].version >= 2
    <2>1. /\ rotation[b].pc \in {"create", "bump", "retire"} => rotation[b].key \in 1 .. created
          /\ Replacing(b) => Prepared(store, disk, rotation[b].key)
          /\ rotation[b].pc = "retire" => store[rotation[b].new].version >= 2
      BY DEF RotationInv, Rotations
    <2>2. Replacing(b) => rotation[b].key \in 1 .. created /\ rotation[b].new \in 1 .. created
      <3>1. rotation[b].new \in 0 .. MaxKeys
        BY <1>1 DEF Turns, Turn
      <3> QED
        BY <1>1, <2>1, <3>1 DEF InOrder, Replacing
    <2> QED
      BY <1>1, <1>3, <2>1, <2>2 DEF Replacing
  <1>8. ASSUME NEW r \in completed PROVE r[2] <= created + 1 /\ Sound(store', disk', r[2])
    <2>1. r[2] \in Key /\ r[2] <= created /\ Sound(store, disk, r[2])
      BY <1>1 DEF RotationInv, Rotations, Others
    <2> QED
      BY <1>1, <1>3, <2>1
  <1>9. Rotations'
    BY <1>2, <1>4, <1>7, <1>8 DEF Rotations, Replacing
  <1> QED
    BY <1>3, <1>6, <1>9 DEF RotationInv

(* A retired key is destroyed.                                             *)
LEMMA RetireKeyStep ==
    ASSUME RotationInv, NEW k \in Key, RetireKey(k)
    PROVE  RotationInv' /\ LosesNoLine /\ OnlyAges
  <1>1. /\ rotation \in Turns /\ created \in 0 .. MaxKeys /\ MaxKeys \in Nat /\ Key = 1 .. MaxKeys
        /\ InOrder /\ Others /\ KeysInv /\ RotationTypeOK
    BY TypesInUse, TypeParts DEF RotationInv
  <1>2. /\ created' = created /\ store' = WithStatus(k, "DESTROYED")
        /\ disk' = Registered(store') \/ disk' = disk
        /\ failures' \in 0 .. MaxFailures /\ unread' = unread
    <2>1. Persist(WithStatus(k, "DESTROYED")) => failures' \in 0 .. MaxFailures
      BY <1>1 DEF Persist, KeysInv, KeyTypeOK
    <2>2. PersistFails(WithStatus(k, "DESTROYED")) => failures' \in 0 .. MaxFailures
      BY <1>1, KeyAssumption DEF PersistFails, Fails, KeysInv, KeyTypeOK
    <2> QED
      BY <2>1, <2>2 DEF RetireKey, Persist, PersistFails, Fails
  <1>3. /\ KeysInv' /\ LosesNoLine /\ OnlyAges
        /\ \A j \in Key :
             /\ Prepared(store, disk, j) => Prepared(store', disk', j)
             /\ store'[j].version = store[j].version
             /\ Sound(store, disk, j) => Sound(store', disk', j)
    BY <1>1, <1>2, StatusStep DEF RetireKey
  <1>4. /\ rotation' \in Turns /\ completed' = completed /\ Others'
        /\ \A a \in Actors : rotation'[a] = rotation[a]
    BY <1>1 DEF RetireKey, Others
  <1>5. RotationInv'
    BY <1>2, <1>3, <1>4, RotationsKept
  <1> QED
    BY <1>3, <1>5

(* The next process knows what the file says, but for the keys that a       *)
(* failed load leaves out.                                                 *)
LEMMA CrashStep ==
    ASSUME RotationInv, Crash
    PROVE  /\ RotationInv' /\ crashes' # crashes /\ UNCHANGED <<disk, completed, hasty>>
           /\ \A k \in Key : store'[k] = disk[k] \/ store'[k] = NoKey
           /\ \A a \in Actors : rotation'[a].pc = "idle"
  <1>1. /\ rotation \in Turns /\ store \in Stored /\ disk \in Written
        /\ created \in 0 .. MaxKeys /\ MaxKeys \in Nat /\ Key = 1 .. MaxKeys
        /\ \A k \in Key : k > created => disk[k] = NoKey
        /\ \A k \in Key : disk[k].status # "none" => k <= created
        /\ InOrder /\ Others /\ KeysInv /\ RotationTypeOK
    BY TypesInUse, TypeParts DEF RotationInv
  <1>2. /\ UNCHANGED <<disk, created, completed, hasty>> /\ failures' \in 0 .. MaxFailures
        /\ store' \in [Key -> {disk[k] : k \in Key} \cup {NoKey}]
        /\ unread' \subseteq 1 .. created
        /\ \A k \in Key : /\ k \notin unread' /\ disk[k].status # "none" => store'[k] = disk[k]
                          /\ k \in unread' => store'[k] = NoKey
                          /\ store'[k] = disk[k] \/ store'[k] = NoKey
    <2>1. failures' \in 0 .. MaxFailures
      <3>1. failures \in 0 .. MaxFailures
        BY <1>1 DEF KeysInv, KeyTypeOK
      <3>2. failures' = failures \/ Fails
        BY DEF Crash, Load
      <3> QED
        BY <3>1, <3>2, KeyAssumption DEF Fails
    <2>2. CASE store' = disk /\ unread' = {}
      BY <1>1, <2>1, <2>2 DEF Crash, Load, Written
    <2>3. ASSUME NEW n \in Key, store' = [k \in Key |-> IF k < n THEN disk[k] ELSE NoKey],
                 unread' = {k \in Key : n <= k /\ disk[k].status # "none"}
          PROVE  /\ store' \in [Key -> {disk[k] : k \in Key} \cup {NoKey}]
                 /\ unread' \subseteq 1 .. created
                 /\ \A k \in Key : /\ k \notin unread' /\ disk[k].status # "none" => store'[k] = disk[k]
                                   /\ k \in unread' => store'[k] = NoKey
                                   /\ store'[k] = disk[k] \/ store'[k] = NoKey
      <3>1. store' \in [Key -> {disk[k] : k \in Key} \cup {NoKey}] /\ unread' \subseteq 1 .. created
        BY <1>1, <2>3
      <3>2. ASSUME NEW k \in Key
            PROVE  /\ k \notin unread' /\ disk[k].status # "none" => store'[k] = disk[k]
                   /\ k \in unread' => store'[k] = NoKey
                   /\ store'[k] = disk[k] \/ store'[k] = NoKey
        BY <1>1, <2>3
      <3> QED
        BY <3>1, <3>2
    <2>4. \/ store' = disk /\ unread' = {}
          \/ \E n \in Key : /\ store' = [k \in Key |-> IF k < n THEN disk[k] ELSE NoKey]
                            /\ unread' = {k \in Key : n <= k /\ disk[k].status # "none"}
      BY DEF Crash, Load
    <2>5. UNCHANGED <<disk, created, completed, hasty>>
      BY DEF Crash, Load
    <2> QED
      BY <2>1, <2>2, <2>3, <2>4, <2>5
  <1>3. KeysInv'
    <2>1. /\ \A k \in Key : NoKey \in [status : {"none", "ACTIVE", "RETIRED", "DESTROYED"},
                                  version : 1 .. MaxKeys, from : 0 .. MaxKeys, first : 0 .. MaxKeys]
          /\ NoKey.status = "none" /\ NoKey.version = 1 /\ NoKey.first = 0 /\ NoKey.from = 0
      BY <1>1 DEF NoKey
    <2>2. \A k \in Key : store'[k] \in [status : {"none", "ACTIVE", "RETIRED", "DESTROYED"},
                                  version : 1 .. MaxKeys, from : 0 .. MaxKeys, first : 0 .. MaxKeys]
      <3> TAKE k \in Key
      <3>1. disk[k] \in [status : {"none", "ACTIVE", "RETIRED"},
                         version : 1 .. MaxKeys, from : 0 .. MaxKeys, first : 0 .. MaxKeys]
        BY <1>1 DEF Written
      <3> QED
        BY <1>2, <2>1, <3>1
    <2>3. store' \in Stored
      BY <1>2, <2>2 DEF Stored
    <2>4. \A k \in Key : created < k => store'[k] = NoKey /\ disk[k] = NoKey
      BY <1>1, <1>2
    <2>5. Versions'
      <3> SUFFICES ASSUME NEW k \in Key PROVE store'[k].version <= k /\ disk[k].version <= k
                                              /\ disk[k].first <= k /\ disk[k].from < k
        BY <1>2 DEF Versions
      <3> QED
        BY <1>1, <1>2, <2>1 DEF KeysInv, Versions
    <2>6. \A k \in Key : store'[k].first <= k /\ store'[k].from < k
      <3> TAKE k \in Key
      <3>1. disk[k].first <= k /\ disk[k].from < k
        BY <1>1 DEF KeysInv, Versions
      <3>2. 0 <= k /\ 0 < k
        BY <1>1
      <3>3. CASE store'[k] = disk[k]
        BY <3>1, <3>3
      <3>4. CASE store'[k] = NoKey
        BY <2>1, <3>2, <3>4
      <3> QED
        BY <1>2, <3>3, <3>4
    <2>7. KeyTypeOK'
      BY <1>1, <1>2, <2>3, <2>4, <2>6, Zenon DEF KeyTypeOK, Stored, Written
    <2>8. Lag'
      <3> SUFFICES ASSUME NEW k \in Key
                   PROVE  /\ k \in unread' => store'[k].status = "none"
                          /\ disk[k].status = "RETIRED" /\ k \notin unread' => store'[k].status \in {"RETIRED", "DESTROYED"}
                          /\ disk[k].status = "ACTIVE" /\ k \notin unread' => store'[k].status # "none"
                          /\ store'[k].status = "RETIRED" => disk[k].status # "none"
        BY <1>2 DEF Lag
      <3> QED
        BY <1>2, <2>1
    <2>9. Covered'
      <3> SUFFICES ASSUME NEW k \in Key, disk[k].status = "ACTIVE"
                   PROVE  disk[k].first \in Lines(store') \cup {disk[j].first : j \in unread'}
        BY <1>2 DEF Covered, Lines, LinesOf
      <3>1. CASE k \in unread'
        BY <3>1
      <3>2. CASE k \notin unread'
        <4>1. store'[k] = disk[k]
          BY <1>2, <3>2
        <4> QED
          BY <4>1 DEF Lines
      <3> QED
        BY <3>1, <3>2
    <2> QED
      BY <2>5, <2>7, <2>8, <2>9 DEF KeysInv
  <1>4. \A a \in Actors : rotation'[a].pc = "idle"
    BY DEF Crash, NoRotation
  <1>5. rotation' \in Turns
    <2>1. NoRotation \in Turn
      BY <1>1 DEF NoRotation, Turn, Calls
    <2> QED
      BY <2>1 DEF Crash, Turns
  <1>6. Others'
    <2>1. Asleep \in [stage : {"wait", "scheduled", "expired"}, todo : SUBSET Key, now : SUBSET Key]
      BY DEF Asleep
    <2>2. crashes' \in 0 .. MaxCrashes
      BY <1>1, RotationAssumption DEF Crash, Others
    <2> QED
      BY <1>1, <1>2, <2>1, <2>2 DEF Crash, Others
  <1>7. RotationTypeOK'
    BY <1>3, <1>4, <1>5, <1>6, TypePartsNext DEF KeysInv, InOrder, Replacing
  <1>8. \A r \in completed : r[2] <= created /\ Sound(store', disk', r[2])
    <2> TAKE r \in completed
    <2>1. r[2] \in Key /\ r[2] <= created /\ HasLineage(disk[r[2]])
      BY <1>1 DEF RotationInv, Rotations, Sound, Others
    <2>2. NoKey.status = "none"
      BY DEF NoKey
    <2> QED
      BY <1>2, <2>1, <2>2 DEF Sound, HasLineage
  <1>9. Rotations'
    BY <1>2, <1>4, <1>8 DEF Rotations, Replacing
  <1>10. crashes' # crashes
    BY <1>1 DEF Crash, Others
  <1> QED
    BY <1>2, <1>3, <1>4, <1>7, <1>9, <1>10 DEF RotationInv

(* The other steps change no key: they start, look at, or are asked for     *)
(* rotations.                                                              *)
LEMMA OtherSteps ==
    ASSUME RotationInv,
           \/ Tick
           \/ \E k \in Key : RotateByHand(k) \/ ScheduleRotation(k) \/ TimeComes(k) \/ Expire(k)
           \/ UNCHANGED vars
    PROVE  RotationInv' /\ LosesNoLine /\ OnlyAges
  <1>1. /\ rotation \in Turns /\ created \in 0 .. MaxKeys /\ MaxKeys \in Nat /\ Key = 1 .. MaxKeys
        /\ Others /\ RotationTypeOK
        /\ \A k \in Key : store[k].status # "none" => k <= created
        /\ Scheduler \in Actors /\ Admin \in Actors /\ 0 \in 0 .. MaxKeys
    BY TypesInUse, TypeParts DEF RotationInv, Actors
  <1>2. ASSUME NEW a \in Actors, NEW k \in Key, Begin(a, k)
        PROVE  /\ rotation' \in Turns
               /\ \A b \in Actors :
                    \/ rotation'[b] = rotation[b]
                    \/ rotation'[b].pc \in {"idle", "end"}
                    \/ rotation'[b].pc = "create" /\ rotation'[b].key \in 1 .. created
    <2>1. k \in 0 .. MaxKeys /\ "create" \in Calls /\ "end" \in Calls
      BY <1>1 DEF Calls
    <2>2. Known(k) => k \in 1 .. created
      BY <1>1 DEF Known
    <2>3. CASE Known(k)
      BY <1>1, <1>2, <2>1, <2>2, <2>3, AtProps DEF Begin
    <2>4. CASE ~Known(k)
      BY <1>1, <1>2, <2>1, <2>4, AtProps DEF Begin
    <2> QED
      BY <2>3, <2>4
  <1>3. ASSUME RotateNext PROVE RotationInv' /\ LosesNoLine /\ OnlyAges
    <2>1. PICK k \in tick.todo : Begin(Scheduler, k)
      BY <1>3 DEF RotateNext
    <2>2. k \in Key /\ Others'
      BY <1>1, <1>3 DEF Others, RotateNext, keyVars
    <2> QED
      BY <1>1, <1>2, <1>3, <2>1, <2>2, KeysUntouched DEF RotateNext
  <1>4. ASSUME NEW k \in Key, RotateByHand(k) PROVE RotationInv' /\ LosesNoLine /\ OnlyAges
    <2>1. Others'
      BY <1>1, <1>4 DEF Others, RotateByHand, keyVars
    <2> QED
      BY <1>1, <1>2, <1>4, <2>1, KeysUntouched DEF RotateByHand
  <1>5. ASSUME Conclude PROVE RotationInv' /\ LosesNoLine /\ OnlyAges
    <2>1. rotation' \in Turns /\ rotation'[Scheduler].pc = "idle"
          /\ \A b \in Actors : b # Scheduler => rotation'[b] = rotation[b]
      <3>1. "idle" \in Calls
        BY DEF Calls
      <3> QED
        BY <1>1, <1>5, <3>1, AtProps DEF Conclude
    <2>2. Others'
      BY <1>1, <1>5 DEF Others, Conclude, keyVars
    <2> QED
      BY <1>5, <2>1, <2>2, KeysUntouched DEF Conclude
  <1>6. ASSUME UNCHANGED <<keyVars, completed, rotation>>, Others'
        PROVE  RotationInv' /\ LosesNoLine /\ OnlyAges
    BY <1>1, <1>6, KeysUntouched
  <1>7. BeginTick \/ SecondStage \/ EndTick => UNCHANGED <<keyVars, completed, rotation>> /\ Others'
    <2>1. Asleep \in [stage : {"wait", "scheduled", "expired"}, todo : SUBSET Key, now : SUBSET Key]
      BY DEF Asleep
    <2>2. BeginTick => Others'
      BY <1>1 DEF BeginTick, Others, keyVars
    <2>3. SecondStage => Others'
      BY <1>1 DEF SecondStage, ListExpired, Others, keyVars
    <2>4. EndTick => Others'
      BY <1>1, <2>1 DEF EndTick, Others, keyVars
    <2> QED
      BY <2>2, <2>3, <2>4 DEF BeginTick, SecondStage, EndTick
  <1>8. ASSUME NEW k \in Key, ScheduleRotation(k) \/ TimeComes(k) \/ Expire(k)
        PROVE  UNCHANGED <<keyVars, completed, rotation>> /\ Others'
    <2>1. ScheduleRotation(k) => Others'
      BY <1>1 DEF ScheduleRotation, Others, keyVars
    <2>2. TimeComes(k) => Others'
      BY <1>1 DEF TimeComes, Others, keyVars
    <2>3. Expire(k) => Others'
      BY <1>1 DEF Expire, Others, keyVars
    <2> QED
      BY <1>8, <2>1, <2>2, <2>3 DEF ScheduleRotation, TimeComes, Expire
  <1>9. UNCHANGED vars => UNCHANGED <<keyVars, completed, rotation>> /\ Others'
    BY <1>1 DEF vars, Others, keyVars
  <1> QED
    BY <1>3, <1>4, <1>5, <1>6, <1>7, <1>8, <1>9 DEF Tick
--------------------------------------------------------------------------------
(* Every step keeps the invariant, and all but a crash what is promised of  *)
(* the keys in memory.                                                     *)
LEMMA EveryStep ==
    ASSUME RotationInv, [Next]_vars
    PROVE  /\ RotationInv' /\ OnlyAges /\ Lines(disk) \subseteq Lines(disk') \cup LinesOf(unread)
           /\ crashes' = crashes => Lines(store) \subseteq Lines(store')
  <1>1. CASE Crash
    <2>1. RotationInv' /\ disk' = disk /\ crashes' # crashes
      BY <1>1, CrashStep
    <2> QED
      BY <2>1 DEF OnlyAges, Lines
  <1>2. CASE ~Crash
    <2>1. RotationInv' /\ LosesNoLine /\ OnlyAges
      BY <1>2, CreateStep, BumpStep, RetireStep, NewKeyStep, RetireKeyStep, OtherSteps
         DEF Next, Rotate
    <2> QED
      BY <2>1 DEF LosesNoLine
  <1> QED
    BY <1>1, <1>2

(* The keystore and the rotations in progress stay consistent, ...          *)
THEOREM RotationInvariant == Spec => []RotationInv
  <1>1. Init => RotationInv
    <2> SUFFICES ASSUME Init PROVE RotationInv
      OBVIOUS
    <2>1. /\ store = [k \in Key |-> NoKey] /\ disk = store /\ unread = {} /\ created = 0 /\ failures = 0
          /\ rotation = [a \in Actors |-> NoRotation] /\ completed = {}
      BY DEF Init, KeyInit
    <2>2. Key = 1 .. MaxKeys /\ MaxKeys \in Nat /\ MaxFailures \in Nat
      BY KeyAssumption DEF Key
    <2>3. \A k \in Key : /\ NoKey \in [status : {"none", "ACTIVE", "RETIRED"},
                                      version : 1 .. MaxKeys, from : 0 .. MaxKeys, first : 0 .. MaxKeys]
                         /\ NoKey.status = "none" /\ NoKey.version = 1 /\ NoKey.first = 0 /\ NoKey.from = 0
      BY <2>2 DEF NoKey
    <2>4. store \in Stored /\ disk \in Written
      BY <2>1, <2>3 DEF Stored, Written
    <2>5. KeyTypeOK
      BY <2>1, <2>2, <2>3, <2>4 DEF KeyTypeOK, Stored, Written
    <2>6. Versions /\ Lag /\ Covered
      BY <2>1, <2>2, <2>3 DEF Versions, Lag, Covered
    <2>7. NoRotation \in Turn /\ NoRotation.pc = "idle"
      BY <2>2 DEF NoRotation, Turn, Calls
    <2>8. rotation \in Turns /\ \A a \in Actors : rotation[a].pc = "idle"
      BY <2>1, <2>7 DEF Turns
    <2>9. Others
      BY <2>1, RotationAssumption DEF Init, Others, Asleep
    <2> QED
      BY <2>1, <2>5, <2>6, <2>8, <2>9, TypeParts
         DEF RotationInv, KeysInv, Rotations, InOrder, Replacing
  <1>2. RotationInv /\ [Next]_vars => RotationInv'
    BY EveryStep
  <1> QED
    BY <1>1, <1>2, PTL DEF Spec

(* The key manager and the rotation thread keep their types.                *)
THEOREM RotationIsTyped == Spec => []RotationTypeOK
  BY RotationInvariant, PTL DEF RotationInv

(* Lineage.  A rotation makes a key of its own, whose origin it sets after  *)
(* the key is in the file; from then on the key is one version later than   *)
(* the one it replaced, unless that one's version was still to be set.      *)
Unset(k) == \E b \in Actors : rotation[b].pc = "bump" /\ rotation[b].new = k
Follows(s, k, n) ==
    s[n].from = k /\ s[n].status # "none" /\ s[k].status # "none" => s[n].version = s[k].version + 1
Names(key, k) == key.status # "none" => key.from = k

OwnKeys ==
    \A a, b \in Actors :
        Replacing(a) /\ Replacing(b) /\ rotation[a].new = rotation[b].new => a = b
Marked ==
    \A a \in Actors :
        /\ rotation[a].pc = "bump" => store[rotation[a].new].from = 0
        /\ rotation[a].pc = "retire" => store[rotation[a].new].from = rotation[a].key
Descent ==
    \A k, n \in Key : n \notin hasty =>
        Follows(store, k, n) /\ Follows(disk, k, n) /\ (store[n].from = k => ~Unset(k))
Origins == \A r \in completed : Names(store[r[2]], r[1]) /\ Names(disk[r[2]], r[1])

LineageInv == OwnKeys /\ Marked /\ Descent /\ Origins

KeysMade ==
    /\ store \in Stored /\ created \in 0 .. MaxKeys
    /\ \A a \in Actors : Replacing(a) => rotation[a].new \in 1 .. created

(* What the lineage relies on of the other invariants.                     *)
LEMMA LineageTypes ==
    ASSUME RotationInv
    PROVE  /\ Key = 1 .. MaxKeys /\ MaxKeys \in Nat /\ created \in 0 .. MaxKeys
           /\ store \in Stored /\ disk \in Written /\ rotation \in Turns
           /\ \A k \in Key : /\ k > created => store[k] = NoKey /\ disk[k] = NoKey
                             /\ store[k].from < k /\ disk[k].from < k
           /\ \A a \in Actors : Replacing(a) =>
                /\ rotation[a].key \in 1 .. created /\ rotation[a].new \in 1 .. created
                /\ rotation[a].key < rotation[a].new
           /\ \A r \in completed : r[1] \in Key /\ r[2] \in Key /\ r[2] <= created
           /\ NoKey.status = "none" /\ NoKey.from = 0
  <1>1. /\ Key = 1 .. MaxKeys /\ MaxKeys \in Nat /\ created \in 0 .. MaxKeys
        /\ store \in Stored /\ disk \in Written /\ rotation \in Turns
        /\ \A k \in Key : /\ k > created => store[k] = NoKey /\ disk[k] = NoKey
                          /\ store[k].from < k
        /\ InOrder /\ Others
    BY TypesInUse, TypeParts DEF RotationInv
  <1>2. \A k \in Key : disk[k].from < k
    BY DEF RotationInv, KeysInv, Versions
  <1>3. ASSUME NEW a \in Actors, Replacing(a)
        PROVE  /\ rotation[a].key \in 1 .. created /\ rotation[a].new \in 1 .. created
               /\ rotation[a].key < rotation[a].new
    <2>1. rotation[a].key < rotation[a].new /\ rotation[a].new <= created
      BY <1>1, <1>3 DEF InOrder
    <2>2. rotation[a].key \in 1 .. created
      BY <1>3 DEF RotationInv, Rotations, Replacing
    <2>3. rotation[a].new \in 0 .. MaxKeys
      BY <1>1 DEF Turns, Turn
    <2> QED
      BY <1>1, <2>1, <2>2, <2>3
  <1>4. \A r \in completed : r[1] \in Key /\ r[2] \in Key /\ r[2] <= created
    BY <1>1 DEF Others, RotationInv, Rotations
  <1> QED
    BY <1>1, <1>2, <1>3, <1>4 DEF NoKey

LEMMA KeysAreMade == RotationInv => KeysMade
  BY LineageTypes DEF KeysMade

LEMMA NextIsNew == \A c \in Nat : \A k \in 1 .. c : k # c + 1
  OBVIOUS

(* Steps that set neither an origin nor a version: what is written is in    *)
(* memory, a rotation that comes to "bump" has made the next key, and one   *)
(* that is completed had its origin set.                                   *)
LEMMA LineageKept ==
    ASSUME RotationInv, LineageInv, RotationInv', hasty' = hasty,
           \A j \in Key : j <= created => /\ store'[j].from = store[j].from
                                          /\ store'[j].version = store[j].version
                                          /\ store'[j].status # "none" => store[j].status # "none",
           \A j \in Key : j > created => store'[j].from = 0,
           disk' = disk \/ disk' = Registered(store'),
           \A b \in Actors :
              \/ rotation'[b] = rotation[b]
              \/ rotation'[b].pc \in {"idle", "end", "create"}
              \/ /\ rotation'[b].pc = "bump" /\ rotation'[b].new = created + 1
                 /\ \A c \in Actors : c # b => rotation'[c] = rotation[c],
           \A r \in completed' :
              \/ r \in completed
              \/ /\ disk' = Registered(store')
                 /\ \E a \in Actors : rotation[a].pc = "retire" /\ r = <<rotation[a].key, rotation[a].new>>
    PROVE  LineageInv'
  <1>1. /\ Key = 1 .. MaxKeys /\ MaxKeys \in Nat /\ created \in 0 .. MaxKeys
        /\ \A k \in Key : store[k].from < k
        /\ \A a \in Actors : Replacing(a) =>
             /\ rotation[a].key \in 1 .. created /\ rotation[a].new \in 1 .. created
             /\ rotation[a].key < rotation[a].new
        /\ \A r \in completed : r[1] \in Key /\ r[2] \in Key /\ r[2] <= created
        /\ NoKey.status = "none"
    BY LineageTypes
  <1>2. /\ store' \in Stored /\ \A a \in Actors : Replacing(a)' => rotation'[a].new \in 1 .. created'
        /\ created' \in 0 .. MaxKeys
    <2>1. KeysMade'
      BY KeysAreMade, PTL
    <2> QED
      BY <2>1 DEF KeysMade
  <1>3. disk' = disk \/ \A j \in Key : disk'[j].status # "none" => disk'[j] = store'[j]
    BY <1>1, <1>2, RegisteredProps
  <1>4. OwnKeys'
    <2> SUFFICES ASSUME NEW a \in Actors, NEW b \in Actors, Replacing(a)', Replacing(b)',
                        rotation'[a].new = rotation'[b].new, a # b
                 PROVE  FALSE
      BY DEF OwnKeys
    <2>1. \A c \in Actors : Replacing(c)' =>
              \/ rotation'[c] = rotation[c] /\ Replacing(c) /\ rotation'[c].new \in 1 .. created
              \/ rotation'[c].new = created + 1 /\ \A d \in Actors : d # c => rotation'[d] = rotation[d]
      BY <1>1 DEF Replacing
    <2>2. CASE rotation'[a] = rotation[a] /\ rotation'[b] = rotation[b]
      <3>1. Replacing(a) /\ Replacing(b) /\ rotation[a].new = rotation[b].new
        BY <2>2 DEF Replacing
      <3> QED
        BY <3>1 DEF LineageInv, OwnKeys
    <2>3. CASE rotation'[a].new = created + 1 /\ rotation'[b] = rotation[b]
      <3>1. rotation[b].new \in 1 .. created /\ created \in Nat
        BY <1>1, <2>3 DEF Replacing
      <3> QED
        BY <2>3, <3>1, NextIsNew, Zenon
    <2>4. CASE rotation'[b].new = created + 1 /\ rotation'[a] = rotation[a]
      <3>1. rotation[a].new \in 1 .. created /\ created \in Nat
        BY <1>1, <2>4 DEF Replacing
      <3> QED
        BY <2>4, <3>1, NextIsNew, Zenon
    <2> QED
      BY <2>1, <2>2, <2>3, <2>4
  <1>5. Marked'
    <2> SUFFICES ASSUME NEW a \in Actors
                 PROVE  /\ rotation'[a].pc = "bump" => store'[rotation'[a].new].from = 0
                        /\ rotation'[a].pc = "retire" => store'[rotation'[a].new].from = rotation'[a].key
      BY DEF Marked
    <2>1. CASE rotation'[a] = rotation[a]
      <3>1. /\ rotation[a].pc = "bump" => store[rotation[a].new].from = 0
            /\ rotation[a].pc = "retire" => store[rotation[a].new].from = rotation[a].key
        BY DEF LineageInv, Marked
      <3>2. Replacing(a) => rotation[a].new \in Key /\ rotation[a].new <= created
        BY <1>1
      <3> QED
        BY <2>1, <3>1, <3>2 DEF Replacing
    <2>2. CASE rotation'[a].pc = "bump" /\ rotation'[a].new = created + 1
      <3>1. created + 1 \in Key /\ created + 1 > created
        BY <1>1, <1>2, <2>2 DEF Replacing
      <3> QED
        BY <2>2, <3>1
    <2> QED
      BY <2>1, <2>2
  <1>6. ASSUME NEW k \in Key, NEW n \in Key, n \notin hasty
        PROVE  Follows(store', k, n) /\ Follows(disk', k, n) /\ (store'[n].from = k => ~Unset(k)')
    <2>1. Follows(store, k, n) /\ Follows(disk, k, n) /\ (store[n].from = k => ~Unset(k))
      BY <1>6 DEF LineageInv, Descent
    <2>2. store'[n].from = k => n <= created /\ k <= created /\ store[n].from = k
      BY <1>1
    <2>3. Follows(store', k, n)
      BY <2>1, <2>2 DEF Follows
    <2>4. Follows(disk', k, n)
      BY <1>3, <2>1, <2>3 DEF Follows
    <2>5. ASSUME store'[n].from = k, NEW b \in Actors, rotation'[b].pc = "bump", rotation'[b].new = k
          PROVE  FALSE
      <3>1. rotation'[b] # rotation[b]
        BY <2>1, <2>2, <2>5 DEF Unset
      <3> QED
        BY <1>1, <2>2, <2>5, <3>1
    <2> QED
      BY <2>3, <2>4, <2>5 DEF Unset
  <1>7. Descent'
    BY <1>6 DEF Descent, Follows, Unset
  <1>8. Origins'
    <2> SUFFICES ASSUME NEW r \in completed'
                 PROVE  Names(store'[r[2]], r[1]) /\ Names(disk'[r[2]], r[1])
      BY DEF Origins
    <2>1. CASE r \in completed
      <3>1. Names(store[r[2]], r[1]) /\ Names(disk[r[2]], r[1])
        BY <2>1 DEF LineageInv, Origins
      <3>2. r[2] \in Key /\ r[2] <= created
        BY <1>1, <2>1
      <3> QED
        BY <1>3, <3>1, <3>2 DEF Names
    <2>2. ASSUME disk' = Registered(store'), NEW a \in Actors, rotation[a].pc = "retire",
                 r = <<rotation[a].key, rotation[a].new>>
          PROVE  Names(store'[r[2]], r[1]) /\ Names(disk'[r[2]], r[1])
      <3>1. store[r[2]].from = r[1] /\ r[2] \in Key /\ r[2] <= created
        BY <1>1, <2>2 DEF LineageInv, Marked, Replacing
      <3>2. disk'[r[2]].status # "none" => disk'[r[2]] = store'[r[2]]
        BY <1>1, <1>2, <2>2, <3>1, RegisteredProps
      <3> QED
        BY <3>1, <3>2 DEF Names
    <2> QED
      BY <2>1, <2>2
  <1> QED
    BY <1>4, <1>5, <1>7, <1>8 DEF LineageInv

(* A key is made for a rotation.                                           *)
LEMMA CreateLineage ==
    ASSUME RotationInv, LineageInv, RotationInv', NEW a \in Actors, Create(a)
    PROVE  LineageInv'
  <1>1. /\ Key = 1 .. MaxKeys /\ created \in 0 .. MaxKeys /\ MaxKeys \in Nat
        /\ store \in Stored /\ rotation \in Turns
        /\ \A k \in Key : k > created => store[k] = NoKey
        /\ NoKey.from = 0 /\ rotation[a].key \in 1 .. created
    BY LineageTypes DEF RotationInv, Rotations, Create
  <1>2. hasty' = hasty /\ completed' = completed
    BY DEF Create, PersistFails, Persist, keyVars
  <1>3. \A b \in Actors :
              \/ rotation'[b] = rotation[b]
              \/ rotation'[b].pc \in {"idle", "end", "create"}
              \/ /\ rotation'[b].pc = "bump" /\ rotation'[b].new = created + 1
                 /\ \A c \in Actors : c # b => rotation'[c] = rotation[c]
    <2>1. CASE Ends(a)
      BY <1>1, <2>1, EndsProps
    <2>2. CASE created < MaxKeys /\ At(a, "bump", rotation[a].key, created + 1)
      <3>1. "bump" \in Calls /\ rotation[a].key \in 0 .. MaxKeys /\ created + 1 \in 0 .. MaxKeys
        BY <1>1, <2>2 DEF Calls
      <3> QED
        BY <1>1, <2>2, <3>1, AtProps
    <2> QED
      BY <2>1, <2>2 DEF Create
  <1>4. CASE store' = WithNew(rotation[a].key) /\ created < MaxKeys /\ disk' \in {disk, Registered(store')}
    <2>1. \A j \in Key : store[j].first <= j
      BY TypesInUse DEF RotationInv
    <2>2. /\ created + 1 \in Key
          /\ store'[created + 1].from = 0
          /\ \A j \in Key : j # created + 1 => store'[j] = store[j]
      BY <1>1, <1>4, <2>1, WithNewProps
    <2>3. \A j \in Key : j <= created => store'[j] = store[j]
      BY <1>1, <2>2
    <2>4. \A j \in Key : j > created => store'[j].from = 0
      BY <1>1, <2>2
    <2> QED
      BY <1>2, <1>3, <1>4, <2>3, <2>4, LineageKept
  <1>5. CASE UNCHANGED keyVars
    <2>1. store' = store /\ disk' = disk /\ \A j \in Key : j > created => store'[j].from = 0
      BY <1>1, <1>5 DEF keyVars
    <2> QED
      BY <1>2, <1>3, <2>1, LineageKept
  <1> QED
    BY <1>4, <1>5 DEF Create, Persist, PersistFails

(* The old key is retired, which writes the new one's lineage.             *)
LEMMA RetireLineage ==
    ASSUME RotationInv, LineageInv, RotationInv', NEW a \in Actors, Retire(a)
    PROVE  LineageInv'
  <1> DEFINE k == rotation[a].key
  <1>1. /\ Key = 1 .. MaxKeys /\ created \in 0 .. MaxKeys /\ store \in Stored /\ rotation \in Turns
        /\ \A j \in Key : j > created => store[j] = NoKey
        /\ NoKey.from = 0 /\ k \in Key
    BY LineageTypes DEF Retire, Replacing
  <1>2. \A b \in Actors : rotation'[b] = rotation[b] \/ rotation'[b].pc \in {"idle", "end", "create"}
    BY <1>1, EndsProps DEF Retire
  <1>3. hasty' = hasty /\ rotation[a].pc = "retire"
    BY DEF Retire
  <1> HIDE DEF k
  <1>4. /\ store' = WithStatus(k, "RETIRED") \/ store' = store
        /\ \/ completed' = completed /\ disk' \in {disk, Registered(store')}
           \/ /\ completed' = completed \cup {<<rotation[a].key, rotation[a].new>>}
              /\ disk' = Registered(store')
    BY DEF Retire, Persist, PersistFails, keyVars, k
  <1>5. \A j \in Key : /\ store'[j].from = store[j].from
                       /\ store'[j].version = store[j].version
                       /\ store'[j].status # "none" => store[j].status # "none"
    BY <1>1, <1>4, WithStatusProps DEF Known
  <1>6. \A j \in Key : j > created => store'[j].from = 0
    BY <1>1, <1>5
  <1>7. \A r \in completed' :
              \/ r \in completed
              \/ /\ disk' = Registered(store')
                 /\ \E b \in Actors : rotation[b].pc = "retire" /\ r = <<rotation[b].key, rotation[b].new>>
    BY <1>3, <1>4
  <1> QED
    BY <1>2, <1>3, <1>4, <1>5, <1>6, <1>7, LineageKept

(* A new line begins, or a retired key is destroyed.                       *)
LEMMA KeyLineage ==
    ASSUME RotationInv, LineageInv, RotationInv', NewKey \/ \E k \in Key : RetireKey(k)
    PROVE  LineageInv'
  <1>1. /\ Key = 1 .. MaxKeys /\ created \in 0 .. MaxKeys /\ MaxKeys \in Nat /\ store \in Stored
        /\ \A j \in Key : j > created => store[j] = NoKey
        /\ \A j \in Key : store[j].first <= j
        /\ NoKey.from = 0
    BY LineageTypes, TypesInUse DEF RotationInv
  <1>2. UNCHANGED <<rotation, completed, hasty>> /\ disk' \in {disk, Registered(store')}
    BY DEF NewKey, RetireKey, Persist, PersistFails
  <1>3. CASE NewKey
    <2>1. created < MaxKeys /\ store' = WithNew(0) /\ 0 \in 0 .. created
      BY <1>1, <1>3, RotationAssumption DEF NewKey, Persist, PersistFails
    <2>2. /\ store'[created + 1].from = 0
          /\ \A j \in Key : j # created + 1 => store'[j] = store[j]
      BY <1>1, <2>1, WithNewProps
    <2>3. \A j \in Key : j <= created => store'[j] = store[j]
      BY <1>1, <2>2
    <2>4. \A j \in Key : j > created => store'[j].from = 0
      BY <1>1, <2>2
    <2> QED
      BY <1>2, <2>3, <2>4, LineageKept
  <1>4. CASE \E k \in Key : RetireKey(k)
    <2>1. PICK k \in Key : store' = WithStatus(k, "DESTROYED")
      BY <1>4 DEF RetireKey, Persist, PersistFails
    <2>2. \A j \in Key : /\ store'[j].from = store[j].from
                         /\ store'[j].version = store[j].version
                         /\ store'[j].status # "none" => store[j].status # "none"
      BY <1>1, <2>1, WithStatusProps DEF Known
    <2>3. \A j \in Key : j > created => store'[j].from = 0
      BY <1>1, <2>2
    <2> QED
      BY <1>2, <2>2, <2>3, LineageKept
  <1> QED
    BY <1>3, <1>4

(* The other steps leave the keys alone.                                   *)
LEMMA OtherLineage ==
    ASSUME RotationInv, LineageInv, RotationInv',
           \/ Tick
           \/ \E k \in Key : RotateByHand(k) \/ ScheduleRotation(k) \/ TimeComes(k) \/ Expire(k)
           \/ UNCHANGED vars
    PROVE  LineageInv'
  <1>1. /\ rotation \in Turns /\ \A j \in Key : j > created => store[j].from = 0
        /\ created \in 0 .. MaxKeys /\ MaxKeys \in Nat /\ Key = 1 .. MaxKeys
        /\ Scheduler \in Actors /\ Admin \in Actors
    BY LineageTypes DEF Actors
  <1>2. UNCHANGED <<store, disk, created, completed, hasty>>
    BY DEF Tick, BeginTick, RotateNext, Conclude, SecondStage, EndTick, RotateByHand,
           ScheduleRotation, TimeComes, Expire, keyVars, vars
  <1>3. ASSUME NEW a \in Actors, NEW pc \in {"idle", "create", "end"}, NEW k \in 0 .. MaxKeys, At(a, pc, k, 0)
        PROVE  \A b \in Actors : rotation'[b] = rotation[b] \/ rotation'[b].pc \in {"idle", "end", "create"}
    <2>1. pc \in Calls /\ 0 \in 0 .. MaxKeys
      BY <1>1 DEF Calls
    <2> QED
      BY <1>1, <1>3, <2>1, AtProps
  <1>4. \A b \in Actors : rotation'[b] = rotation[b] \/ rotation'[b].pc \in {"idle", "end", "create"}
    <2>1. ASSUME NEW a \in Actors, NEW k \in Key, Begin(a, k)
          PROVE  \A b \in Actors : rotation'[b] = rotation[b] \/ rotation'[b].pc \in {"idle", "end", "create"}
      <3>1. k \in 0 .. MaxKeys
        BY <1>1
      <3> QED
        BY <1>3, <2>1, <3>1 DEF Begin
    <2>2. CASE RotateNext
      <3>1. tick.todo \subseteq Key
        BY TypeParts DEF RotationInv, Others
      <3> QED
        BY <1>1, <2>1, <2>2, <3>1 DEF RotateNext
    <2>3. CASE \E k \in Key : RotateByHand(k)
      BY <1>1, <2>1, <2>3 DEF RotateByHand
    <2>4. CASE Conclude
      <3>1. 0 \in 0 .. MaxKeys
        BY <1>1
      <3> QED
        BY <1>1, <1>3, <2>4, <3>1 DEF Conclude
    <2>5. CASE rotation' = rotation
      BY <2>5
    <2> QED
      BY <2>2, <2>3, <2>4, <2>5
         DEF Tick, BeginTick, SecondStage, EndTick, ScheduleRotation, TimeComes, Expire, vars
  <1> QED
    BY <1>1, <1>2, <1>4, LineageKept

(* Origin and version are set.                                             *)
LEMMA BumpLineage ==
    ASSUME RotationInv, LineageInv, RotationInv', NEW a \in Actors, Bump(a)
    PROVE  LineageInv'
  <1> DEFINE k == rotation[a].key
             n == rotation[a].new
             v == store[k].version + 1
             t == [store[n] EXCEPT !.version = v, !.from = k]
  <1>1. /\ Key = 1 .. MaxKeys /\ created \in 0 .. MaxKeys /\ MaxKeys \in Nat
        /\ store \in Stored /\ rotation \in Turns
        /\ \A j \in Key : store[j].from < j
        /\ \A b \in Actors : Replacing(b) => rotation[b].new \in 1 .. created
        /\ \A r \in completed : r[1] \in Key /\ r[2] \in Key
        /\ k \in Key /\ n \in Key /\ k < n /\ k \in 0 .. MaxKeys /\ n \in 0 .. MaxKeys
    <2>1. k \in 1 .. created /\ n \in 1 .. created /\ k < n
      BY LineageTypes DEF Bump, Replacing
    <2> HIDE DEF k, n
    <2> QED
      BY <2>1, LineageTypes
  <1>2. UNCHANGED <<disk, completed>> /\ rotation[a].pc = "bump"
    BY DEF Bump
  <1>3. CASE Ends(a) /\ UNCHANGED <<store, hasty, created>>
    <2>1. \A b \in Actors : rotation'[b] = rotation[b] \/ rotation'[b].pc \in {"idle", "end", "create"}
      BY <1>1, <1>3, EndsProps
    <2>2. \A j \in Key : j > created => store'[j].from = 0
      BY <1>3, LineageTypes
    <2> QED
      BY <1>2, <1>3, <2>1, <2>2, LineageKept
  <1>4. CASE /\ Known(n) /\ store' = [store EXCEPT ![n] = t] /\ At(a, "retire", k, n)
             /\ n \in hasty' \/ ~Unset(k)
             /\ hasty \subseteq hasty'
    <2>1. t.version = v /\ t.from = k /\ t.status = store[n].status
      <3>1. store[n] \in [status : {"none", "ACTIVE", "RETIRED", "DESTROYED"},
                          version : 1 .. MaxKeys, from : 0 .. MaxKeys, first : 0 .. MaxKeys]
        BY <1>1 DEF Stored
      <3> HIDE DEF v, k, n
      <3> QED
        BY <3>1
    <2> HIDE DEF t
    <2>2. store'[n] = t /\ \A j \in Key : j # n => store'[j] = store[j]
      BY <1>1, <1>4 DEF Stored
    <2> HIDE DEF v
    <2>3. /\ rotation'[a].pc = "retire" /\ rotation'[a].key = k /\ rotation'[a].new = n
          /\ \A b \in Actors : b # a => rotation'[b] = rotation[b]
      BY <1>1, <1>4, AtProps DEF Calls
    <2>4. \A b \in Actors : Replacing(b)' => Replacing(b) /\ rotation'[b].new = rotation[b].new
      BY <1>2, <2>3 DEF Replacing, n
    <2>5. OwnKeys'
      BY <2>4 DEF OwnKeys, LineageInv
    <2>6. Marked'
      <3> SUFFICES ASSUME NEW b \in Actors
                   PROVE  /\ rotation'[b].pc = "bump" => store'[rotation'[b].new].from = 0
                          /\ rotation'[b].pc = "retire" => store'[rotation'[b].new].from = rotation'[b].key
        BY DEF Marked
      <3>1. CASE b = a
        BY <2>1, <2>2, <2>3, <3>1
      <3>2. CASE b # a
        <4>1. rotation'[b] = rotation[b]
          BY <2>3, <3>2
        <4>2. /\ rotation[b].pc = "bump" => store[rotation[b].new].from = 0
              /\ rotation[b].pc = "retire" => store[rotation[b].new].from = rotation[b].key
          BY DEF LineageInv, Marked
        <4>3. Replacing(b) => rotation[b].new # n /\ rotation[b].new \in Key
          <5>1. Replacing(a)
            BY <1>2 DEF Replacing
          <5>2. Replacing(b) => rotation[b].new # n
            BY <3>2, <5>1 DEF LineageInv, OwnKeys, n
          <5> QED
            BY <1>1, <5>2
        <4> QED
          BY <2>2, <4>1, <4>2, <4>3 DEF Replacing
      <3> QED
        BY <3>1, <3>2
    <2>7. \A j : Unset(j)' => Unset(j)
      BY <2>3 DEF Unset
    <2>8. Unset(n)
      BY <1>2 DEF Unset, n
    <2>9. ASSUME NEW j \in Key, NEW m \in Key, m \notin hasty'
          PROVE  Follows(store', j, m) /\ Follows(disk', j, m) /\ (store'[m].from = j => ~Unset(j)')
      <3>1. Follows(store, j, m) /\ Follows(disk, j, m) /\ (store[m].from = j => ~Unset(j))
        BY <1>4, <2>9 DEF LineageInv, Descent
      <3>2. CASE m = n
        <4>1. store'[k] = store[k] /\ ~Unset(k)
          BY <1>1, <1>4, <2>2, <2>9, <3>2
        <4>2. Follows(store', j, m)
          <5>1. store'[n].from = k /\ store'[n].version = store'[k].version + 1
            BY <2>1, <2>2, <4>1 DEF v
          <5> QED
            BY <3>2, <5>1 DEF Follows
        <4> QED
          BY <1>2, <2>1, <2>2, <2>7, <3>1, <3>2, <4>1, <4>2 DEF Follows
      <3>3. CASE m # n
        <4>1. store'[m] = store[m] /\ (store[m].from = j => store'[j] = store[j])
          BY <2>2, <2>8, <3>1, <3>3
        <4> QED
          BY <1>2, <2>7, <3>1, <4>1 DEF Follows
      <3> QED
        BY <3>2, <3>3
    <2>10. Descent'
      BY <2>9 DEF Descent, Follows, Unset
    <2>11. ASSUME NEW r \in completed
           PROVE  Names(store'[r[2]], r[1]) /\ Names(disk[r[2]], r[1])
      <3>1. Names(store[r[2]], r[1]) /\ Names(disk[r[2]], r[1])
        BY DEF LineageInv, Origins
      <3>2. r[2] # n
        <4>1. store[n].from = 0 /\ store[n].status # "none"
          BY <1>2, <1>4 DEF LineageInv, Marked, Known, n
        <4>2. r[1] # 0
          BY <1>1
        <4> QED
          BY <3>1, <4>1, <4>2 DEF Names
      <3> QED
        BY <1>1, <2>2, <3>1, <3>2
    <2>12. Origins'
      BY <1>2, <2>11 DEF Origins
    <2> QED
      BY <2>5, <2>6, <2>10, <2>12 DEF LineageInv
  <1> QED
    BY <1>3, <1>4 DEF Bump, Unset

(* The next process has forgotten the rotations.                           *)
LEMMA CrashLineage ==
    ASSUME RotationInv, LineageInv, Crash
    PROVE  LineageInv'
  <1>1. /\ UNCHANGED <<disk, completed, hasty>>
        /\ \A k \in Key : store'[k] = disk[k] \/ store'[k] = NoKey
        /\ \A a \in Actors : rotation'[a].pc = "idle"
    BY CrashStep
  <1>2. /\ Key = 1 .. MaxKeys /\ MaxKeys \in Nat /\ NoKey.status = "none" /\ NoKey.from = 0
        /\ \A r \in completed : r[1] \in Key /\ r[2] \in Key
    BY LineageTypes
  <1>3. OwnKeys' /\ Marked'
    BY <1>1 DEF OwnKeys, Marked, Replacing
  <1>4. ASSUME NEW k \in Key, NEW n \in Key, n \notin hasty
        PROVE  Follows(store', k, n) /\ Follows(disk, k, n) /\ ~Unset(k)'
    <2>1. Follows(disk, k, n)
      BY <1>4 DEF LineageInv, Descent
    <2>2. Follows(store', k, n)
      BY <1>1, <1>2, <2>1 DEF Follows
    <2> QED
      BY <1>1, <2>1, <2>2 DEF Unset
  <1>5. Descent'
    BY <1>1, <1>4 DEF Descent, Follows, Unset
  <1>6. Origins'
    BY <1>1, <1>2 DEF LineageInv, Origins, Names
  <1> QED
    BY <1>3, <1>5, <1>6 DEF LineageInv

(* ... so a new key keeps naming the key it replaced, and stays one version *)
(* later, through failed writes and crashes, if that key had its own        *)
(* version when it was read.                                               *)
THEOREM LineageOutlivesCrash == Spec => []LineageIsKept
  <1>1. Init => LineageInv
    <2> SUFFICES ASSUME Init PROVE LineageInv
      OBVIOUS
    <2>1. /\ \A k \in Key : store[k] = NoKey /\ disk[k] = NoKey
          /\ \A a \in Actors : rotation[a].pc = "idle"
          /\ completed = {} /\ NoKey.status = "none" /\ NoKey.from = 0 /\ 0 \notin Key
      BY DEF Init, KeyInit, NoRotation, NoKey, Key
    <2>2. OwnKeys /\ Marked /\ Origins
      BY <2>1 DEF OwnKeys, Marked, Origins, Replacing
    <2>3. Descent
      BY <2>1 DEF Descent, Follows, Unset
    <2> QED
      BY <2>2, <2>3 DEF LineageInv
  <1>2. RotationInv /\ LineageInv /\ RotationInv' /\ [Next]_vars => LineageInv'
    <2> SUFFICES ASSUME RotationInv, LineageInv, RotationInv', [Next]_vars PROVE LineageInv'
      OBVIOUS
    <2> QED
      BY CreateLineage, BumpLineage, RetireLineage, KeyLineage, OtherLineage, CrashLineage
         DEF Next, Rotate
  <1>3. RotationInv /\ LineageInv => LineageIsKept
    <2> SUFFICES ASSUME RotationInv, LineageInv, NEW r \in completed, disk[r[2]].status # "none"
                 PROVE  /\ disk[r[2]].from = r[1] /\ disk[r[2]].version >= 2
                        /\ disk[r[1]].status # "none" /\ r[2] \notin hasty =>
                                disk[r[2]].version = disk[r[1]].version + 1
      BY DEF LineageIsKept
    <2>1. disk[r[2]].version >= 2
      BY DEF RotationInv, Rotations, Sound, HasLineage
    <2>2. disk[r[2]].from = r[1]
      BY DEF LineageInv, Origins, Names
    <2>3. r[1] \in Key /\ r[2] \in Key
      BY LineageTypes
    <2> QED
      BY <2>1, <2>2, <2>3 DEF LineageInv, Descent, Follows
  <1> QED
    BY <1>1, <1>2, <1>3, RotationInvariant, PTL DEF Spec

(* No interleaving of rotations, writes that fail and crashes takes the     *)
(* active key from a line of keys in the file, other than one that a failed *)
(* load left out.                                                          *)
THEOREM AlwaysAnActiveKey == Spec => NeverWithout
  <1>1. RotationInv /\ [Next]_vars =>
            [/\ Lines(disk) \subseteq Lines(disk') \cup LinesOf(unread)
             /\ crashes' = crashes => Lines(store) \subseteq Lines(store')]_vars
    BY EveryStep
  <1> QED
    BY <1>1, RotationInvariant, PTL DEF Spec, NeverWithout

(* Nor does one make a key younger.                                        *)
THEOREM NoKeyComesBack == Spec => KeysOnlyAge
  <1>1. RotationInv /\ [Next]_vars =>
            [\A k \in Key :
                /\ disk[k].status = "RETIRED" => disk'[k].status # "ACTIVE"
                /\ disk[k].status = "none" => disk'[k].status # "RETIRED"
                /\ k <= created /\ ~Known(k) => disk'[k].status \in {disk[k].status, "none"}]_vars
    BY EveryStep DEF OnlyAges
  <1> QED
    BY <1>1, RotationInvariant, PTL DEF Spec, KeysOnlyAge
================================================================================
