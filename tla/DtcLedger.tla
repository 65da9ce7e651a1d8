------------------------------- MODULE DtcLedger -------------------------------
(***************************************************************************)
(* What the trouble-code store promises: for every code, how often it was  *)
(* reported since the last clear and the worst severity it was reported    *)
(* with.  It has room for Capacity codes and turns away reports of other   *)
(* codes only when it is full.  Clearing is all or nothing.                *)
(*                                                                         *)
(* `reports' is what was reported, `ledger' what of it the store shows.  A *)
(* report changes both in one step, so an implementation whose store       *)
(* misses one, or forgets some without a clear, is no implementation.      *)
(***************************************************************************)
EXTENDS Integers, FiniteSets

CONSTANTS Codes, OccurrenceCap, Capacity

VARIABLES reports, ledger

vars == <<reports, ledger>>

Entry == [hits : 0 .. OccurrenceCap, worst : -1 .. 3]

Blank == [c \in Codes |-> [hits |-> 0, worst |-> -1]]

Init == reports = Blank /\ ledger = Blank

Worse(a, b) == IF a > b THEN a ELSE b

(* An entry after one more report. *)
Counted(e, sev) ==
    [hits  |-> IF e.hits < OccurrenceCap THEN e.hits + 1 ELSE e.hits,
     worst |-> Worse(sev, e.worst)]

Recorded == {c \in Codes : ledger[c].hits > 0}

TakesIn(c) == c \in Recorded \/ Cardinality(Recorded) < Capacity

Report(c, sev) ==
    /\ reports' = [reports EXCEPT ![c] = Counted(@, sev)]
    /\ ledger' = IF TakesIn(c) THEN [ledger EXCEPT ![c] = Counted(@, sev)] ELSE ledger

Clear == reports' = Blank /\ ledger' = Blank

Next == Clear \/ \E c \in Codes, sev \in 0 .. 3 : Report(c, sev)

Spec == Init /\ [][Next]_vars
================================================================================
