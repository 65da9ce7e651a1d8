---------------------------------- MODULE MCV2XNode ---------------------------------
(* Model checking of V2XNode: three nodes in a line; the first broadcasts,  *)
(* the last sends a message to one destination, and its queue holds one of  *)
(* the two.  The middle node may be started twice.  A broadcast hops twice, *)
(* so that its origin hears the echo and sends it on.                       *)
EXTENDS V2XNode

CONSTANTS a, b, c, cast, single

const_Node == {a, b, c}
const_Id == {cast, single}
const_Origin == [i \in const_Id |-> IF i = cast THEN a ELSE c]
const_Broadcast == {cast}
const_Urgency == [i \in const_Id |-> IF i = cast THEN 0 ELSE 1]
const_Link == [n \in const_Node |-> IF n = b THEN {a, c} ELSE {b}]
const_MaxStarts == [n \in const_Node |-> IF n = b THEN 2 ELSE 1]
const_Listener == {c}
const_Up == {a, c}
const_Perishable == {cast}
================================================================================
