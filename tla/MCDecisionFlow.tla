--------------------------- MODULE MCDecisionFlow ---------------------------
(* Small instances of DecisionFlow: options on shared and on separate platforms. *)
EXTENDS DecisionFlow

CONSTANTS c1, o1, o2, o3, p1, p2

\* Two options onto platform p1, a third onto p2.
MCResourceOf == [o \in Options |-> IF o = o3 THEN p2 ELSE p1]
=============================================================================
