----------------------------- MODULE MCTwinEngine -----------------------------
(* Two trains.  Train 1 starts at the first station and passes the second; train 2,
   premium, enters mid-line at the second one at the same minute.  Both end at the third,
   and all stops are on platform 1. *)
EXTENDS TwinEngine

Stop(st, arr, dep) == [station |-> st, arr |-> arr, dep |-> dep, platform |-> 1]

MCOrder == <<2, 1>>
MCPriority == <<2, 1>>
MCRoute == << <<Stop("CNB", Absent, 2), Stop("PRYJ", 5, 6), Stop("DDU", 9, 10)>>,
              <<Stop("PRYJ", 5, 6), Stop("DDU", 9, Absent)>> >>
=============================================================================
