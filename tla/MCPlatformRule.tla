--------------------------- MODULE MCPlatformRule ---------------------------
(* One station with three platforms, times in units of 5 minutes.  Trains 1    *)
(* and 5 are premium, 4 comes second, 2 and 3 last.  A late train 1 clashes    *)
(* with train 2, and trains 3 and 5 are in train 2's way on the platforms 2    *)
(* and 3, so train 1 is to move; a late train 4 clashes with train 3, which    *)
(* moves to platform 3 and leaves platform 2 to train 2, too late for train 1. *)
EXTENDS PlatformFlow

RuleTrains == 1 .. 5
RulePlatforms == 1 .. 3
RuleOptions == RuleTrains \X RulePlatforms
RuleConflicts == RuleTrains \X RuleTrains
RuleResourceOf == [o \in RuleOptions |-> o[2]]
RulePriority == <<1, 4, 4, 2, 1>>
RuleHome == <<1, 1, 2, 2, 3>>
RuleArrives == <<1, 6, 8, 4, 5>>
RuleDeparts == <<2, 8, 12, 7, 6>>
=============================================================================
