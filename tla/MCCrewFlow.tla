------------------------------ MODULE MCCrewFlow ------------------------------
(* Two trains, crews 1 and 2 on them, spare crews 3 and 4.  Both trains pass the base of
   crew 3; only train 1 passes that of crew 4, and later.  A delay of 2 puts the crew of
   either train over its limit. *)
EXTENDS CrewFlow

MCTrains == {1, 2}
MCCrews == 1 .. 4
MCOptions == MCTrains \X MCCrews \X MCCrews
MCConflicts == MCTrains \X MCCrews \X SUBSET MCCrews
MCResourceOf == [o \in MCOptions |-> o[3]]
MCFirstCrew == <<1, 2>>
MCDutyLimit == <<6, 6, Absent, Absent>>
MCEndOfRun == <<5, 5>>
MCLeaves == << <<Absent, Absent, 1, 4>>, <<Absent, Absent, 1, Absent>> >>
=============================================================================
