--------------------------- MODULE MCPlatformFlow ---------------------------
(* One station, times in units of 5 minutes.  Train 1 is premium; trains 2 and 3
   follow it on platform 1, 3 has the lowest priority; platform 2 is free. *)
EXTENDS PlatformFlow

CONSTANT PlatformCount

MCTrains == 1 .. 3
MCPlatforms == 1 .. PlatformCount
MCOptions == MCTrains \X MCPlatforms
MCConflicts == MCTrains \X MCTrains
MCResourceOf == [o \in MCOptions |-> o[2]]
MCPriority == <<1, 2, 4>>
MCHome == <<1, 1, 1>>
\* Train 1 passes, train 2 starts here, train 3 ends here.
MCArrives == <<0, Absent, 10>>
MCDeparts == <<1, 6, Absent>>
=============================================================================
