--------------------------- MODULE RuntimeService ---------------------------
(***************************************************************************)
(* What the robot of robot.cc promises to the node that owns it: it is     *)
(* started, it serves, a serial error takes it down, it comes back, and it *)
(* is closed once. "down" is the time in which callbacks find no motors.   *)
(***************************************************************************)

VARIABLE phase

Phases == {"starting", "serving", "faulted", "down", "closing", "closed"}

Init == phase = "starting"

\* The constructor ends; an error may have been flagged meanwhile. Or it
\* throws.
Start == phase = "starting" /\ phase' \in {"serving", "faulted", "closing"}

Fault == phase = "serving" /\ phase' = "faulted"

\* An error is answered by tearing the runtime down, and by nothing else.
TakeDown == phase = "faulted" /\ phase' = "down"

\* It is built up again; an error flagged meanwhile is not forgotten.
BringBack == phase = "down" /\ phase' \in {"serving", "faulted"}

Close ==
  \/ phase \in {"serving", "faulted", "down"} /\ phase' = "closing"
  \/ phase = "closing" /\ phase' = "closed"

Next == Start \/ Fault \/ TakeDown \/ BringBack \/ Close

Spec == Init /\ [][Next]_phase
=============================================================================
