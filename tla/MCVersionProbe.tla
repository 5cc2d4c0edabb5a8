--------------------------- MODULE MCVersionProbe ---------------------------
(***************************************************************************)
(* TLC instances of VersionProbe: boards of 3.0 and 4.1 and motors of      *)
(* three firmware generations, each possible at every port.                *)
(***************************************************************************)
EXTENDS VersionProbe

OneEach == [m \in 1..2 |-> m]
Generations == {30, 41}
ThreeFirmwares == {Combined(4, 2, 0), Combined(4, 4, 6), Combined(5, 0, 0)}
=============================================================================
