--------------------------- MODULE MCControlCycle ---------------------------
(***************************************************************************)
(* ControlCycle with three ports: two of them so that a broadcast can miss *)
(* one, and a third whose motors refuse a command and have ids that the    *)
(* hold command has no room for, so that commands and ticks throw half way.*)
(***************************************************************************)
EXTENDS ControlCycle

LastPort == {NPorts}
=============================================================================
