--------------------------- MODULE MCJointStates ---------------------------
(***************************************************************************)
(* TLC instances of JointStates: two motors, the second one swings.        *)
(***************************************************************************)
EXTENDS JointStates

TwoPlaces == {10, 20}
=============================================================================
