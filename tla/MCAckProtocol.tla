--------------------------- MODULE MCAckProtocol ---------------------------
(***************************************************************************)
(* Two motors are enough for one to answer and the other not to; two tries *)
(* for a command to be answered twice; two operations for the answers to   *)
(* one to arrive in the other.                                             *)
(***************************************************************************)
EXTENDS AckProtocol, TLC

CONSTANTS m1, m2
MCMotors == {m1, m2}
MotorSymmetry == Permutations(MCMotors)
=============================================================================
