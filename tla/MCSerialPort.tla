---------------------------- MODULE MCSerialPort ----------------------------
(***************************************************************************)
(* SerialPort with reads and frames of a few bytes, so that both can break *)
(* off in the middle, and buffers that hold less than a frame.             *)
(***************************************************************************)
EXTENDS SerialPort
=============================================================================
