-------------------------- MODULE MCFrameReceiver --------------------------
(***************************************************************************)
(* FrameReceiver with a buffer of three bytes and three shapes of frames:  *)
(* one byte of payload, three bytes with a 0xF7 in the CRC16 before them,  *)
(* and one byte of payload that is 0xF7 itself.                            *)
(***************************************************************************)
EXTENDS FrameReceiver

ShortAndLong ==
  {[len |-> 1, heads |-> {}], [len |-> 3, heads |-> {6}], [len |-> 1, heads |-> {8}]}
=============================================================================
