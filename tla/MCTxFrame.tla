----------------------------- MODULE MCTxFrame -----------------------------
(***************************************************************************)
(* TxFrame with two motors on a port of 15 words of payload.  With the ids *)
(* 3 and 1, in either order, a kind of five words a slot just fits; with   *)
(* the ids 4 and 2 a kind of four or five words has no room.  Motors are   *)
(* told a plain value, ones beyond an int16_t on either side, one beyond   *)
(* an int32_t (scaled down), and NaN.                                      *)
(***************************************************************************)
EXTENDS TxFrame

TwoMotors == {<<3, 1>>, <<1, 3>>, <<4, 2>>}
AllControls == (1..6) \cup (9..12)
Told == {0, 40000, -40000, 100001, NaN}
Mark == -32768
=============================================================================
