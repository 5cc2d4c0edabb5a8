------------------------------ MODULE TxFrame ------------------------------
(***************************************************************************)
(* The transmit frame of a CAN port, cdc_tr_message_s, word by word.  All  *)
(* commands share one payload: each kind divides it into slots of its own  *)
(* width, and slot id - 1 belongs to the motor with that id.  The frame is *)
(* kept between commands and sent again by every tick, so whatever is left *)
(* in it is a command.                                                     *)
(*                                                                         *)
(* A word says which command wrote it and for whom, 0 if none has, and     *)
(* holds the value `raw` that the motor gets.                              *)
(***************************************************************************)
EXTENDS Integers, Sequences

CONSTANTS
  Orders,       \* the ids of a port's motors in the order of the configuration
  Untyped,      \* motors without a torque conversion (type "NULL")
  Words,        \* kCdcTrMessageDataLen / sizeof(int16_t)
  Controls,     \* values of control_type
  Limit,        \* 32700, where int16_limit saturates
  NoCommand,    \* kPositionNoCommand, which no int16_limit may return
  IntMax,       \* the largest int32_t
  NaN,          \* what is not a number
  Values,       \* what motors may be told, in units of the wire: numbers and NaN
  MaxCmds       \* bound: commands given

AllIds == UNION {{o[i] : i \in 1..Len(o)} : o \in Orders}

ASSUME FrameAssumption ==
  /\ \A o \in Orders :
       /\ o \in Seq(1..Words) /\ o # <<>>
       /\ \A i, j \in 1..Len(o) : o[i] = o[j] => i = j
  /\ Untyped \subseteq AllIds /\ Words \in Nat \ {0} /\ MaxCmds \in Nat
  /\ Controls \subseteq (1..6) \cup (9..12)
  /\ Limit \in Nat /\ IntMax \in Nat /\ Limit <= IntMax
  /\ NoCommand \in Int /\ NoCommand < -Limit
  /\ Values \subseteq Int \cup {NaN} /\ 0 \in Values

\* Words of a slot, and how many of them are written before one that needs the
\* torque conversion of the motor; a slot written in full does not need it.
Width(k) ==
  CASE k \in {"POSITION", "VELOCITY", "TORQUE", "VOLTAGE", "CURRENT", "TIME_OUT"} -> 1
    [] k \in {"POS_VEL_TQE", "POS_VEL_ACC"} -> 3
    [] k = "POS_VEL_KP_KD" -> 4
    [] k \in {"POS_VEL_TQE_KP_KD", "POS_VEL_TQE_KP_KD2"} -> 5

Plain(k) ==
  IF k = "TORQUE" THEN 0
  ELSE IF k \in {"POS_VEL_TQE", "POS_VEL_KP_KD", "POS_VEL_TQE_KP_KD", "POS_VEL_TQE_KP_KD2"}
    THEN 2
  ELSE Width(k)

\* fresh_cmd_int16
KindOf(c) ==
  CASE c = 1 -> "POSITION" [] c = 2 -> "VELOCITY" [] c = 3 -> "TORQUE"
    [] c = 4 -> "VOLTAGE" [] c = 5 -> "CURRENT" [] c = 6 -> "POS_VEL_TQE"
    [] c = 9 -> "POS_VEL_TQE_KP_KD" [] c = 10 -> "POS_VEL_KP_KD"
    [] c = 11 -> "POS_VEL_ACC" [] c = 12 -> "POS_VEL_TQE_KP_KD2"

HoldKind == "POS_VEL_TQE_KP_KD"
MotorKinds == {KindOf(c) : c \in Controls} \cup {HoldKind, "VELOCITY"}
Broadcasts == {"STOP", "RESET", "MOTOR_STATE"}

\* The kinds whose slots begin with a position.
Positioned == {"POSITION"} \cup {k \in MotorKinds : Width(k) > 1}

VARIABLES
  order,    \* the motors of the port
  control,  \* control_type
  frame,    \* tx_message_: the kind, the words that are sent, the payload
  n         \* commands given

vars == <<order, control, frame, n>>

Ids == {order[i] : i \in 1..Len(order)}
NMotors == Len(order)                                   \* motor_num_
MaxId == CHOOSE m \in Ids : \A i \in Ids : i <= m       \* max_motor_id_

\* Nothing is commanded: a position says so itself, everything else is zero.
Neutral(k, w) ==
  [n |-> 0, to |-> 0,
   raw |-> IF k \in Positioned /\ (w - 1) % Width(k) = 0 THEN NoCommand ELSE 0]

Init ==
  /\ order \in Orders
  /\ control \in Controls
  /\ frame = [cmd |-> "NONE", len |-> 0, data |-> [w \in 1..Words |-> [n |-> 0, to |-> 0, raw |-> 0]]]
  /\ n = 0

\* Mutant: saturates at the least value of an int16_t.
LimitedToInt16(x) == IF x >= Limit THEN Limit ELSE IF x <= NoCommand THEN NoCommand ELSE x

\* int16_limit
Limited(x) == IF x >= Limit THEN Limit ELSE IF x <= -Limit THEN -Limit ELSE x

\* The conversion of a float to the int32_t that int16_limit takes. Out of its
\* range it is undefined: processors saturate, or give the smallest int32_t;
\* of NaN they make 0 or the smallest.
ToInt32(v) ==
  IF v = NaN THEN {0, -IntMax - 1}
  ELSE IF v > IntMax THEN {IntMax, -IntMax - 1}
  ELSE {IF v < -IntMax - 1 THEN -IntMax - 1 ELSE v}

\* pos_float2int, vel_float2int, tqe_float2int, pid_gain_float2int: what a word
\* gets for a value.
Converted(v) == {Limited(x) : x \in ToInt32(v)}

\* The word numbers of a motor's slot.
Slot(k, id) == (id - 1) * Width(k) + 1 .. id * Width(k)

\* Mutant: one slot for each motor, as in canport::set_motor_timeout.
SlotsUsedCounted(k) == NMotors * Width(k)

\* max_motor_id_ slots
SlotsUsed(k) == MaxId * Width(k)

\* Mutant: a frame that has been prepared once is not cleared again.
PreparedOnce(f, k) ==
  IF f.cmd # "NONE" THEN [f EXCEPT !.cmd = k, !.len = SlotsUsed(k)]
  ELSE [cmd |-> k, len |-> SlotsUsed(k),
        data |-> [w \in 1..Words |-> IF w <= SlotsUsed(k) THEN Neutral(k, w) ELSE f.data[w]]]

\* prepare_..._command: a frame of another kind is cleared.
Prepared(f, k) ==
  IF f.cmd = k THEN f
  ELSE [cmd |-> k, len |-> SlotsUsed(k),
        data |-> [w \in 1..Words |-> IF w <= SlotsUsed(k) THEN Neutral(k, w) ELSE f.data[w]]]

\* require_payload_capacity, which throws before anything is written
Fits(k) == MaxId <= Words \div Width(k)

\* The words of its slot that motor i writes before its torque must be
\* converted, and throws if it has no conversion.
Written(k, i) == IF order[i] \in Untyped THEN Plain(k) ELSE Width(k)

\* The loop over the motors gets to motor i if none before it throws.
Reached(k, i) == \A j \in 1..i - 1 : Written(k, j) = Width(k)

Throws(k) == ~Fits(k) \/ \E i \in 1..NMotors : Written(k, i) < Width(k)

\* The frame after every motor has been given its word r[id] by command c of
\* kind k, up to the motor that throws.
Given(f, k, c, r) ==
  IF ~Fits(k) THEN f
  ELSE [Prepared(f, k) EXCEPT !.data =
          [w \in 1..Words |->
             IF \E i \in 1..NMotors :
                  /\ Reached(k, i)
                  /\ w \in Slot(k, order[i])
                  /\ w - (order[i] - 1) * Width(k) <= Written(k, i)
             THEN LET id == (w - 1) \div Width(k) + 1 IN [n |-> c, to |-> id, raw |-> r[id]]
             ELSE @[w]]]

\* The words of all motors for values that are all of V.
Words16(V) == [Ids -> UNION {Converted(v) : v \in V}]

\* apply_motor_commands. Nothing looks at the values of the message.
LowCmd ==
  /\ n < MaxCmds
  /\ n' = n + 1
  /\ \E r \in Words16(Values) : frame' = Given(frame, KindOf(control), n', r)
  /\ UNCHANGED <<order, control>>

\* What motors can have reported, and the 999 of one that has not, which is
\* beyond the limit in any unit.
Places == {v \in Values \ {NaN} : v <= IntMax /\ v >= NoCommand}

\* send_motor_command_frame of a tilted robot: every motor is to hold its
\* place. Otherwise the tick sends the frame as it is.
TiltedTick ==
  /\ n < MaxCmds
  /\ n' = n + 1
  /\ \E r \in Words16(Places) : frame' = Given(frame, HoldKind, n', r)
  /\ UNCHANGED <<order, control>>

\* request_motor_state with old boards: velocity 0 for every motor, and then
\* send_motor_command_frame
VelocityProbe ==
  /\ n + 1 < MaxCmds
  /\ \E tilted \in BOOLEAN :
       LET still == Given(frame, "VELOCITY", n + 1, [id \in Ids |-> 0]) IN
       IF tilted /\ ~Throws("VELOCITY")
       THEN n' = n + 2 /\ \E r \in Words16(Places) : frame' = Given(still, HoldKind, n', r)
       ELSE n' = n + 1 /\ frame' = still
  /\ UNCHANGED <<order, control>>

\* set_single_byte_command_payload: kAllMotorsPayload in the first byte
Broadcast(k) ==
  /\ frame' = [cmd |-> k, len |-> 1, data |-> [frame.data EXCEPT ![1] = Neutral(k, 1)]]
  /\ UNCHANGED <<order, control, n>>

\* canport::set_motor_timeout: motor_num_ words, from the first
Timeout ==
  /\ frame' = [cmd |-> "TIME_OUT",
               len |-> IF frame.cmd = "TIME_OUT" THEN frame.len ELSE NMotors,
               data |-> [w \in 1..Words |->
                           IF w <= NMotors THEN [n |-> 0, to |-> w, raw |-> 0] ELSE frame.data[w]]]
  /\ UNCHANGED <<order, control, n>>

Next ==
  \/ LowCmd \/ TiltedTick \/ VelocityProbe \/ Timeout
  \/ \E k \in Broadcasts : Broadcast(k)

Spec == Init /\ [][Next]_vars

-----------------------------------------------------------------------------
TypeOK ==
  /\ order \in Orders /\ control \in Controls /\ n \in 0..MaxCmds
  /\ frame.cmd \in MotorKinds \cup Broadcasts \cup {"NONE", "TIME_OUT"}
  /\ frame.len \in 0..Words
  /\ frame.data \in [1..Words -> [n : 0..MaxCmds, to : 0..Words,
                                  raw : -Limit..Limit \cup {NoCommand}]]

\* Whatever commands of whatever kinds came before, the words that the frame
\* holds for a motor are sent, and are all of one command to that motor; a
\* motor that could not be given all of its command has neutral words besides.
\* Its position says "no command" when it was given none, and never otherwise:
\* whatever it was told, a word is within the limits (prepare_..._command,
\* int16_limit, kPositionNoCommand).
OneCommandPerSlot ==
  frame.cmd \in MotorKinds =>
    \A id \in Ids : \A v, w \in Slot(frame.cmd, id) :
      LET a == frame.data[v]
          b == frame.data[w]
      IN /\ w <= frame.len
         /\ \/ b = Neutral(frame.cmd, w)
            \/ b.n > 0 /\ b.to = id /\ b.raw \in -Limit..Limit
         /\ a.n = b.n \/ (id \in Untyped /\ 0 \in {a.n, b.n})

\* The command of each motor, as its slot says.
Mail ==
  [id \in AllIds |->
     IF frame.cmd \in MotorKinds /\ id \in Ids
     THEN frame.data[(id - 1) * Width(frame.cmd) + 1].n
     ELSE 0]

M == INSTANCE MotorMail WITH
       Ids <- AllIds, Kinds <- MotorKinds \cup Broadcasts \cup {"TIME_OUT"}, kind <- frame.cmd, mail <- Mail

\* The shared payload is as good as a mailbox for each motor: each has its own
\* last command of the present kind, and no other.
ImplementsMail == M!Spec
=============================================================================
