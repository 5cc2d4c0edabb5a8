---------------------------- MODULE ControlCycle ----------------------------
(***************************************************************************)
(* The command path of robot.cc: motor commands, broadcasts, the control   *)
(* tick with its joint limits and its IMU limit, and what a reconnection   *)
(* does to them.  Every port has one transmit frame (canport::tx_message_) *)
(* that all of these write and the tick sends.                             *)
(*                                                                         *)
(* Every callback holds runtime_mutex_ and so does every step of the       *)
(* recovery that touches the runtime: one action each.  A frame is what    *)
(* its command is for; a LowCmd has a number.                              *)
(***************************************************************************)
EXTENDS Naturals

CONSTANTS
  NPorts,      \* CAN ports, in the order of the loops over the boards
  Refused,     \* ports whose motors cannot take a LowCmd: fresh_cmd_int16 throws
  Wide,        \* ports with an id that pos_vel_tqe_kp_kd has no room for
  OldBoards,   \* board firmware below 4.0: the probe sends velocity 0
  MaxCmds,     \* bound: motor commands received
  MaxFaults    \* bound: serial ports lost, probes that throw

Ports == 1..NPorts

ASSUME ControlAssumption ==
  /\ NPorts \in Nat \ {0} /\ Refused \subseteq Ports /\ Wide \subseteq Ports
  /\ OldBoards \in BOOLEAN /\ MaxCmds \in Nat /\ MaxFaults \in Nat

VARIABLES
  phase,    \* "up", "down" (no boards, no motors), being connected: "probe",
            \* "polled" (the motors have been asked at least once)
  frame,    \* tx_message_ of each port
  drives,   \* the last frame that told the motors of a port to move or stop
  sentTo,   \* ports this step has driven
  dead,     \* ports whose serial line fails
  over,     \* some motor's position_limit_state_ or torque_limit_state_ is set
  latch,    \* motor_position_limit_state_ or motor_torque_limit_state_ of the robot
  missed,   \* ports that the stop of the latch could not reach
  imuBad,   \* not imu_limit_ok()
  cmds,     \* motor commands received
  stopAt,   \* cmds when the last stop or reset was asked for
  epoch,    \* cmds when the boards were last connected
  faults

vars == <<phase, frame, drives, sentTo, dead, over, latch, missed, imuBad,
          cmds, stopAt, epoch, faults>>

Connecting == phase \in {"probe", "polled"}

Motion == {"LOWCMD", "HOLD", "ZERO"}
Driving == Motion \cup {"STOP", "RESET"}
Kinds == Driving \cup {"EMPTY", "CONFIG", "CONF_WRITE"}
Frames == [kind : Kinds, n : 0..MaxCmds]

Same(kind) == [p \in Ports |-> [kind |-> kind, n |-> 0]]

\* write(2) on every line that works.
Deliver(f) ==
  LET hit == {p \in Ports \ dead : f[p].kind \in Driving} IN
  /\ sentTo' = hit
  /\ drives' = [p \in Ports |-> IF p \in hit THEN f[p] ELSE drives[p]]

Silent == sentTo' = {} /\ UNCHANGED drives

Init ==
  /\ phase = "probe"
  /\ frame = Same("CONFIG") /\ drives = Same("RESET") /\ sentTo = {}
  /\ dead = {} /\ over = FALSE /\ latch = FALSE /\ missed = {}
  /\ imuBad \in BOOLEAN
  /\ cmds = 0 /\ stopAt = 0 /\ epoch = 0 /\ faults = 0

-----------------------------------------------------------------------------
(* The callbacks of motor_driver_node.                                     *)

\* apply_motor_commands fills the frames of the ports up to the first whose
\* motors throw; it sends nothing. Without motors it does nothing.
LowCmd ==
  /\ ~Connecting
  /\ cmds < MaxCmds
  /\ cmds' = cmds + 1
  /\ frame' = [p \in Ports |->
                 IF phase = "up" /\ \A q \in Refused : p < q
                 THEN [kind |-> "LOWCMD", n |-> cmds'] ELSE frame[p]]
  /\ Silent
  /\ UNCHANGED <<phase, dead, over, latch, missed, imuBad, stopAt, epoch, faults>>

\* Mutant: the broadcast is sent in a frame of its own.
BroadcastOwnFrame(kind) ==
  /\ ~Connecting
  /\ stopAt' = cmds
  /\ IF phase = "up" THEN Deliver(Same(kind)) ELSE Silent
  /\ UNCHANGED <<phase, frame, dead, over, latch, missed, imuBad, cmds, epoch, faults>>

\* Broadcast 1 and 2. The frame stays in the port.
Broadcast(kind) ==
  /\ ~Connecting
  /\ stopAt' = cmds
  /\ IF phase = "up" THEN frame' = Same(kind) /\ Deliver(frame')
     ELSE Silent /\ UNCHANGED frame
  /\ UNCHANGED <<phase, dead, over, latch, missed, imuBad, cmds, epoch, faults>>

\* Broadcast 3, which ends with a reset on ports 1..k; when the save on the
\* next port fails it throws there, and the later ports are not touched.
ResetZero(k) ==
  /\ phase = "up"
  /\ frame' = [p \in Ports |->
                 IF p <= k THEN [kind |-> "RESET", n |-> 0]
                 ELSE IF p = k + 1 THEN [kind |-> "CONF_WRITE", n |-> 0] ELSE frame[p]]
  /\ LET hit == {p \in Ports \ dead : p <= k + 1} IN
       /\ sentTo' = hit
       /\ drives' = [p \in Ports |-> IF p \in hit THEN [kind |-> "RESET", n |-> 0] ELSE drives[p]]
  /\ UNCHANGED <<phase, dead, over, latch, missed, imuBad, cmds, stopAt, epoch, faults>>

\* update_imu_state
Imu ==
  /\ ~Connecting
  /\ imuBad' = ~imuBad
  /\ Silent
  /\ UNCHANGED <<phase, frame, dead, over, latch, missed, cmds, stopAt, epoch, faults>>

\* detect_motor_limit: the first limit stops every motor, once.
Exceeded == over /\ ~latch

\* Mutant: a wrong command byte in the frame that is left behind.
AfterLimitBrakes(f) == IF Exceeded THEN Same("BRAKE") ELSE f

AfterLimit(f) == IF Exceeded THEN Same("STOP") ELSE f

\* robot::send_motor_command_frame: with the robot tilted the frames hold the
\* motors where they are, up to the first port that has no room for it, and
\* that port throws; nothing is sent then, nor after a limit.
Holding(f) == [p \in Ports |-> IF imuBad /\ \A q \in Wide : p < q
                               THEN [kind |-> "HOLD", n |-> 0] ELSE f[p]]

HoldThrows == imuBad /\ Wide # {}

\* Mutant: the stop is only prepared, for the sending that the latch prevents.
SendFramesLater(f) ==
  /\ frame' = Holding(f)
  /\ IF Exceeded \/ latch \/ HoldThrows THEN Silent
     ELSE Deliver(frame')

SendFrames(f) ==
  /\ frame' = Holding(f)
  /\ IF Exceeded THEN Deliver(Same("STOP"))
     ELSE IF latch \/ HoldThrows THEN Silent
     ELSE Deliver(frame')

\* Mutant: no limit is looked at while the robot is tilted.
TickTilted ==
  /\ phase = "up"
  /\ SendFrames(IF imuBad THEN frame ELSE AfterLimit(frame))
  /\ latch' = (latch \/ (over /\ ~imuBad))
  /\ missed' = IF Exceeded /\ ~imuBad THEN dead ELSE missed
  /\ UNCHANGED <<phase, dead, over, imuBad, cmds, stopAt, epoch, faults>>

\* run_control_cycle
Tick ==
  /\ phase = "up"
  /\ SendFrames(AfterLimit(frame))
  /\ latch' = (latch \/ over)
  /\ missed' = IF Exceeded THEN dead ELSE missed
  /\ UNCHANGED <<phase, dead, over, imuBad, cmds, stopAt, epoch, faults>>

-----------------------------------------------------------------------------
(* The motors, the lines and the recovery.                                 *)

\* fresh_data, in a receive thread.
MotorExceeds ==
  /\ phase # "down"
  /\ ~over
  /\ over' = TRUE
  /\ Silent
  /\ UNCHANGED <<phase, frame, dead, latch, missed, imuBad, cmds, stopAt, epoch, faults>>

LineFails(p) ==
  /\ phase # "down"
  /\ p \notin dead
  /\ faults < MaxFaults
  /\ faults' = faults + 1
  /\ dead' = dead \cup {p}
  /\ Silent
  /\ UNCHANGED <<phase, frame, over, latch, missed, imuBad, cmds, stopAt, epoch>>

\* cleanup_runtime: the boards, their frames and the motors are gone, the
\* latch of the robot is not.
Cleanup ==
  /\ phase' = "down"
  /\ over' = FALSE
  /\ frame' = Same("EMPTY")
  /\ dead' = {}
  /\ Silent
  /\ UNCHANGED <<latch, missed, imuBad, cmds, stopAt, epoch>>

Clear == phase = "up" /\ dead # {} /\ Cleanup /\ UNCHANGED faults

ProbeThrows ==
  /\ Connecting /\ faults < MaxFaults
  /\ faults' = faults + 1
  /\ Cleanup

Connect ==
  /\ phase = "down"
  /\ phase' = "probe"
  /\ epoch' = cmds
  /\ frame' = Same("CONFIG")
  /\ Silent
  /\ UNCHANGED <<dead, over, latch, missed, imuBad, cmds, stopAt, faults>>

\* Mutant: the probe sends on every port itself and does not mind the latch.
QueryPorts ==
  /\ Connecting
  /\ phase' = "polled"
  /\ IF OldBoards
     THEN frame' = Holding(Same("ZERO")) /\ Deliver(frame')
     ELSE frame' = Same("CONFIG") /\ Silent
  /\ UNCHANGED <<dead, over, latch, missed, imuBad, cmds, stopAt, epoch, faults>>

\* check_motor_connection_*: queries, or velocity 0 through the robot's own
\* send_motor_command_frame, whose hold throws out of the whole connection.
Query ==
  /\ Connecting
  /\ IF OldBoards /\ HoldThrows
     THEN Cleanup
     ELSE /\ phase' = "polled"
          /\ IF OldBoards
             THEN /\ frame' = Holding(Same("ZERO"))
                  /\ IF latch THEN Silent ELSE Deliver(frame')
             ELSE frame' = Same("CONFIG") /\ Silent
          /\ UNCHANGED <<dead, over, latch, missed, imuBad, cmds, stopAt, epoch>>
  /\ UNCHANGED faults

\* Mutant: the last motor command is put back into the frames.
ConnectedResumes ==
  /\ phase = "polled"
  /\ phase' = "up"
  /\ frame' = IF cmds = 0 THEN frame ELSE [p \in Ports |-> [kind |-> "LOWCMD", n |-> cmds]]
  /\ Silent
  /\ UNCHANGED <<dead, over, latch, missed, imuBad, cmds, stopAt, epoch, faults>>

\* The motors have answered, or the probe gives up on them.
Connected ==
  /\ phase = "polled"
  /\ phase' = "up"
  /\ Silent
  /\ UNCHANGED <<frame, dead, over, latch, missed, imuBad, cmds, stopAt, epoch, faults>>

Next ==
  \/ LowCmd \/ Broadcast("STOP") \/ Broadcast("RESET")
  \/ \E k \in 0..NPorts : ResetZero(k)
  \/ Imu \/ Tick
  \/ MotorExceeds \/ (\E p \in Ports : LineFails(p))
  \/ Clear \/ ProbeThrows \/ Connect \/ Query \/ Connected

Spec == Init /\ [][Next]_vars

\* The timer keeps ticking and the error-check thread keeps running.
Fairness ==
  /\ WF_vars(Tick) /\ WF_vars(Clear) /\ WF_vars(Connect)
  /\ WF_vars(Query) /\ WF_vars(Connected)
FairSpec == Spec /\ Fairness

-----------------------------------------------------------------------------
TypeOK ==
  /\ phase \in {"up", "down", "probe", "polled"}
  /\ frame \in [Ports -> Frames] /\ drives \in [Ports -> Frames]
  /\ sentTo \subseteq Ports /\ dead \subseteq Ports /\ missed \subseteq Ports
  /\ over \in BOOLEAN /\ latch \in BOOLEAN /\ imuBad \in BOOLEAN
  /\ cmds \in 0..MaxCmds /\ stopAt \in 0..cmds /\ epoch \in 0..cmds
  /\ faults \in 0..MaxFaults

\* Once a joint limit has stopped the robot nothing tells a motor to move: not
\* a tick, not the hold of a tilted robot, not the probe of a reconnection.
LatchSilences == latch => \A p \in sentTo : drives[p].kind \notin Motion

\* The stop of a joint limit has reached every port whose line worked then,
\* and nothing has driven that port since but a stop or a reset.
StopReaches == latch => \A p \in Ports \ missed : drives[p].kind \notin Motion

\* After a stop or a reset broadcast no older motor command is sent, although
\* the tick goes on sending the port's frame.
StopHolds == \A p \in sentTo : drives[p].kind = "LOWCMD" => drives[p].n > stopAt

\* A motor command given before a reconnection is never sent after it.
NoReplay == \A p \in sentTo : drives[p].kind = "LOWCMD" => drives[p].n > epoch

\* A motor over its limit makes the robot latch, unless the line is lost first.
LimitLatches == over ~> (latch \/ ~over)
=============================================================================
