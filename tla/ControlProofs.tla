--------------------------- MODULE ControlProofs ---------------------------
(***************************************************************************)
(* The safety properties of ControlCycle for any number of ports, commands *)
(* and faults, whatever the ports can take and whatever firmware the       *)
(* boards run.                                                             *)
(*                                                                         *)
(* What makes them inductive is the frame that stays in a port (Kept): it  *)
(* never holds a motor command older than the last broadcast or the last   *)
(* connection, and none at all while there are no boards.                  *)
(***************************************************************************)
EXTENDS ControlCycle, TLAPS

\* What the tick may send next.
Kept ==
  \A p \in Ports : frame[p].kind = "LOWCMD" =>
    /\ phase = "up"
    /\ frame[p].n > stopAt /\ frame[p].n > epoch

IInv == TypeOK /\ Kept /\ LatchSilences /\ StopReaches /\ StopHolds /\ NoReplay

-----------------------------------------------------------------------------
(* The frames the handlers make.                                           *)

LEMMA SameFrames ==
  ASSUME NEW kind \in Kinds
  PROVE  /\ Same(kind) \in [Ports -> Frames]
         /\ \A p \in Ports : Same(kind)[p].kind = kind
  BY ControlAssumption DEF Same, Frames

LEMMA HoldingFrames ==
  ASSUME NEW f \in [Ports -> Frames]
  PROVE  /\ Holding(f) \in [Ports -> Frames]
         /\ \A p \in Ports : Holding(f)[p].kind = "HOLD" \/ Holding(f)[p] = f[p]
<1>1. [kind |-> "HOLD", n |-> 0] \in Frames
  BY ControlAssumption DEF Frames, Kinds, Driving, Motion
<1> QED
  BY <1>1 DEF Holding

\* A delivery drives the ports it reaches with their frames, the others not.
LEMMA Delivered ==
  ASSUME NEW f \in [Ports -> Frames], drives \in [Ports -> Frames], Deliver(f)
  PROVE  /\ drives' \in [Ports -> Frames] /\ sentTo' \subseteq Ports
         /\ \A p \in sentTo' : drives'[p] = f[p]
         /\ \A p \in Ports \ sentTo' : drives'[p] = drives[p]
         /\ \A p \in Ports \ dead : f[p].kind \in Driving => p \in sentTo'
  BY DEF Deliver

\* A step that sends nothing keeps what is said about the sent frames.
LEMMA SilentStep ==
  ASSUME IInv, Silent, missed' = missed, latch' = latch
  PROVE  /\ drives' \in [Ports -> Frames] /\ sentTo' \subseteq Ports
         /\ LatchSilences' /\ StopReaches' /\ StopHolds' /\ NoReplay'
  BY DEF IInv, TypeOK, Silent, LatchSilences, StopReaches, StopHolds, NoReplay

\* A delivery of frames that are no motion, or that the latch allows.
LEMMA DeliveryStep ==
  ASSUME IInv, NEW f \in [Ports -> Frames], Deliver(f),
         missed' = missed, latch' = latch, stopAt' \in Nat, epoch' \in Nat,
         latch => \A p \in Ports : f[p].kind \notin Motion,
         \A p \in Ports : f[p].kind = "LOWCMD" => f[p].n > stopAt' /\ f[p].n > epoch'
  PROVE  /\ drives' \in [Ports -> Frames] /\ sentTo' \subseteq Ports
         /\ LatchSilences' /\ StopReaches' /\ StopHolds' /\ NoReplay'
<1>1. drives \in [Ports -> Frames]
  BY DEF IInv, TypeOK
<1>2. /\ drives' \in [Ports -> Frames] /\ sentTo' \subseteq Ports
      /\ \A p \in sentTo' : drives'[p] = f[p]
      /\ \A p \in Ports \ sentTo' : drives'[p] = drives[p]
  BY <1>1, Delivered
<1> QED
  BY <1>2 DEF IInv, LatchSilences, StopReaches, StopHolds, NoReplay

-----------------------------------------------------------------------------
LEMMA Initially == Init => IInv
<1> SUFFICES ASSUME Init PROVE IInv
  OBVIOUS
<1>1. "CONFIG" \in Kinds /\ "RESET" \in Kinds
  BY DEF Kinds, Driving, Motion
<1>2. /\ frame \in [Ports -> Frames] /\ drives \in [Ports -> Frames]
      /\ \A p \in Ports : frame[p].kind = "CONFIG"
  BY <1>1, SameFrames DEF Init
<1>3. TypeOK
  <2>1. cmds \in 0..MaxCmds /\ stopAt \in 0..cmds /\ epoch \in 0..cmds /\ faults \in 0..MaxFaults
    BY ControlAssumption DEF Init
  <2>2. over \in BOOLEAN /\ latch \in BOOLEAN /\ imuBad \in BOOLEAN
    BY Zenon DEF Init
  <2>3. sentTo \subseteq Ports /\ dead \subseteq Ports /\ missed \subseteq Ports
    BY DEF Init
  <2>4. phase \in {"up", "down", "probe", "polled"}
    BY DEF Init
  <2> QED
    BY <1>2, <2>1, <2>2, <2>3, <2>4 DEF TypeOK
<1> QED
  BY <1>2, <1>3 DEF Init, IInv, Kept, LatchSilences, StopReaches, StopHolds, NoReplay

LEMMA CallbackStep ==
  ASSUME IInv,
         \/ LowCmd \/ Imu
         \/ \E kind \in {"STOP", "RESET"} : Broadcast(kind)
  PROVE  IInv'
<1> USE ControlAssumption
<1>1. TypeOK /\ Kept
  BY DEF IInv
<1>2. CASE LowCmd
  <2>1. Silent /\ missed' = missed /\ latch' = latch
    BY <1>2 DEF LowCmd
  <2>2. cmds' \in 0..MaxCmds /\ cmds' = cmds + 1
    BY <1>1, <1>2 DEF LowCmd, TypeOK
  <2>3. [kind |-> "LOWCMD", n |-> cmds'] \in Frames
    BY <2>2 DEF Frames, Kinds, Driving, Motion
  <2>4. frame' \in [Ports -> Frames] /\ Kept'
    BY <1>1, <1>2, <2>2, <2>3 DEF LowCmd, TypeOK, Kept
  <2>5. TypeOK'
    BY <1>1, <1>2, <2>1, <2>2, <2>4, SilentStep DEF LowCmd, TypeOK
  <2> QED
    BY <2>1, <2>4, <2>5, SilentStep DEF IInv
<1>3. CASE Imu
  <2>1. Silent /\ missed' = missed /\ latch' = latch
    BY <1>3 DEF Imu
  <2>2. TypeOK'
    BY <1>1, <1>3, <2>1, SilentStep DEF Imu, TypeOK
  <2>3. Kept'
    BY <1>1, <1>3 DEF Imu, Kept
  <2> QED
    BY <2>1, <2>2, <2>3, SilentStep DEF IInv
<1>4. ASSUME NEW kind \in {"STOP", "RESET"}, Broadcast(kind)
      PROVE  IInv'
  <2>1. /\ missed' = missed /\ latch' = latch /\ stopAt' = cmds /\ phase' = phase
        /\ UNCHANGED <<dead, over, imuBad, cmds, epoch, faults>>
    BY <1>4 DEF Broadcast
  <2>2. /\ kind \in Kinds /\ kind \notin Motion /\ kind # "LOWCMD"
        /\ Same(kind) \in [Ports -> Frames]
        /\ \A p \in Ports : Same(kind)[p].kind = kind
    BY SameFrames DEF Kinds, Driving, Motion
  <2>3. stopAt' \in Nat /\ epoch' \in Nat /\ stopAt' \in 0..cmds'
    BY <1>1, <2>1 DEF TypeOK
  <2>4. CASE phase = "up"
    <3>1. frame' = Same(kind) /\ Deliver(Same(kind))
      BY <1>4, <2>4 DEF Broadcast
    <3>2. /\ drives' \in [Ports -> Frames] /\ sentTo' \subseteq Ports
          /\ LatchSilences' /\ StopReaches' /\ StopHolds' /\ NoReplay'
      BY <2>1, <2>2, <2>3, <3>1, DeliveryStep
    <3> QED
      BY <1>1, <2>1, <2>2, <2>3, <3>1, <3>2 DEF IInv, TypeOK, Kept
  <2>5. CASE phase # "up"
    <3>1. Silent /\ frame' = frame
      BY <1>4, <2>5 DEF Broadcast
    <3>2. /\ drives' \in [Ports -> Frames] /\ sentTo' \subseteq Ports
          /\ LatchSilences' /\ StopReaches' /\ StopHolds' /\ NoReplay'
      BY <2>1, <3>1, SilentStep
    <3> QED
      BY <1>1, <2>1, <2>3, <2>5, <3>1, <3>2 DEF IInv, TypeOK, Kept
  <2> QED
    BY <2>4, <2>5
<1> QED
  BY <1>2, <1>3, <1>4

LEMMA ResetZeroStep ==
  ASSUME IInv, NEW k \in 0..NPorts, ResetZero(k)
  PROVE  IInv'
<1> USE ControlAssumption
<1> DEFINE reset == [kind |-> "RESET", n |-> 0]
           write == [kind |-> "CONF_WRITE", n |-> 0]
<1>1. TypeOK /\ Kept
  BY DEF IInv
<1>2. reset \in Frames /\ write \in Frames /\ reset.kind \notin Motion
  BY DEF Frames, Kinds, Driving, Motion
<1>3. /\ frame' \in [Ports -> Frames]
      /\ \A p \in Ports : frame'[p] \in {reset, write, frame[p]}
  BY <1>1, <1>2 DEF ResetZero, TypeOK
<1>4. /\ sentTo' \subseteq Ports /\ drives' \in [Ports -> Frames]
      /\ \A p \in sentTo' : drives'[p] = reset
      /\ \A p \in Ports \ sentTo' : drives'[p] = drives[p]
  BY <1>1, <1>2 DEF ResetZero, TypeOK
<1>5. UNCHANGED <<phase, dead, over, latch, missed, imuBad, cmds, stopAt, epoch, faults>>
  BY DEF ResetZero
<1>6. TypeOK'
  BY <1>1, <1>3, <1>4, <1>5 DEF TypeOK
<1>7. Kept'
  BY <1>1, <1>3, <1>5 DEF Kept
<1> QED
  BY <1>2, <1>4, <1>5, <1>6, <1>7
  DEF IInv, LatchSilences, StopReaches, StopHolds, NoReplay

LEMMA TickStep == ASSUME IInv, Tick PROVE IInv'
<1> USE ControlAssumption
<1>1. TypeOK /\ Kept
  BY DEF IInv
<1>2. /\ UNCHANGED <<phase, dead, over, imuBad, cmds, stopAt, epoch, faults>>
      /\ phase = "up" /\ frame' = Holding(AfterLimit(frame))
  BY DEF Tick, SendFrames
<1>3. /\ Same("STOP") \in [Ports -> Frames]
      /\ \A p \in Ports : Same("STOP")[p].kind = "STOP"
  BY SameFrames DEF Kinds, Driving
<1>4. /\ AfterLimit(frame) \in [Ports -> Frames]
      /\ \A p \in Ports : \/ AfterLimit(frame)[p].kind = "STOP"
                          \/ AfterLimit(frame)[p] = frame[p]
  BY <1>1, <1>3 DEF AfterLimit, TypeOK
<1>5. /\ frame' \in [Ports -> Frames]
      /\ \A p \in Ports : frame'[p].kind \in {"HOLD", "STOP"} \/ frame'[p] = frame[p]
  BY <1>2, <1>4, HoldingFrames
<1>6. Kept'
  BY <1>1, <1>2, <1>5 DEF Kept
<1>7. stopAt' \in Nat /\ epoch' \in Nat
  BY <1>1, <1>2 DEF TypeOK
<1>8. CASE Exceeded
  <2>1. Deliver(Same("STOP")) /\ missed' = dead /\ latch' = TRUE /\ ~latch
    BY <1>8 DEF Tick, SendFrames, Exceeded
  <2>2. /\ drives' \in [Ports -> Frames] /\ sentTo' \subseteq Ports
        /\ \A p \in sentTo' : drives'[p].kind = "STOP"
        /\ \A p \in Ports \ dead : p \in sentTo'
    BY <1>1, <1>3, <2>1, Delivered DEF TypeOK, Driving
  <2>3. TypeOK'
    BY <1>1, <1>2, <1>5, <2>1, <2>2 DEF TypeOK
  <2> QED
    BY <1>6, <2>1, <2>2, <2>3
    DEF IInv, LatchSilences, StopReaches, StopHolds, NoReplay, Motion
<1>9. CASE ~Exceeded
  <2>1. missed' = missed /\ latch' = latch
    BY <1>1, <1>9 DEF Tick, Exceeded, TypeOK
  <2>2. Silent \/ (~latch /\ Deliver(frame'))
    BY <1>9 DEF Tick, SendFrames
  <2>3. /\ drives' \in [Ports -> Frames] /\ sentTo' \subseteq Ports
        /\ LatchSilences' /\ StopReaches' /\ StopHolds' /\ NoReplay'
    <3>1. CASE Silent
      BY <2>1, <3>1, SilentStep
    <3>2. CASE ~latch /\ Deliver(frame')
      BY <1>5, <1>6, <1>7, <2>1, <3>2, DeliveryStep DEF Kept
    <3> QED
      BY <2>2, <3>1, <3>2
  <2>4. TypeOK'
    BY <1>1, <1>2, <1>5, <2>1, <2>3 DEF TypeOK
  <2> QED
    BY <1>6, <2>3, <2>4 DEF IInv
<1> QED
  BY <1>8, <1>9

\* The hold of a tilted robot throws out of the connection.
QueryThrows == HoldThrows /\ Cleanup /\ UNCHANGED faults

LEMMA RecoveryStep ==
  ASSUME IInv,
         \/ MotorExceeds \/ (\E p \in Ports : LineFails(p))
         \/ Clear \/ ProbeThrows \/ QueryThrows \/ Connect \/ Connected
  PROVE  IInv'
<1> USE ControlAssumption
<1>1. TypeOK /\ Kept
  BY DEF IInv
<1>2. Silent /\ missed' = missed /\ latch' = latch /\ stopAt' = stopAt /\ cmds' = cmds
  BY DEF MotorExceeds, LineFails, Clear, ProbeThrows, QueryThrows, Cleanup, Connect, Connected
<1>3. /\ \A kind \in {"EMPTY", "CONFIG"} :
           /\ Same(kind) \in [Ports -> Frames]
           /\ \A p \in Ports : Same(kind)[p].kind = kind
  BY SameFrames DEF Kinds
<1>4. /\ frame' \in [Ports -> Frames]
      /\ \/ \A p \in Ports : frame'[p].kind \in {"EMPTY", "CONFIG"}
         \/ frame' = frame /\ epoch' = epoch /\ (phase = "up" => phase' = "up")
  BY <1>1, <1>3
  DEF MotorExceeds, LineFails, Clear, ProbeThrows, QueryThrows, Cleanup, Connect, Connected, TypeOK
<1>5. Kept'
  BY <1>1, <1>2, <1>4 DEF Kept
<1>6. /\ drives' \in [Ports -> Frames] /\ sentTo' \subseteq Ports
      /\ LatchSilences' /\ StopReaches' /\ StopHolds' /\ NoReplay'
  BY <1>2, SilentStep
<1>7. /\ phase' \in {"up", "down", "probe", "polled"}
      /\ over' \in BOOLEAN /\ imuBad' = imuBad /\ dead' \subseteq Ports
      /\ epoch' \in {epoch, cmds} /\ faults' \in 0..MaxFaults
  <2>1. CASE MotorExceeds
    BY <1>1, <2>1 DEF MotorExceeds, TypeOK
  <2>2. CASE \E p \in Ports : LineFails(p)
    BY <1>1, <2>2 DEF LineFails, TypeOK
  <2>3. CASE Clear \/ QueryThrows
    BY <1>1, <2>3 DEF Clear, QueryThrows, Cleanup, TypeOK
  <2>4. CASE ProbeThrows
    <3>1. faults' \in 0..MaxFaults
      BY <1>1, <2>4 DEF ProbeThrows, TypeOK
    <3>2. phase' = "down" /\ over' = FALSE /\ dead' = {} /\ UNCHANGED <<imuBad, epoch>>
      BY <2>4 DEF ProbeThrows, Cleanup
    <3> QED
      BY <3>1, <3>2
  <2>5. CASE Connect \/ Connected
    BY <1>1, <2>5 DEF Connect, Connected, TypeOK
  <2> QED
    BY <2>1, <2>2, <2>3, <2>4, <2>5
<1>8. epoch' \in 0..cmds'
  BY <1>1, <1>2, <1>7 DEF TypeOK
<1>9. TypeOK'
  BY <1>1, <1>2, <1>4, <1>6, <1>7, <1>8 DEF TypeOK
<1> QED
  BY <1>5, <1>6, <1>9 DEF IInv

LEMMA QueryStep ==
  ASSUME IInv, Query, ~(OldBoards /\ HoldThrows)
  PROVE  IInv'
<1> USE ControlAssumption
<1>1. TypeOK /\ Kept
  BY DEF IInv
<1>2. UNCHANGED <<dead, over, latch, missed, imuBad, cmds, stopAt, epoch, faults>>
      /\ phase' = "polled"
  BY DEF Query
<1>3. \A kind \in {"ZERO", "CONFIG"} :
        /\ Same(kind) \in [Ports -> Frames]
        /\ \A p \in Ports : Same(kind)[p].kind = kind
  BY SameFrames DEF Kinds, Driving, Motion
<1>4. /\ frame' \in [Ports -> Frames]
      /\ \A p \in Ports : frame'[p].kind \in {"HOLD", "ZERO", "CONFIG"}
  BY <1>3, HoldingFrames DEF Query
<1>5. Kept'
  BY <1>4 DEF Kept
<1>6. stopAt' \in Nat /\ epoch' \in Nat
  BY <1>1, <1>2 DEF TypeOK
<1>7. Silent \/ (~latch /\ Deliver(frame'))
  BY DEF Query
<1>8. /\ drives' \in [Ports -> Frames] /\ sentTo' \subseteq Ports
      /\ LatchSilences' /\ StopReaches' /\ StopHolds' /\ NoReplay'
  <2>1. CASE Silent
    BY <1>2, <2>1, SilentStep
  <2>2. CASE ~latch /\ Deliver(frame')
    BY <1>2, <1>4, <1>6, <2>2, DeliveryStep
  <2> QED
    BY <1>7, <2>1, <2>2
<1>9. TypeOK'
  BY <1>1, <1>2, <1>4, <1>8 DEF TypeOK
<1> QED
  BY <1>5, <1>8, <1>9 DEF IInv

LEMMA Stutter == IInv /\ UNCHANGED vars => IInv'
  BY DEF IInv, TypeOK, Kept, LatchSilences, StopReaches, StopHolds, NoReplay, vars

THEOREM Invariance == Spec => []IInv
<1>1. IInv /\ [Next]_vars => IInv'
  <2>1. Query /\ OldBoards /\ HoldThrows => QueryThrows
    BY DEF Query, QueryThrows
  <2> QED
    BY <2>1, CallbackStep, ResetZeroStep, TickStep, RecoveryStep, QueryStep, Stutter DEF Next
<1> QED
  BY Initially, <1>1, PTL DEF Spec

\* The frames, the latch and the counters stay in their types.
THEOREM TypeCorrect == Spec => []TypeOK
  BY Invariance, PTL DEF IInv

\* After a joint limit nothing on the command path of robot.cc moves a motor.
THEOREM LatchIsSilent == Spec => []LatchSilences
  BY Invariance, PTL DEF IInv

\* The stop of a joint limit reaches every port whose line works then.
THEOREM StopIsBroadcast == Spec => []StopReaches
  BY Invariance, PTL DEF IInv

\* No tick undoes a stop or reset broadcast with an older motor command.
THEOREM StopsHold == Spec => []StopHolds
  BY Invariance, PTL DEF IInv

\* No motor command survives a reconnection.
THEOREM ReconnectForgets == Spec => []NoReplay
  BY Invariance, PTL DEF IInv
=============================================================================
