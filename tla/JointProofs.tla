---------------------------- MODULE JointProofs ----------------------------
(***************************************************************************)
(* What the driver publishes is what its motors reported, and what the     *)
(* oscillator holds its other motors at, for any number of motors, any     *)
(* delay of the topic and any number of lost runtimes.                     *)
(*                                                                         *)
(* The key (Kept) is that the 999 of a motor object without a report goes  *)
(* together with a time that is already stale.                             *)
(***************************************************************************)
EXTENDS JointStates, SequenceTheorems, TLAPS

\* A message with what its motors reported.
Measured(msg) == msg # None => \A m \in Motors : msg[m] \in seen[m] \cup {Stale}

\* The motor objects and the messages under way.
Kept ==
  /\ \A m \in Motors : pos[m] \in seen[m] \/ age[m] = MaxAge
  /\ \A k \in 1..Len(topic) : Measured(topic[k])
  /\ Measured(latest)

\* The types the argument needs.
Typed ==
  /\ seen \in [Motors -> SUBSET Positions] /\ real \in [Motors -> Positions]
  /\ pos \in [Motors -> Positions \cup {Uninitialized}]
  /\ age \in [Motors -> 0..MaxAge]
  /\ topic \in Seq(Message \cup {None}) /\ latest \in Message \cup {None}

IInv == Typed /\ Kept /\ HoldsMeasured

-----------------------------------------------------------------------------
\* An answer can be old enough to be stale.
LEMMA Ages == MaxAge \in Nat /\ MaxAge > StaleAfter /\ StaleAfter \in Nat
  BY JointAssumption DEF MaxAge

\* What is published is a message, and a measured one.
LEMMA Published ==
  ASSUME Typed, Kept
  PROVE  JointState \in Message \cup {None} /\ Measured(JointState)
<1>1. CASE up
  <2>1. \A m \in Motors : age[m] > StaleAfter \/ pos[m] \in seen[m]
    BY Ages DEF Kept
  <2> QED
    BY <1>1, <2>1 DEF JointState, Typed, Message, Measured
<1>2. CASE ~up
  BY <1>2 DEF JointState, Measured
<1> QED
  BY <1>1, <1>2

\* Nothing is published and no centre is taken.
LEMMA Initially == Init => IInv
<1> SUFFICES ASSUME Init PROVE IInv
  OBVIOUS
<1>1. Len(topic) = 0 /\ topic \in Seq(Message \cup {None})
  BY DEF Init
<1>2. Typed
  BY <1>1, Ages DEF Init, Typed
<1> QED
  BY <1>1, <1>2 DEF Init, IInv, Kept, Measured, HoldsMeasured

\* A report adds to what has been seen; nothing else does.
LEMMA ReportStep ==
  ASSUME IInv, NEW m \in Motors, FreshData(m)
  PROVE  IInv'
<1>1. Typed'
  BY Ages DEF IInv, Typed, FreshData, oscillator
<1>2. \A n \in Motors : seen[n] \subseteq seen'[n]
  BY DEF IInv, Typed, FreshData
<1>3. \A n \in Motors : pos'[n] \in seen'[n] \/ age'[n] = MaxAge
  BY <1>2 DEF IInv, Typed, Kept, FreshData
<1>4. UNCHANGED <<topic, latest, cmd>>
  BY DEF FreshData, oscillator
<1>5. Kept' /\ HoldsMeasured'
  BY <1>2, <1>3, <1>4 DEF IInv, Kept, Measured, HoldsMeasured
<1> QED
  BY <1>1, <1>5 DEF IInv

\* MotorDriverNode::tick publishes a position that is fresh, or the marker.
LEMMA PublishStep == ASSUME IInv, Publish PROVE IInv'
<1> DEFINE Rest == IF Len(topic) < Depth THEN topic ELSE Tail(topic)
<1>1. Typed /\ Kept /\ topic \in Seq(Message \cup {None})
  BY DEF IInv, Typed
<1>2. Rest \in Seq(Message \cup {None}) /\ \A k \in 1..Len(Rest) : Measured(Rest[k])
  <2>1. CASE Len(topic) < Depth
    BY <1>1, <2>1 DEF Kept
  <2>2. CASE ~(Len(topic) < Depth)
    <3>1. topic # <<>>
      BY <1>1, <2>2, JointAssumption
    <3>2. /\ Tail(topic) \in Seq(Message \cup {None})
          /\ \A i \in 1..Len(Tail(topic)) : i + 1 \in 1..Len(topic) /\ Tail(topic)[i] = topic[i + 1]
      BY <1>1, <3>1, HeadTailProperties
    <3> QED
      BY <1>1, <2>2, <3>2 DEF Kept
  <2> QED
    BY <2>1, <2>2
<1>3. JointState \in Message \cup {None} /\ Measured(JointState)
  BY <1>1, Published
<1>4. topic' = Append(Rest, JointState)
  BY DEF Publish
<1>5. /\ topic' \in Seq(Message \cup {None})
      /\ \A k \in 1..Len(topic') : Measured(topic'[k])
  BY <1>2, <1>3, <1>4, AppendProperties
<1>6. /\ age' \in [Motors -> 0..MaxAge]
      /\ \A m \in Motors : age[m] = MaxAge => age'[m] = MaxAge
  BY <1>1, Ages DEF Publish, Typed
<1>7. UNCHANGED <<seen, real, pos, latest, cmd>>
  BY DEF Publish, oscillator
<1> QED
  BY <1>1, <1>5, <1>6, <1>7 DEF IInv, Typed, Kept, Measured, HoldsMeasured

\* A motor moves; the runtime is lost, or is built again.
LEMMA RuntimeStep ==
  ASSUME IInv, Lose \/ Reconnect \/ (\E m \in Motors : Move(m))
  PROVE  IInv'
<1>1. UNCHANGED <<seen, topic, latest, cmd>>
  BY DEF Lose, Reconnect, Move, oscillator
<1>2. /\ real' \in [Motors -> Positions] /\ age' \in [Motors -> 0..MaxAge]
      /\ pos' \in [Motors -> Positions \cup {Uninitialized}]
      /\ \A m \in Motors : pos'[m] \in seen[m] \/ age'[m] = MaxAge
  <2>1. CASE Lose
    BY <2>1 DEF Lose, IInv, Typed, Kept
  <2>2. CASE Reconnect
    BY <2>2, Ages DEF Reconnect, IInv, Typed
  <2>3. CASE \E m \in Motors : Move(m)
    BY <2>3 DEF Move, IInv, Typed, Kept
  <2> QED
    BY <2>1, <2>2, <2>3
<1> QED
  BY <1>1, <1>2 DEF IInv, Typed, Kept, Measured, HoldsMeasured

\* joint_state_callback takes the oldest message.
LEMMA CallbackStep == ASSUME IInv, JointStateCallback PROVE IInv'
<1>1. topic # <<>> /\ topic \in Seq(Message \cup {None})
  BY DEF IInv, Typed, JointStateCallback
<1>2. /\ Tail(topic) \in Seq(Message \cup {None}) /\ Head(topic) \in Message \cup {None}
      /\ 1 \in 1..Len(topic) /\ Head(topic) = topic[1]
      /\ \A i \in 1..Len(Tail(topic)) : i + 1 \in 1..Len(topic) /\ Tail(topic)[i] = topic[i + 1]
  BY <1>1, HeadTailProperties
<1>3. topic' = Tail(topic) /\ latest' = Head(topic) /\ UNCHANGED <<seen, real, pos, age, cmd>>
  BY DEF JointStateCallback, driver
<1>4. Measured(latest') /\ \A k \in 1..Len(topic') : Measured(topic'[k])
  BY <1>2, <1>3 DEF IInv, Kept
<1> QED
  BY <1>2, <1>3, <1>4 DEF IInv, Typed, Kept, Measured, HoldsMeasured

\* publish_command sends a target, or holds.
LEMMA CommandStep == ASSUME IInv, PublishCommand PROVE IInv'
<1>1. UNCHANGED <<seen, real, pos, age, topic, latest>>
  BY DEF PublishCommand, driver
<1>2. \A m \in Motors : HoldTarget(m) \in seen[m] \cup {Hold}
  BY DEF IInv, Kept, Measured, HoldTarget, Stale
<1>3. \A m \in Motors \ {Index} : cmd'[m] = HoldTarget(m)
  BY DEF PublishCommand
<1>4. HoldsMeasured'
  BY <1>1, <1>2, <1>3 DEF HoldsMeasured
<1> QED
  BY <1>1, <1>4 DEF IInv, Typed, Kept, Measured

\* What is in the topic and in the oscillator was measured or is the marker.
THEOREM Invariance == Spec => []IInv
<1>1. IInv /\ UNCHANGED vars => IInv'
  BY DEF IInv, Typed, Kept, Measured, HoldsMeasured, vars, driver, oscillator
<1>2. IInv /\ [Next]_vars => IInv'
  BY <1>1, ReportStep, PublishStep, RuntimeStep, CallbackStep, CommandStep DEF Next
<1> QED
  BY Initially, <1>2, PTL DEF Spec

\* The driver publishes what its motors reported, or -999.
THEOREM OnlyMeasuredIsPublished == Spec => []PublishedIsMeasured
  BY Invariance, PTL DEF IInv, Kept, Measured, PublishedIsMeasured

\* The oscillator holds its other motors where they reported to be.
THEOREM HoldsWhereMeasured == Spec => []HoldsMeasured
  BY Invariance, PTL DEF IInv

-----------------------------------------------------------------------------
(* The oscillator's own state.                                             *)

\* A place in the triangle is a number, whatever its ends are.
LEMMA TriangleIsNumber ==
  ASSUME NEW lo \in Int, NEW hi \in Int, NEW k \in 0..Period - 1
  PROVE  Triangle(lo, hi, k) \in Int
<1>1. Period \in Int /\ Period > 0
  BY JointAssumption
<1>2. (hi - lo) * 2 * k \in Int /\ (hi - lo) * (2 * k - Period) \in Int
  BY <1>1
<1>3. \A x \in Int : x \div Period \in Int
  BY <1>1
<1> QED
  BY <1>1, <1>2, <1>3 DEF Triangle

\* What the callbacks of the oscillator keep, and the bounds of the queue.
Flags == up \in BOOLEAN /\ started \in BOOLEAN
Numbers ==
  /\ losses \in 0..MaxLosses /\ Len(topic) <= Depth
  /\ center \in Int /\ lower \in Int /\ upper \in Int /\ phase \in 0..Period - 1
Commands == cmd = None \/ cmd \in [Motors -> Int]
Steered == Flags /\ Numbers /\ Commands

\* Positions are numbers, and so are the marks.
LEMMA MessagesAreNumbers ==
  ASSUME NEW msg \in Message, NEW m \in Motors
  PROVE  msg[m] \in Int
<1>1. msg[m] \in Positions \cup {Stale, Uninitialized}
  BY DEF Message
<1>2. Positions \subseteq Int /\ Stale \in Int /\ Uninitialized \in Int
  BY JointAssumption DEF Stale, Uninitialized
<1> QED
  BY <1>1, <1>2

\* The driver's steps leave the oscillator alone, and the queue has room.
LEMMA DriverSteers ==
  ASSUME IInv, Steered,
         Publish \/ Lose \/ Reconnect \/ \E m \in Motors : Move(m) \/ FreshData(m)
  PROVE  Steered'
<1>1. Flags'
  BY DEF Steered, Flags, Publish, Lose, Reconnect, Move, FreshData, oscillator
<1>2. UNCHANGED <<center, lower, upper, phase, cmd>>
  BY DEF Publish, Lose, Reconnect, Move, FreshData, oscillator
<1>3. losses' \in 0..MaxLosses
  BY JointAssumption DEF Steered, Numbers, Publish, Lose, Reconnect, Move, FreshData
<1>4. Len(topic') <= Depth
  <2>1. CASE Publish
    <3>1. topic \in Seq(Message \cup {None}) /\ JointState \in Message \cup {None}
      BY Published DEF IInv, Typed
    <3>2. CASE Len(topic) < Depth
      BY <2>1, <3>1, <3>2, AppendProperties, JointAssumption DEF Publish
    <3>3. CASE ~(Len(topic) < Depth)
      <4>1. topic # <<>> /\ Len(topic) <= Depth
        BY <3>1, <3>3, JointAssumption DEF Steered, Numbers
      <4>2. Tail(topic) \in Seq(Message \cup {None}) /\ Len(Tail(topic)) = Len(topic) - 1
        BY <3>1, <4>1, HeadTailProperties
      <4> QED
        BY <2>1, <3>1, <3>3, <4>1, <4>2, AppendProperties, LenProperties, JointAssumption
        DEF Publish
    <3> QED
      BY <3>2, <3>3
  <2>2. CASE ~Publish
    BY <2>2 DEF Steered, Numbers, Lose, Reconnect, Move, FreshData
  <2> QED
    BY <2>1, <2>2
<1>5. Numbers' /\ Commands'
  BY <1>2, <1>3, <1>4 DEF Steered, Numbers, Commands
<1> QED
  BY <1>1, <1>5 DEF Steered

\* A message centres the swing on a number; without one nothing changes.
LEMMA CallbackSteers == ASSUME IInv, Steered, JointStateCallback PROVE Steered'
<1>1. topic # <<>> /\ topic \in Seq(Message \cup {None})
  BY DEF JointStateCallback, IInv, Typed
<1>2. /\ Len(Tail(topic)) = Len(topic) - 1 /\ Len(topic) \in Nat
      /\ Head(topic) \in Message \cup {None}
  BY <1>1, HeadTailProperties, LenProperties
<1>3. latest' \in Message \cup {None} /\ UNCHANGED <<up, losses, cmd>> /\ topic' = Tail(topic)
  BY <1>2 DEF JointStateCallback, driver
<1>4. Len(topic') <= Depth
  BY <1>2, <1>3, JointAssumption DEF Steered, Numbers
<1>5. /\ started' \in BOOLEAN
      /\ center' \in Int /\ lower' \in Int /\ upper' \in Int /\ phase' \in 0..Period - 1
  <2>1. CASE UseCurrent /\ ~started /\ latest' # None
    <3>1. latest'[Index] \in Int
      BY <1>3, <2>1, MessagesAreNumbers, JointAssumption
    <3>2. /\ started' = TRUE /\ center' = latest'[Index] /\ phase' = 0
          /\ lower' = center' - Amplitude /\ upper' = center' + Amplitude
      BY <2>1 DEF JointStateCallback
    <3>3. 0 \in 0..Period - 1 /\ Amplitude \in Int
      BY JointAssumption
    <3> QED
      BY <3>1, <3>2, <3>3
  <2>2. CASE ~(UseCurrent /\ ~started /\ latest' # None)
    <3>1. UNCHANGED <<started, center, lower, upper, phase>>
      BY <2>2 DEF JointStateCallback
    <3> QED
      BY <3>1 DEF Steered, Flags, Numbers
  <2> QED
    BY <2>1, <2>2
<1> QED
  BY <1>3, <1>4, <1>5 DEF Steered, Flags, Numbers, Commands

\* Every motor is sent to a number.
LEMMA CommandSteers == ASSUME IInv, Steered, PublishCommand PROVE Steered'
<1>1. ASSUME NEW m \in Motors PROVE HoldTarget(m) \in Int
  <2>1. latest # None => latest[m] \in Int
    BY MessagesAreNumbers DEF IInv, Typed
  <2> QED
    BY <2>1, JointAssumption DEF HoldTarget
<1>2. Triangle(lower, upper, phase) \in Int
  BY TriangleIsNumber DEF Steered, Numbers
<1>3. cmd' \in [Motors -> Int]
  BY <1>1, <1>2 DEF PublishCommand
<1>4. phase' \in 0..Period - 1
  BY JointAssumption DEF PublishCommand, Steered, Numbers
<1>5. UNCHANGED <<up, started, losses, topic, center, lower, upper>>
  BY DEF PublishCommand, driver
<1> QED
  BY <1>3, <1>4, <1>5 DEF Steered, Flags, Numbers, Commands

\* Every variable keeps its type: the centre, the ends of the swing and every
\* command are numbers, also when -999 was taken for a position.
THEOREM TypeCorrect == Spec => []TypeOK
<1>1. Init => Steered
  <2>1. 0 \in 0..Period - 1 /\ 0 \in 0..MaxLosses /\ 0 <= Depth
    BY JointAssumption
  <2>2. Init => Numbers
    BY <2>1 DEF Init, Numbers
  <2>3. Init => Flags /\ Commands
    BY DEF Init, Flags, Commands
  <2> QED
    BY <2>2, <2>3 DEF Steered
<1>2. IInv /\ Steered /\ [Next]_vars => Steered'
  <2>1. Steered /\ UNCHANGED vars => Steered'
    BY DEF Steered, Flags, Numbers, Commands, vars, driver, oscillator
  <2> QED
    BY <2>1, DriverSteers, CallbackSteers, CommandSteers DEF Next
<1>3. IInv /\ Steered => TypeOK
  BY DEF IInv, Typed, Steered, Flags, Numbers, Commands, TypeOK
<1> QED
  BY <1>1, <1>2, <1>3, Invariance, PTL DEF Spec
=============================================================================
