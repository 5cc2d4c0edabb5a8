---------------------------- MODULE JointStates ----------------------------
(***************************************************************************)
(* The joint states the driver publishes and the oscillator that steers by *)
(* them: motor::fresh_data and its time stamp, append_motor_state with the *)
(* position -999 of a motor that has not answered lately, the topic, and   *)
(* the two callbacks of motor_oscillator_node.cpp.                         *)
(*                                                                         *)
(* Time is counted in control ticks and positions are integers; the topic  *)
(* keeps the last Depth messages.                                          *)
(***************************************************************************)
EXTENDS Integers, Sequences

CONSTANTS
  NMotors,      \* motors of the robot; motor_count has the same value
  Index,        \* the motor that swings (motor_index + 1)
  UseCurrent,   \* use_current_position_as_center
  Positions,    \* where a motor can be
  Amplitude,    \* amplitude
  Hold,         \* hold_position
  StaleAfter,   \* kJointStateStaleSeconds, in ticks
  Depth,        \* queue depth of the subscription
  Period,       \* commands in one period
  MaxLosses     \* bound: times the runtime is lost

Motors == 1..NMotors
Stale == -999      \* kStaleJointPosition
Uninitialized == 999

ASSUME JointAssumption ==
  /\ NMotors \in Nat \ {0} /\ Index \in Motors /\ UseCurrent \in BOOLEAN
  /\ Positions \subseteq -500..500 /\ Positions # {}
  /\ Amplitude \in 0..500 /\ Hold \in -500..500
  /\ StaleAfter \in Nat /\ Depth \in Nat \ {0} /\ Period \in Nat \ {0} /\ MaxLosses \in Nat

VARIABLES
  up,       \* the runtime has its motors
  real,     \* where each motor is
  pos, age, \* motor_back_t: position, and the ticks since its time
  seen,     \* the positions each motor has reported
  topic,    \* messages on their way to the oscillator
  latest,   \* latest_positions_
  started,  \* center_initialized_
  center, lower, upper,
  phase,    \* where in the period the next command is
  cmd,      \* the last motor command
  losses

driver == <<up, real, pos, age, seen, losses>>
oscillator == <<latest, started, center, lower, upper, phase, cmd>>
vars == <<driver, topic, oscillator>>

None == <<>>
Message == [Motors -> Positions \cup {Stale, Uninitialized}]
MaxAge == StaleAfter + 1

Init ==
  /\ up = TRUE /\ real \in [Motors -> Positions]
  /\ pos = [m \in Motors |-> Uninitialized] /\ age = [m \in Motors |-> MaxAge]
  /\ seen = [m \in Motors |-> {}] /\ losses = 0
  /\ topic = <<>> /\ latest = None
  /\ started = FALSE /\ center = 0 /\ lower = -1 /\ upper = 1
  /\ phase = 0 /\ cmd = None

-----------------------------------------------------------------------------
(* The driver.                                                             *)

Move(m) ==
  /\ \E p \in Positions \ {real[m]} : real' = [real EXCEPT ![m] = p]
  /\ UNCHANGED <<up, pos, age, seen, losses, topic, oscillator>>

\* fresh_data
FreshData(m) ==
  /\ up
  /\ pos' = [pos EXCEPT ![m] = real[m]]
  /\ age' = [age EXCEPT ![m] = 0]
  /\ seen' = [seen EXCEPT ![m] = @ \cup {real[m]}]
  /\ UNCHANGED <<up, real, losses, topic, oscillator>>

\* append_motor_state. Without motors the message is empty.
JointState ==
  IF up THEN [m \in Motors |-> IF age[m] > StaleAfter THEN Stale ELSE pos[m]]
  ELSE None

\* Mutant: the age is not looked at.
JointStateAny == IF up THEN pos ELSE None

\* A control tick publishes and time goes on; a full queue loses its oldest.
Publish ==
  /\ topic' = Append(IF Len(topic) < Depth THEN topic ELSE Tail(topic), JointState)
  /\ age' = [m \in Motors |-> IF age[m] < MaxAge THEN age[m] + 1 ELSE age[m]]
  /\ UNCHANGED <<up, real, pos, seen, losses, oscillator>>

\* Mutant: the new motors inherit the time of the old ones.
ReconnectKeepsTime ==
  /\ ~up
  /\ up' = TRUE
  /\ pos' = [m \in Motors |-> Uninitialized]
  /\ UNCHANGED <<real, age, seen, losses, topic, oscillator>>

Lose ==
  /\ up
  /\ losses < MaxLosses
  /\ losses' = losses + 1
  /\ up' = FALSE
  /\ UNCHANGED <<real, pos, age, seen, topic, oscillator>>

\* New motor objects: position 999, time 0.
Reconnect ==
  /\ ~up
  /\ up' = TRUE
  /\ pos' = [m \in Motors |-> Uninitialized]
  /\ age' = [m \in Motors |-> MaxAge]
  /\ UNCHANGED <<real, seen, losses, topic, oscillator>>

-----------------------------------------------------------------------------
(* The oscillator.                                                         *)

\* triangle_position: from lower to upper and back in a period.
Triangle(lo, up2, k) ==
  IF 2 * k < Period THEN lo + ((up2 - lo) * 2 * k) \div Period
  ELSE up2 - ((up2 - lo) * (2 * k - Period)) \div Period

\* joint_state_callback: the first message with the motor in it is the centre.
JointStateCallback ==
  /\ topic # <<>>
  /\ topic' = Tail(topic)
  /\ latest' = Head(topic)
  /\ IF UseCurrent /\ ~started /\ latest' # None
     THEN /\ started' = TRUE
          /\ center' = latest'[Index]
          /\ lower' = center' - Amplitude /\ upper' = center' + Amplitude
          /\ phase' = 0
     ELSE UNCHANGED <<started, center, lower, upper, phase>>
  /\ UNCHANGED <<driver, cmd>>

\* Mutant: any feedback will do.
HoldTargetAny(m) == IF latest # None THEN latest[m] ELSE Hold

\* Where a motor that does not swing is sent.
HoldTarget(m) ==
  IF latest # None /\ latest[m] > -900 THEN latest[m] ELSE Hold

\* publish_command
PublishCommand ==
  /\ UseCurrent => started
  /\ cmd' = [m \in Motors |->
               IF m = Index THEN Triangle(lower, upper, phase) ELSE HoldTarget(m)]
  /\ phase' = (phase + 1) % Period
  /\ UNCHANGED <<driver, topic, latest, started, center, lower, upper>>

Next ==
  \/ \E m \in Motors : Move(m) \/ FreshData(m)
  \/ Publish \/ Lose \/ Reconnect
  \/ JointStateCallback \/ PublishCommand

Spec == Init /\ [][Next]_vars

-----------------------------------------------------------------------------
TypeOK ==
  /\ up \in BOOLEAN /\ started \in BOOLEAN
  /\ real \in [Motors -> Positions]
  /\ pos \in [Motors -> Positions \cup {Uninitialized}]
  /\ age \in [Motors -> 0..MaxAge] /\ seen \in [Motors -> SUBSET Positions]
  /\ losses \in 0..MaxLosses
  /\ topic \in Seq(Message \cup {None}) /\ Len(topic) <= Depth
  /\ latest \in Message \cup {None}
  /\ center \in Int /\ lower \in Int /\ upper \in Int /\ phase \in 0..Period - 1
  /\ cmd = None \/ cmd \in [Motors -> Int]

\* A published position is one the motor has reported, or -999: the 999 of a
\* motor object that has not been told anything is never published, before the
\* first answer, after a reconnection or at any other time.
PublishedIsMeasured ==
  \A k \in 1..Len(topic) : topic[k] # None =>
    \A m \in Motors : topic[k][m] \in seen[m] \cup {Stale}

\* A motor that is not the one to swing is only ever sent to a place it has
\* reported, or to hold_position, however many motors stop answering.
HoldsMeasured ==
  cmd # None => \A m \in Motors \ {Index} : cmd[m] \in seen[m] \cup {Hold}

\* "takes the motor's current position as the centre" (README).
CenterIsMeasured == started => center \in seen[Index]
=============================================================================
