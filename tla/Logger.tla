------------------------------- MODULE Logger -------------------------------
(***************************************************************************)
(* The logger (logger_node.cpp and logger_interface.cpp): one thread that  *)
(* keeps the last message of several topics, and reports to a service      *)
(* through a datagram socket: heartbeats, a status, and the operations of  *)
(* the topic /logger/operation, to which it publishes errors of its own.   *)
(*                                                                         *)
(* Its callbacks run one at a time and end with at most one sendto, which  *)
(* waits while the queue of the service is full.  A message that is only   *)
(* kept may be taken at any time: the queue before it delays it, no more.  *)
(***************************************************************************)
EXTENDS Integers, Sequences, SequencesExt

CONSTANTS
  NMotors,       \* kMotorCount
  Depth,         \* queue depth of the subscription to /logger/operation
  ServiceDepth,  \* datagrams the service's socket holds
  Messages,      \* what tells one joint state message from another
  MaxOps         \* bound: operations and BMS errors

Motors == 1..NMotors
None == "none"

ASSUME LoggerAssumption ==
  /\ NMotors \in Nat /\ Depth \in Nat \ {0} /\ ServiceDepth \in Nat \ {0}
  /\ MaxOps \in Nat /\ None \notin Messages

VARIABLES
  at,        \* "start", "spin", "send", or "dead": an exception has ended it
  pending,   \* the message that is being sent, or Nothing
  socket,    \* socket_fd_ is one
  motors,    \* motors_: the message each is valid from, or None
  latest,    \* the last joint state message taken: its motors, and which it is
  battery,   \* "unknown" (not valid), "normal" or "low": below 10 V
  hot,       \* CPU above 80 degrees
  ops,       \* operations on their way to operation_callback
  published, forwarded, dropped,  \* operations so far, by their numbers
  service,   \* "up", "stuck" (it does not read) or "away"
  box        \* datagrams in the service's socket

kept == <<motors, latest, battery>>
history == <<published, forwarded, dropped>>
vars == <<at, pending, socket, kept, hot, ops, history, service, box>>

Message(what) == [what |-> what, n |-> 0, motors |-> <<>>]
Nothing == Message("nothing")
Operation(n) == [Message("OPERATION") EXCEPT !.n = n]
StatusMessage == [Message("STATUS") EXCEPT !.motors = motors]

Init ==
  /\ at = "start" /\ pending = Nothing /\ socket = FALSE
  /\ motors = [m \in Motors |-> None] /\ latest = [count |-> 0, id |-> None]
  /\ battery = "unknown" /\ hot = FALSE
  /\ ops = <<>> /\ published = 0 /\ forwarded = <<>> /\ dropped = {}
  /\ service \in {"up", "stuck", "away"} /\ box \in 0..ServiceDepth

-----------------------------------------------------------------------------
(* Sending.                                                                *)

\* send_message begins; the callback ends with it.
Send(m) == at' = "send" /\ pending' = m

\* sendto accepts it, ...
Accepted ==
  /\ at = "send" /\ socket /\ service # "away" /\ box < ServiceDepth
  /\ box' = box + 1
  /\ forwarded' = IF pending.n = 0 THEN forwarded ELSE Append(forwarded, pending.n)
  /\ at' = "spin" /\ pending' = Nothing
  /\ UNCHANGED <<socket, kept, hot, ops, published, dropped, service>>

\* Mutant: only without a socket is it given up.
FailedNoSocket ==
  /\ at = "send" /\ ~socket
  /\ dropped' = dropped \cup ({pending.n} \ {0})
  /\ at' = "spin" /\ pending' = Nothing
  /\ UNCHANGED <<socket, kept, hot, ops, published, forwarded, service, box>>

\* Mutant: an operation that could not be sent is published again.
FailedRepublishes ==
  /\ at = "send" /\ (~socket \/ service = "away")
  /\ ops' = IF pending.n # 0 /\ Len(ops) < Depth THEN Append(ops, pending) ELSE ops
  /\ at' = "spin" /\ pending' = Nothing
  /\ UNCHANGED <<socket, kept, hot, history, service, box>>

\* ... or not, and nobody looks at the result.
Failed ==
  /\ at = "send" /\ (~socket \/ service = "away")
  /\ dropped' = dropped \cup ({pending.n} \ {0})
  /\ at' = "spin" /\ pending' = Nothing
  /\ UNCHANGED <<socket, kept, hot, ops, published, forwarded, service, box>>

SendMessage == Accepted \/ Failed

-----------------------------------------------------------------------------
(* The callbacks.                                                          *)

\* The constructor: initialize_socket may fail, LoggerInterface::init, the
\* subscriptions and the timers, and a first message.
Start ==
  /\ at = "start"
  /\ socket' \in BOOLEAN
  /\ Send(Message("START"))
  /\ UNCHANGED <<kept, hot, ops, history, service, box>>

\* Mutant: the motors that the message does not have keep what they had.
JointStateKeeps(count, id) ==
  /\ at = "spin"
  /\ latest' = [count |-> count, id |-> id]
  /\ motors' = [m \in Motors |-> IF m <= count THEN id ELSE motors[m]]
  /\ UNCHANGED <<at, pending, socket, battery, hot, ops, history, service, box>>

\* joint_state_callback
JointState(count, id) ==
  /\ at = "spin"
  /\ latest' = [count |-> count, id |-> id]
  /\ motors' = [m \in Motors |-> IF m <= count THEN id ELSE None]
  /\ UNCHANGED <<at, pending, socket, battery, hot, ops, history, service, box>>

\* battery_volt_callback. What the callbacks of current, temperature and IMU
\* keep is shown, and nothing else looks at it.
Voltage(level) ==
  /\ at = "spin"
  /\ battery' = level
  /\ UNCHANGED <<at, pending, socket, motors, latest, hot, ops, history, service, box>>

\* What LoggerInterface::log_operation publishes joins the queue, which loses
\* its oldest when it is full.
Queued(ms) ==
  LET all == ops \o ms
      surplus == IF Len(all) > Depth THEN Len(all) - Depth ELSE 0
  IN  /\ ops' = SubSeq(all, surplus + 1, Len(all))
      /\ dropped' = dropped \cup ({all[i].n : i \in 1..surplus} \ {0})

Publish ==
  /\ published < MaxOps
  /\ published' = published + 1
  /\ Queued(<<Operation(published')>>)
  /\ UNCHANGED <<at, pending, socket, kept, hot, forwarded, service, box>>

BmsError == at = "spin" /\ Publish

\* operation_callback
Forward ==
  /\ at = "spin" /\ ops # <<>>
  /\ Send(Head(ops)) /\ ops' = Tail(ops)
  /\ UNCHANGED <<socket, kept, hot, history, service, box>>

Heartbeat ==
  /\ at = "spin"
  /\ Send(Message("HEARTBEAT"))
  /\ UNCHANGED <<socket, kept, hot, ops, history, service, box>>

\* Mutant: a high temperature is all that is reported while there is one.
FoundFirst ==
  IF hot' THEN <<Message("HIGH_CPU_TEMP")>>
  ELSE IF battery = "low" THEN <<Message("LOW_BATTERY")>> ELSE <<>>

\* check_system_status
Found ==
  (IF battery = "low" THEN <<Message("LOW_BATTERY")>> ELSE <<>>)
    \o (IF hot' THEN <<Message("HIGH_CPU_TEMP")>> ELSE <<>>)

\* status_callback: what the commands say, the errors to be published, and the
\* status, which is sent before them.
Status ==
  /\ at = "spin"
  /\ hot' \in BOOLEAN
  /\ Queued(Found)
  /\ Send(StatusMessage)
  /\ UNCHANGED <<socket, kept, published, forwarded, service, box>>

\* A command prints what std::stof does not take for a number.
NotANumber ==
  /\ at = "spin"
  /\ at' = "dead"
  /\ UNCHANGED <<pending, socket, kept, hot, ops, history, service, box>>

Callback ==
  \/ \E count \in 0..NMotors, id \in Messages : JointState(count, id)
  \/ \E level \in {"normal", "low"} : Voltage(level)
  \/ BmsError \/ Forward \/ Heartbeat \/ Status \/ NotANumber

-----------------------------------------------------------------------------
(* The service, and whoever else publishes operations.                     *)

ServiceReads ==
  /\ service = "up" /\ box > 0
  /\ box' = box - 1
  /\ UNCHANGED <<at, pending, socket, kept, hot, ops, history, service>>

ServiceChanges ==
  /\ service' \in {"up", "stuck", "away"} \ {service}
  /\ box' = IF service' = "away" THEN 0 ELSE box
  /\ UNCHANGED <<at, pending, socket, kept, hot, ops, history>>

OtherOperation == at # "start" /\ Publish

Next ==
  \/ Start \/ Callback \/ SendMessage
  \/ ServiceReads \/ ServiceChanges \/ OtherOperation

Spec == Init /\ [][Next]_vars

\* The executor runs what is ready before it waits again, the timers come back
\* to be ready, and a service that is up reads.
FairSpec ==
  /\ Spec
  /\ WF_vars(Start) /\ WF_vars(SendMessage)
  /\ SF_vars(Forward) /\ SF_vars(Heartbeat) /\ SF_vars(Status)
  /\ WF_vars(ServiceReads)

-----------------------------------------------------------------------------
TypeOK ==
  /\ at \in {"start", "spin", "send", "dead"}
  /\ socket \in BOOLEAN /\ battery \in {"unknown", "normal", "low"} /\ hot \in BOOLEAN
  /\ motors \in [Motors -> Messages \cup {None}]
  /\ latest \in [count : 0..NMotors, id : Messages \cup {None}]
  /\ Len(ops) <= Depth
  /\ published \in 0..MaxOps /\ forwarded \in Seq(1..MaxOps) /\ dropped \subseteq 1..MaxOps
  /\ service \in {"up", "stuck", "away"} /\ box \in 0..ServiceDepth

\* A status shows the motors of one message, the last that was taken, and no
\* others: after a driver has lost its runtime, or has another number of
\* motors, none is left over from before.
StatusOfLatest ==
  pending.what = "STATUS" =>
    \A m \in Motors :
      pending.motors[m] = IF m <= latest.count THEN latest.id ELSE None

\* Operations are forwarded in the order they were published in, none twice,
\* and none is lost but to a full queue or a service that is away: what the
\* logger publishes comes back to it once.
OperationsAccounted ==
  /\ \A i, j \in DOMAIN forwarded : i < j => forwarded[i] < forwarded[j]
  /\ 1..published =
       Range(forwarded) \cup dropped \cup ({m.n : m \in Range(ops)} \ {0})
         \cup ({pending.n} \ {0})
  /\ Range(forwarded) \cap dropped = {}

Sending(what) == at = "send" /\ pending.what = what

\* A low battery is reported, and if the service was away then, again when it
\* is back; it is not if the battery recovers, a callback has thrown or the
\* queue, which loses the oldest, was full.
LowBatteryReported ==
  battery = "low" /\ socket ~>
    Sending("LOW_BATTERY") \/ battery # "low" \/ Len(ops) = Depth
      \/ service # "up" \/ at = "dead"

\* The heartbeats go on whether the service is there or not; only one that is
\* there and does not read, or an exception, ends them.
HeartbeatsGoOn ==
  at # "dead" ~> Sending("HEARTBEAT") \/ service = "stuck" \/ at = "dead"
=============================================================================
