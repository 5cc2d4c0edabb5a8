---------------------------- MODULE AckProtocol ----------------------------
(***************************************************************************)
(* Resetting the zero position of the motors of one CAN port and saving    *)
(* it: canboard::reset_zero_positions (the broadcast command 3) and        *)
(* robot::reset_zero_positions(list), the two waits for acknowledgements   *)
(* of canport.cc, and lively_serial::handle_ack_message, which runs in the *)
(* receive thread and fills the set the waits look at.                     *)
(*                                                                         *)
(* The frames to the board and back are FIFO and may be lost; how fast the *)
(* board is, and which motors answer, is up to it.                         *)
(***************************************************************************)
EXTENDS Naturals, Sequences, FiniteSets

CONSTANTS
  Motors,     \* configured_motor_ids_
  MaxTries,   \* bound: turns of wait_for_ack_condition (kMaxDelay)
  MaxOps,     \* bound: operations started
  MaxTicks    \* bound: control ticks between operations

ASSUME MotorsAssumption ==
  /\ IsFiniteSet(Motors) /\ Motors # {}
  /\ MaxTries \in Nat \ {0} /\ MaxOps \in Nat /\ MaxTicks \in Nat

VARIABLES
  pc,        \* where the executor thread is in the operation
  op,        \* the operation: the motors it is for, all of them or one
  tx,        \* tx_message_: command and motors of the port's frame
  tries,     \* t of wait_for_ack_condition
  mode,      \* acknowledged_mode_
  ids,       \* acknowledged_motor_ids_
  rx,        \* the receive thread: {}, or {ids} it has still to insert
  down, up,  \* frames on their way to the board, acknowledgements coming back
  zeroed,    \* motors that have executed MODE_RESET_ZERO since the operation began
  saved,     \* motors that have executed MODE_CONF_WRITE since then
  left,      \* motors whose acknowledgement, or save, was still under way then
  report,    \* what the operation last told its user
  ops, ticks

pcVars == <<pc, op, tx, tries, report, ops, ticks>>
ackVars == <<mode, ids, rx>>
boardVars == <<down, up, zeroed, saved, left>>
vars == <<pcVars, ackVars, boardVars>>

Waiting == {"clearIds", "clearMode", "send", "check", "count"}
Labels == {"idle"} \cup Waiting \cup {"tail"}
Commands == {"RESET", "RESET_ZERO", "CONF_WRITE"}
Targets == {Motors} \cup {{m} : m \in Motors}
Frames == [cmd : Commands, to : Targets]
Acks == [cmd : {"RESET_ZERO", "CONF_WRITE"}, ids : SUBSET Motors]

Init ==
  /\ pc = "idle" /\ op = Motors
  /\ tx = [cmd |-> "RESET", to |-> Motors]
  /\ tries = 0
  /\ mode = "none" /\ ids = {} /\ rx = {}
  /\ down = <<>> /\ up = <<>>
  /\ zeroed = {} /\ saved = {} /\ left = {}
  /\ report = "none"
  /\ ops = 0 /\ ticks = 0

-----------------------------------------------------------------------------
(* The executor thread.                                                    *)

\* What an earlier operation has left on its way: acknowledgements, and saves
\* that may still be acknowledged. (A reset that is still under way is a reset
\* whichever operation sent it.)
LeftOver ==
  {m \in Motors :
     \/ \E s \in rx : m \in s
     \/ \E i \in 1..Len(up) : m \in up[i].ids
     \/ \E i \in 1..Len(down) : down[i].cmd = "CONF_WRITE" /\ m \in down[i].to}

\* reset_zero_positions for all motors or for one: reset pulses, which nobody
\* acknowledges, then the frame MODE_RESET_ZERO.
StartReset ==
  /\ pc = "idle"
  /\ ops < MaxOps
  /\ ops' = ops + 1
  /\ op' \in Targets
  /\ tx' = [cmd |-> "RESET_ZERO", to |-> op']
  /\ pc' = "clearIds"
  /\ report' = "none"
  /\ zeroed' = {} /\ saved' = {} /\ left' = LeftOver
  /\ UNCHANGED <<tries, ticks, ackVars, down, up>>

\* Mutant: the wait starts with the motors an earlier one has seen.
ClearIdsKeeps ==
  /\ pc = "clearIds"
  /\ pc' = "clearMode"
  /\ UNCHANGED <<op, tx, tries, report, ops, ticks, ackVars, boardVars>>

ClearIds ==
  /\ pc = "clearIds"
  /\ ids' = {}
  /\ pc' = "clearMode"
  /\ UNCHANGED <<op, tx, tries, report, ops, ticks, mode, rx, boardVars>>

ClearMode ==
  /\ pc = "clearMode"
  /\ mode' = "none"
  /\ tries' = 0
  /\ pc' = "send"
  /\ UNCHANGED <<op, tx, report, ops, ticks, ids, rx, boardVars>>

Send ==
  /\ pc = "send"
  /\ down' = Append(down, tx)
  /\ tries' = tries + 1
  /\ pc' = "check"
  /\ UNCHANGED <<op, tx, report, ops, ticks, ackVars, up, zeroed, saved, left>>

\* Another turn of the loop, or the wait has failed. A failed reset goes on
\* to the final pulses; a failed save throws (all motors) or is reported (one
\* motor), and either way the operation ends at once.
NotAcknowledged ==
  IF tries < MaxTries
  THEN pc' = "send" /\ UNCHANGED report
  ELSE /\ report' = "failed"
       /\ pc' = IF tx.cmd = "RESET_ZERO" /\ op = Motors THEN "tail" ELSE "idle"

\* A reset is followed by the save, a save by the end of the operation.
Acknowledged ==
  IF tx.cmd = "RESET_ZERO"
  THEN /\ tx' = [tx EXCEPT !.cmd = "CONF_WRITE"]
       /\ pc' = "clearIds"
       /\ report' = "reset"
  ELSE /\ pc' = IF op = Motors THEN "tail" ELSE "idle"
       /\ report' = "saved"
       /\ UNCHANGED tx

\* Mutant: the mode of the acknowledgements is not looked at.
CheckModeAny ==
  /\ pc = "check"
  /\ pc' = "count"
  /\ UNCHANGED <<op, tx, tries, report, ops, ticks, ackVars, boardVars>>

\* acknowledged_motor_count reads the mode first ...
CheckMode ==
  /\ pc = "check"
  /\ IF mode = tx.cmd THEN pc' = "count" /\ UNCHANGED report ELSE NotAcknowledged
  /\ UNCHANGED <<op, tx, tries, ops, ticks, ackVars, boardVars>>

\* ... and counts the motors then.
CountIds ==
  /\ pc = "count"
  /\ IF op \subseteq ids
     THEN Acknowledged ELSE NotAcknowledged /\ UNCHANGED tx
  /\ UNCHANGED <<op, tries, ops, ticks, ackVars, boardVars>>

\* canboard::reset_zero_positions ends with reset pulses: the port's frame is
\* MODE_RESET from then on.
FinalPulses ==
  /\ pc = "tail"
  /\ tx' = [cmd |-> "RESET", to |-> Motors]
  /\ pc' = "idle"
  /\ UNCHANGED <<op, tries, report, ops, ticks, ackVars, boardVars>>

\* A control tick sends the port's frame again, whatever is in it.
Tick ==
  /\ pc = "idle"
  /\ ticks < MaxTicks
  /\ ticks' = ticks + 1
  /\ down' = Append(down, tx)
  /\ UNCHANGED <<pc, op, tx, tries, report, ops, ackVars, up, zeroed, saved, left>>

-----------------------------------------------------------------------------
(* The receive thread: handle_ack_message stores the mode and then inserts *)
(* the ids. It takes no lock.                                              *)

AckMode ==
  /\ rx = {}
  /\ up # <<>>
  /\ mode' = Head(up).cmd
  /\ rx' = {Head(up).ids}
  /\ up' = Tail(up)
  /\ UNCHANGED <<pcVars, ids, down, zeroed, saved, left>>

AckIds ==
  /\ rx # {}
  /\ ids' = ids \cup UNION rx
  /\ rx' = {}
  /\ UNCHANGED <<pcVars, mode, boardVars>>

-----------------------------------------------------------------------------
(* The board and its motors. Some of the motors the frame is for execute   *)
(* it, and the board reports some of those, or nothing arrives.            *)

Execute(did, told) ==
  /\ down # <<>>
  /\ LET f == Head(down) IN
       /\ told \subseteq did /\ did \subseteq f.to
       /\ IF f.cmd = "RESET" THEN UNCHANGED <<zeroed, saved, up>>
          ELSE /\ IF f.cmd = "RESET_ZERO"
                  THEN zeroed' = zeroed \cup did /\ UNCHANGED saved
                  ELSE saved' = saved \cup did /\ UNCHANGED zeroed
               /\ up' = IF told = {} THEN up
                        ELSE Append(up, [cmd |-> f.cmd, ids |-> told])
  /\ down' = Tail(down)
  /\ UNCHANGED <<left, pcVars, ackVars>>

LoseAck ==
  /\ up # <<>>
  /\ up' = Tail(up)
  /\ UNCHANGED <<pcVars, ackVars, down, zeroed, saved, left>>

\* The bounds are used up and nothing is under way.
Done ==
  /\ pc = "idle" /\ ops = MaxOps /\ ticks = MaxTicks
  /\ down = <<>> /\ up = <<>> /\ rx = {}
  /\ UNCHANGED vars

Wait == ClearIds \/ ClearMode \/ Send \/ CheckMode \/ CountIds
Next ==
  \/ StartReset \/ Wait \/ FinalPulses \/ Tick
  \/ AckMode \/ AckIds
  \/ \E did \in SUBSET Motors : \E told \in SUBSET did : Execute(did, told)
  \/ LoseAck \/ Done

Spec == Init /\ [][Next]_vars

-----------------------------------------------------------------------------
TypeOK ==
  /\ pc \in Labels /\ op \in Targets /\ tx \in Frames
  /\ tries \in 0..MaxTries
  /\ mode \in Commands \cup {"none"} /\ ids \subseteq Motors
  /\ rx \subseteq SUBSET Motors
  /\ down \in Seq(Frames) /\ up \in Seq(Acks)
  /\ zeroed \subseteq Motors /\ saved \subseteq Motors /\ left \subseteq Motors
  /\ report \in {"none", "reset", "saved", "failed"}
  /\ ops \in 0..MaxOps /\ ticks \in 0..MaxTicks

\* A motor is only told to save its zero position after it has executed a
\* MODE_RESET_ZERO since the operation began, however often frames are repeated,
\* by a wait or by a tick, and whichever acknowledgements are late or lost. The
\* exception are motors for which an answer or a save of an earlier operation
\* was still under way then (left): the answer is taken for one to this reset.
SaveAfterReset ==
  \A i \in 1..Len(down) : down[i].cmd = "CONF_WRITE" => down[i].to \subseteq zeroed \cup left

\* A save is only reported when some motor has executed one since the operation
\* began, and every motor it was for a reset, with the same exception.
SavedIsNotInvented ==
  report = "saved" => saved \cup left # {} /\ op \subseteq zeroed \cup left

\* What "Settings saved successfully" says: every motor the operation is for
\* has executed the save it asked for.
SavedMeansSaved == report = "saved" => op \subseteq saved
=============================================================================
