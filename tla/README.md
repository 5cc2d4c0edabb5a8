# A TLA+ model of livelybot_sdk_ros2

livelybot_sdk_ros2 drives legged-robot motors from ROS 2: a node
(`motor_driver_node`) owns a `robot` object, which talks over USB serial devices to
CAN boards, which talk to motors. This directory holds TLA+ modules translated from
that code, TLC configurations that check them on small instances, and TLAPS proofs
of what they promise for every instance. `PROJECT.json` lists the runs, the line of
code behind every definition (`map`), a mutant for every checked property, the
hazards of the code and the proved theorems.

All paths below are relative to the repository; `robot.cc`, `canboard.cc`,
`canport.cc`, `motor.cc` are in `src/livelybot_serial/src/hardware/`,
`lively_serial.cc`, `motor_driver_node.cpp` and `motor_oscillator_node.cpp` in
`src/livelybot_serial/src/`, `serial.cc` and `unix.cc` in `src/serial/src/`,
`logger_node.cpp` and `logger_interface.cpp` in `src/livelybot_logger/src/`.

To check a module: `tlc -config MCRecovery.cfg MCRecovery`. To check a proof:
`tlapm RecoveryProofs.tla`.

## 1. The system

### 1.1 Components

| Component | State | Operations | Modelled in |
|---|---|---|---|
| **robot** (`robot.cc`): owner of everything, and its error-check thread | `serials_`, `can_boards_`, `motors_`, `serial_receive_threads_`, `runtime_mutex_`, `error_run_state`, `error_check_running_`, the joint-limit latch, the IMU state, `slave_version_`, `function_version_` | construct, destroy, `check_error` (Check, Clear, WaitDevice, Reconnect), `apply_motor_commands`, `stop_motors`, `reset_motors`, `reset_zero_positions`, `run_control_cycle`, `update_imu_state`, version and connection probes, loading and validation of the configuration | Recovery, ControlCycle, VersionProbe, JointStates, Topology |
| **canboard** (`canboard.cc`) | its ports, a `port_version_` reading | forwards to its ports, `reset_zero_positions` | AckProtocol, ControlCycle, Topology |
| **canport** (`canport.cc`) | `tx_message_`, motor map, acknowledged mode and ids, `port_version_`, `function_version_` | commands, waits for acknowledgements, `configure_motor_count`, `set_function_version`, time-outs | AckProtocol, VersionProbe, TxFrame, Topology |
| **motor** (`motor.cc`) | `motor_back_t` (position, time), limit states, type, version; writes to `tx_message_` of its port | `fresh_cmd_int16` and the commands, `fresh_data` | TxFrame, JointStates, ControlCycle |
| **lively_serial** (`lively_serial.cc`): one per device, with a receive thread | `init_flag`, `error_flag`, the port, the pointers into a canport and its motors | `receive_loop`, the handlers, `send_frame`, `request_stop`, `close` | FrameReceiver, SerialPort, Recovery, AckProtocol, VersionProbe |
| **serial** (`src/serial`), vendored | descriptor, `is_open_`, two mutexes | `open`, `read`, `write`, `flush`, `close` | SerialPort (the calls the driver makes) |
| **motor_driver_node** | the robot, subscriptions, timer | callbacks for LowCmd, broadcast, IMU; the tick | Recovery, ControlCycle, JointStates |
| **motor_oscillator_node** | last joint states, centre, phase | two callbacks | JointStates |
| **logger** (`logger_node.cpp`, `logger_interface.cpp`) | the last joint states, IMU and battery messages, load figures, a datagram socket | callbacks of seven topics, heartbeat and status timers, `send_message`, `log_operation` | Logger |
| port enumeration, other platforms, messages, launch files | | | not modelled (vendored, or no behaviour) |

### 1.2 How they interact

- **Threads.** The executor thread constructs the robot, runs every callback of the
  node and destroys the robot. The error-check thread looks every second for a
  device with `error_flag`, tears the runtime down, waits for the devices and builds
  everything again. Each device has a receive thread. The first two exclude each
  other by `runtime_mutex_`; **the receive threads take no lock of the robot**, and
  write to canports and motors through raw pointers.
- **Frames.** Each canport has one transmit frame. Every command overwrites it, and
  the tick sends it again every 5 ms, whatever it holds. So what matters is not only
  what a command sends, but what it leaves behind.
- **Answers.** Receive threads parse the byte stream and write versions,
  acknowledgements and motor states into the canport and the motors; the threads
  that asked poll those.
- **Topics.** The driver publishes joint states with -999 for a motor that has not
  answered for 0.1 s; the oscillator steers by them, and the logger reports them. The
  logger publishes its errors to `/logger/operation`, which it subscribes to itself.

### 1.3 What is hard about it

Object lifetime across threads without locks; exceptions half way through a
reconstruction, with the lock released in between; frames that outlive their
command; acknowledgements that are not tied to a request; a byte stream that loses
bytes; close and flush while another thread is reading; probes whose answers come
late; indices that are computed in four places; stale and uninitialised values
standing for positions. `hazards` in `PROJECT.json` has each of these at its line,
with the properties that would catch it, or the reason why none does.

## 2. The modules

One module per question that several actors can get wrong together; their states
overlap only where the code's do. An action is a whole handler where a lock makes it
atomic, and single steps where it does not.

**Recovery** (with `RuntimeService` and `PortContract`). The life of the robot and of its threads, for
a set of ports. `pc["ros"]` and `pc["chk"]` say where the two long-lived threads
are; `rxpc[p]` is the receive thread of port p. Building up is shared by the
constructor and by Reconnect and so is written once, for a thread t: Discover, Open,
StartReceiver, Wire, Configured, Connected, each step able to throw; so is tearing
down: RequestStop, JoinReceivers, ClearTopology, DestroySerials. `Throw` is where
the two differ: the constructor's handler cleans up at once, that of `check_error`
runs after its `lock_guard` is gone and locks again. Environment: devices are
unplugged and return, a device that is there cannot be opened, frames break off, a
handler throws, the process is interrupted.
`RuntimeService` is the abstract specification: starting, serving, faulted, down,
closing, closed, and an error is answered by a whole teardown and by nothing else.

**PortContract.** What the rest of the driver relies on in one `lively_serial`: it is
made with `init_flag` set or with the error flagged; an error is never taken back, and
never flagged while `init_flag` stays set; a receiver ends by itself only when
`init_flag` is down or the process interrupted, and the object is not destroyed under
it. SerialPort implements it with the serial
library in detail, and Recovery, which has one atomic port per device in its place,
is shown to use ports of the same contract.

**AckProtocol.** A zero reset and its save on one port, for all motors (broadcast 3)
or one. The wait is split where the receive thread can come in between: clear the
set, clear the mode, send, read the mode, count the ids. The receive thread stores
the mode and then inserts the ids. The board executes and acknowledges any part of
a frame's motors; acknowledgements are lost or late. `zeroed` and `saved` are the motors
that have executed a reset or a save since the present operation began, and `left` those
for which an acknowledgement, or a save that may still be acknowledged, was under way
when it began.

**ControlCycle.** What ends up in each port's frame and on its line: LowCmd,
broadcasts, tick with joint limits and IMU hold, a line that fails, recovery and its
probe. `drives` remembers the last frame that told the motors of a port to move or
stop, `sentTo` the ports the last step drove.

**TxFrame** (with `MotorMail`). The payload of one port word by word. Kinds of
commands share it with slots of different widths, addressed by motor id; commands
throw for lack of room or of a torque conversion, after part has been written. Each
word has its value: the mark `kPositionNoCommand` or zero when a frame is prepared,
and what `int16_limit` leaves of a command: a number beyond the range, beyond
`int32_t` (undefined, any of the results processors give) or NaN. `MotorMail` is the
abstract specification: a mailbox per motor.

**JointStates.** Motor objects and their time stamps, the -999 mark, publication,
the topic, and both callbacks of the oscillator. Time is in ticks; the age of a
motor counts up to "stale". The oscillator's elapsed time is in commands.

**VersionProbe.** `initialize_hardware` after the devices are open: the version of
every board, both connection checks, the choice of a function version, its
distribution and the consistency check. The main thread asks and sleeps, then looks;
answers arrive between any two steps, late or never.

**FrameReceiver.** `receive_loop` byte by byte. A byte on the line is <<frame,
position>>, so the model can tell where every byte came from; a CRC is right when
the bytes it covers are those of one frame, and headers may also pass by accident
(`Noise` and bytes of payload that equal 0xF7). One fault loses or spoils a byte, or
cuts a frame. Its standard names have a prefix (`RxInit`, `RxNext`, `RxSpec`,
`RxTypeOK`), so that one proof module can extend it together with TxFrame.

**SerialPort.** One device inside the serial library from construction to
destruction: open, which may fail or leave a descriptor that could not be configured,
the reader and the sender, both mutexes, the read and write loops, time-outs, a handler
that throws, flush with both locks and tcdrain, close without any, and a second time from
the destructor of the library's object, unplugging, the interrupt and the stop. Closing a descriptor under a reader ends in FD_SET(-1), which is undefined: the
model lets it abort (a fortified build does) or go on with an error from select.

**Topology.** Load, validate, discover, open, build, collect; then commands, zero
resets and the receivers' maps as a relation between a place in the configuration
and an address on a wire, through replugging. A port that cannot be opened is kept and
flagged; one that cannot be built unwinds what was built before it. Names that every
module has carry the prefix Top, so that one proof module can extend it together with
AckProtocol.

**Logger.** One executor that runs callbacks one at a time. Most only keep a message;
the others end in one `sendto` on a blocking datagram socket, so `at = "send"` is
where the whole node may stand still. Operations are numbered as they are published,
by the node itself (BMS errors, and its warnings, which carry no number) or by
others, into a queue that loses its oldest. The service is up, away, or there and not
reading. Only the joint states and the battery voltage are kept by the model; the
IMU, current, temperature, load and node tables are shown and not looked at.

## 3. The runs

State numbers are TLC's distinct states. Deadlock is checked except where noted.

| Run | States | What it shows |
|---|---|---|
| `recovery` | 130,560 | no use of a destroyed object, no lost thread, no callback in half a runtime, no unnoticed death of a receiver, clean exit; errors are recovered from, an interrupt ends the process; implements RuntimeService, and one PortContract for each port |
| `ack_protocol` | 1,407,863 | no motor is told to save before it has been reset in the same operation, and no save is reported out of nothing, but for motors that an earlier operation left an answer for |
| `control_cycle` | 476,322 | a latched limit silences the robot, its stop reaches every working port, broadcasts are not undone by the tick, no command survives a reconnection, a limit is noticed even if ticks throw |
| `joint_states` | 1,740,312 | only reported positions or -999 are published; the motors that do not swing are only sent where they reported to be, or to `hold_position` |
| `version_probe` | 460,602 | a silent port is reported; the function version suits every motor that is not reported missing, and so does the type |
| `tx_frame` | 15,348 | every slot is sent and is one command to its motor, within the limits; a position says "no command" exactly when there is none; the payload implements mailboxes |
| `frame_receiver` | 5,890,799 | only whole payloads, in order, once, and never more than the buffer holds; one damage cannot exchange commands; losses are bounded by damages |
| `serial_port` | 272,584 | both mutexes are given back on every path, stopping is no error, descriptors are closed, loss is flagged; sends and stops end; implements PortContract |
| `topology` | 36,298 | commands, zero resets and answers go to the motor the configuration means, after every replug too |
| `logger` | 179,606 | a status shows the motors of one message and the last; no operation is sent twice, out of order, or lost without cause; a low battery is reported; only a service that does not read, or an exception, stops the heartbeats |
| `ack_saved` | violation | finding 1 |
| `joint_center` | violation | finding 2 |

Each run checks the properties that say something of the code; the type invariants of
the modules other than Recovery and ControlCycle are not listed as properties of their
runs. All of them are proved, as theorems or as parts of the inductive invariants.

### 3.1 Bounds, and why they are enough

- `recovery`: two ports (one fails while the other works; a loop over ports is
  interrupted between two), two faults (the second during the recovery from the
  first). The proofs cover any finite set of ports and any bound on faults.
- `ack_protocol`: two motors (one answers, one does not), two tries (a command is
  answered twice), two operations (answers cross over), one tick. Motors are
  symmetric. The proofs cover all values. `MaxTries` is `kMaxDelay`.
- `control_cycle`: three ports, the last of which throws on commands and on holds: a
  loop that stops half way, and a broadcast that misses one of two others. Two
  commands tell an older from a newer one; two faults are one for a line and one for
  the probe after it. Old boards, since only their probe moves motors. Proved for
  all values.
- `joint_states`: two motors, one swinging, two places, a queue of one message, one
  loss of the runtime. Proved for all values.
- `version_probe`: two ports of either board generation with one motor each of three
  firmware levels, all combinations as initial states; two turns per loop instead of
  kMaxDelay and 20: one in which an answer is missed and one, the last, in which the
  comparisons differ. CHECK_DEADLOCK FALSE: the probe ends.
- `tx_frame`: ids 3 and 1 in either order (ids do not follow the configuration, id 2
  is missing; the motor that throws comes first or last), where kinds of five words
  just fit, and ids 4 and 2, where those and the kinds of four do not; all ten control
  types, four commands: two kinds and back, with one repeated. Values: zero, 40000 on
  either side, one beyond `int32_t` and NaN. `IntMax` is 100000 instead of 2^31 - 1,
  for TLC's integers; only `Limit <= IntMax` matters.
- `frame_receiver`: room for three bytes of payload instead of 256; three shapes of frames, with
  the head byte where it does most harm; four frames and two damages, so that after
  a damage there are frames left to lose. Larger lengths add bytes of the same kind.
  CHECK_DEADLOCK FALSE: the frames run out.
- `serial_port`: reads of three and frames of four bytes that can break off anywhere,
  input and output buffers of three (less than a frame, so that output blocks).
  The proofs cover all lengths. CHECK_DEADLOCK FALSE: the port is destroyed, or the
  process aborted.
- `topology`: up to two boards, three ports, two motors a port, three lines
  (symmetric), every order of serial_id, and one example of each mistake the loader,
  the validator and the constructors look for; two replugs in any order of devices.
  CHECK_DEADLOCK FALSE: a refused configuration ends the process.
- `logger`: two motors and messages of none, one or two; a queue of three instead of
  ten (two warnings of one status and one other operation), a service that holds one
  datagram, two numbered operations. CHECK_DEADLOCK FALSE: an exception ends the node.

### 3.2 Fairness, and why the code justifies it

- Recovery: weak fairness of both threads and every receiver (they are scheduled,
  and no step of theirs waits for anything but the mutex, a join or a time-out of
  100 ms or 1 s). Strong fairness of the two lock steps: a `std::mutex` is not fair,
  but each holder sleeps between two uses, 5 ms for ticks and 1 s for checks, so a
  waiter gets it. Devices that were unplugged come back (`WF(Plug)`), under names
  that `count_existing_serial_devices` counts: ErrorRecovered needs both, see
  observation 6.
- ControlCycle: the wall timer ticks, the error-check thread runs. Neither the
  environment nor commands are fair. LimitLatches is `over ~> latch \/ ~over`: `over`
  is a state of the motor objects and goes with them when the runtime is lost.
- SerialPort: weak fairness only. **No** fairness of either library mutex: the
  receive thread takes `read_mutex` again at once, and SendReturns shows that a flush
  still ends, because `close` clears `init_flag` first and the receiver then leaves.
  A board that is plugged in takes its output (`WF(BoardReads)`); a tcdrain to a
  board that does not would hang, and so would everyone waiting for `runtime_mutex_`.
- Logger: the executor runs what is ready before it waits again, so each callback that
  is ready again and again is run (`SF` of Forward, Heartbeat, Status), a `sendto` that
  can go on does, and a service that is up reads. A service that is stuck need not
  recover, which is why HeartbeatsGoOn excuses it.
- The other modules have safety properties only.

## 4. What is proved

TLAPS proves the following for every value of the constants allowed by the named
assumptions (`PortsAssumption`, `MotorsAssumption`, `ControlAssumption`,
`JointAssumption`, `PortAssumption`, `ProbeAssumption`, `FrameAssumption`,
`ReceiverAssumption`, `TopologyAssumption`, `LoggerAssumption`), which say what the
constants are: sets of ports, motors, messages, devices, parameter trees or contents of
frames, which motors a port has, numbers and their bounds, and for Joint that positions
lie between -500 and 500, away from the marks 999 and -999. Topology assumes of its
trees only that they are lists of lists of ports: what a valid one is, the model says. Each invariant was checked with TLC on the instance of
its run before it was proved.

| Module | Theorems | Argument |
|---|---|---|
| RecoveryProofs | TypeCorrect, Memory (NoUseAfterFree), Threading (NoLostThread), Callbacks (CallbackSeesWholeRuntime), Closing (CleanExit), Noticed (NoSilentDeath), Refinement (ImplementsService), PortRefinement (ImplementsPort) | Whoever changes the runtime is alone with it (`Order`: "ros" while "chk" does not exist; `Locking`: "chk" while it holds the mutex), so which objects exist follows from the label of that thread (`Stage`) or, when nobody builds, from `error_run_state` (`Rest`); `Pointers` says that every pointer leads to an object of that stage. None of the properties is inductive by itself, since each talks of one moment of the order stop, join, clear, destroy. `Flags` adds why an `error_flag` must be set; the refinement adds that an error is only answered by Clear. That every port keeps its PortContract follows step by step: what a step does to one port is a step of the contract or leaves it alone, and `Pointers` gives the guards of destroying it. |
| BoardProofs, acknowledgements | Invariance, TypeCorrect, SavesFollowResets (SaveAfterReset), ReportsHaveCause (SavedIsNotInvented) | A motor named by an acknowledgement, wherever that is, has been reset since the operation began or belongs to what was left over then (`Known`, `Provenance`; `LeftBehind` is the beginning of an operation, where everything under way becomes left over). The acknowledged set may hold older motors only until the first wait has cleared it (`Unclear`), and a save frame is only prepared when the set covers its motors (`Frame`). |
| BoardProofs, topology | TopInductive, TopTypeCorrect, EveryCommandAddressed (Addressed), AnswersFindTheirMotor (AnswersComeHome) | The list of all ports is a concatenation, and so is `motors_`; each element of a part has its place in the whole (`FlattenPlaces`), so a port has a turn (`Turns`). The device of that turn is the one its serial_id selects, and no other port's (`Matched`); the port built in that turn is on that device, and its map is in that receiver (`Built`). `motors_` has every place once, in the order of the configuration (`MotorsInOrder`), so the index of a motor is the number of places before it and one (`RankIsIndex`), and only one motor has an address (`AddressesAreDistinct`). |
| ControlProofs | TypeCorrect, LatchIsSilent, StopIsBroadcast, StopsHold, ReconnectForgets | The frame that stays in a port (`Kept`) never holds a command older than the last broadcast or connection. |
| JointProofs | TypeCorrect, OnlyMeasuredIsPublished, HoldsWhereMeasured | A motor object's 999 always goes with a time that is stale (`Kept`). |
| PortProofs | TypeCorrect, Locks (LocksAreGivenBack), Noticed (NoSilentEnd), NoDescriptorLeft (DescriptorClosed), QuietStop (StopIsNoError), PortRefinement (ImplementsPort) | Each place in the code of a thread has its locks and counters (`Counters`), a cleared `init_flag` its reason (`WhyDown`), and a close or an error its fault (`Blame`). `is_open_` and the descriptor go together but for a port that could not be configured (`Descriptor`). |
| ProbeProofs | TypeCorrect, SilenceReported (SilentIsReported), ChoiceFits (FitsFirmware) | Where the prober is says which loops are over (`Loops`); a version that is known is that of its board (`Truthful`); what was decided does not change with answers that come later (`Stable`). |
| FrameProofs, sending | Invariance, TypeCorrect, SlotsHoldOneCommand (OneCommandPerSlot), MailRefinement (ImplementsMail) | The slots of two motors are disjoint and end where the payload of the frame ends, for any ids (`Slots`, `SlotsAreDisjoint`). So a command changes the slots of the motors it reaches, the first ones of the loop if it throws, and no other word; after it each slot is neutral or of one command (`Sound`). |
| FrameProofs, receiving | Receiving, OnlyWholeFrames (WholeAndInOrder), CommandsKeepPayloads (CommandOfItsPayload), LossesAreBounded (DamageIsBounded) | Bytes may be lost or spoilt, but those left on the line come in the order of sending, and so a payload that passes its CRC is one piece (`InLine`), and what was dispatched was sent before the rest of the line (`Dispatched`). With less than two damages all frames but one are intact (`OneDamaged`); then the CRC16 that is read after a header is of its frame, or the payload fails it (`HeaderThenCrc`, `CrcOfHeader`). The bound on losses is an account (`Paid`): every damage pays `Cost` in, and this covers the frames that are lost, those that the bytes needed next may still begin (`Ahead`), each spoilt byte on the line (`Noisy`, one: it may be taken for a head) and each place where a frame breaks off (`Cuts`, `Cost - 1`: a header that was accepted before it takes what it needs from the frames behind it). A read that passes over frames has such a place or byte in it (`Walk`: where there is none, the frame it is in goes on to its end), and whole frames do not overlap (`FramesBetween`). Without damage a frame is in progress or the line begins with one (`InStep`). |
| LoggerProofs | Inductive, TypeCorrect, StatusIsOfLatest (StatusOfLatest), NoOperationLost (OperationsAccounted) | The operations sent, the one being sent and those in the queue form one increasing line, from which only the ones that a full queue dropped are missing (`Line`); a callback moves the head of it, and a full queue cuts a piece out. |

General facts (on Append, Tail and Cardinality) are cited from SequenceTheorems and
FiniteSetTheorems. What needs an induction (what `FlattenSeq` makes of the boards, the
least damaged frame, how far a frame goes on) is proved with least elements, from WellFoundedInduction: a set of
numbers with 0 and every successor has all numbers (`AllNumbers`, `EveryNumber`).

Only model-checked: liveness (ErrorRecovered, ShutdownCompletes, LimitLatches,
LossIsFlagged, SendReturns, StopEnds, LowBatteryReported, HeartbeatsGoOn), since TLAPS
has no ENABLED. Every other property of the passing runs is a theorem.

## 5. What was found

Each has a run that shows it.

1. **`ack_saved`: "Settings saved successfully." for a motor that did not save**
   (canport.cc:137, 242). The set of acknowledged motors is cleared once, when the
   wait for the save begins. Acknowledgements of the *reset* that are inserted after
   that count for the save once a single acknowledgement of the save has set the
   mode. What does hold, and is proved, is weaker: SaveAfterReset and
   SavedIsNotInvented, which both except the motors in `left`, see observation 19.
2. **`joint_center`: the oscillator may take -999 for the current position**
   (motor_oscillator_node.cpp:108, against README.md:345 and 417). If the motor has
   not answered when the first message is published, the centre is -999 for good.

Observations without a run, because they are decided by one comparison or because no
document says otherwise:

1. canport.cc:176: after `while (t++ < kMaxDelay)`, a port that answers in the very
   last turn is reported disconnected.
2. canport.cc:296: the same counter compared for equality: a function version that
   was never confirmed is not reported, one that was confirmed in the last turn is.
3. robot.cc:1138: `slave_version_` is that of the last board, whatever the others have.
4. robot.cc:1229: the mixture of motor versions is noticed when a v5 motor follows
   an older one, not the other way round (README.md:479-482 speaks of any mixture).
5. robot.cc:749: the stop of a joint limit is sent once. A port whose line fails at
   that moment misses it (`missed` in StopReaches), and the latch keeps everything
   else from being sent.
6. robot.cc:1117: WaitDevice counts /dev/ttyACM0 to 7; with devices of another name
   (README.md:185 lets the names be configured) the runtime never returns. Recovery
   has `AcmPorts` for it; ErrorRecovered is checked with all ports in it.
7. robot.cc:199-219: motors listed beyond `motor_num` are ignored without a word.
8. robot.cc:792: the pitch limit is checked on one side.
9. robot.cc:1424: `enable_motor_runzero` takes no lock. Nothing calls it.
10. canboard.cc:33: a port that cannot be built (unknown type, id above kMotorIdMax)
    destroys the ports of its board built before it, while the receivers of their
    devices still point to their motors, until the handler has joined them. Topology
    excepts these steps ("unwinding") from AnswersComeHome; Recovery assumes a
    configuration that the constructors accept.
11. motor.cc:315: a motor of type "NULL" passes the validation and makes its receive
    thread throw at its first answer: the runtime is lost and rebuilt for ever.
    Recovery has the step (RxHandlerThrows), as often as it has faults, and SerialPort
    the closing that follows it (AfterRead).
12. robot.cc:857: the hold of a tilted robot uses the position 999 of motors that
    have not answered yet, which saturates: such a motor is told to go to 32700, the
    end of the range.
13. motor.cc:278: nothing looks at the values of a LowCmd. What NaN, or a value beyond
    `int32_t`, is converted to is undefined; on common processors it becomes 0, -32700
    or 32700. It never becomes the mark for "no command" (OneCommandPerSlot).
14. canport.cc:315: time-outs are written by position in the port, all other commands
    by motor id: with ids 3 and 1 the frame has two words, and motor 3 gets none.
15. unix.cc:155: `open` stores the descriptor before it configures the port, and
    `close` looks at `is_open_` only: a port that cannot be configured keeps its
    descriptor, one for every attempt of the recovery (`setup = "misconfigured"` in
    DescriptorClosed).
16. logger_node.cpp:188: a motor is valid when the last message is long enough: -999
    is sent as a position, and the last status again and again when the driver stops.
    :274-277: current and temperature are shown as soon as a voltage has come, the
    remaining percentage never has a value.
17. logger_node.cpp:171: the socket blocks. A service that does not read stops the whole
    node, and the queues of its topics overflow. :295: a command that prints what
    `std::stof` does not take ends the node.
18. logger_node.cpp:323: the state of a node is whether its name occurs somewhere in the
    list, so that /motor_driver_node runs when /motor_driver_node_2 does.
19. canport.cc:134-138: an acknowledgement carries a command and ids, not the operation it
    answers. One that an earlier operation left over (a late one, or one of a frame that
    was sent twice) and that arrives after the wait of the next operation has cleared the
    set ends that wait: MODE_CONF_WRITE goes out, and canport.cc:195 logs success, with
    no motor having executed the new reset. With an acknowledgement of an earlier save
    the same happens to a save. The motors concerned are those in `left`, and the
    exception is needed: asked whether an operation that has come to its save has any of
    its motors in `zeroed`, TLC answers, on one motor, with a reset that timed out and is
    asked for again, whose wait is ended by the late answer to the first (18 states). For the first operation, or one that starts with nothing under
    way, `left` is empty.
20. robot.cc:1157, 857: with old boards and a tilted robot the probe itself prepares the
    hold, so a port without room for it makes every connection fail until the robot is
    upright (`Query` of ControlCycle).

Data races: the set of acknowledged ids, the motor data, `motor_map_` and the target
pointers are written and read by two threads without a lock. The models let the
receiver write between any two steps of the other thread; a container that is torn
inside is beyond them.

## 6. What is abstracted, and what is left out

- Positions, velocities and gains are left out or small integers. The factors between
  units and the wire are not modelled; what happens at and beyond the ends of the range
  is, in TxFrame, where all words of one command to a motor stand for one value.
- Time-outs are counted in turns of the loops that count them; sleeps are the points
  where other threads run.
- Logging and the names of parameters are left out; parameters that are only compared
  with a range, too.
- The line settings (termios) and the calls of the serial library nobody makes.
- `enter_canboard_bootloader`, `reset_canboard_fdcan`, `enable_motor_runzero` and the
  single-motor commands of `motor` (stop, brake, reset, ...), which nothing in the
  repository calls.
- Frames without a payload, in FrameReceiver: the code accepts a header of length 0, but the
  boards are taken to send at least one byte (`ReceiverAssumption`). SerialPort has the
  read of nothing that returns at once.
- Boards, motors, the serial line and USB are external: modelled by what the driver
  relies on, as freely as its code allows.
- AckProtocol is one port by itself; that a failing save keeps later ports from being
  touched is in ControlCycle (`ResetZero(k)`).

## 7. Plan

Order of the whole project; what is done is above.

1. Recovery, AckProtocol, ControlCycle, JointStates, SerialPort with proofs; both
   findings; VersionProbe, TxFrame, FrameReceiver, Topology, Logger model-checked;
   PortContract between SerialPort and Recovery. Done.
2. Proofs of VersionProbe, TxFrame with its refinement of MotorMail, FrameReceiver,
   Logger, Topology, both refinements of PortContract, and the bound on what a damaged
   line loses. Done.
