------------------------------ MODULE Recovery ------------------------------
(***************************************************************************)
(* The life of the robot object (robot.cc) and of its threads.             *)
(*                                                                         *)
(* Three kinds of threads share the robot:                                 *)
(*   "ros"  the executor thread: it constructs the robot, runs every       *)
(*          callback of motor_driver_node and destroys the robot;          *)
(*   "chk"  the thread of robot::check_error, which notices failed serial  *)
(*          devices, tears the runtime down and builds it up again;        *)
(*   one receive thread per CAN port (lively_serial::receive_loop).        *)
(* runtime_mutex_ serialises "ros" and "chk"; the receivers never take it. *)
(*                                                                         *)
(* A port p stands for a configured CAN port, its serial device and the    *)
(* lively_serial and canport objects made for it.                          *)
(***************************************************************************)
EXTENDS Naturals, FiniteSets

CONSTANTS
  Ports,      \* the configured CAN ports
  AcmPorts,   \* those whose device is named /dev/ttyACM<n>, n below scan_limit
  MaxFaults,  \* bound: unplugged devices, malformed frames, failed probes
  None        \* "no port"

ASSUME PortsAssumption ==
  /\ IsFiniteSet(Ports)
  /\ Ports # {}
  /\ AcmPorts \subseteq Ports
  /\ None \notin Ports
  /\ MaxFaults \in Nat

VARIABLES
  mtx,       \* holder of runtime_mutex_, or "free"
  pc,        \* where each of the threads "ros" and "chk" is
  ers,       \* error_run_state of check_error
  running,   \* error_check_running_
  ok,        \* rclcpp::ok()
  rxpc,      \* where each receive thread is; "none": no joinable thread
  serials,   \* ports whose lively_serial exists (serials_, serial_devices_)
  canports,  \* ports whose canport and motors exist (can_boards_, motors_)
  mapped,    \* ports whose lively_serial points into a canport
  init,      \* ports whose init_flag is set
  err,       \* ports whose error_flag is set
  link,      \* serial_port_: open on a present device, on a lost one, closed
  todo,      \* ports a loop of "ros" or "chk" still has to visit
  cur,       \* port whose close() has run and whose mark_error() has not
  quota,     \* number of matching devices the last discovery returned
  plugged,   \* ports whose device is present
  faults     \* faults so far (only to bound them)

robotVars == <<mtx, pc, ers, running, todo, cur, quota>>
serialVars == <<serials, canports, mapped, init, err, link, rxpc>>
envVars == <<ok, plugged, faults>>
vars == <<robotVars, serialVars, envVars>>

Threads == {"ros", "chk"}

BuildUp == {"discover", "open", "start", "wire", "configure", "connect"}
TearDown == {"stopRx", "join", "clear", "destroy"}
Constructor == BuildUp \cup {"setup"}
Sending == {"configure", "connect", "setup", "cb", "reset"}
RosPc == Constructor \cup TearDown \cup
         {"spin", "want", "cb", "stopChk", "joinChk", "lockDtor", "reset", "gone"}
ChkPc == BuildUp \cup TearDown \cup
         {"none", "loop", "lock", "check", "scan", "unwound", "sleep", "done"}
RunStates == {"Check", "Clear", "WaitDevice", "Reconnect"}
RxPc == {"none", "loop", "read", "dispatch", "closing", "exited"}
RxActive == RxPc \ {"none", "exited"}

\* The thread holds runtime_mutex_ ("ros" builds up without it: the thread
\* "chk" does not exist yet).
ChkLocked == BuildUp \cup TearDown \cup {"check"}

Goto(t, label) == pc' = [pc EXCEPT ![t] = label]

Init ==
  /\ mtx = "free"
  /\ pc = [t \in Threads |-> IF t = "ros" THEN "discover" ELSE "none"]
  /\ ers = "Check"
  /\ running = FALSE
  /\ ok = TRUE
  /\ rxpc = [p \in Ports |-> "none"]
  /\ serials = {} /\ canports = {} /\ mapped = {}
  /\ init = {} /\ err = {}
  /\ link = [p \in Ports |-> "closed"]
  /\ todo = [t \in Threads |-> {}]
  /\ cur = [t \in Threads |-> None]
  /\ quota = 0
  /\ plugged = Ports
  /\ faults = 0

-----------------------------------------------------------------------------
(* Bringing the runtime up: initialize_hardware on "ros", the Reconnect    *)
(* state on "chk".                                                         *)

\* Mutant: the constructor has no handler of its own.
ThrowNoHandler(t) ==
  /\ Goto(t, "unwound")
  /\ mtx' = IF t = "ros" THEN mtx ELSE "free"

\* Mutant: check_error's handler does not clean up.
ThrowNoCleanup(t) ==
  /\ Goto(t, IF t = "ros" THEN "stopRx" ELSE "sleep")
  /\ mtx' = IF t = "ros" THEN mtx ELSE "free"

\* An exception leaves the build-up: the constructor's handler cleans up at
\* once; check_error's lock_guard is released first and taken again later.
Throw(t) ==
  /\ Goto(t, IF t = "ros" THEN "stopRx" ELSE "unwound")
  /\ mtx' = IF t = "ros" THEN mtx ELSE "free"

\* The thread starts a loop over all ports under a new label.
StartLoop(t, label) ==
  /\ Goto(t, label)
  /\ todo' = [todo EXCEPT ![t] = Ports]

\* One turn of such a loop; the last one moves on to the next label.
Turn(t, p, next) ==
  /\ p \in todo[t]
  /\ IF todo[t] = {p} THEN StartLoop(t, next)
     ELSE todo' = [todo EXCEPT ![t] = @ \ {p}] /\ UNCHANGED pc

Discover(t) ==
  /\ pc[t] = "discover"
  /\ serials' = {}
  /\ quota' = Cardinality(plugged)
  /\ Goto(t, "open")
  /\ UNCHANGED <<mtx, ers, running, todo, cur, canports, mapped, init, err,
                 link, rxpc, envVars>>

\* create_serial_devices_for_config makes the next lively_serial, whose
\* constructor opens the device, or marks the error if it is gone or cannot be
\* opened.
Open(t, p) ==
  /\ pc[t] = "open"
  /\ p \in Ports \ serials
  /\ Cardinality(serials) < quota
  /\ serials' = serials \cup {p}
  /\ \/ /\ p \in plugged
        /\ init' = init \cup {p}
        /\ link' = [link EXCEPT ![p] = "live"]
        /\ UNCHANGED <<err, faults>>
     \/ /\ IF p \notin plugged THEN UNCHANGED faults
           ELSE faults < MaxFaults /\ faults' = faults + 1
        /\ err' = err \cup {p}
        /\ UNCHANGED <<init, link>>
  /\ UNCHANGED <<robotVars, canports, mapped, rxpc, ok, plugged>>

OpenDone(t) ==
  /\ pc[t] = "open"
  /\ serials = Ports
  /\ StartLoop(t, "start")
  /\ UNCHANGED <<mtx, ers, running, cur, quota, serialVars, envVars>>

\* "serial_id is outside the discovered serial port range"
OpenMissing(t) ==
  /\ pc[t] = "open"
  /\ serials # Ports
  /\ Cardinality(serials) >= quota
  /\ Throw(t)
  /\ UNCHANGED <<ers, running, todo, cur, quota, serialVars, envVars>>

StartReceiver(t, p) ==
  /\ pc[t] = "start"
  /\ rxpc' = [rxpc EXCEPT ![p] = "loop"]
  /\ Turn(t, p, "wire")
  /\ UNCHANGED <<mtx, ers, running, cur, quota, serials, canports, mapped,
                 init, err, link, envVars>>

\* build_runtime_topology: the canport's constructor makes the motors and
\* hands their map and its own fields to the lively_serial.
Wire(t, p) ==
  /\ pc[t] = "wire"
  /\ canports' = canports \cup {p}
  /\ mapped' = mapped \cup {p}
  /\ Turn(t, p, "configure")
  /\ UNCHANGED <<mtx, ers, running, cur, quota, serials, init, err, link,
                 rxpc, envVars>>

\* send_frame. On a lost device the write throws: close() runs here, and
\* mark_error() is the thread's next step.
Send(t, p) ==
  /\ pc[t] \in Sending
  /\ cur[t] = None
  /\ p \in todo[t]
  /\ todo' = [todo EXCEPT ![t] = @ \ {p}]
  /\ \/ /\ link[p] = "live"
        /\ UNCHANGED <<init, err, link, cur>>
     \/ /\ link[p] = "lost"
        /\ init' = init \ {p}
        /\ link' = [link EXCEPT ![p] = "closed"]
        /\ cur' = [cur EXCEPT ![t] = p]
        /\ UNCHANGED err
     \/ /\ link[p] = "closed"
        /\ err' = err \cup {p}
        /\ init' = init \ {p}
        /\ UNCHANGED <<link, cur>>
  /\ UNCHANGED <<mtx, pc, ers, running, quota, serials, canports, mapped,
                 rxpc, envVars>>

MarkError(t) ==
  /\ cur[t] # None
  /\ err' = err \cup {cur[t]}
  /\ init' = init \ {cur[t]}
  /\ cur' = [cur EXCEPT ![t] = None]
  /\ UNCHANGED <<mtx, pc, ers, running, todo, quota, serials, canports,
                 mapped, link, rxpc, envVars>>

\* Every port has been sent to and no mark_error() is pending.
RoundDone(t) == todo[t] = {} /\ cur[t] = None

\* configure_port_motor_counts has asked every port.
Configured(t) ==
  /\ pc[t] = "configure" /\ RoundDone(t)
  /\ StartLoop(t, "connect")
  /\ UNCHANGED <<mtx, ers, running, cur, quota, serialVars, envVars>>

\* check_motor_connection_for_firmware returns. Reconnect ends here; the
\* constructor goes on to the reset of the FDCAN, the motor timeout and the
\* first state request.
Connected(t) ==
  /\ pc[t] = "connect" /\ RoundDone(t)
  /\ IF t = "ros"
     THEN StartLoop(t, "setup") /\ UNCHANGED <<mtx, ers>>
     ELSE /\ Goto(t, "sleep")
          /\ ers' = "Check"
          /\ mtx' = "free"
          /\ UNCHANGED todo
  /\ UNCHANGED <<running, cur, quota, serialVars, envVars>>

\* ... or motor_version_detection throws "Inconsistent motor version".
ConnectThrows(t) ==
  /\ pc[t] = "connect" /\ RoundDone(t)
  /\ faults < MaxFaults
  /\ faults' = faults + 1
  /\ Throw(t)
  /\ UNCHANGED <<ers, running, todo, cur, quota, serialVars, ok, plugged>>

BuildUpStep(t) ==
  \/ Discover(t) \/ OpenDone(t) \/ OpenMissing(t)
  \/ Configured(t) \/ Connected(t) \/ ConnectThrows(t)
  \/ MarkError(t)
  \/ \E p \in Ports : Open(t, p) \/ StartReceiver(t, p) \/ Wire(t, p) \/ Send(t, p)

-----------------------------------------------------------------------------
(* Tearing it down: cleanup_runtime, called by check_error under the lock, *)
(* by the destructor under the lock and by the constructor's handler.      *)

\* Mutant: the receivers are asked to stop but not joined.
RequestStopNoJoin(t) ==
  /\ pc[t] = "stopRx"
  /\ init' = init \ serials
  /\ Goto(t, "clear")
  /\ UNCHANGED <<mtx, ers, running, todo, cur, quota, serials, canports,
                 mapped, err, link, rxpc, envVars>>

RequestStop(t) ==
  /\ pc[t] = "stopRx"
  /\ init' = init \ serials
  /\ Goto(t, "join")
  /\ UNCHANGED <<mtx, ers, running, todo, cur, quota, serials, canports,
                 mapped, err, link, rxpc, envVars>>

JoinReceivers(t) ==
  /\ pc[t] = "join"
  /\ \A p \in Ports : rxpc[p] \in {"none", "exited"}
  /\ rxpc' = [p \in Ports |-> "none"]
  /\ Goto(t, "clear")
  /\ UNCHANGED <<mtx, ers, running, todo, cur, quota, serials, canports,
                 mapped, init, err, link, envVars>>

ClearTopology(t) ==
  /\ pc[t] = "clear"
  /\ canports' = {}
  /\ Goto(t, "destroy")
  /\ UNCHANGED <<mtx, ers, running, todo, cur, quota, serials, mapped, init,
                 err, link, rxpc, envVars>>

\* destroy_serial_devices, and with it the fields of every lively_serial.
\* Then the caller goes on: the robot is gone, or check_error waits for the
\* devices with the lock released.
DestroySerials(t) ==
  /\ pc[t] = "destroy"
  /\ serials' = {} /\ mapped' = {} /\ init' = {} /\ err' = {}
  /\ link' = [p \in Ports |-> "closed"]
  /\ mtx' = "free"
  /\ todo' = [todo EXCEPT ![t] = {}]
  /\ IF t = "ros" THEN Goto(t, "gone") /\ UNCHANGED ers
                  ELSE Goto(t, "sleep") /\ ers' = "WaitDevice"
  /\ UNCHANGED <<running, cur, quota, canports, rxpc, envVars>>

TearDownStep(t) ==
  RequestStop(t) \/ JoinReceivers(t) \/ ClearTopology(t) \/ DestroySerials(t)

-----------------------------------------------------------------------------
(* The executor thread.                                                    *)

\* The constructor has finished: start_error_check_thread.
SpawnChecker ==
  /\ pc["ros"] = "setup" /\ RoundDone("ros")
  /\ running' = TRUE
  /\ pc' = [pc EXCEPT !["ros"] = "spin", !["chk"] = "loop"]
  /\ UNCHANGED <<mtx, ers, todo, cur, quota, serialVars, envVars>>

\* A timer tick, a command, an IMU sample or a broadcast command.
StartCallback ==
  /\ pc["ros"] = "spin"
  /\ ok
  /\ Goto("ros", "want")
  /\ UNCHANGED <<mtx, ers, running, todo, cur, quota, serialVars, envVars>>

\* The callback takes runtime_mutex_ and walks can_boards_ as they are.
LockCallback ==
  /\ pc["ros"] = "want"
  /\ mtx = "free"
  /\ mtx' = "ros"
  /\ Goto("ros", "cb")
  /\ todo' = [todo EXCEPT !["ros"] = canports]
  /\ UNCHANGED <<ers, running, cur, quota, serialVars, envVars>>

\* It returns, or throws (and is caught by the node), after any number of
\* frames: a command or an IMU sample sends none, a stop or a tick one per
\* port, a tick under a limit none.
EndCallback ==
  /\ pc["ros"] = "cb" /\ cur["ros"] = None
  /\ mtx' = "free"
  /\ Goto("ros", "spin")
  /\ todo' = [todo EXCEPT !["ros"] = {}]
  /\ UNCHANGED <<ers, running, cur, quota, serialVars, envVars>>

\* spin() returns after an interrupt, and main destroys the node:
\* stop_error_check_thread, then the lock.
BeginDestructor ==
  /\ pc["ros"] = "spin"
  /\ ~ok
  /\ Goto("ros", "stopChk")
  /\ UNCHANGED <<mtx, ers, running, todo, cur, quota, serialVars, envVars>>

\* Mutant: error_check_running_ is not cleared before the join.
StopCheckerKeepsRunning ==
  /\ pc["ros"] = "stopChk"
  /\ Goto("ros", "joinChk")
  /\ UNCHANGED <<mtx, ers, running, todo, cur, quota, serialVars, envVars>>

StopChecker ==
  /\ pc["ros"] = "stopChk"
  /\ running' = FALSE
  /\ Goto("ros", "joinChk")
  /\ UNCHANGED <<mtx, ers, todo, cur, quota, serialVars, envVars>>

\* Mutant: the error-check thread is detached instead of joined.
JoinCheckerDetaches ==
  /\ pc["ros"] = "joinChk"
  /\ Goto("ros", "lockDtor")
  /\ UNCHANGED <<mtx, ers, running, todo, cur, quota, serialVars, envVars>>

JoinChecker ==
  /\ pc["ros"] = "joinChk"
  /\ pc["chk"] = "done"
  /\ Goto("ros", "lockDtor")
  /\ UNCHANGED <<mtx, ers, running, todo, cur, quota, serialVars, envVars>>

LockDestructor ==
  /\ pc["ros"] = "lockDtor"
  /\ mtx = "free"
  /\ mtx' = "ros"
  /\ Goto("ros", "reset")
  /\ todo' = [todo EXCEPT !["ros"] = canports]
  /\ UNCHANGED <<ers, running, cur, quota, serialVars, envVars>>

\* reset_all_boards has sent its reset frames; cleanup_runtime follows.
ResetDone ==
  /\ pc["ros"] = "reset" /\ RoundDone("ros")
  /\ Goto("ros", "stopRx")
  /\ UNCHANGED <<mtx, ers, running, todo, cur, quota, serialVars, envVars>>

RosLocks == LockCallback \/ LockDestructor
RosStep ==
  \/ BuildUpStep("ros") \/ TearDownStep("ros")
  \/ SpawnChecker \/ StartCallback \/ EndCallback
  \/ BeginDestructor \/ StopChecker \/ JoinChecker \/ ResetDone

-----------------------------------------------------------------------------
(* The error-check thread.                                                 *)

\* while (error_check_running_) switch (error_run_state)
Dispatch ==
  /\ pc["chk"] = "loop"
  /\ Goto("chk", IF ~running THEN "done"
                 ELSE IF ers = "WaitDevice" THEN "scan" ELSE "lock")
  /\ UNCHANGED <<mtx, ers, running, todo, cur, quota, serialVars, envVars>>

\* Mutant: check_error works without runtime_mutex_.
LockStateUnlocked ==
  /\ pc["chk"] = "lock"
  /\ Goto("chk", IF ers = "Check" THEN "check"
                 ELSE IF ers = "Clear" THEN "stopRx" ELSE "discover")
  /\ UNCHANGED <<mtx, ers, running, todo, cur, quota, serialVars, envVars>>

LockState ==
  /\ pc["chk"] = "lock"
  /\ mtx = "free"
  /\ mtx' = "chk"
  /\ Goto("chk", IF ers = "Check" THEN "check"
                 ELSE IF ers = "Clear" THEN "stopRx" ELSE "discover")
  /\ UNCHANGED <<ers, running, todo, cur, quota, serialVars, envVars>>

\* The handler's own lock, before cleanup_runtime.
LockHandler ==
  /\ pc["chk"] = "unwound"
  /\ mtx = "free"
  /\ mtx' = "chk"
  /\ Goto("chk", "stopRx")
  /\ UNCHANGED <<ers, running, todo, cur, quota, serialVars, envVars>>

\* Mutant: only when every serial device has failed.
CheckErrorsAll ==
  /\ pc["chk"] = "check"
  /\ ers' = IF err = Ports THEN "Clear" ELSE "Check"
  /\ mtx' = "free"
  /\ Goto("chk", "sleep")
  /\ UNCHANGED <<running, todo, cur, quota, serialVars, envVars>>

\* Mutant: init_flag is consulted instead of error_flag.
CheckErrorsInitFlag ==
  /\ pc["chk"] = "check"
  /\ ers' = IF init # serials THEN "Clear" ELSE "Check"
  /\ mtx' = "free"
  /\ Goto("chk", "sleep")
  /\ UNCHANGED <<running, todo, cur, quota, serialVars, envVars>>

CheckErrors ==
  /\ pc["chk"] = "check"
  /\ ers' = IF err # {} THEN "Clear" ELSE "Check"
  /\ mtx' = "free"
  /\ Goto("chk", "sleep")
  /\ UNCHANGED <<running, todo, cur, quota, serialVars, envVars>>

\* count_existing_serial_devices only looks for /dev/ttyACM<n>.
Scan ==
  /\ pc["chk"] = "scan"
  /\ ers' = IF Cardinality(AcmPorts \cap plugged) < Cardinality(Ports)
            THEN "WaitDevice" ELSE "Reconnect"
  /\ Goto("chk", "sleep")
  /\ UNCHANGED <<mtx, running, todo, cur, quota, serialVars, envVars>>

\* wait_while_running: the waits are only time passing.
Wake ==
  /\ pc["chk"] = "sleep"
  /\ Goto("chk", "loop")
  /\ UNCHANGED <<mtx, ers, running, todo, cur, quota, serialVars, envVars>>

ChkLocks == LockState \/ LockHandler
ChkStep ==
  \/ BuildUpStep("chk") \/ TearDownStep("chk")
  \/ Dispatch \/ CheckErrors \/ Scan \/ Wake

-----------------------------------------------------------------------------
(* The receive thread of port p.                                           *)

RxGoto(p, label) == rxpc' = [rxpc EXCEPT ![p] = label]

RxWhile(p) ==
  /\ rxpc[p] = "loop"
  /\ RxGoto(p, IF ok /\ p \in init THEN "read" ELSE "exited")
  /\ UNCHANGED <<robotVars, serials, canports, mapped, init, err, link, envVars>>

\* The read times out, resynchronises or fails a CRC.
RxNothing(p) ==
  /\ rxpc[p] = "read"
  /\ link[p] = "live"
  /\ RxGoto(p, "loop")
  /\ UNCHANGED <<robotVars, serials, canports, mapped, init, err, link, envVars>>

\* A whole frame: dispatch_frame starts.
RxFrame(p) ==
  /\ rxpc[p] = "read"
  /\ link[p] = "live"
  /\ RxGoto(p, "dispatch")
  /\ UNCHANGED <<robotVars, serials, canports, mapped, init, err, link, envVars>>

RxDispatched(p) ==
  /\ rxpc[p] = "dispatch"
  /\ RxGoto(p, "loop")
  /\ UNCHANGED <<robotVars, serials, canports, mapped, init, err, link, envVars>>

\* A handler throws: convert_torque for a motor of a type without a conversion.
RxHandlerThrows(p) ==
  /\ rxpc[p] = "dispatch"
  /\ faults < MaxFaults
  /\ faults' = faults + 1
  /\ init' = init \ {p}
  /\ link' = [link EXCEPT ![p] = "closed"]
  /\ RxGoto(p, "closing")
  /\ UNCHANGED <<robotVars, serials, canports, mapped, err, ok, plugged>>

\* Mutant: the error is flagged and init_flag forgotten.
RxMalformedKeepsFlag(p) ==
  /\ rxpc[p] = "read"
  /\ link[p] = "live"
  /\ IF p \in init
     THEN /\ faults < MaxFaults
          /\ faults' = faults + 1
          /\ err' = err \cup {p}
     ELSE UNCHANGED <<faults, err>>
  /\ RxGoto(p, "exited")
  /\ UNCHANGED <<robotVars, serials, canports, mapped, init, link, ok, plugged>>

\* A short read or an oversized length: an error unless the thread is being
\* stopped.
RxMalformed(p) ==
  /\ rxpc[p] = "read"
  /\ link[p] = "live"
  /\ IF p \in init
     THEN /\ faults < MaxFaults
          /\ faults' = faults + 1
          /\ err' = err \cup {p}
          /\ init' = init \ {p}
     ELSE UNCHANGED <<faults, err, init>>
  /\ RxGoto(p, "exited")
  /\ UNCHANGED <<robotVars, serials, canports, mapped, link, ok, plugged>>

\* Mutant: the handler closes the port without mark_error().
RxThrowsUnmarked(p) ==
  /\ rxpc[p] = "read"
  /\ link[p] # "live"
  /\ init' = init \ {p}
  /\ link' = [link EXCEPT ![p] = "closed"]
  /\ RxGoto(p, "exited")
  /\ UNCHANGED <<robotVars, serials, canports, mapped, err, envVars>>

\* The read throws on a lost or closed port: the handler calls close() ...
RxThrows(p) ==
  /\ rxpc[p] = "read"
  /\ link[p] # "live"
  /\ init' = init \ {p}
  /\ link' = [link EXCEPT ![p] = "closed"]
  /\ RxGoto(p, "closing")
  /\ UNCHANGED <<robotVars, serials, canports, mapped, err, envVars>>

\* ... and then mark_error().
RxMarkError(p) ==
  /\ rxpc[p] = "closing"
  /\ err' = err \cup {p}
  /\ init' = init \ {p}
  /\ RxGoto(p, "exited")
  /\ UNCHANGED <<robotVars, serials, canports, mapped, link, envVars>>

Receiver(p) ==
  \/ RxWhile(p) \/ RxNothing(p) \/ RxFrame(p) \/ RxDispatched(p)
  \/ RxMalformed(p) \/ RxThrows(p) \/ RxHandlerThrows(p) \/ RxMarkError(p)

-----------------------------------------------------------------------------
(* The environment: USB devices and the interrupt signal.                  *)

Unplug(p) ==
  /\ p \in plugged
  /\ faults < MaxFaults
  /\ faults' = faults + 1
  /\ plugged' = plugged \ {p}
  /\ link' = [link EXCEPT ![p] = IF @ = "live" THEN "lost" ELSE @]
  /\ UNCHANGED <<robotVars, serials, canports, mapped, init, err, rxpc, ok>>

Plug(p) ==
  /\ p \notin plugged
  /\ plugged' = plugged \cup {p}
  /\ UNCHANGED <<robotVars, serialVars, ok, faults>>

Interrupt ==
  /\ ok
  /\ ok' = FALSE
  /\ UNCHANGED <<robotVars, serialVars, plugged, faults>>

\* The process has ended.
Terminated == pc["ros"] = "gone" /\ UNCHANGED vars

Next ==
  \/ RosStep \/ RosLocks
  \/ ChkStep \/ ChkLocks
  \/ \E p \in Ports : Receiver(p) \/ Unplug(p) \/ Plug(p)
  \/ Interrupt
  \/ Terminated

Spec == Init /\ [][Next]_vars

\* The threads are scheduled and a mutex that is free again and again is
\* eventually obtained (each holder sleeps between two uses: 5 ms ticks, 1 s
\* checks); a device that was unplugged is plugged in again.
Fairness ==
  /\ WF_vars(RosStep) /\ SF_vars(RosLocks)
  /\ WF_vars(ChkStep) /\ SF_vars(ChkLocks)
  /\ \A p \in Ports : WF_vars(Receiver(p)) /\ WF_vars(Plug(p))

FairSpec == Spec /\ Fairness
-----------------------------------------------------------------------------
(* Safety.                                                                 *)

\* The variables range over what the code can store in them.
TypeOK ==
  /\ mtx \in Threads \cup {"free"}
  /\ pc \in [Threads -> RosPc \cup ChkPc]
  /\ pc["ros"] \in RosPc /\ pc["chk"] \in ChkPc
  /\ ers \in RunStates
  /\ running \in BOOLEAN /\ ok \in BOOLEAN
  /\ rxpc \in [Ports -> RxPc]
  /\ serials \subseteq Ports /\ canports \subseteq Ports /\ mapped \subseteq Ports
  /\ init \subseteq Ports /\ err \subseteq Ports
  /\ link \in [Ports -> {"live", "lost", "closed"}]
  /\ todo \in [Threads -> SUBSET Ports]
  /\ cur \in [Threads -> Ports \cup {None}]
  /\ quota \in Nat
  /\ plugged \subseteq Ports
  /\ faults \in 0..MaxFaults

\* A receive thread only runs on a lively_serial that exists; while it
\* dispatches a frame, the canport and motors its pointers lead to exist; and
\* whoever sends frames sends them to ports that exist. (The receivers take
\* no lock: only the order stop, join, clear, destroy of cleanup_runtime
\* protects them, and only runtime_mutex_ protects the callbacks.)
NoUseAfterFree ==
  /\ \A p \in Ports :
       /\ rxpc[p] \in RxActive => p \in serials
       /\ rxpc[p] = "dispatch" /\ p \in mapped => p \in canports
  /\ \A t \in Threads : pc[t] \in Sending =>
       (todo[t] \cup ({cur[t]} \ {None})) \subseteq (canports \cap serials)

\* initialize_serial_devices clears serial_receive_threads_: a std::thread
\* still joinable there would terminate the process. Every path that leads to
\* it, through exceptions too, has joined the receivers first.
NoLostThread ==
  \A t \in Threads : pc[t] = "discover" => \A p \in Ports : rxpc[p] = "none"

\* A callback finds either the whole runtime or none of it, also when
\* check_error's lock is released by an exception in mid-Reconnect.
CallbackSeesWholeRuntime ==
  pc["ros"] \in {"cb", "reset"} =>
    \/ canports = Ports /\ serials = Ports /\ mapped = Ports
    \/ canports = {} /\ \A p \in Ports : rxpc[p] = "dispatch" => p \notin mapped

\* A receiver that ended although nobody asked it to has left error_flag, or
\* the thread whose close() ended it is about to set it: check_error can
\* never miss a dead receiver.
NoSilentDeath ==
  \A p \in Ports :
    rxpc[p] = "exited" /\ ok /\ (\A t \in Threads : pc[t] # "join")
      => p \in err \/ \E t \in Threads : cur[t] = p

\* When main returns, both threads the robot started have ended, no receiver
\* is left and every serial device is closed.
CleanExit ==
  pc["ros"] = "gone" =>
    /\ pc["chk"] \in {"none", "done"}
    /\ mtx = "free"
    /\ serials = {} /\ canports = {}
    /\ \A p \in Ports : rxpc[p] = "none" /\ link[p] = "closed"

-----------------------------------------------------------------------------
(* Liveness.                                                               *)

Healthy ==
  /\ canports = Ports /\ err = {}
  /\ \A p \in Ports : link[p] = "live" /\ rxpc[p] \in RxActive

\* A serial error is always followed by a complete, error-free runtime, or
\* the process is being ended.
ErrorRecovered == err # {} /\ pc["ros"] \notin Constructor ~> Healthy \/ ~ok \/ pc["ros"] = "gone"

\* After the interrupt the process ends, in whatever state of the recovery it
\* arrives.
ShutdownCompletes == ~ok ~> pc["ros"] = "gone"

-----------------------------------------------------------------------------
(* The service the robot gives, as RuntimeService states it.               *)

Down == pc["chk"] \in BuildUp \cup TearDown \cup {"unwound"} \/ canports # Ports

phase ==
  IF pc["ros"] \in Constructor THEN "starting"
  ELSE IF pc["ros"] \in TearDown \cup {"reset"} THEN "closing"
  ELSE IF pc["ros"] = "gone" THEN "closed"
  ELSE IF Down THEN "down"
  ELSE IF err = {} THEN "serving" ELSE "faulted"

Service == INSTANCE RuntimeService

\* check_error takes the runtime out of service only for an error and never
\* clears an error without a whole teardown; the robot is closed once.
ImplementsService == Service!Spec

-----------------------------------------------------------------------------
(* The ports the robot uses, as PortContract states them.                  *)

Contract(p) == INSTANCE PortContract WITH
  made <- p \in serials,
  receiver <- IF rxpc[p] = "none" THEN "none"
              ELSE IF rxpc[p] = "exited" THEN "ended" ELSE "running",
  init <- p \in init,
  err <- p \in err

\* Every port, however often it is made again, is one of PortContract, as the
\* port of SerialPort is, which has all the steps in between: no flag comes back
\* to life, no thread ends unasked, no object goes under its thread.
\* (\A p \in Ports : Contract(p)!Spec, with the quantifier where TLC reads it.)
ImplementsPort ==
  /\ \A p \in Ports : Contract(p)!Init
  /\ [][\A p \in Ports : Contract(p)!Next \/ UNCHANGED Contract(p)!vars]_vars
=============================================================================
