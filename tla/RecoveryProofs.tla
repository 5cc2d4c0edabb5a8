--------------------------- MODULE RecoveryProofs ---------------------------
(***************************************************************************)
(* For every finite set of ports and every bound on the faults: the type   *)
(* invariant of Recovery and its safety invariants.                        *)
(*                                                                         *)
(* The argument. Whoever changes the runtime is alone with it: "ros" while *)
(* "chk" does not exist or has ended (Order), "chk" while it holds the     *)
(* mutex (Locking). So the objects that exist follow from the label of the *)
(* one thread that is building them up or tearing them down (Stage), and   *)
(* from error_run_state when nobody is (Rest).                             *)
(***************************************************************************)
EXTENDS Recovery, FiniteSetTheorems, TLAPS

NobodyRuns == \A p \in Ports : rxpc[p] = "none"
Bare == serials = {} /\ canports = {} /\ mapped = {} /\ NobodyRuns
Whole == serials = Ports /\ canports = Ports /\ mapped = Ports

\* runtime_mutex_ is held where the code holds it.
Locking ==
  /\ pc["chk"] \in ChkLocked => mtx = "chk"
  /\ pc["ros"] = "cb" => mtx = "ros"
  /\ pc["ros"] = "gone" => mtx = "free"

\* The error-check thread exists between the end of the constructor and the
\* join in the destructor.
Order ==
  /\ pc["ros"] \in Constructor => pc["chk"] = "none"
  /\ pc["ros"] \in {"spin", "want", "cb", "stopChk", "joinChk"} => pc["chk"] # "none"
  /\ pc["ros"] \in {"lockDtor", "reset"} => pc["chk"] = "done"
  /\ pc["ros"] \in TearDown \cup {"gone"} => pc["chk"] \in {"none", "done"}
  /\ pc["chk"] = "none" => ers = "Check"

\* What exists while thread t builds the runtime up or tears it down.
Stage(t) ==
  /\ pc[t] = "discover" => Bare
  /\ pc[t] = "open" => canports = {} /\ mapped = {} /\ NobodyRuns
  /\ pc[t] = "start" =>
       /\ serials = Ports /\ canports = {} /\ mapped = {}
       /\ \A p \in todo[t] : rxpc[p] = "none"
  /\ pc[t] = "wire" => serials = Ports /\ canports = Ports \ todo[t]
  /\ pc[t] \in {"configure", "connect", "setup"} => Whole
  /\ pc[t] = "unwound" => canports = {} \/ Whole
  /\ pc[t] = "clear" => NobodyRuns
  /\ pc[t] = "destroy" => NobodyRuns /\ canports = {}
  /\ pc[t] = "gone" => Bare /\ \A p \in Ports : link[p] = "closed"

\* What exists while nobody does.
Rest ==
  pc["chk"] \in {"loop", "lock", "check", "scan", "sleep", "done"}
  /\ pc["ros"] \notin TearDown \cup {"gone"} =>
    /\ ers \in {"Check", "Clear"} => Whole /\ pc["chk"] # "scan"
    /\ ers \in {"WaitDevice", "Reconnect"} => Bare /\ pc["chk"] # "check"

\* The pointers between the objects.
Pointers ==
  /\ canports \subseteq serials
  /\ mapped = canports \/ \E t \in Threads : pc[t] = "destroy"
  /\ \A p \in Ports : rxpc[p] # "none" => p \in serials
  /\ \A t \in Threads :
       /\ pc[t] \in Sending => todo[t] \subseteq canports
       /\ cur[t] # None => pc[t] \in Sending /\ cur[t] \in canports

\* How a receiver and its error_flag hang together.
Stopping == \E t \in Threads : pc[t] \in {"join", "clear", "destroy"}
Flags ==
  \A p \in Ports :
    /\ rxpc[p] = "exited" /\ ok /\ ~Stopping => p \notin init
    /\ p \in serials \ init /\ ~Stopping =>
         p \in err \/ rxpc[p] = "closing" \/ \E t \in Threads : cur[t] = p

State == Locking /\ Order /\ (\A t \in Threads : Stage(t)) /\ Rest /\ Pointers

-----------------------------------------------------------------------------
(* Types.                                                                  *)

LEMMA BuildUpTyped ==
  ASSUME NEW t \in Threads, TypeOK, BuildUpStep(t)
  PROVE  TypeOK'
<1> USE PortsAssumption DEF TypeOK, Goto, StartLoop, Turn, Throw, Threads, RosPc,
      ChkPc, RunStates, RxPc, Constructor, BuildUp, TearDown, envVars
<1>1. CASE Discover(t)
  <2>1. IsFiniteSet(plugged)
    BY FS_Subset
  <2>2. Cardinality(plugged) \in Nat
    BY <2>1, FS_CardinalityType
  <2> QED
    BY <1>1, <2>2 DEF Discover
<1>2. CASE OpenDone(t) \/ OpenMissing(t)
  BY <1>2 DEF OpenDone, OpenMissing, serialVars
<1>3. CASE Configured(t) \/ Connected(t) \/ ConnectThrows(t)
  BY <1>3 DEF Configured, Connected, ConnectThrows, serialVars
<1>4. CASE MarkError(t)
  BY <1>4 DEF MarkError
<1>5. ASSUME NEW p \in Ports, Open(t, p) PROVE TypeOK'
  BY <1>5 DEF Open, robotVars
<1>6. ASSUME NEW p \in Ports, StartReceiver(t, p) PROVE TypeOK'
  BY <1>6 DEF StartReceiver
<1>7. ASSUME NEW p \in Ports, Wire(t, p) PROVE TypeOK'
  BY <1>7 DEF Wire
<1>8. ASSUME NEW p \in Ports, Send(t, p) PROVE TypeOK'
  BY <1>8 DEF Send
<1> QED
  BY <1>1, <1>2, <1>3, <1>4, <1>5, <1>6, <1>7, <1>8 DEF BuildUpStep

LEMMA TearDownTyped ==
  ASSUME NEW t \in Threads, TypeOK, TearDownStep(t)
  PROVE  TypeOK'
  BY DEF TearDownStep, RequestStop, JoinReceivers, ClearTopology, DestroySerials,
    TypeOK, Goto, Threads, RosPc, ChkPc, RunStates, RxPc, Constructor, BuildUp,
    TearDown, envVars

LEMMA RosTyped ==
  ASSUME TypeOK,
         SpawnChecker \/ StartCallback \/ EndCallback \/ BeginDestructor
         \/ StopChecker \/ JoinChecker \/ ResetDone \/ RosLocks
  PROVE  TypeOK'
<1> USE DEF TypeOK, Goto, Threads, RosPc, ChkPc, Constructor, BuildUp, TearDown,
      serialVars, envVars
<1>1. CASE SpawnChecker
  BY <1>1 DEF SpawnChecker
<1>2. CASE StartCallback \/ EndCallback
  BY <1>2 DEF StartCallback, EndCallback
<1>3. CASE BeginDestructor \/ JoinChecker \/ ResetDone
  BY <1>3 DEF BeginDestructor, JoinChecker, ResetDone
<1>4. CASE StopChecker
  <2>1. running' \in BOOLEAN
    BY <1>4, Zenon DEF StopChecker
  <2> QED
    BY <1>4, <2>1 DEF StopChecker
<1>5. CASE RosLocks
  BY <1>5 DEF RosLocks, LockCallback, LockDestructor
<1> QED
  BY <1>1, <1>2, <1>3, <1>4, <1>5

LEMMA ChkTyped ==
  ASSUME TypeOK, Dispatch \/ CheckErrors \/ Scan \/ Wake \/ ChkLocks
  PROVE  TypeOK'
  BY DEF Dispatch, CheckErrors, Scan, Wake, ChkLocks, LockState, LockHandler,
    TypeOK, Goto, Threads, RosPc, ChkPc, RunStates, BuildUp, TearDown,
    serialVars, envVars

LEMMA ReceiverTyped ==
  ASSUME NEW p \in Ports, TypeOK, Receiver(p)
  PROVE  TypeOK'
  BY PortsAssumption DEF Receiver, RxWhile, RxNothing, RxFrame, RxDispatched,
    RxMalformed, RxThrows, RxHandlerThrows, RxMarkError, RxGoto, RxPc, TypeOK, robotVars, envVars

LEMMA EnvironmentTyped ==
  ASSUME NEW p \in Ports, TypeOK, Unplug(p) \/ Plug(p) \/ Interrupt
  PROVE  TypeOK'
<1>1. ok' \in BOOLEAN
  BY Zenon DEF TypeOK, Unplug, Plug, Interrupt
<1> QED
  BY <1>1, PortsAssumption DEF Unplug, Plug, Interrupt, TypeOK, robotVars, serialVars

LEMMA TypeStep == TypeOK /\ [Next]_vars => TypeOK'
<1> SUFFICES ASSUME TypeOK, [Next]_vars PROVE TypeOK'
  OBVIOUS
<1>1. CASE RosStep \/ RosLocks
  BY <1>1, BuildUpTyped, TearDownTyped, RosTyped DEF RosStep, Threads
<1>2. CASE ChkStep \/ ChkLocks
  BY <1>2, BuildUpTyped, TearDownTyped, ChkTyped DEF ChkStep, Threads
<1>3. CASE \E p \in Ports : Receiver(p) \/ Unplug(p) \/ Plug(p)
  BY <1>3, ReceiverTyped, EnvironmentTyped
<1>4. CASE Interrupt
  BY <1>4, PortsAssumption, EnvironmentTyped
<1>5. CASE UNCHANGED vars
  BY <1>5 DEF TypeOK, vars, robotVars, serialVars, envVars
<1> QED
  BY <1>1, <1>2, <1>3, <1>4, <1>5 DEF Next, Terminated

\* Every variable keeps its type.
THEOREM TypeCorrect == Spec => []TypeOK
<1>1. Init => TypeOK
  <2> SUFFICES ASSUME Init PROVE TypeOK
    OBVIOUS
  <2>1. pc["ros"] = "discover" /\ pc["chk"] = "none"
    BY DEF Init, Threads
  <2>2. pc \in [Threads -> RosPc \cup ChkPc]
    BY DEF Init, RosPc, ChkPc, Constructor, BuildUp
  <2>3. todo \in [Threads -> SUBSET Ports] /\ cur \in [Threads -> Ports \cup {None}]
    BY DEF Init
  <2>4. quota \in Nat /\ faults \in 0..MaxFaults
    BY PortsAssumption DEF Init
  <2> QED
    BY <2>1, <2>2, <2>3, <2>4 DEF Init, TypeOK, RosPc, ChkPc, RunStates, RxPc,
      Constructor, BuildUp
<1> QED
  BY <1>1, TypeStep, PTL DEF Spec

-----------------------------------------------------------------------------
(* What exists when.                                                       *)

LEMMA BuildUpKeeps ==
  ASSUME NEW t \in Threads, TypeOK, State, BuildUpStep(t)
  PROVE  State'
<1> USE PortsAssumption DEF TypeOK, State, Locking, Order, Stage, Rest, Pointers,
      Whole, Bare, NobodyRuns, Goto, Threads, Constructor, BuildUp, TearDown,
      Sending, ChkLocked, envVars, RunStates, RosPc, ChkPc
<1>1. CASE Discover(t)
  BY <1>1 DEF Discover
<1>2. CASE OpenDone(t)
  BY <1>2 DEF OpenDone, StartLoop, serialVars
<1>3. CASE OpenMissing(t)
  BY <1>3 DEF OpenMissing, Throw, serialVars
<1>4. CASE Configured(t)
  BY <1>4 DEF Configured, StartLoop, RoundDone, serialVars
<1>5. CASE Connected(t)
  BY <1>5 DEF Connected, StartLoop, RoundDone, serialVars
<1>6. CASE ConnectThrows(t)
  BY <1>6 DEF ConnectThrows, Throw, RoundDone, serialVars
<1>7. CASE MarkError(t)
  BY <1>7 DEF MarkError
<1>8. ASSUME NEW p \in Ports, Open(t, p) PROVE State'
  BY <1>8 DEF Open, robotVars
<1>9. ASSUME NEW p \in Ports, StartReceiver(t, p) PROVE State'
  BY <1>9 DEF StartReceiver, Turn, StartLoop
<1>10. ASSUME NEW p \in Ports, Wire(t, p) PROVE State'
  BY <1>10 DEF Wire, Turn, StartLoop
<1>11. ASSUME NEW p \in Ports, Send(t, p) PROVE State'
  BY <1>11 DEF Send
<1> QED
  BY <1>1, <1>2, <1>3, <1>4, <1>5, <1>6, <1>7, <1>8, <1>9, <1>10, <1>11
  DEF BuildUpStep

LEMMA TearDownKeeps ==
  ASSUME NEW t \in Threads, TypeOK, State, TearDownStep(t)
  PROVE  State'
<1> USE DEF TypeOK, State, Locking, Order, Stage, Rest, Pointers,
      Whole, Bare, NobodyRuns, Goto, Threads, Constructor, BuildUp, TearDown,
      Sending, ChkLocked, envVars, RunStates, RosPc, ChkPc
<1>1. CASE RequestStop(t)
  BY <1>1 DEF RequestStop
<1>2. CASE JoinReceivers(t)
  BY <1>2 DEF JoinReceivers
<1>3. CASE ClearTopology(t)
  BY <1>3 DEF ClearTopology
<1>4. CASE DestroySerials(t)
  BY <1>4 DEF DestroySerials
<1> QED
  BY <1>1, <1>2, <1>3, <1>4 DEF TearDownStep

LEMMA RosKeeps ==
  ASSUME TypeOK, State,
         SpawnChecker \/ StartCallback \/ EndCallback \/ BeginDestructor
         \/ StopChecker \/ JoinChecker \/ ResetDone \/ RosLocks
  PROVE  State'
<1> USE DEF TypeOK, State, Locking, Order, Stage, Rest, Pointers,
      Whole, Bare, NobodyRuns, Goto, Threads, Constructor, BuildUp, TearDown,
      Sending, ChkLocked, envVars, serialVars, RunStates, RosPc, ChkPc
<1>1. CASE SpawnChecker
  BY <1>1 DEF SpawnChecker, RoundDone
<1>2. CASE StartCallback
  BY <1>2 DEF StartCallback
<1>3. CASE EndCallback
  BY <1>3 DEF EndCallback
<1>4. CASE BeginDestructor \/ StopChecker
  BY <1>4 DEF BeginDestructor, StopChecker
<1>5. CASE JoinChecker
  BY <1>5 DEF JoinChecker
<1>6. CASE ResetDone
  BY <1>6 DEF ResetDone, RoundDone
<1>7. CASE LockCallback
  BY <1>7 DEF LockCallback
<1>8. CASE LockDestructor
  BY <1>8 DEF LockDestructor
<1> QED
  BY <1>1, <1>2, <1>3, <1>4, <1>5, <1>6, <1>7, <1>8 DEF RosLocks

LEMMA ChkKeeps ==
  ASSUME TypeOK, State, Dispatch \/ CheckErrors \/ Scan \/ Wake \/ ChkLocks
  PROVE  State'
<1> USE DEF TypeOK, State, Locking, Order, Stage, Rest, Pointers,
      Whole, Bare, NobodyRuns, Goto, Threads, Constructor, BuildUp, TearDown,
      Sending, ChkLocked, envVars, serialVars, RunStates, RosPc, ChkPc
<1>1. CASE Dispatch
  BY <1>1 DEF Dispatch
<1>2. CASE CheckErrors
  BY <1>2 DEF CheckErrors
<1>3. CASE Scan
  BY <1>3 DEF Scan
<1>4. CASE Wake
  BY <1>4 DEF Wake
<1>5. CASE LockState
  BY <1>5 DEF LockState
<1>6. CASE LockHandler
  BY <1>6 DEF LockHandler
<1> QED
  BY <1>1, <1>2, <1>3, <1>4, <1>5, <1>6 DEF ChkLocks

LEMMA ReceiverKeeps ==
  ASSUME NEW p \in Ports, TypeOK, State, Receiver(p)
  PROVE  State'
<1>1. /\ UNCHANGED <<robotVars, serials, canports, mapped>>
      /\ rxpc[p] # "none"
      /\ \A q \in Ports : rxpc'[q] = "none" <=> rxpc[q] = "none"
      /\ (\A q \in Ports : link[q] = "closed") => \A q \in Ports : link'[q] = "closed"
  BY DEF TypeOK, Receiver, RxWhile, RxNothing, RxFrame, RxDispatched, RxMalformed,
    RxThrows, RxHandlerThrows, RxMarkError, RxGoto
<1> QED
  BY <1>1 DEF TypeOK, State, Locking, Order, Stage, Rest, Pointers, Whole, Bare,
    NobodyRuns, robotVars

LEMMA EnvironmentKeeps ==
  ASSUME NEW p \in Ports, TypeOK, State, Unplug(p) \/ Plug(p) \/ Interrupt
  PROVE  State'
<1>1. /\ UNCHANGED <<robotVars, serials, canports, mapped, rxpc>>
      /\ (\A q \in Ports : link[q] = "closed") => \A q \in Ports : link'[q] = "closed"
  BY DEF TypeOK, Unplug, Plug, Interrupt, serialVars
<1> QED
  BY <1>1 DEF State, Locking, Order, Stage, Rest, Pointers, Whole, Bare, NobodyRuns,
    robotVars

LEMMA StateStep == TypeOK /\ State /\ [Next]_vars => State'
<1> SUFFICES ASSUME TypeOK, State, [Next]_vars PROVE State'
  OBVIOUS
<1>1. CASE RosStep \/ RosLocks
  BY <1>1, BuildUpKeeps, TearDownKeeps, RosKeeps DEF RosStep, Threads
<1>2. CASE ChkStep \/ ChkLocks
  BY <1>2, BuildUpKeeps, TearDownKeeps, ChkKeeps DEF ChkStep, Threads
<1>3. CASE \E p \in Ports : Receiver(p) \/ Unplug(p) \/ Plug(p)
  BY <1>3, ReceiverKeeps, EnvironmentKeeps
<1>4. CASE Interrupt
  BY <1>4, PortsAssumption, EnvironmentKeeps
<1>5. CASE UNCHANGED vars
  BY <1>5 DEF State, Locking, Order, Stage, Rest, Pointers, Whole, Bare, NobodyRuns,
    vars, robotVars, serialVars, envVars
<1> QED
  BY <1>1, <1>2, <1>3, <1>4, <1>5 DEF Next, Terminated

LEMMA StateInvariant == Spec => [](TypeOK /\ State)
<1>1. Init => State
  BY DEF Init, State, Locking, Order, Stage, Rest, Pointers, Bare, NobodyRuns,
    Threads, Constructor, BuildUp, TearDown, Sending, ChkLocked
<1>2. QED
  BY <1>1, StateStep, TypeCorrect, PTL DEF Spec

\* The order of cleanup_runtime and runtime_mutex_ keep every thread off
\* objects that are gone.
THEOREM Memory == Spec => []NoUseAfterFree
<1>1. TypeOK /\ State => NoUseAfterFree
  BY DEF TypeOK, State, Stage, Pointers, NoUseAfterFree, NobodyRuns, RxActive, RxPc, Threads
<1> QED
  BY <1>1, StateInvariant, PTL

\* serial_receive_threads_ is only cleared when its threads are joined.
THEOREM Threading == Spec => []NoLostThread
<1>1. TypeOK /\ State => NoLostThread
  BY DEF State, Stage, NoLostThread, Bare, NobodyRuns
<1> QED
  BY <1>1, StateInvariant, PTL

\* No callback ever meets half a runtime.
THEOREM Callbacks == Spec => []CallbackSeesWholeRuntime
<1>1. TypeOK /\ State => CallbackSeesWholeRuntime
  BY DEF TypeOK, State, Locking, Order, Stage, Rest, Pointers, Bare, Whole, NobodyRuns,
    CallbackSeesWholeRuntime, Threads, ChkLocked, BuildUp, TearDown, ChkPc, RunStates
<1> QED
  BY <1>1, StateInvariant, PTL

\* When the robot is gone nothing of it is left.
THEOREM Closing == Spec => []CleanExit
<1>1. TypeOK /\ State => CleanExit
  BY DEF State, Locking, Order, Stage, CleanExit, Bare, NobodyRuns, Threads
<1> QED
  BY <1>1, StateInvariant, PTL

-----------------------------------------------------------------------------
(* No receiver dies unnoticed.                                             *)

LEMMA FlagsStep == TypeOK /\ State /\ Flags /\ [Next]_vars => Flags'
<1> SUFFICES ASSUME TypeOK, State, Flags, [Next]_vars PROVE Flags'
  OBVIOUS
<1> USE DEF TypeOK, Flags, Stopping, Goto, Threads, envVars
<1>1. ASSUME NEW t \in Threads, BuildUpStep(t) PROVE Flags'
  <2> USE PortsAssumption DEF State, Stage, NobodyRuns, Pointers, Sending, BuildUp
  <2>1. CASE Discover(t) \/ OpenDone(t) \/ OpenMissing(t)
    BY <2>1 DEF Discover, OpenDone, OpenMissing, StartLoop, Throw, Bare, serialVars
  <2>2. CASE Configured(t) \/ Connected(t) \/ ConnectThrows(t)
    BY <2>2 DEF Configured, Connected, ConnectThrows, StartLoop, Throw, serialVars
  <2>3. CASE MarkError(t)
    BY <2>3 DEF MarkError
  <2>4. ASSUME NEW p \in Ports, Open(t, p) PROVE Flags'
    BY <2>4 DEF Open, robotVars
  <2>5. ASSUME NEW p \in Ports, StartReceiver(t, p) PROVE Flags'
    BY <2>5 DEF StartReceiver, Turn, StartLoop
  <2>6. ASSUME NEW p \in Ports, Wire(t, p) PROVE Flags'
    BY <2>6 DEF Wire, Turn, StartLoop
  <2>7. ASSUME NEW p \in Ports, Send(t, p) PROVE Flags'
    BY <2>7 DEF Send
  <2> QED
    BY <1>1, <2>1, <2>2, <2>3, <2>4, <2>5, <2>6, <2>7 DEF BuildUpStep
<1>2. ASSUME NEW t \in Threads, TearDownStep(t) PROVE Flags'
  BY <1>2 DEF TearDownStep, RequestStop, JoinReceivers, ClearTopology, DestroySerials,
    State, Stage, NobodyRuns
<1>3. CASE SpawnChecker \/ StartCallback \/ EndCallback \/ BeginDestructor
           \/ StopChecker \/ JoinChecker \/ ResetDone \/ RosLocks
  <2>1. UNCHANGED <<serialVars, ok, cur>>
    BY <1>3 DEF SpawnChecker, StartCallback, EndCallback, BeginDestructor, StopChecker,
      JoinChecker, ResetDone, RosLocks, LockCallback, LockDestructor
  <2>2. CASE SpawnChecker
    BY <2>1, <2>2 DEF SpawnChecker, State, Order, Constructor, serialVars
  <2>3. CASE StartCallback \/ EndCallback \/ BeginDestructor
    BY <2>1, <2>3 DEF StartCallback, EndCallback, BeginDestructor, serialVars
  <2>4. CASE StopChecker \/ JoinChecker \/ ResetDone
    BY <2>1, <2>4 DEF StopChecker, JoinChecker, ResetDone, serialVars
  <2>5. CASE RosLocks
    BY <2>1, <2>5 DEF RosLocks, LockCallback, LockDestructor, serialVars
  <2> QED
    BY <1>3, <2>2, <2>3, <2>4, <2>5
<1>4. CASE Dispatch \/ CheckErrors \/ Scan \/ Wake \/ ChkLocks
  BY <1>4 DEF Dispatch, CheckErrors, Scan, Wake, ChkLocks, LockState, LockHandler,
    serialVars
<1>5. ASSUME NEW p \in Ports, Receiver(p) PROVE Flags'
  BY <1>5 DEF Receiver, RxWhile, RxNothing, RxFrame, RxDispatched, RxMalformed,
    RxThrows, RxHandlerThrows, RxMarkError, RxGoto, robotVars
<1>6. ASSUME NEW p \in Ports, Unplug(p) \/ Plug(p) \/ Interrupt PROVE Flags'
  BY <1>6 DEF Unplug, Plug, Interrupt, robotVars, serialVars
<1>7. CASE UNCHANGED vars
  BY <1>7 DEF vars, robotVars, serialVars
<1> QED
  BY <1>1, <1>2, <1>3, <1>4, <1>5, <1>6, <1>7, PortsAssumption
  DEF Next, RosStep, ChkStep, Terminated

\* check_error can rely on error_flag alone.
THEOREM Noticed == Spec => []NoSilentDeath
<1>1. Init => Flags
  BY DEF Init, Flags
<1>2. TypeOK /\ State /\ Flags => NoSilentDeath
  BY DEF TypeOK, State, Stage, Pointers, NobodyRuns, Flags, Stopping, NoSilentDeath
<1> QED
  BY <1>1, <1>2, FlagsStep, StateInvariant, PTL DEF Spec

-----------------------------------------------------------------------------
(* The recovery implements the service.                                    *)

\* check_error only clears a runtime in which an error is flagged.
Answer ==
  ers = "Clear" /\ pc["chk"] \in {"sleep", "loop", "lock"} => err # {}

LEMMA AnswerStep == TypeOK /\ State /\ Answer /\ [Next]_vars => Answer'
<1> SUFFICES ASSUME TypeOK, State, Answer, [Next]_vars PROVE Answer'
  OBVIOUS
<1> USE DEF TypeOK, Answer, Goto, Threads, envVars
<1>1. ASSUME NEW t \in Threads, BuildUpStep(t) PROVE Answer'
  <2>1. CASE Discover(t) \/ OpenDone(t) \/ OpenMissing(t)
    BY <2>1 DEF Discover, OpenDone, OpenMissing, StartLoop, Throw, serialVars
  <2>2. CASE Configured(t) \/ Connected(t) \/ ConnectThrows(t)
    BY <2>2 DEF Configured, Connected, ConnectThrows, StartLoop, Throw, serialVars
  <2>3. CASE MarkError(t)
    BY <2>3 DEF MarkError
  <2>4. ASSUME NEW p \in Ports,
               Open(t, p) \/ StartReceiver(t, p) \/ Wire(t, p) \/ Send(t, p)
        PROVE  Answer'
    BY <2>4 DEF Open, StartReceiver, Wire, Send, Turn, StartLoop, robotVars
  <2> QED
    BY <1>1, <2>1, <2>2, <2>3, <2>4 DEF BuildUpStep
<1>2. ASSUME NEW t \in Threads, TearDownStep(t) PROVE Answer'
  BY <1>2 DEF TearDownStep, RequestStop, JoinReceivers, ClearTopology, DestroySerials,
    State, Order, TearDown
<1>3. CASE SpawnChecker \/ StartCallback \/ EndCallback \/ BeginDestructor
           \/ StopChecker \/ JoinChecker \/ ResetDone \/ RosLocks
  BY <1>3 DEF SpawnChecker, StartCallback, EndCallback, BeginDestructor, StopChecker,
    JoinChecker, ResetDone, RosLocks, LockCallback, LockDestructor, serialVars,
    State, Order, Constructor
<1>4. CASE Dispatch \/ CheckErrors \/ Scan \/ Wake \/ ChkLocks
  BY <1>4 DEF Dispatch, CheckErrors, Scan, Wake, ChkLocks, LockState, LockHandler,
    serialVars
<1>5. ASSUME NEW p \in Ports, Receiver(p) PROVE Answer'
  BY <1>5 DEF Receiver, RxWhile, RxNothing, RxFrame, RxDispatched, RxMalformed,
    RxThrows, RxHandlerThrows, RxMarkError, robotVars
<1>6. ASSUME NEW p \in Ports, Unplug(p) \/ Plug(p) \/ Interrupt PROVE Answer'
  BY <1>6 DEF Unplug, Plug, Interrupt, robotVars, serialVars
<1>7. CASE UNCHANGED vars
  BY <1>7 DEF vars, robotVars, serialVars
<1> QED
  BY <1>1, <1>2, <1>3, <1>4, <1>5, <1>6, <1>7, PortsAssumption
  DEF Next, RosStep, ChkStep, Terminated

LEMMA ServiceStep ==
  TypeOK /\ State /\ Answer /\ [Next]_vars => [Service!Next]_phase
<1> SUFFICES ASSUME TypeOK, State, Answer, [Next]_vars PROVE [Service!Next]_phase
  OBVIOUS
<1> USE DEF TypeOK, Goto, Threads, envVars, phase, Down, Service!Next, Service!Start,
      Service!Fault, Service!TakeDown, Service!BringBack, Service!Close,
      Constructor, BuildUp, TearDown
<1>1. ASSUME NEW t \in Threads, BuildUpStep(t) PROVE [Service!Next]_phase
  <2>1. CASE Discover(t) \/ OpenDone(t) \/ OpenMissing(t)
    BY <2>1 DEF Discover, OpenDone, OpenMissing, StartLoop, Throw, serialVars
  <2>2. CASE Configured(t) \/ ConnectThrows(t)
    BY <2>2 DEF Configured, ConnectThrows, StartLoop, Throw, serialVars
  <2>3. CASE Connected(t)
    BY <2>3 DEF Connected, StartLoop, State, Stage, Whole, serialVars
  <2>4. CASE MarkError(t)
    BY <2>4 DEF MarkError
  <2>5. ASSUME NEW p \in Ports, Open(t, p) \/ Send(t, p) PROVE [Service!Next]_phase
    BY <2>5 DEF Open, Send, robotVars
  <2>6. ASSUME NEW p \in Ports, StartReceiver(t, p) \/ Wire(t, p)
        PROVE  [Service!Next]_phase
    BY <2>6 DEF StartReceiver, Wire, Turn, StartLoop
  <2> QED
    BY <1>1, <2>1, <2>2, <2>3, <2>4, <2>5, <2>6 DEF BuildUpStep
<1>2. ASSUME NEW t \in Threads, TearDownStep(t) PROVE [Service!Next]_phase
  BY <1>2, PortsAssumption DEF TearDownStep, RequestStop, JoinReceivers, ClearTopology,
    DestroySerials, State, Stage, Order
<1>3. CASE SpawnChecker
  BY <1>3 DEF SpawnChecker, State, Stage, Whole, serialVars
<1>4. CASE StartCallback \/ EndCallback \/ BeginDestructor \/ StopChecker
  BY <1>4 DEF StartCallback, EndCallback, BeginDestructor, StopChecker, serialVars
<1>5. CASE JoinChecker \/ ResetDone \/ RosLocks
  BY <1>5 DEF JoinChecker, ResetDone, RosLocks, LockCallback, LockDestructor, serialVars
<1>6. CASE Dispatch \/ CheckErrors \/ Scan \/ Wake
  BY <1>6 DEF Dispatch, CheckErrors, Scan, Wake, serialVars
<1>7. CASE ChkLocks
  BY <1>7, PortsAssumption DEF ChkLocks, LockState, LockHandler, serialVars,
    State, Rest, Bare, Answer, RunStates, Order
<1>8. ASSUME NEW p \in Ports, Receiver(p) PROVE [Service!Next]_phase
  BY <1>8 DEF Receiver, RxWhile, RxNothing, RxFrame, RxDispatched, RxMalformed,
    RxThrows, RxHandlerThrows, RxMarkError, robotVars
<1>9. ASSUME NEW p \in Ports, Unplug(p) \/ Plug(p) \/ Interrupt
      PROVE  [Service!Next]_phase
  BY <1>9 DEF Unplug, Plug, Interrupt, robotVars, serialVars
<1>10. CASE UNCHANGED vars
  BY <1>10 DEF vars, robotVars, serialVars
<1> QED
  BY <1>1, <1>2, <1>3, <1>4, <1>5, <1>6, <1>7, <1>8, <1>9, <1>10, PortsAssumption
  DEF Next, RosStep, ChkStep, Terminated

\* Seen from the node, the threads of robot.cc are the machine RuntimeService.
THEOREM Refinement == Spec => ImplementsService
<1>1. Init => Service!Init /\ Answer
  BY DEF Init, Service!Init, phase, Answer, Threads, Constructor, BuildUp
<1> QED
  BY <1>1, AnswerStep, ServiceStep, StateInvariant, PTL
  DEF Spec, ImplementsService, Service!Spec

-----------------------------------------------------------------------------
(* Every port of the recovery is one of PortContract.                      *)

\* A flag belongs to an object that exists, and once cleanup_runtime has asked
\* the receivers to stop none of them is to be used again.
Owned ==
  /\ init \subseteq serials /\ err \subseteq serials
  /\ Stopping => init = {}

LEMMA OwnedStep == TypeOK /\ State /\ Owned /\ [Next]_vars => Owned'
<1> SUFFICES ASSUME TypeOK, State, Owned, [Next]_vars PROVE Owned'
  OBVIOUS
<1> USE DEF TypeOK, Owned, Stopping, Goto, Threads, envVars
<1>1. ASSUME NEW t \in Threads, BuildUpStep(t) PROVE Owned'
  <2> USE PortsAssumption DEF State, Stage, Pointers, Sending, BuildUp
  <2>1. CASE Discover(t) \/ OpenDone(t) \/ OpenMissing(t)
    <3>1. pc[t] = "discover" => init = {} /\ err = {}
      BY DEF Bare
    <3>2. \A u \in Threads : pc'[u] \in {"join", "clear", "destroy"} => pc[u] = pc'[u]
      BY <2>1 DEF Discover, OpenDone, OpenMissing, StartLoop, Throw
    <3> QED
      BY <2>1, <3>1, <3>2 DEF Discover, OpenDone, OpenMissing, StartLoop, Throw, serialVars
  <2>2. CASE Configured(t) \/ Connected(t) \/ ConnectThrows(t)
    BY <2>2 DEF Configured, Connected, ConnectThrows, StartLoop, Throw, serialVars
  <2>3. CASE MarkError(t)
    BY <2>3 DEF MarkError
  <2>4. ASSUME NEW p \in Ports, Open(t, p) PROVE Owned'
    <3>1. ~Stopping
      BY <2>4 DEF Open, Order, Locking, Constructor, TearDown, ChkLocked
    <3> QED
      BY <2>4, <3>1 DEF Open, robotVars
  <2>5. ASSUME NEW p \in Ports, StartReceiver(t, p) \/ Wire(t, p) PROVE Owned'
    BY <2>5 DEF StartReceiver, Wire, Turn, StartLoop
  <2>6. ASSUME NEW p \in Ports, Send(t, p) PROVE Owned'
    BY <2>6 DEF Send
  <2> QED
    BY <1>1, <2>1, <2>2, <2>3, <2>4, <2>5, <2>6 DEF BuildUpStep
<1>2. ASSUME NEW t \in Threads, TearDownStep(t) PROVE Owned'
  BY <1>2 DEF TearDownStep, RequestStop, JoinReceivers, ClearTopology, DestroySerials
<1>3. CASE SpawnChecker \/ StartCallback \/ EndCallback \/ BeginDestructor
           \/ StopChecker \/ JoinChecker \/ ResetDone \/ RosLocks
  BY <1>3 DEF SpawnChecker, StartCallback, EndCallback, BeginDestructor, StopChecker,
    JoinChecker, ResetDone, RosLocks, LockCallback, LockDestructor, serialVars
<1>4. CASE Dispatch \/ CheckErrors \/ Scan \/ Wake \/ ChkLocks
  BY <1>4 DEF Dispatch, CheckErrors, Scan, Wake, ChkLocks, LockState, LockHandler,
    serialVars
<1>5. ASSUME NEW p \in Ports, Receiver(p) PROVE Owned'
  BY <1>5 DEF Receiver, RxWhile, RxNothing, RxFrame, RxDispatched, RxMalformed,
    RxThrows, RxHandlerThrows, RxMarkError, robotVars, State, Pointers
<1>6. ASSUME NEW p \in Ports, Unplug(p) \/ Plug(p) \/ Interrupt PROVE Owned'
  BY <1>6 DEF Unplug, Plug, Interrupt, robotVars, serialVars
<1>7. CASE UNCHANGED vars
  BY <1>7 DEF vars, robotVars, serialVars
<1> QED
  BY <1>1, <1>2, <1>3, <1>4, <1>5, <1>6, <1>7, PortsAssumption
  DEF Next, RosStep, ChkStep, Terminated

\* What a step of the robot is for port q.
PortStep(q) == Contract(q)!Next \/ UNCHANGED Contract(q)!vars

\* A step that leaves the port's object, thread and flags alone.
LEMMA Elsewhere ==
  ASSUME NEW q \in Ports, UNCHANGED ok,
         (q \in serials') <=> (q \in serials), rxpc'[q] = rxpc[q],
         (q \in init') <=> (q \in init), (q \in err') <=> (q \in err)
  PROVE  PortStep(q)
  BY DEF PortStep, Contract!vars

\* A step that uses the port: the receiver's end and the two flags.
LEMMA InUse ==
  ASSUME NEW q \in Ports, UNCHANGED ok, q \in serials, q \in serials',
         q \in init' => q \in init, q \in err => q \in err',
         q \in err' /\ q \notin err => q \notin init',
         \/ rxpc'[q] = rxpc[q]
         \/ rxpc[q] \in RxActive /\ rxpc'[q] \in RxActive
         \/ rxpc[q] \in RxActive /\ rxpc'[q] = "exited" /\ (q \notin init' \/ ~ok)
  PROVE  PortStep(q)
<1>1. Contract(q)!Use
  BY DEF Contract!Use, RxActive, RxPc
<1> QED
  BY <1>1 DEF PortStep, Contract!Next

LEMMA ContractStep ==
  TypeOK /\ State /\ Owned /\ [Next]_vars => \A q \in Ports : PortStep(q)
<1> SUFFICES ASSUME TypeOK, State, Owned, [Next]_vars, NEW q \in Ports
             PROVE  PortStep(q)
  OBVIOUS
<1> USE DEF TypeOK, Goto, Threads, envVars
<1>1. ASSUME NEW t \in Threads, BuildUpStep(t) PROVE PortStep(q)
  <2> USE PortsAssumption DEF State, Stage, Pointers, Sending, NobodyRuns
  <2>1. CASE Discover(t) \/ OpenDone(t) \/ OpenMissing(t) \/ Configured(t) \/ Connected(t)
             \/ ConnectThrows(t)
    BY <2>1, Elsewhere DEF Discover, OpenDone, OpenMissing, Configured, Connected,
      ConnectThrows, StartLoop, Throw, Bare, serialVars
  <2>2. CASE MarkError(t)
    BY <2>2, Elsewhere, InUse DEF MarkError
  <2>3. ASSUME NEW p \in Ports, Open(t, p) PROVE PortStep(q)
    <3>1. CASE p = q
      <4>1. Contract(q)!Make
        BY <2>3, <3>1 DEF Open, Owned, Contract!Make
      <4> QED
        BY <4>1 DEF PortStep, Contract!Next
    <3>2. CASE p # q
      BY <2>3, <3>2, Elsewhere DEF Open
    <3> QED
      BY <3>1, <3>2
  <2>4. ASSUME NEW p \in Ports, StartReceiver(t, p) PROVE PortStep(q)
    <3>1. CASE p = q
      <4>1. Contract(q)!Start
        BY <2>4, <3>1 DEF StartReceiver, Turn, Contract!Start
      <4> QED
        BY <4>1 DEF PortStep, Contract!Next
    <3>2. CASE p # q
      BY <2>4, <3>2, Elsewhere DEF StartReceiver
    <3> QED
      BY <3>1, <3>2
  <2>5. ASSUME NEW p \in Ports, Wire(t, p) PROVE PortStep(q)
    BY <2>5, Elsewhere DEF Wire
  <2>6. ASSUME NEW p \in Ports, Send(t, p) PROVE PortStep(q)
    BY <2>6, Elsewhere, InUse DEF Send
  <2> QED
    BY <1>1, <2>1, <2>2, <2>3, <2>4, <2>5, <2>6 DEF BuildUpStep
<1>2. ASSUME NEW t \in Threads, TearDownStep(t) PROVE PortStep(q)
  <2>1. CASE RequestStop(t)
    BY <2>1, Elsewhere, InUse DEF RequestStop, Owned
  <2>2. CASE JoinReceivers(t)
    <3>1. CASE rxpc[q] = "exited"
      <4>1. Contract(q)!Join
        BY <2>2, <3>1 DEF JoinReceivers, Owned, Stopping, Contract!Join
      <4> QED
        BY <4>1 DEF PortStep, Contract!Next
    <3>2. CASE rxpc[q] = "none"
      BY <2>2, <3>2, Elsewhere DEF JoinReceivers
    <3> QED
      BY <2>2, <3>1, <3>2 DEF JoinReceivers
  <2>3. CASE ClearTopology(t)
    BY <2>3, Elsewhere DEF ClearTopology
  <2>4. CASE DestroySerials(t)
    <3>1. rxpc[q] = "none" /\ q \notin init
      BY <2>4 DEF DestroySerials, State, Stage, NobodyRuns, Owned, Stopping
    <3>2. CASE q \in serials
      <4>1. Contract(q)!Destroy
        BY <2>4, <3>1, <3>2 DEF DestroySerials, Contract!Destroy
      <4> QED
        BY <4>1 DEF PortStep, Contract!Next
    <3>3. CASE q \notin serials
      BY <2>4, <3>1, <3>3, Elsewhere DEF DestroySerials, Owned
    <3> QED
      BY <3>2, <3>3
  <2> QED
    BY <1>2, <2>1, <2>2, <2>3, <2>4 DEF TearDownStep
<1>3. CASE SpawnChecker \/ StartCallback \/ EndCallback \/ BeginDestructor
           \/ StopChecker \/ JoinChecker \/ ResetDone \/ RosLocks
  BY <1>3, Elsewhere DEF SpawnChecker, StartCallback, EndCallback, BeginDestructor,
    StopChecker, JoinChecker, ResetDone, RosLocks, LockCallback, LockDestructor, serialVars
<1>4. CASE Dispatch \/ CheckErrors \/ Scan \/ Wake \/ ChkLocks
  BY <1>4, Elsewhere DEF Dispatch, CheckErrors, Scan, Wake, ChkLocks, LockState,
    LockHandler, serialVars
<1>5. ASSUME NEW p \in Ports, Receiver(p) PROVE PortStep(q)
  <2>1. CASE p # q
    BY <1>5, <2>1, Elsewhere DEF Receiver, RxWhile, RxNothing, RxFrame, RxDispatched,
      RxMalformed, RxThrows, RxHandlerThrows, RxMarkError, RxGoto
  <2>2. CASE p = q
    BY <1>5, <2>2, InUse DEF Receiver, RxWhile, RxNothing, RxFrame, RxDispatched,
      RxMalformed, RxThrows, RxHandlerThrows, RxMarkError, RxGoto, State, Pointers,
      RxActive, RxPc
  <2> QED
    BY <2>1, <2>2
<1>6. ASSUME NEW p \in Ports, Unplug(p) \/ Plug(p) PROVE PortStep(q)
  BY <1>6, Elsewhere DEF Unplug, Plug, serialVars
<1>7. CASE Interrupt
  <2>1. Contract(q)!Interrupt
    BY <1>7 DEF Interrupt, serialVars, Contract!Interrupt
  <2> QED
    BY <2>1 DEF PortStep, Contract!Next
<1>8. CASE UNCHANGED vars
  BY <1>8, Elsewhere DEF vars, serialVars
<1> QED
  BY <1>1, <1>2, <1>3, <1>4, <1>5, <1>6, <1>7, <1>8, PortsAssumption
  DEF Next, RosStep, ChkStep, Terminated

\* Every lively_serial of the robot, however often check_error makes it again,
\* lives by PortContract, as the port of SerialPort does: no flag comes back to
\* life in use, no receive thread ends unasked, none outlives its object.
THEOREM PortRefinement == Spec => ImplementsPort
<1>1. Init => Owned /\ \A p \in Ports : Contract(p)!Init
  BY DEF Init, Owned, Stopping, Threads, Contract!Init
<1>2. TypeOK /\ State /\ Owned /\ [Next]_vars =>
        [\A p \in Ports : Contract(p)!Next \/ UNCHANGED Contract(p)!vars]_vars
  BY ContractStep DEF PortStep
<1> QED
  BY <1>1, <1>2, OwnedStep, StateInvariant, PTL DEF Spec, ImplementsPort

=============================================================================
