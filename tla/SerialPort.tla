----------------------------- MODULE SerialPort -----------------------------
(***************************************************************************)
(* One serial port and its two users: the receive thread (lively_serial::  *)
(* receive_loop) and whoever holds runtime_mutex_, who opens the port,     *)
(* starts the receiver, sends frames and in the end stops the receiver,    *)
(* joins it and destroys the port.  Both go through the serial library:    *)
(* its read and write loops with their time-outs, its two mutexes, and     *)
(* close, which takes neither of them.                                     *)
(*                                                                         *)
(* Bytes are counted.  Which bytes make a frame is in FrameReceiver: here  *)
(* a frame is a head byte and three more reads.                            *)
(***************************************************************************)
EXTENDS Naturals

CONSTANTS
  ReadSize,   \* bytes of each read after the head
  FrameSize,  \* bytes of a frame that is sent
  MaxAvail,   \* bound: bytes that wait to be read
  MaxRoom     \* bytes of room for output

ASSUME PortAssumption ==
  /\ ReadSize \in Nat \ {0} /\ FrameSize \in Nat \ {0}
  /\ MaxAvail \in Nat /\ MaxRoom \in Nat \ {0}

Threads == {"rx", "tx"}
None == "none"

VARIABLES
  alive,     \* the device is plugged in
  avail,     \* bytes that can be read
  room,      \* bytes that can be written
  setup,     \* what became of open: "none" yet, "open", "refused", "misconfigured"
  isOpen,    \* is_open_
  kernel,    \* the descriptor is open (fd_ # -1, but for a moment)
  readLock, writeLock,  \* the thread that holds read_mutex, write_mutex
  init, err, \* init_flag, error_flag
  stopping,  \* stop_serial_receivers has begun
  ok,        \* rclcpp::ok()
  at,        \* where each thread is
  part, got, \* the read the receiver is in, and the bytes it has of it
  written,   \* bytes of the frame written so far
  cut        \* in use, a frame broke off, was too large or could not be handled,
             \* or a write failed

device == <<alive, avail, room>>
descriptor == <<setup, isOpen, kernel>>
locks == <<readLock, writeLock>>
flags == <<init, err, stopping, ok>>
reading == <<part, got, cut>>
vars == <<device, descriptor, locks, flags, at, reading, written>>

Init ==
  /\ alive = TRUE /\ avail = 0 /\ room = MaxRoom
  /\ setup = "none" /\ isOpen = FALSE /\ kernel = FALSE
  /\ readLock = None /\ writeLock = None
  /\ init = FALSE /\ err = FALSE /\ stopping = FALSE /\ ok = TRUE
  /\ at = [p \in Threads |-> IF p = "rx" THEN "none" ELSE "new"]
  /\ part = 0 /\ got = 0 /\ written = 0 /\ cut = FALSE

Go(p, from, to) == at[p] = from /\ at' = [at EXCEPT ![p] = to]
Aborted == at["rx"] = "aborted"

-----------------------------------------------------------------------------
(* The device.                                                             *)

Arrive ==
  /\ alive /\ avail < MaxAvail
  /\ avail' = avail + 1
  /\ UNCHANGED <<alive, room, descriptor, locks, flags, at, reading, written>>

BoardReads ==
  /\ alive /\ room < MaxRoom
  /\ room' = room + 1
  /\ UNCHANGED <<alive, avail, descriptor, locks, flags, at, reading, written>>

Unplug ==
  /\ alive
  /\ alive' = FALSE
  /\ UNCHANGED <<avail, room, descriptor, locks, flags, at, reading, written>>

-----------------------------------------------------------------------------
(* The port is opened and its receiver started.                            *)

\* The constructor of lively_serial: open fails, or gets a descriptor that
\* reconfigurePort then cannot set up and nobody closes.
Construct ==
  /\ Go("tx", "new", "start")
  /\ setup' \in {"open", "refused", "misconfigured"}
  /\ setup' = "open" => alive
  /\ isOpen' = (setup' = "open") /\ kernel' = (setup' # "refused")
  /\ init' = isOpen' /\ err' = ~isOpen'
  /\ UNCHANGED <<device, locks, stopping, ok, reading, written>>

\* start_serial_receivers, whether it is open or not
StartReceiver ==
  /\ at["tx"] = "start"
  /\ at' = [at EXCEPT !["rx"] = "while", !["tx"] = "idle"]
  /\ UNCHANGED <<device, descriptor, locks, flags, reading, written>>

-----------------------------------------------------------------------------
(* lively_serial::close, of the receiver's handler, of a send that failed  *)
(* and of the destructor.                                                  *)

\* Mutant: the flag is cleared when the port is closed, not before.
CloseBeginLater(p) ==
  /\ Go(p, "close", IF isOpen THEN "flushRead" ELSE "closeCall")
  /\ UNCHANGED <<device, descriptor, locks, flags, reading, written>>

CloseBegin(p) ==
  /\ Go(p, "close", IF isOpen THEN "flushRead" ELSE "closeCall")
  /\ init' = FALSE
  /\ UNCHANGED <<device, descriptor, locks, err, stopping, ok, reading, written>>

\* Serial::flush takes both mutexes, the read mutex first.
FlushRead(p) ==
  /\ Go(p, "flushRead", "flushWrite")
  /\ readLock = None /\ readLock' = p
  /\ UNCHANGED <<device, descriptor, writeLock, flags, reading, written>>

FlushWrite(p) ==
  /\ Go(p, "flushWrite", "drain")
  /\ writeLock = None /\ writeLock' = p
  /\ UNCHANGED <<device, descriptor, readLock, flags, reading, written>>

\* Mutant: a device that is gone is taken for a port that has been closed.
DrainGivesUp(p) ==
  /\ room = MaxRoom \/ ~alive \/ ~isOpen
  /\ Go(p, "drain", IF isOpen /\ alive THEN "closeCall" ELSE "closed")
  /\ isOpen' = (isOpen /\ alive)
  /\ readLock' = None /\ writeLock' = None
  /\ UNCHANGED <<device, setup, kernel, flags, reading, written>>

\* tcdrain waits for the output; on a port that is not open flush throws, and
\* the rest of close is skipped.
Drain(p) ==
  /\ room = MaxRoom \/ ~alive \/ ~isOpen
  /\ Go(p, "drain", IF isOpen THEN "closeCall" ELSE "closed")
  /\ readLock' = None /\ writeLock' = None
  /\ UNCHANGED <<device, descriptor, flags, reading, written>>

\* SerialImpl::close looks at is_open_ and fd_ ...
CloseCall(p) ==
  /\ Go(p, "closeCall", IF isOpen THEN "closing" ELSE "closed")
  /\ UNCHANGED <<device, descriptor, locks, flags, reading, written>>

\* ... and then closes the descriptor. If the other thread has done so, ::close
\* fails and the exception is caught.
CloseFd(p) ==
  /\ Go(p, "closing", "closed")
  /\ kernel' = FALSE /\ isOpen' = FALSE
  /\ UNCHANGED <<device, setup, locks, flags, reading, written>>

\* Back from close: the destructor destroys the library's object, the others
\* mark the error.
Closed(p) ==
  /\ Go(p, "closed", IF p = "tx" /\ stopping THEN "again" ELSE "mark")
  /\ UNCHANGED <<device, descriptor, locks, flags, reading, written>>

\* Mutant: only the error is flagged.
MarkErrorOnly(p) ==
  /\ Go(p, "mark", IF p = "rx" THEN "ended" ELSE "idle")
  /\ err' = TRUE
  /\ UNCHANGED <<device, descriptor, locks, init, stopping, ok, reading, written>>

MarkError(p) ==
  /\ Go(p, "mark", IF p = "rx" THEN "ended" ELSE "idle")
  /\ err' = TRUE /\ init' = FALSE
  /\ UNCHANGED <<device, descriptor, locks, stopping, ok, reading, written>>

CloseStep(p) ==
  \/ CloseBegin(p) \/ FlushRead(p) \/ FlushWrite(p) \/ Drain(p)
  \/ CloseCall(p) \/ CloseFd(p) \/ Closed(p) \/ MarkError(p)

\* A thread selects on, reads or writes the descriptor that the other one has
\* closed: FD_SET(-1) is undefined and a fortified build aborts there. Others
\* come back with an error or after the time-out.
Abort ==
  /\ ~kernel
  /\ at["rx"] = "read" \/ at["tx"] = "write"
  /\ at' = [p \in Threads |-> "aborted"]
  /\ UNCHANGED <<device, descriptor, locks, flags, reading, written>>

-----------------------------------------------------------------------------
(* The receive thread.                                                     *)

Needed == IF part = 0 THEN 1 ELSE ReadSize

RxWhile ==
  /\ Go("rx", "while", IF init /\ ok THEN "lock" ELSE "ended")
  /\ part' = 0 /\ got' = 0
  /\ UNCHANGED <<device, descriptor, locks, flags, cut, written>>

\* Serial::read, which throws when the port is not open.
RxLock ==
  /\ readLock = None
  /\ IF isOpen THEN Go("rx", "lock", "read") /\ readLock' = "rx"
     ELSE Go("rx", "lock", "close") /\ UNCHANGED readLock
  /\ UNCHANGED <<device, descriptor, writeLock, flags, reading, written>>

\* Where a read that has all its bytes leads: from the head to the header and
\* on, or back when a byte is no head, a CRC fails or the payload is empty. A
\* length beyond the buffer is an error; so is a handler that throws, as that of
\* a motor without a type does, but only after closing the port.
AfterRead ==
  CASE part = 0 -> {"while", "lock"} [] part = 1 -> {"while", "mark", "lock"}
    [] part = 2 -> {"while", "lock"} [] OTHER -> {"while", "close"}

RxByte ==
  /\ at["rx"] = "read" /\ kernel /\ avail > 0
  /\ avail' = avail - 1
  /\ IF got + 1 < Needed
     THEN got' = got + 1 /\ UNCHANGED <<at, part, cut, readLock>>
     ELSE /\ \E to \in AfterRead :
               /\ Go("rx", "read", to)
               /\ part' = IF to = "lock" THEN part + 1 ELSE part
               /\ cut' = (cut \/ to \in {"mark", "close"})
          /\ got' = 0 /\ readLock' = None
  /\ UNCHANGED <<alive, room, descriptor, writeLock, flags, written>>

\* The bytes do not come in time. Without a head the loop goes on.
RxTimeout ==
  /\ at["rx"] = "read"
  /\ ~kernel \/ (alive /\ avail = 0)
  /\ Go("rx", "read", IF part = 0 THEN "while" ELSE "short")
  /\ readLock' = None
  /\ UNCHANGED <<device, descriptor, writeLock, flags, reading, written>>

\* Mutant: the exception goes past the unlocking.
RxThrowsLocked ==
  /\ ~kernel \/ (~alive /\ avail = 0)
  /\ Go("rx", "read", "close")
  /\ UNCHANGED <<device, descriptor, locks, flags, reading, written>>

\* Mutant: a read that fails is one that got nothing.
RxThrowsIgnored ==
  /\ ~kernel \/ (~alive /\ avail = 0)
  /\ Go("rx", "read", "while")
  /\ readLock' = None
  /\ UNCHANGED <<device, descriptor, writeLock, flags, reading, written>>

\* Ready to read and nothing there: the device is gone. receive_loop closes.
RxThrows ==
  /\ ~kernel \/ (~alive /\ avail = 0)
  /\ Go("rx", "read", "close")
  /\ readLock' = None
  /\ UNCHANGED <<device, descriptor, writeLock, flags, reading, written>>

\* Mutant: a short read is an error, whoever asked the thread to stop.
RxShortAlways ==
  /\ Go("rx", "short", "mark")
  /\ cut' = (cut \/ init)
  /\ UNCHANGED <<device, descriptor, locks, flags, part, got, written>>

\* read_exact came back short: no error if the thread was to stop.
RxShort ==
  /\ Go("rx", "short", IF init THEN "mark" ELSE "ended")
  /\ cut' = (cut \/ init)
  /\ UNCHANGED <<device, descriptor, locks, flags, part, got, written>>

Rx == RxWhile \/ RxLock \/ RxByte \/ RxTimeout \/ RxThrows \/ RxShort \/ CloseStep("rx")

-----------------------------------------------------------------------------
(* The holder of runtime_mutex_.                                           *)

\* send_frame
Send ==
  /\ ~stopping
  /\ Go("tx", "idle", IF isOpen THEN "wlock" ELSE "mark")
  /\ written' = 0
  /\ UNCHANGED <<device, descriptor, locks, flags, reading>>

\* Serial::write
TxLock ==
  /\ writeLock = None
  /\ IF isOpen THEN Go("tx", "wlock", "write") /\ writeLock' = "tx"
     ELSE Go("tx", "wlock", "close") /\ UNCHANGED writeLock
  /\ UNCHANGED <<device, descriptor, readLock, flags, reading, written>>

TxByte ==
  /\ at["tx"] = "write" /\ kernel /\ alive /\ room > 0
  /\ room' = room - 1
  /\ written' = written + 1
  /\ IF written' < FrameSize THEN UNCHANGED <<at, writeLock>>
     ELSE Go("tx", "write", "idle") /\ writeLock' = None
  /\ UNCHANGED <<alive, avail, descriptor, readLock, flags, reading>>

\* No room in time: write returns what it wrote, and send_frame does not look.
TxTimeout ==
  /\ ~kernel \/ (alive /\ room = 0)
  /\ Go("tx", "write", "idle")
  /\ writeLock' = None
  /\ UNCHANGED <<device, descriptor, readLock, flags, reading, written>>

\* The device is gone, or ::write has nothing to say although select had:
\* send_frame closes the port.
TxThrows ==
  /\ Go("tx", "write", "close")
  /\ writeLock' = None
  /\ cut' = TRUE
  /\ UNCHANGED <<device, descriptor, readLock, flags, part, got, written>>

\* Mutant: the receiver is joined without having been told to stop.
StopUntold ==
  /\ at["tx"] \in {"start", "idle"} /\ Go("tx", at["tx"], "join")
  /\ stopping' = TRUE
  /\ UNCHANGED <<device, descriptor, locks, init, err, ok, reading, written>>

\* stop_serial_receivers, before the receiver was started if another port could
\* not be made: request_stop ...
Stop ==
  /\ at["tx"] \in {"start", "idle"} /\ Go("tx", at["tx"], "join")
  /\ stopping' = TRUE /\ init' = FALSE
  /\ UNCHANGED <<device, descriptor, locks, err, ok, reading, written>>

\* ... join, and the destructor.
Join ==
  /\ at["rx"] \in {"none", "ended"}
  /\ Go("tx", "join", "close")
  /\ UNCHANGED <<device, descriptor, locks, flags, reading, written>>

\* ~SerialImpl calls its close once more, which skips a port that is closed.
Again ==
  /\ Go("tx", "again", IF isOpen THEN "closing" ELSE "gone")
  /\ UNCHANGED <<device, descriptor, locks, flags, reading, written>>

Interrupt ==
  /\ ok /\ ok' = FALSE
  /\ UNCHANGED <<device, descriptor, locks, init, err, stopping, at, reading, written>>

Tx ==
  \/ Construct \/ StartReceiver
  \/ TxLock \/ TxByte \/ TxTimeout \/ TxThrows \/ Join \/ Again \/ CloseStep("tx")

Next ==
  \/ Arrive \/ BoardReads \/ Unplug \/ Interrupt
  \/ Rx \/ Send \/ Stop \/ Tx \/ Abort

Spec == Init /\ [][Next]_vars

\* Neither mutex is fair, so a thread gets one only if it stays free. A board
\* that is plugged in takes what it is sent.
FairSpec == Spec /\ WF_vars(Rx) /\ WF_vars(Tx) /\ WF_vars(BoardReads)

-----------------------------------------------------------------------------
Closing == {"close", "flushRead", "flushWrite", "drain", "closeCall", "closing", "closed", "mark"}
RxPlaces == Closing \cup {"none", "while", "lock", "read", "short", "ended", "aborted"}
TxPlaces == Closing \cup {"again", "new", "start", "idle", "wlock", "write", "join", "gone", "aborted"}

TypeOK ==
  /\ alive \in BOOLEAN /\ avail \in 0..MaxAvail /\ room \in 0..MaxRoom
  /\ setup \in {"none", "open", "refused", "misconfigured"}
  /\ isOpen \in BOOLEAN /\ kernel \in BOOLEAN
  /\ readLock \in Threads \cup {None} /\ writeLock \in Threads \cup {None}
  /\ init \in BOOLEAN /\ err \in BOOLEAN /\ stopping \in BOOLEAN
  /\ ok \in BOOLEAN /\ cut \in BOOLEAN
  /\ at \in [Threads -> RxPlaces \cup TxPlaces]
  /\ at["rx"] \in RxPlaces /\ at["tx"] \in TxPlaces
  /\ part \in 0..3 /\ got \in 0..ReadSize - 1 /\ written \in 0..FrameSize

\* Each mutex is held by the thread that reads, writes or flushes, and by no
\* thread that does something else: every exit of read, write and flush, the
\* exceptions included, gives it back.
LocksAreGivenBack ==
  ~Aborted => \A p \in Threads :
    /\ readLock = p <=> at[p] \in {"read", "flushWrite", "drain"}
    /\ writeLock = p <=> at[p] \in {"write", "drain"}

\* A receive thread that has ended by itself leaves the error flag, or the
\* thread that made it end is about to set it.
NoSilentEnd ==
  at["rx"] = "ended" /\ ~stopping /\ ok => err \/ at["tx"] \in Closing

\* Stopping a port that works is not an error, whatever the receiver was
\* reading when it was told to stop.
StopIsNoError == alive /\ ~cut /\ setup = "open" => ~err

\* When the object is gone its descriptor is closed, whichever thread closed it,
\* however often and whatever failed on the way; but a device that could not be
\* configured keeps its descriptor.
DescriptorClosed ==
  at["tx"] = "gone" => ~isOpen /\ (kernel => setup = "misconfigured")

\* A device that is gone is noticed, whether or not anything is being sent.
LossIsFlagged == ~alive ~> (err \/ stopping \/ ~ok \/ Aborted)

\* A send comes back, even if it has to close the port under a receiver that
\* never stops reading.
SendReturns == at["tx"] = "wlock" ~> (at["tx"] = "idle" \/ Aborted)

\* A stop comes to its end: the receiver leaves its read, the port is closed.
StopEnds == stopping ~> (at["tx"] = "gone" \/ Aborted)

\* For the rest of the driver the port is one of PortContract: none of the steps
\* in between shows.
Contract == INSTANCE PortContract WITH
  made <- setup # "none" /\ at["tx"] # "gone",
  receiver <- IF at["rx"] = "none" \/ at["tx"] = "gone" THEN "none"
              ELSE IF at["rx"] \in {"ended", "aborted"} THEN "ended" ELSE "running",
  err <- err /\ at["tx"] # "gone"

ImplementsPort == Contract!Spec

-----------------------------------------------------------------------------
(* Why these hold (PortProofs): what a thread's place says of its counters  *)
(* and locks, why init_flag is down, and who is to blame for an error.     *)

Counters ==
  /\ part = 0 => got = 0
  /\ at["tx"] = "wlock" => written = 0
  /\ at["tx"] = "write" => written < FrameSize
  /\ at["rx"] = "aborted" <=> at["tx"] = "aborted"
  /\ at["tx"] = "join" => stopping

\* init_flag is only cleared by a stop, with an error, or on the way to one.
WhyDown ==
  ~init /\ ~stopping /\ setup # "none" =>
    Aborted \/ err \/ \E p \in Threads : at[p] \in Closing

Fault == ~alive \/ cut \/ setup # "open"
Destroying ==
  /\ stopping /\ at["rx"] \in {"none", "ended"}
  /\ at["tx"] \in (Closing \ {"mark"}) \cup {"again", "gone"}

\* The port is closed, and an error marked, only after a fault, or closed by
\* the destructor.
Blame ==
  /\ err \/ at["rx"] \in Closing => Fault
  /\ at["tx"] \in Closing \/ ~isOpen \/ ~kernel => Fault \/ Destroying

\* is_open_ says whether the descriptor is there, but for one that could not be
\* configured, and close always gets to the end.
Descriptor ==
  /\ setup = "none" <=> at["tx"] = "new"
  /\ at["tx"] \in {"new", "start"} => at["rx"] = "none"
  /\ isOpen => setup = "open"
  /\ setup # "misconfigured" => (kernel <=> isOpen)
  /\ \A p \in Threads :
       /\ at[p] = "closing" => setup = "open"
       /\ at[p] = "closed" => ~isOpen
  /\ at["tx"] \in {"again", "gone"} => ~isOpen

\* For the refinement: a port that is to be used is open, whoever closes it has
\* cleared init_flag, and after a stop, which is the only way to go without a
\* receiver, nothing is left but the destructor.
Withdrawn ==
  /\ init => isOpen
  /\ at["tx"] \in {"again", "gone"} => Destroying
  /\ at["rx"] = "none" => at["tx"] \in {"new", "start"} \/ stopping
  /\ \A p \in Threads : at[p] \in Closing \ {"close", "mark"} => ~init
  /\ stopping => ~init /\ (at["tx"] = "join" \/ Destroying \/ Aborted)

IInv ==
  /\ TypeOK /\ LocksAreGivenBack /\ NoSilentEnd
  /\ Counters /\ WhyDown /\ Blame /\ Descriptor

=============================================================================
