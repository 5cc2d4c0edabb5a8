----------------------------- MODULE PortProofs -----------------------------
(***************************************************************************)
(* The safety properties of SerialPort for reads, frames and buffers of    *)
(* any length.  IInv says of each thread's place which mutex it holds and  *)
(* what must have gone wrong for it to be there.                           *)
(***************************************************************************)
EXTENDS SerialPort, TLAPS

Places == RxPlaces \cup TxPlaces

\* The types of the flags, and of the counters.
Bits ==
  /\ alive \in BOOLEAN /\ isOpen \in BOOLEAN /\ kernel \in BOOLEAN
  /\ init \in BOOLEAN /\ err \in BOOLEAN /\ stopping \in BOOLEAN /\ cut \in BOOLEAN
  /\ ok \in BOOLEAN

Numbers ==
  /\ avail \in 0..MaxAvail /\ room \in 0..MaxRoom
  /\ part \in 0..3 /\ got \in 0..ReadSize - 1 /\ written \in 0..FrameSize

\* A step of one thread leaves the other one where it is.
LEMMA OneMoves ==
  ASSUME NEW p \in Threads, NEW from, NEW to \in Places, Go(p, from, to),
         at \in [Threads -> Places],
         at["rx"] \in RxPlaces, at["tx"] \in TxPlaces,
         to \in IF p = "rx" THEN RxPlaces ELSE TxPlaces
  PROVE  /\ at' \in [Threads -> Places]
         /\ at'["rx"] \in RxPlaces /\ at'["tx"] \in TxPlaces
         /\ at[p] = from /\ at'[p] = to
         /\ \A q \in Threads \ {p} : at'[q] = at[q]
  BY DEF Go, Threads

\* The same without the names of the places, for what does not need them.
LEMMA OneGoes ==
  ASSUME NEW p \in Threads, NEW from, NEW to, Go(p, from, to),
         at \in [Threads -> RxPlaces \cup TxPlaces]
  PROVE  at[p] = from /\ at'[p] = to /\ \A q \in Threads \ {p} : at'[q] = at[q]
  BY DEF Go, Threads

LEMMA Initially == Init => IInv
<1> SUFFICES ASSUME Init PROVE IInv
  OBVIOUS
<1>1. TypeOK
  <2>1. /\ alive \in BOOLEAN /\ isOpen \in BOOLEAN /\ kernel \in BOOLEAN
        /\ init \in BOOLEAN /\ err \in BOOLEAN /\ stopping \in BOOLEAN /\ cut \in BOOLEAN
        /\ ok \in BOOLEAN /\ setup = "none"
    BY Zenon DEF Init
  <2>2. /\ avail \in 0..MaxAvail /\ room \in 0..MaxRoom
        /\ part \in 0..3 /\ got \in 0..ReadSize - 1 /\ written \in 0..FrameSize
    BY PortAssumption DEF Init
  <2>3. /\ at \in [Threads -> RxPlaces \cup TxPlaces]
        /\ at["rx"] \in RxPlaces /\ at["tx"] \in TxPlaces
    BY DEF Init, Threads, RxPlaces, TxPlaces, Closing
  <2>4. readLock \in Threads \cup {None} /\ writeLock \in Threads \cup {None}
    BY DEF Init
  <2> QED
    BY <2>1, <2>2, <2>3, <2>4 DEF TypeOK
<1>2. at["rx"] = "none" /\ at["tx"] = "new"
  BY DEF Init, Threads
<1>3. LocksAreGivenBack
  BY <1>2 DEF Init, LocksAreGivenBack, Threads, None
<1>4. Counters /\ NoSilentEnd
  BY <1>2 DEF Init, Counters, NoSilentEnd
<1>5. WhyDown /\ Blame /\ Descriptor
  BY <1>2 DEF Init, WhyDown, Blame, Fault, Descriptor, Closing, Threads
<1> QED
  BY <1>1, <1>3, <1>4, <1>5 DEF IInv

LEMMA DeviceSteps ==
  ASSUME IInv, Arrive \/ BoardReads \/ Unplug \/ Interrupt
  PROVE  IInv'
<1> USE DEF IInv, device, descriptor, locks, flags, reading
<1>1. Bits'
  BY Zenon DEF Bits, TypeOK, Arrive, BoardReads, Unplug, Interrupt
<1>2. Numbers'
  BY PortAssumption DEF Numbers, TypeOK, Arrive, BoardReads, Unplug, Interrupt
<1>3. UNCHANGED <<at, locks, setup>>
  BY DEF Arrive, BoardReads, Unplug, Interrupt
<1>4. TypeOK'
  BY <1>1, <1>2, <1>3 DEF TypeOK, Bits, Numbers
<1>5. LocksAreGivenBack' /\ NoSilentEnd' /\ Counters' /\ WhyDown'
  BY DEF LocksAreGivenBack, NoSilentEnd, Counters, WhyDown, Aborted,
         Arrive, BoardReads, Unplug, Interrupt
<1>6. Blame' /\ Descriptor'
  BY DEF Blame, Fault, Destroying, Descriptor, Arrive, BoardReads, Unplug, Interrupt
<1> QED
  BY <1>4, <1>5, <1>6

LEMMA SetupSteps ==
  ASSUME IInv, Construct \/ StartReceiver
  PROVE  IInv'
<1> USE PortAssumption DEF IInv, device, descriptor, locks, flags, reading, Threads, None,
        Places, RxPlaces, TxPlaces, Closing, Aborted, Fault, Destroying
<1>1. Bits'
  <2>1. CASE Construct
    <3>1. isOpen' \in BOOLEAN /\ kernel' \in BOOLEAN
      BY <2>1 DEF Construct
    <3>2. init' \in BOOLEAN /\ err' \in BOOLEAN
      BY <2>1, <3>1, Zenon DEF Construct
    <3> QED
      BY <2>1, <3>1, <3>2, Zenon DEF Bits, TypeOK, Construct
  <2>2. CASE StartReceiver
    BY <2>2, Zenon DEF Bits, TypeOK, StartReceiver
  <2> QED
    BY <2>1, <2>2
<1>2. Numbers'
  BY DEF Numbers, TypeOK, Construct, StartReceiver
<1>3. CASE Construct
  <2>1. TypeOK'
    BY <1>1, <1>2, <1>3, OneMoves DEF Construct, TypeOK, Bits, Numbers
  <2>2. LocksAreGivenBack' /\ Counters'
    BY <1>3, OneGoes DEF Construct, TypeOK, LocksAreGivenBack, Counters
  <2>3. NoSilentEnd' /\ Blame'
    BY <1>3, OneGoes DEF Construct, TypeOK, NoSilentEnd, Blame, Descriptor
  <2>4. isOpen' <=> setup' = "open"
    BY <1>3 DEF Construct
  <2>5. kernel' <=> setup' # "refused"
    BY <1>3 DEF Construct
  <2>6. ~init' => err'
    BY <1>3, Zenon DEF Construct
  <2>7. WhyDown'
    BY <2>6 DEF WhyDown
  <2>8. setup' \in {"open", "refused", "misconfigured"}
    BY <1>3 DEF Construct
  <2>9. Descriptor'
    BY <1>3, <2>4, <2>5, <2>8, OneGoes DEF Construct, TypeOK, Descriptor
  <2> QED
    BY <2>1, <2>2, <2>3, <2>7, <2>9
<1>4. CASE StartReceiver
  <2>1. /\ at["tx"] = "start" /\ at["rx"] = "none"
        /\ at'["tx"] = "idle" /\ at'["rx"] = "while"
        /\ at' \in [Threads -> RxPlaces \cup TxPlaces]
    BY <1>4 DEF StartReceiver, TypeOK, Descriptor
  <2>2. TypeOK'
    BY <1>1, <1>2, <1>4, <2>1 DEF StartReceiver, TypeOK, Bits, Numbers
  <2>3. LocksAreGivenBack' /\ Counters'
    BY <1>4, <2>1 DEF StartReceiver, TypeOK, LocksAreGivenBack, Counters
  <2>4. NoSilentEnd' /\ WhyDown' /\ Blame' /\ Descriptor'
    BY <1>4, <2>1 DEF StartReceiver, TypeOK, NoSilentEnd, WhyDown, Blame, Descriptor
  <2> QED
    BY <2>2, <2>3, <2>4
<1> QED
  BY <1>3, <1>4

LEMMA CloseSteps ==
  ASSUME IInv, NEW p \in Threads, CloseStep(p)
  PROVE  IInv'
<1> USE PortAssumption DEF IInv, device, descriptor, locks, flags, reading, Threads, None,
        Places, RxPlaces, TxPlaces, Closing, Aborted, Fault, Destroying
<1>1. Bits'
  BY Zenon DEF Bits, TypeOK, CloseStep, CloseBegin, FlushRead, FlushWrite, Drain, CloseCall, CloseFd, Closed, MarkError
<1>2. Numbers'
  BY DEF Counters, Needed, AfterRead, Go, Numbers, TypeOK, CloseStep, CloseBegin, FlushRead, FlushWrite, Drain, CloseCall, CloseFd, Closed, MarkError
<1>3. CASE CloseBegin(p)
  <2>1. TypeOK'
    BY <1>1, <1>2, <1>3, OneMoves DEF CloseBegin, TypeOK, Bits, Numbers
  <2>2. LocksAreGivenBack' /\ Counters'
    BY <1>3, OneGoes DEF CloseBegin, TypeOK, LocksAreGivenBack, Counters
  <2>3. NoSilentEnd' /\ WhyDown' /\ Blame' /\ Descriptor'
    BY <1>3, OneGoes DEF CloseBegin, TypeOK, NoSilentEnd, WhyDown, Blame, Descriptor
  <2> QED
    BY <2>1, <2>2, <2>3
<1>4. CASE FlushRead(p)
  <2>1. TypeOK'
    BY <1>1, <1>2, <1>4, OneMoves DEF FlushRead, TypeOK, Bits, Numbers
  <2>2. LocksAreGivenBack' /\ Counters'
    BY <1>4, OneGoes DEF FlushRead, TypeOK, LocksAreGivenBack, Counters
  <2>3. NoSilentEnd' /\ WhyDown' /\ Blame' /\ Descriptor'
    BY <1>4, OneGoes DEF FlushRead, TypeOK, NoSilentEnd, WhyDown, Blame, Descriptor
  <2> QED
    BY <2>1, <2>2, <2>3
<1>5. CASE FlushWrite(p)
  <2>1. TypeOK'
    BY <1>1, <1>2, <1>5, OneMoves DEF FlushWrite, TypeOK, Bits, Numbers
  <2>2. LocksAreGivenBack' /\ Counters'
    BY <1>5, OneGoes DEF FlushWrite, TypeOK, LocksAreGivenBack, Counters
  <2>3. NoSilentEnd' /\ WhyDown' /\ Blame' /\ Descriptor'
    BY <1>5, OneGoes DEF FlushWrite, TypeOK, NoSilentEnd, WhyDown, Blame, Descriptor
  <2> QED
    BY <2>1, <2>2, <2>3
<1>6. CASE Drain(p)
  <2>1. TypeOK'
    BY <1>1, <1>2, <1>6, OneMoves DEF Drain, TypeOK, Bits, Numbers
  <2>2. LocksAreGivenBack' /\ Counters'
    BY <1>6, OneGoes DEF Drain, TypeOK, LocksAreGivenBack, Counters
  <2>3. NoSilentEnd' /\ WhyDown' /\ Blame' /\ Descriptor'
    BY <1>6, OneGoes DEF Drain, TypeOK, NoSilentEnd, WhyDown, Blame, Descriptor
  <2> QED
    BY <2>1, <2>2, <2>3
<1>7. CASE CloseCall(p)
  <2>1. TypeOK'
    BY <1>1, <1>2, <1>7, OneMoves DEF CloseCall, TypeOK, Bits, Numbers
  <2>2. LocksAreGivenBack' /\ Counters'
    BY <1>7, OneGoes DEF CloseCall, TypeOK, LocksAreGivenBack, Counters
  <2>3. NoSilentEnd' /\ WhyDown' /\ Blame' /\ Descriptor'
    BY <1>7, OneGoes DEF CloseCall, TypeOK, NoSilentEnd, WhyDown, Blame, Descriptor
  <2> QED
    BY <2>1, <2>2, <2>3
<1>8. CASE CloseFd(p)
  <2>1. TypeOK'
    BY <1>1, <1>2, <1>8, OneMoves DEF CloseFd, TypeOK, Bits, Numbers
  <2>2. LocksAreGivenBack' /\ Counters'
    BY <1>8, OneGoes DEF CloseFd, TypeOK, LocksAreGivenBack, Counters
  <2>3. NoSilentEnd' /\ WhyDown' /\ Blame' /\ Descriptor'
    BY <1>8, OneGoes DEF CloseFd, TypeOK, NoSilentEnd, WhyDown, Blame, Descriptor
  <2> QED
    BY <2>1, <2>2, <2>3
<1>9. CASE Closed(p)
  <2>1. TypeOK'
    BY <1>1, <1>2, <1>9, OneMoves DEF Closed, TypeOK, Bits, Numbers
  <2>2. LocksAreGivenBack' /\ Counters'
    BY <1>9, OneGoes DEF Closed, TypeOK, LocksAreGivenBack, Counters
  <2>3. NoSilentEnd' /\ WhyDown' /\ Blame' /\ Descriptor'
    BY <1>9, OneGoes DEF Closed, TypeOK, NoSilentEnd, WhyDown, Blame, Descriptor
  <2> QED
    BY <2>1, <2>2, <2>3
<1>10. CASE MarkError(p)
  <2>1. TypeOK'
    BY <1>1, <1>2, <1>10, OneMoves DEF MarkError, TypeOK, Bits, Numbers
  <2>2. LocksAreGivenBack' /\ Counters'
    BY <1>10, OneGoes DEF MarkError, TypeOK, LocksAreGivenBack, Counters
  <2>3. NoSilentEnd' /\ WhyDown' /\ Blame' /\ Descriptor'
    BY <1>10, OneGoes DEF MarkError, TypeOK, NoSilentEnd, WhyDown, Blame, Descriptor
  <2> QED
    BY <2>1, <2>2, <2>3
<1> QED
  BY <1>3, <1>4, <1>5, <1>6, <1>7, <1>8, <1>9, <1>10 DEF CloseStep

LEMMA ReceiverSteps ==
  ASSUME IInv, RxWhile \/ RxLock \/ RxByte \/ RxTimeout \/ RxThrows \/ RxShort
  PROVE  IInv'
<1> USE PortAssumption DEF IInv, device, descriptor, locks, flags, reading, Threads, None,
        Places, RxPlaces, TxPlaces, Closing, Aborted, Fault, Destroying
<1>1. Bits'
  BY Zenon DEF Bits, TypeOK, RxWhile, RxLock, RxByte, RxTimeout, RxThrows, RxShort
<1>2. Numbers'
  BY DEF Counters, Needed, AfterRead, Go, Numbers, TypeOK, RxWhile, RxLock, RxByte, RxTimeout, RxThrows, RxShort
<1>3. CASE RxWhile
  <2>1. TypeOK'
    BY <1>1, <1>2, <1>3, OneMoves DEF RxWhile, TypeOK, Bits, Numbers
  <2>2. LocksAreGivenBack' /\ Counters'
    BY <1>3, OneGoes DEF RxWhile, TypeOK, LocksAreGivenBack, Counters
  <2>3. NoSilentEnd' /\ WhyDown' /\ Blame' /\ Descriptor'
    BY <1>3, OneGoes DEF RxWhile, TypeOK, NoSilentEnd, WhyDown, Blame, Descriptor
  <2> QED
    BY <2>1, <2>2, <2>3
<1>4. CASE RxLock
  <2>1. TypeOK'
    BY <1>1, <1>2, <1>4, OneMoves DEF RxLock, TypeOK, Bits, Numbers
  <2>2. LocksAreGivenBack' /\ Counters'
    BY <1>4, OneGoes DEF RxLock, TypeOK, LocksAreGivenBack, Counters
  <2>3. NoSilentEnd' /\ WhyDown' /\ Blame' /\ Descriptor'
    BY <1>4, OneGoes DEF RxLock, TypeOK, NoSilentEnd, WhyDown, Blame, Descriptor
  <2> QED
    BY <2>1, <2>2, <2>3
<1>5. CASE RxByte
  <2>1. CASE got + 1 < Needed
    <3>1. TypeOK'
      BY <1>1, <1>2, <1>5, <2>1 DEF RxByte, TypeOK, Bits, Numbers
    <3>2. LocksAreGivenBack' /\ Counters'
      BY <1>5, <2>1 DEF RxByte, TypeOK, LocksAreGivenBack, Counters, Needed
    <3>3. NoSilentEnd' /\ WhyDown' /\ Blame' /\ Descriptor'
      BY <1>5, <2>1 DEF RxByte, TypeOK, NoSilentEnd, WhyDown, Blame, Descriptor
    <3> QED
      BY <3>1, <3>2, <3>3
  <2>2. CASE ~(got + 1 < Needed)
    <3>1. PICK to \in AfterRead : Go("rx", "read", to) /\ (to \in {"mark", "close"} => cut')
      BY <1>5, <2>2 DEF RxByte
    <3>2. to \in {"while", "mark", "close", "lock"}
      BY DEF AfterRead
    <3>3. TypeOK'
      BY <1>1, <1>2, <1>5, <2>2, <3>1, <3>2, OneMoves DEF RxByte, TypeOK, Bits, Numbers
    <3>4. LocksAreGivenBack' /\ Counters'
      BY <1>5, <2>2, <3>1, <3>2, OneGoes DEF RxByte, TypeOK, LocksAreGivenBack, Counters
    <3>5. cut => cut'
      BY <1>5, <2>2, Zenon DEF RxByte
    <3>6. NoSilentEnd' /\ WhyDown' /\ Blame' /\ Descriptor'
      BY <1>5, <2>2, <3>1, <3>2, <3>5, OneGoes DEF RxByte, TypeOK, NoSilentEnd, WhyDown, Blame, Descriptor
    <3> QED
      BY <3>3, <3>4, <3>6
  <2> QED
    BY <2>1, <2>2
<1>6. CASE RxTimeout
  <2>1. TypeOK'
    BY <1>1, <1>2, <1>6, OneMoves DEF RxTimeout, TypeOK, Bits, Numbers
  <2>2. LocksAreGivenBack' /\ Counters'
    BY <1>6, OneGoes DEF RxTimeout, TypeOK, LocksAreGivenBack, Counters
  <2>3. NoSilentEnd' /\ WhyDown' /\ Blame' /\ Descriptor'
    BY <1>6, OneGoes DEF RxTimeout, TypeOK, NoSilentEnd, WhyDown, Blame, Descriptor
  <2> QED
    BY <2>1, <2>2, <2>3
<1>7. CASE RxThrows
  <2>1. TypeOK'
    BY <1>1, <1>2, <1>7, OneMoves DEF RxThrows, TypeOK, Bits, Numbers
  <2>2. LocksAreGivenBack' /\ Counters'
    BY <1>7, OneGoes DEF RxThrows, TypeOK, LocksAreGivenBack, Counters
  <2>3. NoSilentEnd' /\ WhyDown' /\ Blame' /\ Descriptor'
    BY <1>7, OneGoes DEF RxThrows, TypeOK, NoSilentEnd, WhyDown, Blame, Descriptor
  <2> QED
    BY <2>1, <2>2, <2>3
<1>8. CASE RxShort
  <2>1. TypeOK'
    BY <1>1, <1>2, <1>8, OneMoves DEF RxShort, TypeOK, Bits, Numbers
  <2>2. LocksAreGivenBack' /\ Counters'
    BY <1>8, OneGoes DEF RxShort, TypeOK, LocksAreGivenBack, Counters
  <2>3. NoSilentEnd' /\ WhyDown' /\ Blame' /\ Descriptor'
    BY <1>8, OneGoes DEF RxShort, TypeOK, NoSilentEnd, WhyDown, Blame, Descriptor
  <2> QED
    BY <2>1, <2>2, <2>3
<1> QED
  BY <1>3, <1>4, <1>5, <1>6, <1>7, <1>8

LEMMA HolderSteps ==
  ASSUME IInv, Send \/ TxLock \/ TxByte \/ TxTimeout \/ TxThrows \/ Stop \/ Join \/ Again
  PROVE  IInv'
<1> USE PortAssumption DEF IInv, device, descriptor, locks, flags, reading, Threads, None,
        Places, RxPlaces, TxPlaces, Closing, Aborted, Fault, Destroying
<1>1. Bits'
  BY Zenon DEF Bits, TypeOK, Send, TxLock, TxByte, TxTimeout, TxThrows, Stop, Join, Again
<1>2. Numbers'
  BY DEF Counters, Needed, AfterRead, Go, Numbers, TypeOK, Send, TxLock, TxByte, TxTimeout, TxThrows, Stop, Join, Again
<1>3. CASE Send
  <2>1. TypeOK'
    BY <1>1, <1>2, <1>3, OneMoves DEF Send, TypeOK, Bits, Numbers
  <2>2. LocksAreGivenBack' /\ Counters'
    BY <1>3, OneGoes DEF Send, TypeOK, LocksAreGivenBack, Counters
  <2>3. NoSilentEnd' /\ WhyDown' /\ Blame' /\ Descriptor'
    BY <1>3, OneGoes DEF Send, TypeOK, NoSilentEnd, WhyDown, Blame, Descriptor
  <2> QED
    BY <2>1, <2>2, <2>3
<1>4. CASE TxLock
  <2>1. TypeOK'
    BY <1>1, <1>2, <1>4, OneMoves DEF TxLock, TypeOK, Bits, Numbers
  <2>2. LocksAreGivenBack' /\ Counters'
    BY <1>4, OneGoes DEF TxLock, TypeOK, LocksAreGivenBack, Counters
  <2>3. NoSilentEnd' /\ WhyDown' /\ Blame' /\ Descriptor'
    BY <1>4, OneGoes DEF TxLock, TypeOK, NoSilentEnd, WhyDown, Blame, Descriptor
  <2> QED
    BY <2>1, <2>2, <2>3
<1>5. CASE TxByte
  <2>1. TypeOK'
    BY <1>1, <1>2, <1>5, OneMoves DEF TxByte, TypeOK, Bits, Numbers
  <2>2. LocksAreGivenBack' /\ Counters'
    BY <1>5, OneGoes DEF TxByte, TypeOK, LocksAreGivenBack, Counters
  <2>3. NoSilentEnd' /\ WhyDown' /\ Blame' /\ Descriptor'
    BY <1>5, OneGoes DEF TxByte, TypeOK, NoSilentEnd, WhyDown, Blame, Descriptor
  <2> QED
    BY <2>1, <2>2, <2>3
<1>6. CASE TxTimeout
  <2>1. TypeOK'
    BY <1>1, <1>2, <1>6, OneMoves DEF TxTimeout, TypeOK, Bits, Numbers
  <2>2. LocksAreGivenBack' /\ Counters'
    BY <1>6, OneGoes DEF TxTimeout, TypeOK, LocksAreGivenBack, Counters
  <2>3. NoSilentEnd' /\ WhyDown' /\ Blame' /\ Descriptor'
    BY <1>6, OneGoes DEF TxTimeout, TypeOK, NoSilentEnd, WhyDown, Blame, Descriptor
  <2> QED
    BY <2>1, <2>2, <2>3
<1>7. CASE TxThrows
  <2>1. TypeOK'
    BY <1>1, <1>2, <1>7, OneMoves DEF TxThrows, TypeOK, Bits, Numbers
  <2>2. LocksAreGivenBack' /\ Counters'
    BY <1>7, OneGoes DEF TxThrows, TypeOK, LocksAreGivenBack, Counters
  <2>3. NoSilentEnd' /\ WhyDown' /\ Blame' /\ Descriptor'
    BY <1>7, OneGoes DEF TxThrows, TypeOK, NoSilentEnd, WhyDown, Blame, Descriptor
  <2> QED
    BY <2>1, <2>2, <2>3
<1>8. CASE Stop
  <2>1. TypeOK'
    BY <1>1, <1>2, <1>8, OneMoves DEF Stop, TypeOK, Bits, Numbers
  <2>2. LocksAreGivenBack' /\ Counters'
    BY <1>8, OneGoes DEF Stop, TypeOK, LocksAreGivenBack, Counters
  <2>3. NoSilentEnd' /\ WhyDown' /\ Blame' /\ Descriptor'
    BY <1>8, OneGoes DEF Stop, TypeOK, NoSilentEnd, WhyDown, Blame, Descriptor
  <2> QED
    BY <2>1, <2>2, <2>3
<1>9. CASE Join
  <2>1. TypeOK'
    BY <1>1, <1>2, <1>9, OneMoves DEF Join, TypeOK, Bits, Numbers
  <2>2. LocksAreGivenBack' /\ Counters'
    BY <1>9, OneGoes DEF Join, TypeOK, LocksAreGivenBack, Counters
  <2>3. NoSilentEnd' /\ WhyDown' /\ Blame' /\ Descriptor'
    BY <1>9, OneGoes DEF Join, TypeOK, NoSilentEnd, WhyDown, Blame, Descriptor, Counters
  <2> QED
    BY <2>1, <2>2, <2>3
<1>10. CASE Again
  <2>1. ~isOpen
    BY <1>10 DEF Again, Go, TypeOK, Descriptor
  <2>2. TypeOK'
    BY <1>1, <1>2, <1>10, <2>1, OneMoves DEF Again, TypeOK, Bits, Numbers
  <2>3. LocksAreGivenBack' /\ Counters'
    BY <1>10, <2>1, OneGoes DEF Again, TypeOK, LocksAreGivenBack, Counters
  <2>4. NoSilentEnd' /\ WhyDown' /\ Blame' /\ Descriptor'
    BY <1>10, <2>1, OneGoes DEF Again, TypeOK, NoSilentEnd, WhyDown, Blame, Descriptor
  <2> QED
    BY <2>2, <2>3, <2>4
<1> QED
  BY <1>3, <1>4, <1>5, <1>6, <1>7, <1>8, <1>9, <1>10

LEMMA AbortStep == IInv /\ Abort => IInv'
<1> SUFFICES ASSUME IInv, Abort PROVE IInv'
  OBVIOUS
<1> USE DEF IInv, Abort, device, descriptor, locks, flags, reading
<1>1. at'["rx"] = "aborted" /\ at'["tx"] = "aborted" /\ at' \in [Threads -> RxPlaces \cup TxPlaces]
  BY DEF Threads, RxPlaces, TxPlaces
<1>2. Bits'
  BY Zenon DEF Bits, TypeOK
<1>3. TypeOK'
  BY <1>1, <1>2 DEF TypeOK, Bits, RxPlaces, TxPlaces
<1>4. LocksAreGivenBack' /\ Counters' /\ NoSilentEnd' /\ WhyDown' /\ Blame' /\ Descriptor'
  BY <1>1 DEF LocksAreGivenBack, Counters, NoSilentEnd, WhyDown, Blame, Descriptor, Aborted,
              Closing, Fault, Destroying, Threads
<1> QED
  BY <1>3, <1>4

LEMMA Inductive == IInv /\ [Next]_vars => IInv'
<1> SUFFICES ASSUME IInv, [Next]_vars PROVE IInv'
  OBVIOUS
<1>1. CASE Arrive \/ BoardReads \/ Unplug \/ Interrupt
  BY <1>1, DeviceSteps
<1>2. CASE Rx
  BY <1>2, ReceiverSteps, CloseSteps DEF Rx, Threads
<1>3. CASE Send \/ Stop \/ Tx
  BY <1>3, SetupSteps, HolderSteps, CloseSteps DEF Tx, Threads
<1>4. CASE Abort
  BY <1>4, AbortStep
<1>5. CASE UNCHANGED vars
  BY <1>5 DEF vars, device, descriptor, locks, flags, reading, IInv, TypeOK, LocksAreGivenBack,
     NoSilentEnd, Counters, WhyDown, Blame, Descriptor, Aborted, Fault, Destroying
<1> QED
  BY <1>1, <1>2, <1>3, <1>4, <1>5 DEF Next

LEMMA Invariant == Spec => []IInv
  BY Initially, Inductive, PTL DEF Spec

-----------------------------------------------------------------------------
\* Every variable of the port, the library and both threads keeps its type; a
\* read never gets more bytes than it asked for, a write never sends more.
THEOREM TypeCorrect == Spec => []TypeOK
<1>1. IInv => TypeOK
  BY DEF IInv
<1> QED
  BY <1>1, Invariant, PTL

\* read_mutex and write_mutex are held exactly where the library reads, writes
\* or flushes: no exit of serial::Serial's functions keeps one.
THEOREM Locks == Spec => []LocksAreGivenBack
<1>1. IInv => LocksAreGivenBack
  BY DEF IInv
<1> QED
  BY <1>1, Invariant, PTL

\* No receive_loop ends by itself without mark_error.
THEOREM Noticed == Spec => []NoSilentEnd
<1>1. IInv => NoSilentEnd
  BY DEF IInv
<1> QED
  BY <1>1, Invariant, PTL

\* A stop sets no error_flag on a port whose device is there and whose frames
\* have come whole.
THEOREM QuietStop == Spec => []StopIsNoError
<1>1. IInv => StopIsNoError
  BY DEF IInv, Blame, Fault, StopIsNoError
<1> QED
  BY <1>1, Invariant, PTL

\* lively_serial's destructor leaves no descriptor open, whichever threads have
\* tried to close it before, unless the port could not be configured.
THEOREM NoDescriptorLeft == Spec => []DescriptorClosed
<1>1. IInv => DescriptorClosed
  BY DEF IInv, Descriptor, DescriptorClosed, TypeOK
<1> QED
  BY <1>1, Invariant, PTL

-----------------------------------------------------------------------------
(* The port implements PortContract.                                       *)

LEMMA WithdrawnStep == IInv /\ Withdrawn /\ [Next]_vars => Withdrawn'
<1> SUFFICES ASSUME IInv, Withdrawn, [Next]_vars PROVE Withdrawn'
  OBVIOUS
<1> USE DEF IInv, Withdrawn, Destroying, Aborted, Closing, Threads, device, descriptor, locks,
        flags, reading
<1>1. CASE Arrive \/ BoardReads \/ Unplug \/ Interrupt
  BY <1>1 DEF Arrive, BoardReads, Unplug, Interrupt
<1>2. CASE Construct \/ StartReceiver
  BY <1>2 DEF Construct, StartReceiver, Go, TypeOK, Descriptor
<1>3. ASSUME NEW p \in Threads, CloseStep(p) PROVE Withdrawn'
  <2>1. CASE CloseBegin(p) \/ FlushRead(p) \/ FlushWrite(p)
    BY <2>1 DEF CloseBegin, FlushRead, FlushWrite, Go, TypeOK, Descriptor
  <2>2. CASE Drain(p) \/ CloseCall(p) \/ CloseFd(p)
    BY <2>2 DEF Drain, CloseCall, CloseFd, Go, TypeOK, Descriptor
  <2>3. CASE Closed(p) \/ MarkError(p)
    <3>1. CASE Closed(p)
      <4>1. CASE p = "rx"
        BY <3>1, <4>1 DEF Closed, Go, TypeOK, Descriptor
      <4>2. CASE p = "tx" /\ stopping
        <5>1. ~init /\ at["rx"] \in {"none", "ended"}
          BY <3>1, <4>2 DEF Closed, Go, TypeOK, Counters
        <5> QED
          BY <3>1, <4>2, <5>1 DEF Closed, Go, TypeOK
      <4>3. CASE p = "tx" /\ ~stopping
        BY <3>1, <4>3 DEF Closed, Go, TypeOK, Descriptor
      <4> QED
        BY <4>1, <4>2, <4>3
    <3>2. CASE MarkError(p)
      BY <3>2 DEF MarkError, Go, TypeOK, Descriptor
    <3> QED
      BY <2>3, <3>1, <3>2
  <2> QED
    BY <1>3, <2>1, <2>2, <2>3 DEF CloseStep
<1>4. CASE RxWhile \/ RxLock \/ RxByte \/ RxTimeout \/ RxThrows \/ RxShort
  BY <1>4 DEF RxWhile, RxLock, RxByte, RxTimeout, RxThrows, RxShort, AfterRead, Go, TypeOK
<1>5. CASE Send \/ TxLock \/ TxByte \/ TxTimeout \/ TxThrows \/ Stop \/ Join \/ Again
  BY <1>5 DEF Send, TxLock, TxByte, TxTimeout, TxThrows, Stop, Join, Again, Go, TypeOK
<1>6. CASE Abort
  BY <1>6 DEF Abort, TypeOK
<1>7. CASE UNCHANGED vars
  BY <1>7 DEF vars
<1> QED
  BY <1>1, <1>2, <1>3, <1>4, <1>5, <1>6, <1>7 DEF Next, Rx, Tx

\* What is left of a step that uses the port: two flags and the receiver's place.
LEMMA UseStep ==
  ASSUME setup' = setup, setup # "none", ok' = ok, at["tx"] # "gone", at'["tx"] # "gone",
         init' = init \/ init' = FALSE, err' = err \/ (err' = TRUE /\ init' = FALSE),
         init \in BOOLEAN, err \in BOOLEAN,
         \/ at'["rx"] = at["rx"]
         \/ at'["rx"] \notin {"none", "ended", "aborted"} /\ at["rx"] \notin {"none", "ended", "aborted"}
         \/ at'["rx"] = "aborted" /\ at["rx"] = "ended"
         \/ /\ at["rx"] \notin {"none", "ended", "aborted"} /\ at'["rx"] \in {"ended", "aborted"}
            /\ ~init' \/ ~ok
  PROVE  Contract!Use
<1>1. init' \in BOOLEAN /\ err' \in BOOLEAN
  <2>1. init' \in BOOLEAN
    BY Zenon
  <2>2. err' \in BOOLEAN
    BY Zenon
  <2> QED
    BY <2>1, <2>2
<1>2. UNCHANGED (setup # "none" /\ at["tx"] # "gone")
  OBVIOUS
<1>3. (err /\ at["tx"] # "gone") = err /\ (err /\ at["tx"] # "gone")' = err'
  BY <1>1, Zenon
<1>4. init' => init
  BY Zenon
<1>5. err => err'
  BY Zenon
<1>6. err' # err => ~init'
  BY Zenon
<1> DEFINE Receiver == IF at["rx"] = "none" \/ at["tx"] = "gone" THEN "none"
                       ELSE IF at["rx"] \in {"ended", "aborted"} THEN "ended" ELSE "running"
<1>7. \/ UNCHANGED Receiver
      \/ Receiver = "running" /\ Receiver' = "ended" /\ (~init' \/ ~ok)
  OBVIOUS
<1> QED
  BY <1>1, <1>2, <1>3, <1>4, <1>5, <1>6, <1>7 DEF Contract!Use

LEMMA ContractStep ==
  IInv /\ Withdrawn /\ [Next]_vars => [Contract!Next]_(Contract!vars)
<1> SUFFICES ASSUME IInv, Withdrawn, [Next]_vars
             PROVE  [Contract!Next]_(Contract!vars)
  OBVIOUS
<1> USE DEF IInv, Aborted, Closing, Threads, device, descriptor, locks, flags, reading
<1>1. ASSUME UNCHANGED <<setup, at, init, err, ok>> PROVE UNCHANGED Contract!vars
  BY <1>1 DEF Contract!vars
<1>2. CASE Arrive \/ BoardReads \/ Unplug \/ UNCHANGED vars
  BY <1>1, <1>2 DEF Arrive, BoardReads, Unplug, vars
<1>3. CASE Interrupt
  <2>1. Contract!Interrupt
    BY <1>3 DEF Interrupt, Contract!Interrupt
  <2> QED
    BY <2>1 DEF Contract!Next
<1>4. CASE Construct
  <2>1. Contract!Make
    BY <1>4 DEF Construct, Go, TypeOK, Descriptor, Contract!Make
  <2> QED
    BY <2>1 DEF Contract!Next
<1>5. CASE StartReceiver
  <2>1. Contract!Start
    BY <1>5 DEF StartReceiver, TypeOK, Descriptor, Contract!Start
  <2> QED
    BY <2>1 DEF Contract!Next
<1>6. ASSUME NEW p \in Threads, CloseStep(p) PROVE [Contract!Next]_(Contract!vars)
  <2>1. CASE CloseBegin(p) \/ FlushRead(p) \/ FlushWrite(p) \/ Drain(p)
             \/ CloseCall(p) \/ CloseFd(p) \/ MarkError(p)
    <3>1. /\ setup' = setup /\ setup # "none" /\ ok' = ok
          /\ at["tx"] # "gone" /\ at'["tx"] # "gone"
      BY <2>1 DEF CloseBegin, FlushRead, FlushWrite, Drain, CloseCall, CloseFd, MarkError, Go,
        TypeOK, Descriptor, Withdrawn, Destroying
    <3>2. init' = init \/ init' = FALSE
      BY <2>1, Zenon DEF CloseBegin, FlushRead, FlushWrite, Drain, CloseCall, CloseFd, MarkError
    <3>3. err' = err \/ (err' = TRUE /\ init' = FALSE)
      BY <2>1, Zenon DEF CloseBegin, FlushRead, FlushWrite, Drain, CloseCall, CloseFd, MarkError
    <3>4. \/ at'["rx"] = at["rx"]
          \/ at["rx"] \in Closing /\ at'["rx"] \in Closing
          \/ at["rx"] \in Closing /\ at'["rx"] = "ended" /\ ~init'
      BY <2>1 DEF CloseBegin, FlushRead, FlushWrite, Drain, CloseCall, CloseFd, MarkError, Go, TypeOK
    <3>5. Contract!Use
      BY <3>1, <3>2, <3>3, <3>4, UseStep DEF TypeOK
    <3> QED
      BY <3>5 DEF Contract!Next
  <2>2. CASE Closed(p)
    <3>1. Contract!Use
      BY <2>2 DEF Closed, Go, TypeOK, Descriptor, Withdrawn, Destroying, Contract!Use
    <3> QED
      BY <3>1 DEF Contract!Next
  <2> QED
    BY <1>6, <2>1, <2>2 DEF CloseStep
<1>7. CASE RxWhile \/ RxLock \/ RxTimeout \/ RxThrows \/ RxShort
  <2>1. /\ setup # "none" /\ at["tx"] # "gone" /\ at'["tx"] # "gone"
        /\ UNCHANGED <<setup, init, err, ok>>
    BY <1>7 DEF RxWhile, RxLock, RxTimeout, RxThrows, RxShort, Go, TypeOK, Descriptor,
      Withdrawn, Destroying
  <2>2. /\ at["rx"] \notin {"none", "ended", "aborted"} /\ at'["rx"] \notin {"none", "aborted"}
        /\ at'["rx"] = "ended" => ~init \/ ~ok
    BY <1>7 DEF RxWhile, RxLock, RxTimeout, RxThrows, RxShort, Go, TypeOK
  <2>3. Contract!Use
    BY <2>1, <2>2, UseStep DEF TypeOK
  <2> QED
    BY <2>3 DEF Contract!Next
<1>8. CASE RxByte
  <2>1. at' = at \/ \E to \in {"while", "mark", "close", "lock"} : Go("rx", "read", to)
    BY <1>8 DEF RxByte, AfterRead
  <2>2. /\ setup # "none" /\ at["tx"] # "gone" /\ at'["tx"] # "gone"
        /\ UNCHANGED <<setup, init, err, ok>>
    BY <1>8, <2>1 DEF RxByte, Go, TypeOK, Descriptor, Withdrawn, Destroying
  <2>3. \/ at'["rx"] = at["rx"]
        \/ at["rx"] = "read" /\ at'["rx"] \in {"while", "mark", "close", "lock"}
    BY <2>1 DEF Go, TypeOK
  <2>4. Contract!Use
    BY <2>2, <2>3, UseStep DEF TypeOK
  <2> QED
    BY <2>4 DEF Contract!Next
<1>9. CASE Send \/ TxLock \/ TxByte \/ TxTimeout \/ TxThrows \/ Stop \/ Join
  <2>1. /\ setup # "none" /\ at["tx"] # "gone" /\ at'["tx"] # "gone"
        /\ at'["rx"] = at["rx"] /\ UNCHANGED <<setup, err, ok>>
    BY <1>9 DEF Send, TxLock, TxByte, TxTimeout, TxThrows, Stop, Join, Go, TypeOK, Descriptor
  <2>2. init' = init \/ init' = FALSE
    BY <1>9, Zenon DEF Send, TxLock, TxByte, TxTimeout, TxThrows, Stop, Join
  <2>3. Contract!Use
    BY <2>1, <2>2, UseStep DEF TypeOK
  <2> QED
    BY <2>3 DEF Contract!Next
<1>10. CASE Abort
  <2>1. Contract!Use
    BY <1>10 DEF Abort, TypeOK, Descriptor, Counters, Withdrawn, Destroying, Contract!Use
  <2> QED
    BY <2>1 DEF Contract!Next
<1>11. CASE Again
  <2>1. Contract!Destroy
    BY <1>11 DEF Again, Go, TypeOK, Descriptor, Withdrawn, Destroying, Contract!Destroy
  <2> QED
    BY <2>1 DEF Contract!Next
<1> QED
  BY <1>2, <1>3, <1>4, <1>5, <1>6, <1>7, <1>8, <1>9, <1>10, <1>11 DEF Next, Rx, Tx

\* Whatever happens inside the library and its two mutexes, the rest of the
\* driver sees the life of one lively_serial as PortContract has it: flags that
\* only go one way in use, and no object destroyed under its receive thread.
THEOREM PortRefinement == Spec => ImplementsPort
<1>1. Init => Withdrawn /\ Contract!Init
  BY DEF Init, Withdrawn, Closing, Threads, Contract!Init
<1> QED
  BY <1>1, WithdrawnStep, ContractStep, Invariant, PTL
  DEF Spec, ImplementsPort, Contract!Spec

=============================================================================
