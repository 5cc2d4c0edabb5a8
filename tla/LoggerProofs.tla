---------------------------- MODULE LoggerProofs ----------------------------
(***************************************************************************)
(* The safety properties of Logger for any number of motors, any depths of *)
(* the queues and any number of operations.  The operations that have been *)
(* forwarded, the one that is being sent and the ones that wait form one   *)
(* increasing line, and those that were dropped are missing from it: a     *)
(* callback moves the head of the line, and a full queue cuts out a piece. *)
(***************************************************************************)
EXTENDS Logger, SequenceTheorems, TLAPS

-----------------------------------------------------------------------------
(* The inductive invariant.                                                *)

\* What is published to /logger/operation.
Posted == [what : {"OPERATION", "LOW_BATTERY", "HIGH_CPU_TEMP"},
           n : 0..MaxOps, motors : {<<>>}]

\* The callbacks run one at a time, and each ends with what it sends.
Waiting ==
  /\ ops \in Seq(Posted)
  /\ pending.n \in 0..MaxOps
  /\ at # "send" => pending = Nothing

\* What is shown of the motors is the last message, also while it is sent.
Shown ==
  /\ motors = [m \in Motors |-> IF m <= latest.count THEN latest.id ELSE None]
  /\ pending.what = "STATUS" => pending.motors = motors

\* The line of the operations, when the queue is q, those in d were dropped
\* and p have been published: it increases, ...
Ordered(q, p) ==
  /\ \A i, j \in 1..Len(forwarded) : i < j => forwarded[i] < forwarded[j]
  /\ \A i, j \in 1..Len(q) : i < j /\ q[i].n # 0 /\ q[j].n # 0 => q[i].n < q[j].n
  /\ \A j \in 1..Len(q) : q[j].n # 0 =>
       /\ q[j].n <= p /\ pending.n < q[j].n
       /\ \A i \in 1..Len(forwarded) : forwarded[i] < q[j].n
  /\ pending.n <= p
  /\ \A i \in 1..Len(forwarded) :
       forwarded[i] <= p /\ (pending.n # 0 => forwarded[i] < pending.n)

\* ... every operation is in it or was dropped, ...
Complete(q, d, p) ==
  \A n \in 1..p :
    \/ \E i \in 1..Len(forwarded) : forwarded[i] = n
    \/ \E i \in 1..Len(q) : q[i].n = n
    \/ n = pending.n \/ n \in d

\* ... and never both.
Apart(q, d, p) ==
  \A n \in d :
    /\ n \in 1..p /\ n # pending.n
    /\ \A i \in 1..Len(forwarded) : forwarded[i] # n
    /\ \A i \in 1..Len(q) : q[i].n # n

Line(q, d, p) == Ordered(q, p) /\ Complete(q, d, p) /\ Apart(q, d, p)

IInv == TypeOK /\ Waiting /\ Shown /\ Line(ops, dropped, published)

LEMMA Initially == Init => IInv
<1> SUFFICES ASSUME Init PROVE IInv
  OBVIOUS
<1> USE LoggerAssumption
<1>1. TypeOK
  <2>1. motors \in [Motors -> Messages \cup {None}]
    BY DEF Init
  <2>2. latest \in [count : 0..NMotors, id : Messages \cup {None}]
    BY DEF Init
  <2>3. /\ Len(ops) <= Depth /\ forwarded \in Seq(1..MaxOps)
        /\ published \in 0..MaxOps /\ dropped \subseteq 1..MaxOps
    BY EmptySeq DEF Init
  <2> QED
    BY <2>1, <2>2, <2>3 DEF Init, TypeOK
<1>2. Waiting
  BY EmptySeq DEF Init, Waiting, Nothing, Message
<1>3. Shown
  BY DEF Init, Shown, Nothing, Message, Motors
<1>4. Line(ops, dropped, published)
  BY DEF Init, Line, Ordered, Complete, Apart, Nothing, Message
<1> QED
  BY <1>1, <1>2, <1>3, <1>4 DEF IInv

-----------------------------------------------------------------------------
(* Publishing.                                                             *)

\* Joining the queue cuts off what has been in it longest, and no more than
\* what is over its depth.
LEMMA QueuedCuts ==
  ASSUME ops \in Seq(Posted), NEW ms \in Seq(Posted), Queued(ms)
  PROVE  \E k \in Nat :
           /\ k <= Len(ops \o ms)
           /\ ops' \in Seq(Posted) /\ Len(ops') = Len(ops \o ms) - k /\ Len(ops') <= Depth
           /\ \A i \in 1..Len(ops') : ops'[i] = (ops \o ms)[k + i]
           /\ dropped' = dropped \cup ({(ops \o ms)[i].n : i \in 1..k} \ {0})
<1> DEFINE all == ops \o ms
           k == IF Len(all) > Depth THEN Len(all) - Depth ELSE 0
<1>1. /\ ops' = SubSeq(all, k + 1, Len(all))
      /\ dropped' = dropped \cup ({all[i].n : i \in 1..k} \ {0})
  BY DEF Queued
<1>2. all \in Seq(Posted)
  BY ConcatProperties
<1> HIDE DEF all
<1>3. k \in Nat /\ k <= Len(all) /\ Len(all) \in Nat /\ Len(all) - k <= Depth
  BY <1>2, LoggerAssumption
<1> HIDE DEF k
<1>4. \A i \in k + 1..Len(all) : all[i] \in Posted
  BY <1>2, <1>3, ElementOfSeq
<1>5. /\ ops' \in Seq(Posted)
      /\ Len(ops') = IF k + 1 <= Len(all) THEN Len(all) - (k + 1) + 1 ELSE 0
      /\ \A i \in 1..Len(all) - (k + 1) + 1 : ops'[i] = all[k + 1 + i - 1]
  BY <1>1, <1>3, <1>4, SubSeqProperties
<1>6. Len(ops') = Len(all) - k
  BY <1>3, <1>5
<1>7. \A i \in 1..Len(ops') : ops'[i] = all[k + i]
  BY <1>3, <1>5, <1>6
<1> QED
  BY <1>1, <1>3, <1>5, <1>6, <1>7 DEF all

\* A line stays one when the head of its queue is dropped.
LEMMA LineCut ==
  ASSUME NEW all \in Seq(Posted), NEW q \in Seq(Posted), NEW d, NEW p \in Nat,
         NEW k \in Nat, k <= Len(all), Len(q) = Len(all) - k,
         \A i \in 1..Len(q) : q[i] = all[k + i],
         Line(all, d, p), pending.n \in Nat
  PROVE  Line(q, d \cup ({all[i].n : i \in 1..k} \ {0}), p)
<1> DEFINE e == d \cup ({all[i].n : i \in 1..k} \ {0})
<1>e. e = d \cup ({all[i].n : i \in 1..k} \ {0})
  OBVIOUS
<1> HIDE DEF e
<1>0. /\ Len(all) \in Nat /\ Len(q) \in Nat
      /\ \A i \in 1..Len(all) : all[i].n \in Nat
  <2>1. \A i \in 1..Len(all) : all[i] \in Posted
    BY ElementOfSeq
  <2> QED
    BY <2>1, LenProperties, LoggerAssumption DEF Posted
<1>1. \A i \in 1..Len(q) : k + i \in 1..Len(all) /\ q[i].n = all[k + i].n
  BY <1>0
<1>2. \A i \in 1..Len(all) : i \in 1..k \/ (i - k \in 1..Len(q) /\ all[i] = q[i - k])
  BY <1>0
<1>3. Ordered(q, p)
  <2>1. \A i, j \in 1..Len(q) : i < j /\ q[i].n # 0 /\ q[j].n # 0 => q[i].n < q[j].n
    <3> SUFFICES ASSUME NEW i \in 1..Len(q), NEW j \in 1..Len(q),
                        i < j, q[i].n # 0, q[j].n # 0
                 PROVE  q[i].n < q[j].n
      OBVIOUS
    <3>1. k + i < k + j
      BY <1>0
    <3> QED
      BY <1>1, <3>1 DEF Line, Ordered
  <2> QED
    BY <1>1, <2>1 DEF Line, Ordered
<1>4. Complete(q, e, p)
  BY <1>e, <1>0, <1>2 DEF Line, Complete
<1>5. Apart(q, e, p)
  <2>1. ASSUME NEW n \in d
        PROVE  /\ n \in 1..p /\ n # pending.n
               /\ \A i \in 1..Len(forwarded) : forwarded[i] # n
               /\ \A i \in 1..Len(q) : q[i].n # n
    BY <1>1 DEF Line, Apart
  <2>2. ASSUME NEW i \in 1..k, all[i].n # 0
        PROVE  /\ all[i].n \in 1..p /\ all[i].n # pending.n
               /\ \A j \in 1..Len(forwarded) : forwarded[j] # all[i].n
               /\ \A j \in 1..Len(q) : q[j].n # all[i].n
    <3>1. i \in 1..Len(all) /\ all[i].n \in Nat
      BY <1>0
    <3>2. /\ all[i].n <= p /\ pending.n < all[i].n
          /\ \A j \in 1..Len(forwarded) : forwarded[j] < all[i].n
      BY <2>2, <3>1 DEF Line, Ordered
    <3>3. \A j \in 1..Len(q) : i < k + j /\ (q[j].n # 0 => all[i].n < q[j].n)
      <4> SUFFICES ASSUME NEW j \in 1..Len(q)
                   PROVE  i < k + j /\ (q[j].n # 0 => all[i].n < q[j].n)
        OBVIOUS
      <4>1. i < k + j /\ k + j \in 1..Len(all) /\ q[j].n = all[k + j].n
        BY <1>0, <1>1
      <4> QED
        BY <2>2, <3>1, <4>1 DEF Line, Ordered
    <3>4. \A j \in 1..Len(forwarded) : forwarded[j] # all[i].n
      <4> SUFFICES ASSUME NEW j \in 1..Len(forwarded), forwarded[j] = all[i].n PROVE FALSE
        OBVIOUS
      <4> QED
        BY <3>1, <3>2
    <3>5. \A j \in 1..Len(q) : q[j].n # all[i].n
      BY <2>2, <3>1, <3>3
    <3> QED
      BY <2>2, <3>1, <3>2, <3>4, <3>5
  <2> QED
    BY <1>e, <2>1, <2>2 DEF Apart
<1> QED
  BY <1>3, <1>4, <1>5 DEF Line, e

\* So what Queued leaves is a line if what it was given was one.
LEMMA LineQueued ==
  ASSUME ops \in Seq(Posted), NEW ms \in Seq(Posted), Queued(ms), NEW p \in Nat,
         Line(ops \o ms, dropped, p), pending.n \in Nat
  PROVE  ops' \in Seq(Posted) /\ Len(ops') <= Depth /\ Line(ops', dropped', p)
<1> DEFINE all == ops \o ms
           q == ops'
<1>1. PICK k \in Nat :
        /\ k <= Len(all)
        /\ q \in Seq(Posted) /\ Len(q) = Len(all) - k /\ Len(q) <= Depth
        /\ \A i \in 1..Len(q) : q[i] = all[k + i]
        /\ dropped' = dropped \cup ({all[i].n : i \in 1..k} \ {0})
  BY QueuedCuts
<1>2. all \in Seq(Posted) /\ Line(all, dropped, p)
  BY ConcatProperties
<1> HIDE DEF all, q
<1>3. Line(q, dropped \cup ({all[i].n : i \in 1..k} \ {0}), p)
  BY <1>1, <1>2, LineCut
<1> QED
  BY <1>1, <1>3, Zenon DEF q

\* It also stays one when what joins it is no operation, ...
LEMMA LineJoinedByErrors ==
  ASSUME NEW q \in Seq(Posted), NEW ms \in Seq(Posted), NEW d, NEW p \in Nat,
         \A i \in 1..Len(ms) : ms[i].n = 0,
         Line(q, d, p)
  PROVE  Line(q \o ms, d, p)
<1> DEFINE all == q \o ms
<1>1. /\ Len(q) \in Nat /\ Len(ms) \in Nat /\ Len(all) = Len(q) + Len(ms)
      /\ \A i \in 1..Len(all) : all[i] = IF i <= Len(q) THEN q[i] ELSE ms[i - Len(q)]
  BY ConcatProperties
<1> HIDE DEF all
<1>2. \A i \in 1..Len(all) : (i \in 1..Len(q) /\ all[i] = q[i]) \/ all[i].n = 0
  BY <1>1
<1>3. \A i \in 1..Len(q) : i \in 1..Len(all) /\ all[i] = q[i]
  BY <1>1
<1>4. Ordered(all, p)
  BY <1>2 DEF Line, Ordered
<1>5. Complete(all, d, p)
  BY <1>3 DEF Line, Complete
<1>6. Apart(all, d, p)
  BY <1>2 DEF Line, Apart
<1> QED
  BY <1>4, <1>5, <1>6 DEF Line, all

\* ... or is the next one.
LEMMA LineJoinedByNext ==
  ASSUME NEW q \in Seq(Posted), NEW m \in Posted, NEW d, NEW p \in Nat,
         m.n = p + 1, pending.n \in Nat, forwarded \in Seq(1..MaxOps),
         Line(q, d, p)
  PROVE  Line(q \o <<m>>, d, p + 1)
<1> DEFINE all == q \o <<m>>
<1>0. <<m>> \in Seq(Posted) /\ Len(<<m>>) = 1 /\ <<m>>[1] = m
  OBVIOUS
<1>1. /\ Len(q) \in Nat /\ Len(all) = Len(q) + 1
      /\ \A i \in 1..Len(all) : all[i] = IF i <= Len(q) THEN q[i] ELSE <<m>>[i - Len(q)]
  BY <1>0, ConcatProperties
<1>2. /\ \A i \in 1..Len(q) : i \in 1..Len(all) /\ all[i] = q[i]
      /\ Len(q) + 1 \in 1..Len(all) /\ all[Len(q) + 1] = m
  BY <1>0, <1>1
<1>3. \A i \in 1..Len(all) : i \in 1..Len(q) \/ i = Len(q) + 1
  BY <1>1
<1>4. \A i \in 1..Len(q) : q[i] \in Posted /\ q[i].n \in Nat
  <2>1. \A i \in 1..Len(q) : q[i] \in Posted
    BY ElementOfSeq
  <2> QED
    BY <2>1, LoggerAssumption DEF Posted
<1>5. \A i \in 1..Len(forwarded) : forwarded[i] \in Nat
  BY ElementOfSeq, LoggerAssumption
<1> HIDE DEF all
<1>6. Ordered(all, p + 1)
  <2>1. \A i, j \in 1..Len(all) : i < j /\ all[i].n # 0 /\ all[j].n # 0 => all[i].n < all[j].n
    <3> SUFFICES ASSUME NEW i \in 1..Len(all), NEW j \in 1..Len(all),
                        i < j, all[i].n # 0, all[j].n # 0
                 PROVE  all[i].n < all[j].n
      OBVIOUS
    <3>1. i \in 1..Len(q)
      BY <1>1, <1>3
    <3>2. all[i] = q[i] /\ q[i].n \in Nat /\ q[i].n <= p
      BY <1>2, <1>4, <3>1 DEF Line, Ordered
    <3>3. CASE j \in 1..Len(q)
      BY <1>2, <3>1, <3>2, <3>3 DEF Line, Ordered
    <3>4. CASE j = Len(q) + 1
      BY <1>2, <3>2, <3>4
    <3> QED
      BY <1>3, <3>3, <3>4
  <2>2. ASSUME NEW j \in 1..Len(all), all[j].n # 0
        PROVE  /\ all[j].n <= p + 1 /\ pending.n < all[j].n
               /\ \A i \in 1..Len(forwarded) : forwarded[i] < all[j].n
    <3>1. CASE j \in 1..Len(q)
      BY <1>2, <1>4, <2>2, <3>1 DEF Line, Ordered
    <3>2. CASE j = Len(q) + 1
      BY <1>2, <1>5, <3>2 DEF Line, Ordered
    <3> QED
      BY <1>3, <3>1, <3>2
  <2>3. pending.n <= p + 1 /\ \A i \in 1..Len(forwarded) : forwarded[i] <= p + 1
    BY <1>5 DEF Line, Ordered
  <2> QED
    BY <2>1, <2>2, <2>3 DEF Line, Ordered
<1>7. Complete(all, d, p + 1)
  <2> SUFFICES ASSUME NEW n \in 1..p + 1
               PROVE  \/ \E i \in 1..Len(forwarded) : forwarded[i] = n
                      \/ \E i \in 1..Len(all) : all[i].n = n
                      \/ n = pending.n \/ n \in d
    BY DEF Complete
  <2>1. CASE n = p + 1
    BY <1>2, <2>1
  <2>2. CASE n \in 1..p
    BY <1>2, <2>2 DEF Line, Complete
  <2> QED
    BY <2>1, <2>2
<1>8. Apart(all, d, p + 1)
  <2> SUFFICES ASSUME NEW n \in d
               PROVE  /\ n \in 1..p + 1 /\ n # pending.n
                      /\ \A i \in 1..Len(forwarded) : forwarded[i] # n
                      /\ \A i \in 1..Len(all) : all[i].n # n
    BY DEF Apart
  <2>1. /\ n \in 1..p /\ n # pending.n
        /\ \A i \in 1..Len(forwarded) : forwarded[i] # n
        /\ \A i \in 1..Len(q) : q[i].n # n
    BY DEF Line, Apart
  <2> QED
    BY <1>2, <1>3, <2>1, SMTT(20)
<1> QED
  BY <1>6, <1>7, <1>8 DEF Line, all

-----------------------------------------------------------------------------
(* The steps.                                                              *)

\* What the next state's line is when nothing is sent or begins to be.
LEMMA LineMoved ==
  ASSUME NEW p, published' = p, forwarded' = forwarded, pending'.n = pending.n,
         Line(ops', dropped', p)
  PROVE  Line(ops, dropped, published)'
<1>1. Ordered(ops, published)'
  BY DEF Line, Ordered
<1>2. Complete(ops, dropped, published)'
  BY DEF Line, Complete
<1>3. Apart(ops, dropped, published)'
  BY DEF Line, Apart
<1> QED
  BY <1>1, <1>2, <1>3 DEF Line

LEMMA PublishStep == ASSUME IInv, Publish PROVE IInv'
<1> USE LoggerAssumption DEF IInv
<1> DEFINE m == Operation(published + 1)
<1>1. /\ published' = published + 1 /\ published + 1 \in 1..MaxOps
      /\ Queued(<<m>>)
      /\ UNCHANGED <<at, pending, socket, kept, hot, forwarded, service, box>>
  BY DEF Publish, TypeOK
<1>2. m \in Posted /\ m.n = published + 1
  BY <1>1 DEF Operation, Message, Posted
<1> HIDE DEF m
<1>3. ops \in Seq(Posted) /\ <<m>> \in Seq(Posted) /\ pending.n \in Nat
      /\ published \in Nat /\ forwarded \in Seq(1..MaxOps)
  BY <1>2 DEF Waiting, TypeOK
<1>4. Line(ops \o <<m>>, dropped, published + 1)
  BY <1>2, <1>3, LineJoinedByNext
<1>5. ops' \in Seq(Posted) /\ Len(ops') <= Depth /\ Line(ops', dropped', published + 1)
  <2> DEFINE p == published + 1
  <2>1. p \in Nat /\ Line(ops \o <<m>>, dropped, p) /\ Queued(<<m>>) /\ <<m>> \in Seq(Posted)
    BY <1>1, <1>3, <1>4
  <2> HIDE DEF p
  <2>2. ops' \in Seq(Posted) /\ Len(ops') <= Depth /\ Line(ops', dropped', p)
    BY <1>3, <2>1, LineQueued
  <2> QED
    BY <2>2 DEF p
<1>6. Line(ops, dropped, published)'
  <2>1. /\ published' = published + 1 /\ forwarded' = forwarded /\ pending'.n = pending.n
        /\ Line(ops', dropped', published + 1)
    BY <1>1, <1>5
  <2> QED
    BY <2>1, LineMoved, Zenon
<1>7. dropped' \subseteq 1..MaxOps
  BY <1>1, <1>5 DEF Line, Apart
<1>8. TypeOK'
  <2>1. published' \in 0..MaxOps
    BY <1>1
  <2>2. hot' \in BOOLEAN /\ socket' \in BOOLEAN
    BY <1>1, Zenon DEF TypeOK
  <2>3. /\ motors' \in [Motors -> Messages \cup {None}]
        /\ latest' \in [count : 0..NMotors, id : Messages \cup {None}]
        /\ battery' \in {"unknown", "normal", "low"}
    BY <1>1 DEF TypeOK, kept
  <2>4. /\ at' \in {"start", "spin", "send", "dead"} /\ forwarded' \in Seq(1..MaxOps)
        /\ service' \in {"up", "stuck", "away"} /\ box' \in 0..ServiceDepth
    BY <1>1 DEF TypeOK
  <2> QED
    BY <1>5, <1>7, <2>1, <2>2, <2>3, <2>4 DEF TypeOK
<1>9. Waiting'
  BY <1>1, <1>5 DEF Waiting, Nothing, Message
<1>10. Shown'
  BY <1>1 DEF Shown, kept
<1> QED
  BY <1>6, <1>8, <1>9, <1>10

LEMMA StatusStep == ASSUME IInv, Status PROVE IInv'
<1> USE LoggerAssumption DEF IInv
<1>1. /\ at = "spin" /\ at' = "send" /\ pending = Nothing /\ pending' = StatusMessage
      /\ hot' \in BOOLEAN /\ Queued(Found)
      /\ UNCHANGED <<socket, kept, published, forwarded, service, box>>
  BY DEF Status, Send, Waiting
<1>2. Found \in Seq(Posted) /\ \A i \in 1..Len(Found) : Found[i].n = 0
  <2> DEFINE low == Message("LOW_BATTERY")
             high == Message("HIGH_CPU_TEMP")
  <2>1. low \in Posted /\ high \in Posted /\ low.n = 0 /\ high.n = 0
    BY DEF Message, Posted
  <2>2. Found \in {<<>> \o <<>>, <<low>> \o <<>>, <<>> \o <<high>>, <<low>> \o <<high>>}
    BY Zenon DEF Found
  <2> HIDE DEF low, high
  <2>3. ASSUME NEW a \in Seq({low, high}) PROVE a \in Seq(Posted) /\ \A i \in 1..Len(a) : a[i].n = 0
    <3>1. \A i \in 1..Len(a) : a[i] \in {low, high}
      BY ElementOfSeq
    <3>2. {low, high} \subseteq Posted
      BY <2>1
    <3> QED
      BY <2>1, <3>1, <3>2, SeqMonotonic
  <2>4. /\ <<>> \in Seq({low, high}) /\ <<low>> \in Seq({low, high})
        /\ <<high>> \in Seq({low, high})
    OBVIOUS
  <2>5. Found \in Seq({low, high})
    BY <2>2, <2>4, ConcatProperties
  <2> QED
    BY <2>3, <2>5
<1>3. ops \in Seq(Posted) /\ pending.n = 0 /\ published \in Nat
  BY <1>1 DEF Waiting, TypeOK, Nothing, Message
<1>4. Line(ops \o Found, dropped, published)
  BY <1>2, <1>3, LineJoinedByErrors
<1>5. ops' \in Seq(Posted) /\ Len(ops') <= Depth /\ Line(ops', dropped', published)
  <2>1. pending.n \in Nat
    BY <1>3
  <2> QED
    BY <1>1, <1>2, <1>3, <1>4, <2>1, LineQueued
<1>6. Line(ops, dropped, published)'
  <2>1. /\ published' = published /\ forwarded' = forwarded /\ pending'.n = pending.n
        /\ Line(ops', dropped', published)
    BY <1>1, <1>3, <1>5 DEF StatusMessage, Message
  <2> QED
    BY <2>1, LineMoved, Zenon
<1>7. dropped' \subseteq 1..MaxOps
  BY <1>5 DEF Line, Apart, TypeOK
<1>8. TypeOK'
  <2>1. hot' \in BOOLEAN /\ socket' \in BOOLEAN
    BY <1>1, Zenon DEF TypeOK
  <2>2. /\ motors' \in [Motors -> Messages \cup {None}]
        /\ latest' \in [count : 0..NMotors, id : Messages \cup {None}]
        /\ battery' \in {"unknown", "normal", "low"}
    BY <1>1 DEF TypeOK, kept
  <2>3. /\ at' \in {"start", "spin", "send", "dead"} /\ forwarded' \in Seq(1..MaxOps)
        /\ published' \in 0..MaxOps
        /\ service' \in {"up", "stuck", "away"} /\ box' \in 0..ServiceDepth
    BY <1>1 DEF TypeOK
  <2> QED
    BY <1>5, <1>7, <2>1, <2>2, <2>3 DEF TypeOK
<1>9. Waiting'
  BY <1>1, <1>5 DEF Waiting, StatusMessage, Message
<1>10. Shown'
  BY <1>1 DEF Shown, StatusMessage, Message, kept
<1> QED
  BY <1>6, <1>8, <1>9, <1>10

\* The head of the queue is what is sent.
LEMMA ForwardStep == ASSUME IInv, Forward PROVE IInv'
<1> USE LoggerAssumption DEF IInv
<1>1. /\ at = "spin" /\ at' = "send" /\ pending = Nothing /\ pending' = Head(ops)
      /\ ops # <<>> /\ ops' = Tail(ops)
      /\ UNCHANGED <<socket, kept, hot, published, forwarded, dropped, service, box>>
  BY DEF Forward, Send, Waiting, history
<1>2. ops \in Seq(Posted) /\ pending.n = 0 /\ published \in Nat
  BY <1>1 DEF Waiting, TypeOK, Nothing, Message
<1>3. /\ Len(ops) \in Nat /\ pending' \in Posted /\ pending' = ops[1] /\ 1 \in 1..Len(ops)
      /\ ops' \in Seq(Posted) /\ Len(ops') = Len(ops) - 1
      /\ \A i \in 1..Len(ops') : ops'[i] = ops[i + 1] /\ i + 1 \in 1..Len(ops)
  BY <1>1, <1>2, HeadTailProperties, EmptySeq
<1>4. pending'.n \in 0..MaxOps /\ pending'.what # "STATUS"
  BY <1>3 DEF Posted
<1>5. \A i \in 1..Len(ops) : i = 1 \/ (i - 1 \in 1..Len(ops') /\ ops[i] = ops'[i - 1])
  BY <1>3
<1>6. Line(ops, dropped, published)'
  <2> DEFINE new == pending'.n
             q == ops'
  <2>0. /\ new = ops[1].n /\ new \in Nat
        /\ \A j \in 1..Len(q) : q[j].n = ops[j + 1].n /\ j + 1 \in 1..Len(ops) /\ 1 < j + 1
    BY <1>3, <1>4
  <2>1. /\ \A i, j \in 1..Len(forwarded) : i < j => forwarded[i] < forwarded[j]
        /\ \A i \in 1..Len(forwarded) : forwarded[i] <= published
    BY DEF Line, Ordered
  <2>2. /\ new <= published
        /\ \A i \in 1..Len(forwarded) : new # 0 => forwarded[i] < new
    BY <1>2, <1>3, <2>0 DEF Line, Ordered
  <2>3. \A i, j \in 1..Len(q) : i < j /\ q[i].n # 0 /\ q[j].n # 0 => q[i].n < q[j].n
    <3> SUFFICES ASSUME NEW i \in 1..Len(q), NEW j \in 1..Len(q),
                        i < j, q[i].n # 0, q[j].n # 0
                 PROVE  q[i].n < q[j].n
      OBVIOUS
    <3>1. i + 1 < j + 1
      BY <1>3
    <3> QED
      BY <2>0, <3>1 DEF Line, Ordered
  <2>4. ASSUME NEW j \in 1..Len(q), q[j].n # 0
        PROVE  /\ q[j].n <= published /\ new < q[j].n
               /\ \A i \in 1..Len(forwarded) : forwarded[i] < q[j].n
    <3>1. /\ q[j].n <= published /\ pending.n < q[j].n
          /\ \A i \in 1..Len(forwarded) : forwarded[i] < q[j].n
      BY <2>0, <2>4 DEF Line, Ordered
    <3>2. new # 0 => new < q[j].n
      BY <1>3, <2>0, <2>4 DEF Line, Ordered
    <3> QED
      BY <1>2, <3>1, <3>2
  <2>5. Ordered(ops, published)'
    BY <1>1, <2>1, <2>2, <2>3, <2>4 DEF Ordered
  <2>6. Complete(ops, dropped, published)'
    BY <1>1, <1>2, <1>3, <1>5 DEF Line, Complete
  <2>7. Apart(ops, dropped, published)'
    BY <1>1, <1>3 DEF Line, Apart
  <2> QED
    BY <2>5, <2>6, <2>7 DEF Line
<1>7. TypeOK'
  <2>1. hot' \in BOOLEAN /\ socket' \in BOOLEAN
    BY <1>1, Zenon DEF TypeOK
  <2>2. Len(ops') <= Depth
    BY <1>3 DEF TypeOK
  <2> QED
    BY <1>1, <2>1, <2>2 DEF TypeOK, kept
<1>8. Waiting'
  BY <1>1, <1>3, <1>4 DEF Waiting
<1>9. Shown'
  BY <1>1, <1>4 DEF Shown, kept
<1> QED
  BY <1>6, <1>7, <1>8, <1>9

\* A message that has been sent goes to the end of what was forwarded, ...
LEMMA AcceptedStep == ASSUME IInv, Accepted PROVE IInv'
<1> USE LoggerAssumption DEF IInv
<1>1. /\ pending' = Nothing /\ at' = "spin" /\ box < ServiceDepth /\ box' = box + 1
      /\ forwarded' = IF pending.n = 0 THEN forwarded ELSE Append(forwarded, pending.n)
      /\ UNCHANGED <<socket, kept, hot, ops, published, dropped, service>>
  BY DEF Accepted
<1>2. /\ ops \in Seq(Posted) /\ Len(ops) \in Nat /\ published \in 0..MaxOps
      /\ pending.n \in 0..MaxOps /\ pending'.n = 0
      /\ forwarded \in Seq(1..MaxOps) /\ Len(forwarded) \in Nat
  BY <1>1, LenProperties DEF Waiting, TypeOK, Nothing, Message
<1>3. /\ forwarded' \in Seq(1..MaxOps) /\ Len(forwarded') \in Nat
      /\ \A i \in 1..Len(forwarded) : i \in 1..Len(forwarded') /\ forwarded'[i] = forwarded[i]
      /\ \A i \in 1..Len(forwarded') :
           \/ i \in 1..Len(forwarded)
           \/ i = Len(forwarded) + 1 /\ pending.n # 0 /\ forwarded'[i] = pending.n
      /\ pending.n # 0 => \E i \in 1..Len(forwarded') : forwarded'[i] = pending.n
  <2>1. CASE pending.n = 0
    BY <1>1, <1>2, <2>1
  <2>2. CASE pending.n # 0
    <3>1. pending.n \in 1..MaxOps /\ forwarded' = Append(forwarded, pending.n)
      BY <1>1, <1>2, <2>2
    <3>2. /\ forwarded' \in Seq(1..MaxOps) /\ Len(forwarded') = Len(forwarded) + 1
          /\ \A i \in 1..Len(forwarded) : forwarded'[i] = forwarded[i]
          /\ forwarded'[Len(forwarded) + 1] = pending.n
      BY <1>2, <3>1, AppendProperties
    <3>3. Len(forwarded) + 1 \in 1..Len(forwarded')
      BY <1>2, <3>2
    <3> QED
      BY <1>2, <2>2, <3>2, <3>3, SMTT(20)
  <2> QED
    BY <2>1, <2>2
<1>4. \A i \in 1..Len(forwarded) : forwarded[i] \in Nat
  BY <1>2, ElementOfSeq
<1>5. Line(ops, dropped, published)'
  <2>1. \A i, j \in 1..Len(forwarded') : i < j => forwarded'[i] < forwarded'[j]
    <3> SUFFICES ASSUME NEW i \in 1..Len(forwarded'), NEW j \in 1..Len(forwarded'), i < j
                 PROVE  forwarded'[i] < forwarded'[j]
      OBVIOUS
    <3>1. i \in 1..Len(forwarded) /\ forwarded'[i] = forwarded[i]
      BY <1>2, <1>3
    <3>2. CASE j \in 1..Len(forwarded)
      BY <1>3, <3>1, <3>2 DEF Line, Ordered
    <3>3. CASE pending.n # 0 /\ forwarded'[j] = pending.n
      BY <3>1, <3>3 DEF Line, Ordered
    <3> QED
      BY <1>3, <3>2, <3>3
  <2>2. \A i, j \in 1..Len(ops) : i < j /\ ops[i].n # 0 /\ ops[j].n # 0 => ops[i].n < ops[j].n
    BY DEF Line, Ordered
  <2>3. ASSUME NEW j \in 1..Len(ops), ops[j].n # 0
        PROVE  /\ ops[j].n <= published /\ 0 < ops[j].n
               /\ \A i \in 1..Len(forwarded') : forwarded'[i] < ops[j].n
    <3>1. ops[j] \in Posted
      BY <1>2, ElementOfSeq
    <3>2. ops[j].n \in Nat
      BY <3>1 DEF Posted
    <3>3. /\ ops[j].n <= published /\ pending.n < ops[j].n
          /\ \A i \in 1..Len(forwarded) : forwarded[i] < ops[j].n
      BY <2>3 DEF Line, Ordered
    <3>4. ASSUME NEW i \in 1..Len(forwarded') PROVE forwarded'[i] < ops[j].n
      BY <1>3, <3>3
    <3> QED
      BY <2>3, <3>2, <3>3, <3>4
  <2>4. \A i \in 1..Len(forwarded') : forwarded'[i] <= published
    BY <1>3 DEF Line, Ordered
  <2>5. Ordered(ops, published)'
    BY <1>1, <1>2, <2>1, <2>2, <2>3, <2>4 DEF Ordered
  <2>6. Complete(ops, dropped, published)'
    BY <1>1, <1>3 DEF Line, Complete
  <2>7. Apart(ops, dropped, published)'
    <3>1. \A n \in dropped : n \in 1..published /\ n # 0
      BY DEF Line, Apart
    <3> QED
      BY <1>1, <1>2, <1>3, <3>1 DEF Line, Apart
  <2> QED
    BY <2>5, <2>6, <2>7 DEF Line
<1>6. TypeOK'
  <2>1. hot' \in BOOLEAN /\ socket' \in BOOLEAN
    BY <1>1, Zenon DEF TypeOK
  <2>2. box' \in 0..ServiceDepth
    BY <1>1 DEF TypeOK
  <2> QED
    BY <1>1, <1>3, <2>1, <2>2 DEF TypeOK, kept
<1>7. Waiting'
  BY <1>1, <1>2 DEF Waiting
<1>8. Shown'
  BY <1>1 DEF Shown, Nothing, Message, kept
<1> QED
  BY <1>5, <1>6, <1>7, <1>8

\* ... or to those that were dropped.
LEMMA FailedStep == ASSUME IInv, Failed PROVE IInv'
<1> USE LoggerAssumption DEF IInv
<1>1. /\ pending' = Nothing /\ at' = "spin"
      /\ dropped' = dropped \cup ({pending.n} \ {0})
      /\ UNCHANGED <<socket, kept, hot, ops, published, forwarded, service, box>>
  BY DEF Failed
<1>2. /\ ops \in Seq(Posted) /\ published \in 0..MaxOps
      /\ pending.n \in 0..MaxOps /\ pending'.n = 0
  BY <1>1 DEF Waiting, TypeOK, Nothing, Message
<1>3. \A j \in 1..Len(ops) : ops[j].n \in Nat
  <2>1. \A j \in 1..Len(ops) : ops[j] \in Posted
    BY <1>2, ElementOfSeq
  <2> QED
    BY <2>1 DEF Posted
<1>4. Line(ops, dropped, published)'
  <2>1. Ordered(ops, published)'
    BY <1>1, <1>2, <1>3 DEF Line, Ordered
  <2>2. Complete(ops, dropped, published)'
    BY <1>1 DEF Line, Complete
  <2>3. ASSUME pending.n # 0
        PROVE  /\ pending.n \in 1..published
               /\ \A i \in 1..Len(forwarded) : forwarded[i] # pending.n
               /\ \A i \in 1..Len(ops) : ops[i].n # pending.n
    <3>1. pending.n \in 1..published
      BY <1>2, <2>3 DEF Line, Ordered
    <3>2. \A i \in 1..Len(forwarded) : forwarded[i] < pending.n
      BY <2>3 DEF Line, Ordered
    <3>3. \A i \in 1..Len(forwarded) : forwarded[i] # pending.n
      BY <1>2, <3>2
    <3>4. \A i \in 1..Len(ops) : ops[i].n # 0 => pending.n < ops[i].n
      BY DEF Line, Ordered
    <3>5. \A i \in 1..Len(ops) : ops[i].n # pending.n
      BY <1>2, <2>3, <3>4
    <3> QED
      BY <3>1, <3>3, <3>5
  <2>4. Apart(ops, dropped, published)'
    BY <1>1, <1>2, <2>3 DEF Line, Apart
  <2> QED
    BY <2>1, <2>2, <2>4 DEF Line
<1>5. TypeOK'
  <2>1. hot' \in BOOLEAN /\ socket' \in BOOLEAN
    BY <1>1, Zenon DEF TypeOK
  <2>2. dropped' \subseteq 1..MaxOps
    <3>1. {pending.n} \ {0} \subseteq 1..MaxOps
      BY <1>2
    <3> QED
      BY <1>1, <3>1 DEF TypeOK
  <2>3. /\ motors' \in [Motors -> Messages \cup {None}]
        /\ latest' \in [count : 0..NMotors, id : Messages \cup {None}]
        /\ battery' \in {"unknown", "normal", "low"}
    BY <1>1 DEF TypeOK, kept
  <2>4. /\ at' \in {"start", "spin", "send", "dead"} /\ forwarded' \in Seq(1..MaxOps)
        /\ published' \in 0..MaxOps /\ Len(ops') <= Depth
        /\ service' \in {"up", "stuck", "away"} /\ box' \in 0..ServiceDepth
    BY <1>1 DEF TypeOK
  <2> QED
    BY <2>1, <2>2, <2>3, <2>4 DEF TypeOK
<1>6. Waiting'
  BY <1>1, <1>2 DEF Waiting
<1>7. Shown'
  BY <1>1 DEF Shown, Nothing, Message, kept
<1> QED
  BY <1>4, <1>5, <1>6, <1>7

\* The other steps leave the line as it is.
LEMMA LineStays ==
  ASSUME Line(ops, dropped, published), UNCHANGED <<ops, history>>, pending'.n = pending.n
  PROVE  Line(ops, dropped, published)'
<1>1. /\ published' = published /\ forwarded' = forwarded
      /\ ops' = ops /\ dropped' = dropped
  BY DEF history
<1>2. Line(ops', dropped', published)
  BY <1>1
<1> QED
  BY <1>1, <1>2, LineMoved, Zenon

\* A message about the motors replaces the one before whole.
LEMMA JointStateStep ==
  ASSUME IInv, NEW count \in 0..NMotors, NEW id \in Messages, JointState(count, id)
  PROVE  IInv'
<1> USE LoggerAssumption DEF IInv
<1>1. /\ at = "spin" /\ pending = Nothing
      /\ latest' = [count |-> count, id |-> id]
      /\ motors' = [m \in Motors |-> IF m <= count THEN id ELSE None]
      /\ UNCHANGED <<at, pending, socket, battery, hot, ops, history, service, box>>
  BY DEF JointState, Waiting
<1>2. TypeOK'
  <2>1. hot' \in BOOLEAN /\ socket' \in BOOLEAN
    BY <1>1, Zenon DEF TypeOK
  <2>2. /\ motors' \in [Motors -> Messages \cup {None}]
        /\ latest' \in [count : 0..NMotors, id : Messages \cup {None}]
    BY <1>1
  <2> QED
    BY <1>1, <2>1, <2>2 DEF TypeOK, history
<1>3. Waiting'
  BY <1>1 DEF Waiting
<1>4. Shown'
  BY <1>1 DEF Shown, Nothing, Message
<1>5. Line(ops, dropped, published)'
  BY <1>1, LineStays
<1> QED
  BY <1>2, <1>3, <1>4, <1>5

LEMMA OtherSteps ==
  ASSUME IInv,
         \/ Start \/ (\E level \in {"normal", "low"} : Voltage(level))
         \/ Heartbeat \/ NotANumber \/ ServiceReads \/ ServiceChanges \/ UNCHANGED vars
  PROVE  IInv'
<1> USE LoggerAssumption DEF IInv
<1> DEFINE Quiet ==
      /\ UNCHANGED <<motors, latest, ops, history>>
      /\ at' \in {"start", "spin", "send", "dead"} /\ battery' \in {"unknown", "normal", "low"}
      /\ service' \in {"up", "stuck", "away"} /\ box' \in 0..ServiceDepth
      /\ \/ pending' = pending /\ (at' = at \/ pending = Nothing)
         \/ at' = "send" /\ pending = Nothing /\ pending'.n = 0 /\ pending'.what # "STATUS"
           Flags == socket' \in BOOLEAN /\ hot' \in BOOLEAN
<1>1. ASSUME Start PROVE Flags /\ Quiet
  <2>1. Flags
    BY <1>1, Zenon DEF Start, TypeOK
  <2>2. Quiet
    BY <1>1 DEF Start, Send, Message, TypeOK, Waiting, kept
  <2> QED
    BY <2>1, <2>2
<1>2. ASSUME NEW level \in {"normal", "low"}, Voltage(level) PROVE Flags /\ Quiet
  <2>1. Flags
    BY <1>2, Zenon DEF Voltage, TypeOK
  <2>2. Quiet
    BY <1>2 DEF Voltage, TypeOK
  <2> QED
    BY <2>1, <2>2
<1>3. ASSUME Heartbeat PROVE Flags /\ Quiet
  <2>1. Flags
    BY <1>3, Zenon DEF Heartbeat, TypeOK
  <2>2. Quiet
    BY <1>3 DEF Heartbeat, Send, Message, TypeOK, Waiting, kept
  <2> QED
    BY <2>1, <2>2
<1>4. ASSUME NotANumber PROVE Flags /\ Quiet
  <2>1. Flags
    BY <1>4, Zenon DEF NotANumber, TypeOK
  <2>2. Quiet
    BY <1>4 DEF NotANumber, TypeOK, Waiting, kept
  <2> QED
    BY <2>1, <2>2
<1>5. ASSUME ServiceReads PROVE Flags /\ Quiet
  <2>1. Flags
    BY <1>5, Zenon DEF ServiceReads, TypeOK
  <2>2. Quiet
    BY <1>5 DEF ServiceReads, TypeOK, kept
  <2> QED
    BY <2>1, <2>2
<1>6. ASSUME ServiceChanges PROVE Flags /\ Quiet
  <2>1. Flags
    BY <1>6, Zenon DEF ServiceChanges, TypeOK
  <2>2. Quiet
    BY <1>6 DEF ServiceChanges, TypeOK, kept
  <2> QED
    BY <2>1, <2>2
<1>7. ASSUME UNCHANGED vars PROVE Flags /\ Quiet
  <2>1. Flags
    BY <1>7, Zenon DEF vars, TypeOK
  <2>2. Quiet
    BY <1>7 DEF vars, TypeOK, kept
  <2> QED
    BY <2>1, <2>2
<1>8. Flags /\ Quiet
  BY <1>1, <1>2, <1>3, <1>4, <1>5, <1>6, <1>7
<1> HIDE DEF Flags
<1>9. TypeOK'
  BY <1>8 DEF TypeOK, history, Flags
<1>10. Waiting'
  BY <1>8 DEF Waiting, Nothing, Message
<1>11. Shown'
  BY <1>8 DEF Shown
<1>12. Line(ops, dropped, published)'
  <2>1. pending'.n = pending.n
    BY <1>8 DEF Nothing, Message
  <2> QED
    BY <1>8, <2>1, LineStays
<1> QED
  BY <1>9, <1>10, <1>11, <1>12

\* Every callback, every datagram and every other publisher keeps the line and
\* what is shown of the motors.
THEOREM Inductive == Spec => []IInv
<1>1. ASSUME IInv, [Next]_vars PROVE IInv'
  <2>1. CASE Publish
    BY <1>1, <2>1, PublishStep
  <2>2. CASE Status
    BY <1>1, <2>2, StatusStep
  <2>3. CASE Forward
    BY <1>1, <2>3, ForwardStep
  <2>4. CASE Accepted
    BY <1>1, <2>4, AcceptedStep
  <2>5. CASE Failed
    BY <1>1, <2>5, FailedStep
  <2>6. ASSUME NEW count \in 0..NMotors, NEW id \in Messages, JointState(count, id)
        PROVE  IInv'
    BY <1>1, <2>6, JointStateStep
  <2>7. CASE \/ Start \/ (\E level \in {"normal", "low"} : Voltage(level))
             \/ Heartbeat \/ NotANumber \/ ServiceReads \/ ServiceChanges \/ UNCHANGED vars
    BY <1>1, <2>7, OtherSteps
  <2> QED
    BY <1>1, <2>1, <2>2, <2>3, <2>4, <2>5, <2>6, <2>7
       DEF Next, Callback, BmsError, SendMessage, OtherOperation
<1> QED
  BY Initially, <1>1, PTL DEF Spec

-----------------------------------------------------------------------------
(* What it says.                                                           *)

\* The logger's state is of its type.
THEOREM TypeCorrect == Spec => []TypeOK
  BY Inductive, PTL DEF IInv

\* A status shows the motors of the message taken last, and no others.
THEOREM StatusIsOfLatest == Spec => []StatusOfLatest
<1>1. IInv => StatusOfLatest
  BY DEF IInv, Shown, StatusOfLatest
<1> QED
  BY <1>1, Inductive, PTL

\* Operations are forwarded in their order, none twice, and none is lost but
\* to a full queue or a service that is away.
THEOREM NoOperationLost == Spec => []OperationsAccounted
<1>1. IInv => OperationsAccounted
  <2> SUFFICES ASSUME IInv PROVE OperationsAccounted
    OBVIOUS
  <2> USE LoggerAssumption DEF IInv
  <2>1. /\ DOMAIN forwarded = 1..Len(forwarded)
        /\ Range(forwarded) = {forwarded[i] : i \in 1..Len(forwarded)}
    BY LenProperties DEF TypeOK, Range
  <2>2. /\ DOMAIN ops = 1..Len(ops)
        /\ {m.n : m \in Range(ops)} = {ops[i].n : i \in 1..Len(ops)}
    BY LenProperties DEF Waiting, Range
  <2>3. \A i, j \in DOMAIN forwarded : i < j => forwarded[i] < forwarded[j]
    BY <2>1 DEF Line, Ordered
  <2>4. ASSUME NEW n \in 1..published
        PROVE  n \in Range(forwarded) \cup dropped \cup ({m.n : m \in Range(ops)} \ {0})
                       \cup ({pending.n} \ {0})
    <3>1. n # 0
      OBVIOUS
    <3> QED
      BY <2>1, <2>2, <3>1 DEF Line, Complete
  <2>5. ASSUME NEW n \in Range(forwarded) \cup dropped \cup ({m.n : m \in Range(ops)} \ {0})
                           \cup ({pending.n} \ {0})
        PROVE  n \in 1..published
    <3>0. published \in Nat
      BY DEF TypeOK
    <3>1. CASE n \in Range(forwarded)
      <4>1. PICK i \in 1..Len(forwarded) : n = forwarded[i]
        BY <2>1, <3>1
      <4>2. forwarded[i] \in 1..MaxOps
        BY ElementOfSeq DEF TypeOK
      <4> QED
        BY <3>0, <4>1, <4>2 DEF Line, Ordered
    <3>2. CASE n \in dropped
      BY <3>2 DEF Line, Apart
    <3>3. CASE n \in {m.n : m \in Range(ops)} \ {0}
      <4>1. PICK i \in 1..Len(ops) : n = ops[i].n /\ n # 0
        BY <2>2, <3>3
      <4>2. ops[i] \in Posted
        BY ElementOfSeq DEF Waiting
      <4>3. n \in Nat
        BY <4>1, <4>2 DEF Posted
      <4> QED
        BY <3>0, <4>1, <4>3 DEF Line, Ordered
    <3>4. CASE n = pending.n /\ n # 0
      BY <3>0, <3>4 DEF Line, Ordered, Waiting
    <3> QED
      BY <3>1, <3>2, <3>3, <3>4
  <2>6. Range(forwarded) \cap dropped = {}
    BY <2>1 DEF Line, Apart
  <2> QED
    BY <2>3, <2>4, <2>5, <2>6 DEF OperationsAccounted
<1> QED
  BY <1>1, Inductive, PTL
=============================================================================
