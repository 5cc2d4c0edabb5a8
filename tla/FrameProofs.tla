---------------------------- MODULE FrameProofs -----------------------------
(***************************************************************************)
(* TxFrame for any motors in any order, any payload and any values: a slot *)
(* of the shared payload is neutral or all of one command to its motor,    *)
(* and the payload implements a mailbox for each motor.  The slots of the  *)
(* motors are disjoint and lie in what is sent; so a command changes the   *)
(* slots of the motors that it reaches and no others.                      *)
(*                                                                         *)
(* And FrameReceiver, the other direction of the same line, for frames of  *)
(* any lengths and any number of damages: what the line has lost or        *)
(* spoilt, the bytes that are left come in the order they were sent in, so *)
(* that a payload that is whole is later than all before it.  And as long  *)
(* as at most one frame is damaged, its command is the one it was sent     *)
(* with.  At last, an account of the damages: each pays for its own frame, *)
(* and for those that the receiver may read over before it is in step.     *)
(***************************************************************************)
EXTENDS TxFrame, FrameReceiver,
        FiniteSetTheorems, SequenceTheorems, WellFoundedInduction, TLAPS

-----------------------------------------------------------------------------
(* Slots.                                                                  *)

\* What kinds there are, how wide their slots, and that none is a broadcast.
LEMMA Kinds ==
  ASSUME NEW k \in MotorKinds
  PROVE  /\ Width(k) \in {1, 3, 4, 5} /\ Plain(k) \in 0..Width(k)
         /\ k \notin Broadcasts /\ k \notin {"NONE", "TIME_OUT"}
<1>1. k \in {"POSITION", "VELOCITY", "TORQUE", "VOLTAGE", "CURRENT", "POS_VEL_TQE",
             "POS_VEL_TQE_KP_KD", "POS_VEL_KP_KD", "POS_VEL_ACC", "POS_VEL_TQE_KP_KD2"}
  <2>1. ASSUME NEW c \in Controls
        PROVE  KindOf(c) \in {"POSITION", "VELOCITY", "TORQUE", "VOLTAGE", "CURRENT",
                 "POS_VEL_TQE", "POS_VEL_TQE_KP_KD", "POS_VEL_KP_KD", "POS_VEL_ACC",
                 "POS_VEL_TQE_KP_KD2"}
    <3>1. c \in {1, 2, 3, 4, 5, 6, 9, 10, 11, 12}
      BY FrameAssumption
    <3> QED
      BY <3>1 DEF KindOf
  <2> QED
    BY <2>1 DEF MotorKinds, HoldKind
<1>2. Width(k) \in {1, 3, 4, 5} /\ Plain(k) \in 0..Width(k)
  BY <1>1 DEF Width, Plain
<1> QED
  BY <1>1, <1>2 DEF Broadcasts

\* A port has a motor with the greatest id.
LEMMA MaxIdIsMax ==
  ASSUME order \in Orders
  PROVE  /\ Ids \subseteq 1..Words /\ Ids \subseteq AllIds
         /\ MaxId \in Ids /\ \A i \in Ids : i <= MaxId
<1>1. /\ Len(order) \in Nat \ {0} /\ \A i \in 1..Len(order) : order[i] \in 1..Words
      /\ Words \in Nat
  BY FrameAssumption
<1>2. Ids \subseteq 1..Words /\ Ids # {} /\ Ids \subseteq AllIds
  BY <1>1 DEF Ids, AllIds
<1>3. \E m \in Ids : \A i \in Ids : i <= m
  <2> DEFINE R == {ss \in Nat \X Nat : ss[1] < ss[2]}
             below == {Words - i : i \in Ids}
  <2>1. IsWellFoundedOn(R, Nat)
    BY NatLessThanWellFounded, Zenon DEF OpToRel
  <2>2. \A w, v \in Nat : w < v => <<w, v>> \in R
    OBVIOUS
  <2>3. below \subseteq Nat /\ below # {}
    <3>1. \A i \in Ids : Words - i \in Nat
      BY <1>1, <1>2
    <3> QED
      BY <1>2, <3>1
  <2>4. \A i \in Ids : Words - i \in below
    OBVIOUS
  <2>5. \A b \in below : \E i \in Ids : b = Words - i
    OBVIOUS
  <2> HIDE DEF R, below
  <2>6. PICK b \in below : \A a \in below : ~ (<<a, b>> \in R)
    BY <2>1, <2>3, WFMin, Zenon
  <2>7. PICK m \in Ids : b = Words - m
    BY <2>5
  <2>8. ASSUME NEW i \in Ids PROVE i <= m
    <3>1. Words - i \in Nat /\ b \in Nat /\ ~ (Words - i < b)
      BY <2>2, <2>3, <2>4, <2>6
    <3> QED
      BY <1>1, <1>2, <2>7, <3>1
  <2> QED
    BY <2>8
<1> QED
  BY <1>2, <1>3, Zenon DEF MaxId

\* Slots that fit lie in what is sent, and a word of one tells whose it is.
LEMMA Slots ==
  ASSUME order \in Orders, NEW k \in MotorKinds, Fits(k), NEW id \in Ids
  PROVE  /\ SlotsUsed(k) \in 0..Words
         /\ (id - 1) * Width(k) + 1 \in Slot(k, id)
         /\ \A w \in Slot(k, id) :
              /\ w \in 1..Words /\ w <= SlotsUsed(k)
              /\ (w - 1) \div Width(k) + 1 = id
<1>1. id \in 1..Words /\ MaxId \in 1..Words /\ id <= MaxId /\ Words \in Nat
  BY MaxIdIsMax, FrameAssumption
<1> DEFINE d == Width(k)
           m == MaxId
<1>2. d \in {1, 3, 4, 5}
  BY Kinds
<1>3. m <= Words \div d
  BY DEF Fits
<1> SUFFICES /\ m * d \in 0..Words
             /\ (id - 1) * d + 1 \in (id - 1) * d + 1 .. id * d
             /\ \A w \in (id - 1) * d + 1 .. id * d :
                  w \in 1..Words /\ w <= m * d /\ (w - 1) \div d + 1 = id
  BY DEF SlotsUsed, Slot
<1> HIDE DEF d, m
<1>4. CASE d = 1
  BY <1>1, <1>3, <1>4 DEF m
<1>5. CASE d = 3
  BY <1>1, <1>3, <1>5 DEF m
<1>6. CASE d = 4
  BY <1>1, <1>3, <1>6 DEF m
<1>7. CASE d = 5
  BY <1>1, <1>3, <1>7 DEF m
<1> QED
  BY <1>2, <1>4, <1>5, <1>6, <1>7

\* The slots of two motors have no word in common.
LEMMA SlotsAreDisjoint ==
  ASSUME order \in Orders, NEW k \in MotorKinds, Fits(k),
         NEW i \in 1..NMotors, NEW j \in 1..NMotors,
         NEW w \in Slot(k, order[i]), w \in Slot(k, order[j])
  PROVE  i = j
<1>1. order[i] \in Ids /\ order[j] \in Ids
  BY DEF Ids, NMotors
<1>2. order[i] = order[j]
  BY <1>1, Slots
<1> QED
  BY <1>2, FrameAssumption DEF NMotors

-----------------------------------------------------------------------------
(* What a command makes of a frame.                                        *)

Word == [n : 0..MaxCmds, to : 0..Words, raw : -Limit..Limit \cup {NoCommand}]
Frame == [cmd : MotorKinds \cup Broadcasts \cup {"NONE", "TIME_OUT"}, len : 0..Words,
          data : [1..Words -> Word]]

\* What the words of a motor can be.
Raws == [Ids -> -Limit..Limit]

\* Whether command c of kind k writes word w of motor i.
Writes(k, i, w) ==
  /\ Reached(k, i)
  /\ w - (order[i] - 1) * Width(k) <= Written(k, i)

\* A neutral word is a word.
LEMMA NeutralIsWord ==
  ASSUME NEW k, NEW w PROVE Neutral(k, w) \in Word /\ Neutral(k, w).n = 0
  BY FrameAssumption DEF Neutral, Word

\* A frame that has been prepared for kind k is one, with clean slots if it was
\* of another kind.
LEMMA PreparedWords ==
  ASSUME order \in Orders, NEW k \in MotorKinds, Fits(k), NEW f \in Frame
  PROVE  /\ Prepared(f, k) \in Frame /\ Prepared(f, k).cmd = k
         /\ f.cmd = k => Prepared(f, k) = f
         /\ f.cmd # k => /\ Prepared(f, k).len = SlotsUsed(k)
                         /\ \A id \in Ids : \A w \in Slot(k, id) :
                              Prepared(f, k).data[w] = Neutral(k, w)
<1>1. CASE f.cmd = k
  BY <1>1 DEF Prepared
<1>2. CASE f.cmd # k
  <2> DEFINE d == [w \in 1..Words |-> IF w <= SlotsUsed(k) THEN Neutral(k, w) ELSE f.data[w]]
  <2>1. Prepared(f, k) = [cmd |-> k, len |-> SlotsUsed(k), data |-> d]
    BY <1>2 DEF Prepared
  <2>2. d \in [1..Words -> Word]
    BY NeutralIsWord DEF Frame
  <2>3. SlotsUsed(k) \in 0..Words
    BY MaxIdIsMax, Slots
  <2>4. ASSUME NEW id \in Ids, NEW w \in Slot(k, id) PROVE d[w] = Neutral(k, w)
    BY Slots
  <2> HIDE DEF d
  <2> QED
    BY <1>2, <2>1, <2>2, <2>3, <2>4 DEF Frame
<1> QED
  BY <1>1, <1>2

\* A command writes what it writes of the slots of the motors it reaches, and
\* leaves the rest as it was prepared.
LEMMA GivenWords ==
  ASSUME order \in Orders, NEW k \in MotorKinds, Fits(k), NEW f \in Frame,
         NEW c \in 1..MaxCmds, NEW r \in Raws
  PROVE  /\ Given(f, k, c, r) \in Frame /\ Given(f, k, c, r).cmd = k
         /\ Given(f, k, c, r).len = Prepared(f, k).len
         /\ \A i \in 1..NMotors : \A w \in Slot(k, order[i]) :
              Given(f, k, c, r).data[w] =
                IF Writes(k, i, w) THEN [n |-> c, to |-> order[i], raw |-> r[order[i]]]
                ELSE Prepared(f, k).data[w]
<1> DEFINE p == Prepared(f, k)
           id(w) == (w - 1) \div Width(k) + 1
           new(w) == [n |-> c, to |-> id(w), raw |-> r[id(w)]]
           d == [w \in 1..Words |->
                  IF \E i \in 1..NMotors :
                       /\ Reached(k, i) /\ w \in Slot(k, order[i])
                       /\ w - (order[i] - 1) * Width(k) <= Written(k, i)
                  THEN new(w) ELSE p.data[w]]
<1>1. p \in Frame /\ p.cmd = k
  BY PreparedWords
<1>2. Given(f, k, c, r) = [p EXCEPT !.data = d]
  BY <1>1 DEF Given, Frame
<1>3. \A i \in 1..NMotors : order[i] \in Ids /\ Slot(k, order[i]) \subseteq 1..Words
  BY Slots DEF Ids, NMotors
<1>4. ASSUME NEW i \in 1..NMotors, NEW w \in Slot(k, order[i])
      PROVE  id(w) = order[i] /\ new(w) \in Word
  <2>1. id(w) = order[i] /\ order[i] \in Ids
    BY <1>3, Slots
  <2>2. id(w) \in 0..Words /\ r[id(w)] \in -Limit..Limit
    BY <2>1, MaxIdIsMax DEF Raws
  <2> HIDE DEF id
  <2> QED
    BY <2>1, <2>2 DEF Word
<1> HIDE DEF id
<1>5. d \in [1..Words -> Word]
  <2> SUFFICES ASSUME NEW w \in 1..Words PROVE d[w] \in Word
    OBVIOUS
  <2>1. p.data[w] \in Word
    BY <1>1 DEF Frame
  <2> QED
    BY <1>4, <2>1
<1>6. ASSUME NEW i \in 1..NMotors, NEW w \in Slot(k, order[i])
      PROVE  d[w] = IF Writes(k, i, w) THEN [n |-> c, to |-> order[i], raw |-> r[order[i]]]
                    ELSE p.data[w]
  <2>1. w \in 1..Words
    BY <1>3
  <2>2. new(w) = [n |-> c, to |-> order[i], raw |-> r[order[i]]]
    BY <1>4
  <2>3. (\E j \in 1..NMotors :
           /\ Reached(k, j) /\ w \in Slot(k, order[j])
           /\ w - (order[j] - 1) * Width(k) <= Written(k, j)) <=> Writes(k, i, w)
    BY SlotsAreDisjoint DEF Writes
  <2> QED
    BY <2>1, <2>2, <2>3
<1> HIDE DEF d, p
<1>7. [p EXCEPT !.data = d] \in Frame
  BY <1>1, <1>5 DEF Frame
<1> QED
  BY <1>1, <1>2, <1>6, <1>7 DEF Frame, p

-----------------------------------------------------------------------------
(* The inductive invariant.                                                *)

\* Word w of the slot of motor i is one that a command of the frame's kind
\* writes when it reaches the motor.
Commanded(f, i, w) == w - (order[i] - 1) * Width(f.cmd) <= Written(f.cmd, i)

\* The slot of motor i is neutral, or one command wrote all of it that any
\* command can write, and the rest is neutral.
Neat(f, i) ==
  \/ \A w \in Slot(f.cmd, order[i]) : f.data[w] = Neutral(f.cmd, w)
  \/ \E c \in 1..MaxCmds : \A w \in Slot(f.cmd, order[i]) :
       IF Commanded(f, i, w)
       THEN f.data[w].n = c /\ f.data[w].to = order[i] /\ f.data[w].raw \in -Limit..Limit
       ELSE f.data[w] = Neutral(f.cmd, w)

\* A frame of a kind with slots had room for them when it was prepared.
Sound(f) ==
  /\ f \in Frame
  /\ f.cmd \in MotorKinds =>
       /\ Fits(f.cmd) /\ f.len = SlotsUsed(f.cmd)
       /\ \A i \in 1..NMotors : Neat(f, i)

IInv == order \in Orders /\ control \in Controls /\ n \in 0..MaxCmds /\ Sound(frame)

\* A command leaves a sound frame sound.
LEMMA GivenIsSound ==
  ASSUME order \in Orders, NEW k \in MotorKinds, NEW f, Sound(f),
         NEW c \in 1..MaxCmds, NEW r \in Raws
  PROVE  Sound(Given(f, k, c, r))
<1> DEFINE g == Given(f, k, c, r)
           p == Prepared(f, k)
<1>1. CASE ~Fits(k)
  BY <1>1 DEF Given
<1>2. CASE Fits(k)
  <2>0. f \in Frame
    BY DEF Sound
  <2>1. /\ g \in Frame /\ g.cmd = k /\ g.len = p.len
        /\ \A i \in 1..NMotors : \A w \in Slot(k, order[i]) :
             g.data[w] = IF Writes(k, i, w)
                         THEN [n |-> c, to |-> order[i], raw |-> r[order[i]]]
                         ELSE p.data[w]
    BY <1>2, <2>0, GivenWords
  <2>2. /\ p \in Frame /\ p.cmd = k
        /\ f.cmd = k => p = f
        /\ f.cmd # k => /\ p.len = SlotsUsed(k)
                        /\ \A id \in Ids : \A w \in Slot(k, id) : p.data[w] = Neutral(k, w)
    BY <1>2, <2>0, PreparedWords
  <2> HIDE DEF g, p
  <2>3. p.len = SlotsUsed(k) /\ \A i \in 1..NMotors : Neat(p, i)
    <3>1. CASE f.cmd = k
      BY <2>2, <3>1 DEF Sound
    <3>2. CASE f.cmd # k
      BY <2>2, <3>2 DEF Neat, Ids, NMotors
    <3> QED
      BY <3>1, <3>2
  <2>4. ASSUME NEW i \in 1..NMotors PROVE Neat(g, i)
    <3>1. /\ order[i] \in Ids /\ r[order[i]] \in -Limit..Limit
          /\ \A w : Writes(k, i, w) <=> Reached(k, i) /\ Commanded(p, i, w)
          /\ \A w : Commanded(p, i, w) <=> Commanded(g, i, w)
      BY <2>1, <2>2 DEF Raws, Ids, NMotors, Writes, Commanded
    <3>2. CASE Reached(k, i)
      <4>1. ASSUME NEW w \in Slot(k, order[i]), Commanded(g, i, w)
            PROVE  /\ g.data[w].n = c /\ g.data[w].to = order[i]
                   /\ g.data[w].raw \in -Limit..Limit
        <5>1. Writes(k, i, w)
          BY <3>1, <3>2, <4>1
        <5>2. g.data[w] = [n |-> c, to |-> order[i], raw |-> r[order[i]]]
          BY <2>1, <5>1
        <5> QED
          BY <3>1, <5>2
      <4>2. ASSUME NEW w \in Slot(k, order[i]), ~Commanded(g, i, w)
            PROVE  g.data[w] = Neutral(k, w)
        <5>1. p.data[w] = Neutral(k, w)
          BY <2>2, <2>3, <3>1, <4>2 DEF Neat
        <5> QED
          BY <2>1, <3>1, <4>2, <5>1
      <4> QED
        BY <2>1, <4>1, <4>2 DEF Neat
    <3>3. CASE ~Reached(k, i)
      <4>1. \A w \in Slot(k, order[i]) : g.data[w] = p.data[w]
        BY <2>1, <3>1, <3>3
      <4> QED
        BY <2>1, <2>2, <2>3, <3>1, <4>1 DEF Neat
    <3> QED
      BY <3>2, <3>3
  <2>5. Sound(g)
    BY <1>2, <2>1, <2>3, <2>4 DEF Sound
  <2> QED
    BY <2>5 DEF g
<1> QED
  BY <1>1, <1>2

\* What motors get for any values is within the limits.
LEMMA WordsAreLimited == ASSUME NEW V \in SUBSET Values PROVE Words16(V) \subseteq Raws
<1> USE FrameAssumption
<1>1. ASSUME NEW x \in Int PROVE Limited(x) \in -Limit..Limit
  BY DEF Limited
<1>2. ASSUME NEW v \in V, NEW x \in ToInt32(v) PROVE x \in Int
  <2>1. v = NaN \/ v \in Int
    OBVIOUS
  <2> QED
    BY <2>1 DEF ToInt32
<1>3. ASSUME NEW v \in V PROVE Converted(v) \subseteq -Limit..Limit
  BY <1>1, <1>2 DEF Converted
<1>4. UNION {Converted(v) : v \in V} \subseteq -Limit..Limit
  BY <1>3
<1> QED
  BY <1>4 DEF Words16, Raws

\* Soundness is about the frame and the motors, which do not change.
LEMMA SoundNext ==
  ASSUME IInv, NEW g, frame' = g, Sound(g), n' \in 0..MaxCmds, UNCHANGED <<order, control>>
  PROVE  IInv'
<1>1. Ids' = Ids /\ NMotors' = NMotors
  BY DEF Ids, NMotors
<1>2. MaxId' = MaxId
  BY <1>1 DEF MaxId
<1>3. (\A i \in 1..NMotors : Neat(g, i)) => (\A i \in 1..NMotors : Neat(frame, i))'
  BY <1>1 DEF Neat, Commanded, Written
<1>4. Sound(frame)'
  BY <1>1, <1>2, <1>3 DEF Sound, Fits, SlotsUsed
<1> QED
  BY <1>4 DEF IInv

\* The first frame holds no command.
LEMMA Initially == Init => IInv
<1> SUFFICES ASSUME Init PROVE IInv
  OBVIOUS
<1>1. order \in Orders /\ control \in Controls /\ n \in 0..MaxCmds
  BY FrameAssumption DEF Init
<1>2. frame \in Frame /\ frame.cmd = "NONE"
  BY FrameAssumption DEF Init, Frame, Word
<1>3. "NONE" \notin MotorKinds
  BY Kinds
<1> QED
  BY <1>1, <1>2, <1>3 DEF IInv, Sound

\* The kind of a command of the topic, of a held place and of the probe.
LEMMA KindsOfCommands ==
  ASSUME control \in Controls
  PROVE  KindOf(control) \in MotorKinds /\ HoldKind \in MotorKinds /\ "VELOCITY" \in MotorKinds
  BY DEF MotorKinds

\* A command of the topic and one that holds the motors are each one command.
LEMMA OneCommand ==
  ASSUME IInv, LowCmd \/ TiltedTick
  PROVE  /\ n + 1 \in 1..MaxCmds /\ n' = n + 1 /\ UNCHANGED <<order, control>> /\ n \in Nat
         /\ \E k \in MotorKinds, r \in Raws : frame' = Given(frame, k, n + 1, r)
<1> USE FrameAssumption
<1>1. /\ n + 1 \in 1..MaxCmds /\ n' = n + 1 /\ UNCHANGED <<order, control>>
      /\ n \in Nat
  BY DEF IInv, LowCmd, TiltedTick
<1>2. \E k \in MotorKinds, r \in Raws : frame' = Given(frame, k, n + 1, r)
  <2>1. CASE LowCmd
    BY <1>1, <2>1, KindsOfCommands, WordsAreLimited DEF LowCmd, IInv
  <2>2. CASE TiltedTick
    BY <1>1, <2>2, KindsOfCommands, WordsAreLimited DEF TiltedTick, IInv, Places
  <2> QED
    BY <2>1, <2>2
<1> QED
  BY <1>1, <1>2

LEMMA CommandStep == ASSUME IInv, LowCmd \/ TiltedTick PROVE IInv'
<1> USE FrameAssumption
<1>1. /\ n + 1 \in 1..MaxCmds /\ n' = n + 1 /\ UNCHANGED <<order, control>>
      /\ n \in Nat
  BY OneCommand
<1>2. PICK k \in MotorKinds, r \in Raws : frame' = Given(frame, k, n + 1, r)
  BY OneCommand
<1> DEFINE c == n + 1
           g == Given(frame, k, c, r)
<1>3. c \in 1..MaxCmds /\ frame' = g
  BY <1>1, <1>2
<1> HIDE DEF c
<1>4. Sound(g)
  BY <1>3, GivenIsSound DEF IInv
<1> HIDE DEF g
<1> QED
  BY <1>1, <1>3, <1>4, SoundNext

LEMMA ProbeStep == ASSUME IInv, VelocityProbe PROVE IInv'
<1> USE FrameAssumption
<1> DEFINE c == n + 1
           e == n + 2
           r0 == [id \in Ids |-> 0]
           still == Given(frame, "VELOCITY", c, r0)
<1>1. /\ c \in 1..MaxCmds /\ e \in 1..MaxCmds /\ UNCHANGED <<order, control>> /\ n \in Nat
  BY DEF IInv, VelocityProbe
<1>2. \/ n' = e /\ \E r \in Words16(Places) : frame' = Given(still, HoldKind, n', r)
      \/ n' = c /\ frame' = still
  BY DEF VelocityProbe
<1>3. r0 \in Raws
  BY DEF Raws
<1> HIDE DEF c, e, r0
<1>4. Sound(still)
  BY <1>1, <1>3, GivenIsSound, KindsOfCommands DEF IInv
<1> HIDE DEF still
<1>5. CASE n' = c /\ frame' = still
  BY <1>1, <1>4, <1>5, SoundNext
<1>6. ASSUME n' = e, NEW r \in Words16(Places), frame' = Given(still, HoldKind, n', r)
      PROVE  IInv'
  <2> DEFINE g == Given(still, HoldKind, e, r)
  <2>1. r \in Raws
    BY WordsAreLimited DEF Places
  <2>2. frame' = g
    BY <1>6
  <2>3. Sound(g)
    BY <1>1, <1>4, <2>1, GivenIsSound, KindsOfCommands DEF IInv
  <2> HIDE DEF g
  <2> QED
    BY <1>1, <1>6, <2>2, <2>3, SoundNext
<1> QED
  BY <1>2, <1>5, <1>6

\* A port has no more motors than there are ids.
LEMMA MotorsAreFew == ASSUME order \in Orders PROVE NMotors \in 0..Words
<1>1. /\ Len(order) \in Nat /\ Words \in Nat /\ \A i \in 1..Len(order) : order[i] \in 1..Words
      /\ \A i, j \in 1..Len(order) : order[i] = order[j] => i = j
  BY FrameAssumption
<1> DEFINE f == [i \in 1..Len(order) |-> order[i]]
<1>2. f \in Injection(1..Len(order), 1..Words)
  BY <1>1 DEF Injection, IsInjective
<1>3. /\ IsFiniteSet(1..Words) /\ Cardinality(1..Words) = Words
      /\ Cardinality(1..Len(order)) = Len(order)
  <2>1. ASSUME NEW b \in Nat PROVE IsFiniteSet(1..b) /\ Cardinality(1..b) = b
    <3>1. b \in Int /\ 1 \in Int /\ (IF 1 > b THEN 0 ELSE b - 1 + 1) = b
      OBVIOUS
    <3> QED
      BY <3>1, FS_Interval
  <2> QED
    BY <1>1, <2>1
<1> HIDE DEF f
<1>4. Cardinality(1..Len(order)) <= Cardinality(1..Words)
  BY <1>2, <1>3, FS_Injection, Zenon
<1> QED
  BY <1>1, <1>3, <1>4 DEF NMotors

\* What has no slots is written over them, and the next command clears it.
LEMMA PortStep ==
  ASSUME IInv, Timeout \/ (\E k \in Broadcasts : Broadcast(k)) PROVE IInv'
<1> USE FrameAssumption
<1>1. n' = n /\ UNCHANGED <<order, control>>
  BY DEF Timeout, Broadcast
<1>2. frame' \in Frame /\ frame'.cmd \notin MotorKinds
  <2>1. CASE Timeout
    <3> DEFINE d == [w \in 1..Words |->
                       IF w <= NMotors THEN [n |-> 0, to |-> w, raw |-> 0] ELSE frame.data[w]]
    <3>1. /\ frame' = [cmd |-> "TIME_OUT",
                       len |-> IF frame.cmd = "TIME_OUT" THEN frame.len ELSE NMotors,
                       data |-> d]
          /\ NMotors \in 0..Words
      BY <2>1, MotorsAreFew DEF Timeout, IInv
    <3>2. d \in [1..Words -> Word]
      BY DEF IInv, Sound, Frame, Word
    <3> HIDE DEF d
    <3>3. "TIME_OUT" \notin MotorKinds
      BY Kinds
    <3> QED
      BY <3>1, <3>2, <3>3 DEF IInv, Sound, Frame
  <2>2. ASSUME NEW k \in Broadcasts, Broadcast(k)
        PROVE  frame' \in Frame /\ frame'.cmd \notin MotorKinds
    <3> DEFINE d == [frame.data EXCEPT ![1] = Neutral(k, 1)]
    <3>1. frame' = [cmd |-> k, len |-> 1, data |-> d]
      BY <2>2 DEF Broadcast
    <3>2. d \in [1..Words -> Word]
      BY NeutralIsWord DEF IInv, Sound, Frame
    <3> HIDE DEF d
    <3>3. k \notin MotorKinds
      BY Kinds
    <3> QED
      BY <3>1, <3>2, <3>3 DEF Frame
  <2> QED
    BY <2>1, <2>2
<1> DEFINE g == frame'
<1>3. Sound(g)
  BY <1>2 DEF Sound
<1> HIDE DEF g
<1> QED
  BY <1>1, <1>3, SoundNext DEF IInv, g

\* Every command, broadcast and tick leaves every slot neat.
THEOREM Invariance == Spec => []IInv
<1>1. IInv /\ [Next]_vars => IInv'
  <2> SUFFICES ASSUME IInv, [Next]_vars PROVE IInv'
    OBVIOUS
  <2>1. CASE UNCHANGED vars
    <3> DEFINE g == frame
    <3>1. frame' = g /\ Sound(g) /\ n' \in 0..MaxCmds /\ UNCHANGED <<order, control>>
      BY <2>1 DEF vars, IInv
    <3> HIDE DEF g
    <3> QED
      BY <3>1, SoundNext
  <2> QED
    BY <2>1, CommandStep, ProbeStep, PortStep DEF Next
<1> QED
  BY Initially, <1>1, PTL DEF Spec

-----------------------------------------------------------------------------
(* What it says of a frame.                                                *)

\* The frame's words, its length and its kind are of their types.
THEOREM TypeCorrect == Spec => []TypeOK
<1>1. IInv => TypeOK
  BY DEF IInv, Sound, Frame, Word, TypeOK
<1> QED
  BY <1>1, Invariance, PTL

\* The words that the frame holds for a motor are sent and are all of one
\* command to that motor, or neutral, and within the limits.
THEOREM SlotsHoldOneCommand == Spec => []OneCommandPerSlot
<1>1. IInv => OneCommandPerSlot
  <2> SUFFICES ASSUME IInv, frame.cmd \in MotorKinds, NEW id \in Ids,
                      NEW v \in Slot(frame.cmd, id), NEW w \in Slot(frame.cmd, id)
               PROVE  /\ w <= frame.len
                      /\ \/ frame.data[w] = Neutral(frame.cmd, w)
                         \/ /\ frame.data[w].n > 0 /\ frame.data[w].to = id
                            /\ frame.data[w].raw \in -Limit..Limit
                      /\ \/ frame.data[v].n = frame.data[w].n
                         \/ id \in Untyped /\ 0 \in {frame.data[v].n, frame.data[w].n}
    BY DEF OneCommandPerSlot
  <2>1. PICK i \in 1..NMotors : id = order[i]
    BY DEF Ids, NMotors
  <2>2. /\ Fits(frame.cmd) /\ frame.len = SlotsUsed(frame.cmd) /\ Neat(frame, i)
        /\ order \in Orders
    BY DEF IInv, Sound
  <2>3. w <= frame.len
    BY <2>2, Slots
  <2>4. \A x : Neutral(frame.cmd, x).n = 0
    BY DEF Neutral
  <2>5. CASE \A x \in Slot(frame.cmd, order[i]) : frame.data[x] = Neutral(frame.cmd, x)
    BY <2>1, <2>3, <2>4, <2>5
  <2>6. ASSUME NEW c \in 1..MaxCmds,
               \A x \in Slot(frame.cmd, order[i]) :
                 IF Commanded(frame, i, x)
                 THEN /\ frame.data[x].n = c /\ frame.data[x].to = order[i]
                      /\ frame.data[x].raw \in -Limit..Limit
                 ELSE frame.data[x] = Neutral(frame.cmd, x)
        PROVE  /\ \/ frame.data[w] = Neutral(frame.cmd, w)
                  \/ /\ frame.data[w].n > 0 /\ frame.data[w].to = id
                     /\ frame.data[w].raw \in -Limit..Limit
               /\ \/ frame.data[v].n = frame.data[w].n
                  \/ id \in Untyped /\ 0 \in {frame.data[v].n, frame.data[w].n}
    <3>1. id \notin Untyped => Commanded(frame, i, v) /\ Commanded(frame, i, w)
      <4>1. /\ w \in (id - 1) * Width(frame.cmd) + 1 .. id * Width(frame.cmd)
            /\ v \in (id - 1) * Width(frame.cmd) + 1 .. id * Width(frame.cmd)
            /\ id \in Nat /\ Width(frame.cmd) \in {1, 3, 4, 5}
        BY <2>2, Kinds, MaxIdIsMax DEF Slot
      <4>2. /\ w - (id - 1) * Width(frame.cmd) <= Width(frame.cmd)
            /\ v - (id - 1) * Width(frame.cmd) <= Width(frame.cmd)
        BY <4>1
      <4> QED
        BY <2>1, <4>2 DEF Commanded, Written
    <3>2. CASE Commanded(frame, i, w)
      BY <2>1, <2>4, <2>6, <3>1, <3>2
    <3>3. CASE ~Commanded(frame, i, w)
      BY <2>1, <2>4, <2>6, <3>1, <3>3
    <3> QED
      BY <3>2, <3>3
  <2> QED
    BY <2>2, <2>3, <2>5, <2>6 DEF Neat
<1> QED
  BY <1>1, Invariance, PTL

-----------------------------------------------------------------------------
(* The mailboxes.                                                          *)

\* Mail of any frame.
MailOf(f) ==
  [id \in AllIds |->
     IF f.cmd \in MotorKinds /\ id \in Ids
     THEN f.data[(id - 1) * Width(f.cmd) + 1].n ELSE 0]

\* Some motors have got command c, and the others have kept theirs or lost it.
NewMail(old, new, keeps, c) ==
  \E S \in SUBSET AllIds :
    new = [id \in AllIds |-> IF id \in S THEN c ELSE IF keeps THEN old[id] ELSE 0]

\* Command c of kind k is new mail for some motors; for the others it stays,
\* if the kind does.
LEMMA GivenIsMail ==
  ASSUME order \in Orders, NEW k \in MotorKinds, Fits(k), NEW f \in Frame,
         NEW c \in 1..MaxCmds, NEW r \in Raws
  PROVE  NewMail(MailOf(f), MailOf(Given(f, k, c, r)), k = f.cmd, c)
<1> DEFINE g == Given(f, k, c, r)
           p == Prepared(f, k)
           first(id) == (id - 1) * Width(k) + 1
           S == {order[i] : i \in {j \in 1..NMotors : Writes(k, j, first(order[j]))}}
<1>1. /\ g.cmd = k
      /\ \A i \in 1..NMotors : \A w \in Slot(k, order[i]) :
           g.data[w] = IF Writes(k, i, w) THEN [n |-> c, to |-> order[i], raw |-> r[order[i]]]
                       ELSE p.data[w]
  BY GivenWords
<1>2. /\ f.cmd = k => p = f
      /\ f.cmd # k => \A id \in Ids : \A w \in Slot(k, id) : p.data[w] = Neutral(k, w)
  BY PreparedWords
<1>3. \A id \in Ids : first(id) \in Slot(k, id)
  BY Slots
<1>4. /\ \A i \in 1..NMotors : order[i] \in Ids
      /\ \A id \in Ids : \E i \in 1..NMotors : id = order[i]
      /\ \A i, j \in 1..NMotors : order[i] = order[j] => i = j
      /\ Ids \subseteq AllIds
  BY MaxIdIsMax, FrameAssumption DEF Ids, NMotors
<1>5. S \subseteq Ids
  BY <1>4
<1>6. \A i \in 1..NMotors : order[i] \in S <=> Writes(k, i, first(order[i]))
  BY <1>4
<1> HIDE DEF g, p, S
<1>7. ASSUME NEW id \in Ids
      PROVE  g.data[first(id)].n =
               IF id \in S THEN c ELSE IF k = f.cmd THEN f.data[first(id)].n ELSE 0
  <2>1. PICK i \in 1..NMotors : id = order[i]
    BY <1>4
  <2>2. first(id) \in Slot(k, order[i])
    BY <1>3, <2>1
  <2>3. CASE Writes(k, i, first(id))
    <3>1. g.data[first(id)] = [n |-> c, to |-> order[i], raw |-> r[order[i]]]
      BY <1>1, <2>2, <2>3
    <3> QED
      BY <1>6, <2>1, <2>3, <3>1
  <2>4. CASE ~Writes(k, i, first(id))
    <3>1. g.data[first(id)] = p.data[first(id)] /\ id \notin S
      BY <1>1, <1>6, <2>1, <2>2, <2>4
    <3>2. CASE f.cmd = k
      BY <1>2, <3>1, <3>2
    <3>3. CASE f.cmd # k
      <4>1. p.data[first(id)] = Neutral(k, first(id))
        BY <1>2, <1>3, <3>3
      <4> QED
        BY <3>1, <3>3, <4>1, NeutralIsWord
    <3> QED
      BY <3>2, <3>3
  <2> QED
    BY <2>3, <2>4
<1>8. ASSUME NEW id \in AllIds
      PROVE  MailOf(g)[id] = IF id \in S THEN c ELSE IF k = f.cmd THEN MailOf(f)[id] ELSE 0
  BY <1>1, <1>4, <1>5, <1>7 DEF MailOf
<1>9. MailOf(g) = [id \in AllIds |->
                     IF id \in S THEN c ELSE IF k = f.cmd THEN MailOf(f)[id] ELSE 0]
  BY <1>8 DEF MailOf
<1> QED
  BY <1>4, <1>5, <1>9 DEF g, NewMail

\* The mail of the next frame, for the same motors.
LEMMA MailNext ==
  ASSUME NEW g, frame' = g, UNCHANGED order
  PROVE  Mail = MailOf(frame) /\ Mail' = MailOf(g)
<1>1. Ids' = Ids
  BY DEF Ids
<1> QED
  BY <1>1 DEF Mail, MailOf

LEMMA CommandIsMail == ASSUME IInv, LowCmd \/ TiltedTick PROVE M!Next
<1> DEFINE c == n + 1
<1>1. n' = c /\ c \in 1..MaxCmds /\ UNCHANGED <<order, control>>
  BY OneCommand
<1>2. PICK k \in MotorKinds, r \in Raws : frame' = Given(frame, k, c, r)
  BY OneCommand
<1> DEFINE g == Given(frame, k, c, r)
<1>3. Mail = MailOf(frame) /\ Mail' = MailOf(g)
  BY <1>1, <1>2, MailNext
<1>4. CASE ~Fits(k)
  <2>1. g = frame
    BY <1>4 DEF Given
  <2>2. M!Refuse
    BY <1>1, <1>2, <1>3, <2>1 DEF M!Refuse
  <2> QED
    BY <2>2 DEF M!Next
<1>5. CASE Fits(k)
  <2>0. order \in Orders /\ frame \in Frame
    BY DEF IInv, Sound
  <2> HIDE DEF c
  <2>1. NewMail(MailOf(frame), MailOf(g), k = frame.cmd, c)
    BY <1>1, <1>5, <2>0, GivenIsMail
  <2>2. frame'.cmd = k
    BY <1>1, <1>2, <1>5, <2>0, GivenWords
  <2>3. M!Give(k)
    BY <1>1, <1>3, <2>1, <2>2 DEF M!Give, NewMail, c
  <2> QED
    BY <2>3 DEF M!Next
<1> QED
  BY <1>4, <1>5

\* The probe's velocities, and the hold of a tilted robot after them.
LEMMA ProbeIsMail == ASSUME IInv, VelocityProbe PROVE M!Next
<1> DEFINE c == n + 1
           e == n + 2
           v == "VELOCITY"
           r0 == [id \in Ids |-> 0]
           still == Given(frame, v, c, r0)
<1>1. /\ c \in 1..MaxCmds /\ (n' = e => e \in 1..MaxCmds)
      /\ UNCHANGED <<order, control>> /\ n \in Nat
  <2>1. n \in Nat /\ MaxCmds \in Nat /\ n + 1 < MaxCmds
    BY FrameAssumption DEF IInv, VelocityProbe
  <2> QED
    BY <2>1 DEF VelocityProbe
<1>2. \/ /\ n' = e /\ ~Throws(v)
         /\ \E r \in Words16(Places) : frame' = Given(still, HoldKind, n', r)
      \/ n' = c /\ frame' = still
  BY DEF VelocityProbe
<1>3. r0 \in Raws
  BY FrameAssumption DEF Raws
<1>4. order \in Orders /\ frame \in Frame /\ v \in MotorKinds /\ HoldKind \in MotorKinds
  BY KindsOfCommands DEF IInv, Sound
<1>5. v # HoldKind
  BY DEF HoldKind
<1> HIDE DEF c, e, v, r0
<1>6. ASSUME Fits(v)
      PROVE  /\ still \in Frame /\ still.cmd = v
             /\ NewMail(MailOf(frame), MailOf(still), v = frame.cmd, c)
  <2>1. still \in Frame /\ still.cmd = v
    BY <1>1, <1>3, <1>4, <1>6, GivenWords
  <2>2. NewMail(MailOf(frame), MailOf(still), v = frame.cmd, c)
    BY <1>1, <1>3, <1>4, <1>6, GivenIsMail
  <2> QED
    BY <2>1, <2>2
<1>7. ~Fits(v) => still = frame
  BY DEF Given
<1> HIDE DEF still
<1>8. CASE n' = c /\ frame' = still
  <2>1. Mail = MailOf(frame) /\ Mail' = MailOf(still)
    BY <1>1, <1>8, MailNext
  <2>2. CASE Fits(v)
    <3>1. M!Give(v)
      <4>1. frame'.cmd = v /\ n' = n + 1 /\ NewMail(Mail, Mail', v = frame.cmd, n + 1)
        BY <1>6, <1>8, <2>1, <2>2 DEF c
      <4> QED
        BY <4>1 DEF M!Give, NewMail
    <3> QED
      BY <1>4, <3>1 DEF M!Next
  <2>3. CASE ~Fits(v)
    <3>1. M!Refuse
      BY <1>7, <1>8, <2>1, <2>3 DEF M!Refuse, c
    <3> QED
      BY <3>1 DEF M!Next
  <2> QED
    BY <2>2, <2>3
<1>9. ASSUME n' = e, ~Throws(v), NEW r \in Words16(Places),
             frame' = Given(still, HoldKind, n', r)
      PROVE  M!Next
  <2> DEFINE g == Given(still, HoldKind, e, r)
  <2>1. Fits(v) /\ r \in Raws /\ e \in 1..MaxCmds /\ frame' = g
    BY <1>1, <1>9, WordsAreLimited DEF Throws, Places
  <2>2. Mail = MailOf(frame) /\ Mail' = MailOf(g)
    BY <1>1, <2>1, MailNext
  <2>3. PICK R \in SUBSET AllIds :
          MailOf(still) =
            [id \in AllIds |->
               IF id \in R THEN c ELSE IF v = frame.cmd THEN MailOf(frame)[id] ELSE 0]
    BY <1>6, <2>1 DEF NewMail
  <2>4. CASE Fits(HoldKind)
    <3>1. g.cmd = HoldKind
      BY <1>4, <1>6, <2>1, <2>4, GivenWords
    <3>2. PICK S \in SUBSET AllIds :
            MailOf(g) = [id \in AllIds |->
                           IF id \in S THEN e
                           ELSE IF HoldKind = still.cmd THEN MailOf(still)[id] ELSE 0]
      <4>1. NewMail(MailOf(still), MailOf(g), HoldKind = still.cmd, e)
        BY <1>4, <1>6, <2>1, <2>4, GivenIsMail
      <4> QED
        BY <4>1 DEF NewMail
    <3>3. MailOf(g) = [id \in AllIds |-> IF id \in S THEN e ELSE 0]
      BY <1>5, <1>6, <2>1, <3>2
    <3>4. M!GiveTwice(v, HoldKind)
      <4>1. Mail' = [m \in AllIds |->
                       IF m \in S THEN n + 2
                       ELSE IF v # HoldKind THEN 0
                       ELSE IF m \in R THEN n + 1
                       ELSE IF v = frame.cmd THEN Mail[m] ELSE 0]
        BY <1>5, <2>2, <3>3 DEF e
      <4>2. n' = n + 2 /\ frame'.cmd = HoldKind
        BY <1>9, <2>1, <3>1 DEF e
      <4> QED
        BY <4>1, <4>2 DEF M!GiveTwice
    <3> QED
      BY <1>4, <3>4 DEF M!Next
  <2>5. CASE ~Fits(HoldKind)
    <3>1. g = still
      BY <2>5 DEF Given
    <3>2. M!GiveTwice(v, v)
      <4>1. Mail' = [m \in AllIds |->
                       IF m \in {} THEN n + 2
                       ELSE IF v # v THEN 0
                       ELSE IF m \in R THEN n + 1
                       ELSE IF v = frame.cmd THEN Mail[m] ELSE 0]
        BY <2>2, <2>3, <3>1 DEF c
      <4>2. n' = n + 2 /\ frame'.cmd = v /\ {} \in SUBSET AllIds
        BY <1>6, <1>9, <2>1, <3>1 DEF e
      <4> QED
        BY <4>1, <4>2 DEF M!GiveTwice
    <3> QED
      BY <1>4, <3>2 DEF M!Next
  <2> QED
    BY <2>4, <2>5
<1> QED
  BY <1>2, <1>8, <1>9

\* What is for the whole port empties the mailboxes.
LEMMA PortIsMail ==
  ASSUME IInv, Timeout \/ (\E k \in Broadcasts : Broadcast(k)) PROVE M!Next
<1>1. PICK k \in Broadcasts \cup {"TIME_OUT"} : frame'.cmd = k /\ n' = n
  BY DEF Timeout, Broadcast
<1>2. k \notin MotorKinds
  BY Kinds
<1>3. Mail' = [id \in AllIds |-> 0]
  BY <1>1, <1>2 DEF Mail
<1>4. M!GiveAll(k)
  BY <1>1, <1>3 DEF M!GiveAll, M!NoMail
<1> QED
  BY <1>4 DEF M!Next

\* The shared payload is as good as a mailbox for each motor: each has its own
\* last command of the present kind, and no other.
THEOREM MailRefinement == Spec => ImplementsMail
<1>1. Init => M!Init
  <2>1. "NONE" \notin MotorKinds
    BY Kinds
  <2> QED
    BY <2>1 DEF Init, Mail, M!Init, M!NoMail
<1>2. IInv /\ [Next]_vars => [M!Next]_(M!vars)
  <2> SUFFICES ASSUME IInv, [Next]_vars PROVE [M!Next]_(M!vars)
    OBVIOUS
  <2>1. CASE UNCHANGED vars
    BY <2>1 DEF vars, M!vars, Mail, Ids
  <2> QED
    BY <2>1, CommandIsMail, ProbeIsMail, PortIsMail DEF Next
<1> QED
  BY <1>1, <1>2, Invariance, PTL DEF Spec, ImplementsMail, M!Spec

-----------------------------------------------------------------------------
(* The other direction: the frames that come from the board.               *)

\* A byte that comes from a frame is one of it, ...
FromFrame(b, fs) == b[1] # 0 => b[1] \in 1..Len(fs) /\ b[2] \in 1..Size(fs[b[1]])

\* ... and comes before another of the same frame or one of a later frame.
Before(a, b) == a[1] # 0 /\ b[1] # 0 => a[1] < b[1] \/ (a[1] = b[1] /\ a[2] < b[2])

\* Bytes of frames come in the order they were sent in, whatever is missing.
InLine ==
  /\ \A i \in 1..Len(line) : FromFrame(line[i], frames)
  /\ \A i, j \in 1..Len(line) : i < j => Before(line[i], line[j])

\* What was dispatched is whole and in order, and was sent before all that is
\* still to be read.
Dispatched ==
  \A i \in 1..Len(delivered) :
    /\ delivered[i].data # <<>>
    /\ Source(i) \in 1..Len(frames) /\ delivered[i].data = Payload(Source(i))
    /\ \A j \in 1..i - 1 : Source(j) < Source(i)
    /\ \A j \in 1..Len(line) : line[j][1] # 0 => Source(i) < line[j][1]

\* None of the three is inductive alone: a payload is later than the last only
\* because of where its bytes stood in the line.
RxInv == RxTypeOK /\ InLine /\ Dispatched

-----------------------------------------------------------------------------
(* The line.                                                               *)

\* The bytes that may come of frame k, which has z.
Bits(k, z) == Noise \cup ({k} \X (1..z))

\* What is left of a frame: some of its bytes in their order, and noise.
Piece(d, k, z) ==
  /\ d \in Seq(Bits(k, z))
  /\ \A i, j \in 1..Len(d) : i < j => Before(d[i], d[j])

\* d[i] is noise or the byte x of frame k.
Is(d, i, k, x) == d[i] \in Noise \/ d[i] = <<k, x>>

\* Two bytes of a frame at places x and y.
LEMMA InOrder ==
  ASSUME NEW k \in Nat \ {0}, NEW d, NEW i, NEW j,
         NEW x \in Int, NEW y \in Int, x < y, Is(d, i, k, x), Is(d, j, k, y)
  PROVE  Before(d[i], d[j])
<1>1. CASE d[i] \in Noise \/ d[j] \in Noise
  BY <1>1 DEF Noise, Before
<1>2. CASE d[i] = <<k, x>> /\ d[j] = <<k, y>>
  BY <1>2 DEF Before
<1> QED
  BY <1>1, <1>2 DEF Is

\* One damage leaves a piece of a frame.
LEMMA DamageLeavesPiece ==
  ASSUME NEW k \in Nat \ {0}, NEW c, Size(c) \in Nat,
         NEW d \in Damaged(Bytes(k, c)) \cup {Bytes(k, c)}
  PROVE  Piece(d, k, Size(c))
<1> DEFINE z == Size(c)
           B == Bits(k, z)
           s == Bytes(k, c)
<1>1. s \in Seq(B) /\ Len(s) = z /\ \A j \in 1..z : s[j] = <<k, j>>
  BY DEF Bytes, Bits
<1>2. z \in Nat /\ \A j \in 1..z : s[j] \in B
  BY <1>1
<1>3. Noise \subseteq B
  BY DEF Bits
<1> HIDE DEF z, s, B
<1>4. ASSUME NEW j \in 1..z PROVE Piece(RemoveAt(s, j), k, z)
  <2> DEFINE a == SubSeq(s, 1, j - 1)
             b == SubSeq(s, j + 1, z)
             e == a \o b
             x(i) == IF i < j THEN i ELSE i + 1
  <2>1. a \in Seq(B) /\ Len(a) = j - 1 /\ \A i \in 1..j - 1 : a[i] = <<k, i>>
    BY <1>1, <1>2, SubSeqProperties
  <2>2. b \in Seq(B) /\ Len(b) = z - j /\ \A i \in 1..z - j : b[i] = <<k, j + i>>
    <3>1. \A i \in j + 1..z : s[i] \in B
      BY <1>2
    <3>2. /\ b \in Seq(B) /\ Len(b) = IF j + 1 <= z THEN z - (j + 1) + 1 ELSE 0
          /\ \A i \in 1..z - (j + 1) + 1 : b[i] = s[(j + 1) + i - 1]
      BY <1>2, <3>1, SubSeqProperties
    <3> QED
      BY <1>1, <1>2, <3>2
  <2> HIDE DEF a, b
  <2>3. /\ e \in Seq(B) /\ Len(e) = Len(a) + Len(b)
        /\ \A i \in 1..Len(a) + Len(b) : e[i] = IF i <= Len(a) THEN a[i] ELSE b[i - Len(a)]
    BY <2>1, <2>2, ConcatProperties
  <2> HIDE DEF e
  <2>4. Len(e) = z - 1 /\ z - 1 \in Nat
    BY <1>2, <2>1, <2>2, <2>3
  <2>5. ASSUME NEW i \in 1..z - 1 PROVE Is(e, i, k, x(i))
    <3>1. CASE i < j
      BY <1>2, <2>1, <2>2, <2>3, <3>1 DEF Is
    <3>2. CASE ~(i < j)
      <4>1. i - Len(a) \in 1..z - j /\ i \in 1..Len(a) + Len(b) /\ ~(i <= Len(a))
        BY <1>2, <2>1, <2>2, <3>2
      <4>2. e[i] = <<k, j + (i - Len(a))>>
        BY <2>2, <2>3, <4>1
      <4> QED
        BY <2>1, <3>2, <4>2 DEF Is
    <3> QED
      BY <3>1, <3>2
  <2>6. ASSUME NEW i \in 1..z - 1, NEW l \in 1..z - 1, i < l PROVE Before(e[i], e[l])
    <3>1. x(i) \in Int /\ x(l) \in Int /\ x(i) < x(l)
      BY <2>6
    <3> HIDE DEF x
    <3> QED
      BY <2>5, <3>1, InOrder
  <2>7. Piece(e, k, z)
    BY <2>3, <2>4, <2>6 DEF Piece, B
  <2> QED
    BY <1>1, <2>7 DEF RemoveAt, a, b, e
<1>5. ASSUME NEW j \in 1..z, NEW b \in Noise PROVE Piece([s EXCEPT ![j] = b], k, z)
  <2> DEFINE e == [s EXCEPT ![j] = b]
  <2>1. /\ e \in Seq(B) /\ Len(e) = z
        /\ \A i \in 1..z : e[i] = IF i = j THEN b ELSE s[i]
    BY <1>1, <1>3, ExceptSeq
  <2> HIDE DEF e
  <2>2. \A i \in 1..z : Is(e, i, k, i)
    BY <1>1, <2>1 DEF Is
  <2>3. ASSUME NEW i \in 1..z, NEW l \in 1..z, i < l PROVE Before(e[i], e[l])
    BY <2>2, <2>3, InOrder
  <2>4. Piece(e, k, z)
    BY <2>1, <2>3 DEF Piece, B
  <2> QED
    BY <2>4 DEF e
<1>6. ASSUME NEW j \in 1..z, NEW l \in 0..z, j <= l + 1 PROVE Piece(SubSeq(s, j, l), k, z)
  <2> DEFINE e == SubSeq(s, j, l)
             m == l - j + 1
  <2>1. m \in Nat /\ e \in Seq(B) /\ Len(e) = m /\ \A i \in 1..m : e[i] = s[j + i - 1]
    <3>1. \A i \in j..l : s[i] \in B
      BY <1>2
    <3>2. /\ e \in Seq(B) /\ Len(e) = IF j <= l THEN l - j + 1 ELSE 0
          /\ \A i \in 1..l - j + 1 : e[i] = s[j + i - 1]
      BY <1>2, <3>1, SubSeqProperties
    <3> QED
      BY <1>6, <3>2
  <2>2. ASSUME NEW i \in 1..m PROVE Is(e, i, k, j + i - 1)
    <3>1. e[i] = s[j + i - 1] /\ j + i - 1 \in 1..z
      BY <1>2, <2>1
    <3> HIDE DEF e
    <3> QED
      BY <1>1, <3>1 DEF Is
  <2> HIDE DEF e, m
  <2>3. ASSUME NEW i \in 1..m, NEW l2 \in 1..m, i < l2 PROVE Before(e[i], e[l2])
    <3>1. j + i - 1 \in Int /\ j + l2 - 1 \in Int /\ j + i - 1 < j + l2 - 1
      BY <2>1, <2>3
    <3> QED
      BY <2>2, <3>1, InOrder
  <2>4. Piece(e, k, z)
    BY <2>1, <2>3 DEF Piece, B
  <2> QED
    BY <2>4 DEF e
<1>7. CASE d = s
  <2>1. \A i \in 1..z : Is(s, i, k, i)
    BY <1>1 DEF Is
  <2>2. ASSUME NEW i \in 1..z, NEW l \in 1..z, i < l PROVE Before(s[i], s[l])
    BY <2>1, <2>2, InOrder
  <2>3. Piece(s, k, z)
    BY <1>1, <2>2 DEF Piece, B
  <2> QED
    BY <1>7, <2>3 DEF z
<1> DEFINE Lost == {RemoveAt(s, j) : j \in 1..z}
           Changed == {[s EXCEPT ![j] = b] : j \in 1..z, b \in Noise}
           Ends == {SubSeq(s, j, z) : j \in 3..z}
           Starting == {SubSeq(s, 1, j) : j \in 1..z - 2}
<1>8. CASE d \in Lost
  BY <1>4, <1>8 DEF z
<1>9. CASE d \in Changed
  <2>1. \E j \in 1..z : \E b \in Noise : d = [s EXCEPT ![j] = b]
    BY <1>9
  <2>. PICK j \in 1..z, b \in Noise : d = [s EXCEPT ![j] = b]
    BY <2>1
  <2>2. Piece([s EXCEPT ![j] = b], k, z)
    BY <1>5
  <2> QED
    BY <2>2 DEF z
<1>10. CASE d \in Ends
  <2>1. PICK j \in 3..z : d = SubSeq(s, j, z)
    BY <1>10
  <2>2. j \in 1..z /\ z \in 0..z /\ j <= z + 1
    BY <1>2
  <2> QED
    BY <1>6, <2>1, <2>2 DEF z
<1>11. CASE d \in Starting
  <2>1. PICK j \in 1..z - 2 : d = SubSeq(s, 1, j)
    BY <1>11
  <2>2. 1 \in 1..z /\ j \in 0..z /\ 1 <= j + 1
    BY <1>2
  <2> QED
    BY <1>6, <2>1, <2>2 DEF z
<1>12. d = s \/ d \in Damaged(s)
  BY DEF s
<1>13. Damaged(s) = Lost \cup Changed \cup Ends \cup Starting
  BY <1>1 DEF Damaged
<1> HIDE DEF Lost, Changed, Ends, Starting
<1> QED
  BY <1>7, <1>8, <1>9, <1>10, <1>11, <1>12, <1>13

\* A frame c is sent, and d of it comes on the line.
Appends(c, d) ==
  LET k == Len(frames) + 1 IN
  /\ frames' \in Seq(Contents) /\ Len(frames') = k /\ frames'[k] = c
  /\ \A i \in 1..Len(frames) : frames'[i] = frames[i]
  /\ Piece(d, k, Size(c)) /\ Len(d) \in Nat
  /\ line' \in Seq(Byte') /\ Len(line') = Len(line) + Len(d)
  /\ \A i \in 1..Len(line) : line'[i] = line[i]
  /\ \A i \in 1..Len(line') :
       i > Len(line) => i - Len(line) \in 1..Len(d) /\ line'[i] = d[i - Len(line)]
  /\ \/ faults' = faults /\ d = Bytes(k, c)
     \/ faults' = faults + 1 /\ d \in Damaged(Bytes(k, c))

\* The numbers of frames and bytes, and the types that the frames give them.
LEMMA Counts ==
  ASSUME RxInv
  PROVE  /\ frames \in Seq(Contents) /\ Len(frames) \in Nat
         /\ line \in Seq(Byte) /\ Len(line) \in Nat
         /\ \A c \in Contents : Size(c) \in Nat /\ Size(c) > Overhead
                                /\ Size(c) <= Overhead + MaxLen
         /\ Overhead = 7
  BY ReceiverAssumption, LenProperties
  DEF RxInv, RxTypeOK, Size, Overhead, HeaderSize, CrcSize

\* The board appends a frame, whole or damaged.
LEMMA SendAppends ==
  ASSUME RxInv, NEW c \in Contents, Send(c)
  PROVE  \E d : Appends(c, d)
<1> DEFINE k == Len(frames) + 1
           z == Size(c)
<1>1. frames' = Append(frames, c)
  BY DEF Send
<1>2. /\ frames \in Seq(Contents) /\ Len(frames) \in Nat
      /\ line \in Seq(Byte) /\ Len(line) \in Nat
      /\ z \in Nat /\ z <= Overhead + MaxLen /\ Overhead = 7 /\ k \in Nat \ {0}
  BY Counts
<1>3. /\ frames' \in Seq(Contents) /\ Len(frames') = k
      /\ \A i \in 1..Len(frames) : frames'[i] = frames[i]
      /\ frames'[k] = c
  BY <1>1, <1>2, AppendProperties
<1>4. PICK d : /\ line' = line \o d /\ d \in Damaged(Bytes(k, c)) \cup {Bytes(k, c)}
               /\ \/ faults' = faults /\ d = Bytes(k, c)
                  \/ faults' = faults + 1 /\ d \in Damaged(Bytes(k, c))
  BY <1>3 DEF Send
<1> HIDE DEF k
<1>5. Piece(d, k, z)
  BY <1>2, <1>4, DamageLeavesPiece
<1> HIDE DEF z
<1>6. /\ Byte \subseteq Byte' /\ Bits(k, z) \subseteq Byte'
  <2>1. Byte' = Noise \cup ((1..k) \X (1..Overhead + MaxLen))
    BY <1>3 DEF Byte
  <2>2. 1..Len(frames) \subseteq 1..k /\ k \in 1..k /\ 1..z \subseteq 1..Overhead + MaxLen
    BY <1>2, ReceiverAssumption DEF k
  <2> QED
    BY <2>1, <2>2 DEF Byte, Bits
<1>7. line \in Seq(Byte') /\ d \in Seq(Byte') /\ Len(d) \in Nat
  BY <1>2, <1>5, <1>6, SeqMonotonic, LenProperties DEF Piece
<1>8. /\ line' \in Seq(Byte') /\ Len(line') = Len(line) + Len(d)
      /\ \A i \in 1..Len(line') :
           line'[i] = IF i <= Len(line) THEN line[i] ELSE d[i - Len(line)]
  BY <1>4, <1>7, ConcatProperties
<1>9. /\ \A i \in 1..Len(line) : line'[i] = line[i]
      /\ \A i \in 1..Len(line') :
           i > Len(line) => i - Len(line) \in 1..Len(d) /\ line'[i] = d[i - Len(line)]
  BY <1>2, <1>7, <1>8
<1> QED
  BY <1>3, <1>4, <1>5, <1>7, <1>8, <1>9 DEF Appends, k, z

\* Then the bytes on the line are still in order, and later than what was
\* dispatched.
LEMMA SendStep == ASSUME RxInv, NEW c \in Contents, Send(c) PROVE RxInv'
<1> USE ReceiverAssumption
<1> DEFINE k == Len(frames) + 1
           z == Size(c)
<1>1. /\ Len(frames) < MaxFrames
      /\ UNCHANGED <<at, header, want, crcOf, delivered, excused>>
      /\ faults' \in 0..MaxFaults
  BY DEF Send, receiver, RxInv, RxTypeOK
<1>2. /\ Len(frames) \in Nat /\ line \in Seq(Byte) /\ Len(line) \in Nat
      /\ z \in Nat /\ z <= Overhead + MaxLen /\ k \in Nat \ {0}
  BY Counts
<1>3. PICK d : Appends(c, d)
  BY SendAppends
<1>4. /\ frames' \in Seq(Contents) /\ Len(frames') = k
      /\ \A i \in 1..Len(frames) : frames'[i] = frames[i]
      /\ frames'[k] = c
      /\ Piece(d, k, z) /\ Len(d) \in Nat
  BY <1>3 DEF Appends
<1>5. /\ line' \in Seq(Byte') /\ Len(line') = Len(line) + Len(d)
      /\ \A i \in 1..Len(line) : line'[i] = line[i]
      /\ \A i \in 1..Len(line') :
           i > Len(line) => i - Len(line) \in 1..Len(d) /\ line'[i] = d[i - Len(line)]
  BY <1>3 DEF Appends
<1> HIDE DEF k, z
<1>6. Byte \subseteq Byte'
  BY <1>2, <1>4 DEF Byte, k
<1>7. ASSUME NEW i \in 1..Len(d)
      PROVE  d[i][1] = 0 \/ (d[i][1] = k /\ d[i][2] \in 1..z)
  <2>1. d[i] \in Noise \cup ({k} \X (1..z))
    BY <1>4, ElementOfSeq DEF Piece, Bits
  <2> QED
    BY <2>1 DEF Noise
<1>8. InLine'
  <2>1. \A i \in 1..Len(line') : FromFrame(line'[i], frames')
    <3> SUFFICES ASSUME NEW i \in 1..Len(line') PROVE FromFrame(line'[i], frames')
      OBVIOUS
    <3>1. CASE i <= Len(line)
      <4>1. line'[i] = line[i] /\ i \in 1..Len(line) /\ FromFrame(line[i], frames)
        BY <1>2, <1>5, <3>1 DEF RxInv, InLine
      <4> QED
        BY <1>2, <1>4, <4>1 DEF FromFrame, k
    <3>2. CASE i > Len(line)
      <4>1. line'[i] = d[i - Len(line)] /\ i - Len(line) \in 1..Len(d)
        BY <1>2, <1>4, <1>5, <3>2
      <4> QED
        BY <1>4, <1>7, <4>1 DEF FromFrame, z
    <3> QED
      BY <1>2, <1>5, <3>1, <3>2
  <2>2. \A i, j \in 1..Len(line') : i < j => Before(line'[i], line'[j])
    <3> SUFFICES ASSUME NEW i \in 1..Len(line'), NEW j \in 1..Len(line'), i < j
                 PROVE  Before(line'[i], line'[j])
      OBVIOUS
    <3>1. CASE j <= Len(line)
      <4>1. /\ i \in 1..Len(line) /\ j \in 1..Len(line)
            /\ line'[i] = line[i] /\ line'[j] = line[j]
        BY <1>2, <1>5, <3>1
      <4> QED
        BY <4>1 DEF RxInv, InLine
    <3>2. CASE i > Len(line)
      <4>1. /\ i - Len(line) \in 1..Len(d) /\ j - Len(line) \in 1..Len(d)
            /\ i - Len(line) < j - Len(line)
            /\ line'[i] = d[i - Len(line)] /\ line'[j] = d[j - Len(line)]
        BY <1>2, <1>4, <1>5, <3>2
      <4> QED
        BY <1>4, <4>1 DEF Piece
    <3>3. CASE i <= Len(line) /\ j > Len(line)
      <4>1. line'[i] = line[i] /\ i \in 1..Len(line) /\ FromFrame(line[i], frames)
        BY <1>2, <1>5, <3>3 DEF RxInv, InLine
      <4>2. line'[j] = d[j - Len(line)] /\ j - Len(line) \in 1..Len(d)
        BY <1>2, <1>4, <1>5, <3>3
      <4>3. line'[j][1] = 0 \/ line'[j][1] = k
        BY <1>7, <4>2
      <4> QED
        BY <1>2, <4>1, <4>3 DEF Before, FromFrame, k
    <3> QED
      BY <1>2, <1>5, <3>1, <3>2, <3>3
  <2> QED
    BY <2>1, <2>2 DEF InLine, Before
<1>9. RxTypeOK'
  <2>1. /\ header' \in 0..Len(frames') /\ crcOf' \in 0..Len(frames')
        /\ excused' \subseteq 0..Len(frames')
    BY <1>1, <1>2, <1>4 DEF RxInv, RxTypeOK, k
  <2>2. delivered' \in Seq([cmd : 0..Len(frames'), data : Seq(Byte')])
    <3>1. Seq(Byte) \subseteq Seq(Byte')
      BY <1>6, SeqMonotonic
    <3>2. 0..Len(frames) \subseteq 0..Len(frames')
      BY <1>2, <1>4 DEF k
    <3>3. [cmd : 0..Len(frames), data : Seq(Byte)]
            \subseteq [cmd : 0..Len(frames'), data : Seq(Byte')]
      BY <3>1, <3>2
    <3>4. delivered \in Seq([cmd : 0..Len(frames), data : Seq(Byte)])
      BY DEF RxInv, RxTypeOK
    <3>5. delivered \in Seq([cmd : 0..Len(frames'), data : Seq(Byte')])
      BY <3>3, <3>4, SeqMonotonic, Zenon
    <3> QED
      BY <1>1, <3>5
  <2> QED
    BY <1>1, <1>2, <1>4, <1>5, <2>1, <2>2 DEF RxInv, RxTypeOK, k
<1>10. Dispatched'
  <2> SUFFICES ASSUME NEW i \in 1..Len(delivered)
               PROVE  /\ delivered[i].data # <<>>
                      /\ Source(i)' \in 1..Len(frames')
                      /\ delivered[i].data = Payload(Source(i))'
                      /\ \A j \in 1..i - 1 : Source(j)' < Source(i)'
                      /\ \A j \in 1..Len(line') : line'[j][1] # 0 => Source(i)' < line'[j][1]
    BY <1>1 DEF Dispatched
  <2>1. \A j \in 1..Len(delivered) : Source(j)' = Source(j)
    BY <1>1 DEF Source
  <2>2. /\ delivered[i].data # <<>>
        /\ Source(i) \in 1..Len(frames) /\ delivered[i].data = Payload(Source(i))
        /\ \A j \in 1..i - 1 : Source(j) < Source(i)
        /\ \A j \in 1..Len(line) : line[j][1] # 0 => Source(i) < line[j][1]
    BY DEF RxInv, Dispatched
  <2>3. Payload(Source(i))' = Payload(Source(i)) /\ Source(i) \in 1..Len(frames')
    BY <1>2, <1>4, <2>1, <2>2 DEF Payload, k
  <2>4. ASSUME NEW j \in 1..Len(line'), line'[j][1] # 0
        PROVE  Source(i) < line'[j][1]
    <3>1. CASE j <= Len(line)
      <4>1. line'[j] = line[j] /\ j \in 1..Len(line)
        BY <1>2, <1>5, <3>1
      <4> QED
        BY <2>2, <2>4, <4>1
    <3>2. CASE j > Len(line)
      <4>1. line'[j] = d[j - Len(line)] /\ j - Len(line) \in 1..Len(d)
        BY <1>2, <1>4, <1>5, <3>2
      <4>2. line'[j][1] = k
        BY <1>7, <2>4, <4>1
      <4> QED
        BY <1>2, <2>2, <4>2 DEF k
    <3> QED
      BY <1>2, <1>5, <3>1, <3>2
  <2>5. \A j \in 1..i - 1 : Source(j)' < Source(i)'
    <3>1. Len(delivered) \in Nat
      BY LenProperties DEF RxInv, RxTypeOK
    <3> QED
      BY <2>1, <2>2, <3>1
  <2> QED
    BY <2>1, <2>2, <2>3, <2>4, <2>5
<1> QED
  BY <1>8, <1>9, <1>10 DEF RxInv

-----------------------------------------------------------------------------
(* The receiver.                                                           *)

\* A read that takes the first n bytes of the line
Reads(w) ==
  /\ frames' = frames
  /\ line' \in Seq(Byte) /\ Len(line') = Len(line) - w
  /\ \A j \in 1..Len(line) - w : line'[j] = line[w + j]

\* Taking bytes off the line is such a read, and gets those bytes.
LEMMA TakeReads ==
  ASSUME RxInv, NEW w \in Nat, w <= Len(line), frames' = frames, Take(w)
  PROVE  /\ Reads(w)
         /\ Taken(w) \in Seq(Byte) /\ Len(Taken(w)) = w
         /\ \A j \in 1..w : Taken(w)[j] = line[j]
<1>1. line \in Seq(Byte) /\ Len(line) \in Nat /\ \A i \in 1..Len(line) : line[i] \in Byte
  BY LenProperties, ElementOfSeq DEF RxInv, RxTypeOK
<1>2. Reads(w)
  <2>1. \A i \in w + 1..Len(line) : line[i] \in Byte
    BY <1>1
  <2>2. /\ line' \in Seq(Byte)
        /\ Len(line') = IF w + 1 <= Len(line) THEN Len(line) - (w + 1) + 1 ELSE 0
        /\ \A i \in 1..Len(line) - (w + 1) + 1 : line'[i] = line[(w + 1) + i - 1]
    BY <1>1, <2>1, SubSeqProperties DEF Take
  <2> QED
    BY <1>1, <2>2 DEF Reads
<1>3. /\ Taken(w) \in Seq(Byte) /\ Len(Taken(w)) = w
      /\ \A j \in 1..w : Taken(w)[j] = line[j]
  <2>1. \A i \in 1..w : line[i] \in Byte
    BY <1>1
  <2>2. /\ Taken(w) \in Seq(Byte) /\ Len(Taken(w)) = IF 1 <= w THEN w - 1 + 1 ELSE 0
        /\ \A i \in 1..w - 1 + 1 : Taken(w)[i] = line[1 + i - 1]
    BY <1>1, <2>1, SubSeqProperties DEF Taken
  <2> QED
    BY <1>1, <2>2
<1> QED
  BY <1>2, <1>3

\* What is left of the line is still in order.
LEMMA ReadsInLine ==
  ASSUME RxInv, NEW w \in 0..Len(line), Reads(w)
  PROVE  InLine'
<1>1. Len(line) \in Nat
  BY LenProperties DEF RxInv, RxTypeOK
<1>2. ASSUME NEW i \in 1..Len(line') PROVE FromFrame(line'[i], frames')
  <2>1. w + i \in 1..Len(line) /\ line'[i] = line[w + i]
    BY <1>1 DEF Reads
  <2>2. FromFrame(line[w + i], frames)
    BY <2>1 DEF RxInv, InLine
  <2> QED
    BY <2>1, <2>2 DEF Reads
<1>3. ASSUME NEW i \in 1..Len(line'), NEW j \in 1..Len(line'), i < j
      PROVE  Before(line'[i], line'[j])
  <2>1. /\ w + i \in 1..Len(line) /\ line'[i] = line[w + i]
        /\ w + j \in 1..Len(line) /\ line'[j] = line[w + j] /\ w + i < w + j
    BY <1>1, <1>3 DEF Reads
  <2>2. Before(line[w + i], line[w + j])
    BY <2>1 DEF RxInv, InLine
  <2> QED
    BY <2>1, <2>2
<1> QED
  BY <1>2, <1>3 DEF InLine

\* Reading without dispatching keeps what was dispatched before the line.
LEMMA ReadsDispatched ==
  ASSUME RxInv, NEW w \in 0..Len(line), Reads(w), delivered' = delivered
  PROVE  Dispatched'
<1>1. Len(line) \in Nat
  BY LenProperties DEF RxInv, RxTypeOK
<1>2. \A i \in 1..Len(delivered) :
        Source(i)' = Source(i) /\ Payload(Source(i))' = Payload(Source(i))
  BY DEF Source, Payload, Reads
<1>3. \A j \in 1..Len(line') : w + j \in 1..Len(line) /\ line'[j] = line[w + j]
  BY <1>1 DEF Reads
<1>4. ASSUME NEW i \in 1..Len(delivered)
      PROVE  /\ delivered[i].data # <<>>
             /\ Source(i)' \in 1..Len(frames') /\ delivered[i].data = Payload(Source(i))'
             /\ \A j \in 1..i - 1 : Source(j)' < Source(i)'
             /\ \A j \in 1..Len(line') : line'[j][1] # 0 => Source(i)' < line'[j][1]
  <2>1. /\ delivered[i].data # <<>>
        /\ Source(i) \in 1..Len(frames) /\ delivered[i].data = Payload(Source(i))
        /\ \A j \in 1..i - 1 : Source(j) < Source(i)
        /\ \A j \in 1..Len(line) : line[j][1] # 0 => Source(i) < line[j][1]
    BY DEF RxInv, Dispatched
  <2>2. \A j \in 1..i - 1 : j \in 1..Len(delivered)
    BY LenProperties DEF RxInv, RxTypeOK
  <2>3. \A j \in 1..i - 1 : Source(j)' < Source(i)'
    BY <1>2, <2>1, <2>2
  <2>4. \A j \in 1..Len(line') : line'[j][1] # 0 => Source(i)' < line'[j][1]
    BY <1>2, <1>3, <2>1
  <2> QED
    BY <1>2, <2>1, <2>3, <2>4 DEF Reads
<1> QED
  BY <1>4 DEF Dispatched

\* A byte that may be a head: one byte is read.
LEMMA ReadHeadReads == ASSUME RxInv, ReadHead PROVE 1 \in 0..Len(line) /\ Reads(1)
<1>1. line \in Seq(Byte) /\ line # <<>>
  BY DEF RxInv, RxTypeOK, ReadHead
<1>2. /\ Tail(line) \in Seq(Byte) /\ Len(Tail(line)) = Len(line) - 1
      /\ Len(line) \in Nat /\ Len(line) >= 1
      /\ \A i \in 1..Len(Tail(line)) : Tail(line)[i] = line[i + 1]
  BY <1>1, HeadTailProperties, LenProperties, EmptySeq
<1> QED
  BY <1>1, <1>2 DEF Reads, ReadHead

\* What is left of the line is in order after it.
LEMMA ReadHeadStep == ASSUME RxInv, ReadHead PROVE RxInv'
<1>1. 1 \in 0..Len(line) /\ Reads(1)
  BY ReadHeadReads
<1>2. RxTypeOK'
  BY <1>1 DEF RxInv, RxTypeOK, ReadHead, Reads, Byte
<1>3. InLine' /\ Dispatched'
  BY <1>1, ReadsInLine, ReadsDispatched DEF ReadHead
<1> QED
  BY <1>2, <1>3 DEF RxInv

\* the rest of a header,
LEMMA ReadRestStep == ASSUME RxInv, ReadRest PROVE RxInv'
<1> USE ReceiverAssumption DEF HeaderSize
<1> DEFINE r == Taken(4)
           k == r[1][1]
<1>1. /\ at = "rest" /\ Len(line) >= 4 /\ Take(4) /\ frames' = frames
      /\ crcOf' = crcOf /\ delivered' = delivered /\ excused' = excused
  BY DEF ReadRest
<1>2. Len(line) \in Nat
  BY LenProperties DEF RxInv, RxTypeOK
<1>3. 4 \in 0..Len(line) /\ Reads(4) /\ Len(r) = 4 /\ r \in Seq(Byte)
  <2>1. 4 \in Nat /\ 4 <= Len(line) /\ 4 \in 0..Len(line)
    BY <1>1, <1>2
  <2> QED
    BY <1>1, <2>1, TakeReads, Zenon
<1>4. k \in 0..Len(frames)
  <2>1. r[1] \in Byte
    BY <1>3
  <2> QED
    BY <2>1 DEF Byte, Noise
<1>5. ASSUME NEW i \in 0..Len(frames), NEW w \in Int, w >= 0, AcceptHeader(i, w)
      PROVE  header' \in 0..Len(frames) /\ at' \in {"crc", "ended"} /\ want' \in 0..MaxLen
  BY <1>5 DEF AcceptHeader, FitsBuffer, MarkError, RxInv, RxTypeOK
<1>6. /\ header' \in 0..Len(frames) /\ at' \in {"crc", "ended", "head"} /\ want' \in 0..MaxLen
      /\ faults' \in 0..MaxFaults
  <2>1. CASE HeaderMatches(k, r) /\ AcceptHeader(k, frames[k].len) /\ UNCHANGED faults
    <3>1. k \in 1..Len(frames)
      BY <1>4, <2>1 DEF HeaderMatches
    <3>2. frames[k] \in Contents
      BY <3>1 DEF RxInv, RxTypeOK
    <3>3. frames[k].len \in Int /\ frames[k].len >= 0
      BY <3>2
    <3> QED
      BY <1>4, <1>5, <2>1, <3>3 DEF RxInv, RxTypeOK
  <2>2. CASE at' = "head" /\ UNCHANGED <<header, want, faults>>
    BY <2>2 DEF RxInv, RxTypeOK
  <2>3. CASE /\ faults < MaxFaults /\ faults' = faults + 1
             /\ \E w \in 0..MaxLen + 1 : AcceptHeader(0, w)
    <3>1. PICK w \in 0..MaxLen + 1 : AcceptHeader(0, w)
      BY <2>3
    <3>2. 0 \in 0..Len(frames) /\ w \in Int /\ w >= 0
      BY <1>4
    <3> QED
      BY <1>5, <2>3, <3>1, <3>2 DEF RxInv, RxTypeOK
  <2> QED
    BY <2>1, <2>2, <2>3 DEF ReadRest
<1>7. RxTypeOK'
  BY <1>1, <1>3, <1>6 DEF RxInv, RxTypeOK, Reads, Byte
<1>8. InLine' /\ Dispatched'
  BY <1>1, <1>3, ReadsInLine, ReadsDispatched
<1> QED
  BY <1>7, <1>8 DEF RxInv

\* and the CRC16 are taken without a dispatch.
LEMMA ReadCrcStep == ASSUME RxInv, ReadCrc PROVE RxInv'
<1> USE DEF CrcSize
<1> DEFINE r == Taken(2)
           k == r[1][1]
<1>1. /\ at' = "payload" /\ Len(line) >= 2 /\ Take(2) /\ frames' = frames
      /\ UNCHANGED <<header, want, delivered, excused, faults>>
  BY DEF ReadCrc
<1>2. Len(line) \in Nat
  BY LenProperties DEF RxInv, RxTypeOK
<1>3. 2 \in 0..Len(line) /\ Reads(2) /\ Len(r) = 2 /\ r \in Seq(Byte)
  <2>1. 2 \in Nat /\ 2 <= Len(line) /\ 2 \in 0..Len(line)
    BY <1>1, <1>2
  <2> QED
    BY <1>1, <2>1, TakeReads, Zenon
<1>4. crcOf' \in 0..Len(frames)
  <2>1. r[1] \in Byte
    BY <1>3
  <2>2. k \in 0..Len(frames)
    BY <2>1 DEF Byte, Noise
  <2>3. crcOf' \in {k, 0}
    BY DEF ReadCrc
  <2> HIDE DEF k
  <2> QED
    BY <2>2, <2>3
<1>5. RxTypeOK'
  BY <1>1, <1>3, <1>4 DEF RxInv, RxTypeOK, Reads, Byte
<1>6. InLine' /\ Dispatched'
  BY <1>1, <1>3, ReadsInLine, ReadsDispatched
<1> QED
  BY <1>5, <1>6 DEF RxInv

\* A payload that passes its CRC is of a frame later than those dispatched
\* before, and earlier than all that is still on the line.
LEMMA WholePayload ==
  ASSUME RxInv, NEW k \in 0..Len(frames), NEW data, NEW w \in 0..Len(line),
         Reads(w), Len(data) = w, \A j \in 1..w : data[j] = line[j], CrcMatches(k, data)
  PROVE  /\ k # 0 /\ data # <<>> /\ data[1][1] = k /\ data = Payload(k)
         /\ \A i \in 1..Len(delivered) : Source(i) < k
         /\ \A j \in 1..Len(line') : line'[j][1] # 0 => k < line'[j][1]
<1> DEFINE z == Size(frames[k])
<1>1. k \in 1..Len(frames) /\ data = Payload(k) /\ k # 0
  BY DEF CrcMatches
<1>2. frames[k] \in Contents
  BY <1>1 DEF RxInv, RxTypeOK
<1>3. z \in Nat /\ z >= Overhead + 1 /\ Overhead \in Nat
  BY <1>2, ReceiverAssumption DEF Size, Overhead, HeaderSize, CrcSize
<1>4. w = z - Overhead /\ \A j \in 1..w : data[j] = <<k, Overhead + j>>
  <2>1. Payload(k) = [j \in 1..(z - (Overhead + 1) + 1) |-> <<k, Overhead + 1 + j - 1>>]
    BY DEF Payload, Part
  <2> HIDE DEF z
  <2>2. Payload(k) = [j \in 1..(z - Overhead) |-> <<k, Overhead + j>>] /\ z - Overhead \in Nat
    BY <1>3, <2>1
  <2> QED
    BY <1>1, <2>2
<1> HIDE DEF z
<1>5. 1 \in 1..w /\ w \in 1..w /\ w \in 1..Len(line) /\ 1 \in 1..Len(line) /\ Len(line) \in Nat
  BY <1>3, <1>4, LenProperties DEF RxInv, RxTypeOK
<1>6. data # <<>> /\ data[1] = <<k, Overhead + 1>> /\ line[1][1] = k
  BY <1>4, <1>5
<1>7. line[w] = <<k, z>>
  BY <1>3, <1>4, <1>5
<1>8. \A i \in 1..Len(delivered) : Source(i) < k
  BY <1>1, <1>5, <1>6 DEF RxInv, Dispatched
<1>9. ASSUME NEW j \in 1..Len(line'), line'[j][1] # 0 PROVE k < line'[j][1]
  <2>1. line'[j] = line[w + j] /\ w + j \in 1..Len(line) /\ w < w + j
    BY <1>5 DEF Reads
  <2>2. Before(line[w], line[w + j]) /\ FromFrame(line[w + j], frames)
    BY <1>5, <2>1 DEF RxInv, InLine
  <2>3. k < line[w + j][1] \/ (k = line[w + j][1] /\ z < line[w + j][2])
    BY <1>1, <1>7, <1>9, <2>1, <2>2 DEF Before
  <2>4. k = line[w + j][1] => line[w + j][2] \in 1..z
    BY <1>9, <2>1, <2>2 DEF FromFrame, z
  <2> QED
    BY <1>3, <2>1, <2>3, <2>4
<1> QED
  BY <1>1, <1>6, <1>8, <1>9

\* A payload is dispatched when it is whole.
LEMMA ReadPayloadStep == ASSUME RxInv, ReadPayload PROVE RxInv'
<1> DEFINE data == Taken(want)
           new == [cmd |-> header, data |-> data]
<1>1. /\ at' = "head" /\ Len(line) >= want /\ Take(want) /\ frames' = frames
      /\ UNCHANGED <<header, want, crcOf, excused, faults>>
  BY DEF ReadPayload
<1>2. Len(line) \in Nat /\ want \in 0..Len(line) /\ want \in Nat
  BY <1>1, LenProperties DEF RxInv, RxTypeOK
<1>3. /\ Reads(want) /\ Len(data) = want /\ data \in Seq(Byte)
      /\ \A j \in 1..want : data[j] = line[j]
  <2>1. want <= Len(line)
    BY <1>2
  <2> QED
    BY <1>1, <1>2, <2>1, TakeReads, Zenon
<1>4. InLine'
  BY <1>2, <1>3, ReadsInLine
<1>5. CASE ~CrcMatches(crcOf, data)
  <2>1. delivered' = delivered
    BY <1>5 DEF ReadPayload
  <2>2. RxTypeOK'
    BY <1>1, <1>3, <2>1 DEF RxInv, RxTypeOK, Reads, Byte
  <2>3. Dispatched'
    BY <1>2, <1>3, <2>1, ReadsDispatched
  <2> QED
    BY <1>4, <2>2, <2>3 DEF RxInv
<1>6. CASE CrcMatches(crcOf, data)
  <2> DEFINE D == [cmd : 0..Len(frames), data : Seq(Byte)]
             m == Len(delivered) + 1
  <2>1. delivered' = Append(delivered, new)
    BY <1>6 DEF ReadPayload
  <2>2. new \in D /\ delivered \in Seq(D) /\ Len(delivered) \in Nat
    BY <1>3, LenProperties DEF RxInv, RxTypeOK
  <2> HIDE DEF D, data, new
  <2>3. /\ delivered' \in Seq(D) /\ Len(delivered') = m
        /\ \A i \in 1..Len(delivered) : delivered'[i] = delivered[i]
        /\ delivered'[m] = new
    BY <2>1, <2>2, AppendProperties
  <2>4. RxTypeOK'
    BY <1>1, <1>3, <2>3 DEF RxInv, RxTypeOK, Reads, Byte, D
  <2>5. crcOf \in 0..Len(frames)
    BY DEF RxInv, RxTypeOK
  <2>6. /\ crcOf # 0 /\ data # <<>> /\ data[1][1] = crcOf /\ data = Payload(crcOf)
        /\ \A i \in 1..Len(delivered) : Source(i) < crcOf
        /\ \A j \in 1..Len(line') : line'[j][1] # 0 => crcOf < line'[j][1]
    BY <1>2, <1>3, <1>6, <2>5, WholePayload, ReceiverAssumption
  <2>7. delivered'[m].data = data /\ crcOf \in 1..Len(frames)
    BY <2>3, <2>5, <2>6 DEF new
  <2>8. /\ \A i \in 1..Len(delivered) :
             Source(i)' = Source(i) /\ delivered'[i].data = delivered[i].data
        /\ \A k : Payload(k)' = Payload(k)
    BY <1>1, <2>3 DEF Source, Payload
  <2>9. ASSUME NEW i \in 1..m
        PROVE  /\ delivered'[i].data # <<>>
               /\ Source(i)' \in 1..Len(frames') /\ delivered'[i].data = Payload(Source(i))'
               /\ \A j \in 1..i - 1 : Source(j)' < Source(i)'
               /\ \A j \in 1..Len(line') : line'[j][1] # 0 => Source(i)' < line'[j][1]
    <3>1. CASE i = m
      <4>1. \A j \in 1..i - 1 : j \in 1..Len(delivered)
        BY <2>2, <3>1
      <4>2. Source(i)' = crcOf
        BY <2>6, <2>7, <3>1 DEF Source
      <4>3. Payload(Source(i))' = Payload(crcOf)
        BY <1>1, <4>2 DEF Payload
      <4>4. \A j \in 1..i - 1 : Source(j)' < Source(i)'
        BY <2>6, <2>8, <4>1, <4>2
      <4>5. delivered'[i].data = data
        BY <2>7, <3>1
      <4> QED
        BY <1>1, <2>6, <2>7, <4>2, <4>3, <4>4, <4>5
    <3>2. CASE i # m
      <4>1. i \in 1..Len(delivered) /\ \A j \in 1..i - 1 : j \in 1..Len(delivered)
        BY <2>2, <3>2
      <4>2. /\ delivered[i].data # <<>>
            /\ Source(i) \in 1..Len(frames) /\ delivered[i].data = Payload(Source(i))
            /\ \A j \in 1..i - 1 : Source(j) < Source(i)
        BY <4>1 DEF RxInv, Dispatched
      <4>3. Payload(Source(i))' = Payload(Source(i))
        BY <1>1, <2>8, <4>1 DEF Payload
      <4>4. Source(i) < crcOf
        BY <2>6, <4>1
      <4>5. \A j \in 1..Len(line') : line'[j][1] # 0 => Source(i) < line'[j][1]
        <5> SUFFICES ASSUME NEW j \in 1..Len(line'), line'[j][1] # 0
                     PROVE  Source(i) < line'[j][1]
          OBVIOUS
        <5>1. want + j \in 1..Len(line) /\ j \in 1..Len(line) - want
          BY <1>2, <1>3 DEF Reads
        <5>2. line'[j] = line[want + j]
          BY <1>3, <5>1 DEF Reads
        <5> QED
          BY <4>1, <5>1, <5>2 DEF RxInv, Dispatched
      <4> QED
        BY <1>1, <2>8, <4>1, <4>2, <4>3, <4>5
    <3> QED
      BY <3>1, <3>2
  <2>10. Dispatched'
    BY <2>3, <2>9 DEF Dispatched
  <2> QED
    BY <1>4, <2>4, <2>10 DEF RxInv
<1> QED
  BY <1>5, <1>6

\* What a short read or a reconnection throws away
LEMMA ClearStep ==
  ASSUME RxInv, at' \in {"head", "ended"}, line' = <<>>,
         excused' = excused \cup {line[i][1] : i \in 1..Len(line)},
         UNCHANGED <<frames, header, want, crcOf, delivered, faults>>
  PROVE  RxInv'
<1>1. line \in Seq(Byte) /\ Len(line) \in Nat
  BY LenProperties DEF RxInv, RxTypeOK
<1>2. {line[i][1] : i \in 1..Len(line)} \subseteq 0..Len(frames)
  <2>1. ASSUME NEW i \in 1..Len(line) PROVE line[i][1] \in 0..Len(frames)
    <3>1. line[i] \in Byte
      BY <1>1
    <3> QED
      BY <3>1 DEF Byte, Noise
  <2> QED
    BY <2>1
<1>3. RxTypeOK'
  <2>1. Byte' = Byte /\ line' \in Seq(Byte)
    BY DEF Byte
  <2>2. excused' \subseteq 0..Len(frames)
    BY <1>2 DEF RxInv, RxTypeOK
  <2> QED
    BY <2>1, <2>2 DEF RxInv, RxTypeOK
<1>4. Len(line) \in 0..Len(line) /\ Reads(Len(line))
  BY <1>1 DEF Reads
<1> QED
  BY <1>3, <1>4, ReadsInLine, ReadsDispatched DEF RxInv

\* Nothing has been sent at first.
LEMMA ReceiverInit == ASSUME RxInit PROVE RxInv
<1>1. frames = <<>> /\ line = <<>> /\ delivered = <<>> /\ faults = 0 /\ excused = {}
      /\ at = "head" /\ header = 0 /\ want = 0 /\ crcOf = 0
  BY DEF RxInit
<1>2. RxTypeOK
  BY <1>1, ReceiverAssumption DEF RxTypeOK
<1> QED
  BY <1>1, <1>2 DEF RxInv, InLine, Dispatched

\* Every step of the board, the line and the receiver
LEMMA ReceiverNext ==
  ASSUME RxInv, [RxNext]_rxVars
  PROVE  RxInv'
<1>1. ASSUME NEW c \in Contents, Send(c) PROVE RxInv'
  BY <1>1, SendStep
<1>2. CASE ShortRead
  BY <1>2, ClearStep DEF ShortRead, MarkError
<1>3. CASE Reopen
  BY <1>3, ClearStep DEF Reopen
<1>4. CASE UNCHANGED rxVars
  <2>1. RxTypeOK'
    BY <1>4 DEF RxInv, RxTypeOK, Byte, rxVars, receiver
  <2>2. 0 \in 0..Len(line) /\ Reads(0)
    BY <1>4, LenProperties DEF RxInv, RxTypeOK, Reads, rxVars
  <2> QED
    BY <1>4, <2>1, <2>2, ReadsInLine, ReadsDispatched DEF RxInv, rxVars, receiver
<1> QED
  BY <1>1, <1>2, <1>3, <1>4, ReadHeadStep, ReadRestStep, ReadCrcStep, ReadPayloadStep
  DEF RxNext

\* However the line is damaged, the bytes of a frame stay in their order, and
\* what was dispatched came before the rest of the line.
THEOREM Receiving == RxSpec => []RxInv
<1>1. RxInit => RxInv
  BY ReceiverInit
<1>2. RxInv /\ [RxNext]_rxVars => RxInv'
  BY ReceiverNext
<1> QED
  BY <1>1, <1>2, PTL DEF RxSpec

\* What receive_loop dispatches is the whole payload of a frame that was sent,
\* in the order of sending and none twice, and fits frame_data.
THEOREM OnlyWholeFrames == RxSpec => []WholeAndInOrder
<1>1. RxInv => want <= MaxLen
  BY ReceiverAssumption DEF RxInv, RxTypeOK
<1>2. RxInv => WholeAndInOrder
  BY <1>1 DEF RxInv, Dispatched, WholeAndInOrder
<1> QED
  BY <1>2, Receiving, PTL

-----------------------------------------------------------------------------
(* One damage does not exchange commands.                                  *)

\* Next to a byte of frame k on the line are the bytes of k next to it.
Intact(k) ==
  \A i \in 1..Len(line) : line[i][1] = k =>
    /\ line[i][2] > 1 /\ i > 1 => line[i - 1] = <<k, line[i][2] - 1>>
    /\ line[i][2] < Size(frames[k]) => i < Len(line) /\ line[i + 1] = <<k, line[i][2] + 1>>

\* All frames but d are intact.
AllBut(d) == \A k \in 1..Len(frames) : k # d => Intact(k)

\* The bytes before and after the byte x of an intact frame.
LEMMA Neighbours ==
  ASSUME NEW k, Intact(k), NEW i \in 1..Len(line), NEW x \in Int, line[i] = <<k, x>>
  PROVE  /\ x > 1 /\ i > 1 => line[i - 1] = <<k, x - 1>>
         /\ x < Size(frames[k]) => i < Len(line) /\ line[i + 1] = <<k, x + 1>>
<1>1. line[i][1] = k /\ line[i][2] = x
  OBVIOUS
<1> QED
  BY <1>1 DEF Intact

\* One damage is of one frame at most.
OneDamaged ==
  faults < 2 => \E d \in 0..Len(frames) : (faults = 0 => d = 0) /\ AllBut(d)

\* A CRC16 that comes after a header is of the frame of the header. (A frame
\* that begins with it would be a second damage.)
HeaderThenCrc ==
  at = "crc" /\ faults < 2 =>
    /\ faults = 0 => line # <<>>
    /\ line # <<>> /\ line[1][1] # 0 /\ line[1][2] = 6 => line[1][1] = header

CrcOfHeader == at = "payload" /\ faults < 2 /\ crcOf # 0 => crcOf = header

CmdInv == RxInv /\ OneDamaged /\ HeaderThenCrc /\ CrcOfHeader /\ CommandOfItsPayload

\* A read keeps what is left of each frame together.
LEMMA ReadsIntact ==
  ASSUME RxInv, NEW w \in 0..Len(line), Reads(w), NEW k, Intact(k)
  PROVE  Intact(k)'
<1>1. Len(line) \in Nat
  BY Counts
<1> SUFFICES ASSUME NEW i \in 1..Len(line'), line'[i][1] = k
             PROVE  /\ line'[i][2] > 1 /\ i > 1 => line'[i - 1] = <<k, line'[i][2] - 1>>
                    /\ line'[i][2] < Size(frames[k]) =>
                         i < Len(line') /\ line'[i + 1] = <<k, line'[i][2] + 1>>
  BY DEF Intact, Reads
<1>. PICK j \in 1..Len(line) : j = w + i
  BY <1>1 DEF Reads
<1>2. line'[i] = line[j] /\ Len(line') = Len(line) - w
  BY <1>1 DEF Reads
<1>3. /\ line[j][2] > 1 /\ j > 1 => line[j - 1] = <<k, line[j][2] - 1>>
      /\ line[j][2] < Size(frames[k]) => j < Len(line) /\ line[j + 1] = <<k, line[j][2] + 1>>
  BY <1>2 DEF Intact
<1>4. i > 1 => line'[i - 1] = line[j - 1] /\ j > 1
  <2>1. i > 1 => i - 1 \in 1..Len(line) - w /\ w + (i - 1) = j - 1 /\ j > 1
    BY <1>1, <1>2
  <2> QED
    BY <2>1 DEF Reads
<1>5. j < Len(line) => i < Len(line') /\ line'[i + 1] = line[j + 1]
  <2>1. j < Len(line) => i + 1 \in 1..Len(line) - w /\ w + (i + 1) = j + 1 /\ i < Len(line')
    BY <1>1, <1>2
  <2> QED
    BY <2>1 DEF Reads
<1> QED
  BY <1>2, <1>3, <1>4, <1>5

\* So at most one frame is damaged after it.
LEMMA ReadsOneDamaged ==
  ASSUME CmdInv, NEW w \in 0..Len(line), Reads(w), faults' \in {faults, faults + 1}
  PROVE  OneDamaged'
<1>1. faults \in Nat /\ frames' = frames
  BY ReceiverAssumption DEF CmdInv, RxInv, RxTypeOK, Reads
<1> SUFFICES ASSUME faults' < 2
             PROVE  \E d \in 0..Len(frames) : (faults' = 0 => d = 0) /\ AllBut(d)'
  BY <1>1 DEF OneDamaged
<1>2. PICK d \in 0..Len(frames) : (faults = 0 => d = 0) /\ AllBut(d)
  BY <1>1 DEF CmdInv, OneDamaged
<1>3. AllBut(d)'
  BY <1>1, <1>2, ReadsIntact DEF AllBut, CmdInv
<1> QED
  BY <1>1, <1>2, <1>3

\* A frame that is sent whole or damaged leaves the others as they are.
LEMMA SendIntact ==
  ASSUME RxInv, NEW c \in Contents, NEW d, Appends(c, d),
         NEW k \in 1..Len(frames), Intact(k)
  PROVE  Intact(k)'
<1> DEFINE q == Len(frames) + 1
<1>1. Len(line) \in Nat /\ Len(frames) \in Nat
  BY Counts
<1>2. /\ frames'[k] = frames[k] /\ Len(line') = Len(line) + Len(d) /\ Len(d) \in Nat
      /\ \A i \in 1..Len(line) : line'[i] = line[i]
  BY DEF Appends
<1>3. ASSUME NEW i \in 1..Len(line'), i > Len(line) PROVE line'[i][1] # k
  <2>1. /\ i - Len(line) \in 1..Len(d) /\ line'[i] = d[i - Len(line)]
        /\ d \in Seq(Bits(q, Size(c)))
    BY <1>3 DEF Appends, Piece
  <2>2. d[i - Len(line)] \in Bits(q, Size(c))
    BY <2>1, ElementOfSeq
  <2>3. q # k /\ k # 0
    BY <1>1
  <2> QED
    BY <2>1, <2>2, <2>3 DEF Bits, Noise
<1> SUFFICES ASSUME NEW i \in 1..Len(line'), line'[i][1] = k
             PROVE  /\ line'[i][2] > 1 /\ i > 1 => line'[i - 1] = <<k, line'[i][2] - 1>>
                    /\ line'[i][2] < Size(frames[k]) =>
                         i < Len(line') /\ line'[i + 1] = <<k, line'[i][2] + 1>>
  BY <1>2 DEF Intact
<1>4. i \in 1..Len(line) /\ line'[i] = line[i]
  BY <1>1, <1>2, <1>3
<1>5. /\ line[i][2] > 1 /\ i > 1 => line[i - 1] = <<k, line[i][2] - 1>>
      /\ line[i][2] < Size(frames[k]) => i < Len(line) /\ line[i + 1] = <<k, line[i][2] + 1>>
  BY <1>4 DEF Intact
<1>6. /\ i > 1 => i - 1 \in 1..Len(line) /\ line'[i - 1] = line[i - 1]
      /\ i < Len(line) =>
           i + 1 \in 1..Len(line) /\ line'[i + 1] = line[i + 1] /\ i < Len(line')
  BY <1>1, <1>2, <1>4
<1> QED
  BY <1>4, <1>5, <1>6

\* A frame that is sent whole is intact.
LEMMA NewIntact ==
  ASSUME RxInv, NEW c \in Contents, NEW q, q = Len(frames) + 1, Appends(c, Bytes(q, c))
  PROVE  Intact(q)'
<1> DEFINE z == Size(c)
           d == Bytes(q, c)
<1>1. Len(line) \in Nat /\ Len(frames) \in Nat /\ z \in Nat /\ q \in Nat \ {0}
  BY Counts
<1>2. Len(d) = z /\ \A i \in 1..z : d[i] = <<q, i>>
  BY <1>1 DEF Bytes
<1>3. /\ Len(line') = Len(line) + z /\ frames'[q] = c
      /\ \A i \in 1..Len(line) : line'[i] = line[i]
      /\ \A i \in 1..Len(line') :
           i > Len(line) => i - Len(line) \in 1..z /\ line'[i] = d[i - Len(line)]
  BY <1>2 DEF Appends
<1> HIDE DEF d, z
<1>4. ASSUME NEW i \in 1..Len(line'), i > Len(line)
      PROVE  i - Len(line) \in 1..z /\ line'[i] = <<q, i - Len(line)>>
  BY <1>2, <1>3, <1>4
<1>5. ASSUME NEW i \in 1..Len(line) PROVE line'[i][1] # q
  <2>1. line'[i] = line[i] /\ FromFrame(line[i], frames)
    BY <1>3 DEF RxInv, InLine
  <2> QED
    BY <1>1, <2>1 DEF FromFrame
<1> SUFFICES ASSUME NEW i \in 1..Len(line'), line'[i][1] = q
             PROVE  /\ line'[i][2] > 1 /\ i > 1 => line'[i - 1] = <<q, line'[i][2] - 1>>
                    /\ line'[i][2] < z =>
                         i < Len(line') /\ line'[i + 1] = <<q, line'[i][2] + 1>>
  BY <1>3 DEF Intact, z
<1>6. i > Len(line)
  BY <1>1, <1>3, <1>5
<1>7. i - Len(line) \in 1..z /\ line'[i] = <<q, i - Len(line)>>
  BY <1>4, <1>6
<1>8. i - Len(line) > 1 => line'[i - 1] = <<q, i - Len(line) - 1>>
  <2> SUFFICES ASSUME i - Len(line) > 1 PROVE line'[i - 1] = <<q, i - Len(line) - 1>>
    OBVIOUS
  <2>1. i - 1 \in 1..Len(line') /\ i - 1 > Len(line) /\ i - 1 - Len(line) = i - Len(line) - 1
    BY <1>1, <1>3
  <2> QED
    BY <1>4, <2>1
<1>9. i - Len(line) < z => i < Len(line') /\ line'[i + 1] = <<q, i - Len(line) + 1>>
  <2> SUFFICES ASSUME i - Len(line) < z
               PROVE  i < Len(line') /\ line'[i + 1] = <<q, i - Len(line) + 1>>
    OBVIOUS
  <2>1. /\ i + 1 \in 1..Len(line') /\ i + 1 > Len(line) /\ i < Len(line')
        /\ i + 1 - Len(line) = i - Len(line) + 1
    BY <1>1, <1>3, <1>6
  <2> QED
    BY <1>4, <2>1
<1> QED
  BY <1>7, <1>8, <1>9

\* The payloads that have been dispatched keep their commands.
LEMMA KeepsCommands ==
  ASSUME CommandOfItsPayload, delivered' = delivered, faults \in Nat,
         faults' \in {faults, faults + 1}
  PROVE  CommandOfItsPayload'
  BY DEF CommandOfItsPayload, Source

\* A frame that is put on the line, damaged or not: at most one is damaged.
LEMMA CmdSend == ASSUME CmdInv, NEW c \in Contents, Send(c) PROVE CmdInv'
<1>1. /\ RxInv /\ RxInv' /\ faults \in Nat /\ Len(frames) \in Nat /\ Len(line) \in Nat
      /\ at' = at /\ header' = header /\ crcOf' = crcOf /\ delivered' = delivered
  <2>1. RxInv
    BY DEF CmdInv
  <2>2. RxInv' /\ Len(frames) \in Nat /\ Len(line) \in Nat
    BY <2>1, SendStep, Counts
  <2>3. faults \in Nat
    BY <2>1, ReceiverAssumption DEF RxInv, RxTypeOK
  <2> QED
    BY <2>1, <2>2, <2>3 DEF Send, receiver
<1>. PICK q : q = Len(frames) + 1
  OBVIOUS
<1>2. PICK d : Appends(c, d)
  BY <1>1, SendAppends
<1>3. /\ faults' \in {faults, faults + 1}
      /\ faults' = faults => d = Bytes(q, c)
      /\ Len(frames') = q /\ Len(line') = Len(line) + Len(d) /\ Len(d) \in Nat
      /\ \A i \in 1..Len(line) : line'[i] = line[i]
  BY <1>1, <1>2 DEF Appends
<1>4. OneDamaged'
  <2> SUFFICES ASSUME faults' < 2
               PROVE  \E e \in 0..q : (faults' = 0 => e = 0) /\ AllBut(e)'
    BY <1>3 DEF OneDamaged
  <2>0. faults < 2
    BY <1>1, <1>3
  <2>1. PICK e \in 0..Len(frames) : (faults = 0 => e = 0) /\ AllBut(e)
    BY <2>0 DEF CmdInv, OneDamaged
  <2>2. ASSUME NEW k \in 1..Len(frames), Intact(k) PROVE Intact(k)'
    BY <1>1, <1>2, <2>2, SendIntact
  <2>3. CASE faults' = faults
    <3>1. Intact(q)'
      BY <1>1, <1>2, <1>3, <2>3, NewIntact
    <3>2. AllBut(e)'
      BY <1>1, <1>3, <2>1, <2>2, <3>1 DEF AllBut
    <3>3. e \in 0..q
      BY <1>1
    <3> QED
      BY <2>1, <2>3, <3>2, <3>3
  <2>4. CASE faults' = faults + 1
    <3>1. e = 0 /\ faults' # 0
      BY <1>1, <2>1, <2>4
    <3>2. AllBut(q)'
      BY <1>1, <1>3, <2>1, <2>2, <3>1 DEF AllBut
    <3>3. q \in 0..q
      BY <1>1
    <3> QED
      BY <3>1, <3>2, <3>3
  <2> QED
    BY <1>3, <2>3, <2>4
<1>5. HeaderThenCrc'
  <2> SUFFICES ASSUME at = "crc", faults' < 2
               PROVE  /\ faults' = 0 => line' # <<>>
                      /\ line' # <<>> /\ line'[1][1] # 0 /\ line'[1][2] = 6 =>
                           line'[1][1] = header
    BY <1>1 DEF HeaderThenCrc
  <2>1. /\ faults = 0 => line # <<>>
        /\ line # <<>> /\ line[1][1] # 0 /\ line[1][2] = 6 => line[1][1] = header
    BY <1>1, <1>3 DEF CmdInv, HeaderThenCrc
  <2>2. CASE line # <<>>
    <3>1. 1 \in 1..Len(line) /\ Len(line') >= 1
      BY <1>1, <1>3, <2>2, Counts, EmptySeq
    <3>2. line'[1] = line[1] /\ line' # <<>>
      BY <1>3, <3>1
    <3> QED
      BY <2>1, <2>2, <3>2
  <2>3. CASE line = <<>>
    <3>1. faults' = faults /\ faults' # 0
      BY <1>1, <1>3, <2>1, <2>3
    <3>2. d = Bytes(q, c)
      BY <1>3, <3>1
    <3>3. 1 \in 1..Size(c) /\ d[1] = <<q, 1>> /\ Len(d) = Size(c)
      BY <1>1, <3>2, Counts DEF Bytes
    <3>4. line' # <<>> /\ line'[1] = <<q, 1>>
      BY <1>1, <1>2, <1>3, <2>3, <3>3, EmptySeq DEF Appends
    <3> QED
      BY <3>1, <3>4
  <2> QED
    BY <2>2, <2>3
<1>6. CrcOfHeader'
  BY <1>1, <1>3 DEF CmdInv, CrcOfHeader
<1>7. CommandOfItsPayload'
  BY <1>1, <1>3, KeepsCommands DEF CmdInv
<1> QED
  BY <1>1, <1>4, <1>5, <1>6, <1>7 DEF CmdInv

\* A step that leaves the receiver at no CRC16 and no payload.
LEMMA CmdQuiet ==
  ASSUME CmdInv, RxInv', NEW w \in 0..Len(line), Reads(w), faults' \in {faults, faults + 1},
         delivered' = delivered, at' \notin {"crc", "payload"}
  PROVE  CmdInv'
<1>1. faults \in Nat
  BY ReceiverAssumption DEF CmdInv, RxInv, RxTypeOK
<1>2. OneDamaged' /\ CommandOfItsPayload'
  BY <1>1, ReadsOneDamaged, KeepsCommands DEF CmdInv
<1> QED
  BY <1>2 DEF CmdInv, HeaderThenCrc, CrcOfHeader

\* A header that is accepted and not by accident was followed by its CRC16, and
\* one that is accepted by accident by none.
LEMMA CmdReadRest == ASSUME CmdInv, ReadRest PROVE CmdInv'
<1> USE DEF HeaderSize
<1> DEFINE r == Taken(4)
           k == r[1][1]
<1>1. /\ at = "rest" /\ Len(line) >= 4 /\ Take(4) /\ frames' = frames
      /\ crcOf' = crcOf /\ delivered' = delivered
      /\ RxInv /\ RxInv' /\ faults \in Nat
  <2>1. RxInv
    BY DEF CmdInv
  <2>2. RxInv' /\ faults \in Nat
    BY <2>1, ReadRestStep, ReceiverAssumption DEF RxInv, RxTypeOK
  <2> QED
    BY <2>1, <2>2 DEF ReadRest
<1>2. /\ Len(line) \in Nat /\ Len(frames) \in Nat
      /\ \A i \in 1..Len(frames) : Size(frames[i]) \in Nat /\ Size(frames[i]) > 7
  BY <1>1, Counts
<1>3. /\ 4 \in 0..Len(line) /\ Reads(4) /\ Len(r) = 4 /\ r \in Seq(Byte)
      /\ \A j \in 1..4 : r[j] = line[j]
  <2>1. 4 \in Nat /\ 4 <= Len(line) /\ 4 \in 0..Len(line)
    BY <1>1, <1>2
  <2> QED
    BY <1>1, <2>1, TakeReads, Zenon
<1> HIDE DEF r
<1>4. ASSUME NEW i \in 1..Len(line), line[i][1] # 0 PROVE line[i][1] \in 1..Len(frames)
  BY <1>1, <1>4 DEF RxInv, InLine, FromFrame
<1>5. line' # <<>> => line'[1] = line[5] /\ 5 \in 1..Len(line)
  <2> SUFFICES ASSUME line' # <<>> PROVE line'[1] = line[5] /\ 5 \in 1..Len(line)
    OBVIOUS
  <2>1. line' \in Seq(Byte) /\ Len(line') = Len(line) - 4 /\ Len(line') # 0
    BY <1>3, EmptySeq DEF Reads
  <2>2. 1 \in 1..Len(line) - 4 /\ 4 + 1 = 5
    BY <1>2, <1>3, <2>1
  <2> QED
    BY <1>2, <1>3, <2>1, <2>2 DEF Reads
<1>6. line \in Seq(Byte) /\ \A i \in 1..Len(line) : line[i] = <<line[i][1], line[i][2]>>
  <2>1. line \in Seq(Byte)
    BY <1>1, Counts
  <2> QED
    BY <2>1 DEF Byte, Noise
<1>7. CASE HeaderMatches(k, r) /\ header' = k /\ at' = "crc" /\ faults' = faults
  <2>1. line[4] = <<k, 5>> /\ k # 0 /\ 4 \in 1..Len(line)
    <3>1. r[4] = <<k, 5>> /\ k # 0
      BY <1>7 DEF HeaderMatches, Part
    <3> HIDE DEF k
    <3> QED
      BY <1>2, <1>3, <3>1
  <2> HIDE DEF k
  <2>2. k \in 1..Len(frames)
    BY <1>4, <2>1
  <2>3. HeaderThenCrc'
    <3> SUFFICES ASSUME faults < 2
                 PROVE  /\ faults = 0 => line' # <<>>
                        /\ line' # <<>> /\ line'[1][1] # 0 /\ line'[1][2] = 6 =>
                             line'[1][1] = k
      BY <1>7 DEF HeaderThenCrc
    <3>1. PICK d \in 0..Len(frames) : (faults = 0 => d = 0) /\ AllBut(d)
      BY DEF CmdInv, OneDamaged
    <3>2. k # d => 4 < Len(line) /\ line[5] = <<k, 6>>
      <4> SUFFICES ASSUME k # d PROVE 4 < Len(line) /\ line[5] = <<k, 6>>
        OBVIOUS
      <4>1. Intact(k)
        BY <2>2, <3>1 DEF AllBut
      <4>2. 5 \in Int /\ 5 < Size(frames[k]) /\ 4 + 1 = 5 /\ 5 + 1 = 6
        BY <1>2, <2>2
      <4> HIDE DEF Intact
      <4>3. 4 < Len(line) /\ line[4 + 1] = <<k, 5 + 1>>
        BY <2>1, <4>1, <4>2, Neighbours
      <4> QED
        BY <4>2, <4>3
    <3>3. faults = 0 => line' # <<>>
      BY <1>2, <1>3, <2>2, <3>1, <3>2 DEF Reads
    <3>4. ASSUME line' # <<>>, line'[1][1] # 0, line'[1][2] = 6 PROVE line'[1][1] = k
      <4>1. line'[1] = line[5] /\ 5 \in 1..Len(line) /\ line[5][1] \in 1..Len(frames)
        BY <1>4, <1>5, <3>4
      <4>2. CASE line[5][1] # d
        <5>1. Intact(line[5][1]) /\ line[5][2] = 6
          BY <3>1, <3>4, <4>1, <4>2 DEF AllBut
        <5>2. line[4] = <<line[5][1], 5>>
          BY <4>1, <5>1 DEF Intact
        <5> QED
          BY <2>1, <4>1, <5>2
      <4>3. CASE line[5][1] = d
        BY <3>2, <4>1, <4>3
      <4> QED
        BY <4>2, <4>3
    <3> QED
      BY <3>3, <3>4
  <2>4. OneDamaged' /\ CommandOfItsPayload'
    BY <1>1, <1>3, <1>7, ReadsOneDamaged, KeepsCommands DEF CmdInv
  <2> QED
    BY <1>1, <1>7, <2>3, <2>4 DEF CmdInv, CrcOfHeader
<1>8. CASE ~HeaderMatches(k, r) /\ header' = 0 /\ at' = "crc" /\ faults' = faults + 1
  <2>1. HeaderThenCrc'
    <3> SUFFICES ASSUME faults + 1 < 2, line' # <<>>, line'[1][1] # 0, line'[1][2] = 6
                 PROVE  FALSE
      BY <1>1, <1>8 DEF HeaderThenCrc
    <3>1. faults = 0 /\ AllBut(0)
      BY <1>1 DEF CmdInv, OneDamaged
    <3>. PICK q : q = line[5][1]
      OBVIOUS
    <3>2. line[5] = <<q, 6>> /\ q \in 1..Len(frames) /\ 5 \in 1..Len(line)
      BY <1>4, <1>5, <1>6
    <3>3. Intact(q)
      BY <3>1, <3>2 DEF AllBut
    <3>4. /\ 4 \in 1..Len(line) /\ 3 \in 1..Len(line)
          /\ 2 \in 1..Len(line) /\ 1 \in 1..Len(line)
      BY <1>2, <3>2
    <3>5. ASSUME NEW i \in 2..5, line[i] = <<q, i + 1>> PROVE line[i - 1] = <<q, i>>
      <4>1. i \in 1..Len(line) /\ i > 1 /\ i + 1 \in Int /\ i + 1 > 1 /\ i + 1 - 1 = i
        BY <1>2, <3>2
      <4> QED
        BY <3>3, <3>5, <4>1, Neighbours
    <3>6. line[4] = <<q, 5>>
      <4>1. 5 \in 2..5 /\ line[5] = <<q, 5 + 1>> /\ 5 - 1 = 4
        BY <3>2
      <4>2. line[5 - 1] = <<q, 5>>
        BY <3>5, <4>1
      <4> QED
        BY <4>1, <4>2
    <3>7. line[3] = <<q, 4>>
      BY <3>5, <3>6
    <3>8. line[2] = <<q, 3>> /\ line[1] = <<q, 2>>
      <4>1. line[2] = <<q, 3>>
        BY <3>5, <3>7
      <4> QED
        BY <3>5, <4>1
    <3>9. ASSUME NEW j \in 1..4 PROVE r[j] = <<q, 2 + j - 1>>
      BY <1>3, <3>6, <3>7, <3>8
    <3>10. k = q
      BY <3>9
    <3>11. r = [j \in 1..4 |-> r[j]]
      BY <1>3
    <3>12. r = [j \in 1..4 |-> <<q, 2 + j - 1>>]
      BY <3>9, <3>11
    <3>13. Part(q, 2, 5) = [j \in 1..4 |-> <<q, 2 + j - 1>>]
      BY DEF Part
    <3> QED
      BY <1>2, <1>8, <3>2, <3>10, <3>12, <3>13 DEF HeaderMatches
  <2>2. OneDamaged' /\ CommandOfItsPayload'
    BY <1>1, <1>3, <1>8, ReadsOneDamaged, KeepsCommands DEF CmdInv
  <2> QED
    BY <1>1, <1>8, <2>1, <2>2 DEF CmdInv, CrcOfHeader
<1>9. CASE at' \in {"head", "ended"} /\ faults' \in {faults, faults + 1}
  BY <1>1, <1>3, <1>9, CmdQuiet
<1> QED
  BY <1>1, <1>7, <1>8, <1>9 DEF ReadRest, AcceptHeader, MarkError, r

\* The CRC16 that is read is of the frame of the header, or of none.
LEMMA CmdReadCrc == ASSUME CmdInv, ReadCrc PROVE CmdInv'
<1> USE DEF CrcSize
<1> DEFINE r == Taken(2)
           k == r[1][1]
<1>1. /\ at = "crc" /\ at' = "payload" /\ Len(line) >= 2 /\ Take(2) /\ frames' = frames
      /\ UNCHANGED <<header, want, delivered, excused, faults>>
      /\ crcOf' = IF k # 0 /\ r = Part(k, 6, 7) THEN k ELSE 0
      /\ RxInv /\ RxInv' /\ faults \in Nat
  BY ReadCrcStep, ReceiverAssumption DEF ReadCrc, CmdInv, RxInv, RxTypeOK, Overhead, HeaderSize
<1>2. Len(line) \in Nat
  BY <1>1, Counts
<1>3. 2 \in 0..Len(line) /\ Reads(2) /\ Len(r) = 2 /\ \A j \in 1..2 : r[j] = line[j]
  <2>1. 2 \in Nat /\ 2 <= Len(line) /\ 2 \in 0..Len(line)
    BY <1>1, <1>2
  <2> QED
    BY <1>1, <2>1, TakeReads, Zenon
<1> HIDE DEF r
<1>4. CrcOfHeader'
  <2> SUFFICES ASSUME faults < 2, k # 0, r = Part(k, 6, 7) PROVE k = header
    BY <1>1 DEF CrcOfHeader
  <2>1. r[1] = <<k, 6>>
    BY DEF Part
  <2> HIDE DEF k
  <2>2. line[1] = <<k, 6>> /\ line # <<>>
    BY <1>1, <1>3, <2>1
  <2> QED
    BY <1>1, <2>2 DEF CmdInv, HeaderThenCrc
<1>5. OneDamaged' /\ CommandOfItsPayload'
  BY <1>1, <1>3, ReadsOneDamaged, KeepsCommands DEF CmdInv
<1> QED
  BY <1>1, <1>4, <1>5 DEF CmdInv, HeaderThenCrc

\* So a payload that is whole is of the frame of the header.
LEMMA CmdReadPayload == ASSUME CmdInv, ReadPayload PROVE CmdInv'
<1> DEFINE data == Taken(want)
           new == [cmd |-> header, data |-> data]
<1>1. /\ at = "payload" /\ at' = "head" /\ Len(line) >= want /\ Take(want) /\ frames' = frames
      /\ faults' = faults /\ RxInv /\ RxInv' /\ faults \in Nat
  BY ReadPayloadStep, ReceiverAssumption DEF ReadPayload, CmdInv, RxInv, RxTypeOK
<1>2. Len(line) \in Nat /\ want \in 0..Len(line) /\ want \in Nat
  BY <1>1, Counts DEF RxInv, RxTypeOK
<1>3. /\ Reads(want) /\ Len(data) = want
      /\ \A j \in 1..want : data[j] = line[j]
  <2>1. want <= Len(line)
    BY <1>2
  <2> QED
    BY <1>1, <1>2, <2>1, TakeReads, Zenon
<1>4. OneDamaged'
  BY <1>1, <1>2, <1>3, ReadsOneDamaged
<1>5. CommandOfItsPayload'
  <2>1. CASE ~CrcMatches(crcOf, data)
    <3>1. delivered' = delivered
      BY <2>1 DEF ReadPayload
    <3> QED
      BY <1>1, <3>1, KeepsCommands DEF CmdInv
  <2>2. CASE CrcMatches(crcOf, data)
    <3>1. delivered' = Append(delivered, new)
      BY <2>2 DEF ReadPayload
    <3>2. crcOf \in 0..Len(frames)
      BY <1>1 DEF RxInv, RxTypeOK
    <3>3. crcOf # 0 /\ data[1][1] = crcOf
      BY <1>1, <1>2, <1>3, <2>2, <3>2, WholePayload
    <3>4. faults < 2 => header = crcOf
      BY <1>1, <3>3 DEF CmdInv, CrcOfHeader
    <3> DEFINE m == Len(delivered) + 1
    <3>5. /\ Len(delivered) \in Nat /\ Len(delivered') = m /\ delivered'[m] = new
          /\ \A i \in 1..Len(delivered) : delivered'[i] = delivered[i]
      <4>1. delivered \in Seq([cmd : 0..Len(frames), data : Seq(Byte)])
        BY <1>1 DEF RxInv, RxTypeOK
      <4> HIDE DEF new
      <4>2. delivered \in Seq([cmd : 0..Len(frames), data : Seq(Byte)] \cup {new})
        BY <4>1, SeqMonotonic
      <4> QED
        BY <3>1, <4>2, AppendProperties, LenProperties
    <3> HIDE DEF data
    <3>6. ASSUME NEW i \in 1..Len(delivered'), faults < 2 PROVE delivered'[i].cmd = Source(i)'
      <4>1. CASE i = m
        BY <3>3, <3>4, <3>5, <3>6, <4>1 DEF Source
      <4>2. CASE i # m
        <5>1. i \in 1..Len(delivered)
          BY <3>5, <4>2
        <5> QED
          BY <3>5, <3>6, <5>1 DEF CmdInv, CommandOfItsPayload, Source
      <4> QED
        BY <4>1, <4>2
    <3> QED
      BY <1>1, <3>6 DEF CommandOfItsPayload
  <2> QED
    BY <2>1, <2>2
<1> QED
  BY <1>1, <1>4, <1>5 DEF CmdInv, HeaderThenCrc, CrcOfHeader

\* So every step keeps the invariant.
LEMMA CmdNext ==
  ASSUME CmdInv, [RxNext]_rxVars
  PROVE  CmdInv'
<1>1. /\ RxInv /\ RxInv' /\ faults \in Nat /\ Len(line) \in Nat
      /\ Len(line) \in 0..Len(line) /\ 0 \in 0..Len(line)
  <2>1. RxInv
    BY DEF CmdInv
  <2>2. RxInv' /\ Len(line) \in Nat
    BY <2>1, ReceiverNext, Counts
  <2>3. faults \in Nat
    BY <2>1, ReceiverAssumption DEF RxInv, RxTypeOK
  <2> QED
    BY <2>1, <2>2, <2>3
<1>2. ASSUME NEW c \in Contents, Send(c) PROVE CmdInv'
  BY <1>2, CmdSend
<1>3. CASE ReadHead
  <2>1. 1 \in 0..Len(line) /\ Reads(1)
    BY <1>1, <1>3, ReadHeadReads
  <2>2. at' \notin {"crc", "payload"} /\ delivered' = delivered /\ faults' = faults
    BY <1>3 DEF ReadHead
  <2> QED
    BY <1>1, <2>1, <2>2, CmdQuiet
<1>4. CASE ShortRead \/ Reopen
  <2>1. Reads(Len(line))
    <3>1. frames' = frames /\ line' = <<>>
      BY <1>4 DEF ShortRead, Reopen
    <3> QED
      BY <1>1, <3>1 DEF Reads
  <2>2. at' \notin {"crc", "payload"} /\ delivered' = delivered /\ faults' = faults
    BY <1>4 DEF ShortRead, Reopen, MarkError
  <2> QED
    BY <1>1, <2>1, <2>2, CmdQuiet
<1>5. CASE UNCHANGED rxVars
  <2>1. UNCHANGED <<frames, line, at, header, crcOf, delivered, faults>>
    BY <1>5 DEF rxVars, receiver
  <2>2. Reads(0) /\ faults' = faults
    BY <1>1, <2>1, Counts DEF Reads
  <2>3. OneDamaged'
    BY <1>1, <2>2, ReadsOneDamaged
  <2>4. HeaderThenCrc' /\ CrcOfHeader'
    BY <2>1 DEF CmdInv, HeaderThenCrc, CrcOfHeader
  <2>5. CommandOfItsPayload'
    BY <2>1 DEF CmdInv, CommandOfItsPayload, Source
  <2> QED
    BY <1>1, <2>3, <2>4, <2>5 DEF CmdInv
<1> QED
  BY <1>2, <1>3, <1>4, <1>5, CmdReadRest, CmdReadCrc, CmdReadPayload DEF RxNext

\* The CRC16 does not cover the command; and yet no single damage, and no
\* single header that passes by accident, puts a payload under another one.
THEOREM CommandsKeepPayloads == RxSpec => []CommandOfItsPayload
<1>1. RxInit => CmdInv
  <2> SUFFICES ASSUME RxInit PROVE CmdInv
    OBVIOUS
  <2>1. RxInv /\ frames = <<>> /\ line = <<>> /\ delivered = <<>> /\ at = "head" /\ faults = 0
    BY ReceiverInit DEF RxInit
  <2> QED
    BY <2>1 DEF CmdInv, OneDamaged, AllBut, HeaderThenCrc, CrcOfHeader, CommandOfItsPayload
<1>2. CmdInv /\ [RxNext]_rxVars => CmdInv'
  BY CmdNext
<1>3. CmdInv => CommandOfItsPayload
  BY DEF CmdInv
<1> QED
  BY <1>1, <1>2, <1>3, PTL DEF RxSpec

-----------------------------------------------------------------------------
(* Damage is bounded.                                                      *)

\* All bytes of frame k are on the line, from place p on.
Whole(k, p) ==
  \A j \in 1..Size(frames[k]) : p + j - 1 <= Len(line) /\ line[p + j - 1] = <<k, j>>

\* The line begins with the bytes of frame k from the byte x on.
Remains(k, x) ==
  \A j \in x..Size(frames[k]) : j - x + 1 <= Len(line) /\ line[j - x + 1] = <<k, j>>

\* The receiver is in frame k, and will get all of it.
InProgress(k) ==
  \/ at = "rest" /\ Remains(k, 2)
  \/ at = "crc" /\ header = k /\ want = frames[k].len /\ Remains(k, 6)
  \/ at = "payload" /\ header = k /\ crcOf = k /\ want = frames[k].len /\ Remains(k, 8)

\* The bytes that are read before a head is looked for again
Need(s, m) ==
  CASE s = "rest" -> HeaderSize - 1 [] s = "crc" -> CrcSize + m [] s = "payload" -> m
    [] OTHER -> 0

\* The frames that have been read, or will be unless there is more damage, and
\* the ones that went by while the port was closed.
Safe(k) ==
  \/ k \in excused
  \/ \E i \in 1..Len(delivered) : Source(i) = k
  \/ InProgress(k)
  \/ \E p \in Need(at, want) + 1..Len(line) : Whole(k, p)
Unsafe == {k \in 1..Len(frames) : ~Safe(k)}

\* After the byte x of frame k, at place i, comes the next, if only changed.
Goes(k, x, i) ==
  /\ i < Len(line)
  /\ \/ line[i + 1] = <<k, x + 1>>
     \/ /\ line[i + 1] \in Noise
        /\ x + 1 < Size(frames[k]) => i + 1 < Len(line) /\ line[i + 2] = <<k, x + 2>>

\* Places where the line may throw the receiver out of step: after a byte that
\* is not the last of its frame, but the frame does not go on; and a byte that
\* was changed, perhaps to a head.
Cut(i) ==
  /\ line[i][1] # 0 /\ line[i][2] < Size(frames[line[i][1]])
  /\ ~Goes(line[i][1], line[i][2], i)
Cuts == {i \in 1..Len(line) : i >= Need(at, want) /\ Cut(i)}
Noisy == {i \in 1..Len(line) : line[i] \in Noise}

\* The bytes that are needed and not there may begin that many frames.
Ahead(d, z) == IF d > z THEN (d - z + Overhead) \div (Overhead + 1) ELSE 0

\* No frame ends with what would be taken for the head of a header.
Plainly == \A k \in 1..Len(frames) : EndsPlainly(frames[k])

\* What has been lost and what may be lost without more damage is paid for.
Paid ==
  Plainly =>
    Cardinality(Unsafe) + Ahead(Need(at, want), Len(line))
        + Cardinality(Noisy) + (Cost - 1) * Cardinality(Cuts)
      <= faults * ((Cost - 1) + 1)

\* Without damage the receiver is always in step.
InStep ==
  faults = 0 =>
    /\ Unsafe = {} /\ at # "ended"
    /\ at = "head" /\ line # <<>> => \E k \in 1..Len(frames) : Whole(k, 1)
    /\ at \in {"rest", "crc", "payload"} => \E k \in 1..Len(frames) : InProgress(k)
    /\ \A i \in 1..Len(line) - 1 : \A m \in 1..Len(frames) :
         line[i] = <<m, Size(frames[m])>> => \E k \in 1..Len(frames) : Whole(k, i + 1)

-----------------------------------------------------------------------------
(* Counting.                                                               *)

\* A set of numbers with 0 and every successor has all numbers.
LEMMA EveryNumber ==
  ASSUME NEW S, 0 \in S, \A v \in Nat : v \in S => v + 1 \in S
  PROVE  Nat \subseteq S
<1> DEFINE R == {ss \in Nat \X Nat : ss[1] < ss[2]}
           B == Nat \ S
<1>1. IsWellFoundedOn(R, Nat)
  BY NatLessThanWellFounded, Zenon DEF OpToRel
<1>2. \A w, v \in Nat : w < v => <<w, v>> \in R
  OBVIOUS
<1>3. B \subseteq Nat
  OBVIOUS
<1> SUFFICES ASSUME B # {} PROVE FALSE
  OBVIOUS
<1> HIDE DEF R
<1>4. PICK v \in B : \A w \in B : ~ (<<w, v>> \in R)
  BY <1>1, <1>3, WFMin, Zenon
<1>5. v \in Nat /\ v # 0 /\ v - 1 \in Nat /\ v - 1 < v /\ (v - 1) + 1 = v
  BY <1>4
<1>6. v - 1 \notin B
  BY <1>2, <1>4, <1>5
<1> QED
  BY <1>4, <1>5, <1>6

\* Fewer places are left of those in A when the first w are gone.
LEMMA PlacesLeft ==
  ASSUME NEW w \in Nat, NEW z \in Nat, NEW A \in SUBSET (1..z), NEW B \in SUBSET (Nat \ {0}),
         \A i \in B : w + i \in A
  PROVE  /\ IsFiniteSet(A) /\ Cardinality(A) \in Nat
         /\ IsFiniteSet(B) /\ Cardinality(B) \in Nat
         /\ Cardinality(B) <= Cardinality(A)
         /\ (\E a \in A : a <= w \/ a - w \notin B) => Cardinality(B) + 1 <= Cardinality(A)
<1>1. IsFiniteSet(1..z)
  BY FS_Interval
<1>2. IsFiniteSet(A) /\ Cardinality(A) \in Nat
  BY <1>1, FS_Subset, FS_CardinalityType
<1> DEFINE f == [i \in B |-> w + i]
<1>3. ASSUME NEW C \in SUBSET A, \A i \in B : w + i \in C
      PROVE  /\ IsFiniteSet(B) /\ Cardinality(B) \in Nat
             /\ Cardinality(B) <= Cardinality(C) /\ Cardinality(C) \in Nat
  <2>1. f \in Injection(B, C)
    BY <1>3 DEF Injection, IsInjective
  <2>2. IsFiniteSet(C) /\ Cardinality(C) \in Nat
    BY <1>2, FS_Subset, FS_CardinalityType
  <2> HIDE DEF f
  <2> QED
    BY <2>1, <2>2, FS_Injection, FS_CardinalityType
<1>4. /\ IsFiniteSet(B) /\ Cardinality(B) \in Nat
      /\ Cardinality(B) <= Cardinality(A)
  BY <1>3
<1>5. ASSUME NEW a \in A, a <= w \/ a - w \notin B
      PROVE  Cardinality(B) + 1 <= Cardinality(A)
  <2>1. \A i \in B : w + i \in A \ {a}
    <3>1. \A i \in B : w + i = a => a - w = i /\ i > 0
      OBVIOUS
    <3> QED
      BY <1>5, <3>1
  <2>2. Cardinality(A \ {a}) = Cardinality(A) - 1
    BY <1>2, FS_RemoveElement
  <2>3. Cardinality(B) <= Cardinality(A \ {a}) /\ Cardinality(B) \in Nat
    BY <1>3, <2>1
  <2> QED
    BY <1>2, <2>2, <2>3
<1> QED
  BY <1>2, <1>4, <1>5

\* The numbers of frames and bytes
LEMMA Sizes ==
  ASSUME RxInv
  PROVE  /\ Len(frames) \in Nat /\ Len(line) \in Nat /\ MaxLen \in Nat /\ MaxLen > 0
         /\ want \in Nat /\ want <= MaxLen /\ faults \in Nat
         /\ \A k \in 1..Len(frames) :
              /\ frames[k] \in Contents /\ frames[k].len \in Nat
              /\ frames[k].len > 0 /\ frames[k].len <= MaxLen
              /\ Size(frames[k]) = 7 + frames[k].len
         /\ Need(at, want) \in Nat
         /\ \A i \in 1..Len(line) :
              line[i][1] # 0 => line[i][1] \in 1..Len(frames)
                                /\ line[i][2] \in 1..Size(frames[line[i][1]])
<1>1. /\ Len(frames) \in Nat /\ Len(line) \in Nat /\ frames \in Seq(Contents) /\ Overhead = 7
  BY Counts
<1>2. MaxLen \in Nat /\ MaxLen > 0 /\ \A c \in Contents : c.len \in 1..MaxLen
  BY ReceiverAssumption
<1>3. want \in 0..MaxLen /\ faults \in Nat
  BY ReceiverAssumption DEF RxInv, RxTypeOK
<1>4. \A k \in 1..Len(frames) : frames[k] \in Contents
  BY <1>1, ElementOfSeq
<1>5. Need(at, want) \in Nat
  BY <1>2, <1>3 DEF Need, HeaderSize, CrcSize
<1>6. \A i \in 1..Len(line) : FromFrame(line[i], frames)
  BY DEF RxInv, InLine
<1> QED
  BY <1>1, <1>2, <1>3, <1>4, <1>5, <1>6 DEF Size, FromFrame

\* The size of a frame
LEMMA SizeOf ==
  ASSUME RxInv, NEW k \in 1..Len(frames)
  PROVE  /\ frames[k] \in Contents /\ frames[k].len \in Nat
         /\ frames[k].len > 0 /\ frames[k].len <= MaxLen /\ MaxLen \in Nat
         /\ Size(frames[k]) = 7 + frames[k].len
         /\ Size(frames[k]) \in Nat /\ Size(frames[k]) >= 8
         /\ 1 \in 1..Size(frames[k]) /\ k \in Nat /\ k # 0
<1>1. /\ frames[k] \in Contents /\ frames[k].len \in Nat
      /\ frames[k].len > 0 /\ frames[k].len <= MaxLen /\ MaxLen \in Nat
      /\ Size(frames[k]) = 7 + frames[k].len /\ Len(frames) \in Nat
  BY Sizes
<1> QED
  BY <1>1

\* Two whole frames do not overlap.
LEMMA WholeApart ==
  ASSUME RxInv, NEW k \in 1..Len(frames), NEW m \in 1..Len(frames),
         NEW p \in Nat \ {0}, NEW q \in Nat \ {0}, Whole(k, p), Whole(m, q)
  PROVE  /\ p + 7 <= Len(line)
         /\ k = m => p = q
         /\ p < q => p + 8 <= q
<1>1. /\ Size(frames[k]) \in Nat /\ Size(frames[k]) >= 8 /\ Len(line) \in Nat
      /\ Size(frames[m]) \in Nat /\ Size(frames[m]) >= 8
  BY SizeOf, Sizes
<1>2. p + 8 - 1 <= Len(line)
  BY <1>1 DEF Whole
<1>3. line[p] = <<k, 1>> /\ line[q] = <<m, 1>>
  <2>1. 1 \in 1..Size(frames[k]) /\ 1 \in 1..Size(frames[m])
    BY <1>1
  <2>2. line[p + 1 - 1] = <<k, 1>>
    BY <2>1 DEF Whole
  <2>3. line[q + 1 - 1] = <<m, 1>>
    BY <2>1 DEF Whole
  <2>4. p + 1 - 1 = p /\ q + 1 - 1 = q
    OBVIOUS
  <2> QED
    BY <2>2, <2>3, <2>4
<1>4. ASSUME q > p, q < p + Size(frames[k]) PROVE FALSE
  <2>1. q - p + 1 \in 1..Size(frames[k])
    BY <1>1, <1>4
  <2>2. line[p + (q - p + 1) - 1] = <<k, q - p + 1>>
    BY <2>1 DEF Whole
  <2>3. p + (q - p + 1) - 1 = q
    OBVIOUS
  <2> QED
    BY <1>3, <1>4, <2>2, <2>3
<1>5. p \in 1..Len(line) /\ q \in 1..Len(line)
  <2>1. q + 8 - 1 <= Len(line)
    BY <1>1 DEF Whole
  <2> QED
    BY <1>1, <1>2, <2>1
<1>6. k = m => p = q
  <2>1. k # 0 /\ ~Before(<<k, 1>>, <<k, 1>>)
    BY <1>1 DEF Before
  <2>2. \A i, j \in 1..Len(line) : i < j => Before(line[i], line[j])
    BY DEF RxInv, InLine
  <2> QED
    BY <1>3, <1>5, <2>1, <2>2
<1> QED
  BY <1>1, <1>2, <1>4, <1>6

\* The whole frames that begin between the places a and b, and the frames that
\* may still come there, are no more than fit.
LEMMA FramesBetween ==
  ASSUME RxInv, NEW a \in Nat \ {0}, NEW b \in Nat, a <= b + 1, a <= Len(line) + 1,
         NEW S \in SUBSET (1..Len(frames)),
         \A k \in S : \E p \in a..b : Whole(k, p)
  PROVE  /\ IsFiniteSet(S) /\ Cardinality(S) \in Nat
         /\ b <= Len(line) => Cardinality(S) <= (b - a + 8) \div 8
         /\ b > Len(line) => Cardinality(S) + (b - Len(line) + 7) \div 8 <= (b - a + 8) \div 8
<1>1. Len(line) \in Nat /\ Len(frames) \in Nat
  BY Sizes
<1>2. IsFiniteSet(S) /\ Cardinality(S) \in Nat
  <2>1. IsFiniteSet(1..Len(frames))
    BY <1>1, FS_Interval
  <2>2. IsFiniteSet(S)
    BY <2>1, FS_Subset
  <2> QED
    BY <2>2, FS_CardinalityType
<1> DEFINE place(k) == CHOOSE p \in a..b : Whole(k, p)
           f(k) == (place(k) - a) \div 8
<1>3. ASSUME NEW k \in S
      PROVE  /\ place(k) \in a..b /\ place(k) \in Nat \ {0}
             /\ Whole(k, place(k)) /\ place(k) + 7 <= Len(line)
  <2>1. place(k) \in a..b /\ Whole(k, place(k))
    OBVIOUS
  <2> HIDE DEF place
  <2>2. place(k) \in Nat \ {0}
    BY <2>1
  <2> QED
    BY <2>1, <2>2, WholeApart
<1>4. ASSUME NEW k \in S, NEW m \in S, k # m PROVE f(k) # f(m)
  <2>1. /\ place(k) \in a..b /\ place(k) \in Nat \ {0} /\ Whole(k, place(k))
        /\ place(m) \in a..b /\ place(m) \in Nat \ {0} /\ Whole(m, place(m))
    BY <1>3
  <2> HIDE DEF place
  <2>2. place(k) + 8 <= place(m) \/ place(m) + 8 <= place(k)
    <3>1. place(k) # place(m)
      <4>1. /\ 1 \in 1..Size(frames[k]) /\ 1 \in 1..Size(frames[m])
        BY SizeOf
      <4>2. line[place(k) + 1 - 1] = <<k, 1>> /\ line[place(m) + 1 - 1] = <<m, 1>>
        BY <2>1, <4>1 DEF Whole
      <4> QED
        BY <1>4, <2>1, <4>2
    <3> QED
      BY <2>1, <3>1, WholeApart
  <2> QED
    BY <2>1, <2>2
<1>5. ASSUME NEW c \in Nat, \A k \in S : place(k) - a + 8 <= c
      PROVE  Cardinality(S) <= c \div 8
  <2>1. CASE S = {}
    <3>1. Cardinality(S) = 0
      BY <2>1, FS_EmptySet
    <3> QED
      BY <3>1
  <2>2. CASE S # {}
    <3>1. \A k \in S : f(k) \in 0..(c \div 8) - 1
      <4>1. SUFFICES ASSUME NEW k \in S PROVE f(k) \in 0..(c \div 8) - 1
        OBVIOUS
      <4>2. place(k) \in a..b /\ place(k) - a + 8 <= c
        BY <1>3, <1>5
      <4> HIDE DEF place
      <4> QED
        BY <4>2
    <3> DEFINE g == [k \in S |-> f(k)]
    <3>2. g \in Injection(S, 0..(c \div 8) - 1)
      <4> HIDE DEF f
      <4> QED
        BY <1>4, <3>1 DEF Injection, IsInjective
    <3>3. c \div 8 \in Nat
      OBVIOUS
    <3>4. IsFiniteSet(0..(c \div 8) - 1) /\ Cardinality(0..(c \div 8) - 1) = c \div 8
      BY <3>3, FS_Interval
    <3> HIDE DEF g
    <3> QED
      BY <3>2, <3>4, FS_Injection
  <2> QED
    BY <2>1, <2>2
<1>6. ASSUME b <= Len(line) PROVE Cardinality(S) <= (b - a + 8) \div 8
  <2>1. b - a + 8 \in Nat /\ \A k \in S : place(k) - a + 8 <= b - a + 8
    BY <1>3
  <2> HIDE DEF place
  <2> QED
    BY <1>5, <2>1
<1>7. ASSUME b > Len(line)
      PROVE  Cardinality(S) + (b - Len(line) + 7) \div 8 <= (b - a + 8) \div 8
  <2>1. Len(line) + 1 - a \in Nat /\ \A k \in S : place(k) - a + 8 <= Len(line) + 1 - a
    <3>1. \A k \in S : place(k) \in Nat /\ place(k) + 7 <= Len(line)
      BY <1>3
    <3> HIDE DEF place
    <3> QED
      BY <1>1, <3>1
  <2>2. Cardinality(S) <= (Len(line) + 1 - a) \div 8
    <3> HIDE DEF place
    <3> QED
      BY <1>5, <2>1
  <2> QED
    BY <1>1, <1>2, <1>7, <2>1, <2>2
<1> QED
  BY <1>2, <1>6, <1>7

-----------------------------------------------------------------------------
(* What a frame leaves on the line.                                        *)

\* What is needed when
LEMMA NeedIs ==
  ASSUME NEW s, NEW m \in Nat
  PROVE  /\ s \in {"head", "ended"} => Need(s, m) = 0
         /\ s = "rest" => Need(s, m) = 4
         /\ s = "crc" => Need(s, m) = 2 + m
         /\ s = "payload" => Need(s, m) = m
         /\ Need(s, m) \in Nat
  BY DEF Need, HeaderSize, CrcSize

\* in this state and the next
LEMMA NeedNat ==
  ASSUME RxInv, RxInv'
  PROVE  Need(at, want) \in Nat /\ Need(at', want') \in Nat
<1>1. want \in Nat /\ want' \in Nat
  <2>1. want \in 0..MaxLen /\ want' \in 0..MaxLen
    BY DEF RxInv, RxTypeOK
  <2> QED
    BY <2>1, ReceiverAssumption
<1> QED
  BY <1>1, NeedIs

\* Where the line is not cut, a frame goes on, if only changed.
LEMMA Walk ==
  ASSUME RxInv, NEW e \in 1..Len(frames), NEW i \in 1..Len(line), NEW x \in Nat \ {0},
         NEW d \in Nat, line[i] = <<e, x>>, x + d <= Size(frames[e]),
         \A j \in i..i + d - 1 : ~Cut(j)
  PROVE  \A y \in 1..d : i + y <= Len(line) /\ Is(line, i + y, e, x + y)
<1> DEFINE z == Size(frames[e])
           P(y) == /\ i + y <= Len(line)
                   /\ \/ line[i + y] = <<e, x + y>>
                      \/ /\ line[i + y] \in Noise
                         /\ x + y < z => /\ i + y < Len(line)
                                         /\ line[i + y + 1] = <<e, x + y + 1>>
           S == {y \in Nat : y <= d => P(y)}
<1>1. z \in Nat /\ Len(line) \in Nat
  BY SizeOf, Sizes
<1> HIDE DEF z, P
<1>0. \A y \in Nat : y \in S <=> (y <= d => P(y))
  OBVIOUS
<1> HIDE DEF S
<1>2. 0 \in S
  <2>1. i + 0 = i /\ x + 0 = x
    OBVIOUS
  <2>2. P(0)
    BY <1>1, <2>1 DEF P
  <2> QED
    BY <1>0, <2>2
<1>3. ASSUME NEW y \in Nat, y \in S PROVE y + 1 \in S
  <2> SUFFICES ASSUME y + 1 <= d PROVE P(y + 1)
    BY <1>0
  <2>1. P(y) /\ x + y < z /\ i + y \in i..i + d - 1 /\ i + y + 1 = i + (y + 1)
    <3>1. P(y)
      BY <1>0, <1>3
    <3>2. x + d <= z
      BY DEF z
    <3> QED
      BY <1>1, <3>1, <3>2
  <2>2. CASE line[i + y] = <<e, x + y>>
    <3>1. Goes(e, x + y, i + y)
      <4>1. e # 0 /\ line[i + y][1] = e /\ line[i + y][2] = x + y
        BY <2>2
      <4>2. ~Cut(i + y)
        BY <2>1
      <4> QED
        BY <2>1, <4>1, <4>2 DEF Cut, z
    <3>2. i + y + 1 = i + (y + 1) /\ x + y + 1 = x + (y + 1) /\ i + (y + 1) <= Len(line)
      <4>1. i + y < Len(line)
        BY <3>1 DEF Goes
      <4>2. i \in Nat
        OBVIOUS
      <4> QED
        BY <1>1, <4>1, <4>2
    <3>3. \/ line[i + (y + 1)] = <<e, x + (y + 1)>>
          \/ /\ line[i + (y + 1)] \in Noise
             /\ x + (y + 1) < z => /\ i + (y + 1) < Len(line)
                                   /\ line[i + y + 2] = <<e, x + y + 2>>
      BY <3>1, <3>2 DEF Goes, z
    <3>4. i + y + 2 = i + (y + 1) + 1 /\ x + y + 2 = x + (y + 1) + 1
      OBVIOUS
    <3> QED
      BY <3>2, <3>3, <3>4 DEF P
  <2>3. CASE line[i + y] \in Noise /\ line[i + y] # <<e, x + y>>
    <3>1. i + y < Len(line) /\ line[i + y + 1] = <<e, x + y + 1>>
      BY <2>1, <2>3 DEF P
    <3>2. i + y + 1 = i + (y + 1) /\ x + y + 1 = x + (y + 1)
      OBVIOUS
    <3>3. i + (y + 1) <= Len(line)
      BY <1>1, <3>1
    <3>4. line[i + (y + 1)] = <<e, x + (y + 1)>>
      BY <3>1, <3>2
    <3> QED
      BY <3>3, <3>4 DEF P
  <2> QED
    BY <2>1, <2>2, <2>3 DEF P
<1>4. Nat \subseteq S
  BY <1>2, <1>3, EveryNumber
<1>5. ASSUME NEW y \in 1..d PROVE P(y)
  BY <1>0, <1>4
<1> QED
  BY <1>5 DEF P, Is

\* Nor does the line end there.
LEMMA WalkOn ==
  ASSUME RxInv, NEW e \in 1..Len(frames), NEW i \in 1..Len(line), NEW x \in Nat \ {0},
         NEW d \in Nat, line[i] = <<e, x>>, x + d <= Size(frames[e]),
         \A j \in i..i + d - 1 : j <= Len(line) => ~Cut(j)
  PROVE  \A y \in 1..d : i + y <= Len(line) /\ Is(line, i + y, e, x + y)
<1>1. Size(frames[e]) \in Nat /\ Len(line) \in Nat
  BY SizeOf, Sizes
<1>2. CASE i + d - 1 <= Len(line)
  <2>1. \A j \in i..i + d - 1 : ~Cut(j)
    BY <1>1, <1>2
  <2> QED
    BY <2>1, Walk
<1>3. CASE i + d - 1 > Len(line)
  <2>4. Len(line) - i + 1 \in Nat
    BY <1>1
  <2>5. PICK c \in Nat : c = Len(line) - i + 1
    BY <2>4
  <2>6. PICK z \in Nat, s \in Nat : z = Len(line) /\ s = Size(frames[e])
    BY <1>1
  <2>7. c = z - i + 1 /\ c <= d /\ i <= z /\ x + d <= s
    BY <1>3, <2>5, <2>6
  <2>8. x + c <= s /\ c \in 1..c /\ \A j \in i..i + c - 1 : j \in i..i + d - 1 /\ j <= z
    BY <2>7
  <2>1. /\ x + c <= Size(frames[e]) /\ c \in 1..c
        /\ \A j \in i..i + c - 1 : j \in i..i + d - 1 /\ j <= Len(line)
    BY <2>6, <2>8
  <2>2. \A j \in i..i + c - 1 : ~Cut(j)
    BY <2>1
  <2>3. i + c <= Len(line)
    BY <2>1, <2>2, Walk
  <2> QED
    BY <1>1, <2>3, <2>5
<1>4. i + d - 1 <= Len(line) \/ i + d - 1 > Len(line)
  BY <1>1
<1> QED
  BY <1>2, <1>3, <1>4

\* So no frame begins there.
LEMMA NoneBegins ==
  ASSUME RxInv, NEW e \in 1..Len(frames), NEW p \in Nat \ {0}, NEW x \in Nat, x > 1,
         Is(line, p, e, x), NEW k \in 1..Len(frames)
  PROVE  ~Whole(k, p)
<1> SUFFICES ASSUME Whole(k, p) PROVE FALSE
  OBVIOUS
<1>1. 1 \in 1..Size(frames[k]) /\ p + 1 - 1 = p
  BY SizeOf
<1>2. line[p] = <<k, 1>> /\ k # 0
  BY <1>1 DEF Whole
<1> QED
  BY <1>2 DEF Is, Noise

-----------------------------------------------------------------------------
(* What a read may lose. The frames that are read as part of another are   *)
(* paid for by the cut that is read with them, by the noise that was taken *)
(* for a head, or by the damage that let a wrong header through.           *)

\* The whole frames that begin in the bytes that are read or needed next, but
\* for the one that the receiver is in then
Passed(w) ==
  {k \in 1..Len(frames) :
     /\ ~InProgress(k)'
     /\ \E p \in Need(at, want) + 1..Need(at', want') + w : Whole(k, p)}

\* A read of w bytes: what was read stays so, and the frame in progress is safe.
Forward(w) ==
  /\ Reads(w) /\ Need(at, want) <= Need(at', want') + w
  /\ \A k \in 1..Len(frames) :
       /\ k \in excused => k \in excused'
       /\ (\E i \in 1..Len(delivered) : Source(i) = k) =>
            (\E i \in 1..Len(delivered) : Source(i) = k)'
       /\ InProgress(k) => Safe(k)'

\* The places of the line after a read
LEMMA PlacesAfter ==
  ASSUME RxInv, NEW w \in 0..Len(line), Reads(w)
  PROVE  /\ Len(line) \in Nat /\ w \in Nat /\ frames' = frames
         /\ Len(line') = Len(line) - w
         /\ \A i \in 1..Len(line') : w + i \in 1..Len(line) /\ line'[i] = line[w + i]
         /\ \A i \in 1..Len(line) :
              i > w => i - w \in 1..Len(line') /\ line'[i - w] = line[i]
<1>1. Len(line) \in Nat
  BY Sizes
<1>2. ASSUME NEW i \in 1..Len(line), i > w
      PROVE  i - w \in 1..Len(line') /\ line'[i - w] = line[i]
  <2>1. i - w \in 1..Len(line) - w /\ w + (i - w) = i
    BY <1>1, <1>2
  <2> QED
    BY <2>1 DEF Reads
<1> QED
  BY <1>1, <1>2 DEF Reads

\* A whole frame after what is read is whole after it.
LEMMA ReadWhole ==
  ASSUME RxInv, NEW w \in 0..Len(line), Reads(w), NEW k \in 1..Len(frames),
         NEW p \in Nat, p > w, Whole(k, p)
  PROVE  p - w \in 1..Len(line') /\ Whole(k, p - w)'
<1>1. frames' = frames /\ Len(line) \in Nat
  BY PlacesAfter
<1>2. Size(frames[k]) \in Nat /\ Size(frames[k]) > 0
  BY SizeOf
<1>3. ASSUME NEW j \in 1..Size(frames[k])
      PROVE  p - w + j - 1 \in 1..Len(line') /\ line'[p - w + j - 1] = <<k, j>>
  <2>1. p + j - 1 <= Len(line) /\ line[p + j - 1] = <<k, j>>
    BY DEF Whole
  <2>2. PICK i \in 1..Len(line) : i = p + j - 1
    BY <1>1, <1>2, <2>1
  <2>3. i > w /\ line[i] = <<k, j>> /\ i - w = p - w + j - 1
    BY <1>1, <1>2, <2>1, <2>2
  <2>4. i - w \in 1..Len(line') /\ line'[i - w] = <<k, j>>
    BY <2>3, PlacesAfter
  <2> QED
    BY <2>3, <2>4
<1>4. 1 \in 1..Size(frames[k]) /\ p - w + 1 - 1 = p - w
  BY <1>2
<1>5. p - w \in 1..Len(line')
  BY <1>3, <1>4
<1>6. Size(frames[k])' = Size(frames[k])
  BY <1>1 DEF Size
<1>7. \A j \in 1..Size(frames[k]) : p - w + j - 1 <= Len(line') /\ line'[p - w + j - 1] = <<k, j>>
  BY <1>3
<1> QED
  BY <1>1, <1>5, <1>7 DEF Whole

\* What a read leaves unsafe was so before, or the read passes over it.
LEMMA ReadUnsafe ==
  ASSUME RxInv, RxInv', NEW w \in 0..Len(line), Forward(w)
  PROVE  Unsafe' \subseteq Unsafe \cup Passed(w)
<1>1. Reads(w) /\ frames' = frames /\ Len(line) \in Nat /\ w \in Nat
  BY PlacesAfter DEF Forward
<1>2. Need(at, want) \in Nat /\ Need(at', want') \in Nat
  BY NeedNat
<1> SUFFICES ASSUME NEW k \in 1..Len(frames), Safe(k), k \notin Passed(w), ~InProgress(k)'
             PROVE  Safe(k)'
  BY <1>1 DEF Unsafe, Safe
<1>. PICK a \in Nat, b \in Nat : a = Need(at, want) /\ b = Need(at', want')
  BY <1>2
<1>3. CASE \E p \in a + 1..Len(line) : Whole(k, p)
  <2>1. PICK p \in a + 1..Len(line) : Whole(k, p)
    BY <1>3
  <2>2. p > b + w
    <3>1. p \notin a + 1..b + w
      BY <2>1 DEF Passed
    <3> QED
      BY <1>1, <3>1
  <2>3. p - w \in 1..Len(line') /\ Whole(k, p - w)'
    <3>1. p \in Nat /\ p > w
      BY <1>1, <2>2
    <3> QED
      BY <1>1, <2>1, <3>1, ReadWhole
  <2>4. p - w \in b + 1..Len(line')
    BY <1>1, <2>1, <2>2, <2>3
  <2> QED
    BY <2>3, <2>4 DEF Safe
<1>4. CASE InProgress(k)
  BY <1>4 DEF Forward
<1>5. CASE k \in excused \/ \E i \in 1..Len(delivered) : Source(i) = k
  BY <1>5 DEF Forward, Safe
<1> QED
  BY <1>3, <1>4, <1>5 DEF Safe

\* The costs of what is on the line go down when what they are of is read.
LEMMA ReadCounts ==
  ASSUME RxInv, RxInv', NEW w \in 0..Len(line), Forward(w)
  PROVE  /\ Cardinality(Noisy) \in Nat /\ Cardinality(Noisy)' \in Nat
         /\ Cardinality(Noisy)' <= Cardinality(Noisy)
         /\ w > 0 /\ line[1] \in Noise => Cardinality(Noisy)' + 1 <= Cardinality(Noisy)
         /\ Cardinality(Cuts) \in Nat /\ Cardinality(Cuts)' \in Nat
         /\ Cardinality(Cuts)' <= Cardinality(Cuts)
         /\ (\E i \in Cuts : i < Need(at', want') + w) =>
              Cardinality(Cuts)' + 1 <= Cardinality(Cuts)
<1>1. /\ Reads(w) /\ frames' = frames /\ Len(line) \in Nat /\ w \in Nat
      /\ Len(line') = Len(line) - w
      /\ \A i \in 1..Len(line') : w + i \in 1..Len(line) /\ line'[i] = line[w + i]
  BY PlacesAfter DEF Forward
<1>2. Need(at, want) \in Nat /\ Need(at', want') \in Nat
  BY NeedNat
<1>. PICK a \in Nat, b \in Nat : a = Need(at, want) /\ b = Need(at', want')
  BY <1>2
<1>3. a <= b + w
  BY DEF Forward
<1> DEFINE N2 == {i \in 1..Len(line') : line'[i] \in Noise}
           C2 == Cuts'
<1>4. /\ Cardinality(Noisy) \in Nat /\ Cardinality(N2) \in Nat
      /\ Cardinality(N2) <= Cardinality(Noisy)
      /\ w > 0 /\ line[1] \in Noise => Cardinality(N2) + 1 <= Cardinality(Noisy)
  <2>1. Noisy \in SUBSET (1..Len(line)) /\ N2 \in SUBSET (Nat \ {0})
    BY <1>1 DEF Noisy
  <2>2. \A i \in N2 : w + i \in Noisy
    BY <1>1 DEF Noisy
  <2>3. w > 0 /\ line[1] \in Noise => 1 \in Noisy /\ 1 <= w
    BY <1>1 DEF Noisy
  <2> HIDE DEF N2
  <2> QED
    BY <1>1, <2>1, <2>2, <2>3, PlacesLeft
<1>5. ASSUME NEW i \in C2
      PROVE  /\ i \in 1..Len(line') /\ i >= b /\ w + i \in 1..Len(line) /\ w + i >= a /\ Cut(w + i)
  <2>1. i \in 1..Len(line') /\ i >= b /\ Cut(i)'
    BY DEF Cuts
  <2>2. w + i \in 1..Len(line) /\ line'[i] = line[w + i] /\ w + i >= a
    BY <1>1, <1>3, <2>1
  <2>. PICK e, x : e = line[w + i][1] /\ x = line[w + i][2]
    OBVIOUS
  <2>3. e # 0 /\ x < Size(frames[e]) /\ ~Goes(e, x, i)'
    BY <1>1, <2>1, <2>2 DEF Cut, Size
  <2>6. PICK z \in Nat : z = Len(line)
    BY <1>1
  <2>7. i \in Nat /\ i >= 1 /\ Len(line') = z - w
    BY <1>1, <2>1, <2>6
  <2>4. ASSUME Goes(e, x, w + i) PROVE Goes(e, x, i)'
    <3>1. w + i < Len(line) => i + 1 \in 1..Len(line') /\ line'[i + 1] = line[w + i + 1]
      <4>1. w + i < Len(line) => i + 1 \in 1..Len(line') /\ w + (i + 1) = w + i + 1
        BY <2>6, <2>7
      <4>2. ASSUME NEW j \in 1..Len(line') PROVE line'[j] = line[w + j]
        BY <1>1
      <4> QED
        BY <4>1, <4>2
    <3>2. w + i + 1 < Len(line) => i + 2 \in 1..Len(line') /\ line'[i + 2] = line[w + i + 2]
      <4>1. w + i + 1 < Len(line) => i + 2 \in 1..Len(line') /\ w + (i + 2) = w + i + 2
        BY <2>6, <2>7
      <4>2. ASSUME NEW j \in 1..Len(line') PROVE line'[j] = line[w + j]
        BY <1>1
      <4> QED
        BY <4>1, <4>2
    <3>3. Size(frames[e])' = Size(frames[e])
      BY <1>1 DEF Size
    <3>4. /\ w + i < Len(line) => i < Len(line')
          /\ w + i + 1 < Len(line) => i + 1 < Len(line')
      BY <1>1, <2>1
    <3> QED
      BY <1>1, <2>4, <3>1, <3>2, <3>3, <3>4 DEF Goes
  <2>5. Cut(w + i)
    BY <2>3, <2>4 DEF Cut
  <2> QED
    BY <2>1, <2>2, <2>5
<1>6. Cuts \in SUBSET (1..Len(line)) /\ C2 \in SUBSET (Nat \ {0})
  BY <1>5, <1>1 DEF Cuts
<1>7. \A i \in C2 : i >= b /\ w + i \in Cuts
  BY <1>5 DEF Cuts
<1>8. (\E i \in Cuts : i < b + w) => \E i \in Cuts : i <= w \/ i - w \notin C2
  <2>1. ASSUME NEW i \in Cuts, i < b + w PROVE i - w \notin C2
    <3>1. i \in 1..Len(line) /\ ~(i - w >= b)
      BY <1>1, <1>6, <2>1
    <3> QED
      BY <1>7, <3>1
  <2> QED
    BY <2>1
<1> HIDE DEF C2, N2
<1>9. /\ Cardinality(Cuts) \in Nat /\ Cardinality(C2) \in Nat
      /\ Cardinality(C2) <= Cardinality(Cuts)
      /\ (\E i \in Cuts : i < b + w) => Cardinality(C2) + 1 <= Cardinality(Cuts)
  BY <1>1, <1>6, <1>7, <1>8, PlacesLeft
<1>10. Noisy' = N2 /\ Cuts' = C2
  BY DEF Noisy, N2, C2
<1> QED
  BY <1>4, <1>9, <1>10, Zenon

\* A set that two others cover is no larger than they are together.
LEMMA Covered ==
  ASSUME NEW z \in Nat, NEW S \in SUBSET (1..z), NEW T \in SUBSET (1..z),
         NEW R \in SUBSET (S \cup T)
  PROVE  /\ Cardinality(S) \in Nat /\ Cardinality(T) \in Nat /\ Cardinality(R) \in Nat
         /\ Cardinality(R) <= Cardinality(S) + Cardinality(T)
<1>1. IsFiniteSet(1..z)
  BY FS_Interval
<1>2. IsFiniteSet(S) /\ IsFiniteSet(T)
  BY <1>1, FS_Subset
<1>3. /\ IsFiniteSet(S \cup T) /\ IsFiniteSet(S \cap T)
      /\ Cardinality(S \cup T) = Cardinality(S) + Cardinality(T) - Cardinality(S \cap T)
  <2>1. IsFiniteSet(S \cap T)
    <3>1. S \cap T \subseteq S
      OBVIOUS
    <3> QED
      BY <1>2, <3>1, FS_Subset
  <2> QED
    BY <1>2, <2>1, FS_Union
<1>4. IsFiniteSet(R) /\ Cardinality(R) <= Cardinality(S \cup T)
  BY <1>3, FS_Subset
<1>5. /\ Cardinality(S) \in Nat /\ Cardinality(T) \in Nat /\ Cardinality(R) \in Nat
      /\ Cardinality(S \cap T) \in Nat
  BY <1>2, <1>3, <1>4, FS_CardinalityType
<1> QED
  BY <1>3, <1>4, <1>5

\* Multiples of fewer and of one more
LEMMA Multiples ==
  ASSUME NEW c \in Nat, NEW k \in Nat, NEW k2 \in Nat
  PROVE  /\ c * k \in Nat /\ c * k2 \in Nat /\ (k + 1) * c = k * c + c
         /\ k2 <= k => c * k2 <= c * k
         /\ k2 + 1 <= k => c * k2 + c <= c * k
         /\ k <= k2 + 1 => c * k <= c * k2 + c
<1>1. c * k \in Nat /\ c * k2 \in Nat /\ (k + 1) * c = k * c + c
  OBVIOUS
<1>2. ASSUME NEW i \in Nat, NEW j \in Nat, i <= j PROVE c * i <= c * j
  <2>1. j - i \in Nat /\ c * j = c * i + c * (j - i)
    BY <1>2
  <2>2. c * (j - i) \in Nat /\ c * i \in Nat /\ c * j \in Nat
    BY <2>1
  <2> QED
    BY <2>1, <2>2
<1>3. c * (k2 + 1) = c * k2 + c /\ k2 + 1 \in Nat
  OBVIOUS
<1>4. k2 <= k => c * k2 <= c * k
  BY <1>2
<1>5. k2 + 1 <= k => c * (k2 + 1) <= c * k
  BY <1>2, <1>3
<1>6. k <= k2 + 1 => c * k <= c * (k2 + 1)
  BY <1>2, <1>3
<1> QED
  BY <1>1, <1>3, <1>4, <1>5, <1>6

\* The cost of a damage is that of a frame and of the bytes of the longest.
LEMMA CostIs ==
  /\ Cost \in Nat /\ Cost - 1 \in Nat /\ Cost - 1 >= 1 /\ (Cost - 1) + 1 = Cost
  /\ \A m \in 0..MaxLen : (m + 9) \div 8 <= Cost - 1
<1>1. MaxLen \in Nat /\ Cost = 2 + (MaxLen + 2) \div 8
  BY ReceiverAssumption DEF Cost, CrcSize, Overhead, HeaderSize
<1> QED
  BY <1>1

\* The bytes ahead are as many frames as would fit.
LEMMA AheadIs ==
  ASSUME NEW d \in Nat, NEW z \in Nat
  PROVE  /\ Ahead(d, z) \in Nat
         /\ d <= z => Ahead(d, z) = 0
         /\ d > z => Ahead(d, z) = (d - z + 7) \div 8
  BY DEF Ahead, Overhead, HeaderSize, CrcSize

\* A read that loses no more than it pays for keeps the account.
LEMMA ReadPaid ==
  ASSUME RxInv, RxInv', Paid, NEW w \in 0..Len(line), Forward(w), NEW g \in Nat,
         Plainly =>
           /\ Cardinality(Passed(w)) + Ahead(Need(at', want'), Len(line'))
                <= Ahead(Need(at, want), Len(line)) + g
           /\ \/ g = 0 /\ faults' = faults
              \/ g <= Cost /\ faults' = faults + 1
              \/ g <= 1 /\ faults' = faults /\ w > 0 /\ line[1] \in Noise
              \/ /\ g <= Cost - 1 /\ faults' = faults
                 /\ \E i \in Cuts : i < Need(at', want') + w
  PROVE  Paid'
<1>1. frames' = frames /\ Len(frames) \in Nat /\ faults \in Nat
  BY Sizes DEF Forward, Reads
<1> SUFFICES ASSUME Plainly
             PROVE  Cardinality(Unsafe)' + Ahead(Need(at', want'), Len(line'))
                      + Cardinality(Noisy)' + (Cost - 1) * Cardinality(Cuts)'
                    <= faults' * ((Cost - 1) + 1)
  <2>1. Plainly' <=> Plainly
    BY <1>1 DEF Plainly
  <2>2. Cost' = Cost
    BY DEF Cost
  <2> QED
    BY <2>1, <2>2 DEF Paid
<1>2. /\ Cardinality(Unsafe) \in Nat /\ Cardinality(Passed(w)) \in Nat
      /\ Cardinality(Unsafe)' \in Nat
      /\ Cardinality(Unsafe)' <= Cardinality(Unsafe) + Cardinality(Passed(w))
  <2>1. Unsafe \in SUBSET (1..Len(frames)) /\ Passed(w) \in SUBSET (1..Len(frames))
    BY DEF Unsafe, Passed
  <2>2. Unsafe' \in SUBSET (Unsafe \cup Passed(w))
    BY ReadUnsafe
  <2> QED
    BY <1>1, <2>1, <2>2, Covered
<1>3. /\ Cardinality(Noisy) \in Nat /\ Cardinality(Noisy)' \in Nat
      /\ Cardinality(Noisy)' <= Cardinality(Noisy)
      /\ w > 0 /\ line[1] \in Noise => Cardinality(Noisy)' + 1 <= Cardinality(Noisy)
  BY ReadCounts
<1>4. /\ Cardinality(Cuts) \in Nat /\ Cardinality(Cuts)' \in Nat
      /\ Cardinality(Cuts)' <= Cardinality(Cuts)
      /\ (\E i \in Cuts : i < Need(at', want') + w) =>
           Cardinality(Cuts)' + 1 <= Cardinality(Cuts)
  BY ReadCounts
<1>5. /\ Ahead(Need(at, want), Len(line)) \in Nat
      /\ Ahead(Need(at', want'), Len(line')) \in Nat
  <2>1. Len(line) \in Nat /\ Len(line') \in Nat
    BY LenProperties DEF RxInv, RxTypeOK
  <2> QED
    BY <2>1, NeedNat, AheadIs
<1>11. PICK c \in Nat, u \in Nat, u2 \in Nat, t \in Nat, a \in Nat, a2 \in Nat,
          m \in Nat, m2 \in Nat, k \in Nat, k2 \in Nat :
       /\ c = Cost - 1 /\ u = Cardinality(Unsafe) /\ u2 = Cardinality(Unsafe)'
       /\ t = Cardinality(Passed(w))
       /\ a = Ahead(Need(at, want), Len(line)) /\ a2 = Ahead(Need(at', want'), Len(line'))
       /\ m = Cardinality(Noisy) /\ m2 = Cardinality(Noisy)'
       /\ k = Cardinality(Cuts) /\ k2 = Cardinality(Cuts)'
  BY <1>2, <1>3, <1>4, <1>5, CostIs, Zenon
<1>6. /\ c * k \in Nat /\ c * k2 \in Nat /\ faults * (c + 1) \in Nat
      /\ k2 <= k => c * k2 <= c * k
      /\ k2 + 1 <= k => c * k2 + c <= c * k
      /\ (faults + 1) * (c + 1) = faults * (c + 1) + (c + 1)
  <2>1. c + 1 \in Nat
    OBVIOUS
  <2>2. faults * (c + 1) = (c + 1) * faults
    BY <1>1, <2>1
  <2> QED
    BY <1>1, <2>1, <2>2, Multiples
<1>12. PICK x \in Nat, x2 \in Nat, q \in Nat :
       x = c * k /\ x2 = c * k2 /\ q = faults * (c + 1)
  BY <1>6
<1>10. u + a + m + x <= q
  BY <1>11, <1>12, Zenon DEF Paid
<1>7. u2 <= u + t /\ t + a2 <= a + g /\ m2 <= m /\ k2 <= k
  BY <1>2, <1>3, <1>4, <1>11, Zenon
<1>8. \/ g = 0 /\ faults' = faults
      \/ g <= c + 1 /\ faults' = faults + 1
      \/ g <= 1 /\ faults' = faults /\ m2 + 1 <= m
      \/ g <= c /\ faults' = faults /\ k2 + 1 <= k
  <2>1. c + 1 = Cost
    BY <1>11, CostIs, Zenon
  <2> QED
    BY <1>3, <1>4, <1>11, <2>1, Zenon
<1>9. u2 + a2 + m2 + c * k2 <= faults' * (c + 1)
  <2>1. k2 <= k => x2 <= x
    BY <1>6, <1>12, Zenon
  <2>2. k2 + 1 <= k => x2 + c <= x
    BY <1>6, <1>12, Zenon
  <2>3. CASE faults' = faults
    <3>1. u2 + a2 + m2 + x2 <= q
      BY <1>1, <1>10, <1>7, <1>8, <2>1, <2>2, <2>3
    <3> QED
      BY <1>12, <2>3, <3>1, Zenon
  <2>4. CASE faults' = faults + 1
    <3>1. u2 + a2 + m2 + x2 <= q + (c + 1)
      BY <1>1, <1>10, <1>7, <1>8, <2>1, <2>2, <2>4
    <3> QED
      BY <1>6, <1>12, <2>4, <3>1, Zenon
  <2> QED
    BY <1>8, <2>3, <2>4
<1> QED
  BY <1>9, <1>11, Zenon

\* A read that passes over no frame without damage leaves the receiver in step
\* if it was, and finds itself in a frame or before one.
LEMMA ReadInStep ==
  ASSUME RxInv, RxInv', InStep, NEW w \in 0..Len(line), Forward(w), faults' >= faults,
         faults' = 0 =>
           /\ Passed(w) = {} /\ at' # "ended"
           /\ at' = "head" /\ line' # <<>> => \E k \in 1..Len(frames) : Whole(k, 1)'
           /\ at' \in {"rest", "crc", "payload"} =>
                \E k \in 1..Len(frames) : InProgress(k)'
  PROVE  InStep'
<1>1. /\ frames' = frames /\ Len(line) \in Nat /\ faults \in Nat
      /\ Len(line') = Len(line) - w /\ w \in Nat
      /\ \A i \in 1..Len(line') : w + i \in 1..Len(line) /\ line'[i] = line[w + i]
  BY Sizes, PlacesAfter DEF Forward
<1>2. faults' \in Nat
  BY ReceiverAssumption DEF RxInv, RxTypeOK
<1> SUFFICES ASSUME faults' = 0
             PROVE  /\ Unsafe' = {}
                    /\ \A i \in 1..Len(line') - 1 : \A m \in 1..Len(frames) :
                         line'[i] = <<m, Size(frames[m])>> =>
                           \E k \in 1..Len(frames) : Whole(k, i + 1)'
  BY <1>1 DEF InStep, Size
<1>3. faults = 0
  BY <1>1, <1>2
<1>4. Unsafe' = {}
  BY <1>3, ReadUnsafe DEF InStep
<1>5. ASSUME NEW i \in 1..Len(line') - 1, NEW m \in 1..Len(frames),
             line'[i] = <<m, Size(frames[m])>>
      PROVE  \E k \in 1..Len(frames) : Whole(k, i + 1)'
  <2>1. /\ w + i \in 1..Len(line) - 1 /\ line[w + i] = <<m, Size(frames[m])>>
        /\ w + i + 1 \in Nat /\ w + i + 1 > w /\ (w + i + 1) - w = i + 1
    <3>1. i \in Nat /\ i >= 1 /\ i + 1 <= Len(line') /\ i \in 1..Len(line')
      BY <1>1
    <3>2. w + i \in 1..Len(line) /\ line'[i] = line[w + i]
      BY <1>1, <3>1
    <3>3. line[w + i] = <<m, Size(frames[m])>>
      BY <1>5, <3>2
    <3>4. w + i + 1 <= Len(line)
      BY <1>1, <3>1
    <3>5. w + i + 1 \in Nat /\ w + i + 1 > w /\ (w + i + 1) - w = i + 1
      BY <1>1, <3>1
    <3> QED
      BY <1>1, <3>2, <3>3, <3>4, <3>5
  <2>2. PICK k \in 1..Len(frames) : Whole(k, w + i + 1)
    BY <1>3, <2>1 DEF InStep
  <2>3. Whole(k, (w + i + 1) - w)'
    BY <2>1, <2>2, ReadWhole DEF Forward
  <2> QED
    BY <2>1, <2>3
<1> QED
  BY <1>4, <1>5

-----------------------------------------------------------------------------
(* Every step keeps the account.                                           *)

LossInv == RxInv /\ Paid /\ InStep

\* What was dispatched and what was excused stay so.
LEMMA StaysSafe ==
  ASSUME delivered' = delivered, NEW k
  PROVE  (\E i \in 1..Len(delivered) : Source(i) = k) =>
           (\E i \in 1..Len(delivered) : Source(i) = k)'
  BY DEF Source

\* A byte that a frame begins with starts one.
LEMMA WholeStarts ==
  ASSUME RxInv, NEW k \in 1..Len(frames), NEW p \in Nat, Whole(k, p)
  PROVE  line[p] = <<k, 1>> /\ Starts(line[p])
<1>1. 1 \in 1..Size(frames[k]) /\ p + 1 - 1 = p /\ k # 0
  BY SizeOf
<1>2. line[p] = <<k, 1>>
  BY <1>1 DEF Whole
<1> QED
  BY <1>1, <1>2 DEF Starts, IsHead

\* A byte is read: it starts a frame, or what is taken for one, or nothing.
LEMMA LossReadHead == ASSUME LossInv, ReadHead PROVE LossInv'
<1>1. /\ RxInv /\ RxInv' /\ Paid /\ InStep /\ 1 \in 0..Len(line) /\ Reads(1)
      /\ at = "head" /\ line # <<>> /\ frames' = frames /\ faults' = faults
      /\ want' = want /\ delivered' = delivered /\ excused' = excused
      /\ at' = IF Starts(line[1]) THEN "rest" ELSE "head"
      /\ Len(line) \in Nat /\ Len(line') = Len(line) - 1 /\ Len(line) >= 1
  <2>1. RxInv /\ RxInv' /\ Paid /\ InStep /\ 1 \in 0..Len(line) /\ Reads(1)
    BY ReadHeadStep, ReadHeadReads DEF LossInv
  <2>2. /\ at = "head" /\ line # <<>> /\ frames' = frames /\ faults' = faults
        /\ want' = want /\ delivered' = delivered /\ excused' = excused
        /\ at' = IF Starts(Head(line)) THEN "rest" ELSE "head"
    BY DEF ReadHead
  <2>3. line \in Seq(Byte) /\ Len(line) \in Nat
    BY <2>1, Counts
  <2>4. Head(line) = line[1]
    BY <2>2, <2>3
  <2> QED
    BY <2>1, <2>2, <2>3, <2>4 DEF Reads
<1>2. want \in Nat /\ want' \in Nat /\ Need(at, want) = 0
  <2>1. want \in Nat
    BY <1>1, Sizes
  <2> QED
    BY <1>1, <2>1, NeedIs
<1>3. Forward(1)
  <2>1. \A k : ~InProgress(k)
    BY <1>1 DEF InProgress
  <2>2. Need(at, want) <= Need(at', want') + 1
    <3>1. Need(at', want') \in Nat
      BY <1>2, NeedIs
    <3> QED
      BY <1>2, <3>1
  <2> QED
    BY <1>1, <2>1, <2>2, StaysSafe DEF Forward
<1>4. faults' >= faults /\ (faults' = 0 => faults = 0)
  BY <1>1, Sizes
<1>5. Ahead(Need(at, want), Len(line)) = 0
  BY <1>1, <1>2, AheadIs
<1>6. CASE \E k \in 1..Len(frames) : Whole(k, 1)
  <2>1. PICK k \in 1..Len(frames) : Whole(k, 1)
    BY <1>6
  <2>2. at' = "rest" /\ Need(at', want') = 4
    <3>1. Starts(line[1])
      BY <1>1, <2>1, WholeStarts
    <3>2. at' = "rest"
      BY <1>1, <3>1
    <3> QED
      BY <1>2, <3>2, NeedIs
  <2>3. InProgress(k)'
    <3>1. ASSUME NEW j \in 2..Size(frames[k])
          PROVE  j - 2 + 1 <= Len(line') /\ line'[j - 2 + 1] = <<k, j>>
      <4>1. Size(frames[k]) \in Nat
        BY <1>1, SizeOf
      <4>2. j \in 1..Size(frames[k]) /\ 1 + j - 1 = j /\ j - 2 + 1 = j - 1 /\ 1 + (j - 1) = j
        BY <4>1
      <4>3. j <= Len(line) /\ line[j] = <<k, j>>
        BY <2>1, <4>2 DEF Whole
      <4>4. j - 1 \in 1..Len(line) - 1
        BY <1>1, <4>1, <4>3
      <4> QED
        BY <1>1, <4>2, <4>3, <4>4 DEF Reads
    <3>2. Size(frames[k])' = Size(frames[k])
      BY <1>1 DEF Size
    <3> QED
      BY <2>2, <3>1, <3>2 DEF InProgress, Remains
  <2>4. Passed(1) = {}
    <3> SUFFICES ASSUME NEW m \in 1..Len(frames), NEW p \in 1..5, Whole(m, p), m # k
                 PROVE  FALSE
      BY <1>2, <2>2, <2>3 DEF Passed
    <3>1. p # 1
      BY <1>1, <2>1, WholeStarts
    <3>2. 1 < p /\ p \in Nat \ {0} /\ 1 \in Nat \ {0}
      BY <3>1
    <3>3. 1 + 8 <= p
      BY <1>1, <2>1, <3>2, WholeApart
    <3> QED
      BY <3>3
  <2>5. Len(line') \in Nat /\ 4 <= Len(line')
    <3>1. 1 + 7 <= Len(line)
      BY <1>1, <2>1, WholeApart
    <3> QED
      BY <1>1, <3>1
  <2>6. Cardinality(Passed(1)) + Ahead(Need(at', want'), Len(line'))
          <= Ahead(Need(at, want), Len(line)) + 0
    <3>1. Ahead(Need(at', want'), Len(line')) = 0
      BY <2>2, <2>5, AheadIs
    <3> QED
      BY <1>5, <2>4, <3>1, FS_EmptySet
  <2>7. Paid'
    BY <1>1, <1>3, <2>6, ReadPaid
  <2>8. InStep'
    BY <1>1, <1>3, <1>4, <2>2, <2>3, <2>4, ReadInStep
  <2> QED
    BY <1>1, <2>7, <2>8 DEF LossInv
<1>7. CASE ~ \E k \in 1..Len(frames) : Whole(k, 1)
  <2>1. faults' # 0
    BY <1>1, <1>4, <1>7 DEF InStep
  <2>2. InStep'
    BY <2>1 DEF InStep
  <2>3. CASE ~Starts(line[1])
    <3>1. at' = "head" /\ Need(at', want') = 0
      <4>1. at' = "head"
        BY <1>1, <2>3
      <4> QED
        BY <1>2, <4>1, NeedIs
    <3>2. Passed(1) = {}
      BY <1>2, <1>7, <3>1 DEF Passed
    <3>3. Cardinality(Passed(1)) + Ahead(Need(at', want'), Len(line'))
            <= Ahead(Need(at, want), Len(line)) + 0
      <4>1. Ahead(Need(at', want'), Len(line')) = 0
        BY <1>1, <3>1, AheadIs
      <4> QED
        BY <1>5, <3>2, <4>1, FS_EmptySet
    <3>4. Paid'
      BY <1>1, <1>3, <3>3, ReadPaid
    <3> QED
      BY <1>1, <2>2, <3>4 DEF LossInv
  <2>4. CASE Starts(line[1])
    <3>1. at' = "rest" /\ Need(at', want') = 4
      <4>1. at' = "rest"
        BY <1>1, <2>4
      <4> QED
        BY <1>2, <4>1, NeedIs
    <3>2. Passed(1) \subseteq 1..Len(frames) /\ \A k \in Passed(1) : \E p \in 2..5 : Whole(k, p)
      <4>1. \A p \in 1..5 : p = 1 \/ p \in 2..5
        OBVIOUS
      <4>2. \A k \in Passed(1) : \E p \in 1..5 : Whole(k, p)
        BY <1>2, <3>1 DEF Passed
      <4> QED
        BY <1>7, <4>1, <4>2 DEF Passed
    <3>3. Cardinality(Passed(1)) + Ahead(Need(at', want'), Len(line')) <= 1
      <4>1. /\ Cardinality(Passed(1)) \in Nat
            /\ 5 <= Len(line) => Cardinality(Passed(1)) <= (5 - 2 + 8) \div 8
            /\ 5 > Len(line) =>
                 Cardinality(Passed(1)) + (5 - Len(line) + 7) \div 8 <= (5 - 2 + 8) \div 8
        <5>1. 2 \in Nat \ {0} /\ 5 \in Nat /\ 2 <= 5 + 1 /\ 2 <= Len(line) + 1
          BY <1>1
        <5> QED
          BY <1>1, <3>2, <5>1, FramesBetween
      <4>2. /\ 4 <= Len(line') => Ahead(4, Len(line')) = 0
            /\ 4 > Len(line') => Ahead(4, Len(line')) = (4 - Len(line') + 7) \div 8
        <5>1. 4 \in Nat /\ Len(line') \in Nat
          BY <1>1
        <5> QED
          BY <5>1, AheadIs
      <4> QED
        BY <1>1, <3>1, <4>1, <4>2
    <3>4. CASE line[1] \in Noise
      <4>1. Paid'
        BY <1>1, <1>3, <1>5, <3>3, <3>4, ReadPaid
      <4> QED
        BY <1>1, <2>2, <4>1 DEF LossInv
    <3>5. CASE \E i \in 1..4 : i <= Len(line) /\ Cut(i)
      <4>1. \E i \in Cuts : i < Need(at', want') + 1
        BY <1>1, <1>2, <3>1, <3>5 DEF Cuts
      <4>2. Paid'
        BY <1>1, <1>3, <1>5, <3>3, <4>1, CostIs, ReadPaid
      <4> QED
        BY <1>1, <2>2, <4>2 DEF LossInv
    <3>6. CASE ~Plainly
      <4>1. Paid'
        BY <1>1, <3>6 DEF Paid, Plainly
      <4> QED
        BY <1>1, <2>2, <4>1 DEF LossInv
    <3>7. CASE Plainly /\ line[1] \notin Noise /\ \A i \in 1..4 : i <= Len(line) => ~Cut(i)
      <4>. PICK e, x : e = line[1][1] /\ x = line[1][2]
        OBVIOUS
      <4>1. line[1] = <<e, x>> /\ e \in 1..Len(frames) /\ x \in 1..Size(frames[e])
        <5>1. line[1] \in Byte
          BY <1>1 DEF RxInv, RxTypeOK
        <5>2. line[1] = <<e, x>> /\ e # 0
          BY <3>7, <5>1 DEF Byte, Noise
        <5> QED
          BY <1>1, <5>2, Sizes
      <4>2. x + 4 <= Size(frames[e]) /\ x \in Nat \ {0}
        <5>1. Size(frames[e]) \in Nat /\ Size(frames[e]) >= 8
          BY <1>1, <4>1, SizeOf
        <5>2. x = 1 \/ x \in frames[e].heads
          BY <2>4, <4>1, <5>1 DEF Starts, IsHead
        <5>3. x \in frames[e].heads => x + 5 - 1 <= Size(frames[e])
          BY <3>7, <4>1 DEF Plainly, EndsPlainly, HeaderSize
        <5> QED
          BY <4>1, <5>1, <5>2, <5>3
      <4>3. /\ \A i \in 1..1 + 4 - 1 : i <= Len(line) => ~Cut(i)
            /\ 1 \in 1..Len(line) /\ 4 \in Nat
        BY <1>1, <3>7
      <4>4. \A y \in 1..4 : 1 + y <= Len(line) /\ Is(line, 1 + y, e, x + y)
        BY <1>1, <4>1, <4>2, <4>3, WalkOn
      <4>5. Passed(1) = {}
        <5> SUFFICES ASSUME NEW k \in 1..Len(frames), NEW p \in 2..5, Whole(k, p) PROVE FALSE
          BY <3>2
        <5>1. p - 1 \in 1..4 /\ 1 + (p - 1) = p
          OBVIOUS
        <5>2. Is(line, p, e, x + (p - 1))
          BY <4>4, <5>1
        <5>3. PICK y \in Nat : y = x + (p - 1)
          BY <4>2
        <5>6. x \in Nat /\ x > 0
          BY <4>2
        <5>4. y > 1 /\ p \in Nat \ {0}
          BY <5>3, <5>6
        <5>5. Is(line, p, e, y)
          BY <5>2, <5>3
        <5> QED
          BY <1>1, <4>1, <5>4, <5>5, NoneBegins
      <4>6. 4 <= Len(line') /\ Len(line') \in Nat
        <5>1. 4 \in 1..4
          OBVIOUS
        <5>2. 1 + 4 <= Len(line)
          BY <4>4, <5>1
        <5> QED
          BY <1>1, <5>2
      <4>7. Cardinality(Passed(1)) + Ahead(Need(at', want'), Len(line'))
              <= Ahead(Need(at, want), Len(line)) + 0
        <5>1. Ahead(Need(at', want'), Len(line')) = 0
          BY <3>1, <4>6, AheadIs
        <5>2. Cardinality(Passed(1)) = 0
          BY <4>5, FS_EmptySet
        <5> QED
          BY <1>5, <5>1, <5>2
      <4>8. Paid'
        BY <1>1, <1>3, <4>7, ReadPaid
      <4> QED
        BY <1>1, <2>2, <4>8 DEF LossInv
    <3> QED
      BY <3>4, <3>5, <3>6, <3>7
  <2> QED
    BY <2>3, <2>4
<1> QED
  BY <1>6, <1>7

\* A header takes no more frames with it than fit in its payload.
LEMMA HeaderLoss ==
  ASSUME RxInv, RxInv', at = "rest", Len(line) >= 4, Reads(4), at' = "crc"
  PROVE  Cardinality(Passed(4)) + Ahead(Need(at', want'), Len(line')) <= Cost - 1
<1>1. /\ Len(line) \in Nat /\ Len(line') = Len(line) - 4 /\ Len(line') \in Nat
      /\ 5 \in Nat \ {0} /\ 5 <= Len(line) + 1
  BY Sizes DEF Reads
<1>2. want \in 0..MaxLen /\ want' \in 0..MaxLen /\ MaxLen \in Nat
  BY ReceiverAssumption DEF RxInv, RxTypeOK
<1>11. PICK v \in Nat : v = want'
  BY <1>2
<1>3. want \in Nat /\ want' \in Nat /\ v \in 0..MaxLen
  BY <1>2, <1>11
<1>4. Need(at, want) = 4 /\ Need(at', want') = 2 + want'
  BY <1>3, NeedIs
<1>5. PICK b \in Nat, d \in Nat, z \in Nat, l \in Nat :
        b = 6 + v /\ d = 2 + v /\ z = Len(line') /\ l = Len(line)
  <2>1. 6 + v \in Nat /\ 2 + v \in Nat
    OBVIOUS
  <2> QED
    BY <1>1, <2>1
<1>6. d = Need(at', want') /\ 5 <= b + 1 /\ l = z + 4 /\ d + 4 = b /\ b = 6 + v
  <2>1. d = Need(at', want')
    <3>1. d = 2 + want'
      BY <1>5, <1>11, Zenon
    <3> QED
      BY <1>4, <3>1, Zenon
  <2>2. d + 4 = b /\ 5 <= b + 1
    BY <1>5
  <2>3. l = z + 4
    BY <1>1, <1>5
  <2> QED
    BY <1>5, <2>1, <2>2, <2>3
<1>7. /\ Cardinality(Passed(4)) \in Nat
      /\ b <= l => Cardinality(Passed(4)) <= (b - 5 + 8) \div 8
      /\ b > l => Cardinality(Passed(4)) + (b - l + 7) \div 8 <= (b - 5 + 8) \div 8
  <2>1. Passed(4) \subseteq 1..Len(frames) /\ \A k \in Passed(4) : \E p \in 5..b : Whole(k, p)
    <3>1. 4 + 1 = 5
      OBVIOUS
    <3>2. \A k \in Passed(4) : \E p \in 4 + 1..d + 4 : Whole(k, p)
      BY <1>4, <1>6 DEF Passed
    <3> QED
      BY <1>6, <3>1, <3>2 DEF Passed
  <2>2. 5 <= b + 1
    BY <1>6
  <2>3. /\ Cardinality(Passed(4)) \in Nat
        /\ b <= Len(line) => Cardinality(Passed(4)) <= (b - 5 + 8) \div 8
        /\ b > Len(line) =>
             Cardinality(Passed(4)) + (b - Len(line) + 7) \div 8 <= (b - 5 + 8) \div 8
    BY <1>1, <2>1, <2>2, FramesBetween
  <2> QED
    BY <1>5, <2>3
<1>8. Ahead(d, z) \in Nat /\ (d <= z => Ahead(d, z) = 0)
      /\ (d > z => Ahead(d, z) = (d - z + 7) \div 8)
  BY AheadIs
<1>9. Cardinality(Passed(4)) + Ahead(d, z) <= (v + 9) \div 8
  <2>1. PICK t \in Nat, a \in Nat : t = Cardinality(Passed(4)) /\ a = Ahead(d, z)
    BY <1>7, <1>8
  <2>2. b - 5 + 8 = v + 9 /\ (b > l <=> d > z) /\ b - l + 7 = d - z + 7
    BY <1>5, <1>6
  <2>3. CASE d <= z
    BY <1>7, <1>8, <2>1, <2>2, <2>3
  <2>4. CASE d > z
    BY <1>7, <1>8, <2>1, <2>2, <2>4
  <2> QED
    BY <2>3, <2>4
<1>10. (v + 9) \div 8 <= Cost - 1 /\ Cost - 1 \in Nat
  BY <1>3, CostIs
<1>12. Cardinality(Passed(4)) + Ahead(d, z) <= Cost - 1
  BY <1>7, <1>8, <1>9, <1>10
<1> QED
  BY <1>5, <1>6, <1>12

\* What is left of a frame that the receiver will get all of, after w of it
LEMMA RemainsAfter ==
  ASSUME RxInv, NEW w \in 0..Len(line), Reads(w), NEW k \in 1..Len(frames),
         NEW x \in Nat \ {0}, Remains(k, x), x + w <= Size(frames[k])
  PROVE  /\ Remains(k, x + w)'
         /\ \A j \in 1..w : line[j] = <<k, x + j - 1>>
         /\ Len(line) >= Size(frames[k]) - x + 1
<1>1. frames' = frames /\ Len(line) \in Nat /\ w \in Nat /\ Size(frames[k]) \in Nat
  BY PlacesAfter, SizeOf
<1>2. Size(frames[k])' = Size(frames[k])
  BY <1>1 DEF Size
<1>3. ASSUME NEW j \in x + w..Size(frames[k])
      PROVE  j - (x + w) + 1 <= Len(line') /\ line'[j - (x + w) + 1] = <<k, j>>
  <2>1. j \in Nat /\ j \in x..Size(frames[k]) /\ j - x + 1 > w
    BY <1>1
  <2>2. j - x + 1 <= Len(line) /\ line[j - x + 1] = <<k, j>>
    BY <2>1 DEF Remains
  <2>3. PICK i \in 1..Len(line) : i = j - x + 1
    BY <1>1, <2>1, <2>2
  <2>4. i - w \in 1..Len(line') /\ line'[i - w] = line[i]
    BY <1>1, <2>1, <2>3, PlacesAfter
  <2>5. i - w = j - (x + w) + 1
    BY <1>1, <2>1, <2>3
  <2>6. line'[i - w] = <<k, j>> /\ i - w <= Len(line')
    BY <2>2, <2>3, <2>4
  <2> QED
    BY <2>5, <2>6
<1>4. ASSUME NEW j \in 1..w PROVE line[j] = <<k, x + j - 1>>
  <2>1. x + j - 1 \in x..Size(frames[k]) /\ (x + j - 1) - x + 1 = j
    BY <1>1
  <2> QED
    BY <2>1 DEF Remains
<1>5. Len(line) >= Size(frames[k]) - x + 1
  <2>1. Size(frames[k]) \in x..Size(frames[k])
    BY <1>1
  <2> QED
    BY <2>1 DEF Remains
<1>6. Remains(k, x + w)'
  BY <1>2, <1>3 DEF Remains
<1> QED
  BY <1>4, <1>5, <1>6

\* A header that is matched costs no more than the cut in its frame, one that
\* passes by accident no more than a damage, and another nothing.
LEMMA LossReadRest == ASSUME LossInv, ReadRest PROVE LossInv'
<1> USE DEF HeaderSize
<1> DEFINE r == Taken(4)
           k == r[1][1]
<1>1. /\ RxInv /\ RxInv' /\ Paid /\ InStep /\ 4 \in 0..Len(line) /\ Reads(4)
      /\ at = "rest" /\ Len(line) >= 4 /\ frames' = frames
      /\ delivered' = delivered /\ excused' = excused
      /\ Len(line) \in Nat /\ Len(line') = Len(line) - 4 /\ Len(line') \in Nat
      /\ Len(r) = 4 /\ r \in Seq(Byte) /\ \A j \in 1..4 : r[j] = line[j]
  <2>1. RxInv /\ RxInv' /\ Paid /\ InStep /\ Len(line) \in Nat
    BY ReadRestStep, Counts DEF LossInv
  <2>2. /\ at = "rest" /\ Len(line) >= 4 /\ frames' = frames /\ Take(4)
        /\ delivered' = delivered /\ excused' = excused
    BY DEF ReadRest
  <2>3. 4 \in Nat /\ 4 <= Len(line) /\ 4 \in 0..Len(line)
    BY <2>1, <2>2
  <2>4. /\ Reads(4) /\ r \in Seq(Byte) /\ Len(r) = 4
        /\ \A j \in 1..4 : r[j] = line[j]
    BY <2>1, <2>2, <2>3, TakeReads, Zenon
  <2>5. Len(line') = Len(line) - 4 /\ Len(line') \in Nat
    BY <2>1, <2>3, <2>4 DEF Reads
  <2> QED
    BY <2>1, <2>2, <2>3, <2>4, <2>5
<1> HIDE DEF r
<1>2. want \in Nat /\ want' \in Nat /\ Need(at, want) = 4 /\ faults \in Nat
  <2>1. want \in 0..MaxLen /\ want' \in 0..MaxLen /\ MaxLen \in Nat /\ faults \in Nat
    BY <1>1, ReceiverAssumption DEF RxInv, RxTypeOK
  <2>2. want \in Nat /\ want' \in Nat
    BY <2>1
  <2> QED
    BY <1>1, <2>1, <2>2, NeedIs
<1>3. Ahead(Need(at, want), Len(line)) = 0
  BY <1>1, <1>2, AheadIs
<1>4. ASSUME NEW m \in 1..Len(frames), InProgress(m)
      PROVE  HeaderMatches(k, r) /\ k = m /\ Remains(m, 2) /\ Remains(m, 6)'
  <2>1. Remains(m, 2)
    BY <1>1, <1>4 DEF InProgress
  <2>2. Size(frames[m]) \in Nat /\ Size(frames[m]) >= 8 /\ m # 0
    BY <1>1, SizeOf
  <2>3. Remains(m, 2 + 4)' /\ \A j \in 1..4 : line[j] = <<m, 2 + j - 1>>
    <3>1. 2 \in Nat \ {0} /\ 2 + 4 <= Size(frames[m])
      BY <2>2
    <3> QED
      BY <1>1, <2>1, <3>1, RemainsAfter
  <2>4. \A j \in 1..4 : r[j] = <<m, 2 + j - 1>>
    BY <1>1, <2>3
  <2>5. k = m
    BY <2>4
  <2>6. r = [j \in 1..4 |-> r[j]]
    BY <1>1
  <2>7. r = [j \in 1..4 |-> <<m, 2 + j - 1>>]
    BY <2>4, <2>6
  <2>8. Part(m, 2, 5) = [j \in 1..4 |-> <<m, 2 + j - 1>>]
    BY DEF Part
  <2>9. 2 + 4 = 6
    OBVIOUS
  <2> QED
    BY <2>1, <2>2, <2>3, <2>5, <2>7, <2>8, <2>9 DEF HeaderMatches
<1>5. CASE HeaderMatches(k, r)
  <2>11. PICK e : e = k
    OBVIOUS
  <2>1. e \in 1..Len(frames) /\ line[4] = <<e, 5>>
    <3>1. e # 0 /\ r = Part(e, 2, 5)
      BY <1>5, <2>11 DEF HeaderMatches
    <3>2. r[1] = <<e, 2>> /\ r[4] = <<e, 5>>
      BY <3>1 DEF Part
    <3>3. line[1] = <<e, 2>> /\ line[4] = <<e, 5>> /\ 1 \in 1..Len(line)
      BY <1>1, <3>2
    <3>4. line[1][1] = e
      BY <3>3
    <3> QED
      BY <1>1, <3>1, <3>3, <3>4, Sizes
  <2>12. PICK v \in Nat : v = frames[e].len
    BY <1>1, <2>1, SizeOf
  <2>2. v <= MaxLen /\ Size(frames[e]) = 7 + v
    BY <1>1, <2>1, <2>12, SizeOf
  <2>3. header' = e /\ at' = "crc" /\ want' = v /\ faults' = faults
    <3>1. AcceptHeader(e, v) /\ faults' = faults
      BY <1>5, <2>11, <2>12 DEF ReadRest, r
    <3> QED
      BY <2>2, <3>1 DEF AcceptHeader, FitsBuffer
  <2>4. Need(at', want') = 2 + v
    BY <1>2, <2>3, NeedIs
  <2>5. \A m \in 1..Len(frames) : InProgress(m) => m = e /\ InProgress(m)' /\ Remains(m, 2)
    <3>1. ASSUME NEW m \in 1..Len(frames), InProgress(m)
          PROVE  m = e /\ InProgress(m)' /\ Remains(m, 2)
      <4>1. m = e /\ Remains(m, 6)' /\ Remains(m, 2)
        BY <1>4, <2>11, <3>1
      <4>2. want' = frames'[m].len
        BY <1>1, <2>3, <2>12, <4>1
      <4> QED
        BY <2>3, <4>1, <4>2 DEF InProgress
    <3> QED
      BY <3>1
  <2>6. Forward(4)
    <3>1. \A m \in 1..Len(frames) : InProgress(m) => Safe(m)'
      BY <2>5 DEF Safe
    <3>2. Need(at, want) <= Need(at', want') + 4
      BY <1>2, <2>4
    <3> QED
      BY <1>1, <3>1, <3>2, StaysSafe DEF Forward
  <2>7. InStep'
    <3>1. ASSUME faults' = 0 PROVE Passed(4) = {} /\ InProgress(e)'
      <4>1. InProgress(e)' /\ Remains(e, 2)
        <5>1. \E m \in 1..Len(frames) : InProgress(m)
          BY <1>1, <2>3, <3>1 DEF InStep
        <5> QED
          BY <2>5, <5>1
      <4>2. ASSUME NEW m \in 1..Len(frames), NEW p \in 5..6 + v, Whole(m, p) PROVE FALSE
        <5>1. line[p] = <<m, 1>>
          BY <1>1, <4>2, WholeStarts
        <5>2. p + 1 \in 2..Size(frames[e]) /\ p + 1 - 2 + 1 = p
          BY <2>2
        <5>3. line[p] = <<e, p + 1>>
          BY <4>1, <5>2 DEF Remains
        <5> QED
          BY <5>1, <5>3
      <4>3. 4 + 1 = 5 /\ 2 + v + 4 = 6 + v
        OBVIOUS
      <4>4. Passed(4) = {}
        BY <1>2, <2>4, <4>2, <4>3 DEF Passed
      <4> QED
        BY <4>1, <4>4
    <3>2. faults' >= faults
      BY <1>2, <2>3
    <3> QED
      BY <1>1, <2>1, <2>3, <2>6, <3>1, <3>2, ReadInStep
  <2>8. CASE \E i \in 4..5 + v : i <= Len(line) /\ Cut(i)
    <3>1. \E i \in Cuts : i < Need(at', want') + 4
      <4>1. PICK i \in 4..5 + v : i <= Len(line) /\ Cut(i)
        BY <2>8
      <4>2. i \in 1..Len(line) /\ i >= 4 /\ i < 2 + v + 4
        BY <1>1, <4>1
      <4> QED
        BY <1>2, <2>4, <4>1, <4>2 DEF Cuts
    <3>2. Cardinality(Passed(4)) + Ahead(Need(at', want'), Len(line')) <= Cost - 1
      BY <1>1, <2>3, HeaderLoss
    <3>3. Cost - 1 \in Nat /\ 0 + (Cost - 1) = Cost - 1 /\ Cost - 1 <= Cost - 1
      BY CostIs
    <3>4. Paid'
      BY <1>1, <1>3, <2>3, <2>6, <3>1, <3>2, <3>3, ReadPaid
    <3> QED
      BY <1>1, <2>7, <3>4 DEF LossInv
  <2>9. CASE \A i \in 4..5 + v : i <= Len(line) => ~Cut(i)
    <3>1. \A y \in 1..2 + v : 4 + y <= Len(line) /\ Is(line, 4 + y, e, 5 + y)
      <4>1. /\ 4 \in 1..Len(line) /\ 5 \in Nat \ {0} /\ 2 + v \in Nat
            /\ 5 + (2 + v) <= Size(frames[e]) /\ 4 + (2 + v) - 1 = 5 + v
        BY <1>1, <2>2
      <4>2. \A i \in 4..4 + (2 + v) - 1 : i <= Len(line) => ~Cut(i)
        BY <2>9, <4>1
      <4> QED
        BY <1>1, <2>1, <4>1, <4>2, WalkOn
    <3>2. Passed(4) = {}
      <4>1. ASSUME NEW m \in 1..Len(frames), NEW p \in 5..6 + v, Whole(m, p) PROVE FALSE
        <5>1. p - 4 \in 1..2 + v /\ 4 + (p - 4) = p
          OBVIOUS
        <5>2. Is(line, p, e, 5 + (p - 4))
          BY <3>1, <5>1
        <5>3. 5 + (p - 4) \in Nat /\ 5 + (p - 4) > 1 /\ p \in Nat \ {0}
          OBVIOUS
        <5> QED
          BY <1>1, <2>1, <4>1, <5>2, <5>3, NoneBegins
      <4>2. 4 + 1 = 5 /\ 2 + v + 4 = 6 + v
        OBVIOUS
      <4> QED
        BY <1>2, <2>4, <4>1, <4>2 DEF Passed
    <3>3. Ahead(Need(at', want'), Len(line')) = 0
      <4>1. 2 + v \in 1..2 + v /\ 2 + v \in Nat
        OBVIOUS
      <4>2. 4 + (2 + v) <= Len(line)
        BY <3>1, <4>1
      <4>3. 2 + v <= Len(line')
        BY <1>1, <4>2
      <4> QED
        BY <1>1, <2>4, <4>1, <4>3, AheadIs
    <3>4. Cardinality(Passed(4)) = 0
      BY <3>2, FS_EmptySet
    <3>5. Cardinality(Passed(4)) + Ahead(Need(at', want'), Len(line'))
            <= Ahead(Need(at, want), Len(line)) + 0
      BY <1>3, <3>3, <3>4
    <3>6. Paid'
      BY <1>1, <2>3, <2>6, <3>5, ReadPaid
    <3> QED
      BY <1>1, <2>7, <3>6 DEF LossInv
  <2> QED
    BY <2>8, <2>9
<1>6. ASSUME ~HeaderMatches(k, r)
      PROVE  /\ \A m \in 1..Len(frames) : ~InProgress(m)
             /\ faults # 0
             /\ Forward(4)
  <2>1. \A m \in 1..Len(frames) : ~InProgress(m)
    BY <1>4, <1>6
  <2>2. Need(at, want) <= Need(at', want') + 4
    <3>1. Need(at', want') \in Nat
      BY <1>2, NeedIs
    <3> QED
      BY <1>2, <3>1
  <2> QED
    BY <1>1, <2>1, <2>2, StaysSafe DEF Forward, InStep
<1>7. CASE ~HeaderMatches(k, r) /\ at' \in {"head", "ended"}
           /\ faults' \in {faults, faults + 1}
  <2>1. Need(at', want') = 0
    BY <1>2, <1>7, NeedIs
  <2>2. Passed(4) = {}
    BY <1>2, <2>1 DEF Passed
  <2>3. Cardinality(Passed(4)) = 0
    BY <2>2, FS_EmptySet
  <2>4. Ahead(Need(at', want'), Len(line')) = 0
    BY <1>1, <2>1, AheadIs
  <2>5. Cardinality(Passed(4)) + Ahead(Need(at', want'), Len(line'))
          <= Ahead(Need(at, want), Len(line)) + 0
    BY <1>3, <2>3, <2>4
  <2>6. Paid'
    <3>1. Cost \in Nat /\ 0 <= Cost
      BY CostIs
    <3> QED
      BY <1>1, <1>6, <1>7, <2>5, <3>1, ReadPaid
  <2>7. faults' # 0
    BY <1>2, <1>6, <1>7
  <2> QED
    BY <1>1, <2>6, <2>7 DEF LossInv, InStep
<1>8. CASE ~HeaderMatches(k, r) /\ at' = "crc" /\ faults' = faults + 1
  <2>1. Cardinality(Passed(4)) + Ahead(Need(at', want'), Len(line')) <= Cost - 1
    BY <1>1, <1>8, HeaderLoss
  <2>2. Cost - 1 \in Nat /\ 0 + (Cost - 1) = Cost - 1 /\ Cost - 1 <= Cost
    BY CostIs
  <2>3. Paid'
    BY <1>1, <1>3, <1>6, <1>8, <2>1, <2>2, ReadPaid
  <2>4. faults' # 0
    BY <1>2, <1>8
  <2> QED
    BY <1>1, <2>3, <2>4 DEF LossInv, InStep
<1> QED
  BY <1>5, <1>7, <1>8 DEF ReadRest, AcceptHeader, MarkError, r

\* A read of bytes that were needed anyway passes over nothing.
LEMMA LossNeeded ==
  ASSUME LossInv, RxInv', NEW w \in 0..Len(line), Reads(w), faults' = faults,
         NEW d \in Nat, NEW d2 \in Nat, d = Need(at, want), d2 = Need(at', want'), d = d2 + w,
         \A k \in 1..Len(frames) :
           /\ k \in excused => k \in excused'
           /\ (\E i \in 1..Len(delivered) : Source(i) = k) =>
                (\E i \in 1..Len(delivered) : Source(i) = k)'
           /\ InProgress(k) => Safe(k)',
         faults = 0 =>
           /\ at' # "ended"
           /\ at' = "head" /\ line' # <<>> => \E k \in 1..Len(frames) : Whole(k, 1)'
           /\ at' \in {"rest", "crc", "payload"} => \E k \in 1..Len(frames) : InProgress(k)'
  PROVE  LossInv'
<1>1. /\ RxInv /\ Paid /\ InStep /\ Len(line) \in Nat /\ w \in Nat
      /\ Len(line') = Len(line) - w /\ Len(line') \in Nat /\ faults \in Nat
  <2>1. RxInv /\ Paid /\ InStep
    BY DEF LossInv
  <2>2. Len(line) \in Nat /\ faults \in Nat
    BY <2>1, Sizes
  <2> QED
    BY <2>1, <2>2 DEF Reads
<1>2. Forward(w)
  <2>1. d <= d2 + w
    BY <1>1
  <2> QED
    BY <2>1 DEF Forward
<1>3. Passed(w) = {}
  <2>1. d + 1..d2 + w = {}
    BY <1>1
  <2> QED
    BY <2>1 DEF Passed
<1>4. Cardinality(Passed(w)) = 0
  BY <1>3, FS_EmptySet
<1>5. Ahead(d2, Len(line')) = Ahead(d, Len(line)) /\ Ahead(d, Len(line)) \in Nat
  <2>1. PICK z \in Nat : z = Len(line')
    BY <1>1
  <2>2. Len(line) = z + w
    BY <1>1, <2>1
  <2>3. d2 <= z <=> d2 + w <= z + w
    BY <1>1
  <2>4. (d2 + w) - (z + w) = d2 - z /\ d2 + w \in Nat /\ z + w \in Nat
    BY <1>1
  <2>5. Ahead(d2 + w, z + w) = Ahead(d2, z) /\ Ahead(d2, z) \in Nat
    <3>1. d2 > z <=> d2 + w > z + w
      BY <1>1
    <3>2. Ahead(d2, z) \in Nat
      BY AheadIs
    <3> QED
      BY <2>4, <3>1, <3>2 DEF Ahead
  <2> QED
    BY <2>1, <2>2, <2>5
<1>6. Cardinality(Passed(w)) + Ahead(Need(at', want'), Len(line'))
        <= Ahead(Need(at, want), Len(line)) + 0
  BY <1>4, <1>5
<1>7. Paid'
  BY <1>1, <1>2, <1>6, ReadPaid
<1>8. InStep'
  BY <1>1, <1>2, <1>3, ReadInStep
<1> QED
  BY <1>7, <1>8 DEF LossInv

\* A CRC16 is of the frame in progress,
LEMMA LossReadCrc == ASSUME LossInv, ReadCrc PROVE LossInv'
<1> USE DEF CrcSize
<1> DEFINE r == Taken(2)
           k == r[1][1]
<1>1. /\ RxInv /\ RxInv' /\ at = "crc" /\ at' = "payload" /\ Len(line) >= 2 /\ Take(2)
      /\ frames' = frames /\ UNCHANGED <<header, want, delivered, excused, faults>>
      /\ crcOf' = IF k # 0 /\ r = Part(k, 6, 7) THEN k ELSE 0
      /\ Len(line) \in Nat /\ InStep
  <2>1. RxInv /\ InStep /\ Len(line) \in Nat
    BY Sizes DEF LossInv
  <2> QED
    BY <2>1, ReadCrcStep DEF ReadCrc, Overhead, HeaderSize
<1>2. /\ 2 \in 0..Len(line) /\ Reads(2)
      /\ Len(r) = 2 /\ r \in Seq(Byte) /\ \A j \in 1..2 : r[j] = line[j]
  <2>1. 2 \in Nat /\ 2 <= Len(line) /\ 2 \in 0..Len(line)
    BY <1>1
  <2> QED
    BY <1>1, <2>1, TakeReads, Zenon
<1> HIDE DEF r
<1>3. want \in Nat /\ want' = want
  BY <1>1, Sizes
<1>4. Need(at, want) = 2 + want /\ Need(at', want') = want
  BY <1>1, <1>3, NeedIs
<1>5. ASSUME NEW m \in 1..Len(frames), InProgress(m) PROVE InProgress(m)'
  <2>1. header = m /\ want = frames[m].len /\ Remains(m, 6)
    BY <1>1, <1>5 DEF InProgress
  <2>2. Size(frames[m]) \in Nat /\ Size(frames[m]) >= 8 /\ m # 0
    BY <1>1, SizeOf
  <2>3. Remains(m, 6 + 2)' /\ \A j \in 1..2 : line[j] = <<m, 6 + j - 1>>
    <3>1. 6 \in Nat \ {0} /\ 6 + 2 <= Size(frames[m])
      BY <2>2
    <3> QED
      BY <1>1, <1>2, <2>1, <3>1, RemainsAfter
  <2>4. \A j \in 1..2 : r[j] = <<m, 6 + j - 1>>
    BY <1>2, <2>3
  <2>5. k = m
    BY <2>4
  <2>6. r = [j \in 1..2 |-> r[j]]
    BY <1>2
  <2>7. r = [j \in 1..2 |-> <<m, 6 + j - 1>>]
    BY <2>4, <2>6
  <2>8. Part(m, 6, 7) = [j \in 1..2 |-> <<m, 6 + j - 1>>]
    BY DEF Part
  <2>9. crcOf' = m
    BY <1>1, <2>2, <2>5, <2>7, <2>8
  <2>10. 6 + 2 = 8 /\ frames'[m] = frames[m]
    BY <1>1
  <2> QED
    BY <1>1, <2>1, <2>3, <2>9, <2>10 DEF InProgress
<1>6. \A m \in 1..Len(frames) : InProgress(m) => Safe(m)'
  BY <1>5 DEF Safe
<1>7. faults = 0 => \E m \in 1..Len(frames) : InProgress(m)'
  BY <1>1, <1>5 DEF InStep
<1>8. want + 2 = 2 + want /\ 2 + want \in Nat
  BY <1>3
<1> QED
  BY <1>1, <1>2, <1>3, <1>4, <1>6, <1>7, <1>8, StaysSafe, LossNeeded

\* and then its payload is dispatched.
LEMMA LossReadPayload == ASSUME LossInv, ReadPayload PROVE LossInv'
<1> DEFINE data == Taken(want)
           new == [cmd |-> header, data |-> data]
<1>1. /\ RxInv /\ RxInv' /\ at = "payload" /\ at' = "head" /\ Len(line) >= want /\ Take(want)
      /\ frames' = frames /\ UNCHANGED <<header, want, crcOf, excused, faults>>
      /\ delivered' = IF CrcMatches(crcOf, data) THEN Append(delivered, new) ELSE delivered
      /\ InStep
  <2>1. RxInv /\ InStep
    BY DEF LossInv
  <2> QED
    BY <2>1, ReadPayloadStep DEF ReadPayload
<1>2. Len(line) \in Nat /\ want \in Nat /\ want \in 0..Len(line)
  <2>1. Len(line) \in Nat /\ want \in Nat
    BY <1>1, Sizes
  <2> QED
    BY <1>1, <2>1
<1>3. Reads(want) /\ Len(data) = want /\ data \in Seq(Byte) /\ \A j \in 1..want : data[j] = line[j]
  <2>1. want <= Len(line)
    BY <1>1
  <2> QED
    BY <1>1, <1>2, <2>1, TakeReads, Zenon
<1> HIDE DEF data
<1>4. Need(at, want) = want /\ Need(at', want') = 0
  BY <1>1, <1>2, NeedIs
<1>5. /\ Len(delivered) \in Nat
      /\ CrcMatches(crcOf, data) =>
           /\ Len(delivered') = Len(delivered) + 1
           /\ delivered'[Len(delivered) + 1] = new
           /\ \A i \in 1..Len(delivered) : delivered'[i] = delivered[i]
  <2>1. delivered \in Seq([cmd : 0..Len(frames), data : Seq(Byte)])
    BY <1>1 DEF RxInv, RxTypeOK
  <2> HIDE DEF new
  <2>2. delivered \in Seq([cmd : 0..Len(frames), data : Seq(Byte)] \cup {new})
    BY <2>1, SeqMonotonic
  <2> QED
    BY <1>1, <2>2, AppendProperties, LenProperties
<1>6. ASSUME NEW m, \E i \in 1..Len(delivered) : Source(i) = m
      PROVE  (\E i \in 1..Len(delivered) : Source(i) = m)'
  <2>1. PICK i \in 1..Len(delivered) : Source(i) = m
    BY <1>6
  <2>2. i \in 1..Len(delivered') /\ delivered'[i] = delivered[i]
    BY <1>1, <1>5
  <2> QED
    BY <2>1, <2>2 DEF Source
<1>7. ASSUME NEW m \in 1..Len(frames), InProgress(m)
      PROVE  /\ (\E i \in 1..Len(delivered) : Source(i) = m)'
             /\ want \in 1..Len(line) /\ line[want] = <<m, Size(frames[m])>>
  <2>1. crcOf = m /\ want = frames[m].len /\ Remains(m, 8)
    BY <1>1, <1>7 DEF InProgress
  <2>2. Size(frames[m]) = 7 + want /\ want > 0 /\ m # 0
    BY <1>1, <2>1, SizeOf
  <2>3. ASSUME NEW j \in 1..want PROVE line[j] = <<m, 7 + j>>
    <3>1. 7 + j \in 8..Size(frames[m]) /\ (7 + j) - 8 + 1 = j
      BY <1>2, <2>2
    <3> QED
      BY <2>1, <3>1 DEF Remains
  <2>4. data = [j \in 1..want |-> <<m, 7 + j>>]
    <3>1. data = [j \in 1..want |-> data[j]]
      BY <1>3
    <3>2. \A j \in 1..want : data[j] = <<m, 7 + j>>
      BY <1>3, <2>3
    <3> QED
      BY <3>1, <3>2
  <2>5. Payload(m) = [j \in 1..want |-> <<m, 7 + j>>]
    <3>1. Payload(m) = [j \in 1..(Size(frames[m]) - 8 + 1) |-> <<m, 8 + j - 1>>]
      BY DEF Payload, Part, Overhead, HeaderSize, CrcSize
    <3>2. Size(frames[m]) - 8 + 1 = want /\ \A j \in 1..want : 8 + j - 1 = 7 + j
      BY <1>2, <2>2
    <3> QED
      BY <3>1, <3>2
  <2>6. CrcMatches(crcOf, data)
    BY <2>1, <2>2, <2>4, <2>5 DEF CrcMatches
  <2>7. 1 \in 1..want /\ want \in 1..want /\ want \in 1..Len(line)
    BY <1>1, <1>2, <2>2
  <2>8. data[1][1] = m
    BY <1>3, <2>3, <2>7
  <2>9. PICK i : i = Len(delivered) + 1
    OBVIOUS
  <2>11. i \in 1..Len(delivered') /\ Source(i)' = m
    BY <1>5, <2>6, <2>8, <2>9 DEF Source
  <2>10. line[want] = <<m, Size(frames[m])>>
    BY <2>2, <2>3, <2>7
  <2> QED
    BY <2>7, <2>10, <2>11
<1>8. \A m \in 1..Len(frames) : InProgress(m) => Safe(m)'
  BY <1>7 DEF Safe
<1>9. ASSUME faults = 0, line' # <<>> PROVE \E m \in 1..Len(frames) : Whole(m, 1)'
  <2>1. PICK k \in 1..Len(frames) : InProgress(k)
    BY <1>1, <1>9 DEF InStep
  <2>2. want \in 1..Len(line) /\ line[want] = <<k, Size(frames[k])>>
    BY <1>7, <2>1
  <2>3. want \in 1..Len(line) - 1
    <3>1. line' \in Seq(Byte) /\ Len(line') = Len(line) - want
      BY <1>3 DEF Reads
    <3>2. Len(line') # 0
      BY <1>9, <3>1, EmptySeq
    <3> QED
      BY <1>2, <2>2, <3>1, <3>2
  <2>4. PICK m \in 1..Len(frames) : Whole(m, want + 1)
    BY <1>1, <1>9, <2>2, <2>3 DEF InStep
  <2>5. PICK w \in Nat, q \in Nat, x \in Nat : w = want /\ q = want + 1 /\ x = 1
    BY <1>2
  <2>6. q > w /\ q - w = x /\ w \in 0..Len(line) /\ Reads(w) /\ Whole(m, q)
    BY <1>2, <1>3, <2>4, <2>5
  <2>7. Whole(m, q - w)'
    BY <1>1, <2>6, ReadWhole
  <2>8. Whole(m, x)'
    BY <2>6, <2>7
  <2> QED
    BY <2>5, <2>8
<1>10. want = 0 + want /\ 0 \in Nat
  BY <1>2
<1> QED
  BY <1>1, <1>2, <1>3, <1>4, <1>6, <1>8, <1>9, <1>10, LossNeeded

\* What a short read or a reconnection throws away is excused.
LEMMA LossClear == ASSUME LossInv, ShortRead \/ Reopen PROVE LossInv'
<1>1. /\ RxInv /\ RxInv' /\ Paid /\ InStep /\ at' \in {"head", "ended"} /\ line' = <<>>
      /\ excused' = excused \cup {line[i][1] : i \in 1..Len(line)}
      /\ UNCHANGED <<frames, header, want, crcOf, delivered, faults>>
      /\ Len(line) < Needed \/ at = "ended"
      /\ Len(line) \in Nat /\ want \in Nat
  <2>1. RxInv /\ Paid /\ InStep /\ Len(line) \in Nat /\ want \in Nat
    BY Sizes DEF LossInv
  <2>2. RxInv'
    BY <2>1, ClearStep DEF ShortRead, Reopen, MarkError
  <2> QED
    BY <2>1, <2>2 DEF ShortRead, Reopen, MarkError
<1>2. Len(line) \in 0..Len(line) /\ Reads(Len(line)) /\ Len(line') = 0
  BY <1>1 DEF Reads
<1>3. ASSUME NEW k \in 1..Len(frames), InProgress(k) PROVE FALSE
  <2>1. /\ Size(frames[k]) \in Nat /\ Size(frames[k]) >= 8 /\ Size(frames[k]) = 7 + frames[k].len
        /\ frames[k].len \in Nat /\ frames[k].len > 0
    BY <1>1, SizeOf
  <2>2. ASSUME NEW x \in 1..Size(frames[k]), Remains(k, x)
        PROVE  Size(frames[k]) - x + 1 <= Len(line)
    <3>1. Size(frames[k]) \in x..Size(frames[k])
      BY <2>1
    <3> QED
      BY <2>2, <3>1 DEF Remains
  <2>3. 2 \in 1..Size(frames[k]) /\ 6 \in 1..Size(frames[k]) /\ 8 \in 1..Size(frames[k])
    BY <2>1
  <2>4. CASE at = "rest"
    <3>1. Len(line) < 4 /\ Size(frames[k]) - 2 + 1 <= Len(line)
      BY <1>1, <1>3, <2>2, <2>3, <2>4 DEF InProgress, Needed, HeaderSize
    <3> QED
      BY <1>1, <2>1, <3>1
  <2>5. CASE at = "crc"
    <3>1. Len(line) < 2 /\ Size(frames[k]) - 6 + 1 <= Len(line)
      BY <1>1, <1>3, <2>2, <2>3, <2>5 DEF InProgress, Needed, CrcSize
    <3> QED
      BY <1>1, <2>1, <3>1
  <2>6. CASE at = "payload"
    <3>1. Len(line) < want /\ Size(frames[k]) - 8 + 1 <= Len(line) /\ want = frames[k].len
      BY <1>1, <1>3, <2>2, <2>3, <2>6 DEF InProgress, Needed
    <3> QED
      BY <1>1, <2>1, <3>1
  <2> QED
    BY <1>3, <2>4, <2>5, <2>6 DEF InProgress
<1>4. faults # 0
  <2>1. at = "ended" \/ at \in {"rest", "crc", "payload"}
    <3>1. at \in {"head", "rest", "crc", "payload", "ended"}
      BY <1>1 DEF RxInv, RxTypeOK
    <3>2. at # "head"
      BY <1>1 DEF Needed
    <3> QED
      BY <3>1, <3>2
  <2> QED
    BY <1>1, <1>3, <2>1 DEF InStep
<1>5. Unsafe' \subseteq Unsafe
  <2> SUFFICES ASSUME NEW k \in 1..Len(frames), Safe(k) PROVE Safe(k)'
    BY <1>1 DEF Unsafe
  <2>1. CASE k \in excused \/ \E i \in 1..Len(delivered) : Source(i) = k
    BY <1>1, <2>1, StaysSafe DEF Safe
  <2>2. CASE \E p \in Need(at, want) + 1..Len(line) : Whole(k, p)
    <3>1. PICK p \in Need(at, want) + 1..Len(line) : Whole(k, p)
      BY <2>2
    <3>2. p \in 1..Len(line)
      <4>1. Need(at, want) \in Nat
        BY <1>1, NeedIs
      <4> QED
        BY <1>1, <4>1
    <3>3. line[p] = <<k, 1>>
      BY <1>1, <3>1, <3>2, WholeStarts
    <3>4. k \in excused'
      BY <1>1, <3>2, <3>3
    <3> QED
      BY <3>4 DEF Safe
  <2> QED
    BY <1>3, <2>1, <2>2 DEF Safe
<1>6. Noisy' = {} /\ Cuts' = {} /\ Need(at', want') = 0
  BY <1>1, <1>2, NeedIs DEF Noisy, Cuts
<1>7. Paid'
  <2>1. Plainly' <=> Plainly
    BY <1>1 DEF Plainly
  <2> SUFFICES ASSUME Plainly
               PROVE  Cardinality(Unsafe)' + Ahead(Need(at', want'), Len(line'))
                        + Cardinality(Noisy)' + (Cost - 1) * Cardinality(Cuts)'
                      <= faults' * ((Cost - 1) + 1)
    <3>1. Cost' = Cost
      BY DEF Cost
    <3> QED
      BY <2>1, <3>1 DEF Paid
  <2>2. /\ Cardinality(Unsafe) \in Nat /\ Cardinality(Unsafe)' \in Nat
        /\ Cardinality(Unsafe)' <= Cardinality(Unsafe)
    <3>1. IsFiniteSet(1..Len(frames)) /\ Unsafe \subseteq 1..Len(frames)
      <4>1. Len(frames) \in Nat
        BY <1>1, Sizes
      <4> QED
        BY <4>1, FS_Interval DEF Unsafe
    <3>2. IsFiniteSet(Unsafe)
      BY <3>1, FS_Subset
    <3>3. IsFiniteSet(Unsafe') /\ Cardinality(Unsafe') <= Cardinality(Unsafe)
      BY <1>5, <3>2, FS_Subset
    <3> QED
      BY <3>2, <3>3, FS_CardinalityType
  <2>3. Ahead(Need(at', want'), Len(line')) = 0
    BY <1>2, <1>6, AheadIs
  <2>4. Cardinality(Noisy)' = 0 /\ Cardinality(Cuts)' = 0
    BY <1>6, FS_EmptySet
  <2>5. /\ Cardinality(Noisy) \in Nat /\ Cardinality(Cuts) \in Nat
        /\ Ahead(Need(at, want), Len(line)) \in Nat
    <3>1. /\ IsFiniteSet(1..Len(line))
          /\ Noisy \subseteq 1..Len(line) /\ Cuts \subseteq 1..Len(line)
      <4>1. IsFiniteSet(1..Len(line))
        BY <1>1, FS_Interval
      <4>2. Noisy \subseteq 1..Len(line) /\ Cuts \subseteq 1..Len(line)
        BY DEF Noisy, Cuts
      <4> QED
        BY <4>1, <4>2
    <3>2. IsFiniteSet(Noisy) /\ IsFiniteSet(Cuts)
      BY <3>1, FS_Subset
    <3>3. Need(at, want) \in Nat
      BY <1>1, NeedIs
    <3> QED
      BY <1>1, <3>2, <3>3, FS_CardinalityType, AheadIs
  <2>6. PICK c \in Nat, u \in Nat, u2 \in Nat, a \in Nat, m \in Nat, k \in Nat :
          /\ c = Cost - 1 /\ u = Cardinality(Unsafe) /\ u2 = Cardinality(Unsafe)'
          /\ a = Ahead(Need(at, want), Len(line))
          /\ m = Cardinality(Noisy) /\ k = Cardinality(Cuts)
    BY <2>2, <2>5, CostIs, Zenon
  <2>7. c * k \in Nat /\ c * 0 = 0
    OBVIOUS
  <2>8. PICK q : q = faults * (c + 1)
    OBVIOUS
  <2>9. u + a + m + c * k <= q
    BY <1>1, <2>6, <2>8, Zenon DEF Paid
  <2>10. q \in Nat
    <3>1. faults \in Nat /\ c + 1 \in Nat
      BY <1>1, Sizes
    <3> QED
      BY <2>8, <3>1
  <2>11. u2 <= u
    BY <2>2, <2>6, Zenon
  <2>12. u2 + 0 + 0 + 0 <= q
    BY <2>7, <2>9, <2>10, <2>11
  <2>13. u2 + 0 + 0 + c * 0 <= q
    BY <2>7, <2>12, Zenon
  <2> QED
    BY <1>1, <2>3, <2>4, <2>6, <2>8, <2>13, Zenon
<1> QED
  BY <1>1, <1>4, <1>7 DEF LossInv, InStep

\* A frame after all that is on the line
LEMMA SentPlaces ==
  ASSUME RxInv, NEW c \in Contents, NEW d, Appends(c, d)
  PROVE  /\ Len(line) \in Nat /\ Len(d) \in Nat /\ Len(frames) \in Nat
         /\ Len(line') = Len(line) + Len(d) /\ Len(frames') = Len(frames) + 1
         /\ frames'[Len(frames) + 1] = c
         /\ \A i \in 1..Len(line) : i \in 1..Len(line') /\ line'[i] = line[i]
         /\ \A i \in 1..Len(d) : Len(line) + i \in 1..Len(line') /\ line'[Len(line) + i] = d[i]
         /\ \A k \in 1..Len(frames) : k \in 1..Len(frames') /\ frames'[k] = frames[k]
<1>1. Len(line) \in Nat /\ Len(frames) \in Nat
  BY Sizes
<1>2. ASSUME NEW i \in 1..Len(d)
      PROVE  Len(line) + i \in 1..Len(line') /\ line'[Len(line) + i] = d[i]
  <2>1. /\ Len(line) + i \in 1..Len(line') /\ Len(line) + i > Len(line)
        /\ (Len(line) + i) - Len(line) = i
    BY <1>1 DEF Appends
  <2> QED
    BY <2>1 DEF Appends
<1> QED
  BY <1>1, <1>2 DEF Appends

\* No byte that went on is cut off by it.
LEMMA SentCut ==
  ASSUME RxInv, NEW c \in Contents, NEW d, Appends(c, d), NEW i \in 1..Len(line), Cut(i)'
  PROVE  Cut(i)
<1> USE SentPlaces
<1>1. line'[i] = line[i] /\ i \in 1..Len(line')
  OBVIOUS
<1>2. PICK e, x : e = line[i][1] /\ x = line[i][2]
  OBVIOUS
<1>3. e # 0 => e \in 1..Len(frames) /\ Size(frames'[e]) = Size(frames[e])
  BY <1>2, Sizes
<1>4. e # 0 /\ x < Size(frames'[e]) /\ ~Goes(e, x, i)'
  BY <1>1, <1>2 DEF Cut, Size
<1>5. ASSUME Goes(e, x, i) PROVE Goes(e, x, i)'
  <2>1. i < Len(line) => i < Len(line') /\ line'[i + 1] = line[i + 1]
    <3>1. i < Len(line) => i + 1 \in 1..Len(line)
      OBVIOUS
    <3> QED
      BY <3>1
  <2>2. i + 1 < Len(line) => i + 1 < Len(line') /\ line'[i + 2] = line[i + 2]
    <3>1. i + 1 < Len(line) => i + 2 \in 1..Len(line)
      OBVIOUS
    <3> QED
      BY <3>1
  <2>3. Size(frames[e])' = Size(frames[e])
    BY <1>3, <1>4 DEF Size
  <2> QED
    BY <1>5, <2>1, <2>2, <2>3 DEF Goes
<1> QED
  BY <1>2, <1>3, <1>4, <1>5 DEF Cut

\* The frames before it are as safe as they were.
LEMMA SentSafe ==
  ASSUME RxInv, NEW c \in Contents, NEW d, Appends(c, d), UNCHANGED receiver,
         NEW k \in 1..Len(frames)
  PROVE  /\ Size(frames[k])' = Size(frames[k])
         /\ \A p \in Nat \ {0} : Whole(k, p) => Whole(k, p)'
         /\ InProgress(k) => InProgress(k)'
         /\ Safe(k) => Safe(k)'
<1>0. /\ Len(line) \in Nat /\ Len(d) \in Nat /\ Len(line') = Len(line) + Len(d)
      /\ \A i \in 1..Len(line) : i \in 1..Len(line') /\ line'[i] = line[i]
      /\ frames'[k] = frames[k]
  BY SentPlaces
<1>1. /\ Size(frames[k]) \in Nat /\ Size(frames[k])' = Size(frames[k])
      /\ frames'[k] = frames[k]
  BY <1>0, SizeOf DEF Size
<1>2. ASSUME NEW p \in Nat \ {0}, Whole(k, p) PROVE Whole(k, p)'
  <2>1. ASSUME NEW j \in 1..Size(frames[k])
        PROVE  p + j - 1 <= Len(line') /\ line'[p + j - 1] = <<k, j>>
    <3>1. p + j - 1 \in 1..Len(line) /\ line[p + j - 1] = <<k, j>>
      BY <1>1, <1>2 DEF Whole
    <3> QED
      BY <1>0, <3>1
  <2> QED
    BY <1>1, <2>1 DEF Whole
<1>3. ASSUME NEW x \in Nat, Remains(k, x) PROVE Remains(k, x)'
  <2>1. ASSUME NEW j \in x..Size(frames[k])
        PROVE  j - x + 1 <= Len(line') /\ line'[j - x + 1] = <<k, j>>
    <3>1. j - x + 1 \in 1..Len(line) /\ line[j - x + 1] = <<k, j>>
      BY <1>1, <1>3 DEF Remains
    <3>2. PICK i \in 1..Len(line) : i = j - x + 1
      BY <3>1
    <3>3. i <= Len(line') /\ line'[i] = <<k, j>>
      BY <1>0, <3>1, <3>2
    <3> QED
      BY <3>2, <3>3
  <2> QED
    BY <1>1, <2>1 DEF Remains
<1>4. ASSUME InProgress(k) PROVE InProgress(k)'
  BY <1>1, <1>3, <1>4 DEF InProgress, receiver
<1>5. ASSUME Safe(k) PROVE Safe(k)'
  <2>1. k \in excused => k \in excused'
    BY DEF receiver
  <2>2. (\E i \in 1..Len(delivered) : Source(i) = k) =>
           (\E i \in 1..Len(delivered) : Source(i) = k)'
    BY StaysSafe DEF receiver
  <2>3. ASSUME NEW p \in Need(at, want) + 1..Len(line), Whole(k, p) PROVE Safe(k)'
    <3>1. Need(at, want) \in Nat /\ at' = at /\ want' = want
      BY Sizes DEF receiver
    <3>2. p \in Nat \ {0}
      BY <3>1
    <3>3. p \in Need(at', want') + 1..Len(line') /\ Whole(k, p)'
      BY <1>0, <1>2, <2>3, <3>1, <3>2
    <3> QED
      BY <3>3 DEF Safe
  <2> QED
    BY <1>4, <1>5, <2>1, <2>2, <2>3 DEF Safe
<1> QED
  BY <1>1, <1>2, <1>4, <1>5

\* d is the frame k of z bytes but for g of them after the byte j, ...
Gap(d, k, z, j, g) ==
  /\ j + g <= z /\ Len(d) = z - g
  /\ \A i \in 1..z - g : d[i] = IF i <= j THEN <<k, i>> ELSE <<k, i + g>>

\* ... or but for the byte j, which was changed.
Changed(d, k, z, j) ==
  /\ Len(d) = z /\ d[j] \in Noise
  /\ \A i \in 1..z : i # j => d[i] = <<k, i>>

\* One damage does not do more.
LEMMA DamageIs ==
  ASSUME NEW k \in Nat \ {0}, NEW c, Size(c) \in Nat, NEW d \in Damaged(Bytes(k, c))
  PROVE  \/ \E j \in 0..Size(c), g \in 0..Size(c) : Gap(d, k, Size(c), j, g)
         \/ \E j \in 1..Size(c) : Changed(d, k, Size(c), j)
<1> DEFINE z == Size(c)
           B == Bits(k, z)
           s == Bytes(k, c)
<1>1. s \in Seq(B) /\ Len(s) = z /\ \A j \in 1..z : s[j] = <<k, j>>
  BY DEF Bytes, Bits
<1>2. z \in Nat /\ \A j \in 1..z : s[j] \in B
  BY <1>1
<1>3. Noise \subseteq B
  BY DEF Bits
<1>0. d \in Damaged(s)
  OBVIOUS
<1> HIDE DEF z, s, B
<1>4. ASSUME NEW j \in 1..z, d = RemoveAt(s, j) PROVE Gap(d, k, z, j - 1, 1)
  <2> DEFINE a == SubSeq(s, 1, j - 1)
             b == SubSeq(s, j + 1, z)
  <2>1. a \in Seq(B) /\ Len(a) = j - 1 /\ \A i \in 1..j - 1 : a[i] = <<k, i>>
    BY <1>1, <1>2, SubSeqProperties
  <2>2. b \in Seq(B) /\ Len(b) = z - j /\ \A i \in 1..z - j : b[i] = <<k, j + i>>
    <3>1. \A i \in j + 1..z : s[i] \in B
      BY <1>2
    <3>2. /\ b \in Seq(B) /\ Len(b) = IF j + 1 <= z THEN z - (j + 1) + 1 ELSE 0
          /\ \A i \in 1..z - (j + 1) + 1 : b[i] = s[(j + 1) + i - 1]
      BY <1>2, <3>1, SubSeqProperties
    <3> QED
      BY <1>1, <1>2, <3>2
  <2>5. d = a \o b
    BY <1>1, <1>4 DEF RemoveAt
  <2> HIDE DEF a, b
  <2>3. /\ Len(d) = Len(a) + Len(b)
        /\ \A i \in 1..Len(a) + Len(b) : d[i] = IF i <= Len(a) THEN a[i] ELSE b[i - Len(a)]
    BY <2>1, <2>2, <2>5, ConcatProperties
  <2>4. Len(d) = z - 1 /\ z - 1 \in Nat
    BY <1>2, <2>1, <2>2, <2>3
  <2>6. ASSUME NEW i \in 1..z - 1 PROVE d[i] = IF i <= j - 1 THEN <<k, i>> ELSE <<k, i + 1>>
    <3>1. CASE i <= j - 1
      <4>1. i \in 1..j - 1 /\ i \in 1..Len(a) + Len(b) /\ i <= Len(a)
        BY <1>2, <2>1, <2>2, <3>1
      <4> QED
        BY <2>1, <2>3, <3>1, <4>1
    <3>2. CASE ~(i <= j - 1)
      <4>1. i - Len(a) \in 1..z - j /\ i \in 1..Len(a) + Len(b) /\ ~(i <= Len(a))
        BY <1>2, <2>1, <2>2, <3>2
      <4>2. d[i] = <<k, j + (i - Len(a))>>
        BY <2>2, <2>3, <4>1
      <4>3. j + (i - Len(a)) = i + 1
        BY <2>1
      <4> QED
        BY <3>2, <4>2, <4>3
    <3> QED
      BY <3>1, <3>2
  <2> QED
    BY <1>2, <2>4, <2>6 DEF Gap
<1>5. ASSUME NEW j \in 1..z, NEW b \in Noise, d = [s EXCEPT ![j] = b] PROVE Changed(d, k, z, j)
  <2>1. Len(d) = z /\ \A i \in 1..z : d[i] = IF i = j THEN b ELSE s[i]
    BY <1>1, <1>3, <1>5, ExceptSeq
  <2> QED
    BY <1>1, <1>5, <2>1 DEF Changed
<1>6. ASSUME NEW j \in 1..z, NEW l \in 0..z, j <= l + 1
      PROVE  LET e == SubSeq(s, j, l) IN
             Len(e) = l - j + 1 /\ \A i \in 1..l - j + 1 : e[i] = <<k, j + i - 1>>
  <2> DEFINE e == SubSeq(s, j, l)
  <2>1. \A i \in j..l : s[i] \in B
    BY <1>2
  <2>2. /\ e \in Seq(B) /\ Len(e) = IF j <= l THEN l - j + 1 ELSE 0
        /\ \A i \in 1..l - j + 1 : e[i] = s[j + i - 1]
    BY <1>2, <2>1, SubSeqProperties
  <2> HIDE DEF e
  <2>3. ASSUME NEW i \in 1..l - j + 1 PROVE e[i] = <<k, j + i - 1>>
    <3>1. j + i - 1 \in 1..z
      BY <1>2
    <3> QED
      BY <1>1, <2>2, <3>1
  <2>4. Len(e) = l - j + 1
    BY <1>6, <2>2
  <2> QED
    BY <2>3, <2>4 DEF e
<1>7. ASSUME NEW j \in 3..z, d = SubSeq(s, j, z) PROVE Gap(d, k, z, 0, j - 1)
  <2>1. j \in 1..z /\ z \in 0..z /\ j <= z + 1
    BY <1>2
  <2>2. Len(d) = z - j + 1 /\ \A i \in 1..z - j + 1 : d[i] = <<k, j + i - 1>>
    BY <1>6, <1>7, <2>1
  <2>3. z - j + 1 = z - (j - 1) /\ \A i \in 1..z - (j - 1) : j + i - 1 = i + (j - 1) /\ ~(i <= 0)
    BY <1>2
  <2> QED
    BY <1>2, <2>2, <2>3 DEF Gap
<1>8. ASSUME NEW j \in 1..z - 2, d = SubSeq(s, 1, j) PROVE Gap(d, k, z, j, z - j)
  <2>1. 1 \in 1..z /\ j \in 0..z /\ 1 <= j + 1
    BY <1>2
  <2>2. Len(d) = j - 1 + 1 /\ \A i \in 1..j - 1 + 1 : d[i] = <<k, 1 + i - 1>>
    BY <1>6, <1>8, <2>1
  <2>3. j - 1 + 1 = j /\ z - (z - j) = j /\ j + (z - j) <= z
    BY <1>2
  <2>4. ASSUME NEW i \in 1..j PROVE d[i] = IF i <= j THEN <<k, i>> ELSE <<k, i + (z - j)>>
    <3>1. d[i] = <<k, 1 + i - 1>> /\ 1 + i - 1 = i /\ i <= j
      BY <2>2, <2>3
    <3> QED
      BY <3>1
  <2> QED
    BY <2>2, <2>3, <2>4 DEF Gap
<1>9. \/ \E j \in 1..z : d = RemoveAt(s, j)
      \/ \E j \in 1..z, b \in Noise : d = [s EXCEPT ![j] = b]
      \/ \E j \in 3..z : d = SubSeq(s, j, z)
      \/ \E j \in 1..z - 2 : d = SubSeq(s, 1, j)
  BY <1>0, <1>1 DEF Damaged
<1>10. /\ \A j \in 1..z : j - 1 \in 0..z /\ 1 \in 0..z
       /\ \A j \in 3..z : 0 \in 0..z /\ j - 1 \in 0..z
       /\ \A j \in 1..z - 2 : j \in 0..z /\ z - j \in 0..z
  BY <1>2
<1>11. \/ \E j \in 0..z, g \in 0..z : Gap(d, k, z, j, g)
       \/ \E j \in 1..z : Changed(d, k, z, j)
  BY <1>4, <1>5, <1>7, <1>8, <1>9, <1>10
<1> QED
  BY <1>11 DEF z

\* The new places of the line
LEMMA SentNew ==
  ASSUME RxInv, NEW c \in Contents, NEW d, Appends(c, d), NEW i \in 1..Len(line')
  PROVE  \/ i \in 1..Len(line)
         \/ \E y \in 1..Len(d) : i = Len(line) + y /\ line'[i] = d[y]
<1>1. Len(line) \in Nat
  BY SentPlaces
<1>2. ASSUME i > Len(line)
      PROVE  \E y \in 1..Len(d) : i = Len(line) + y /\ line'[i] = d[y]
  <2>1. /\ i - Len(line) \in 1..Len(d) /\ line'[i] = d[i - Len(line)]
        /\ i = Len(line) + (i - Len(line))
    BY <1>1, <1>2 DEF Appends
  <2> QED
    BY <2>1
<1> QED
  BY <1>1, <1>2

\* The places that cost more than they did are new,
LEMMA SentCosts ==
  ASSUME RxInv, NEW c \in Contents, NEW d, Appends(c, d), UNCHANGED receiver
  PROVE  /\ \A i \in Noisy' \ Noisy :
              \E y \in 1..Len(d) : i = Len(line) + y /\ d[y] \in Noise
         /\ \A i \in Cuts' \ Cuts :
              \E y \in 1..Len(d) : i = Len(line) + y /\ line'[i] = d[y] /\ Cut(i)'
<1>1. ASSUME NEW i \in Noisy' \ Noisy
      PROVE  \E y \in 1..Len(d) : i = Len(line) + y /\ d[y] \in Noise
  <2>1. i \in 1..Len(line') /\ line'[i] \in Noise
    BY DEF Noisy
  <2>2. i \notin 1..Len(line)
    <3>1. i \in 1..Len(line) => line'[i] = line[i]
      BY SentPlaces
    <3> QED
      BY <2>1, <3>1 DEF Noisy
  <2>3. PICK y \in 1..Len(d) : i = Len(line) + y /\ line'[i] = d[y]
    BY <2>1, <2>2, SentNew
  <2>4. d[y] \in Noise
    BY <2>1, <2>3
  <2> QED
    BY <2>3, <2>4
<1>2. ASSUME NEW i \in Cuts' \ Cuts
      PROVE  \E y \in 1..Len(d) : i = Len(line) + y /\ line'[i] = d[y] /\ Cut(i)'
  <2>1. i \in 1..Len(line') /\ i >= Need(at, want) /\ Cut(i)'
    BY DEF Cuts, receiver
  <2>2. i \notin 1..Len(line)
    <3>1. i \in 1..Len(line) => Cut(i)
      BY <2>1, SentCut
    <3> QED
      BY <2>1, <3>1 DEF Cuts
  <2>3. PICK y \in 1..Len(d) : i = Len(line) + y /\ line'[i] = d[y]
    BY <2>1, <2>2, SentNew
  <2> QED
    BY <2>1, <2>3
<1> QED
  BY <1>1, <1>2

\* at the gap if bytes are missing,
LEMMA SentGap ==
  ASSUME RxInv, NEW c \in Contents, NEW d, Appends(c, d), UNCHANGED receiver,
         NEW q \in Nat \ {0}, q = Len(frames) + 1,
         NEW j \in 0..Size(c), NEW g \in 0..Size(c), Gap(d, q, Size(c), j, g)
  PROVE  /\ Noisy' \subseteq Noisy
         /\ Cuts' \subseteq Cuts \cup {Len(line) + j}
         /\ g = 0 => Cuts' \subseteq Cuts
<1>1. /\ Len(line) \in Nat /\ Len(d) \in Nat /\ Len(line') = Len(line) + Len(d)
      /\ Size(frames'[q]) = Size(c) /\ Size(c) \in Nat
      /\ \A i \in 1..Len(d) : Len(line) + i \in 1..Len(line') /\ line'[Len(line) + i] = d[i]
  BY SentPlaces, Counts
<1>2. PICK z \in Nat : z = Size(c)
  BY <1>1
<1>3. /\ j + g <= z /\ Len(d) = z - g /\ j \in Nat /\ g \in Nat
      /\ \A i \in 1..z - g : d[i] = IF i <= j THEN <<q, i>> ELSE <<q, i + g>>
  BY <1>2 DEF Gap
<1>4. Noisy' \subseteq Noisy
  <2>1. ASSUME NEW y \in 1..Len(d), d[y] \in Noise PROVE FALSE
    <3>1. d[y] = <<q, y>> \/ d[y] = <<q, y + g>>
      BY <1>3
    <3> QED
      BY <2>1, <3>1 DEF Noise
  <2> QED
    BY <2>1, SentCosts
<1>5. ASSUME NEW y \in 1..Len(d), NEW i, i = Len(line) + y, line'[i] = d[y], Cut(i)'
      PROVE  y = j /\ g # 0
  <2>0. y \in 1..z - g /\ y \in Nat
    BY <1>3
  <2>1. PICK x \in Nat : x = IF y <= j THEN y ELSE y + g
    BY <1>3, <2>0
  <2>4. d[y] = <<q, x>>
    BY <1>3, <2>0, <2>1
  <2>2. x < z /\ ~Goes(q, x, i)'
    BY <1>1, <1>2, <1>5, <2>1, <2>4 DEF Cut, Size
  <2>3. ASSUME y # j \/ g = 0
        PROVE  i < Len(line') /\ line'[i + 1] = <<q, x + 1>>
    <3>1. y + 1 \in 1..z - g /\ (IF y + 1 <= j THEN y + 1 ELSE y + 1 + g) = x + 1
      <4>1. x < z /\ j + g <= z
        BY <1>3, <2>2
      <4>2. CASE y < j
        BY <1>3, <2>0, <2>1, <4>1, <4>2
      <4>3. CASE y = j
        BY <1>3, <2>0, <2>1, <2>3, <4>1, <4>3
      <4>4. CASE y > j
        BY <1>3, <2>0, <2>1, <4>1, <4>4
      <4> QED
        BY <1>3, <2>0, <4>2, <4>3, <4>4
    <3>2. d[y + 1] = <<q, x + 1>>
      <4>1. d[y + 1] = IF y + 1 <= j THEN <<q, y + 1>> ELSE <<q, y + 1 + g>>
        BY <1>3, <3>1
      <4> QED
        BY <3>1, <4>1
    <3>3. i + 1 = Len(line) + (y + 1) /\ i \in Nat /\ y + 1 \in 1..Len(d)
      BY <1>1, <1>3, <1>5, <3>1
    <3>4. line'[i + 1] = d[y + 1] /\ i + 1 \in 1..Len(line')
      BY <1>1, <3>3
    <3>5. Len(line') \in Nat /\ i < Len(line')
      BY <1>1, <3>3, <3>4
    <3> QED
      BY <3>2, <3>4, <3>5
  <2> QED
    BY <2>2, <2>3 DEF Goes
<1>6. \A i \in Cuts' \ Cuts : i = Len(line) + j /\ g # 0
  <2> SUFFICES ASSUME NEW i \in Cuts' \ Cuts PROVE i = Len(line) + j /\ g # 0
    OBVIOUS
  <2>1. PICK y \in 1..Len(d) : i = Len(line) + y /\ line'[i] = d[y] /\ Cut(i)'
    BY SentCosts
  <2> QED
    BY <1>5, <2>1
<1> QED
  BY <1>4, <1>6

\* or at the byte that was changed.
LEMMA SentChanged ==
  ASSUME RxInv, NEW c \in Contents, NEW d, Appends(c, d), UNCHANGED receiver,
         NEW q \in Nat \ {0}, q = Len(frames) + 1,
         NEW j \in 1..Size(c), Changed(d, q, Size(c), j)
  PROVE  Noisy' \subseteq Noisy \cup {Len(line) + j} /\ Cuts' \subseteq Cuts
<1>1. /\ Len(line) \in Nat /\ Len(d) \in Nat /\ Len(line') = Len(line) + Len(d)
      /\ Size(frames'[q]) = Size(c) /\ Size(c) \in Nat
      /\ \A i \in 1..Len(d) : Len(line) + i \in 1..Len(line') /\ line'[Len(line) + i] = d[i]
  BY SentPlaces, Counts
<1>2. PICK z \in Nat : z = Size(c)
  BY <1>1
<1>3. Len(d) = z /\ d[j] \in Noise /\ j \in 1..z /\ \A i \in 1..z : i # j => d[i] = <<q, i>>
  BY <1>2 DEF Changed
<1>4. ASSUME NEW y \in 1..Len(d), d[y] \in Noise PROVE y = j
  <2>1. y # j => d[y] = <<q, y>>
    BY <1>3
  <2> QED
    BY <1>4, <2>1 DEF Noise
<1>5. ASSUME NEW y \in 1..Len(d), NEW i, i = Len(line) + y, line'[i] = d[y], Cut(i)'
      PROVE  FALSE
  <2>1. y # j /\ d[y] = <<q, y>> /\ y \in Nat
    <3>1. d[y] \notin Noise
      BY <1>5 DEF Cut, Noise
    <3> QED
      BY <1>3, <3>1
  <2>2. y < z /\ ~Goes(q, y, i)'
    BY <1>1, <1>2, <1>5, <2>1 DEF Cut, Size
  <2>3. y + 1 \in 1..Len(d) /\ (y + 2 <= z => y + 2 \in 1..Len(d))
    BY <1>3, <2>2
  <2>4. i + 1 = Len(line) + (y + 1) /\ i + 2 = Len(line) + (y + 2) /\ i \in Nat
    BY <1>1, <1>5
  <2>9. i + 1 \in 1..Len(line') /\ line'[i + 1] = d[y + 1]
    BY <1>1, <2>3, <2>4
  <2>5. i < Len(line') /\ line'[i + 1] = d[y + 1]
    BY <2>4, <2>9
  <2>6. y + 2 <= z => i + 1 < Len(line') /\ line'[i + 2] = d[y + 2]
    BY <1>1, <2>3, <2>4
  <2>7. CASE y + 1 # j
    BY <1>3, <2>2, <2>3, <2>5, <2>7 DEF Goes
  <2>8. CASE y + 1 = j
    <3>1. line'[i + 1] \in Noise
      BY <1>3, <2>5, <2>8
    <3>2. y + 2 <= z => d[y + 2] = <<q, y + 2>>
      BY <1>3, <2>3, <2>8
    <3>3. y + 1 < Size(frames[q])' => y + 2 <= z
      BY <1>1, <1>2, <2>1 DEF Size
    <3> QED
      BY <2>2, <2>5, <2>6, <3>1, <3>2, <3>3 DEF Goes
  <2> QED
    BY <2>7, <2>8
<1>6. Noisy' \subseteq Noisy \cup {Len(line) + j}
  BY <1>4, SentCosts
<1>7. Cuts' \subseteq Cuts
  BY <1>5, SentCosts
<1> QED
  BY <1>6, <1>7

\* A frame that came whole is there.
LEMMA SentWhole ==
  ASSUME RxInv, NEW c \in Contents, NEW q \in Nat, q = Len(frames) + 1, Appends(c, Bytes(q, c)),
         NEW p \in Nat, p = Len(line) + 1
  PROVE  /\ q \in 1..Len(frames') /\ Whole(q, p)'
         /\ Len(line') = Len(line) + Size(c) /\ Size(c) \in Nat /\ Size(c) >= 8
<1>1. PICK d : d = Bytes(q, c)
  OBVIOUS
<1>2. PICK z \in Nat : z = Size(c)
  BY Counts
<1>3. z >= 8 /\ Len(d) = z /\ \A i \in 1..z : d[i] = <<q, i>>
  <2>1. z >= 8
    BY <1>2, Counts
  <2> QED
    BY <1>1, <1>2, <2>1 DEF Bytes
<1>4. /\ Len(line) \in Nat /\ Len(frames) \in Nat /\ Len(frames') = q /\ frames'[q] = c
      /\ Len(line') = Len(line) + Len(d)
      /\ \A i \in 1..Len(d) : Len(line) + i \in 1..Len(line') /\ line'[Len(line) + i] = d[i]
  BY <1>1, SentPlaces
<1>5. ASSUME NEW j \in 1..z PROVE p + j - 1 <= Len(line') /\ line'[p + j - 1] = <<q, j>>
  <2>1. p + j - 1 = Len(line) + j /\ j \in 1..Len(d)
    BY <1>3, <1>4
  <2>2. Len(line) + j \in 1..Len(line') /\ line'[Len(line) + j] = <<q, j>>
    BY <1>3, <1>4, <2>1
  <2> QED
    BY <1>4, <2>1, <2>2
<1>6. Size(frames[q])' = z
  BY <1>2, <1>4 DEF Size
<1>7. Whole(q, p)'
  BY <1>5, <1>6 DEF Whole
<1>8. q \in 1..Len(frames')
  BY <1>4
<1> QED
  BY <1>2, <1>3, <1>4, <1>7, <1>8

\* What is sent is the only frame that may become unsafe.
LEMMA SentUnsafe ==
  ASSUME RxInv, NEW c \in Contents, NEW d, Appends(c, d), UNCHANGED receiver,
         NEW q \in Nat, q = Len(frames) + 1
  PROVE  /\ Unsafe' \subseteq Unsafe \cup {q}
         /\ d = Bytes(q, c) /\ Need(at, want) <= Len(line) => Unsafe' \subseteq Unsafe
<1>1. Len(frames) \in Nat /\ Len(line) \in Nat /\ Len(frames') = q /\ Need(at, want) \in Nat
  BY SentPlaces, Sizes
<1>2. \A k \in 1..Len(frames) : Safe(k) => Safe(k)'
  BY SentSafe
<1>3. \A k \in 1..Len(frames') : k \in 1..Len(frames) \/ k = q
  BY <1>1
<1>4. Unsafe' \subseteq Unsafe \cup {q}
  BY <1>2, <1>3 DEF Unsafe
<1>5. ASSUME d = Bytes(q, c), Need(at, want) <= Len(line) PROVE Safe(q)'
  <2>1. PICK p \in Nat : p = Len(line) + 1
    BY <1>1
  <2>2. Whole(q, p)' /\ Len(line') = Len(line) + Size(c) /\ Size(c) \in Nat /\ Size(c) >= 8
    BY <1>5, <2>1, SentWhole
  <2>3. Need(at', want') = Need(at, want)
    BY DEF receiver
  <2>4. p \in Need(at', want') + 1..Len(line')
    BY <1>1, <1>5, <2>1, <2>2, <2>3
  <2> QED
    BY <2>2, <2>4 DEF Safe
<1> QED
  BY <1>4, <1>5 DEF Unsafe

\* More bytes on the line leave less room ahead, and eight one frame less.
LEMMA AheadLess ==
  ASSUME NEW d \in Nat, NEW z \in Nat, NEW e \in Nat
  PROVE  /\ Ahead(d, z) \in Nat /\ Ahead(d, z + e) \in Nat
         /\ Ahead(d, z + e) <= Ahead(d, z)
         /\ e >= 8 /\ d > z => Ahead(d, z + e) + 1 <= Ahead(d, z)
<1>1. z + e \in Nat
  OBVIOUS
<1>2. /\ Ahead(d, z) \in Nat /\ Ahead(d, z + e) \in Nat
      /\ d <= z => Ahead(d, z) = 0
      /\ d > z => Ahead(d, z) = (d - z + 7) \div 8
      /\ d <= z + e => Ahead(d, z + e) = 0
      /\ d > z + e => Ahead(d, z + e) = (d - (z + e) + 7) \div 8
  BY <1>1, AheadIs
<1>3. d > z => (d - z + 7) \div 8 >= 1
  OBVIOUS
<1>4. d > z + e => (d - (z + e) + 7) \div 8 <= (d - z + 7) \div 8
  OBVIOUS
<1>5. d > z + e /\ e >= 8 => (d - (z + e) + 7) \div 8 + 1 <= (d - z + 7) \div 8
  OBVIOUS
<1> QED
  BY <1>2, <1>3, <1>4, <1>5

\* A set of numbers with one more
LEMMA OneMore ==
  ASSUME NEW z \in Nat, NEW S \in SUBSET (1..z), NEW x, NEW R \in SUBSET (S \cup {x})
  PROVE  /\ Cardinality(S) \in Nat /\ Cardinality(R) \in Nat
         /\ Cardinality(R) <= Cardinality(S) + 1
         /\ R \subseteq S => Cardinality(R) <= Cardinality(S)
<1>1. IsFiniteSet(1..z)
  BY FS_Interval
<1>2. IsFiniteSet(S)
  BY <1>1, FS_Subset
<1>3. IsFiniteSet(S \cup {x}) /\ Cardinality(S \cup {x}) <= Cardinality(S) + 1
  <2>1. /\ IsFiniteSet(S \cup {x})
        /\ Cardinality(S \cup {x}) = IF x \in S THEN Cardinality(S) ELSE Cardinality(S) + 1
    BY <1>2, FS_AddElement
  <2>2. Cardinality(S) \in Nat
    BY <1>2, FS_CardinalityType
  <2> QED
    BY <2>1, <2>2
<1>4. IsFiniteSet(R) /\ Cardinality(R) <= Cardinality(S \cup {x})
  BY <1>3, FS_Subset
<1>5. R \subseteq S => Cardinality(R) <= Cardinality(S)
  BY <1>2, FS_Subset
<1>6. /\ Cardinality(S) \in Nat /\ Cardinality(R) \in Nat
      /\ Cardinality(S \cup {x}) \in Nat
  BY <1>2, <1>3, <1>4, FS_CardinalityType
<1> QED
  BY <1>3, <1>4, <1>5, <1>6

\* The account of a frame that is sent
LEMMA SentPaid ==
  ASSUME RxInv, RxInv', Paid, UNCHANGED receiver, NEW c \in Contents, NEW d, Appends(c, d)
  PROVE  Paid'
<1>1. /\ Len(frames) \in Nat /\ Len(line) \in Nat /\ Len(d) \in Nat /\ faults \in Nat
      /\ Len(line') = Len(line) + Len(d) /\ Need(at, want) \in Nat
      /\ Need(at', want') = Need(at, want)
  BY SentPlaces, Sizes DEF receiver
<1>2. PICK q \in Nat \ {0} : q = Len(frames) + 1
  BY <1>1
<1>3. Plainly' => Plainly
  <2>1. \A k \in 1..Len(frames) : k \in 1..Len(frames') /\ frames'[k] = frames[k]
    BY SentPlaces
  <2> QED
    BY <2>1 DEF Plainly, EndsPlainly, Size
<1> SUFFICES ASSUME Plainly
             PROVE  Cardinality(Unsafe)' + Ahead(Need(at', want'), Len(line'))
                      + Cardinality(Noisy)' + (Cost - 1) * Cardinality(Cuts)'
                    <= faults' * ((Cost - 1) + 1)
  <2>2. Cost' = Cost
    BY DEF Cost
  <2> QED
    BY <1>3, <2>2 DEF Paid
<1>4. /\ Unsafe \in SUBSET (1..Len(frames))
      /\ Noisy \in SUBSET (1..Len(line)) /\ Cuts \in SUBSET (1..Len(line))
  BY DEF Unsafe, Noisy, Cuts
<1>5. /\ Cardinality(Unsafe) \in Nat /\ Cardinality(Unsafe)' \in Nat
      /\ Cardinality(Unsafe)' <= Cardinality(Unsafe) + 1
      /\ d = Bytes(q, c) /\ Need(at, want) <= Len(line) =>
           Cardinality(Unsafe)' <= Cardinality(Unsafe)
  <2>1. Unsafe' \in SUBSET (Unsafe \cup {q})
    BY <1>2, SentUnsafe
  <2>2. /\ Cardinality(Unsafe) \in Nat /\ Cardinality(Unsafe') \in Nat
        /\ Cardinality(Unsafe') <= Cardinality(Unsafe) + 1
        /\ Unsafe' \subseteq Unsafe => Cardinality(Unsafe') <= Cardinality(Unsafe)
    BY <1>1, <1>4, <2>1, OneMore
  <2>3. d = Bytes(q, c) /\ Need(at, want) <= Len(line) => Unsafe' \subseteq Unsafe
    BY <1>2, SentUnsafe
  <2> QED
    BY <2>2, <2>3
<1>6. /\ Ahead(Need(at, want), Len(line)) \in Nat /\ Ahead(Need(at', want'), Len(line')) \in Nat
      /\ Ahead(Need(at', want'), Len(line')) <= Ahead(Need(at, want), Len(line))
      /\ Len(d) >= 8 /\ Need(at, want) > Len(line) =>
           Ahead(Need(at', want'), Len(line')) + 1 <= Ahead(Need(at, want), Len(line))
  BY <1>1, AheadLess
<1>7. ASSUME NEW x, NEW y, Noisy' \subseteq Noisy \cup {x}, Cuts' \subseteq Cuts \cup {y}
      PROVE  /\ Cardinality(Noisy) \in Nat /\ Cardinality(Noisy)' \in Nat
             /\ Cardinality(Noisy)' <= Cardinality(Noisy) + 1
             /\ Noisy' \subseteq Noisy => Cardinality(Noisy)' <= Cardinality(Noisy)
             /\ Cardinality(Cuts) \in Nat /\ Cardinality(Cuts)' \in Nat
             /\ Cardinality(Cuts)' <= Cardinality(Cuts) + 1
             /\ Cuts' \subseteq Cuts => Cardinality(Cuts)' <= Cardinality(Cuts)
  <2>1. Noisy' \in SUBSET (Noisy \cup {x}) /\ Cuts' \in SUBSET (Cuts \cup {y})
    BY <1>7
  <2> QED
    BY <1>1, <1>4, <2>1, OneMore
<1>8. /\ Cardinality(Noisy) \in Nat /\ Cardinality(Noisy)' \in Nat
      /\ Cardinality(Cuts) \in Nat /\ Cardinality(Cuts)' \in Nat
      /\ \/ /\ faults' = faults /\ Cardinality(Noisy)' <= Cardinality(Noisy)
            /\ Cardinality(Cuts)' <= Cardinality(Cuts)
            /\ d = Bytes(q, c) /\ Len(d) >= 8
         \/ /\ faults' = faults + 1 /\ Cardinality(Noisy)' <= Cardinality(Noisy)
            /\ Cardinality(Cuts)' <= Cardinality(Cuts) + 1
         \/ /\ faults' = faults + 1 /\ Cardinality(Noisy)' <= Cardinality(Noisy) + 1
            /\ Cardinality(Cuts)' <= Cardinality(Cuts)
  <2>1. CASE faults' = faults /\ d = Bytes(q, c)
    <3>1. Size(c) \in Nat /\ Size(c) >= 8
      BY Counts
    <3>2. Gap(d, q, Size(c), 0, 0) /\ 0 \in 0..Size(c) /\ Len(d) >= 8
      BY <2>1, <3>1 DEF Gap, Bytes
    <3>3. Noisy' \subseteq Noisy /\ Cuts' \subseteq Cuts
      BY <1>2, <3>2, SentGap
    <3> QED
      BY <1>7, <2>1, <3>2, <3>3
  <2>2. CASE faults' = faults + 1 /\ d \in Damaged(Bytes(q, c))
    <3>1. Size(c) \in Nat
      BY Counts
    <3>2. CASE \E j \in 0..Size(c), g \in 0..Size(c) : Gap(d, q, Size(c), j, g)
      <4>1. PICK j \in 0..Size(c), g \in 0..Size(c) : Gap(d, q, Size(c), j, g)
        BY <3>2
      <4>2. Noisy' \subseteq Noisy /\ Cuts' \subseteq Cuts \cup {Len(line) + j}
        BY <1>2, <4>1, SentGap
      <4> QED
        BY <1>7, <2>2, <4>2
    <3>3. CASE \E j \in 1..Size(c) : Changed(d, q, Size(c), j)
      <4>1. PICK j \in 1..Size(c) : Changed(d, q, Size(c), j)
        BY <3>3
      <4>2. Noisy' \subseteq Noisy \cup {Len(line) + j} /\ Cuts' \subseteq Cuts
        BY <1>2, <4>1, SentChanged
      <4> QED
        BY <1>7, <2>2, <4>2
    <3> QED
      BY <2>2, <3>1, <3>2, <3>3, DamageIs
  <2> QED
    BY <1>2, <2>1, <2>2 DEF Appends
<1>9. PICK e \in Nat, u \in Nat, u2 \in Nat, a \in Nat, a2 \in Nat,
          m \in Nat, m2 \in Nat, k \in Nat, k2 \in Nat :
       /\ e = Cost - 1 /\ u = Cardinality(Unsafe) /\ u2 = Cardinality(Unsafe)'
       /\ a = Ahead(Need(at, want), Len(line)) /\ a2 = Ahead(Need(at', want'), Len(line'))
       /\ m = Cardinality(Noisy) /\ m2 = Cardinality(Noisy)'
       /\ k = Cardinality(Cuts) /\ k2 = Cardinality(Cuts)'
  BY <1>5, <1>6, <1>8, CostIs, Zenon
<1>10. /\ e * k \in Nat /\ e * k2 \in Nat /\ faults * (e + 1) \in Nat
       /\ k2 <= k => e * k2 <= e * k
       /\ k2 <= k + 1 => e * k2 <= e * k + e
       /\ (faults + 1) * (e + 1) = faults * (e + 1) + (e + 1)
  <2>1. e + 1 \in Nat
    OBVIOUS
  <2>2. faults * (e + 1) = (e + 1) * faults
    BY <1>1, <2>1
  <2> QED
    BY <1>1, <2>1, <2>2, Multiples
<1>11. PICK x \in Nat, x2 \in Nat, f \in Nat :
       x = e * k /\ x2 = e * k2 /\ f = faults * (e + 1)
  BY <1>10
<1>12. u + a + m + x <= f /\ e >= 1
  BY <1>9, <1>11, CostIs, Zenon DEF Paid
<1>13. \/ faults' = faults /\ u2 + a2 <= u + a /\ m2 <= m /\ k2 <= k
       \/ faults' = faults + 1 /\ u2 <= u + 1 /\ a2 <= a /\ m2 <= m /\ k2 <= k + 1
       \/ faults' = faults + 1 /\ u2 <= u + 1 /\ a2 <= a /\ m2 <= m + 1 /\ k2 <= k
  <2>1. u2 <= u + 1 /\ a2 <= a
    BY <1>5, <1>6, <1>9, Zenon
  <2>2. ASSUME d = Bytes(q, c), Len(d) >= 8 PROVE u2 + a2 <= u + a
    <3>1. Need(at, want) <= Len(line) \/ Need(at, want) > Len(line)
      BY <1>1
    <3>2. u2 <= u \/ a2 + 1 <= a
      BY <1>5, <1>6, <1>9, <2>2, <3>1, Zenon
    <3> QED
      BY <2>1, <3>2
  <2> QED
    BY <1>8, <1>9, <2>1, <2>2, Zenon
<1>14. u2 + a2 + m2 + e * k2 <= faults' * (e + 1)
  <2>1. k2 <= k => x2 <= x
    BY <1>10, <1>11, Zenon
  <2>2. k2 <= k + 1 => x2 <= x + e
    BY <1>10, <1>11, Zenon
  <2>3. CASE faults' = faults
    <3>1. u2 + a2 + m2 + x2 <= f
      BY <1>1, <1>12, <1>13, <2>1, <2>3
    <3> QED
      BY <1>11, <2>3, <3>1, Zenon
  <2>4. CASE faults' = faults + 1
    <3>1. u2 + a2 + m2 + x2 <= f + (e + 1)
      BY <1>1, <1>12, <1>13, <2>1, <2>2, <2>4
    <3> QED
      BY <1>10, <1>11, <2>4, <3>1, Zenon
  <2> QED
    BY <1>13, <2>3, <2>4
<1> QED
  BY <1>9, <1>14, Zenon

\* The bytes of the frame in progress are there.
LEMMA ProgressOnLine ==
  ASSUME RxInv, NEW k \in 1..Len(frames), InProgress(k)
  PROVE  Need(at, want) <= Len(line)
<1>1. /\ Size(frames[k]) = 7 + frames[k].len /\ frames[k].len \in Nat /\ frames[k].len > 0
      /\ Len(line) \in Nat /\ want \in Nat
  BY SizeOf, Sizes
<1>2. ASSUME at = "rest" PROVE Need(at, want) <= Len(line)
  <2>1. Remains(k, 2) /\ 5 \in 2..Size(frames[k])
    BY <1>1, <1>2 DEF InProgress
  <2>2. 5 - 2 + 1 <= Len(line)
    BY <2>1 DEF Remains
  <2> QED
    BY <1>1, <1>2, <2>2, NeedIs
<1>3. ASSUME at = "crc" PROVE Need(at, want) <= Len(line)
  <2>1. Remains(k, 6) /\ Size(frames[k]) \in 6..Size(frames[k]) /\ want = frames[k].len
    BY <1>1, <1>3 DEF InProgress
  <2>2. Size(frames[k]) - 6 + 1 <= Len(line)
    BY <2>1 DEF Remains
  <2>3. Need(at, want) = 2 + want
    BY <1>1, <1>3, NeedIs
  <2> QED
    BY <1>1, <2>1, <2>2, <2>3
<1>4. ASSUME at = "payload" PROVE Need(at, want) <= Len(line)
  <2>1. Remains(k, 8) /\ Size(frames[k]) \in 8..Size(frames[k]) /\ want = frames[k].len
    BY <1>1, <1>4 DEF InProgress
  <2>2. Size(frames[k]) - 8 + 1 <= Len(line)
    BY <2>1 DEF Remains
  <2>3. Need(at, want) = want
    BY <1>1, <1>4, NeedIs
  <2> QED
    BY <1>1, <2>1, <2>2, <2>3
<1> QED
  BY <1>2, <1>3, <1>4 DEF InProgress

\* A frame on the line, whole or damaged, is paid for; without damage the
\* receiver will be before it when it has read the others.
LEMMA LossSend == ASSUME LossInv, NEW c \in Contents, Send(c) PROVE LossInv'
<1>1. /\ RxInv /\ RxInv' /\ Paid /\ InStep /\ UNCHANGED receiver
      /\ Len(frames) \in Nat /\ Len(line) \in Nat /\ faults \in Nat
  <2>1. RxInv /\ Paid /\ InStep
    BY DEF LossInv
  <2> QED
    BY <2>1, SendStep, Sizes DEF Send
<1>2. PICK d : Appends(c, d)
  BY <1>1, SendAppends
<1>3. Paid'
  BY <1>1, <1>2, SentPaid
<1>4. ASSUME faults' = 0 PROVE InStep'
  <2>1. PICK q \in Nat : q = Len(frames) + 1
    BY <1>1
  <2>2. PICK p \in Nat : p = Len(line) + 1
    BY <1>1
  <2>3. faults = 0 /\ d = Bytes(q, c)
    <3>1. faults' # faults + 1
      BY <1>1, <1>4
    <3> QED
      BY <1>2, <1>4, <2>1, <3>1 DEF Appends
  <2>4. /\ q \in 1..Len(frames') /\ Whole(q, p)' /\ Len(frames') = q
        /\ Len(line') = Len(line) + Size(c) /\ Size(c) \in Nat
        /\ \A i \in 1..Len(line) : i \in 1..Len(line') /\ line'[i] = line[i]
    BY <1>1, <1>2, <2>1, <2>2, <2>3, SentWhole, SentPlaces
  <2>5. /\ \A k \in 1..Len(frames) :
             /\ k \in 1..Len(frames') /\ Size(frames[k])' = Size(frames[k])
             /\ InProgress(k) => InProgress(k)'
        /\ \A k \in 1..Len(frames) : \A x \in Nat \ {0} : Whole(k, x) => Whole(k, x)'
    BY <1>1, <1>2, <2>4, SentSafe, SentPlaces
  <2>6. Unsafe' = {} /\ at' # "ended"
    <3>1. at \in {"head", "rest", "crc", "payload"}
      BY <1>1, <2>3 DEF InStep, RxInv, RxTypeOK
    <3>3. Need(at, want) <= Len(line)
      <4>1. CASE at = "head"
        <5>1. Need(at, want) = 0
          BY <1>1, <4>1, Sizes, NeedIs
        <5> QED
          BY <1>1, <5>1
      <4>2. CASE at \in {"rest", "crc", "payload"}
        BY <1>1, <2>3, <4>2, ProgressOnLine DEF InStep
      <4> QED
        BY <3>1, <4>1, <4>2
    <3>2. Unsafe' \subseteq Unsafe
      BY <1>1, <1>2, <2>1, <2>3, <3>3, SentUnsafe
    <3> QED
      BY <1>1, <2>3, <3>2 DEF InStep, receiver
  <2>7. ASSUME at' = "head", line' # <<>> PROVE (\E k \in 1..Len(frames) : Whole(k, 1))'
    <3>1. CASE line = <<>>
      <4>1. Len(line) = 0
        BY <3>1
      <4>2. p = 1
        BY <2>2, <4>1
      <4>3. Whole(q, 1)'
        BY <2>4, <4>2
      <4> QED
        BY <2>4, <4>3
    <3>2. CASE line # <<>>
      <4>1. PICK k \in 1..Len(frames) : Whole(k, 1)
        BY <1>1, <2>3, <2>7, <3>2 DEF InStep, receiver
      <4> QED
        BY <2>5, <4>1
    <3> QED
      BY <3>1, <3>2
  <2>8. ASSUME at' \in {"rest", "crc", "payload"} PROVE (\E k \in 1..Len(frames) : InProgress(k))'
    <3>1. PICK k \in 1..Len(frames) : InProgress(k)
      BY <1>1, <2>3, <2>8 DEF InStep, receiver
    <3> QED
      BY <2>5, <3>1
  <2>9. ASSUME NEW i \in 1..Len(line') - 1, NEW m \in 1..Len(frames'),
               line'[i] = <<m, Size(frames[m])'>>
        PROVE  (\E k \in 1..Len(frames) : Whole(k, i + 1))'
    <3>1. i \in Nat /\ i >= 1 /\ i < Len(line') /\ i \in 1..Len(line')
      BY <1>1, <2>4
    <3>2. CASE i < Len(line)
      <4>1. i \in 1..Len(line) - 1 /\ i \in 1..Len(line) /\ line'[i] = line[i]
        BY <1>1, <2>4, <3>1, <3>2
      <4>2. m \in 1..Len(frames)
        <5>1. line[i][1] = m /\ m # 0
          BY <2>9, <4>1
        <5> QED
          BY <1>1, <4>1, <5>1, Sizes
      <4>3. line[i] = <<m, Size(frames[m])>>
        BY <2>5, <2>9, <4>1, <4>2
      <4>4. PICK k \in 1..Len(frames) : Whole(k, i + 1)
        BY <1>1, <2>3, <4>1, <4>2, <4>3 DEF InStep
      <4>5. i + 1 \in Nat \ {0}
        BY <3>1
      <4> QED
        BY <2>5, <4>4, <4>5
    <3>3. CASE i = Len(line)
      <4>1. i + 1 = p
        BY <2>2, <3>3
      <4> QED
        BY <2>4, <4>1
    <3>4. CASE i > Len(line)
      <4>1. PICK y \in 1..Len(d) : i = Len(line) + y /\ line'[i] = d[y]
        <5>1. i \notin 1..Len(line)
          BY <1>1, <3>4
        <5> QED
          BY <1>1, <1>2, <3>1, <5>1, SentNew
      <4>2. y \in 1..Size(c) /\ d[y] = <<q, y>> /\ Len(d) = Size(c)
        BY <2>3, <2>4, <4>1 DEF Bytes
      <4>3. y < Size(c)
        BY <1>1, <2>4, <3>1, <4>1, <4>2
      <4>4. m = q /\ Size(frames[m])' = y
        BY <2>9, <4>1, <4>2
      <4>5. Size(frames[m])' = Size(c)
        BY <1>1, <1>2, <2>1, <4>4, SentPlaces DEF Size
      <4> QED
        BY <4>2, <4>3, <4>4, <4>5
    <3> QED
      BY <1>1, <3>1, <3>2, <3>3, <3>4
  <2> QED
    BY <2>6, <2>7, <2>8, <2>9 DEF InStep
<1>5. InStep'
  BY <1>4 DEF InStep
<1> QED
  BY <1>1, <1>3, <1>5 DEF LossInv

\* At first nothing is lost.
LEMMA LossInit == ASSUME RxInit PROVE LossInv
<1>1. /\ RxInv /\ frames = <<>> /\ line = <<>> /\ at = "head" /\ want = 0 /\ faults = 0
      /\ Len(frames) = 0 /\ Len(line) = 0
  BY ReceiverInit DEF RxInit
<1>2. Unsafe = {} /\ Noisy = {} /\ Cuts = {}
  BY <1>1 DEF Unsafe, Noisy, Cuts
<1>3. Cardinality(Unsafe) = 0 /\ Cardinality(Noisy) = 0 /\ Cardinality(Cuts) = 0
  BY <1>2, FS_EmptySet
<1>4. Ahead(Need(at, want), Len(line)) = 0
  <2>1. Need(at, want) = 0
    BY <1>1, NeedIs
  <2> QED
    BY <1>1, <2>1, AheadIs
<1>5. Paid
  <2>1. PICK e \in Nat : e = Cost - 1
    BY CostIs
  <2>2. e * 0 = 0 /\ 0 * (e + 1) = 0
    BY <2>1
  <2>3. 0 + 0 + 0 + e * 0 <= 0 * (e + 1)
    BY <2>2
  <2> QED
    BY <1>1, <1>3, <1>4, <2>1, <2>3, Zenon DEF Paid
<1>6. InStep
  BY <1>1, <1>2 DEF InStep
<1> QED
  BY <1>1, <1>5, <1>6 DEF LossInv

\* Every step
LEMMA LossNext == ASSUME LossInv, [RxNext]_rxVars PROVE LossInv'
<1>1. CASE UNCHANGED rxVars
  <2>1. RxInv'
    BY ReceiverNext DEF LossInv
  <2>2. /\ frames' = frames /\ line' = line /\ at' = at /\ header' = header /\ want' = want
        /\ crcOf' = crcOf /\ delivered' = delivered /\ excused' = excused /\ faults' = faults
    BY <1>1 DEF rxVars, receiver
  <2>3. \A k, p : Whole(k, p)' <=> Whole(k, p)
    BY <2>2 DEF Whole, Size
  <2>4. \A k : InProgress(k)' <=> InProgress(k)
    BY <2>2 DEF InProgress, Remains, Size
  <2>5. \A k : Safe(k)' <=> Safe(k)
    BY <2>2, <2>3, <2>4, Zenon DEF Safe, Source
  <2>6. \A i : Cut(i)' <=> Cut(i)
    BY <2>2 DEF Cut, Goes, Size
  <2>7. Unsafe' = Unsafe /\ Noisy' = Noisy /\ Cuts' = Cuts /\ Plainly' = Plainly /\ Cost' = Cost
    BY <2>2, <2>5, <2>6 DEF Unsafe, Noisy, Cuts, Plainly, Cost
  <2>8. Paid'
    BY <2>2, <2>7, Zenon DEF LossInv, Paid
  <2>9. InStep'
    BY <2>2, <2>3, <2>4, <2>7 DEF LossInv, InStep, Size
  <2> QED
    BY <2>1, <2>8, <2>9 DEF LossInv
<1>2. ASSUME NEW c \in Contents, Send(c) PROVE LossInv'
  BY <1>2, LossSend
<1> QED
  BY <1>1, <1>2, LossReadHead, LossReadRest, LossReadCrc, LossReadPayload, LossClear DEF RxNext

\* What went by and was not dispatched is what is not safe.
LEMMA MissedIsUnsafe == ASSUME LossInv PROVE Missed \subseteq Unsafe
<1>1. RxInv
  BY DEF LossInv
<1> SUFFICES ASSUME at = "head", NEW k \in Missed, Safe(k) PROVE FALSE
  BY DEF Missed, Unsafe
<1>2. /\ k \in 1..Len(frames) /\ k \notin excused
      /\ \A i \in 1..Len(line) : line[i][1] # k
      /\ \A i \in 1..Len(delivered) : Source(i) # k
  BY DEF Missed
<1>3. PICK p \in Need(at, want) + 1..Len(line) : Whole(k, p)
  BY <1>2 DEF Safe, InProgress
<1>4. Need(at, want) \in Nat /\ Len(line) \in Nat
  BY <1>1, Sizes
<1>5. p \in 1..Len(line)
  BY <1>4
<1>6. line[p] = <<k, 1>>
  BY <1>1, <1>2, <1>3, <1>5, WholeStarts
<1> QED
  BY <1>2, <1>5, <1>6

\* The account bounds it.
LEMMA LossIsBounded == ASSUME LossInv PROVE DamageIsBounded
<1>1. RxInv /\ Paid /\ InStep /\ Len(frames) \in Nat /\ Len(line) \in Nat /\ faults \in Nat
  BY Sizes DEF LossInv
<1>2. /\ Cardinality(Missed) \in Nat /\ Cardinality(Unsafe) \in Nat
      /\ Cardinality(Missed) <= Cardinality(Unsafe)
  <2>1. IsFiniteSet(1..Len(frames)) /\ Unsafe \subseteq 1..Len(frames)
    BY <1>1, FS_Interval DEF Unsafe
  <2>2. IsFiniteSet(Unsafe)
    BY <2>1, FS_Subset
  <2>3. IsFiniteSet(Missed) /\ Cardinality(Missed) <= Cardinality(Unsafe)
    BY <2>2, MissedIsUnsafe, FS_Subset
  <2> QED
    BY <2>2, <2>3, FS_CardinalityType
<1>3. ASSUME faults = 0 PROVE Cardinality(Missed) <= faults * Cost
  <2>1. Unsafe = {}
    BY <1>1, <1>3 DEF InStep
  <2>2. Cardinality(Unsafe) = 0
    BY <2>1, FS_EmptySet
  <2>3. PICK e \in Nat : e = Cost
    BY CostIs
  <2>4. 0 * e = 0
    OBVIOUS
  <2>5. faults * Cost = 0
    BY <1>3, <2>3, <2>4
  <2> QED
    BY <1>2, <2>2, <2>5
<1>4. ASSUME Plainly PROVE Cardinality(Missed) <= faults * Cost
  <2>1. /\ Cardinality(Noisy) \in Nat /\ Cardinality(Cuts) \in Nat
        /\ Ahead(Need(at, want), Len(line)) \in Nat
    <3>1. Noisy \in SUBSET (1..Len(line)) /\ Cuts \in SUBSET (1..Len(line))
      BY DEF Noisy, Cuts
    <3>2. Noisy \in SUBSET (Noisy \cup Cuts)
      OBVIOUS
    <3>3. Need(at, want) \in Nat
      BY <1>1, Sizes
    <3> QED
      BY <1>1, <3>1, <3>2, <3>3, Covered, AheadIs
  <2>2. PICK e \in Nat, t \in Nat, u \in Nat, a \in Nat, m \in Nat, k \in Nat :
          /\ e = Cost - 1 /\ t = Cardinality(Missed) /\ u = Cardinality(Unsafe)
          /\ a = Ahead(Need(at, want), Len(line))
          /\ m = Cardinality(Noisy) /\ k = Cardinality(Cuts)
    BY <1>2, <2>1, CostIs, Zenon
  <2>3. PICK x \in Nat, f \in Nat : x = e * k /\ f = faults * (e + 1)
    <3>1. e * k \in Nat /\ e + 1 \in Nat
      OBVIOUS
    <3>2. faults * (e + 1) \in Nat
      BY <1>1, <3>1
    <3> QED
      BY <3>1, <3>2
  <2>4. u + a + m + x <= f /\ t <= u
    BY <1>1, <1>2, <1>4, <2>2, <2>3, Zenon DEF Paid
  <2>5. t <= f
    BY <2>4
  <2>7. e + 1 = Cost
    BY <2>2, CostIs, Zenon
  <2> QED
    BY <2>2, <2>3, <2>5, <2>7, Zenon
<1>5. at = "ended" => faults > 0
  BY <1>1 DEF InStep
<1> QED
  BY <1>3, <1>4, <1>5 DEF DamageIsBounded, Plainly

\* The receiver finds the next frame again: what it misses is bounded by the
\* damages of the line, and an undamaged line is read without loss.
THEOREM LossesAreBounded == RxSpec => []DamageIsBounded
<1>1. RxInit => LossInv
  BY LossInit
<1>2. LossInv /\ [RxNext]_rxVars => LossInv'
  BY LossNext
<1>3. LossInv => DamageIsBounded
  BY LossIsBounded
<1> QED
  BY <1>1, <1>2, <1>3, PTL DEF RxSpec
=============================================================================
