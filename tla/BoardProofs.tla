---------------------------- MODULE BoardProofs ----------------------------
(***************************************************************************)
(* The boards of any configuration on any devices.                         *)
(*                                                                         *)
(* AckProtocol: SaveAfterReset and SavedIsNotInvented hold for any set of  *)
(* motors and any number of operations, tries and ticks.  A motor that is  *)
(* named by an acknowledgement has been reset since the operation began,   *)
(* or was named, or told to save, by what an earlier one had left: such a  *)
(* motor is accounted for (Known).  The set of acknowledged motors holds   *)
(* only motors that are, once the operation's first wait has cleared it    *)
(* (Provenance), and the frame that asks for the save is only prepared     *)
(* when the set covers the motors it is for (Frame).                       *)
(*                                                                         *)
(* Topology: a command, a zero reset and an answer go to and come from the *)
(* motor the configuration means.  The turn of a port in the list of all   *)
(* ports is the place of its device, and of the port itself, in the lists  *)
(* of those; the devices are distinct (Matched), so a map given to one     *)
(* receiver changes no other (Built); and motors_ has every place once, in *)
(* the order of the configuration, so that an index is a rank (Collected). *)
(***************************************************************************)
EXTENDS AckProtocol, Topology,
        FiniteSetTheorems, SequenceTheorems, WellFoundedInduction, TLAPS

-----------------------------------------------------------------------------
(* The acknowledgement protocol: its invariant.                            *)

\* The motors that have been reset in this operation, or that an earlier one has
\* left an answer or a save for.
Known == zeroed \cup left

\* Some motor has executed a save in this operation, or something was left over.
Saves == saved \cup left # {}

\* The operation has not yet come to clear the set, or the mode, of its first wait.
Unclear(places) == tx.cmd = "RESET_ZERO" /\ pc \in places

\* Every acknowledgement, wherever it is, has a motor behind it.
Provenance ==
  /\ ids \subseteq Known \/ Unclear({"clearIds"})
  /\ \A s \in rx : s \subseteq Known
  /\ \A i \in 1..Len(up) :
       /\ up[i].ids \subseteq Known /\ up[i].ids # {}
       /\ up[i].cmd = "CONF_WRITE" => Saves
  /\ mode = "CONF_WRITE" => Saves \/ Unclear({"clearIds", "clearMode"})

\* The port's frame belongs to the operation.
Frame ==
  /\ pc \in Waiting => tx.to = op /\ tx.cmd # "RESET"
  /\ tx.cmd = "CONF_WRITE" => tx.to \subseteq Known
  /\ pc = "count" /\ tx.cmd = "CONF_WRITE" => Saves
  /\ pc = "send" => tries < MaxTries

IInv == TypeOK /\ Provenance /\ Frame /\ SaveAfterReset /\ SavedIsNotInvented

-----------------------------------------------------------------------------
\* A port that has done nothing: no acknowledgement, no reset, no save.
LEMMA Initially == Init => IInv
<1> SUFFICES ASSUME Init PROVE IInv
  OBVIOUS
<1>1. TypeOK
  <2>1. down \in Seq(Frames) /\ up \in Seq(Acks)
    BY DEF Init
  <2>2. tries \in 0..MaxTries /\ ops \in 0..MaxOps /\ ticks \in 0..MaxTicks
    BY MotorsAssumption DEF Init
  <2> QED
    BY <2>1, <2>2 DEF Init, TypeOK, Labels, Waiting, Commands, Targets, Frames
<1>2. Len(down) = 0 /\ Len(up) = 0
  BY DEF Init
<1> QED
  BY <1>1, <1>2, MotorsAssumption DEF Init, IInv, Provenance, Frame, Known, Saves, Unclear,
    SaveAfterReset, SavedIsNotInvented, Waiting

\* An operation begins with everything that is still under way in left.
LEMMA LeftBehind ==
  ASSUME TypeOK, \A i \in 1..Len(up) : up[i].ids # {}
  PROVE  /\ LeftOver \subseteq Motors
         /\ \A s \in rx : s \subseteq LeftOver
         /\ \A i \in 1..Len(up) : up[i].ids \subseteq LeftOver
         /\ Len(up) # 0 => LeftOver # {}
         /\ \A i \in 1..Len(down) : down[i].cmd = "CONF_WRITE" => down[i].to \subseteq LeftOver
<1>1. /\ \A i \in 1..Len(up) : up[i] \in Acks
      /\ \A i \in 1..Len(down) : down[i] \in Frames
      /\ Len(up) \in Nat
  BY ElementOfSeq, LenProperties DEF TypeOK
<1>2. /\ \A i \in 1..Len(up) : up[i].ids \subseteq Motors
      /\ \A i \in 1..Len(down) : down[i].to \subseteq Motors
  BY <1>1 DEF Acks, Frames, Targets
<1>3. LeftOver \subseteq Motors
  BY DEF LeftOver
<1>4. ASSUME NEW s \in rx PROVE s \subseteq LeftOver
  BY DEF LeftOver, TypeOK
<1>5. ASSUME NEW i \in 1..Len(up) PROVE up[i].ids \subseteq LeftOver
  BY <1>2 DEF LeftOver
<1>6. Len(up) # 0 => LeftOver # {}
  <2> SUFFICES ASSUME Len(up) # 0 PROVE LeftOver # {}
    OBVIOUS
  <2>1. 1 \in 1..Len(up)
    BY <1>1
  <2> QED
    BY <2>1, <1>5
<1>7. ASSUME NEW i \in 1..Len(down), down[i].cmd = "CONF_WRITE"
      PROVE  down[i].to \subseteq LeftOver
  BY <1>2, <1>7 DEF LeftOver
<1> QED
  BY <1>3, <1>4, <1>5, <1>6, <1>7

\* The thread that operates on the motors: the two waits of canport.cc, the pulses
\* of canboard::reset_zero_positions, the control tick.
LEMMA ThreadStep ==
  ASSUME IInv, StartReset \/ Wait \/ FinalPulses \/ Tick
  PROVE  IInv'
<1> USE MotorsAssumption DEF IInv, TypeOK, Provenance, Frame, Known, Saves, Unclear,
      SaveAfterReset, SavedIsNotInvented, Labels, Waiting, Commands, Targets, Frames,
      ackVars, boardVars
<1>1. CASE StartReset
  <2>1. /\ zeroed' = {} /\ saved' = {} /\ left' = LeftOver
        /\ UNCHANGED <<ids, rx, mode, down, up, tries, ticks>>
        /\ pc' = "clearIds" /\ tx' = [cmd |-> "RESET_ZERO", to |-> op']
        /\ op' \in Targets /\ report' = "none" /\ ops' \in 0..MaxOps
    BY <1>1 DEF StartReset
  <2>2. /\ LeftOver \subseteq Motors
        /\ \A s \in rx : s \subseteq LeftOver
        /\ \A i \in 1..Len(up) : up[i].ids \subseteq LeftOver
        /\ Len(up) # 0 => LeftOver # {}
        /\ \A i \in 1..Len(down) : down[i].cmd = "CONF_WRITE" => down[i].to \subseteq LeftOver
    BY LeftBehind
  <2>3. Known' = LeftOver /\ (Saves' <=> LeftOver # {}) /\ Unclear({"clearIds"})'
    BY <2>1
  <2>4. TypeOK'
    BY <2>1, <2>2
  <2>5. Len(up) \in Nat
    BY LenProperties
  <2>6. Provenance'
    BY <2>1, <2>2, <2>5
  <2>7. Frame' /\ SaveAfterReset' /\ SavedIsNotInvented'
    BY <2>1, <2>2
  <2> QED
    BY <2>4, <2>6, <2>7
<1>2. CASE ClearIds
  BY <1>2 DEF ClearIds
<1>3. down' = Append(down, tx) /\ UNCHANGED <<tx, zeroed, left>>
        => down' \in Seq(Frames) /\ SaveAfterReset'
  BY AppendProperties
<1>4. CASE Send
  <2>1. down' \in Seq(Frames) /\ SaveAfterReset'
    BY <1>3, <1>4 DEF Send
  <2>2. tries + 1 \in 0..MaxTries
    BY <1>4 DEF Send
  <2>3. TypeOK'
    BY <1>4, <2>1, <2>2 DEF Send
  <2> QED
    BY <1>4, <2>1, <2>3 DEF Send
<1>5. CASE CheckMode
  BY <1>5 DEF CheckMode, NotAcknowledged
<1>6. CASE CountIds
  <2>1. CASE op \subseteq ids
    <3>1. TypeOK'
      BY <1>6, <2>1 DEF CountIds, Acknowledged
    <3>2. Provenance' /\ Frame'
      BY <1>6, <2>1 DEF CountIds, Acknowledged
    <3>3. SaveAfterReset' /\ SavedIsNotInvented'
      BY <1>6, <2>1 DEF CountIds, Acknowledged
    <3> QED
      BY <3>1, <3>2, <3>3
  <2>2. CASE ~(op \subseteq ids)
    BY <1>6, <2>2 DEF CountIds, NotAcknowledged
  <2> QED
    BY <2>1, <2>2
<1>7. CASE FinalPulses
  BY <1>7 DEF FinalPulses
<1>8. CASE Tick
  BY <1>3, <1>8 DEF Tick
<1>9. CASE ClearMode
  BY <1>9 DEF ClearMode
<1> QED
  BY <1>1, <1>2, <1>4, <1>5, <1>6, <1>7, <1>8, <1>9 DEF Wait

\* handle_ack_message in the receive thread, and the loss of an acknowledgement.
LEMMA ReceiverStep ==
  ASSUME IInv, AckMode \/ AckIds \/ LoseAck
  PROVE  IInv'
<1> USE DEF IInv, Provenance, Frame, Known, Saves, Unclear, SaveAfterReset,
      SavedIsNotInvented, pcVars, boardVars, ackVars
<1>1. up # <<>> /\ up' = Tail(up) /\ UNCHANGED <<zeroed, saved, left>>
        => /\ Head(up) \in Acks /\ up' \in Seq(Acks)
           /\ Head(up).ids \subseteq Known
           /\ Head(up).cmd = "CONF_WRITE" => Saves
           /\ \A i \in 1..Len(up') :
                /\ up'[i].ids \subseteq Known /\ up'[i].ids # {}
                /\ up'[i].cmd = "CONF_WRITE" => Saves
  BY HeadTailProperties DEF TypeOK
<1>2. CASE AckMode
  <2>1. Head(up).cmd \in Commands /\ Head(up).ids \in SUBSET Motors
    BY <1>1, <1>2 DEF AckMode, Acks, Commands
  <2>2. TypeOK'
    BY <1>1, <1>2, <2>1 DEF AckMode, TypeOK
  <2>3. Provenance'
    BY <1>1, <1>2 DEF AckMode
  <2> QED
    BY <1>2, <2>2, <2>3 DEF AckMode
<1>3. CASE AckIds
  <2>1. TypeOK'
    BY <1>3 DEF AckIds, TypeOK
  <2> QED
    BY <1>3, <2>1 DEF AckIds
<1>4. CASE LoseAck
  <2>1. TypeOK'
    BY <1>1, <1>4 DEF LoseAck, TypeOK
  <2> QED
    BY <1>1, <1>4, <2>1 DEF LoseAck
<1> QED
  BY <1>2, <1>3, <1>4

\* The board executes a frame: did are the motors that did, sent those that
\* acknowledge it.
LEMMA BoardStep ==
  ASSUME IInv, NEW did \in SUBSET Motors, NEW sent \in SUBSET did, Execute(did, sent)
  PROVE  IInv'
<1> USE DEF IInv, Provenance, Frame, Known, Saves, Unclear, SaveAfterReset,
      SavedIsNotInvented, pcVars, ackVars
<1> DEFINE f == Head(down)
<1>1. /\ f \in Frames /\ down' = Tail(down) /\ down' \in Seq(Frames)
      /\ f.cmd = "CONF_WRITE" => f.to \subseteq Known
      /\ Known \subseteq Known' => SaveAfterReset'
  <2>1. down # <<>> /\ down' = Tail(down) /\ down \in Seq(Frames)
    BY DEF Execute, TypeOK
  <2> QED
    BY <2>1, HeadTailProperties
<1>2. did \subseteq f.to
  BY DEF Execute
<1>3. CASE f.cmd = "RESET"
  <2>1. UNCHANGED <<zeroed, saved, left, up>>
    BY <1>3 DEF Execute
  <2>2. TypeOK'
    BY <1>1, <2>1 DEF Execute, TypeOK
  <2> QED
    BY <1>1, <2>1, <2>2 DEF Execute
<1>4. \/ f.cmd = "RESET_ZERO" /\ zeroed' = zeroed \cup did /\ UNCHANGED <<saved, left>>
      \/ f.cmd = "CONF_WRITE" /\ saved' = saved \cup did /\ UNCHANGED <<zeroed, left>>
      \/ f.cmd = "RESET"
  BY <1>1 DEF Execute, Frames, Commands
<1>5. CASE f.cmd # "RESET" /\ sent = {}
  <2>1. UNCHANGED up
    BY <1>5 DEF Execute
  <2>2. TypeOK'
    BY <1>1, <1>4, <1>5, <2>1 DEF Execute, TypeOK
  <2> QED
    BY <1>1, <1>4, <1>5, <2>1, <2>2 DEF Execute
<1>6. CASE f.cmd # "RESET" /\ sent # {}
  <2> DEFINE a == [cmd |-> f.cmd, ids |-> sent]
  <2>1. up' = Append(up, a) /\ a \in Acks /\ up \in Seq(Acks)
    BY <1>1, <1>6 DEF Execute, TypeOK, Frames, Commands, Acks
  <2>2. a.ids \subseteq Known' /\ a.ids # {} /\ (a.cmd = "CONF_WRITE" => Saves')
    BY <1>1, <1>2, <1>4, <1>6
  <2>3. /\ up' \in Seq(Acks)
        /\ \A i \in 1..Len(up') :
             \/ i \in 1..Len(up) /\ up'[i] = up[i]
             \/ up'[i] = a
    BY <2>1, AppendProperties
  <2>4. Known \subseteq Known' /\ (Saves => Saves')
    BY <1>4, <1>6
  <2>5. Provenance'
    BY <2>2, <2>3, <2>4 DEF Execute
  <2>6. TypeOK'
    BY <1>1, <1>4, <1>6, <2>3 DEF Execute, TypeOK
  <2> QED
    BY <1>1, <1>4, <1>6, <2>4, <2>5, <2>6 DEF Execute
<1> QED
  BY <1>3, <1>5, <1>6

\* Acknowledgements have motors that were reset behind them, in every run.
THEOREM Invariance == Spec => []IInv
<1>1. IInv /\ [Next]_vars => IInv'
  <2>1. IInv /\ UNCHANGED vars => IInv'
    BY DEF IInv, TypeOK, Provenance, Frame, Known, Saves, Unclear, SaveAfterReset,
      SavedIsNotInvented, vars, pcVars, ackVars, boardVars
  <2> QED
    BY <2>1, ThreadStep, ReceiverStep, BoardStep DEF Next, Done
<1> QED
  BY Initially, <1>1, PTL DEF Spec

\* The variables stay in their types; in particular no wait takes more than
\* MaxTries turns (canport.cc, wait_for_ack_condition).
THEOREM TypeCorrect == Spec => []TypeOK
  BY Invariance, PTL DEF IInv

\* A motor is told to save only after a reset since the operation began, unless
\* an earlier operation had left an answer or a save under way for it.
THEOREM SavesFollowResets == Spec => []SaveAfterReset
  BY Invariance, PTL DEF IInv

\* A reported save has a motor that saved and motors that were reset since the
\* operation began, with the same exception.
THEOREM ReportsHaveCause == Spec => []SavedIsNotInvented
  BY Invariance, PTL DEF IInv

-----------------------------------------------------------------------------
(* Topology: the lists FlattenSeq makes.                                   *)

\* A set of numbers with 0 and every successor has all numbers.
LEMMA AllNumbers ==
  ASSUME NEW S, 0 \in S, \A n \in Nat : n \in S => n + 1 \in S
  PROVE  Nat \subseteq S
<1> DEFINE R == {ss \in Nat \X Nat : ss[1] < ss[2]}
           B == Nat \ S
<1>1. IsWellFoundedOn(R, Nat)
  BY NatLessThanWellFounded, Zenon DEF OpToRel
<1>2. \A w, v \in Nat : w < v => <<w, v>> \in R
  OBVIOUS
<1>3. B \subseteq Nat
  OBVIOUS
<1> SUFFICES ASSUME B # {} PROVE FALSE
  OBVIOUS
<1> HIDE DEF R
<1>4. PICK v \in B : \A w \in B : ~ (<<w, v>> \in R)
  BY <1>1, <1>3, WFMin, Zenon
<1>5. v \in Nat /\ v # 0 /\ v - 1 \in Nat /\ v - 1 < v /\ (v - 1) + 1 = v
  BY <1>4
<1>6. v - 1 \notin B
  BY <1>2, <1>4, <1>5
<1> QED
  BY <1>4, <1>5, <1>6

\* The joins of the first parts of ss: what the recursive function of
\* FlattenSeq has to be.
Joins(f, ss) == f = [i \in 1..Len(ss) |-> IF i = 1 THEN ss[i] ELSE f[i - 1] \o ss[i]]

\* There is one, and its last join is FlattenSeq.
LEMMA FlattenIsJoin ==
  ASSUME NEW S, NEW ss \in Seq(Seq(S)), ss # <<>>
  PROVE  \E f : Joins(f, ss) /\ FlattenSeq(ss) = f[Len(ss)]
<1> DEFINE Start(f, n) == \A i \in 1..n : f[i] = IF i = 1 THEN ss[i] ELSE f[i - 1] \o ss[i]
           N == {n \in Nat : n <= Len(ss) => \E f \in [1..n -> Seq(S)] : Start(f, n)}
           h == CHOOSE f : f = [i \in 1..Len(ss) |-> IF i = 1 THEN ss[i] ELSE f[i - 1] \o ss[i]]
<1>1. Len(ss) \in Nat /\ Len(ss) # 0 /\ \A i \in 1..Len(ss) : ss[i] \in Seq(S)
  BY EmptySeq, LenProperties
<1>2. 0 \in N
  <2>1. [i \in 1..0 |-> <<>>] \in [1..0 -> Seq(S)] /\ Start([i \in 1..0 |-> <<>>], 0)
    BY EmptySeq
  <2> HIDE DEF Start
  <2> QED
    BY <2>1
<1>3. ASSUME NEW n \in Nat, n \in N PROVE n + 1 \in N
  <2> SUFFICES ASSUME n + 1 <= Len(ss) PROVE \E f \in [1..n + 1 -> Seq(S)] : Start(f, n + 1)
    <3> HIDE DEF Start
    <3> QED
      OBVIOUS
  <2>1. PICK f \in [1..n -> Seq(S)] : Start(f, n)
    <3> HIDE DEF Start
    <3> QED
      BY <1>1, <1>3
  <2> DEFINE last == IF n = 0 THEN ss[1] ELSE f[n] \o ss[n + 1]
             g == [i \in 1..n + 1 |-> IF i = n + 1 THEN last ELSE f[i]]
  <2>2. last \in Seq(S)
    BY <1>1, ConcatProperties
  <2>3. /\ g \in [1..n + 1 -> Seq(S)]
        /\ \A i \in 1..n : g[i] = f[i]
        /\ g[n + 1] = last
    <3> HIDE DEF last
    <3> QED
      BY <2>2
  <2> HIDE DEF g
  <2>4. Start(g, n + 1)
    <3> SUFFICES ASSUME NEW i \in 1..n + 1
                 PROVE  g[i] = IF i = 1 THEN ss[i] ELSE g[i - 1] \o ss[i]
      OBVIOUS
    <3>1. CASE i = n + 1
      <4>1. n # 0 => g[n] = f[n]
        BY <2>3
      <4> QED
        BY <2>3, <3>1, <4>1
    <3>2. CASE i # n + 1
      <4>1. i \in 1..n /\ (i # 1 => i - 1 \in 1..n)
        BY <3>2
      <4> QED
        BY <2>1, <2>3, <4>1
    <3> QED
      BY <3>1, <3>2
  <2> HIDE DEF Start
  <2> QED
    BY <2>3, <2>4
<1>4. Len(ss) \in N
  <2> HIDE DEF N
  <2> QED
    BY <1>1, <1>2, <1>3, AllNumbers
<1>5. PICK f \in [1..Len(ss) -> Seq(S)] : Start(f, Len(ss))
  <2> HIDE DEF Start
  <2> QED
    BY <1>1, <1>4
<1>6. Joins(f, ss)
  BY <1>5 DEF Joins
<1>7. FlattenSeq(ss) = h[Len(ss)]
  BY <1>1 DEF FlattenSeq
<1>8. Joins(h, ss)
  BY <1>6 DEF Joins
<1> QED
  BY <1>7, <1>8

\* Joins of the same parts are the same.
LEMMA JoinsAgree ==
  ASSUME NEW f, NEW g, NEW ss, NEW tt, Joins(f, ss), Joins(g, tt),
         Len(ss) \in Nat, Len(tt) \in Nat, Len(ss) <= Len(tt),
         \A i \in 1..Len(ss) : ss[i] = tt[i],
         NEW n \in 1..Len(ss)
  PROVE  f[n] = g[n]
<1> DEFINE N == {k \in Nat : k \in 1..Len(ss) => f[k] = g[k]}
<1>1. /\ \A i \in 1..Len(ss) : f[i] = IF i = 1 THEN ss[i] ELSE f[i - 1] \o ss[i]
      /\ \A i \in 1..Len(tt) : g[i] = IF i = 1 THEN tt[i] ELSE g[i - 1] \o tt[i]
  BY DEF Joins
<1>2. 0 \in N
  OBVIOUS
<1>3. ASSUME NEW k \in Nat, k \in N PROVE k + 1 \in N
  BY <1>1, <1>3
<1>4. n \in N
  <2> HIDE DEF N
  <2> QED
    BY <1>2, <1>3, AllNumbers
<1> QED
  BY <1>4

\* One more part is joined at the end.
LEMMA FlattenOneMore ==
  ASSUME NEW S, NEW ss \in Seq(Seq(S)), NEW n \in Nat, n + 1 <= Len(ss)
  PROVE  FlattenSeq(SubSeq(ss, 1, n + 1)) = FlattenSeq(SubSeq(ss, 1, n)) \o ss[n + 1]
<1> DEFINE t == SubSeq(ss, 1, n + 1)
           u == SubSeq(ss, 1, n)
<1>1. Len(ss) \in Nat /\ n + 1 \in 1..Len(ss) /\ \A i \in 1..Len(ss) : ss[i] \in Seq(S)
  BY LenProperties
<1>2. /\ t \in Seq(Seq(S)) /\ Len(t) = n + 1 /\ \A i \in 1..n + 1 : t[i] = ss[i]
      /\ u \in Seq(Seq(S)) /\ Len(u) = n /\ \A i \in 1..n : u[i] = ss[i]
  BY <1>1, SubSeqProperties
<1> HIDE DEF t, u
<1>3. PICK f : Joins(f, t) /\ FlattenSeq(t) = f[n + 1]
  <2>1. t # <<>>
    BY <1>2, EmptySeq
  <2> QED
    BY <1>2, <2>1, FlattenIsJoin
<1>4. f[n + 1] = IF n = 0 THEN ss[n + 1] ELSE f[n] \o ss[n + 1]
  <2>1. \A i \in 1..n + 1 : f[i] = IF i = 1 THEN t[i] ELSE f[i - 1] \o t[i]
    BY <1>2, <1>3 DEF Joins
  <2>2. n + 1 \in 1..n + 1 /\ (n + 1) - 1 = n /\ t[n + 1] = ss[n + 1]
    BY <1>2
  <2> QED
    BY <1>1, <2>1, <2>2
<1>5. CASE n = 0
  <2>1. u = <<>> /\ FlattenSeq(u) = <<>>
    BY <1>2, <1>5, EmptySeq DEF FlattenSeq
  <2>2. <<>> \o ss[n + 1] = ss[n + 1]
    BY <1>1, ConcatEmptySeq
  <2> QED
    BY <1>3, <1>4, <1>5, <2>1, <2>2 DEF t, u
<1>6. CASE n # 0
  <2>1. PICK g : Joins(g, u) /\ FlattenSeq(u) = g[n]
    <3>1. u # <<>>
      BY <1>2, <1>6, EmptySeq
    <3> QED
      BY <1>2, <3>1, FlattenIsJoin
  <2>2. g[n] = f[n]
    <3>1. Len(u) = n /\ Len(t) = n + 1
      BY <1>2
    <3>2. ASSUME NEW i \in 1..Len(u) PROVE u[i] = t[i]
      <4>1. i \in 1..n /\ i \in 1..n + 1
        BY <3>1
      <4> QED
        BY <1>2, <4>1
    <3>3. Len(u) \in Nat /\ Len(t) \in Nat /\ Len(u) <= Len(t) /\ n \in 1..Len(u)
      BY <1>6, <3>1
    <3> QED
      BY <1>3, <2>1, <3>2, <3>3, JoinsAgree
  <2> QED
    BY <1>3, <1>4, <1>6, <2>1, <2>2 DEF t, u
<1> QED
  BY <1>5, <1>6

\* The elements before the b-th part, and the first n parts.
Joined(ss, n) == FlattenSeq(SubSeq(ss, 1, n))
Offs(ss, b) == Len(Joined(ss, b - 1))

\* Where the elements of the first n parts are in their join.
Placed(ss, n) ==
  /\ \A b \in 0..n : Len(Joined(ss, b)) \in Nat /\ Len(Joined(ss, b)) <= Len(Joined(ss, n))
  /\ \A b \in 1..n : Len(Joined(ss, b)) = Offs(ss, b) + Len(ss[b])
  /\ \A b \in 1..n : \A p \in 1..Len(ss[b]) : Joined(ss, n)[Offs(ss, b) + p] = ss[b][p]
  /\ \A k \in 1..Len(Joined(ss, n)) :
       \E b \in 1..n : \E p \in 1..Len(ss[b]) : k = Offs(ss, b) + p

\* Each element of a part has its place in the joined parts, and nothing else does.
LEMMA JoinedIsPlaced ==
  ASSUME NEW S, NEW ss \in Seq(Seq(S)), NEW n \in 0..Len(ss)
  PROVE  Joined(ss, n) \in Seq(S) /\ Placed(ss, n)
<1> DEFINE N == {m \in Nat : m <= Len(ss) => Joined(ss, m) \in Seq(S) /\ Placed(ss, m)}
<1>1. Len(ss) \in Nat /\ n \in Nat /\ \A b \in 1..Len(ss) : ss[b] \in Seq(S) /\ Len(ss[b]) \in Nat
  BY LenProperties
<1>2. 0 \in N
  <2>1. Joined(ss, 0) = <<>>
    BY SubSeqEmpty, EmptySeq DEF Joined, FlattenSeq
  <2>2. <<>> \in Seq(S) /\ Len(<<>>) = 0
    BY EmptySeq
  <2>3. \A b \in 0..0 : b = 0
    OBVIOUS
  <2>4. Placed(ss, 0)
    BY <2>1, <2>2, <2>3 DEF Placed
  <2> QED
    BY <2>1, <2>2, <2>4
<1>3. ASSUME NEW m \in Nat, m \in N, m + 1 <= Len(ss)
      PROVE  Joined(ss, m + 1) \in Seq(S) /\ Placed(ss, m + 1)
  <2> DEFINE a == Joined(ss, m)
             z == Joined(ss, m + 1)
             x == ss[m + 1]
  <2>1. a \in Seq(S) /\ Placed(ss, m) /\ x \in Seq(S) /\ Len(x) \in Nat /\ Len(a) \in Nat
    BY <1>1, <1>3, LenProperties
  <2>2. z = a \o x
    <3> HIDE DEF N
    <3> QED
      BY <1>3, FlattenOneMore DEF Joined
  <2>3. /\ z \in Seq(S) /\ Len(z) = Len(a) + Len(x)
        /\ \A i \in 1..Len(a) + Len(x) : z[i] = IF i <= Len(a) THEN a[i] ELSE x[i - Len(a)]
    <3> HIDE DEF a, z, x
    <3> QED
      BY <2>1, <2>2, ConcatProperties
  <2>4. Offs(ss, m + 1) = Len(a)
    BY DEF Offs
  <2>5. ASSUME NEW b \in 0..m + 1 PROVE Len(Joined(ss, b)) \in Nat /\ Len(Joined(ss, b)) <= Len(z)
    <3>1. b \in 0..m \/ b = m + 1
      OBVIOUS
    <3>2. b \in 0..m => Len(Joined(ss, b)) \in Nat /\ Len(Joined(ss, b)) <= Len(a)
      BY <2>1 DEF Placed
    <3>3. Len(z) \in Nat /\ Len(a) <= Len(z)
      BY <2>1, <2>3
    <3> HIDE DEF a, z
    <3>4. CASE b \in 0..m
      BY <2>1, <3>2, <3>3, <3>4
    <3>5. CASE b = m + 1
      BY <3>3, <3>5 DEF z
    <3> QED
      BY <3>1, <3>4, <3>5
  <2>6. ASSUME NEW b \in 1..m + 1
        PROVE  /\ Len(Joined(ss, b)) = Offs(ss, b) + Len(ss[b])
               /\ \A p \in 1..Len(ss[b]) : z[Offs(ss, b) + p] = ss[b][p]
    <3>1. b \in 1..m \/ b = m + 1
      OBVIOUS
    <3> HIDE DEF a, z
    <3>2. CASE b \in 1..m
      <4>1. /\ b \in 0..m /\ b - 1 \in 0..m /\ b \in 1..Len(ss)
        BY <1>3, <3>2
      <4>2. /\ Len(Joined(ss, b)) = Offs(ss, b) + Len(ss[b])
            /\ Len(Joined(ss, b)) <= Len(a) /\ Offs(ss, b) \in Nat /\ Len(ss[b]) \in Nat
            /\ \A p \in 1..Len(ss[b]) : a[Offs(ss, b) + p] = ss[b][p]
        BY <1>1, <2>1, <3>2, <4>1 DEF Placed, Offs, a
      <4>3. ASSUME NEW p \in 1..Len(ss[b]) PROVE z[Offs(ss, b) + p] = ss[b][p]
        <5>1. Len(a) \in Nat /\ Len(x) \in Nat
          BY <2>1
        <5>2. Offs(ss, b) \in Nat /\ Len(ss[b]) \in Nat /\ Offs(ss, b) + Len(ss[b]) <= Len(a)
          BY <4>2
        <5> HIDE DEF x
        <5>3. Offs(ss, b) + p \in 1..Len(a) + Len(x) /\ Offs(ss, b) + p <= Len(a)
          BY <5>1, <5>2
        <5> QED
          BY <2>3, <4>2, <5>3
      <4> QED
        BY <4>2, <4>3
    <3>3. CASE b = m + 1
      <4>1. ASSUME NEW p \in 1..Len(x) PROVE z[Len(a) + p] = x[p]
        <5>1. /\ Len(a) + p \in 1..Len(a) + Len(x) /\ ~(Len(a) + p <= Len(a))
              /\ (Len(a) + p) - Len(a) = p
          BY <2>1
        <5> QED
          BY <2>3, <5>1
      <4> QED
        BY <2>3, <2>4, <3>3, <4>1 DEF z
    <3> QED
      BY <3>1, <3>2, <3>3
  <2>7. ASSUME NEW k \in 1..Len(z)
        PROVE  \E b \in 1..m + 1 : \E p \in 1..Len(ss[b]) : k = Offs(ss, b) + p
    <3> HIDE DEF a, z
    <3>1. CASE k <= Len(a)
      <4>1. k \in 1..Len(a)
        BY <2>1, <2>3, <3>1
      <4>2. PICK b \in 1..m : \E p \in 1..Len(ss[b]) : k = Offs(ss, b) + p
        BY <2>1, <4>1 DEF Placed, a
      <4>3. b \in 1..m + 1
        OBVIOUS
      <4> QED
        BY <4>2, <4>3
    <3>2. CASE ~(k <= Len(a))
      <4>1. k - Len(a) \in 1..Len(x) /\ k = Len(a) + (k - Len(a)) /\ m + 1 \in 1..m + 1
        BY <2>1, <2>3, <3>2
      <4> QED
        BY <2>4, <4>1
    <3> QED
      BY <3>1, <3>2
  <2> QED
    BY <2>3, <2>5, <2>6, <2>7 DEF Placed
<1>4. n \in N
  <2> HIDE DEF N
  <2>1. \A m \in Nat : m \in N => m + 1 \in N
    BY <1>3 DEF N
  <2> QED
    BY <1>1, <1>2, <2>1, AllNumbers
<1> QED
  BY <1>1, <1>4

\* Where the elements of the parts of ss are in FlattenSeq(ss).
LEMMA FlattenPlaces ==
  ASSUME NEW S, NEW ss \in Seq(Seq(S))
  PROVE  /\ FlattenSeq(ss) \in Seq(S) /\ Len(ss) \in Nat
         /\ \A b \in 1..Len(ss) : Offs(ss, b) \in Nat /\ ss[b] \in Seq(S) /\ Len(ss[b]) \in Nat
         /\ \A b \in 1..Len(ss) : \A p \in 1..Len(ss[b]) :
              /\ Offs(ss, b) + p \in 1..Len(FlattenSeq(ss))
              /\ FlattenSeq(ss)[Offs(ss, b) + p] = ss[b][p]
         /\ \A k \in 1..Len(FlattenSeq(ss)) :
              \E b \in 1..Len(ss) : \E p \in 1..Len(ss[b]) : k = Offs(ss, b) + p
         /\ \A b, c \in 1..Len(ss) : \A p \in 1..Len(ss[b]) : \A q \in 1..Len(ss[c]) :
              b < c => Offs(ss, b) + p < Offs(ss, c) + q
<1> DEFINE n == Len(ss)
<1>1. n \in Nat /\ \A b \in 1..n : ss[b] \in Seq(S) /\ Len(ss[b]) \in Nat
  BY LenProperties
<1>2. Joined(ss, n) = FlattenSeq(ss)
  BY SubSeqFull DEF Joined
<1>3. Joined(ss, n) \in Seq(S) /\ Placed(ss, n)
  BY <1>1, JoinedIsPlaced
<1> HIDE DEF n
<1>4. ASSUME NEW b \in 1..n
      PROVE  /\ Offs(ss, b) \in Nat
             /\ Offs(ss, b) + Len(ss[b]) = Len(Joined(ss, b))
             /\ Len(Joined(ss, b)) <= Len(Joined(ss, n)) /\ Len(Joined(ss, n)) \in Nat
  <2>1. b - 1 \in 0..n /\ b \in 0..n /\ n \in 0..n
    BY <1>1
  <2> QED
    BY <1>3, <2>1 DEF Placed, Offs
<1>5. ASSUME NEW b \in 1..n, NEW p \in 1..Len(ss[b])
      PROVE  Offs(ss, b) + p \in 1..Len(Joined(ss, n)) /\ Joined(ss, n)[Offs(ss, b) + p] = ss[b][p]
  <2>1. Offs(ss, b) + p \in 1..Len(Joined(ss, n))
    BY <1>1, <1>4, SMTT(20)
  <2>2. Joined(ss, n)[Offs(ss, b) + p] = ss[b][p]
    BY <1>3 DEF Placed
  <2> QED
    BY <2>1, <2>2
<1>6. ASSUME NEW b \in 1..n, NEW c \in 1..n, NEW p \in 1..Len(ss[b]), NEW q \in 1..Len(ss[c]), b < c
      PROVE  Offs(ss, b) + p < Offs(ss, c) + q
  <2>1. c - 1 \in 0..n /\ b \in 0..c - 1
    BY <1>1, <1>6
  <2>2. Placed(ss, c - 1)
    BY <1>1, <2>1, JoinedIsPlaced DEF n
  <2>3. Len(Joined(ss, b)) <= Offs(ss, c)
    BY <2>1, <2>2 DEF Placed, Offs
  <2>4. /\ Offs(ss, b) \in Nat /\ Len(ss[b]) \in Nat /\ Len(ss[c]) \in Nat /\ Offs(ss, c) \in Nat
        /\ Offs(ss, b) + Len(ss[b]) <= Offs(ss, c)
    BY <1>1, <1>4, <2>3
  <2> QED
    BY <2>4
<1>7. \A k \in 1..Len(Joined(ss, n)) :
        \E b \in 1..n : \E p \in 1..Len(ss[b]) : k = Offs(ss, b) + p
  BY <1>3 DEF Placed
<1> QED
  BY <1>1, <1>2, <1>3, <1>4, <1>5, <1>6, <1>7 DEF n

-----------------------------------------------------------------------------
(* The inductive invariant.                                                *)

Distinct(s) == \A i, j \in 1..Len(s) : i # j => s[i] # s[j]

\* What is built from is valid.
Configured ==
  /\ config \in Seq(Seq(Port))
  /\ at \notin {"load", "refused"} =>
       \A b \in 1..Len(config) : \A p \in 1..Len(config[b]) : ValidPort(config[b][p])

\* The devices of the ports are those their serial_id selects, and distinct.
Matched ==
  /\ plugged \in Seq(Lines) /\ Distinct(plugged)
  /\ found \in Seq(Lines) /\ Distinct(found)
  /\ serials \in Seq(Lines) /\ Len(serials) <= Len(Ports(config))
  /\ \A k \in 1..Len(serials) :
       /\ Ports(config)[k].serial \in 1..Len(found)
       /\ serials[k] = found[Ports(config)[k].serial]
       /\ \A j \in 1..k - 1 : Ports(config)[j].serial # Ports(config)[k].serial
  /\ at \in {"build", "up"} => Len(serials) = Len(Ports(config))
  /\ at \in {"load", "discover", "wait", "refused"} => serials = <<>>

\* The CAN ports are built in the order of the configuration, each on its
\* device, and the receivers of the ports that are built have their maps.
CanPort == [board : Nat, port : Nat, line : Lines]
Turn(b, p) == Offs(config, b) + p
Standing ==
  /\ canPorts \in Seq(CanPort) /\ Len(canPorts) <= Len(Ports(config))
  /\ DOMAIN map = Range(serials)
  /\ \A b \in 1..Len(config) : \A p \in 1..Len(config[b]) :
       IF Turn(b, p) <= Len(canPorts)
       THEN /\ canPorts[Turn(b, p)] = [board |-> b, port |-> p, line |-> serials[Turn(b, p)]]
            /\ Buildable(config[b][p])
            /\ map[serials[Turn(b, p)]] = MapOf(b, p)
       ELSE map[serials[Turn(b, p)]] = NoMap
Built ==
  /\ at \in {"build", "up"} => Standing
  /\ at \notin {"build", "up", "unwinding"} => DOMAIN map = {} /\ canPorts = <<>>

\* The motors are those of the CAN ports, in their order.
Lists == [k \in DOMAIN canPorts |-> MotorsOf(canPorts[k])]
Collected == at = "up" => Len(canPorts) = Len(Ports(config)) /\ motors = FlattenSeq(Lists)

Quiet == at # "up" => drives = Silent /\ reset = None

TopInv == Configured /\ Matched /\ Built /\ Collected /\ Quiet /\ Addressed

-----------------------------------------------------------------------------
(* Ports and places.                                                       *)

\* The turn of a port is its place in the list of all ports.
LEMMA Turns ==
  ASSUME config \in Seq(Seq(Port))
  PROVE  /\ Ports(config) \in Seq(Port) /\ Len(Ports(config)) \in Nat /\ Len(config) \in Nat
         /\ DOMAIN config = 1..Len(config)
         /\ \A b \in 1..Len(config) :
              /\ Len(config[b]) \in Nat /\ DOMAIN config[b] = 1..Len(config[b])
              /\ PortsBefore(b) = Offs(config, b) /\ PortsBefore(b) \in Nat
         /\ \A b \in 1..Len(config) : \A p \in 1..Len(config[b]) :
              /\ config[b][p] \in Port
              /\ Turn(b, p) \in 1..Len(Ports(config)) /\ Ports(config)[Turn(b, p)] = config[b][p]
         /\ \A k \in 1..Len(Ports(config)) :
              \E b \in 1..Len(config) : \E p \in 1..Len(config[b]) : k = Turn(b, p)
         /\ \A b, c \in 1..Len(config) : \A p \in 1..Len(config[b]) : \A q \in 1..Len(config[c]) :
              /\ b < c => Turn(b, p) < Turn(c, q)
              /\ Turn(b, p) = Turn(c, q) => b = c /\ p = q
<1>1. Ports(config) = FlattenSeq(config) /\ \A b : PortsBefore(b) = Offs(config, b)
  BY DEF Ports, PortsBefore, Offs, Joined
<1>2. Ports(config) \in Seq(Port) /\ Len(Ports(config)) \in Nat /\ Len(config) \in Nat
  BY <1>1, FlattenPlaces, LenProperties
<1>3. /\ DOMAIN config = 1..Len(config)
      /\ \A b \in 1..Len(config) :
           /\ config[b] \in Seq(Port) /\ Len(config[b]) \in Nat
           /\ DOMAIN config[b] = 1..Len(config[b]) /\ PortsBefore(b) \in Nat
           /\ \A p \in 1..Len(config[b]) : config[b][p] \in Port
  <2>1. DOMAIN config = 1..Len(config) /\ \A b \in 1..Len(config) : config[b] \in Seq(Port)
    BY LenProperties
  <2>2. ASSUME NEW b \in 1..Len(config)
        PROVE  /\ Len(config[b]) \in Nat /\ DOMAIN config[b] = 1..Len(config[b])
               /\ \A p \in 1..Len(config[b]) : config[b][p] \in Port
    BY <2>1, LenProperties
  <2> QED
    BY <1>1, <2>1, <2>2, FlattenPlaces
<1>9. /\ \A b \in 1..Len(config) : \A p \in 1..Len(config[b]) :
           /\ Offs(config, b) + p \in 1..Len(FlattenSeq(config))
           /\ FlattenSeq(config)[Offs(config, b) + p] = config[b][p]
      /\ \A k \in 1..Len(FlattenSeq(config)) :
           \E b \in 1..Len(config) : \E p \in 1..Len(config[b]) : k = Offs(config, b) + p
      /\ \A b, c \in 1..Len(config) : \A p \in 1..Len(config[b]) : \A q \in 1..Len(config[c]) :
           b < c => Offs(config, b) + p < Offs(config, c) + q
  BY FlattenPlaces, Zenon
<1>4. /\ \A b \in 1..Len(config) : \A p \in 1..Len(config[b]) :
           Turn(b, p) \in 1..Len(Ports(config)) /\ Ports(config)[Turn(b, p)] = config[b][p]
      /\ \A k \in 1..Len(Ports(config)) :
           \E b \in 1..Len(config) : \E p \in 1..Len(config[b]) : k = Turn(b, p)
      /\ \A b, c \in 1..Len(config) : \A p \in 1..Len(config[b]) : \A q \in 1..Len(config[c]) :
           b < c => Turn(b, p) < Turn(c, q)
  BY <1>9, <1>1 DEF Turn
<1>5. ASSUME NEW b \in 1..Len(config), NEW c \in 1..Len(config), NEW p \in 1..Len(config[b]),
             NEW q \in 1..Len(config[c]), Turn(b, p) = Turn(c, q)
      PROVE  b = c /\ p = q
  <2>1. Turn(b, p) \in Nat /\ Turn(c, q) \in Nat
    <3>1. Turn(b, p) \in 1..Len(Ports(config)) /\ Turn(c, q) \in 1..Len(Ports(config))
      BY <1>4
    <3> QED
      BY <1>2, <3>1
  <2>2. ~(b < c) /\ ~(c < b)
    BY <1>4, <1>5, <2>1, SMTT(20)
  <2>3. b = c
    BY <1>2, <2>2
  <2>4. Offs(config, b) \in Nat
    BY <1>1, <1>3
  <2> QED
    BY <1>5, <2>3, <2>4 DEF Turn
<1>6. \A b, c \in 1..Len(config) : \A p \in 1..Len(config[b]) : \A q \in 1..Len(config[c]) :
        /\ b < c => Turn(b, p) < Turn(c, q)
        /\ Turn(b, p) = Turn(c, q) => b = c /\ p = q
  <2> SUFFICES ASSUME NEW b \in 1..Len(config), NEW c \in 1..Len(config),
                      NEW p \in 1..Len(config[b]), NEW q \in 1..Len(config[c])
               PROVE  /\ b < c => Turn(b, p) < Turn(c, q)
                      /\ Turn(b, p) = Turn(c, q) => b = c /\ p = q
    OBVIOUS
  <2> QED
    BY <1>4, <1>5, SMTT(20)
<1>7. \A b \in 1..Len(config) :
        /\ Len(config[b]) \in Nat /\ DOMAIN config[b] = 1..Len(config[b])
        /\ PortsBefore(b) = Offs(config, b) /\ PortsBefore(b) \in Nat
  BY <1>1, <1>3, Zenon
<1>8. \A b \in 1..Len(config) : \A p \in 1..Len(config[b]) :
        /\ config[b][p] \in Port
        /\ Turn(b, p) \in 1..Len(Ports(config)) /\ Ports(config)[Turn(b, p)] = config[b][p]
  BY <1>3, <1>4, Zenon
<1> QED
  BY <1>2, <1>3, <1>4, <1>6, <1>7, <1>8, Zenon

\* A function on the first numbers is a sequence.
LEMMA FunctionIsSeq ==
  ASSUME NEW S, NEW n \in Nat, NEW f \in [1..n -> S]
  PROVE  f \in Seq(S) /\ Len(f) = n
  OBVIOUS

\* Devices are found in some order, each once.
LEMMA OrdersAreDistinct ==
  ASSUME NEW s \in Orders
  PROVE  s \in Seq(Lines) /\ Distinct(s)
<1>1. PICK S \in SUBSET Lines : s \in SetToSeqs(S)
  BY DEF Orders
<1>2. Cardinality(S) \in Nat
  BY FS_Subset, FS_CardinalityType, TopologyAssumption
<1>3. s \in [1..Cardinality(S) -> S] /\ \A i, j \in 1..Cardinality(S) : i # j => s[i] # s[j]
  BY <1>1 DEF SetToSeqs
<1>4. s \in Seq(S) /\ Len(s) = Cardinality(S)
  BY <1>2, <1>3, FunctionIsSeq
<1>5. s \in Seq(Lines)
  BY <1>4, SeqMonotonic
<1> QED
  BY <1>3, <1>4, <1>5 DEF Distinct

\* What is loaded is a tree, of the motors that are counted.
LEMMA LoadedIsTree ==
  ASSUME config \in Seq(Seq(Port)), Loadable(config), Valid(Loaded(config))
  PROVE  /\ Loaded(config) \in Seq(Seq(Port))
         /\ \A b \in 1..Len(Loaded(config)) : \A p \in 1..Len(Loaded(config)[b]) :
              ValidPort(Loaded(config)[b][p])
<1> DEFINE tree == Loaded(config)
<1>1. ASSUME NEW b \in 1..Len(config), NEW p \in 1..Len(config[b])
      PROVE  [config[b][p] EXCEPT !.motors = SubSeq(@, 1, config[b][p].count)] \in Port
  <2> DEFINE port == config[b][p]
  <2>1. port \in Port /\ Turn(b, p) \in 1..Len(Ports(config)) /\ Ports(config)[Turn(b, p)] = port
    BY Turns
  <2>2. DOMAIN Ports(config) = 1..Len(Ports(config))
    BY Turns, LenProperties
  <2>3. port \in Range(Ports(config))
    BY <2>1, <2>2 DEF Range
  <2>4. port.count <= Len(port.motors) /\ port.count \in Nat /\ port.motors \in Seq(Motor)
    BY <2>1, <2>3 DEF Loadable, Port
  <2> HIDE DEF port
  <2>5. \A k \in 1..port.count : port.motors[k] \in Motor
    BY <2>4, ElementOfSeq, LenProperties
  <2>6. SubSeq(port.motors, 1, port.count) \in Seq(Motor)
    BY <2>4, <2>5, SubSeqProperties
  <2>7. [port EXCEPT !.motors = SubSeq(@, 1, port.count)] \in Port
    BY <2>1, <2>6 DEF Port
  <2> QED
    BY <2>7 DEF port
<1>2. /\ Len(config) \in Nat /\ DOMAIN config = 1..Len(config)
      /\ \A b \in 1..Len(config) : Len(config[b]) \in Nat /\ DOMAIN config[b] = 1..Len(config[b])
  BY Turns
<1>3. ASSUME NEW b \in 1..Len(config)
      PROVE  [p \in DOMAIN config[b] |->
               [config[b][p] EXCEPT !.motors = SubSeq(@, 1, config[b][p].count)]] \in Seq(Port)
  <2>1. [p \in 1..Len(config[b]) |->
               [config[b][p] EXCEPT !.motors = SubSeq(@, 1, config[b][p].count)]]
          \in [1..Len(config[b]) -> Port]
    BY <1>1
  <2> DEFINE f == [p \in 1..Len(config[b]) |->
                    [config[b][p] EXCEPT !.motors = SubSeq(@, 1, config[b][p].count)]]
  <2>2. f \in [1..Len(config[b]) -> Port]
    BY <2>1
  <2> HIDE DEF f
  <2>3. f \in Seq(Port)
    BY <1>2, <2>2, FunctionIsSeq
  <2> QED
    BY <1>2, <2>3 DEF f
<1>4. tree \in Seq(Seq(Port))
  <2>1. tree \in [1..Len(config) -> Seq(Port)]
    BY <1>2, <1>3 DEF Loaded
  <2> QED
    BY <1>2, <2>1, FunctionIsSeq
<1> HIDE DEF tree
<1>5. ASSUME NEW b \in 1..Len(tree), NEW p \in 1..Len(tree[b]) PROVE ValidPort(tree[b][p])
  <2> DEFINE all == FlattenSeq(tree)
             k == Offs(tree, b) + p
  <2>1. /\ \A c \in 1..Len(tree) : \A q \in 1..Len(tree[c]) :
             /\ Offs(tree, c) + q \in 1..Len(FlattenSeq(tree))
             /\ FlattenSeq(tree)[Offs(tree, c) + q] = tree[c][q]
        /\ all \in Seq(Port)
    BY <1>4, FlattenPlaces, Zenon
  <2>2. k \in 1..Len(all) /\ all[k] = tree[b][p]
    BY <2>1
  <2> HIDE DEF all, k
  <2>3. DOMAIN all = 1..Len(all)
    BY <2>1, LenProperties
  <2>4. tree[b][p] \in Range(Ports(tree))
    BY <2>2, <2>3 DEF Range, Ports, all
  <2> QED
    BY <2>4 DEF Valid, tree
<1> QED
  BY <1>4, <1>5 DEF tree

\* Before anything is loaded nothing is built.
LEMMA TopInitially == ASSUME TopInit PROVE TopInv
<1>1. /\ config \in Seq(Seq(Port)) /\ plugged \in Orders
      /\ at = "load" /\ found = <<>> /\ serials = <<>> /\ canPorts = <<>>
      /\ DOMAIN map = {} /\ drives = Silent /\ reset = None
  BY TopologyAssumption DEF TopInit
<1>2. <<>> \in Seq(Lines) /\ Len(<<>>) = 0
  BY EmptySeq
<1>3. Len(Ports(config)) \in Nat
  BY <1>1, Turns
<1>4. Matched
  BY <1>1, <1>2, <1>3, OrdersAreDistinct DEF Matched, Distinct
<1> QED
  BY <1>1, <1>4 DEF TopInv, Configured, Built, Collected, Quiet, Addressed

-----------------------------------------------------------------------------
(* Every step keeps the invariant.                                         *)

\* The steps that leave what is built as it is.
LEMMA Stays ==
  ASSUME TopInv, UNCHANGED <<config, found, serials, canPorts, map, motors>>,
         plugged' \in Seq(Lines), Distinct(plugged)',
         \/ at' = at
         \/ at = "wait" /\ at' = "discover"
         \/ at \in {"open", "build"} /\ at' = "unwinding"
  PROVE  Configured' /\ Matched' /\ Built' /\ Collected'
<1>1. Configured'
  BY DEF TopInv, Configured
<1>2. Matched'
  BY DEF TopInv, Matched, Distinct
<1>3. \A b, p : (Turn(b, p))' = Turn(b, p) /\ (MapOf(b, p))' = MapOf(b, p)
  BY DEF Turn, MapOf
<1>4. Standing => Standing'
  BY <1>3 DEF Standing
<1>5. Built'
  BY <1>4 DEF TopInv, Built
<1>6. Lists' = Lists
  BY DEF Lists, MotorsOf
<1>7. Collected'
  BY <1>6 DEF TopInv, Collected
<1> QED
  BY <1>1, <1>2, <1>5, <1>7

\* What was told to the motors stays what it was.
LEMMA AddressedStays ==
  ASSUME Addressed, UNCHANGED <<config, found, drives, reset>>, at' = "up" => at = "up"
  PROVE  Addressed'
<1>1. Places' = Places
  BY DEF Places
<1>2. \A x : (IdOf(x))' = IdOf(x)
  BY DEF IdOf
<1>3. \A x : (Address(x))' = Address(x)
  BY <1>2 DEF Address
<1>4. \A x : (Rank(x))' = Rank(x)
  BY <1>1 DEF Rank
<1> QED
  BY <1>1, <1>3, <1>4 DEF Addressed

\* The steps that leave nothing built.
LEMMA Cleared ==
  ASSUME TopInv, config' \in Seq(Seq(Port)), Configured', found' \in Seq(Lines), Distinct(found)',
         serials' = <<>>, canPorts' = <<>>, DOMAIN map' = {}, UNCHANGED plugged,
         drives' = Silent, reset' = None, at' \in {"load", "discover", "wait", "refused"}
  PROVE  TopInv'
<1>1. Len(Ports(config')) \in Nat
  BY FlattenPlaces, LenProperties DEF Ports
<1>2. <<>> \in Seq(Lines) /\ Len(<<>>) = 0
  BY EmptySeq
<1>3. Matched'
  BY <1>1, <1>2 DEF TopInv, Matched, Distinct
<1>4. Built' /\ Collected' /\ Quiet' /\ Addressed'
  BY DEF Built, Collected, Quiet, Addressed
<1> QED
  BY <1>3, <1>4 DEF TopInv

\* load_runtime_config: what is built from has passed validate_runtime_config.
LEMMA LoadStep == ASSUME TopInv, Load PROVE TopInv'
<1>1. /\ config \in Seq(Seq(Port)) /\ found \in Seq(Lines) /\ Distinct(found) /\ serials = <<>>
      /\ canPorts = <<>> /\ DOMAIN map = {} /\ drives = Silent /\ reset = None
  BY DEF TopInv, Configured, Matched, Built, Quiet, Load
<1>2. UNCHANGED <<plugged, found, serials, canPorts, map, drives, reset>>
  BY DEF Load, runtime, told
<1>3. Distinct(found)'
  BY <1>1, <1>2 DEF Distinct
<1>4. config' \in Seq(Seq(Port)) /\ Configured' /\ at' \in {"discover", "refused"}
  <2>1. CASE Loadable(config) /\ Valid(Loaded(config))
    <3>1. config' = Loaded(config) /\ at' = "discover"
      BY <2>1 DEF Load
    <3> QED
      BY <1>1, <2>1, <3>1, LoadedIsTree DEF Configured
  <2>2. CASE ~(Loadable(config) /\ Valid(Loaded(config)))
    BY <1>1, <2>2 DEF Load, Configured
  <2> QED
    BY <2>1, <2>2
<1> QED
  BY <1>1, <1>2, <1>3, <1>4, Cleared

\* discover_matching_serial_ports finds distinct devices.
LEMMA DiscoverStep == ASSUME TopInv, Discover PROVE TopInv'
<1>1. /\ plugged \in Seq(Lines) /\ Distinct(plugged) /\ serials = <<>> /\ canPorts = <<>>
      /\ DOMAIN map = {} /\ drives = Silent /\ reset = None /\ Configured
  BY DEF TopInv, Matched, Built, Quiet, Discover
<1>2. UNCHANGED <<config, plugged, serials, canPorts, map, drives, reset>> /\ found' = plugged
      /\ at = "discover" /\ at' = "open"
  BY DEF Discover, runtime, told
<1>3. Configured' /\ Built' /\ Collected' /\ Quiet' /\ Addressed'
  BY <1>1, <1>2 DEF Configured, Built, Collected, Quiet, Addressed
<1>4. Matched'
  BY <1>1, <1>2 DEF TopInv, Matched, Distinct
<1> QED
  BY <1>3, <1>4 DEF TopInv

\* cleanup_runtime leaves nothing built, whatever was there.
LEMMA CleanUpStep == ASSUME TopInv, CleanUp PROVE TopInv'
<1>1. /\ UNCHANGED <<config, plugged, found>> /\ serials' = <<>> /\ canPorts' = <<>>
      /\ DOMAIN map' = {} /\ drives' = Silent /\ reset' = None
      /\ at' \in {"wait", "refused"} /\ at \notin {"load", "refused"}
  BY DEF CleanUp
<1>2. Configured' /\ Distinct(found)' /\ config' \in Seq(Seq(Port)) /\ found' \in Seq(Lines)
  BY <1>1 DEF TopInv, Configured, Matched, Distinct
<1> QED
  BY <1>1, <1>2, Cleared

\* Waiting for the devices builds nothing.
LEMMA WaitStep == ASSUME TopInv, WaitDevice PROVE TopInv'
<1>1. /\ UNCHANGED <<config, plugged, found, serials, canPorts, map, motors, drives, reset>>
      /\ at = "wait" /\ at' = "discover"
  BY DEF WaitDevice, runtime, told
<1>2. plugged' \in Seq(Lines) /\ Distinct(plugged)'
  BY <1>1 DEF TopInv, Matched, Distinct
<1>3. Quiet' /\ Addressed'
  BY <1>1 DEF TopInv, Quiet, Addressed
<1> QED
  BY <1>1, <1>2, <1>3, Stays DEF TopInv

\* Devices that come and go change nothing of what is built on them.
LEMMA ReplugStep == ASSUME TopInv, Replug PROVE TopInv'
<1>1. /\ UNCHANGED <<config, found, serials, canPorts, map, motors, drives, reset>>
      /\ at' = at /\ plugged' \in Orders
  BY DEF Replug, runtime, told
<1>2. plugged' \in Seq(Lines) /\ Distinct(plugged')
  BY <1>1, OrdersAreDistinct
<1>3. Quiet' /\ Addressed'
  BY <1>1, AddressedStays DEF TopInv, Quiet
<1> QED
  BY <1>1, <1>2, <1>3, Stays DEF TopInv, Distinct

\* A port gets the device its serial_id selects, which no port before has.
LEMMA OpenStep == ASSUME TopInv, Open PROVE TopInv'
<1> DEFINE n == Len(serials)
           id == Ports(config)[n + 1].serial
<1>1. /\ config \in Seq(Seq(Port)) /\ Ports(config) \in Seq(Port) /\ Len(Ports(config)) \in Nat
      /\ serials \in Seq(Lines) /\ n \in Nat /\ found \in Seq(Lines)
  BY Turns, LenProperties DEF TopInv, Configured, Matched
<1>2. at = "open" /\ n < Len(Ports(config)) /\ n + 1 \in 1..Len(Ports(config))
  BY <1>1 DEF Open
<1>3. UNCHANGED <<config, plugged, found, canPorts, map, motors, drives, reset>>
  BY DEF Open, told
<1>4. plugged' \in Seq(Lines) /\ Distinct(plugged)' /\ Distinct(found)'
  BY <1>3 DEF TopInv, Matched, Distinct
<1>5. CASE at' = "unwinding"
  <2>1. serials' = serials
    BY <1>2, <1>5 DEF Open, Opened, Unwind
  <2>2. Quiet' /\ Addressed'
    BY <1>2, <1>3, <1>5 DEF TopInv, Quiet, Addressed
  <2> QED
    BY <1>2, <1>3, <1>4, <1>5, <2>1, <2>2, Stays DEF TopInv
<1>6. CASE at' # "unwinding"
  <2>1. /\ id <= Len(found) /\ id \notin {Ports(config)[k].serial : k \in 1..n}
        /\ serials' = Append(serials, found[id]) /\ at' = "open"
    BY <1>2, <1>6 DEF Open, Opened, Unwind
  <2>2. id \in 1..Len(found)
    <3>1. PICK b \in 1..Len(config) : \E p \in 1..Len(config[b]) : n + 1 = Turn(b, p)
      BY <1>1, <1>2, Turns
    <3>2. PICK p \in 1..Len(config[b]) : n + 1 = Turn(b, p)
      BY <3>1
    <3>3. Ports(config)[n + 1] = config[b][p] /\ config[b][p] \in Port
      BY <1>1, <3>2, Turns
    <3>4. id \in Nat /\ id >= 1
      <4>1. ValidPort(config[b][p])
        BY <1>2, <1>3, <3>1, <3>2 DEF TopInv, Configured
      <4> QED
        BY <1>2, <3>3, <4>1 DEF ValidPort, Port
    <3>5. Len(found) \in Nat
      BY <1>1, LenProperties
    <3> QED
      BY <2>1, <3>4, <3>5
  <2>3. found[id] \in Lines
    BY <1>1, <2>2, ElementOfSeq
  <2>4. /\ serials' \in Seq(Lines) /\ Len(serials') = n + 1 /\ serials'[n + 1] = found[id]
        /\ \A k \in 1..n : serials'[k] = serials[k]
    BY <1>1, <2>1, <2>3, AppendProperties
  <2>5. ASSUME NEW k \in 1..n + 1
        PROVE  /\ Ports(config)[k].serial \in 1..Len(found)
               /\ serials'[k] = found[Ports(config)[k].serial]
               /\ \A j \in 1..k - 1 : Ports(config)[j].serial # Ports(config)[k].serial
    <3>1. CASE k = n + 1
      <4>1. \A j \in 1..n : Ports(config)[j].serial # id
        BY <2>1
      <4>2. 1..k - 1 = 1..n
        BY <1>1, <3>1
      <4> QED
        BY <2>2, <2>4, <3>1, <4>1, <4>2
    <3>2. CASE k # n + 1
      <4>1. k \in 1..n
        BY <1>1, <3>2
      <4> QED
        BY <2>4, <4>1 DEF TopInv, Matched
    <3> QED
      BY <3>1, <3>2
  <2>6. Matched'
    <3>1. Len(serials') <= Len(Ports(config')) /\ at' = "open"
      BY <1>1, <1>2, <1>3, <2>1, <2>4
    <3>2. \A k \in 1..Len(serials') :
            /\ Ports(config')[k].serial \in 1..Len(found')
            /\ serials'[k] = found'[Ports(config')[k].serial]
            /\ \A j \in 1..k - 1 : Ports(config')[j].serial # Ports(config')[k].serial
      <4> HIDE DEF n
      <4> QED
        BY <1>3, <2>4, <2>5
    <3> QED
      BY <1>1, <1>3, <1>4, <2>4, <3>1, <3>2 DEF Matched
  <2>7. Configured' /\ Built' /\ Collected' /\ Quiet' /\ Addressed'
    BY <1>2, <1>3, <2>1 DEF TopInv, Configured, Built, Collected, Quiet, Addressed
  <2> QED
    BY <2>6, <2>7 DEF TopInv
<1> QED
  BY <1>5, <1>6

\* The receivers start with no ports built and no maps.
LEMMA StartStep == ASSUME TopInv, StartReceivers PROVE TopInv'
<1>1. /\ at = "open" /\ at' = "build" /\ Len(serials) = Len(Ports(config))
      /\ map' = [l \in Range(serials) |-> NoMap]
      /\ UNCHANGED <<config, plugged, found, serials, canPorts, drives, reset>>
  BY DEF StartReceivers, told
<1>2. /\ canPorts = <<>> /\ serials \in Seq(Lines) /\ config \in Seq(Seq(Port))
      /\ Configured /\ Matched
  BY <1>1 DEF TopInv, Built, Matched, Configured
<1>3. Configured' /\ Collected' /\ Quiet' /\ Addressed'
  BY <1>1 DEF TopInv, Configured, Collected, Quiet, Addressed
<1>4. Matched'
  BY <1>1, <1>2 DEF Matched, Distinct
<1>5. ASSUME NEW b \in 1..Len(config), NEW p \in 1..Len(config[b])
      PROVE  ~(Turn(b, p) <= Len(canPorts)) /\ map'[serials[Turn(b, p)]] = NoMap
  <2>1. Turn(b, p) \in 1..Len(serials) /\ Len(canPorts) = 0
    BY <1>1, <1>2, Turns, EmptySeq
  <2>2. serials[Turn(b, p)] \in Range(serials)
    BY <1>2, <2>1, LenProperties DEF Range
  <2> QED
    BY <1>1, <2>1, <2>2
<1>6. Standing'
  <2>1. canPorts \in Seq(CanPort) /\ Len(canPorts) <= Len(Ports(config))
    BY <1>2, EmptySeq, Turns
  <2>2. DOMAIN map' = Range(serials)
    BY <1>1
  <2>3. \A b, p : (Turn(b, p))' = Turn(b, p)
    BY <1>1 DEF Turn
  <2> QED
    BY <1>1, <1>5, <2>1, <2>2, <2>3 DEF Standing
<1>7. Built'
  BY <1>1, <1>6 DEF Built
<1> QED
  BY <1>3, <1>4, <1>7 DEF TopInv

\* No two ports share a device.
LEMMA DevicesAreDistinct ==
  ASSUME Matched, NEW i \in 1..Len(serials), NEW j \in 1..Len(serials), i # j
  PROVE  serials[i] # serials[j]
<1> DEFINE sel(k) == Ports(config)[k].serial
<1>1. \A k \in 1..Len(serials) :
        /\ sel(k) \in 1..Len(found) /\ serials[k] = found[sel(k)]
        /\ \A m \in 1..k - 1 : sel(m) # sel(k)
  BY DEF Matched
<1>2. Len(serials) \in Nat /\ Distinct(found)
  BY LenProperties DEF Matched
<1> HIDE DEF sel
<1>3. i \in 1..j - 1 \/ j \in 1..i - 1
  BY <1>2
<1>4. sel(i) # sel(j)
  BY <1>1, <1>3
<1> QED
  BY <1>1, <1>2, <1>4 DEF Distinct

\* The next port is built on its own device, and no other map changes.
LEMMA BuildStep ==
  ASSUME TopInv, NEW b \in DOMAIN config, NEW p \in DOMAIN config[b], Build(b, p)
  PROVE  TopInv'
<1> DEFINE k == Turn(b, p)
           line == serials[k]
<1>1. /\ config \in Seq(Seq(Port)) /\ Matched /\ Configured /\ at = "build"
      /\ Standing /\ Len(serials) = Len(Ports(config)) /\ serials \in Seq(Lines)
      /\ drives = Silent /\ reset = None
  BY DEF TopInv, Configured, Matched, Built, Quiet, Build
<1>2. /\ b \in 1..Len(config) /\ p \in 1..Len(config[b])
      /\ k \in 1..Len(Ports(config)) /\ PortsBefore(b) + p = k /\ k \in Nat
      /\ Len(Ports(config)) \in Nat
  BY <1>1, Turns DEF Turn
<1>3. Len(canPorts) = k - 1 /\ Offset(b) + p = k
  <2>1. Len(canPorts) = PortsBefore(b) + p - 1
    BY Zenon DEF Build
  <2> QED
    <3>1. PortsBefore(b) \in Nat /\ Len(config[b]) \in Nat
      BY <1>1, <1>2, Turns
    <3>2. p \in Nat
      BY <1>2, <3>1
    <3> QED
      BY <1>2, <2>1, <3>1, <3>2 DEF Offset
<1>4. /\ UNCHANGED <<config, plugged, found, serials, motors, drives, reset>>
      /\ at' \in {"build", "unwinding"}
  BY <1>1 DEF Build, told
<1>5. Configured' /\ Matched' /\ Collected' /\ Quiet' /\ Addressed'
  <2>1. Configured' /\ Matched'
    BY <1>1, <1>4 DEF Configured, Matched, Distinct
  <2> QED
    BY <1>1, <1>4, <2>1 DEF Collected, Quiet, Addressed
<1>6. CASE ~Buildable(config[b][p])
  <2>1. at' = "unwinding"
    BY <1>6 DEF Build
  <2> QED
    BY <1>5, <2>1 DEF TopInv, Built
<1>7. CASE Buildable(config[b][p])
  <2>1. /\ canPorts' = Append(canPorts, [board |-> b, port |-> p, line |-> line])
        /\ map' = [map EXCEPT ![line] = MapOf(b, p)] /\ at' = at
    BY <1>3, <1>7 DEF Build
  <2>2. line \in Lines /\ [board |-> b, port |-> p, line |-> line] \in CanPort
    <3>1. line \in Lines
      BY <1>1, <1>2, ElementOfSeq
    <3>2. b \in Nat /\ p \in Nat
      BY <1>2
    <3> QED
      BY <3>1, <3>2 DEF CanPort
  <2> HIDE DEF k, line
  <2>3. /\ canPorts' \in Seq(CanPort) /\ Len(canPorts') = k
        /\ canPorts'[k] = [board |-> b, port |-> p, line |-> line]
        /\ \A j \in 1..k - 1 : canPorts'[j] = canPorts[j]
    BY <1>1, <1>2, <1>3, <2>1, <2>2, AppendProperties DEF Standing
  <2>4. line \in DOMAIN map
    BY <1>1, <1>2, LenProperties DEF Standing, Range, line
  <2>5. DOMAIN map' = Range(serials) /\ map'[line] = MapOf(b, p)
    BY <1>1, <2>1, <2>4 DEF Standing
  <2>6. ASSUME NEW c \in 1..Len(config), NEW q \in 1..Len(config[c])
        PROVE  IF Turn(c, q) <= k
               THEN /\ canPorts'[Turn(c, q)] =
                         [board |-> c, port |-> q, line |-> serials[Turn(c, q)]]
                    /\ Buildable(config[c][q])
                    /\ map'[serials[Turn(c, q)]] = MapOf(c, q)
               ELSE map'[serials[Turn(c, q)]] = NoMap
    <3>1. Turn(c, q) \in 1..Len(serials) /\ k \in 1..Len(serials)
      BY <1>1, <1>2, Turns
    <3>2. CASE Turn(c, q) = k
      <4>1. c = b /\ q = p
        BY <1>1, <1>2, <3>2, Turns DEF k
      <4> QED
        BY <1>2, <1>7, <2>3, <2>5, <3>2, <4>1 DEF line
    <3>3. CASE Turn(c, q) # k
      <4>1. serials[Turn(c, q)] # line
        BY <1>1, <3>1, <3>3, DevicesAreDistinct DEF line
      <4>2. serials[Turn(c, q)] \in DOMAIN map
        BY <1>1, <3>1, LenProperties DEF Standing, Range
      <4>3. map'[serials[Turn(c, q)]] = map[serials[Turn(c, q)]]
        BY <2>1, <4>1, <4>2
      <4>4. Turn(c, q) <= k <=> Turn(c, q) <= Len(canPorts)
        BY <1>2, <1>3, <3>1, <3>3
      <4>5. Turn(c, q) <= k => canPorts'[Turn(c, q)] = canPorts[Turn(c, q)]
        BY <1>2, <2>3, <3>1, <3>3
      <4>6. IF Turn(c, q) <= Len(canPorts)
            THEN /\ canPorts[Turn(c, q)] =
                      [board |-> c, port |-> q, line |-> serials[Turn(c, q)]]
                 /\ Buildable(config[c][q])
                 /\ map[serials[Turn(c, q)]] = MapOf(c, q)
            ELSE map[serials[Turn(c, q)]] = NoMap
        BY <1>1 DEF Standing
      <4> QED
        BY <4>3, <4>4, <4>5, <4>6
    <3> QED
      BY <3>2, <3>3
  <2>7. Standing'
    <3>1. \A c, q : (Turn(c, q))' = Turn(c, q) /\ (MapOf(c, q))' = MapOf(c, q)
      BY <1>4 DEF Turn, MapOf
    <3>2. canPorts' \in Seq(CanPort) /\ Len(canPorts') <= Len(Ports(config'))
      BY <1>2, <1>4, <2>3
    <3>3. DOMAIN map' = Range(serials')
      BY <1>4, <2>5
    <3> QED
      BY <1>4, <2>3, <2>6, <3>1, <3>2, <3>3 DEF Standing
  <2> QED
    BY <1>1, <1>5, <2>1, <2>7 DEF TopInv, Built
<1> QED
  BY <1>6, <1>7

\* build_runtime_topology collects the motors of the ports.
LEMMA CollectStep == ASSUME TopInv, Collect PROVE TopInv'
<1>1. /\ UNCHANGED <<config, plugged, found, serials, canPorts, map, drives, reset>>
      /\ at = "build" /\ at' = "up" /\ Len(canPorts) = Len(Ports(config))
      /\ motors' = FlattenSeq(Lists)
  BY DEF Collect, told, Lists
<1>2. /\ Configured /\ Matched /\ Standing /\ Len(serials) = Len(Ports(config))
      /\ drives = Silent /\ reset = None
  BY <1>1 DEF TopInv, Matched, Built, Quiet
<1>3. Configured' /\ Matched' /\ Quiet'
  BY <1>1, <1>2 DEF Configured, Matched, Distinct, Quiet
<1>4. Built'
  <2>1. \A b, p : (Turn(b, p))' = Turn(b, p) /\ (MapOf(b, p))' = MapOf(b, p)
    BY <1>1 DEF Turn, MapOf
  <2>2. Standing'
    BY <1>1, <1>2, <2>1 DEF Standing
  <2> QED
    BY <1>1, <2>2 DEF Built
<1>5. Collected'
  <2>1. Lists' = Lists
    BY <1>1 DEF Lists, MotorsOf
  <2> QED
    BY <1>1, <2>1 DEF Collected
<1>6. Addressed'
  BY <1>1, <1>2 DEF Addressed, Silent
<1> QED
  BY <1>3, <1>4, <1>5, <1>6 DEF TopInv

-----------------------------------------------------------------------------
(* The motors when the runtime is up.                                      *)

\* The port of a place has its turn, and its device is the one of the serial_id.
LEMMA PlaceHasPort ==
  ASSUME TopInv, at = "up", NEW x \in Places
  PROVE  /\ x[1] \in 1..Len(config) /\ x[2] \in 1..Len(config[x[1]])
         /\ x[3] \in 1..Len(config[x[1]][x[2]].motors) /\ x = <<x[1], x[2], x[3]>>
         /\ Turn(x[1], x[2]) \in 1..Len(serials) /\ Len(serials) = Len(Ports(config))
         /\ Address(x) = <<serials[Turn(x[1], x[2])], IdOf(x)>>
         /\ Address(x) \in Addresses
<1>1. /\ config \in Seq(Seq(Port)) /\ Len(serials) = Len(Ports(config)) /\ Matched /\ Configured
      /\ Standing /\ Len(canPorts) = Len(Ports(config)) /\ serials \in Seq(Lines)
  BY DEF TopInv, Configured, Matched, Built, Collected
<1>2. PICK b \in DOMAIN config : \E p \in DOMAIN config[b] :
        \E k \in DOMAIN config[b][p].motors : x = <<b, p, k>>
  BY DEF Places
<1>3. PICK p \in DOMAIN config[b] : \E k \in DOMAIN config[b][p].motors : x = <<b, p, k>>
  BY <1>2
<1>4. PICK k \in DOMAIN config[b][p].motors : x = <<b, p, k>>
  BY <1>3
<1>5. /\ b \in 1..Len(config) /\ p \in 1..Len(config[b]) /\ config[b][p] \in Port
      /\ Turn(b, p) \in 1..Len(Ports(config)) /\ Ports(config)[Turn(b, p)] = config[b][p]
      /\ Len(Ports(config)) \in Nat
  BY <1>1, Turns
<1>6. config[b][p].motors \in Seq(Motor) /\ DOMAIN config[b][p].motors = 1..Len(config[b][p].motors)
  BY <1>5, LenProperties DEF Port
<1>7. Address(x) = <<serials[Turn(b, p)], IdOf(x)>>
  BY <1>1, <1>4, <1>5 DEF Address, Matched
<1>8. IdOf(x) \in 1..MaxId
  <2>1. config[b][p].motors[k] \in Motor /\ config[b][p].motors[k] \in Range(config[b][p].motors)
    BY <1>4, <1>6, ElementOfSeq DEF Range
  <2>2. config[b][p].motors[k].id >= 1
    BY <1>1, <1>4, <1>5 DEF Configured, ValidPort
  <2>3. config[b][p].motors[k].id <= MaxId
    <3>1. Turn(b, p) <= Len(canPorts)
      BY <1>1, <1>5
    <3>2. Buildable(config[b][p])
      BY <1>1, <1>5, <3>1 DEF Standing
    <3> QED
      BY <2>1, <3>2 DEF Buildable
  <2> QED
    BY <1>4, <2>1, <2>2, <2>3, TopologyAssumption DEF IdOf, Motor
<1>9. serials[Turn(b, p)] \in Lines
  BY <1>1, <1>5, ElementOfSeq
<1> QED
  BY <1>1, <1>4, <1>5, <1>6, <1>7, <1>8, <1>9 DEF Addresses

\* Two places have two addresses.
LEMMA AddressesAreDistinct ==
  ASSUME TopInv, at = "up", NEW x \in Places, NEW y \in Places, Address(x) = Address(y)
  PROVE  x = y
<1> DEFINE i == Turn(x[1], x[2])
           j == Turn(y[1], y[2])
<1>1. Matched /\ Configured /\ config \in Seq(Seq(Port))
  BY DEF TopInv, Configured
<1>2. /\ i \in 1..Len(serials) /\ j \in 1..Len(serials)
      /\ serials[i] = serials[j] /\ IdOf(x) = IdOf(y)
  BY PlaceHasPort
<1>3. i = j
  BY <1>1, <1>2, DevicesAreDistinct
<1>4. /\ x[1] \in 1..Len(config) /\ x[2] \in 1..Len(config[x[1]])
      /\ y[1] \in 1..Len(config) /\ y[2] \in 1..Len(config[y[1]])
      /\ x[3] \in 1..Len(config[x[1]][x[2]].motors) /\ y[3] \in 1..Len(config[y[1]][y[2]].motors)
      /\ x = <<x[1], x[2], x[3]>> /\ y = <<y[1], y[2], y[3]>>
  BY PlaceHasPort
<1>5. x[1] = y[1] /\ x[2] = y[2]
  BY <1>1, <1>3, <1>4, Turns
<1> DEFINE ms == config[x[1]][x[2]].motors
<1>6. /\ DOMAIN ms = 1..Len(ms) /\ Len(ms) \in Nat
      /\ \A k \in DOMAIN ms : \A m \in 1..k - 1 : ms[m].id # ms[k].id
  <2>1. config[x[1]][x[2]] \in Port /\ ValidPort(config[x[1]][x[2]])
    BY <1>1, <1>4, Turns DEF Configured
  <2>2. ms \in Seq(Motor)
    BY <2>1 DEF Port
  <2> QED
    BY <2>1, <2>2, LenProperties DEF ValidPort
<1>7. x[3] = y[3]
  <2>1. ms[x[3]].id = ms[y[3]].id /\ x[3] \in 1..Len(ms) /\ y[3] \in 1..Len(ms)
    BY <1>2, <1>4, <1>5 DEF IdOf
  <2> HIDE DEF ms
  <2>2. ~(x[3] < y[3])
    BY <1>6, <2>1
  <2>3. ~(y[3] < x[3])
    BY <1>6, <2>1
  <2> QED
    BY <2>1, <2>2, <2>3
<1> QED
  BY <1>4, <1>5, <1>7

\* The list of the k-th CAN port, and what is in it.
Collectable == [place : Places, line : Lines]

\* append_motors_to gives each port the list of its motors, all on its device.
LEMMA ListOfPort ==
  ASSUME TopInv, at = "up", NEW b \in 1..Len(config), NEW p \in 1..Len(config[b])
  PROVE  /\ Turn(b, p) \in 1..Len(canPorts)
         /\ DOMAIN Lists = 1..Len(canPorts) /\ Len(canPorts) \in Nat
         /\ Lists[Turn(b, p)] \in Seq(Collectable)
         /\ Len(Lists[Turn(b, p)]) = Len(config[b][p].motors)
         /\ Len(config[b][p].motors) \in Nat
         /\ \A m \in 1..Len(config[b][p].motors) :
              Lists[Turn(b, p)][m] = [place |-> <<b, p, m>>, line |-> serials[Turn(b, p)]]
<1> DEFINE k == Turn(b, p)
           ms == config[b][p].motors
<1>1. /\ config \in Seq(Seq(Port)) /\ Len(serials) = Len(Ports(config)) /\ serials \in Seq(Lines)
      /\ Standing /\ Len(canPorts) = Len(Ports(config)) /\ canPorts \in Seq(CanPort)
  BY DEF TopInv, Configured, Matched, Built, Collected, Standing
<1>2. /\ k \in 1..Len(canPorts) /\ Len(canPorts) \in Nat /\ config[b][p] \in Port
      /\ DOMAIN config = 1..Len(config) /\ DOMAIN config[b] = 1..Len(config[b])
  BY <1>1, Turns
<1>3. DOMAIN canPorts = 1..Len(canPorts) /\ serials[k] \in Lines
  BY <1>1, <1>2, LenProperties, ElementOfSeq
<1>4. canPorts[k] = [board |-> b, port |-> p, line |-> serials[k]]
  <2>1. k <= Len(canPorts)
    BY <1>2
  <2> QED
    BY <1>1, <2>1 DEF Standing
<1>5. DOMAIN ms = 1..Len(ms) /\ Len(ms) \in Nat
  BY <1>2, LenProperties DEF Port
<1>6. Lists[k] = [m \in 1..Len(ms) |-> [place |-> <<b, p, m>>, line |-> serials[k]]]
  BY <1>2, <1>3, <1>4, <1>5 DEF Lists, MotorsOf
<1>7. ASSUME NEW m \in 1..Len(ms)
      PROVE  [place |-> <<b, p, m>>, line |-> serials[k]] \in Collectable
  <2>1. <<b, p, m>> \in Places
    BY <1>2, <1>5 DEF Places
  <2> QED
    BY <1>3, <2>1 DEF Collectable
<1> HIDE DEF k, ms
<1>8. Lists[k] \in [1..Len(ms) -> Collectable]
  BY <1>6, <1>7
<1>9. Lists[k] \in Seq(Collectable) /\ Len(Lists[k]) = Len(ms)
  BY <1>5, <1>8, FunctionIsSeq
<1> QED
  BY <1>2, <1>3, <1>5, <1>6, <1>9 DEF k, ms, Lists

\* motors_ has every place once, in the order of the configuration.
LEMMA MotorsInOrder ==
  ASSUME TopInv, at = "up"
  PROVE  /\ motors \in Seq(Collectable) /\ Len(motors) \in Nat /\ DOMAIN motors = 1..Len(motors)
         /\ \A i \in 1..Len(motors) :
              /\ motors[i].place \in Places
              /\ motors[i].line = serials[Turn(motors[i].place[1], motors[i].place[2])]
         /\ \A x \in Places : \E i \in 1..Len(motors) : motors[i].place = x
         /\ \A i, j \in 1..Len(motors) : i < j => Before(motors[i].place, motors[j].place)
<1>1. /\ config \in Seq(Seq(Port)) /\ Len(canPorts) = Len(Ports(config))
      /\ motors = FlattenSeq(Lists)
  BY DEF TopInv, Configured, Collected
<1>2. \A k \in 1..Len(canPorts) :
        \E b \in 1..Len(config) : \E p \in 1..Len(config[b]) : k = Turn(b, p)
  BY <1>1, Turns
<1>3. DOMAIN Lists = DOMAIN canPorts /\ canPorts \in Seq(CanPort)
  BY DEF Lists, TopInv, Built, Standing
<1>4. DOMAIN Lists = 1..Len(canPorts) /\ Len(canPorts) \in Nat
  BY <1>3, LenProperties
<1>5. Lists \in Seq(Seq(Collectable)) /\ Len(Lists) = Len(canPorts)
  <2>1. \A k \in 1..Len(canPorts) : Lists[k] \in Seq(Collectable)
    BY <1>2, ListOfPort
  <2>2. Lists \in [1..Len(canPorts) -> Seq(Collectable)]
    BY <1>4, <2>1 DEF Lists
  <2> QED
    BY <1>4, <2>2, FunctionIsSeq
<1>6. /\ motors \in Seq(Collectable)
      /\ \A k \in 1..Len(Lists) : Offs(Lists, k) \in Nat
      /\ \A k \in 1..Len(Lists) : \A m \in 1..Len(Lists[k]) :
           /\ Offs(Lists, k) + m \in 1..Len(motors)
           /\ motors[Offs(Lists, k) + m] = Lists[k][m]
      /\ \A i \in 1..Len(motors) :
           \E k \in 1..Len(Lists) : \E m \in 1..Len(Lists[k]) : i = Offs(Lists, k) + m
      /\ \A k, l \in 1..Len(Lists) : \A m \in 1..Len(Lists[k]) : \A n \in 1..Len(Lists[l]) :
           k < l => Offs(Lists, k) + m < Offs(Lists, l) + n
  BY <1>1, <1>5, FlattenPlaces, Zenon
<1>7. Len(motors) \in Nat /\ DOMAIN motors = 1..Len(motors)
  BY <1>6, LenProperties
<1> DEFINE At(i, b, p, m) ==
      /\ b \in 1..Len(config) /\ p \in 1..Len(config[b])
      /\ m \in 1..Len(config[b][p].motors) /\ Len(config[b][p].motors) \in Nat
      /\ Turn(b, p) \in 1..Len(Lists)
      /\ i = Offs(Lists, Turn(b, p)) + m
      /\ m \in 1..Len(Lists[Turn(b, p)])
      /\ motors[i] = [place |-> <<b, p, m>>, line |-> serials[Turn(b, p)]]
<1>8. ASSUME NEW i \in 1..Len(motors) PROVE \E b, p, m : At(i, b, p, m)
  <2>1. PICK k \in 1..Len(Lists) : \E m \in 1..Len(Lists[k]) : i = Offs(Lists, k) + m
    BY <1>6
  <2>2. PICK m \in 1..Len(Lists[k]) : i = Offs(Lists, k) + m
    BY <2>1
  <2>3. PICK b \in 1..Len(config) : \E p \in 1..Len(config[b]) : k = Turn(b, p)
    BY <1>2, <1>5
  <2>4. PICK p \in 1..Len(config[b]) : k = Turn(b, p)
    BY <2>3
  <2>5. motors[i] = Lists[k][m]
    BY <1>6, <2>2
  <2>6. At(i, b, p, m)
    BY <2>2, <2>4, <2>5, ListOfPort
  <2> QED
    BY <2>6, Zenon
<1>9. ASSUME NEW x \in Places PROVE \E i \in 1..Len(motors) : motors[i].place = x
  <2>1. /\ x[1] \in 1..Len(config) /\ x[2] \in 1..Len(config[x[1]])
        /\ x[3] \in 1..Len(config[x[1]][x[2]].motors) /\ x = <<x[1], x[2], x[3]>>
    BY PlaceHasPort
  <2> DEFINE k == Turn(x[1], x[2])
  <2>2. /\ k \in 1..Len(Lists) /\ x[3] \in 1..Len(Lists[k])
        /\ Lists[k][x[3]] = [place |-> <<x[1], x[2], x[3]>>, line |-> serials[k]]
    BY <1>5, <2>1, ListOfPort
  <2> HIDE DEF k
  <2>3. /\ Offs(Lists, k) + x[3] \in 1..Len(motors)
        /\ motors[Offs(Lists, k) + x[3]] = Lists[k][x[3]]
    BY <1>6, <2>2
  <2>4. motors[Offs(Lists, k) + x[3]].place = x
    BY <2>1, <2>2, <2>3
  <2> QED
    BY <2>3, <2>4
<1>10. ASSUME NEW i \in 1..Len(motors), NEW j \in 1..Len(motors), i < j
       PROVE  Before(motors[i].place, motors[j].place)
  <2>1. PICK b, p, m : At(i, b, p, m)
    BY <1>8, Zenon
  <2>2. PICK c, q, n : At(j, c, q, n)
    BY <1>8, Zenon
  <2> DEFINE k == Turn(b, p)
             l == Turn(c, q)
  <2>3. /\ i = Offs(Lists, k) + m /\ j = Offs(Lists, l) + n
        /\ k \in 1..Len(Lists) /\ l \in 1..Len(Lists)
        /\ m \in 1..Len(Lists[k]) /\ n \in 1..Len(Lists[l])
        /\ b \in 1..Len(config) /\ p \in 1..Len(config[b])
        /\ c \in 1..Len(config) /\ q \in 1..Len(config[c])
    BY <2>1, <2>2
  <2>4. /\ motors[i].place = <<b, p, m>> /\ motors[j].place = <<c, q, n>>
        /\ m \in Nat /\ n \in Nat
    BY <2>1, <2>2, SMTT(20)
  <2>5. /\ b \in Nat /\ c \in Nat /\ p \in Nat /\ q \in Nat /\ i \in Nat /\ j \in Nat
        /\ k \in Nat /\ l \in Nat
    <3>1. Len(config) \in Nat /\ Len(config[b]) \in Nat /\ Len(config[c]) \in Nat
      BY <1>1, <2>3, Turns
    <3>2. Len(Lists) \in Nat /\ Len(motors) \in Nat
      BY <1>4, <1>5, <1>7
    <3> HIDE DEF k, l
    <3>3. k \in Nat /\ l \in Nat
      BY <2>3, <3>2
    <3>4. b \in Nat /\ c \in Nat /\ p \in Nat /\ q \in Nat
      BY <2>3, <3>1
    <3>5. i \in Nat /\ j \in Nat
      BY <3>2
    <3> QED
      BY <3>3, <3>4, <3>5
  <2>6. b < c => k < l
    BY <1>1, <2>3, Turns
  <2>7. c < b => l < k
    BY <1>1, <2>3, Turns
  <2>8. b = c => (k < l <=> p < q) /\ (k = l <=> p = q)
    <3>1. Offs(config, b) \in Nat
      BY <1>1, <2>3, Turns
    <3> QED
      BY <2>5, <3>1 DEF Turn
  <2> HIDE DEF k, l
  <2>9. ~(l < k)
    <3>1. l < k => j < i
      BY <1>6, <2>3
    <3> QED
      BY <1>10, <2>5, <3>1
  <2>10. k = l => m < n
    <3>1. Offs(Lists, k) \in Nat
      BY <1>6, <2>3
    <3> QED
      BY <1>10, <2>3, <2>4, <3>1, SMTT(20)
  <2>11. b < c \/ (b = c /\ p < q) \/ (b = c /\ p = q /\ m < n)
    BY <2>5, <2>6, <2>7, <2>8, <2>9, <2>10
  <2> QED
    BY <2>4, <2>11 DEF Before
<1>11. ASSUME NEW i \in 1..Len(motors)
       PROVE  /\ motors[i].place \in Places
              /\ motors[i].line = serials[Turn(motors[i].place[1], motors[i].place[2])]
  <2>1. PICK b, p, m : At(i, b, p, m)
    BY <1>8, Zenon
  <2>2. motors[i].place = <<b, p, m>> /\ motors[i].line = serials[Turn(b, p)]
    BY <2>1
  <2>3. motors[i] \in Collectable
    BY <1>6, ElementOfSeq
  <2>4. motors[i].place \in Places
    BY <2>3 DEF Collectable
  <2> QED
    BY <2>2, <2>4
<1> QED
  BY <1>6, <1>7, <1>9, <1>10, <1>11

\* No two places are before each other.
LEMMA BeforeIsStrict ==
  ASSUME TopInv, at = "up", NEW x \in Places, NEW y \in Places, Before(x, y)
  PROVE  ~Before(y, x)
<1>1. /\ x[1] \in 1..Len(config) /\ x[2] \in 1..Len(config[x[1]])
      /\ x[3] \in 1..Len(config[x[1]][x[2]].motors)
      /\ y[1] \in 1..Len(config) /\ y[2] \in 1..Len(config[y[1]])
      /\ y[3] \in 1..Len(config[y[1]][y[2]].motors)
  BY PlaceHasPort
<1>2. config \in Seq(Seq(Port))
  BY DEF TopInv, Configured
<1>3. Len(config) \in Nat /\ Len(config[x[1]]) \in Nat /\ Len(config[y[1]]) \in Nat
  BY <1>1, <1>2, Turns
<1>4. /\ Len(config[x[1]][x[2]].motors) \in Nat
      /\ Len(config[y[1]][y[2]].motors) \in Nat
  BY <1>1, ListOfPort
<1>5. x[1] \in Nat /\ x[2] \in Nat /\ y[1] \in Nat /\ y[2] \in Nat
  BY <1>1, <1>3, SMTT(20)
<1>6. x[3] \in Nat /\ y[3] \in Nat
  BY <1>1, <1>4
<1> QED
  BY <1>5, <1>6 DEF Before

\* The index of a motor is the rank of its place: there are as many places
\* before it as motors.
LEMMA RankIsIndex ==
  ASSUME TopInv, at = "up", NEW i \in 1..Len(motors)
  PROVE  Rank(motors[i].place) = i
<1> DEFINE x == motors[i].place
           below == {y \in Places : Before(y, x)}
           f == [j \in 1..i - 1 |-> motors[j].place]
<1>1. /\ Len(motors) \in Nat
      /\ \A j \in 1..Len(motors) : motors[j].place \in Places
      /\ \A y \in Places : \E j \in 1..Len(motors) : motors[j].place = y
      /\ \A j, k \in 1..Len(motors) : j < k => Before(motors[j].place, motors[k].place)
  BY MotorsInOrder
<1>2. i \in Nat /\ i >= 1 /\ i <= Len(motors)
  BY <1>1
<1>3. \A j, k \in 1..Len(motors) : j < k => ~Before(motors[k].place, motors[j].place)
  BY <1>1, BeforeIsStrict
<1>4. \A j, k \in 1..Len(motors) : motors[j].place = motors[k].place => j = k
  <2>1. SUFFICES ASSUME NEW j \in 1..Len(motors), NEW k \in 1..Len(motors), j < k,
                        motors[j].place = motors[k].place
                 PROVE  FALSE
    BY <1>1
  <2> QED
    BY <1>1, <1>3, <2>1
<1>5. \A j \in 1..i - 1 : j \in 1..Len(motors) /\ j < i
  BY <1>2, <1>1
<1>6. f \in Injection(1..i - 1, below)
  <2>1. \A j \in 1..i - 1 : motors[j].place \in below
    BY <1>1, <1>5
  <2> HIDE DEF below
  <2>2. f \in [1..i - 1 -> below]
    BY <2>1
  <2>3. \A j, k \in 1..i - 1 : f[j] = f[k] => j = k
    BY <1>4, <1>5
  <2> QED
    BY <2>2, <2>3 DEF Injection, IsInjective
<1>7. ASSUME NEW y \in below PROVE \E j \in 1..i - 1 : f[j] = y
  <2>1. PICK j \in 1..Len(motors) : motors[j].place = y
    BY <1>1
  <2>2. ~(i < j) /\ i # j
    <3>1. i < j => ~Before(y, x)
      BY <1>3, <2>1
    <3>2. i = j => Before(x, y) /\ x \in Places
      BY <1>1, <2>1
    <3> QED
      BY <1>1, <2>1, <3>1, <3>2, BeforeIsStrict
  <2>3. j \in 1..i - 1
    BY <1>1, <1>2, <2>2
  <2> QED
    BY <2>1, <2>3
<1>8. f \in Surjection(1..i - 1, below)
  BY <1>6, <1>7 DEF Injection, Surjection
<1>9. ExistsBijection(1..i - 1, below)
  BY <1>6, <1>8 DEF ExistsBijection, Bijection
<1>10. IsFiniteSet(1..i - 1) /\ Cardinality(1..i - 1) = i - 1
  BY <1>2, FS_Interval
<1>11. Cardinality(below) = i - 1
  <2> HIDE DEF below
  <2> QED
    BY <1>9, <1>10, FS_Bijection
<1> QED
  BY <1>2, <1>11 DEF Rank

\* The motor at an address is the one with the index of its place.
LEMMA MotorAtAddress ==
  ASSUME TopInv, at = "up", NEW i \in 1..Len(motors)
  PROVE  /\ Address(motors[i].place) = <<motors[i].line, IdOf(motors[i].place)>>
         /\ Address(motors[i].place) \in Addresses
         /\ \A j \in 1..Len(motors) : Address(motors[j].place) = Address(motors[i].place) => j = i
<1>1. /\ Len(motors) \in Nat
      /\ \A j \in 1..Len(motors) :
           /\ motors[j].place \in Places
           /\ motors[j].line = serials[Turn(motors[j].place[1], motors[j].place[2])]
  BY MotorsInOrder
<1>2. ASSUME NEW j \in 1..Len(motors), Address(motors[j].place) = Address(motors[i].place)
      PROVE  j = i
  <2>1. motors[j].place = motors[i].place
    BY <1>1, <1>2, AddressesAreDistinct
  <2> QED
    BY <2>1, RankIsIndex
<1> QED
  BY <1>1, <1>2, PlaceHasPort

\* apply_motor_commands: the entry an address gets is the index of the one motor
\* that has it, and every motor has one.
LEMMA LowCmdStep ==
  ASSUME TopInv, NEW n \in 0..Len(motors) + 1, LowCmd(n)
  PROVE  TopInv'
<1>1. /\ UNCHANGED <<config, plugged, found, serials, canPorts, map, motors, reset>>
      /\ at = "up" /\ at' = "up"
  BY DEF LowCmd, runtime
<1>2. plugged' \in Seq(Lines) /\ Distinct(plugged)'
  BY <1>1 DEF TopInv, Matched, Distinct
<1>3. Configured' /\ Matched' /\ Built' /\ Collected' /\ Quiet'
  BY <1>1, <1>2, Stays DEF Quiet
<1>4. Addressed'
  <2>1. CASE drives' = drives
    BY <1>1, <2>1, AddressedStays DEF TopInv
  <2>2. CASE drives' # drives
    <3> DEFINE own(a) == {i \in DOMAIN motors : <<motors[i].line, IdOf(motors[i].place)>> = a}
    <3>1. drives' = [a \in Addresses |-> IF own(a) = {} THEN drives[a] ELSE Max(own(a))]
      BY <2>2 DEF LowCmd
    <3>2. /\ Len(motors) \in Nat /\ DOMAIN motors = 1..Len(motors)
          /\ \A i \in 1..Len(motors) : motors[i].place \in Places
          /\ \A x \in Places : \E i \in 1..Len(motors) : motors[i].place = x
      BY <1>1, MotorsInOrder
    <3>3. ASSUME NEW i \in 1..Len(motors)
          PROVE  /\ Address(motors[i].place) \in Addresses
                 /\ drives'[Address(motors[i].place)] = i
      <4>1. Address(motors[i].place) \in Addresses
        BY <1>1, MotorAtAddress
      <4>2. own(Address(motors[i].place)) = {i}
        BY <1>1, <3>2, MotorAtAddress
      <4>3. i \in Nat
        BY <3>2
      <4>4. Max({i}) = i
        BY <4>3 DEF Max
      <4> HIDE DEF own
      <4> QED
        BY <3>1, <4>1, <4>2, <4>4
    <3>4. \A x \in Places : drives'[Address(x)] = Rank(x)
      BY <1>1, <3>2, <3>3, RankIsIndex
    <3>5. ASSUME NEW a \in Addresses, drives'[a] # 0 PROVE \E x \in Places : Address(x) = a
      <4>1. CASE own(a) = {}
        <5>1. drives'[a] = drives[a]
          BY <3>1, <4>1
        <5>2. drives[a] # 0
          BY <3>5, <5>1
        <5> QED
          BY <1>1, <5>2 DEF TopInv, Addressed, Silent
      <4>2. CASE own(a) # {}
        BY <1>1, <3>2, <4>2, MotorAtAddress
      <4> QED
        BY <4>1, <4>2
    <3>6. Places' = Places /\ \A x : (Address(x))' = Address(x)
      BY <1>1 DEF Places, Address, IdOf
    <3>7. \A x : (Rank(x))' = Rank(x)
      BY <3>6 DEF Rank
    <3>8. reset' # None =>
            \E x \in Places' : (Rank(x))' = reset'.index /\ (Address(x))' = reset'.address
      BY <1>1, <3>6, <3>7 DEF TopInv, Addressed
    <3> QED
      BY <3>4, <3>5, <3>6, <3>7, <3>8 DEF Addressed
  <2> QED
    BY <2>1, <2>2
<1> QED
  BY <1>3, <1>4 DEF TopInv

\* The port that require_motor_port gives for a motor is the one with its turn.
LEMMA ResetStep ==
  ASSUME TopInv, NEW i \in DOMAIN motors, ResetZero(i)
  PROVE  TopInv'
<1>1. /\ UNCHANGED <<config, plugged, found, serials, canPorts, map, motors, drives>>
      /\ at = "up" /\ at' = "up"
  BY DEF ResetZero, runtime
<1>2. plugged' \in Seq(Lines) /\ Distinct(plugged)'
  BY <1>1 DEF TopInv, Matched, Distinct
<1>3. Configured' /\ Matched' /\ Built' /\ Collected' /\ Quiet'
  BY <1>1, <1>2, Stays DEF Quiet
<1> DEFINE x == motors[i].place
<1>4. i \in 1..Len(motors) /\ x \in Places
  BY <1>1, MotorsInOrder
<1>5. Rank(x) = i
  BY <1>1, <1>4, RankIsIndex
<1>6. /\ x[1] \in 1..Len(config) /\ x[2] \in 1..Len(config[x[1]])
      /\ Address(x) = <<serials[Turn(x[1], x[2])], IdOf(x)>>
  BY <1>1, <1>4, PlaceHasPort
<1>7. PortsBefore(x[1]) + x[2] = Turn(x[1], x[2])
  BY <1>6, Turns DEF TopInv, Configured, Turn
<1>8. canPorts[Turn(x[1], x[2])].line = serials[Turn(x[1], x[2])]
  <2>1. Turn(x[1], x[2]) \in 1..Len(canPorts) /\ Len(canPorts) \in Nat
    BY <1>1, <1>6, ListOfPort
  <2>2. Turn(x[1], x[2]) <= Len(canPorts)
    BY <2>1
  <2>3. canPorts[Turn(x[1], x[2])]
          = [board |-> x[1], port |-> x[2], line |-> serials[Turn(x[1], x[2])]]
    BY <1>1, <1>6, <2>2 DEF TopInv, Built, Standing
  <2> QED
    BY <2>3
<1> HIDE DEF x
<1>9. reset' = [index |-> i, address |-> Address(x)]
  BY <1>6, <1>7, <1>8 DEF ResetZero, Require, x
<1>10. Places' = Places /\ (\A y : (Address(y))' = Address(y)) /\ \A y : (Rank(y))' = Rank(y)
  <2>1. Places' = Places
    BY <1>1 DEF Places
  <2> QED
    BY <1>1, <2>1 DEF Address, IdOf, Rank
<1>11. Addressed'
  BY <1>1, <1>4, <1>5, <1>9, <1>10 DEF TopInv, Addressed
<1> QED
  BY <1>3, <1>11 DEF TopInv

\* Every step keeps the invariant.
LEMMA TopSteps ==
  ASSUME TopInv, [TopNext]_topVars
  PROVE  TopInv'
<1>1. CASE UNCHANGED topVars
  <2>1. /\ UNCHANGED <<config, plugged, found, serials, canPorts, map, motors, drives, reset>>
        /\ at' = at
    BY <1>1 DEF topVars, runtime, told
  <2>2. plugged' \in Seq(Lines) /\ Distinct(plugged)'
    BY <2>1 DEF TopInv, Matched, Distinct
  <2>3. Quiet' /\ Addressed'
    BY <2>1, AddressedStays DEF TopInv, Quiet
  <2> QED
    BY <2>1, <2>2, <2>3, Stays DEF TopInv
<1>2. CASE Load
  BY <1>2, LoadStep
<1>3. CASE Discover
  BY <1>3, DiscoverStep
<1>4. CASE Open
  BY <1>4, OpenStep
<1>5. CASE StartReceivers
  BY <1>5, StartStep
<1>6. CASE Collect
  BY <1>6, CollectStep
<1>7. CASE CleanUp
  BY <1>7, CleanUpStep
<1>8. CASE WaitDevice
  BY <1>8, WaitStep
<1>9. CASE Replug
  BY <1>9, ReplugStep
<1>10. CASE \E b \in DOMAIN config : \E p \in DOMAIN config[b] : Build(b, p)
  BY <1>10, BuildStep
<1>11. CASE \E n \in 0..Len(motors) + 1 : LowCmd(n)
  BY <1>11, LowCmdStep
<1>12. CASE \E i \in DOMAIN motors : ResetZero(i)
  BY <1>12, ResetStep
<1> QED
  BY <1>1, <1>2, <1>3, <1>4, <1>5, <1>6, <1>7, <1>8, <1>9, <1>10, <1>11, <1>12 DEF TopNext

\* For every configuration and every number of replugs, what is built matches the
\* configuration.
THEOREM TopInductive == TopSpec => []TopInv
  BY TopInitially, TopSteps, PTL DEF TopSpec

\* apply_motor_commands and reset_zero_positions of one motor reach the motor that
\* the configuration means by the index, on the device its serial_id selects; so do
\* they after every reconnection.
THEOREM EveryCommandAddressed == TopSpec => []Addressed
<1>1. TopInv => Addressed
  BY DEF TopInv
<1> QED
  BY <1>1, TopInductive, PTL

\* A receiver that knows motors is the one of a port that is built, and knows
\* the motors of that port by their ids.
LEMMA MapOfDevice ==
  ASSUME TopInv, Standing, NEW b \in 1..Len(config), NEW p \in 1..Len(config[b]),
         Turn(b, p) <= Len(canPorts),
         NEW id \in DOMAIN map[serials[Turn(b, p)]]
  PROVE  \E k \in DOMAIN config[b][p].motors :
           /\ map[serials[Turn(b, p)]][id] = <<b, p, k>>
           /\ config[b][p].motors[k].id = id
<1> DEFINE ms == config[b][p].motors
<1>1. map[serials[Turn(b, p)]] = MapOf(b, p)
  BY DEF Standing
<1>2. id \in {ms[k].id : k \in DOMAIN ms}
  BY <1>1 DEF MapOf
<1>3. MapOf(b, p)[id] = <<b, p, CHOOSE k \in DOMAIN ms : ms[k].id = id>>
  BY <1>2 DEF MapOf
<1>4. \E k \in DOMAIN ms : ms[k].id = id
  BY <1>2
<1> QED
  BY <1>1, <1>3, <1>4

\* The state in which the runtime is built tells where an answer is noted.
LEMMA AnswersFollow ==
  ASSUME TopInv
  PROVE  AnswersComeHome
<1>1. /\ config \in Seq(Seq(Port)) /\ Matched /\ Configured /\ Built /\ Collected
  BY DEF TopInv, Configured
<1>2. ASSUME at # "unwinding", NEW l \in DOMAIN map, NEW id \in DOMAIN map[l]
      PROVE  /\ Address(map[l][id]) = <<l, id>>
             /\ \E c \in Range(canPorts) : <<c.board, c.port>> = SubSeq(map[l][id], 1, 2)
  <2>1. Standing /\ Len(serials) = Len(Ports(config)) /\ at \in {"build", "up"}
    BY <1>1, <1>2 DEF Built, Matched
  <2>2. l \in Range(serials) /\ serials \in Seq(Lines)
    BY <1>1, <2>1 DEF Standing, Matched
  <2>3. PICK n \in 1..Len(serials) : l = serials[n]
    BY <2>2, LenProperties DEF Range
  <2>4. PICK b \in 1..Len(config) : \E p \in 1..Len(config[b]) : n = Turn(b, p)
    BY <1>1, <2>1, <2>3, Turns
  <2>5. PICK p \in 1..Len(config[b]) : n = Turn(b, p)
    BY <2>4
  <2>6. Turn(b, p) <= Len(canPorts)
    <3>1. ~(Turn(b, p) <= Len(canPorts)) => map[l] = NoMap
      BY <2>1, <2>3, <2>5 DEF Standing
    <3> QED
      BY <1>2, <3>1 DEF NoMap
  <2>7. PICK k \in DOMAIN config[b][p].motors :
          map[l][id] = <<b, p, k>> /\ config[b][p].motors[k].id = id
    BY <1>2, <2>1, <2>3, <2>5, <2>6, MapOfDevice
  <2>8. Address(<<b, p, k>>) = <<l, id>>
    <3>1. l = found[config[b][p].serial]
      BY <1>1, <2>1, <2>3, <2>5, Turns DEF Matched
    <3> QED
      BY <2>7, <3>1 DEF Address, IdOf
  <2>9. \E c \in Range(canPorts) : c.board = b /\ c.port = p
    <3>1. canPorts[n] = [board |-> b, port |-> p, line |-> serials[n]]
      BY <2>1, <2>5, <2>6 DEF Standing
    <3>2. canPorts \in Seq(CanPort)
      BY <2>1 DEF Standing
    <3>3. DOMAIN canPorts = 1..Len(canPorts) /\ Len(canPorts) \in Nat
      BY <3>2, LenProperties
    <3>4. Len(serials) \in Nat
      BY <2>2, LenProperties
    <3>5. n \in 1..Len(canPorts)
      BY <2>3, <2>5, <2>6, <3>3, <3>4
    <3> QED
      BY <3>1, <3>3, <3>5 DEF Range
  <2>10. SubSeq(<<b, p, k>>, 1, 2) = <<b, p>>
    <3> DEFINE s == SubSeq(<<b, p, k>>, 1, 2)
               S == {b, p, k}
    <3>1. \A i \in 1..2 : <<b, p, k>>[i] \in S
      OBVIOUS
    <3>2. s \in Seq(S) /\ Len(s) = 2 /\ \A i \in 1..2 : s[i] = <<b, p, k>>[i]
      BY <3>1, SubSeqProperties
    <3>3. <<b, p>> \in Seq(S) /\ Len(<<b, p>>) = 2
      OBVIOUS
    <3>4. \A i \in 1..2 : s[i] = <<b, p>>[i]
      BY <3>2
    <3> HIDE DEF s, S
    <3>5. s = <<b, p>>
      BY <3>2, <3>3, <3>4, SeqEqual
    <3> QED
      BY <3>5 DEF s
  <2> QED
    BY <2>7, <2>8, <2>9, <2>10
<1>3. ASSUME at = "up", NEW x \in Places PROVE map[Address(x)[1]][Address(x)[2]] = x
  <2> DEFINE ms == config[x[1]][x[2]].motors
  <2>1. /\ x[1] \in 1..Len(config) /\ x[2] \in 1..Len(config[x[1]])
        /\ x[3] \in 1..Len(ms) /\ x = <<x[1], x[2], x[3]>>
        /\ Address(x) = <<serials[Turn(x[1], x[2])], IdOf(x)>>
    BY <1>3, PlaceHasPort
  <2>2. Turn(x[1], x[2]) <= Len(canPorts) /\ Standing
    <3>1. Turn(x[1], x[2]) \in 1..Len(canPorts) /\ Len(canPorts) \in Nat
      BY <1>3, <2>1, ListOfPort
    <3> QED
      BY <1>1, <1>3, <3>1 DEF Built
  <2>3. map[serials[Turn(x[1], x[2])]] = MapOf(x[1], x[2])
    BY <2>1, <2>2 DEF Standing
  <2>4. /\ ValidPort(config[x[1]][x[2]]) /\ config[x[1]][x[2]] \in Port
    BY <1>1, <1>3, <2>1, Turns DEF Configured
  <2>5. ms \in Seq(Motor)
    BY <2>4 DEF Port
  <2>6. DOMAIN ms = 1..Len(ms) /\ Len(ms) \in Nat
    BY <2>5, LenProperties
  <2>7. ASSUME NEW k \in DOMAIN ms, ms[k].id = ms[x[3]].id PROVE k = x[3]
    <3>1. \A i \in DOMAIN ms : \A j \in 1..i - 1 : ms[j].id # ms[i].id
      BY <2>4 DEF ValidPort
    <3> HIDE DEF ms
    <3>2. k \in Nat /\ x[3] \in Nat
      BY <2>1, <2>6
    <3>3. k < x[3] => k \in 1..x[3] - 1
      BY <2>6, <3>2
    <3>4. x[3] < k => x[3] \in 1..k - 1
      BY <2>1, <2>6, <3>2
    <3> QED
      BY <2>1, <2>6, <2>7, <3>1, <3>2, <3>3, <3>4
  <2>8. IdOf(x) = ms[x[3]].id
    BY DEF IdOf
  <2>9. MapOf(x[1], x[2])[IdOf(x)] = <<x[1], x[2], x[3]>>
    <3>1. (CHOOSE k \in DOMAIN ms : ms[k].id = ms[x[3]].id) = x[3]
      BY <2>1, <2>6, <2>7
    <3> QED
      BY <2>1, <2>6, <2>8, <3>1 DEF MapOf
  <2> QED
    BY <2>1, <2>3, <2>9
<1> QED
  BY <1>2, <1>3 DEF AnswersComeHome

\* What a receiver notes of an answer, it notes at the motor with that id on its
\* device, and when the runtime is up it knows every motor there.
THEOREM AnswersFindTheirMotor == TopSpec => []AnswersComeHome
  BY TopInductive, AnswersFollow, PTL

-----------------------------------------------------------------------------
(* The types.                                                              *)

\* With TopInv inductive, and enough for TopTypeOK.
Typed ==
  /\ config \in Configs /\ (at = "load" => config \in Parameters)
  /\ at \in Steps /\ first \in BOOLEAN /\ broken \in BOOLEAN /\ replugs \in 0..MaxReplugs
  /\ plugged \in Orders /\ found \in Orders
  /\ \A c \in Range(canPorts) : c.line \in Range(serials)
  /\ \A l \in DOMAIN map : l \in Lines /\ DOMAIN map[l] \subseteq 1..MaxId
  /\ at # "up" => motors = <<>>
  /\ drives \in [Addresses -> Nat]

\* The types of the first state.
LEMMA InitiallyTyped == ASSUME TopInit PROVE Typed
<1>1. <<>> \in Orders
  <2>1. Cardinality({}) = 0
    BY FS_EmptySet
  <2>2. <<>> \in [1..0 -> {}]
    BY EmptySeq
  <2>3. <<>> \in SetToSeqs({})
    BY <2>1, <2>2 DEF SetToSeqs
  <2> QED
    BY <2>3 DEF Orders
<1>2. Range(<<>>) = {}
  BY DEF Range
<1>3. MaxReplugs \in Nat
  BY TopologyAssumption
<1>4. Silent \in [Addresses -> Nat] /\ DOMAIN [l \in {} |-> NoMap] = {}
  BY DEF Silent
<1>5. /\ config \in Parameters /\ at = "load" /\ first = TRUE /\ plugged \in Orders
      /\ broken = FALSE /\ found = <<>> /\ serials = <<>> /\ canPorts = <<>>
      /\ motors = <<>> /\ DOMAIN map = {} /\ drives = Silent /\ replugs = 0
  BY DEF TopInit
<1>6. replugs \in 0..MaxReplugs
  BY <1>3, <1>5
<1> QED
  BY <1>1, <1>2, <1>4, <1>5, <1>6 DEF Typed, Configs, Steps

\* Only what a port accepts is put into the map of its device.
LEMMA IdsInRange ==
  ASSUME TopInv, at = "build", NEW b \in 1..Len(config), NEW p \in 1..Len(config[b]),
         Buildable(config[b][p])
  PROVE  DOMAIN MapOf(b, p) \subseteq 1..MaxId
<1> DEFINE ms == config[b][p].motors
<1>1. ValidPort(config[b][p]) /\ config[b][p] \in Port
  BY Turns DEF TopInv, Configured
<1>2. ms \in Seq(Motor) /\ MaxId \in Nat
  BY <1>1, TopologyAssumption DEF Port
<1>3. \A k \in DOMAIN ms : ms[k].id \in Nat /\ ms[k].id >= 1 /\ ms[k].id <= MaxId
  <2>1. DOMAIN ms = 1..Len(ms)
    BY <1>2, LenProperties
  <2>2. \A k \in DOMAIN ms : ms[k] \in Motor
    BY <1>2, <2>1, ElementOfSeq
  <2>3. \A k \in DOMAIN ms : ms[k].id <= MaxId
    BY DEF Buildable, Range
  <2> QED
    BY <1>1, <2>2, <2>3 DEF ValidPort, Motor
<1> QED
  BY <1>2, <1>3 DEF MapOf

\* A port that is built, or that takes the others of its board with it.
LEMMA BuildTyped ==
  ASSUME TopInv, Typed, NEW b \in DOMAIN config, NEW p \in DOMAIN config[b], Build(b, p)
  PROVE  Typed'
<1> DEFINE k == Turn(b, p)
<1>1. /\ UNCHANGED <<config, plugged, found, serials, motors, drives, first, broken, replugs>>
      /\ at = "build" /\ at' \in {"build", "unwinding"}
  BY DEF Build, told
<1>2. /\ config \in Seq(Seq(Port)) /\ Len(serials) = Len(Ports(config))
      /\ serials \in Seq(Lines) /\ canPorts \in Seq(CanPort) /\ DOMAIN map = Range(serials)
  BY <1>1 DEF TopInv, Configured, Matched, Built, Standing
<1>3. /\ b \in 1..Len(config) /\ p \in 1..Len(config[b]) /\ PortsBefore(b) \in Nat
      /\ k \in 1..Len(serials) /\ Offset(b) + p = k
  BY <1>2, Turns DEF Turn, Offset
<1>4. serials[k] \in Range(serials)
  BY <1>2, <1>3, LenProperties DEF Range
<1>5. CASE Buildable(config[b][p])
  <2>1. /\ canPorts' = Append(canPorts, [board |-> b, port |-> p, line |-> serials[k]])
        /\ map' = [map EXCEPT ![serials[k]] = MapOf(b, p)]
    BY <1>3, <1>5 DEF Build
  <2> HIDE DEF k
  <2>2. \A c \in Range(canPorts') : c.line \in Range(serials)
    <3> DEFINE new == [board |-> b, port |-> p, line |-> serials[k]]
    <3>1. b \in Nat /\ p \in Nat
      <4>1. Len(config) \in Nat /\ Len(config[b]) \in Nat
        BY <1>2, <1>3, Turns
      <4> QED
        BY <1>3, <4>1
    <3>2. new \in CanPort /\ new.line = serials[k]
      BY <1>2, <1>3, <3>1, ElementOfSeq DEF CanPort
    <3> HIDE DEF new
    <3>3. /\ canPorts' \in Seq(CanPort) /\ Len(canPorts') = Len(canPorts) + 1
          /\ \A j \in 1..Len(canPorts) : canPorts'[j] = canPorts[j]
          /\ canPorts'[Len(canPorts) + 1] = new
      BY <1>2, <2>1, <3>2, AppendProperties DEF new
    <3>4. /\ DOMAIN canPorts = 1..Len(canPorts) /\ Len(canPorts) \in Nat
          /\ DOMAIN canPorts' = 1..Len(canPorts')
      BY <1>2, <3>3, LenProperties
    <3>5. \A j \in 1..Len(canPorts) : canPorts[j].line \in Range(serials)
      BY <3>4 DEF Typed, Range
    <3>6. \A j \in 1..Len(canPorts') : canPorts'[j].line \in Range(serials)
      BY <1>4, <3>2, <3>3, <3>4, <3>5
    <3> QED
      BY <3>4, <3>6 DEF Range
  <2>3. \A l \in DOMAIN map' : l \in Lines /\ DOMAIN map'[l] \subseteq 1..MaxId
    <3>1. DOMAIN MapOf(b, p) \subseteq 1..MaxId
      BY <1>1, <1>3, <1>5, IdsInRange
    <3> QED
      BY <2>1, <3>1 DEF Typed
  <2> QED
    BY <1>1, <2>2, <2>3 DEF Typed, Steps, Range
<1>6. CASE ~Buildable(config[b][p])
  <2>1. canPorts' = SubSeq(canPorts, 1, PortsBefore(b)) /\ UNCHANGED map
    BY <1>6 DEF Build
  <2>2. PortsBefore(b) <= Len(canPorts) /\ Len(canPorts) \in Nat
    <3>1. Len(canPorts) = PortsBefore(b) + p - 1
      BY Zenon DEF Build
    <3>2. p \in Nat /\ p >= 1
      <4>1. Len(config[b]) \in Nat
        BY <1>2, <1>3, Turns
      <4> QED
        BY <1>3, <4>1
    <3>3. Len(canPorts) \in Nat
      BY <1>2, LenProperties
    <3> QED
      BY <1>3, <3>1, <3>2, <3>3
  <2>3. DOMAIN canPorts = 1..Len(canPorts)
    BY <1>2, LenProperties
  <2>4. \A i \in 1..PortsBefore(b) : canPorts[i] \in Range(canPorts)
    BY <1>3, <2>2, <2>3 DEF Range
  <2>5. canPorts' \in Seq(Range(canPorts))
    BY <1>3, <2>1, <2>4, SubSeqProperties
  <2>6. Range(canPorts') \subseteq Range(canPorts)
    BY <2>5, RangeOfSeq
  <2> QED
    BY <1>1, <2>1, <2>6 DEF Typed, Steps, Range
<1> QED
  BY <1>5, <1>6

\* A device that is opened before there is any port.
LEMMA OpenTyped == ASSUME TopInv, Typed, Open PROVE Typed'
<1>1. /\ UNCHANGED <<config, plugged, found, canPorts, map, motors, drives, first, replugs>>
      /\ at = "open" /\ at' \in {"open", "unwinding"} /\ broken' \in BOOLEAN
  BY DEF Open, Opened, Unwind, told, Typed
<1>2. canPorts' = <<>> /\ Range(<<>>) = {}
  BY <1>1 DEF TopInv, Built, Range
<1> QED
  BY <1>1, <1>2 DEF Typed, Steps

\* The entry of a command is the one of the motor with the address, if there
\* is one.
LEMMA LowCmdTyped ==
  ASSUME TopInv, Typed, NEW n \in 0..Len(motors) + 1, LowCmd(n)
  PROVE  Typed'
<1> DEFINE own(a) == {i \in DOMAIN motors : <<motors[i].line, IdOf(motors[i].place)>> = a}
<1>1. /\ UNCHANGED <<config, plugged, found, serials, canPorts, map, motors,
                     first, broken, replugs>>
      /\ at = "up" /\ at' = "up"
  BY DEF LowCmd, runtime
<1>2. Len(motors) \in Nat /\ DOMAIN motors = 1..Len(motors)
  BY <1>1, MotorsInOrder
<1>3. \/ drives' = drives
      \/ drives' = [a \in Addresses |-> IF own(a) = {} THEN drives[a] ELSE Max(own(a))]
  BY DEF LowCmd
<1>4. ASSUME NEW a \in Addresses, own(a) # {} PROVE Max(own(a)) \in Nat
  <2>1. PICK i \in 1..Len(motors) : <<motors[i].line, IdOf(motors[i].place)>> = a
    BY <1>2, <1>4
  <2>2. own(a) = {i}
    BY <1>1, <1>2, <2>1, MotorAtAddress
  <2>3. i \in Nat
    BY <1>2
  <2>4. Max({i}) = i
    BY <2>3 DEF Max
  <2> QED
    BY <2>2, <2>3, <2>4
<1>5. drives' \in [Addresses -> Nat]
  <2> HIDE DEF own
  <2> QED
    BY <1>3, <1>4 DEF Typed
<1> QED
  BY <1>1, <1>5 DEF Typed, Range

\* Every step keeps the types.
LEMMA TypedSteps ==
  ASSUME TopInv, Typed, [TopNext]_topVars
  PROVE  Typed'
<1>1. CASE UNCHANGED topVars
  BY <1>1 DEF topVars, runtime, told, Typed, Range
<1>2. CASE Load
  <2>1. /\ UNCHANGED <<plugged, found, serials, canPorts, map, motors, drives,
                       first, broken, replugs>>
        /\ at = "load" /\ at' \in {"discover", "refused"}
    BY <1>2 DEF Load, runtime, told
  <2>2. config' \in Configs
    BY <1>2, <2>1 DEF Load, Configs, Typed
  <2> QED
    BY <2>1, <2>2 DEF Typed, Steps, Range
<1>3. CASE Discover
  BY <1>3 DEF Discover, runtime, told, Typed, Steps, Range
<1>4. CASE Open
  BY <1>4, OpenTyped
<1>5. CASE StartReceivers
  <2>1. /\ UNCHANGED <<config, plugged, found, serials, canPorts, motors, drives,
                       first, broken, replugs>>
        /\ at' = "build" /\ at = "open" /\ map' = [l \in Range(serials) |-> NoMap]
    BY <1>5 DEF StartReceivers, told
  <2>2. Range(serials) \subseteq Lines
    BY RangeOfSeq DEF TopInv, Matched
  <2>3. DOMAIN NoMap = {}
    BY DEF NoMap
  <2> QED
    BY <2>1, <2>2, <2>3 DEF Typed, Steps, Range
<1>6. CASE Collect
  BY <1>6 DEF Collect, told, Typed, Steps, Range
<1>7. CASE CleanUp
  <2>1. /\ UNCHANGED <<config, first, plugged, found, replugs>> /\ broken' = FALSE
        /\ at' \in {"wait", "refused"} /\ canPorts' = <<>> /\ motors' = <<>>
        /\ DOMAIN map' = {} /\ drives' = Silent
    BY <1>7 DEF CleanUp
  <2>2. Range(<<>>) = {} /\ Silent \in [Addresses -> Nat]
    BY DEF Range, Silent
  <2> QED
    BY <2>1, <2>2 DEF Typed, Steps
<1>8. CASE WaitDevice
  BY <1>8 DEF WaitDevice, runtime, told, Typed, Steps, Range
<1>9. CASE Replug
  <2>1. /\ UNCHANGED <<config, at, first, found, serials, canPorts, map, motors, drives>>
        /\ plugged' \in Orders /\ replugs' = replugs + 1 /\ replugs < MaxReplugs
        /\ broken' \in BOOLEAN
    BY <1>9 DEF Replug, runtime, told, Typed
  <2>2. replugs' \in 0..MaxReplugs
    BY <2>1, TopologyAssumption DEF Typed
  <2> QED
    BY <2>1, <2>2 DEF Typed, Range
<1>10. CASE \E b \in DOMAIN config : \E p \in DOMAIN config[b] : Build(b, p)
  BY <1>10, BuildTyped
<1>11. CASE \E n \in 0..Len(motors) + 1 : LowCmd(n)
  BY <1>11, LowCmdTyped
<1>12. CASE \E i \in DOMAIN motors : ResetZero(i)
  BY <1>12 DEF ResetZero, runtime, Typed, Range
<1> QED
  BY <1>1, <1>2, <1>3, <1>4, <1>5, <1>6, <1>7, <1>8, <1>9, <1>10, <1>11, <1>12 DEF TopNext

\* The rest of TopTypeOK follows from what is built.
LEMMA TypedIsTypeOK ==
  ASSUME TopInv, Typed
  PROVE  TopTypeOK
<1>1. Range(serials) \subseteq Range(found)
  <2>1. /\ DOMAIN serials = 1..Len(serials) /\ DOMAIN found = 1..Len(found)
        /\ \A k \in 1..Len(serials) :
             /\ Ports(config)[k].serial \in 1..Len(found)
             /\ serials[k] = found[Ports(config)[k].serial]
    BY LenProperties DEF TopInv, Matched
  <2> QED
    BY <2>1 DEF Range
<1>2. \A i \in DOMAIN motors : motors[i].place \in Places /\ motors[i].line \in Lines
  <2>1. CASE at = "up"
    <3>1. motors \in Seq(Collectable) /\ DOMAIN motors = 1..Len(motors)
      BY <2>1, MotorsInOrder
    <3>2. \A i \in DOMAIN motors : motors[i] \in Collectable
      BY <3>1, ElementOfSeq
    <3> QED
      BY <3>2 DEF Collectable
  <2>2. CASE at # "up"
    BY <2>2 DEF Typed
  <2> QED
    BY <2>1, <2>2
<1>3. reset # None => reset.index \in DOMAIN motors /\ reset.address \in Addresses
  <2>1. SUFFICES ASSUME reset # None
                 PROVE  reset.index \in DOMAIN motors /\ reset.address \in Addresses
    OBVIOUS
  <2>2. at = "up"
    BY <2>1 DEF TopInv, Quiet
  <2>3. PICK x \in Places : Rank(x) = reset.index /\ Address(x) = reset.address
    BY <2>1, <2>2 DEF TopInv, Addressed
  <2>4. PICK i \in 1..Len(motors) : motors[i].place = x
    BY <2>2, MotorsInOrder
  <2> QED
    BY <2>2, <2>3, <2>4, MotorsInOrder, RankIsIndex, PlaceHasPort
<1> QED
  BY <1>1, <1>2, <1>3 DEF Typed, TopTypeOK

\* No device, port, id or index out of range is ever stored.
THEOREM TopTypeCorrect == TopSpec => []TopTypeOK
<1>1. TopInit => Typed
  BY InitiallyTyped
<1>2. TopInv /\ Typed /\ [TopNext]_topVars => Typed'
  BY TypedSteps
<1>3. TopInv /\ Typed => TopTypeOK
  BY TypedIsTypeOK
<1> QED
  BY <1>1, <1>2, <1>3, TopInductive, PTL DEF TopSpec
=============================================================================
