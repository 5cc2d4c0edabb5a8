----------------------------- MODULE ProbeProofs -----------------------------
(***************************************************************************)
(* The safety properties of VersionProbe for any number of ports, motors   *)
(* and turns, any boards and any firmware.  What an answer writes is what  *)
(* the board or the motor has, whenever it comes; so a version that was    *)
(* known when the main thread looked is the one it reads again later, and  *)
(* the oldest of the known ones bounds what is chosen.                     *)
(***************************************************************************)
EXTENDS VersionProbe, WellFoundedInduction, TLAPS

-----------------------------------------------------------------------------
(* The firmware versions.                                                  *)

\* Newer firmware has every function of the older.
LEMMA LevelMonotonic ==
  ASSUME NEW v \in Nat, NEW w \in Nat, v <= w
  PROVE  Level(v) \in 1..5 /\ Level(v) <= Level(w)
  BY DEF Level, Combined

\* A set of versions has an oldest.
LEMMA OldestExists ==
  ASSUME NEW S \in SUBSET Nat, S # {}
  PROVE  \E v \in S : \A w \in S : v <= w
<1> DEFINE R == {ss \in Nat \X Nat : ss[1] < ss[2]}
<1>1. IsWellFoundedOn(R, Nat)
  BY NatLessThanWellFounded, Zenon DEF OpToRel
<1>2. \A w, v \in Nat : w < v => <<w, v>> \in R
  OBVIOUS
<1> HIDE DEF R
<1>3. PICK v \in S : \A w \in S : ~ (<<w, v>> \in R)
  BY <1>1, WFMin, Zenon
<1>4. ASSUME NEW w \in S PROVE v <= w
  <2>1. v \in Nat /\ w \in Nat /\ ~ (w < v)
    BY <1>2, <1>3
  <2> QED
    BY <2>1
<1> QED
  BY <1>4

\* OldestVersion is not newer than what any motor has told.
LEMMA OldestBounds ==
  ASSUME TypeOK
  PROVE  /\ OldestVersion \in Nat
         /\ \A m \in Motors : version[m] # 0 => OldestVersion <= version[m]
<1> DEFINE known == {version[m] : m \in Motors} \ {0}
<1>1. \A m \in Motors : version[m] \in Nat
  BY ProbeAssumption DEF TypeOK
<1>2. CASE known = {}
  BY <1>2 DEF OldestVersion
<1>3. CASE known # {}
  <2>1. OldestVersion = CHOOSE v \in known : \A w \in known : v <= w
    BY <1>3 DEF OldestVersion
  <2>2. known \in SUBSET Nat
    BY <1>1
  <2>3. \A m \in Motors : version[m] # 0 => version[m] \in known
    OBVIOUS
  <2> HIDE DEF known
  <2>4. OldestVersion \in known /\ \A w \in known : OldestVersion <= w
    BY <1>3, <2>1, <2>2, OldestExists
  <2> QED
    BY <2>2, <2>3, <2>4
<1> QED
  BY <1>2, <1>3

-----------------------------------------------------------------------------
(* The inductive invariant.                                                *)

\* A loop is only entered again while it has turns left.
Loops ==
  /\ at \in {"count", "set"} => t < MaxDelay
  /\ at = "version" => t < VersionTurns
  /\ at = "position" => t < PositionTurns
  /\ at = "choose" => t = 0

\* What has been told is true, however late it came.
Truthful ==
  /\ \A p \in Ports : portVersion[p] \in {0, board[p]}
  /\ \A m \in Motors : version[m] \in {0, fw[m]}

\* After the versions have been looked at, the driver reads the same versions
\* of the motors that it has not reported.
Stable ==
  /\ at \in {"position", "positioned"} => slave < 40
  /\ at \in {"choose", "set", "setting", "compare", "done", "threw"} /\ slave >= 40 =>
       \A m \in Motors \ missing : version[m] = fw[m]

IInv == TypeOK /\ Loops /\ Truthful /\ Stable /\ SilentIsReported /\ FitsFirmware

LEMMA Initially == Init => IInv
<1> SUFFICES ASSUME Init PROVE IInv
  OBVIOUS
<1> USE ProbeAssumption
<1>1. TypeOK
  <2>1. t \in Nat /\ t <= Turns /\ port \in Ports
    BY DEF Init, Turns, Ports
  <2>2. due = {} /\ heard = {} /\ general = {} /\ missing = {} /\ silent = {} /\ at = "count"
    BY DEF Init
  <2>3. slave \in BoardVersions \cup {0, 30} /\ fun \in 1..5
    BY DEF Init
  <2>4. /\ board \in [Ports -> BoardVersions] /\ fw \in [Motors -> Firmwares]
        /\ portVersion \in [Ports -> BoardVersions \cup {0}] /\ portFun \in [Ports -> 1..5]
        /\ version \in [Motors -> Firmwares \cup {0}]
    BY DEF Init
  <2> QED
    BY <2>1, <2>2, <2>3, <2>4 DEF TypeOK
<1>2. Loops /\ Truthful /\ Stable
  BY DEF Init, Loops, Truthful, Stable
<1>3. SilentIsReported /\ FitsFirmware
  BY DEF Init, SilentIsReported, FitsFirmware, Counted, Chosen, Ports
<1> QED
  BY <1>1, <1>2, <1>3 DEF IInv

\* An answer writes what the board or the motor has, wherever the main thread is.
LEMMA ReceiveStep == ASSUME IInv, Receive PROVE IInv'
<1> USE ProbeAssumption DEF IInv
<1> DEFINE Told ==
      /\ UNCHANGED <<external, main>> /\ due' \subseteq due
      /\ heard' \subseteq Motors /\ portFun' \in [Ports -> 1..5]
      /\ portVersion' \in [Ports -> BoardVersions \cup {0}]
      /\ \A p \in Ports : portVersion'[p] \in {portVersion[p], board[p]}
      /\ version' \in [Motors -> Firmwares \cup {0}]
      /\ \A m \in Motors : version'[m] \in {version[m], fw[m]}
<1>0. /\ heard \subseteq Motors /\ portFun \in [Ports -> 1..5] /\ fun \in 1..5
      /\ portVersion \in [Ports -> BoardVersions \cup {0}] /\ board \in [Ports -> BoardVersions]
      /\ version \in [Motors -> Firmwares \cup {0}] /\ fw \in [Motors -> Firmwares]
  BY DEF TypeOK
<1>1. Told
  <2>1. ASSUME NEW p \in Ports, PortAnswer(p) PROVE Told
    BY <1>0, <2>1 DEF PortAnswer
  <2>2. ASSUME NEW p \in Ports, FunAnswer(p) PROVE Told
    BY <1>0, <2>2 DEF FunAnswer
  <2>3. ASSUME NEW m \in Motors, VersionAnswer(m) PROVE Told
    BY <1>0, <2>3 DEF VersionAnswer
  <2>4. ASSUME NEW m \in Motors, StateAnswer(m) PROVE Told
    BY <1>0, <2>4 DEF StateAnswer
  <2>5. CASE Lose
    BY <1>0, <2>5 DEF Lose
  <2> QED
    BY <2>1, <2>2, <2>3, <2>4, <2>5 DEF Receive
<1>4. \A p \in Ports : board[p] # 0
  BY DEF TypeOK
<1> USE DEF external, main, reports
<1>5. TypeOK'
  BY <1>1 DEF TypeOK, Turns
<1>6. Loops' /\ Truthful'
  BY <1>1 DEF Loops, Truthful
<1>7. Stable' /\ SilentIsReported'
  BY <1>1, <1>4 DEF Stable, SilentIsReported, Counted
<1>8. FitsFirmware'
  BY <1>1 DEF FitsFirmware, Chosen, Level, Major, Combined
<1> QED
  BY <1>5, <1>6, <1>7, <1>8

\* A question adds its answers to those that are due, and takes a turn.
LEMMA AskStep ==
  ASSUME IInv, CountAsk \/ VersionAsk \/ PositionAsk \/ FunAsk
  PROVE  IInv'
<1> USE ProbeAssumption DEF IInv, external, reports
<1>1. /\ UNCHANGED <<external, portVersion, portFun, version, heard,
                     port, slave, fun, general, reports>>
      /\ t' = t + 1
      /\ \/ at = "count" /\ at' = "counted"
         \/ at = "set" /\ at' = "setting"
         \/ at = "version" /\ at' = "versioned"
         \/ at = "position" /\ at' = "positioned"
  BY DEF CountAsk, VersionAsk, PositionAsk, FunAsk
<1>2. due' \subseteq ({"count", "fun"} \X Ports) \cup ({"version", "state"} \X Motors)
  <2>1. due \subseteq ({"count", "fun"} \X Ports) \cup ({"version", "state"} \X Motors) /\ port \in Ports
    BY DEF TypeOK
  <2>2. CASE CountAsk \/ FunAsk
    BY <2>1, <2>2 DEF CountAsk, FunAsk, Ask
  <2>3. CASE VersionAsk \/ PositionAsk
    BY <2>1, <2>3 DEF VersionAsk, PositionAsk, Ask
  <2> QED
    BY <2>2, <2>3
<1>3. TypeOK'
  BY <1>1, <1>2 DEF TypeOK, Turns, Loops
<1>4. Loops' /\ Truthful' /\ Stable'
  BY <1>1 DEF Loops, Truthful, Stable
<1>5. SilentIsReported'
  BY <1>1 DEF SilentIsReported, Counted
<1>6. FitsFirmware'
  BY <1>1 DEF FitsFirmware, Chosen, Level, Major, Combined
<1> QED
  BY <1>3, <1>4, <1>5, <1>6

\* The loop over the ports counts one port, or tries again.
LEMMA CountLookStep == ASSUME IInv, CountLook PROVE IInv'
<1> USE ProbeAssumption DEF IInv, external, answers
<1>0. /\ UNCHANGED <<external, answers, general, missing>>
      /\ at = "counted" /\ port \in Ports /\ t \in Nat
      /\ portVersion[port] \in BoardVersions \cup {0}
  BY DEF CountLook, TypeOK
<1>1. CASE portVersion[port] < 20 /\ t < MaxDelay
  <2>1. at' = "count" /\ UNCHANGED <<port, t, slave, fun, silent>>
    BY <1>1 DEF CountLook
  <2>2. TypeOK' /\ Loops' /\ Truthful' /\ Stable'
    BY <1>0, <1>1, <2>1 DEF TypeOK, Turns, Loops, Truthful, Stable
  <2>3. SilentIsReported' /\ FitsFirmware'
    BY <1>0, <2>1 DEF SilentIsReported, FitsFirmware, Counted, Chosen
  <2> QED
    BY <2>2, <2>3
<1>2. CASE ~(portVersion[port] < 20 /\ t < MaxDelay)
  <2>1. /\ silent' = IF CountFailed THEN silent \cup {port} ELSE silent
        /\ slave' = portVersion[port] /\ t' = 0 /\ port' = NextPort
        /\ IF port < NPorts
           THEN at' = "count" /\ UNCHANGED fun
           ELSE at' = Check(slave') /\ fun' = IF slave' < 40 THEN 1 ELSE 2
    BY <1>2 DEF CountLook
  <2>2. port' \in Ports /\ (port < NPorts => port' = port + 1) /\ (~(port < NPorts) => port = NPorts)
    BY <1>0, <2>1 DEF NextPort, Ports
  <2>3. /\ at' \in {"count", "version", "position"} /\ (at' = "count" <=> port < NPorts)
        /\ at' = "position" => slave' < 40
        /\ fun' \in 1..5
    BY <2>1 DEF Check, TypeOK
  <2>4. port \in silent' \/ portVersion[port] # 0
    <3>1. portVersion[port] = 0 => ~(portVersion[port] >= 20) /\ ~(t < MaxDelay)
      BY <1>2
    <3>2. portVersion[port] = 0 => CountFailed
      BY <1>0, <3>1 DEF CountFailed, LeftAt
    <3> QED
      BY <2>1, <3>2
  <2>5. silent \subseteq silent' /\ silent' \subseteq Ports
    BY <1>0, <2>1 DEF TypeOK
  <2>6. TypeOK'
    BY <1>0, <2>1, <2>2, <2>3, <2>5 DEF TypeOK, Turns
  <2>7. Loops' /\ Truthful' /\ Stable'
    BY <1>0, <2>1, <2>3 DEF Loops, Truthful, Stable
  <2>8. SilentIsReported'
    <3>1. \A p \in Ports : Counted' \/ p < port' => p < port \/ p = port
      BY <1>0, <2>2, <2>3 DEF Ports, Counted
    <3> QED
      BY <1>0, <2>4, <2>5, <3>1 DEF SilentIsReported
  <2>9. FitsFirmware'
    BY <2>3 DEF FitsFirmware, Chosen
  <2> QED
    BY <2>6, <2>7, <2>8, <2>9
<1> QED
  BY <1>1, <1>2

\* The motors that have told no version are reported, once and for all.
LEMMA VersionLookStep == ASSUME IInv, VersionLook PROVE IInv'
<1> USE ProbeAssumption DEF IInv, external, answers
<1> DEFINE known == {m \in Motors : Major(version[m]) # 0}
<1>0. /\ UNCHANGED <<external, answers, port, slave, fun, general, silent>> /\ at = "versioned"
  BY DEF VersionLook
<1>1. CASE at' = "version" /\ UNCHANGED <<t, missing>> /\ t < VersionTurns
  <2>1. TypeOK' /\ Loops' /\ Truthful' /\ Stable'
    BY <1>0, <1>1 DEF TypeOK, Turns, Loops, Truthful, Stable
  <2>2. SilentIsReported' /\ FitsFirmware'
    BY <1>0, <1>1 DEF SilentIsReported, FitsFirmware, Counted, Chosen
  <2> QED
    BY <2>1, <2>2
<1>2. CASE at' = "choose" /\ t' = 0 /\ missing' = Motors \ known
  <2>1. TypeOK' /\ Loops' /\ Truthful'
    BY <1>0, <1>2 DEF TypeOK, Turns, Loops, Truthful
  <2>2. \A m \in Motors \ missing' : version[m] # 0
    BY <1>2 DEF Major
  <2>3. Stable'
    BY <1>0, <1>2, <2>2 DEF Stable, Truthful
  <2>4. SilentIsReported' /\ FitsFirmware'
    BY <1>0, <1>2 DEF SilentIsReported, FitsFirmware, Counted, Chosen
  <2> QED
    BY <2>1, <2>3, <2>4
<1> QED
  BY <1>1, <1>2 DEF VersionLook

LEMMA PositionLookStep == ASSUME IInv, PositionLook PROVE IInv'
<1> USE ProbeAssumption DEF IInv, external, answers
<1>1. /\ UNCHANGED <<external, answers, port, slave, fun, general, silent>> /\ at = "positioned"
      /\ \/ at' = "position" /\ t < PositionTurns /\ UNCHANGED <<t, missing>>
         \/ at' = "done" /\ t' = 0 /\ missing' \subseteq Motors
  BY DEF PositionLook
<1>2. slave < 40
  BY <1>1 DEF Stable
<1>3. TypeOK' /\ Loops' /\ Truthful' /\ Stable'
  BY <1>1, <1>2 DEF TypeOK, Turns, Loops, Truthful, Stable
<1>4. SilentIsReported' /\ FitsFirmware'
  BY <1>1, <1>2 DEF SilentIsReported, FitsFirmware, Counted, Chosen, TypeOK
<1> QED
  BY <1>3, <1>4

\* The oldest version that is known decides.
LEMMA ChooseStep == ASSUME IInv, Choose PROVE IInv'
<1> USE ProbeAssumption DEF IInv, external, answers, reports
<1>1. /\ UNCHANGED <<external, answers, port, t, slave, general, reports>>
      /\ at = "choose" /\ at' = "set" /\ fun' = Level(OldestVersion)
  BY DEF Choose
<1>2. fun' \in 1..5
  BY <1>1, OldestBounds, LevelMonotonic
<1>3. slave >= 40 => \A m \in Motors \ missing : fun' <= Level(fw[m])
  <2>1. ASSUME slave >= 40, NEW m \in Motors \ missing PROVE fun' <= Level(fw[m])
    <3>1. version[m] = fw[m] /\ fw[m] \in Nat \ {0}
      BY <1>1, <2>1 DEF Stable, TypeOK
    <3>2. OldestVersion \in Nat /\ OldestVersion <= fw[m]
      BY <2>1, <3>1, OldestBounds
    <3> QED
      BY <1>1, <3>1, <3>2, LevelMonotonic
  <2> QED
    BY <2>1
<1>4. TypeOK' /\ Loops' /\ Truthful' /\ Stable'
  BY <1>1, <1>2 DEF TypeOK, Turns, Loops, Truthful, Stable
<1>5. SilentIsReported'
  BY <1>1 DEF SilentIsReported, Counted
<1>6. FitsFirmware'
  BY <1>1, <1>3 DEF FitsFirmware, Chosen, Level, Combined
<1> QED
  BY <1>4, <1>5, <1>6

\* The ports are told the function version one by one.
LEMMA FunLookStep == ASSUME IInv, FunLook PROVE IInv'
<1> USE ProbeAssumption DEF IInv, external, answers, reports
<1>1. /\ UNCHANGED <<external, answers, slave, fun, general, reports>> /\ at = "setting"
      /\ \/ at' = "set" /\ t < MaxDelay /\ UNCHANGED <<port, t>>
         \/ at' \in {"set", "compare"} /\ t' = 0 /\ port' = NextPort
  BY DEF FunLook
<1>2. port' \in Ports
  BY <1>1 DEF TypeOK, NextPort, Ports
<1>3. TypeOK' /\ Loops' /\ Truthful' /\ Stable'
  BY <1>1, <1>2 DEF TypeOK, Turns, Loops, Truthful, Stable
<1>4. SilentIsReported'
  BY <1>1 DEF SilentIsReported, Counted
<1>5. FitsFirmware'
  BY <1>1 DEF FitsFirmware, Chosen, Level, Combined
<1> QED
  BY <1>3, <1>4, <1>5

\* The versions are read again, and are the same.
LEMMA CompareStep == ASSUME IInv, Compare PROVE IInv'
<1> USE ProbeAssumption DEF IInv, external, answers, reports
<1> DEFINE bad == {m \in Motors : Inconsistent(m)}
<1>1. /\ UNCHANGED <<external, answers, port, t, slave, fun, reports>> /\ at = "compare"
      /\ at' = (IF bad = {} THEN "done" ELSE "threw")
      /\ general' = {m \in Motors : SinceFive(m) /\ \A b \in bad : m < b}
  BY DEF Compare
<1>2. at' \in {"done", "threw"} /\ general' \subseteq Motors
  BY <1>1
<1>3. TypeOK' /\ Loops' /\ Truthful' /\ Stable'
  BY <1>1, <1>2 DEF TypeOK, Turns, Loops, Truthful, Stable
<1>4. SilentIsReported'
  BY <1>1, <1>2 DEF SilentIsReported, Counted
<1>5. at' = "done" => \A m \in Motors : m \in general' <=> Major(version[m]) = 5
  BY <1>1 DEF SinceFive
<1>6. FitsFirmware'
  BY <1>1, <1>2, <1>5 DEF FitsFirmware, Chosen, Stable, Level, Combined
<1> QED
  BY <1>3, <1>4, <1>6

LEMMA Inductive == IInv /\ [Next]_vars => IInv'
<1> SUFFICES ASSUME IInv, [Next]_vars PROVE IInv'
  OBVIOUS
<1>1. CASE UNCHANGED vars
  BY <1>1 DEF vars, external, answers, main, reports, IInv, TypeOK, Turns, Loops, Truthful,
    Stable, SilentIsReported, Counted, FitsFirmware, Chosen, Level, Major, Combined
<1> QED
  BY <1>1, ReceiveStep, AskStep, CountLookStep, VersionLookStep, PositionLookStep,
    ChooseStep, FunLookStep, CompareStep DEF Next, Probe

LEMMA Invariant == Spec => []IInv
  BY Initially, Inductive, PTL DEF Spec

-----------------------------------------------------------------------------
\* Every variable of the probe keeps its type, and no loop takes more turns
\* than it has.
THEOREM TypeCorrect == Spec => []TypeOK
<1>1. IInv => TypeOK
  BY DEF IInv
<1> QED
  BY <1>1, Invariant, PTL

\* configure_port_motor_counts passes no port that has not answered without
\* reporting it.
THEOREM SilenceReported == Spec => []SilentIsReported
<1>1. IInv => SilentIsReported
  BY DEF IInv
<1> QED
  BY <1>1, Invariant, PTL

\* motor_version_detection never takes a motor for newer than it is, nor for one
\* of another type, although the answers come in while it is reading them.
THEOREM ChoiceFits == Spec => []FitsFirmware
<1>1. IInv => FitsFirmware
  BY DEF IInv
<1> QED
  BY <1>1, Invariant, PTL

=============================================================================
