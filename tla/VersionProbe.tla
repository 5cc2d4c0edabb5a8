---------------------------- MODULE VersionProbe ----------------------------
(***************************************************************************)
(* What initialize_hardware finds out about the boards and the motors:     *)
(* configure_port_motor_counts, the two connection checks of robot.cc,     *)
(* motor_version_detection and the choice of a function version, while the *)
(* receive threads write the answers whenever they come.                   *)
(*                                                                         *)
(* The main thread asks and sleeps (one step), then looks (another step).  *)
(* An answer that is due arrives between any two steps or is lost.         *)
(***************************************************************************)
EXTENDS Naturals, FiniteSets

CONSTANTS
  NPorts,        \* CAN ports of all boards, in the order of the loops
  NMotors,       \* motors, in the order of motors_
  PortOf,        \* the port of each motor
  BoardVersions, \* port_version_ in tenths
  Firmwares,     \* firmware versions, as combine_version makes them
  MaxDelay,      \* kMaxDelay of configure_motor_count and set_function_version
  VersionTurns,  \* the 20 turns of check_motor_connection_version
  PositionTurns  \* kMaxDelay of check_motor_connection_position

Ports == 1..NPorts
Motors == 1..NMotors

ASSUME ProbeAssumption ==
  /\ NPorts \in Nat \ {0} /\ NMotors \in Nat \ {0} /\ PortOf \in [Motors -> Ports]
  /\ \A v \in BoardVersions : v \in Nat /\ 20 <= v /\ v < 100
  /\ \A v \in Firmwares : v \in Nat /\ 0 < v /\ v < 65535
  /\ MaxDelay \in Nat \ {0} /\ VersionTurns \in Nat \ {0} /\ PositionTurns \in Nat \ {0}

VARIABLES
  at,       \* what the main thread does next
  port, t,  \* the port it is at, the turns of its loop
  board,    \* external: firmware of each port's board
  fw,       \* external: firmware of each motor
  due,      \* answers on their way
  portVersion, portFun,  \* port_version_, function_version_ of each canport
  version,  \* motor::version, 0 as long as the motor has not told
  heard,    \* motors whose position is not 999
  slave,    \* slave_version_
  fun,      \* function_version_
  general,  \* motors set to mGeneral
  silent,   \* ports reported disconnected
  missing   \* motors reported disconnected

external == <<board, fw>>
answers == <<due, portVersion, portFun, version, heard>>
reports == <<silent, missing>>
main == <<at, port, t, slave, fun, general, reports>>
vars == <<external, answers, main>>

Major(v) == v \div 4096
Combined(major, minor, patch) == major * 4096 + minor * 16 + patch

\* The ladder of motor_version_detection, fun_v1 to fun_v5.
Level(v) ==
  IF v >= Combined(4, 4, 6) THEN 5
  ELSE IF v >= Combined(4, 2, 3) THEN 4
  ELSE IF v >= Combined(4, 2, 2) THEN 3
  ELSE IF v >= Combined(4, 2, 0) THEN 2
  ELSE 1

Init ==
  /\ at = "count" /\ port = 1 /\ t = 0
  /\ board \in [Ports -> BoardVersions] /\ fw \in [Motors -> Firmwares]
  /\ due = {}
  /\ portVersion = [p \in Ports |-> 0] /\ portFun = [p \in Ports |-> 1]
  /\ version = [m \in Motors |-> 0] /\ heard = {}
  /\ slave = 30 /\ fun = 1 /\ general = {}
  /\ silent = {} /\ missing = {}

-----------------------------------------------------------------------------
(* The receive threads: one frame dispatched.                              *)

PortAnswer(p) ==
  /\ <<"count", p>> \in due
  /\ due' = due \ {<<"count", p>>}
  /\ portVersion' = [portVersion EXCEPT ![p] = board[p]]
  /\ UNCHANGED <<external, main, portFun, version, heard>>

\* A board that does not know the version it is told answers with its own.
FunAnswer(p) ==
  /\ <<"fun", p>> \in due
  /\ due' = due \ {<<"fun", p>>}
  /\ \E v \in {1, fun} : portFun' = [portFun EXCEPT ![p] = v]
  /\ UNCHANGED <<external, main, portVersion, version, heard>>

VersionAnswer(m) ==
  /\ <<"version", m>> \in due
  /\ due' = due \ {<<"version", m>>}
  /\ version' = [version EXCEPT ![m] = fw[m]]
  /\ UNCHANGED <<external, main, portVersion, portFun, heard>>

StateAnswer(m) ==
  /\ <<"state", m>> \in due
  /\ due' = due \ {<<"state", m>>}
  /\ heard' = heard \cup {m}
  /\ UNCHANGED <<external, main, portVersion, portFun, version>>

Lose ==
  /\ \E d \in due : due' = due \ {d}
  /\ UNCHANGED <<external, main, portVersion, portFun, version, heard>>

-----------------------------------------------------------------------------
(* configure_motor_count of every port.                                    *)

Ask(questions) == due' = due \cup questions

CountAsk ==
  /\ at = "count"
  /\ at' = "counted" /\ t' = t + 1
  /\ Ask({<<"count", port>>})
  /\ UNCHANGED <<external, portVersion, portFun, version, heard,
                 port, slave, fun, general, reports>>

\* t after the loop: the turn it was left in, MaxDelay + 1 when it ran out.
LeftAt(found) == IF found THEN t ELSE t + 1

\* Mutant: the test of set_function_version.
CountFailedExact == LeftAt(portVersion[port] >= 20) = MaxDelay

CountFailed == LeftAt(portVersion[port] >= 20) >= MaxDelay

\* The loops over boards and ports
NextPort == IF port < NPorts THEN port + 1 ELSE 1

\* check_motor_connection_for_firmware, once slave_version_ is known
Check(s) == IF s < 40 THEN "position" ELSE "version"

CountLook ==
  /\ at = "counted"
  /\ IF portVersion[port] < 20 /\ t < MaxDelay
     THEN /\ at' = "count"
          /\ UNCHANGED <<port, t, slave, fun, silent>>
     ELSE /\ silent' = IF CountFailed THEN silent \cup {port} ELSE silent
          /\ slave' = portVersion[port]
          /\ t' = 0 /\ port' = NextPort
          /\ IF port < NPorts
             THEN at' = "count" /\ UNCHANGED fun
             ELSE at' = Check(slave') /\ fun' = IF slave' < 40 THEN 1 ELSE 2
  /\ UNCHANGED <<external, answers, general, missing>>

-----------------------------------------------------------------------------
(* check_motor_connection_version and check_motor_connection_position.     *)

VersionAsk ==
  /\ at = "version"
  /\ at' = "versioned" /\ t' = t + 1
  /\ Ask({<<"version", m>> : m \in {m \in Motors : board[PortOf[m]] >= 40}})
  /\ UNCHANGED <<external, portVersion, portFun, version, heard,
                 port, slave, fun, general, reports>>

Complete(known) == known = Motors

VersionLook ==
  /\ at = "versioned"
  /\ LET known == {m \in Motors : Major(version[m]) # 0} IN
     IF ~Complete(known) /\ t < VersionTurns
     THEN /\ at' = "version"
          /\ UNCHANGED <<t, missing>>
     ELSE /\ at' = "choose" /\ t' = 0
          /\ missing' = Motors \ known
  /\ UNCHANGED <<external, answers, port, slave, fun, general, silent>>

PositionAsk ==
  /\ at = "position"
  /\ at' = "positioned" /\ t' = t + 1
  /\ Ask({<<"state", m>> : m \in Motors})
  /\ UNCHANGED <<external, portVersion, portFun, version, heard,
                 port, slave, fun, general, reports>>

PositionLook ==
  /\ at = "positioned"
  /\ IF ~Complete(heard) /\ t < PositionTurns
     THEN at' = "position" /\ UNCHANGED <<t, missing>>
     ELSE at' = "done" /\ t' = 0 /\ missing' = Motors \ heard
  /\ UNCHANGED <<external, answers, port, slave, fun, general, silent>>

-----------------------------------------------------------------------------
(* motor_version_detection.                                                *)

\* Mutant: the newest motor decides.
NewestVersion ==
  LET known == {version[m] : m \in Motors} \ {0} IN
  IF known = {} THEN 65535 ELSE CHOOSE v \in known : \A w \in known : v >= w

\* v_old: 0xFFFF when no motor has told its version
OldestVersion ==
  LET known == {version[m] : m \in Motors} \ {0} IN
  IF known = {} THEN 65535 ELSE CHOOSE v \in known : \A w \in known : v <= w

Choose ==
  /\ at = "choose"
  /\ fun' = Level(OldestVersion)
  /\ at' = "set"
  /\ UNCHANGED <<external, answers, port, t, slave, general, reports>>

FunAsk ==
  /\ at = "set"
  /\ at' = "setting" /\ t' = t + 1
  /\ Ask({<<"fun", port>>})
  /\ UNCHANGED <<external, portVersion, portFun, version, heard,
                 port, slave, fun, general, reports>>

FunLook ==
  /\ at = "setting"
  /\ LET found == portFun[port] = fun IN
     IF ~found /\ t < MaxDelay
     THEN /\ at' = "set"
          /\ UNCHANGED <<port, t>>
     ELSE /\ t' = 0 /\ port' = NextPort
          /\ at' = IF port < NPorts THEN "set" ELSE "compare"
  /\ UNCHANGED <<external, answers, slave, fun, general, reports>>

\* The last loop reads the versions again, which may have come in since.
Inconsistent(m) ==
  /\ m > 1
  /\ Major(version[m]) = 5
  /\ Major(version[m - 1]) \notin {0, 5}

SinceFive(m) == Major(version[m]) = 5

Compare ==
  /\ at = "compare"
  /\ LET bad == {m \in Motors : Inconsistent(m)} IN
     /\ at' = IF bad = {} THEN "done" ELSE "threw"
     /\ general' = {m \in Motors : SinceFive(m) /\ \A b \in bad : m < b}
  /\ UNCHANGED <<external, answers, port, t, slave, fun, reports>>

-----------------------------------------------------------------------------
Probe ==
  \/ CountAsk \/ CountLook
  \/ VersionAsk \/ VersionLook \/ PositionAsk \/ PositionLook
  \/ Choose \/ FunAsk \/ FunLook \/ Compare

Receive ==
  \/ \E p \in Ports : PortAnswer(p) \/ FunAnswer(p)
  \/ \E m \in Motors : VersionAnswer(m) \/ StateAnswer(m)
  \/ Lose

Next == Probe \/ Receive

Spec == Init /\ [][Next]_vars

-----------------------------------------------------------------------------
\* The turns of the loop the main thread is in
Turns ==
  IF at \in {"version", "versioned"} THEN VersionTurns
  ELSE IF at \in {"position", "positioned"} THEN PositionTurns
  ELSE MaxDelay

TypeOK ==
  /\ at \in {"count", "counted", "version", "versioned", "position", "positioned",
             "choose", "set", "setting", "compare", "done", "threw"}
  /\ port \in Ports /\ t \in Nat /\ t <= Turns
  /\ board \in [Ports -> BoardVersions] /\ fw \in [Motors -> Firmwares]
  /\ due \subseteq ({"count", "fun"} \X Ports) \cup ({"version", "state"} \X Motors)
  /\ portVersion \in [Ports -> BoardVersions \cup {0}] /\ portFun \in [Ports -> 1..5]
  /\ version \in [Motors -> Firmwares \cup {0}]
  /\ heard \subseteq Motors /\ general \subseteq Motors /\ missing \subseteq Motors
  /\ slave \in BoardVersions \cup {0, 30} /\ fun \in 1..5
  /\ silent \subseteq Ports

Counted == at \notin {"count", "counted"}
Chosen == at \in {"set", "setting", "compare", "done", "threw"} /\ slave >= 40

\* A port that is not reported disconnected has told its version.
SilentIsReported ==
  \A p \in Ports : (Counted \/ p < port) /\ p \notin silent => portVersion[p] # 0

\* What the driver takes the motors for fits their firmware, whatever else
\* answers meanwhile: the function version is one that every motor not reported
\* missing supports, and in the end those of v5 have the general type.
FitsFirmware ==
  /\ Chosen => \A m \in Motors \ missing : fun <= Level(fw[m])
  /\ at = "done" /\ slave >= 40 =>
       \A m \in Motors \ missing : m \in general <=> Major(fw[m]) = 5
=============================================================================
