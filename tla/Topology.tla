------------------------------ MODULE Topology ------------------------------
(***************************************************************************)
(* From the parameters to the addresses of the motors: loading and         *)
(* validating the configuration, matching serial_id to the devices found,  *)
(* building boards, CAN ports and motors, and what the indices, the ids    *)
(* and the maps of the receivers then mean, until the devices are gone and *)
(* everything is built again, perhaps on other devices.                    *)
(*                                                                         *)
(* A motor is known by its place in the configuration,                     *)
(* <<board, port, motor>>, and on the wire by <<line, id>>.                *)
(*                                                                         *)
(* Names that every module has begin with Top here: BoardProofs takes this *)
(* module beside AckProtocol, what the ports built here do.                *)
(***************************************************************************)
EXTENDS Naturals, Sequences, FiniteSets, SequencesExt

CONSTANTS
  Parameters,  \* the parameter trees to start from
  Lines,       \* CAN lines; the serial device of each has its name
  MaxId,       \* kMotorIdMax
  MaxPorts,    \* kMaxConfiguredCanPorts
  Strangers,   \* other devices with the name of a serial device
  MaxReplugs   \* bound: times the devices are unplugged

\* A tree is a sequence of boards, a board a sequence of ports, and a port has
\* a serial_id, a motor_num and the motors listed under it. Parameters that are
\* only compared with a range or with each other are left out, but for the type.
Motor == [id : Nat, num : Nat, known : BOOLEAN]
Port == [serial : Nat, count : Nat, motors : Seq(Motor)]

ASSUME TopologyAssumption ==
  /\ \A tree \in Parameters : tree \in Seq(Seq(Port))
  /\ IsFiniteSet(Lines)
  /\ MaxId \in Nat \ {0} /\ MaxPorts \in Nat \ {0}
  /\ Strangers \in Nat /\ MaxReplugs \in Nat

VARIABLES
  config,     \* config_.boards
  at,         \* what the constructor or check_error does next
  first,      \* it is the constructor
  plugged,    \* the devices there are, in the order in which they are found
  broken,     \* error_flag of some device: it was gone when it was opened, or since
  found,      \* what discover_matching_serial_ports returned
  serials,    \* serials_: the devices opened, in the order of the ports
  canPorts,   \* the CAN ports built, with their place and their device
  motors,     \* motors_: the place of each motor, and its port
  map,        \* motor_map_ of each opened device: the place of each id
  drives,     \* the entry of low_cmd that each <<line, id>> was given last
  reset,      \* index and address of the last single zero reset
  replugs

runtime == <<serials, canPorts, motors, map>>
told == <<drives, reset>>
topVars == <<config, at, first, plugged, broken, found, runtime, told, replugs>>

None == <<>>
NoMap == [id \in {} |-> None]
Addresses == Lines \X (1..MaxId)
Silent == [a \in Addresses |-> 0]
Orders == UNION {SetToSeqs(S) : S \in SUBSET Lines}

TopInit ==
  /\ config \in Parameters
  /\ at = "load" /\ first = TRUE
  /\ plugged \in Orders /\ broken = FALSE /\ found = <<>>
  /\ serials = <<>> /\ canPorts = <<>> /\ motors = <<>> /\ map = [l \in {} |-> NoMap]
  /\ drives = Silent /\ reset = None /\ replugs = 0

-----------------------------------------------------------------------------
(* Loading and validating.                                                 *)

Ports(tree) == FlattenSeq(tree)

\* load_port_config reads motor_num motors and throws when one is not there;
\* what else is listed is not looked at.
Loadable(tree) == \A port \in Range(Ports(tree)) : port.count <= Len(port.motors)

Loaded(tree) ==
  [b \in DOMAIN tree |-> [p \in DOMAIN tree[b] |->
    [tree[b][p] EXCEPT !.motors = SubSeq(@, 1, tree[b][p].count)]]]

\* The ranges validate_runtime_config asks of a port and its motors.
ValidPort(port) ==
  /\ port.count >= 1 /\ port.serial >= 1
  /\ \A k \in DOMAIN port.motors :
       /\ port.motors[k].id >= 1 /\ port.motors[k].num = k
       /\ \A j \in 1..k - 1 : port.motors[j].id # port.motors[k].id

\* validate_runtime_config. A board may have no ports.
Valid(tree) ==
  /\ Len(tree) >= 1
  /\ \A port \in Range(Ports(tree)) : ValidPort(port)
  /\ Len(Ports(tree)) <= MaxPorts

Load ==
  /\ at = "load"
  /\ IF Loadable(config) /\ Valid(Loaded(config))
     THEN at' = "discover" /\ config' = Loaded(config)
     ELSE at' = "refused" /\ UNCHANGED config
  /\ UNCHANGED <<first, plugged, broken, found, runtime, told, replugs>>

-----------------------------------------------------------------------------
(* Building the runtime.                                                   *)

Discover ==
  /\ at = "discover"
  /\ at' = "open"
  /\ found' = plugged
  /\ UNCHANGED <<config, first, plugged, broken, runtime, told, replugs>>

\* lively_serial's constructor: a device that is not there any more leaves an
\* error, but joins the others.
Opened(device) ==
  /\ serials' = Append(serials, device)
  /\ broken' = (broken \/ device \notin Range(plugged))
  /\ UNCHANGED at

Unwind == at' = "unwinding" /\ UNCHANGED <<serials, broken>>

\* Mutant: two ports may have the same serial_id.
OpenShared ==
  LET id == Ports(config)[Len(serials) + 1].serial
  IN  /\ at = "open" /\ Len(serials) < Len(Ports(config))
      /\ IF id <= Len(found) THEN Opened(found[id]) ELSE Unwind
      /\ UNCHANGED <<config, first, plugged, found, canPorts, motors, map, told, replugs>>

\* create_serial_devices_for_config: the device that serial_id selects, if
\* there are that many and no other port has it.
Open ==
  LET id == Ports(config)[Len(serials) + 1].serial
      used == {Ports(config)[k].serial : k \in 1..Len(serials)}
  IN  /\ at = "open" /\ Len(serials) < Len(Ports(config))
      /\ IF id <= Len(found) /\ id \notin used THEN Opened(found[id]) ELSE Unwind
      /\ UNCHANGED <<config, first, plugged, found, canPorts, motors, map, told, replugs>>

\* The receivers start, and know no motors yet.
StartReceivers ==
  /\ at = "open" /\ Len(serials) = Len(Ports(config))
  /\ at' = "build"
  /\ map' = [l \in Range(serials) |-> NoMap]
  /\ UNCHANGED <<config, first, plugged, broken, found, serials, canPorts, motors, told, replugs>>

PortsBefore(b) == Len(FlattenSeq(SubSeq(config, 1, b - 1)))

\* Mutant: every board starts with the first device.
OffsetForgotten(b) == 0

\* serial_offset, when the serials of board b are collected.
Offset(b) == PortsBefore(b)

\* What the constructors of canport and motor accept.
Buildable(port) == \A motor \in Range(port.motors) : motor.id <= MaxId /\ motor.known

\* motor_map_ of a port.
MapOf(b, p) ==
  LET ms == config[b][p].motors
  IN  [id \in {ms[k].id : k \in DOMAIN ms} |-> <<b, p, CHOOSE k \in DOMAIN ms : ms[k].id = id>>]

\* The next port: it gets the device in its turn, and gives the receiver of the
\* device its map. If it cannot be built, the ports of its board are gone at
\* once, and their receivers run on with their maps.
Build(b, p) ==
  /\ at = "build" /\ Len(canPorts) = PortsBefore(b) + p - 1
  /\ LET line == serials[Offset(b) + p]
     IN  IF Buildable(config[b][p])
         THEN /\ canPorts' = Append(canPorts, [board |-> b, port |-> p, line |-> line])
              /\ map' = [map EXCEPT ![line] = MapOf(b, p)]
              /\ UNCHANGED at
         ELSE /\ canPorts' = SubSeq(canPorts, 1, PortsBefore(b))
              /\ at' = "unwinding"
              /\ UNCHANGED map
  /\ UNCHANGED <<config, first, plugged, broken, found, serials, motors, told, replugs>>

\* append_motors_to, port by port.
MotorsOf(c) ==
  [k \in DOMAIN config[c.board][c.port].motors |->
     [place |-> <<c.board, c.port, k>>, line |-> c.line]]

\* The rest of build_runtime_topology.
Collect ==
  /\ at = "build" /\ Len(canPorts) = Len(Ports(config))
  /\ at' = "up" /\ first' = FALSE
  /\ motors' = FlattenSeq([k \in DOMAIN canPorts |-> MotorsOf(canPorts[k])])
  /\ UNCHANGED <<config, plugged, broken, found, serials, canPorts, map, told, replugs>>

\* cleanup_runtime, after an exception or when the error is noticed.
CleanUp ==
  /\ at = "unwinding" \/ (at = "up" /\ broken)
  /\ at' = IF first THEN "refused" ELSE "wait"
  /\ broken' = FALSE
  /\ serials' = <<>> /\ canPorts' = <<>> /\ motors' = <<>> /\ map' = [l \in {} |-> NoMap]
  /\ drives' = Silent /\ reset' = None
  /\ UNCHANGED <<config, first, plugged, found, replugs>>

\* The devices are counted by their names only.
WaitDevice ==
  /\ at = "wait" /\ Len(plugged) + Strangers >= Len(Ports(config))
  /\ at' = "discover"
  /\ UNCHANGED <<config, first, plugged, broken, found, runtime, told, replugs>>

Replug ==
  /\ at # "refused" /\ replugs < MaxReplugs
  /\ replugs' = replugs + 1
  /\ plugged' \in Orders
  /\ broken' = (broken \/ serials # <<>>)
  /\ UNCHANGED <<config, at, first, found, runtime, told>>

-----------------------------------------------------------------------------
(* Using it.                                                               *)

IdOf(place) == config[place[1]][place[2]].motors[place[3]].id

\* apply_motor_commands: nothing if there are too few commands; surplus ones
\* are not looked at.
LowCmd(n) ==
  /\ at = "up" /\ ~broken
  /\ IF n < Len(motors) THEN UNCHANGED drives
     ELSE drives' = [a \in Addresses |->
            LET own == {i \in DOMAIN motors : <<motors[i].line, IdOf(motors[i].place)>> = a}
            IN  IF own = {} THEN drives[a] ELSE Max(own)]
  /\ UNCHANGED <<config, at, first, plugged, broken, found, runtime, reset, replugs>>

\* require_motor_port
Require(b, p) == canPorts[PortsBefore(b) + p]

\* reset_zero_positions of one motor, through its port.
ResetZero(i) ==
  /\ at = "up" /\ ~broken
  /\ LET place == motors[i].place
     IN  reset' = [index |-> i, address |-> <<Require(place[1], place[2]).line, IdOf(place)>>]
  /\ UNCHANGED <<config, at, first, plugged, broken, found, runtime, drives, replugs>>

TopNext ==
  \/ Load \/ Discover \/ Open \/ StartReceivers \/ Collect \/ CleanUp \/ WaitDevice \/ Replug
  \/ \E b \in DOMAIN config : \E p \in DOMAIN config[b] : Build(b, p)
  \/ \E n \in 0..Len(motors) + 1 : LowCmd(n)
  \/ \E i \in DOMAIN motors : ResetZero(i)

TopSpec == TopInit /\ [][TopNext]_topVars

-----------------------------------------------------------------------------
Steps == {"load", "discover", "open", "build", "up", "unwinding", "wait", "refused"}
Places ==
  UNION {UNION {{<<b, p, k>> : k \in DOMAIN config[b][p].motors}
           : p \in DOMAIN config[b]} : b \in DOMAIN config}

Configs == Parameters \cup {Loaded(tree) : tree \in {t \in Parameters : Loadable(t)}}

TopTypeOK ==
  /\ config \in Configs
  /\ at \in Steps /\ first \in BOOLEAN /\ broken \in BOOLEAN /\ replugs \in 0..MaxReplugs
  /\ plugged \in Orders /\ found \in Orders /\ Range(serials) \subseteq Range(found)
  /\ \A c \in Range(canPorts) : c.line \in Range(serials)
  /\ \A l \in DOMAIN map : l \in Lines /\ DOMAIN map[l] \subseteq 1..MaxId
  /\ \A i \in DOMAIN motors : motors[i].place \in Places /\ motors[i].line \in Lines
  /\ drives \in [Addresses -> Nat]
  /\ reset # None => reset.index \in DOMAIN motors /\ reset.address \in Addresses

\* The order of the README: boards, their ports, their motors.
Before(x, y) ==
  \/ x[1] < y[1]
  \/ x[1] = y[1] /\ x[2] < y[2]
  \/ x[1] = y[1] /\ x[2] = y[2] /\ x[3] < y[3]

Rank(x) == Cardinality({y \in Places : Before(y, x)}) + 1
Address(x) == <<found[config[x[1]][x[2]].serial], IdOf(x)>>

\* A command reaches all motors or none, each the entry of its rank in the
\* configuration, on the device its serial_id selects, and nothing else; the
\* zero reset of one motor reaches that motor. So it is after every
\* reconnection, however the devices are found then.
Addressed ==
  at = "up" =>
    /\ \/ drives = Silent
       \/ /\ \A x \in Places : drives[Address(x)] = Rank(x)
          /\ \A a \in Addresses : drives[a] # 0 => \E x \in Places : Address(x) = a
    /\ reset # None =>
         \E x \in Places : Rank(x) = reset.index /\ Address(x) = reset.address

\* What a motor answers is noted at that motor, whichever device it comes from,
\* and no receiver knows of a motor that does not exist. The time in which a
\* refused port takes the others of its board with it is excepted.
AnswersComeHome ==
  at # "unwinding" =>
    /\ \A l \in DOMAIN map : \A id \in DOMAIN map[l] :
         /\ Address(map[l][id]) = <<l, id>>
         /\ \E c \in Range(canPorts) : <<c.board, c.port>> = SubSeq(map[l][id], 1, 2)
    /\ at = "up" => \A x \in Places : map[Address(x)[1]][Address(x)[2]] = x
=============================================================================
