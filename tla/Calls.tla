--------------------------------- MODULE Calls ---------------------------------
(***************************************************************************)
(* The repository's pure computations, called one at a time with every     *)
(* argument out of small sets: on_init() of both hardware components and   *)
(* the identifiers of their frames (OnInit, CanIds), the words in the      *)
(* arm's frames (CanWords), and createPlan() (StraightLine).  What a call  *)
(* leaves to chance - undefined behaviour, rounding, the robot's           *)
(* description - is chosen by the action that makes it.  The mock of the   *)
(* arm (MockMotor) is called again and again, in any order.                *)
(***************************************************************************)
EXTENDS OnInit, CanWords, StraightLine, MockMotor

CONSTANTS
  NodeNumbers,   \* node ids a description may give, as numbers
  MaxParts,      \* commands to the arm are -MaxParts..MaxParts, in 1/121 turn
  Gears,         \* gear ratios of an arm joint
  Size,          \* coordinates are 0..Size
  MaxResolution  \* resolutions are -1..MaxResolution

ASSUME CallsAssumption ==
  /\ NodeNumbers \subseteq Nat /\ MaxParts \in Nat
  /\ Gears \subseteq Nat \ {0} /\ Size \in Nat /\ MaxResolution \in Nat

VARIABLES
  call,     \* the call that was made and its arguments
  outcome   \* what came of it

vars == <<call, outcome>>

Idle == [name |-> "none"]

Init == call = Idle /\ outcome = Idle

Calling(c, o) == call' = c /\ outcome' = o

-----------------------------------------------------------------------------
Ratios == {Absent, Junk, NotFinite, Number(0), Number(2)}
Joint(commands, nodes, gears) ==
  [command : commands, states : {{"position"}, {"position", "velocity"}},
   node : nodes, gear : gears]

Nodes == {Absent, Junk} \union { Number(n) : n \in NodeNumbers }

\* Two wheels; the gear ratio is the component's.
DescribeWheels ==
  /\ call = Idle
  /\ \E i, j \in Joint({"velocity", "position"}, Nodes, {Absent}), gear \in Ratios,
        endpoint \in {"can0", "mock"} :
       LET hardware == [joints |-> <<i, j>>, gear |-> gear, endpoint |-> endpoint]
       IN Calling([name |-> "odesc on_init", with |-> hardware], OdescOnInit(hardware))

\* Two arm joints, of which the second is in order; each has a gear ratio.
DescribeArm ==
  /\ call = Idle
  /\ \E i \in Joint({"velocity", "position"}, Nodes, Ratios), n \in NodeNumbers,
        endpoint \in {"can0", "mock"} :
       LET j == [command |-> "position", states |-> {"position", "velocity"},
                 node |-> Number(n), gear |-> Absent]
           hardware == [joints |-> <<i, j>>, endpoint |-> endpoint]
       IN Calling([name |-> "pxx on_init", with |-> hardware], PxxOnInit(hardware))

Words == { <<0, 0, 0, 0>>, <<1, 2, 3, 4>>, <<255, 254, 255, 127>>, <<0, 0, 0, 128>> }

\* What a drive may hold before it is configured: PDOs on, anything mapped.
Dictionary(entries) ==
  [key \in Keys |-> IF key[1] \in {RPDO1_MAP, TPDO1_MAP, TPDO2_MAP} /\ key[2] = 0
                    THEN Small(entries) ELSE <<255, 255, 255, 127>>]

\* A drive is configured; then the host and the drive exchange process data.
Configure ==
  /\ call = Idle
  /\ \E n \in NodeNumbers \intersect PxxNodes, entries \in 0..2, p, v \in Words :
       LET od == [Configured(Dictionary(entries), n) EXCEPT
                    ![<<POSITION, 0>>] = p, ![<<VELOCITY, 0>>] = v, ![<<STATUS, 0>>] = v]
       IN Calling([name |-> "configure_node", node |-> n, position |-> p, velocity |-> v],
                  [od |-> od, motion |-> Sent(od, TPDO1_COMM, TPDO1_MAP),
                   status |-> Sent(od, TPDO2_COMM, TPDO2_MAP),
                   commanded |-> Applied(od, RPDO1_MAP, TargetPositionFrame(n, p))])

Objects == {RPDO1_MAP, TPDO1_MAP, CONTROL, STATUS} \X {0, 1}

\* A response answers one request, and a request is waited for.
Ask ==
  /\ call = Idle
  /\ \E n, o \in NodeNumbers \intersect PxxNodes, k, l \in Objects,
        word \in Words, code \in {67, 96, 128} :
       Calling([name |-> "sdo_transaction", node |-> n, key |-> k, word |-> word],
               [response |-> Response(SdoReadFrame(n, k), code, word), code |-> code,
                awaited |-> SdoReadFrame(o, l), own |-> n = o /\ k = l])

\* Command an arm joint, then read its position back.
Turn ==
  /\ call = Idle
  /\ \E parts \in -MaxParts..MaxParts, gear \in Gears :
       LET frame == TargetPositionFrame(1, RadToCounts(parts * gear))
       IN Calling([name |-> "target", parts |-> parts, gear |-> gear],
                  [motor |-> CountsToRad(GetLe(frame.data, 0, 4))])

Points == [x : 0..Size, y : 0..Size, frame : {"map", "odom"}]

Plan ==
  /\ call = Idle
  /\ \E start, goal \in Points, resolution \in -1..MaxResolution :
       \E path \in Plans(start, goal, "map", resolution) :
         Calling([name |-> "createPlan", start |-> start, goal |-> goal, resolution |-> resolution],
                 [path |-> path])

\* The mock of the arm is made.  given is a history: the commands each joint
\* was given since the last activation; before is where it was until then.
Mock(name, servos, given, before) ==
  Calling([name |-> name], [servos |-> servos, given |-> given, before |-> before])

None == [j \in Joints |-> {}]

MakeMock == call = Idle /\ Mock("mock made", Constructed, None, Constructed)

Mocks == {"mock made", "mock activated", "mock deactivated", "mock polled",
          "mock read", "mock written"}

\* Its calls under controller_manager, which reads and writes an inactive
\* component too.
CallMock ==
  /\ call.name \in Mocks
  /\ LET servos == outcome.servos IN
       \/ Mock("mock activated", Activated(servos), None, servos)
       \/ Mock("mock deactivated", Deactivated(servos), outcome.given, servos)
       \/ \E period \in {0, 1} :
            Mock(IF period = 0 THEN "mock polled" ELSE "mock read",
                 Read(servos, period), outcome.given, servos)
       \/ \E c \in [Joints -> Angles \union {NotCommanded}] :
            Mock("mock written", Wrote(servos, c),
                 [j \in Joints |-> outcome.given[j] \union ({c[j]} \ {NotCommanded})], servos)

Return == call # Idle /\ call' = Idle /\ outcome' = Idle

Next ==
  \/ DescribeWheels
  \/ DescribeArm
  \/ Configure
  \/ Ask
  \/ Turn
  \/ Plan
  \/ MakeMock
  \/ CallMock
  \/ Return

Spec == Init /\ [][Next]_vars

-----------------------------------------------------------------------------
(* Properties.                                                              *)

Accepted(name) == call.name = name /\ outcome.result = "ok"
NumberOf(i) == call.with.joints[i].node.value

\* Two joints of one description that can be told apart on the bus.
Told(i, j) == NumberOf(i) # NumberOf(j)

\* What on_init accepts is drivable: a wheel has the node id of its joint,
\* both of its frames are obeyed by the axis of that id, and by no axis of
\* another joint with a different one (63 is for all), and an estimate of
\* that axis goes to that joint's entry; feedback can be divided by the gear
\* ratio (the identifiers, and the division in read()).
WheelsAddressable ==
  Accepted("odesc on_init") =>
    \A i \in 1..2 :
      LET axes == { NumberOf(j) : j \in 1..2 } \ {63}
          id(command) == OnTheBus(MakeArbitrationId(outcome.node_ids[i], command))
      IN /\ \A command \in {MSG_SET_AXIS_REQUESTED_STATE, MSG_SET_INPUT_VEL} :
              /\ ParseArbitrationId(id(command)).command = command
              /\ Obeying(axes, id(command)) = IF NumberOf(i) = 63 THEN axes ELSE {NumberOf(i)}
         /\ Estimated(id(MSG_GET_ENCODER_ESTIMATES), 8) = {NumberOf(i)}
         /\ outcome.gears[i] # 0

\* The same for the arm: a drive takes the frames for its joint and those
\* for all, none for a joint with another node id, and rx_loop takes each
\* frame of the drive for what it is, and files it under that node.
ArmAddressable ==
  Accepted("pxx on_init") =>
    \A i, j \in 1..2 :
      /\ \A f \in ToDrive(outcome.node_ids[i]) :
           /\ DriveHears(NumberOf(j), f) <=> ~Told(i, j)
           /\ Taken(f) = "nothing"
      /\ \A f \in ToDrives : DriveHears(NumberOf(i), f) /\ Taken(f) = "nothing"
      /\ \A s \in FromDrive(NumberOf(i)) :
           Taken(s[1]) = s[2] /\ NodeOf(s[1].id) = outcome.node_ids[i]
      /\ outcome.gears[i] # 0

\* What configure_node maps is what the parsers read: whatever a drive had
\* mapped before, its motion and status data arrive as such, from its node
\* and with its values, and a target position lands in the target object.
MappedIsParsed ==
  call.name = "configure_node" =>
    /\ \A comm \in {RPDO1_COMM, TPDO1_COMM, TPDO2_COMM} : IsOn(outcome.od, comm)
    /\ Taken(outcome.motion) = "motion" /\ Taken(outcome.status) = "status"
    /\ ParseMotionFeedback(outcome.motion) =
         [node |-> call.node, position |-> call.position, velocity |-> call.velocity]
    /\ ParseStatusFeedback(outcome.status) =
         [node |-> call.node, status |-> SubSeq(call.velocity, 1, 2)]
    /\ CobOf(outcome.od, RPDO1_COMM) = TargetPositionFrame(call.node, call.position).id
    /\ outcome.commanded[<<TARGET, 0>>] = call.position

\* A transaction is ended by a response to the same object of the same node
\* and by no other, and then has its value and whether it was refused.
EchoIsOwn ==
  call.name = "sdo_transaction" =>
    LET response == ParseSdoResponse(outcome.response)
    IN /\ Taken(outcome.response) = "response"
       /\ Matches(outcome.awaited, response) <=> outcome.own
       /\ response.value = call.word
       /\ response.aborted <=> outcome.code = 128

\* What sixteen bits hold.
MinInt16 == -32768
MaxInt16 == 32767

\* A motor turns to where its joint was commanded, and read() says so, as
\* long as the motor's turns fit into 32 bits of counts, about 270 turns
\* either way; beyond, it turns elsewhere.
TargetArrives ==
  call.name = "target" =>
    LET parts == call.parts * call.gear
    IN outcome.motor = parts <=> parts \in MinInt16..MaxInt16

\* A path within the global frame leads to the goal, whatever the resolution
\* and the rounding, and starts at the start if it has a pose before it.
PathLeads ==
  call.name = "createPlan" /\ call.start.frame = "map" /\ call.goal.frame = "map" =>
    LET path == outcome.path
    IN /\ path # <<>> /\ At(path[Len(path)], call.goal)
       /\ Len(path) > 1 => At(path[1], call.start)

\* Poses are no closer than the resolution and no further apart than twice
\* that; a path of the goal alone is for a goal within one resolution.
PathEven ==
  call.name = "createPlan" /\ call.resolution > 0 /\ outcome.path # <<>> =>
    LET path == outcome.path
        r == call.resolution
    IN /\ \A i \in 1..Len(path)-1 :
            /\ Gap(path[i], path[i+1]) >= Square(r) * Scale(path[i], path[i+1])
            /\ Gap(path[i], path[i+1]) <= Square(2 * r) * Scale(path[i], path[i+1])
       /\ Len(path) = 1 => Apart(call.start, call.goal) <= Square(r)

\* A path is a straight line to the goal in even steps.
PathIsLine == PathLeads /\ PathEven

\* The mock of the arm only ever reports where a controller sent a joint since
\* the last activation, or zero, and the velocity it reports is the distance
\* since the read() before.
MockObeys ==
  call.name \in Mocks => \A j \in Joints :
    LET s == outcome.servos[j] IN
      /\ s \in Servo
      /\ s.position \in {0} \union outcome.given[j]
      /\ call.name = "mock read" => s.velocity = s.position - outcome.before[j].position

=============================================================================
