------------------------------ MODULE Calls_proofs ------------------------------
(***************************************************************************)
(* What the repository's computations return, for every node id a          *)
(* description may give, every command and gear ratio, every pair of       *)
(* points and every resolution.                                            *)
(***************************************************************************)
EXTENDS Calls, QueueLemmas

-----------------------------------------------------------------------------
(* on_init().                                                               *)

\* The first verdict that is not "ok" decides: "ok" is for all of them.
LEMMA FirstOfTwo ==
  ASSUME NEW verdicts, DOMAIN verdicts = 1..2, FirstOf(verdicts) = "ok"
  PROVE  verdicts[1] = "ok" /\ verdicts[2] = "ok"
<1> DEFINE bad == { i \in DOMAIN verdicts : verdicts[i] # "ok" }
<1>1. ASSUME bad # {}
      PROVE  FALSE
  <2>1. \E x \in bad : \A y \in bad : x <= y
    <3>1. CASE 1 \in bad
      <4>1. \A y \in bad : 1 <= y
        OBVIOUS
      <4> QED BY <3>1, <4>1
    <3>2. CASE 1 \notin bad
      <4>1. bad = {2}
        BY <1>1, <3>2
      <4>2. 2 \in bad /\ \A y \in bad : 2 <= y
        <5> HIDE DEF bad
        <5> QED BY <4>1
      <4> QED BY <4>2
    <3> QED BY <3>1, <3>2
  <2>2. Min(bad) \in bad
    <3> HIDE DEF bad
    <3> QED BY <2>1 DEF Min
  <2>3. FirstOf(verdicts) = verdicts[Min(bad)]
    BY <1>1 DEF FirstOf
  <2> QED BY <2>2, <2>3
<1> QED BY <1>1

\* A joint's node id is in range if its verdict is "ok".
LEMMA NodeIs ==
  ASSUME NEW joint, joint.node \in Nodes, NEW inRange \in BOOLEAN,
         NodeVerdict(joint, inRange) = "ok"
  PROVE  inRange /\ joint.node.value \in NodeNumbers
<1>1. CASE joint.node = Absent
  BY <1>1 DEF NodeVerdict, Absent, Parameter
<1>2. CASE joint.node = Junk
  BY <1>2 DEF NodeVerdict, Junk, Parameter
<1>3. ASSUME NEW n \in NodeNumbers, joint.node = Number(n)
      PROVE  inRange /\ joint.node.value \in NodeNumbers
  BY <1>3 DEF NodeVerdict, Number, Parameter
<1> QED BY <1>1, <1>2, <1>3 DEF Nodes

\* A gear ratio that is accepted is not zero.
LEMMA GearIs ==
  ASSUME NEW gear \in Ratios \union {Absent}, GearVerdict(gear) = "ok",
         NEW default \in Nat \ {0}
  PROVE  Ratio(gear, default) # 0
<1>1. CASE gear = Absent
  BY <1>1 DEF Ratio, Absent, Parameter
<1>3. CASE gear = Junk
  BY <1>3 DEF GearVerdict, Junk, Parameter
<1>4. CASE gear = NotFinite
  BY <1>4 DEF GearVerdict, NotFinite, Parameter
<1>2. ASSUME NEW n \in {0, 2}, gear = Number(n)
      PROVE  Ratio(gear, default) # 0
  BY <1>2 DEF GearVerdict, Ratio, Number, Parameter
<1> QED BY <1>1, <1>2, <1>3, <1>4 DEF Ratios
-----------------------------------------------------------------------------
(* The wheels' identifiers.                                                 *)

\* Six bits of node and five of command fit into the eleven of an identifier.
LEMMA ArbitrationId ==
  ASSUME NEW n \in 0..63, NEW command \in 0..31
  PROVE  ParseArbitrationId(OnTheBus(MakeArbitrationId(n, command)))
           = [node |-> n, command |-> command]
<1>1. OnTheBus(MakeArbitrationId(n, command)) = n * 32 + command
  BY DEF OnTheBus, MakeArbitrationId
<1>2. (n * 32 + command) % 32 = command /\ ((n * 32 + command) \div 32) % 64 = n
  OBVIOUS
<1> QED BY <1>1, <1>2 DEF ParseArbitrationId

\* What on_init accepts of a description of wheels.
LEMMA WheelsAccepted ==
  ASSUME NEW i \in Joint({"velocity", "position"}, Nodes, {Absent}),
         NEW j \in Joint({"velocity", "position"}, Nodes, {Absent}),
         NEW gear \in Ratios, NEW endpoint, NEW hardware,
         hardware = [joints |-> <<i, j>>, gear |-> gear, endpoint |-> endpoint],
         OdescOnInit(hardware).result = "ok"
  PROVE  /\ \A k \in 1..2 : hardware.joints[k].node.value \in 0..63
         /\ OdescOnInit(hardware).node_ids = NodeIds(hardware.joints)
         /\ \A k \in 1..2 : OdescOnInit(hardware).gears[k] # 0
<1> DEFINE verdicts == [k \in DOMAIN hardware.joints |-> OdescJoint(hardware.joints[k])]
           verdict == IF GearVerdict(hardware.gear) # "ok" THEN GearVerdict(hardware.gear)
                      ELSE FirstOf(verdicts)
<1>1. hardware.joints = <<i, j>> /\ hardware.gear = gear /\ DOMAIN hardware.joints = 1..2
  OBVIOUS
<1>2. OdescOnInit(hardware) =
        IF verdict = "ok"
        THEN [result |-> "ok", backend |-> Backend(hardware.endpoint),
              node_ids |-> NodeIds(hardware.joints),
              gears |-> [k \in DOMAIN hardware.joints |-> Ratio(hardware.gear, 48)]]
        ELSE [result |-> verdict]
  BY DEF OdescOnInit
<1>3. verdict = "ok"
  <2> HIDE DEF verdict
  <2> QED BY <1>2
<1>4. GearVerdict(gear) = "ok" /\ FirstOf(verdicts) = "ok"
  <2> HIDE DEF verdicts
  <2> QED BY <1>1, <1>3
<1>5. DOMAIN verdicts = 1..2 /\ verdicts[1] = OdescJoint(i) /\ verdicts[2] = OdescJoint(j)
  BY <1>1
<1>6. OdescJoint(i) = "ok" /\ OdescJoint(j) = "ok"
  <2> HIDE DEF verdicts
  <2> QED BY <1>4, <1>5, FirstOfTwo
<1>7. ASSUME NEW joint \in Joint({"velocity", "position"}, Nodes, {Absent}),
             OdescJoint(joint) = "ok"
      PROVE  joint.node.value \in 0..63
  <2>1. joint.node \in Nodes
    BY DEF Joint
  <2>2. NodeVerdict(joint, OdescRange(joint.node.value)) = "ok"
    BY <1>7 DEF OdescJoint
  <2>3. OdescRange(joint.node.value) \in BOOLEAN
    BY DEF OdescRange
  <2>4. OdescRange(joint.node.value)
    BY <2>1, <2>2, <2>3, NodeIs
  <2> QED BY <2>4 DEF OdescRange, OdescNodes
<1>8. i.node.value \in 0..63 /\ j.node.value \in 0..63
  BY <1>6, <1>7
<1>9. Ratio(gear, 48) # 0
  BY <1>4, GearIs
<1>10. /\ OdescOnInit(hardware).node_ids = NodeIds(hardware.joints)
       /\ OdescOnInit(hardware).gears = [k \in DOMAIN hardware.joints |-> Ratio(gear, 48)]
  <2> HIDE DEF verdict
  <2> QED BY <1>1, <1>2, <1>3
<1> QED BY <1>1, <1>8, <1>9, <1>10

\* An axis obeys the frames of its id, and those for 63; its estimates go to
\* its entry.
LEMMA WheelFrames ==
  ASSUME NEW axes, NEW n \in 0..63, n # 63 => n \in axes
  PROVE  /\ \A command \in {MSG_SET_AXIS_REQUESTED_STATE, MSG_SET_INPUT_VEL} :
              LET id == OnTheBus(MakeArbitrationId(n, command)) IN
                /\ ParseArbitrationId(id).command = command
                /\ Obeying(axes, id) = IF n = 63 THEN axes ELSE {n}
         /\ Estimated(OnTheBus(MakeArbitrationId(n, MSG_GET_ENCODER_ESTIMATES)), 8) = {n}
<1>1. ASSUME NEW command \in 0..31, NEW id, id = OnTheBus(MakeArbitrationId(n, command))
      PROVE  /\ ParseArbitrationId(id).command = command
             /\ Obeying(axes, id) = IF n = 63 THEN axes ELSE {n}
             /\ command = 9 => Estimated(id, 8) = {n}
  <2>1. ParseArbitrationId(id) = [node |-> n, command |-> command]
    BY <1>1, ArbitrationId
  <2>2. Obeying(axes, id) = { a \in axes : n = a \/ n = 63 }
    BY <2>1 DEF Obeying
  <2>3. { a \in axes : n = a \/ n = 63 } = IF n = 63 THEN axes ELSE {n}
    OBVIOUS
  <2> QED BY <2>1, <2>2, <2>3 DEF Estimated, MSG_GET_ENCODER_ESTIMATES
<1>2. 7 \in 0..31 /\ 9 \in 0..31 /\ 13 \in 0..31
  OBVIOUS
<1> QED BY <1>1, <1>2
     DEF MSG_SET_AXIS_REQUESTED_STATE, MSG_SET_INPUT_VEL, MSG_GET_ENCODER_ESTIMATES

LEMMA WheelsStep ==
  ASSUME DescribeWheels
  PROVE  WheelsAddressable'
<1>0. PICK i \in Joint({"velocity", "position"}, Nodes, {Absent}),
           j \in Joint({"velocity", "position"}, Nodes, {Absent}),
           gear \in Ratios, endpoint \in {"can0", "mock"} :
        Calling([name |-> "odesc on_init",
                 with |-> [joints |-> <<i, j>>, gear |-> gear, endpoint |-> endpoint]],
                OdescOnInit([joints |-> <<i, j>>, gear |-> gear, endpoint |-> endpoint]))
  BY DEF DescribeWheels
<1> DEFINE hardware == [joints |-> <<i, j>>, gear |-> gear, endpoint |-> endpoint]
<1>1. /\ call' = [name |-> "odesc on_init", with |-> hardware]
      /\ outcome' = OdescOnInit(hardware)
  BY <1>0 DEF Calling
<1>2. call'.with = hardware /\ DOMAIN hardware.joints = 1..2
  <2>1. hardware.joints = <<i, j>> /\ DOMAIN <<i, j>> = 1..2
    OBVIOUS
  <2> HIDE DEF hardware
  <2> QED BY <1>1, <2>1
<1>3. SUFFICES ASSUME OdescOnInit(hardware).result = "ok" PROVE WheelsAddressable'
  <2> HIDE DEF hardware
  <2> QED BY <1>1 DEF WheelsAddressable, Accepted
<1>4. /\ \A k \in 1..2 : hardware.joints[k].node.value \in 0..63
      /\ outcome'.node_ids = NodeIds(hardware.joints)
      /\ \A k \in 1..2 : outcome'.gears[k] # 0
  BY <1>1, <1>3, WheelsAccepted
<1> HIDE DEF hardware
<1>5. ASSUME NEW k \in 1..2
      PROVE  /\ NumberOf(k)' \in 0..63 /\ outcome'.node_ids[k] = NumberOf(k)'
             /\ outcome'.gears[k] # 0
  <2>1. NumberOf(k)' = hardware.joints[k].node.value
    BY <1>2 DEF NumberOf
  <2>2. outcome'.node_ids[k] = hardware.joints[k].node.value % 256
    BY <1>2, <1>4 DEF NodeIds
  <2>3. hardware.joints[k].node.value \in 0..63
    BY <1>4
  <2>4. hardware.joints[k].node.value % 256 = hardware.joints[k].node.value
    BY <2>3
  <2> QED BY <1>4, <2>1, <2>2, <2>3, <2>4
<1> DEFINE axes == { NumberOf(j_1)' : j_1 \in 1..2 } \ {63}
<1>6. ASSUME NEW k \in 1..2
      PROVE  NumberOf(k)' # 63 => NumberOf(k)' \in axes
  OBVIOUS
<1> HIDE DEF axes
<1>7. ASSUME NEW k \in 1..2
      PROVE  /\ \A command \in {MSG_SET_AXIS_REQUESTED_STATE, MSG_SET_INPUT_VEL} :
                  LET id == OnTheBus(MakeArbitrationId(outcome'.node_ids[k], command)) IN
                    /\ ParseArbitrationId(id).command = command
                    /\ Obeying(axes, id) = IF NumberOf(k)' = 63 THEN axes ELSE {NumberOf(k)'}
             /\ Estimated(OnTheBus(MakeArbitrationId(outcome'.node_ids[k],
                                                     MSG_GET_ENCODER_ESTIMATES)), 8)
                  = {NumberOf(k)'}
             /\ outcome'.gears[k] # 0
  <2> DEFINE n == NumberOf(k)'
  <2>1. n \in 0..63 /\ outcome'.node_ids[k] = n /\ outcome'.gears[k] # 0
    BY <1>5
  <2>2. n # 63 => n \in axes
    BY <1>6
  <2> HIDE DEF n
  <2>3. /\ \A command \in {MSG_SET_AXIS_REQUESTED_STATE, MSG_SET_INPUT_VEL} :
              LET id == OnTheBus(MakeArbitrationId(n, command)) IN
                /\ ParseArbitrationId(id).command = command
                /\ Obeying(axes, id) = IF n = 63 THEN axes ELSE {n}
         /\ Estimated(OnTheBus(MakeArbitrationId(n, MSG_GET_ENCODER_ESTIMATES)), 8) = {n}
    BY <2>1, <2>2, WheelFrames
  <2> QED BY <2>1, <2>3, Zenon DEF n
<1> QED BY <1>7, Zenon DEF WheelsAddressable, axes
-----------------------------------------------------------------------------
(* The arm's identifiers.                                                   *)

\* rx_loop tells a standard frame by its function, its length and whether it
\* names a node.
LEMMA TakenIs ==
  ASSUME NEW frame, frame.extended = FALSE
  PROVE  /\ FunctionOf(frame.id) = TPDO1 /\ frame.length >= 8 => Taken(frame) = "motion"
         /\ FunctionOf(frame.id) = TPDO2 /\ frame.length >= 2 => Taken(frame) = "status"
         /\ FunctionOf(frame.id) = EMCY /\ frame.length >= 2 /\ NodeOf(frame.id) # 0
              => Taken(frame) = "emergency"
         /\ FunctionOf(frame.id) = TSDO /\ frame.length >= 8 => Taken(frame) = "response"
         /\ FunctionOf(frame.id) \notin {TPDO1, TPDO2, EMCY, TSDO} => Taken(frame) = "nothing"
         /\ FunctionOf(frame.id) = EMCY /\ NodeOf(frame.id) = 0 => Taken(frame) = "nothing"
<1> DEFINE f == FunctionOf(frame.id)
<1>1. /\ TPDO1 # TPDO2 /\ TPDO1 # EMCY /\ TPDO1 # TSDO
      /\ TPDO2 # EMCY /\ TPDO2 # TSDO /\ EMCY # TSDO
  BY DEF TPDO1, TPDO2, EMCY, TSDO
<1>2. ASSUME f = TPDO1, frame.length >= 8
      PROVE  Taken(frame) = "motion"
  BY <1>1, <1>2, Zenon DEF Taken
<1>3. ASSUME f = TPDO2, frame.length >= 2
      PROVE  Taken(frame) = "status"
  BY <1>1, <1>3, Zenon DEF Taken
<1>4. ASSUME f = EMCY, frame.length >= 2, NodeOf(frame.id) # 0
      PROVE  Taken(frame) = "emergency"
  BY <1>1, <1>4, Zenon DEF Taken
<1>5. ASSUME f = TSDO, frame.length >= 8
      PROVE  Taken(frame) = "response"
  BY <1>1, <1>5, Zenon DEF Taken
<1>6. ASSUME f \notin {TPDO1, TPDO2, EMCY, TSDO}
      PROVE  Taken(frame) = "nothing"
  <2>1. f # TPDO1 /\ f # TPDO2 /\ f # EMCY /\ f # TSDO
    BY <1>6
  <2> QED BY <2>1, Zenon DEF Taken
<1>7. ASSUME f = EMCY, NodeOf(frame.id) = 0
      PROVE  Taken(frame) = "nothing"
  BY <1>1, <1>7, Zenon DEF Taken
<1> QED BY <1>2, <1>3, <1>4, <1>5, <1>6, <1>7

\* The function code and the node come back out of an identifier.
LEMMA CobId ==
  ASSUME NEW n \in 1..127,
         NEW function \in {TPDO1, RPDO1, TPDO2, EMCY, TSDO, RSDO, HEARTBEAT}
  PROVE  FunctionOf(function + n) = function /\ NodeOf(function + n) = n
BY DEF FunctionOf, NodeOf, TPDO1, RPDO1, TPDO2, EMCY, TSDO, RSDO, HEARTBEAT

LEMMA BareIs ==
  ASSUME NEW id, NEW length
  PROVE  /\ Bare(id, length).id = id /\ Bare(id, length).length = length
         /\ Bare(id, length).extended = FALSE
BY DEF Bare

\* Frames for one drive, for all drives, and of a drive.
LEMMA ArmFrames ==
  ASSUME NEW n \in 1..127, NEW m \in 1..127
  PROVE  /\ \A f \in ToDrive(n) : (DriveHears(m, f) <=> n = m) /\ Taken(f) = "nothing"
         /\ \A f \in ToDrives : DriveHears(m, f) /\ Taken(f) = "nothing"
         /\ \A s \in FromDrive(n) : Taken(s[1]) = s[2] /\ NodeOf(s[1].id) = n
<1>1. ASSUME NEW f \in ToDrive(n)
      PROVE  (DriveHears(m, f) <=> n = m) /\ Taken(f) = "nothing"
  <2>1. CASE f = Bare(RPDO1 + n, 4)
    <3>1. f.id = RPDO1 + n /\ f.extended = FALSE
      BY <2>1, BareIs
    <3>2. FunctionOf(f.id) = RPDO1 /\ RPDO1 \notin {TPDO1, TPDO2, EMCY, TSDO}
      <4>1. RPDO1 \notin {TPDO1, TPDO2, EMCY, TSDO}
        BY DEF RPDO1, TPDO1, TPDO2, EMCY, TSDO
      <4> QED BY <3>1, <4>1, CobId
    <3>3. DriveHears(m, f) <=> n = m
      BY <3>1 DEF DriveHears, NMT, SYNC, RPDO1, RSDO
    <3> QED BY <3>1, <3>2, <3>3, TakenIs
  <2>2. CASE f = Bare(RSDO + n, 8)
    <3>1. f.id = RSDO + n /\ f.extended = FALSE
      BY <2>2, BareIs
    <3>2. FunctionOf(f.id) = RSDO /\ RSDO \notin {TPDO1, TPDO2, EMCY, TSDO}
      <4>1. RSDO \notin {TPDO1, TPDO2, EMCY, TSDO}
        BY DEF RSDO, TPDO1, TPDO2, EMCY, TSDO
      <4> QED BY <3>1, <4>1, CobId
    <3>3. DriveHears(m, f) <=> n = m
      BY <3>1 DEF DriveHears, NMT, SYNC, RPDO1, RSDO
    <3> QED BY <3>1, <3>2, <3>3, TakenIs
  <2> QED BY <2>1, <2>2 DEF ToDrive
<1>2. ASSUME NEW f \in ToDrives
      PROVE  DriveHears(m, f) /\ Taken(f) = "nothing"
  <2>1. CASE f = Bare(NMT, 2)
    <3>1. f.id = 0 /\ f.extended = FALSE
      BY <2>1, BareIs DEF NMT
    <3>2. FunctionOf(f.id) = 0 /\ 0 \notin {TPDO1, TPDO2, EMCY, TSDO}
      BY <3>1 DEF FunctionOf, TPDO1, TPDO2, EMCY, TSDO
    <3>3. DriveHears(m, f)
      BY <3>1 DEF DriveHears, NMT
    <3> QED BY <3>1, <3>2, <3>3, TakenIs
  <2>2. CASE f = Bare(SYNC, 0)
    <3>1. f.id = 128 /\ f.extended = FALSE
      BY <2>2 DEF Bare, SYNC
    <3>2. FunctionOf(f.id) = EMCY /\ NodeOf(f.id) = 0
      BY <3>1 DEF FunctionOf, NodeOf, EMCY
    <3>3. DriveHears(m, f)
      BY <3>1 DEF DriveHears, SYNC
    <3> QED BY <3>1, <3>2, <3>3, TakenIs
  <2> QED BY <2>1, <2>2 DEF ToDrives
<1>3. ASSUME NEW s \in FromDrive(n)
      PROVE  Taken(s[1]) = s[2] /\ NodeOf(s[1].id) = n
  <2>1. ASSUME NEW f, f = Bare(TPDO1 + n, 8)
        PROVE  Taken(f) = "motion" /\ NodeOf(f.id) = n
    <3>0. f.extended = FALSE /\ f.id = TPDO1 + n /\ f.length = 8
      BY <2>1 DEF Bare
    <3>1. /\ f.extended = FALSE /\ FunctionOf(f.id) = TPDO1 /\ NodeOf(f.id) = n
          /\ f.length >= 2 /\ f.length >= 8 /\ NodeOf(f.id) # 0
      BY <3>0, CobId
    <3> QED BY <3>1, TakenIs
  <2>2. ASSUME NEW f, f = Bare(TPDO2 + n, 2)
        PROVE  Taken(f) = "status" /\ NodeOf(f.id) = n
    <3>0. f.extended = FALSE /\ f.id = TPDO2 + n /\ f.length = 2
      BY <2>2 DEF Bare
    <3>1. /\ f.extended = FALSE /\ FunctionOf(f.id) = TPDO2 /\ NodeOf(f.id) = n
          /\ f.length >= 2
      BY <3>0, CobId
    <3> QED BY <3>1, TakenIs
  <2>3. ASSUME NEW f, f = Bare(EMCY + n, 8)
        PROVE  Taken(f) = "emergency" /\ NodeOf(f.id) = n
    <3>0. f.extended = FALSE /\ f.id = EMCY + n /\ f.length = 8
      BY <2>3 DEF Bare
    <3>1. /\ f.extended = FALSE /\ FunctionOf(f.id) = EMCY /\ NodeOf(f.id) = n
          /\ f.length >= 2 /\ f.length >= 8 /\ NodeOf(f.id) # 0
      BY <3>0, CobId
    <3> QED BY <3>1, TakenIs
  <2>4. ASSUME NEW f, f = Bare(TSDO + n, 8)
        PROVE  Taken(f) = "response" /\ NodeOf(f.id) = n
    <3>0. f.extended = FALSE /\ f.id = TSDO + n /\ f.length = 8
      BY <2>4 DEF Bare
    <3>1. /\ f.extended = FALSE /\ FunctionOf(f.id) = TSDO /\ NodeOf(f.id) = n
          /\ f.length >= 2 /\ f.length >= 8 /\ NodeOf(f.id) # 0
      BY <3>0, CobId
    <3> QED BY <3>1, TakenIs
  <2>5. ASSUME NEW f, f = Bare(HEARTBEAT + n, 1)
        PROVE  Taken(f) = "nothing" /\ NodeOf(f.id) = n
    <3>0. f.extended = FALSE /\ f.id = HEARTBEAT + n /\ f.length = 1
      BY <2>5 DEF Bare
    <3>1. /\ f.extended = FALSE /\ FunctionOf(f.id) = HEARTBEAT /\ NodeOf(f.id) = n
      BY <3>0, CobId
    <3>2. HEARTBEAT \notin {TPDO1, TPDO2, EMCY, TSDO}
      BY DEF HEARTBEAT, TPDO1, TPDO2, EMCY, TSDO
    <3> QED BY <3>1, <3>2, TakenIs
  <2>6. s \in { <<Bare(TPDO1 + n, 8), "motion">>, <<Bare(TPDO2 + n, 2), "status">>,
               <<Bare(EMCY + n, 8), "emergency">>, <<Bare(TSDO + n, 8), "response">>,
               <<Bare(HEARTBEAT + n, 1), "nothing">> }
    BY DEF FromDrive
  <2>7. \/ s[1] = Bare(TPDO1 + n, 8) /\ s[2] = "motion"
        \/ s[1] = Bare(TPDO2 + n, 2) /\ s[2] = "status"
        \/ s[1] = Bare(EMCY + n, 8) /\ s[2] = "emergency"
        \/ s[1] = Bare(TSDO + n, 8) /\ s[2] = "response"
        \/ s[1] = Bare(HEARTBEAT + n, 1) /\ s[2] = "nothing"
    BY <2>6
  <2> QED BY <2>1, <2>2, <2>3, <2>4, <2>5, <2>7
<1> QED BY <1>1, <1>2, <1>3

\* What on_init accepts of a description of arm joints.
LEMMA ArmAccepted ==
  ASSUME NEW i \in Joint({"velocity", "position"}, Nodes, Ratios), NEW n \in NodeNumbers,
         NEW j, j = [command |-> "position", states |-> {"position", "velocity"},
                     node |-> Number(n), gear |-> Absent],
         NEW endpoint, NEW hardware,
         hardware = [joints |-> <<i, j>>, endpoint |-> endpoint],
         PxxOnInit(hardware).result = "ok"
  PROVE  /\ \A k \in 1..2 : hardware.joints[k].node.value \in 1..127
         /\ PxxOnInit(hardware).node_ids = NodeIds(hardware.joints)
         /\ \A k \in 1..2 : PxxOnInit(hardware).gears[k] # 0
<1> DEFINE verdicts == [k \in DOMAIN hardware.joints |-> PxxJoint(hardware.joints[k])]
           verdict == FirstOf(verdicts)
<1>1. hardware.joints = <<i, j>> /\ DOMAIN hardware.joints = 1..2
  OBVIOUS
<1>2. PxxOnInit(hardware) =
        IF verdict = "ok"
        THEN [result |-> "ok", backend |-> Backend(hardware.endpoint),
              node_ids |-> NodeIds(hardware.joints),
              gears |-> [k \in DOMAIN hardware.joints |-> Ratio(hardware.joints[k].gear, 1)]]
        ELSE [result |-> verdict]
  BY DEF PxxOnInit
<1>3. verdict = "ok"
  <2> HIDE DEF verdict
  <2> QED BY <1>2
<1>4. DOMAIN verdicts = 1..2 /\ verdicts[1] = PxxJoint(i) /\ verdicts[2] = PxxJoint(j)
  BY <1>1
<1>5. PxxJoint(i) = "ok" /\ PxxJoint(j) = "ok"
  <2> HIDE DEF verdicts
  <2> QED BY <1>3, <1>4, FirstOfTwo
<1>6. ASSUME NEW joint, joint.node \in Nodes, joint.gear \in Ratios, PxxJoint(joint) = "ok"
      PROVE  joint.node.value \in 1..127 /\ Ratio(joint.gear, 1) # 0
  <2>1. Exposed(joint, "position")
    BY <1>6, Zenon DEF PxxJoint
  <2>2. /\ NodeVerdict(joint, PxxRange(joint.node.value)) = "ok"
        /\ GearVerdict(joint.gear) = "ok"
    BY <1>6, <2>1, Zenon DEF PxxJoint
  <2>3. PxxRange(joint.node.value) \in BOOLEAN
    BY DEF PxxRange
  <2>4. PxxRange(joint.node.value)
    BY <1>6, <2>2, <2>3, NodeIs
  <2>5. Ratio(joint.gear, 1) # 0
    BY <1>6, <2>2, GearIs
  <2> QED BY <2>4, <2>5 DEF PxxRange, PxxNodes
<1>7. /\ i.node \in Nodes /\ i.gear \in Ratios
      /\ j.node \in Nodes /\ j.gear \in Ratios
  BY DEF Joint, Nodes, Ratios
<1>8. \A k \in 1..2 : /\ hardware.joints[k].node.value \in 1..127
                      /\ Ratio(hardware.joints[k].gear, 1) # 0
  BY <1>1, <1>5, <1>6, <1>7
<1>9. /\ PxxOnInit(hardware).node_ids = NodeIds(hardware.joints)
      /\ PxxOnInit(hardware).gears =
           [k \in DOMAIN hardware.joints |-> Ratio(hardware.joints[k].gear, 1)]
  <2> HIDE DEF verdict
  <2> QED BY <1>2, <1>3
<1> QED BY <1>1, <1>8, <1>9

LEMMA ArmStep ==
  ASSUME DescribeArm
  PROVE  ArmAddressable'
<1>0. PICK i \in Joint({"velocity", "position"}, Nodes, Ratios), n \in NodeNumbers,
           endpoint \in {"can0", "mock"} :
        LET j == [command |-> "position", states |-> {"position", "velocity"},
                  node |-> Number(n), gear |-> Absent]
            hardware == [joints |-> <<i, j>>, endpoint |-> endpoint]
        IN Calling([name |-> "pxx on_init", with |-> hardware], PxxOnInit(hardware))
  BY DEF DescribeArm
<1> DEFINE j == [command |-> "position", states |-> {"position", "velocity"},
                 node |-> Number(n), gear |-> Absent]
           hardware == [joints |-> <<i, j>>, endpoint |-> endpoint]
<1>1. /\ call' = [name |-> "pxx on_init", with |-> hardware]
      /\ outcome' = PxxOnInit(hardware)
  BY <1>0 DEF Calling
<1>2. call'.with = hardware /\ DOMAIN hardware.joints = 1..2
  <2> HIDE DEF j
  <2>1. hardware.joints = <<i, j>> /\ DOMAIN <<i, j>> = 1..2
    OBVIOUS
  <2> HIDE DEF hardware
  <2> QED BY <1>1, <2>1
<1>3. SUFFICES ASSUME PxxOnInit(hardware).result = "ok" PROVE ArmAddressable'
  <2> HIDE DEF hardware
  <2> QED BY <1>1 DEF ArmAddressable, Accepted
<1>4. /\ \A k \in 1..2 : hardware.joints[k].node.value \in 1..127
      /\ outcome'.node_ids = NodeIds(hardware.joints)
      /\ \A k \in 1..2 : outcome'.gears[k] # 0
  BY <1>1, <1>3, ArmAccepted
<1> HIDE DEF hardware
<1>5. ASSUME NEW k \in 1..2
      PROVE  /\ NumberOf(k)' \in 1..127 /\ outcome'.node_ids[k] = NumberOf(k)'
             /\ outcome'.gears[k] # 0
  <2>1. NumberOf(k)' = hardware.joints[k].node.value
    BY <1>2 DEF NumberOf
  <2>2. outcome'.node_ids[k] = hardware.joints[k].node.value % 256
    BY <1>2, <1>4 DEF NodeIds
  <2>3. hardware.joints[k].node.value \in 1..127
    BY <1>4
  <2>4. hardware.joints[k].node.value % 256 = hardware.joints[k].node.value
    BY <2>3
  <2> QED BY <1>4, <2>1, <2>2, <2>3, <2>4
<1>6. ASSUME NEW k \in 1..2, NEW l \in 1..2
      PROVE  /\ \A f \in ToDrive(outcome'.node_ids[k]) :
                  /\ DriveHears(NumberOf(l)', f) <=> ~Told(k, l)'
                  /\ Taken(f) = "nothing"
             /\ \A f \in ToDrives : DriveHears(NumberOf(k)', f) /\ Taken(f) = "nothing"
             /\ \A s \in FromDrive(NumberOf(k)') :
                  Taken(s[1]) = s[2] /\ NodeOf(s[1].id) = outcome'.node_ids[k]
             /\ outcome'.gears[k] # 0
  <2> DEFINE a == NumberOf(k)'
             b == NumberOf(l)'
  <2>1. a \in 1..127 /\ b \in 1..127 /\ outcome'.node_ids[k] = a /\ outcome'.gears[k] # 0
    BY <1>5
  <2>2. ~Told(k, l)' <=> a = b
    BY DEF Told
  <2> HIDE DEF a, b
  <2>3. /\ \A f \in ToDrive(a) : (DriveHears(b, f) <=> a = b) /\ Taken(f) = "nothing"
        /\ \A f \in ToDrives : DriveHears(a, f) /\ Taken(f) = "nothing"
        /\ \A s \in FromDrive(a) : Taken(s[1]) = s[2] /\ NodeOf(s[1].id) = a
    BY <2>1, ArmFrames
  <2> QED BY <2>1, <2>2, <2>3, Zenon DEF a, b
<1> QED BY <1>6, Zenon DEF ArmAddressable
-----------------------------------------------------------------------------
(* The bytes of a frame.                                                    *)

LEMMA Concatenated ==
  ASSUME NEW s \in Seq(Nat), NEW t \in Seq(Nat)
  PROVE  /\ s \o t \in Seq(Nat) /\ Len(s \o t) = Len(s) + Len(t)
         /\ Len(s) \in Nat /\ Len(t) \in Nat
         /\ \A i \in 1..Len(s) : (s \o t)[i] = s[i]
         /\ \A i \in 1..Len(t) : (s \o t)[Len(s) + i] = t[i]
OBVIOUS

LEMMA OneMore ==
  ASSUME NEW s \in Seq(Nat), NEW byte \in Nat
  PROVE  /\ s \o <<byte>> \in Seq(Nat) /\ Len(s \o <<byte>>) = Len(s) + 1
         /\ (s \o <<byte>>)[Len(s) + 1] = byte
         /\ \A i \in 1..Len(s) : (s \o <<byte>>)[i] = s[i]
OBVIOUS

LEMMA OneBefore ==
  ASSUME NEW s \in Seq(Nat), NEW byte \in Nat
  PROVE  /\ <<byte>> \o s \in Seq(Nat) /\ Len(<<byte>> \o s) = Len(s) + 1
         /\ (<<byte>> \o s)[1] = byte
         /\ \A i \in 1..Len(s) : (<<byte>> \o s)[1 + i] = s[i]
OBVIOUS

LEMMA ZerosAre ==
  ASSUME NEW n \in Nat
  PROVE  /\ Zeros(n) \in Seq(Nat) /\ Len(Zeros(n)) = n
         /\ \A i \in 1..n : Zeros(n)[i] = 0
BY DEF Zeros

\* A frame's data are the bytes it was made of, filled up to eight.
LEMMA FrameData ==
  ASSUME NEW id, NEW bytes \in Seq(Nat), Len(bytes) <= 8
  PROVE  /\ Frame(id, bytes).data \in Seq(Nat) /\ Len(Frame(id, bytes).data) = 8
         /\ \A i \in 1..Len(bytes) : Frame(id, bytes).data[i] = bytes[i]
<1> DEFINE fill == Zeros(8 - Len(bytes))
<1>1. 8 - Len(bytes) \in Nat
  OBVIOUS
<1>2. fill \in Seq(Nat) /\ Len(fill) = 8 - Len(bytes)
  BY <1>1, ZerosAre
<1>3. Frame(id, bytes).data = bytes \o fill
  BY DEF Frame
<1> HIDE DEF fill
<1> QED BY <1>2, <1>3, Concatenated

LEMMA FrameHead ==
  ASSUME NEW id, NEW bytes
  PROVE  /\ Frame(id, bytes).id = id /\ Frame(id, bytes).length = Len(bytes)
         /\ Frame(id, bytes).extended = FALSE
BY DEF Frame

LEMMA SameBytes ==
  ASSUME NEW s \in Seq(Nat), NEW t \in Seq(Nat), Len(s) = Len(t),
         \A i \in 1..Len(s) : s[i] = t[i]
  PROVE  s = t
OBVIOUS

LEMMA SubBytes ==
  ASSUME NEW q \in Seq(Nat), NEW m \in Nat, NEW n \in Nat, m > 0, m <= n, n <= Len(q)
  PROVE  /\ SubSeq(q, m, n) \in Seq(Nat) /\ Len(SubSeq(q, m, n)) = n - m + 1
         /\ \A i \in 1..(n - m + 1) : SubSeq(q, m, n)[i] = q[m + i - 1]
OBVIOUS

LEMMA FourBytes ==
  ASSUME NEW q \in Seq(Nat), Len(q) >= 4
  PROVE  /\ SubSeq(q, 1, 4) \in Seq(Nat) /\ Len(SubSeq(q, 1, 4)) = 4
         /\ \A i \in 1..4 : SubSeq(q, 1, 4)[i] = q[i]
<1>1. 4 \in Nat /\ 1 \in Nat /\ 4 - 1 + 1 = 4 /\ \A i \in 1..4 : 1 + i - 1 = i
  OBVIOUS
<1> QED BY <1>1, SubBytes

LEMMA LastFour ==
  ASSUME NEW q \in Seq(Nat), Len(q) = 8
  PROVE  /\ SubSeq(q, 5, 8) \in Seq(Nat) /\ Len(SubSeq(q, 5, 8)) = 4
         /\ \A i \in 1..4 : SubSeq(q, 5, 8)[i] = q[4 + i]
<1>1. 8 \in Nat /\ 5 \in Nat /\ 5 > 0 /\ 5 <= 8 /\ 8 <= Len(q)
  OBVIOUS
<1>2. /\ SubSeq(q, 5, 8) \in Seq(Nat) /\ Len(SubSeq(q, 5, 8)) = 8 - 5 + 1
      /\ \A i \in 1..(8 - 5 + 1) : SubSeq(q, 5, 8)[i] = q[5 + i - 1]
  BY <1>1, SubBytes
<1>3. \A i \in 1..4 : i \in 1..(8 - 5 + 1) /\ 5 + i - 1 = 4 + i
  OBVIOUS
<1> QED BY <1>2, <1>3

LEMMA TwoBytes ==
  ASSUME NEW a \in Nat, NEW b \in Nat, NEW s \in Seq(Nat), Len(s) = 2, s[1] = a, s[2] = b
  PROVE  s = <<a, b>>
<1> DEFINE t == <<a, b>>
<1>1. t \in Seq(Nat) /\ Len(t) = 2 /\ t[1] = a /\ t[2] = b
  OBVIOUS
<1>2. \A i \in 1..2 : i = 1 \/ i = 2
  OBVIOUS
<1> HIDE DEF t
<1>3. \A i \in 1..Len(s) : s[i] = t[i]
  BY <1>1, <1>2
<1> QED BY <1>1, <1>3, SameBytes DEF t

-----------------------------------------------------------------------------
(* A target position.                                                       *)

\* Sixteen bits in two's complement.
LEMMA Halves ==
  ASSUME NEW p \in Int, NEW r \in Int, NEW half \in Int,
         0 <= half, half < 65536, p = 65536 * r + half
  PROVE  (IF half < 32768 THEN half ELSE half - 65536) = p <=> -32768 <= p /\ p <= 32767
<1>1. CASE half < 32768
  <2>1. CASE r = 0
    BY <1>1, <2>1, SMT
  <2>2. CASE r >= 1
    BY <1>1, <2>2, SMT
  <2>3. CASE r <= -1
    BY <1>1, <2>3, SMT
  <2> QED BY <2>1, <2>2, <2>3, SMT
<1>2. CASE ~(half < 32768)
  <2>1. CASE r = -1
    BY <1>2, <2>1, SMT
  <2>2. CASE r >= 0
    BY <1>2, <2>2, SMT
  <2>3. CASE r <= -2
    BY <1>2, <2>3, SMT
  <2> QED BY <2>1, <2>2, <2>3, SMT
<1> QED BY <1>1, <1>2

LEMMA InRange ==
  ASSUME NEW p \in Int, NEW low \in Int, NEW high \in Int
  PROVE  p \in low..high <=> low <= p /\ p <= high
OBVIOUS

LEMMA Divided ==
  ASSUME NEW p \in Int
  PROVE  /\ p \div 256 \in Int /\ p % 256 \in Nat /\ p % 256 < 256
         /\ p = 256 * (p \div 256) + (p % 256)
BY SMT

LEMMA TwoDigits ==
  ASSUME NEW p \in Int, NEW q \in Int, NEW r \in Int, NEW a \in Nat, NEW b \in Nat,
         a < 256, b < 256, p = 256 * q + a, q = 256 * r + b
  PROVE  p = 65536 * r + (a + 256 * b) /\ 0 <= a + 256 * b /\ a + 256 * b < 65536
<1>1. 256 * q = 65536 * r + 256 * b
  BY SMT
<1>2. 256 * b <= 65280 /\ 0 <= 256 * b
  BY SMT
<1> QED BY <1>1, <1>2, SMT

LEMMA CountsAre ==
  ASSUME NEW word, NEW a \in Int, NEW b \in Int, word[3] = a, word[4] = b
  PROVE  CountsToRad(word) =
           IF a + 256 * b < 32768 THEN a + 256 * b ELSE a + 256 * b - 65536
BY SMT DEF CountsToRad

\* Counts that went through the frame are those that came, if they fit.
LEMMA ThereAndBack ==
  ASSUME NEW p \in Int, NEW word,
         word[3] = RadToCounts(p)[3], word[4] = RadToCounts(p)[4]
  PROVE  CountsToRad(word) = p <=> p \in MinInt16..MaxInt16
<1> DEFINE q == p \div 256
           r == q \div 256
           a == p % 256
           b == q % 256
           half == a + 256 * b
<1>1. word[3] = a /\ word[4] = b
  BY DEF RadToCounts
<1>2. q \in Int /\ a \in Nat /\ a < 256 /\ p = 256 * q + a
  BY Divided
<1> HIDE DEF q, a
<1>3. r \in Int /\ b \in Nat /\ b < 256 /\ q = 256 * r + b
  BY <1>2, Divided
<1> HIDE DEF r, b
<1>4. CountsToRad(word) = IF half < 32768 THEN half ELSE half - 65536
  BY <1>1, <1>2, <1>3, CountsAre
<1>5. /\ half \in Int /\ 0 <= half /\ half < 65536
      /\ p = 65536 * r + half
  BY <1>2, <1>3, TwoDigits
<1> HIDE DEF half
<1>6. (IF half < 32768 THEN half ELSE half - 65536) = p <=> -32768 <= p /\ p <= 32767
  BY <1>3, <1>5, Halves, SMT
<1>7. -32768 <= p /\ p <= 32767 <=> MinInt16 <= p /\ p <= MaxInt16
  BY SMT DEF MinInt16, MaxInt16
<1>8. MinInt16 \in Int /\ MaxInt16 \in Int
  BY SMT DEF MinInt16, MaxInt16
<1>9. p \in MinInt16..MaxInt16 <=> MinInt16 <= p /\ p <= MaxInt16
  BY <1>8, InRange
<1> QED BY <1>4, <1>6, <1>7, <1>9, SMT

LEMMA TurnStep ==
  ASSUME Turn
  PROVE  TargetArrives'
<1>1. PICK parts \in -MaxParts..MaxParts, gear \in Gears :
        LET frame == TargetPositionFrame(1, RadToCounts(parts * gear))
        IN Calling([name |-> "target", parts |-> parts, gear |-> gear],
                   [motor |-> CountsToRad(GetLe(frame.data, 0, 4))])
  BY DEF Turn
<1> DEFINE p == parts * gear
           a == p % 256
           b == (p \div 256) % 256
           word == <<0, 0, a, b>>
           frame == TargetPositionFrame(1, RadToCounts(p))
           bytes == GetLe(frame.data, 0, 4)
<1>2. p \in Int
  BY CallsAssumption
<1>3. /\ call'.parts * call'.gear = p
      /\ outcome'.motor = CountsToRad(bytes)
  BY <1>1 DEF Calling
<1> HIDE DEF p
<1>4. a \in Nat /\ b \in Nat
  BY <1>2
<1>5. RadToCounts(p) = word
  BY DEF RadToCounts
<1> HIDE DEF a, b
<1> DEFINE data == PutLe(word, 4)
<1>6. bytes[3] = a /\ bytes[4] = b
  <2>1. word \in Seq(Nat) /\ Len(word) = 4
    BY <1>4
  <2>2. word[3] = a /\ word[4] = b
    OBVIOUS
  <2>3. data = SubSeq(word, 1, 4)
    BY DEF PutLe
  <2>4. frame = Frame(RPDO1 + 1, data)
    BY <1>5 DEF TargetPositionFrame
  <2>5. bytes = SubSeq(frame.data, 1, 4)
    BY DEF GetLe
  <2> HIDE DEF word, data, frame, bytes
  <2>6. data \in Seq(Nat) /\ Len(data) = 4 /\ data[3] = a /\ data[4] = b
    <3>1. Len(word) >= 4
      BY <2>1
    <3>2. /\ data \in Seq(Nat) /\ Len(data) = 4
          /\ \A i \in 1..4 : data[i] = word[i]
      BY <2>1, <2>3, <3>1, FourBytes
    <3> QED BY <2>2, <3>2
  <2>7. frame.data \in Seq(Nat) /\ Len(frame.data) = 8 /\ frame.data[3] = a /\ frame.data[4] = b
    <3>1. Len(data) <= 8 /\ 3 \in 1..Len(data) /\ 4 \in 1..Len(data)
      BY <2>6
    <3>2. data \in Seq(Nat)
      BY <2>6
    <3>3. \A id : /\ Frame(id, data).data \in Seq(Nat) /\ Len(Frame(id, data).data) = 8
                  /\ \A i \in 1..Len(data) : Frame(id, data).data[i] = data[i]
      BY <3>1, <3>2, FrameData
    <3>4. /\ frame.data \in Seq(Nat) /\ Len(frame.data) = 8
          /\ \A i \in 1..Len(data) : frame.data[i] = data[i]
      BY <2>4, <3>3
    <3> QED BY <2>6, <3>1, <3>4
  <2> DEFINE filled == frame.data
  <2>8. bytes = SubSeq(filled, 1, 4) /\ filled \in Seq(Nat) /\ Len(filled) >= 4
    BY <2>5, <2>7
  <2>9. filled[3] = a /\ filled[4] = b
    BY <2>7
  <2> HIDE DEF filled
  <2>10. \A i \in 1..4 : bytes[i] = filled[i]
    BY <2>8, FourBytes
  <2> QED BY <2>9, <2>10
<1> HIDE DEF bytes
<1>7. RadToCounts(p)[3] = a /\ RadToCounts(p)[4] = b
  BY <1>5
<1>8. CountsToRad(bytes) = p <=> p \in MinInt16..MaxInt16
  BY <1>2, <1>6, <1>7, ThereAndBack
<1> HIDE DEF a, b
<1> QED BY <1>3, <1>8 DEF TargetArrives
-----------------------------------------------------------------------------
(* An SDO transaction.                                                      *)

LEMMA ObjectIs ==
  ASSUME NEW k \in Objects
  PROVE  \E x, y, z \in Nat : k = <<<<x, y>>, z>>
<1>1. PICK index \in {RPDO1_MAP, TPDO1_MAP, CONTROL, STATUS}, z \in {0, 1} : k = <<index, z>>
  BY DEF Objects
<1>2. \E x, y \in Nat : index = <<x, y>>
  BY DEF RPDO1_MAP, TPDO1_MAP, CONTROL, STATUS
<1> QED BY <1>1, <1>2

\* Bytes two to four of a request are the object's index and subindex.
LEMMA ReadBytes ==
  ASSUME NEW n, NEW x \in Nat, NEW y \in Nat, NEW z \in Nat
  PROVE  LET data == SdoReadFrame(n, <<<<x, y>>, z>>).data
         IN /\ data \in Seq(Nat) /\ Len(data) = 8
            /\ data[2] = x /\ data[3] = y /\ data[4] = z
<1> DEFINE head == <<64>> \o <<x, y>>
           key == head \o <<z>>
           bytes == key \o Zeros(4)
           data == Frame(RSDO + n, bytes).data
<1>1. SdoReadFrame(n, <<<<x, y>>, z>>) = Frame(RSDO + n, bytes)
  BY DEF SdoReadFrame
<1>2. /\ head \in Seq(Nat) /\ Len(head) = 3 /\ head[2] = x /\ head[3] = y
  <2>1. <<64>> \in Seq(Nat) /\ Len(<<64>>) = 1
    OBVIOUS
  <2>2. <<x, y>> \in Seq(Nat) /\ Len(<<x, y>>) = 2 /\ <<x, y>>[1] = x /\ <<x, y>>[2] = y
    OBVIOUS
  <2> QED BY <2>1, <2>2, Concatenated
<1> HIDE DEF head
<1>3. /\ key \in Seq(Nat) /\ Len(key) = 4 /\ key[2] = x /\ key[3] = y /\ key[4] = z
  <2>1. /\ key \in Seq(Nat) /\ Len(key) = Len(head) + 1 /\ key[Len(head) + 1] = z
        /\ \A i \in 1..Len(head) : key[i] = head[i]
    BY <1>2, OneMore
  <2> HIDE DEF key
  <2> QED BY <1>2, <2>1
<1> HIDE DEF key
<1>4. /\ bytes \in Seq(Nat) /\ Len(bytes) = 8
      /\ bytes[2] = x /\ bytes[3] = y /\ bytes[4] = z
  <2> DEFINE zeros == Zeros(4)
  <2>1. zeros \in Seq(Nat) /\ Len(zeros) = 4
    BY ZerosAre
  <2> HIDE DEF zeros
  <2>2. /\ key \o zeros \in Seq(Nat) /\ Len(key \o zeros) = Len(key) + Len(zeros)
        /\ \A i \in 1..Len(key) : (key \o zeros)[i] = key[i]
    BY <1>3, <2>1, Concatenated
  <2>3. bytes = key \o zeros
    BY DEF zeros
  <2> HIDE DEF bytes
  <2> QED BY <1>3, <2>1, <2>2, <2>3
<1> HIDE DEF bytes
<1>5. /\ data \in Seq(Nat) /\ Len(data) = 8
      /\ data[2] = x /\ data[3] = y /\ data[4] = z
  <2>1. Len(bytes) <= 8 /\ \A i \in 2..4 : i \in 1..Len(bytes)
    BY <1>4
  <2> HIDE DEF data
  <2>2. /\ data \in Seq(Nat) /\ Len(data) = 8 /\ \A i \in 1..Len(bytes) : data[i] = bytes[i]
    BY <1>4, <2>1, FrameData DEF data
  <2> QED BY <1>4, <2>1, <2>2
<1> QED BY <1>1, <1>5

\* The object read out of such bytes.
LEMMA KeyIs ==
  ASSUME NEW data \in Seq(Nat), Len(data) = 8,
         NEW x \in Nat, NEW y \in Nat, NEW z \in Nat,
         data[2] = x, data[3] = y, data[4] = z
  PROVE  <<GetLe(data, 1, 2), data[4]>> = <<<<x, y>>, z>>
<1>1. GetLe(data, 1, 2) = SubSeq(data, 2, 3)
  BY DEF GetLe
<1> DEFINE s == SubSeq(data, 2, 3)
<1>2. s \in Seq(Nat) /\ Len(s) = 2 /\ s[1] = x /\ s[2] = y
  OBVIOUS
<1> HIDE DEF s
<1>3. s = <<x, y>>
  BY <1>2, TwoBytes
<1> QED BY <1>1, <1>3 DEF s

LEMMA RequestIs ==
  ASSUME NEW n \in PxxNodes, NEW k \in Objects
  PROVE  RequestOf(SdoReadFrame(n, k)) = [node |-> n, key |-> k]
<1>1. PICK x, y, z \in Nat : k = <<<<x, y>>, z>>
  BY ObjectIs
<1> DEFINE frame == SdoReadFrame(n, k)
           data == frame.data
<1>2. /\ data \in Seq(Nat) /\ Len(data) = 8
      /\ data[2] = x /\ data[3] = y /\ data[4] = z
  BY <1>1, ReadBytes
<1>3. frame.id = RSDO + n
  BY FrameHead DEF SdoReadFrame
<1>4. NodeOf(RSDO + n) = n
  BY CobId DEF PxxNodes
<1> HIDE DEF data
<1>5. <<GetLe(data, 1, 2), data[4]>> = k
  BY <1>1, <1>2, KeyIs
<1>6. RequestOf(frame) = [node |-> NodeOf(frame.id), key |-> <<GetLe(data, 1, 2), data[4]>>]
  BY DEF RequestOf, data
<1> HIDE DEF frame
<1> QED BY <1>3, <1>4, <1>5, <1>6 DEF frame

LEMMA WordIs ==
  ASSUME NEW word \in Words
  PROVE  word \in Seq(Nat) /\ Len(word) = 4
<1>1. \E a, b, c, d \in Nat : word = <<a, b, c, d>>
  BY DEF Words
<1> QED BY <1>1

LEMMA ResponseIs ==
  ASSUME NEW n \in PxxNodes, NEW k \in Objects, NEW word \in Words, NEW code \in Nat,
         NEW response, response = Response(SdoReadFrame(n, k), code, word)
  PROVE  /\ Taken(response) = "response"
         /\ ParseSdoResponse(response) =
              [node |-> n, key |-> k, aborted |-> code = 128, value |-> word]
<1>1. PICK x, y, z \in Nat : k = <<<<x, y>>, z>>
  BY ObjectIs
<1> DEFINE request == SdoReadFrame(n, k).data
           echo == SubSeq(request, 2, 4)
           head == <<code>> \o echo
           bytes == head \o word
           data == response.data
<1>2. /\ request \in Seq(Nat) /\ Len(request) = 8
      /\ request[2] = x /\ request[3] = y /\ request[4] = z
  <2>1. request = SdoReadFrame(n, <<<<x, y>>, z>>).data
    BY <1>1
  <2> QED BY <2>1, ReadBytes
<1>3. NodeOf(SdoReadFrame(n, k).id) = n
  <2>1. SdoReadFrame(n, k).id = RSDO + n
    BY FrameHead DEF SdoReadFrame
  <2> QED BY <2>1, CobId DEF PxxNodes
<1>4. response = Frame(TSDO + n, bytes)
  BY <1>3 DEF Response
<1> HIDE DEF request
<1>5. /\ echo \in Seq(Nat) /\ Len(echo) = 3 /\ echo[1] = x /\ echo[2] = y /\ echo[3] = z
  BY <1>2
<1> HIDE DEF echo
<1>6. /\ head \in Seq(Nat) /\ Len(head) = 4
      /\ head[1] = code /\ head[2] = x /\ head[3] = y /\ head[4] = z
  <2>1. /\ head \in Seq(Nat) /\ Len(head) = Len(echo) + 1 /\ head[1] = code
        /\ \A i \in 1..Len(echo) : head[1 + i] = echo[i]
    BY <1>5, OneBefore
  <2> HIDE DEF head
  <2> QED BY <1>5, <2>1
<1> HIDE DEF head
<1>7. word \in Seq(Nat) /\ Len(word) = 4
  BY WordIs
<1>8. /\ bytes \in Seq(Nat) /\ Len(bytes) = 8
      /\ bytes[1] = code /\ bytes[2] = x /\ bytes[3] = y /\ bytes[4] = z
      /\ \A i \in 1..4 : bytes[4 + i] = word[i]
  <2>1. /\ bytes \in Seq(Nat) /\ Len(bytes) = Len(head) + Len(word)
        /\ \A i \in 1..Len(head) : bytes[i] = head[i]
        /\ \A i \in 1..Len(word) : bytes[Len(head) + i] = word[i]
    BY <1>6, <1>7, Concatenated
  <2> HIDE DEF bytes
  <2> QED BY <1>6, <1>7, <2>1
<1> HIDE DEF bytes
<1>9. /\ data \in Seq(Nat) /\ Len(data) = 8 /\ \A i \in 1..8 : data[i] = bytes[i]
  <2>1. /\ Frame(TSDO + n, bytes).data \in Seq(Nat) /\ Len(Frame(TSDO + n, bytes).data) = 8
        /\ \A i \in 1..Len(bytes) : Frame(TSDO + n, bytes).data[i] = bytes[i]
    <3>1. Len(bytes) <= 8
      BY <1>8
    <3> QED BY <1>8, <3>1, FrameData
  <2> QED BY <1>4, <1>8, <2>1
<1>10. response.id = TSDO + n /\ response.length = 8 /\ response.extended = FALSE
  <2>1. /\ Frame(TSDO + n, bytes).id = TSDO + n /\ Frame(TSDO + n, bytes).length = Len(bytes)
        /\ Frame(TSDO + n, bytes).extended = FALSE
    BY FrameHead
  <2> QED BY <1>4, <1>8, <2>1
<1>11. FunctionOf(TSDO + n) = TSDO /\ NodeOf(TSDO + n) = n
  BY CobId DEF PxxNodes
<1>12. Taken(response) = "response"
  <2>1. response.length >= 8
    BY <1>10
  <2>2. FunctionOf(response.id) = TSDO
    BY <1>10, <1>11
  <2> QED BY <1>10, <2>1, <2>2, TakenIs
<1> HIDE DEF data
<1>13. <<GetLe(data, 1, 2), data[4]>> = k
  BY <1>1, <1>8, <1>9, KeyIs
<1>14. GetLe(data, 4, 4) = word
  <2> DEFINE s == SubSeq(data, 5, 8)
  <2>1. s \in Seq(Nat) /\ Len(s) = 4 /\ \A i \in 1..4 : s[i] = data[4 + i]
    <3>1. data \in Seq(Nat) /\ Len(data) = 8
      BY <1>9
    <3> QED BY <3>1, LastFour
  <2>2. GetLe(data, 4, 4) = s
    BY DEF GetLe
  <2> HIDE DEF s
  <2>3. \A i \in 1..4 : s[i] = word[i]
    BY <1>8, <1>9, <2>1
  <2>4. s = word
    BY <1>7, <2>1, <2>3, SameBytes
  <2> QED BY <2>2, <2>4
<1>15. data[1] = code
  BY <1>8, <1>9
<1>16. ParseSdoResponse(response) =
         [node |-> NodeOf(response.id), key |-> <<GetLe(data, 1, 2), data[4]>>,
          aborted |-> data[1] = 128, value |-> GetLe(data, 4, 4)]
  BY DEF ParseSdoResponse, data
<1> QED BY <1>10, <1>11, <1>12, <1>13, <1>14, <1>15, <1>16

LEMMA AskStep ==
  ASSUME Ask
  PROVE  EchoIsOwn'
<1>1. PICK n \in NodeNumbers \intersect PxxNodes, o \in NodeNumbers \intersect PxxNodes,
           k \in Objects, l \in Objects, word \in Words, code \in {67, 96, 128} :
        Calling([name |-> "sdo_transaction", node |-> n, key |-> k, word |-> word],
                [response |-> Response(SdoReadFrame(n, k), code, word), code |-> code,
                 awaited |-> SdoReadFrame(o, l), own |-> n = o /\ k = l])
  BY DEF Ask
<1> DEFINE response == Response(SdoReadFrame(n, k), code, word)
           awaited == SdoReadFrame(o, l)
           parsed == ParseSdoResponse(response)
<1>2. /\ Taken(response) = "response"
      /\ parsed = [node |-> n, key |-> k, aborted |-> code = 128, value |-> word]
  BY ResponseIs
<1>3. RequestOf(awaited) = [node |-> o, key |-> l]
  BY RequestIs
<1>4. /\ outcome'.response = response /\ outcome'.code = code
      /\ outcome'.awaited = awaited /\ (outcome'.own <=> n = o /\ k = l)
      /\ call'.word = word
  BY <1>1 DEF Calling
<1> HIDE DEF response, awaited, parsed
<1>5. Matches(awaited, parsed) <=> n = o /\ k = l
  BY <1>2, <1>3 DEF Matches
<1>6. parsed.value = word /\ (parsed.aborted <=> code = 128)
  BY <1>2
<1>7. parsed = ParseSdoResponse(outcome'.response)
  BY <1>4 DEF parsed
<1> QED BY <1>2, <1>4, <1>5, <1>6, <1>7 DEF EchoIsOwn
-----------------------------------------------------------------------------
(* configure_node().                                                        *)

LEMMA Joined ==
  ASSUME NEW S, NEW s \in Seq(S), NEW t \in Seq(S)
  PROVE  /\ s \o t \in Seq(S) /\ Len(s \o t) = Len(s) + Len(t)
         /\ \A i \in 1..Len(s) : (s \o t)[i] = s[i]
         /\ \A i \in 1..Len(t) : (s \o t)[Len(s) + i] = t[i]
OBVIOUS

\* A word no longer than it is written.
Fits(word, size) ==
  /\ word \in Seq(Nat) /\ Len(word) = 4 /\ size \in {1, 2, 4}
  /\ \A i \in 1..4 : i > size => word[i] = 0

\* A word as short as it is written arrives whole in its object.
LEMMA WordKept ==
  ASSUME NEW n, NEW x \in Nat, NEW y \in Nat, NEW z \in Nat, NEW key, key = <<<<x, y>>, z>>,
         NEW word, NEW size, Fits(word, size),
         NEW od, key \in DOMAIN od
  PROVE  Stored(od, SdoWriteFrame(n, key, word, size))[key] = word
<1> DEFINE code == 35 + 4 * (4 - size)
           head == <<code>> \o <<x, y>>
           object == head \o <<z>>
           put == SubSeq(word, 1, size)
           fill == Zeros(4 - size)
           front == object \o put
           bytes == front \o fill
           data == Frame(RSDO + n, bytes).data
           got == SubSeq(data, 5, 4 + size)
<1>0. /\ word \in Seq(Nat) /\ Len(word) = 4 /\ size \in {1, 2, 4}
      /\ \A i \in 1..4 : i > size => word[i] = 0
  BY DEF Fits
<1>1. SdoWriteFrame(n, key, word, size) = Frame(RSDO + n, bytes)
  BY DEF SdoWriteFrame, PutLe
<1>2. code \in Nat /\ 4 - ((code \div 4) % 4) = size /\ size \in Nat /\ 4 - size \in Nat
      /\ 1 <= size /\ size <= 4
  <2>1. CASE size = 1
    BY <2>1
  <2>2. CASE size = 2
    BY <2>2
  <2>3. CASE size = 4
    BY <2>3
  <2> QED BY <1>0, <2>1, <2>2, <2>3
<1> HIDE DEF code
<1>3. /\ head \in Seq(Nat) /\ Len(head) = 3 /\ head[1] = code /\ head[2] = x /\ head[3] = y
  <2>1. <<code>> \in Seq(Nat) /\ Len(<<code>>) = 1 /\ <<code>>[1] = code
    BY <1>0, <1>2
  <2>2. <<x, y>> \in Seq(Nat) /\ Len(<<x, y>>) = 2 /\ <<x, y>>[1] = x /\ <<x, y>>[2] = y
    OBVIOUS
  <2> QED BY <2>1, <2>2, Concatenated
<1> HIDE DEF head
<1>4. /\ object \in Seq(Nat) /\ Len(object) = 4 /\ object[1] = code
      /\ object[2] = x /\ object[3] = y /\ object[4] = z
  <2>1. /\ object \in Seq(Nat) /\ Len(object) = Len(head) + 1 /\ object[Len(head) + 1] = z
        /\ \A i \in 1..Len(head) : object[i] = head[i]
    BY <1>3, OneMore
  <2> HIDE DEF object
  <2> QED BY <1>3, <2>1
<1> HIDE DEF object
<1>5. /\ put \in Seq(Nat) /\ Len(put) = size /\ \A i \in 1..size : put[i] = word[i]
  <2>1. /\ put \in Seq(Nat) /\ Len(put) = size - 1 + 1
        /\ \A i \in 1..(size - 1 + 1) : put[i] = word[1 + i - 1]
    <3>1. 1 \in Nat /\ 1 > 0 /\ size <= Len(word)
      BY <1>0, <1>2
    <3> QED BY <1>0, <1>2, <3>1, SubBytes
  <2> HIDE DEF put
  <2>2. \A i \in 1..size : i \in 1..(size - 1 + 1) /\ 1 + i - 1 = i
    BY <1>0, <1>2
  <2> QED BY <1>0, <1>2, <2>1, <2>2
<1> HIDE DEF put
<1>6. fill \in Seq(Nat) /\ Len(fill) = 4 - size /\ \A i \in 1..(4 - size) : fill[i] = 0
  BY <1>0, <1>2, ZerosAre
<1> HIDE DEF fill
<1>7. /\ front \in Seq(Nat) /\ Len(front) = 4 + size
      /\ front[1] = code /\ front[2] = x /\ front[3] = y /\ front[4] = z
      /\ \A i \in 1..size : front[4 + i] = put[i]
  <2>1. /\ front \in Seq(Nat) /\ Len(front) = Len(object) + Len(put)
        /\ \A i \in 1..Len(object) : front[i] = object[i]
        /\ \A i \in 1..Len(put) : front[Len(object) + i] = put[i]
    BY <1>4, <1>5, Concatenated
  <2> HIDE DEF front
  <2> QED BY <1>4, <1>5, <2>1
<1> HIDE DEF front
<1>8. /\ bytes \in Seq(Nat) /\ Len(bytes) = 8 /\ \A i \in 1..(4 + size) : bytes[i] = front[i]
  <2>1. /\ bytes \in Seq(Nat) /\ Len(bytes) = Len(front) + Len(fill)
        /\ \A i \in 1..Len(front) : bytes[i] = front[i]
    BY <1>6, <1>7, Concatenated
  <2> HIDE DEF bytes
  <2> QED BY <1>0, <1>2, <1>6, <1>7, <2>1
<1> HIDE DEF bytes
<1>9. /\ data \in Seq(Nat) /\ Len(data) = 8 /\ \A i \in 1..8 : data[i] = bytes[i]
  <2>1. Len(bytes) <= 8
    BY <1>8
  <2>2. /\ data \in Seq(Nat) /\ Len(data) = 8 /\ \A i \in 1..Len(bytes) : data[i] = bytes[i]
    BY <1>8, <2>1, FrameData
  <2> HIDE DEF data
  <2> QED BY <1>8, <2>2
<1> HIDE DEF data
<1>10. /\ data[1] = code /\ data[2] = x /\ data[3] = y /\ data[4] = z
       /\ \A i \in 1..size : data[4 + i] = word[i]
  <2>0. \A i \in 1..(4 + size) : i \in 1..8
    BY <1>0, <1>2
  <2>1. \A i \in 1..(4 + size) : data[i] = front[i]
    BY <2>0, <1>8, <1>9
  <2>2. 1 \in 1..(4 + size) /\ 2 \in 1..(4 + size) /\ 3 \in 1..(4 + size) /\ 4 \in 1..(4 + size)
    BY <1>0, <1>2
  <2>3. \A i \in 1..size : 4 + i \in 1..(4 + size)
    BY <1>0, <1>2
  <2> QED BY <1>5, <1>7, <2>1, <2>2, <2>3
<1>11. <<GetLe(data, 1, 2), data[4]>> = key
  BY <1>9, <1>10, KeyIs
<1>12. /\ got \in Seq(Nat) /\ Len(got) = size /\ \A i \in 1..size : got[i] = word[i]
  <2>1. /\ 5 \in Nat /\ 4 + size \in Nat /\ 5 > 0 /\ 5 <= 4 + size /\ 4 + size <= Len(data)
    BY <1>0, <1>2, <1>9
  <2>2. /\ got \in Seq(Nat) /\ Len(got) = 4 + size - 5 + 1
        /\ \A i \in 1..(4 + size - 5 + 1) : got[i] = data[5 + i - 1]
    <3>1. PICK m \in Nat : m = 4 + size
      BY <2>1
    <3>2. /\ SubSeq(data, 5, m) \in Seq(Nat) /\ Len(SubSeq(data, 5, m)) = m - 5 + 1
          /\ \A i \in 1..(m - 5 + 1) : SubSeq(data, 5, m)[i] = data[5 + i - 1]
      BY <1>9, <2>1, <3>1, SubBytes
    <3>3. got = SubSeq(data, 5, m)
      BY <3>1, Zenon
    <3>4. m - 5 + 1 = 4 + size - 5 + 1
      BY <1>2, <3>1
    <3> HIDE DEF got
    <3> QED BY <3>2, <3>3, <3>4
  <2> HIDE DEF got
  <2>3. 4 + size - 5 + 1 = size /\ \A i \in 1..size : 5 + i - 1 = 4 + i
    BY <1>0, <1>2
  <2>4. \A i \in 1..size : got[i] = data[4 + i]
    BY <2>2, <2>3
  <2> QED BY <1>10, <2>2, <2>3, <2>4
<1>13. GetLe(data, 4, size) = got
  BY DEF GetLe
<1> HIDE DEF got
<1>14. got \o fill = word
  <2>1. /\ got \o fill \in Seq(Nat) /\ Len(got \o fill) = Len(got) + Len(fill)
        /\ \A i \in 1..Len(got) : (got \o fill)[i] = got[i]
        /\ \A i \in 1..Len(fill) : (got \o fill)[Len(got) + i] = fill[i]
    BY <1>6, <1>12, Concatenated
  <2> DEFINE all == got \o fill
  <2>2. all \in Seq(Nat) /\ Len(all) = 4
    BY <1>0, <1>2, <1>6, <1>12, <2>1
  <2> HIDE DEF all
  <2>3. ASSUME NEW i \in 1..4
        PROVE  all[i] = word[i]
    <3>1. CASE i <= size
      BY <1>0, <1>2, <1>12, <2>1, <3>1 DEF all
    <3>2. CASE i > size
      <4>1. i - size \in 1..(4 - size) /\ size + (i - size) = i
        BY <1>0, <1>2, <3>2
      <4>2. all[i] = fill[i - size]
        BY <1>6, <1>12, <2>1, <4>1 DEF all
      <4> QED BY <1>0, <1>6, <3>2, <4>1, <4>2
    <3> QED BY <1>0, <1>2, <3>1, <3>2
  <2>4. all = word
    BY <1>0, <2>2, <2>3, SameBytes
  <2> QED BY <2>4 DEF all
<1>15. Stored(od, Frame(RSDO + n, bytes)) = [od EXCEPT ![key] = got \o fill]
  <2>1. 4 - ((data[1] \div 4) % 4) = size
    BY <1>0, <1>2, <1>10
  <2>2. Frame(RSDO + n, bytes).data = data
    BY DEF data
  <2>3. Stored(od, Frame(RSDO + n, bytes)) =
          [od EXCEPT ![<<GetLe(data, 1, 2), data[4]>>] =
             GetLe(data, 4, 4 - ((data[1] \div 4) % 4))
               \o Zeros(4 - (4 - ((data[1] \div 4) % 4)))]
    BY <2>2 DEF Stored
  <2> QED BY <1>11, <1>13, <2>1, <2>3 DEF fill
<1> QED BY <1>1, <1>14, <1>15

LEMMA MaxIs ==
  ASSUME NEW S, S \subseteq Nat, NEW m \in S, \A i \in S : i <= m
  PROVE  Max(S) = m
<1>1. \E x \in S : \A y \in S : x >= y
  OBVIOUS
<1>2. Max(S) \in S /\ \A y \in S : Max(S) >= y
  BY <1>1, Zenon DEF Max
<1>3. PICK x \in S : x = Max(S)
  BY <1>2
<1>4. x >= m /\ m >= x
  BY <1>2, <1>3
<1> QED BY <1>3, <1>4

IsObject(key) == \E x, y, z \in Nat : key = <<<<x, y>>, z>>

\* The i-th write is this one, and no later one is to the same object.
WrittenAt(n, i, key, word, size) ==
  /\ i \in DOMAIN Writes(n) /\ DOMAIN Writes(n) \subseteq Nat
  /\ Writes(n)[i][1] = key[1] /\ Writes(n)[i][2] = key[2]
  /\ Writes(n)[i][3] = word /\ Writes(n)[i][4] = size

NoneLater(n, i, key) ==
  \A j \in DOMAIN Writes(n) : j > i => <<Writes(n)[j][1], Writes(n)[j][2]>> # key

\* What no later write is to stays as it was written.
LEMMA LastStays ==
  ASSUME NEW n, NEW od, NEW i, NEW key, NEW word, NEW size,
         IsObject(key), key \in DOMAIN od, Fits(word, size),
         WrittenAt(n, i, key, word, size), NoneLater(n, i, key)
  PROVE  Configured(od, n)[key] = word
<1>a. PICK x, y, z \in Nat : key = <<<<x, y>>, z>>
  BY DEF IsObject
<1>b. /\ i \in DOMAIN Writes(n) /\ DOMAIN Writes(n) \subseteq Nat
      /\ <<Writes(n)[i][1], Writes(n)[i][2]>> = key
      /\ Writes(n)[i][3] = word /\ Writes(n)[i][4] = size
  BY <1>a DEF WrittenAt
<1> DEFINE W == Writes(n)
           To == { j \in DOMAIN W : <<W[j][1], W[j][2]>> = key }
<1>1. i \in To /\ To \subseteq Nat /\ \A j \in To : j <= i
  <2>1. i \in To
    BY <1>b
  <2>2. To \subseteq Nat /\ i \in Nat
    BY <1>b
  <2>3. ASSUME NEW j \in To
        PROVE  j <= i
    <3>1. j \in DOMAIN W /\ <<W[j][1], W[j][2]>> = key
      OBVIOUS
    <3>2. ~(j > i)
      BY <3>1 DEF NoneLater
    <3>3. j \in Nat /\ i \in Nat
      BY <2>2
    <3> QED BY <3>2, <3>3
  <2> HIDE DEF To
  <2> QED BY <2>1, <2>2, <2>3
<1>2. Max(To) = i
  <2> HIDE DEF To
  <2> QED BY <1>1, MaxIs
<1>3. Configured(od, n)[key] =
        IF To = {} THEN od[key]
        ELSE Stored(od, SdoWriteFrame(n, <<W[Max(To)][1], W[Max(To)][2]>>,
                                      W[Max(To)][3], W[Max(To)][4]))[key]
  BY DEF Configured
<1>4. To # {}
  BY <1>1
<1> HIDE DEF To
<1>5. Configured(od, n)[key] = Stored(od, SdoWriteFrame(n, key, word, size))[key]
  BY <1>b, <1>2, <1>3, <1>4
<1>6. Stored(od, SdoWriteFrame(n, key, word, size))[key] = word
  <2> HIDE DEF W
  <2> QED BY <1>a, WordKept
<1> QED BY <1>5, <1>6

\* What the words of configure_node() hold.
LEMMA SmallIs ==
  ASSUME NEW n \in Nat
  PROVE  /\ Small(n) \in Seq(Nat) /\ Len(Small(n)) = 4
         /\ Small(n)[1] = n % 256 /\ Small(n)[2] = n \div 256
         /\ Small(n)[3] = 0 /\ Small(n)[4] = 0
<1>1. n % 256 \in Nat /\ n \div 256 \in Nat
  OBVIOUS
<1> QED BY <1>1 DEF Small

LEMMA EntryIs ==
  ASSUME NEW x \in Nat, NEW y \in Nat, NEW bits \in Nat
  PROVE  LET e == PdoMapEntry(<<x, y>>, 0, bits)
         IN /\ e \in Seq(Nat) /\ Len(e) = 4 /\ e[1] = bits /\ e[2] = 0
            /\ SubSeq(e, 3, 4) = <<x, y>>
<1> DEFINE e == <<bits, 0>> \o <<x, y>>
           s == SubSeq(e, 3, 4)
<1>1. /\ e \in Seq(Nat) /\ Len(e) = 4 /\ e[1] = bits /\ e[2] = 0 /\ e[3] = x /\ e[4] = y
  <2>1. <<bits, 0>> \in Seq(Nat) /\ Len(<<bits, 0>>) = 2
    OBVIOUS
  <2>2. <<x, y>> \in Seq(Nat) /\ Len(<<x, y>>) = 2
    OBVIOUS
  <2> QED BY <2>1, <2>2, Concatenated
<1> HIDE DEF e
<1>2. s \in Seq(Nat) /\ Len(s) = 2 /\ s[1] = x /\ s[2] = y
  BY <1>1
<1> HIDE DEF s
<1>3. s = <<x, y>>
  BY <1>2, TwoBytes
<1> QED BY <1>1, <1>3 DEF e, s, PdoMapEntry

LEMMA IndexIs ==
  ASSUME NEW index \in Indexes
  PROVE  \E x, y \in Nat : index = <<x, y>>
BY DEF Indexes, RPDO1_COMM, RPDO1_MAP, TPDO1_COMM, TPDO2_COMM, TPDO1_MAP, TPDO2_MAP,
       CONTROL, STATUS, MODE, POSITION, VELOCITY, TARGET

LEMMA EntryOf ==
  ASSUME NEW index \in Indexes, NEW bits \in Nat
  PROVE  /\ PdoMapEntry(index, 0, bits) \in Seq(Nat)
         /\ Len(PdoMapEntry(index, 0, bits)) = 4
         /\ PdoMapEntry(index, 0, bits)[1] = bits /\ PdoMapEntry(index, 0, bits)[2] = 0
         /\ SubSeq(PdoMapEntry(index, 0, bits), 3, 4) = index
<1>1. PICK x, y \in Nat : index = <<x, y>>
  BY IndexIs
<1> DEFINE e == PdoMapEntry(<<x, y>>, 0, bits)
<1>2. /\ e \in Seq(Nat) /\ Len(e) = 4 /\ e[1] = bits /\ e[2] = 0
      /\ SubSeq(e, 3, 4) = <<x, y>>
  BY <1>1, EntryIs
<1>3. e = PdoMapEntry(index, 0, bits)
  BY <1>1, Zenon
<1> HIDE DEF e
<1> QED BY <1>1, <1>2, <1>3

\* The writes that remap a PDO, in their order.
IsRemapping(R, comm, map, id, entries, n) ==
  /\ DOMAIN R = 1..(n + 5)
  /\ R[1] = <<comm, 1, Disabled(id), 4>>
  /\ R[2] = <<map, 0, Small(0), 1>>
  /\ \A i \in 1..n : R[2 + i] = <<map, i, entries[i], 4>>
  /\ R[n + 3] = <<map, 0, Small(n), 1>>
  /\ R[n + 4] = <<comm, 2, Small(1), 1>>
  /\ R[n + 5] = <<comm, 1, Cob(id), 4>>
  /\ \E S : R \in Seq(S)
  /\ \A i \in DOMAIN R : R[i][1] \in {comm, map}

LEMMA RemappingIs ==
  ASSUME NEW comm, NEW map, NEW id, NEW entries \in Seq(Seq(Nat)), Len(entries) \in 1..2
  PROVE  IsRemapping(Remapping(comm, map, id, entries), comm, map, id, entries, Len(entries))
<1> DEFINE n == Len(entries)
           a == <<comm, 1, Disabled(id), 4>>
           b == <<map, 0, Small(0), 1>>
           c == <<map, 0, Small(n), 1>>
           d == <<comm, 2, Small(1), 1>>
           e == <<comm, 1, Cob(id), 4>>
           M == [i \in 1..n |-> <<map, i, entries[i], 4>>]
           S == {a, b, c, d, e} \union { M[i] : i \in 1..n }
           P == <<a, b>>
           Q == <<c, d, e>>
           R == Remapping(comm, map, id, entries)
<1>1. R = (P \o M) \o Q
  BY DEF Remapping
<1>2. n \in 1..2
  OBVIOUS
<1>3. M \in Seq(S) /\ Len(M) = n
  <2>1. \A i \in 1..n : M[i] \in S
    OBVIOUS
  <2> HIDE DEF S
  <2>2. M \in [1..n -> S] /\ n \in Nat
    BY <1>2, <2>1
  <2> QED BY <2>2
<1>4. a \in S /\ b \in S /\ c \in S /\ d \in S /\ e \in S
  OBVIOUS
<1>5. \A i \in 1..n : M[i] = <<map, i, entries[i], 4>>
  OBVIOUS
<1> HIDE DEF a, b, c, d, e, M, S, n, R
<1>6. P \in Seq(S) /\ Len(P) = 2 /\ P[1] = a /\ P[2] = b
  BY <1>4
<1>7. Q \in Seq(S) /\ Len(Q) = 3 /\ Q[1] = c /\ Q[2] = d /\ Q[3] = e
  BY <1>4
<1> HIDE DEF P, Q
<1> DEFINE T == P \o M
<1>8. /\ T \in Seq(S) /\ Len(T) = 2 + n /\ T[1] = a /\ T[2] = b
      /\ \A i \in 1..n : T[2 + i] = M[i]
  <2>1. /\ T \in Seq(S) /\ Len(T) = Len(P) + Len(M)
        /\ \A i \in 1..Len(P) : T[i] = P[i]
        /\ \A i \in 1..Len(M) : T[Len(P) + i] = M[i]
    <3>1. P \in Seq(S) /\ M \in Seq(S)
      BY <1>3, <1>6
    <3> HIDE DEF T
    <3>2. /\ P \o M \in Seq(S) /\ Len(P \o M) = Len(P) + Len(M)
          /\ \A i \in 1..Len(P) : (P \o M)[i] = P[i]
          /\ \A i \in 1..Len(M) : (P \o M)[Len(P) + i] = M[i]
      BY <3>1, Joined
    <3> QED BY <3>2 DEF T
  <2> HIDE DEF T
  <2> QED BY <1>3, <1>6, <2>1
<1>9. R = T \o Q
  BY <1>1
<1> HIDE DEF T
<1>10. /\ R \in Seq(S) /\ Len(R) = Len(T) + Len(Q)
       /\ \A i \in 1..Len(T) : R[i] = T[i]
       /\ \A i \in 1..Len(Q) : R[Len(T) + i] = Q[i]
  <2>1. T \in Seq(S) /\ Q \in Seq(S)
    BY <1>7, <1>8
  <2>2. /\ T \o Q \in Seq(S) /\ Len(T \o Q) = Len(T) + Len(Q)
        /\ \A i \in 1..Len(T) : (T \o Q)[i] = T[i]
        /\ \A i \in 1..Len(Q) : (T \o Q)[Len(T) + i] = Q[i]
    BY <2>1, Joined
  <2> QED BY <1>9, <2>2
<1>11. DOMAIN R = 1..(n + 5)
  <2>1. Len(R) = n + 5
    BY <1>2, <1>7, <1>8, <1>10
  <2> QED BY <1>10, <2>1
<1>12. R[1] = a /\ R[2] = b
  BY <1>2, <1>8, <1>10
<1>13. \A i \in 1..n : R[2 + i] = <<map, i, entries[i], 4>>
  <2>1. \A i \in 1..n : 2 + i \in 1..Len(T)
    BY <1>2, <1>8
  <2> QED BY <1>5, <1>8, <1>10, <2>1
<1>14. R[n + 3] = c /\ R[n + 4] = d /\ R[n + 5] = e
  <2>1. R[Len(T) + 1] = Q[1] /\ R[Len(T) + 2] = Q[2] /\ R[Len(T) + 3] = Q[3]
    BY <1>7, <1>10
  <2>2. Len(T) + 1 = n + 3 /\ Len(T) + 2 = n + 4 /\ Len(T) + 3 = n + 5
    BY <1>2, <1>8
  <2> QED BY <1>7, <2>1, <2>2
<1>15. ASSUME NEW i \in DOMAIN R
       PROVE  R[i][1] \in {comm, map}
  <2>1. i = 1 \/ i = 2 \/ i \in 3..(2 + n) \/ i = n + 3 \/ i = n + 4 \/ i = n + 5
    <3>1. i \in 1..(n + 5)
      BY <1>11
    <3>2. n = 1 \/ n = 2
      BY <1>2
    <3>3. CASE n = 1
      BY <3>1, <3>3
    <3>4. CASE n = 2
      BY <3>1, <3>4
    <3> QED BY <3>2, <3>3, <3>4
  <2>2. CASE i \in 3..(2 + n)
    <3>1. i - 2 \in 1..n /\ 2 + (i - 2) = i
      BY <1>2, <2>2
    <3> QED BY <1>13, <3>1
  <2>3. a[1] = comm /\ b[1] = map /\ c[1] = map /\ d[1] = comm /\ e[1] = comm
    BY DEF a, b, c, d, e
  <2> QED BY <1>12, <1>14, <2>1, <2>2, <2>3
<1>16. IsRemapping(R, comm, map, id, entries, n)
  BY <1>10, <1>11, <1>12, <1>13, <1>14, <1>15 DEF IsRemapping, a, b, c, d, e
<1> QED BY <1>16 DEF n, R

\* The three of a drive.
Commanding(n) == Remapping(RPDO1_COMM, RPDO1_MAP, RPDO1 + n, << PdoMapEntry(TARGET, 0, 32) >>)
Moving(n) == Remapping(TPDO1_COMM, TPDO1_MAP, TPDO1 + n,
                       << PdoMapEntry(POSITION, 0, 32), PdoMapEntry(VELOCITY, 0, 32) >>)
Reporting(n) == Remapping(TPDO2_COMM, TPDO2_MAP, TPDO2 + n, << PdoMapEntry(STATUS, 0, 16) >>)

LEMMA EntriesAre ==
  /\ << PdoMapEntry(TARGET, 0, 32) >> \in Seq(Seq(Nat))
  /\ << PdoMapEntry(POSITION, 0, 32), PdoMapEntry(VELOCITY, 0, 32) >> \in Seq(Seq(Nat))
  /\ << PdoMapEntry(STATUS, 0, 16) >> \in Seq(Seq(Nat))
<1>1. /\ PdoMapEntry(TARGET, 0, 32) \in Seq(Nat)
      /\ PdoMapEntry(POSITION, 0, 32) \in Seq(Nat) /\ PdoMapEntry(VELOCITY, 0, 32) \in Seq(Nat)
      /\ PdoMapEntry(STATUS, 0, 16) \in Seq(Nat)
  BY EntryIs DEF TARGET, POSITION, VELOCITY, STATUS
<1> QED BY <1>1

LEMMA PdosAre ==
  ASSUME NEW n
  PROVE  /\ IsRemapping(Commanding(n), RPDO1_COMM, RPDO1_MAP, RPDO1 + n,
                         << PdoMapEntry(TARGET, 0, 32) >>, 1)
         /\ IsRemapping(Moving(n), TPDO1_COMM, TPDO1_MAP, TPDO1 + n,
                         << PdoMapEntry(POSITION, 0, 32), PdoMapEntry(VELOCITY, 0, 32) >>, 2)
         /\ IsRemapping(Reporting(n), TPDO2_COMM, TPDO2_MAP, TPDO2 + n,
                         << PdoMapEntry(STATUS, 0, 16) >>, 1)
<1> DEFINE t == << PdoMapEntry(TARGET, 0, 32) >>
           m == << PdoMapEntry(POSITION, 0, 32), PdoMapEntry(VELOCITY, 0, 32) >>
           s == << PdoMapEntry(STATUS, 0, 16) >>
<1>1. Len(t) = 1 /\ Len(m) = 2 /\ Len(s) = 1
  OBVIOUS
<1>2. t \in Seq(Seq(Nat)) /\ m \in Seq(Seq(Nat)) /\ s \in Seq(Seq(Nat))
  BY EntriesAre, Zenon
<1>3. /\ Commanding(n) = Remapping(RPDO1_COMM, RPDO1_MAP, RPDO1 + n, t)
      /\ Moving(n) = Remapping(TPDO1_COMM, TPDO1_MAP, TPDO1 + n, m)
      /\ Reporting(n) = Remapping(TPDO2_COMM, TPDO2_MAP, TPDO2 + n, s)
  BY Zenon DEF Commanding, Moving, Reporting
<1> HIDE DEF t, m, s
<1>4. Len(t) \in 1..2 /\ Len(m) \in 1..2 /\ Len(s) \in 1..2
  BY <1>1
<1>5. /\ IsRemapping(Commanding(n), RPDO1_COMM, RPDO1_MAP, RPDO1 + n, t, Len(t))
      /\ IsRemapping(Moving(n), TPDO1_COMM, TPDO1_MAP, TPDO1 + n, m, Len(m))
      /\ IsRemapping(Reporting(n), TPDO2_COMM, TPDO2_MAP, TPDO2 + n, s, Len(s))
  BY <1>2, <1>3, <1>4, RemappingIs
<1> QED BY <1>1, <1>5 DEF t, m, s

LEMMA Wider ==
  ASSUME NEW S, NEW T, S \subseteq T, NEW s \in Seq(S)
  PROVE  s \in Seq(T)
OBVIOUS

LEMMA WritesAre ==
  ASSUME NEW n
  PROVE  LET W == Writes(n)
         IN /\ DOMAIN W = 1..21
            /\ \A i \in 1..6 : W[2 + i] = Commanding(n)[i]
            /\ \A i \in 1..7 : W[8 + i] = Moving(n)[i]
            /\ \A i \in 1..6 : W[15 + i] = Reporting(n)[i]
<1> DEFINE a == <<CONTROL, 0, Small(128), 2>>
           b == <<MODE, 0, Small(8), 1>>
           A == <<a, b>>
           R == Commanding(n)
           M == Moving(n)
           P == Reporting(n)
           AR == A \o R
           ARM == AR \o M
           W == Writes(n)
<1>1. W = ARM \o P
  BY DEF Writes, Commanding, Moving, Reporting
<1>2. DOMAIN R = 1..6 /\ \E S : R \in Seq(S)
  <2>1. IsRemapping(R, RPDO1_COMM, RPDO1_MAP, RPDO1 + n,
                    << PdoMapEntry(TARGET, 0, 32) >>, 1)
    BY PdosAre DEF Commanding
  <2> QED BY <2>1 DEF IsRemapping
<1>3. DOMAIN M = 1..7 /\ \E S : M \in Seq(S)
  <2>1. IsRemapping(M, TPDO1_COMM, TPDO1_MAP, TPDO1 + n,
                    << PdoMapEntry(POSITION, 0, 32), PdoMapEntry(VELOCITY, 0, 32) >>, 2)
    BY PdosAre DEF Moving
  <2> QED BY <2>1 DEF IsRemapping
<1>4. DOMAIN P = 1..6 /\ \E S : P \in Seq(S)
  <2>1. IsRemapping(P, TPDO2_COMM, TPDO2_MAP, TPDO2 + n,
                    << PdoMapEntry(STATUS, 0, 16) >>, 1)
    BY PdosAre DEF Reporting
  <2> QED BY <2>1 DEF IsRemapping
<1>5. A \in Seq({a, b}) /\ Len(A) = 2
  <2> HIDE DEF a, b
  <2> QED OBVIOUS
<1> HIDE DEF A, R, M, P, W, a, b
<1>6. PICK X : R \in Seq(X)
  BY <1>2
<1>7. PICK Y : M \in Seq(Y)
  BY <1>3
<1>8. PICK Z : P \in Seq(Z)
  BY <1>4
<1> DEFINE S == {a, b} \union X \union Y \union Z
<1>9. A \in Seq(S) /\ R \in Seq(S) /\ M \in Seq(S) /\ P \in Seq(S)
  <2>1. {a, b} \subseteq S /\ X \subseteq S /\ Y \subseteq S /\ Z \subseteq S
    OBVIOUS
  <2> HIDE DEF S
  <2> QED BY <1>5, <1>6, <1>7, <1>8, <2>1, Wider
<1> HIDE DEF S
<1>10. Len(R) = 6 /\ Len(M) = 7 /\ Len(P) = 6
  BY <1>2, <1>3, <1>4, <1>9
<1>11. /\ AR \in Seq(S) /\ Len(AR) = 8 /\ \A i \in 1..6 : AR[2 + i] = R[i]
  <2>1. /\ AR \in Seq(S) /\ Len(AR) = Len(A) + Len(R)
        /\ \A i \in 1..Len(R) : AR[Len(A) + i] = R[i]
    BY <1>9, Joined
  <2> HIDE DEF AR
  <2> QED BY <1>5, <1>10, <2>1
<1> HIDE DEF AR
<1>12. /\ ARM \in Seq(S) /\ Len(ARM) = 15
       /\ \A i \in 1..8 : ARM[i] = AR[i]
       /\ \A i \in 1..7 : ARM[8 + i] = M[i]
  <2>1. /\ ARM \in Seq(S) /\ Len(ARM) = Len(AR) + Len(M)
        /\ \A i \in 1..Len(AR) : ARM[i] = AR[i]
        /\ \A i \in 1..Len(M) : ARM[Len(AR) + i] = M[i]
    <3>1. /\ AR \o M \in Seq(S) /\ Len(AR \o M) = Len(AR) + Len(M)
          /\ \A i \in 1..Len(AR) : (AR \o M)[i] = AR[i]
          /\ \A i \in 1..Len(M) : (AR \o M)[Len(AR) + i] = M[i]
      <4>1. AR \in Seq(S) /\ M \in Seq(S)
        BY <1>9, <1>11
      <4> HIDE DEF ARM
      <4> QED BY <4>1, Joined
    <3> QED BY <3>1
  <2> HIDE DEF ARM
  <2> QED BY <1>10, <1>11, <2>1
<1> HIDE DEF ARM
<1>13. /\ W \in Seq(S) /\ Len(W) = 21
       /\ \A i \in 1..15 : W[i] = ARM[i]
       /\ \A i \in 1..6 : W[15 + i] = P[i]
  <2>1. /\ ARM \o P \in Seq(S) /\ Len(ARM \o P) = Len(ARM) + Len(P)
        /\ \A i \in 1..Len(ARM) : (ARM \o P)[i] = ARM[i]
        /\ \A i \in 1..Len(P) : (ARM \o P)[Len(ARM) + i] = P[i]
    <3>1. ARM \in Seq(S) /\ P \in Seq(S)
      BY <1>9, <1>12
    <3> QED BY <3>1, Joined
  <2>2. /\ W \in Seq(S) /\ Len(W) = Len(ARM) + Len(P)
        /\ \A i \in 1..Len(ARM) : W[i] = ARM[i]
        /\ \A i \in 1..Len(P) : W[Len(ARM) + i] = P[i]
    BY <1>1, <2>1
  <2> QED BY <1>10, <1>12, <2>2
<1>14. DOMAIN W = 1..21
  BY <1>13
<1>15. \A i \in 1..6 : W[2 + i] = R[i]
  <2>1. \A i \in 1..6 : 2 + i \in 1..8 /\ 2 + i \in 1..15
    OBVIOUS
  <2> QED BY <1>11, <1>12, <1>13, <2>1
<1>16. \A i \in 1..7 : W[8 + i] = M[i]
  <2>1. \A i \in 1..7 : 8 + i \in 1..15
    OBVIOUS
  <2> QED BY <1>12, <1>13, <2>1
<1> QED BY <1>13, <1>14, <1>15, <1>16 DEF W, R, M, P

LEMMA SmallFits ==
  /\ \A n \in Nat : Fits(Small(n), 4)
  /\ \A n \in 0..255 : Fits(Small(n), 1)
<1>1. ASSUME NEW n \in Nat
      PROVE  Fits(Small(n), 4)
  BY SmallIs DEF Fits
<1>2. ASSUME NEW n \in 0..255
      PROVE  Fits(Small(n), 1)
  <2>1. n \in Nat /\ n \div 256 = 0
    OBVIOUS
  <2>2. Small(n)[2] = 0 /\ Small(n)[3] = 0 /\ Small(n)[4] = 0
    BY <2>1, SmallIs
  <2>3. Small(n) \in Seq(Nat) /\ Len(Small(n)) = 4
    BY <2>1, SmallIs
  <2>4. \A i \in 1..4 : i > 1 => i = 2 \/ i = 3 \/ i = 4
    OBVIOUS
  <2> QED BY <2>2, <2>3, <2>4 DEF Fits
<1> QED BY <1>1, <1>2

\* The writes that remap a PDO come after o others, and none to the same
\* objects after them.
Placed(n, o, comm, map, id, entries) ==
  /\ DOMAIN Writes(n) = 1..21
  /\ o \in Nat /\ o + Len(entries) + 5 <= 21
  /\ \A i \in 1..(Len(entries) + 5) :
       Writes(n)[o + i] = Remapping(comm, map, id, entries)[i]
  /\ \A j \in 1..21 : j > o + Len(entries) + 5 => Writes(n)[j][1] \notin {comm, map}

Entire(entries) ==
  /\ entries \in Seq(Seq(Nat)) /\ Len(entries) \in 1..2
  /\ \A i \in 1..Len(entries) : Len(entries[i]) = 4

IsRemapped(od, comm, map, id, entries) ==
  /\ od[<<comm, 1>>] = Cob(id) /\ od[<<comm, 2>>] = Small(1)
  /\ od[<<map, 0>>] = Small(Len(entries))
  /\ \A i \in 1..Len(entries) : od[<<map, i>>] = entries[i]

\* A PDO is left as its last writes say.
LEMMA Remapped ==
  ASSUME NEW n, NEW od, NEW o, NEW comm, NEW map, NEW id, NEW entries,
         Keys \subseteq DOMAIN od, comm \in Indexes, map \in Indexes, comm # map, id \in Nat,
         Entire(entries), Placed(n, o, comm, map, id, entries)
  PROVE  IsRemapped(Configured(od, n), comm, map, id, entries)
<1> DEFINE W == Writes(n)
           L == Len(entries)
           R == Remapping(comm, map, id, entries)
           d == Configured(od, n)
           Final(p, key) == \A q \in 1..(L + 5) : q > p => <<R[q][1], R[q][2]>> # key
<1>1. L \in 1..2 /\ o \in Nat /\ entries \in Seq(Seq(Nat))
  BY DEF Entire, Placed
<1>2. /\ \A i \in 1..L : R[2 + i] = <<map, i, entries[i], 4>>
      /\ R[L + 3] = <<map, 0, Small(L), 1>>
      /\ R[L + 4] = <<comm, 2, Small(1), 1>>
      /\ R[L + 5] = <<comm, 1, Cob(id), 4>>
  <2>1. IsRemapping(R, comm, map, id, entries, L)
    BY <1>1, RemappingIs
  <2> QED BY <2>1 DEF IsRemapping
<1>3. PICK cx, cy \in Nat : comm = <<cx, cy>>
  BY IndexIs
<1>4. PICK mx, my \in Nat : map = <<mx, my>>
  BY IndexIs
<1>5. /\ \A i \in 1..(L + 5) : W[o + i] = R[i]
      /\ \A j \in 1..21 : j > o + L + 5 => W[j][1] \notin {comm, map}
      /\ o + L + 5 <= 21 /\ DOMAIN W = 1..21 /\ W = Writes(n)
  BY DEF Placed
<1>6. \A i \in 1..L : entries[i] \in Seq(Nat) /\ Len(entries[i]) = 4
  BY <1>1 DEF Entire
<1>12. comm \in {comm, map} /\ map \in {comm, map} /\ 0 \in 0..2 /\ 1 \in 0..2 /\ 2 \in 0..2
  OBVIOUS
<1> HIDE DEF W, L, R
\* What is written at place p of the PDO stays if none of the places after
\* it is for the same object.
<1>7. ASSUME NEW p \in 1..(L + 5), NEW index \in {comm, map}, NEW z \in 0..2,
             NEW word, NEW size, R[p] = <<index, z, word, size>>, Fits(word, size),
             Final(p, <<index, z>>)
      PROVE  d[<<index, z>>] = word
  <2>0. o + p \in 1..21
    BY <1>1, <1>5
  <2>1. W[o + p] = <<index, z, word, size>>
    BY <1>5, <1>7
  <2>2. ASSUME NEW j \in 1..21, j > o + p
        PROVE  <<W[j][1], W[j][2]>> # <<index, z>>
    <3>1. CASE j > o + L + 5
      BY <1>5, <3>1
    <3>2. CASE ~(j > o + L + 5)
      <4>1. j - o \in 1..(L + 5) /\ j - o > p /\ o + (j - o) = j
        BY <1>1, <2>2, <3>2
      <4>2. W[j] = R[j - o]
        BY <1>5, <4>1
      <4> QED BY <1>7, <4>1, <4>2
    <3> QED BY <3>1, <3>2
  <2>3. PICK x, y \in Nat : index = <<x, y>>
    BY <1>3, <1>4
  <2>4. <<index, z>> \in DOMAIN od
    BY DEF Keys
  <2>5. z \in Nat
    OBVIOUS
  <2>7. NoneLater(n, o + p, <<index, z>>)
    BY <1>5, <2>2 DEF NoneLater
  <2>8. IsObject(<<index, z>>)
    BY <2>3, <2>5 DEF IsObject
  <2>9. WrittenAt(n, o + p, <<index, z>>, word, size)
    BY <1>5, <2>0, <2>1 DEF WrittenAt
  <2>10. Fits(word, size)
    BY <1>7
  <2> QED BY <2>4, <2>7, <2>8, <2>9, <2>10, LastStays
<1>8. d[<<comm, 1>>] = Cob(id)
  <2>1. Fits(Cob(id), 4)
    BY SmallFits DEF Cob
  <2>2. L + 5 \in 1..(L + 5) /\ \A q \in 1..(L + 5) : ~(q > L + 5)
    BY <1>1
  <2>3. Final(L + 5, <<comm, 1>>)
    BY <2>2
  <2> HIDE DEF Final
  <2> QED BY <1>2, <1>7, <1>12, <2>1, <2>2, <2>3, Zenon
<1>9. d[<<comm, 2>>] = Small(1)
  <2>1. Fits(Small(1), 1)
    BY SmallFits
  <2>2. L + 4 \in 1..(L + 5) /\ \A q \in 1..(L + 5) : q > L + 4 => q = L + 5
    BY <1>1
  <2>3. R[L + 5][2] = 1
    BY <1>2
  <2>4. Final(L + 4, <<comm, 2>>)
    BY <2>2, <2>3
  <2> HIDE DEF Final
  <2> QED BY <1>2, <1>7, <1>12, <2>1, <2>2, <2>4, Zenon
<1>10. d[<<map, 0>>] = Small(L)
  <2>1. Fits(Small(L), 1)
    <3>1. L \in 0..255
      BY <1>1
    <3> QED BY <3>1, SmallFits
  <2>2. /\ L + 3 \in 1..(L + 5)
        /\ \A q \in 1..(L + 5) : q > L + 3 => q = L + 4 \/ q = L + 5
    BY <1>1
  <2>3. R[L + 4][1] = comm /\ R[L + 5][1] = comm
    BY <1>2
  <2>4. Final(L + 3, <<map, 0>>)
    BY <2>2, <2>3
  <2> HIDE DEF Final
  <2> QED BY <1>2, <1>7, <1>12, <2>1, <2>2, <2>4, Zenon
<1>11. ASSUME NEW i \in 1..L
       PROVE  d[<<map, i>>] = entries[i]
  <2>1. Fits(entries[i], 4)
    BY <1>6 DEF Fits
  <2>2. 2 + i \in 1..(L + 5) /\ i \in 0..2
    BY <1>1
  <2>3. ASSUME NEW q \in 1..(L + 5), q > 2 + i
        PROVE  <<R[q][1], R[q][2]>> # <<map, i>>
    <3>1. CASE q <= 2 + L
      <4>1. q - 2 \in 1..L /\ 2 + (q - 2) = q /\ q - 2 # i
        BY <1>1, <2>3, <3>1
      <4>2. R[2 + (q - 2)] = <<map, q - 2, entries[q - 2], 4>>
        BY <1>2, <4>1, Zenon
      <4>3. R[q] = <<map, q - 2, entries[q - 2], 4>>
        BY <4>1, <4>2
      <4>4. R[q][2] = q - 2
        BY <4>3
      <4> QED BY <4>1, <4>4
    <3>2. CASE q = L + 3
      <4>1. i # 0
        BY <1>1
      <4> QED BY <1>2, <3>2, <4>1
    <3>3. CASE q = L + 4 \/ q = L + 5
      <4>1. R[q][1] = comm
        BY <1>2, <3>3
      <4> QED BY <4>1
    <3> QED BY <1>1, <3>1, <3>2, <3>3
  <2>4. R[2 + i] = <<map, i, entries[i], 4>>
    BY <1>2
  <2>5. Final(2 + i, <<map, i>>)
    BY <2>3
  <2> HIDE DEF Final
  <2> QED BY <1>7, <2>1, <2>2, <2>4, <2>5
<1> QED BY <1>8, <1>9, <1>10, <1>11 DEF L, IsRemapped

\* The dictionary that configure_node() leaves, as far as process data goes.
LEMMA ConfiguredIs ==
  ASSUME NEW n \in 1..127, NEW od, Keys \subseteq DOMAIN od
  PROVE  LET d == Configured(od, n)
         IN /\ d[<<RPDO1_COMM, 1>>] = Cob(RPDO1 + n) /\ d[<<RPDO1_COMM, 2>>] = Small(1)
            /\ d[<<RPDO1_MAP, 0>>] = Small(1)
            /\ d[<<RPDO1_MAP, 1>>] = PdoMapEntry(TARGET, 0, 32)
            /\ d[<<TPDO1_COMM, 1>>] = Cob(TPDO1 + n) /\ d[<<TPDO1_COMM, 2>>] = Small(1)
            /\ d[<<TPDO1_MAP, 0>>] = Small(2)
            /\ d[<<TPDO1_MAP, 1>>] = PdoMapEntry(POSITION, 0, 32)
            /\ d[<<TPDO1_MAP, 2>>] = PdoMapEntry(VELOCITY, 0, 32)
            /\ d[<<TPDO2_COMM, 1>>] = Cob(TPDO2 + n) /\ d[<<TPDO2_COMM, 2>>] = Small(1)
            /\ d[<<TPDO2_MAP, 0>>] = Small(1)
            /\ d[<<TPDO2_MAP, 1>>] = PdoMapEntry(STATUS, 0, 16)
            /\ DOMAIN d = DOMAIN od
<1> DEFINE W == Writes(n)
           d == Configured(od, n)
           t == << PdoMapEntry(TARGET, 0, 32) >>
           m == << PdoMapEntry(POSITION, 0, 32), PdoMapEntry(VELOCITY, 0, 32) >>
           s == << PdoMapEntry(STATUS, 0, 16) >>
<1>1. /\ RPDO1_COMM \in Indexes /\ RPDO1_MAP \in Indexes /\ TPDO1_COMM \in Indexes
      /\ TPDO1_MAP \in Indexes /\ TPDO2_COMM \in Indexes /\ TPDO2_MAP \in Indexes
  BY DEF Indexes
<1>2. /\ {RPDO1_COMM, RPDO1_MAP} \intersect {TPDO1_COMM, TPDO1_MAP} = {}
      /\ {RPDO1_COMM, RPDO1_MAP} \intersect {TPDO2_COMM, TPDO2_MAP} = {}
      /\ {TPDO1_COMM, TPDO1_MAP} \intersect {TPDO2_COMM, TPDO2_MAP} = {}
      /\ RPDO1_COMM # RPDO1_MAP /\ TPDO1_COMM # TPDO1_MAP /\ TPDO2_COMM # TPDO2_MAP
  BY DEF RPDO1_COMM, RPDO1_MAP, TPDO1_COMM, TPDO1_MAP, TPDO2_COMM, TPDO2_MAP
<1>3. RPDO1 + n \in Nat /\ TPDO1 + n \in Nat /\ TPDO2 + n \in Nat
  BY DEF RPDO1, TPDO1, TPDO2
<1>4. t \in Seq(Seq(Nat)) /\ m \in Seq(Seq(Nat)) /\ s \in Seq(Seq(Nat))
  BY EntriesAre, Zenon
<1>5. /\ Len(t) = 1 /\ Len(m) = 2 /\ Len(s) = 1
      /\ t[1] = PdoMapEntry(TARGET, 0, 32) /\ m[1] = PdoMapEntry(POSITION, 0, 32)
      /\ m[2] = PdoMapEntry(VELOCITY, 0, 32) /\ s[1] = PdoMapEntry(STATUS, 0, 16)
  OBVIOUS
<1>6. /\ Len(PdoMapEntry(TARGET, 0, 32)) = 4 /\ Len(PdoMapEntry(POSITION, 0, 32)) = 4
      /\ Len(PdoMapEntry(VELOCITY, 0, 32)) = 4 /\ Len(PdoMapEntry(STATUS, 0, 16)) = 4
  BY EntryOf DEF Indexes
<1>7. /\ DOMAIN W = 1..21
      /\ \A i \in 1..6 : W[2 + i] = Commanding(n)[i]
      /\ \A i \in 1..7 : W[8 + i] = Moving(n)[i]
      /\ \A i \in 1..6 : W[15 + i] = Reporting(n)[i]
  BY WritesAre
<1>8. /\ Commanding(n) = Remapping(RPDO1_COMM, RPDO1_MAP, RPDO1 + n, t)
      /\ Moving(n) = Remapping(TPDO1_COMM, TPDO1_MAP, TPDO1 + n, m)
      /\ Reporting(n) = Remapping(TPDO2_COMM, TPDO2_MAP, TPDO2 + n, s)
  BY Zenon DEF Commanding, Moving, Reporting
<1> HIDE DEF t, m, s
<1>9. /\ \A i \in 1..7 : Moving(n)[i][1] \in {TPDO1_COMM, TPDO1_MAP}
      /\ \A i \in 1..6 : Reporting(n)[i][1] \in {TPDO2_COMM, TPDO2_MAP}
  <2>1. /\ DOMAIN Moving(n) = 1..(2 + 5)
        /\ \A i \in DOMAIN Moving(n) : Moving(n)[i][1] \in {TPDO1_COMM, TPDO1_MAP}
    BY PdosAre, Zenon DEF IsRemapping
  <2>2. /\ DOMAIN Reporting(n) = 1..(1 + 5)
        /\ \A i \in DOMAIN Reporting(n) : Reporting(n)[i][1] \in {TPDO2_COMM, TPDO2_MAP}
    BY PdosAre, Zenon DEF IsRemapping
  <2> QED BY <2>1, <2>2
<1>10. \A j \in 16..21 : W[j][1] \in {TPDO2_COMM, TPDO2_MAP}
  <2> TAKE j \in 16..21
  <2>1. j - 15 \in 1..6 /\ 15 + (j - 15) = j
    OBVIOUS
  <2>2. W[15 + (j - 15)] = Reporting(n)[j - 15]
    BY <1>7, <2>1, Zenon
  <2> HIDE DEF W
  <2> QED BY <1>9, <2>1, <2>2
<1>11. \A j \in 9..15 : W[j][1] \in {TPDO1_COMM, TPDO1_MAP}
  <2> TAKE j \in 9..15
  <2>1. j - 8 \in 1..7 /\ 8 + (j - 8) = j
    OBVIOUS
  <2>2. W[8 + (j - 8)] = Moving(n)[j - 8]
    BY <1>7, <2>1, Zenon
  <2> HIDE DEF W
  <2> QED BY <1>9, <2>1, <2>2
<1> HIDE DEF W
<1>12. /\ d[<<RPDO1_COMM, 1>>] = Cob(RPDO1 + n) /\ d[<<RPDO1_COMM, 2>>] = Small(1)
       /\ d[<<RPDO1_MAP, 0>>] = Small(Len(t))
       /\ \A i \in 1..Len(t) : d[<<RPDO1_MAP, i>>] = t[i]
  <2>1. /\ Len(t) \in 1..2 /\ 2 + Len(t) + 5 <= 21 /\ 2 \in Nat
        /\ \A i \in 1..Len(t) : Len(t[i]) = 4
    BY <1>5, <1>6
  <2>2. \A i \in 1..(Len(t) + 5) :
          Writes(n)[2 + i] = Remapping(RPDO1_COMM, RPDO1_MAP, RPDO1 + n, t)[i]
    BY <1>5, <1>7, <1>8 DEF W
  <2>3. \A j \in 1..21 : j > 2 + Len(t) + 5 => Writes(n)[j][1] \notin {RPDO1_COMM, RPDO1_MAP}
    <3>1. \A j \in 1..21 : j > 2 + Len(t) + 5 => j \in 9..15 \/ j \in 16..21
      BY <1>5
    <3> QED BY <1>2, <1>10, <1>11, <3>1 DEF W
  <2>4. DOMAIN Writes(n) = 1..21
    BY <1>7 DEF W
  <2>5. Placed(n, 2, RPDO1_COMM, RPDO1_MAP, RPDO1 + n, t)
    BY <2>1, <2>2, <2>3, <2>4 DEF Placed
  <2>6. Entire(t)
    BY <1>4, <2>1 DEF Entire
  <2>7. IsRemapped(Configured(od, n), RPDO1_COMM, RPDO1_MAP, RPDO1 + n, t)
    BY <1>1, <1>2, <1>3, <2>5, <2>6, Remapped
  <2> QED BY <2>7 DEF IsRemapped
<1>13. /\ d[<<TPDO1_COMM, 1>>] = Cob(TPDO1 + n) /\ d[<<TPDO1_COMM, 2>>] = Small(1)
       /\ d[<<TPDO1_MAP, 0>>] = Small(Len(m))
       /\ \A i \in 1..Len(m) : d[<<TPDO1_MAP, i>>] = m[i]
  <2>1. /\ Len(m) \in 1..2 /\ 8 + Len(m) + 5 <= 21 /\ 8 \in Nat
        /\ \A i \in 1..Len(m) : Len(m[i]) = 4
    <3>1. \A i \in 1..Len(m) : i = 1 \/ i = 2
      BY <1>5
    <3> QED BY <1>5, <1>6, <3>1
  <2>2. \A i \in 1..(Len(m) + 5) :
          Writes(n)[8 + i] = Remapping(TPDO1_COMM, TPDO1_MAP, TPDO1 + n, m)[i]
    BY <1>5, <1>7, <1>8 DEF W
  <2>3. \A j \in 1..21 : j > 8 + Len(m) + 5 => Writes(n)[j][1] \notin {TPDO1_COMM, TPDO1_MAP}
    <3>1. \A j \in 1..21 : j > 8 + Len(m) + 5 => j \in 16..21
      BY <1>5
    <3> QED BY <1>2, <1>10, <3>1 DEF W
  <2>4. DOMAIN Writes(n) = 1..21
    BY <1>7 DEF W
  <2>5. Placed(n, 8, TPDO1_COMM, TPDO1_MAP, TPDO1 + n, m)
    BY <2>1, <2>2, <2>3, <2>4 DEF Placed
  <2>6. Entire(m)
    BY <1>4, <2>1 DEF Entire
  <2>7. IsRemapped(Configured(od, n), TPDO1_COMM, TPDO1_MAP, TPDO1 + n, m)
    BY <1>1, <1>2, <1>3, <2>5, <2>6, Remapped
  <2> QED BY <2>7 DEF IsRemapped
<1>14. /\ d[<<TPDO2_COMM, 1>>] = Cob(TPDO2 + n) /\ d[<<TPDO2_COMM, 2>>] = Small(1)
       /\ d[<<TPDO2_MAP, 0>>] = Small(Len(s))
       /\ \A i \in 1..Len(s) : d[<<TPDO2_MAP, i>>] = s[i]
  <2>1. /\ Len(s) \in 1..2 /\ 15 + Len(s) + 5 <= 21 /\ 15 \in Nat
        /\ \A i \in 1..Len(s) : Len(s[i]) = 4
    BY <1>5, <1>6
  <2>2. \A i \in 1..(Len(s) + 5) :
          Writes(n)[15 + i] = Remapping(TPDO2_COMM, TPDO2_MAP, TPDO2 + n, s)[i]
    BY <1>5, <1>7, <1>8 DEF W
  <2>3. \A j \in 1..21 : j > 15 + Len(s) + 5 => Writes(n)[j][1] \notin {TPDO2_COMM, TPDO2_MAP}
    BY <1>5
  <2>4. DOMAIN Writes(n) = 1..21
    BY <1>7 DEF W
  <2>5. Placed(n, 15, TPDO2_COMM, TPDO2_MAP, TPDO2 + n, s)
    BY <2>1, <2>2, <2>3, <2>4 DEF Placed
  <2>6. Entire(s)
    BY <1>4, <2>1 DEF Entire
  <2>7. IsRemapped(Configured(od, n), TPDO2_COMM, TPDO2_MAP, TPDO2 + n, s)
    BY <1>1, <1>2, <1>3, <2>5, <2>6, Remapped
  <2> QED BY <2>7 DEF IsRemapped
<1>15. DOMAIN d = DOMAIN od
  BY DEF Configured
<1> HIDE DEF d
<1>16. 1 \in 1..Len(t) /\ 1 \in 1..Len(m) /\ 2 \in 1..Len(m) /\ 1 \in 1..Len(s)
  BY <1>5
<1>17. /\ d[<<RPDO1_MAP, 1>>] = t[1] /\ d[<<TPDO1_MAP, 1>>] = m[1]
       /\ d[<<TPDO1_MAP, 2>>] = m[2] /\ d[<<TPDO2_MAP, 1>>] = s[1]
  BY <1>12, <1>13, <1>14, <1>16, Zenon
<1> QED BY <1>5, <1>12, <1>13, <1>14, <1>15, <1>17, Zenon DEF d

LEMMA CobIs ==
  ASSUME NEW od, NEW comm, NEW id \in Nat, od[<<comm, 1>>] = Cob(id)
  PROVE  CobOf(od, comm) = id /\ od[<<comm, 1>>][4] < 128
<1>1. /\ Cob(id)[1] = id % 256 /\ Cob(id)[2] = id \div 256 /\ Cob(id)[4] = 0
  BY SmallIs DEF Cob
<1>2. id = 256 * (id \div 256) + (id % 256) /\ id % 256 \in Nat /\ id \div 256 \in Int
  BY SMT
<1>3. CobOf(od, comm) = (id % 256) + 256 * (id \div 256)
  BY <1>1 DEF CobOf
<1> QED BY <1>1, <1>2, <1>3

\* A mapping has n entries, of which the i-th is for that many bits of an object.
Holds(od, map, n) == od[<<map, 0>>] = Small(n)
Maps(od, map, i, index, bits) == od[<<map, i>>] = PdoMapEntry(index, 0, bits)

EntryAt(od, map, i) ==
  [key |-> <<SubSeq(od[<<map, i>>], 3, 4), od[<<map, i>>][2]>>,
   bytes |-> od[<<map, i>>][1] \div 8]

LEMMA MappingIs ==
  ASSUME NEW od, NEW map, NEW n \in 1..2, Holds(od, map, n)
  PROVE  /\ DOMAIN Entries(od, map) = 1..n
         /\ \A i \in 1..n : Entries(od, map)[i] = EntryAt(od, map, i)
<1>1. od[<<map, 0>>][1] = n
  <2>1. n \in Nat /\ n % 256 = n
    OBVIOUS
  <2> QED BY <2>1, SmallIs DEF Holds
<1>2. Entries(od, map) = [i \in 1..n |-> EntryAt(od, map, i)]
  BY <1>1, Zenon DEF Entries, EntryAt
<1> QED BY <1>2, Zenon

LEMMA MappedIs ==
  ASSUME NEW od, NEW map, NEW n \in 1..2, NEW i \in 1..n, NEW index \in Indexes, NEW bits \in Nat,
         Holds(od, map, n), Maps(od, map, i, index, bits)
  PROVE  Entries(od, map)[i] = [key |-> <<index, 0>>, bytes |-> bits \div 8]
<1> DEFINE e == od[<<map, i>>]
<1>1. e[1] = bits /\ e[2] = 0 /\ SubSeq(e, 3, 4) = index
  BY EntryOf DEF Maps
<1>2. Entries(od, map)[i] = EntryAt(od, map, i)
  BY MappingIs
<1>3. EntryAt(od, map, i) = [key |-> <<SubSeq(e, 3, 4), e[2]>>, bytes |-> e[1] \div 8]
  BY DEF EntryAt
<1> HIDE DEF e
<1> QED BY <1>1, <1>2, <1>3

LEMMA WholeWord ==
  ASSUME NEW w \in Seq(Nat), Len(w) = 4
  PROVE  SubSeq(w, 1, 4) = w
<1>1. /\ SubSeq(w, 1, 4) \in Seq(Nat) /\ Len(SubSeq(w, 1, 4)) = 4
      /\ \A i \in 1..4 : SubSeq(w, 1, 4)[i] = w[i]
  <2>1. Len(w) >= 4
    OBVIOUS
  <2> QED BY <2>1, FourBytes
<1> QED BY <1>1, SameBytes

\* The drive sends what is in the objects of its mapping.
LEMMA MotionIs ==
  ASSUME NEW od, NEW id \in Nat, NEW p \in Seq(Nat), Len(p) = 4, NEW v \in Seq(Nat), Len(v) = 4,
         od[<<TPDO1_COMM, 1>>] = Cob(id), od[<<TPDO1_MAP, 0>>] = Small(2),
         od[<<TPDO1_MAP, 1>>] = PdoMapEntry(POSITION, 0, 32),
         od[<<TPDO1_MAP, 2>>] = PdoMapEntry(VELOCITY, 0, 32),
         od[<<POSITION, 0>>] = p, od[<<VELOCITY, 0>>] = v
  PROVE  Sent(od, TPDO1_COMM, TPDO1_MAP) = Frame(id, p \o v)
<1> DEFINE E == Entries(od, TPDO1_MAP)
           Part(i) == IF i \in DOMAIN E THEN SubSeq(od[E[i].key], 1, E[i].bytes) ELSE <<>>
<1>1. /\ DOMAIN E = 1..2
      /\ E[1].key = <<POSITION, 0>> /\ E[1].bytes = 32 \div 8
      /\ E[2].key = <<VELOCITY, 0>> /\ E[2].bytes = 32 \div 8
  <2>1. POSITION \in Indexes /\ VELOCITY \in Indexes
    BY DEF Indexes
  <2>2. 2 \in 1..2 /\ 1 \in 1..2 /\ 32 \in Nat
    OBVIOUS
  <2>a. /\ Holds(od, TPDO1_MAP, 2)
        /\ Maps(od, TPDO1_MAP, 1, POSITION, 32)
        /\ Maps(od, TPDO1_MAP, 2, VELOCITY, 32)
    BY DEF Holds, Maps
  <2>3. DOMAIN E = 1..2
    BY <2>2, <2>a, MappingIs
  <2>4. E[1] = [key |-> <<POSITION, 0>>, bytes |-> 32 \div 8]
    <3>1. PICK n \in 1..2 : n = 2
      BY <2>2
    <3>2. PICK i \in 1..n : i = 1
      BY <3>1
    <3>3. Holds(od, TPDO1_MAP, n) /\ Maps(od, TPDO1_MAP, i, POSITION, 32)
      BY <2>a, <3>1, <3>2
    <3>4. Entries(od, TPDO1_MAP)[i] = [key |-> <<POSITION, 0>>, bytes |-> 32 \div 8]
      BY <2>1, <2>2, <3>3, MappedIs
    <3> QED BY <3>2, <3>4
  <2>5. E[2] = [key |-> <<VELOCITY, 0>>, bytes |-> 32 \div 8]
    <3>1. PICK n \in 1..2 : n = 2
      BY <2>2
    <3>2. PICK i \in 1..n : i = 2
      BY <3>1
    <3>3. Holds(od, TPDO1_MAP, n) /\ Maps(od, TPDO1_MAP, i, VELOCITY, 32)
      BY <2>a, <3>1, <3>2
    <3>4. Entries(od, TPDO1_MAP)[i] = [key |-> <<VELOCITY, 0>>, bytes |-> 32 \div 8]
      BY <2>1, <2>2, <3>3, MappedIs
    <3> QED BY <3>2, <3>4
  <2> HIDE DEF E
  <2> QED BY <2>3, <2>4, <2>5
<1>2. 32 \div 8 = 4
  OBVIOUS
<1>3. CobOf(od, TPDO1_COMM) = id
  BY CobIs
<1>4. Sent(od, TPDO1_COMM, TPDO1_MAP) = Frame(CobOf(od, TPDO1_COMM), Part(1) \o Part(2))
  BY Zenon DEF Sent
<1> HIDE DEF E
<1>5. Part(1) = p /\ Part(2) = v
  <2>1. Part(1) = SubSeq(p, 1, 4)
    BY <1>1, <1>2
  <2>2. Part(2) = SubSeq(v, 1, 4)
    BY <1>1, <1>2
  <2> QED BY <2>1, <2>2, WholeWord
<1> HIDE DEF Part
<1> QED BY <1>3, <1>4, <1>5

LEMMA StatusIs ==
  ASSUME NEW od, NEW id \in Nat, NEW v \in Seq(Nat), Len(v) = 4,
         od[<<TPDO2_COMM, 1>>] = Cob(id), od[<<TPDO2_MAP, 0>>] = Small(1),
         od[<<TPDO2_MAP, 1>>] = PdoMapEntry(STATUS, 0, 16), od[<<STATUS, 0>>] = v
  PROVE  Sent(od, TPDO2_COMM, TPDO2_MAP) = Frame(id, SubSeq(v, 1, 2))
<1> DEFINE E == Entries(od, TPDO2_MAP)
           Part(i) == IF i \in DOMAIN E THEN SubSeq(od[E[i].key], 1, E[i].bytes) ELSE <<>>
<1>1. DOMAIN E = 1..1 /\ E[1].key = <<STATUS, 0>> /\ E[1].bytes = 16 \div 8
  <2>1. STATUS \in Indexes
    BY DEF Indexes
  <2>2. 1 \in 1..2 /\ 1 \in 1..1 /\ 16 \in Nat
    OBVIOUS
  <2>a. /\ Holds(od, TPDO2_MAP, 1)
        /\ Maps(od, TPDO2_MAP, 1, STATUS, 16)
    BY DEF Holds, Maps
  <2>3. DOMAIN E = 1..1
    BY <2>2, <2>a, MappingIs
  <2>4. E[1] = [key |-> <<STATUS, 0>>, bytes |-> 16 \div 8]
    <3>1. PICK n \in 1..2 : n = 1
      BY <2>2
    <3>2. PICK i \in 1..n : i = 1
      BY <3>1
    <3>3. Holds(od, TPDO2_MAP, n) /\ Maps(od, TPDO2_MAP, i, STATUS, 16)
      BY <2>a, <3>1, <3>2
    <3>4. Entries(od, TPDO2_MAP)[i] = [key |-> <<STATUS, 0>>, bytes |-> 16 \div 8]
      BY <2>1, <2>2, <3>3, MappedIs
    <3> QED BY <3>2, <3>4
  <2> HIDE DEF E
  <2> QED BY <2>3, <2>4
<1>2. 16 \div 8 = 2
  OBVIOUS
<1>3. CobOf(od, TPDO2_COMM) = id
  BY CobIs
<1>4. Sent(od, TPDO2_COMM, TPDO2_MAP) = Frame(CobOf(od, TPDO2_COMM), Part(1) \o Part(2))
  BY Zenon DEF Sent
<1> HIDE DEF E
<1>5. Part(1) = SubSeq(v, 1, 2) /\ Part(2) = <<>>
  BY <1>1, <1>2
<1> HIDE DEF Part
<1>6. SubSeq(v, 1, 2) \o <<>> = SubSeq(v, 1, 2)
  <2>1. SubSeq(v, 1, 2) \in Seq(Nat)
    BY SubBytes
  <2> QED BY <2>1
<1> QED BY <1>3, <1>4, <1>5, <1>6

\* A frame with two words, and what is parsed out of it.
LEMMA TwoWords ==
  ASSUME NEW id, NEW p \in Seq(Nat), Len(p) = 4, NEW v \in Seq(Nat), Len(v) = 4
  PROVE  LET f == Frame(id, p \o v)
         IN f.length = 8 /\ GetLe(f.data, 0, 4) = p /\ GetLe(f.data, 4, 4) = v
<1> DEFINE b == p \o v
           data == Frame(id, b).data
<1>1. /\ b \in Seq(Nat) /\ Len(b) = 8
      /\ \A i \in 1..4 : b[i] = p[i]
      /\ \A i \in 1..4 : b[4 + i] = v[i]
  <2>1. /\ b \in Seq(Nat) /\ Len(b) = Len(p) + Len(v)
        /\ \A i \in 1..Len(p) : b[i] = p[i]
        /\ \A i \in 1..Len(v) : b[Len(p) + i] = v[i]
    BY Concatenated
  <2> HIDE DEF b
  <2> QED BY <2>1
<1> HIDE DEF b
<1>2. /\ data \in Seq(Nat) /\ Len(data) = 8 /\ \A i \in 1..8 : data[i] = b[i]
  <2>1. Len(b) <= 8
    BY <1>1
  <2>2. /\ data \in Seq(Nat) /\ Len(data) = 8 /\ \A i \in 1..Len(b) : data[i] = b[i]
    BY <1>1, <2>1, FrameData
  <2> HIDE DEF data
  <2> QED BY <1>1, <2>2
<1>3. Frame(id, b).length = 8
  <2>1. Frame(id, b).length = Len(b)
    BY FrameHead
  <2> QED BY <1>1, <2>1
<1> HIDE DEF data
<1>4. SubSeq(data, 1, 4) = p
  <2>1. /\ SubSeq(data, 1, 4) \in Seq(Nat) /\ Len(SubSeq(data, 1, 4)) = 4
        /\ \A i \in 1..4 : SubSeq(data, 1, 4)[i] = data[i]
    <3>1. data \in Seq(Nat) /\ Len(data) >= 4
      BY <1>2
    <3> QED BY <3>1, FourBytes
  <2>2. \A i \in 1..4 : data[i] = p[i]
    BY <1>1, <1>2
  <2> QED BY <2>1, <2>2, SameBytes
<1>5. SubSeq(data, 5, 8) = v
  <2>1. /\ SubSeq(data, 5, 8) \in Seq(Nat) /\ Len(SubSeq(data, 5, 8)) = 4
        /\ \A i \in 1..4 : SubSeq(data, 5, 8)[i] = data[4 + i]
    BY <1>2, LastFour
  <2>2. \A i \in 1..4 : 4 + i \in 1..8
    OBVIOUS
  <2>3. \A i \in 1..4 : data[4 + i] = v[i]
    BY <1>1, <1>2, <2>2
  <2> QED BY <2>1, <2>3, SameBytes
<1> QED BY <1>3, <1>4, <1>5 DEF GetLe, data, b

\* The same of a part of a word, which the rest of the frame follows.
LEMMA FirstBytes ==
  ASSUME NEW id, NEW w \in Seq(Nat), Len(w) = 4, NEW size \in 1..4
  PROVE  LET f == Frame(id, SubSeq(w, 1, size))
         IN f.length = size /\ SubSeq(f.data, 1, size) = SubSeq(w, 1, size)
<1> DEFINE b == SubSeq(w, 1, size)
           data == Frame(id, b).data
           got == SubSeq(data, 1, size)
<1>1. b \in Seq(Nat) /\ Len(b) = size
  <2>1. 1 \in Nat /\ size \in Nat /\ 1 > 0 /\ 1 <= size /\ size <= Len(w) /\ size - 1 + 1 = size
    OBVIOUS
  <2>2. b \in Seq(Nat) /\ Len(b) = size - 1 + 1
    BY <2>1, SubBytes
  <2> QED BY <2>1, <2>2
<1> HIDE DEF b
<1>2. /\ data \in Seq(Nat) /\ Len(data) = 8 /\ \A i \in 1..size : data[i] = b[i]
  <2>1. Len(b) <= 8
    BY <1>1
  <2>2. /\ data \in Seq(Nat) /\ Len(data) = 8 /\ \A i \in 1..Len(b) : data[i] = b[i]
    BY <1>1, <2>1, FrameData
  <2> HIDE DEF data
  <2> QED BY <1>1, <2>2
<1>3. Frame(id, b).length = size
  BY <1>1, FrameHead
<1> HIDE DEF data
<1>4. got = b
  <2>1. /\ 1 \in Nat /\ size \in Nat /\ 1 > 0 /\ 1 <= size /\ size <= Len(data)
        /\ size - 1 + 1 = size /\ \A i \in 1..size : 1 + i - 1 = i
    BY <1>2
  <2>2. /\ got \in Seq(Nat) /\ Len(got) = size - 1 + 1
        /\ \A i \in 1..(size - 1 + 1) : got[i] = data[1 + i - 1]
    BY <1>2, <2>1, SubBytes
  <2> HIDE DEF got
  <2>3. Len(got) = size /\ \A i \in 1..size : got[i] = b[i]
    BY <1>2, <2>1, <2>2
  <2> QED BY <1>1, <2>2, <2>3, SameBytes
<1> QED BY <1>3, <1>4 DEF data, b, got

\* A position that the host commands lands in the target object.
LEMMA TargetIs ==
  ASSUME NEW od, NEW n, NEW p \in Seq(Nat), Len(p) = 4, <<TARGET, 0>> \in DOMAIN od,
         od[<<RPDO1_MAP, 0>>] = Small(1), od[<<RPDO1_MAP, 1>>] = PdoMapEntry(TARGET, 0, 32)
  PROVE  Applied(od, RPDO1_MAP, TargetPositionFrame(n, p))[<<TARGET, 0>>] = p
<1> DEFINE E == Entries(od, RPDO1_MAP)
           data == Frame(RPDO1 + n, SubSeq(p, 1, 4)).data
<1>1. E[1].key = <<TARGET, 0>> /\ E[1].bytes = 32 \div 8
  <2>1. TARGET \in Indexes
    BY DEF Indexes
  <2>2. 1 \in 1..2 /\ 1 \in 1..1 /\ 32 \in Nat
    OBVIOUS
  <2>a. /\ Holds(od, RPDO1_MAP, 1)
        /\ Maps(od, RPDO1_MAP, 1, TARGET, 32)
    BY DEF Holds, Maps
  <2>4. E[1] = [key |-> <<TARGET, 0>>, bytes |-> 32 \div 8]
    <3>1. PICK k \in 1..2 : k = 1
      BY <2>2
    <3>2. PICK i \in 1..k : i = 1
      BY <3>1
    <3>3. Holds(od, RPDO1_MAP, k) /\ Maps(od, RPDO1_MAP, i, TARGET, 32)
      BY <2>a, <3>1, <3>2
    <3>4. Entries(od, RPDO1_MAP)[i] = [key |-> <<TARGET, 0>>, bytes |-> 32 \div 8]
      BY <2>1, <2>2, <3>3, MappedIs
    <3> QED BY <3>2, <3>4
  <2> HIDE DEF E
  <2> QED BY <2>4
<1>2. 32 \div 8 = 4
  OBVIOUS
<1>3. Applied(od, RPDO1_MAP, TargetPositionFrame(n, p)) =
        [od EXCEPT ![E[1].key] = SubSeq(data, 1, E[1].bytes)]
  BY Zenon DEF Applied, TargetPositionFrame, PutLe
<1>4. SubSeq(data, 1, 4) = p
  <2>1. SubSeq(data, 1, 4) = SubSeq(p, 1, 4)
    <3>1. 4 \in 1..4
      OBVIOUS
    <3> QED BY <3>1, FirstBytes
  <2> QED BY <2>1, WholeWord
<1> HIDE DEF E, data
<1>5. Applied(od, RPDO1_MAP, TargetPositionFrame(n, p)) = [od EXCEPT ![<<TARGET, 0>>] = p]
  BY <1>1, <1>2, <1>3, <1>4
<1> QED BY <1>5

\* What a drive tells about itself is not what configures it.
Mapping == {RPDO1_COMM, RPDO1_MAP, TPDO1_COMM, TPDO1_MAP, TPDO2_COMM, TPDO2_MAP} \X {0, 1, 2}

LEMMA Configuring ==
  /\ <<POSITION, 0>> \in Keys /\ <<VELOCITY, 0>> \in Keys /\ <<STATUS, 0>> \in Keys
  /\ <<TARGET, 0>> \in Keys
  /\ <<POSITION, 0>> # <<VELOCITY, 0>> /\ <<POSITION, 0>> # <<STATUS, 0>>
  /\ <<VELOCITY, 0>> # <<STATUS, 0>>
  /\ Mapping \subseteq Keys
  /\ \A key \in Mapping :
       key # <<POSITION, 0>> /\ key # <<VELOCITY, 0>> /\ key # <<STATUS, 0>>
<1>1. /\ POSITION \in Indexes /\ VELOCITY \in Indexes
      /\ STATUS \in Indexes /\ TARGET \in Indexes
  BY DEF Indexes
<1>2. POSITION # VELOCITY /\ POSITION # STATUS /\ VELOCITY # STATUS
  BY DEF POSITION, VELOCITY, STATUS
<1>3. \A index \in {RPDO1_COMM, RPDO1_MAP, TPDO1_COMM, TPDO1_MAP, TPDO2_COMM, TPDO2_MAP} :
        index \in Indexes /\ index # POSITION /\ index # VELOCITY /\ index # STATUS
  <2>1. \A index \in {RPDO1_COMM, RPDO1_MAP, TPDO1_COMM, TPDO1_MAP, TPDO2_COMM, TPDO2_MAP} :
          index # POSITION /\ index # VELOCITY /\ index # STATUS
    BY DEF POSITION, VELOCITY, STATUS,
           RPDO1_COMM, RPDO1_MAP, TPDO1_COMM, TPDO1_MAP, TPDO2_COMM, TPDO2_MAP
  <2>2. \A index \in {RPDO1_COMM, RPDO1_MAP, TPDO1_COMM, TPDO1_MAP, TPDO2_COMM, TPDO2_MAP} :
          index \in Indexes
    BY DEF Indexes
  <2> QED BY <2>1, <2>2
<1>4. 0 \in {0, 1, 2}
  OBVIOUS
<1>5. Mapping \subseteq Keys
  BY <1>3 DEF Keys, Mapping
<1>6. ASSUME NEW key \in Mapping
      PROVE  key # <<POSITION, 0>> /\ key # <<VELOCITY, 0>> /\ key # <<STATUS, 0>>
  <2>1. PICK index \in {RPDO1_COMM, RPDO1_MAP, TPDO1_COMM, TPDO1_MAP, TPDO2_COMM, TPDO2_MAP},
             i \in {0, 1, 2} : key = <<index, i>>
    BY DEF Mapping
  <2> QED BY <1>3, <2>1
<1> QED BY <1>1, <1>2, <1>4, <1>5, <1>6 DEF Keys

LEMMA ConfigureStep ==
  ASSUME Configure
  PROVE  MappedIsParsed'
<1>1. PICK n \in NodeNumbers \intersect PxxNodes, entries \in 0..2, p \in Words, v \in Words :
        LET od == [Configured(Dictionary(entries), n) EXCEPT
                     ![<<POSITION, 0>>] = p, ![<<VELOCITY, 0>>] = v, ![<<STATUS, 0>>] = v]
        IN Calling([name |-> "configure_node", node |-> n, position |-> p, velocity |-> v],
                   [od |-> od, motion |-> Sent(od, TPDO1_COMM, TPDO1_MAP),
                    status |-> Sent(od, TPDO2_COMM, TPDO2_MAP),
                    commanded |-> Applied(od, RPDO1_MAP, TargetPositionFrame(n, p))])
  BY Zenon DEF Configure
<1> DEFINE c == Configured(Dictionary(entries), n)
           od == [c EXCEPT ![<<POSITION, 0>>] = p, ![<<VELOCITY, 0>>] = v, ![<<STATUS, 0>>] = v]
           motion == Sent(od, TPDO1_COMM, TPDO1_MAP)
           status == Sent(od, TPDO2_COMM, TPDO2_MAP)
           commanded == Applied(od, RPDO1_MAP, TargetPositionFrame(n, p))
<1>2. /\ call'.node = n /\ call'.position = p /\ call'.velocity = v
      /\ outcome'.od = od /\ outcome'.motion = motion /\ outcome'.status = status
      /\ outcome'.commanded = commanded
  <2> HIDE DEF od
  <2>1. /\ call' = [name |-> "configure_node", node |-> n, position |-> p, velocity |-> v]
        /\ outcome' = [od |-> od, motion |-> Sent(od, TPDO1_COMM, TPDO1_MAP),
                       status |-> Sent(od, TPDO2_COMM, TPDO2_MAP),
                       commanded |-> Applied(od, RPDO1_MAP, TargetPositionFrame(n, p))]
    BY <1>1, Zenon DEF Calling, od
  <2> QED BY <2>1
<1>3. n \in 1..127
  BY DEF PxxNodes
<1>4. p \in Seq(Nat) /\ Len(p) = 4 /\ v \in Seq(Nat) /\ Len(v) = 4
  BY WordIs
<1>5. /\ c[<<RPDO1_COMM, 1>>] = Cob(RPDO1 + n) /\ c[<<RPDO1_COMM, 2>>] = Small(1)
      /\ c[<<RPDO1_MAP, 0>>] = Small(1)
      /\ c[<<RPDO1_MAP, 1>>] = PdoMapEntry(TARGET, 0, 32)
      /\ c[<<TPDO1_COMM, 1>>] = Cob(TPDO1 + n) /\ c[<<TPDO1_COMM, 2>>] = Small(1)
      /\ c[<<TPDO1_MAP, 0>>] = Small(2)
      /\ c[<<TPDO1_MAP, 1>>] = PdoMapEntry(POSITION, 0, 32)
      /\ c[<<TPDO1_MAP, 2>>] = PdoMapEntry(VELOCITY, 0, 32)
      /\ c[<<TPDO2_COMM, 1>>] = Cob(TPDO2 + n) /\ c[<<TPDO2_COMM, 2>>] = Small(1)
      /\ c[<<TPDO2_MAP, 0>>] = Small(1)
      /\ c[<<TPDO2_MAP, 1>>] = PdoMapEntry(STATUS, 0, 16)
      /\ DOMAIN c = Keys
  <2> DEFINE old == Dictionary(entries)
  <2>1. DOMAIN old = Keys
    BY DEF Dictionary
  <2> HIDE DEF old
  <2>2. Keys \subseteq DOMAIN old
    BY <2>1
  <2> QED BY <1>3, <2>1, <2>2, ConfiguredIs, Zenon DEF old
<1> HIDE DEF c
\* What the drive has since put into its objects has not unconfigured it.
<1>6. /\ \A key \in Mapping : od[key] = c[key]
      /\ od[<<POSITION, 0>>] = p /\ od[<<VELOCITY, 0>>] = v /\ od[<<STATUS, 0>>] = v
      /\ <<TARGET, 0>> \in DOMAIN od
  <2>1. DOMAIN c = Keys
    BY <1>5
  <2>2. ASSUME NEW key \in Mapping
        PROVE  od[key] = c[key]
    BY <2>1, Configuring
  <2>3. od[<<POSITION, 0>>] = p /\ od[<<VELOCITY, 0>>] = v /\ od[<<STATUS, 0>>] = v
    BY <2>1, Configuring
  <2>4. <<TARGET, 0>> \in DOMAIN od
    BY <2>1, Configuring
  <2> QED BY <2>2, <2>3, <2>4
<1> HIDE DEF od
<1>7. /\ od[<<RPDO1_COMM, 1>>] = Cob(RPDO1 + n) /\ od[<<RPDO1_COMM, 2>>] = Small(1)
      /\ od[<<RPDO1_MAP, 0>>] = Small(1)
      /\ od[<<RPDO1_MAP, 1>>] = PdoMapEntry(TARGET, 0, 32)
      /\ od[<<TPDO1_COMM, 1>>] = Cob(TPDO1 + n) /\ od[<<TPDO1_COMM, 2>>] = Small(1)
      /\ od[<<TPDO1_MAP, 0>>] = Small(2)
      /\ od[<<TPDO1_MAP, 1>>] = PdoMapEntry(POSITION, 0, 32)
      /\ od[<<TPDO1_MAP, 2>>] = PdoMapEntry(VELOCITY, 0, 32)
      /\ od[<<TPDO2_COMM, 1>>] = Cob(TPDO2 + n) /\ od[<<TPDO2_COMM, 2>>] = Small(1)
      /\ od[<<TPDO2_MAP, 0>>] = Small(1)
      /\ od[<<TPDO2_MAP, 1>>] = PdoMapEntry(STATUS, 0, 16)
  <2>1. \A index \in {RPDO1_COMM, RPDO1_MAP, TPDO1_COMM, TPDO1_MAP, TPDO2_COMM, TPDO2_MAP} :
          \A i \in {0, 1, 2} : <<index, i>> \in Mapping
    BY DEF Mapping
  <2>2. \A index \in {RPDO1_COMM, RPDO1_MAP, TPDO1_COMM, TPDO1_MAP, TPDO2_COMM, TPDO2_MAP} :
          \A i \in {0, 1, 2} : od[<<index, i>>] = c[<<index, i>>]
    BY <1>6, <2>1
  <2> QED BY <1>5, <2>2
<1>8. RPDO1 + n \in Nat /\ TPDO1 + n \in Nat /\ TPDO2 + n \in Nat
  BY <1>3 DEF RPDO1, TPDO1, TPDO2
<1>9. /\ IsOn(od, RPDO1_COMM) /\ IsOn(od, TPDO1_COMM) /\ IsOn(od, TPDO2_COMM)
      /\ CobOf(od, RPDO1_COMM) = RPDO1 + n
  BY <1>7, <1>8, CobIs DEF IsOn
<1>10. motion = Frame(TPDO1 + n, p \o v) /\ status = Frame(TPDO2 + n, SubSeq(v, 1, 2))
  <2>1. motion = Frame(TPDO1 + n, p \o v)
    BY <1>4, <1>6, <1>7, <1>8, MotionIs, ZenonT(60)
  <2>2. status = Frame(TPDO2 + n, SubSeq(v, 1, 2))
    BY <1>4, <1>6, <1>7, <1>8, StatusIs, ZenonT(60)
  <2> QED BY <2>1, <2>2
<1>11. commanded[<<TARGET, 0>>] = p
  BY <1>4, <1>6, <1>7, TargetIs
<1> HIDE DEF motion, status, commanded
<1>12. /\ motion.length = 8 /\ GetLe(motion.data, 0, 4) = p /\ GetLe(motion.data, 4, 4) = v
  BY <1>4, <1>10, TwoWords
<1>13. status.length = 2 /\ GetLe(status.data, 0, 2) = SubSeq(v, 1, 2)
  <2>1. 2 \in 1..4
    OBVIOUS
  <2>2. status.length = 2 /\ SubSeq(status.data, 1, 2) = SubSeq(v, 1, 2)
    BY <1>4, <1>10, <2>1, FirstBytes
  <2> QED BY <2>2 DEF GetLe
<1>14. /\ motion.id = TPDO1 + n /\ motion.extended = FALSE
       /\ status.id = TPDO2 + n /\ status.extended = FALSE
  BY <1>10, FrameHead
<1>15. /\ FunctionOf(TPDO1 + n) = TPDO1 /\ NodeOf(TPDO1 + n) = n
       /\ FunctionOf(TPDO2 + n) = TPDO2 /\ NodeOf(TPDO2 + n) = n
  BY <1>3, CobId
<1>16. Taken(motion) = "motion" /\ Taken(status) = "status"
  <2>1. motion.length >= 8 /\ status.length >= 2
    BY <1>12, <1>13
  <2> QED BY <1>14, <1>15, <2>1, TakenIs
<1>17. /\ ParseMotionFeedback(motion) = [node |-> n, position |-> p, velocity |-> v]
       /\ ParseStatusFeedback(status) = [node |-> n, status |-> SubSeq(v, 1, 2)]
  BY <1>12, <1>13, <1>14, <1>15 DEF ParseMotionFeedback, ParseStatusFeedback
<1>18. TargetPositionFrame(n, p).id = RPDO1 + n
  BY FrameHead DEF TargetPositionFrame
<1> QED BY <1>2, <1>9, <1>11, <1>16, <1>17, <1>18 DEF MappedIsParsed

-----------------------------------------------------------------------------
(* A plan.                                                                  *)

LEMMA Growing ==
  ASSUME NEW a \in Nat, NEW b \in Nat, a <= b
  PROVE  Square(a) <= Square(b) /\ Square(a) \in Nat
<1>1. a * a <= a * b /\ a * b <= b * b /\ a * a \in Nat
  BY SMT
<1> QED BY <1>1, SMT DEF Square

LEMMA NoSmaller ==
  ASSUME NEW a \in Nat, NEW b \in Nat \ {0}
  PROVE  a + 1 <= (a + 1) * b
<1>1. a + 1 \in Nat /\ b - 1 \in Nat /\ (a + 1) * b = (a + 1) * (b - 1) + (a + 1)
  BY SMT
<1>2. (a + 1) * (b - 1) \in Nat
  BY <1>1, SMT
<1>3. QED BY <1>1, <1>2, SMT

\* Whole steps: as many as fit.
LEMMA StepsAre ==
  ASSUME NEW d \in Nat, NEW r \in Nat \ {0}
  PROVE  /\ Steps(d, r) \in 0..d
         /\ Square(Steps(d, r) * r) <= d /\ d < Square((Steps(d, r) + 1) * r)
<1> DEFINE Fit == { n \in 0..d : Square(n * r) <= d }
           Above == { n + 1 : n \in Fit }
<1>1. 0 \in Fit
  BY DEF Square
<1>2. Above \in SUBSET (1..(d + 1)) /\ Above # {} /\ d + 1 \in Nat
  BY <1>1
<1>3. PICK a \in Above : \A b \in Above : b <= a
  <2> HIDE DEF Above
  <2> QED BY <1>2, GreatestExists
<1>4. PICK n \in Fit : a = n + 1
  OBVIOUS
<1>5. \A m \in Fit : m <= n
  <2>1. \A m \in Fit : m + 1 \in Above
    OBVIOUS
  <2>2. Fit \subseteq Int
    OBVIOUS
  <2> HIDE DEF Fit, Above
  <2> QED BY <1>3, <1>4, <2>1, <2>2
<1>6. n \in 0..d /\ Square(n * r) <= d
  OBVIOUS
<1>7. d < Square((n + 1) * r)
  <2>1. n + 1 \in Nat /\ (n + 1) * r \in Nat /\ Square((n + 1) * r) \in Nat
    BY <1>6, SMT DEF Square
  <2>2. CASE n < d
    <3>1. n + 1 \notin Fit /\ n + 1 \in 0..d
      BY <1>5, <1>6, <2>2
    <3> QED BY <2>1, <3>1
  <2>3. CASE n = d
    <3>1. d + 1 <= (d + 1) * r
      BY NoSmaller
    <3>2. Square(d + 1) <= Square((d + 1) * r)
      BY <2>1, <2>3, <3>1, Growing
    <3>3. d < Square(d + 1)
      BY SMT DEF Square
    <3>4. Square(d + 1) \in Nat
      BY SMT DEF Square
    <3> QED BY <2>1, <2>3, <3>2, <3>3, <3>4
  <2> QED BY <1>6, <2>2, <2>3
<1>8. \E k \in 0..d : Square(k * r) <= d /\ d < Square((k + 1) * r)
  BY <1>6, <1>7
<1> QED BY <1>8, Zenon DEF Steps

\* However the quotient is cut, the steps fit, and twice their length is enough.
LEMMA LoopsAre ==
  ASSUME NEW d \in Nat, NEW r \in Nat \ {0}, NEW n \in Loops(d, r)
  PROVE  /\ n \in Nat /\ Square(n * r) <= d
         /\ n = 0 => d <= Square(r)
         /\ n # 0 => d <= Square(2 * n * r)
<1> DEFINE m == Steps(d, r)
<1>1. m \in Nat /\ Square(m * r) <= d /\ d < Square((m + 1) * r)
  BY StepsAre
<1>2. n = m \/ (n = m - 1 /\ m > 0 /\ Square(m * r) = d)
  <2>1. Loops(d, r) = {m} \union (IF m > 0 /\ Square(m * r) = d THEN {m - 1} ELSE {})
    <3>1. r > 0 /\ r # 0 /\ ~(r < 0)
      OBVIOUS
    <3> QED BY <3>1, Zenon DEF Loops
  <2> HIDE DEF m
  <2> QED BY <2>1
<1> HIDE DEF m
<1>3. n \in Nat /\ n <= m /\ m <= n + 1
  BY <1>1, <1>2
<1>4. Square(n * r) <= d
  <2>1. n * r <= m * r /\ n * r \in Nat /\ m * r \in Nat
    BY <1>1, <1>3, SMT
  <2>2. Square(n * r) <= Square(m * r) /\ Square(n * r) \in Nat
    BY <2>1, Growing
  <2>3. Square(m * r) \in Nat
    BY <2>1, Growing
  <2> QED BY <1>1, <2>2, <2>3
<1>5. d <= Square((n + 1) * r)
  <2>1. Square((n + 1) * r) \in Int
    BY <1>3, SMT DEF Square
  <2> QED BY <1>1, <1>2, <2>1, SMT
<1>6. ASSUME n = 0
      PROVE  d <= Square(r)
  <2>1. (n + 1) * r = r
    BY <1>6, SMT
  <2> QED BY <1>5, <2>1
<1>7. ASSUME n # 0
      PROVE  d <= Square(2 * n * r)
  <2>1. (n + 1) * r <= 2 * n * r /\ (n + 1) * r \in Nat /\ 2 * n * r \in Nat
    BY <1>3, <1>7, SMT
  <2>2. /\ Square((n + 1) * r) <= Square(2 * n * r) /\ Square((n + 1) * r) \in Nat
        /\ Square(2 * n * r) \in Nat
    BY <2>1, Growing
  <2> QED BY <1>5, <2>2
<1> QED BY <1>3, <1>4, <1>6, <1>7
\* The poses of a path of n steps, and the goal after them.
\* Pose i of the n on the way, and the goal's.
Pose(start, goal, n, i) ==
  [x |-> start.x * n + (goal.x - start.x) * (i - 1),
   y |-> start.y * n + (goal.y - start.y) * (i - 1), over |-> n]
End(goal) == [x |-> goal.x, y |-> goal.y, over |-> 1]

LEMMA PathIs ==
  ASSUME NEW start \in Points, NEW goal \in Points, NEW n \in Nat, NEW path,
         path = Appended(Line(start, goal, n), goal)
  PROVE  /\ Len(path) = n + 1 /\ path # <<>>
         /\ path[n + 1] = End(goal)
         /\ \A i \in 1..n : path[i] = Pose(start, goal, n, i)
<1> DEFINE line == Line(start, goal, n)
           last == [x |-> goal.x, y |-> goal.y, over |-> 1]
           Poses == [x : Int, y : Int, over : Nat]
<1>1. start.x \in Int /\ start.y \in Int /\ goal.x \in Int /\ goal.y \in Int
  BY CallsAssumption DEF Points
<1>2. line = [i \in 1..n |-> [x |-> start.x * n + (goal.x - start.x) * (i - 1),
                              y |-> start.y * n + (goal.y - start.y) * (i - 1), over |-> n]]
  BY DEF Line
<1>3. line \in Seq(Poses) /\ Len(line) = n
  <2>1. ASSUME NEW i \in 1..n
        PROVE  [x |-> start.x * n + (goal.x - start.x) * (i - 1),
                y |-> start.y * n + (goal.y - start.y) * (i - 1), over |-> n] \in Poses
    <3>1. /\ start.x * n + (goal.x - start.x) * (i - 1) \in Int
          /\ start.y * n + (goal.y - start.y) * (i - 1) \in Int
      BY <1>1
    <3> QED BY <3>1
  <2> HIDE DEF Poses
  <2>2. line \in [1..n -> Poses]
    BY <1>2, <2>1
  <2> HIDE DEF line
  <2> QED BY <2>2
<1>4. last \in Poses
  BY <1>1
<1>5. path = Append(line, last)
  BY DEF Appended
<1>6. \A i \in 1..n : line[i] = [x |-> start.x * n + (goal.x - start.x) * (i - 1),
                                 y |-> start.y * n + (goal.y - start.y) * (i - 1), over |-> n]
  BY <1>2, Zenon
<1> HIDE DEF line, last, Poses
<1>7. /\ path \in Seq(Poses) /\ Len(path) = n + 1 /\ path[n + 1] = last
      /\ \A i \in 1..n : path[i] = line[i]
  BY <1>3, <1>4, <1>5, AppendAdds
<1>8. path # <<>>
  BY <1>7
<1> QED BY <1>6, <1>7, <1>8 DEF last, End, Pose

\* n steps of a distance: what they measure, times the denominators.
LEMMA Step ==
  ASSUME NEW start, NEW goal, start.x \in Int, start.y \in Int, goal.x \in Int, goal.y \in Int,
         NEW n \in Nat, NEW i \in Int
  PROVE  /\ Gap(Pose(start, goal, n, i), Pose(start, goal, n, i + 1)) =
              n * n * Apart(start, goal)
         /\ Scale(Pose(start, goal, n, i), Pose(start, goal, n, i + 1)) = n * n * (n * n)
<1> DEFINE sx == start.x
           sy == start.y
           gx == goal.x
           gy == goal.y
           pose(k) == [x |-> sx * n + (gx - sx) * (k - 1),
                       y |-> sy * n + (gy - sy) * (k - 1), over |-> n]
           d == Square(gx - sx) + Square(gy - sy)
<1>a. /\ Pose(start, goal, n, i) = pose(i) /\ Pose(start, goal, n, i + 1) = pose(i + 1)
      /\ Apart(start, goal) = d
  BY DEF Pose, Apart
<1>b. sx \in Int /\ sy \in Int /\ gx \in Int /\ gy \in Int
  OBVIOUS
<1> HIDE DEF sx, sy, gx, gy
<1>1. /\ Gap(pose(i), pose(i + 1)) =
           Square((sx * n + (gx - sx) * (i + 1 - 1)) * n - (sx * n + (gx - sx) * (i - 1)) * n)
           + Square((sy * n + (gy - sy) * (i + 1 - 1)) * n - (sy * n + (gy - sy) * (i - 1)) * n)
      /\ Scale(pose(i), pose(i + 1)) = Square(n * n)
  BY DEF Gap, Scale
<1>2. \A s, g \in Int :
        (s * n + (g - s) * (i + 1 - 1)) * n - (s * n + (g - s) * (i - 1)) * n = (g - s) * n
  BY SMT
<1>3. \A e \in Int : Square(e * n) = n * n * Square(e)
  BY SMT DEF Square
<1>4. Gap(pose(i), pose(i + 1)) = n * n * Square(gx - sx) + n * n * Square(gy - sy)
  BY <1>b, <1>1, <1>2, <1>3
<1>5. Gap(pose(i), pose(i + 1)) = n * n * d
  <2>1. Square(gx - sx) \in Int /\ Square(gy - sy) \in Int
    BY <1>b DEF Square
  <2>2. \A e, f, m \in Int : m * e + m * f = m * (e + f)
    BY SMT
  <2>3. n * n \in Int
    OBVIOUS
  <2> HIDE DEF pose
  <2> QED BY <1>4, <2>1, <2>2, <2>3
<1>6. Scale(pose(i), pose(i + 1)) = n * n * (n * n)
  BY <1>1 DEF Square
<1> HIDE DEF pose, d
<1> QED BY <1>a, <1>5, <1>6

\* The last one goes to the goal itself.
LEMMA LastStep ==
  ASSUME NEW start, NEW goal, start.x \in Int, start.y \in Int, goal.x \in Int, goal.y \in Int,
         NEW n \in Nat
  PROVE  /\ Gap(Pose(start, goal, n, n), End(goal)) = Apart(start, goal)
         /\ Scale(Pose(start, goal, n, n), End(goal)) = n * n
<1> DEFINE sx == start.x
           sy == start.y
           gx == goal.x
           gy == goal.y
           pose(k) == [x |-> sx * n + (gx - sx) * (k - 1),
                       y |-> sy * n + (gy - sy) * (k - 1), over |-> n]
           end == [x |-> gx, y |-> gy, over |-> 1]
           d == Square(gx - sx) + Square(gy - sy)
<1>a. Pose(start, goal, n, n) = pose(n) /\ End(goal) = end /\ Apart(start, goal) = d
  BY DEF Pose, End, Apart
<1>b. sx \in Int /\ sy \in Int /\ gx \in Int /\ gy \in Int
  OBVIOUS
<1> HIDE DEF sx, sy, gx, gy
<1>1. /\ Gap(pose(n), end) =
           Square(gx * n - (sx * n + (gx - sx) * (n - 1)) * 1)
           + Square(gy * n - (sy * n + (gy - sy) * (n - 1)) * 1)
      /\ Scale(pose(n), end) = Square(n * 1)
  BY DEF Gap, Scale
<1>2. \A s, g \in Int : g * n - (s * n + (g - s) * (n - 1)) * 1 = g - s
  BY SMT
<1>3. Gap(pose(n), end) = d
  BY <1>b, <1>1, <1>2
<1>4. Scale(pose(n), end) = n * n
  BY <1>1 DEF Square
<1> HIDE DEF pose, end, d
<1> QED BY <1>a, <1>3, <1>4

LEMMA ApartIs ==
  ASSUME NEW start \in Points, NEW goal \in Points
  PROVE  Apart(start, goal) \in Nat
<1>1. start.x \in Int /\ start.y \in Int /\ goal.x \in Int /\ goal.y \in Int
  BY CallsAssumption DEF Points
<1>2. \A e \in Int : Square(e) \in Nat
  BY SMT DEF Square
<1>3. Square(goal.x - start.x) \in Nat /\ Square(goal.y - start.y) \in Nat
  BY <1>1, <1>2
<1> QED BY <1>3 DEF Apart

LEMMA PlanLeads ==
  ASSUME NEW start \in Points, NEW goal \in Points, NEW n \in Nat, NEW path,
         path = Appended(Line(start, goal, n), goal)
  PROVE  /\ path # <<>> /\ At(path[Len(path)], goal)
         /\ Len(path) > 1 => At(path[1], start)
<1>1. start.x \in Int /\ start.y \in Int /\ goal.x \in Int /\ goal.y \in Int
  BY CallsAssumption DEF Points
<1>2. /\ Len(path) = n + 1 /\ path # <<>>
      /\ path[n + 1] = End(goal)
      /\ \A i \in 1..n : path[i] = Pose(start, goal, n, i)
  BY PathIs
<1>3. At(End(goal), goal)
  BY <1>1 DEF At, End
<1>4. ASSUME Len(path) > 1
      PROVE  At(path[1], start)
  <2>1. 1 \in 1..n
    BY <1>2, <1>4
  <2>2. path[1] = [x |-> start.x * n + (goal.x - start.x) * (1 - 1),
                   y |-> start.y * n + (goal.y - start.y) * (1 - 1), over |-> n]
    BY <1>2, <2>1 DEF Pose
  <2>3. \A s, e \in Int : s * n + e * (1 - 1) = s * n
    BY SMT
  <2>4. goal.x - start.x \in Int /\ goal.y - start.y \in Int
    BY <1>1
  <2>5. path[1] = [x |-> start.x * n, y |-> start.y * n, over |-> n]
    BY <1>1, <2>2, <2>3, <2>4
  <2> QED BY <2>5 DEF At
<1> QED BY <1>2, <1>3, <1>4

\* A path of n steps of a distance of n * n * d squared, over their number.
StepsOf(path, n, d) ==
  /\ Len(path) = n + 1
  /\ \A i \in 1..n : i = n => /\ Gap(path[i], path[i + 1]) = d
                             /\ Scale(path[i], path[i + 1]) = n * n
  /\ \A i \in 1..n : i # n => /\ Gap(path[i], path[i + 1]) = n * n * d
                             /\ Scale(path[i], path[i + 1]) = n * n * (n * n)

\* What PathEven asks of a path.
EvenAt(path, r, d) ==
  /\ \A i \in 1..Len(path)-1 :
       /\ Gap(path[i], path[i+1]) >= Square(r) * Scale(path[i], path[i+1])
       /\ Gap(path[i], path[i+1]) <= Square(2 * r) * Scale(path[i], path[i+1])
  /\ Len(path) = 1 => d <= Square(r)

LEMMA PlanGaps ==
  ASSUME NEW start \in Points, NEW goal \in Points, NEW n \in Nat, NEW path,
         path = Appended(Line(start, goal, n), goal)
  PROVE  StepsOf(path, n, Apart(start, goal))
<1>1. start.x \in Int /\ start.y \in Int /\ goal.x \in Int /\ goal.y \in Int
  BY CallsAssumption DEF Points
<1>2. /\ Len(path) = n + 1
      /\ path[n + 1] = End(goal)
      /\ \A i \in 1..n : path[i] = Pose(start, goal, n, i)
  BY PathIs
<1>3. ASSUME NEW i \in 1..n, i = n
      PROVE  /\ Gap(path[i], path[i + 1]) = Apart(start, goal)
             /\ Scale(path[i], path[i + 1]) = n * n
  <2>1. path[i] = Pose(start, goal, n, n) /\ path[i + 1] = End(goal)
    BY <1>2, <1>3
  <2>2. /\ Gap(Pose(start, goal, n, n), End(goal)) = Apart(start, goal)
        /\ Scale(Pose(start, goal, n, n), End(goal)) = n * n
    BY <1>1, LastStep
  <2> QED BY <2>1, <2>2, Zenon
<1>4. ASSUME NEW i \in 1..n, i # n
      PROVE  /\ Gap(path[i], path[i + 1]) = n * n * Apart(start, goal)
             /\ Scale(path[i], path[i + 1]) = n * n * (n * n)
  <2>1. i + 1 \in 1..n /\ i \in Int
    BY <1>4
  <2>2. path[i] = Pose(start, goal, n, i) /\ path[i + 1] = Pose(start, goal, n, i + 1)
    BY <1>2, <2>1
  <2>3. /\ Gap(Pose(start, goal, n, i), Pose(start, goal, n, i + 1)) =
             n * n * Apart(start, goal)
        /\ Scale(Pose(start, goal, n, i), Pose(start, goal, n, i + 1)) = n * n * (n * n)
    BY <1>1, <2>1, Step
  <2> QED BY <2>2, <2>3, Zenon
<1> QED BY <1>2, <1>3, <1>4 DEF StepsOf

\* Distances between one and two resolutions, whatever the rounding.
LEMMA EvenNumbers ==
  ASSUME NEW d \in Nat, NEW r \in Nat \ {0}, NEW n \in Loops(d, r),
         NEW Gaps, NEW Scales, NEW length, length = n + 1,
         \A i \in 1..n : IF i = n THEN Gaps[i] = d /\ Scales[i] = n * n
                        ELSE Gaps[i] = n * n * d /\ Scales[i] = n * n * (n * n)
  PROVE  /\ \A i \in 1..length-1 : /\ Gaps[i] >= Square(r) * Scales[i]
                                   /\ Gaps[i] <= Square(2 * r) * Scales[i]
         /\ length = 1 => d <= Square(r)
<1>1. /\ n \in Nat /\ Square(n * r) <= d
      /\ n = 0 => d <= Square(r)
      /\ n # 0 => d <= Square(2 * n * r)
  BY LoopsAre
<1>2. length = 1 => d <= Square(r)
  BY <1>1
<1>3. 1..length-1 = 1..n
  BY <1>1
<1>4. ASSUME n # 0
      PROVE  /\ d >= Square(r) * (n * n) /\ d <= Square(2 * r) * (n * n)
             /\ n * n * d >= Square(r) * (n * n * (n * n))
             /\ n * n * d <= Square(2 * r) * (n * n * (n * n))
  <2>1. /\ Square(n * r) = Square(r) * (n * n)
        /\ Square(2 * n * r) = Square(2 * r) * (n * n)
    BY <1>1, SMT DEF Square
  <2>2. /\ d >= Square(r) * (n * n) /\ d <= Square(2 * r) * (n * n)
    BY <1>1, <1>4, <2>1
  <2>3. Square(r) * (n * n) \in Nat /\ Square(2 * r) * (n * n) \in Nat /\ n * n \in Nat
    BY <1>1, SMT DEF Square
  <2>4. \A a, b, c \in Nat : a <= b => c * a <= c * b
    BY SMT
  <2>5. /\ n * n * (Square(r) * (n * n)) <= n * n * d
        /\ n * n * d <= n * n * (Square(2 * r) * (n * n))
    BY  <2>2, <2>3, <2>4
  <2>6. \A a, c \in Nat : c * (a * c) = a * (c * c)
    BY SMT
  <2>7. Square(r) \in Nat /\ Square(2 * r) \in Nat
    BY SMT DEF Square
  <2>8. /\ n * n * (Square(r) * (n * n)) = Square(r) * (n * n * (n * n))
        /\ n * n * (Square(2 * r) * (n * n)) = Square(2 * r) * (n * n * (n * n))
    BY <2>3, <2>6, <2>7
  <2> QED BY <2>2, <2>5, <2>8
<1>5. \A i \in 1..n : /\ Gaps[i] >= Square(r) * Scales[i]
                     /\ Gaps[i] <= Square(2 * r) * Scales[i]
  BY <1>1, <1>4
<1> QED BY <1>2, <1>3, <1>5

LEMMA PlanEven ==
  ASSUME NEW d \in Nat, NEW r \in Nat \ {0}, NEW n \in Loops(d, r),
         NEW path, StepsOf(path, n, d)
  PROVE  EvenAt(path, r, d)
<1> DEFINE length == Len(path)
           Gaps == [i \in 1..n |-> Gap(path[i], path[i + 1])]
           Scales == [i \in 1..n |-> Scale(path[i], path[i + 1])]
<1>1. /\ length = n + 1
      /\ \A i \in 1..n : IF i = n THEN Gaps[i] = d /\ Scales[i] = n * n
                          ELSE Gaps[i] = n * n * d /\ Scales[i] = n * n * (n * n)
  BY DEF StepsOf
<1>2. /\ \A i \in 1..length-1 : /\ Gaps[i] >= Square(r) * Scales[i]
                                /\ Gaps[i] <= Square(2 * r) * Scales[i]
      /\ length = 1 => d <= Square(r)
  <2> HIDE DEF length, Gaps, Scales
  <2> QED BY <1>1, EvenNumbers
<1>3. 1..length-1 = 1..n
  <2>1. n \in Nat
    BY LoopsAre
  <2> HIDE DEF length
  <2> QED BY <1>1, <2>1
<1> QED BY <1>2, <1>3 DEF EvenAt

LEMMA PlanStep ==
  ASSUME Plan
  PROVE  PathIsLine'
<1>1. PICK start \in Points, goal \in Points, resolution \in -1..MaxResolution :
        \E path \in Plans(start, goal, "map", resolution) :
          Calling([name |-> "createPlan", start |-> start, goal |-> goal,
                   resolution |-> resolution], [path |-> path])
  BY DEF Plan
<1>a. PICK path \in Plans(start, goal, "map", resolution) :
        Calling([name |-> "createPlan", start |-> start, goal |-> goal,
                 resolution |-> resolution], [path |-> path])
  BY <1>1
<1>2. /\ call'.start = start /\ call'.goal = goal /\ call'.resolution = resolution
      /\ outcome'.path = path
  BY <1>a DEF Calling
<1>3. ASSUME start.frame = "map", goal.frame = "map"
      PROVE  /\ path # <<>> /\ At(path[Len(path)], goal)
             /\ Len(path) > 1 => At(path[1], start)
  <2>1. PICK n \in Loops(Apart(start, goal), resolution) :
          path = Appended(Line(start, goal, n), goal)
    BY <1>3 DEF Plans
  <2>2. n \in Nat
    <3>1. CASE resolution > 0
      <4>1. resolution \in Nat \ {0} /\ Apart(start, goal) \in Nat
        <5>1. Apart(start, goal) \in Nat
          BY ApartIs
        <5> QED BY <3>1, <5>1
      <4> QED BY <2>1, <4>1, LoopsAre
    <3>2. CASE ~(resolution > 0)
      <4>1. Loops(Apart(start, goal), resolution) \in {{0, Huge}, {0}}
        <5>1. resolution = 0 \/ (resolution < 0 /\ resolution # 0)
          BY <3>2, CallsAssumption
        <5>2. resolution = 0 => ~(resolution < 0)
          OBVIOUS
        <5> QED BY <3>2, <5>1, <5>2, Zenon DEF Loops
      <4> QED BY <2>1, <4>1, StraightLineAssumption
    <3> QED BY <3>1, <3>2
  <2> QED BY <2>1, <2>2, PlanLeads
<1>4. ASSUME resolution > 0, path # <<>>
      PROVE  EvenAt(path, resolution, Apart(start, goal))
  <2>1. PICK n \in Loops(Apart(start, goal), resolution) :
          path = Appended(Line(start, goal, n), goal)
    BY <1>4 DEF Plans
  <2>2. resolution \in Nat \ {0}
    BY <1>4
  <2>3. Apart(start, goal) \in Nat
    BY ApartIs
  <2>4. n \in Nat
    BY <2>1, <2>2, <2>3, LoopsAre
  <2>5. StepsOf(path, n, Apart(start, goal))
    BY <2>1, <2>4, PlanGaps
  <2> QED BY <2>1, <2>2, <2>3, <2>5, PlanEven
<1>5. PathLeads'
  BY <1>2, <1>3, Zenon DEF PathLeads
<1>6. PathEven'
  BY <1>2, <1>4, Zenon DEF PathEven, EvenAt
<1> QED BY <1>5, <1>6 DEF PathIsLine
-----------------------------------------------------------------------------
(* The mock of the arm.                                                     *)

\* A command that stands is one that was given, as is a position but zero:
\* what deactivate() leaves and write() stores is safe for the next read().
MockInv ==
  call.name \in Mocks =>
    /\ outcome.servos \in [Joints -> Servo]
    /\ outcome.given \in [Joints -> SUBSET Angles]
    /\ \A j \in Joints :
         LET s == outcome.servos[j] IN
           /\ s.position \in {0} \union outcome.given[j]
           /\ s.command \in {NotCommanded} \union outcome.given[j]
           /\ call.name = "mock read" => s.velocity = s.position - outcome.before[j].position

LEMMA MockInvObeys ==
  ASSUME MockInv
  PROVE  MockObeys
<1>1. ASSUME call.name \in Mocks, NEW j \in Joints
      PROVE  outcome.servos[j] \in Servo
  BY <1>1 DEF MockInv
<1> QED BY <1>1 DEF MockInv, MockObeys

\* No angle is the mark of a joint without a command.
LEMMA ServoIs ==
  ASSUME NEW s, s \in Servo
  PROVE  /\ s = [command |-> s.command, position |-> s.position, velocity |-> s.velocity]
         /\ s.position \in Int /\ s.command \in Int
         /\ s.command # NotCommanded => s.command \in Angles
<1>1. NotCommanded = -1 /\ Angles \subseteq Nat
  BY MockAssumption DEF NotCommanded
<1>2. /\ s = [command |-> s.command, position |-> s.position, velocity |-> s.velocity]
      /\ s.position \in Angles \union {0} /\ s.command \in Angles \union {NotCommanded}
  BY DEF Servo
<1>3. s.position \in Int /\ s.command \in Int
  BY <1>1, <1>2
<1>4. s.command # NotCommanded => s.command \in Angles
  BY <1>2
<1> QED BY <1>2, <1>3, <1>4

LEMMA ServosStart ==
  /\ Constructed \in [Joints -> Servo]
  /\ None \in [Joints -> SUBSET Angles]
  /\ \A j \in Joints : Constructed[j].position = 0 /\ Constructed[j].command = NotCommanded
BY DEF Constructed, None, Servo, NotCommanded

\* read() moves each joint to its command if it has one.
LEMMA ServosRead ==
  ASSUME NEW servos \in [Joints -> Servo], NEW period \in {0, 1}
  PROVE  /\ Read(servos, period) \in [Joints -> Servo]
         /\ \A j \in Joints :
              LET s == servos[j]
                  r == Read(servos, period)[j]
              IN /\ r.command = s.command
                 /\ r.position \in {s.position, s.command}
                 /\ s.command = NotCommanded => r.position = s.position
                 /\ period = 1 => r.velocity = r.position - s.position
<1>1. ASSUME NEW j \in Joints
      PROVE  LET s == servos[j]
                 r == Read(servos, period)[j]
             IN /\ r \in Servo
                /\ r.command = s.command
                /\ r.position \in {s.position, s.command}
                /\ s.command = NotCommanded => r.position = s.position
                /\ period = 1 => r.velocity = r.position - s.position
  <2> DEFINE s == servos[j]
             r == Read(servos, period)[j]
  <2>1. s \in Servo
    OBVIOUS
  <2>2. CASE s.command = NotCommanded
    <3>1. r = [s EXCEPT !.velocity = 0]
      BY <2>2 DEF Read
    <3>2. r = [command |-> s.command, position |-> s.position, velocity |-> 0]
      BY <2>1, <3>1, ServoIs
    <3>3. s.position - s.position = 0
      BY <2>1, ServoIs
    <3>4. r \in Servo
      BY <2>1, <3>2 DEF Servo
    <3> QED BY <3>2, <3>3, <3>4
  <2>3. CASE s.command # NotCommanded
    <3> DEFINE v == IF period > 0 THEN s.command - s.position ELSE 0
    <3>1. r = [s EXCEPT !.position = s.command, !.velocity = v]
      BY <2>3 DEF Read
    <3>2. r = [command |-> s.command, position |-> s.command, velocity |-> v]
      BY <2>1, <3>1, ServoIs
    <3>3. s.command \in Angles /\ v \in Int /\ (period = 1 => v = s.command - s.position)
      BY <2>1, <2>3, ServoIs
    <3>4. r \in Servo
      BY <3>2, <3>3 DEF Servo
    <3> QED BY <2>3, <3>2, <3>3, <3>4
  <2> QED BY <2>2, <2>3
<1>2. Read(servos, period) = [j \in Joints |-> Read(servos, period)[j]]
  BY DEF Read
<1> QED BY <1>1, <1>2

LEMMA ServosOther ==
  ASSUME NEW servos \in [Joints -> Servo],
         NEW commands \in [Joints -> Angles \union {NotCommanded}]
  PROVE  /\ Deactivated(servos) \in [Joints -> Servo]
         /\ Wrote(servos, commands) \in [Joints -> Servo]
         /\ \A j \in Joints :
              /\ Deactivated(servos)[j].position = servos[j].position
              /\ Deactivated(servos)[j].command = NotCommanded
              /\ Wrote(servos, commands)[j].position = servos[j].position
              /\ Wrote(servos, commands)[j].command = commands[j]
<1>1. ASSUME NEW j \in Joints
      PROVE  /\ Deactivated(servos)[j] =
                  [command |-> NotCommanded, position |-> servos[j].position, velocity |-> 0]
             /\ Wrote(servos, commands)[j] =
                  [command |-> commands[j], position |-> servos[j].position,
                   velocity |-> servos[j].velocity]
             /\ servos[j].position \in Angles \union {0} /\ servos[j].velocity \in Int
  BY DEF Deactivated, Wrote, Servo
<1>2. /\ Deactivated(servos) = [j \in Joints |-> Deactivated(servos)[j]]
      /\ Wrote(servos, commands) = [j \in Joints |-> Wrote(servos, commands)[j]]
  BY DEF Deactivated, Wrote
<1>3. ASSUME NEW j \in Joints
      PROVE  Deactivated(servos)[j] \in Servo /\ Wrote(servos, commands)[j] \in Servo
  <2>1. commands[j] \in Angles \union {NotCommanded} /\ NotCommanded \in Angles \union {NotCommanded}
    OBVIOUS
  <2>2. ASSUME NEW c \in Angles \union {NotCommanded}, NEW p \in Angles \union {0}, NEW v \in Int
        PROVE  [command |-> c, position |-> p, velocity |-> v] \in Servo
    BY DEF Servo
  <2>3. 0 \in Int
    OBVIOUS
  <2> QED BY <1>1, <2>1, <2>2, <2>3
<1> QED BY <1>1, <1>2, <1>3

LEMMA MockStep ==
  ASSUME MockInv, CallMock
  PROVE  MockInv'
<1> DEFINE servos == outcome.servos
           given == outcome.given
<1>1. /\ servos \in [Joints -> Servo] /\ given \in [Joints -> SUBSET Angles]
      /\ \A j \in Joints : /\ servos[j].position \in {0} \union given[j]
                           /\ servos[j].command \in {NotCommanded} \union given[j]
  BY DEF MockInv, CallMock
<1> DEFINE Good(s, g) ==
             /\ s \in [Joints -> Servo] /\ g \in [Joints -> SUBSET Angles]
             /\ \A j \in Joints : /\ s[j].position \in {0} \union g[j]
                                  /\ s[j].command \in {NotCommanded} \union g[j]
<1>2. ASSUME NEW name, NEW s, NEW g, Mock(name, s, g, servos), Good(s, g),
             name = "mock read" =>
               \A j \in Joints : s[j].velocity = s[j].position - servos[j].position
      PROVE  MockInv'
  <2>1. /\ call'.name = name /\ outcome'.servos = s /\ outcome'.given = g
        /\ outcome'.before = servos
    BY <1>2 DEF Mock, Calling
  <2> HIDE DEF servos
  <2> QED BY <1>2, <2>1 DEF MockInv
<1>3. ASSUME Mock("mock activated", Activated(servos), None, servos)
      PROVE  MockInv'
  <2>1. Good(Constructed, None)
    BY ServosStart
  <2>2. Mock("mock activated", Constructed, None, servos)
    BY <1>3 DEF Activated
  <2> HIDE DEF Good, servos, given
  <2> QED BY <1>2, <2>1, <2>2
<1>4. ASSUME Mock("mock deactivated", Deactivated(servos), given, servos)
      PROVE  MockInv'
  <2>1. [j \in Joints |-> NotCommanded] \in [Joints -> Angles \union {NotCommanded}]
    OBVIOUS
  <2>2. Good(Deactivated(servos), given)
    BY <1>1, <2>1, ServosOther
  <2> HIDE DEF Good, servos, given
  <2> QED BY <1>2, <1>4, <2>2
<1>5. ASSUME NEW period \in {0, 1},
             Mock(IF period = 0 THEN "mock polled" ELSE "mock read",
                  Read(servos, period), given, servos)
      PROVE  MockInv'
  <2>1. Good(Read(servos, period), given)
    BY <1>1, ServosRead
  <2>2. period # 0 => \A j \in Joints :
          Read(servos, period)[j].velocity = Read(servos, period)[j].position - servos[j].position
    BY <1>1, ServosRead
  <2> HIDE DEF Good, servos, given
  <2> QED BY <1>2, <1>5, <2>1, <2>2
<1>6. ASSUME NEW c \in [Joints -> Angles \union {NotCommanded}],
             Mock("mock written", Wrote(servos, c),
                  [j \in Joints |-> given[j] \union ({c[j]} \ {NotCommanded})], servos)
      PROVE  MockInv'
  <2> DEFINE g == [j \in Joints |-> given[j] \union ({c[j]} \ {NotCommanded})]
  <2>1. g \in [Joints -> SUBSET Angles]
    BY <1>1
  <2>2. Good(Wrote(servos, c), g)
    BY <1>1, <2>1, ServosOther
  <2> HIDE DEF Good, servos, given
  <2> QED BY <1>2, <1>6, <2>2
<1> QED BY <1>3, <1>4, <1>5, <1>6 DEF CallMock

LEMMA MakeMockStep ==
  ASSUME MakeMock
  PROVE  MockInv'
<1>1. /\ call'.name = "mock made" /\ outcome'.servos = Constructed /\ outcome'.given = None
  BY DEF MakeMock, Mock, Calling
<1>2. \A j \in Joints : None[j] = {}
  BY DEF None
<1>3. \A j \in Joints : /\ Constructed[j].position \in {0} \union None[j]
                         /\ Constructed[j].command \in {NotCommanded} \union None[j]
  BY <1>2, ServosStart
<1>4. call'.name # "mock read"
  BY <1>1
<1> QED BY <1>1, <1>3, <1>4, ServosStart DEF MockInv
-----------------------------------------------------------------------------
(* The properties of every call.                                            *)

\* Each call is known by its name, so that a property is about one of them.
LEMMA CallIs ==
  /\ DescribeWheels => call'.name = "odesc on_init"
  /\ DescribeArm => call'.name = "pxx on_init"
  /\ Configure => call'.name = "configure_node"
  /\ Ask => call'.name = "sdo_transaction"
  /\ Turn => call'.name = "target"
  /\ Plan => call'.name = "createPlan"
  /\ MakeMock => call'.name \in Mocks
  /\ CallMock => call'.name \in Mocks
  /\ Return => call'.name = "none"
<1>1. DescribeWheels => call'.name = "odesc on_init"
  <2> HAVE DescribeWheels
  <2>1. PICK hardware : Calling([name |-> "odesc on_init", with |-> hardware],
                                OdescOnInit(hardware))
    BY Zenon DEF DescribeWheels
  <2> QED BY <2>1 DEF Calling
<1>2. DescribeArm => call'.name = "pxx on_init"
  <2> HAVE DescribeArm
  <2>1. PICK hardware : Calling([name |-> "pxx on_init", with |-> hardware],
                                PxxOnInit(hardware))
    BY Zenon DEF DescribeArm
  <2> QED BY <2>1 DEF Calling
<1>3. Configure => call'.name = "configure_node"
  BY DEF Configure, Calling
<1>4. Ask => call'.name = "sdo_transaction"
  BY DEF Ask, Calling
<1>5. Turn => call'.name = "target"
  BY DEF Turn, Calling
<1>6. Plan => call'.name = "createPlan"
  BY DEF Plan, Calling
<1>7. MakeMock => call'.name \in Mocks
  <2>1. MakeMock => call' = [name |-> "mock made"]
    BY Zenon DEF MakeMock, Mock, Calling
  <2>2. [name |-> "mock made"].name \in Mocks
    BY DEF Mocks
  <2> QED BY <2>1, <2>2, Zenon
<1>8. CallMock => call'.name \in Mocks
  <2>1. ASSUME NEW name, NEW s, NEW g, NEW b, Mock(name, s, g, b)
        PROVE  call'.name = name
    BY <2>1 DEF Mock, Calling
  <2>2. ASSUME CallMock
        PROVE  \E name \in Mocks : call'.name = name
    <3> HIDE DEF Mock
    <3> QED BY <2>1, <2>2 DEF CallMock, Mocks
  <2> QED BY <2>2
<1>9. Return => call'.name = "none"
  BY DEF Return, Idle
<1> QED BY <1>1, <1>2, <1>3, <1>4, <1>5, <1>6, <1>7, <1>8, <1>9, Zenon

\* A property of one kind of call holds where there is no such call.
LEMMA OtherCalls ==
  /\ ~(call.name = "odesc on_init") => WheelsAddressable
  /\ ~(call.name = "pxx on_init") => ArmAddressable
  /\ ~(call.name = "configure_node") => MappedIsParsed
  /\ ~(call.name = "sdo_transaction") => EchoIsOwn
  /\ ~(call.name = "target") => TargetArrives
  /\ ~(call.name = "createPlan") => PathIsLine
  /\ ~(call.name \in Mocks) => MockInv
<1>1. ~(call.name = "odesc on_init") => WheelsAddressable
  BY Zenon DEF WheelsAddressable, Accepted
<1>2. ~(call.name = "pxx on_init") => ArmAddressable
  BY Zenon DEF ArmAddressable, Accepted
<1>3. ~(call.name = "sdo_transaction") => EchoIsOwn
  BY Zenon DEF EchoIsOwn
<1>4. ~(call.name = "target") => TargetArrives
  BY Zenon DEF TargetArrives
<1>5. ~(call.name = "createPlan") => PathIsLine
  BY Zenon DEF PathIsLine, PathLeads, PathEven
<1>6. ~(call.name \in Mocks) => MockInv
  BY Zenon DEF MockInv
<1>7. ~(call.name = "configure_node") => MappedIsParsed
  BY Zenon DEF MappedIsParsed
<1> QED BY <1>1, <1>2, <1>3, <1>4, <1>5, <1>6, <1>7

\* Only the mock's property is about more than the last call.
IInv ==
  /\ WheelsAddressable
  /\ ArmAddressable
  /\ MappedIsParsed
  /\ EchoIsOwn
  /\ TargetArrives
  /\ PathIsLine
  /\ MockInv

LEMMA Initially ==
  ASSUME Init
  PROVE  IInv
<1>1. call.name = "none"
  BY DEF Init, Idle
<1>2. call.name \notin Mocks
  BY <1>1 DEF Mocks
<1> QED BY <1>1, <1>2, OtherCalls DEF IInv

\* The same of the call that is made next.
LEMMA Other ==
  ASSUME NEW name, call'.name = name
  PROVE  /\ name # "odesc on_init" => WheelsAddressable'
         /\ name # "pxx on_init" => ArmAddressable'
         /\ name # "configure_node" => MappedIsParsed'
         /\ name # "sdo_transaction" => EchoIsOwn'
         /\ name # "target" => TargetArrives'
         /\ name # "createPlan" => PathIsLine'
         /\ name \notin Mocks => MockInv'
<1>1. name # "odesc on_init" => WheelsAddressable'
  BY Zenon DEF WheelsAddressable, Accepted
<1>2. name # "pxx on_init" => ArmAddressable'
  BY Zenon DEF ArmAddressable, Accepted
<1>3. name # "sdo_transaction" => EchoIsOwn'
  BY Zenon DEF EchoIsOwn
<1>4. name # "target" => TargetArrives'
  BY Zenon DEF TargetArrives
<1>5. name # "createPlan" => PathIsLine'
  BY Zenon DEF PathIsLine, PathLeads, PathEven
<1>6. name \notin Mocks => MockInv'
  BY Zenon DEF MockInv
<1>7. name # "configure_node" => MappedIsParsed'
  BY Zenon DEF MappedIsParsed
<1> QED BY <1>1, <1>2, <1>3, <1>4, <1>5, <1>6, <1>7

LEMMA Inductive ==
  ASSUME IInv, [Next]_vars
  PROVE  IInv'
<1> DEFINE Single == {"odesc on_init", "pxx on_init", "configure_node",
                      "sdo_transaction", "target", "createPlan", "none"}
<1>1. Single \intersect Mocks = {}
  BY DEF Mocks
<1>2. CASE DescribeWheels
  BY <1>1, <1>2, CallIs, Other, WheelsStep DEF IInv
<1>3. CASE DescribeArm
  BY <1>1, <1>3, CallIs, Other, ArmStep DEF IInv
<1>4. CASE Configure
  BY <1>1, <1>4, CallIs, Other, ConfigureStep DEF IInv
<1>5. CASE Ask
  BY <1>1, <1>5, CallIs, Other, AskStep DEF IInv
<1>6. CASE Turn
  BY <1>1, <1>6, CallIs, Other, TurnStep DEF IInv
<1>7. CASE Plan
  BY <1>1, <1>7, CallIs, Other, PlanStep DEF IInv
<1>8. CASE MakeMock
  BY <1>1, <1>8, CallIs, Other, MakeMockStep DEF IInv
<1>9. CASE CallMock
  BY <1>1, <1>9, CallIs, Other, MockStep DEF IInv
<1>10. CASE Return
  BY <1>1, <1>10, CallIs, Other DEF IInv
<1>11. CASE UNCHANGED vars
  <2>1. call' = call /\ outcome' = outcome
    BY <1>11 DEF vars
  <2>2. WheelsAddressable'
    <3>1. WheelsAddressable
      BY DEF IInv
    <3>2. SUFFICES ASSUME Accepted("odesc on_init") PROVE WheelsAddressable'
      BY <2>1, Zenon DEF WheelsAddressable, Accepted
    <3>3. /\ \A i \in 1..2 : NumberOf(i)' = NumberOf(i)
          /\ { NumberOf(j)' : j \in 1..2 } = { NumberOf(j) : j \in 1..2 }
      BY <2>1 DEF NumberOf
    <3> DEFINE axes == { NumberOf(j) : j \in 1..2 } \ {63}
    <3>4. { NumberOf(j)' : j \in 1..2 } \ {63} = axes
      BY <3>3, Zenon
    <3>5. ASSUME NEW i \in 1..2
          PROVE  /\ \A command \in {MSG_SET_AXIS_REQUESTED_STATE, MSG_SET_INPUT_VEL} :
                      LET id == OnTheBus(MakeArbitrationId(outcome.node_ids[i], command)) IN
                        /\ ParseArbitrationId(id).command = command
                        /\ Obeying(axes, id) = IF NumberOf(i) = 63 THEN axes ELSE {NumberOf(i)}
                 /\ Estimated(OnTheBus(MakeArbitrationId(outcome.node_ids[i],
                                                         MSG_GET_ENCODER_ESTIMATES)), 8)
                      = {NumberOf(i)}
                 /\ outcome.gears[i] # 0
      BY <3>1, <3>2, Zenon DEF WheelsAddressable
    <3> HIDE DEF axes
    <3>6. ASSUME NEW i \in 1..2
          PROVE  /\ \A command \in {MSG_SET_AXIS_REQUESTED_STATE, MSG_SET_INPUT_VEL} :
                      LET id == OnTheBus(MakeArbitrationId(outcome'.node_ids[i], command)) IN
                        /\ ParseArbitrationId(id).command = command
                        /\ Obeying({ NumberOf(j)' : j \in 1..2 } \ {63}, id) =
                             IF NumberOf(i)' = 63 THEN { NumberOf(j)' : j \in 1..2 } \ {63}
                             ELSE {NumberOf(i)'}
                 /\ Estimated(OnTheBus(MakeArbitrationId(outcome'.node_ids[i],
                                                         MSG_GET_ENCODER_ESTIMATES)), 8)
                      = {NumberOf(i)'}
                 /\ outcome'.gears[i] # 0
      <4>1. NumberOf(i)' = NumberOf(i)
        BY <3>3
      <4> HIDE DEF NumberOf
      <4> QED BY <2>1, <3>4, <3>5, <4>1, Zenon
    <3> QED BY <3>6, Zenon DEF WheelsAddressable
  <2>3. ArmAddressable'
    BY <2>1 DEF IInv, ArmAddressable, Accepted, NumberOf, Told
  <2>4. EchoIsOwn'
    BY <2>1 DEF IInv, EchoIsOwn
  <2>5. TargetArrives'
    BY <2>1, Zenon DEF IInv, TargetArrives
  <2>6. PathIsLine'
    BY <2>1 DEF IInv, PathIsLine, PathLeads, PathEven
  <2>7. MockInv'
    BY <2>1 DEF IInv, MockInv
  <2>8. MappedIsParsed'
    BY <2>1 DEF IInv, MappedIsParsed
  <2> QED BY <2>2, <2>3, <2>4, <2>5, <2>6, <2>7, <2>8 DEF IInv
<1> QED BY <1>2, <1>3, <1>4, <1>5, <1>6, <1>7, <1>8, <1>9, <1>10, <1>11 DEF Next

LEMMA Always == Spec => []IInv
<1>1. Init => IInv
  BY Initially
<1>2. IInv /\ [Next]_vars => IInv'
  BY Inductive
<1> QED BY <1>1, <1>2, PTL DEF Spec

\* Whatever two wheels a description names and odesc's on_init() accepts, each
\* is reached by the frames of its own node id, heard from it, and has a gear
\* ratio that can be divided by.
THEOREM WheelsAddressableAlways == Spec => []WheelsAddressable
<1>1. IInv => WheelsAddressable
  BY DEF IInv
<1> QED BY <1>1, Always, PTL

\* Whatever arm joint a description names next to one in order, pxx's
\* on_init() accepts it only if its drive takes the frames for it and for
\* nobody else, and the receive thread takes each of its frames for what it is.
THEOREM ArmAddressableAlways == Spec => []ArmAddressable
<1>1. IInv => ArmAddressable
  BY DEF IInv
<1> QED BY <1>1, Always, PTL

\* Whatever a drive had mapped, configure_node() leaves it sending position,
\* velocity and status in frames that the host takes and parses for what they
\* are, and putting commanded positions into its target, for every node id.
THEOREM MappedIsParsedAlways == Spec => []MappedIsParsed
<1>1. IInv => MappedIsParsed
  BY DEF IInv
<1> QED BY <1>1, Always, PTL

\* An SDO response ends the transaction on its own object of its own node and
\* no other, for every pair of requests to every pair of node ids.
THEOREM EchoIsOwnAlways == Spec => []EchoIsOwn
<1>1. IInv => EchoIsOwn
  BY DEF IInv
<1> QED BY <1>1, Always, PTL

\* A joint is commanded, turns and is read back to the same angle if and only
\* if the motor's turns fit into 32 bits of counts, for every angle and gear
\* ratio.
THEOREM TargetArrivesAlways == Spec => []TargetArrives
<1>1. IInv => TargetArrives
  BY DEF IInv
<1> QED BY <1>1, Always, PTL

\* createPlan() returns a straight line in even steps that leads to the goal,
\* for every pair of points, every resolution and either rounding.
THEOREM PathIsLineAlways == Spec => []PathIsLine
<1>1. IInv => PathIsLine
  BY DEF IInv
<1> QED BY <1>1, Always, PTL

\* However the mock of the arm is called, and on however many joints, it
\* reports only where a joint was sent since the activation, or zero, and the
\* velocity that took it there.
THEOREM MockObeysAlways == Spec => []MockObeys
<1>1. IInv => MockObeys
  BY MockInvObeys DEF IInv
<1> QED BY <1>1, Always, PTL

=============================================================================
