-------------------------------- MODULE OnInit --------------------------------
(***************************************************************************)
(* on_init() of both hardware components: which descriptions of a robot    *)
(* they accept, and the backend they make of an accepted one.              *)
(*                                                                         *)
(* A parameter is absent, a number, or text that std::stoi or std::stod    *)
(* throws at; a gear ratio may also be infinite or not a number.  A number *)
(* is an integer: only its being zero, and its range, matters here.        *)
(***************************************************************************)
EXTENDS Integers, FiniteSetsExt

Parameter(kind, value) == [kind |-> kind, value |-> value]
Absent == Parameter("absent", 0)
Junk == Parameter("junk", 0)
NotFinite == Parameter("not finite", 0)
Number(n) == Parameter("number", n)

OdescNodes == 0..63
PxxNodes == 1..127

\* Mutant: the bound of the array is taken for the largest node id.
OdescRangeBySize(id) == id \in 0..64
OdescRange(id) == id \in OdescNodes

\* Mutant: seven bits are taken to hold 128.
PxxRangeBySize(id) == id \in 1..128
PxxRange(id) == id \in PxxNodes

\* The type of a joint's command interface is the component's.
Exposed(joint, command) ==
  joint.command = command /\ {"position", "velocity"} \subseteq joint.states

NodeVerdict(joint, inRange) ==
  CASE joint.node.kind = "absent" -> "error"
    [] joint.node.kind = "junk" -> "throws"
    [] joint.node.kind = "number" ->
         IF inRange THEN "ok" ELSE "error"

\* The conversion throws; zero and what is not finite are refused.
GearVerdict(gear) ==
  CASE gear.kind = "junk" -> "throws"
    [] gear.kind = "not finite" -> "error"
    [] gear.kind = "number" -> IF gear.value = 0 THEN "error" ELSE "ok"
    [] gear.kind = "absent" -> "ok"

OdescJoint(joint) ==
  IF Exposed(joint, "velocity") THEN NodeVerdict(joint, OdescRange(joint.node.value))
  ELSE "error"

PxxJoint(joint) ==
  CASE ~Exposed(joint, "position") -> "error"
    [] Exposed(joint, "position") ->
         LET verdict == NodeVerdict(joint, PxxRange(joint.node.value))
         IN IF verdict = "ok" THEN GearVerdict(joint.gear) ELSE verdict

\* The first joint that is not in order decides.
FirstOf(verdicts) ==
  LET bad == { i \in DOMAIN verdicts : verdicts[i] # "ok" }
  IN IF bad = {} THEN "ok" ELSE verdicts[Min(bad)]

NodeIds(joints) == [i \in DOMAIN joints |-> joints[i].node.value % 256]
Ratio(gear, default) == IF gear.kind = "absent" THEN default ELSE gear.value

\* CreateDriveBackend and CreateMotorBackend.
Backend(endpoint) == IF endpoint \in {"mock", "none"} THEN "mock" ELSE "SocketCAN"

OdescOnInit(hardware) ==
  LET joints == hardware.joints
      verdict == IF GearVerdict(hardware.gear) # "ok" THEN GearVerdict(hardware.gear)
                 ELSE FirstOf([i \in DOMAIN joints |-> OdescJoint(joints[i])])
  IN IF verdict = "ok"
     THEN [result |-> "ok", backend |-> Backend(hardware.endpoint),
           node_ids |-> NodeIds(joints),
           gears |-> [i \in DOMAIN joints |-> Ratio(hardware.gear, 48)]]
     ELSE [result |-> verdict]

PxxOnInit(hardware) ==
  LET joints == hardware.joints
      verdict == FirstOf([i \in DOMAIN joints |-> PxxJoint(joints[i])])
  IN IF verdict = "ok"
     THEN [result |-> "ok", backend |-> Backend(hardware.endpoint),
           node_ids |-> NodeIds(joints),
           gears |-> [i \in DOMAIN joints |-> Ratio(joints[i].gear, 1)]]
     ELSE [result |-> verdict]

=============================================================================
