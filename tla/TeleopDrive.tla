------------------------------ MODULE TeleopDrive ------------------------------
(***************************************************************************)
(* Driving with the joystick: the joy_tank_drive node, the diff drive      *)
(* controller and odesc::OdescSystemHardware with its mock backend.        *)
(*                                                                         *)
(* Each node has one thread, so a callback is one step; controller_manager *)
(* calls read(), the controller and write() in turn, and a lifecycle call  *)
(* falls between two of them.  Neither read() nor write() of the mock can  *)
(* fail here: the period is finite and the sizes agree.                    *)
(*                                                                         *)
(* External: joy_node, which repeats what the joystick shows, the topics,  *)
(* of which each keeps the newest message, and diff_drive_controller,      *)
(* which zeroes a command that is older than cmd_vel_timeout.  A speed is  *)
(* a multiple of 1 / (2 TrackWidth) of the unit of max_vel; the wheel      *)
(* radius is one.  A message carries, as a ghost, the joystick sample that *)
(* it is about.                                                            *)
(***************************************************************************)
EXTENDS Integers

CONSTANTS
  Deflection,       \* a joystick axis that is moved is at -Deflection or Deflection
  MaxVel,           \* max_vel
  TrackWidth,       \* track_width of joy_tank_drive
  WheelSeparation,  \* wheel_separation of diff_drive_controller
  Timeout,          \* cmd_vel_timeout, in control cycles
  MaxMishaps        \* bound on the faults, in all

ASSUME TeleopAssumption ==
  /\ Deflection \in Nat \ {0} /\ MaxVel \in Nat \ {0}
  /\ TrackWidth \in Nat \ {0} /\ WheelSeparation \in Nat \ {0}
  /\ Timeout \in Nat /\ MaxMishaps \in Nat

VARIABLES
  stick,      \* what the joystick shows
  joystick,   \* "there", or "gone"
  teleop,     \* the joy_tank_drive process, "up" or "dead"
  joy,        \* the message waiting on /joy, if any
  cmd,        \* the message waiting on the controller's command topic, if any
  last,       \* the controller's last command
  age,        \* cycles since it came
  life,       \* state of the hardware component
  loop,       \* next call of the control loop
  commands,   \* hw_commands_ and, as a ghost, the sample they are from
  velocities, \* hw_velocities_
  wheels,     \* commands_rad_s_ of the mock backend, with the same ghost
  written,    \* history: TRUE once write() told the wheels, since the last
              \* lifecycle call
  mishaps     \* history: faults so far

operator == <<stick, joystick>>
controller == <<cmd, last, age>>
component == <<life, loop, commands, velocities, wheels, written>>
vars == <<operator, teleop, joy, controller, component, mishaps>>

-----------------------------------------------------------------------------
(* Messages.                                                                *)

Axis == {-Deflection, Deflection}
Held == [left : Axis, right : Axis, held : {TRUE}]
Centred == [left |-> 0, right |-> 0, held |-> FALSE]
Swung == [left : Axis, right : Axis, held : {FALSE}]
Sample == Held \union Swung \union {Centred}
Released(s) == IF s.held THEN s ELSE Centred

AtMostOne(S) == { {} } \union { {m} : m \in S }

\* Mutant: the deadman does not gate the turn.
TwistUngated(s) ==
  [linear |-> IF s.held THEN (s.left + s.right) * MaxVel ELSE 0,
   angular |-> (s.right - s.left) * MaxVel, of |-> Released(s)]

\* The twist published for a sample: twice linear.x, and angular.z times
\* TrackWidth.  Without the deadman all of it stays zero.
Twist(s) ==
  IF s.held THEN [linear |-> (s.left + s.right) * MaxVel,
                  angular |-> (s.right - s.left) * MaxVel, of |-> s]
            ELSE [linear |-> 0, angular |-> 0, of |-> Centred]

\* The differential drive (external).
WheelSpeeds(t) ==
  [left |-> t.linear * TrackWidth - t.angular * WheelSeparation,
   right |-> t.linear * TrackWidth + t.angular * WheelSeparation,
   of |-> t.of]

Halt == [linear |-> 0, angular |-> 0, of |-> Centred]
Still == WheelSpeeds(Halt)

MaxSpeed == 2 * Deflection * MaxVel * (TrackWidth + WheelSeparation)
Speed == -MaxSpeed..MaxSpeed
Speeds == [left : Speed, right : Speed, of : Sample]
Standing(v) == v.left = 0 /\ v.right = 0

TypeOK ==
  /\ stick \in Sample
  /\ joystick \in {"there", "gone"} /\ teleop \in {"up", "dead"}
  /\ joy \in AtMostOne(Sample)
  /\ cmd \in AtMostOne({ Twist(s) : s \in Sample })
  /\ last \in { Twist(s) : s \in Sample } /\ age \in 0..Timeout+1
  /\ life \in {"inactive", "active"}
  /\ loop \in {"read", "update", "write"}
  /\ commands \in Speeds /\ velocities \in Speeds /\ wheels \in Speeds
  /\ written \in BOOLEAN /\ mishaps \in 0..MaxMishaps

Init ==
  /\ stick = Centred /\ joystick = "there" /\ teleop = "up"
  /\ joy = {} /\ cmd = {} /\ last = Halt /\ age = 0
  /\ life = "inactive" /\ loop = "read"
  /\ commands = Still /\ velocities = Still /\ wheels = Still
  /\ written = FALSE /\ mishaps = 0

Mishap == mishaps < MaxMishaps /\ mishaps' = mishaps + 1

-----------------------------------------------------------------------------
(* The operator and joy_node (external).                                    *)

Move ==
  /\ joystick = "there"
  /\ stick' \in Sample \ {stick}
  /\ UNCHANGED <<joystick, teleop, joy, controller, component, mishaps>>

Repeat ==
  /\ joystick = "there"
  /\ joy' = {stick}
  /\ UNCHANGED <<operator, teleop, controller, component, mishaps>>

\* The joystick is unplugged, or out of reach.
Unplug ==
  /\ joystick = "there" /\ Mishap
  /\ joystick' = "gone"
  /\ UNCHANGED <<stick, teleop, joy, controller, component>>

TeleopDies ==
  /\ teleop = "up" /\ Mishap
  /\ teleop' = "dead" /\ joy' = {}
  /\ UNCHANGED <<operator, controller, component>>

LoseCommand ==
  /\ cmd # {} /\ Mishap
  /\ cmd' = {}
  /\ UNCHANGED <<operator, teleop, joy, last, age, component>>

-----------------------------------------------------------------------------
(* joy_tank_drive.                                                          *)

TopicCallback ==
  /\ teleop = "up" /\ joy # {}
  /\ cmd' = { Twist(s) : s \in joy }
  /\ joy' = {}
  /\ UNCHANGED <<operator, teleop, last, age, component, mishaps>>

-----------------------------------------------------------------------------
(* The hardware component and the mock backend.                             *)

Activate ==
  /\ life = "inactive"
  /\ life' = "active"
  /\ commands' = Still /\ velocities' = Still /\ wheels' = Still
  /\ written' = FALSE
  /\ UNCHANGED <<operator, teleop, joy, controller, loop, mishaps>>

Deactivate ==
  /\ life = "active"
  /\ life' = "inactive"
  /\ commands' = Still /\ velocities' = Still /\ wheels' = Still
  /\ written' = FALSE
  /\ UNCHANGED <<operator, teleop, joy, controller, loop, mishaps>>

Read ==
  /\ loop = "read"
  /\ velocities' = wheels
  /\ loop' = "update"
  /\ UNCHANGED <<operator, teleop, joy, controller, life, commands, wheels,
                 written, mishaps>>

\* Mutant: an old command is not zeroed.
UpdateForEver ==
  /\ loop = "update"
  /\ last' \in IF cmd = {} THEN {last} ELSE cmd
  /\ cmd' = {}
  /\ age' = IF cmd # {} THEN 0 ELSE IF age > Timeout THEN age ELSE age + 1
  /\ commands' = WheelSpeeds(last')
  /\ loop' = "write"
  /\ UNCHANGED <<operator, teleop, joy, life, velocities, wheels, written, mishaps>>

\* Mutant: the age is not capped.
UpdateCounting ==
  /\ loop = "update"
  /\ last' \in IF cmd = {} THEN {last} ELSE cmd
  /\ cmd' = {}
  /\ age' = IF cmd # {} THEN 0 ELSE age + 1
  /\ commands' = IF age' > Timeout THEN Still ELSE WheelSpeeds(last')
  /\ loop' = "write"
  /\ UNCHANGED <<operator, teleop, joy, life, velocities, wheels, written, mishaps>>

\* The controller (external) takes the newest command, or none that is too
\* old.  It runs on while the component is inactive.
Update ==
  /\ loop = "update"
  /\ last' \in IF cmd = {} THEN {last} ELSE cmd
  /\ cmd' = {}
  /\ age' = IF cmd # {} THEN 0 ELSE IF age > Timeout THEN age ELSE age + 1
  /\ commands' = IF age' > Timeout THEN Still ELSE WheelSpeeds(last')
  /\ loop' = "write"
  /\ UNCHANGED <<operator, teleop, joy, life, velocities, wheels, written, mishaps>>

\* Mutant: write() leaves the right-hand wheels as they are.
WriteLeftOnly ==
  /\ loop = "write"
  /\ wheels' = [commands EXCEPT !.right = wheels.right]
  /\ written' = TRUE
  /\ loop' = "read"
  /\ UNCHANGED <<operator, teleop, joy, controller, life, commands, velocities,
                 mishaps>>

Write ==
  /\ loop = "write"
  /\ wheels' = commands
  /\ written' = TRUE
  /\ loop' = "read"
  /\ UNCHANGED <<operator, teleop, joy, controller, life, commands, velocities,
                 mishaps>>

-----------------------------------------------------------------------------
Cycle == Read \/ Update \/ Write

Next ==
  \/ Move \/ Repeat \/ Unplug \/ TeleopDies \/ LoseCommand
  \/ TopicCallback
  \/ Activate \/ Deactivate \/ Cycle

Spec == Init /\ [][Next]_vars

\* joy_node repeats at 20 Hz, the executor serves the callback, the control
\* loop runs at 30 Hz.
Fairness == WF_vars(Repeat) /\ WF_vars(TopicCallback) /\ WF_vars(Cycle)

FairSpec == Spec /\ Fairness

-----------------------------------------------------------------------------
(* Properties.                                                              *)

\* Tank drive: each side of the rover is only ever told to move, and reported
\* to move, at max_vel times the deflection of its own axis, of one sample taken
\* while the deadman was held, and stands otherwise.
TankTracks ==
  \A v \in {commands, velocities, wheels} :
    /\ v.left = 2 * TrackWidth * MaxVel * v.of.left
    /\ v.right = 2 * TrackWidth * MaxVel * v.of.right
    /\ Standing(v) \/ v.of.held

\* "Release the deadman = stop", and so does losing the joystick or the node:
\* once nobody holds the deadman any more the wheels come to stand.
Commanding == joystick = "there" /\ teleop = "up" /\ stick.held
DeadmanStops == <>[]~Commanding => <>[]Standing(wheels)

Wheel == {"left", "right"}

Backend == INSTANCE DriveBackend WITH
  Node <- Wheel,
  Speed <- Speed,
  Live <- {"inactive", "active"},
  command <- [n \in Wheel |-> commands[n]],
  wheels <- [n \in Wheel |-> wheels[n]],
  told <- (loop = "read" /\ written),
  strayed <- {}

\* The mock backend keeps the promise the SocketCAN backend keeps, except that
\* it takes commands before on_activate and after on_deactivate as well.
ImplementsBackend == Backend!Spec
=============================================================================
