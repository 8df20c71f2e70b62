# Formal model of the BILLEE rover software

TLA+ specifications of the ROS 2 software in `src/ros2_ws/src`, model-checked with
TLC and proved about with TLAPS. Paths below are relative to `src/ros2_ws/src`
unless they start with `src/`.

## 1. The system

The rover has a six-wheel drivetrain (ODESC/ODrive axes) and an arm (P-series CANopen
drives). Both hang on SocketCAN buses and are `ros2_control` hardware components, loaded
by `controller_manager`, which calls `read`, the controllers' `update`, and `write` in a
loop, and the lifecycle callbacks from services. Around them are a teleoperation node,
a navigation configuration with a planner, a synthetic visual-odometry node for the
simulation, a GPS node, launch files and the robot description.

| Component | State it keeps | Operations | Interacts with | What is hard | What makes it correct |
|---|---|---|---|---|---|
| `odesc` hardware component (`odesc/src/odesc.cpp`) | parameters, `hw_positions_`, `hw_velocities_`, `hw_commands_`, the backend | `on_init`, `on_activate`, `on_deactivate` (also cleanup, shutdown), `read`, `write` | controller_manager calls it; it calls a `DriveBackend` | an ERROR from `read`/`write` finalizes it without a deactivation | wheels get one consistent command; stopped means idle |
| `odesc` SocketCAN backend (`odesc/src/socketcan_drive_backend.cpp`) | socket, receive thread, `rx_running_`, `estimates_` | `activate`, `deactivate`, `read`, `write`, `rx_loop` | the bus; the receive thread shares `estimates_` under `estimate_mutex_` | two threads; a bus that goes down, a full queue, lost frames, power cycles | no torn or old feedback; `deactivate` ends and idles all axes |
| `odesc` mock backend | commands, integrated states | the same interface | none | finite period check | same promises as the real one |
| `odesc` frame codecs (`can.hpp`) and vcan emulator | none / positions, velocities | encode, decode | bus | identifier and width arithmetic | decode inverts encode |
| `pxx` hardware component (`pxx/src/pxx.cpp`) | as `odesc`, commands NaN until claimed | the same callbacks | `MotorBackend` | a zero position command is not safe | nothing moves that nobody commanded |
| `pxx` SocketCAN backend (`pxx/src/socketcan_motor_backend.cpp`) | socket, receive thread, `feedback_`, the one-place `sdo_response_` | `activate`, `configure_node`, `sdo_transaction`, `deactivate`, `read`, `write`, `rx_loop` | CANopen drives; condition variable between two threads | request/answer with timeouts over a shared slot; about thirty ordered requests per drive; crash and re-activation; partial failure | a drive is enabled at rest and fully configured, or not at all |
| `pxx` mock backend, codecs | as `odesc` | | | RadToCounts is cut to 32 bits | |
| synthetic VIO (`perception/zed2i`) | drift, release queue | truth callback, 1 ms timer | Gazebo odometry in, EKF out | delayed release, stamps that go back | in order, not early, not lost |
| teleoperation (`teleop`) | parameters | joystick callback | publishes on the command topic of the diff-drive controller | two publishers of one topic | the deadman stops the rover |
| GPS node (`comms`, not built yet) | pending position and covariance | timer callback | serial port | pairing, stale halves, uninitialised tolerance | only matching halves are published |
| planner (`navigation`) | resolution | `configure`, `createPlan` | nav2 | zero length, zero resolution | path ends in the goal |
| launch, description, tooling, settings | none at run time | | | endpoint defaults that differ (`can2`, `can0`) | |

PROJECT.json lists the components with their status, and every hazard at its line.

## 2. Modules

| Module | What it is |
|---|---|
| `PxxMotor` | the arm: activation, SDO client, receive thread, bus, drives |
| `PxxMotor_proofs` | its theorems |
| `PxxCyclic` | the arm in operation: `read`, `write`, SYNC, process data, faults, over several activations |
| `PxxCyclic_proofs` | its theorems |
| `OdescDrive` | the drivetrain: hardware component, SocketCAN backend, receive thread, control loop, bus, axes |
| `OdescDrive_proofs` | its theorems |
| `DriveBackend` | abstract: what `drive_backend.hpp` promises, whichever backend is behind it |
| `OdescDriveBackend` | the refinement mapping from `OdescDrive` to `DriveBackend` |
| `OdescDriveBackend_proofs` | the refinement, and what the wheels are told, proved |
| `TeleopDrive` | joystick, `joy_tank_drive`, diff-drive controller, hardware component, mock backend; also refines `DriveBackend` |
| `TeleopDrive_proofs` | its theorems, the refinement among them |
| `SyntheticVio` | the synthetic visual odometry node with its release queue, timer and truth topic |
| `SyntheticVio_proofs` | its theorems |
| `GpsNode` | the GPS node with its serial device and receiver |
| `OnInit` | `on_init` of both hardware components, as operators over descriptions |
| `CanIds`, `CanWords` | identifiers, byte layout, SDO and PDO words, the 32-bit conversion, as operators |
| `StraightLine` | `createPlan`, as an operator |
| `MockMotor` | the calls of the arm's mock, as operators |
| `Calls` | calls the operators of these five modules with every argument out of small sets |
| `Calls_proofs` | what those operators return, proved for every argument |
| `QueueLemmas` | facts about queues that the proofs share |

Every state machine is closed by an environment of its own (bus, drives, topics, time), so
TLC runs it directly with a `.cfg` per question. `DriveBackend` is never run by itself: it is
instantiated by the two modules that implement it. The `... Mutant:` operators are
faulty variants of the definition that follows each; no specification uses them. They
show that the property concerned would notice such a fault.

### 2.1 PxxMotor

*Main thread.* `phase`, `node` and `step` are the program counter of
`activate()`/`configure_node()`: `Program` is the list of frames `configure_node` sends,
in its order, so that a step of the code is an index into it. An NMT line is sent and
forgotten (`SendNmt`). An SDO line is `SendSdo` (clear `sdo_response_`, send; the mutex is
held over both, so they are one step) and then the wait: `Proceed`, `AskWhy` (the status
word was bad and the error code is read), or `GiveUp` (timeout, abort, or after `AskWhy`),
which begins the `deactivate()` at the end of a failed `activate()`. `SendFails` is a failed
`write` to the socket. `DisarmSend`, `DisarmSendFails` and `Close` are `deactivate()`.

*Time.* A wait may time out at any moment at which its predicate is false: the answer may be
late by any amount. This is an over-approximation of 100 ms and includes every race of a
timeout with a late answer. `wait_for` returns what the predicate says at the end, so a
timeout with a matching answer is no failure, here as in the code.

*Receive thread.* `Receive(n)` is one turn of `rx_loop` for an SDO answer. The bus, the
socket's buffer and a frame the thread has read but not stored are one queue per drive.
Answers of one drive stay in order; those of different drives arrive in any order.

*Drives (external).* NMT state, CiA 402 state, the objects `configure_node` writes, and the
target position. `Legal` is CiA 301's rule for PDO objects that the comments of the code
rely on; `Controlled` is the CiA 402 transition of a control word, where only a rising edge
of the reset bit clears a fault. Positions are abstracted to the activation that measured
them. The answer to a status request carries the CiA 402 state; the code's test of two status
bits is "the state is enabled".

*Environment.* `Refuse`, `LoseFrame`, `LoseAnswer`, `Fault`, `Reboot`, `Crash` (process death and
restart), `SendFails` and `DisarmSendFails` each use up one of `MaxMishaps`. Every action that
models the code's own behaviour, timeouts included, is free.

*History.* `epoch`, `backlog`, tags of frames, `fumbled` (drives whose Shutdown did not take effect) and
`upset` (drives that faulted, rebooted or missed an NMT command) are read by properties only.
Tags make it possible to say that an answer belongs to a request; the code has no such tag.

*`backlog`.* How many activations have begun since one last began with no SDO request or answer left
(`OneMore`); the constant `MaxBacklog` bounds it. With `MaxBacklog = 1` every activation begins on a drained
bus. The code does not enforce it: `pxx/include/pxx/socketcan_motor_backend.hpp:63` takes it for
granted. It holds when the drives have answered everything before the next activation, so
whenever the time between the two is longer than their answers take.

### 2.2 OdescDrive

*Calls.* `call` and `node` are the program counter inside a backend call; `life` is the
component's lifecycle state; `loop` is where the control loop is. `Open`, `RequestClosedLoop`,
`RequestFails` and `Activated` are `on_activate`; `Stop`, `RequestIdle`, `IdleFails`, `IdleSent`
and `Joined` are `on_deactivate`, `on_cleanup`, `on_shutdown` and the destructor, which all run
the same backend call; `Read`, `Update`, `Write`, `SendVelocity`, `VelocityFails` and `Written`
are one cycle. Each frame is a step of its own, because the queue may fill and the axes may
act between two frames.

*Receive thread.* `Check` (the loop condition), `Receive` (a frame, or the 100 ms timeout),
`StorePosition`, `StoreVelocity`. The mutex is held exactly in `rx = "storing"`, and `Read` waits
for it.

*Framework facts used (external).* `controller_manager` (ROS 2 Humble) calls `read`/`write` of
inactive and active components, excludes them and lifecycle calls from each other, and
after an ERROR calls `on_error`, which is not overridden here and finalizes the component.
So after `on_deactivate` the next cycle's `read` fails and finalizes the component (`NotOpen`);
a re-activation happens between two cycles, or in a new process (`Stop` to `"exit"`, `Crash`).

*Axes (external).* State, velocity input and a count of estimates. After power-up they start
closed loop control (`startup_closed_loop_control` in `src/configs/odesc/motor_*.json`), and
have no watchdog (`enable_watchdog` false), so nothing but a frame stops them.

*Values.* A command is the number of the controller update that gave it, an estimate is the
number of the frame: what matters is which one arrives, not its size.

### 2.3 PxxCyclic

*Relation to `PxxMotor`.* Here `configure_node` is one step per drive, with the outcome that `PxxMotor`
establishes for it: the drive enabled at rest with its present position as target
(`ConfigureNode`), or a failure, before or after the drive was disabled, or once it is enabled
(`ConfigureFails`). Around it there is what `PxxMotor` leaves out: `read()`, `write()` with
one step per frame (`Write`, `SendTarget`, `SendSync`), the transmit queue, targets that wait in a
drive for the SYNC, the TPDOs the SYNC asks for, and `Receive`, one turn of `rx_loop` for one.

*Activation.* `Open` is `activate()` up to the start of the receive thread. It takes the bus as it
is: frames of the last cycle may still be queued, and drives may owe the TPDOs of the last SYNC, which
`Receive` then stores after `feedback_` was filled. Later the request of `configure_node` comes behind
the queued frames, and a drive's answer to it behind the TPDOs it owed; that is what `Answered` says.
`owing` is the history of it: the drives that owed process data at `Open`, until they answer a SYNC of the
activation. `Activate` is the end of `on_activate`. Velocities are left out because no code acts on them;
an old one is reported as long as an old status word.

*State.* `feedback`, `positions` and `commands` are `feedback_`, `hw_positions_` and `hw_commands_`;
NaN is a value of its own. `configure_node` stores the position it read, so `feedback_` starts
from there and not from zero (`ConfigureNode`); it does not touch the status word. `hw_positions_` are only refreshed by the first `read()`.

*Controllers (external).* They command nothing, hold a joint where the state interface says
it is, or give any command; the hold waits for the first `read()` of the activation. A
deactivation and a re-activation can fall between two calls of the loop.

*Drives (external).* A synchronous RPDO is latched by the SYNC; an enabled drive has, or has
not, reached its target by the next one. Positions are a few places.

### 2.4 DriveBackend and its two implementations

`DriveBackend` says what the hardware component relies on: a wheel is only ever told the command
that stands; once a `write()` has succeeded every wheel was told it; an activation starts from
zero; stopping only ever slows. `wheels` is what each wheel was last told. For the SocketCAN
backend that is the last velocity frame on its way to the axis, or the axis's own input
(`Latest`), so a frame counts as told when the interface takes it, and wheels whose frames the
bus loses, or that restart, are excepted (`strayed`). For the mock it is `commands_rad_s_`. The two differ
in one point, the constant `Live`: the mock takes commands in an inactive component as well, the
SocketCAN backend refuses them.

### 2.5 TeleopDrive

`TopicCallback` is the node's only callback; `Update` is diff_drive_controller, which zeroes a command
that is older than `cmd_vel_timeout`; `Read`, `Write`, `Activate` and `Deactivate` are the component with the
mock. Speeds are scaled so that the kinematics stay in whole numbers. Each message
carries the joystick sample it is about as a ghost: `TankTracks` compares the two ends of the chain.
The joystick may be lost, the node may die and a command may be lost (`MaxMishaps`). The autonomous
stack, which publishes commands of its own, is not part of it.

### 2.6 SyntheticVio

`Start` is the constructor with `validate_parameters` and `select_model`; every profile, legal and illegal
parameters are initial states. `Measure`, `TruthDropped` and `TruthIgnored` are the ways through `truth_callback`, `Timer`
is the 1 ms timer. Both call `publish_due_messages`, one with the stamp and one with the node's clock,
which lags the simulator's. Stamps repeat, are lost with the topic's queue, and go back when the
simulator is reset. A random draw is a choice between the outcomes its probability leaves.

### 2.7 GpsNode

A callback is `OpenDevice` (close, reopen, flush) and one of `ReadSome`, `ReadNothing`, `ReadError`, between which
the line delivers. A frame is six two-byte words, the grain at which the code and the
receiver disagree. Uninitialised memory (`tolSec`, the buffer on the stack) holds anything.
The conversion into a `NavSatFix` is not modelled; it negates `posCovDD` for the Up variance
(`comms/src/GpsNode.cpp:165`), which is worth a look by whoever takes the node into the build.

### 2.8 The pure computations

`Calls` makes one call after another and keeps its arguments and result: `on_init` of both components
with every combination of a missing, malformed or out-of-range parameter, the frame identifiers
of what it accepted, `configure_node`'s dictionary words against the parsers, a request and a
response for any two objects, a target through both conversions, straight-line plans on a
grid, and any sequence of calls of the arm's mock. What the language leaves undefined (an
infinite quotient converted to `int`) or what rounding leaves open is a set of results, and
the property must hold for each.

## 3. Runs

Except for `Calls_all` all runs set `CHECK_DEADLOCK FALSE`: the numbers of activations, mishaps,
commands, messages and ticks are bounded, so the models stop by construction. For the code's
own progress there are the liveness properties instead.

| Run | Bounds | Properties | What it shows |
|---|---|---|---|
| `PxxMotor_mishap` | 2 drives, 1 activation, 1 mishap, backlog 1; fair | `TypeOK`, `OneInFlight`, `AnswerIsOwn`, `Disarmed`, `ActivationEnds` | a single failure anywhere: one transaction at a time, every accepted answer belongs to its request, the activation ends, and what is not active is disarmed |
| `PxxMotor_restart` | 1 drive, 2 activations, 2 mishaps, backlog 2 | `ActiveIsReady`, `NeverIllegal`, `EnabledAtRest`, `StaleOnlyEarly` | crash, restart and re-activation over what was left behind; a stale answer is accepted no deeper into `configure_node`, counted in objects, than the backlog |
| `PxxMotor_inflight` | 2 drives, 2 activations, backlog 2 | `OneInFlight` (violated) | finding 1 |
| `PxxCyclic_arm` | 1 drive, 2 places, 2 activations, 2 commands, queue 2, 1 mishap; fair | `TypeOK`, `OnlyCommanded`, `HoldIsStill`, `FeedbackIsOfNow`, `FaultNoticed` | nothing moves uncommanded, reported positions are of this activation, an old fault is only reported of drives that owed process data, a fault ends the activation |
| `PxxCyclic_pair` | 2 drives, 2 places, 2 commands, queue 2 | `ArmAgrees` | a cycle sent in part is the last one |
| `OdescDriveBackend_stop` | 2 axes, 1 activation, 2 commands, queue 2, 1 mishap | `TypeOK`, `IdleWhenStopped`, `WheelsAgree`, `ImplementsBackend` | stopping, partial writes, and the refinement of `DriveBackend` |
| `OdescDrive_live` | 1 axis, 2 activations, 2 estimates, queue 2, 1 mishap, link up or down; fair | `Untorn`, `OfThisActivation`, `StopEnds`, `DeadBusNoticed` | feedback across threads and activations, and progress |
| `OdescDrive_down` | 1 axis, link up or down, no mishap | `ActiveOnlyWithBus` (violated) | finding 2 |
| `TeleopDrive_mock` | axes at full deflection, timeout of 1 cycle, 1 mishap; fair | `TypeOK`, `TankTracks`, `DeadmanStops`, `ImplementsBackend` | from the joystick to the wheels, and the second refinement |
| `SyntheticVio_run` | latency 0 or 1, 3 truth messages, 3 ticks, 1 reset, queue 2; fair | `TypeOK`, `ElapsedIsSpan`, `OnlyConfigured`, `NothingDueIsLeft`, `LatencyKept`, `AllComeOut` | delays and faults are as configured and every measurement comes out |
| `GpsNode_pair` | 2 epochs, tolerance 0, 1 or 2 s | `PairIsPublished` (violated) | finding 3 |
| `Calls_all` | node ids at both ends of their ranges, 600 commands, a 7 x 7 grid, resolutions -1..3 | `WheelsAddressable`, `ArmAddressable`, `MappedIsParsed`, `EchoIsOwn`, `TargetArrives`, `PathIsLine`, `MockObeys` | the pure computations |

*Why the bounds are enough.* Two drives are the least with an answer from the wrong drive, a
drive configured while another waits, a Shutdown that must go on after a failed one, and targets
of two cycles in one SYNC. A mishap each of two activations covers a failure and its recovery.
Two places tell an old position from a new one. A queue of two frames is one short of what a
cycle of two drives sends, and can be empty, partly filled and full; the code's behaviour
depends on nothing else about it. The safety properties are proved for all bounds
(section 5): what the bounds still decide is the liveness properties, and `ActiveIsReady` and `NeverIllegal`
where an activation begins with answers outstanding.
In `SyntheticVio`, three messages are the least with one held up behind another and one
dropped, and one reset makes stamps go back. The commands of `Calls_all` go past the 32-bit limit on
both sides, and the node ids past the ends of both ranges.

*Exceptions inside the properties.* `ActiveIsReady` and `NeverIllegal` except drives in `upset`, since
NMT commands are unacknowledged and a drive may fault after its last check. `Disarmed` and
`IdleWhenStopped` except drives in `fumbled`: `deactivate()` sends once and does not wait for
an answer, so a lost or refused frame stays unnoticed. These are limits of the code, listed
as hazards, and not weaknesses the runs would hide: outside these drives the properties are
unconditional. Crash puts every drive in `fumbled`: nothing is sent by a dead process.
`WheelsAgree` and the properties of `PxxCyclic` except axes and drives that lost a frame, rebooted or
faulted: the code has no way to notice the first two. `HoldIsStill` is about controllers that only
hold: one that kept running while the component was inactive, and gives its old set point in
the first cycle after the re-activation, moves the joint, and the NaN of `on_activate` do not prevent it.
`FeedbackIsOfNow` excepts the status words of drives in `owing`: `activate()` clears them before it waits for
anything, so a fault word that was still under way is stored again, and the first `read()` stops at a
fault that `configure_node` has reset since. Positions have no exception, since `configure_node` stores them anew.
`NothingDueIsLeft` and `LatencyKept` are about time that does not go back: after a reset a measurement with a later
release time holds up the ones behind it, and the truth callback publishes by the stamp it is
given. `FaultNoticed` excepts a drive that falls silent.

### Findings

1. *`PxxMotor_inflight`.* `deactivate()` writes the control word without waiting for the
   acknowledgement (`socketcan_motor_backend.cpp:150`). If the backend is activated again before
   the drives have answered, several requests are in flight, against the comment in
   `socketcan_motor_backend.hpp:63`, and `configure_node`'s first request to a drive, which is to
   the same object 6040:0, takes the old acknowledgement for its own. How far this
   goes is `StaleOnlyEarly`: a stale answer ends only a wait for one of the first `backlog - 1`
   objects `configure_node` asks about. Objects are the measure, not lines, because an
   answer skipped while waiting for one line can serve a later line about the same object. The position is the
   sixteenth object, so the seeding of the target is not reached unless more than sixteen activations in a
   row begin over undrained answers (`EnabledAtRest`); on a drained bus no stale answer is accepted at all
   (`OwnAnswers`).
2. *`OdescDrive_down`.* `src/docs/RUN_GUIDE.md:374` says that with `can0` down `on_activate` fails.
   `activate()` ignores the result of its requests (`socketcan_drive_backend.cpp:46`), and a CAN
   socket can be bound to an interface that exists but is down, so the component becomes
   active, and fails in its first `write()` (`DeadBusNoticed`).

3. *`GpsNode_pair`.* `comms/include/comms/Gps.hpp:3` says that the structs match the serialized payloads
   byte for byte. `pollMsgs()` copies from the fifth byte of the frame (`comms/src/GpsNode.cpp:108`), where the
   length field is, two bytes before the payload. `iTow` is then the length and the lower half of the
   time of week. The lengths of the two messages differ, so whole frames of one epoch never
   compare equal, and no fix is published. CMake does not build the node yet. The message ids disagree
   as well: the program looks for 0x0136, which is NAV-COV in the UBX protocol, as the position, while
   NAV-POSLLH, which `GpsNode.cpp:190` names, is 0x0102. The run sends the ids the program looks for.

## 4. Fairness

`PxxMotor`: weak fairness of the main thread inside an activation (`Transaction`) and a
deactivation (`Disarming`): a running thread whose waits are bounded by 100 ms. Weak fairness of
`Receive(n)` (the thread polls while the socket is open) and of `Handle(n)` (a powered drive works
through its queue). None for `Activate`, `Deactivate` or mishaps: nobody has to call them.

`OdescDrive`: weak fairness of `Cycle` (the control loop runs), of the steps of a call that has
begun, and of `Reception`. None for `Stop`, for the axes or for the link: a wheel controller must
cope with axes that never answer. `StopEnds` needs no fairness of the axes, since each `poll`
ends after 100 ms; it holds although `Receive` may keep finding frames, because the loop
condition is read in between.

`PxxCyclic`: weak fairness of `Cycle` (controller_manager's loop), `Stopping`, `Deliver` (the bus) and `Receive(n)`. None
for faults, reboots, lifecycle calls, the steps of `activate()` and `Unheard`. `TeleopDrive`: weak fairness of `Repeat` (joy_node repeats at
20 Hz, `joystick.yaml`), the callback and the control loop; none for the operator, who may hold the
stick for ever. `SyntheticVio`: weak fairness of the timer, the truth callback, the
simulator's clock and its messages; none for truth messages, which is the point of `AllComeOut`.

## 5. Proofs

The theorems hold for every number of drives, axes, joints and activations and every bound, under
the named assumptions of the modules (constants are natural numbers, at least one drive, a horizon
that outlasts the latency, an angle set that is a set of numbers, and the like). Two theorem groups have a
hypothesis besides, and one rests on an assumption in its model:

- `MaxBacklog = 1` for `QuietOneInFlight`, `OwnAnswers`, `NeverIllegalAlways` and `ActiveIsReadyAlways` of
  `PxxMotor_proofs`: no activation begins while a drive owes an answer. `pxx` takes this for granted
  (`pxx/include/pxx/socketcan_motor_backend.hpp:63`), and it holds whenever the pause between two activations is
  longer than a drive takes to answer. `EnabledAtRestAlways` needs `MaxBacklog <= 16` only, and
  `StaleOnlyEarlyAlways`, `DisarmedAlways` and `TypeCorrect` nothing. Within an activation nothing is assumed of
  the drives: answers are late, lost or refused, frames are lost, drives fault and reboot, the process dies.
- `SameWidth` for `TankTracksAlways`: the teleoperation node and diff_drive_controller are configured with one
  track width. `teleop/config/joystick.yaml:12` and the controllers' `controllers.yaml:24` both say 0.67; with
  two different values the statement is false.
- The theorems of `PxxCyclic_proofs` take the outcome of `configure_node` from `PxxMotor`: a configured drive is enabled
  with the position it was asked for, and its last answer came after the process data it owed when the
  socket was opened (`Answered`). The second holds because a drive answers in order and its answer is its own;
  that is proved for `MaxBacklog = 1` (`OwnAnswers`), and for the answers this depends on, the position's and those
  after it, for `MaxBacklog <= 16` (`StaleOnlyEarlyAlways`: they are sixteen objects deep). Nothing is assumed of the bus an activation begins on.

Each theorem is an inductive invariant with one step per action, or per group of actions that change the
same things.

| Theorem | Statement | Argument |
|---|---|---|
| `PxxMotor_proofs!TypeCorrect` | `[](TypeOK /\ InRange)` | `InRange` ties `node` and `step` to `phase`; without it the next line of `Program` need not exist |
| `PxxMotor_proofs!DisarmedAlways` | `[]Disarmed` | `DisarmInv`: `Disarmed` speaks of the end of `deactivate()`, so the invariant says it already of every drive the loop has passed. A drive is `Doomed` when nothing queued after its last Shutdown enables it; queues are FIFO, so a late `EnableOperation` of the failed activation is before the Shutdown |
| `PxxMotor_proofs!QuietOneInFlight`, `OwnAnswers` | `MaxBacklog = 1` implies `[](OneInFlight /\ AnswerIsOwn)` | `QuietInv`: what is on the bus and in the slot during each phase; a transaction is left by its own answer or by giving up, never with its request outstanding and the next sent |
| `PxxMotor_proofs!NeverIllegalAlways` | `MaxBacklog = 1` implies `[]NeverIllegal` | `ProgressInv` relates the line the main thread is at to the objects of the drive: `After(d, k)` says that every object has the value of the last write to it among lines 1..k, `Prepared` that the drive will be there, and in the right NMT state, once it has handled what is queued. A request on its way either `Fits` the state its drive will then be in, or is the Shutdown of `deactivate()`. `LegalThen` shows that each line is legal after the lines before it |
| `PxxMotor_proofs!ActiveIsReadyAlways` | `MaxBacklog = 1` implies `[]ActiveIsReady` | `ProgressInv`: an accepted answer means that its line has been carried out (`Carried`), so a drive that is passed is `Done`; `ReadyThen` reads `Ready` off the 29 lines |
| `PxxMotor_proofs!StaleOnlyEarlyAlways` | `[]StaleOnlyEarly`, whatever the backlog | `BacklogInv`. The depth of a line is the number of different objects asked about up to it. A request is `Deep` when its line is deeper than the backlog its own activation began with; every request and answer under way is of the backlog and asks about the object of its line (`AllKnown`), a deep one has nothing before it, and the awaited one nothing behind it (`Ordered`). The main thread passes the first lines only on answers of the same object, and throws away what it skips (`InPlace`), so that each activation gets at most one object further on stale answers |
| `PxxMotor_proofs!EnabledAtRestAlways` | `MaxBacklog <= 16` implies `EnabledAtRest`, an action property | `AtRestInv`: by the theorem above the answer to the position request is of this activation (`AnswersTimely`), so line 24 writes a position of this activation (`SeedingInv`), and it is queued before line 28, the only one that enables (`FramesAtRest`); a target that is not this position is that of a reboot |
| `PxxCyclic_proofs!TypeCorrect` | `[]TypeOK` | inductive as it stands |
| `PxxCyclic_proofs!OnlyCommandedAlways` | `[]OnlyCommanded` | `CommandInv` follows a target along its whole way: command, frame, pending target, target, place, report |
| `PxxCyclic_proofs!HoldIsStillAlways` | `[]HoldIsStill` | with `PositionInv`: what the state interfaces say is where the drive has been this activation, so a hold gives nothing new |
| `PxxCyclic_proofs!FeedbackIsOfNowAlways` | `[]FeedbackIsOfNow` | `CommandInv` and `PositionInv` for the positions, of the drives configured so far while the activation runs. `FaultInv`: while `activate()` runs only drives in `owing` have process data under way or a fault in `feedback_`; a drive configured in this activation has no fault, and sends none, unless it is in `upset` |
| `PxxCyclic_proofs!ArmAgreesAlways` | `[]ArmAgrees` | `SentInv` says of the loop in `write()` that the drives passed will have their commands once the queue and one SYNC are delivered (`FinalIn`); `EnabledInv` that they are on to take them. Delivery changes neither, since the bus keeps its order |
| `OdescDrive_proofs!TypeCorrect` | `[](TypeOK /\ Orderly)` | `Orderly`: socket, thread, call and lifecycle states agree, e.g. a closed socket has no thread |
| `OdescDrive_proofs!IdleAlways` | `[]IdleWhenStopped` | `RestInv`: the axes already told to idle stay told during the call; nothing is sent between calls of a stopped component |
| `OdescDrive_proofs!FeedbackAlways`, `OfThisActivationAlways` | `[](Untorn /\ OfThisActivation)` | `FeedbackInv`: outside `"storing"` both fields of every estimate have one origin, inside it only the stored axis may differ, and every frame in the buffer was sent after `Open` |
| `OdescDriveBackend_proofs!WheelsAgreeAlways` | `[]WheelsAgree` | `TellInv`: in a `write()` that has not failed, the wheels passed have been told the command; `Latest` is not changed by delivery |
| `OdescDriveBackend_proofs!DriveImplementsBackend` | `Spec => ImplementsBackend` | every action is an action of `DriveBackend`, or leaves `Latest`, the result and the lifecycle as they are |
| `TeleopDrive_proofs!TypeCorrect`, `TankTracksAlways` | `[]TypeOK`; `SameWidth` implies `[]TankTracks` | the kinematics of the node and of the controller invert each other when the widths agree; a speed that stands still is everyone's |
| `TeleopDrive_proofs!MockImplementsBackend` | `Spec => ImplementsBackend` | as above, with the mock's variables |
| `SyntheticVio_proofs!TypeCorrect`, `ElapsedIsSpanAlways`, `OnlyConfiguredAlways`, `NothingDueIsLeftAlways`, `LatencyKeptAlways` | the four invariants, and the action property `LatencyKept` | `IInv`: the node runs only with validated parameters (`StartInv`); the drift is a telescoping sum (`DriftInv`); one latency for all (`PendingInv`), so that the queue is ordered by release time while stamps come in order (`OrderInv`) and looking at its front is enough |
| `Calls_proofs!WheelsAddressableAlways`, `ArmAddressableAlways` | every description `on_init` accepts | identifiers of different node ids and services are different numbers, and none is another's |
| `Calls_proofs!MappedIsParsedAlways` | every node id | `Remapped` says what the writes of a remapping leave behind in any dictionary: the last write to an object decides (`LastStays`), and the words of the mapping are those entries (`WordKept`). What each PDO then sends is put together in the order in which the backend takes it apart |
| `Calls_proofs!EchoIsOwnAlways` | every pair of requests | index and sub-index are read back from the bytes they were put into |
| `Calls_proofs!TargetArrivesAlways` | every angle and gear ratio | `RadToCounts` is cut to 32 bits: it is undone iff nothing was cut |
| `Calls_proofs!PathIsLineAlways` | every pair of points and resolution | all gaps of a line with n poses are its n-th part, and n is the number of whole resolutions in its length, or one less where the quotient is exact and may be rounded down |
| `Calls_proofs!MockObeysAlways` | every sequence of calls | `MockInv` adds what stands as a command to what is reported |

*Model-checked only:*

- the liveness properties `ActivationEnds`, `StopEnds`, `DeadBusNoticed`, `FaultNoticed`, `DeadmanStops`, `AllComeOut`: liveness under
  fairness and ENABLED are beyond the prover used;
- `NeverIllegal` and `ActiveIsReady` with `MaxBacklog > 1`, which `PxxMotor_restart` checks for a backlog of two.
  They do not hold for every backlog, so `Carried` is an invariant only when activations begin on a drained bus.
  Searched with one drive that handles a frame before anything else happens, and one lost frame as the only
  mishap, both hold up to a backlog of five. With six, `ActiveIsReady` fails: an old answer about 1600:0 is taken for
  that to the line which sets the count of RPDO1's mapping, whose frame was lost, and the drive is enabled with
  an empty RPDO1. With seven, `NeverIllegal` fails in the same way: the write that clears
  the count is lost, and the entry is written while it is set.

No RECURSIVE operator occurs in the modules.

## 6. Not modelled

Wording of log and error messages; floating-point values, so noise, poses and the rounding of
conversions, and the IEEE bytes in ODrive's frames; the EMCY error code, which only words a
message; the conversion of a GPS fix; the vcan emulator, launch files, descriptions, scripts and
stored settings, which have no run-time state of their own. Data
races: the code has none in the modelled part (`rx_running_` is atomic, shared data is under a
mutex, the file descriptor is closed after the join). Bus-off recovery is only a link going
down and coming up. Node id 63 of a wheel is ODrive's broadcast; `on_init` accepts it, and two joints
with one id: `WheelsAddressable` and `ArmAddressable` state what then happens. The
axis and button numbers of the joystick are taken to exist in its messages.

*Steering as documented.* `src/docs/RUN_GUIDE.md:190` and `:346-350` describe arcade steering: the triggers give the
speed, the left stick only the turn, with a deadman button, three axes and two scales as parameters.
`joy_teleop.cpp:44-49` implements tank steering: the mean of two sticks is the speed, their difference the
turn, so a stick pushed forward drives the rover; `joystick.yaml` has two axes, `max_vel` and `track_width`.
Code and guide disagree, and an operator who follows the guide is surprised. `TeleopDrive` models the code:
`TankTracks` states what the sticks then do, and no run is needed to see that it is not what the guide says.

## 7. Plan

1. `NeverIllegal` and `ActiveIsReady` for a backlog of up to five, with `BacklogInv` as the starting point:
   it says at which lines an answer may be stale, and so which lines of `Carried` have to be given up.
2. The composition of `TeleopDrive` with the SocketCAN backend through `DriveBackend`, and the arbitration between
   teleoperation and the navigation stack on the command topic, once the repository defines it.
3. The GPS conversion, once the node is built.
