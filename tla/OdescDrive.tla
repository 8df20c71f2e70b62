----------------------------- MODULE OdescDrive -----------------------------
(***************************************************************************)
(* The drivetrain: odesc::OdescSystemHardware with its SocketCAN backend,  *)
(* the receive thread, the CAN bus and the ODrive axes at the other end.   *)
(*                                                                         *)
(* Threads.  controller_manager's loop calls read(), lets the controllers  *)
(* set the commands, and calls write(); its lifecycle services and its     *)
(* destructor call on_activate() and the rest.  These calls exclude each   *)
(* other.  The receive thread runs rx_loop() and shares estimates_ with    *)
(* read() under estimate_mutex_, which it holds exactly in rx = "storing". *)
(*                                                                         *)
(* Values.  A command is the number of the controller update that gave it, *)
(* 0 for a stop; an encoder estimate is the number of the frame that       *)
(* brought it, 0 for the placeholder.                                      *)
(***************************************************************************)
EXTENDS Integers, Sequences

CONSTANTS
  N,            \* how many axes: node_ids_ has N entries
  MaxEpoch,     \* bound on the number of activations
  MaxCommands,  \* bound on the number of controller updates
  MaxTurns,     \* bound on the estimates each axis sends
  MaxQueue,     \* frames a transmit or a receive queue can hold
  MaxMishaps,   \* bound on what goes wrong outside the program, in all
  Links         \* the states the CAN interface may be in at the start

ASSUME OdescAssumption ==
  /\ N \in Nat \ {0}
  /\ MaxEpoch \in Nat /\ MaxCommands \in Nat /\ MaxTurns \in Nat
  /\ MaxQueue \in Nat /\ MaxMishaps \in Nat
  /\ Links \subseteq {"up", "down"}

VARIABLES
  life,       \* state of the hardware component, "failed": finalized by on_error
  loop,       \* next call of the control loop, "off" before the first activation
  call,       \* backend call in progress
  node,       \* position in node_ids_ of the next frame of that call
  result,     \* success, in write()
  target,     \* the lifecycle state a "stop" leads to
  socket,     \* can_transport_
  running,    \* rx_running_
  rx,         \* where the receive thread is
  held,       \* the frame it holds
  estimates,  \* estimates_, by position in node_ids_
  states,     \* hw_positions_ and hw_velocities_
  commands,   \* hw_commands_
  link,       \* the CAN interface
  tx,         \* tx[n]: frames to axis n and not yet handled by it
  rxq,        \* the socket's receive buffer
  axis,       \* axis[n]: state, velocity input, and estimates sent
  epoch,      \* history: activations so far
  issued,     \* history: controller updates so far
  opened,     \* history: opened[n], estimates axis n had sent at the activation
  written,    \* history: "yes" once a write() succeeded, this activation
  fumbled,    \* history: axes whose IDLE never took effect, or that rebooted
  upset,      \* history: axes that rebooted or missed a command, this activation
  mishaps     \* history: mishaps so far

program == <<life, loop, call, node, result, target, socket, running, states, commands>>
thread == <<rx, held, estimates>>
bus == <<link, tx, rxq>>
count == <<epoch, issued, opened>>
history == <<written, fumbled, upset>>
vars == <<program, thread, bus, axis, count, history, mishaps>>

Node == 1..N

-----------------------------------------------------------------------------
(* Frames.                                                                  *)

AxisStateFrame(s) == [kind |-> "state", value |-> s]
InputVelocityFrame(c) == [kind |-> "velocity", value |-> c]

Frame == [kind : {"state"}, value : {"idle", "closed_loop"}]
           \union [kind : {"velocity"}, value : 0..MaxCommands]
Estimate == [from : Node, turn : 0..MaxTurns]
Motion == [position : 0..MaxTurns, velocity : 0..MaxTurns]
Axis == [state : {"idle", "closed_loop"}, velocity : 0..MaxCommands,
         turn : 0..MaxTurns]

Zero == [position |-> 0, velocity |-> 0]
AllZero == [n \in Node |-> Zero]
NoFrame == [from |-> 0, turn |-> 0]

\* An axis after power-up: the stored configuration starts closed loop control.
Booted(turn) == [state |-> "closed_loop", velocity |-> 0, turn |-> turn]

TypeOK ==
  /\ life \in {"inactive", "active", "failed", "shutdown"}
  /\ loop \in {"off", "read", "update", "write"}
  /\ call \in {"none", "activate", "write", "idle", "join"}
  /\ node \in 1..N+1
  /\ result \in {"ok", "error"}
  /\ target \in {"inactive", "shutdown", "exit"}
  /\ socket \in {"open", "closed"}
  /\ running \in {"yes", "no"}
  /\ rx \in {"none", "check", "receive", "got", "storing"}
  /\ held \in Estimate \union {NoFrame}
  /\ estimates \in [Node -> Motion]
  /\ states \in [Node -> Motion]
  /\ commands \in 0..MaxCommands
  /\ link \in {"up", "down"}
  /\ tx \in [Node -> Seq(Frame)]
  /\ rxq \in Seq(Estimate)
  /\ axis \in [Node -> Axis]
  /\ epoch \in 0..MaxEpoch
  /\ issued \in 0..MaxCommands
  /\ opened \in [Node -> 0..MaxTurns]
  /\ written \in {"yes", "no"}
  /\ fumbled \subseteq Node
  /\ upset \subseteq Node
  /\ mishaps \in 0..MaxMishaps

Init ==
  /\ life = "inactive" /\ loop = "off"
  /\ call = "none" /\ node = 1 /\ result = "ok" /\ target = "inactive"
  /\ socket = "closed" /\ running = "no"
  /\ rx = "none" /\ held = NoFrame
  /\ estimates = AllZero /\ states = AllZero /\ commands = 0
  /\ link \in Links
  /\ tx = [n \in Node |-> <<>>] /\ rxq = <<>>
  /\ axis = [n \in Node |-> Booted(0)]
  /\ epoch = 0 /\ issued = 0 /\ opened = [n \in Node |-> 0]
  /\ written = "no" /\ fumbled = Node /\ upset = {} /\ mishaps = 0

Mishap == mishaps < MaxMishaps /\ mishaps' = mishaps + 1

-----------------------------------------------------------------------------
(* Sending.  The interface takes a frame when it is up and has room.        *)

CanSend(n) == link = "up" /\ Len(tx[n]) < MaxQueue
Send(n, frame) == tx' = [tx EXCEPT ![n] = Append(@, frame)]

\* Frames to the axes in node_ids_ order, whichever of them are not taken.
Sending(c) == call = c /\ node <= N /\ node' = node + 1

-----------------------------------------------------------------------------
(* on_activate.                                                             *)

\* Mutant: the estimates of the activation before are kept.
OpenKeepingEstimates ==
  /\ life = "inactive" /\ call = "none"
  /\ epoch < MaxEpoch
  /\ socket' = "open" /\ rxq' = <<>>
  /\ running' = "yes" /\ rx' = "check"
  /\ call' = "activate" /\ node' = 1
  /\ epoch' = epoch + 1
  /\ opened' = [n \in Node |-> axis[n].turn]
  /\ written' = "no" /\ fumbled' = {} /\ upset' = {}
  /\ UNCHANGED <<life, loop, result, target, states, commands, held, estimates,
                 link, tx, axis, issued, mishaps>>

\* The socket is opened, the estimates cleared and the receive thread started.
Open ==
  /\ life = "inactive" /\ call = "none"
  /\ epoch < MaxEpoch
  /\ socket' = "open" /\ rxq' = <<>>
  /\ estimates' = AllZero
  /\ running' = "yes" /\ rx' = "check"
  /\ call' = "activate" /\ node' = 1
  /\ epoch' = epoch + 1
  /\ opened' = [n \in Node |-> axis[n].turn]
  /\ written' = "no" /\ fumbled' = {} /\ upset' = {}
  /\ UNCHANGED <<life, loop, result, target, states, commands, held,
                 link, tx, axis, issued, mishaps>>

\* There is no such interface: on_activate returns ERROR, and on_error, which
\* is not overridden, finalizes the component.
OpenFails ==
  /\ life = "inactive" /\ call = "none"
  /\ Mishap
  /\ life' = "failed"
  /\ UNCHANGED <<loop, call, node, result, target, socket, running, states,
                 commands, thread, bus, axis, count, history>>

RequestClosedLoop ==
  /\ Sending("activate") /\ CanSend(node)
  /\ Send(node, AxisStateFrame("closed_loop"))
  /\ UNCHANGED <<life, loop, call, result, target, socket, running, states,
                 commands, thread, link, rxq, axis, count, history, mishaps>>

\* activate() does not look at the result of its requests.
RequestFails ==
  /\ Sending("activate") /\ ~CanSend(node)
  /\ UNCHANGED <<life, loop, call, result, target, socket, running, states,
                 commands, thread, bus, axis, count, history, mishaps>>

Activated ==
  /\ call = "activate" /\ node > N
  /\ states' = AllZero /\ commands' = 0
  /\ life' = "active" /\ call' = "none"
  /\ loop' = IF loop = "off" THEN "read" ELSE loop
  /\ UNCHANGED <<node, result, target, socket, running, thread, bus, axis,
                 count, history, mishaps>>

-----------------------------------------------------------------------------
(* on_deactivate, on_shutdown (to "shutdown") and the destructor (to        *)
(* "exit", after which the process is started again).                       *)

Stop ==
  /\ call = "none"
  /\ \/ target' = "inactive" /\ life = "active"
     \/ target' = "shutdown" /\ life \in {"inactive", "active"}
     \/ target' = "exit"
  /\ call' = IF socket = "open" THEN "idle" ELSE "join"
  /\ node' = 1
  /\ running' = IF socket = "open" THEN running ELSE "no"
  /\ UNCHANGED <<life, loop, result, socket, states, commands, thread, bus,
                 axis, count, history, mishaps>>

RequestIdle ==
  /\ Sending("idle") /\ CanSend(node)
  /\ Send(node, AxisStateFrame("idle"))
  /\ UNCHANGED <<life, loop, call, result, target, socket, running, states,
                 commands, thread, link, rxq, axis, count, history, mishaps>>

\* Mutant: the requests end at the first one that cannot be sent.
IdleFailsOnce ==
  /\ call = "idle" /\ node <= N /\ ~CanSend(node)
  /\ node' = N + 1
  /\ fumbled' = fumbled \union {node}
  /\ UNCHANGED <<life, loop, call, result, target, socket, running, states,
                 commands, thread, bus, axis, count, written, upset, mishaps>>

\* A request that cannot be sent only makes on_deactivate warn.
IdleFails ==
  /\ Sending("idle") /\ ~CanSend(node)
  /\ fumbled' = fumbled \union {node}
  /\ UNCHANGED <<life, loop, call, result, target, socket, running, states,
                 commands, thread, bus, axis, count, written, upset, mishaps>>

\* Mutant: the receive thread is joined without being told to end.
IdleSentOnly ==
  /\ call = "idle" /\ node > N
  /\ call' = "join"
  /\ UNCHANGED <<life, loop, node, result, target, socket, running, states,
                 commands, thread, bus, axis, count, history, mishaps>>

IdleSent ==
  /\ call = "idle" /\ node > N
  /\ call' = "join" /\ running' = "no"
  /\ UNCHANGED <<life, loop, node, result, target, socket, states,
                 commands, thread, bus, axis, count, history, mishaps>>

\* The thread has ended: the socket is closed and the command cleared.  After
\* "exit" a new process starts; what it holds before it is activated is never
\* read, and on_activate sets all of it.
Joined ==
  /\ call = "join" /\ rx = "none"
  /\ socket' = "closed" /\ rxq' = <<>>
  /\ commands' = 0
  /\ states' = [n \in Node |-> [states[n] EXCEPT !.velocity = 0]]
  /\ call' = "none"
  /\ life' = IF target = "exit" THEN "inactive" ELSE target
  /\ loop' = IF target = "exit" THEN "off" ELSE loop
  /\ UNCHANGED <<node, result, target, running, thread, link, tx, axis,
                 count, history, mishaps>>

\* The process dies, and is started again.
Crash ==
  /\ life \in {"active", "failed"} \/ call # "none"
  /\ Mishap
  /\ life' = "inactive" /\ loop' = "off"
  /\ call' = "none" /\ node' = 1
  /\ socket' = "closed" /\ rxq' = <<>>
  /\ running' = "no" /\ rx' = "none" /\ held' = NoFrame
  /\ estimates' = AllZero /\ states' = AllZero /\ commands' = 0
  /\ fumbled' = Node
  /\ UNCHANGED <<result, target, link, tx, axis, count, written, upset>>

-----------------------------------------------------------------------------
(* The control loop; it calls a component that is inactive or active.       *)

InLoop(step) == call = "none" /\ loop = step /\ life \in {"inactive", "active"}

\* Mutant: read() does not take estimate_mutex_.
ReadUnlocked ==
  /\ InLoop("read") /\ socket = "open"
  /\ states' = estimates
  /\ loop' = "update"
  /\ UNCHANGED <<life, call, node, result, target, socket, running, commands,
                 thread, bus, axis, count, history, mishaps>>

Read ==
  /\ InLoop("read") /\ socket = "open"
  /\ rx # "storing"
  /\ states' = estimates
  /\ loop' = "update"
  /\ UNCHANGED <<life, call, node, result, target, socket, running, commands,
                 thread, bus, axis, count, history, mishaps>>

\* read() or write() after on_deactivate returns ERROR.
NotOpen ==
  /\ InLoop("read") \/ InLoop("write")
  /\ socket = "closed"
  /\ life' = "failed"
  /\ UNCHANGED <<loop, call, node, result, target, socket, running, states,
                 commands, thread, bus, axis, count, history, mishaps>>

\* The controllers give a new command, or none (external).
Update ==
  /\ InLoop("update")
  /\ loop' = "write"
  /\ \/ /\ life = "active" /\ issued < MaxCommands
        /\ issued' = issued + 1 /\ commands' = issued + 1
     \/ UNCHANGED <<issued, commands>>
  /\ UNCHANGED <<life, call, node, result, target, socket, running, states,
                 thread, bus, axis, epoch, opened, history, mishaps>>

\* Mutant: node_ids_ is walked from one before its first entry.
WriteFromZero ==
  /\ InLoop("write") /\ socket = "open"
  /\ call' = "write" /\ node' = 0 /\ result' = "ok"
  /\ UNCHANGED <<life, loop, target, socket, running, states, commands,
                 thread, bus, axis, count, history, mishaps>>

Write ==
  /\ InLoop("write") /\ socket = "open"
  /\ call' = "write" /\ node' = 1 /\ result' = "ok"
  /\ UNCHANGED <<life, loop, target, socket, running, states, commands,
                 thread, bus, axis, count, history, mishaps>>

SendVelocity ==
  /\ Sending("write") /\ CanSend(node)
  /\ Send(node, InputVelocityFrame(commands))
  /\ UNCHANGED <<life, loop, call, result, target, socket, running, states,
                 commands, thread, link, rxq, axis, count, history, mishaps>>

\* Mutant: write() forgets a frame that was not sent.
VelocityForgotten ==
  /\ Sending("write") /\ ~CanSend(node)
  /\ UNCHANGED <<life, loop, call, result, target, socket, running, states,
                 commands, thread, bus, axis, count, history, mishaps>>

VelocityFails ==
  /\ Sending("write") /\ ~CanSend(node)
  /\ result' = "error"
  /\ UNCHANGED <<life, loop, call, target, socket, running, states,
                 commands, thread, bus, axis, count, history, mishaps>>

\* An ERROR finalizes the component; nothing is sent to the axes.
Written ==
  /\ call = "write" /\ node > N
  /\ call' = "none" /\ loop' = "read"
  /\ \/ result = "ok" /\ life' = life /\ written' = "yes"
     \/ result = "error" /\ life' = "failed" /\ written' = written
  /\ UNCHANGED <<node, result, target, socket, running, states, commands,
                 thread, bus, axis, count, fumbled, upset, mishaps>>

-----------------------------------------------------------------------------
(* The receive thread.                                                      *)

Check ==
  /\ rx = "check"
  /\ rx' = IF running = "yes" THEN "receive" ELSE "none"
  /\ UNCHANGED <<program, held, estimates, bus, axis, count, history, mishaps>>

\* receive() returns a frame, or nothing after 100 ms.
Receive ==
  /\ rx = "receive"
  /\ \/ /\ rxq # <<>>
        /\ held' = Head(rxq) /\ rxq' = Tail(rxq)
        /\ rx' = "got"
     \/ /\ rxq = <<>>
        /\ rx' = "check"
        /\ UNCHANGED <<held, rxq>>
  /\ UNCHANGED <<program, estimates, link, tx, axis, count, history, mishaps>>

\* estimate_mutex_ is taken and the two fields stored one after the other.
StorePosition ==
  /\ rx = "got"
  /\ estimates' = [estimates EXCEPT ![held.from].position = held.turn]
  /\ rx' = "storing"
  /\ UNCHANGED <<program, held, bus, axis, count, history, mishaps>>

StoreVelocity ==
  /\ rx = "storing"
  /\ estimates' = [estimates EXCEPT ![held.from].velocity = held.turn]
  /\ held' = NoFrame /\ rx' = "check"
  /\ UNCHANGED <<program, bus, axis, count, history, mishaps>>

-----------------------------------------------------------------------------
(* The axes and the bus (external).                                         *)

Taken(n) == tx[n] # <<>> /\ tx' = [tx EXCEPT ![n] = Tail(@)]

Obeyed(a, f) == IF f.kind = "state" THEN [a EXCEPT !.state = f.value]
                                    ELSE [a EXCEPT !.velocity = f.value]

Handle(n) ==
  /\ link = "up" /\ Taken(n)
  /\ axis' = [axis EXCEPT ![n] = Obeyed(@, Head(tx[n]))]
  /\ UNCHANGED <<program, thread, link, rxq, count, history, mishaps>>

\* A cyclic encoder estimate; nobody hears it without an open socket, and a
\* full receive buffer drops it.
Feedback(n) ==
  /\ link = "up" /\ axis[n].turn < MaxTurns
  /\ axis' = [axis EXCEPT ![n].turn = @ + 1]
  /\ rxq' = IF socket = "open" /\ Len(rxq) < MaxQueue
            THEN Append(rxq, [from |-> n, turn |-> axis[n].turn + 1])
            ELSE rxq
  /\ UNCHANGED <<program, thread, link, tx, count, history, mishaps>>

IsIdle(f) == f.kind = "state" /\ f.value = "idle"

LoseFrame(n) ==
  /\ Taken(n)
  /\ Mishap
  /\ fumbled' = IF IsIdle(Head(tx[n])) THEN fumbled \union {n} ELSE fumbled
  /\ upset' = upset \union {n}
  /\ UNCHANGED <<program, thread, link, rxq, axis, count, written>>

\* An axis gives up control on an error of its own.
Trip(n) ==
  /\ Mishap
  /\ axis' = [axis EXCEPT ![n].state = "idle"]
  /\ UNCHANGED <<program, thread, bus, count, history>>

Reboot(n) ==
  /\ Mishap
  /\ axis' = [axis EXCEPT ![n] = Booted(axis[n].turn)]
  /\ tx' = [tx EXCEPT ![n] = <<>>]
  /\ fumbled' = fumbled \union {n} /\ upset' = upset \union {n}
  /\ UNCHANGED <<program, thread, link, rxq, count, written>>

LinkDown ==
  /\ link = "up"
  /\ Mishap
  /\ link' = "down"
  /\ UNCHANGED <<program, thread, tx, rxq, axis, count, history>>

LinkUp ==
  /\ link = "down"
  /\ Mishap
  /\ link' = "up"
  /\ UNCHANGED <<program, thread, tx, rxq, axis, count, history>>

-----------------------------------------------------------------------------
Activating == Open \/ OpenFails \/ RequestClosedLoop \/ RequestFails \/ Activated
Stopping == RequestIdle \/ IdleFails \/ IdleSent \/ Joined
Cycle == Read \/ NotOpen \/ Update \/ Write
           \/ SendVelocity \/ VelocityFails \/ Written
Reception == Check \/ Receive \/ StorePosition \/ StoreVelocity

Next ==
  \/ Activating \/ Stop \/ Stopping \/ Crash \/ Cycle \/ Reception
  \/ LinkDown \/ LinkUp
  \/ \E n \in Node : \/ Handle(n) \/ Feedback(n)
                     \/ LoseFrame(n) \/ Trip(n) \/ Reboot(n)

Spec == Init /\ [][Next]_vars

\* A call that has begun goes on, the control loop runs, and the receive
\* thread's wait is bounded.
Fairness ==
  /\ WF_vars(Cycle) /\ WF_vars(Stopping) /\ WF_vars(Reception)
  /\ WF_vars(RequestClosedLoop \/ RequestFails \/ Activated)

FairSpec == Spec /\ Fairness

-----------------------------------------------------------------------------
(* Properties.                                                              *)

\* read() never reports a torn estimate: in an active component the position
\* and the velocity of a wheel come from the same frame.
Untorn ==
  life = "active" => \A n \in Node : states[n].position = states[n].velocity

\* No estimate of an earlier activation is reported: what read() gives is the
\* placeholder, or was sent by the axis after the socket was opened.
OfThisActivation ==
  life = "active" => \A n \in Node : states[n].position = 0
                                     \/ states[n].position > opened[n]

\* The velocity axis n ends up with when it has handled its queue.
Velocities(n) == { i \in 1..Len(tx[n]) : tx[n][i].kind = "velocity" }
Latest(n) ==
  IF Velocities(n) = {} THEN axis[n].velocity
  ELSE tx[n][CHOOSE i \in Velocities(n) : \A j \in Velocities(n) : j <= i].value

\* Between two cycles of an active component every wheel that lost no frame
\* has last been sent the command the controllers last gave: no cycle in which
\* only some of the frames could be sent is followed by another.
WheelsAgree ==
  life = "active" /\ call = "none" /\ loop = "read" /\ written = "yes" =>
    \A n \in Node \ upset : Latest(n) = commands

IsClosedLoop(f) == f.kind = "state" /\ f.value = "closed_loop"

\* Whatever is still queued for axis n, it ends up idle.
Resting(n) ==
  \/ /\ axis[n].state = "idle"
     /\ \A i \in 1..Len(tx[n]) : ~IsClosedLoop(tx[n][i])
  \/ \E i \in 1..Len(tx[n]) :
       /\ IsIdle(tx[n][i])
       /\ \A j \in i+1..Len(tx[n]) : ~IsClosedLoop(tx[n][j])

\* "1 (IDLE) on deactivate/cleanup/shutdown": after on_deactivate, on_shutdown
\* or the destructor every axis is idle or about to be, except the axes whose
\* IDLE could not be sent or was lost, and those that rebooted since.
IdleWhenStopped ==
  life \in {"inactive", "shutdown"} /\ call = "none" =>
    \A n \in Node \ fumbled : Resting(n)

\* on_deactivate always returns: the receive thread ends and can be joined.
StopEnds == call \in {"idle", "join"} ~> call = "none"

\* activate() does not notice an interface that is down, but the first write()
\* does, and the component does not stay active.
DeadBusNoticed ==
  life = "active" /\ link = "down" ~> life # "active" \/ link = "up"

\* "can0 down ... -> on_activate failed": with an interface that stays as it
\* is, only one that is up lets on_activate succeed.
ActiveOnlyWithBus == life = "active" => link = "up"
=============================================================================
