------------------------------ MODULE PxxCyclic ------------------------------
(***************************************************************************)
(* The arm in operation: pxx::PxxSystemHardware under controller_manager's *)
(* loop, read() and write() of pxx::SocketCanMotorBackend, the process     *)
(* data branch of rx_loop(), the CAN bus and the drives.                   *)
(*                                                                         *)
(* What configure_node() does frame by frame is PxxMotor.  Here it is one *)
(* step with the outcome PxxMotor establishes: the drive operational,      *)
(* enabled and with its present position as target; or it fails at one of  *)
(* its frames.  An activation begins on whatever bus it finds; a drive     *)
(* answers the requests of configure_node() after all the process data it  *)
(* still owed, and the receive thread takes both in that order.            *)
(*                                                                         *)
(* Calls from controller_manager exclude each other.  The receive thread   *)
(* stores a TPDO under feedback_mutex_ in one step.  Velocities, which no  *)
(* code acts on, and the error code of an EMCY, which only words a         *)
(* message, are left out: a motion TPDO is its position.                   *)
(***************************************************************************)
EXTENDS Integers, Sequences

CONSTANTS
  N,            \* how many drives: node_ids_ has N entries
  MaxPlace,     \* positions are 0..MaxPlace; feedback_ is filled with 0
  MaxEpoch,     \* bound on the number of activations
  MaxCommands,  \* bound on the commands the controllers give
  MaxQueue,     \* frames the transmit queue can hold
  MaxMishaps    \* bound on what goes wrong outside the program, in all

ASSUME CyclicAssumption ==
  /\ N \in Nat \ {0}
  /\ MaxPlace \in Nat /\ MaxEpoch \in Nat /\ MaxCommands \in Nat
  /\ MaxQueue \in Nat /\ MaxMishaps \in Nat

VARIABLES
  life,       \* state of the hardware component, "failed": finalized by on_error
  loop,       \* next call of the control loop, "off" before the first activation
  call,       \* backend call in progress
  node,       \* position in node_ids_ of the next frame of that call
  result,     \* success, in write()
  target,     \* the lifecycle state deactivate() leads to, or "exit"
  socket,     \* can_transport_, and with it the receive thread
  feedback,   \* feedback_, by position in node_ids_
  positions,  \* hw_positions_
  commands,   \* hw_commands_
  tx,         \* frames sent and not yet on the bus
  out,        \* out[n]: TPDOs of drive n not yet seen by rx_loop
  drive,      \* drive[n]: mode, place, latched target and pending RPDO
  epoch,      \* history: activations so far
  issued,     \* history: commands given so far
  start,      \* history: start[n], where drive n was enabled
  given,      \* history: given[n], commands given to joint n, this activation
  steered,    \* history: "yes" once a command moved off the spot, this activation
  heard,      \* history: "yes" once a read() succeeded, this activation
  written,    \* history: "yes" once a write() succeeded, this activation
  upset,      \* history: drives that faulted, rebooted or missed a frame since
              \* they were configured
  owing,      \* history: drives that owed process data when the socket was
              \* opened, and have answered no SYNC of this activation
  mishaps     \* history: mishaps so far

program == <<life, loop, call, node, result, target, socket>>
data == <<positions, commands>>
bus == <<tx, out, drive>>
count == <<epoch, issued, mishaps>>
asked == <<start, given, steered>>
history == <<heard, written, upset, owing>>
vars == <<program, feedback, data, bus, count, asked, history>>

Node == 1..N
Place == 0..MaxPlace
NaN == -1

-----------------------------------------------------------------------------
TargetPositionFrame(n, p) == [kind |-> "target", node |-> n, value |-> p]
SyncFrame == [kind |-> "sync", node |-> 0, value |-> 0]
\* Shutdown and pre-operational, the two frames of deactivate() for a drive.
DisarmFrame(n) == [kind |-> "disarm", node |-> n, value |-> 0]

Frame == { TargetPositionFrame(n, p) : n \in Node, p \in Place }
           \union { DisarmFrame(n) : n \in Node } \union {SyncFrame}

Motion == [kind : {"motion"}, value : Place]
Status == [kind : {"status"}, value : {"ok", "fault"}]

\* MotorFeedback: a status word of 0 is none.
MotorFeedback == [position : Place, status : {"none", "ok", "fault"}]
NoFeedback == [n \in Node |-> [position |-> 0, status |-> "none"]]

Drive == [mode : {"off", "enabled", "fault"}, place : Place,
          target : Place, pending : Place \union {NaN}]
Unclaimed == [n \in Node |-> NaN]
Nothing == [n \in Node |-> {}]

TypeOK ==
  /\ life \in {"inactive", "active", "failed"}
  /\ loop \in {"off", "read", "update", "write"}
  /\ call \in {"none", "activate", "write", "disarm"}
  /\ node \in 1..N+1
  /\ result \in {"ok", "error"}
  /\ target \in {"inactive", "exit", "failed"}
  /\ socket \in {"open", "closed"}
  /\ feedback \in [Node -> MotorFeedback]
  /\ positions \in [Node -> Place]
  /\ commands \in [Node -> Place \union {NaN}]
  /\ tx \in Seq(Frame)
  /\ out \in [Node -> Seq(Motion \union Status)]
  /\ drive \in [Node -> Drive]
  /\ epoch \in 0..MaxEpoch /\ issued \in 0..MaxCommands
  /\ start \in [Node -> Place]
  /\ given \in [Node -> SUBSET Place]
  /\ {steered, heard, written} \subseteq {"yes", "no"}
  /\ upset \subseteq Node /\ owing \subseteq Node
  /\ mishaps \in 0..MaxMishaps

Init ==
  /\ life = "inactive" /\ loop = "off"
  /\ call = "none" /\ node = 1 /\ result = "ok" /\ target = "inactive"
  /\ socket = "closed" /\ feedback = NoFeedback
  /\ positions = [n \in Node |-> 0] /\ commands = Unclaimed
  /\ tx = <<>> /\ out = [n \in Node |-> <<>>]
  /\ drive = [n \in Node |-> [mode |-> "off", place |-> 0, target |-> 0, pending |-> NaN]]
  /\ epoch = 0 /\ issued = 0
  /\ start = [n \in Node |-> 0]
  /\ given = Nothing /\ steered = "no" /\ heard = "no" /\ written = "no"
  /\ upset = {} /\ owing = {} /\ mishaps = 0

Mishap == mishaps < MaxMishaps /\ mishaps' = mishaps + 1

-----------------------------------------------------------------------------
(* on_activate, on_deactivate and the destructor.                           *)

\* Enabled at rest, with nothing pending.
AtRest(p) == [mode |-> "enabled", place |-> p, target |-> p, pending |-> NaN]

\* Without torque a joint has been moved by hand or by its weight.
Resting(n) == IF drive[n].mode = "off" THEN Place ELSE {drive[n].place}

Index(kind, n) == { i \in 1..Len(tx) : tx[i].kind = kind /\ tx[i].node = n }

\* Drives that have TPDOs to send, or will once the SYNC before reaches them.
Owing == IF Index("sync", 0) = {} THEN { n \in Node : out[n] # <<>> } ELSE Node

\* Mutant: the feedback of the activation before is kept.
OpenKeepingFeedback ==
  /\ life = "inactive" /\ call = "none" /\ epoch < MaxEpoch
  /\ call' = "activate" /\ node' = 1
  /\ socket' = "open"
  /\ epoch' = epoch + 1 /\ owing' = Owing
  /\ UNCHANGED <<life, loop, result, target, feedback, data, bus, issued, mishaps,
                 asked, heard, written, upset>>

\* The socket is opened, feedback_ filled and the receive thread started,
\* whatever is on the bus.
Open ==
  /\ life = "inactive" /\ call = "none" /\ epoch < MaxEpoch
  /\ call' = "activate" /\ node' = 1
  /\ socket' = "open" /\ feedback' = NoFeedback
  /\ epoch' = epoch + 1 /\ owing' = Owing
  /\ UNCHANGED <<life, loop, result, target, data, bus, issued, mishaps, asked,
                 heard, written, upset>>

OpenFails ==
  /\ life = "inactive" /\ call = "none" /\ Mishap
  /\ life' = "failed"
  /\ UNCHANGED <<loop, call, node, result, target, socket, feedback, data, bus,
                 epoch, issued, asked, history>>

\* The drive has answered the last request, and so handled all frames before.
Answered(n) == tx = <<>> /\ out[n] = <<>>

\* Drive n is enabled at p.
Enable(n, p) ==
  /\ Answered(n)
  /\ drive' = [drive EXCEPT ![n] = AtRest(p)]
  /\ start' = [start EXCEPT ![n] = p] /\ given' = [given EXCEPT ![n] = {}]
  /\ upset' = upset \ {n}

\* Mutant: the position read from the drive is not stored.
ConfigureUnseeded ==
  /\ call = "activate" /\ node <= N
  /\ \E p \in Resting(node) : Enable(node, p)
  /\ node' = node + 1
  /\ UNCHANGED <<life, loop, call, result, target, socket, feedback, data, tx, out,
                 count, steered, heard, written, owing>>

\* configure_node stores the position it has read, and nothing else.
ConfigureNode ==
  /\ call = "activate" /\ node <= N
  /\ \E p \in Resting(node) :
       /\ Enable(node, p)
       /\ feedback' = [feedback EXCEPT ![node].position = p]
  /\ node' = node + 1
  /\ UNCHANGED <<life, loop, call, result, target, socket, data, tx, out, count,
                 steered, heard, written, owing>>

\* A drive refuses or does not answer, to begin with, in pre-operational or
\* once it is enabled: activate() calls deactivate() and returns false.
ConfigureFails ==
  /\ call = "activate" /\ node <= N /\ Mishap
  /\ \/ UNCHANGED <<drive, start, given, upset>>
     \/ /\ tx = <<>>
        /\ drive' = [drive EXCEPT ![node].mode = "off", ![node].pending = NaN]
        /\ UNCHANGED <<start, given, upset>>
     \/ \E p \in Resting(node) : Enable(node, p)
  /\ call' = "disarm" /\ node' = 1 /\ target' = "failed"
  /\ UNCHANGED <<life, loop, result, socket, feedback, data, tx, out, epoch, issued,
                 steered, heard, written, owing>>

\* Mutant: the commands given before are kept.
ActivateKeepingCommands ==
  /\ call = "activate" /\ node > N
  /\ call' = "none" /\ life' = "active"
  /\ loop' = IF loop = "off" THEN "read" ELSE loop
  /\ steered' = "no" /\ heard' = "no" /\ written' = "no"
  /\ UNCHANGED <<node, result, target, socket, feedback, data, bus, count, start,
                 given, upset, owing>>

\* Every drive is configured: on_activate succeeds.  hw_positions_ stay as they
\* were until the first read().
Activate ==
  /\ call = "activate" /\ node > N
  /\ call' = "none" /\ life' = "active"
  /\ loop' = IF loop = "off" THEN "read" ELSE loop
  /\ commands' = Unclaimed
  /\ steered' = "no" /\ heard' = "no" /\ written' = "no"
  /\ UNCHANGED <<node, result, target, socket, feedback, positions, bus, count,
                 start, given, upset, owing>>

\* on_deactivate; or the destructor, after which a new process starts.
Stop ==
  /\ call = "none"
  /\ \/ target' = "inactive" /\ life = "active"
     \/ target' = "exit"
  /\ call' = "disarm"
  /\ node' = IF socket = "open" THEN 1 ELSE N + 1
  /\ UNCHANGED <<life, loop, result, socket, feedback, data, bus, count, asked,
                 history>>

CanSend == Len(tx) < MaxQueue

Disarm ==
  /\ call = "disarm" /\ node <= N
  /\ node' = node + 1
  /\ tx' = IF CanSend THEN Append(tx, DisarmFrame(node)) ELSE tx
  /\ UNCHANGED <<life, loop, call, result, target, socket, feedback, data, out,
                 drive, count, asked, history>>

\* The receive thread is joined and the socket closed.  After a failed
\* activation the component is finalized by on_error.
Close ==
  /\ call = "disarm" /\ node > N
  /\ call' = "none" /\ socket' = "closed" /\ target' = "inactive"
  /\ \/ /\ target = "inactive"
        /\ life' = "inactive" /\ commands' = Unclaimed
        /\ UNCHANGED <<loop, positions>>
     \/ /\ target = "failed"
        /\ life' = "failed" /\ UNCHANGED <<loop, data>>
     \/ /\ target = "exit"
        /\ life' = "inactive" /\ loop' = "off"
        /\ positions' = [n \in Node |-> 0] /\ commands' = Unclaimed
  /\ UNCHANGED <<node, result, feedback, bus, count, asked, history>>

\* The process dies, and is started again.
Crash ==
  /\ life \in {"active", "failed"} \/ call # "none"
  /\ Mishap
  /\ life' = "inactive" /\ loop' = "off" /\ call' = "none" /\ node' = 1
  /\ socket' = "closed" /\ feedback' = NoFeedback
  /\ positions' = [n \in Node |-> 0] /\ commands' = Unclaimed
  /\ UNCHANGED <<result, target, bus, epoch, issued, asked, history>>

-----------------------------------------------------------------------------
(* The control loop; it calls a component that is inactive or active.       *)

InLoop(next) == call = "none" /\ loop = next /\ life \in {"inactive", "active"}

Faulty == \E n \in Node : feedback[n].status = "fault"

\* Before the first TPDOs the positions reported are those of the activation.
Read ==
  /\ InLoop("read") /\ socket = "open" /\ ~Faulty
  /\ positions' = [n \in Node |-> feedback[n].position]
  /\ heard' = "yes"
  /\ loop' = "update"
  /\ UNCHANGED <<life, call, node, result, target, socket, feedback, commands,
                 bus, count, asked, written, upset, owing>>

\* A drive in fault, or a closed socket, makes read() fail; on_error, which is
\* not overridden, finalizes the component and sends the drives nothing.
ReadFails ==
  /\ InLoop("read")
  /\ socket = "closed" \/ Faulty
  /\ life' = "failed"
  /\ UNCHANGED <<loop, call, node, result, target, socket, feedback, data, bus,
                 count, asked, history>>

Command(n, p) ==
  /\ issued < MaxCommands
  /\ issued' = issued + 1
  /\ commands' = [commands EXCEPT ![n] = p]
  /\ given' = [given EXCEPT ![n] = @ \union {p}]

\* The controllers (external) command nothing new, hold a joint where the
\* state interface says it is, once that is of this activation, or steer it:
\* also to an old place, as a controller does that ran on while the component
\* was inactive.
Update ==
  /\ InLoop("update")
  /\ loop' = "write"
  /\ \/ UNCHANGED <<commands, issued, given, steered>>
     \/ \E n \in Node :
          /\ heard = "yes"
          /\ Command(n, positions[n])
          /\ UNCHANGED steered
     \/ \E n \in Node, p \in Place : Command(n, p) /\ steered' = "yes"
  /\ UNCHANGED <<life, call, node, result, target, socket, feedback, positions,
                 bus, epoch, mishaps, start, history>>

\* Mutant: node_ids_ is walked from one before its first entry.
WriteFromZero ==
  /\ InLoop("write") /\ socket = "open"
  /\ call' = "write" /\ node' = 0 /\ result' = "ok"
  /\ UNCHANGED <<life, loop, target, socket, feedback, data, bus, count, asked,
                 history>>

Write ==
  /\ InLoop("write") /\ socket = "open"
  /\ call' = "write" /\ node' = 1 /\ result' = "ok"
  /\ UNCHANGED <<life, loop, target, socket, feedback, data, bus, count, asked,
                 history>>

WriteFails ==
  /\ InLoop("write") /\ socket = "closed"
  /\ life' = "failed"
  /\ UNCHANGED <<loop, call, node, result, target, socket, feedback, data, bus,
                 count, asked, history>>

\* Mutant: a target that cannot be sent is forgotten.
TargetForgotten ==
  /\ call = "write" /\ node <= N
  /\ node' = node + 1
  /\ tx' = IF commands[node] # NaN /\ CanSend
           THEN Append(tx, TargetPositionFrame(node, commands[node])) ELSE tx
  /\ UNCHANGED <<life, loop, call, result, target, socket, feedback, data, out,
                 drive, count, asked, history>>

\* A joint without a command is skipped: its drive keeps its target.  After a
\* frame that cannot be sent the others are sent all the same.
SendTarget ==
  /\ call = "write" /\ node <= N
  /\ node' = node + 1
  /\ \/ commands[node] = NaN /\ UNCHANGED <<tx, result>>
     \/ /\ commands[node] # NaN /\ CanSend
        /\ tx' = Append(tx, TargetPositionFrame(node, commands[node]))
        /\ UNCHANGED result
     \/ commands[node] # NaN /\ ~CanSend /\ result' = "error" /\ UNCHANGED tx
  /\ UNCHANGED <<life, loop, call, target, socket, feedback, data, out, drive,
                 count, asked, history>>

Written(outcome) ==
  /\ call' = "none" /\ loop' = "read"
  /\ \/ outcome = "ok" /\ life' = life /\ written' = "yes"
     \/ outcome = "error" /\ life' = "failed" /\ written' = written

\* Mutant: SYNC is only sent in a cycle with a command.
SyncOnCommand ==
  /\ call = "write" /\ node > N
  /\ \/ /\ CanSend
        /\ tx' = IF commands = Unclaimed THEN tx ELSE Append(tx, SyncFrame)
        /\ Written(result)
     \/ ~CanSend /\ UNCHANGED tx /\ Written("error")
  /\ UNCHANGED <<node, result, target, socket, feedback, data, out, drive, count,
                 asked, heard, upset, owing>>

\* SYNC is sent whatever became of the targets; an ERROR finalizes the
\* component.
SendSync ==
  /\ call = "write" /\ node > N
  /\ \/ CanSend /\ tx' = Append(tx, SyncFrame) /\ Written(result)
     \/ ~CanSend /\ UNCHANGED tx /\ Written("error")
  /\ UNCHANGED <<node, result, target, socket, feedback, data, out, drive, count,
                 asked, heard, upset, owing>>

-----------------------------------------------------------------------------
(* The receive thread.                                                      *)

Stored(f, tpdo) == IF tpdo.kind = "motion" THEN [f EXCEPT !.position = tpdo.value]
                                           ELSE [f EXCEPT !.status = tpdo.value]

Receive(n) ==
  /\ socket = "open" /\ out[n] # <<>>
  /\ feedback' = [feedback EXCEPT ![n] = Stored(@, Head(out[n]))]
  /\ out' = [out EXCEPT ![n] = Tail(@)]
  /\ owing' = IF call # "activate" /\ Head(out[n]).kind = "status" THEN owing \ {n}
                                                                ELSE owing
  /\ UNCHANGED <<program, data, tx, drive, count, asked, heard, written, upset>>

-----------------------------------------------------------------------------
(* The bus and the drives (external).                                       *)

Operational(n) == drive[n].mode # "off"

\* A synchronous RPDO waits for the SYNC.
Pend(f) ==
  /\ drive' = IF Operational(f.node)
              THEN [drive EXCEPT ![f.node].pending = f.value] ELSE drive
  /\ UNCHANGED out

\* Leaving operational drops what was pending.
Off(f) ==
  /\ drive' = [drive EXCEPT ![f.node].mode = "off", ![f.node].pending = NaN]
  /\ UNCHANGED out

Latched(d) == IF d.pending = NaN THEN d
                                 ELSE [d EXCEPT !.target = d.pending, !.pending = NaN]

\* By the next SYNC an enabled drive has, or has not, reached its target.
Moved(d) == IF d.mode = "enabled" THEN {d, [d EXCEPT !.place = d.target]} ELSE {d}

Tpdos(d) == << [kind |-> "motion", value |-> d.place],
               [kind |-> "status", value |-> IF d.mode = "fault" THEN "fault" ELSE "ok"] >>

\* Every operational drive latches its target and answers with its TPDOs.
\* rx_loop keeps up with the bus: the answers to the SYNC before are taken.
Latch ==
  /\ \A n \in Node : out[n] = <<>>
  /\ \E moved \in [Node -> UNION { Moved(drive[n]) : n \in Node }] :
       /\ \A n \in Node : moved[n] \in Moved(drive[n])
       /\ drive' = [n \in Node |-> Latched(moved[n])]
       /\ out' = [n \in Node |-> IF Operational(n) THEN Tpdos(moved[n]) ELSE <<>>]

Deliver ==
  /\ tx # <<>>
  /\ tx' = Tail(tx)
  /\ LET f == Head(tx) IN \/ f.kind = "target" /\ Pend(f)
                          \/ f.kind = "disarm" /\ Off(f)
                          \/ f.kind = "sync" /\ Latch
  /\ UNCHANGED <<program, feedback, data, count, asked, history>>

\* Nobody hears a TPDO without an open socket.
Unheard(n) ==
  /\ socket = "closed" /\ out[n] # <<>>
  /\ out' = [out EXCEPT ![n] = Tail(@)]
  /\ UNCHANGED <<program, feedback, data, tx, drive, count, asked, history>>

Disturb(n) == Mishap /\ upset' = upset \union {n}

Fault(n) ==
  /\ Operational(n) /\ Disturb(n)
  /\ drive' = [drive EXCEPT ![n].mode = "fault"]
  /\ UNCHANGED <<program, feedback, data, tx, out, epoch, issued, asked, heard,
                 written, owing>>

\* A power cycle: the drive is pre-operational and silent.
Reboot(n) ==
  /\ Operational(n) /\ Disturb(n)
  /\ drive' = [drive EXCEPT ![n].mode = "off", ![n].pending = NaN]
  /\ UNCHANGED <<program, feedback, data, tx, out, epoch, issued, asked, heard,
                 written, owing>>

LoseFrame(n) ==
  /\ tx # <<>> /\ Head(tx).node = n /\ Disturb(n)
  /\ tx' = Tail(tx)
  /\ UNCHANGED <<program, feedback, data, out, drive, epoch, issued, asked, heard,
                 written, owing>>

LoseTpdo(n) ==
  /\ out[n] # <<>> /\ Disturb(n)
  /\ out' = [out EXCEPT ![n] = Tail(@)]
  /\ UNCHANGED <<program, feedback, data, tx, drive, epoch, issued, asked, heard,
                 written, owing>>

-----------------------------------------------------------------------------
Activating == Open \/ OpenFails \/ ConfigureNode \/ ConfigureFails \/ Activate
Stopping == Disarm \/ Close
Cycle == Read \/ ReadFails \/ Update \/ Write \/ WriteFails \/ SendTarget \/ SendSync

Next ==
  \/ Activating \/ Stop \/ Stopping \/ Crash \/ Cycle \/ Deliver
  \/ \E n \in Node : \/ Receive(n) \/ Unheard(n) \/ Fault(n) \/ Reboot(n)
                     \/ LoseFrame(n) \/ LoseTpdo(n)

Spec == Init /\ [][Next]_vars

\* The control loop runs, the bus delivers, the receive thread polls.
Fairness ==
  /\ WF_vars(Cycle) /\ WF_vars(Stopping) /\ WF_vars(Deliver)
  /\ \A n \in Node : WF_vars(Receive(n))

FairSpec == Spec /\ Fairness

-----------------------------------------------------------------------------
(* Properties.                                                              *)

\* "Commands stay NaN (nothing sent) until a controller writes one": a drive
\* that nothing happened to has the target it was enabled with, or one a
\* controller gave its joint in this activation; the same goes for the target
\* it will latch next.
OnlyCommanded ==
  life = "active" => \A n \in Node \ upset :
    {drive[n].target, drive[n].pending} \subseteq {start[n], NaN} \union given[n]

\* "joint_trajectory_controller seeds them from state": as long as controllers
\* only hold joints where the state interfaces say they are, no joint moves.
HoldIsStill ==
  life = "active" /\ steered = "no" =>
    \A n \in Node \ upset : drive[n].target = start[n]

\* What read() reports of a drive is of this activation: a position is one the
\* joint had in it, and no joint is reported at 0 rad for want of a motion frame.
\* A status word may be old: activate() clears it with feedback_, but the receive
\* thread, already running, then stores what a drive still owed, and nobody clears
\* that.  So a fault from before is reported, and read() stops at it, for drives
\* that owed process data when the socket was opened, until they answer a SYNC,
\* and for no others.
FeedbackIsOfNow ==
  life = "active" => \A n \in Node \ upset :
    /\ feedback[n].position \in {start[n]} \union given[n]
    /\ feedback[n].status = "fault" => n \in owing

Highest(S) == CHOOSE i \in S : \A j \in S : j <= i

\* The target drive n has once the frames in the transmit queue are delivered.
Settled(n) ==
  LET syncs == Index("sync", 0)
      due == { i \in Index("target", n) : \E j \in syncs : i < j }
  IN CASE syncs = {} -> drive[n].target
       [] due # {} -> tx[Highest(due)].value
       [] OTHER -> Latched(drive[n]).target

\* Between two cycles of an active component every commanded drive that missed
\* no frame has latched, or will before the next cycle's frames, the command
\* its joint was last given: a SYNC that latched targets of different cycles is
\* followed by no further cycle.
ArmAgrees ==
  life = "active" /\ call = "none" /\ loop = "read" /\ written = "yes" =>
    \A n \in Node \ upset : commands[n] # NaN => Settled(n) = commands[n]

\* A drive in fault makes an active component fail, unless the drive falls
\* silent first, also when no joint is commanded.
FaultNoticed ==
  \A n \in Node : life = "active" /\ drive[n].mode = "fault"
                    ~> life # "active" \/ drive[n].mode = "off"
=============================================================================
