------------------------------ MODULE PxxMotor ------------------------------
(***************************************************************************)
(* Activation and deactivation of the arm drives:                          *)
(* pxx::SocketCanMotorBackend with its SDO client, its receive thread, the *)
(* CAN bus and the CANopen / CiA 402 drives at the other end.              *)
(*                                                                         *)
(* Threads.  The main thread runs activate(), configure_node() and         *)
(* deactivate(); the receive thread runs rx_loop().  They share the single *)
(* SDO response slot.  Each drive works through its own queue of frames.   *)
(*                                                                         *)
(* A bus queue keeps its order for each drive and direction.  The receive  *)
(* buffer of the socket is merged with the drive's queue of answers: a     *)
(* frame the receive thread has not read and a frame the drive has not     *)
(* sent are both only "not seen yet", and closing the socket loses the     *)
(* former, as Unheard does.                                                *)
(*                                                                         *)
(* Positions are abstracted to the activation in which they were measured: *)
(* that is what the properties tell apart.                                 *)
(***************************************************************************)
EXTENDS Integers, Sequences, FiniteSets

CONSTANTS
  N,            \* how many drives: node_ids_ has N entries
  MaxEpoch,     \* bound on the number of activations
  MaxMishaps,   \* bound on what goes wrong outside the program, in all
  MaxBacklog    \* bound on "backlog", below; 1: no activation starts while a
                \* drive still owes an answer

ASSUME PxxAssumption ==
  /\ N \in Nat \ {0}
  /\ MaxEpoch \in Nat
  /\ MaxMishaps \in Nat
  /\ MaxBacklog \in Nat \ {0}

VARIABLES
  phase,     \* where the main thread is; "waiting": in sdo_cv_.wait_for
  node,      \* position in node_ids_ of the drive it is working on
  step,      \* next (or awaited) line of Program, or of Disarm
  slot,      \* sdo_response_
  position,  \* the local variable of configure_node
  inbox,     \* inbox[n]: frames sent to drive n and not yet handled by it
  outbox,    \* outbox[n]: SDO answers of drive n not yet seen by rx_loop
  drive,     \* drive[n]: NMT state, CiA 402 state, objects, target
  epoch,     \* history: activations so far
  backlog,   \* history: activations since one began with nothing under way
  mishaps,   \* history: mishaps so far
  fumbled,   \* history: drives whose Shutdown never took effect, this epoch
  upset      \* history: drives that faulted, rebooted or missed Start, this epoch

host == <<phase, node, step, slot, position>>
bus == <<inbox, outbox>>
history == <<epoch, backlog, mishaps, fumbled, upset>>
vars == <<host, bus, drive, history>>

Node == 1..N

-----------------------------------------------------------------------------
(* Frames.  A tag <<epoch, step>> names the request a frame belongs to and  *)
(* "at" the activation in which a position was measured; tags are history:  *)
(* no guard of the program reads them.                                      *)

Nmt(command) == [kind |-> "nmt", key |-> <<"nmt", 0>>, value |-> command]
Write(index, sub, value) ==
  [kind |-> "write", key |-> <<index, sub>>, value |-> value]
Read(index) == [kind |-> "read", key |-> <<index, 0>>, value |-> "none"]

\* A PDO is switched off, mapped to one object, set to every SYNC, switched on.
Remap(comm, map, object) ==
  << Write(comm, 1, "off"), Write(map, 0, "0"), Write(map, 1, object),
     Write(map, 0, "1"), Write(comm, 2, "sync"), Write(comm, 1, "on") >>

\* The same with two objects, for TPDO1.
RemapMotion ==
  << Write("1800", 1, "off"), Write("1A00", 0, "0"), Write("1A00", 1, "6064"),
     Write("1A00", 2, "606C"), Write("1A00", 0, "2"), Write("1800", 2, "sync"),
     Write("1800", 1, "on") >>

\* Mutant: the drive is not sent to pre-operational first.
PrepareAsItIs == << Write("6040", 0, "FaultReset"), Write("6060", 0, "CSP") >>

Prepare == << Nmt("PreOperational"),
              Write("6040", 0, "FaultReset"), Write("6060", 0, "CSP") >>

\* Mutant: the target is left as it was.
SeedNothing == << Read("6064") >>

\* The target is seeded with the current position.
Seed == << Read("6064"), Write("607A", 0, "position") >>

StartAndEnable == << Nmt("Start"),
                     Write("6040", 0, "Shutdown"), Write("6040", 0, "SwitchOn"),
                     Write("6040", 0, "EnableOperation") >>

\* configure_node, line by line: the frames it sends to one drive, in order.
\* An "nmt" line is sent and forgotten, the others are SDO transactions.
Program == Prepare \o Remap("1400", "1600", "607A") \o RemapMotion
           \o Remap("1801", "1A01", "6041") \o Seed \o StartAndEnable
           \o << Read("6041") >>

\* The line after the last: the status word was bad, and the error code is
\* read for the message.
AskErrorCode == Len(Program) + 1

Line(s) == IF s = AskErrorCode THEN Read("603F") ELSE Program[s]

\* What deactivate sends to one drive; nothing here is waited for.
Disarm == << Write("6040", 0, "Shutdown"), Nmt("PreOperational") >>

Tag == (0..MaxEpoch) \X (0..AskErrorCode)
Lines == { Line(s) : s \in 1..AskErrorCode } \union { Disarm[1], Disarm[2] }
Key == { l.key : l \in Lines }
Value == { l.value : l \in Lines }
State == {"disabled", "ready", "switched_on", "enabled", "fault"}

Kind == { l.kind : l \in Lines }

Frame == [kind : Kind, key : Key, value : Value,
          at : 0..MaxEpoch, tag : Tag]
Answer == [from : Node, key : Key, ok : BOOLEAN, value : State \union {"refused", "illegal"},
           at : 0..MaxEpoch, tag : Tag]
None == [from |-> 0, key |-> <<"none", 0>>, ok |-> FALSE, value |-> "illegal",
         at |-> 0, tag |-> <<0, 0>>]

Message(line, tag) ==
  [kind |-> line.kind, key |-> line.key, value |-> line.value,
   at |-> position, tag |-> tag]

IsSdo(f) == f.kind # "nmt"

-----------------------------------------------------------------------------
(* The drive, as configure_node relies on it (external).                    *)

Objects == Key \ {<<"nmt", 0>>}

Drive == [nmt : {"PreOperational", "Operational"}, cia : State,
          od : [Objects -> Value], target : 0..MaxEpoch]

Booted == [nmt |-> "PreOperational", cia |-> "disabled",
           od |-> [k \in Objects |-> "none"], target |-> 0]

\* The communication object that switches the PDO of an object on and off.
Switch(index) == CASE index = "1600" -> <<"1400", 1>>
                   [] index = "1A00" -> <<"1800", 1>>
                   [] index = "1A01" -> <<"1801", 1>>
                   [] OTHER -> <<index, 1>>
IsMapping(k) == k[1] \in {"1600", "1A00", "1A01"}
IsPdo(k) == IsMapping(k) \/ k[1] \in {"1400", "1800", "1801"}

\* PDO objects change in pre-operational only; a mapping only while its PDO
\* is off, and an entry of it only while its count is zero.
Legal(d, f) ==
  f.kind = "write" /\ IsPdo(f.key) =>
    /\ d.nmt = "PreOperational"
    /\ IsMapping(f.key) => d.od[Switch(f.key[1])] = "off"
    /\ IsMapping(f.key) /\ f.key[2] > 0 => d.od[<<f.key[1], 0>>] = "0"

\* The CiA 402 transition a control word causes.  Only a rising edge of the
\* reset bit clears a fault, and the reset word has the voltage bit down.
Controlled(d, word) ==
  CASE d.cia = "fault" ->
         IF word = "FaultReset" /\ d.od[<<"6040", 0>>] # "FaultReset"
         THEN "disabled" ELSE "fault"
    [] d.cia # "fault" /\ word = "FaultReset" -> "disabled"
    [] d.cia # "fault" /\ word = "Shutdown" -> "ready"
    [] d.cia \in {"ready", "enabled"} /\ word = "SwitchOn" -> "switched_on"
    [] d.cia = "switched_on" /\ word = "EnableOperation" -> "enabled"
    [] OTHER -> d.cia

\* The drive after it has carried out frame f.
Obeyed(d, f) ==
  CASE f.kind = "nmt" ->
         [d EXCEPT !.nmt = IF f.value = "Start" THEN "Operational"
                                                ELSE "PreOperational"]
    [] f.kind = "write" ->
         [d EXCEPT !.od[f.key] = f.value,
                   !.cia = IF f.key = <<"6040", 0>>
                           THEN Controlled(d, f.value) ELSE d.cia,
                   !.target = IF f.key = <<"607A", 0>> THEN f.at ELSE d.target]
    [] OTHER -> d

Reply(n, f, ok, value) ==
  [from |-> n, key |-> f.key, ok |-> ok, value |-> value, at |-> epoch, tag |-> f.tag]

-----------------------------------------------------------------------------
TypeOK ==
  /\ phase \in {"inactive", "configuring", "waiting", "active", "deactivating"}
  /\ node \in 1..N+1
  /\ step \in 1..AskErrorCode
  /\ slot \in Answer \union {None}
  /\ position \in 0..MaxEpoch
  /\ inbox \in [Node -> Seq(Frame)]
  /\ outbox \in [Node -> Seq(Answer)]
  /\ drive \in [Node -> Drive]
  /\ epoch \in 0..MaxEpoch
  /\ backlog \in 0..MaxBacklog
  /\ mishaps \in 0..MaxMishaps
  /\ fumbled \subseteq Node
  /\ upset \subseteq Node

Init ==
  /\ phase = "inactive" /\ node = 1 /\ step = 1
  /\ slot = None /\ position = 0
  /\ inbox = [n \in Node |-> <<>>]
  /\ outbox = [n \in Node |-> <<>>]
  /\ drive = [n \in Node |-> Booted]
  /\ epoch = 0 /\ backlog = 0 /\ mishaps = 0 /\ fumbled = {} /\ upset = {}

Mishap == mishaps < MaxMishaps /\ mishaps' = mishaps + 1

-----------------------------------------------------------------------------
(* The main thread.                                                         *)

\* No SDO request or answer of drive n is under way.
Idle(n) == /\ outbox[n] = <<>>
           /\ \A i \in 1..Len(inbox[n]) : ~IsSdo(inbox[n][i])

\* The backlog grows by each activation that meets requests or answers of the
\* activations before it.
OneMore ==
  /\ backlog' = IF \A n \in Node : Idle(n) THEN 1 ELSE backlog + 1
  /\ backlog' <= MaxBacklog

\* Mutant: node_ids_ is walked from one before its first entry.
ActivateFromZero ==
  /\ phase = "inactive"
  /\ epoch < MaxEpoch
  /\ phase' = "configuring" /\ node' = 0 /\ step' = 1
  /\ epoch' = epoch + 1 /\ OneMore /\ fumbled' = {} /\ upset' = {}
  /\ UNCHANGED <<slot, position, bus, drive, mishaps>>

\* activate() with the socket opened; if it cannot be, nothing changes.
Activate ==
  /\ phase = "inactive"
  /\ epoch < MaxEpoch
  /\ phase' = "configuring" /\ node' = 1 /\ step' = 1
  /\ epoch' = epoch + 1 /\ OneMore /\ fumbled' = {} /\ upset' = {}
  /\ UNCHANGED <<slot, position, bus, drive, mishaps>>

\* deactivate() begins: from on_deactivate, the destructor or a failed activate.
StartDisarm ==
  /\ phase' = "deactivating" /\ node' = 1 /\ step' = 1

\* The next line of configure_node for the next drive; with none left,
\* activate() returns true.
Advance ==
  \/ /\ step < Len(Program)
     /\ phase' = "configuring" /\ step' = step + 1
     /\ UNCHANGED node
  \/ /\ step >= Len(Program) /\ node < N
     /\ phase' = "configuring" /\ node' = node + 1 /\ step' = 1
  \/ /\ step >= Len(Program) /\ node >= N
     /\ phase' = "active" /\ node' = 1 /\ step' = 1

Post(n, line, tag) ==
  inbox' = [inbox EXCEPT ![n] = Append(@, Message(line, tag))]

SendNmt ==
  /\ phase = "configuring" /\ ~IsSdo(Line(step))
  /\ Post(node, Line(step), <<epoch, step>>)
  /\ Advance
  /\ UNCHANGED <<slot, position, outbox, drive, history>>

\* Mutant: the slot keeps the answer of the transaction before.
SendSdoKeepingSlot ==
  /\ phase = "configuring" /\ IsSdo(Line(step))
  /\ Post(node, Line(step), <<epoch, step>>)
  /\ phase' = "waiting"
  /\ UNCHANGED <<node, step, slot, position, outbox, drive, history>>

\* sdo_transaction up to its wait: the slot is cleared, then the request sent.
SendSdo ==
  /\ phase = "configuring" /\ IsSdo(Line(step))
  /\ slot' = None
  /\ Post(node, Line(step), <<epoch, step>>)
  /\ phase' = "waiting"
  /\ UNCHANGED <<node, step, position, outbox, drive, history>>

SendFails ==
  /\ phase = "configuring"
  /\ Mishap
  /\ slot' = IF IsSdo(Line(step)) THEN None ELSE slot
  /\ StartDisarm
  /\ UNCHANGED <<position, bus, drive, epoch, backlog, fumbled, upset>>

Activating == phase \in {"configuring", "waiting"}

\* The predicate of wait_for.
Matches == slot.from = node /\ slot.key = Line(step).key
Answered == phase = "waiting" /\ Matches

\* Mutant: the status word is not looked at.
StatusIgnored == FALSE

BadStatus == Line(step).key = <<"6041", 0>> /\ slot.value # "enabled"

\* The answer is accepted; a position that was read is kept for the next line.
Proceed ==
  /\ Answered /\ slot.ok /\ ~BadStatus /\ step # AskErrorCode
  /\ position' = IF Line(step).key = <<"6064", 0>> THEN slot.at ELSE position
  /\ Advance
  /\ UNCHANGED <<slot, bus, drive, history>>

AskWhy ==
  /\ Answered /\ slot.ok /\ BadStatus
  /\ phase' = "configuring" /\ step' = AskErrorCode
  /\ UNCHANGED <<node, slot, position, bus, drive, history>>

\* Mutant: the wait has no timeout.
WaitForever == FALSE

\* 100 ms have passed: wait_for returns what its predicate says.
Timeout == phase = "waiting" /\ ~Matches

\* Mutant: a timeout is taken for an answer.
GiveUpUnlessLate ==
  \/ /\ Timeout
     /\ Advance
     /\ UNCHANGED <<slot, position, bus, drive, history>>
  \/ /\ Answered /\ (~slot.ok \/ step = AskErrorCode)
     /\ StartDisarm
     /\ UNCHANGED <<slot, position, bus, drive, history>>

\* configure_node returns false, and activate() deactivates.
GiveUp ==
  /\ \/ Timeout
     \/ Answered /\ (~slot.ok \/ step = AskErrorCode)
  /\ StartDisarm
  /\ UNCHANGED <<slot, position, bus, drive, history>>

Deactivate ==
  /\ phase = "active"
  /\ StartDisarm
  /\ UNCHANGED <<slot, position, bus, drive, history>>

\* The next frame of deactivate(); after a failed send it goes on all the same.
NextDisarm ==
  \/ step < Len(Disarm) /\ step' = step + 1 /\ node' = node
  \/ step >= Len(Disarm) /\ step' = 1 /\ node' = node + 1

DisarmSend ==
  /\ phase = "deactivating" /\ node \in Node
  /\ Post(node, Disarm[step], <<epoch, 0>>)
  /\ NextDisarm
  /\ UNCHANGED <<phase, slot, position, outbox, drive, history>>

\* Mutant: deactivate() returns at the first frame it cannot send.
DisarmStops ==
  /\ phase = "deactivating" /\ node \in Node
  /\ Mishap
  /\ fumbled' = IF IsSdo(Disarm[step]) THEN fumbled \union {node} ELSE fumbled
  /\ node' = N + 1 /\ step' = 1
  /\ UNCHANGED <<phase, slot, position, bus, drive, epoch, backlog, upset>>

DisarmSendFails ==
  /\ phase = "deactivating" /\ node \in Node
  /\ Mishap
  /\ fumbled' = IF IsSdo(Disarm[step]) THEN fumbled \union {node} ELSE fumbled
  /\ NextDisarm
  /\ UNCHANGED <<phase, slot, position, bus, drive, epoch, backlog, upset>>

\* The receive thread is joined and the socket closed.
Close ==
  /\ phase = "deactivating" /\ node = N + 1
  /\ phase' = "inactive" /\ node' = 1
  /\ UNCHANGED <<step, slot, position, bus, drive, history>>

\* The process dies and is started again; nothing is sent to the drives.
Crash ==
  /\ phase # "inactive"
  /\ Mishap
  /\ phase' = "inactive" /\ node' = 1 /\ step' = 1
  /\ slot' = None /\ position' = 0
  /\ fumbled' = Node
  /\ UNCHANGED <<bus, drive, epoch, backlog, upset>>

-----------------------------------------------------------------------------
(* The receive thread.                                                      *)

Heard(n) == outbox[n] # <<>> /\ outbox' = [outbox EXCEPT ![n] = Tail(@)]

\* rx_loop stores every SDO answer, whichever drive it is from.
Receive(n) ==
  /\ phase # "inactive"
  /\ Heard(n)
  /\ slot' = Head(outbox[n])
  /\ UNCHANGED <<phase, node, step, position, inbox, drive, history>>

\* With the socket closed an answer reaches nobody.
Unheard(n) ==
  /\ phase = "inactive"
  /\ Heard(n)
  /\ UNCHANGED <<host, inbox, drive, history>>

-----------------------------------------------------------------------------
(* The drives and the bus (external).                                       *)

Taken(n) == inbox[n] # <<>> /\ inbox' = [inbox EXCEPT ![n] = Tail(@)]

Answers(n, a) == outbox' = [outbox EXCEPT ![n] = Append(@, a)]

\* A drive handles the oldest frame it was sent, and answers an SDO request.
Handle(n) ==
  /\ Taken(n)
  /\ LET f == Head(inbox[n]) IN
       IF ~IsSdo(f)
       THEN drive' = [drive EXCEPT ![n] = Obeyed(@, f)] /\ UNCHANGED outbox
       ELSE IF Legal(drive[n], f)
       THEN /\ drive' = [drive EXCEPT ![n] = Obeyed(@, f)]
            /\ Answers(n, Reply(n, f, TRUE, drive[n].cia))
       ELSE /\ Answers(n, Reply(n, f, FALSE, "illegal"))
            /\ UNCHANGED drive
  /\ UNCHANGED <<host, history>>

\* The Shutdown of deactivate().
Ends(f) ==
  f.kind = "write" /\ f.key = <<"6040", 0>> /\ f.value = "Shutdown" /\ f.tag[2] = 0
Fumble(n, f) == IF Ends(f) THEN fumbled \union {n} ELSE fumbled

\* The drive refuses a request for a reason of its own.
Refuse(n) ==
  /\ Taken(n) /\ IsSdo(Head(inbox[n]))
  /\ Mishap
  /\ Answers(n, Reply(n, Head(inbox[n]), FALSE, "refused"))
  /\ fumbled' = Fumble(n, Head(inbox[n]))
  /\ UNCHANGED <<host, drive, epoch, backlog, upset>>

\* A frame to the drive is lost after the socket took it.
LoseFrame(n) ==
  /\ Taken(n)
  /\ Mishap
  /\ fumbled' = Fumble(n, Head(inbox[n]))
  /\ upset' = IF IsSdo(Head(inbox[n])) THEN upset ELSE upset \union {n}
  /\ UNCHANGED <<host, outbox, drive, epoch, backlog>>

LoseAnswer(n) ==
  /\ phase # "inactive"
  /\ Heard(n)
  /\ Mishap
  /\ UNCHANGED <<host, inbox, drive, epoch, backlog, fumbled, upset>>

Fault(n) ==
  /\ Mishap
  /\ drive' = [drive EXCEPT ![n].cia = "fault"]
  /\ upset' = upset \union {n}
  /\ UNCHANGED <<host, bus, epoch, backlog, fumbled>>

\* A power cycle: what the drive had been sent and had to say is gone.
Reboot(n) ==
  /\ Mishap
  /\ drive' = [drive EXCEPT ![n] = Booted]
  /\ inbox' = [inbox EXCEPT ![n] = <<>>]
  /\ outbox' = [outbox EXCEPT ![n] = <<>>]
  /\ upset' = upset \union {n}
  /\ UNCHANGED <<host, epoch, backlog, fumbled>>

-----------------------------------------------------------------------------
Transaction == SendNmt \/ SendSdo \/ Proceed \/ AskWhy \/ GiveUp
Disarming == DisarmSend \/ Close

Next ==
  \/ Activate \/ Transaction \/ SendFails
  \/ Deactivate \/ Disarming \/ DisarmSendFails \/ Crash
  \/ \E n \in Node : \/ Receive(n) \/ Unheard(n) \/ Handle(n)
                     \/ Refuse(n) \/ LoseFrame(n) \/ LoseAnswer(n)
                     \/ Fault(n) \/ Reboot(n)

Spec == Init /\ [][Next]_vars

\* The main thread runs on, and its wait is bounded by the timeout; drives
\* handle what they are sent; the receive thread polls.
Fairness ==
  /\ WF_vars(Transaction) /\ WF_vars(Disarming)
  /\ \A n \in Node : WF_vars(Handle(n)) /\ WF_vars(Receive(n))

FairSpec == Spec /\ Fairness

-----------------------------------------------------------------------------
(* Properties.                                                              *)

Pending(n) == { i \in 1..Len(inbox[n]) : IsSdo(inbox[n][i]) }

\* "One SDO transaction is in flight at a time (configuration only)": while
\* drives are configured, at most one request or answer is under way on the
\* whole bus, it is the one the main thread waits for, and none is under way
\* between two transactions.
OneInFlight ==
  Activating =>
    /\ \A n \in Node :
         /\ \A i \in Pending(n) : inbox[n][i].tag = <<epoch, step>>
         /\ \A i \in 1..Len(outbox[n]) : outbox[n][i].tag = <<epoch, step>>
         /\ ~Idle(n) => n = node /\ phase = "waiting" /\ slot = None
    /\ \A i, j \in Pending(node) : i = j
    /\ Len(outbox[node]) <= 1
    /\ Pending(node) # {} => outbox[node] = <<>>

\* The answer a transaction is about to accept is the answer to its own
\* request, not to an earlier one for the same object.
AnswerIsOwn == Answered => slot.tag = <<epoch, step>>

\* The objects configure_node has asked the drive about in lines 1..s.
Asked(s) == { Line(l).key : l \in 1..s } \intersect Objects

\* Without waiting for old answers to drain, a transaction can still accept a
\* stale one, but no deeper into configure_node than the backlog: the objects
\* asked about so far, this one included, are fewer than the activations since
\* one last began with nothing under way.  (Objects and not lines: where an
\* object is written twice, the late answer to the first write is taken for
\* the answer to the second.)
StaleOnlyEarly ==
  Answered /\ slot.tag # <<epoch, step>> => Cardinality(Asked(step)) < backlog

\* "In CSP the drive moves to 607Ah as soon as it is enabled": whenever a
\* drive becomes enabled, its target is a position measured in the activation
\* that enables it.
EnabledAtRest ==
  [][\A n \in Node :
       drive[n].cia # "enabled" /\ drive'[n].cia = "enabled" =>
         \/ drive[n].target = Head(inbox[n]).tag[1]
         \/ /\ drive[n].target = 0
            /\ n \in upset \/ Head(inbox[n]).tag[1] < epoch]_vars

Ready(n) ==
  /\ drive[n].nmt = "Operational"
  /\ drive[n].cia = "enabled"
  /\ drive[n].od[<<"6060", 0>>] = "CSP"
  /\ \A p \in {"1400", "1800", "1801"} :
       drive[n].od[<<p, 1>>] = "on" /\ drive[n].od[<<p, 2>>] = "sync"
  /\ drive[n].od[<<"1600", 0>>] = "1" /\ drive[n].od[<<"1600", 1>>] = "607A"
  /\ drive[n].od[<<"1A00", 0>>] = "2" /\ drive[n].od[<<"1A00", 1>>] = "6064"
  /\ drive[n].od[<<"1A00", 2>>] = "606C"
  /\ drive[n].od[<<"1A01", 0>>] = "1" /\ drive[n].od[<<"1A01", 1>>] = "6041"

\* When activate() has returned true, every drive that did not fault, reboot
\* or miss an unacknowledged NMT command since is operational, enabled, in
\* cyclic synchronous position mode and has its three PDOs mapped and on.
ActiveIsReady ==
  phase = "active" => \A n \in Node \ upset : Ready(n)

\* The order of configure_node is one the drive accepts: no request is ever
\* answered with an abort because of what was, or was not, written before it.
NeverIllegal ==
  \A n \in Node \ upset : \A i \in 1..Len(outbox[n]) :
    outbox[n][i].tag[1] = epoch => outbox[n][i].value # "illegal"

Enables(f) ==
  f.kind = "write" /\ f.key = <<"6040", 0>> /\ f.value = "EnableOperation"

\* Whatever is still queued for drive n, it ends up not enabled.
Doomed(n) ==
  \/ /\ drive[n].cia # "enabled"
     /\ \A i \in 1..Len(inbox[n]) : ~Enables(inbox[n][i])
  \/ \E i \in 1..Len(inbox[n]) :
       /\ Ends(inbox[n][i])
       /\ \A j \in i+1..Len(inbox[n]) : ~Enables(inbox[n][j])

\* deactivate(), also the one at the end of a failed activate(), leaves no
\* drive enabled, whatever was in flight: a late request of the failed
\* activation is overtaken by no Shutdown.  The exceptions are the drives
\* whose Shutdown could not be sent, was lost or was refused.
Disarmed == phase = "inactive" => \A n \in Node \ fumbled : Doomed(n)

\* activate() always returns: every wait ends, every failure deactivates.
ActivationEnds == Activating ~> phase \in {"active", "inactive"}
=============================================================================
