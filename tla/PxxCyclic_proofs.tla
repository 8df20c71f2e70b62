--------------------------- MODULE PxxCyclic_proofs ---------------------------
(***************************************************************************)
(* Theorems about the arm in operation, PxxCyclic, for every number of     *)
(* drives, every range of positions and every bound.                       *)
(***************************************************************************)
EXTENDS PxxCyclic, QueueLemmas

-----------------------------------------------------------------------------
(* Types.                                                                   *)

LEMMA FrameType ==
  /\ \A n \in Node, p \in Place : TargetPositionFrame(n, p) \in Frame
  /\ \A n \in Node : DisarmFrame(n) \in Frame
  /\ SyncFrame \in Frame
BY DEF Frame

LEMMA FrameIs ==
  ASSUME NEW f \in Frame
  PROVE  /\ f.kind = "target" => f.node \in Node /\ f.value \in Place
         /\ f.kind = "disarm" => f.node \in Node
         /\ f.kind = "sync" => f.node = 0
<1>1. CASE \E n \in Node, p \in Place : f = TargetPositionFrame(n, p)
  BY <1>1 DEF TargetPositionFrame
<1>2. CASE \E n \in Node : f = DisarmFrame(n)
  BY <1>2 DEF DisarmFrame
<1>3. CASE f = SyncFrame
  BY <1>3 DEF SyncFrame
<1> QED BY <1>1, <1>2, <1>3 DEF Frame

LEMMA PlaceIs == NaN \notin Place /\ 0 \in Place
BY CyclicAssumption DEF NaN, Place

LEMMA NoFeedbackType == NoFeedback \in [Node -> MotorFeedback]
BY PlaceIs DEF NoFeedback, MotorFeedback

LEMMA LatchedIs ==
  ASSUME NEW d \in Drive
  PROVE  /\ Latched(d) \in Drive
         /\ Latched(d).mode = d.mode /\ Latched(d).place = d.place
         /\ Latched(d).pending = NaN
         /\ Latched(d).target = IF d.pending = NaN THEN d.target ELSE d.pending
BY DEF Latched, Drive

LEMMA MovedIs ==
  ASSUME NEW d \in Drive, NEW e \in Moved(d)
  PROVE  /\ e \in Drive /\ e.mode = d.mode
         /\ e.target = d.target /\ e.pending = d.pending
         /\ e.place \in {d.place, d.target}
BY DEF Moved, Drive

LEMMA TpdosIs ==
  ASSUME NEW d \in Drive
  PROVE  /\ Tpdos(d) \in Seq(Motion \union Status)
         /\ Len(Tpdos(d)) = 2
         /\ Tpdos(d)[1].kind = "motion" /\ Tpdos(d)[1].value = d.place
         /\ Tpdos(d)[2].kind = "status"
         /\ Tpdos(d)[2].value = IF d.mode = "fault" THEN "fault" ELSE "ok"
<1> DEFINE m == [kind |-> "motion", value |-> d.place]
           s == [kind |-> "status", value |-> IF d.mode = "fault" THEN "fault" ELSE "ok"]
<1>1. m \in Motion \union Status /\ s \in Motion \union Status
  BY DEF Motion, Status, Drive
<1>2. Tpdos(d) = <<m, s>>
  BY DEF Tpdos
<1> QED BY <1>1, <1>2

LEMMA StoredIs ==
  ASSUME NEW f \in MotorFeedback, NEW t \in Motion \union Status
  PROVE  /\ Stored(f, t) \in MotorFeedback
         /\ Stored(f, t).position = IF t.kind = "motion" THEN t.value ELSE f.position
         /\ Stored(f, t).status = IF t.kind = "status" THEN t.value ELSE f.status
BY DEF Stored, MotorFeedback, Motion, Status

\* What a drive becomes when the frames of the bus reach it.
LEMMA LatchIs ==
  ASSUME TypeOK, Latch
  PROVE  /\ drive' \in [Node -> Drive]
         /\ out' \in [Node -> Seq(Motion \union Status)]
         /\ \A n \in Node :
              /\ drive'[n].mode = drive[n].mode
              /\ drive'[n].target = Latched(drive[n]).target
              /\ drive'[n].pending = NaN
              /\ drive'[n].place \in {drive[n].place, drive[n].target}
              /\ \A i \in 1..Len(out'[n]) :
                   /\ out'[n][i].kind = "motion" => out'[n][i].value = drive'[n].place
                   /\ out'[n][i].kind = "status" =>
                        out'[n][i].value = IF drive[n].mode = "fault" THEN "fault" ELSE "ok"
<1>1. PICK moved \in [Node -> UNION { Moved(drive[n]) : n \in Node }] :
        /\ \A n \in Node : moved[n] \in Moved(drive[n])
        /\ drive' = [n \in Node |-> Latched(moved[n])]
        /\ out' = [n \in Node |-> IF Operational(n) THEN Tpdos(moved[n]) ELSE <<>>]
  BY DEF Latch
<1>2. ASSUME NEW n \in Node
      PROVE  /\ drive'[n] \in Drive
             /\ out'[n] \in Seq(Motion \union Status)
             /\ drive'[n].mode = drive[n].mode
             /\ drive'[n].target = Latched(drive[n]).target
             /\ drive'[n].pending = NaN
             /\ drive'[n].place \in {drive[n].place, drive[n].target}
             /\ \A i \in 1..Len(out'[n]) :
                  /\ out'[n][i].kind = "motion" => out'[n][i].value = drive'[n].place
                  /\ out'[n][i].kind = "status" =>
                       out'[n][i].value = IF drive[n].mode = "fault" THEN "fault" ELSE "ok"
  <2>1. drive[n] \in Drive
    BY DEF TypeOK
  <2> DEFINE e == moved[n]
  <2>2. /\ e \in Drive /\ e.mode = drive[n].mode
        /\ e.target = drive[n].target /\ e.pending = drive[n].pending
        /\ e.place \in {drive[n].place, drive[n].target}
    BY <1>1, <2>1, MovedIs
  <2>3. drive'[n] = Latched(e)
    BY <1>1
  <2>4. out'[n] = Tpdos(e) \/ out'[n] = <<>>
    BY <1>1
  <2> HIDE DEF e
  <2>5. /\ drive'[n] \in Drive /\ drive'[n].mode = drive[n].mode
        /\ drive'[n].target = Latched(drive[n]).target
        /\ drive'[n].pending = NaN /\ drive'[n].place = e.place
    BY <2>1, <2>2, <2>3, LatchedIs
  <2>6. CASE out'[n] = Tpdos(e)
    <3>1. /\ out'[n] \in Seq(Motion \union Status) /\ Len(out'[n]) = 2
          /\ out'[n][1].kind = "motion" /\ out'[n][1].value = e.place
          /\ out'[n][2].kind = "status"
          /\ out'[n][2].value = IF e.mode = "fault" THEN "fault" ELSE "ok"
      BY <2>2, <2>6, TpdosIs
    <3>2. \A i \in 1..Len(out'[n]) : i = 1 \/ i = 2
      BY <3>1
    <3> QED BY <2>2, <2>5, <3>1, <3>2
  <2>7. CASE out'[n] = <<>>
    BY <2>2, <2>5, <2>7
  <2> QED BY <2>4, <2>6, <2>7
<1> QED BY <1>1, <1>2

LEMMA DeliverType ==
  ASSUME TypeOK, Deliver
  PROVE  /\ tx' \in Seq(Frame) /\ drive' \in [Node -> Drive]
         /\ out' \in [Node -> Seq(Motion \union Status)]
<1> DEFINE f == Head(tx)
<1>1. tx' \in Seq(Frame) /\ f \in Frame
  BY HeadTail DEF TypeOK, Deliver
<1>2. \/ f.kind = "target" /\ Pend(f)
      \/ f.kind = "disarm" /\ Off(f)
      \/ f.kind = "sync" /\ Latch
  BY DEF Deliver
<1> HIDE DEF f
<1>3. CASE f.kind = "target" /\ Pend(f)
  <2>1. f.node \in Node /\ f.value \in Place
    BY <1>1, <1>3, FrameIs
  <2> QED BY <1>1, <1>3, <2>1 DEF Pend, TypeOK, Drive
<1>4. CASE f.kind = "disarm" /\ Off(f)
  <2>1. f.node \in Node
    BY <1>1, <1>4, FrameIs
  <2> QED BY <1>1, <1>4, <2>1 DEF Off, TypeOK, Drive
<1>5. CASE f.kind = "sync" /\ Latch
  BY <1>1, <1>5, LatchIs
<1> QED BY <1>2, <1>3, <1>4, <1>5

LEMMA RestingType ==
  ASSUME TypeOK, NEW n \in Node
  PROVE  Resting(n) \subseteq Place
BY DEF Resting, TypeOK, Drive

LEMMA EnableType ==
  ASSUME TypeOK, NEW n \in Node, NEW p \in Place, Enable(n, p)
  PROVE  /\ drive' \in [Node -> Drive] /\ start' \in [Node -> Place]
         /\ given' \in [Node -> SUBSET Place] /\ upset' \subseteq Node
<1>1. AtRest(p) \in Drive
  BY DEF AtRest, Drive
<1> QED BY <1>1 DEF Enable, TypeOK

LEMMA CommandType ==
  ASSUME TypeOK, NEW n \in Node, NEW p \in Place, Command(n, p)
  PROVE  /\ commands' \in [Node -> Place \union {NaN}]
         /\ given' \in [Node -> SUBSET Place]
         /\ issued' \in 0..MaxCommands
<1>1. commands \in [Node -> Place \union {NaN}] /\ given \in [Node -> SUBSET Place]
  BY DEF TypeOK
<1>2. issued' \in 0..MaxCommands
  BY CyclicAssumption DEF TypeOK, Command
<1>3. commands' = [commands EXCEPT ![n] = p] /\ given' = [given EXCEPT ![n] = @ \union {p}]
  BY DEF Command
<1>4. given[n] \union {p} \in SUBSET Place
  BY <1>1
<1> QED BY <1>1, <1>2, <1>3, <1>4

\* Frames, feedback, commands and drives stay of their types.
THEOREM TypeCorrect == Spec => []TypeOK
<1>1. Init => TypeOK
  BY CyclicAssumption, PlaceIs, NoFeedbackType
     DEF Init, TypeOK, Unclaimed, Nothing, Drive, Node
<1>2. TypeOK /\ [Next]_vars => TypeOK'
  <2> SUFFICES ASSUME TypeOK, [Next]_vars
               PROVE  TypeOK'
    OBVIOUS
  <2> USE CyclicAssumption
  <2>1. CASE Open
    <3>1. /\ owing' = Owing /\ feedback' = NoFeedback /\ node' = 1 /\ epoch' = epoch + 1
          /\ epoch < MaxEpoch /\ call' = "activate" /\ socket' = "open"
          /\ UNCHANGED <<life, loop, result, target, data, bus, issued, mishaps, asked,
                         heard, written, upset>>
      BY <2>1 DEF Open
    <3>2. owing' \subseteq Node
      BY <3>1 DEF Owing
    <3>3. feedback' \in [Node -> MotorFeedback] /\ epoch' \in 0..MaxEpoch /\ node' \in 1..N+1
      BY <3>1, NoFeedbackType DEF TypeOK
    <3> QED BY <3>1, <3>2, <3>3 DEF data, bus, asked, TypeOK
  <2>2. CASE OpenFails
    BY <2>2 DEF OpenFails, Mishap, data, bus, asked, history, TypeOK
  <2>3. CASE ConfigureNode
    <3>1. node \in Node /\ node' \in 1..N+1
      BY <2>3 DEF ConfigureNode, TypeOK, Node
    <3>2. PICK p \in Resting(node) :
            Enable(node, p) /\ feedback' = [feedback EXCEPT ![node].position = p]
      BY <2>3 DEF ConfigureNode
    <3>3. p \in Place
      BY <3>1, RestingType
    <3>4. feedback' \in [Node -> MotorFeedback]
      BY <3>2, <3>3 DEF TypeOK, MotorFeedback
    <3> QED
      BY <2>3, <3>1, <3>2, <3>3, <3>4, EnableType
         DEF ConfigureNode, data, count, TypeOK
  <2>4. CASE ConfigureFails
    <3>1. /\ node \in Node /\ call' = "disarm" /\ node' = 1 /\ target' = "failed" /\ Mishap
          /\ UNCHANGED <<life, loop, result, socket, feedback, data, tx, out, epoch, issued,
                         steered, heard, written, owing>>
      BY <2>4 DEF ConfigureFails, TypeOK, Node
    <3>2. /\ drive' \in [Node -> Drive] /\ start' \in [Node -> Place]
          /\ given' \in [Node -> SUBSET Place] /\ upset' \subseteq Node
      <4>1. CASE UNCHANGED <<drive, start, given, upset>>
        BY <4>1 DEF TypeOK
      <4>2. CASE /\ drive' = [drive EXCEPT ![node].mode = "off", ![node].pending = NaN]
                 /\ UNCHANGED <<start, given, upset>>
        BY <4>2 DEF TypeOK, Drive
      <4>3. ASSUME NEW p \in Resting(node), Enable(node, p)
            PROVE  /\ drive' \in [Node -> Drive] /\ start' \in [Node -> Place]
                   /\ given' \in [Node -> SUBSET Place] /\ upset' \subseteq Node
        <5>1. p \in Place
          BY <3>1, RestingType
        <5> QED BY <3>1, <4>3, <5>1, EnableType
      <4> QED BY <2>4, <4>1, <4>2, <4>3 DEF ConfigureFails
    <3>3. mishaps' \in 0..MaxMishaps /\ node' \in 1..N+1
      BY <3>1 DEF Mishap, TypeOK
    <3> QED BY <3>1, <3>2, <3>3 DEF data, TypeOK
  <2>5. CASE Activate
    BY <2>5 DEF Activate, bus, count, TypeOK, Unclaimed
  <2>6. CASE Stop
    BY <2>6 DEF Stop, data, bus, count, asked, history, TypeOK
  <2>7. CASE Disarm
    <3>1. node \in Node /\ node' \in 1..N+1
      BY <2>7 DEF Disarm, TypeOK, Node
    <3>2. tx' \in Seq(Frame)
      BY <2>7, <3>1, FrameType, AppendAdds DEF Disarm, TypeOK
    <3> QED
      BY <2>7, <3>1, <3>2 DEF Disarm, data, count, asked, history, TypeOK
  <2>8. CASE Close
    <3>1. /\ positions' \in [Node -> Place] /\ commands' \in [Node -> Place \union {NaN}]
          /\ loop' \in {"off", "read", "update", "write"}
          /\ life' \in {"inactive", "active", "failed"}
      BY <2>8, PlaceIs DEF Close, data, TypeOK, Unclaimed
    <3> QED
      BY <2>8, <3>1 DEF Close, bus, count, asked, history, TypeOK
  <2>9. CASE Crash
    BY <2>9, NoFeedbackType, PlaceIs
       DEF Crash, Mishap, bus, asked, history, TypeOK, Unclaimed
  <2>10. CASE Read
    <3>1. positions' \in [Node -> Place]
      BY <2>10 DEF Read, TypeOK, MotorFeedback
    <3> QED
      BY <2>10, <3>1 DEF Read, InLoop, bus, count, asked, TypeOK
  <2>11. CASE ReadFails \/ WriteFails
    BY <2>11 DEF ReadFails, WriteFails, data, bus, count, asked, history, TypeOK
  <2>12. CASE Update
    <3> DEFINE Typed == /\ commands' \in [Node -> Place \union {NaN}]
                        /\ given' \in [Node -> SUBSET Place]
                        /\ issued' \in 0..MaxCommands /\ steered' \in {"yes", "no"}
    <3>1. Typed
      <4>1. CASE UNCHANGED <<commands, issued, given, steered>>
        BY <4>1 DEF TypeOK
      <4>2. ASSUME NEW n \in Node, Command(n, positions[n]), UNCHANGED steered
            PROVE  Typed
        <5>1. positions[n] \in Place
          BY DEF TypeOK
        <5> QED BY <4>2, <5>1, CommandType DEF TypeOK
      <4>3. ASSUME NEW n \in Node, NEW p \in Place, Command(n, p), steered' = "yes"
            PROVE  Typed
        BY <4>3, CommandType DEF TypeOK
      <4> QED BY <2>12, <4>1, <4>2, <4>3 DEF Update
    <3> QED
      BY <2>12, <3>1 DEF Update, bus, history, TypeOK
  <2>13. CASE Write
    BY <2>13 DEF Write, data, bus, count, asked, history, TypeOK
  <2>14. CASE SendTarget
    <3>1. node \in Node /\ node' \in 1..N+1
      BY <2>14 DEF SendTarget, TypeOK, Node
    <3>2. tx' \in Seq(Frame) /\ result' \in {"ok", "error"}
      <4>1. commands[node] \in Place \union {NaN}
        BY <3>1 DEF TypeOK
      <4>2. CASE tx' = tx
        BY <2>14, <4>2 DEF SendTarget, TypeOK
      <4>3. CASE commands[node] # NaN /\ tx' = Append(tx, TargetPositionFrame(node, commands[node]))
                 /\ result' = result
        BY <3>1, <4>1, <4>3, FrameType, AppendAdds DEF TypeOK
      <4> QED BY <2>14, <4>2, <4>3 DEF SendTarget
    <3> QED
      BY <2>14, <3>1, <3>2 DEF SendTarget, data, count, asked, history, TypeOK
  <2>15. CASE SendSync
    <3>1. tx' \in Seq(Frame)
      <4>1. tx' = tx \/ tx' = Append(tx, SyncFrame)
        BY <2>15 DEF SendSync
      <4>2. tx \in Seq(Frame) /\ Append(tx, SyncFrame) \in Seq(Frame)
        BY FrameType, AppendAdds DEF TypeOK
      <4> QED BY <4>1, <4>2
    <3>2. /\ call' = "none" /\ loop' = "read" /\ life' \in {life, "failed"}
          /\ written' \in {"yes", written}
      BY <2>15 DEF SendSync, Written
    <3> QED
      BY <2>15, <3>1, <3>2 DEF SendSync, data, count, asked, TypeOK
  <2>16. CASE Deliver
    BY <2>16, DeliverType DEF Deliver, program, data, count, asked, history, TypeOK
  <2>17. ASSUME NEW n \in Node, Receive(n)
         PROVE  TypeOK'
    <3>1. /\ out[n] \in Seq(Motion \union Status) /\ out[n] # <<>>
          /\ feedback[n] \in MotorFeedback
      BY <2>17 DEF Receive, TypeOK
    <3>2. Head(out[n]) \in Motion \union Status /\ Tail(out[n]) \in Seq(Motion \union Status)
      BY <3>1, HeadTail
    <3>3. Stored(feedback[n], Head(out[n])) \in MotorFeedback
      BY <3>1, <3>2, StoredIs
    <3>4. feedback' \in [Node -> MotorFeedback] /\ out' \in [Node -> Seq(Motion \union Status)]
      BY <2>17, <3>2, <3>3 DEF Receive, TypeOK
    <3>5. owing' \subseteq Node
      BY <2>17 DEF Receive, TypeOK
    <3> QED
      BY <2>17, <3>4, <3>5 DEF Receive, program, data, count, asked, TypeOK
  <2>18. ASSUME NEW n \in Node, Unheard(n) \/ LoseTpdo(n)
         PROVE  TypeOK'
    <3>1. out[n] \in Seq(Motion \union Status) /\ out[n] # <<>>
      BY <2>18 DEF Unheard, LoseTpdo, TypeOK
    <3>2. Tail(out[n]) \in Seq(Motion \union Status)
      BY <3>1, HeadTail
    <3>3. out' \in [Node -> Seq(Motion \union Status)]
      BY <2>18, <3>2 DEF Unheard, LoseTpdo, TypeOK
    <3>4. upset' \subseteq Node /\ mishaps' \in 0..MaxMishaps
      BY <2>18 DEF Unheard, LoseTpdo, Disturb, Mishap, history, count, TypeOK
    <3> QED
      BY <2>18, <3>3, <3>4
         DEF Unheard, LoseTpdo, program, data, count, asked, history, TypeOK
  <2>19. ASSUME NEW n \in Node, Fault(n) \/ Reboot(n)
         PROVE  TypeOK'
    <3>1. drive' \in [Node -> Drive]
      <4>1. drive[n] \in Drive /\ drive \in [Node -> Drive]
        BY DEF TypeOK
      <4>2. /\ [drive[n] EXCEPT !.mode = "fault"] \in Drive
            /\ [drive[n] EXCEPT !.mode = "off", !.pending = NaN] \in Drive
        BY <4>1 DEF Drive
      <4>3. drive'[n] \in Drive /\ \A m \in Node : m # n => drive'[m] = drive[m]
        BY <2>19, <4>1, <4>2 DEF Fault, Reboot
      <4>4. drive' = [m \in Node |-> drive'[m]]
        BY <2>19, <4>1 DEF Fault, Reboot
      <4> QED BY <4>1, <4>3, <4>4
    <3> QED
      BY <2>19, <3>1 DEF Fault, Reboot, Disturb, Mishap, program, data, asked, TypeOK
  <2>20. ASSUME NEW n \in Node, LoseFrame(n)
         PROVE  TypeOK'
    <3>1. tx' \in Seq(Frame)
      BY <2>20, HeadTail DEF LoseFrame, TypeOK
    <3> QED
      BY <2>20, <3>1 DEF LoseFrame, Disturb, Mishap, program, data, asked, TypeOK
  <2>21. CASE UNCHANGED vars
    BY <2>21 DEF vars, program, data, bus, count, asked, history, TypeOK
  <2> QED
    BY <2>1, <2>2, <2>3, <2>4, <2>5, <2>6, <2>7, <2>8, <2>9, <2>10, <2>11, <2>12,
       <2>13, <2>14, <2>15, <2>16, <2>17, <2>18, <2>19, <2>20, <2>21
       DEF Next, Activating, Stopping, Cycle
<1> QED BY <1>1, <1>2, PTL DEF Spec
-----------------------------------------------------------------------------
(* What a call may rely on.                                                 *)

LEMMA TailLess ==
  ASSUME NEW S, NEW q \in Seq(S), q # <<>>
  PROVE  \A i \in 1..Len(Tail(q)) : \E j \in 1..Len(q) : Tail(q)[i] = q[j]
<1> TAKE i \in 1..Len(Tail(q))
<1>1. Tail(q)[i] = q[i + 1] /\ i + 1 \in 1..Len(q)
  BY HeadTail
<1> QED BY <1>1

\* Configured in this activation.
Configured(n) == life = "active" \/ (call = "activate" /\ n < node)

\* Once a drive has been configured nothing is left of what was sent before, and
\* in operation no frame on its way turns a drive off.
EnabledInv ==
  /\ call = "none" /\ life = "inactive" => socket = "closed"
  /\ call = "write" => life = "active"
  /\ call = "activate" => life = "inactive"
  /\ call = "activate" /\ node > 1 => tx = <<>>
  /\ call = "activate" => \A n \in Node \ upset : n < node => drive[n].mode # "off"
  /\ life = "active" /\ call # "disarm" =>
       /\ \A i \in 1..Len(tx) : tx[i].kind # "disarm"
       /\ \A n \in Node \ upset : drive[n].mode # "off"

\* Nothing that EnabledInv speaks of changes, or frames leave the queue.
LEMMA EnabledSame ==
  ASSUME EnabledInv, UNCHANGED <<life, call, node, socket>>, upset \subseteq upset',
         \A i \in 1..Len(tx') : \E j \in 1..Len(tx) : tx'[i] = tx[j],
         tx = <<>> => tx' = <<>>,
         \A n \in Node \ upset' : drive'[n].mode \in {drive[n].mode, "enabled", "fault"}
  PROVE  EnabledInv'
BY DEF EnabledInv

LEMMA EnabledStep == TypeOK /\ EnabledInv /\ [Next]_vars => EnabledInv'
<1> SUFFICES ASSUME TypeOK, EnabledInv, [Next]_vars
             PROVE  EnabledInv'
  OBVIOUS
<1>1. CASE Activating
  <2>1. CASE Open
    <3>1. life = "inactive" /\ life' = life /\ call' = "activate" /\ node' = 1
      BY <2>1 DEF Open
    <3>2. \A n \in Node : ~(n < 1)
      BY DEF Node
    <3> QED BY <3>1, <3>2 DEF EnabledInv
  <2>2. CASE OpenFails
    BY <2>2 DEF OpenFails, EnabledInv
  <2>3. CASE ConfigureNode
    <3>1. /\ node \in Node /\ life = "inactive" /\ call = "activate"
          /\ UNCHANGED <<life, call>> /\ node' = node + 1
          /\ tx' = tx
      BY <2>3 DEF ConfigureNode, EnabledInv, TypeOK, Node
    <3>2. PICK p : /\ drive' = [drive EXCEPT ![node] = AtRest(p)]
                   /\ tx = <<>> /\ upset' = upset \ {node}
      BY <2>3 DEF ConfigureNode, Enable, Answered
    <3>3. \A n \in Node \ upset' : n < node' => drive'[n].mode # "off"
      <4> TAKE n \in Node \ upset'
      <4>1. CASE n = node
        BY <3>1, <3>2, <4>1 DEF AtRest, TypeOK
      <4>2. CASE n # node
        <5>1. drive'[n] = drive[n] /\ n \notin upset
          BY <3>1, <3>2, <4>2 DEF TypeOK
        <5>2. n < node + 1 => n < node
          BY <3>1, <4>2 DEF Node
        <5> QED BY <3>1, <5>1, <5>2 DEF EnabledInv
      <4> QED BY <4>1, <4>2
    <3> QED BY <3>1, <3>2, <3>3 DEF EnabledInv
  <2>4. CASE ConfigureFails
    <3>1. life' = "inactive" /\ call' = "disarm"
      BY <2>4 DEF ConfigureFails, EnabledInv
    <3> QED BY <3>1 DEF EnabledInv
  <2>5. CASE Activate
    <3>1. /\ call = "activate" /\ call' = "none" /\ life' = "active"
          /\ node > N /\ node \in Nat /\ UNCHANGED <<tx, drive, upset>>
      BY <2>5 DEF Activate, bus, TypeOK
    <3>2. node > 1 /\ \A n \in Node : n < node
      BY <3>1, CyclicAssumption DEF Node
    <3>3. Len(tx) = 0
      BY <3>1, <3>2 DEF EnabledInv
    <3> QED BY <3>1, <3>2, <3>3 DEF EnabledInv
  <2> QED BY <1>1, <2>1, <2>2, <2>3, <2>4, <2>5 DEF Activating
<1>2. CASE ReadFails \/ WriteFails
  BY <1>2 DEF ReadFails, WriteFails, InLoop, EnabledInv
<1>3. CASE Stop \/ Disarm
  BY <1>3 DEF Stop, Disarm, EnabledInv
<1>4. CASE Close \/ Crash
  BY <1>4 DEF Close, Crash, EnabledInv
<1>5. CASE Read \/ Update
  BY <1>5 DEF Read, Update, bus, history, EnabledInv
<1>6. CASE Write
  <2>1. life = "active"
    BY <1>6 DEF Write, InLoop, EnabledInv
  <2> QED BY <1>6, <2>1 DEF Write, InLoop, bus, history, EnabledInv
<1>7. CASE SendTarget \/ SendSync
  <2> DEFINE f == TargetPositionFrame(node, commands[node])
  <2>1. /\ UNCHANGED <<socket, drive, upset>> /\ call = "write"
        /\ life' \in {"active", "failed"} /\ call' \in {"write", "none"}
        /\ life' = "failed" => call' = "none"
    BY <1>7 DEF SendTarget, SendSync, Written, EnabledInv, history
  <2>2. tx' = tx \/ tx' = Append(tx, f) \/ tx' = Append(tx, SyncFrame)
    BY <1>7 DEF SendTarget, SendSync
  <2>3. f.kind = "target" /\ SyncFrame.kind = "sync" /\ tx \in Seq(Frame)
    BY DEF TargetPositionFrame, SyncFrame, TypeOK
  <2> HIDE DEF f
  <2>4. \A i \in 1..Len(tx') : tx'[i].kind # "disarm"
    <3>1. \A i \in 1..Len(tx) : tx[i].kind # "disarm"
      BY <2>1 DEF EnabledInv
    <3> QED BY <2>2, <2>3, <3>1
  <2> QED BY <2>1, <2>4 DEF EnabledInv
<1>8. CASE Deliver
  <2> DEFINE f == Head(tx)
  <2>1. /\ UNCHANGED <<life, call, node, socket, upset>>
        /\ tx # <<>> /\ tx' = Tail(tx) /\ tx \in Seq(Frame)
    BY <1>8 DEF Deliver, program, history, TypeOK
  <2>2. /\ f \in Frame /\ 1 \in 1..Len(tx) /\ f = tx[1]
        /\ \A i \in 1..Len(tx') : \E j \in 1..Len(tx) : tx'[i] = tx[j]
    BY <2>1, HeadTail, TailLess
  <2>3. \/ f.kind = "target" /\ Pend(f)
        \/ f.kind = "disarm" /\ Off(f)
        \/ f.kind = "sync" /\ Latch
    BY <1>8 DEF Deliver
  <2> HIDE DEF f
  <2>4. CASE f.kind # "disarm"
    <3>1. \A n \in Node : drive'[n].mode = drive[n].mode
      <4>1. CASE f.kind = "target" /\ Pend(f)
        BY <2>2, <4>1, FrameIs DEF Pend, TypeOK, Drive
      <4>2. CASE f.kind = "sync" /\ Latch
        BY <4>2, LatchIs
      <4> QED BY <2>3, <2>4, <4>1, <4>2
    <3> QED BY <2>1, <2>2, <3>1, EnabledSame
  <2>5. CASE f.kind = "disarm"
    <3>1. ~(life = "active" /\ call # "disarm")
      BY <2>2, <2>5 DEF EnabledInv
    <3>2. ~(call = "activate" /\ node > 1)
      BY <2>1 DEF EnabledInv
    <3>3. node \in Nat /\ \A n \in Node : n < node => node > 1
      BY DEF Node, TypeOK
    <3> QED BY <2>1, <3>1, <3>2, <3>3 DEF EnabledInv
  <2> QED BY <2>4, <2>5
<1>9. ASSUME NEW n \in Node, Receive(n) \/ Unheard(n) \/ LoseTpdo(n)
      PROVE  EnabledInv'
  <2>1. UNCHANGED <<life, call, node, socket, tx, drive>> /\ upset \subseteq upset'
    BY <1>9 DEF Receive, Unheard, LoseTpdo, Disturb, program, history
  <2> QED BY <2>1, EnabledSame
<1>10. ASSUME NEW n \in Node, Fault(n) \/ Reboot(n)
       PROVE  EnabledInv'
  <2>1. UNCHANGED <<life, call, node, socket, tx>> /\ upset' = upset \union {n}
    BY <1>10 DEF Fault, Reboot, Disturb, program
  <2>2. \A m \in Node \ {n} : drive'[m] = drive[m]
    BY <1>10 DEF Fault, Reboot, TypeOK
  <2> QED BY <2>1, <2>2, EnabledSame
<1>11. ASSUME NEW n \in Node, LoseFrame(n)
       PROVE  EnabledInv'
  <2>1. UNCHANGED <<life, call, node, socket, drive>> /\ upset \subseteq upset'
    BY <1>11 DEF LoseFrame, Disturb, program
  <2>2. /\ \A i \in 1..Len(tx') : \E j \in 1..Len(tx) : tx'[i] = tx[j]
        /\ tx # <<>>
    BY <1>11, TailLess DEF LoseFrame, TypeOK
  <2> QED BY <2>1, <2>2, EnabledSame
<1>12. CASE UNCHANGED vars
  BY <1>12 DEF vars, program, bus, history, EnabledInv
<1> QED
  BY <1>1, <1>2, <1>3, <1>4, <1>5, <1>6, <1>7, <1>8, <1>9, <1>10, <1>11, <1>12
     DEF Next, Activating, Stopping, Cycle

LEMMA EnabledInit == Init => EnabledInv
BY DEF Init, EnabledInv

-----------------------------------------------------------------------------
(* What the drives are told.                                                *)

\* Where drive n may be in this activation.
Own(n) == {start[n]} \union given[n]

\* A command, a target on its way to a drive, and what a drive holds or
\* reports, come from this activation's controllers or from its start.
CommandInv ==
  /\ life = "active" => \A n \in Node : commands[n] \in {NaN} \union given[n]
  /\ \A i \in 1..Len(tx) : tx[i].kind = "target" => tx[i].value \in given[tx[i].node]
  /\ \A n \in Node : drive[n].target \in Own(n) /\ drive[n].place \in Own(n)
  /\ \A n \in Node : drive[n].pending \in {NaN} \union given[n]
  /\ \A n \in Node : \A i \in 1..Len(out[n]) :
       out[n][i].kind = "motion" => out[n][i].value \in Own(n)

\* Commands may be added or withdrawn.
LEMMA CommandSame ==
  ASSUME TypeOK, CommandInv, UNCHANGED <<tx, out, drive, start>>,
         \A n \in Node : given[n] \subseteq given'[n],
         life' = "active" => \A n \in Node : commands'[n] \in {NaN} \union given'[n]
  PROVE  CommandInv'
<1>1. \A i \in 1..Len(tx) : tx[i].kind = "target" => tx[i].node \in Node
  <2> TAKE i \in 1..Len(tx)
  <2>1. tx[i] \in Frame
    BY DEF TypeOK
  <2> QED BY <2>1, FrameIs
<1> QED BY <1>1 DEF CommandInv, Own

\* Frames may leave both queues.
LEMMA CommandLess ==
  ASSUME CommandInv, UNCHANGED <<life, commands, drive, start, given>>,
         \A i \in 1..Len(tx') : \E j \in 1..Len(tx) : tx'[i] = tx[j],
         \A n \in Node : \A i \in 1..Len(out'[n]) :
           \E j \in 1..Len(out[n]) : out'[n][i] = out[n][j]
  PROVE  CommandInv'
<1>1. \A i \in 1..Len(tx') : tx'[i].kind = "target" => tx'[i].value \in given[tx'[i].node]
  BY DEF CommandInv
<1>2. \A n \in Node : \A i \in 1..Len(out'[n]) :
        out'[n][i].kind = "motion" => out'[n][i].value \in Own(n)
  BY DEF CommandInv
<1> QED BY <1>1, <1>2 DEF CommandInv, Own

\* A TPDO is taken from drive n, by rx_loop, by nobody or by the bus.
LEMMA TpdoTaken ==
  ASSUME TypeOK, NEW n \in Node, Receive(n) \/ Unheard(n) \/ LoseTpdo(n)
  PROVE  /\ \A m \in Node : \A i \in 1..Len(out'[m]) :
              \E j \in 1..Len(out[m]) : out'[m][i] = out[m][j]
         /\ UNCHANGED <<program, commands, drive, start, given, tx>>
<1>1. out \in [Node -> Seq(Motion \union Status)]
  BY DEF TypeOK
<1>2. out[n] # <<>> /\ out' = [out EXCEPT ![n] = Tail(@)]
  BY DEF Receive, Unheard, LoseTpdo
<1>3. ASSUME NEW m \in Node
      PROVE  \A i \in 1..Len(out'[m]) : \E j \in 1..Len(out[m]) : out'[m][i] = out[m][j]
  <2>1. CASE m = n
    <3>1. out'[m] = Tail(out[m]) /\ out[m] \in Seq(Motion \union Status) /\ out[m] # <<>>
      BY <1>1, <1>2, <2>1
    <3> QED BY <3>1, TailLess
  <2>2. CASE m # n
    BY <1>1, <1>2, <2>2
  <2> QED BY <2>1, <2>2
<1>4. UNCHANGED <<program, commands, drive, start, given, tx>>
  BY DEF Receive, Unheard, LoseTpdo, data, asked
<1> QED BY <1>3, <1>4

LEMMA CommandStep ==
  TypeOK /\ EnabledInv /\ CommandInv /\ [Next]_vars => CommandInv'
<1> SUFFICES ASSUME TypeOK, EnabledInv, CommandInv, [Next]_vars
             PROVE  CommandInv'
  OBVIOUS
<1> USE CyclicAssumption
<1>1. CASE ConfigureNode \/ ConfigureFails
  <2>1. /\ node \in Node /\ life' = "inactive" /\ UNCHANGED <<tx, out>>
    BY <1>1 DEF ConfigureNode, ConfigureFails, EnabledInv, TypeOK, Node
  <2>2. CASE UNCHANGED <<drive, start, given>>
    BY <2>1, <2>2 DEF CommandInv, Own
  <2>3. CASE /\ drive' = [drive EXCEPT ![node].mode = "off", ![node].pending = NaN]
             /\ UNCHANGED <<start, given>>
    <3>1. \A n \in Node : /\ drive'[n].target = drive[n].target
                          /\ drive'[n].place = drive[n].place
                          /\ drive'[n].pending \in {NaN, drive[n].pending}
      BY <2>3 DEF TypeOK, Drive
    <3> QED BY <2>1, <2>3, <3>1 DEF CommandInv, Own
  <2>4. ASSUME NEW p, Enable(node, p)
        PROVE  CommandInv'
    <3>1. /\ Len(tx) = 0 /\ Len(out[node]) = 0
          /\ drive' = [drive EXCEPT ![node] = AtRest(p)]
          /\ start' = [start EXCEPT ![node] = p] /\ given' = [given EXCEPT ![node] = {}]
      BY <2>4 DEF Enable, Answered
    <3>2. ASSUME NEW n \in Node
          PROVE  /\ drive'[n].target \in Own(n)' /\ drive'[n].place \in Own(n)'
                 /\ drive'[n].pending \in {NaN} \union given'[n]
                 /\ \A i \in 1..Len(out'[n]) :
                      out'[n][i].kind = "motion" => out'[n][i].value \in Own(n)'
      <4>1. CASE n = node
        BY <2>1, <3>1, <4>1 DEF AtRest, Own, TypeOK
      <4>2. CASE n # node
        <5>1. drive'[n] = drive[n] /\ start'[n] = start[n] /\ given'[n] = given[n]
          BY <3>1, <4>2 DEF TypeOK
        <5> QED BY <2>1, <5>1 DEF CommandInv, Own
      <4> QED BY <4>1, <4>2
    <3> QED BY <2>1, <3>1, <3>2 DEF CommandInv
  <2> QED BY <1>1, <2>2, <2>3, <2>4 DEF ConfigureNode, ConfigureFails
<1>2. CASE Open \/ OpenFails \/ Activate
  <2>1. UNCHANGED <<tx, out, drive, start, given>>
    BY <1>2 DEF Open, OpenFails, Activate, bus, asked
  <2>2. life' = "active" => commands' = Unclaimed
    BY <1>2 DEF Open, OpenFails, Activate
  <2> QED BY <2>1, <2>2, CommandSame DEF Unclaimed
<1>3. CASE Stop \/ Close \/ Crash \/ Read \/ ReadFails \/ WriteFails \/ Write
  <2>1. UNCHANGED <<tx, out, drive, start, given>>
    BY <1>3 DEF Stop, Close, Crash, Read, ReadFails, WriteFails, Write, bus, asked
  <2>2. life' = "active" => life = "active" /\ commands' = commands
    BY <1>3 DEF Stop, Close, Crash, Read, ReadFails, WriteFails, Write, data
  <2>3. life' = "active" => \A n \in Node : commands'[n] \in {NaN} \union given'[n]
    BY <2>1, <2>2 DEF CommandInv
  <2> QED BY <2>1, <2>3, CommandSame
<1>4. CASE Disarm
  <2>1. UNCHANGED <<life, commands, out, drive, start, given>>
    BY <1>4 DEF Disarm, data, asked
  <2>2. tx' = tx \/ tx' = Append(tx, DisarmFrame(node))
    BY <1>4 DEF Disarm
  <2>3. node \in Node /\ tx \in Seq(Frame)
    BY <1>4 DEF Disarm, TypeOK, Node
  <2>4. \A i \in 1..Len(tx') : tx'[i].kind = "target" => tx'[i].value \in given[tx'[i].node]
    <3>1. DisarmFrame(node) \in Frame /\ DisarmFrame(node).kind = "disarm"
      BY <2>3, FrameType DEF DisarmFrame
    <3> QED BY <2>2, <2>3, <3>1 DEF CommandInv
  <2> QED BY <2>1, <2>4 DEF CommandInv, Own
<1>5. CASE Update
  <2>1. UNCHANGED <<life, tx, out, drive, start>>
    BY <1>5 DEF Update, bus
  <2>2. \A n \in Node : /\ given[n] \subseteq given'[n]
                        /\ life = "active" => commands'[n] \in {NaN} \union given'[n]
    <3>1. commands \in [Node -> Place \union {NaN}] /\ given \in [Node -> SUBSET Place]
      BY DEF TypeOK
    <3>2. ASSUME NEW m \in Node, NEW p, Command(m, p)
          PROVE  \A n \in Node :
                   /\ given[n] \subseteq given'[n]
                   /\ life = "active" => commands'[n] \in {NaN} \union given'[n]
      BY <3>1, <3>2 DEF Command, CommandInv
    <3>3. CASE UNCHANGED <<commands, given>>
      BY <3>3 DEF CommandInv
    <3> QED BY <1>5, <3>2, <3>3 DEF Update
  <2> QED BY <2>1, <2>2, CommandSame
<1>6. CASE SendTarget
  <2>1. UNCHANGED <<life, commands, out, drive, start, given>> /\ life = "active"
    BY <1>6 DEF SendTarget, data, asked, EnabledInv
  <2>2. node \in Node /\ tx \in Seq(Frame)
    BY <1>6 DEF SendTarget, TypeOK, Node
  <2> DEFINE f == TargetPositionFrame(node, commands[node])
  <2>3. \/ tx' = tx
        \/ commands[node] # NaN /\ tx' = Append(tx, f)
    BY <1>6 DEF SendTarget
  <2>4. CASE tx' = tx
    BY <2>1, <2>4 DEF CommandInv, Own
  <2>5. CASE commands[node] # NaN /\ tx' = Append(tx, f)
    <3>1. commands[node] \in Place /\ commands[node] \in given[node]
      BY <2>1, <2>2, <2>5 DEF TypeOK, CommandInv
    <3>2. f \in Frame /\ f.node = node /\ f.value = commands[node]
      BY <2>2, <3>1, FrameType DEF TargetPositionFrame
    <3> HIDE DEF f
    <3>3. \A i \in 1..Len(tx') : tx'[i] = f \/ \E j \in 1..Len(tx) : tx'[i] = tx[j]
      BY <2>2, <2>5, <3>2
    <3>4. \A i \in 1..Len(tx') : tx'[i].kind = "target" => tx'[i].value \in given[tx'[i].node]
      BY <3>1, <3>2, <3>3 DEF CommandInv
    <3> QED BY <2>1, <3>4 DEF CommandInv, Own
  <2> QED BY <2>3, <2>4, <2>5
<1>7. CASE SendSync
  <2>1. /\ UNCHANGED <<commands, out, drive, start, given>>
        /\ life' = "active" => life = "active"
    BY <1>7 DEF SendSync, Written, data, asked
  <2>2. tx \in Seq(Frame) /\ SyncFrame \in Frame /\ SyncFrame.kind = "sync"
    BY FrameType DEF TypeOK, SyncFrame
  <2>3. tx' = tx \/ tx' = Append(tx, SyncFrame)
    BY <1>7 DEF SendSync
  <2>4. \A i \in 1..Len(tx') : tx'[i] = SyncFrame \/ \E j \in 1..Len(tx) : tx'[i] = tx[j]
    BY <2>2, <2>3
  <2>5. \A i \in 1..Len(tx') : tx'[i].kind = "target" => tx'[i].value \in given[tx'[i].node]
    BY <2>2, <2>4 DEF CommandInv
  <2> QED BY <2>1, <2>5 DEF CommandInv, Own
<1>8. CASE Deliver
  <2> DEFINE f == Head(tx)
  <2>1. /\ UNCHANGED <<life, commands, start, given>>
        /\ tx # <<>> /\ tx' = Tail(tx) /\ tx \in Seq(Frame)
    BY <1>8 DEF Deliver, program, data, asked, TypeOK
  <2>2. /\ f \in Frame /\ 1 \in 1..Len(tx) /\ f = tx[1]
    BY <2>1, HeadTail
  <2>3. \A i \in 1..Len(tx') : tx'[i].kind = "target" => tx'[i].value \in given[tx'[i].node]
    <3>1. \A i \in 1..Len(tx') : \E j \in 1..Len(tx) : tx'[i] = tx[j]
      BY <2>1, TailLess
    <3> QED BY <3>1 DEF CommandInv
  <2>4. \/ f.kind = "target" /\ Pend(f)
        \/ f.kind = "disarm" /\ Off(f)
        \/ f.kind = "sync" /\ Latch
    BY <1>8 DEF Deliver
  <2> HIDE DEF f
  <2>5. /\ \A n \in Node : drive'[n].target \in Own(n) /\ drive'[n].place \in Own(n)
        /\ \A n \in Node : drive'[n].pending \in {NaN} \union given[n]
        /\ \A n \in Node : \A i \in 1..Len(out'[n]) :
             out'[n][i].kind = "motion" => out'[n][i].value \in Own(n)
    <3>1. CASE f.kind = "target" /\ Pend(f)
      <4>1. f.node \in Node /\ f.value \in given[f.node]
        BY <2>2, <3>1, FrameIs DEF CommandInv
      <4>2. out' = out
        BY <3>1 DEF Pend
      <4>3. \A n \in Node : /\ drive'[n].target = drive[n].target
                            /\ drive'[n].place = drive[n].place
                            /\ \/ drive'[n].pending = drive[n].pending
                               \/ n = f.node /\ drive'[n].pending = f.value
        BY <3>1, <4>1 DEF Pend, TypeOK, Drive
      <4> QED BY <4>1, <4>2, <4>3 DEF CommandInv
    <3>2. CASE f.kind = "disarm" /\ Off(f)
      <4>1. f.node \in Node /\ out' = out
        BY <2>2, <3>2, FrameIs DEF Off
      <4>2. \A n \in Node : /\ drive'[n].target = drive[n].target
                            /\ drive'[n].place = drive[n].place
                            /\ drive'[n].pending \in {NaN, drive[n].pending}
        BY <3>2, <4>1 DEF Off, TypeOK, Drive
      <4> QED BY <4>1, <4>2 DEF CommandInv
    <3>3. CASE f.kind = "sync" /\ Latch
      <4>1. \A n \in Node :
              /\ drive'[n].target = Latched(drive[n]).target
              /\ drive'[n].pending = NaN
              /\ drive'[n].place \in {drive[n].place, drive[n].target}
              /\ \A i \in 1..Len(out'[n]) :
                   out'[n][i].kind = "motion" => out'[n][i].value = drive'[n].place
        BY <3>3, LatchIs
      <4>2. \A n \in Node : drive'[n].target \in Own(n)
        <5> TAKE n \in Node
        <5>1. drive[n] \in Drive
          BY DEF TypeOK
        <5> QED BY <4>1, <5>1, LatchedIs DEF CommandInv, Own
      <4> QED BY <4>1, <4>2 DEF CommandInv
    <3> QED BY <2>4, <3>1, <3>2, <3>3
  <2> QED BY <2>1, <2>3, <2>5 DEF CommandInv, Own
<1>9. ASSUME NEW n \in Node, Receive(n) \/ Unheard(n) \/ LoseTpdo(n)
      PROVE  CommandInv'
  <2>1. \A i \in 1..Len(tx') : \E j \in 1..Len(tx) : tx'[i] = tx[j]
    BY <1>9, TpdoTaken
  <2>2. UNCHANGED life
    BY <1>9, TpdoTaken DEF program
  <2> QED BY <1>9, <2>1, <2>2, TpdoTaken, CommandLess
<1>10. ASSUME NEW n \in Node, Fault(n) \/ Reboot(n)
       PROVE  CommandInv'
  <2>1. UNCHANGED <<life, commands, tx, out, start, given>>
    BY <1>10 DEF Fault, Reboot, program, data, asked
  <2>2. \A m \in Node : /\ drive'[m].target = drive[m].target
                        /\ drive'[m].place = drive[m].place
                        /\ drive'[m].pending \in {NaN, drive[m].pending}
    <3>1. CASE Fault(n)
      BY <3>1 DEF Fault, TypeOK, Drive
    <3>2. CASE Reboot(n)
      BY <3>2 DEF Reboot, TypeOK, Drive
    <3> QED BY <1>10, <3>1, <3>2
  <2> QED BY <2>1, <2>2 DEF CommandInv, Own
<1>11. ASSUME NEW n \in Node, LoseFrame(n)
       PROVE  CommandInv'
  <2>1. UNCHANGED <<life, commands, out, drive, start, given>>
    BY <1>11 DEF LoseFrame, program, data, asked
  <2>2. \A i \in 1..Len(tx') : \E j \in 1..Len(tx) : tx'[i] = tx[j]
    BY <1>11, TailLess DEF LoseFrame, TypeOK
  <2> QED BY <2>1, <2>2, CommandLess
<1>12. CASE UNCHANGED vars
  BY <1>12 DEF vars, program, data, bus, asked, CommandInv, Own
<1> QED
  BY <1>1, <1>2, <1>3, <1>4, <1>5, <1>6, <1>7, <1>8, <1>9, <1>10, <1>11, <1>12
     DEF Next, Activating, Stopping, Cycle

LEMMA CommandInit == Init => CommandInv
BY DEF Init, CommandInv, Own, Unclaimed

\* A drive has, and latches, only targets a controller gave its joint in this
\* activation, and the one it was enabled with.
THEOREM OnlyCommandedAlways == Spec => []OnlyCommanded
<1>1. CommandInv => OnlyCommanded
  BY DEF CommandInv, Own, OnlyCommanded
<1> QED
  BY <1>1, EnabledInit, EnabledStep, CommandInit, CommandStep, TypeCorrect, PTL DEF Spec
-----------------------------------------------------------------------------
(* What the state interfaces say.                                           *)

\* From its configuration on a drive is reported where it has been since; the
\* state interfaces say so from the first read() on.
PositionInv ==
  /\ \A n \in Node : Configured(n) => feedback[n].position \in Own(n)
  /\ call = "activate" => \A n \in Node : n < node => given[n] = {}
  /\ life = "active" /\ heard = "yes" => \A n \in Node : positions[n] \in Own(n)
  /\ life = "active" /\ steered = "no" => \A n \in Node : given[n] \subseteq {start[n]}

LEMMA PositionSame ==
  ASSUME PositionInv, UNCHANGED <<feedback, asked, heard>>,
         life' = "active" => life = "active" /\ positions' = positions,
         call' = "activate" => call = "activate" /\ node' = node
  PROVE  PositionInv'
BY DEF PositionInv, Configured, Own, asked

LEMMA PositionStep ==
  TypeOK /\ EnabledInv /\ CommandInv /\ PositionInv /\ [Next]_vars => PositionInv'
<1> SUFFICES ASSUME TypeOK, EnabledInv, CommandInv, PositionInv, [Next]_vars
             PROVE  PositionInv'
  OBVIOUS
<1>1. CASE Open \/ OpenFails \/ ConfigureFails
  <2>1. /\ life' # "active"
        /\ call' = "activate" => node' = 1
    BY <1>1 DEF Open, OpenFails, ConfigureFails, EnabledInv
  <2>2. \A n \in Node : ~(n < 1)
    BY DEF Node
  <2> QED BY <2>1, <2>2 DEF PositionInv, Configured
<1>2. CASE ConfigureNode
  <2>1. /\ node \in Node /\ life' # "active" /\ call = "activate" /\ node' = node + 1
    BY <1>2 DEF ConfigureNode, EnabledInv, TypeOK, Node
  <2>2. PICK p :
          /\ start' = [start EXCEPT ![node] = p] /\ given' = [given EXCEPT ![node] = {}]
          /\ feedback' = [feedback EXCEPT ![node].position = p]
    BY <1>2 DEF ConfigureNode, Enable
  <2>3. ASSUME NEW n \in Node, n < node'
        PROVE  feedback'[n].position \in Own(n)' /\ given'[n] = {}
    <3>1. CASE n = node
      BY <2>1, <2>2, <3>1 DEF Own, TypeOK, MotorFeedback
    <3>2. CASE n # node
      <4>1. n < node
        BY <2>1, <2>3, <3>2 DEF Node
      <4>2. feedback'[n] = feedback[n] /\ start'[n] = start[n] /\ given'[n] = given[n]
        BY <2>1, <2>2, <3>2 DEF TypeOK
      <4> QED BY <2>1, <4>1, <4>2 DEF PositionInv, Configured, Own
    <3> QED BY <3>1, <3>2
  <2> QED BY <2>1, <2>3 DEF PositionInv, Configured
<1>3. CASE Activate
  <2>1. /\ call = "activate" /\ node > N /\ node \in Nat
        /\ life' = "active" /\ call' = "none" /\ heard' = "no"
        /\ UNCHANGED <<feedback, start, given>>
    BY <1>3 DEF Activate, TypeOK
  <2>2. \A n \in Node : n < node
    BY <2>1, CyclicAssumption DEF Node
  <2> QED BY <2>1, <2>2 DEF PositionInv, Configured, Own
<1>4. CASE \/ Stop \/ Disarm \/ Close \/ ReadFails \/ Write \/ WriteFails
           \/ SendTarget \/ SendSync
  <2>1. /\ UNCHANGED <<feedback, asked, heard>> /\ call' # "activate"
        /\ life' = "active" => life = "active" /\ positions' = positions
    BY <1>4 DEF Stop, Disarm, Close, ReadFails, Write, WriteFails, SendTarget, SendSync,
                InLoop, Written, data, history
  <2> QED BY <2>1, PositionSame
<1>5. CASE Crash
  BY <1>5 DEF Crash, PositionInv, Configured
<1>6. CASE Read
  <2>1. /\ UNCHANGED <<life, call, feedback, asked>> /\ call = "none"
        /\ positions' = [n \in Node |-> feedback[n].position] /\ life = "active"
    BY <1>6 DEF Read, InLoop, EnabledInv
  <2> QED BY <2>1 DEF PositionInv, Configured, Own, asked
<1>7. CASE Update
  <2>1. /\ UNCHANGED <<life, call, feedback, positions, start, heard>> /\ call = "none"
    BY <1>7 DEF Update, InLoop, history
  <2>2. \A n \in Node : given[n] \subseteq given'[n]
    <3>1. given \in [Node -> SUBSET Place]
      BY DEF TypeOK
    <3> QED BY <1>7, <3>1 DEF Update, Command
  <2>3. life = "active" /\ steered' = "no" => \A n \in Node : given'[n] \subseteq {start[n]}
    <3>1. given \in [Node -> SUBSET Place]
      BY DEF TypeOK
    <3>2. CASE UNCHANGED <<given, steered>>
      BY <3>2 DEF PositionInv
    <3>3. ASSUME NEW m \in Node, heard = "yes", Command(m, positions[m]), UNCHANGED steered,
                 steered = "no", life = "active"
          PROVE  \A n \in Node : given'[n] \subseteq {start[n]}
      <4>1. positions[m] = start[m] /\ \A n \in Node : given[n] \subseteq {start[n]}
        BY <2>1, <3>3 DEF PositionInv, Own
      <4>2. given' = [given EXCEPT ![m] = @ \union {positions[m]}]
        BY <3>3 DEF Command
      <4> QED BY <3>1, <4>1, <4>2
    <3> QED BY <1>7, <3>2, <3>3 DEF Update
  <2> QED BY <2>1, <2>2, <2>3 DEF PositionInv, Configured, Own
<1>8. CASE Deliver
  BY <1>8, PositionSame DEF Deliver, program, data, history
<1>9. ASSUME NEW n \in Node, Receive(n)
       PROVE  PositionInv'
  <2>1. UNCHANGED <<life, call, node, positions, asked, heard>>
    BY <1>9 DEF Receive, program, data
  <2>2. /\ out[n] \in Seq(Motion \union Status) /\ out[n] # <<>>
        /\ feedback \in [Node -> MotorFeedback]
        /\ feedback' = [feedback EXCEPT ![n] = Stored(@, Head(out[n]))]
    BY <1>9 DEF Receive, TypeOK
  <2>3. /\ Head(out[n]) \in Motion \union Status /\ Head(out[n]) = out[n][1]
        /\ 1 \in 1..Len(out[n])
    BY <2>2, HeadTail
  <2>4. feedback[n].position \in Own(n) => feedback'[n].position \in Own(n)
    <3>1. feedback'[n].position \in {feedback[n].position, out[n][1].value}
          /\ (out[n][1].kind # "motion" => feedback'[n].position = feedback[n].position)
      BY <2>2, <2>3, StoredIs
    <3> QED BY <2>3, <3>1 DEF CommandInv
  <2>5. \A m \in Node : feedback[m].position \in Own(m) => feedback'[m].position \in Own(m)
    BY <2>2, <2>4
  <2> QED BY <2>1, <2>5 DEF PositionInv, Configured, Own, asked
<1>10. ASSUME NEW n \in Node,
              Unheard(n) \/ Fault(n) \/ Reboot(n) \/ LoseFrame(n) \/ LoseTpdo(n)
       PROVE  PositionInv'
  <2>1. UNCHANGED <<program, feedback, positions, asked, heard>>
    BY <1>10 DEF Unheard, Fault, Reboot, LoseFrame, LoseTpdo, data, history
  <2> QED BY <2>1, PositionSame DEF program
<1>11. CASE UNCHANGED vars
  BY <1>11, PositionSame DEF vars, program, data, history
<1> QED
  BY <1>1, <1>2, <1>3, <1>4, <1>5, <1>6, <1>7, <1>8, <1>9, <1>10, <1>11
     DEF Next, Activating, Stopping, Cycle

LEMMA PositionInit == Init => PositionInv
BY DEF Init, PositionInv, Configured

\* As long as controllers only hold joints where the state interfaces say they
\* are, every drive keeps the target it was enabled with.
THEOREM HoldIsStillAlways == Spec => []HoldIsStill
<1>1. TypeOK /\ CommandInv /\ PositionInv => HoldIsStill
  BY DEF CommandInv, PositionInv, Own, HoldIsStill
<1> QED
  BY <1>1, EnabledInit, EnabledStep, CommandInit, CommandStep, PositionInit, PositionStep,
     TypeCorrect, PTL DEF Spec

-----------------------------------------------------------------------------
(* Faults.                                                                  *)

\* While an activation is under way, process data comes only from drives that
\* owed it; a drive that has been configured owes none.  So a fault is reported
\* only for the former, and one on its way is of this activation.
FaultInv ==
  /\ call = "activate" => \A n \in Node \ owing :
       /\ out[n] = <<>> /\ feedback[n].status # "fault"
       /\ \A i \in 1..Len(tx) : tx[i].kind # "sync"
  /\ \A n \in Node \ upset : Configured(n) =>
       /\ drive[n].mode # "fault"
       /\ \A i \in 1..Len(out[n]) : out[n][i].kind = "status" => out[n][i].value # "fault"
  /\ life = "active" => \A n \in Node \ (upset \union owing) : feedback[n].status # "fault"

\* Nothing but frames go.
LEMMA FaultLess ==
  ASSUME FaultInv, UNCHANGED <<life, call, node, feedback, owing>>, upset \subseteq upset',
         \A n \in Node \ upset' : drive'[n].mode \in {drive[n].mode, "off", "enabled"},
         \A i \in 1..Len(tx') : \E j \in 1..Len(tx) : tx'[i] = tx[j],
         \A n \in Node : \A i \in 1..Len(out'[n]) :
           \E j \in 1..Len(out[n]) : out'[n][i] = out[n][j],
         \A n \in Node : out[n] = <<>> => out'[n] = <<>>
  PROVE  FaultInv'
<1>1. call' = "activate" => \A n \in Node \ owing' :
        /\ out'[n] = <<>> /\ feedback'[n].status # "fault"
        /\ \A i \in 1..Len(tx') : tx'[i].kind # "sync"
  BY DEF FaultInv
<1>2. \A n \in Node \ upset' : Configured(n)' =>
        /\ drive'[n].mode # "fault"
        /\ \A i \in 1..Len(out'[n]) : out'[n][i].kind = "status" => out'[n][i].value # "fault"
  BY DEF FaultInv, Configured
<1>3. life' = "active" => \A n \in Node \ (upset' \union owing') : feedback'[n].status # "fault"
  BY DEF FaultInv
<1> QED BY <1>1, <1>2, <1>3 DEF FaultInv

LEMMA FaultStep == TypeOK /\ EnabledInv /\ FaultInv /\ [Next]_vars => FaultInv'
<1> SUFFICES ASSUME TypeOK, EnabledInv, FaultInv, [Next]_vars
             PROVE  FaultInv'
  OBVIOUS
<1>1. CASE Open
  <2>1. /\ owing' = Owing /\ feedback' = NoFeedback /\ node' = 1 /\ call' = "activate"
        /\ life' = "inactive" /\ UNCHANGED <<tx, out>>
    BY <1>1 DEF Open, bus
  <2>2. \A n \in Node : feedback'[n].status = "none" /\ ~(n < 1)
    BY <2>1 DEF NoFeedback, Node
  <2>3. ASSUME NEW n \in Node \ Owing
        PROVE  out[n] = <<>> /\ \A i \in 1..Len(tx) : tx[i].kind # "sync"
    <3>1. Index("sync", 0) = {} /\ out[n] = <<>>
      BY <2>3 DEF Owing
    <3>2. \A i \in 1..Len(tx) : tx[i].kind = "sync" => tx[i].node = 0
      <4> TAKE i \in 1..Len(tx)
      <4>1. tx[i] \in Frame
        BY DEF TypeOK
      <4> QED BY <4>1, FrameIs
    <3> QED BY <3>1, <3>2 DEF Index
  <2> QED BY <2>1, <2>2, <2>3 DEF FaultInv, Configured
<1>2. CASE OpenFails \/ ConfigureFails \/ Crash
  <2>1. life' # "active" /\ call' # "activate"
    BY <1>2 DEF OpenFails, ConfigureFails, Crash, EnabledInv
  <2> QED BY <2>1 DEF FaultInv, Configured
<1>3. CASE ConfigureNode
  <2>1. /\ node \in Node /\ call = "activate" /\ node' = node + 1
        /\ UNCHANGED <<life, call, tx, out, owing>> /\ life # "active"
        /\ tx = <<>> /\ out[node] = <<>> /\ upset' = upset \ {node}
    BY <1>3 DEF ConfigureNode, Enable, Answered, EnabledInv, TypeOK, Node
  <2>2. PICK p \in Resting(node) : /\ drive' = [drive EXCEPT ![node] = AtRest(p)]
                                   /\ feedback' = [feedback EXCEPT ![node].position = p]
    BY <1>3 DEF ConfigureNode, Enable
  <2>3. \A n \in Node : feedback'[n].status = feedback[n].status
    BY <2>2 DEF TypeOK, MotorFeedback
  <2>4. \A n \in Node \ upset' : Configured(n)' =>
          /\ drive'[n].mode # "fault"
          /\ \A i \in 1..Len(out'[n]) : out'[n][i].kind = "status" => out'[n][i].value # "fault"
    <3> TAKE n \in Node \ upset'
    <3>1. CASE n = node
      <4>1. Len(out'[n]) = 0 /\ drive'[n] = AtRest(p)
        BY <2>1, <2>2, <3>1 DEF TypeOK
      <4> QED BY <4>1 DEF AtRest
    <3>2. CASE n # node
      <4>1. drive'[n] = drive[n] /\ n \notin upset /\ out'[n] = out[n]
        BY <2>1, <2>2, <3>2 DEF TypeOK
      <4>2. n < node + 1 => n < node
        BY <2>1, <3>2 DEF Node
      <4> QED BY <2>1, <4>1, <4>2 DEF FaultInv, Configured
    <3> QED BY <3>1, <3>2
  <2> QED BY <2>1, <2>3, <2>4 DEF FaultInv
<1>4. CASE Activate
  <2>1. /\ call = "activate" /\ node > N /\ node \in Nat /\ call' # "activate"
        /\ UNCHANGED <<feedback, out, drive, upset, owing>>
    BY <1>4 DEF Activate, bus, TypeOK
  <2>2. \A n \in Node : n < node
    BY <2>1, CyclicAssumption DEF Node
  <2> QED BY <2>1, <2>2 DEF FaultInv, Configured
<1>5. CASE \/ Stop \/ Disarm \/ Close \/ Read \/ ReadFails \/ Update \/ Write
           \/ WriteFails \/ SendTarget \/ SendSync
  <2>1. /\ UNCHANGED <<feedback, out, drive, upset, owing>> /\ call' # "activate"
        /\ life' = "active" => life = "active"
    BY <1>5 DEF Stop, Disarm, Close, Read, ReadFails, Update, Write, WriteFails,
                SendTarget, SendSync, InLoop, Written, bus, history
  <2> QED BY <2>1 DEF FaultInv, Configured
<1>6. CASE Deliver
  <2> DEFINE f == Head(tx)
  <2>1. /\ UNCHANGED <<life, call, node, feedback, upset, owing>> /\ f \in Frame
        /\ tx # <<>> /\ tx' = Tail(tx) /\ tx \in Seq(Frame) /\ f = tx[1] /\ 1 \in 1..Len(tx)
    BY <1>6, HeadTail DEF Deliver, program, history, TypeOK
  <2>2. \A i \in 1..Len(tx') : \E j \in 1..Len(tx) : tx'[i] = tx[j]
    BY <2>1, TailLess
  <2>3. \/ f.kind = "target" /\ Pend(f)
        \/ f.kind = "disarm" /\ Off(f)
        \/ f.kind = "sync" /\ Latch
    BY <1>6 DEF Deliver
  <2> HIDE DEF f
  <2>4. CASE f.kind = "target" /\ Pend(f)
    <3>1. \A n \in Node : drive'[n].mode = drive[n].mode
      BY <2>1, <2>4, FrameIs DEF Pend, TypeOK, Drive
    <3>2. out' = out
      BY <2>4 DEF Pend
    <3> QED BY <2>1, <2>2, <3>1, <3>2, FaultLess
  <2>5. CASE f.kind = "disarm" /\ Off(f)
    <3>1. \A n \in Node : drive'[n].mode \in {"off", drive[n].mode}
      BY <2>1, <2>5, FrameIs DEF Off, TypeOK, Drive
    <3>2. out' = out
      BY <2>5 DEF Off
    <3> QED BY <2>1, <2>2, <3>1, <3>2, FaultLess
  <2>6. CASE f.kind = "sync" /\ Latch
    <3>1. call = "activate" => \A n \in Node : n \in owing /\ ~(n < node)
      <4>1. call = "activate" => ~(node > 1) /\ node \in Nat
        BY <2>1 DEF EnabledInv, TypeOK
      <4> QED BY <2>1, <2>6, <4>1 DEF FaultInv, Node
    <3> QED BY <2>1, <2>6, <3>1, LatchIs DEF FaultInv, Configured
  <2> QED BY <2>3, <2>4, <2>5, <2>6
<1>7. ASSUME NEW n \in Node, Receive(n)
      PROVE  FaultInv'
  <2>1. /\ UNCHANGED <<life, call, node, tx, drive, upset>>
        /\ owing' \in {owing, owing \ {n}}
        /\ call = "activate" => owing' = owing
    BY <1>7 DEF Receive, program
  <2>2. /\ out[n] \in Seq(Motion \union Status) /\ out[n] # <<>>
        /\ feedback \in [Node -> MotorFeedback]
        /\ feedback' = [feedback EXCEPT ![n] = Stored(@, Head(out[n]))]
        /\ out' = [out EXCEPT ![n] = Tail(@)] /\ out \in [Node -> Seq(Motion \union Status)]
        /\ life = "active" => owing' = IF Head(out[n]).kind = "status" THEN owing \ {n} ELSE owing
    BY <1>7 DEF Receive, EnabledInv, TypeOK
  <2>3. /\ Head(out[n]) \in Motion \union Status /\ Head(out[n]) = out[n][1]
        /\ 1 \in 1..Len(out[n])
    BY <2>2, HeadTail
  <2>4. /\ \A m \in Node \ {n} : feedback'[m] = feedback[m] /\ out'[m] = out[m]
        /\ feedback'[n].status = IF out[n][1].kind = "status" THEN out[n][1].value
                                 ELSE feedback[n].status
    BY <2>2, <2>3, StoredIs
  <2>5. call = "activate" => n \in owing
    BY <2>2 DEF FaultInv
  <2>6. life = "active" => \A m \in Node \ (upset \union owing') : feedback'[m].status # "fault"
    <3> SUFFICES ASSUME life = "active", NEW m \in Node \ (upset \union owing')
                 PROVE  feedback'[m].status # "fault"
      OBVIOUS
    <3>1. CASE m # n
      BY <2>1, <2>4, <3>1 DEF FaultInv
    <3>2. CASE m = n
      BY <2>2, <2>3, <2>4, <3>2 DEF FaultInv, Configured
    <3> QED BY <3>1, <3>2
  <2>7. \A m \in Node : \A i \in 1..Len(out'[m]) :
          \E j \in 1..Len(out[m]) : out'[m][i] = out[m][j]
    BY <1>7, TpdoTaken
  <2>8. \A m \in Node \ upset : Configured(m)' =>
          /\ drive'[m].mode # "fault"
          /\ \A i \in 1..Len(out'[m]) : out'[m][i].kind = "status" => out'[m][i].value # "fault"
    BY <2>1, <2>7 DEF FaultInv, Configured
  <2> QED BY <2>1, <2>4, <2>5, <2>6, <2>8 DEF FaultInv
<1>8. ASSUME NEW n \in Node, Unheard(n) \/ LoseTpdo(n)
      PROVE  FaultInv'
  <2>1. /\ UNCHANGED <<life, call, node, feedback, drive, tx, owing>> /\ upset \subseteq upset'
        /\ out[n] # <<>> /\ out' = [out EXCEPT ![n] = Tail(@)]
    BY <1>8 DEF Unheard, LoseTpdo, Disturb, program, history
  <2>2. \A m \in Node : \A i \in 1..Len(out'[m]) :
          \E j \in 1..Len(out[m]) : out'[m][i] = out[m][j]
    BY <1>8, TpdoTaken
  <2>3. \A m \in Node : out[m] = <<>> => out'[m] = <<>>
    BY <2>1 DEF TypeOK
  <2> QED BY <2>1, <2>2, <2>3, FaultLess
<1>9. ASSUME NEW n \in Node, Fault(n) \/ Reboot(n)
      PROVE  FaultInv'
  <2>1. UNCHANGED <<life, call, node, feedback, tx, out, owing>> /\ upset' = upset \union {n}
    BY <1>9 DEF Fault, Reboot, Disturb, program
  <2>2. \A m \in Node \ {n} : drive'[m] = drive[m]
    BY <1>9 DEF Fault, Reboot, TypeOK
  <2> QED BY <2>1, <2>2, FaultLess
<1>10. ASSUME NEW n \in Node, LoseFrame(n)
       PROVE  FaultInv'
  <2>1. /\ UNCHANGED <<life, call, node, feedback, out, drive, owing>>
        /\ upset' = upset \union {n}
    BY <1>10 DEF LoseFrame, Disturb, program
  <2>2. \A i \in 1..Len(tx') : \E j \in 1..Len(tx) : tx'[i] = tx[j]
    BY <1>10, TailLess DEF LoseFrame, TypeOK
  <2> QED BY <2>1, <2>2, FaultLess
<1>11. CASE UNCHANGED vars
  BY <1>11, FaultLess DEF vars, program, bus, history
<1> QED
  BY <1>1, <1>2, <1>3, <1>4, <1>5, <1>6, <1>7, <1>8, <1>9, <1>10, <1>11
     DEF Next, Activating, Stopping, Cycle

LEMMA FaultInit == Init => FaultInv
BY DEF Init, FaultInv, Configured, NoFeedback

\* A position read() reports is one of this activation, and so is a fault, except
\* of a drive that owed process data when the socket was opened and has answered
\* no SYNC since.
THEOREM FeedbackIsOfNowAlways == Spec => []FeedbackIsOfNow
<1>1. PositionInv /\ FaultInv => FeedbackIsOfNow
  BY DEF PositionInv, FaultInv, Configured, Own, FeedbackIsOfNow
<1> QED
  BY <1>1, EnabledInit, EnabledStep, CommandInit, CommandStep, PositionInit, PositionStep,
     FaultInit, FaultStep, TypeCorrect, PTL DEF Spec
-----------------------------------------------------------------------------
(* The target a drive settles on.                                           *)

LEMMA HighestIs ==
  ASSUME NEW L \in Nat, NEW S \in SUBSET (1..L), S # {}
  PROVE  Highest(S) \in S /\ \A j \in S : j <= Highest(S)
<1>1. \E i \in S : \A j \in S : j <= i
  BY GreatestExists
<1> QED BY <1>1 DEF Highest

LEMMA HighestUnique ==
  ASSUME NEW L \in Nat, NEW S \in SUBSET (1..L), NEW i \in S, \A j \in S : j <= i
  PROVE  Highest(S) = i
<1>1. Highest(S) \in S /\ \A j \in S : j <= Highest(S)
  BY HighestIs
<1> DEFINE h == Highest(S)
<1> HIDE DEF h
<1>2. h \in S /\ i <= h /\ h <= i
  BY <1>1 DEF h
<1>3. \A j \in S : j \in Nat
  OBVIOUS
<1>4. h = i
  BY <1>2, <1>3
<1> QED BY <1>4 DEF h

\* Index, and what is settled, of any queue q and drive d.
Places(q, kind, n) == { i \in 1..Len(q) : q[i].kind = kind /\ q[i].node = n }
Due(q, n) == { i \in Places(q, "target", n) : \E j \in Places(q, "sync", 0) : i < j }

SettledIn(q, d, n) ==
  IF Places(q, "sync", 0) = {} THEN d.target
  ELSE IF Due(q, n) = {} THEN Latched(d).target
  ELSE q[Highest(Due(q, n))].value

\* The target drive n has once all of queue q and one SYNC more are delivered.
FinalIn(q, d, n) ==
  IF Places(q, "target", n) = {} THEN Latched(d).target
  ELSE q[Highest(Places(q, "target", n))].value

LEMMA SettledIs ==
  ASSUME NEW n \in Node
  PROVE  /\ Settled(n) = SettledIn(tx, drive[n], n)
         /\ Settled(n)' = SettledIn(tx', drive'[n], n)
BY DEF Settled, SettledIn, Index, Places, Due

LEMMA PlacesType ==
  ASSUME NEW q \in Seq(Frame), NEW kind, NEW n
  PROVE  /\ Len(q) \in Nat
         /\ Places(q, kind, n) \in SUBSET (1..Len(q))
         /\ Due(q, n) \in SUBSET (1..Len(q))
         /\ Due(q, n) \subseteq Places(q, "target", n)
BY DEF Places, Due

\* Positions in a queue that lost its head.
LEMMA Shift ==
  ASSUME NEW q \in Seq(Frame), q # <<>>,
         NEW S \in SUBSET (1..Len(q)), NEW T \in SUBSET (1..Len(Tail(q))),
         \A i \in 1..Len(Tail(q)) : i \in T <=> i + 1 \in S
  PROVE  /\ T # {} => S # {} /\ q[Highest(S)] = Tail(q)[Highest(T)]
         /\ T = {} => S \subseteq {1}
         /\ T = {} /\ 1 \in S => S # {} /\ Highest(S) = 1
<1> DEFINE r == Tail(q)
<1>1. /\ Len(q) \in Nat \ {0} /\ Len(r) = Len(q) - 1
      /\ \A i \in 1..Len(r) : r[i] = q[i + 1]
  BY HeadTail
<1>2. \A j \in S : j = 1 \/ j - 1 \in T
  <2> TAKE j \in S
  <2>1. j = 1 \/ (j - 1 \in 1..Len(r) /\ (j - 1) + 1 = j)
    BY <1>1
  <2> QED BY <2>1
<1> HIDE DEF r
<1>3. T # {} => S # {} /\ q[Highest(S)] = r[Highest(T)]
  <2> SUFFICES ASSUME T # {}
               PROVE  S # {} /\ q[Highest(S)] = r[Highest(T)]
    OBVIOUS
  <2> DEFINE k == Highest(T)
  <2>1. k \in T /\ \A j \in T : j <= k
    <3>1. Len(r) \in Nat /\ T \in SUBSET (1..Len(r))
      BY <1>1 DEF r
    <3> QED BY <3>1, HighestIs
  <2>2. k \in 1..Len(r) /\ k + 1 \in S
    BY <2>1 DEF r
  <2> HIDE DEF k
  <2>3. \A j \in S : j <= k + 1
    <3> TAKE j \in S
    <3>1. CASE j = 1
      BY <2>2, <3>1
    <3>2. CASE j - 1 \in T
      BY <1>1, <2>1, <2>2, <3>2
    <3> QED BY <1>2, <3>1, <3>2
  <2>4. Highest(S) = k + 1
    BY <1>1, <2>2, <2>3, HighestUnique
  <2> QED BY <1>1, <2>2, <2>4 DEF k
<1>4. T = {} => S \subseteq {1}
  BY <1>2
<1>5. T = {} /\ 1 \in S => S # {} /\ Highest(S) = 1
  <2> SUFFICES ASSUME T = {}, 1 \in S
               PROVE  Highest(S) = 1
    OBVIOUS
  <2>1. \A j \in S : j <= 1
    BY <1>4
  <2> QED BY <1>1, <2>1, HighestUnique
<1> QED BY <1>3, <1>4, <1>5 DEF r

LEMMA PlacesShift ==
  ASSUME NEW q \in Seq(Frame), q # <<>>, NEW n
  PROVE  /\ \A kind : \A i \in 1..Len(Tail(q)) :
              i \in Places(Tail(q), kind, n) <=> i + 1 \in Places(q, kind, n)
         /\ \A i \in 1..Len(Tail(q)) : i \in Due(Tail(q), n) <=> i + 1 \in Due(q, n)
<1> DEFINE r == Tail(q)
<1>1. /\ Len(q) \in Nat \ {0} /\ Len(r) = Len(q) - 1
      /\ \A i \in 1..Len(r) : r[i] = q[i + 1]
  BY HeadTail
<1> HIDE DEF r
<1>2. \A kind, m : \A i \in 1..Len(r) : i \in Places(r, kind, m) <=> i + 1 \in Places(q, kind, m)
  BY <1>1 DEF Places
<1>3. ASSUME NEW i \in 1..Len(r)
      PROVE  (\E j \in Places(r, "sync", 0) : i < j) <=> (\E j \in Places(q, "sync", 0) : i + 1 < j)
  <2>1. ASSUME NEW j \in Places(r, "sync", 0), i < j
        PROVE  \E k \in Places(q, "sync", 0) : i + 1 < k
    <3>1. j \in 1..Len(r)
      BY DEF Places
    <3>2. j + 1 \in Places(q, "sync", 0) /\ i + 1 < j + 1
      BY <1>1, <1>2, <2>1, <3>1
    <3> QED BY <3>2
  <2>2. ASSUME NEW j \in Places(q, "sync", 0), i + 1 < j
        PROVE  \E k \in Places(r, "sync", 0) : i < k
    <3>1. j \in 1..Len(q)
      BY DEF Places
    <3>2. j - 1 \in 1..Len(r) /\ (j - 1) + 1 = j /\ i < j - 1
      BY <1>1, <2>2, <3>1
    <3>3. j - 1 \in Places(r, "sync", 0)
      BY <1>2, <3>2
    <3> QED BY <3>2, <3>3
  <2> QED BY <2>1, <2>2
<1>4. \A i \in 1..Len(r) : i \in Due(r, n) <=> i + 1 \in Due(q, n)
  BY <1>2, <1>3 DEF Due
<1> QED BY <1>2, <1>4 DEF r

\* The head of the queue reaches the bus: d is what the drive was and e what it
\* becomes.
LEMMA SettledAfterHead ==
  ASSUME NEW q \in Seq(Frame), q # <<>>, NEW n \in Node, NEW d \in Drive, NEW e \in Drive,
         \/ /\ q[1].kind = "target" /\ q[1].node = n
            /\ e = [d EXCEPT !.pending = q[1].value]
         \/ /\ q[1].kind # "sync" /\ ~(q[1].kind = "target" /\ q[1].node = n)
            /\ e = d
         \/ /\ q[1].kind = "sync"
            /\ e.target = Latched(d).target /\ e.pending = NaN
  PROVE  /\ SettledIn(Tail(q), e, n) = SettledIn(q, d, n)
         /\ FinalIn(Tail(q), e, n) = FinalIn(q, d, n)
<1> DEFINE r == Tail(q)
           S == Places(q, "target", n)
           T == Places(r, "target", n)
           Y == Places(q, "sync", 0)
           Z == Places(r, "sync", 0)
           D == Due(q, n)
           E == Due(r, n)
<1>1. /\ Len(q) \in Nat \ {0} /\ q[1] \in Frame /\ r \in Seq(Frame)
      /\ \A i \in 1..Len(r) : r[i] = q[i + 1]
  BY HeadTail
<1>2. /\ S \in SUBSET (1..Len(q)) /\ D \in SUBSET (1..Len(q)) /\ Y \in SUBSET (1..Len(q))
      /\ T \in SUBSET (1..Len(r)) /\ E \in SUBSET (1..Len(r)) /\ Z \in SUBSET (1..Len(r))
      /\ D \subseteq S
  BY <1>1, PlacesType
<1>3. /\ \A i \in 1..Len(r) : i \in T <=> i + 1 \in S
      /\ \A i \in 1..Len(r) : i \in E <=> i + 1 \in D
      /\ \A i \in 1..Len(r) : i \in Z <=> i + 1 \in Y
  BY PlacesShift
<1>4. /\ 1 \in S <=> q[1].kind = "target" /\ q[1].node = n
      /\ 1 \in Y <=> q[1].kind = "sync"
  BY <1>1, FrameIs DEF Places
<1>5. 1 \in D <=> 1 \in S /\ \E j \in Y : 1 < j
  BY DEF Due
<1>6. \A i \in D : \E j \in Y : i < j
  BY DEF Due
<1>7. /\ SettledIn(q, d, n) = IF Y = {} THEN d.target
                              ELSE IF D = {} THEN Latched(d).target ELSE q[Highest(D)].value
      /\ SettledIn(r, e, n) = IF Z = {} THEN e.target
                              ELSE IF E = {} THEN Latched(e).target ELSE r[Highest(E)].value
      /\ FinalIn(q, d, n) = IF S = {} THEN Latched(d).target ELSE q[Highest(S)].value
      /\ FinalIn(r, e, n) = IF T = {} THEN Latched(e).target ELSE r[Highest(T)].value
  BY DEF SettledIn, FinalIn
<1> HIDE DEF S, T, Y, Z, D, E
<1>8. /\ T # {} => S # {} /\ q[Highest(S)] = r[Highest(T)]
      /\ T = {} => S \subseteq {1}
      /\ T = {} /\ 1 \in S => S # {} /\ Highest(S) = 1
  <2>1. \A i \in 1..Len(Tail(q)) : i \in T <=> i + 1 \in S
    BY <1>3
  <2>2. S \in SUBSET (1..Len(q)) /\ T \in SUBSET (1..Len(Tail(q)))
    BY <1>2
  <2>3. T # {} => S # {} /\ q[Highest(S)] = r[Highest(T)]
    BY <2>1, <2>2, Shift
  <2>4. T = {} => S \subseteq {1}
    BY <2>1, <2>2, Shift
  <2>5. T = {} /\ 1 \in S => S # {} /\ Highest(S) = 1
    BY <2>1, <2>2, Shift
  <2> QED BY <2>3, <2>4, <2>5
<1>9. /\ E # {} => D # {} /\ q[Highest(D)] = r[Highest(E)]
      /\ E = {} => D \subseteq {1}
      /\ E = {} /\ 1 \in D => D # {} /\ Highest(D) = 1
  <2>1. \A i \in 1..Len(Tail(q)) : i \in E <=> i + 1 \in D
    BY <1>3
  <2>2. D \in SUBSET (1..Len(q)) /\ E \in SUBSET (1..Len(Tail(q)))
    BY <1>2
  <2>3. E # {} => D # {} /\ q[Highest(D)] = r[Highest(E)]
    BY <2>1, <2>2, Shift
  <2>4. E = {} => D \subseteq {1}
    BY <2>1, <2>2, Shift
  <2>5. E = {} /\ 1 \in D => D # {} /\ Highest(D) = 1
    BY <2>1, <2>2, Shift
  <2> QED BY <2>3, <2>4, <2>5
<1>10. /\ Z # {} => Y # {}
       /\ Z = {} => Y \subseteq {1}
  BY <1>2, <1>3, Shift
<1>11. Z # {} => \E j \in Y : 1 < j
  <2> SUFFICES ASSUME NEW k \in Z
               PROVE  \E j \in Y : 1 < j
    OBVIOUS
  <2>1. k \in 1..Len(r) /\ k + 1 \in Y
    BY <1>2, <1>3
  <2> QED BY <2>1
<1> HIDE DEF r
<1>12. CASE /\ q[1].kind = "target" /\ q[1].node = n
            /\ e = [d EXCEPT !.pending = q[1].value]
  <2>1. q[1].value \in Place
    BY <1>1, <1>12, FrameIs
  <2>2. e.target = d.target /\ Latched(e).target = q[1].value
    BY <1>12, <2>1, LatchedIs, PlaceIs DEF Drive
  <2>3. 1 \in S /\ 1 \notin Y
    BY <1>4, <1>12
  <2>4. Z = {} => Y = {}
    BY <1>10, <2>3
  <2>5. FinalIn(r, e, n) = FinalIn(q, d, n)
    BY <1>7, <1>8, <2>2, <2>3
  <2>6. SettledIn(r, e, n) = SettledIn(q, d, n)
    BY <1>5, <1>7, <1>9, <1>10, <1>11, <2>2, <2>3, <2>4
  <2> QED BY <2>5, <2>6 DEF r
<1>13. CASE /\ q[1].kind # "sync" /\ ~(q[1].kind = "target" /\ q[1].node = n)
            /\ e = d
  <2>1. 1 \notin S /\ 1 \notin Y /\ 1 \notin D
    BY <1>2, <1>4, <1>13
  <2>2. (Z = {} => Y = {}) /\ (T = {} => S = {}) /\ (E = {} => D = {})
    BY <1>8, <1>9, <1>10, <2>1
  <2>3. FinalIn(r, e, n) = FinalIn(q, d, n)
    BY <1>7, <1>8, <1>13, <2>2
  <2>4. SettledIn(r, e, n) = SettledIn(q, d, n)
    BY <1>7, <1>9, <1>10, <1>13, <2>2
  <2> QED BY <2>3, <2>4 DEF r
<1>14. CASE /\ q[1].kind = "sync"
            /\ e.target = Latched(d).target /\ e.pending = NaN
  <2>1. 1 \notin S /\ 1 \in Y /\ 1 \notin D
    BY <1>2, <1>4, <1>14
  <2>2. (T = {} => S = {}) /\ (E = {} => D = {})
    BY <1>8, <1>9, <2>1
  <2>3. Latched(e).target = Latched(d).target
    BY <1>14, LatchedIs
  <2>4. Z = {} => D = {}
    <3> SUFFICES ASSUME Z = {}, NEW i \in D
                 PROVE  FALSE
      OBVIOUS
    <3>1. Y \subseteq {1} /\ i \in 1..Len(q)
      BY <1>2, <1>10
    <3> QED BY <1>6, <3>1
  <2>5. FinalIn(r, e, n) = FinalIn(q, d, n)
    BY <1>7, <1>8, <2>2, <2>3
  <2>6. SettledIn(r, e, n) = SettledIn(q, d, n)
    BY <1>7, <1>9, <1>14, <2>1, <2>2, <2>3, <2>4
  <2> QED BY <2>5, <2>6 DEF r
<1> QED BY <1>12, <1>13, <1>14

\* A target is sent.
LEMMA FinalAfterTarget ==
  ASSUME NEW q \in Seq(Frame), NEW n \in Node, NEW p \in Place, NEW m \in Node, NEW d
  PROVE  FinalIn(Append(q, TargetPositionFrame(n, p)), d, m)
           = IF m = n THEN p ELSE FinalIn(q, d, m)
<1> DEFINE f == TargetPositionFrame(n, p)
           r == Append(q, f)
<1> SUFFICES FinalIn(r, d, m) = IF m = n THEN p ELSE FinalIn(q, d, m)
  OBVIOUS
<1>1. f \in Frame /\ f.kind = "target" /\ f.node = n /\ f.value = p
  BY FrameType DEF TargetPositionFrame
<1> HIDE DEF f
<1>2. /\ r \in Seq(Frame) /\ Len(q) \in Nat /\ Len(r) = Len(q) + 1
      /\ r[Len(q) + 1] = f /\ \A i \in 1..Len(q) : r[i] = q[i]
  BY <1>1, AppendAdds
<1> HIDE DEF r
<1>3. CASE m = n
  <2>1. /\ Len(q) + 1 \in Places(r, "target", m)
        /\ \A j \in Places(r, "target", m) : j <= Len(q) + 1
    BY <1>1, <1>2, <1>3 DEF Places
  <2>2. Highest(Places(r, "target", m)) = Len(q) + 1
    BY <1>2, <2>1, PlacesType, HighestUnique
  <2> QED BY <1>1, <1>2, <1>3, <2>1, <2>2 DEF FinalIn
<1>4. CASE m # n
  <2>1. Places(r, "target", m) = Places(q, "target", m)
    <3>1. \A i \in 1..Len(r) : i \in 1..Len(q) \/ i = Len(q) + 1
      BY <1>2
    <3>2. \A i \in 1..Len(q) : i \in 1..Len(r)
      BY <1>2
    <3> QED BY <1>1, <1>2, <1>4, <3>1, <3>2 DEF Places
  <2>2. CASE Places(q, "target", m) = {}
    BY <1>4, <2>1, <2>2 DEF FinalIn
  <2>3. CASE Places(q, "target", m) # {}
    <3>1. Highest(Places(q, "target", m)) \in 1..Len(q)
      <4>1. Places(q, "target", m) \in SUBSET (1..Len(q))
        BY PlacesType
      <4> QED BY <1>2, <2>3, <4>1, HighestIs
    <3> QED BY <1>2, <1>4, <2>1, <2>3, <3>1 DEF FinalIn
  <2> QED BY <2>2, <2>3
<1> QED BY <1>3, <1>4

\* A SYNC is sent: all targets sent before it are due.
LEMMA SettledAfterSync ==
  ASSUME NEW q \in Seq(Frame), NEW n \in Node, NEW d
  PROVE  SettledIn(Append(q, SyncFrame), d, n) = FinalIn(q, d, n)
<1> DEFINE r == Append(q, SyncFrame)
<1> SUFFICES SettledIn(r, d, n) = FinalIn(q, d, n)
  OBVIOUS
<1>1. SyncFrame \in Frame /\ SyncFrame.kind = "sync" /\ SyncFrame.node = 0
  BY FrameType DEF SyncFrame
<1>2. /\ r \in Seq(Frame) /\ Len(q) \in Nat /\ Len(r) = Len(q) + 1
      /\ r[Len(q) + 1] = SyncFrame /\ \A i \in 1..Len(q) : r[i] = q[i]
  BY <1>1, AppendAdds
<1> HIDE DEF r
<1>3. Len(q) + 1 \in Places(r, "sync", 0)
  BY <1>1, <1>2 DEF Places
<1>4. Due(r, n) = Places(q, "target", n)
  <2>1. Places(r, "target", n) = Places(q, "target", n)
    <3>1. \A i \in 1..Len(r) : i \in 1..Len(q) \/ i = Len(q) + 1
      BY <1>2
    <3>2. \A i \in 1..Len(q) : i \in 1..Len(r)
      BY <1>2
    <3> QED BY <1>1, <1>2, <3>1, <3>2 DEF Places
  <2>2. \A i \in Places(q, "target", n) : i < Len(q) + 1
    BY <1>2 DEF Places
  <2> QED BY <1>3, <2>1, <2>2 DEF Due
<1>5. CASE Places(q, "target", n) = {}
  BY <1>3, <1>4, <1>5 DEF SettledIn, FinalIn
<1>6. CASE Places(q, "target", n) # {}
  <2>1. Highest(Places(q, "target", n)) \in 1..Len(q)
    <3>1. Places(q, "target", n) \in SUBSET (1..Len(q))
      BY PlacesType
    <3> QED BY <1>2, <1>6, <3>1, HighestIs
  <2> QED BY <1>2, <1>3, <1>4, <1>6, <2>1 DEF SettledIn, FinalIn
<1> QED BY <1>5, <1>6
-----------------------------------------------------------------------------
(* The arm agrees.                                                          *)

\* While write() succeeds, the drives it has come past have their command as
\* the last target on its way.
SentInv ==
  /\ call = "write" /\ result = "ok" =>
       \A n \in Node \ upset :
         n < node /\ commands[n] # NaN => FinalIn(tx, drive[n], n) = commands[n]
  /\ ArmAgrees

\* What is settled stays so while the bus delivers.
SettledKept ==
  \A n \in Node \ upset' :
    /\ SettledIn(tx', drive'[n], n) = SettledIn(tx, drive[n], n)
    /\ FinalIn(tx', drive'[n], n) = FinalIn(tx, drive[n], n)

LEMMA SentSame ==
  ASSUME SentInv, upset \subseteq upset',
         UNCHANGED <<life, call, loop, node, result, commands, written>>,
         life = "active" /\ call # "disarm" => SettledKept,
         call = "write" => life = "active"
  PROVE  SentInv'
<1>1. CASE life = "active" /\ call # "disarm"
  <2>1. SettledKept
    BY <1>1
  <2>2. call' = "write" /\ result' = "ok" =>
          \A n \in Node \ upset' : n < node' /\ commands'[n] # NaN
                                     => FinalIn(tx', drive'[n], n) = commands'[n]
    BY <2>1 DEF SentInv, SettledKept
  <2>3. ArmAgrees'
    BY <2>1, SettledIs DEF SentInv, SettledKept, ArmAgrees
  <2> QED BY <2>2, <2>3 DEF SentInv
<1>2. CASE ~(life = "active" /\ call # "disarm")
  BY <1>2 DEF SentInv, ArmAgrees
<1> QED BY <1>1, <1>2

LEMMA KeptUntouched ==
  ASSUME tx' = tx, \A n \in Node \ upset' : drive'[n] = drive[n]
  PROVE  SettledKept
BY DEF SettledKept

LEMMA KeptByDelivery ==
  ASSUME TypeOK, EnabledInv, life = "active", call # "disarm", Deliver
  PROVE  SettledKept
<1> DEFINE f == Head(tx)
<1>1. /\ tx # <<>> /\ tx' = Tail(tx) /\ tx \in Seq(Frame) /\ upset' = upset
      /\ f \in Frame /\ 1 \in 1..Len(tx) /\ f = tx[1]
  BY HeadTail DEF Deliver, history, TypeOK
<1>2. \/ f.kind = "target" /\ Pend(f)
      \/ f.kind = "disarm" /\ Off(f)
      \/ f.kind = "sync" /\ Latch
  BY DEF Deliver
<1> HIDE DEF f
<1>3. f.kind # "disarm"
  BY <1>1 DEF EnabledInv
<1> SUFFICES ASSUME NEW n \in Node \ upset
             PROVE  /\ SettledIn(tx', drive'[n], n) = SettledIn(tx, drive[n], n)
                    /\ FinalIn(tx', drive'[n], n) = FinalIn(tx, drive[n], n)
  BY <1>1 DEF SettledKept
<1>4. drive[n] \in Drive /\ drive'[n] \in Drive
  BY DeliverType DEF TypeOK
<1>5. \/ /\ tx[1].kind = "target" /\ tx[1].node = n
         /\ drive'[n] = [drive[n] EXCEPT !.pending = tx[1].value]
      \/ /\ tx[1].kind # "sync" /\ ~(tx[1].kind = "target" /\ tx[1].node = n)
         /\ drive'[n] = drive[n]
      \/ /\ tx[1].kind = "sync"
         /\ drive'[n].target = Latched(drive[n]).target /\ drive'[n].pending = NaN
  <2>1. CASE f.kind = "target" /\ Pend(f)
    <3>1. f.node \in Node
      BY <1>1, <2>1, FrameIs
    <3>2. CASE f.node = n
      <4>1. drive[n].mode # "off"
        BY DEF EnabledInv
      <4>2. drive'[n] = [drive[n] EXCEPT !.pending = f.value]
        BY <2>1, <3>2, <4>1 DEF Pend, Operational, TypeOK
      <4> QED BY <1>1, <2>1, <3>2, <4>2
    <3>3. CASE f.node # n
      <4>1. drive'[n] = drive[n]
        BY <2>1, <3>1, <3>3 DEF Pend, TypeOK
      <4> QED BY <1>1, <2>1, <3>3, <4>1
    <3> QED BY <3>2, <3>3
  <2>2. CASE f.kind = "sync" /\ Latch
    BY <1>1, <2>2, LatchIs
  <2> QED BY <1>2, <1>3, <2>1, <2>2
<1> QED BY <1>1, <1>4, <1>5, SettledAfterHead

LEMMA KeptByLoss ==
  ASSUME TypeOK, EnabledInv, life = "active", call # "disarm",
         NEW m \in Node, LoseFrame(m)
  PROVE  SettledKept
<1>1. /\ tx # <<>> /\ tx' = Tail(tx) /\ tx \in Seq(Frame) /\ drive' = drive
      /\ upset' = upset \union {m} /\ tx[1] \in Frame /\ tx[1].node = m
  BY HeadTail DEF LoseFrame, Disturb, TypeOK
<1>2. tx[1].kind # "sync"
  BY <1>1, FrameIs DEF Node
<1> SUFFICES ASSUME NEW n \in Node \ upset'
             PROVE  /\ SettledIn(tx', drive'[n], n) = SettledIn(tx, drive[n], n)
                    /\ FinalIn(tx', drive'[n], n) = FinalIn(tx, drive[n], n)
  BY DEF SettledKept
<1>3. drive[n] \in Drive /\ n # m
  BY <1>1 DEF TypeOK
<1> QED BY <1>1, <1>2, <1>3, SettledAfterHead

LEMMA SentStep ==
  TypeOK /\ EnabledInv /\ SentInv /\ [Next]_vars => SentInv'
<1> SUFFICES ASSUME TypeOK, EnabledInv, SentInv, [Next]_vars
             PROVE  SentInv'
  OBVIOUS
<1>1. CASE Activating \/ Close \/ Crash
  BY <1>1 DEF Activating, Open, OpenFails, ConfigureNode, ConfigureFails, Activate, Close,
              Crash, EnabledInv, SentInv, ArmAgrees
<1>2. CASE ReadFails \/ WriteFails
  BY <1>2 DEF ReadFails, WriteFails, InLoop, SentInv, ArmAgrees
<1>3. CASE Stop \/ Disarm
  BY <1>3 DEF Stop, Disarm, SentInv, ArmAgrees
<1>4. CASE Read \/ Update
  BY <1>4 DEF Read, Update, InLoop, SentInv, ArmAgrees
<1>5. CASE Write
  BY <1>5 DEF Write, InLoop, Node, SentInv, ArmAgrees
<1>6. CASE SendTarget
  <2>1. /\ UNCHANGED <<commands, drive, upset>>
        /\ call = "write" /\ call' = "write" /\ node' = node + 1
        /\ node \in Node /\ tx \in Seq(Frame)
    BY <1>6 DEF SendTarget, data, history, TypeOK, Node
  <2>2. ASSUME result' = "ok", NEW n \in Node \ upset, n < node + 1, commands[n] # NaN
        PROVE  FinalIn(tx', drive[n], n) = commands[n]
    <3>1. result = "ok" /\ (n < node \/ n = node)
      BY <1>6, <2>1, <2>2 DEF SendTarget, TypeOK, Node
    <3>2. CASE commands[node] = NaN
      <4>1. tx' = tx /\ n # node
        BY <1>6, <2>2, <3>2 DEF SendTarget
      <4> QED BY <2>1, <2>2, <3>1, <4>1 DEF SentInv
    <3>3. CASE commands[node] # NaN
      <4>1. tx' = Append(tx, TargetPositionFrame(node, commands[node]))
        BY <1>6, <2>2, <3>3 DEF SendTarget
      <4>2. commands[node] \in Place
        BY <2>1, <3>3 DEF TypeOK
      <4>3. FinalIn(tx', drive[n], n) = IF n = node THEN commands[node]
                                        ELSE FinalIn(tx, drive[n], n)
        BY <2>1, <4>1, <4>2, FinalAfterTarget
      <4> QED BY <2>1, <2>2, <3>1, <4>3 DEF SentInv
    <3> QED BY <3>2, <3>3
  <2> QED BY <2>1, <2>2 DEF SentInv, ArmAgrees
<1>7. CASE SendSync
  <2>1. /\ UNCHANGED <<commands, drive, upset>> /\ call = "write" /\ call' = "none"
        /\ tx \in Seq(Frame)
    BY <1>7 DEF SendSync, Written, data, TypeOK
  <2>2. CASE life' = "failed"
    BY <2>1, <2>2 DEF SentInv, ArmAgrees
  <2>3. CASE life' # "failed"
    <3>1. tx' = Append(tx, SyncFrame) /\ result = "ok"
      BY <1>7, <2>3 DEF SendSync, Written
    <3>2. ASSUME NEW n \in Node \ upset, commands[n] # NaN
          PROVE  Settled(n)' = commands[n]
      <4>1. n < node
        <5>1. node \in 1..(N + 1) /\ node > N
          BY <1>7 DEF SendSync, TypeOK
        <5>2. n \in 1..N
          BY DEF Node
        <5> QED BY <5>1, <5>2, CyclicAssumption
      <4>2. FinalIn(tx, drive[n], n) = commands[n]
        BY <2>1, <3>1, <3>2, <4>1 DEF SentInv
      <4>3. SettledIn(tx', drive'[n], n) = commands[n]
        BY <2>1, <3>1, <4>2, SettledAfterSync
      <4> QED BY <4>3, SettledIs
    <3> QED BY <2>1, <3>2 DEF SentInv, ArmAgrees
  <2> QED BY <2>2, <2>3
<1>8. CASE Deliver
  <2>1. UNCHANGED <<life, call, loop, node, result, commands, written, upset>>
    BY <1>8 DEF Deliver, program, data, history
  <2>2. life = "active" /\ call # "disarm" => SettledKept
    BY <1>8, KeptByDelivery
  <2> QED BY <2>1, <2>2, SentSame DEF EnabledInv
<1>9. ASSUME NEW n \in Node, Receive(n) \/ Unheard(n) \/ LoseTpdo(n)
      PROVE  SentInv'
  <2>1. /\ UNCHANGED <<life, call, loop, node, result, commands, written>>
        /\ UNCHANGED <<tx, drive>> /\ upset \subseteq upset'
    BY <1>9 DEF Receive, Unheard, LoseTpdo, Disturb, program, data, history
  <2> QED BY <2>1, KeptUntouched, SentSame DEF EnabledInv
<1>10. ASSUME NEW n \in Node, Fault(n) \/ Reboot(n)
       PROVE  SentInv'
  <2>1. /\ UNCHANGED <<life, call, loop, node, result, commands, written, tx>>
        /\ upset' = upset \union {n}
    BY <1>10 DEF Fault, Reboot, Disturb, program, data
  <2>2. \A m \in Node \ upset' : drive'[m] = drive[m]
    BY <1>10, <2>1 DEF Fault, Reboot, TypeOK
  <2> QED BY <2>1, <2>2, KeptUntouched, SentSame DEF EnabledInv
<1>11. ASSUME NEW n \in Node, LoseFrame(n)
       PROVE  SentInv'
  <2>1. /\ UNCHANGED <<life, call, loop, node, result, commands, written>>
        /\ upset \subseteq upset'
    BY <1>11 DEF LoseFrame, Disturb, program, data
  <2>2. life = "active" /\ call # "disarm" => SettledKept
    BY <1>11, KeptByLoss
  <2> QED BY <2>1, <2>2, SentSame DEF EnabledInv
<1>12. CASE UNCHANGED vars
  <2>1. /\ UNCHANGED <<life, call, loop, node, result, commands, written>>
        /\ UNCHANGED <<tx, drive, upset>>
    BY <1>12 DEF vars, program, data, bus, history
  <2> QED BY <2>1, KeptUntouched, SentSame DEF EnabledInv
<1> QED
  BY <1>1, <1>2, <1>3, <1>4, <1>5, <1>6, <1>7, <1>8, <1>9, <1>10, <1>11, <1>12
     DEF Next, Activating, Stopping, Cycle

LEMMA SentInit == Init => SentInv
BY DEF Init, SentInv, ArmAgrees

\* Between two cycles of an active component every commanded drive that missed
\* no frame has latched, or will, the command its joint was last given.
THEOREM ArmAgreesAlways == Spec => []ArmAgrees
<1>1. SentInv => ArmAgrees
  BY DEF SentInv
<1> QED
  BY <1>1, EnabledInit, SentInit, EnabledStep, SentStep, TypeCorrect, PTL DEF Spec
=============================================================================
