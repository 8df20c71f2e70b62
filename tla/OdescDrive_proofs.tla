-------------------------- MODULE OdescDrive_proofs --------------------------
(***************************************************************************)
(* Theorems about the drivetrain of OdescDrive, for every number of axes   *)
(* and every bound.                                                        *)
(***************************************************************************)
EXTENDS OdescDrive, QueueLemmas

-----------------------------------------------------------------------------
(* Types.                                                                   *)

LEMMA FrameType ==
  /\ AxisStateFrame("closed_loop") \in Frame
  /\ AxisStateFrame("idle") \in Frame
  /\ \A c \in 0..MaxCommands : InputVelocityFrame(c) \in Frame
BY DEF AxisStateFrame, InputVelocityFrame, Frame

LEMMA SendType ==
  ASSUME TypeOK, NEW n \in Node, NEW f \in Frame, Send(n, f)
  PROVE  tx' \in [Node -> Seq(Frame)]
BY DEF TypeOK, Send

LEMMA SendingType ==
  ASSUME TypeOK, NEW c, Sending(c)
  PROVE  node \in Node /\ node' \in 1..N+1
BY OdescAssumption DEF TypeOK, Sending, Node

LEMMA TakenType ==
  ASSUME TypeOK, NEW n \in Node, Taken(n)
  PROVE  Head(tx[n]) \in Frame /\ tx' \in [Node -> Seq(Frame)]
<1>1. tx[n] \in Seq(Frame) /\ tx[n] # <<>> /\ tx \in [Node -> Seq(Frame)]
  BY DEF TypeOK, Taken
<1>2. Head(tx[n]) \in Frame /\ Tail(tx[n]) \in Seq(Frame)
  BY <1>1, HeadTail
<1> QED BY <1>1, <1>2 DEF Taken

LEMMA ZeroType == Zero \in Motion /\ AllZero \in [Node -> Motion]
BY OdescAssumption DEF Zero, AllZero, Motion

LEMMA ObeyedType ==
  ASSUME NEW a \in Axis, NEW f \in Frame
  PROVE  Obeyed(a, f) \in Axis
BY DEF Obeyed, Axis, Frame

\* Which calls the socket is open in: a stopped component has closed it.
Orderly ==
  /\ life = "active" => socket = "open"
  /\ life \in {"inactive", "shutdown"} /\ call \in {"none", "write"}
       => socket = "closed"
  /\ call = "activate" => life = "inactive" /\ socket = "open"
  /\ call = "write" => life = "active"
  /\ socket = "closed" => rx = "none"
  /\ rx \in {"got", "storing"} => held \in Estimate

\* Type correctness is inductive together with Orderly.
THEOREM TypeCorrect == Spec => [](TypeOK /\ Orderly)
<1>1. Init => TypeOK /\ Orderly
  BY OdescAssumption, ZeroType DEF Init, TypeOK, Orderly, Booted, Axis, Node
<1>2. TypeOK /\ Orderly /\ [Next]_vars => TypeOK' /\ Orderly'
  <2> SUFFICES ASSUME TypeOK, Orderly, [Next]_vars
               PROVE  TypeOK' /\ Orderly'
    OBVIOUS
  <2> USE OdescAssumption
  <2>1. CASE Open
    <3>1. opened' \in [Node -> 0..MaxTurns]
      BY <2>1 DEF Open, TypeOK, Axis
    <3>2. rxq' \in Seq(Estimate)
      BY <2>1 DEF Open
    <3> QED BY <2>1, <3>1, <3>2, ZeroType DEF Open, TypeOK, Orderly
  <2>2. CASE OpenFails
    BY <2>2 DEF OpenFails, Mishap, thread, bus, count, history, TypeOK, Orderly
  <2>3. CASE RequestClosedLoop
    <3>1. node \in Node /\ node' \in 1..N+1 /\ call = "activate"
      BY <2>3, SendingType DEF RequestClosedLoop, Sending
    <3>2. tx' \in [Node -> Seq(Frame)]
      BY <2>3, <3>1, SendType, FrameType DEF RequestClosedLoop
    <3> QED
      BY <2>3, <3>1, <3>2
         DEF RequestClosedLoop, thread, count, history, TypeOK, Orderly
  <2>4. CASE RequestFails
    BY <2>4, SendingType
       DEF RequestFails, thread, bus, count, history, TypeOK, Orderly
  <2>5. CASE Activated
    BY <2>5, ZeroType
       DEF Activated, thread, bus, count, history, TypeOK, Orderly
  <2>6. CASE Stop
    BY <2>6 DEF Stop, thread, bus, count, history, TypeOK, Orderly
  <2>7. CASE RequestIdle
    <3>1. node \in Node /\ node' \in 1..N+1 /\ call = "idle"
      BY <2>7, SendingType DEF RequestIdle, Sending
    <3>2. tx' \in [Node -> Seq(Frame)]
      BY <2>7, <3>1, SendType, FrameType DEF RequestIdle
    <3> QED
      BY <2>7, <3>1, <3>2
         DEF RequestIdle, thread, count, history, TypeOK, Orderly
  <2>8. CASE IdleFails
    BY <2>8, SendingType
       DEF IdleFails, thread, bus, count, TypeOK, Orderly
  <2>9. CASE IdleSent
    BY <2>9 DEF IdleSent, thread, bus, count, history, TypeOK, Orderly
  <2>10. CASE Joined
    <3>1. states' \in [Node -> Motion]
      <4>1. states \in [Node -> Motion]
        BY DEF TypeOK
      <4>2. \A n \in Node : [states[n] EXCEPT !.velocity = 0] \in Motion
        BY <4>1 DEF Motion
      <4> QED BY <2>10, <4>2 DEF Joined
    <3>2. rxq' \in Seq(Estimate) /\ commands' \in 0..MaxCommands
      BY <2>10 DEF Joined
    <3>3. life' \in {"inactive", "shutdown"}
      BY <2>10 DEF Joined, TypeOK
    <3> QED
      BY <2>10, <3>1, <3>2, <3>3
         DEF Joined, thread, count, history, TypeOK, Orderly
  <2>11. CASE Crash
    BY <2>11, ZeroType DEF Crash, Mishap, count, TypeOK, Orderly
  <2>12. CASE Read
    BY <2>12 DEF Read, InLoop, thread, bus, count, history, TypeOK, Orderly
  <2>13. CASE NotOpen
    BY <2>13 DEF NotOpen, InLoop, thread, bus, count, history, TypeOK, Orderly
  <2>14. CASE Update
    BY <2>14 DEF Update, InLoop, thread, bus, history, TypeOK, Orderly
  <2>15. CASE Write
    BY <2>15 DEF Write, InLoop, thread, bus, count, history, TypeOK, Orderly
  <2>16. CASE SendVelocity
    <3>1. node \in Node /\ node' \in 1..N+1 /\ call = "write"
      BY <2>16, SendingType DEF SendVelocity, Sending
    <3>2. InputVelocityFrame(commands) \in Frame
      BY FrameType DEF TypeOK
    <3>3. tx' \in [Node -> Seq(Frame)]
      BY <2>16, <3>1, <3>2, SendType DEF SendVelocity
    <3> QED
      BY <2>16, <3>1, <3>3
         DEF SendVelocity, thread, count, history, TypeOK, Orderly
  <2>17. CASE VelocityFails
    BY <2>17, SendingType
       DEF VelocityFails, thread, bus, count, history, TypeOK, Orderly
  <2>18. CASE Written
    BY <2>18 DEF Written, thread, bus, count, TypeOK, Orderly
  <2>19. CASE Check
    BY <2>19 DEF Check, program, bus, count, history, TypeOK, Orderly
  <2>20. CASE Receive
    <3>1. /\ rxq' \in Seq(Estimate)
          /\ held' \in Estimate \union {NoFrame}
          /\ rx' = "got" => held' \in Estimate
      <4>1. rxq \in Seq(Estimate) /\ held \in Estimate \union {NoFrame}
        BY DEF TypeOK
      <4>2. CASE rxq # <<>>
        BY <2>20, <4>1, <4>2, HeadTail DEF Receive
      <4>3. CASE rxq = <<>>
        BY <2>20, <4>1, <4>3 DEF Receive
      <4> QED BY <4>2, <4>3
    <3>2. /\ rx' \in {"got", "check"}
          /\ UNCHANGED <<program, estimates, link, tx, axis, count, history, mishaps>>
          /\ socket # "closed"
      BY <2>20 DEF Receive, Orderly
    <3>3. TypeOK'
      BY <3>1, <3>2 DEF program, count, history, TypeOK
    <3>4. Orderly'
      BY <3>1, <3>2 DEF program, Orderly
    <3> QED BY <3>3, <3>4
  <2>21. CASE StorePosition
    <3>1. held \in Estimate
      BY <2>21 DEF StorePosition, Orderly
    <3>2. estimates' \in [Node -> Motion]
      BY <2>21, <3>1 DEF StorePosition, TypeOK, Estimate, Motion
    <3>3. /\ rx' = "storing" /\ held' = held /\ socket # "closed"
          /\ UNCHANGED <<program, bus, axis, count, history, mishaps>>
      BY <2>21 DEF StorePosition, Orderly
    <3>4. TypeOK'
      BY <3>2, <3>3 DEF program, bus, count, history, TypeOK
    <3>5. Orderly'
      BY <3>1, <3>3 DEF program, Orderly
    <3> QED BY <3>4, <3>5
  <2>22. CASE StoreVelocity
    <3>1. held \in Estimate
      BY <2>22 DEF StoreVelocity, Orderly
    <3>2. estimates' \in [Node -> Motion]
      BY <2>22, <3>1 DEF StoreVelocity, TypeOK, Estimate, Motion
    <3>3. /\ rx' = "check" /\ held' = NoFrame /\ socket # "closed"
          /\ UNCHANGED <<program, bus, axis, count, history, mishaps>>
      BY <2>22 DEF StoreVelocity, Orderly
    <3>4. TypeOK'
      BY <3>2, <3>3 DEF program, bus, count, history, TypeOK
    <3>5. Orderly'
      BY <3>1, <3>3 DEF program, Orderly
    <3> QED BY <3>4, <3>5
  <2>23. CASE LinkDown \/ LinkUp
    BY <2>23
       DEF LinkDown, LinkUp, Mishap, program, thread, count, history, TypeOK, Orderly
  <2>24. ASSUME NEW n \in Node, Handle(n)
         PROVE  TypeOK' /\ Orderly'
    <3>1. Head(tx[n]) \in Frame /\ tx' \in [Node -> Seq(Frame)]
      BY <2>24, TakenType DEF Handle
    <3>2. axis[n] \in Axis /\ axis \in [Node -> Axis]
      BY DEF TypeOK
    <3>3. Obeyed(axis[n], Head(tx[n])) \in Axis
      BY <3>1, <3>2, ObeyedType
    <3>4. axis' \in [Node -> Axis]
      BY <2>24, <3>2, <3>3 DEF Handle
    <3>5. UNCHANGED <<program, thread, link, rxq, count, history, mishaps>>
      BY <2>24 DEF Handle
    <3>6. TypeOK'
      BY <3>1, <3>4, <3>5 DEF program, thread, count, history, TypeOK
    <3>7. Orderly'
      BY <3>5 DEF program, thread, Orderly
    <3> QED BY <3>6, <3>7
  <2>25. ASSUME NEW n \in Node, Feedback(n)
         PROVE  TypeOK' /\ Orderly'
    <3>1. axis[n] \in Axis /\ axis \in [Node -> Axis] /\ axis[n].turn + 1 \in 0..MaxTurns
      <4>1. axis[n] \in Axis /\ axis \in [Node -> Axis]
        BY DEF TypeOK
      <4>2. axis[n].turn \in 0..MaxTurns /\ axis[n].turn < MaxTurns
        BY <2>25, <4>1 DEF Feedback, Axis
      <4> QED BY <4>1, <4>2
    <3>2. axis' \in [Node -> Axis]
      BY <2>25, <3>1 DEF Feedback, Axis
    <3>3. [from |-> n, turn |-> axis[n].turn + 1] \in Estimate
      BY <3>1 DEF Estimate
    <3>4. rxq' \in Seq(Estimate)
      BY <2>25, <3>3 DEF Feedback, TypeOK
    <3>5. UNCHANGED <<program, thread, link, tx, count, history, mishaps>>
      BY <2>25 DEF Feedback
    <3>6. TypeOK'
      BY <3>2, <3>4, <3>5 DEF program, thread, count, history, TypeOK
    <3>7. Orderly'
      BY <3>5 DEF program, thread, Orderly
    <3> QED BY <3>6, <3>7
  <2>26. ASSUME NEW n \in Node, LoseFrame(n)
         PROVE  TypeOK' /\ Orderly'
    <3>1. tx' \in [Node -> Seq(Frame)]
      BY <2>26, TakenType DEF LoseFrame
    <3>2. /\ fumbled' \subseteq Node /\ upset' = upset \union {n}
          /\ mishaps' \in 0..MaxMishaps
          /\ UNCHANGED <<program, thread, link, rxq, axis, count, written>>
      BY <2>26 DEF LoseFrame, Mishap, TypeOK
    <3>3. TypeOK'
      BY <3>1, <3>2 DEF program, thread, count, TypeOK
    <3>4. Orderly'
      BY <3>2 DEF program, thread, Orderly
    <3> QED BY <3>3, <3>4
  <2>27. ASSUME NEW n \in Node, Trip(n)
         PROVE  TypeOK' /\ Orderly'
    <3>1. axis' \in [Node -> Axis]
      BY <2>27 DEF Trip, TypeOK, Axis
    <3>2. mishaps' \in 0..MaxMishaps /\ UNCHANGED <<program, thread, bus, count, history>>
      BY <2>27 DEF Trip, Mishap, TypeOK
    <3>3. TypeOK'
      BY <3>1, <3>2 DEF program, thread, bus, count, history, TypeOK
    <3>4. Orderly'
      BY <3>2 DEF program, thread, Orderly
    <3> QED BY <3>3, <3>4
  <2>28. ASSUME NEW n \in Node, Reboot(n)
         PROVE  TypeOK' /\ Orderly'
    <3>1. axis' \in [Node -> Axis]
      BY <2>28 DEF Reboot, Booted, TypeOK, Axis
    <3>2. tx' \in [Node -> Seq(Frame)]
      BY <2>28 DEF Reboot, TypeOK
    <3>3. /\ fumbled' \subseteq Node /\ upset' = upset \union {n}
          /\ mishaps' \in 0..MaxMishaps
          /\ UNCHANGED <<program, thread, link, rxq, count, written>>
      BY <2>28 DEF Reboot, Mishap, TypeOK
    <3>4. TypeOK'
      BY <3>1, <3>2, <3>3 DEF program, thread, count, TypeOK
    <3>5. Orderly'
      BY <3>3 DEF program, thread, Orderly
    <3> QED BY <3>4, <3>5
  <2>29. CASE UNCHANGED vars
    BY <2>29 DEF vars, program, thread, bus, count, history, TypeOK, Orderly
  <2> QED
    BY <2>1, <2>2, <2>3, <2>4, <2>5, <2>6, <2>7, <2>8, <2>9, <2>10, <2>11,
       <2>12, <2>13, <2>14, <2>15, <2>16, <2>17, <2>18, <2>19, <2>20, <2>21,
       <2>22, <2>23, <2>24, <2>25, <2>26, <2>27, <2>28, <2>29
       DEF Next, Activating, Stopping, Cycle, Reception
<1>3. QED BY <1>1, <1>2, PTL DEF Spec

-----------------------------------------------------------------------------
(* Stopping leaves the axes idle.                                           *)

\* A frame that does not start an axis may be added to its queue.
LEMMA RestingAppend ==
  ASSUME TypeOK, NEW n \in Node, NEW f \in Frame, ~IsClosedLoop(f),
         Resting(n), tx'[n] = Append(tx[n], f), axis'[n] = axis[n]
  PROVE  Resting(n)'
<1>1. tx[n] \in Seq(Frame)
  BY DEF TypeOK
<1>2. CASE axis[n].state = "idle" /\ \A i \in 1..Len(tx[n]) : ~IsClosedLoop(tx[n][i])
  <2>1. \A i \in 1..Len(tx'[n]) : ~IsClosedLoop(tx'[n][i])
    BY <1>1, <1>2
  <2> QED BY <1>2, <2>1 DEF Resting
<1>3. ASSUME NEW i \in 1..Len(tx[n]), IsIdle(tx[n][i]),
             \A j \in i+1..Len(tx[n]) : ~IsClosedLoop(tx[n][j])
      PROVE  Resting(n)'
  <2>1. i \in 1..Len(tx'[n]) /\ tx'[n][i] = tx[n][i]
    BY <1>1
  <2>2. \A j \in i+1..Len(tx'[n]) : ~IsClosedLoop(tx'[n][j])
    BY <1>1, <1>3
  <2> QED BY <1>3, <2>1, <2>2 DEF Resting
<1>4. QED BY <1>2, <1>3 DEF Resting

\* The IDLE request may be added to any queue.
LEMMA RestingByIdle ==
  ASSUME TypeOK, NEW n \in Node, NEW f \in Frame, IsIdle(f),
         tx'[n] = Append(tx[n], f)
  PROVE  Resting(n)'
<1>1. tx[n] \in Seq(Frame)
  BY DEF TypeOK
<1>2. /\ Len(tx'[n]) \in 1..Len(tx'[n])
      /\ tx'[n][Len(tx'[n])] = f
      /\ Len(tx'[n]) + 1..Len(tx'[n]) = {}
  BY <1>1
<1>3. QED BY <1>2 DEF Resting

\* When the oldest frame leaves the queue, either the rest still brings the
\* axis to idle, or the rest does not start it and it is idle or was told to be.
LEMMA RestingTail ==
  ASSUME TypeOK, NEW n \in Node, Resting(n), tx[n] # <<>>,
         tx'[n] = Tail(tx[n])
  PROVE  \/ Resting(n)'
         \/ /\ \A i \in 1..Len(tx'[n]) : ~IsClosedLoop(tx'[n][i])
            /\ \/ axis[n].state = "idle" /\ ~IsClosedLoop(Head(tx[n]))
               \/ IsIdle(Head(tx[n]))
<1>1. tx[n] \in Seq(Frame)
  BY DEF TypeOK
<1>2. /\ Len(tx'[n]) = Len(tx[n]) - 1
      /\ \A i \in 1..Len(tx'[n]) : tx'[n][i] = tx[n][i+1]
      /\ Head(tx[n]) = tx[n][1]
      /\ Len(tx[n]) \in Nat /\ Len(tx[n]) >= 1
  BY <1>1
<1>3. CASE axis[n].state = "idle" /\ \A i \in 1..Len(tx[n]) : ~IsClosedLoop(tx[n][i])
  BY <1>2, <1>3
<1>4. ASSUME NEW i \in 1..Len(tx[n]), IsIdle(tx[n][i]),
             \A j \in i+1..Len(tx[n]) : ~IsClosedLoop(tx[n][j])
      PROVE  \/ Resting(n)'
             \/ /\ \A k \in 1..Len(tx'[n]) : ~IsClosedLoop(tx'[n][k])
                /\ IsIdle(Head(tx[n]))
  <2>1. CASE i = 1
    BY <1>2, <1>4, <2>1
  <2>2. CASE i > 1
    <3>1. i - 1 \in 1..Len(tx'[n]) /\ IsIdle(tx'[n][i - 1])
      BY <1>2, <1>4, <2>2
    <3>2. \A j \in (i - 1) + 1..Len(tx'[n]) : ~IsClosedLoop(tx'[n][j])
      BY <1>2, <1>4, <2>2
    <3> QED BY <3>1, <3>2 DEF Resting
  <2> QED BY <2>1, <2>2
<1>5. QED BY <1>3, <1>4 DEF Resting

LEMMA RestingSame ==
  ASSUME NEW n \in Node, Resting(n), tx'[n] = tx[n], axis'[n].state = axis[n].state
  PROVE  Resting(n)'
BY DEF Resting

\* Which axes have been told to be idle, and not to start since.
ToldIdle(n) ==
  \/ socket = "closed"
  \/ call = "join"
  \/ call = "idle" /\ n < node

RestInv == \A n \in Node : ToldIdle(n) /\ n \notin fumbled => Resting(n)

\* After on_deactivate, on_shutdown or the destructor every axis is or becomes
\* idle, except those whose IDLE could not be sent or was lost, those that
\* rebooted, and except a crash.
THEOREM IdleAlways == Spec => []IdleWhenStopped
<1>1. Init => RestInv
  BY DEF Init, RestInv
<1>2. TypeOK /\ Orderly /\ RestInv /\ [Next]_vars => RestInv'
  <2> SUFFICES ASSUME TypeOK, Orderly, RestInv, [Next]_vars,
                      NEW m \in Node, ToldIdle(m)', m \notin fumbled'
               PROVE  Resting(m)'
    BY DEF RestInv
  <2> USE OdescAssumption
  \* Nothing changes for axis m.
  <2>1. ASSUME tx'[m] = tx[m], axis'[m].state = axis[m].state,
               fumbled \subseteq fumbled', ToldIdle(m)' => ToldIdle(m)
        PROVE  Resting(m)'
    BY <2>1, RestingSame DEF RestInv
  <2>2. CASE Open \/ RequestClosedLoop \/ RequestFails
    <3>1. socket' = "open" /\ call' = "activate"
      BY <2>2 DEF Open, RequestClosedLoop, RequestFails, Sending, Orderly
    <3> QED BY <3>1 DEF ToldIdle
  <2>3. CASE OpenFails \/ Read \/ NotOpen \/ Update \/ Write \/ VelocityFails \/ Written
    BY <2>1, <2>3
       DEF OpenFails, Read, NotOpen, Update, Write, VelocityFails, Written, Sending,
           InLoop, thread, bus, count, history, ToldIdle
  <2>4. CASE Activated
    BY <2>1, <2>4 DEF Activated, thread, bus, count, history, ToldIdle
  <2>5. CASE Stop
    <3>1. ToldIdle(m)
      BY <2>5 DEF Stop, ToldIdle, TypeOK, Node
    <3> QED BY <2>1, <2>5, <3>1 DEF Stop, bus, history
  <2>6. CASE RequestIdle
    <3> DEFINE f == AxisStateFrame("idle")
    <3>1. call = "idle" /\ node \in Node /\ node' = node + 1 /\ call' = call
      BY <2>6, SendingType DEF RequestIdle, Sending
    <3>2. f \in Frame /\ IsIdle(f)
      BY FrameType DEF AxisStateFrame, IsIdle
    <3>3. /\ tx' = [tx EXCEPT ![node] = Append(@, f)]
          /\ axis' = axis /\ fumbled' = fumbled /\ socket' = socket
      BY <2>6 DEF RequestIdle, Send, history
    <3>4. tx \in [Node -> Seq(Frame)]
      BY DEF TypeOK
    <3> HIDE DEF f
    <3>5. CASE m = node
      <4>1. tx'[m] = Append(tx[m], f)
        BY <3>3, <3>4, <3>5
      <4> QED BY <3>2, <4>1, RestingByIdle
    <3>6. CASE m # node
      <4>1. tx'[m] = tx[m]
        BY <3>3, <3>4, <3>6
      <4>2. ToldIdle(m)
        BY <3>1, <3>3, <3>6 DEF ToldIdle, Node
      <4> QED BY <2>1, <3>3, <4>1, <4>2
    <3> QED BY <3>5, <3>6
  <2>7. CASE IdleFails
    <3>1. call = "idle" /\ node \in Node /\ node' = node + 1 /\ call' = call
      BY <2>7, SendingType DEF IdleFails, Sending
    <3>2. /\ UNCHANGED <<tx, axis, socket>>
          /\ fumbled' = fumbled \union {node}
      BY <2>7 DEF IdleFails, bus
    <3>3. ToldIdle(m)
      BY <3>1, <3>2 DEF ToldIdle, Node
    <3> QED BY <2>1, <3>2, <3>3
  <2>8. CASE IdleSent
    <3>1. ToldIdle(m)
      BY <2>8 DEF IdleSent, ToldIdle, TypeOK, Node
    <3> QED BY <2>1, <2>8, <3>1 DEF IdleSent, bus, history
  <2>9. CASE Joined
    <3>1. ToldIdle(m)
      BY <2>9 DEF Joined, ToldIdle
    <3> QED BY <2>1, <2>9, <3>1 DEF Joined, history
  <2>10. CASE Crash
    BY <2>10 DEF Crash
  <2>11. CASE SendVelocity
    <3> DEFINE f == InputVelocityFrame(commands)
    <3>1. node \in Node /\ ToldIdle(m)
      BY <2>11, SendingType DEF SendVelocity, Sending, ToldIdle
    <3>2. f \in Frame /\ ~IsClosedLoop(f)
      BY FrameType DEF InputVelocityFrame, IsClosedLoop, TypeOK
    <3>3. /\ tx' = [tx EXCEPT ![node] = Append(@, f)]
          /\ axis' = axis /\ fumbled' = fumbled
      BY <2>11 DEF SendVelocity, Send, history
    <3>4. tx \in [Node -> Seq(Frame)]
      BY DEF TypeOK
    <3> HIDE DEF f
    <3>5. CASE m = node
      <4>1. tx'[m] = Append(tx[m], f) /\ Resting(m)
        BY <3>1, <3>3, <3>4, <3>5 DEF RestInv
      <4> QED BY <3>2, <3>3, <4>1, RestingAppend
    <3>6. CASE m # node
      <4>1. tx'[m] = tx[m]
        BY <3>3, <3>4, <3>6
      <4> QED BY <2>1, <3>1, <3>3, <4>1
    <3> QED BY <3>5, <3>6
  <2>12. CASE Check \/ Receive \/ StorePosition \/ StoreVelocity \/ LinkDown \/ LinkUp
    BY <2>1, <2>12
       DEF Check, Receive, StorePosition, StoreVelocity, LinkDown, LinkUp,
           program, bus, history, ToldIdle
  <2>13. ASSUME NEW n \in Node, Handle(n)
         PROVE  Resting(m)'
    <3>1. ToldIdle(m) /\ m \notin fumbled /\ Resting(m)
      BY <2>13 DEF Handle, program, history, ToldIdle, RestInv
    <3>2. tx \in [Node -> Seq(Frame)] /\ axis \in [Node -> Axis]
      BY DEF TypeOK
    <3>3. CASE m # n
      <4>1. tx'[m] = tx[m] /\ axis'[m] = axis[m]
        BY <2>13, <3>2, <3>3 DEF Handle, Taken
      <4> QED BY <3>1, <4>1, RestingSame
    <3>4. CASE m = n
      <4> DEFINE f == Head(tx[m])
      <4>1. tx[m] # <<>> /\ tx'[m] = Tail(tx[m]) /\ f \in Frame
        BY <2>13, <3>2, <3>4, TakenType DEF Handle, Taken
      <4>2. axis'[m] = Obeyed(axis[m], f) /\ axis[m] \in Axis
        BY <2>13, <3>2, <3>4 DEF Handle
      <4> HIDE DEF f
      <4>3. /\ IsIdle(f) => axis'[m].state = "idle"
            /\ axis[m].state = "idle" /\ ~IsClosedLoop(f) => axis'[m].state = "idle"
        BY <4>1, <4>2 DEF Obeyed, Axis, Frame, IsIdle, IsClosedLoop
      <4>4. CASE /\ \A i \in 1..Len(tx'[m]) : ~IsClosedLoop(tx'[m][i])
                 /\ \/ axis[m].state = "idle" /\ ~IsClosedLoop(f)
                    \/ IsIdle(f)
        BY <4>3, <4>4 DEF Resting
      <4> QED BY <3>1, <4>1, <4>4, RestingTail DEF f
    <3> QED BY <3>3, <3>4
  <2>14. ASSUME NEW n \in Node, Feedback(n)
         PROVE  Resting(m)'
    <3>1. axis'[m].state = axis[m].state
      BY <2>14 DEF Feedback, TypeOK, Axis
    <3> QED BY <2>1, <2>14, <3>1 DEF Feedback, program, history, ToldIdle
  <2>15. ASSUME NEW n \in Node, LoseFrame(n)
         PROVE  Resting(m)'
    <3>1. ToldIdle(m) /\ m \notin fumbled /\ Resting(m) /\ axis' = axis
      BY <2>15 DEF LoseFrame, program, ToldIdle, RestInv
    <3>2. tx \in [Node -> Seq(Frame)]
      BY DEF TypeOK
    <3>3. CASE m # n
      <4>1. tx'[m] = tx[m]
        BY <2>15, <3>2, <3>3 DEF LoseFrame, Taken
      <4> QED BY <3>1, <4>1, RestingSame
    <3>4. CASE m = n
      <4>1. tx[m] # <<>> /\ tx'[m] = Tail(tx[m]) /\ ~IsIdle(Head(tx[m]))
        BY <2>15, <3>2, <3>4 DEF LoseFrame, Taken
      <4>2. CASE /\ \A i \in 1..Len(tx'[m]) : ~IsClosedLoop(tx'[m][i])
                 /\ axis[m].state = "idle"
        BY <3>1, <4>2 DEF Resting
      <4> QED BY <3>1, <4>1, <4>2, RestingTail
    <3> QED BY <3>3, <3>4
  <2>16. ASSUME NEW n \in Node, Trip(n)
         PROVE  Resting(m)'
    <3>1. ToldIdle(m) /\ m \notin fumbled /\ Resting(m) /\ tx' = tx
      BY <2>16 DEF Trip, program, bus, history, ToldIdle, RestInv
    <3>2. axis'[m].state = axis[m].state \/ axis'[m].state = "idle"
      BY <2>16 DEF Trip, TypeOK, Axis
    <3> QED BY <3>1, <3>2 DEF Resting
  <2>17. ASSUME NEW n \in Node, Reboot(n)
         PROVE  Resting(m)'
    <3>1. tx \in [Node -> Seq(Frame)] /\ axis \in [Node -> Axis] /\ m # n
      BY <2>17 DEF Reboot, TypeOK
    <3>2. tx'[m] = tx[m] /\ axis'[m] = axis[m]
      BY <2>17, <3>1 DEF Reboot
    <3> QED BY <2>1, <2>17, <3>2 DEF Reboot, program, ToldIdle
  <2>18. CASE UNCHANGED vars
    BY <2>1, <2>18 DEF vars, program, bus, history, ToldIdle
  <2> QED
    BY <2>2, <2>3, <2>4, <2>5, <2>6, <2>7, <2>8, <2>9, <2>10, <2>11, <2>12,
       <2>13, <2>14, <2>15, <2>16, <2>17, <2>18
       DEF Next, Activating, Stopping, Cycle, Reception
<1>3. Orderly /\ RestInv => IdleWhenStopped
  BY DEF Orderly, RestInv, ToldIdle, IdleWhenStopped
<1>4. QED BY <1>1, <1>2, <1>3, TypeCorrect, PTL DEF Spec

-----------------------------------------------------------------------------
(* What read() reports.                                                     *)

\* Estimate e was sent after the socket of this activation was opened.
Fresh(e) == e.turn > opened[e.from]
FreshMotion(n, value) == value = 0 \/ value > opened[n]

\* estimates_ is torn only while the receive thread holds the mutex, and only
\* for the axis whose frame it is storing.
FeedbackInv ==
  /\ \A n \in Node : axis[n].turn >= opened[n]
  /\ \A i \in 1..Len(rxq) : Fresh(rxq[i])
  /\ rx \in {"got", "storing"} => Fresh(held)
  /\ rx = "storing" => estimates[held.from].position = held.turn
  /\ \A n \in Node : FreshMotion(n, estimates[n].position)
  /\ \A n \in Node : \/ estimates[n].position = estimates[n].velocity
                     \/ rx = "storing" /\ n = held.from
  /\ life = "active" =>
       \A n \in Node : /\ states[n].position = states[n].velocity
                       /\ FreshMotion(n, states[n].position)

\* Nothing that FeedbackInv speaks of changes.
LEMMA FeedbackSame ==
  ASSUME FeedbackInv, UNCHANGED <<thread, rxq, axis, opened, states>>,
         life' = "active" => life = "active"
  PROVE  FeedbackInv'
BY DEF FeedbackInv, Fresh, FreshMotion, thread

\* read() never reports a torn estimate, nor one of an earlier activation.
THEOREM FeedbackAlways == Spec => [](Untorn /\ OfThisActivation)
<1>1. Init => FeedbackInv
  BY DEF Init, FeedbackInv, FreshMotion, AllZero, Zero, Booted
<1>2. TypeOK /\ Orderly /\ FeedbackInv /\ [Next]_vars => FeedbackInv'
  <2> SUFFICES ASSUME TypeOK, Orderly, FeedbackInv, [Next]_vars
               PROVE  FeedbackInv'
    OBVIOUS
  <2> USE OdescAssumption
  <2>1. CASE Open
    <3>1. rx' = "check" /\ rxq' = <<>> /\ estimates' = AllZero /\ life' # "active"
      BY <2>1 DEF Open
    <3>2. \A n \in Node : axis'[n].turn >= opened'[n]
      BY <2>1 DEF Open, TypeOK, Axis
    <3> QED BY <3>1, <3>2 DEF FeedbackInv, FreshMotion, AllZero, Zero
  <2>2. CASE \/ OpenFails \/ RequestClosedLoop \/ RequestFails
             \/ Stop \/ RequestIdle \/ IdleFails \/ IdleSent
             \/ NotOpen \/ Update \/ Write \/ SendVelocity \/ VelocityFails
             \/ Written
    BY <2>2, FeedbackSame
       DEF OpenFails, RequestClosedLoop, RequestFails, Stop, RequestIdle, IdleFails,
           IdleSent, NotOpen, Update, Write, SendVelocity, VelocityFails, Written,
           bus, count
  <2>3. CASE Activated
    <3>1. UNCHANGED <<rx, held, estimates, rxq, axis, opened>> /\ states' = AllZero
      BY <2>3 DEF Activated, thread, bus, count
    <3> QED BY <3>1 DEF FeedbackInv, Fresh, FreshMotion, AllZero, Zero
  <2>4. CASE Joined
    <3>1. /\ UNCHANGED <<rx, held, estimates, axis, opened>>
          /\ rxq' = <<>> /\ life' # "active"
      BY <2>4 DEF Joined, TypeOK, thread, count
    <3> QED BY <3>1 DEF FeedbackInv, Fresh, FreshMotion
  <2>5. CASE Crash
    <3>1. /\ UNCHANGED <<axis, opened>> /\ rx' = "none" /\ rxq' = <<>>
          /\ estimates' = AllZero /\ life' # "active"
      BY <2>5 DEF Crash, count
    <3> QED BY <3>1 DEF FeedbackInv, FreshMotion, AllZero, Zero
  <2>6. CASE Read
    <3>1. /\ UNCHANGED <<rx, held, estimates, rxq, axis, opened>>
          /\ states' = estimates /\ rx # "storing"
      BY <2>6 DEF Read, thread, bus, count
    <3> QED BY <3>1 DEF FeedbackInv, Fresh, FreshMotion
  <2>7. CASE Check
    <3>1. /\ UNCHANGED <<held, estimates, rxq, axis, opened, states, life>>
          /\ rx = "check" /\ rx' \in {"receive", "none"}
      BY <2>7 DEF Check, program, bus, count
    <3> QED BY <3>1 DEF FeedbackInv, Fresh, FreshMotion
  <2>8. CASE Receive
    <3>1. /\ UNCHANGED <<estimates, axis, opened, states, life>>
          /\ rx = "receive" /\ rx' \in {"got", "check"}
      BY <2>8 DEF Receive, program, count
    <3>2. rxq \in Seq(Estimate)
      BY DEF TypeOK
    <3>3. (\A i \in 1..Len(rxq') : Fresh(rxq[i])') /\ (rx' = "got" => Fresh(held)')
      <4>1. CASE rxq # <<>>
        <5>1. /\ held' = rxq[1] /\ Len(rxq') = Len(rxq) - 1
              /\ \A i \in 1..Len(rxq') : rxq'[i] = rxq[i + 1]
              /\ Len(rxq) \in Nat \ {0}
          BY <2>8, <3>2, <4>1 DEF Receive
        <5> QED BY <3>1, <5>1 DEF FeedbackInv, Fresh
      <4>2. CASE rxq = <<>>
        BY <2>8, <3>1, <4>2 DEF Receive, FeedbackInv, Fresh
      <4> QED BY <4>1, <4>2
    <3> QED BY <3>1, <3>3 DEF FeedbackInv, FreshMotion
  <2>9. CASE StorePosition
    <3>1. /\ UNCHANGED <<held, rxq, axis, opened, states, life>>
          /\ rx = "got" /\ rx' = "storing"
          /\ estimates' = [estimates EXCEPT ![held.from].position = held.turn]
      BY <2>9 DEF StorePosition, program, bus, count
    <3>2. held.from \in Node /\ held.turn \in 0..MaxTurns
      BY <3>1 DEF Orderly, Estimate
    <3>3. estimates \in [Node -> Motion]
      BY DEF TypeOK
    <3>4. /\ estimates'[held.from].position = held.turn
          /\ \A n \in Node \ {held.from} : estimates'[n] = estimates[n]
      BY <3>1, <3>2, <3>3 DEF Motion
    <3> QED BY <3>1, <3>2, <3>4 DEF FeedbackInv, Fresh, FreshMotion
  <2>10. CASE StoreVelocity
    <3>1. /\ UNCHANGED <<rxq, axis, opened, states, life>>
          /\ rx = "storing" /\ rx' = "check"
          /\ estimates' = [estimates EXCEPT ![held.from].velocity = held.turn]
      BY <2>10 DEF StoreVelocity, program, bus, count
    <3>2. held.from \in Node
      BY <3>1 DEF Orderly, Estimate
    <3>3. estimates \in [Node -> Motion]
      BY DEF TypeOK
    <3>4. /\ estimates'[held.from].position = estimates[held.from].position
          /\ estimates'[held.from].velocity = held.turn
          /\ \A n \in Node \ {held.from} : estimates'[n] = estimates[n]
      BY <3>1, <3>2, <3>3 DEF Motion
    <3> QED BY <3>1, <3>2, <3>4 DEF FeedbackInv, Fresh, FreshMotion
  <2>11. CASE LinkDown \/ LinkUp
    BY <2>11, FeedbackSame DEF LinkDown, LinkUp, program, count
  <2>12. ASSUME NEW n \in Node, Handle(n) \/ Trip(n) \/ Reboot(n) \/ LoseFrame(n)
         PROVE  FeedbackInv'
    <3>1. axis \in [Node -> Axis]
      BY DEF TypeOK
    <3>2. \A k \in Node : axis'[k].turn = axis[k].turn
      <4>1. CASE Handle(n)
        <5>1. \A f : Obeyed(axis[n], f).turn = axis[n].turn
          BY <3>1 DEF Obeyed, Axis
        <5> QED BY <3>1, <4>1, <5>1 DEF Handle
      <4>2. CASE Trip(n)
        BY <3>1, <4>2 DEF Trip, Axis
      <4>3. CASE Reboot(n)
        BY <3>1, <4>3 DEF Reboot, Booted
      <4>4. CASE LoseFrame(n)
        BY <4>4 DEF LoseFrame
      <4> QED BY <2>12, <4>1, <4>2, <4>3, <4>4
    <3>3. UNCHANGED <<thread, rxq, opened, states, life>>
      BY <2>12 DEF Handle, Trip, Reboot, LoseFrame, program, bus, count
    <3> QED BY <3>2, <3>3 DEF FeedbackInv, Fresh, FreshMotion, thread
  <2>13. ASSUME NEW n \in Node, Feedback(n)
         PROVE  FeedbackInv'
    <3> DEFINE e == [from |-> n, turn |-> axis[n].turn + 1]
    <3>1. UNCHANGED <<thread, opened, states, life>>
      BY <2>13 DEF Feedback, program, count
    <3>2. axis \in [Node -> Axis] /\ opened[n] \in Nat /\ axis[n].turn \in Nat
      BY DEF TypeOK, Axis
    <3>3. \A k \in Node : axis'[k].turn = IF k = n THEN axis[n].turn + 1 ELSE axis[k].turn
      BY <2>13, <3>2 DEF Feedback, Axis
    <3>4. \A k \in Node : axis'[k].turn >= opened'[k]
      BY <3>1, <3>2, <3>3 DEF FeedbackInv
    <3>5. e.turn > opened[e.from]
      BY <3>2 DEF FeedbackInv
    <3>6. rxq \in Seq(Estimate)
      BY DEF TypeOK
    <3>7. rxq' = rxq \/ rxq' = Append(rxq, e)
      BY <2>13 DEF Feedback
    <3> HIDE DEF e
    <3>8. \A i \in 1..Len(rxq') : Fresh(rxq[i])'
      BY <3>1, <3>5, <3>6, <3>7 DEF FeedbackInv, Fresh
    <3> QED BY <3>1, <3>4, <3>8 DEF FeedbackInv, Fresh, FreshMotion, thread
  <2>14. CASE UNCHANGED vars
    BY <2>14, FeedbackSame DEF vars, program, bus, count
  <2> QED
    BY <2>1, <2>2, <2>3, <2>4, <2>5, <2>6, <2>7, <2>8, <2>9, <2>10, <2>11,
       <2>12, <2>13, <2>14 DEF Next, Activating, Stopping, Cycle, Reception
<1>3. FeedbackInv => Untorn /\ OfThisActivation
  BY DEF FeedbackInv, FreshMotion, Untorn, OfThisActivation
<1>4. QED BY <1>1, <1>2, <1>3, TypeCorrect, PTL DEF Spec

\* What read() hands to the wheel controller was estimated after this
\* activation began: nothing of an earlier one is left in the drive state.
THEOREM OfThisActivationAlways == Spec => []OfThisActivation
BY FeedbackAlways, PTL
=============================================================================
