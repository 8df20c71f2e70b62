--------------------------- MODULE PxxMotor_proofs ---------------------------
(***************************************************************************)
(* Theorems about the arm drives of PxxMotor, for every number of drives,  *)
(* activations and mishaps.                                                *)
(***************************************************************************)
EXTENDS PxxMotor, SequenceTheorems, FiniteSetTheorems, QueueLemmas, TLAPS

-----------------------------------------------------------------------------
(* The lines of configure_node and of deactivate.                           *)

LEMMA ProgramLength == Len(Program) = 29
BY DEF Program, Prepare, Seed, StartAndEnable, Remap, RemapMotion

LEMMA DisarmLength == Len(Disarm) = 2
BY DEF Disarm

LEMMA LineType ==
  ASSUME NEW s \in 1..AskErrorCode
  PROVE  Line(s).kind \in Kind /\ Line(s).key \in Key /\ Line(s).value \in Value
BY DEF Kind, Key, Value, Lines

LEMMA DisarmType ==
  ASSUME NEW s \in 1..2
  PROVE  Disarm[s].kind \in Kind /\ Disarm[s].key \in Key /\ Disarm[s].value \in Value
BY DEF Kind, Key, Value, Lines

LEMMA NoneIsAValue == "none" \in Value
<1>1. AskErrorCode \in 1..AskErrorCode
  BY ProgramLength DEF AskErrorCode
<1>2. Line(AskErrorCode).value = "none"
  BY DEF Line, Read
<1>3. QED BY <1>1, <1>2, LineType

-----------------------------------------------------------------------------
(* Types.                                                                   *)

LEMMA MessageType ==
  ASSUME TypeOK, NEW s \in 1..AskErrorCode, NEW t \in 0..AskErrorCode
  PROVE  Message(Line(s), <<epoch, t>>) \in Frame
BY LineType DEF Message, Frame, Tag, TypeOK

LEMMA DisarmMessageType ==
  ASSUME TypeOK, NEW s \in 1..2
  PROVE  Message(Disarm[s], <<epoch, 0>>) \in Frame
BY DisarmType, ProgramLength DEF Message, Frame, Tag, TypeOK, AskErrorCode

LEMMA ControlledType ==
  ASSUME NEW d \in Drive, NEW word
  PROVE  Controlled(d, word) \in State
BY DEF Controlled, Drive, State

LEMMA ObeyedType ==
  ASSUME NEW d \in Drive, NEW f \in Frame
  PROVE  Obeyed(d, f) \in Drive
<1>1. CASE f.kind = "nmt"
  BY <1>1 DEF Obeyed, Drive
<1>2. CASE f.kind = "write"
  BY <1>2, ControlledType DEF Obeyed, Drive, Frame
<1>3. CASE f.kind \notin {"nmt", "write"}
  BY <1>3 DEF Obeyed
<1>4. QED BY <1>1, <1>2, <1>3

LEMMA ReplyType ==
  ASSUME TypeOK, NEW n \in Node, NEW f \in Frame, NEW ok \in BOOLEAN,
         NEW v \in State \union {"refused", "illegal"}
  PROVE  Reply(n, f, ok, v) \in Answer
BY DEF Reply, Answer, Frame, TypeOK

LEMMA BootedType == Booted \in Drive
BY PxxAssumption, NoneIsAValue DEF Booted, Drive, State

LEMMA AdvanceType ==
  ASSUME node \in 1..N+1, step \in 1..AskErrorCode, Advance
  PROVE  /\ phase' \in {"inactive", "configuring", "waiting", "active", "deactivating"}
         /\ node' \in 1..N+1
         /\ step' \in 1..AskErrorCode
         /\ node \in Node /\ phase' \in {"configuring", "waiting"} => node' \in Node
BY ProgramLength, PxxAssumption DEF Advance, Node, AskErrorCode

LEMMA PostType ==
  ASSUME TypeOK, NEW n \in Node, NEW line, NEW tag,
         Message(line, tag) \in Frame, Post(n, line, tag)
  PROVE  inbox' \in [Node -> Seq(Frame)]
BY DEF TypeOK, Post

LEMMA StartDisarmType ==
  ASSUME StartDisarm
  PROVE  /\ phase' \in {"inactive", "configuring", "waiting", "active", "deactivating"}
         /\ node' \in 1..N+1
         /\ step' \in 1..AskErrorCode
BY ProgramLength, PxxAssumption DEF StartDisarm, AskErrorCode

LEMMA NextDisarmType ==
  ASSUME TypeOK, phase = "deactivating", node \in Node, step \in 1..2, NextDisarm
  PROVE  node' \in 1..N+1 /\ step' \in 1..2
BY DisarmLength, PxxAssumption DEF TypeOK, NextDisarm, Node

\* The loops stay in their arrays: activate() works on a drive that exists,
\* and deactivate() sends one of the two lines of Disarm.
InRange ==
  /\ Activating => node \in Node
  /\ phase = "deactivating" => step \in 1..2

\* Type correctness is inductive together with InRange.
THEOREM TypeCorrect == Spec => [](TypeOK /\ InRange)
<1>1. Init => TypeOK /\ InRange
  <2> SUFFICES ASSUME Init PROVE TypeOK /\ InRange
    OBVIOUS
  <2> QED BY BootedType, ProgramLength, PxxAssumption
      DEF Init, TypeOK, InRange, Activating, AskErrorCode, Node
<1>2. TypeOK /\ InRange /\ [Next]_vars => TypeOK' /\ InRange'
  <2> SUFFICES ASSUME TypeOK, InRange, [Next]_vars
               PROVE  TypeOK' /\ InRange'
    OBVIOUS
  <2> USE PxxAssumption DEF Activating
  <2>1. CASE Activate
    BY <2>1, ProgramLength
       DEF Activate, OneMore, TypeOK, InRange, bus, AskErrorCode, Node
  <2>2. CASE SendNmt
    <3>1. Message(Line(step), <<epoch, step>>) \in Frame
      BY MessageType DEF TypeOK
    <3>2. inbox' \in [Node -> Seq(Frame)]
      BY <2>2, <3>1, PostType DEF SendNmt, InRange
    <3>3. Advance /\ phase' # "deactivating"
      BY <2>2 DEF SendNmt, Advance
    <3> QED
      BY <2>2, <3>2, <3>3, AdvanceType
         DEF SendNmt, TypeOK, InRange, history
  <2>3. CASE SendSdo
    <3>1. Message(Line(step), <<epoch, step>>) \in Frame
      BY MessageType DEF TypeOK
    <3>2. inbox' \in [Node -> Seq(Frame)]
      BY <2>3, <3>1, PostType DEF SendSdo, InRange
    <3> QED
      BY <2>3, <3>2 DEF SendSdo, TypeOK, InRange, history
  <2>4. CASE SendFails
    BY <2>4, StartDisarmType
       DEF SendFails, StartDisarm, Mishap, TypeOK, InRange, bus
  <2>5. CASE Proceed
    <3>1. slot \in Answer
      BY <2>5 DEF Proceed, TypeOK, None
    <3>2. position' \in 0..MaxEpoch
      BY <2>5, <3>1 DEF Proceed, TypeOK, Answer
    <3> QED
      BY <2>5, <3>2, AdvanceType
         DEF Proceed, Answered, TypeOK, InRange, history, bus, Advance
  <2>6. CASE AskWhy
    BY <2>6, ProgramLength
       DEF AskWhy, Answered, TypeOK, InRange, history, bus, AskErrorCode
  <2>7. CASE GiveUp
    BY <2>7, StartDisarmType
       DEF GiveUp, StartDisarm, TypeOK, InRange, history, bus
  <2>8. CASE Deactivate
    BY <2>8, StartDisarmType
       DEF Deactivate, StartDisarm, TypeOK, InRange, history, bus
  <2>9. CASE DisarmSend
    <3>1. step \in 1..2 /\ node \in Node
      BY <2>9 DEF DisarmSend, InRange
    <3>2. node' \in 1..N+1 /\ step' \in 1..2
      BY <2>9, <3>1, NextDisarmType DEF DisarmSend
    <3>3. Message(Disarm[step], <<epoch, 0>>) \in Frame
      BY <3>1, DisarmMessageType
    <3> QED
      BY <2>9, <3>2, <3>3, ProgramLength
         DEF DisarmSend, Post, TypeOK, InRange, history, AskErrorCode
  <2>10. CASE DisarmSendFails
    <3>1. step \in 1..2 /\ node \in Node
      BY <2>10 DEF DisarmSendFails, InRange
    <3>2. node' \in 1..N+1 /\ step' \in 1..2
      BY <2>10, <3>1, NextDisarmType DEF DisarmSendFails
    <3> QED
      BY <2>10, <3>1, <3>2, ProgramLength
         DEF DisarmSendFails, Mishap, TypeOK, InRange, bus, AskErrorCode
  <2>11. CASE Close
    BY <2>11 DEF Close, TypeOK, InRange, history, bus
  <2>12. CASE Crash
    BY <2>12, ProgramLength
       DEF Crash, Mishap, TypeOK, InRange, bus, AskErrorCode
  <2>13. ASSUME NEW n \in Node, Receive(n)
         PROVE  TypeOK' /\ InRange'
    <3>1. outbox[n] \in Seq(Answer) /\ outbox[n] # <<>>
      BY <2>13 DEF Receive, Heard, TypeOK
    <3>2. Head(outbox[n]) \in Answer /\ Tail(outbox[n]) \in Seq(Answer)
      BY <3>1
    <3> QED
      BY <2>13, <3>2 DEF Receive, Heard, TypeOK, InRange, history
  <2>14. ASSUME NEW n \in Node, Unheard(n)
         PROVE  TypeOK' /\ InRange'
    <3>1. outbox[n] \in Seq(Answer) /\ outbox[n] # <<>>
      BY <2>14 DEF Unheard, Heard, TypeOK
    <3>2. Tail(outbox[n]) \in Seq(Answer)
      BY <3>1
    <3> QED
      BY <2>14, <3>2 DEF Unheard, Heard, TypeOK, InRange, history, host
  <2>15. ASSUME NEW n \in Node, Taken(n)
         PROVE  /\ Head(inbox[n]) \in Frame
                /\ inbox' \in [Node -> Seq(Frame)]
    <3>1. inbox[n] \in Seq(Frame) /\ inbox[n] # <<>>
      BY <2>15 DEF Taken, TypeOK
    <3>2. Head(inbox[n]) \in Frame /\ Tail(inbox[n]) \in Seq(Frame)
      BY <3>1
    <3> QED BY <2>15, <3>2 DEF Taken, TypeOK
  <2>16. ASSUME NEW n \in Node, NEW a \in Answer, Answers(n, a)
         PROVE  outbox' \in [Node -> Seq(Answer)]
    BY <2>16 DEF Answers, TypeOK
  <2>17. ASSUME NEW n \in Node, Handle(n)
         PROVE  TypeOK' /\ InRange'
    <3> DEFINE f == Head(inbox[n])
    <3>1. f \in Frame /\ inbox' \in [Node -> Seq(Frame)]
      BY <2>15, <2>17 DEF Handle
    <3>2. drive[n] \in Drive /\ drive \in [Node -> Drive]
      BY DEF TypeOK
    <3>3. Obeyed(drive[n], f) \in Drive
      BY <3>1, <3>2, ObeyedType
    <3>4. drive' \in [Node -> Drive]
      BY <2>17, <3>2, <3>3 DEF Handle
    <3>5. drive[n].cia \in State
      BY <3>2 DEF Drive
    <3>6. /\ Reply(n, f, TRUE, drive[n].cia) \in Answer
          /\ Reply(n, f, FALSE, "illegal") \in Answer
      BY <3>1, <3>5, ReplyType
    <3>7. outbox' \in [Node -> Seq(Answer)]
      <4>1. CASE UNCHANGED outbox
        BY <4>1 DEF TypeOK
      <4>2. CASE Answers(n, Reply(n, f, TRUE, drive[n].cia))
        BY <4>2, <3>6, <2>16
      <4>3. CASE Answers(n, Reply(n, f, FALSE, "illegal"))
        BY <4>3, <3>6, <2>16
      <4> QED BY <2>17, <4>1, <4>2, <4>3 DEF Handle
    <3> QED
      BY <2>17, <3>1, <3>4, <3>7
         DEF Handle, TypeOK, InRange, history, host
  <2>18. ASSUME NEW n \in Node, Refuse(n)
         PROVE  TypeOK' /\ InRange'
    <3>1. Head(inbox[n]) \in Frame /\ inbox' \in [Node -> Seq(Frame)]
      BY <2>15, <2>18 DEF Refuse
    <3>2. outbox' \in [Node -> Seq(Answer)]
      BY <2>18, <3>1, <2>16, ReplyType DEF Refuse
    <3> QED
      BY <2>18, <3>1, <3>2
         DEF Refuse, Mishap, Fumble, TypeOK, InRange, host
  <2>19. ASSUME NEW n \in Node, LoseFrame(n)
         PROVE  TypeOK' /\ InRange'
    <3>1. inbox' \in [Node -> Seq(Frame)]
      BY <2>15, <2>19 DEF LoseFrame
    <3> QED
      BY <2>19, <3>1 DEF LoseFrame, Mishap, Fumble, TypeOK, InRange, host
  <2>20. ASSUME NEW n \in Node, LoseAnswer(n)
         PROVE  TypeOK' /\ InRange'
    <3>1. outbox[n] \in Seq(Answer) /\ outbox[n] # <<>>
      BY <2>20 DEF LoseAnswer, Heard, TypeOK
    <3>2. Tail(outbox[n]) \in Seq(Answer)
      BY <3>1
    <3> QED
      BY <2>20, <3>2 DEF LoseAnswer, Heard, Mishap, TypeOK, InRange, host
  <2>21. ASSUME NEW n \in Node, Fault(n)
         PROVE  TypeOK' /\ InRange'
    <3>1. drive[n] \in Drive /\ drive \in [Node -> Drive]
      BY DEF TypeOK
    <3>2. [drive[n] EXCEPT !.cia = "fault"] \in Drive
      BY <3>1 DEF Drive, State
    <3>3. drive' = [drive EXCEPT ![n] = [drive[n] EXCEPT !.cia = "fault"]]
      BY <2>21 DEF Fault
    <3>4. drive' \in [Node -> Drive]
      BY <3>1, <3>2, <3>3
    <3> QED
      BY <2>21, <3>4 DEF Fault, Mishap, TypeOK, InRange, host, bus
  <2>22. ASSUME NEW n \in Node, Reboot(n)
         PROVE  TypeOK' /\ InRange'
    BY <2>22, BootedType DEF Reboot, Mishap, TypeOK, InRange, host
  <2>23. CASE UNCHANGED vars
    BY <2>23 DEF vars, host, bus, history, TypeOK, InRange
  <2> QED
    BY <2>1, <2>2, <2>3, <2>4, <2>5, <2>6, <2>7, <2>8, <2>9, <2>10, <2>11,
       <2>12, <2>13, <2>14, <2>17, <2>18, <2>19, <2>20, <2>21, <2>22, <2>23
       DEF Next, Transaction, Disarming
<1>3. QED BY <1>1, <1>2, PTL DEF Spec

-----------------------------------------------------------------------------
(* deactivate() leaves no drive enabled.                                    *)

LEMMA ControlledEnabled ==
  ASSUME NEW d \in Drive, NEW word
  PROVE  /\ Controlled(d, word) = "enabled" =>
              d.cia = "enabled" \/ word = "EnableOperation"
         /\ word = "Shutdown" => Controlled(d, word) # "enabled"
BY DEF Controlled, Drive, State

\* Only EnableOperation enables a drive, and Shutdown disables it.
LEMMA ObeyedEnabled ==
  ASSUME NEW d \in Drive, NEW f \in Frame
  PROVE  /\ Obeyed(d, f).cia = "enabled" => d.cia = "enabled" \/ Enables(f)
         /\ Ends(f) => Obeyed(d, f).cia # "enabled"
<1>1. CASE f.kind = "nmt"
  BY <1>1 DEF Obeyed, Drive, Ends
<1>2. CASE f.kind = "write"
  <2>1. Obeyed(d, f).cia = IF f.key = <<"6040", 0>>
                           THEN Controlled(d, f.value) ELSE d.cia
    BY <1>2 DEF Obeyed, Drive
  <2> QED BY <1>2, <2>1, ControlledEnabled DEF Enables, Ends
<1>3. CASE f.kind \notin {"nmt", "write"}
  BY <1>3 DEF Obeyed, Ends
<1>4. QED BY <1>1, <1>2, <1>3

\* A control word is always legal.
LEMMA EndsLegal ==
  ASSUME NEW d, NEW f, Ends(f)
  PROVE  Legal(d, f) /\ IsSdo(f)
BY DEF Ends, Legal, IsPdo, IsMapping, IsSdo

\* A frame that does not enable the drive may be added to its queue.
LEMMA DoomedAppend ==
  ASSUME TypeOK, NEW n \in Node, NEW m \in Frame, ~Enables(m),
         Doomed(n), inbox'[n] = Append(inbox[n], m), drive'[n] = drive[n]
  PROVE  Doomed(n)'
<1>1. inbox[n] \in Seq(Frame)
  BY DEF TypeOK
<1>2. CASE drive[n].cia # "enabled" /\ \A i \in 1..Len(inbox[n]) : ~Enables(inbox[n][i])
  <2>1. \A i \in 1..Len(inbox'[n]) : ~Enables(inbox'[n][i])
    BY <1>1, <1>2
  <2> QED BY <1>2, <2>1 DEF Doomed
<1>3. ASSUME NEW i \in 1..Len(inbox[n]), Ends(inbox[n][i]),
             \A j \in i+1..Len(inbox[n]) : ~Enables(inbox[n][j])
      PROVE  Doomed(n)'
  <2>1. i \in 1..Len(inbox'[n]) /\ inbox'[n][i] = inbox[n][i]
    BY <1>1
  <2>2. \A j \in i+1..Len(inbox'[n]) : ~Enables(inbox'[n][j])
    BY <1>1, <1>3
  <2> QED BY <1>3, <2>1, <2>2 DEF Doomed
<1>4. QED BY <1>2, <1>3 DEF Doomed

\* Shutdown may be added to any queue.
LEMMA DoomedByShutdown ==
  ASSUME TypeOK, NEW n \in Node, NEW m \in Frame, Ends(m),
         inbox'[n] = Append(inbox[n], m)
  PROVE  Doomed(n)'
<1>1. inbox[n] \in Seq(Frame)
  BY DEF TypeOK
<1>2. /\ Len(inbox'[n]) \in 1..Len(inbox'[n])
      /\ inbox'[n][Len(inbox'[n])] = m
      /\ Len(inbox'[n]) + 1..Len(inbox'[n]) = {}
  BY <1>1
<1>3. QED BY <1>2 DEF Doomed

\* When the oldest frame leaves the queue, either the rest still dooms the
\* drive, or the rest does not enable it and it is disabled or was shut down.
LEMMA DoomedTail ==
  ASSUME TypeOK, NEW n \in Node, Doomed(n), inbox[n] # <<>>,
         inbox'[n] = Tail(inbox[n])
  PROVE  \/ Doomed(n)'
         \/ /\ \A i \in 1..Len(inbox'[n]) : ~Enables(inbox'[n][i])
            /\ \/ drive[n].cia # "enabled" /\ ~Enables(Head(inbox[n]))
               \/ Ends(Head(inbox[n]))
<1>1. inbox[n] \in Seq(Frame)
  BY DEF TypeOK
<1>2. /\ Len(inbox'[n]) = Len(inbox[n]) - 1
      /\ \A i \in 1..Len(inbox'[n]) : inbox'[n][i] = inbox[n][i+1]
      /\ Head(inbox[n]) = inbox[n][1]
      /\ Len(inbox[n]) \in Nat /\ Len(inbox[n]) >= 1
  BY <1>1
<1>3. CASE drive[n].cia # "enabled" /\ \A i \in 1..Len(inbox[n]) : ~Enables(inbox[n][i])
  BY <1>2, <1>3
<1>4. ASSUME NEW i \in 1..Len(inbox[n]), Ends(inbox[n][i]),
             \A j \in i+1..Len(inbox[n]) : ~Enables(inbox[n][j])
      PROVE  \/ Doomed(n)'
             \/ /\ \A k \in 1..Len(inbox'[n]) : ~Enables(inbox'[n][k])
                /\ Ends(Head(inbox[n]))
  <2>1. CASE i = 1
    BY <1>2, <1>4, <2>1
  <2>2. CASE i > 1
    <3>1. i - 1 \in 1..Len(inbox'[n]) /\ Ends(inbox'[n][i - 1])
      BY <1>2, <1>4, <2>2
    <3>2. \A j \in (i - 1) + 1..Len(inbox'[n]) : ~Enables(inbox'[n][j])
      BY <1>2, <1>4, <2>2
    <3> QED BY <3>1, <3>2 DEF Doomed
  <2> QED BY <2>1, <2>2
<1>5. QED BY <1>3, <1>4 DEF Doomed

LEMMA DoomedSame ==
  ASSUME NEW n \in Node, Doomed(n), inbox'[n] = inbox[n], drive'[n] = drive[n]
  PROVE  Doomed(n)'
BY DEF Doomed

\* Which drives deactivate() has shut down so far.
ShutDown(n) ==
  \/ phase = "inactive"
  \/ phase = "deactivating" /\ (n < node \/ (n = node /\ step = 2))

DisarmInv == \A n \in Node : ShutDown(n) /\ n \notin fumbled => Doomed(n)

\* After deactivate(), also after a failed or interrupted activate(), no drive
\* is or becomes enabled by what is still queued, except the drives whose
\* Shutdown could not be sent, was lost or was refused, and except a crash.
THEOREM DisarmedAlways == Spec => []Disarmed
<1>1. Init => DisarmInv
  BY DEF Init, DisarmInv, Doomed, Booted
<1>2. TypeOK /\ InRange /\ DisarmInv /\ TypeOK' /\ [Next]_vars => DisarmInv'
  <2> SUFFICES ASSUME TypeOK, InRange, DisarmInv, TypeOK', [Next]_vars,
                      NEW m \in Node, ShutDown(m)', m \notin fumbled'
               PROVE  Doomed(m)'
    BY DEF DisarmInv
  <2> USE PxxAssumption
  \* Nothing changes for drive m.
  <2>1. ASSUME inbox'[m] = inbox[m], drive'[m] = drive[m],
               fumbled \subseteq fumbled', ShutDown(m)' => ShutDown(m)
        PROVE  Doomed(m)'
    BY <2>1, DoomedSame DEF DisarmInv
  <2>2. CASE Activate \/ SendNmt \/ SendSdo \/ Proceed \/ AskWhy
    <3>1. phase' \in {"configuring", "waiting", "active"}
      BY <2>2 DEF Activate, SendNmt, SendSdo, Proceed, AskWhy, Advance
    <3> QED BY <3>1 DEF ShutDown
  <2>3. CASE SendFails \/ GiveUp \/ Deactivate
    <3>1. phase' = "deactivating" /\ node' = 1 /\ step' = 1
      BY <2>3 DEF SendFails, GiveUp, Deactivate, StartDisarm
    <3> QED BY <3>1 DEF ShutDown, Node
  <2>4. CASE DisarmSend
    <3> DEFINE message == Message(Disarm[step], <<epoch, 0>>)
    <3>1. step \in 1..2 /\ node \in Node /\ phase = "deactivating" /\ phase' = phase
      BY <2>4 DEF DisarmSend, InRange
    <3>2. message \in Frame
      BY <3>1, DisarmMessageType
    <3>3. /\ inbox' = [inbox EXCEPT ![node] = Append(@, message)]
          /\ drive' = drive /\ fumbled' = fumbled
      BY <2>4 DEF DisarmSend, Post, history
    <3>4. inbox \in [Node -> Seq(Frame)]
      BY DEF TypeOK
    <3>5. NextDisarm
      BY <2>4 DEF DisarmSend
    <3>6. CASE m # node
      <4>1. inbox'[m] = inbox[m] /\ drive'[m] = drive[m]
        BY <3>3, <3>4, <3>6
      <4>2. ShutDown(m)
        BY <3>1, <3>5, <3>6, DisarmLength DEF ShutDown, NextDisarm, Node
      <4> QED BY <2>1, <3>3, <4>1, <4>2
    <3>7. CASE m = node /\ step = 1
      <4>1. Ends(message)
        BY <3>7 DEF Ends, Message, Disarm, Write
      <4>2. inbox'[m] = Append(inbox[m], message)
        BY <3>3, <3>4, <3>7
      <4> QED BY <3>2, <4>1, <4>2, DoomedByShutdown
    <3>8. CASE m = node /\ step = 2
      <4>1. ~Enables(message)
        BY <3>8 DEF Enables, Message, Disarm, Nmt
      <4>2. inbox'[m] = Append(inbox[m], message) /\ drive'[m] = drive[m]
        BY <3>3, <3>4, <3>8
      <4>3. Doomed(m)
        BY <3>1, <3>3, <3>8 DEF ShutDown, DisarmInv
      <4> QED BY <3>2, <4>1, <4>2, <4>3, DoomedAppend
    <3> QED BY <3>1, <3>6, <3>7, <3>8
  <2>5. CASE DisarmSendFails
    <3>1. step \in 1..2 /\ node \in Node /\ phase = "deactivating" /\ phase' = phase
      BY <2>5 DEF DisarmSendFails, InRange
    <3>2. inbox' = inbox /\ drive' = drive /\ fumbled \subseteq fumbled' /\ NextDisarm
      BY <2>5 DEF DisarmSendFails, bus
    <3>3. Disarm[1].kind = "write"
      BY DEF Disarm, Write
    <3>4. step = 1 => node \in fumbled'
      BY <2>5, <3>3 DEF DisarmSendFails, IsSdo
    <3>5. ShutDown(m)
      BY <3>1, <3>2, <3>4, DisarmLength DEF ShutDown, NextDisarm, Node
    <3> QED BY <2>1, <3>2, <3>5
  <2>6. CASE Close
    <3>1. ShutDown(m)
      BY <2>6 DEF Close, ShutDown, Node
    <3> QED BY <2>1, <2>6, <3>1 DEF Close, bus, history
  <2>7. CASE Crash
    BY <2>7 DEF Crash
  <2>8. ASSUME NEW n \in Node, Receive(n) \/ Unheard(n) \/ LoseAnswer(n)
        PROVE  Doomed(m)'
    BY <2>1, <2>8
       DEF Receive, Unheard, LoseAnswer, Heard, host, history, ShutDown
  \* A frame leaves a queue.
  <2>9. ASSUME NEW n \in Node, Taken(n), fumbled \subseteq fumbled', UNCHANGED host,
               drive' = [drive EXCEPT ![n] = drive'[n]],
               Ends(Head(inbox[n])) => n \in fumbled' \/ drive'[n].cia # "enabled",
               drive[n].cia # "enabled" /\ ~Enables(Head(inbox[n]))
                 => drive'[n].cia # "enabled"
        PROVE  Doomed(m)'
    <3>1. ShutDown(m) /\ m \notin fumbled
      BY <2>9 DEF host, ShutDown
    <3>2. inbox \in [Node -> Seq(Frame)] /\ drive \in [Node -> Drive]
      BY DEF TypeOK
    <3>3. CASE m # n
      <4>1. inbox'[m] = inbox[m]
        BY <2>9, <3>2, <3>3 DEF Taken
      <4>2. drive'[m] = drive[m]
        BY <2>9, <3>2, <3>3
      <4> QED BY <2>1, <2>9, <3>1, <4>1, <4>2
    <3>4. CASE m = n
      <4>1. Doomed(m)
        BY <3>1 DEF DisarmInv
      <4>2. inbox[m] # <<>> /\ inbox'[m] = Tail(inbox[m])
        BY <2>9, <3>2, <3>4 DEF Taken
      <4>3. CASE Doomed(m)'
        BY <4>3
      <4>4. CASE /\ \A i \in 1..Len(inbox'[m]) : ~Enables(inbox'[m][i])
                 /\ \/ drive[m].cia # "enabled" /\ ~Enables(Head(inbox[m]))
                    \/ Ends(Head(inbox[m]))
        <5>1. drive'[m].cia # "enabled"
          BY <2>9, <3>4, <4>4
        <5> QED BY <4>4, <5>1 DEF Doomed
      <4> QED BY <4>1, <4>2, <4>3, <4>4, DoomedTail
    <3> QED BY <3>3, <3>4
  <2>10. ASSUME NEW n \in Node, Handle(n)
         PROVE  Doomed(m)'
    <3> DEFINE f == Head(inbox[n])
    <3>1. Taken(n) /\ UNCHANGED host /\ fumbled' = fumbled
      BY <2>10 DEF Handle, history
    <3>2. inbox[n] \in Seq(Frame) /\ inbox[n] # <<>> /\ drive \in [Node -> Drive]
      BY <3>1 DEF Taken, TypeOK
    <3>3. f \in Frame /\ drive[n] \in Drive
      BY <3>2
    <3> DEFINE d == Obeyed(drive[n], f)
    <3>4. \/ drive' = [drive EXCEPT ![n] = d]
          \/ drive' = drive /\ ~Legal(drive[n], f) /\ IsSdo(f)
      BY <2>10 DEF Handle
    <3>5. Ends(f) => Legal(drive[n], f)
      BY EndsLegal
    <3>6. /\ drive' = [drive EXCEPT ![n] = drive'[n]]
          /\ (drive'[n] = d) \/ (drive'[n] = drive[n] /\ ~Ends(f))
      <4>1. CASE drive' = [drive EXCEPT ![n] = d]
        <5> HIDE DEF d, f
        <5>1. drive'[n] = d
          BY <3>2, <4>1
        <5> QED BY <4>1, <5>1
      <4>2. CASE drive' = drive /\ ~Legal(drive[n], f)
        <5>1. ~Ends(f)
          BY <3>5, <4>2
        <5> HIDE DEF d, f
        <5>2. drive' = [drive EXCEPT ![n] = drive[n]]
          BY <3>2, <4>2
        <5> QED BY <4>2, <5>1, <5>2
      <4> QED BY <3>4, <4>1, <4>2
    <3>7. Ends(f) => drive'[n].cia # "enabled"
      BY <3>3, <3>6, ObeyedEnabled
    <3>8. drive[n].cia # "enabled" /\ ~Enables(f) => drive'[n].cia # "enabled"
      BY <3>3, <3>6, ObeyedEnabled
    <3> QED BY <2>9, <3>1, <3>6, <3>7, <3>8
  <2>11. ASSUME NEW n \in Node, Refuse(n) \/ LoseFrame(n)
         PROVE  Doomed(m)'
    <3>1. Taken(n) /\ UNCHANGED <<host, drive>> /\ fumbled' = Fumble(n, Head(inbox[n]))
      BY <2>11 DEF Refuse, LoseFrame
    <3>2. drive' = [drive EXCEPT ![n] = drive'[n]] /\ drive'[n] = drive[n]
      BY <3>1 DEF TypeOK
    <3> QED BY <2>9, <3>1, <3>2 DEF Fumble
  <2>12. ASSUME NEW n \in Node, Fault(n)
         PROVE  Doomed(m)'
    <3>1. drive \in [Node -> Drive]
      BY DEF TypeOK
    <3>2. UNCHANGED <<host, inbox, fumbled>>
      BY <2>12 DEF Fault, bus
    <3>3. CASE m # n
      <4>1. drive'[m] = drive[m]
        BY <2>12, <3>1, <3>3 DEF Fault
      <4> QED BY <2>1, <3>2, <4>1 DEF host, ShutDown
    <3>4. CASE m = n
      <4>1. drive'[m].cia = "fault"
        BY <2>12, <3>1, <3>4 DEF Fault, Drive
      <4>2. Doomed(m)
        BY <3>2 DEF DisarmInv, host, ShutDown
      <4> QED BY <3>2, <4>1, <4>2 DEF Doomed
    <3> QED BY <3>3, <3>4
  <2>13. ASSUME NEW n \in Node, Reboot(n)
         PROVE  Doomed(m)'
    <3>1. inbox \in [Node -> Seq(Frame)] /\ drive \in [Node -> Drive]
      BY DEF TypeOK
    <3>2. CASE m # n
      <4>1. inbox'[m] = inbox[m] /\ drive'[m] = drive[m]
        BY <2>13, <3>1, <3>2 DEF Reboot
      <4> QED BY <2>1, <2>13, <4>1 DEF Reboot, host, ShutDown
    <3>3. CASE m = n
      <4>1. inbox'[m] = <<>> /\ drive'[m].cia = "disabled"
        BY <2>13, <3>1, <3>3 DEF Reboot, Booted
      <4> QED BY <4>1 DEF Doomed
    <3> QED BY <3>2, <3>3
  <2>14. CASE UNCHANGED vars
    BY <2>1, <2>14 DEF vars, host, bus, history, ShutDown
  <2> QED
    BY <2>2, <2>3, <2>4, <2>5, <2>6, <2>7, <2>8, <2>10, <2>11, <2>12, <2>13,
       <2>14 DEF Next, Transaction, Disarming
<1>3. DisarmInv => Disarmed
  BY DEF DisarmInv, Disarmed, ShutDown
<1>4. QED BY <1>1, <1>2, <1>3, TypeCorrect, PTL DEF Spec

-----------------------------------------------------------------------------
(* One transaction at a time, when every activation starts with a quiet bus. *)

Clear(q) == \A i \in 1..Len(q) : ~IsSdo(q[i])

\* There is one SDO request in the queue, and it has tag t.
Alone(q, t) ==
  \E i \in 1..Len(q) : /\ IsSdo(q[i]) /\ q[i].tag = t
                       /\ \A j \in 1..Len(q) : IsSdo(q[j]) => j = i

LEMMA ClearAppend ==
  ASSUME NEW q \in Seq(Frame), NEW m \in Frame, Clear(q), ~IsSdo(m)
  PROVE  Clear(Append(q, m))
BY DEF Clear

LEMMA ClearTail ==
  ASSUME NEW q \in Seq(Frame), Clear(q), q # <<>>
  PROVE  Clear(Tail(q)) /\ ~IsSdo(Head(q))
BY DEF Clear

LEMMA AloneAppend ==
  ASSUME NEW q \in Seq(Frame), NEW m \in Frame, Clear(q), IsSdo(m)
  PROVE  Alone(Append(q, m), m.tag)
<1> DEFINE r == Append(q, m)
<1>1. Len(r) = Len(q) + 1 /\ r[Len(q) + 1] = m /\ \A i \in 1..Len(q) : r[i] = q[i]
  OBVIOUS
<1>2. Len(q) \in Nat
  OBVIOUS
<1> HIDE DEF r
<1>3. \A j \in 1..Len(r) : IsSdo(r[j]) => j = Len(q) + 1
  BY <1>1, <1>2 DEF Clear
<1>4. Alone(r, m.tag)
  BY <1>1, <1>2, <1>3 DEF Alone
<1> QED BY <1>4 DEF r

\* A request that is alone stays alone until it is handled itself.
LEMMA AloneTail ==
  ASSUME NEW q \in Seq(Frame), NEW t, Alone(q, t), q # <<>>
  PROVE  \/ IsSdo(Head(q)) /\ Head(q).tag = t /\ Clear(Tail(q))
         \/ ~IsSdo(Head(q)) /\ Alone(Tail(q), t)
<1> DEFINE r == Tail(q)
<1>1. /\ Len(q) \in Nat \ {0} /\ Len(r) = Len(q) - 1 /\ Head(q) = q[1]
      /\ \A i \in 1..Len(r) : r[i] = q[i + 1]
  OBVIOUS
<1> HIDE DEF r
<1>2. PICK i \in 1..Len(q) : /\ IsSdo(q[i]) /\ q[i].tag = t
                             /\ \A j \in 1..Len(q) : IsSdo(q[j]) => j = i
  BY DEF Alone
<1>3. CASE i = 1
  <2>1. Clear(r)
    BY <1>1, <1>2, <1>3 DEF Clear
  <2> QED BY <1>1, <1>2, <1>3, <2>1 DEF r
<1>4. CASE i # 1
  <2>1. ~IsSdo(Head(q))
    BY <1>1, <1>2, <1>4
  <2>2. i - 1 \in 1..Len(r) /\ r[i - 1] = q[i]
    BY <1>1, <1>4
  <2>3. \A j \in 1..Len(r) : IsSdo(r[j]) => j = i - 1
    BY <1>1, <1>2
  <2>4. Alone(r, t)
    BY <1>2, <2>2, <2>3 DEF Alone
  <2> QED BY <2>1, <2>4 DEF r
<1> QED BY <1>3, <1>4

\* The request awaited is on its way to drive n ...
Outstanding(n) == /\ slot = None /\ outbox[n] = <<>>
            /\ Alone(inbox[n], <<epoch, step>>)

\* ... or its answer is on its way back.
Answering(n) == /\ slot = None /\ Clear(inbox[n])
                /\ Len(outbox[n]) = 1 /\ Head(outbox[n]).tag = <<epoch, step>>

QuietInv ==
  /\ phase = "configuring" => \A n \in Node : Idle(n)
  /\ phase = "waiting" =>
       /\ \A n \in Node \ {node} : Idle(n)
       /\ slot = None \/ slot.tag = <<epoch, step>>
       /\ Idle(node) \/ Outstanding(node) \/ Answering(node)

LEMMA IdleIsClear ==
  ASSUME NEW n \in Node
  PROVE  Idle(n) <=> outbox[n] = <<>> /\ Clear(inbox[n])
BY DEF Idle, Clear

LEMMA QuietIsOneInFlight ==
  ASSUME TypeOK, InRange, QuietInv
  PROVE  OneInFlight /\ AnswerIsOwn
<1>1. ASSUME Activating, NEW n \in Node, Idle(n)
      PROVE  Pending(n) = {} /\ outbox[n] = <<>>
  BY <1>1 DEF Idle, Pending
<1>2. AnswerIsOwn
  <2> SUFFICES ASSUME phase = "waiting", slot.from = node
               PROVE  slot.tag = <<epoch, step>>
    BY DEF AnswerIsOwn, Answered, Matches
  <2>1. node \in Node
    BY DEF InRange, Activating
  <2>2. slot # None
    BY <2>1 DEF None, Node
  <2> QED BY <2>2 DEF QuietInv
<1>3. OneInFlight
  <2> SUFFICES ASSUME Activating
               PROVE  /\ \A n \in Node :
                           /\ \A i \in Pending(n) : inbox[n][i].tag = <<epoch, step>>
                           /\ \A i \in 1..Len(outbox[n]) :
                                outbox[n][i].tag = <<epoch, step>>
                           /\ ~Idle(n) => n = node /\ phase = "waiting" /\ slot = None
                      /\ \A i, j \in Pending(node) : i = j
                      /\ Len(outbox[node]) <= 1
                      /\ Pending(node) # {} => outbox[node] = <<>>
    BY DEF OneInFlight
  <2>1. node \in Node
    BY DEF InRange
  <2>2. CASE \A n \in Node : Idle(n)
    BY <1>1, <2>1, <2>2
  <2>3. ASSUME phase = "waiting", \A n \in Node \ {node} : Idle(n), Outstanding(node)
        PROVE  OneInFlight
    <3>1. /\ \A i \in Pending(node) : inbox[node][i].tag = <<epoch, step>>
          /\ \A i, j \in Pending(node) : i = j
      BY <2>3 DEF Outstanding, Alone, Pending
    <3> QED BY <1>1, <2>1, <2>3, <3>1 DEF Outstanding, OneInFlight
  <2>4. ASSUME phase = "waiting", \A n \in Node \ {node} : Idle(n), Answering(node)
        PROVE  OneInFlight
    <3>1. Pending(node) = {}
      BY <2>4 DEF Answering, Clear, Pending
    <3>2. outbox[node] \in Seq(Answer)
      BY <2>1 DEF TypeOK
    <3>3. \A i \in 1..Len(outbox[node]) : outbox[node][i].tag = <<epoch, step>>
      BY <2>4, <3>2 DEF Answering
    <3>4. Len(outbox[node]) <= 1
      BY <2>4 DEF Answering
    <3> QED BY <1>1, <2>1, <2>4, <3>1, <3>3, <3>4 DEF Answering, OneInFlight
  <2> QED BY <2>1, <2>2, <2>3, <2>4 DEF QuietInv, Activating, OneInFlight
<1> QED BY <1>2, <1>3

\* Nothing is under way before the first activation.
NoneBegun ==
  backlog = 0 =>
    phase = "inactive" /\ \A n \in Node : inbox[n] = <<>> /\ outbox[n] = <<>>

LEMMA NoneBegunAlways == Spec => []NoneBegun
<1>1. Init => NoneBegun
  BY DEF Init, NoneBegun
<1>2. TypeOK /\ NoneBegun /\ [Next]_vars => NoneBegun'
  <2> SUFFICES ASSUME TypeOK, NoneBegun, [Next]_vars, backlog' = 0
               PROVE  NoneBegun'
    BY DEF NoneBegun
  <2> USE DEF NoneBegun
  <2>1. CASE Activate
    BY <2>1 DEF Activate, OneMore, TypeOK
  <2>2. CASE UNCHANGED vars
    BY <2>2 DEF vars, host, bus, history
  <2>3. CASE backlog # 0
    BY <2>1, <2>2, <2>3
       DEF Next, Transaction, Disarming, SendNmt, SendSdo, Proceed, AskWhy,
           GiveUp, SendFails, Deactivate, DisarmSend, Close, DisarmSendFails, Crash,
           Receive, Unheard, Handle, Refuse, LoseFrame, LoseAnswer, Fault, Reboot, history
  <2>4. CASE backlog = 0
    <3>1. ASSUME NEW n \in Node
          PROVE  /\ ~Taken(n) /\ ~Heard(n)
                 /\ Fault(n) \/ Reboot(n) => NoneBegun'
      BY <2>4 DEF Taken, Heard, Fault, Reboot, TypeOK, host, bus
    <3>2. phase = "inactive"
      BY <2>4
    <3> QED
      BY <2>1, <2>2, <3>1, <3>2
         DEF Next, Transaction, Disarming, SendNmt, SendSdo, Proceed, AskWhy, Answered,
             GiveUp, Timeout, SendFails, Deactivate, DisarmSend, Close, DisarmSendFails,
             Crash, Receive, Unheard, Handle, Refuse, LoseFrame, LoseAnswer
  <2> QED BY <2>3, <2>4
<1>3. QED BY <1>1, <1>2, TypeCorrect, PTL DEF Spec

\* With a backlog of at most one every activation begins with nothing under way.
LEMMA BeginsQuiet ==
  ASSUME MaxBacklog = 1, TypeOK, NoneBegun, Activate
  PROVE  \A n \in Node : Idle(n)
<1> SUFFICES ASSUME NEW n \in Node, ~Idle(n)
             PROVE  FALSE
  OBVIOUS
<1>1. backlog + 1 <= 1 /\ backlog \in Nat
  BY DEF Activate, OneMore, TypeOK
<1>2. backlog = 0
  BY <1>1
<1> QED BY <1>2 DEF NoneBegun, Idle

\* Then the bus is quiet between transactions.
LEMMA QuietAlways ==
  ASSUME MaxBacklog = 1
  PROVE  Spec => []QuietInv
<1>1. Init => QuietInv
  BY DEF Init, QuietInv
<1>2. TypeOK /\ InRange /\ NoneBegun /\ QuietInv /\ [Next]_vars => QuietInv'
  <2> SUFFICES ASSUME TypeOK, InRange, NoneBegun, QuietInv, [Next]_vars
               PROVE  QuietInv'
    OBVIOUS
  <2> USE PxxAssumption
  <2>1. CASE phase' \notin {"configuring", "waiting"}
    BY <2>1 DEF QuietInv
  <2>2. CASE Activate
    BY <2>2, BeginsQuiet DEF Activate, bus, QuietInv, Idle
  <2>3. CASE SendNmt
    <3> DEFINE m == Message(Line(step), <<epoch, step>>)
    <3>1. node \in Node /\ \A n \in Node : Idle(n)
      BY <2>3 DEF SendNmt, InRange, Activating, QuietInv
    <3>2. m \in Frame /\ ~IsSdo(m)
      BY <2>3, MessageType DEF SendNmt, TypeOK, Message, IsSdo
    <3>3. inbox \in [Node -> Seq(Frame)]
      BY DEF TypeOK
    <3>4. inbox' = [inbox EXCEPT ![node] = Append(@, m)] /\ outbox' = outbox
      BY <2>3 DEF SendNmt, Post
    <3> HIDE DEF m
    <3>5. ASSUME NEW n \in Node PROVE Idle(n)'
      <4>1. outbox[n] = <<>> /\ Clear(inbox[n])
        BY <3>1, IdleIsClear
      <4>2. Clear(inbox'[n])
        BY <3>1, <3>2, <3>3, <3>4, <4>1, ClearAppend
      <4> QED BY <3>4, <4>1, <4>2 DEF Idle, Clear
    <3>6. phase' # "waiting"
      BY <2>3 DEF SendNmt, Advance
    <3> QED BY <3>5, <3>6 DEF QuietInv
  <2>4. CASE SendSdo
    <3> DEFINE m == Message(Line(step), <<epoch, step>>)
    <3>1. node \in Node /\ \A n \in Node : Idle(n)
      BY <2>4 DEF SendSdo, InRange, Activating, QuietInv
    <3>2. m \in Frame /\ IsSdo(m) /\ m.tag = <<epoch, step>>
      BY <2>4, MessageType DEF SendSdo, TypeOK, Message, IsSdo
    <3>3. inbox \in [Node -> Seq(Frame)]
      BY DEF TypeOK
    <3>4. inbox' = [inbox EXCEPT ![node] = Append(@, m)] /\ outbox' = outbox
      BY <2>4 DEF SendSdo, Post
    <3>5. /\ phase' = "waiting" /\ node' = node /\ step' = step
          /\ slot' = None /\ epoch' = epoch
      BY <2>4 DEF SendSdo, history
    <3> HIDE DEF m
    <3>6. ASSUME NEW n \in Node \ {node} PROVE Idle(n)'
      BY <3>1, <3>3, <3>4 DEF Idle
    <3>7. Outstanding(node)'
      <4>1. outbox[node] = <<>> /\ Clear(inbox[node])
        BY <3>1, IdleIsClear
      <4>2. Alone(inbox'[node], <<epoch, step>>)
        BY <3>1, <3>2, <3>3, <3>4, <4>1, AloneAppend
      <4> QED BY <3>4, <3>5, <4>1, <4>2 DEF Outstanding
    <3> QED BY <3>5, <3>6, <3>7 DEF QuietInv
  <2>5. CASE SendFails \/ GiveUp \/ Deactivate \/ Close \/ Crash
    BY <2>1, <2>5 DEF SendFails, GiveUp, Deactivate, Close, Crash, StartDisarm
  <2>6. CASE Proceed \/ AskWhy
    <3>1. phase = "waiting" /\ slot.from = node /\ phase' # "waiting"
      BY <2>6 DEF Proceed, AskWhy, Answered, Matches, Advance
    <3>2. slot # None
      BY <3>1 DEF None, InRange, Activating, Node
    <3>3. \A n \in Node : Idle(n)
      BY <3>1, <3>2 DEF QuietInv, Outstanding, Answering
    <3>4. \A n \in Node : Idle(n)'
      BY <2>6, <3>3 DEF Proceed, AskWhy, bus, Idle
    <3> QED BY <3>1, <3>4 DEF QuietInv
  <2>7. CASE DisarmSend \/ DisarmSendFails
    BY <2>1, <2>7 DEF DisarmSend, DisarmSendFails
  \* Only the queues of drive n change; the slot may receive its answer.
  <2>8. ASSUME NEW n \in Node,
               UNCHANGED <<phase, node, step, epoch>>,
               \A m \in Node \ {n} : inbox'[m] = inbox[m] /\ outbox'[m] = outbox[m],
               Idle(n) => Idle(n)' /\ slot' = slot,
               Outstanding(n) \/ Answering(n)
                 => \/ Idle(n)' /\ (slot' = None \/ slot'.tag = <<epoch, step>>)
                    \/ Outstanding(n)' \/ Answering(n)'
        PROVE  QuietInv'
    <3>1. \A m \in Node \ {n} : Idle(m) => Idle(m)'
      BY <2>8 DEF Idle
    <3>2. ASSUME phase = "configuring" PROVE \A m \in Node : Idle(m)'
      BY <2>8, <3>1, <3>2 DEF QuietInv
    <3>3. ASSUME phase = "waiting"
          PROVE  /\ \A m \in Node \ {node} : Idle(m)'
                 /\ slot' = None \/ slot'.tag = <<epoch, step>>
                 /\ (Idle(node) \/ Outstanding(node) \/ Answering(node))'
      <4>1. node \in Node
        BY <3>3 DEF InRange, Activating
      <4>2. CASE n # node
        <5>1. Idle(n) /\ slot' = slot
          BY <2>8, <3>3, <4>2 DEF QuietInv
        <5>2. \A m \in Node \ {node} : Idle(m)'
          BY <2>8, <3>1, <3>3, <5>1 DEF QuietInv
        <5>3. inbox'[node] = inbox[node] /\ outbox'[node] = outbox[node]
          BY <2>8, <4>1, <4>2
        <5>4. (Idle(node) \/ Outstanding(node) \/ Answering(node))'
          BY <2>8, <3>3, <5>1, <5>3 DEF QuietInv, Idle, Outstanding, Answering
        <5> QED BY <3>3, <5>1, <5>2, <5>4 DEF QuietInv
      <4>3. CASE n = node
        <5>1. \A m \in Node \ {node} : Idle(m)'
          BY <3>1, <3>3, <4>3 DEF QuietInv
        <5>2. CASE Idle(n)
          BY <2>8, <3>3, <4>3, <5>1, <5>2 DEF QuietInv
        <5>3. CASE Outstanding(n) \/ Answering(n)
          <6>1. Outstanding(n)' \/ Answering(n)' => slot' = None
            BY DEF Outstanding, Answering
          <6> QED BY <2>8, <4>3, <5>1, <5>3, <6>1
        <5> QED BY <3>3, <4>3, <5>2, <5>3 DEF QuietInv
      <4> QED BY <4>2, <4>3
    <3> QED BY <2>8, <3>2, <3>3 DEF QuietInv
  \* The drive takes the oldest frame of its queue, and may answer a request.
  <2>9. ASSUME NEW n \in Node, Taken(n), UNCHANGED <<host, epoch>>,
               ~IsSdo(Head(inbox[n])) => outbox' = outbox,
               IsSdo(Head(inbox[n])) =>
                 \/ outbox' = outbox
                 \/ \E a \in Answer : Answers(n, a) /\ a.tag = Head(inbox[n]).tag
        PROVE  QuietInv'
    <3>1. inbox \in [Node -> Seq(Frame)] /\ outbox \in [Node -> Seq(Answer)]
      BY DEF TypeOK
    <3>2. inbox[n] # <<>> /\ inbox'[n] = Tail(inbox[n])
      BY <2>9, <3>1 DEF Taken
    <3>3. \A m \in Node \ {n} : inbox'[m] = inbox[m] /\ outbox'[m] = outbox[m]
      BY <2>9, <3>1 DEF Taken, Answers
    <3>4. ASSUME Idle(n) PROVE Idle(n)' /\ slot' = slot
      <4>1. Clear(inbox'[n]) /\ ~IsSdo(Head(inbox[n])) /\ outbox[n] = <<>>
        BY <3>1, <3>2, <3>4, IdleIsClear, ClearTail
      <4> QED BY <2>9, <4>1 DEF Idle, Clear, host
    <3>5. ASSUME Outstanding(n) \/ Answering(n)
          PROVE  Idle(n)' \/ Outstanding(n)' \/ Answering(n)'
      <4>1. slot' = None /\ epoch' = epoch /\ step' = step
        BY <2>9, <3>5 DEF Outstanding, Answering, host
      <4>2. CASE Answering(n)
        <5>1. Clear(inbox'[n]) /\ ~IsSdo(Head(inbox[n]))
          BY <3>1, <3>2, <4>2, ClearTail DEF Answering
        <5> QED BY <2>9, <4>1, <4>2, <5>1 DEF Answering
      <4>3. CASE Outstanding(n) /\ ~IsSdo(Head(inbox[n]))
        <5>1. Alone(inbox'[n], <<epoch, step>>)
          BY <3>1, <3>2, <4>3, AloneTail DEF Outstanding
        <5> QED BY <2>9, <4>1, <4>3, <5>1 DEF Outstanding
      <4>4. CASE Outstanding(n) /\ IsSdo(Head(inbox[n]))
        <5>1. Head(inbox[n]).tag = <<epoch, step>> /\ Clear(inbox'[n])
          BY <3>1, <3>2, <4>4, AloneTail DEF Outstanding
        <5>2. CASE outbox' = outbox
          BY <4>4, <5>1, <5>2 DEF Outstanding, Idle, Clear
        <5>3. ASSUME NEW a \in Answer, Answers(n, a), a.tag = Head(inbox[n]).tag
              PROVE  Answering(n)'
          <6>1. outbox'[n] = Append(<<>>, a)
            BY <3>1, <4>4, <5>3 DEF Outstanding, Answers
          <6>2. Len(outbox'[n]) = 1 /\ Head(outbox'[n]) = a
            BY <6>1
          <6> QED BY <4>1, <5>1, <5>3, <6>2 DEF Answering
        <5> QED BY <2>9, <4>4, <5>2, <5>3
      <4> QED BY <3>5, <4>2, <4>3, <4>4
    <3>6. Outstanding(n) \/ Answering(n) => slot' = None
      BY <2>9 DEF Outstanding, Answering, host
    <3> QED BY <2>8, <2>9, <3>3, <3>4, <3>5, <3>6 DEF host
  <2>10. ASSUME NEW n \in Node, Handle(n) PROVE QuietInv'
    <3> DEFINE f == Head(inbox[n])
    <3>1. Taken(n) /\ UNCHANGED <<host, epoch>>
      BY <2>10 DEF Handle, history
    <3>2. f \in Frame
      BY <3>1 DEF Taken, TypeOK
    <3>3. drive \in [Node -> Drive]
      BY DEF TypeOK
    <3>4. /\ Reply(n, f, TRUE, drive[n].cia) \in Answer
          /\ Reply(n, f, FALSE, "illegal") \in Answer
      BY <3>2, <3>3, ReplyType DEF Drive
    <3>5. \A ok, v : Reply(n, f, ok, v).tag = f.tag
      BY DEF Reply
    <3>6. ~IsSdo(f) => outbox' = outbox
      BY <2>10 DEF Handle
    <3>7. IsSdo(f) => \E a \in Answer : Answers(n, a) /\ a.tag = f.tag
      BY <2>10, <3>4, <3>5 DEF Handle
    <3> QED BY <2>9, <3>1, <3>6, <3>7
  <2>11. ASSUME NEW n \in Node, Refuse(n) PROVE QuietInv'
    <3> DEFINE a == Reply(n, Head(inbox[n]), FALSE, "refused")
    <3>1. Head(inbox[n]) \in Frame
      BY <2>11 DEF Refuse, Taken, TypeOK
    <3>2. a \in Answer /\ a.tag = Head(inbox[n]).tag
      BY <3>1, ReplyType DEF Reply
    <3> QED BY <2>9, <2>11, <3>2 DEF Refuse, host
  <2>12. ASSUME NEW n \in Node, LoseFrame(n) PROVE QuietInv'
    BY <2>9, <2>12 DEF LoseFrame
  \* An answer leaves the queue of the drive; it may go to the slot.
  <2>13. ASSUME NEW n \in Node, Heard(n), inbox' = inbox,
                UNCHANGED <<phase, node, step, epoch>>,
                slot' \in {slot, Head(outbox[n])}
         PROVE  QuietInv'
    <3>1. outbox \in [Node -> Seq(Answer)]
      BY DEF TypeOK
    <3>2. outbox[n] # <<>> /\ outbox'[n] = Tail(outbox[n])
      BY <2>13, <3>1 DEF Heard
    <3>3. \A m \in Node \ {n} : inbox'[m] = inbox[m] /\ outbox'[m] = outbox[m]
      BY <2>13, <3>1 DEF Heard
    <3>4. ~Idle(n) /\ ~Outstanding(n)
      BY <3>2 DEF Idle, Outstanding
    <3>5. ASSUME Answering(n)
          PROVE  Idle(n)' /\ (slot' = None \/ slot'.tag = <<epoch, step>>)
      <4>1. outbox[n] \in Seq(Answer) /\ Len(outbox[n]) = 1
        BY <3>1, <3>5 DEF Answering
      <4>2. Len(outbox'[n]) = 0 /\ outbox'[n] \in Seq(Answer)
        BY <3>2, <4>1
      <4>3. outbox'[n] = <<>>
        BY <4>2
      <4> QED BY <2>13, <3>5, <4>3 DEF Answering, Idle, Clear
    <3> QED BY <2>8, <2>13, <3>3, <3>4, <3>5
  <2>14. ASSUME NEW n \in Node, Receive(n) \/ Unheard(n) \/ LoseAnswer(n)
         PROVE  QuietInv'
    BY <2>13, <2>14 DEF Receive, Unheard, LoseAnswer, host, history
  <2>15. ASSUME NEW n \in Node, Fault(n) PROVE QuietInv'
    BY <2>15 DEF Fault, host, bus, QuietInv, Idle, Outstanding, Answering
  <2>16. ASSUME NEW n \in Node, Reboot(n) PROVE QuietInv'
    <3>1. inbox \in [Node -> Seq(Frame)] /\ outbox \in [Node -> Seq(Answer)]
      BY DEF TypeOK
    <3>2. UNCHANGED <<host, epoch>>
      BY <2>16 DEF Reboot
    <3>3. \A m \in Node \ {n} : inbox'[m] = inbox[m] /\ outbox'[m] = outbox[m]
      BY <2>16, <3>1 DEF Reboot
    <3>4. Idle(n)'
      BY <2>16, <3>1 DEF Reboot, Idle
    <3>5. Outstanding(n) \/ Answering(n) => slot' = None
      BY <3>2 DEF Outstanding, Answering, host
    <3> QED BY <2>8, <3>2, <3>3, <3>4, <3>5 DEF host
  <2>17. CASE UNCHANGED vars
    BY <2>17
       DEF vars, host, bus, history, QuietInv, Idle, Outstanding, Answering
  <2> QED
    BY <2>2, <2>3, <2>4, <2>5, <2>6, <2>7, <2>10, <2>11, <2>12, <2>14, <2>15,
       <2>16, <2>17 DEF Next, Transaction, Disarming
<1>3. QED BY <1>1, <1>2, TypeCorrect, NoneBegunAlways, PTL DEF Spec

\* If no activation starts while a drive still owes an answer to an earlier
\* one, the promise of the SDO client holds: one transaction is in flight at a
\* time, and the answer accepted is the answer to the request sent.
THEOREM QuietOneInFlight ==
  ASSUME MaxBacklog = 1
  PROVE  Spec => [](OneInFlight /\ AnswerIsOwn)
<1>1. TypeOK /\ InRange /\ QuietInv => OneInFlight /\ AnswerIsOwn
  BY QuietIsOneInFlight
<1>2. QED BY <1>1, QuietAlways, TypeCorrect, PTL

\* The second half by itself: sdo_transaction never accepts the answer to an
\* earlier request for the same object.
THEOREM OwnAnswers ==
  ASSUME MaxBacklog = 1
  PROVE  Spec => []AnswerIsOwn
BY QuietOneInFlight, PTL
-----------------------------------------------------------------------------
(* The lines of configure_node one by one, and what they leave behind.      *)

LEMMA ProgramIs ==
  /\ Program[1] = Nmt("PreOperational")
  /\ Program[2] = Write("6040", 0, "FaultReset")
  /\ Program[3] = Write("6060", 0, "CSP")
  /\ Program[4] = Write("1400", 1, "off")
  /\ Program[5] = Write("1600", 0, "0")
  /\ Program[6] = Write("1600", 1, "607A")
  /\ Program[7] = Write("1600", 0, "1")
  /\ Program[8] = Write("1400", 2, "sync")
  /\ Program[9] = Write("1400", 1, "on")
  /\ Program[10] = Write("1800", 1, "off")
  /\ Program[11] = Write("1A00", 0, "0")
  /\ Program[12] = Write("1A00", 1, "6064")
  /\ Program[13] = Write("1A00", 2, "606C")
  /\ Program[14] = Write("1A00", 0, "2")
  /\ Program[15] = Write("1800", 2, "sync")
  /\ Program[16] = Write("1800", 1, "on")
  /\ Program[17] = Write("1801", 1, "off")
  /\ Program[18] = Write("1A01", 0, "0")
  /\ Program[19] = Write("1A01", 1, "6041")
  /\ Program[20] = Write("1A01", 0, "1")
  /\ Program[21] = Write("1801", 2, "sync")
  /\ Program[22] = Write("1801", 1, "on")
  /\ Program[23] = Read("6064")
  /\ Program[24] = Write("607A", 0, "position")
  /\ Program[25] = Nmt("Start")
  /\ Program[26] = Write("6040", 0, "Shutdown")
  /\ Program[27] = Write("6040", 0, "SwitchOn")
  /\ Program[28] = Write("6040", 0, "EnableOperation")
  /\ Program[29] = Read("6041")
BY DEF Program, Prepare, Seed, StartAndEnable, Remap, RemapMotion

LEMMA LineIs ==
  /\ AskErrorCode = 30 /\ Line(30) = Read("603F")
  /\ \A s \in 1..29 : Line(s) = Program[s]
BY ProgramLength DEF AskErrorCode, Line

\* Lines 1 and 25 are NMT commands; the others are requests to an object.
LEMMA SdoLines ==
  ASSUME NEW s \in 1..30
  PROVE  /\ IsSdo(Line(s)) <=> s \notin {1, 25}
         /\ s \notin {1, 25} => Line(s).key # <<"nmt", 0>>
<1>1. CASE s <= 15
  BY <1>1, LineIs, ProgramIs DEF IsSdo, Nmt, Write
<1>2. CASE s > 15
  BY <1>2, LineIs, ProgramIs DEF IsSdo, Nmt, Write, Read
<1>3. QED BY <1>1, <1>2

LEMMA LinesByNumber ==
  /\ Line(1).value = "PreOperational" /\ Line(25).value = "Start"
  /\ Line(23).key = <<"6064", 0>>
  /\ Line(29).key = <<"6041", 0>> /\ Line(29).kind = "read"
BY LineIs, ProgramIs DEF Nmt, Read

LEMMA StatusLine ==
  ASSUME NEW s \in 1..30, Line(s).key = <<"6041", 0>>
  PROVE  s = 29
<1>1. CASE s <= 15
  BY <1>1, LineIs, ProgramIs DEF Nmt, Write
<1>2. CASE s > 15
  BY <1>2, LineIs, ProgramIs DEF Nmt, Write, Read
<1>3. QED BY <1>1, <1>2

LEMMA TargetLine ==
  ASSUME NEW s \in 1..30, Line(s).key = <<"607A", 0>>
  PROVE  s = 24
<1>1. CASE s <= 15
  BY <1>1, LineIs, ProgramIs DEF Nmt, Write
<1>2. CASE s > 15
  BY <1>2, LineIs, ProgramIs DEF Nmt, Write, Read
<1>3. QED BY <1>1, <1>2

LEMMA EnableLine ==
  ASSUME NEW s \in 1..30, Line(s).value = "EnableOperation"
  PROVE  s = 28
<1>1. CASE s <= 15
  BY <1>1, LineIs, ProgramIs DEF Nmt, Write
<1>2. CASE s > 15
  BY <1>2, LineIs, ProgramIs DEF Nmt, Write, Read
<1>3. QED BY <1>1, <1>2

\* The write that line l of the program leaves behind after line k.
Written(l, k) ==
  /\ Program[l].kind = "write"
  /\ \A m \in l+1..k : ~(Program[m].kind = "write" /\ Program[m].key = Program[l].key)

\* The objects of a drive that has carried out lines 1..k.
After(d, k) == \A l \in 1..k : Written(l, k) => d.od[Program[l].key] = Program[l].value

\* f is a frame with the contents of line s.
IsLine(f, s) == f.kind = Line(s).kind /\ f.key = Line(s).key /\ f.value = Line(s).value

\* A frame that is no write leaves the objects as they were.
LEMMA ObeyedKeeps ==
  ASSUME NEW d \in Drive, NEW f \in Frame, f.kind # "write"
  PROVE  Obeyed(d, f).od = d.od /\ Obeyed(d, f).target = d.target
BY DEF Obeyed, Drive

LEMMA ObeyedWrites ==
  ASSUME NEW d \in Drive, NEW f \in Frame, f.kind = "write", f.key \in Objects
  PROVE  /\ Obeyed(d, f).od = [d.od EXCEPT ![f.key] = f.value]
         /\ Obeyed(d, f).nmt = d.nmt
         /\ Obeyed(d, f).target = IF f.key = <<"607A", 0>> THEN f.at ELSE d.target
BY DEF Obeyed, Drive

\* A line that is no write adds nothing to what a drive has been told.
LEMMA AfterOther ==
  ASSUME NEW d, NEW e, NEW k \in 1..29, After(d, k - 1), e.od = d.od,
         Program[k].kind # "write"
  PROVE  After(e, k)
<1> SUFFICES ASSUME NEW l \in 1..k, Written(l, k)
             PROVE  e.od[Program[l].key] = Program[l].value
  BY DEF After
<1>1. l # k
  BY DEF Written
<1>2. l \in 1..k-1 /\ Written(l, k - 1)
  BY <1>1 DEF Written
<1>3. QED BY <1>2 DEF After

\* A drive that carries out the next line has carried out all the lines so far.
LEMMA AfterWrite ==
  ASSUME NEW d \in Drive, NEW f \in Frame, NEW k \in 1..29, After(d, k - 1),
         IsLine(f, k), f.kind = "write", f.key \in Objects
  PROVE  After(Obeyed(d, f), k)
<1> DEFINE e == Obeyed(d, f)
<1>1. e.od = [d.od EXCEPT ![f.key] = f.value] /\ d.od \in [Objects -> Value]
  BY ObeyedWrites DEF Drive
<1>2. f.key = Program[k].key /\ f.value = Program[k].value /\ Program[k].kind = "write"
  BY LineIs DEF IsLine
<1> HIDE DEF e
<1> SUFFICES ASSUME NEW l \in 1..k, Written(l, k)
             PROVE  e.od[Program[l].key] = Program[l].value
  BY DEF After, e
<1>3. CASE l = k
  BY <1>1, <1>2, <1>3
<1>4. CASE l # k
  <2>1. l \in 1..k-1 /\ Written(l, k - 1) /\ Program[l].key # f.key
    BY <1>2, <1>4 DEF Written
  <2>2. d.od[Program[l].key] = Program[l].value
    BY <2>1 DEF After
  <2>3. Program[l].key \in Objects
    <3>1. Program[l].kind = "write" /\ Line(l) = Program[l]
      BY LineIs DEF Written
    <3>2. IsSdo(Line(l))
      BY <3>1 DEF IsSdo
    <3> QED BY <3>1, <3>2, SdoLines, LineIs, LineType DEF Objects
  <2> QED BY <1>1, <2>1, <2>2, <2>3
<1>5. QED BY <1>3, <1>4

\* A write of the program is in effect as long as no later line overwrites it:
\* a PDO is off while it is mapped, and its count is zero while its entries
\* are written.
LEMMA FirstOff == ASSUME NEW k \in 4..6 PROVE Written(4, k)
<1>1. Program[4].kind = "write" /\ \A m \in 5..6 : Program[m].key # Program[4].key
  BY ProgramIs DEF Write
<1>2. QED BY <1>1 DEF Written

LEMMA SecondOff == ASSUME NEW k \in 10..13 PROVE Written(10, k)
<1>1. Program[10].kind = "write" /\ \A m \in 11..13 : Program[m].key # Program[10].key
  BY ProgramIs DEF Write
<1>2. QED BY <1>1 DEF Written

LEMMA ThirdOff == ASSUME NEW k \in 17..19 PROVE Written(17, k)
<1>1. Program[17].kind = "write" /\ \A m \in 18..19 : Program[m].key # Program[17].key
  BY ProgramIs DEF Write
<1>2. QED BY <1>1 DEF Written

LEMMA CountStillZero ==
  Written(5, 5) /\ Written(11, 11) /\ Written(11, 12) /\ Written(18, 18)
BY ProgramIs DEF Written, Nmt, Write, Read

LEMMA SwitchIs ==
  /\ Switch("1600") = <<"1400", 1>>
  /\ Switch("1A00") = <<"1800", 1>>
  /\ Switch("1A01") = <<"1801", 1>>
BY DEF Switch

\* The PDO objects are written by lines 4 to 22, their mappings by these.
LEMMA PdoLines ==
  ASSUME NEW s \in 1..30, Line(s).kind = "write"
  PROVE  /\ IsPdo(Line(s).key) => s \in 4..22
         /\ IsMapping(Line(s).key) => s \in {5, 6, 7, 11, 12, 13, 14, 18, 19, 20}
<1>1. CASE s <= 10
  BY <1>1, LineIs, ProgramIs DEF Nmt, Write, IsPdo, IsMapping
<1>2. CASE s > 10 /\ s <= 20
  BY <1>2, LineIs, ProgramIs DEF Nmt, Write, IsPdo, IsMapping
<1>3. CASE s > 20
  BY <1>3, LineIs, ProgramIs DEF Nmt, Write, Read, IsPdo, IsMapping
<1>4. QED BY <1>1, <1>2, <1>3

\* The lines that write each of the objects Ready looks at.
WrittenBy(s) ==
  /\ Program[s].key = <<"6060", 0>> => s = 3
  /\ Program[s].key = <<"1600", 0>> => s <= 7
  /\ Program[s].key = <<"1600", 1>> => s = 6
  /\ Program[s].key = <<"1400", 1>> => s <= 9
  /\ Program[s].key = <<"1400", 2>> => s = 8
  /\ Program[s].key = <<"1A00", 0>> => s <= 14
  /\ Program[s].key = <<"1A00", 1>> => s = 12
  /\ Program[s].key = <<"1A00", 2>> => s = 13
  /\ Program[s].key = <<"1800", 1>> => s <= 16
  /\ Program[s].key = <<"1800", 2>> => s = 15
  /\ Program[s].key = <<"1A01", 0>> => s <= 20
  /\ Program[s].key = <<"1A01", 1>> => s = 19
  /\ Program[s].key = <<"1801", 1>> => s <= 22
  /\ Program[s].key = <<"1801", 2>> => s = 21

LEMMA LastWrites == \A s \in 1..29 : WrittenBy(s)
<1> SUFFICES ASSUME NEW s \in 1..29 PROVE WrittenBy(s)
  OBVIOUS
<1>1. CASE s \in 1..8
  BY <1>1, ProgramIs DEF Nmt, Write, WrittenBy
<1>2. CASE s \in 9..16
  BY <1>2, ProgramIs DEF Write, WrittenBy
<1>3. CASE s \in 17..22
  BY <1>3, ProgramIs DEF Write, WrittenBy
<1>4. CASE s \in 23..29
  BY <1>4, ProgramIs DEF Nmt, Write, Read, WrittenBy
<1> QED BY <1>1, <1>2, <1>3, <1>4

\* What the whole program leaves behind is what Ready asks of the objects.
LEMMA ReadyThen ==
  ASSUME NEW n \in Node, After(drive[n], 29),
         drive[n].nmt = "Operational", drive[n].cia = "enabled"
  PROVE  Ready(n)
<1>1. ASSUME NEW l \in 1..29, Program[l].kind = "write",
             \A m \in l+1..29 : Program[m].key # Program[l].key
      PROVE  drive[n].od[Program[l].key] = Program[l].value
  BY <1>1 DEF After, Written
<1>2. drive[n].od[<<"6060", 0>>] = "CSP"
  <2>1. /\ Program[3].key = <<"6060", 0>> /\ Program[3].kind = "write"
        /\ Program[3].value = "CSP"
    BY ProgramIs DEF Write
  <2>2. \A m \in 3+1..29 : Program[m].key # <<"6060", 0>>
    BY LastWrites DEF WrittenBy
  <2> QED BY <1>1, <2>1, <2>2
<1>3. drive[n].od[<<"1600", 0>>] = "1" /\ drive[n].od[<<"1600", 1>>] = "607A"
  <2>1. /\ Program[7].key = <<"1600", 0>> /\ Program[7].kind = "write"
        /\ Program[7].value = "1"
        /\ Program[6].key = <<"1600", 1>> /\ Program[6].kind = "write"
        /\ Program[6].value = "607A"
    BY ProgramIs DEF Write
  <2>2. /\ \A m \in 7+1..29 : Program[m].key # <<"1600", 0>>
        /\ \A m \in 6+1..29 : Program[m].key # <<"1600", 1>>
    BY LastWrites DEF WrittenBy
  <2> QED BY <1>1, <2>1, <2>2
<1>4. drive[n].od[<<"1400", 1>>] = "on" /\ drive[n].od[<<"1400", 2>>] = "sync"
  <2>1. /\ Program[9].key = <<"1400", 1>> /\ Program[9].kind = "write"
        /\ Program[9].value = "on"
        /\ Program[8].key = <<"1400", 2>> /\ Program[8].kind = "write"
        /\ Program[8].value = "sync"
    BY ProgramIs DEF Write
  <2>2. /\ \A m \in 9+1..29 : Program[m].key # <<"1400", 1>>
        /\ \A m \in 8+1..29 : Program[m].key # <<"1400", 2>>
    BY LastWrites DEF WrittenBy
  <2> QED BY <1>1, <2>1, <2>2
<1>5. /\ drive[n].od[<<"1A00", 0>>] = "2" /\ drive[n].od[<<"1A00", 1>>] = "6064"
      /\ drive[n].od[<<"1A00", 2>>] = "606C"
  <2>1. /\ Program[14].key = <<"1A00", 0>> /\ Program[14].kind = "write"
        /\ Program[14].value = "2"
        /\ Program[12].key = <<"1A00", 1>> /\ Program[12].kind = "write"
        /\ Program[12].value = "6064"
        /\ Program[13].key = <<"1A00", 2>> /\ Program[13].kind = "write"
        /\ Program[13].value = "606C"
    BY ProgramIs DEF Write
  <2>2. /\ \A m \in 14+1..29 : Program[m].key # <<"1A00", 0>>
        /\ \A m \in 12+1..29 : Program[m].key # <<"1A00", 1>>
        /\ \A m \in 13+1..29 : Program[m].key # <<"1A00", 2>>
    BY LastWrites DEF WrittenBy
  <2> QED BY <1>1, <2>1, <2>2
<1>6. drive[n].od[<<"1800", 1>>] = "on" /\ drive[n].od[<<"1800", 2>>] = "sync"
  <2>1. /\ Program[16].key = <<"1800", 1>> /\ Program[16].kind = "write"
        /\ Program[16].value = "on"
        /\ Program[15].key = <<"1800", 2>> /\ Program[15].kind = "write"
        /\ Program[15].value = "sync"
    BY ProgramIs DEF Write
  <2>2. /\ \A m \in 16+1..29 : Program[m].key # <<"1800", 1>>
        /\ \A m \in 15+1..29 : Program[m].key # <<"1800", 2>>
    BY LastWrites DEF WrittenBy
  <2> QED BY <1>1, <2>1, <2>2
<1>7. drive[n].od[<<"1A01", 0>>] = "1" /\ drive[n].od[<<"1A01", 1>>] = "6041"
  <2>1. /\ Program[20].key = <<"1A01", 0>> /\ Program[20].kind = "write"
        /\ Program[20].value = "1"
        /\ Program[19].key = <<"1A01", 1>> /\ Program[19].kind = "write"
        /\ Program[19].value = "6041"
    BY ProgramIs DEF Write
  <2>2. /\ \A m \in 20+1..29 : Program[m].key # <<"1A01", 0>>
        /\ \A m \in 19+1..29 : Program[m].key # <<"1A01", 1>>
    BY LastWrites DEF WrittenBy
  <2> QED BY <1>1, <2>1, <2>2
<1>8. drive[n].od[<<"1801", 1>>] = "on" /\ drive[n].od[<<"1801", 2>>] = "sync"
  <2>1. /\ Program[22].key = <<"1801", 1>> /\ Program[22].kind = "write"
        /\ Program[22].value = "on"
        /\ Program[21].key = <<"1801", 2>> /\ Program[21].kind = "write"
        /\ Program[21].value = "sync"
    BY ProgramIs DEF Write
  <2>2. /\ \A m \in 22+1..29 : Program[m].key # <<"1801", 1>>
        /\ \A m \in 21+1..29 : Program[m].key # <<"1801", 2>>
    BY LastWrites DEF WrittenBy
  <2> QED BY <1>1, <2>1, <2>2
<1> QED BY <1>2, <1>3, <1>4, <1>5, <1>6, <1>7, <1>8 DEF Ready

\* The NMT state an NMT command leads to, and the one that line s is meant for.
NmtState(command) == IF command = "Start" THEN "Operational" ELSE "PreOperational"
Expected(s) == IF s <= 25 THEN "PreOperational" ELSE "Operational"

\* The drive accepts every line when it has carried out the lines before.
LEMMA LegalThen ==
  ASSUME NEW d, NEW f, NEW s \in 1..30,
         After(d, s - 1), IsLine(f, s), d.nmt = Expected(s)
  PROVE  Legal(d, f)
<1> DEFINE key == Line(s).key
<1>1. f.kind = Line(s).kind /\ f.key = key
  BY DEF IsLine
<1> SUFFICES ASSUME Line(s).kind = "write", IsPdo(key)
             PROVE  /\ d.nmt = "PreOperational"
                    /\ IsMapping(key) => d.od[Switch(key[1])] = "off"
                    /\ IsMapping(key) /\ key[2] > 0 => d.od[<<key[1], 0>>] = "0"
  BY <1>1 DEF Legal
<1>2. d.nmt = "PreOperational"
  <2>1. s \in 4..22
    BY PdoLines
  <2> QED BY <2>1 DEF Expected
<1>3. ASSUME NEW l \in 1..29, l < s, Written(l, s - 1)
      PROVE  d.od[Program[l].key] = Program[l].value
  BY <1>3 DEF After
<1> SUFFICES ASSUME IsMapping(key)
             PROVE  /\ d.od[Switch(key[1])] = "off"
                    /\ key[2] > 0 => d.od[<<key[1], 0>>] = "0"
  BY <1>2
<1>4. s \in 5..7 \/ s \in 11..14 \/ s \in 18..20
  BY PdoLines
<1>5. CASE s \in 5..7
  <2>1. key[1] = "1600" /\ (key[2] > 0 => s = 6)
    BY <1>5, LineIs, ProgramIs DEF Write
  <2>2. Written(4, s - 1)
    BY <1>5, FirstOff
  <2>3. Program[4].key = <<"1400", 1>> /\ Program[4].value = "off"
    BY ProgramIs DEF Write
  <2>4. Program[5].key = <<"1600", 0>> /\ Program[5].value = "0"
    BY ProgramIs DEF Write
  <2>5. d.od[<<"1400", 1>>] = "off"
    BY <1>3, <1>5, <2>2, <2>3
  <2>6. s = 6 => d.od[<<"1600", 0>>] = "0"
    BY <1>3, <2>4, CountStillZero
  <2> QED BY <2>1, <2>5, <2>6, SwitchIs
<1>6. CASE s \in 11..14
  <2>1. key[1] = "1A00" /\ (key[2] > 0 => s = 12 \/ s = 13)
    BY <1>6, LineIs, ProgramIs DEF Write
  <2>2. Written(10, s - 1)
    BY <1>6, SecondOff
  <2>3. Program[10].key = <<"1800", 1>> /\ Program[10].value = "off"
    BY ProgramIs DEF Write
  <2>4. Program[11].key = <<"1A00", 0>> /\ Program[11].value = "0"
    BY ProgramIs DEF Write
  <2>5. d.od[<<"1800", 1>>] = "off"
    BY <1>3, <1>6, <2>2, <2>3
  <2>6. s = 12 \/ s = 13 => d.od[<<"1A00", 0>>] = "0"
    BY <1>3, <2>4, CountStillZero
  <2> QED BY <2>1, <2>5, <2>6, SwitchIs
<1>7. CASE s \in 18..20
  <2>1. key[1] = "1A01" /\ (key[2] > 0 => s = 19)
    BY <1>7, LineIs, ProgramIs DEF Write
  <2>2. Written(17, s - 1)
    BY <1>7, ThirdOff
  <2>3. Program[17].key = <<"1801", 1>> /\ Program[17].value = "off"
    BY ProgramIs DEF Write
  <2>4. Program[18].key = <<"1A01", 0>> /\ Program[18].value = "0"
    BY ProgramIs DEF Write
  <2>5. d.od[<<"1801", 1>>] = "off"
    BY <1>3, <1>7, <2>2, <2>3
  <2>6. s = 19 => d.od[<<"1A01", 0>>] = "0"
    BY <1>3, <2>4, CountStillZero
  <2> QED BY <2>1, <2>5, <2>6, SwitchIs
<1> QED BY <1>4, <1>5, <1>6, <1>7

-----------------------------------------------------------------------------
(* How far the drives have been configured, when the bus is quiet.          *)

\* The NMT state of drive n once it has handled the first i of its frames, all
\* of them NMT commands.
Settles(n, i, state) ==
  IF i = 0 THEN drive[n].nmt = state ELSE NmtState(inbox[n][i].value) = state

\* From line 24 on the target is the position of this activation, or the one
\* a drive boots with.
TargetSet(n, k) ==
  k >= 24 => drive[n].target = epoch \/ (drive[n].target = 0 /\ n \in upset)

\* Drive n, once it has handled the first i of its frames, is ready for line s.
Prepared(n, i, s) ==
  /\ TargetSet(n, s - 1)
  /\ n \notin upset => After(drive[n], s - 1) /\ Settles(n, i, Expected(s))

\* Frame i on its way to drive n is a line of the program: the only one, and
\* drive n will be ready for it.
Fits(n, i) ==
  \E s \in 2..30 :
    /\ inbox[n][i].tag[2] = s /\ IsLine(inbox[n][i], s)
    /\ \A j \in 1..i-1 : ~IsSdo(inbox[n][j])
    /\ s = 24 => inbox[n][i].at = epoch
    /\ Prepared(n, i - 1, s)

\* Every request on its way is the Shutdown of deactivate(), or fits.
Requested(n) ==
  \A i \in 1..Len(inbox[n]) :
    IsSdo(inbox[n][i]) =>
      inbox[n][i].tag[1] = epoch /\ (Ends(inbox[n][i]) \/ Fits(n, i))

\* Drive n has carried out lines 1..k.
CarriedOut(n, k) ==
  /\ TargetSet(n, k)
  /\ n \notin upset => After(drive[n], k) /\ drive[n].nmt = Expected(k)

\* Answer a is the one to line s, and says that drive n has carried it out.
Carried(n, s, a) ==
  /\ inbox[n] = <<>> /\ a.tag = <<epoch, s>> /\ a.at = epoch
  /\ a.ok /\ s # 30 =>
       /\ CarriedOut(n, s)
       /\ s = 29 /\ n \notin upset => a.value = drive[n].cia

\* Line s is under way at drive n: its request is the last frame in the queue.
Awaiting(n, s) ==
  /\ s \notin {1, 25}
  /\ \A i \in 1..Len(inbox[n]) : IsSdo(inbox[n][i]) => i = Len(inbox[n])
  /\ \A a \in Answer :
       a = slot \/ (outbox[n] # <<>> /\ a = Head(outbox[n])) => Carried(n, s, a)

\* Drive n has carried out the whole program.
Done(n) ==
  /\ inbox[n] = <<>>
  /\ n \notin upset => /\ After(drive[n], 29) /\ drive[n].nmt = "Operational"
                       /\ drive[n].cia = "enabled"

\* Where the main thread is tells how far the drive it works on is.
ConfiguringInv ==
  \A n \in Node, s \in 2..30, i \in Nat :
    phase = "configuring" /\ n = node /\ s = step /\ i = Len(inbox[n])
      => Prepared(n, i, s)

WaitingInv ==
  \A n \in Node, s \in 1..30 :
    phase = "waiting" /\ n = node /\ s = step => Awaiting(n, s)

DoneInv ==
  /\ \A n \in Node : (Activating /\ n < node) \/ phase = "active" => Done(n)
  /\ Activating /\ step >= 24 => position = epoch

HostInv == ConfiguringInv /\ WaitingInv /\ DoneInv

ProgressInv == (\A n \in Node : Requested(n)) /\ NeverIllegal /\ HostInv

\* Nothing happens to what is known of drive n, or it becomes upset.
Kept(n) ==
  /\ epoch' = epoch /\ upset \subseteq upset'
  /\ drive'[n].target = drive[n].target \/ (drive'[n].target = 0 /\ n \in upset')
  /\ n \in upset' \/ (drive'[n] = drive[n] /\ inbox'[n] = inbox[n])

LEMMA PreparedKept ==
  ASSUME NEW n \in Node, NEW i, NEW s, Kept(n), Prepared(n, i, s)
  PROVE  Prepared(n, i, s)'
BY DEF Kept, Prepared, TargetSet, Settles

\* The frames in the queue do not matter for a drive that is upset.
LEMMA PreparedUpset ==
  ASSUME NEW n \in Node, NEW i, NEW s, Kept(n), n \in upset', Prepared(n, i, s)
  PROVE  \A j : Prepared(n, j, s)'
BY DEF Kept, Prepared, TargetSet

LEMMA CarriedKept ==
  ASSUME NEW n \in Node, NEW s, NEW a, Kept(n), Carried(n, s, a),
         inbox'[n] \in {inbox[n], <<>>}
  PROVE  Carried(n, s, a)'
BY DEF Kept, Carried, CarriedOut, TargetSet

LEMMA DoneKept ==
  ASSUME NEW n \in Node, Kept(n), Done(n), inbox'[n] \in {inbox[n], <<>>}
  PROVE  Done(n)'
BY DEF Kept, Done

LEMMA RequestedKept ==
  ASSUME NEW n \in Node, Kept(n), Requested(n), inbox'[n] = inbox[n]
  PROVE  Requested(n)'
<1> SUFFICES ASSUME NEW i \in 1..Len(inbox[n]), IsSdo(inbox[n][i]), Fits(n, i)
             PROVE  Fits(n, i)'
  BY DEF Requested, Kept
<1>1. PICK s \in 2..30 :
        /\ inbox[n][i].tag[2] = s /\ IsLine(inbox[n][i], s)
        /\ \A j \in 1..i-1 : ~IsSdo(inbox[n][j])
        /\ s = 24 => inbox[n][i].at = epoch
        /\ Prepared(n, i - 1, s)
  BY DEF Fits
<1>2. Prepared(n, i - 1, s)'
  BY <1>1, PreparedKept
<1>3. QED BY <1>1, <1>2 DEF Fits, Kept

LEMMA PreparedAppend ==
  ASSUME TypeOK, NEW n \in Node, NEW m \in Frame, NEW i \in 0..Len(inbox[n]), NEW s,
         UNCHANGED <<drive, epoch, upset>>, inbox'[n] = Append(inbox[n], m),
         Prepared(n, i, s)
  PROVE  Prepared(n, i, s)'
<1>1. inbox[n] \in Seq(Frame)
  BY DEF TypeOK
<1>2. i # 0 => inbox'[n][i] = inbox[n][i]
  BY <1>1
<1>3. QED BY <1>2 DEF Prepared, TargetSet, Settles

\* A frame may be added that is no request, or one that is in order.
LEMMA RequestedAppend ==
  ASSUME TypeOK, NEW n \in Node, NEW m \in Frame, Requested(n),
         UNCHANGED <<drive, epoch, upset>>, inbox'[n] = Append(inbox[n], m),
         IsSdo(m) => m.tag[1] = epoch,
         IsSdo(m) => Ends(m) \/ \A i : i = Len(inbox[n]) + 1 => Fits(n, i)'
  PROVE  Requested(n)'
<1> DEFINE last == Len(inbox[n]) + 1
<1>1. inbox[n] \in Seq(Frame)
  BY DEF TypeOK
<1>2. /\ Len(inbox[n]) \in Nat /\ Len(inbox'[n]) = last /\ inbox'[n][last] = m
      /\ \A j \in 1..Len(inbox[n]) : inbox'[n][j] = inbox[n][j]
  BY <1>1
<1>3. ASSUME NEW i \in 1..Len(inbox[n]), IsSdo(inbox[n][i])
      PROVE  /\ inbox'[n][i].tag[1] = epoch'
             /\ Ends(inbox'[n][i]) \/ Fits(n, i)'
  <2>1. inbox[n][i].tag[1] = epoch /\ (Ends(inbox[n][i]) \/ Fits(n, i))
    BY <1>3 DEF Requested
  <2>2. CASE Ends(inbox[n][i])
    BY <1>2, <2>1, <2>2
  <2>3. CASE Fits(n, i)
    <3>1. PICK s \in 2..30 :
            /\ inbox[n][i].tag[2] = s /\ IsLine(inbox[n][i], s)
            /\ \A j \in 1..i-1 : ~IsSdo(inbox[n][j])
            /\ s = 24 => inbox[n][i].at = epoch
            /\ Prepared(n, i - 1, s)
      BY <2>3 DEF Fits
    <3>2. Prepared(n, i - 1, s)'
      <4>1. i - 1 \in 0..Len(inbox[n])
        BY <1>2
      <4> QED BY <3>1, <4>1, PreparedAppend
    <3>3. /\ inbox'[n][i] = inbox[n][i]
          /\ \A j \in 1..i-1 : inbox'[n][j] = inbox[n][j]
      BY <1>2
    <3> QED BY <2>1, <3>1, <3>2, <3>3 DEF Fits
  <2> QED BY <2>1, <2>2, <2>3
<1>4. ASSUME NEW i, i = last, IsSdo(inbox'[n][i])
      PROVE  /\ inbox'[n][i].tag[1] = epoch'
             /\ Ends(inbox'[n][i]) \/ Fits(n, i)'
  BY <1>2, <1>4
<1> SUFFICES ASSUME NEW i \in 1..Len(inbox'[n]), IsSdo(inbox'[n][i])
             PROVE  /\ inbox'[n][i].tag[1] = epoch'
                    /\ Ends(inbox'[n][i]) \/ Fits(n, i)'
  BY DEF Requested
<1>5. CASE i = last
  BY <1>4, <1>5
<1>6. CASE i # last
  <2>1. i \in 1..Len(inbox[n]) /\ inbox'[n][i] = inbox[n][i]
    BY <1>2, <1>6
  <2> QED BY <1>3, <2>1
<1> QED BY <1>5, <1>6

LEMMA NmtObeyed ==
  ASSUME NEW d \in Drive, NEW f \in Frame, ~IsSdo(f)
  PROVE  /\ Obeyed(d, f).nmt = NmtState(f.value) /\ Obeyed(d, f).od = d.od
         /\ Obeyed(d, f).target = d.target /\ Obeyed(d, f).cia = d.cia
BY DEF IsSdo, Obeyed, Drive, NmtState

\* The oldest frame, an NMT command, is carried out, or lost by a drive that is
\* upset by it.
NmtTaken(n) ==
  /\ inbox[n] # <<>> /\ inbox'[n] = Tail(inbox[n]) /\ ~IsSdo(Head(inbox[n]))
  /\ epoch' = epoch /\ upset \subseteq upset'
  /\ drive'[n].target = drive[n].target
  /\ n \in upset' \/ drive'[n] = Obeyed(drive[n], Head(inbox[n]))

LEMMA PreparedTail ==
  ASSUME TypeOK, NEW n \in Node, NEW i \in 1..Len(inbox[n]), NEW s,
         NmtTaken(n), Prepared(n, i, s)
  PROVE  Prepared(n, i - 1, s)'
<1> DEFINE f == Head(inbox[n])
<1>1. inbox[n] \in Seq(Frame) /\ inbox[n] # <<>> /\ drive[n] \in Drive
  BY DEF TypeOK, NmtTaken
<1>2. /\ f \in Frame /\ f = inbox[n][1] /\ i \in Nat
      /\ i - 1 # 0 => Tail(inbox[n])[i - 1] = inbox[n][i]
  BY <1>1
<1>3. TargetSet(n, s - 1)'
  BY DEF NmtTaken, Prepared, TargetSet
<1>4. ASSUME n \notin upset'
      PROVE  After(drive[n], s - 1)' /\ Settles(n, i - 1, Expected(s))'
  <2>1. After(drive[n], s - 1) /\ Settles(n, i, Expected(s))
    BY <1>4 DEF NmtTaken, Prepared
  <2>2. drive'[n].od = drive[n].od /\ drive'[n].nmt = NmtState(f.value)
    BY <1>1, <1>2, <1>4, NmtObeyed DEF NmtTaken
  <2>3. After(drive'[n], s - 1)
    BY <2>1, <2>2 DEF After
  <2>4. Settles(n, i - 1, Expected(s))'
    <3>1. CASE i = 1
      BY <1>2, <2>1, <2>2, <3>1 DEF Settles
    <3>2. CASE i # 1
      <4>1. i - 1 # 0 /\ inbox'[n][i - 1] = inbox[n][i]
        BY <1>2, <3>2 DEF NmtTaken
      <4> QED BY <2>1, <4>1 DEF Settles
    <3> QED BY <3>1, <3>2
  <2> QED BY <2>3, <2>4
<1> QED BY <1>3, <1>4 DEF Prepared

LEMMA RequestedTail ==
  ASSUME TypeOK, NEW n \in Node, Requested(n), NmtTaken(n)
  PROVE  Requested(n)'
<1> DEFINE q == Tail(inbox[n])
<1>1. inbox[n] \in Seq(Frame) /\ inbox[n] # <<>> /\ inbox'[n] = q
  BY DEF TypeOK, NmtTaken
<1>2. /\ Len(inbox[n]) \in Nat /\ Len(q) = Len(inbox[n]) - 1
      /\ \A j \in 1..Len(q) : q[j] = inbox[n][j + 1]
  BY <1>1
<1> HIDE DEF q
<1> SUFFICES ASSUME NEW i \in 1..Len(q), IsSdo(q[i])
             PROVE  q[i].tag[1] = epoch' /\ (Ends(q[i]) \/ Fits(n, i)')
  BY <1>1 DEF Requested
<1>3. i + 1 \in 1..Len(inbox[n]) /\ q[i] = inbox[n][i + 1]
  BY <1>2
<1>4. /\ q[i].tag[1] = epoch'
      /\ Ends(q[i]) \/ Fits(n, i + 1)
  BY <1>3 DEF Requested, NmtTaken
<1>5. ASSUME Fits(n, i + 1) PROVE Fits(n, i)'
  <2>1. PICK s \in 2..30 :
          /\ inbox[n][i + 1].tag[2] = s /\ IsLine(inbox[n][i + 1], s)
          /\ \A j \in 1..(i + 1) - 1 : ~IsSdo(inbox[n][j])
          /\ s = 24 => inbox[n][i + 1].at = epoch
          /\ Prepared(n, (i + 1) - 1, s)
    BY <1>5 DEF Fits
  <2>2. i \in 1..Len(inbox[n]) /\ (i + 1) - 1 = i
    BY <1>2
  <2>3. Prepared(n, i - 1, s)'
    BY <2>1, <2>2, PreparedTail
  <2>4. \A j \in 1..i-1 : ~IsSdo(q[j])
    BY <1>2, <2>1
  <2>5. q[i].tag[2] = s /\ IsLine(q[i], s) /\ (s = 24 => q[i].at = epoch')
    BY <1>3, <2>1 DEF NmtTaken
  <2> QED BY <1>1, <2>3, <2>4, <2>5 DEF Fits
<1> QED BY <1>4, <1>5

\* Behind a request of the program there is only the Shutdown of deactivate().
LEMMA RequestedAfter ==
  ASSUME TypeOK, NEW n \in Node, Requested(n), inbox[n] # <<>>,
         IsSdo(Head(inbox[n])), inbox'[n] = Tail(inbox[n]), epoch' = epoch
  PROVE  Requested(n)'
<1> DEFINE q == Tail(inbox[n])
<1>1. inbox[n] \in Seq(Frame)
  BY DEF TypeOK
<1>2. /\ Len(inbox[n]) \in Nat /\ Len(q) = Len(inbox[n]) - 1
      /\ Head(inbox[n]) = inbox[n][1]
      /\ \A j \in 1..Len(q) : q[j] = inbox[n][j + 1]
  BY <1>1
<1> HIDE DEF q
<1> SUFFICES ASSUME NEW i \in 1..Len(q), IsSdo(q[i])
             PROVE  q[i].tag[1] = epoch /\ Ends(q[i])
  BY DEF Requested, q
<1>3. i + 1 \in 1..Len(inbox[n]) /\ q[i] = inbox[n][i + 1] /\ 1 \in 1..(i + 1) - 1
  BY <1>2
<1>4. ~Fits(n, i + 1)
  BY <1>2, <1>3 DEF Fits
<1> QED BY <1>3, <1>4 DEF Requested

LEMMA SeedLine == Line(24).kind = "write" /\ Line(24).key = <<"607A", 0>>
BY LineIs, ProgramIs DEF Write

\* The request at the head of a queue is legal, unless the drive is upset ...
LEMMA FitsLegal ==
  ASSUME TypeOK, NEW n \in Node, inbox[n] # <<>>, Fits(n, 1), n \notin upset
  PROVE  Legal(drive[n], Head(inbox[n]))
<1>1. Head(inbox[n]) = inbox[n][1]
  BY DEF TypeOK
<1>2. PICK s \in 2..30 : IsLine(inbox[n][1], s) /\ Prepared(n, 1 - 1, s)
  BY DEF Fits
<1>3. After(drive[n], s - 1) /\ drive[n].nmt = Expected(s)
  BY <1>2 DEF Prepared, Settles
<1> QED BY <1>1, <1>2, <1>3, LegalThen

\* ... and when the drive has obeyed, it has carried out one line more.
LEMMA FitsCarriedOut ==
  ASSUME TypeOK, NEW n \in Node, inbox[n] # <<>>, IsSdo(Head(inbox[n])), Fits(n, 1),
         drive'[n] = Obeyed(drive[n], Head(inbox[n])), epoch' = epoch, upset' = upset,
         NEW s \in 1..29, Head(inbox[n]).tag[2] = s
  PROVE  CarriedOut(n, s)' /\ (s = 29 => drive'[n].cia = drive[n].cia)
<1> DEFINE f == Head(inbox[n])
           d == drive[n]
<1>1. f = inbox[n][1] /\ f \in Frame /\ d \in Drive
  BY DEF TypeOK
<1>2. /\ s \in 2..29 /\ IsLine(f, s) /\ (s = 24 => f.at = epoch)
      /\ TargetSet(n, s - 1)
      /\ n \notin upset => After(d, s - 1) /\ d.nmt = Expected(s)
  <2>1. PICK t \in 2..30 : /\ f.tag[2] = t /\ IsLine(f, t)
                           /\ t = 24 => f.at = epoch
                           /\ Prepared(n, 1 - 1, t)
    BY <1>1 DEF Fits
  <2>2. t = s
    BY <2>1
  <2> QED BY <2>1, <2>2 DEF Prepared, Settles
<1> HIDE DEF f, d
<1>3. s # 25 /\ f.key \in Objects
  <2>1. f.kind = Line(s).kind /\ f.key = Line(s).key
    BY <1>2 DEF IsLine
  <2>2. IsSdo(Line(s))
    BY <2>1 DEF IsSdo, f
  <2>3. s \in 1..AskErrorCode
    BY <1>2, LineIs
  <2>4. s \in 1..30
    BY <1>2
  <2> QED BY <2>1, <2>2, <2>3, <2>4, SdoLines, LineType DEF Objects
<1>4. drive'[n] = Obeyed(d, f)
  BY DEF d, f
<1>5. CASE f.kind = "write"
  <2>1. /\ Obeyed(d, f).nmt = d.nmt
        /\ Obeyed(d, f).target = IF f.key = <<"607A", 0>> THEN f.at ELSE d.target
    BY <1>1, <1>3, <1>5, ObeyedWrites
  <2>2. s # 29
    BY <1>2, <1>5, LinesByNumber DEF IsLine
  <2>3. TargetSet(n, s)'
    <3> SUFFICES ASSUME s >= 24
                 PROVE  drive'[n].target = epoch \/ (drive'[n].target = 0 /\ n \in upset)
      BY DEF TargetSet
    <3>1. CASE s = 24
      BY <1>2, <1>4, <2>1, <3>1, SeedLine DEF IsLine
    <3>2. CASE s > 24
      <4>1. f.key # <<"607A", 0>>
        <5>1. f.key = Line(s).key /\ s \in 1..30 /\ s # 24
          BY <1>2, <3>2 DEF IsLine
        <5> QED BY <5>1, TargetLine
      <4> QED BY <1>2, <1>4, <2>1, <3>2, <4>1 DEF TargetSet, d
    <3> QED BY <3>1, <3>2
  <2>4. n \notin upset => After(Obeyed(d, f), s)
    BY <1>1, <1>2, <1>3, <1>5, AfterWrite
  <2> QED BY <1>2, <1>4, <2>1, <2>2, <2>3, <2>4 DEF CarriedOut
<1>6. CASE f.kind # "write"
  <2>1. Obeyed(d, f) = d
    <3>1. f.kind # "nmt"
      BY DEF IsSdo, f
    <3> QED BY <1>6, <3>1 DEF Obeyed
  <2>2. Program[s].kind # "write"
    BY <1>2, <1>6, LineIs DEF IsLine
  <2>3. n \notin upset => After(d, s)
    BY <1>2, <2>2, AfterOther
  <2>4. s # 24
    BY <1>2, <1>6, SeedLine DEF IsLine
  <2>5. TargetSet(n, s)'
    BY <1>2, <1>4, <2>1, <2>4 DEF TargetSet, d
  <2> QED BY <1>2, <1>4, <2>1, <2>3, <2>5 DEF CarriedOut, d
<1> QED BY <1>5, <1>6

\* What happens to drive n does not disturb the main thread, if it does not
\* disturb what it knows of drive n.
LEMMA HostBus ==
  ASSUME TypeOK, InRange, HostInv, NEW n \in Node,
         UNCHANGED <<phase, node, step, position, epoch>>,
         \A m \in Node \ {n} :
           Kept(m) /\ inbox'[m] = inbox[m] /\ outbox'[m] = outbox[m],
         phase = "waiting" /\ n # node => slot' = slot,
         Done(n) => Done(n)',
         \A s \in 2..30, i \in Nat :
           phase = "configuring" /\ n = node /\ s = step /\ i = Len(inbox'[n])
             => Prepared(n, i, s)',
         \A s \in 1..30 :
           phase = "waiting" /\ n = node /\ s = step => Awaiting(n, s)'
  PROVE  HostInv'
<1>1. ConfiguringInv'
  <2> SUFFICES ASSUME NEW m \in Node, NEW s \in 2..30, NEW i \in Nat,
                      phase = "configuring", m = node, s = step, i = Len(inbox'[m])
               PROVE  Prepared(m, i, s)'
    BY DEF ConfiguringInv
  <2>1. CASE m = n
    BY <2>1
  <2>2. CASE m # n
    <3>1. Kept(m) /\ inbox'[m] = inbox[m]
      BY <2>2
    <3>2. Prepared(m, i, s)
      BY <3>1 DEF HostInv, ConfiguringInv
    <3> QED BY <3>1, <3>2, PreparedKept
  <2> QED BY <2>1, <2>2
<1>2. WaitingInv'
  <2> SUFFICES ASSUME NEW m \in Node, NEW s \in 1..30,
                      phase = "waiting", m = node, s = step
               PROVE  Awaiting(m, s)'
    BY DEF WaitingInv
  <2>1. CASE m = n
    BY <2>1
  <2>2. CASE m # n
    <3>1. Kept(m) /\ inbox'[m] = inbox[m] /\ outbox'[m] = outbox[m] /\ slot' = slot
      BY <2>2
    <3>2. Awaiting(m, s)
      BY DEF HostInv, WaitingInv
    <3>3. ASSUME NEW a \in Answer,
                 a = slot \/ (outbox[m] # <<>> /\ a = Head(outbox[m]))
          PROVE  Carried(m, s, a)'
      BY <3>1, <3>2, <3>3, CarriedKept DEF Awaiting
    <3> QED BY <3>1, <3>2, <3>3 DEF Awaiting
  <2> QED BY <2>1, <2>2
<1>3. DoneInv'
  <2> SUFFICES ASSUME NEW m \in Node, Done(m) PROVE Done(m)'
    BY DEF HostInv, DoneInv, Activating
  <2>1. CASE m # n
    BY <2>1, DoneKept
  <2> QED BY <2>1
<1> QED BY <1>1, <1>2, <1>3 DEF HostInv

LEMMA SameAnswers ==
  ASSUME NeverIllegal, \A m \in Node : outbox'[m] = outbox[m],
         epoch' = epoch, upset \subseteq upset'
  PROVE  NeverIllegal'
BY DEF NeverIllegal

LEMMA FewerAnswers ==
  ASSUME TypeOK, NeverIllegal, NEW n \in Node,
         outbox[n] # <<>>, outbox'[n] = Tail(outbox[n]),
         \A m \in Node \ {n} : outbox'[m] = outbox[m],
         epoch' = epoch, upset' = upset
  PROVE  NeverIllegal'
<1>1. outbox[n] \in Seq(Answer)
  BY DEF TypeOK
<1>2. /\ Len(outbox'[n]) = Len(outbox[n]) - 1 /\ Len(outbox[n]) \in Nat
      /\ \A i \in 1..Len(outbox'[n]) : outbox'[n][i] = outbox[n][i + 1]
  BY <1>1
<1>3. \A i \in 1..Len(outbox'[n]) : i + 1 \in 1..Len(outbox[n])
  BY <1>2
<1> SUFFICES ASSUME NEW m \in Node \ upset, NEW i \in 1..Len(outbox'[m]),
                    outbox'[m][i].tag[1] = epoch
             PROVE  outbox'[m][i].value # "illegal"
  BY DEF NeverIllegal
<1>4. CASE m = n
  BY <1>2, <1>3, <1>4 DEF NeverIllegal
<1>5. CASE m # n
  BY <1>5 DEF NeverIllegal
<1> QED BY <1>4, <1>5

LEMMA OneAnswerMore ==
  ASSUME TypeOK, NeverIllegal, NEW n \in Node, NEW r \in Answer,
         outbox'[n] = Append(outbox[n], r), r.value = "illegal" => n \in upset,
         \A m \in Node \ {n} : outbox'[m] = outbox[m],
         epoch' = epoch, upset' = upset
  PROVE  NeverIllegal'
<1>1. outbox[n] \in Seq(Answer)
  BY DEF TypeOK
<1>2. /\ Len(outbox'[n]) = Len(outbox[n]) + 1 /\ Len(outbox[n]) \in Nat
      /\ outbox'[n][Len(outbox[n]) + 1] = r
      /\ \A i \in 1..Len(outbox[n]) : outbox'[n][i] = outbox[n][i]
  BY <1>1
<1>3. \A i \in 1..Len(outbox'[n]) : i \in 1..Len(outbox[n]) \/ outbox'[n][i] = r
  BY <1>2
<1> SUFFICES ASSUME NEW m \in Node \ upset, NEW i \in 1..Len(outbox'[m]),
                    outbox'[m][i].tag[1] = epoch
             PROVE  outbox'[m][i].value # "illegal"
  BY DEF NeverIllegal
<1>4. CASE m = n
  BY <1>2, <1>3, <1>4 DEF NeverIllegal
<1>5. CASE m # n
  BY <1>5 DEF NeverIllegal
<1> QED BY <1>4, <1>5

\* An NMT command leaves the queue of a drive.
LEMMA TakeNmt ==
  ASSUME TypeOK, InRange, ProgressInv, NEW n \in Node, NmtTaken(n),
         UNCHANGED <<host, outbox>>,
         \A m \in Node \ {n} : Kept(m) /\ inbox'[m] = inbox[m]
  PROVE  ProgressInv'
<1>1. inbox[n] \in Seq(Frame) /\ inbox[n] # <<>> /\ inbox'[n] = Tail(inbox[n])
  BY DEF TypeOK, NmtTaken
<1>2. Len(inbox[n]) \in Nat \ {0} /\ Len(inbox'[n]) = Len(inbox[n]) - 1
  BY <1>1
<1>3. \A m \in Node : Requested(m)'
  <2> SUFFICES ASSUME NEW m \in Node PROVE Requested(m)'
    OBVIOUS
  <2>1. CASE m = n
    BY <2>1, RequestedTail DEF ProgressInv
  <2>2. CASE m # n
    BY <2>2, RequestedKept DEF ProgressInv
  <2> QED BY <2>1, <2>2
<1>4. NeverIllegal'
  BY SameAnswers DEF ProgressInv, NmtTaken
<1>5. ASSUME NEW s \in 2..30, NEW i \in Nat,
             phase = "configuring", n = node, s = step, i = Len(inbox'[n])
      PROVE  Prepared(n, i, s)'
  <2>1. i + 1 = Len(inbox[n]) /\ i + 1 \in 1..Len(inbox[n]) /\ i + 1 \in Nat /\ (i + 1) - 1 = i
    BY <1>2, <1>5
  <2>2. Prepared(n, i + 1, s)
    BY <1>5, <2>1 DEF ProgressInv, HostInv, ConfiguringInv
  <2> QED BY <2>1, <2>2, PreparedTail
<1>6. ASSUME NEW s \in 1..30, phase = "waiting", n = node, s = step
      PROVE  Awaiting(n, s)'
  <2>1. Awaiting(n, s)
    BY <1>6 DEF ProgressInv, HostInv, WaitingInv
  <2>2. \A a \in Answer : ~(a = slot \/ (outbox[n] # <<>> /\ a = Head(outbox[n])))
    BY <1>1, <2>1 DEF Awaiting, Carried
  <2>3. ASSUME NEW i \in 1..Len(inbox'[n]), IsSdo(inbox'[n][i])
        PROVE  i = Len(inbox'[n])
    <3>1. i + 1 \in 1..Len(inbox[n]) /\ inbox'[n][i] = inbox[n][i + 1]
      BY <1>1, <1>2
    <3>2. i + 1 = Len(inbox[n])
      BY <2>1, <2>3, <3>1 DEF Awaiting
    <3> QED BY <1>2, <3>2
  <2> QED BY <2>1, <2>2, <2>3 DEF Awaiting, host
<1>7. ~Done(n)
  BY <1>1 DEF Done
<1>8. HostInv
  BY DEF ProgressInv
<1>9. UNCHANGED <<phase, node, step, position, slot>> /\ epoch' = epoch
  BY DEF host, NmtTaken
<1>10. HostInv'
  BY <1>5, <1>6, <1>7, <1>8, <1>9, HostBus
<1> QED BY <1>3, <1>4, <1>10 DEF ProgressInv

\* While drives are configured a request in a queue is the one awaited.
LEMMA TheOneAwaited ==
  ASSUME TypeOK, InRange, QuietInv, HostInv, NEW n \in Node,
         inbox[n] # <<>>, IsSdo(Head(inbox[n]))
  PROVE  /\ phase \notin {"configuring", "active"}
         /\ phase = "waiting" =>
              /\ n = node /\ slot = None /\ outbox[n] = <<>>
              /\ Tail(inbox[n]) = <<>> /\ Head(inbox[n]).tag = <<epoch, step>>
<1>1. inbox[n] \in Seq(Frame)
  BY DEF TypeOK
<1>2. Len(inbox[n]) \in Nat \ {0} /\ Head(inbox[n]) = inbox[n][1]
  BY <1>1
<1>3. ~Idle(n) /\ ~Clear(inbox[n])
  BY <1>2 DEF Idle, Clear
<1>4. phase # "configuring"
  BY <1>3 DEF QuietInv
<1>5. phase # "active"
  BY DEF HostInv, DoneInv, Done
<1>6. ASSUME phase = "waiting"
      PROVE  /\ n = node /\ slot = None /\ outbox[n] = <<>>
             /\ Tail(inbox[n]) = <<>> /\ Head(inbox[n]).tag = <<epoch, step>>
  <2>1. n = node /\ Outstanding(n)
    BY <1>3, <1>6 DEF QuietInv, Answering
  <2>2. Head(inbox[n]).tag = <<epoch, step>>
    BY <1>1, <2>1, AloneTail DEF Outstanding
  <2>3. Awaiting(n, step)
    <3>1. step \in 1..30
      BY LineIs DEF TypeOK
    <3> QED BY <1>6, <2>1, <3>1 DEF HostInv, WaitingInv
  <2>4. Len(inbox[n]) = 1
    <3>1. 1 \in 1..Len(inbox[n]) /\ IsSdo(inbox[n][1])
      BY <1>2
    <3> QED BY <2>3, <3>1 DEF Awaiting
  <2>5. Tail(inbox[n]) = <<>>
    <3> DEFINE q == Tail(inbox[n])
    <3>1. q \in Seq(Frame) /\ Len(q) = 0
      BY <1>1, <2>4
    <3> HIDE DEF q
    <3>2. q = <<>>
      BY <3>1
    <3> QED BY <3>2 DEF q
  <2> QED BY <2>1, <2>2, <2>5 DEF Outstanding
<1> QED BY <1>4, <1>5, <1>6

\* r says what drive n made of the request f.
Says(r, n, f) ==
  /\ r.tag = f.tag /\ r.at = epoch
  /\ r.ok => drive'[n] = Obeyed(drive[n], f) /\ r.value = drive[n].cia
  /\ r.value = "illegal" => ~Legal(drive[n], f)

\* An SDO request leaves the queue of a drive, and may be answered.
LEMMA TakeSdo ==
  ASSUME TypeOK, InRange, QuietInv, ProgressInv, NEW n \in Node,
         inbox[n] # <<>>, IsSdo(Head(inbox[n])), inbox'[n] = Tail(inbox[n]),
         UNCHANGED <<host, epoch, upset>>,
         \A m \in Node \ {n} :
           Kept(m) /\ inbox'[m] = inbox[m] /\ outbox'[m] = outbox[m],
         \/ outbox'[n] = outbox[n]
         \/ \E r \in Answer :
              outbox'[n] = Append(outbox[n], r) /\ Says(r, n, Head(inbox[n]))
  PROVE  ProgressInv'
<1> DEFINE f == Head(inbox[n])
<1>1. f = inbox[n][1] /\ 1 \in 1..Len(inbox[n])
  BY DEF TypeOK
<1>2. Ends(f) \/ Fits(n, 1)
  BY <1>1 DEF ProgressInv, Requested
<1>3. \A m \in Node : Requested(m)'
  <2> SUFFICES ASSUME NEW m \in Node PROVE Requested(m)'
    OBVIOUS
  <2>1. CASE m = n
    BY <2>1, RequestedAfter DEF ProgressInv
  <2>2. CASE m # n
    BY <2>2, RequestedKept DEF ProgressInv
  <2> QED BY <2>1, <2>2
<1>4. NeverIllegal'
  <2>1. CASE outbox'[n] = outbox[n]
    BY <2>1, SameAnswers DEF ProgressInv
  <2>2. ASSUME NEW r \in Answer, outbox'[n] = Append(outbox[n], r), Says(r, n, f)
        PROVE  NeverIllegal'
    <3>1. r.value = "illegal" => n \in upset
      <4>1. Ends(f) => Legal(drive[n], f)
        BY EndsLegal
      <4>2. Fits(n, 1) /\ n \notin upset => Legal(drive[n], f)
        BY FitsLegal
      <4> HIDE DEF f
      <4> QED BY <1>2, <2>2, <4>1, <4>2 DEF Says
    <3> QED BY <2>2, <3>1, OneAnswerMore DEF ProgressInv
  <2> QED BY <2>1, <2>2
<1>5. UNCHANGED <<phase, node, step, position, slot, epoch>>
  BY DEF host
<1>6. HostInv /\ ~Done(n)
  BY DEF ProgressInv, Done
<1>7. /\ phase # "configuring"
      /\ phase = "waiting" =>
           /\ n = node /\ slot = None /\ outbox[n] = <<>>
           /\ inbox'[n] = <<>> /\ f.tag = <<epoch, step>>
  BY <1>6, TheOneAwaited
<1>8. ASSUME NEW s \in 1..30, phase = "waiting", n = node, s = step
      PROVE  Awaiting(n, s)'
  <2>1. s \notin {1, 25} /\ None \notin Answer
    BY <1>8 DEF ProgressInv, HostInv, WaitingInv, Awaiting, None, Answer, Node
  <2>2. ~Ends(f) /\ Fits(n, 1)
    BY <1>2, <1>7, <1>8 DEF Ends
  <2>3. ASSUME NEW a \in Answer, outbox'[n] # <<>>, a = Head(outbox'[n])
        PROVE  Carried(n, s, a)'
    <3>1. PICK r \in Answer : outbox'[n] = Append(<<>>, r) /\ Says(r, n, f)
      BY <1>7, <1>8, <2>3
    <3>2. a = r
      BY <2>3, <3>1
    <3>3. inbox'[n] = <<>> /\ a.tag = <<epoch, s>> /\ a.at = epoch
      BY <1>7, <1>8, <3>1, <3>2 DEF Says
    <3>4. ASSUME a.ok, s # 30
          PROVE  CarriedOut(n, s)' /\ (s = 29 => a.value = drive'[n].cia)
      <4>1. drive'[n] = Obeyed(drive[n], f) /\ a.value = drive[n].cia
        BY <3>1, <3>2, <3>4 DEF Says
      <4>2. s \in 1..29 /\ f.tag[2] = s
        BY <1>7, <1>8, <3>4
      <4>3. CarriedOut(n, s)' /\ (s = 29 => drive'[n].cia = drive[n].cia)
        BY <1>5, <2>2, <4>1, <4>2, FitsCarriedOut
      <4> QED BY <4>1, <4>3
    <3> QED BY <1>5, <3>3, <3>4 DEF Carried
  <2>4. Len(inbox'[n]) = 0 /\ slot' = None
    BY <1>5, <1>7, <1>8
  <2> QED BY <2>1, <2>3, <2>4 DEF Awaiting
<1>9. HostInv'
  BY <1>5, <1>6, <1>7, <1>8, HostBus
<1> QED BY <1>3, <1>4, <1>9 DEF ProgressInv

\* An answer leaves the queue of a drive; while a transaction waits, the slot
\* takes it or it is lost.
LEMMA TakeAnswer ==
  ASSUME TypeOK, InRange, QuietInv, ProgressInv, NEW n \in Node, Heard(n),
         UNCHANGED <<phase, node, step, position, inbox, drive, epoch, upset>>,
         slot' \in {slot, Head(outbox[n])}
  PROVE  ProgressInv'
<1>1. outbox \in [Node -> Seq(Answer)]
  BY DEF TypeOK
<1>2. /\ outbox[n] # <<>> /\ outbox'[n] = Tail(outbox[n])
      /\ \A m \in Node \ {n} : outbox'[m] = outbox[m]
  BY <1>1 DEF Heard
<1>3. \A m \in Node : Kept(m)
  BY DEF Kept
<1>4. \A m \in Node : Requested(m)'
  BY <1>3, RequestedKept DEF ProgressInv
<1>5. NeverIllegal'
  BY <1>2, FewerAnswers DEF ProgressInv
<1>6. HostInv
  BY DEF ProgressInv
<1>7. ~Idle(n) /\ ~Outstanding(n)
  BY <1>2 DEF Idle, Outstanding
<1>8. ASSUME phase = "waiting" PROVE n = node /\ Answering(n) /\ outbox'[n] = <<>>
  <2>1. n = node /\ Answering(n)
    BY <1>7, <1>8 DEF QuietInv
  <2> DEFINE q == Tail(outbox[n])
  <2>2. q \in Seq(Answer) /\ Len(q) = 0
    BY <1>1, <1>2, <2>1 DEF Answering
  <2> HIDE DEF q
  <2>3. q = <<>>
    BY <2>2
  <2> QED BY <1>2, <2>1, <2>3 DEF q
<1>9. ASSUME NEW s \in 2..30, NEW i \in Nat,
             phase = "configuring", n = node, s = step, i = Len(inbox'[n])
      PROVE  Prepared(n, i, s)'
  <2>1. Prepared(n, i, s)
    BY <1>6, <1>9 DEF HostInv, ConfiguringInv
  <2> QED BY <1>3, <2>1, PreparedKept
<1>10. ASSUME NEW s \in 1..30, phase = "waiting", n = node, s = step
       PROVE  Awaiting(n, s)'
  <2>1. Awaiting(n, s)
    BY <1>6, <1>10 DEF HostInv, WaitingInv
  <2>2. ASSUME NEW a \in Answer, a = slot'
        PROVE  Carried(n, s, a)'
    <3>1. Carried(n, s, a)
      BY <1>2, <2>1, <2>2 DEF Awaiting
    <3> QED BY <1>3, <3>1, CarriedKept
  <2> QED BY <1>8, <1>10, <2>1, <2>2 DEF Awaiting
<1>11. HostInv'
  <2>1. Done(n) => Done(n)'
    BY <1>3, DoneKept
  <2>2. phase = "waiting" /\ n # node => slot' = slot
    BY <1>8
  <2> QED BY <1>2, <1>3, <1>6, <1>9, <1>10, <2>1, <2>2, HostBus
<1> QED BY <1>4, <1>5, <1>11 DEF ProgressInv

\* The main thread goes on without sending anything.
LEMMA SameBus ==
  ASSUME ProgressInv, UNCHANGED <<inbox, outbox, drive, epoch, upset>>
  PROVE  /\ \A m \in Node : Kept(m) /\ Requested(m)'
         /\ NeverIllegal'
<1>1. \A m \in Node : Kept(m)
  BY DEF Kept
<1>2. \A m \in Node : Requested(m)'
  BY <1>1, RequestedKept DEF ProgressInv
<1>3. NeverIllegal'
  BY SameAnswers DEF ProgressInv
<1> QED BY <1>1, <1>2, <1>3

\* Nothing is claimed of a main thread that is inactive or deactivates.
LEMMA OffDuty ==
  ASSUME phase' \notin {"configuring", "waiting", "active"}
  PROVE  HostInv'
BY DEF HostInv, ConfiguringInv, WaitingInv, DoneInv, Activating

LEMMA ProceedStep ==
  ASSUME TypeOK, InRange, ProgressInv, Proceed
  PROVE  ProgressInv'
<1>1. UNCHANGED <<inbox, outbox, drive, epoch, upset, slot>>
  BY DEF Proceed, bus, history
<1>2. (\A m \in Node : Kept(m) /\ Requested(m)') /\ NeverIllegal'
  BY <1>1, SameBus
<1>3. HostInv
  BY DEF ProgressInv
<1>4. /\ phase = "waiting" /\ slot.from = node /\ slot.key = Line(step).key
      /\ slot.ok /\ ~BadStatus /\ step # 30 /\ node \in Node /\ step \in 1..30
  BY LineIs DEF Proceed, Answered, Matches, InRange, Activating, TypeOK
<1>5. slot \in Answer
  BY <1>4 DEF TypeOK, None, Node
<1>6. Awaiting(node, step)
  BY <1>3, <1>4 DEF HostInv, WaitingInv
<1>7. Carried(node, step, slot) /\ step \notin {1, 25}
  BY <1>5, <1>6 DEF Awaiting
<1>8. step \in 2..29 /\ Len(Program) = 29
  BY <1>4, <1>7, ProgramLength
<1>9. inbox[node] = <<>> /\ slot.at = epoch /\ CarriedOut(node, step)
  BY <1>4, <1>7 DEF Carried
<1>10. step >= 23 => position' = epoch
  <2>1. CASE step = 23
    BY <1>9, <2>1, LinesByNumber DEF Proceed
  <2>2. CASE step > 23
    <3>1. position = epoch
      BY <1>3, <1>4, <2>2 DEF HostInv, DoneInv, Activating
    <3> QED BY <1>9, <3>1 DEF Proceed
  <2> QED BY <1>8, <2>1, <2>2
<1>11. \A m \in Node : Done(m) => Done(m)'
  BY <1>1, <1>2, DoneKept
<1>12. \A m \in Node : m < node => Done(m)'
  BY <1>3, <1>4, <1>11 DEF HostInv, DoneInv, Activating
<1>13. CASE step < 29
  <2>1. phase' = "configuring" /\ step' = step + 1 /\ node' = node
    BY <1>8, <1>13 DEF Proceed, Advance
  <2>2. ConfiguringInv'
    <3> SUFFICES ASSUME NEW m \in Node, NEW s \in 2..30, NEW i \in Nat,
                        m = node, s = step + 1, i = Len(inbox[m])
                 PROVE  Prepared(m, i, s)'
      BY <1>1, <2>1 DEF ConfiguringInv
    <3>1. i = 0 /\ s - 1 = step /\ s - 1 \in 2..28 /\ s - 1 # 25
      BY <1>7, <1>8, <1>9, <1>13
    <3>2. CarriedOut(m, s - 1) /\ Expected(s) = Expected(s - 1)
      BY <1>9, <3>1 DEF Expected
    <3>3. Prepared(m, 0, s)
      BY <3>2 DEF CarriedOut, Prepared, Settles
    <3> QED BY <1>2, <3>1, <3>3, PreparedKept
  <2>3. WaitingInv'
    BY <2>1 DEF WaitingInv
  <2>4. DoneInv'
    BY <1>1, <1>8, <1>10, <1>12, <2>1 DEF DoneInv, Activating
  <2> QED BY <1>2, <2>2, <2>3, <2>4 DEF ProgressInv, HostInv
<1>14. CASE step = 29
  <2>1. Done(node)
    <3>1. slot.value = "enabled"
      BY <1>4, <1>14, LinesByNumber DEF BadStatus
    <3>2. node \notin upset => slot.value = drive[node].cia
      BY <1>4, <1>7, <1>14 DEF Carried
    <3>3. node \notin upset => After(drive[node], 29) /\ drive[node].nmt = "Operational"
      BY <1>9, <1>14 DEF CarriedOut, Expected
    <3> QED BY <1>9, <3>1, <3>2, <3>3 DEF Done
  <2>2. \A m \in Node : m <= node => Done(m)'
    <3>1. \A m \in Node : m = node => Done(m)'
      BY <1>11, <2>1
    <3> QED BY <1>4, <1>12, <3>1 DEF Node
  <2>3. \/ phase' = "configuring" /\ step' = 1 /\ node' = node + 1
        \/ phase' = "active" /\ step' = 1 /\ node >= N
    BY <1>8, <1>14 DEF Proceed, Advance
  <2>4. ConfiguringInv'
    BY <2>3 DEF ConfiguringInv
  <2>5. WaitingInv'
    BY <2>3 DEF WaitingInv
  <2>6. DoneInv'
    BY <1>4, <2>2, <2>3, PxxAssumption DEF DoneInv, Activating, Node
  <2> QED BY <1>2, <2>4, <2>5, <2>6 DEF ProgressInv, HostInv
<1> QED BY <1>8, <1>13, <1>14

LEMMA AskWhyStep ==
  ASSUME TypeOK, InRange, ProgressInv, AskWhy
  PROVE  ProgressInv'
<1>1. /\ UNCHANGED <<inbox, outbox, drive, epoch, upset, slot, node, position>>
      /\ phase' = "configuring" /\ step' = 30
  BY LineIs DEF AskWhy, bus, history
<1>2. (\A m \in Node : Kept(m) /\ Requested(m)') /\ NeverIllegal'
  BY <1>1, SameBus
<1>3. HostInv
  BY DEF ProgressInv
<1>4. /\ phase = "waiting" /\ slot.from = node /\ slot.ok
      /\ Line(step).key = <<"6041", 0>> /\ node \in Node /\ step \in 1..30
  BY LineIs DEF AskWhy, Answered, Matches, BadStatus, InRange, Activating, TypeOK
<1>5. step = 29
  BY <1>4, StatusLine
<1>6. slot \in Answer
  BY <1>4 DEF TypeOK, None, Node
<1>7. Carried(node, step, slot)
  BY <1>3, <1>4, <1>6 DEF HostInv, WaitingInv, Awaiting
<1>8. inbox[node] = <<>> /\ CarriedOut(node, step)
  BY <1>4, <1>5, <1>7 DEF Carried
<1>9. ConfiguringInv'
  <2> SUFFICES ASSUME NEW m \in Node, NEW s \in 2..30, NEW i \in Nat,
                      m = node, s = 30, i = Len(inbox[m])
               PROVE  Prepared(m, i, s)'
    BY <1>1 DEF ConfiguringInv
  <2>1. i = 0
    BY <1>8
  <2>2. CarriedOut(m, 29)
    BY <1>5, <1>8
  <2>3. Prepared(m, 0, 30)
    BY <2>2 DEF CarriedOut, Prepared, Settles, Expected
  <2> QED BY <1>2, <2>1, <2>3, PreparedKept
<1>10. WaitingInv'
  BY <1>1 DEF WaitingInv
<1>11. DoneInv'
  <2>1. position = epoch /\ \A m \in Node : m < node => Done(m)
    BY <1>3, <1>4, <1>5 DEF HostInv, DoneInv, Activating
  <2>2. \A m \in Node : m < node => Done(m)'
    BY <1>1, <1>2, <2>1, DoneKept
  <2> QED BY <1>1, <2>1, <2>2 DEF DoneInv, Activating
<1> QED BY <1>2, <1>9, <1>10, <1>11 DEF ProgressInv, HostInv

\* The main thread adds a frame to the queue of the drive it works on.
LEMMA PostKeeps ==
  ASSUME TypeOK, ProgressInv, NEW n \in Node, NEW m \in Frame,
         inbox' = [inbox EXCEPT ![n] = Append(@, m)],
         UNCHANGED <<outbox, drive, epoch, upset>>,
         IsSdo(m) => m.tag[1] = epoch,
         IsSdo(m) => Ends(m) \/ \A i : i = Len(inbox[n]) + 1 => Fits(n, i)'
  PROVE  /\ \A k \in Node : Requested(k)'
         /\ NeverIllegal'
         /\ inbox'[n] = Append(inbox[n], m)
         /\ \A k \in Node : k # n /\ Done(k) => Done(k)'
<1>1. inbox \in [Node -> Seq(Frame)]
  BY DEF TypeOK
<1>2. /\ inbox'[n] = Append(inbox[n], m)
      /\ \A k \in Node \ {n} : inbox'[k] = inbox[k]
  BY <1>1
<1>3. \A k \in Node \ {n} : Kept(k)
  BY <1>2 DEF Kept
<1>4. Requested(n)'
  BY <1>2, RequestedAppend DEF ProgressInv
<1>5. ASSUME NEW k \in Node PROVE Requested(k)'
  <2>1. CASE k = n
    BY <1>4, <2>1
  <2>2. CASE k # n
    BY <1>2, <1>3, <2>2, RequestedKept DEF ProgressInv
  <2> QED BY <2>1, <2>2
<1>6. NeverIllegal'
  BY SameAnswers DEF ProgressInv
<1>7. \A k \in Node : k # n /\ Done(k) => Done(k)'
  BY <1>2, <1>3, DoneKept
<1> QED BY <1>2, <1>5, <1>6, <1>7

LEMMA SendNmtStep ==
  ASSUME TypeOK, InRange, QuietInv, ProgressInv, SendNmt
  PROVE  ProgressInv'
<1> DEFINE m == Message(Line(step), <<epoch, step>>)
           d == drive[node]
           last == Len(inbox[node]) + 1
<1>1. /\ phase = "configuring" /\ ~IsSdo(Line(step))
      /\ inbox' = [inbox EXCEPT ![node] = Append(@, m)] /\ Advance
      /\ UNCHANGED <<outbox, drive, epoch, upset, position, slot>>
  BY DEF SendNmt, Post, history
<1>2. node \in Node /\ step \in 1..30 /\ step \in {1, 25}
  BY <1>1, SdoLines, LineIs DEF InRange, Activating, TypeOK
<1>3. m \in Frame /\ ~IsSdo(m) /\ m.value = Line(step).value
  BY <1>1, MessageType DEF TypeOK, Message, IsSdo
<1> HIDE DEF m
<1>4. /\ \A k \in Node : Requested(k)'
      /\ NeverIllegal'
      /\ inbox'[node] = Append(inbox[node], m)
      /\ \A k \in Node : k # node /\ Done(k) => Done(k)'
  BY <1>1, <1>2, <1>3, PostKeeps
<1>5. inbox[node] \in Seq(Frame)
  BY <1>2 DEF TypeOK
<1>6. last \in Nat /\ last # 0 /\ Len(inbox'[node]) = last /\ inbox'[node][last] = m
  BY <1>4, <1>5
<1>7. phase' = "configuring" /\ step' = step + 1 /\ node' = node
  BY <1>1, <1>2, ProgramLength DEF Advance
<1>8. HostInv
  BY DEF ProgressInv
<1>9. /\ TargetSet(node, step - 1)
      /\ node \notin upset => After(d, step - 1)
  <2>1. CASE step = 1
    BY <2>1 DEF TargetSet, After
  <2>2. CASE step = 25
    <3>1. Prepared(node, Len(inbox[node]), step)
      BY <1>1, <1>2, <1>5, <1>8, <2>2 DEF HostInv, ConfiguringInv
    <3> QED BY <3>1 DEF Prepared
  <2> QED BY <1>2, <2>1, <2>2
<1>10. TargetSet(node, step) /\ (node \notin upset => After(d, step))
  <2>1. step \in 1..29 /\ Line(step) = Program[step]
    BY <1>2, LineIs
  <2>2. Program[step].kind # "write"
    BY <1>1, <2>1 DEF IsSdo
  <2>3. node \notin upset => After(d, step)
    BY <1>9, <2>1, <2>2, AfterOther
  <2> QED BY <1>2, <1>9, <2>3 DEF TargetSet
<1>11. NmtState(m.value) = Expected(step + 1)
  BY <1>2, <1>3, LinesByNumber DEF NmtState, Expected
<1>12. ConfiguringInv'
  <2> SUFFICES ASSUME NEW n \in Node, NEW s \in 2..30, NEW i \in Nat,
                      n = node, s = step + 1, i = Len(inbox'[n])
               PROVE  Prepared(n, i, s)'
    BY <1>7 DEF ConfiguringInv
  <2>1. i # 0 /\ inbox'[n][i] = m /\ s - 1 = step
    BY <1>2, <1>6
  <2>2. TargetSet(n, s - 1)'
    BY <1>1, <1>10, <2>1 DEF TargetSet
  <2>3. n \notin upset' => After(drive'[n], s - 1)
    BY <1>1, <1>10, <2>1
  <2>4. NmtState(inbox'[n][i].value) = Expected(s)
    BY <1>11, <2>1
  <2> QED BY <2>1, <2>2, <2>3, <2>4 DEF Prepared, Settles
<1>13. WaitingInv'
  BY <1>7 DEF WaitingInv
<1>14. DoneInv'
  <2>1. /\ \A k \in Node : k < node => Done(k)
        /\ step >= 24 => position = epoch
    BY <1>1, <1>8 DEF HostInv, DoneInv, Activating
  <2>2. \A k \in Node : k < node => Done(k)'
    BY <1>2, <1>4, <2>1 DEF Node
  <2>3. step' >= 24 => position' = epoch'
    BY <1>1, <1>2, <1>7, <2>1
  <2> QED BY <1>7, <2>2, <2>3 DEF DoneInv, Activating
<1> QED BY <1>4, <1>12, <1>13, <1>14 DEF ProgressInv, HostInv

LEMMA SendSdoStep ==
  ASSUME TypeOK, InRange, QuietInv, ProgressInv, SendSdo
  PROVE  ProgressInv'
<1> DEFINE m == Message(Line(step), <<epoch, step>>)
           last == Len(inbox[node]) + 1
<1>1. /\ phase = "configuring" /\ IsSdo(Line(step))
      /\ inbox' = [inbox EXCEPT ![node] = Append(@, m)]
      /\ phase' = "waiting" /\ slot' = None
      /\ UNCHANGED <<outbox, drive, epoch, upset, position, node, step>>
  BY DEF SendSdo, Post, history
<1>2. node \in Node /\ step \in 2..30 /\ step # 25
  <2>1. step \in 1..30 /\ node \in Node
    BY <1>1, LineIs DEF InRange, Activating, TypeOK
  <2>2. step \notin {1, 25}
    BY <1>1, <2>1, SdoLines
  <2> QED BY <2>1, <2>2
<1>3. /\ m \in Frame /\ IsSdo(m) /\ IsLine(m, step)
      /\ m.tag = <<epoch, step>> /\ m.at = position
  BY <1>1, MessageType DEF TypeOK, Message, IsSdo, IsLine
<1>4. outbox[node] = <<>> /\ \A i \in 1..Len(inbox[node]) : ~IsSdo(inbox[node][i])
  BY <1>1, <1>2 DEF QuietInv, Idle
<1> HIDE DEF m
<1>5. inbox[node] \in Seq(Frame) /\ inbox \in [Node -> Seq(Frame)]
  BY <1>2 DEF TypeOK
<1>6. /\ inbox'[node] = Append(inbox[node], m)
      /\ Len(inbox[node]) \in Nat /\ Len(inbox'[node]) = last
      /\ inbox'[node][last] = m
      /\ \A j \in 1..Len(inbox[node]) : inbox'[node][j] = inbox[node][j]
  BY <1>1, <1>2, <1>5
<1>7. HostInv
  BY DEF ProgressInv
<1>8. step >= 24 => position = epoch
  BY <1>1, <1>7 DEF HostInv, DoneInv, Activating
<1>9. ASSUME NEW n \in Node, NEW i, n = node, i = last
      PROVE  Fits(n, i)'
  <2> DEFINE s == step
  <2>1. PICK t \in 2..30 : t = step
    BY <1>2
  <2>2. i - 1 = Len(inbox[n]) /\ i - 1 \in 0..Len(inbox[n]) /\ i - 1 \in Nat
    BY <1>6, <1>9
  <2>3. Prepared(n, i - 1, t)
    BY <1>1, <1>7, <1>9, <2>1, <2>2 DEF HostInv, ConfiguringInv
  <2>4. inbox'[n] = Append(inbox[n], m) /\ UNCHANGED <<drive, epoch, upset>>
    BY <1>1, <1>6, <1>9
  <2>5. Prepared(n, i - 1, t)'
    BY <1>3, <2>2, <2>3, <2>4, PreparedAppend
  <2>6. inbox'[n][i] = m /\ \A j \in 1..i-1 : ~IsSdo(inbox'[n][j])
    BY <1>4, <1>6, <1>9, <2>2
  <2>7. m.tag[2] = t /\ IsLine(m, t) /\ (t = 24 => m.at = epoch')
    BY <1>1, <1>3, <1>8, <2>1
  <2>8. IsLine(inbox'[n][i], t) /\ inbox'[n][i].tag[2] = t /\ (t = 24 => inbox'[n][i].at = epoch')
    BY <2>6, <2>7
  <2> QED BY <2>5, <2>6, <2>8 DEF Fits
<1>10. /\ \A k \in Node : Requested(k)'
       /\ NeverIllegal'
       /\ \A k \in Node : k # node /\ Done(k) => Done(k)'
  <2>1. PICK n \in Node : n = node
    BY <1>2
  <2>2. inbox' = [inbox EXCEPT ![n] = Append(@, m)]
    BY <1>1, <2>1
  <2>3. \A i : i = Len(inbox[n]) + 1 => Fits(n, i)'
    BY <1>9, <2>1
  <2>4. m.tag[1] = epoch
    BY <1>3
  <2> QED BY <1>1, <1>3, <2>1, <2>2, <2>3, <2>4, PostKeeps
<1>11. ConfiguringInv'
  BY <1>1 DEF ConfiguringInv
<1>12. WaitingInv'
  <2> SUFFICES ASSUME NEW n \in Node, NEW s \in 1..30, n = node, s = step
               PROVE  Awaiting(n, s)'
    BY <1>1 DEF WaitingInv
  <2>1. s \notin {1, 25} /\ None \notin Answer
    BY <1>2 DEF None, Answer, Node
  <2>2. \A i \in 1..Len(inbox'[n]) : IsSdo(inbox'[n][i]) => i = Len(inbox'[n])
    BY <1>4, <1>6
  <2>3. outbox'[n] = <<>>
    BY <1>1, <1>4
  <2> QED BY <1>1, <2>1, <2>2, <2>3 DEF Awaiting
<1>13. DoneInv'
  <2>1. \A k \in Node : k < node => Done(k)
    BY <1>1, <1>7 DEF HostInv, DoneInv, Activating
  <2>2. \A k \in Node : k < node => Done(k)'
    BY <1>2, <1>10, <2>1 DEF Node
  <2> QED BY <1>1, <1>8, <2>2 DEF DoneInv, Activating
<1> QED BY <1>10, <1>11, <1>12, <1>13 DEF ProgressInv, HostInv

\* deactivate() adds a frame to the queue of the next drive.
LEMMA DisarmSendStep ==
  ASSUME TypeOK, InRange, ProgressInv, DisarmSend
  PROVE  ProgressInv'
<1> DEFINE m == Message(Disarm[step], <<epoch, 0>>)
<1>1. /\ inbox' = [inbox EXCEPT ![node] = Append(@, m)] /\ node \in Node
      /\ phase' = "deactivating" /\ step \in 1..2
      /\ UNCHANGED <<outbox, drive, epoch, upset>>
  BY DEF DisarmSend, Post, history, InRange
<1>2. m \in Frame
  BY <1>1, DisarmMessageType
<1>3. IsSdo(m) => m.tag[1] = epoch /\ Ends(m)
  <2>1. m.kind = Disarm[step].kind /\ m.key = Disarm[step].key
        /\ m.value = Disarm[step].value /\ m.tag = <<epoch, 0>>
    BY DEF Message
  <2>2. step = 1 \/ Disarm[step].kind = "nmt"
    BY <1>1 DEF Disarm, Nmt
  <2>3. Disarm[1] = Write("6040", 0, "Shutdown")
    BY DEF Disarm
  <2> HIDE DEF m
  <2> QED BY <2>1, <2>2, <2>3 DEF Write, IsSdo, Ends
<1> HIDE DEF m
<1>4. (\A k \in Node : Requested(k)') /\ NeverIllegal'
  BY <1>1, <1>2, <1>3, PostKeeps
<1>5. HostInv'
  BY <1>1, OffDuty
<1> QED BY <1>4, <1>5 DEF ProgressInv

\* Every activation begins with nothing under way.
LEMMA ActivateStep ==
  ASSUME MaxBacklog = 1, TypeOK, NoneBegun, Activate
  PROVE  ProgressInv'
<1>1. /\ \A n \in Node : Idle(n)
      /\ phase' = "configuring" /\ node' = 1 /\ step' = 1
      /\ inbox' = inbox /\ outbox' = outbox
  BY BeginsQuiet DEF Activate, bus
<1>2. \A n \in Node : Requested(n)'
  BY <1>1 DEF Requested, Idle
<1>3. NeverIllegal'
  BY <1>1 DEF NeverIllegal, Idle
<1>4. HostInv'
  BY <1>1 DEF HostInv, ConfiguringInv, WaitingInv, DoneInv, Activating, Node
<1> QED BY <1>2, <1>3, <1>4 DEF ProgressInv

\* The steps of the main thread that only leave it in another place.
LEMMA LeaveStep ==
  ASSUME ProgressInv,
         SendFails \/ GiveUp \/ Deactivate \/ DisarmSendFails \/ Close \/ Crash
  PROVE  ProgressInv'
<1>1. UNCHANGED <<inbox, outbox, drive, epoch, upset>>
  BY DEF SendFails, GiveUp, Deactivate, DisarmSendFails, Close, Crash, bus, history
<1>2. phase' \notin {"configuring", "waiting", "active"}
  BY DEF SendFails, GiveUp, Deactivate, DisarmSendFails, Close, Crash, StartDisarm
<1> QED BY <1>1, <1>2, SameBus, OffDuty DEF ProgressInv

\* A drive that faults is upset, and the others do not notice.
LEMMA FaultStep ==
  ASSUME TypeOK, InRange, ProgressInv, NEW n \in Node, Fault(n)
  PROVE  ProgressInv'
<1>1. /\ UNCHANGED <<phase, node, step, position, slot, epoch, inbox, outbox>>
      /\ drive' = [drive EXCEPT ![n].cia = "fault"]
      /\ upset' = upset \union {n}
  BY DEF Fault, host, bus
<1>2. \A m \in Node : Kept(m)
  <2>1. drive \in [Node -> Drive] /\ drive[n] \in Drive
    BY DEF TypeOK
  <2>2. drive'[n].target = drive[n].target
    BY <1>1, <2>1 DEF Drive
  <2>3. \A m \in Node : m # n => drive'[m] = drive[m]
    BY <1>1, <2>1
  <2> QED BY <1>1, <2>2, <2>3 DEF Kept
<1>3. \A m \in Node : Requested(m)'
  BY <1>1, <1>2, RequestedKept DEF ProgressInv
<1>4. NeverIllegal'
  BY <1>1, SameAnswers DEF ProgressInv
<1>5. HostInv
  BY DEF ProgressInv
<1>6. ASSUME NEW s \in 2..30, NEW i \in Nat,
             phase = "configuring", n = node, s = step, i = Len(inbox'[n])
      PROVE  Prepared(n, i, s)'
  <2>1. Prepared(n, i, s)
    BY <1>1, <1>5, <1>6 DEF HostInv, ConfiguringInv
  <2> QED BY <1>2, <2>1, PreparedKept
<1>7. ASSUME NEW s \in 1..30, phase = "waiting", n = node, s = step
      PROVE  Awaiting(n, s)'
  <2>1. Awaiting(n, s)
    BY <1>5, <1>7 DEF HostInv, WaitingInv
  <2>2. ASSUME NEW a \in Answer, Carried(n, s, a)
        PROVE  Carried(n, s, a)'
    BY <1>1, <1>2, <2>2, CarriedKept
  <2> QED BY <1>1, <2>1, <2>2 DEF Awaiting
<1>8. Done(n) => Done(n)'
  BY <1>1, <1>2, DoneKept
<1>9. HostInv'
  BY <1>1, <1>2, <1>5, <1>6, <1>7, <1>8, HostBus
<1> QED BY <1>3, <1>4, <1>9 DEF ProgressInv

\* A drive that reboots forgets what it was sent and what it had to say.
LEMMA RebootStep ==
  ASSUME TypeOK, InRange, ProgressInv, NEW n \in Node, Reboot(n)
  PROVE  ProgressInv'
<1>1. /\ UNCHANGED <<phase, node, step, position, slot, epoch>>
      /\ upset' = upset \union {n}
  BY DEF Reboot, host
<1>2. /\ inbox'[n] = <<>> /\ outbox'[n] = <<>> /\ drive'[n] = Booted
      /\ \A m \in Node \ {n} :
           inbox'[m] = inbox[m] /\ outbox'[m] = outbox[m] /\ drive'[m] = drive[m]
  BY DEF Reboot, TypeOK
<1>3. \A m \in Node : Kept(m)
  BY <1>1, <1>2 DEF Kept, Booted
<1>4. ASSUME NEW m \in Node PROVE Requested(m)'
  <2>1. CASE m = n
    BY <1>2, <2>1 DEF Requested
  <2>2. CASE m # n
    BY <1>2, <1>3, <2>2, RequestedKept DEF ProgressInv
  <2> QED BY <2>1, <2>2
<1>5. NeverIllegal'
  BY <1>1, <1>2 DEF ProgressInv, NeverIllegal
<1>6. HostInv
  BY DEF ProgressInv
<1>7. ASSUME NEW s \in 2..30, NEW i \in Nat,
             phase = "configuring", n = node, s = step, i = Len(inbox'[n])
      PROVE  Prepared(n, i, s)'
  <2>1. inbox[n] \in Seq(Frame)
    BY DEF TypeOK
  <2>2. PICK j \in Nat : j = Len(inbox[n])
    BY <2>1
  <2>3. Prepared(n, j, s)
    BY <1>6, <1>7, <2>2 DEF HostInv, ConfiguringInv
  <2> QED BY <1>1, <1>3, <2>3, PreparedUpset
<1>8. ASSUME NEW s \in 1..30, phase = "waiting", n = node, s = step
      PROVE  Awaiting(n, s)'
  <2>1. Awaiting(n, s)
    BY <1>6, <1>8 DEF HostInv, WaitingInv
  <2>2. ASSUME NEW a \in Answer, Carried(n, s, a)
        PROVE  Carried(n, s, a)'
    BY <1>2, <1>3, <2>2, CarriedKept
  <2> QED BY <1>1, <1>2, <2>1, <2>2 DEF Awaiting
<1>9. Done(n) => Done(n)'
  BY <1>2, <1>3, DoneKept
<1>10. HostInv'
  <2>1. \A m \in Node \ {n} :
          Kept(m) /\ inbox'[m] = inbox[m] /\ outbox'[m] = outbox[m]
    BY <1>2, <1>3
  <2> QED BY <1>1, <1>6, <1>7, <1>8, <1>9, <2>1, HostBus
<1> QED BY <1>4, <1>5, <1>10 DEF ProgressInv

\* A drive takes the oldest frame of its queue.
LEMMA TakenFrom ==
  ASSUME TypeOK, NEW n \in Node, Taken(n)
  PROVE  /\ inbox[n] # <<>> /\ inbox'[n] = Tail(inbox[n])
         /\ Head(inbox[n]) \in Frame
         /\ \A m \in Node \ {n} : inbox'[m] = inbox[m]
BY DEF Taken, TypeOK

LEMMA HandleStep ==
  ASSUME TypeOK, InRange, QuietInv, ProgressInv, NEW n \in Node, Handle(n)
  PROVE  ProgressInv'
<1> DEFINE f == Head(inbox[n])
<1>1. /\ inbox[n] # <<>> /\ inbox'[n] = Tail(inbox[n]) /\ f \in Frame
      /\ \A m \in Node \ {n} : inbox'[m] = inbox[m]
  BY TakenFrom DEF Handle
<1>2. drive \in [Node -> Drive] /\ outbox \in [Node -> Seq(Answer)]
  BY DEF TypeOK
<1>3. UNCHANGED <<host, epoch, upset>>
  BY DEF Handle, history
<1> HIDE DEF f
<1>4. CASE ~IsSdo(f)
  <2>1. drive' = [drive EXCEPT ![n] = Obeyed(@, f)] /\ outbox' = outbox
    BY <1>4 DEF Handle, f
  <2>2. drive'[n] = Obeyed(drive[n], f) /\ drive'[n].target = drive[n].target
    BY <1>1, <1>2, <1>4, <2>1, NmtObeyed
  <2>3. NmtTaken(n)
    BY <1>1, <1>3, <1>4, <2>2 DEF NmtTaken, f
  <2>4. \A m \in Node \ {n} : Kept(m) /\ inbox'[m] = inbox[m]
    BY <1>1, <1>2, <1>3, <2>1 DEF Kept
  <2> QED BY <1>3, <2>1, <2>3, <2>4, TakeNmt
<1>5. CASE IsSdo(f)
  <2> DEFINE yes == Reply(n, f, TRUE, drive[n].cia)
             no == Reply(n, f, FALSE, "illegal")
  <2>1. yes \in Answer /\ no \in Answer /\ drive[n].cia # "illegal"
    BY <1>1, <1>2, ReplyType DEF Drive, State
  <2>2. \/ /\ drive' = [drive EXCEPT ![n] = Obeyed(@, f)]
           /\ outbox' = [outbox EXCEPT ![n] = Append(@, yes)]
        \/ /\ ~Legal(drive[n], f) /\ drive' = drive
           /\ outbox' = [outbox EXCEPT ![n] = Append(@, no)]
    BY <1>5 DEF Handle, f, Answers
  <2>3. /\ yes.ok /\ yes.tag = f.tag /\ yes.at = epoch /\ yes.value = drive[n].cia
        /\ ~no.ok /\ no.tag = f.tag /\ no.at = epoch
    BY DEF Reply
  <2> HIDE DEF yes, no
  <2>4. \E r \in Answer : outbox'[n] = Append(outbox[n], r) /\ Says(r, n, f)
    <3>1. CASE /\ drive' = [drive EXCEPT ![n] = Obeyed(@, f)]
               /\ outbox' = [outbox EXCEPT ![n] = Append(@, yes)]
      <4>1. outbox'[n] = Append(outbox[n], yes) /\ drive'[n] = Obeyed(drive[n], f)
        BY <1>2, <3>1
      <4> QED BY <2>1, <2>3, <4>1 DEF Says
    <3>2. CASE /\ ~Legal(drive[n], f)
               /\ outbox' = [outbox EXCEPT ![n] = Append(@, no)]
      <4>1. outbox'[n] = Append(outbox[n], no)
        BY <1>2, <3>2
      <4> QED BY <2>1, <2>3, <3>2, <4>1 DEF Says
    <3> QED BY <2>2, <3>1, <3>2
  <2>5. ASSUME NEW m \in Node \ {n}
        PROVE  Kept(m) /\ inbox'[m] = inbox[m] /\ outbox'[m] = outbox[m]
    <3>1. drive'[m] = drive[m] /\ outbox'[m] = outbox[m]
      BY <1>2, <2>2
    <3> QED BY <1>1, <1>3, <3>1 DEF Kept
  <2> QED BY <1>1, <1>3, <1>5, <2>4, <2>5, TakeSdo DEF f
<1> QED BY <1>4, <1>5

LEMMA RefuseStep ==
  ASSUME TypeOK, InRange, QuietInv, ProgressInv, NEW n \in Node, Refuse(n)
  PROVE  ProgressInv'
<1> DEFINE f == Head(inbox[n])
           r == Reply(n, f, FALSE, "refused")
<1>1. /\ inbox[n] # <<>> /\ inbox'[n] = Tail(inbox[n]) /\ f \in Frame /\ IsSdo(f)
      /\ \A m \in Node \ {n} : inbox'[m] = inbox[m]
  BY TakenFrom DEF Refuse
<1>2. outbox \in [Node -> Seq(Answer)]
  BY DEF TypeOK
<1>3. UNCHANGED <<host, drive, epoch, upset>>
  BY DEF Refuse
<1>4. r \in Answer
  BY <1>1, ReplyType
<1>5. Says(r, n, f)
  BY DEF Says, Reply
<1>6. outbox' = [outbox EXCEPT ![n] = Append(@, r)]
  BY DEF Refuse, Answers
<1> HIDE DEF f, r
<1>7. /\ outbox'[n] = Append(outbox[n], r)
      /\ \A m \in Node \ {n} : outbox'[m] = outbox[m]
  BY <1>2, <1>6
<1>8. \A m \in Node \ {n} : Kept(m)
  BY <1>1, <1>3 DEF Kept
<1> QED BY <1>1, <1>3, <1>4, <1>5, <1>7, <1>8, TakeSdo DEF f

LEMMA LoseFrameStep ==
  ASSUME TypeOK, InRange, QuietInv, ProgressInv, NEW n \in Node, LoseFrame(n)
  PROVE  ProgressInv'
<1>1. /\ inbox[n] # <<>> /\ inbox'[n] = Tail(inbox[n])
      /\ \A m \in Node \ {n} : inbox'[m] = inbox[m]
  BY TakenFrom DEF LoseFrame
<1>2. /\ UNCHANGED <<host, outbox, drive, epoch>>
      /\ upset' = IF IsSdo(Head(inbox[n])) THEN upset ELSE upset \union {n}
  BY DEF LoseFrame
<1>3. \A m \in Node \ {n} : Kept(m)
  BY <1>1, <1>2 DEF Kept
<1>4. CASE ~IsSdo(Head(inbox[n]))
  <2>1. NmtTaken(n)
    BY <1>1, <1>2, <1>4 DEF NmtTaken
  <2> QED BY <1>1, <1>2, <1>3, <2>1, TakeNmt
<1>5. CASE IsSdo(Head(inbox[n]))
  BY <1>1, <1>2, <1>3, <1>5, TakeSdo
<1> QED BY <1>4, <1>5

LEMMA AnswerStep ==
  ASSUME TypeOK, InRange, QuietInv, ProgressInv, NEW n \in Node,
         Receive(n) \/ Unheard(n) \/ LoseAnswer(n)
  PROVE  ProgressInv'
<1>1. Heard(n) /\ slot' \in {slot, Head(outbox[n])}
  BY DEF Receive, Unheard, LoseAnswer, host
<1>2. UNCHANGED <<phase, node, step, position, inbox, drive, epoch, upset>>
  BY DEF Receive, Unheard, LoseAnswer, host, history
<1> QED BY <1>1, <1>2, TakeAnswer

LEMMA ProgressStutters ==
  ASSUME ProgressInv, UNCHANGED vars
  PROVE  ProgressInv'
<1>1. /\ UNCHANGED <<inbox, outbox, drive, epoch, upset>>
      /\ UNCHANGED <<phase, node, step, slot, position>>
  BY DEF vars, host, bus, history
<1>2. (\A m \in Node : Kept(m) /\ Requested(m)') /\ NeverIllegal'
  BY <1>1, SameBus
<1>3. HostInv
  BY DEF ProgressInv
<1>4. ConfiguringInv'
  BY <1>1, <1>2, <1>3, PreparedKept DEF HostInv, ConfiguringInv
<1>5. WaitingInv'
  <2> SUFFICES ASSUME NEW m \in Node, NEW s \in 1..30, Awaiting(m, s)
               PROVE  Awaiting(m, s)'
    BY <1>1, <1>3 DEF HostInv, WaitingInv
  <2>1. ASSUME NEW a \in Answer, Carried(m, s, a)
        PROVE  Carried(m, s, a)'
    BY <1>1, <1>2, <2>1, CarriedKept
  <2> QED BY <1>1, <2>1 DEF Awaiting
<1>6. DoneInv'
  BY <1>1, <1>2, <1>3, DoneKept DEF HostInv, DoneInv, Activating
<1> QED BY <1>2, <1>4, <1>5, <1>6 DEF ProgressInv, HostInv

LEMMA ProgressAlways ==
  ASSUME MaxBacklog = 1
  PROVE  Spec => []ProgressInv
<1>1. Init => ProgressInv
  BY DEF Init, ProgressInv, Requested, NeverIllegal, HostInv, ConfiguringInv,
         WaitingInv, DoneInv, Activating
<1>2. TypeOK /\ InRange /\ NoneBegun /\ QuietInv /\ ProgressInv /\ [Next]_vars => ProgressInv'
  BY ActivateStep, SendNmtStep, SendSdoStep, ProceedStep, AskWhyStep, LeaveStep,
     DisarmSendStep, HandleStep, RefuseStep, LoseFrameStep, AnswerStep, FaultStep,
     RebootStep, ProgressStutters
     DEF Next, Transaction, Disarming
<1>3. QED BY <1>1, <1>2, TypeCorrect, NoneBegunAlways, QuietAlways, PTL DEF Spec

\* configure_node writes the objects of a drive in an order the drive accepts:
\* if no activation starts while a drive still owes an answer, no request is
\* answered with an abort because of what was written, or not written, before.
THEOREM NeverIllegalAlways ==
  ASSUME MaxBacklog = 1
  PROVE  Spec => []NeverIllegal
<1>1. ProgressInv => NeverIllegal
  BY DEF ProgressInv
<1>2. QED BY <1>1, ProgressAlways, PTL

\* When activate() has returned true, every drive it did not lose is
\* operational, enabled, in cyclic synchronous position mode and has its three
\* PDOs mapped and on, if the activation started with no answer outstanding.
THEOREM ActiveIsReadyAlways ==
  ASSUME MaxBacklog = 1
  PROVE  Spec => []ActiveIsReady
<1>1. ProgressInv => ActiveIsReady
  <2> SUFFICES ASSUME ProgressInv, phase = "active", NEW n \in Node \ upset
               PROVE  Ready(n)
    BY DEF ActiveIsReady
  <2>1. Done(n)
    BY DEF ProgressInv, HostInv, DoneInv
  <2> QED BY <2>1, ReadyThen DEF Done
<1>2. QED BY <1>1, ProgressAlways, PTL

-----------------------------------------------------------------------------
(* How deep into configure_node a line is: the objects asked about by then. *)

Depth(s) == Cardinality(Asked(s))

LEMMA AskedFinite ==
  ASSUME NEW s \in 1..30
  PROVE  IsFiniteSet(Asked(s)) /\ Depth(s) \in Nat
<1> DEFINE key == [l \in 1..s |-> Line(l).key]
           keys == { Line(l).key : l \in 1..s }
<1>1. key \in Surjection(1..s, keys)
  BY DEF Surjection
<1>2. IsFiniteSet(1..s)
  BY FS_Interval
<1>3. IsFiniteSet(keys)
  <2> HIDE DEF key, keys
  <2> QED BY <1>1, <1>2, FS_Surjection
<1>4. Asked(s) \in SUBSET keys
  BY DEF Asked
<1>5. IsFiniteSet(Asked(s))
  <2> HIDE DEF keys
  <2> QED BY <1>3, <1>4, FS_Subset
<1> QED BY <1>5, FS_CardinalityType DEF Depth

LEMMA DepthGrows ==
  ASSUME NEW r \in 1..30, NEW s \in 1..30, r <= s
  PROVE  Depth(r) <= Depth(s)
<1>1. Asked(r) \in SUBSET Asked(s)
  BY DEF Asked
<1> QED BY <1>1, AskedFinite, FS_Subset DEF Depth

LEMMA AskedObject ==
  ASSUME NEW s \in 1..30
  PROVE  Line(s).key \in Objects <=> s \notin {1, 25}
<1>1. Line(s).key \in Key
  BY LineIs, LineType
<1>2. Line(1).key = <<"nmt", 0>> /\ Line(25).key = <<"nmt", 0>>
  BY LineIs, ProgramIs DEF Nmt
<1> QED BY <1>1, <1>2, SdoLines DEF Objects

LEMMA AskedOneMore ==
  ASSUME NEW s \in 2..30
  PROVE  /\ s = 25 => Asked(s) = Asked(s - 1)
         /\ s # 25 => Asked(s) = Asked(s - 1) \union {Line(s).key}
<1>1. 1..s = 1..(s - 1) \union {s}
  OBVIOUS
<1>2. Asked(s) = Asked(s - 1) \union ({Line(s).key} \intersect Objects)
  BY <1>1 DEF Asked
<1> QED BY <1>2, AskedObject

\* A line adds at most one object, and none if it repeats one.
LEMMA DepthStep ==
  ASSUME NEW s \in 2..30
  PROVE  /\ Depth(s) <= Depth(s - 1) + 1
         /\ s = 25 \/ Line(s).key \in Asked(s - 1) => Depth(s) = Depth(s - 1)
         /\ s # 25 /\ Line(s).key \notin Asked(s - 1) => Depth(s) = Depth(s - 1) + 1
<1>1. IsFiniteSet(Asked(s - 1)) /\ Depth(s - 1) \in Nat
  BY AskedFinite
<1>2. CASE s = 25
  BY <1>1, <1>2, AskedOneMore DEF Depth
<1>3. CASE s # 25
  <2>1. Asked(s) = Asked(s - 1) \union {Line(s).key}
    BY <1>3, AskedOneMore
  <2>2. Cardinality(Asked(s - 1) \union {Line(s).key}) =
          IF Line(s).key \in Asked(s - 1) THEN Cardinality(Asked(s - 1))
                                          ELSE Cardinality(Asked(s - 1)) + 1
    BY <1>1, FS_AddElement
  <2> QED BY <1>1, <1>3, <2>1, <2>2 DEF Depth
<1> QED BY <1>2, <1>3

LEMMA DepthBegins == Depth(1) = 0 /\ Depth(2) <= 1
<1>1. Asked(1) = {}
  <2>1. \A l \in 1..1 : Line(l).key \notin Objects
    BY AskedObject
  <2> QED BY <2>1 DEF Asked
<1>2. Depth(1) = 0
  BY <1>1, FS_EmptySet DEF Depth
<1> QED BY <1>2, DepthStep, AskedFinite

\* A line that asks about the object of an earlier one is no deeper.
LEMMA RepeatedLine ==
  ASSUME NEW s \in 2..30, NEW t \in 2..(s - 1), Line(s).key = Line(t).key
  PROVE  Depth(s) = Depth(s - 1)
<1>1. CASE s = 25
  BY <1>1, DepthStep
<1>2. CASE s # 25
  <2>1. Line(s).key \in Asked(s - 1)
    BY <1>2, AskedObject DEF Asked
  <2> QED BY <2>1, DepthStep
<1> QED BY <1>1, <1>2

-----------------------------------------------------------------------------
(* What is under way when nobody waits for old answers to drain.            *)

\* A request and its answer: the object and the tag of either.
Request(f) == <<f.key, f.tag>>

Queued(n) ==
  { Request(outbox[n][i]) : i \in 1..Len(outbox[n]) }
    \union { Request(inbox[n][i]) : i \in Pending(n) }

InSlot(n) == IF phase = "waiting" /\ slot.from = n THEN {Request(slot)} ELSE {}

UnderWay(n) == Queued(n) \union InSlot(n)

\* The request is of the backlog, and asks about the object of its line.
Known(q) ==
  /\ q[2][1] <= epoch
  /\ epoch - q[2][1] < backlog
  /\ \/ q[2][2] = 0 /\ q[1] = <<"6040", 0>>
     \/ q[2][2] \in (2..30) \ {25} /\ q[1] = Line(q[2][2]).key

\* The request was sent deeper into configure_node than the backlog of its
\* activation: only one with nothing before it is.
Deep(t) == t[2] >= 2 /\ Depth(t[2]) > backlog - (epoch - t[1])

\* What is left of earlier lines allows the main thread to be where it is.
Behind(q) == Depth(step - 1) < backlog /\ (step > 2 => ~Deep(q[2]))

\* A request of this activation was sent by an earlier line, or is awaited.
OfEarlierLine(n, q) ==
  q[2][1] = epoch =>
    \/ n < node
    \/ n = node /\ q[2][2] \in 2..step /\ (phase = "configuring" => q[2][2] < step)

Own == <<epoch, step>>

FromItsDrive == \A n \in Node : \A i \in 1..Len(outbox[n]) : outbox[n][i].from = n

AllKnown == \A n \in Node : \A q \in UnderWay(n) : Known(q)

\* Nothing is before a deep request, be it answered or not.
DeepFirst(n) ==
  /\ \A i \in 1..Len(outbox[n]) : Deep(outbox[n][i].tag) => i = 1
  /\ \A i \in Pending(n) :
       Deep(inbox[n][i].tag) => outbox[n] = <<>> /\ \A j \in Pending(n) : i <= j

\* Nothing is behind the request of the main thread, be it answered or not.
OwnLast(n) ==
  /\ \A i \in 1..Len(outbox[n]) :
       outbox[n][i].tag = Own => i = Len(outbox[n]) /\ Pending(n) = {}
  /\ \A i \in Pending(n) :
       inbox[n][i].tag = Own => \A j \in Pending(n) : j <= i

Ordered ==
  /\ \A n \in Node : DeepFirst(n)
  /\ phase = "waiting" =>
       /\ OwnLast(node)
       /\ slot.from = node => /\ slot.tag = Own => Queued(node) = {}
                              /\ \A q \in Queued(node) : ~Deep(q[2])

InPlace ==
  Activating =>
    /\ \A n \in Node : \A q \in UnderWay(n) : OfEarlierLine(n, q)
    /\ step >= 2 => \A q \in UnderWay(node) : q[2] = Own \/ Behind(q)

BacklogInv == FromItsDrive /\ AllKnown /\ Ordered /\ InPlace

\* The types of what the invariant speaks of.
LEMMA UnderWayType ==
  ASSUME TypeOK, NEW n \in Node, NEW q \in UnderWay(n)
  PROVE  q[1] \in Key /\ q[2] \in Tag /\ q[2][1] \in 0..MaxEpoch /\ q[2][2] \in 0..30
<1>1. /\ outbox[n] \in Seq(Answer) /\ inbox[n] \in Seq(Frame)
      /\ slot.from = n => slot \in Answer
  BY DEF TypeOK, None, Node
<1>2. PICK x \in Answer \union Frame : q = Request(x)
  <2>1. CASE q \in InSlot(n)
    BY <1>1, <2>1 DEF InSlot
  <2>2. ASSUME NEW i \in 1..Len(outbox[n]), q = Request(outbox[n][i])
        PROVE  outbox[n][i] \in Answer
    BY <1>1
  <2>3. ASSUME NEW i \in Pending(n), q = Request(inbox[n][i])
        PROVE  inbox[n][i] \in Frame
    BY <1>1 DEF Pending
  <2> QED BY <2>1, <2>2, <2>3 DEF UnderWay, Queued
<1>3. x.key \in Key /\ x.tag \in Tag
  BY DEF Answer, Frame
<1> QED BY <1>2, <1>3, LineIs DEF Request, Tag

LEMMA QueuedIs ==
  ASSUME TypeOK, NEW n \in Node
  PROVE  Queued(n) = {} <=> outbox[n] = <<>> /\ Pending(n) = {}
<1>1. outbox[n] \in Seq(Answer)
  BY DEF TypeOK
<1>2. outbox[n] # <<>> => 1 \in 1..Len(outbox[n])
  BY <1>1
<1>3. outbox[n] = <<>> => 1..Len(outbox[n]) = {}
  OBVIOUS
<1> QED BY <1>2, <1>3 DEF Queued

\* A step that only takes away what is under way.
LEMMA FewerUnderWay ==
  ASSUME InRange, BacklogInv, UNCHANGED <<phase, node, step, epoch, backlog>>,
         \A m \in Node : UnderWay(m)' \subseteq UnderWay(m)
  PROVE  AllKnown' /\ InPlace'
<1>1. AllKnown'
  <2> SUFFICES ASSUME NEW m \in Node, NEW q \in UnderWay(m)' PROVE Known(q)'
    BY DEF AllKnown
  <2> QED BY DEF BacklogInv, AllKnown, Known
<1>2. ASSUME Activating, NEW m \in Node, NEW q \in UnderWay(m)'
      PROVE  OfEarlierLine(m, q)'
  BY <1>2 DEF BacklogInv, InPlace, OfEarlierLine
<1>3. ASSUME Activating, step >= 2, NEW q \in UnderWay(node)'
      PROVE  (q[2] = Own \/ Behind(q))'
  BY <1>3 DEF InRange, BacklogInv, InPlace, Own, Behind, Deep
<1> QED BY <1>1, <1>2, <1>3 DEF InPlace, Activating

\* Taking the oldest answer of a drive.
LEMMA AnswerTaken ==
  ASSUME TypeOK, NEW n \in Node, outbox[n] # <<>>, UNCHANGED <<epoch, step, backlog>>,
         outbox'[n] = Tail(outbox[n]), inbox'[n] = inbox[n], DeepFirst(n),
         \A i \in 1..Len(outbox[n]) : outbox[n][i].from = n
  PROVE  /\ Queued(n)' \subseteq Queued(n) /\ Request(Head(outbox[n])) \in Queued(n)
         /\ DeepFirst(n)' /\ \A q \in Queued(n)' : ~Deep(q[2])
         /\ OwnLast(n) => /\ OwnLast(n)'
                          /\ Head(outbox[n]).tag = Own => Queued(n)' = {}
         /\ Head(outbox[n]).from = n /\ \A i \in 1..Len(outbox'[n]) : outbox'[n][i].from = n
<1> DEFINE o == outbox[n]
           u == Tail(o)
<1>1. o \in Seq(Answer)
  BY DEF TypeOK
<1>2. /\ Len(o) \in Nat \ {0} /\ Len(u) = Len(o) - 1 /\ Head(o) = o[1]
      /\ \A i \in 1..Len(u) : u[i] = o[i + 1] /\ i + 1 \in 1..Len(o) /\ i + 1 > 1
  BY <1>1, HeadTail
<1>3. 1 \in 1..Len(o)
  BY <1>2
<1>4. outbox'[n] = u
  OBVIOUS
<1>5. Pending(n)' = Pending(n) /\ \A i \in Pending(n) : inbox'[n][i] = inbox[n][i]
  BY DEF Pending
<1> HIDE DEF u
<1>6. Queued(n)' \subseteq Queued(n)
  <2> SUFFICES ASSUME NEW q \in Queued(n)' PROVE q \in Queued(n)
    OBVIOUS
  <2>1. ASSUME NEW i \in 1..Len(u), q = Request(u[i]) PROVE q \in Queued(n)
    BY <1>2, <2>1 DEF Queued
  <2>2. ASSUME NEW i \in Pending(n), q = Request(inbox[n][i]) PROVE q \in Queued(n)
    BY <2>2 DEF Queued
  <2> QED BY <1>4, <1>5, <2>1, <2>2 DEF Queued, Request
<1>7. Request(Head(o)) \in Queued(n)
  BY <1>2, <1>3 DEF Queued
<1>8. \A i \in 1..Len(u) : ~Deep(u[i].tag)
  BY <1>2 DEF DeepFirst
<1>9. \A i \in Pending(n) : ~Deep(inbox[n][i].tag)
  BY DEF DeepFirst
<1>10. \A q \in Queued(n)' : ~Deep(q[2])
  <2> SUFFICES ASSUME NEW q \in Queued(n)' PROVE ~Deep(q[2])
    OBVIOUS
  <2>1. ASSUME NEW i \in 1..Len(u), q = Request(u[i]) PROVE ~Deep(q[2])
    BY <1>8, <2>1 DEF Request
  <2>2. ASSUME NEW i \in Pending(n), q = Request(inbox[n][i]) PROVE ~Deep(q[2])
    BY <1>9, <2>2 DEF Request
  <2> QED BY <1>4, <1>5, <2>1, <2>2 DEF Queued, Request
<1>11. DeepFirst(n)'
  <2>1. \A t : Deep(t)' <=> Deep(t)
    BY DEF Deep
  <2> QED BY <1>4, <1>5, <1>8, <1>9, <2>1 DEF DeepFirst
<1>12. ASSUME OwnLast(n) PROVE OwnLast(n)'
  <2>1. \A i \in 1..Len(u) : u[i].tag = Own => i = Len(u) /\ Pending(n) = {}
    BY <1>2, <1>12 DEF OwnLast
  <2> QED BY <1>4, <1>5, <1>12, <2>1 DEF OwnLast, Own
<1>13. ASSUME OwnLast(n), Head(o).tag = Own PROVE Queued(n)' = {}
  <2>1. Len(o) = 1 /\ Pending(n) = {}
    BY <1>2, <1>3, <1>13 DEF OwnLast
  <2>2. 1..Len(u) = {}
    BY <1>2, <2>1
  <2> QED BY <1>4, <1>5, <2>1, <2>2 DEF Queued
<1>14. Head(o).from = n /\ \A i \in 1..Len(u) : u[i].from = n
  BY <1>2, <1>3
<1> QED BY <1>4, <1>6, <1>7, <1>10, <1>11, <1>12, <1>13, <1>14

\* What is pending after the oldest frame of a queue is taken.
LEMMA PendingTail ==
  ASSUME TypeOK, NEW n \in Node, inbox[n] # <<>>, inbox'[n] = Tail(inbox[n])
  PROVE  /\ Head(inbox[n]) = inbox[n][1] /\ Head(inbox[n]) \in Frame
         /\ \A i \in Pending(n)' : i + 1 \in Pending(n) /\ inbox'[n][i] = inbox[n][i + 1]
         /\ \A i \in Pending(n) : i # 1 => i - 1 \in Pending(n)'
         /\ IsSdo(Head(inbox[n])) <=> 1 \in Pending(n)
         /\ \A i \in Pending(n) : i \in Nat \ {0}
         /\ \A i \in Pending(n)' : i \in Nat \ {0}
<1> DEFINE q == inbox[n]
           r == Tail(q)
<1>1. q \in Seq(Frame)
  BY DEF TypeOK
<1>2. /\ Len(q) \in Nat \ {0} /\ Len(r) = Len(q) - 1 /\ Head(q) = q[1] /\ Head(q) \in Frame
      /\ \A i \in 1..Len(r) : r[i] = q[i + 1]
  BY <1>1, HeadTail
<1>3. Pending(n)' = { i \in 1..Len(r) : IsSdo(r[i]) }
  BY DEF Pending
<1>4. Pending(n) = { i \in 1..Len(q) : IsSdo(q[i]) }
  BY DEF Pending
<1> HIDE DEF r
<1>5. \A i \in Pending(n)' : i + 1 \in Pending(n) /\ inbox'[n][i] = q[i + 1]
  BY <1>2, <1>3, <1>4 DEF r
<1>6. \A i \in Pending(n) : i # 1 => i - 1 \in Pending(n)'
  <2> SUFFICES ASSUME NEW i \in Pending(n), i # 1 PROVE i - 1 \in Pending(n)'
    OBVIOUS
  <2>1. i \in 2..Len(q) /\ IsSdo(q[i])
    BY <1>2, <1>4
  <2>2. i - 1 \in 1..Len(r) /\ (i - 1) + 1 = i
    BY <1>2, <2>1
  <2>3. r[i - 1] = q[i]
    BY <1>2, <2>2
  <2> QED BY <1>3, <2>1, <2>2, <2>3
<1> QED BY <1>2, <1>3, <1>4, <1>5, <1>6

\* Taking a frame that gets no answer.
LEMMA FrameTaken ==
  ASSUME TypeOK, NEW n \in Node, inbox[n] # <<>>, UNCHANGED <<epoch, step, backlog>>,
         inbox'[n] = Tail(inbox[n]), outbox'[n] = outbox[n], DeepFirst(n)
  PROVE  /\ Queued(n)' \subseteq Queued(n) /\ DeepFirst(n)'
         /\ OwnLast(n) => OwnLast(n)'
<1>1. /\ \A i \in Pending(n)' : i + 1 \in Pending(n) /\ inbox'[n][i] = inbox[n][i + 1]
      /\ \A i \in Pending(n)' : i \in Nat \ {0}
  BY PendingTail
<1>2. Queued(n)' \subseteq Queued(n)
  <2> SUFFICES ASSUME NEW q \in Queued(n)' PROVE q \in Queued(n)
    OBVIOUS
  <2>1. ASSUME NEW i \in 1..Len(outbox[n]), q = Request(outbox[n][i]) PROVE q \in Queued(n)
    BY <2>1 DEF Queued
  <2>2. ASSUME NEW i \in Pending(n)', q = Request(inbox'[n][i]) PROVE q \in Queued(n)
    BY <1>1, <2>2 DEF Queued
  <2> QED BY <2>1, <2>2 DEF Queued, Request
<1>3. DeepFirst(n)'
  <2>1. \A t : Deep(t)' <=> Deep(t)
    BY DEF Deep
  <2>2. ASSUME NEW i \in Pending(n)', Deep(inbox'[n][i].tag)
        PROVE  outbox[n] = <<>> /\ \A j \in Pending(n)' : i <= j
    <3>1. outbox[n] = <<>> /\ \A j \in Pending(n) : i + 1 <= j
      BY <1>1, <2>2 DEF DeepFirst
    <3>2. \A j \in Pending(n)' : i + 1 <= j + 1
      BY <1>1, <3>1
    <3> QED BY <1>1, <3>1, <3>2
  <2> QED BY <2>1, <2>2 DEF DeepFirst
<1>4. ASSUME OwnLast(n) PROVE OwnLast(n)'
  <2>1. ASSUME NEW i \in Pending(n)', inbox'[n][i].tag = Own, NEW j \in Pending(n)'
        PROVE  j <= i
    <3>1. j + 1 <= i + 1
      BY <1>1, <1>4, <2>1 DEF OwnLast
    <3> QED BY <1>1, <3>1
  <2>2. Pending(n) = {} => Pending(n)' = {}
    BY <1>1
  <2> QED BY <1>4, <2>1, <2>2 DEF OwnLast, Own
<1> QED BY <1>2, <1>3, <1>4

\* Answering a request moves it behind the answers before it.
LEMMA RequestAnswered ==
  ASSUME TypeOK, NEW n \in Node, inbox[n] # <<>>, UNCHANGED <<epoch, step, backlog>>,
         inbox'[n] = Tail(inbox[n]), IsSdo(Head(inbox[n])), NEW a \in Answer,
         outbox'[n] = Append(outbox[n], a), a.key = Head(inbox[n]).key,
         a.tag = Head(inbox[n]).tag, a.from = n, DeepFirst(n),
         \A i \in 1..Len(outbox[n]) : outbox[n][i].from = n
  PROVE  /\ Queued(n)' \subseteq Queued(n) /\ DeepFirst(n)'
         /\ OwnLast(n) => OwnLast(n)'
         /\ \A i \in 1..Len(outbox'[n]) : outbox'[n][i].from = n
<1> DEFINE o == outbox[n]
           u == Append(o, a)
<1>1. /\ \A i \in Pending(n)' : i + 1 \in Pending(n) /\ inbox'[n][i] = inbox[n][i + 1]
      /\ \A i \in Pending(n)' : i \in Nat \ {0}
      /\ \A i \in Pending(n) : i \in Nat \ {0}
      /\ 1 \in Pending(n) /\ Head(inbox[n]) = inbox[n][1]
      /\ \A i \in Pending(n) : i # 1 => i - 1 \in Pending(n)'
  BY PendingTail
<1>2. o \in Seq(Answer)
  BY DEF TypeOK
<1>3. /\ Len(o) \in Nat /\ Len(u) = Len(o) + 1 /\ u[Len(o) + 1] = a
      /\ \A i \in 1..Len(o) : u[i] = o[i]
  BY <1>2, AppendAdds
<1>4. \A i \in 1..Len(u) : i \in 1..Len(o) \/ i = Len(o) + 1
  BY <1>3
<1>5. outbox'[n] = u
  OBVIOUS
<1>6. Request(a) = Request(inbox[n][1])
  BY <1>1 DEF Request
<1> HIDE DEF u
<1>7. Queued(n)' \subseteq Queued(n)
  <2> SUFFICES ASSUME NEW q \in Queued(n)' PROVE q \in Queued(n)
    OBVIOUS
  <2>1. ASSUME NEW i \in 1..Len(u), q = Request(u[i]) PROVE q \in Queued(n)
    <3>1. CASE i \in 1..Len(o)
      BY <1>3, <2>1, <3>1 DEF Queued
    <3>2. CASE i = Len(o) + 1
      BY <1>1, <1>3, <1>6, <2>1, <3>2 DEF Queued
    <3> QED BY <1>4, <3>1, <3>2
  <2>2. ASSUME NEW i \in Pending(n)', q = Request(inbox'[n][i]) PROVE q \in Queued(n)
    BY <1>1, <2>2 DEF Queued
  <2> QED BY <1>5, <2>1, <2>2 DEF Queued, Request
<1>8. DeepFirst(n)'
  <2>1. \A t : Deep(t)' <=> Deep(t)
    BY DEF Deep
  <2>2. ASSUME NEW i \in Pending(n)' PROVE ~Deep(inbox'[n][i].tag)
    <3>1. i + 1 \in Pending(n) /\ ~(i + 1 <= 1)
      BY <1>1
    <3> QED BY <1>1, <3>1 DEF DeepFirst
  <2>3. ASSUME NEW i \in 1..Len(u), Deep(u[i].tag) PROVE i = 1
    <3>1. CASE i \in 1..Len(o)
      BY <1>3, <2>3, <3>1 DEF DeepFirst
    <3>2. CASE i = Len(o) + 1
      <4>1. o = <<>>
        BY <1>1, <1>3, <2>3, <3>2 DEF DeepFirst
      <4> QED BY <3>2, <4>1
    <3> QED BY <1>4, <3>1, <3>2
  <2> QED BY <1>5, <2>1, <2>2, <2>3 DEF DeepFirst
<1>9. ASSUME OwnLast(n) PROVE OwnLast(n)'
  <2>1. ASSUME NEW i \in Pending(n)', inbox'[n][i].tag = Own, NEW j \in Pending(n)'
        PROVE  j <= i
    <3>1. j + 1 <= i + 1
      BY <1>1, <1>9, <2>1 DEF OwnLast
    <3> QED BY <1>1, <3>1
  <2>2. ASSUME NEW i \in 1..Len(u), u[i].tag = Own
        PROVE  i = Len(u) /\ Pending(n)' = {}
    <3>1. CASE i \in 1..Len(o)
      BY <1>1, <1>3, <1>9, <2>2, <3>1 DEF OwnLast
    <3>2. CASE i = Len(o) + 1
      <4>1. \A j \in Pending(n) : j <= 1
        BY <1>1, <1>3, <1>9, <2>2, <3>2 DEF OwnLast
      <4>2. ASSUME NEW j \in Pending(n)' PROVE FALSE
        <5>1. j + 1 <= 1
          BY <1>1, <4>1
        <5> QED BY <1>1, <5>1
      <4> QED BY <1>3, <3>2, <4>2
    <3> QED BY <1>4, <3>1, <3>2
  <2> QED BY <1>5, <2>1, <2>2 DEF OwnLast, Own
<1>10. \A i \in 1..Len(u) : u[i].from = n
  BY <1>3, <1>4
<1> QED BY <1>5, <1>7, <1>8, <1>9, <1>10

LEMMA SameQueues ==
  ASSUME NEW m \in Node, inbox'[m] = inbox[m], outbox'[m] = outbox[m]
  PROVE  /\ Queued(m)' = Queued(m)
         /\ UNCHANGED <<epoch, backlog>> /\ DeepFirst(m) => DeepFirst(m)'
         /\ UNCHANGED <<epoch, step>> /\ OwnLast(m) => OwnLast(m)'
<1>1. Pending(m)' = Pending(m)
  BY DEF Pending
<1>2. Queued(m)' = Queued(m)
  BY <1>1 DEF Queued, Request
<1>3. UNCHANGED <<epoch, backlog>> /\ DeepFirst(m) => DeepFirst(m)'
  BY <1>1 DEF DeepFirst, Deep
<1>4. UNCHANGED <<epoch, step>> /\ OwnLast(m) => OwnLast(m)'
  BY <1>1 DEF OwnLast, Own
<1> QED BY <1>2, <1>3, <1>4

\* A drive has handled, refused or lost something, or has rebooted.
LEMMA DriveStep ==
  ASSUME InRange, BacklogInv, NEW n \in Node,
         UNCHANGED <<phase, node, step, slot, epoch, backlog>>,
         \A m \in Node \ {n} : inbox'[m] = inbox[m] /\ outbox'[m] = outbox[m],
         Queued(n)' \subseteq Queued(n), DeepFirst(n)', OwnLast(n) => OwnLast(n)',
         \A i \in 1..Len(outbox'[n]) : outbox'[n][i].from = n
  PROVE  BacklogInv'
<1>1. \A m \in Node \ {n} : /\ Queued(m)' = Queued(m)
                            /\ DeepFirst(m) => DeepFirst(m)'
                            /\ OwnLast(m) => OwnLast(m)'
  BY SameQueues
<1>2. \A m \in Node : InSlot(m)' = InSlot(m)
  BY DEF InSlot, Request
<1>3. AllKnown' /\ InPlace'
  BY <1>1, <1>2, FewerUnderWay DEF UnderWay
<1>4. FromItsDrive'
  <2> SUFFICES ASSUME NEW m \in Node
               PROVE  \A i \in 1..Len(outbox'[m]) : outbox'[m][i].from = m
    BY DEF FromItsDrive
  <2> QED BY DEF BacklogInv, FromItsDrive
<1>5. Ordered'
  <2>1. \A m \in Node : DeepFirst(m)'
    BY <1>1 DEF BacklogInv, Ordered
  <2>2. ASSUME phase = "waiting" PROVE OwnLast(node)'
    <3> SUFFICES ASSUME NEW m \in Node, m = node PROVE OwnLast(m)'
      BY <2>2 DEF InRange, Activating
    <3> QED BY <1>1, <2>2 DEF BacklogInv, Ordered
  <2>3. ASSUME phase = "waiting", slot.from = node
        PROVE  /\ slot.tag = Own => Queued(node)' = {}
               /\ \A q \in Queued(node)' : ~Deep(q[2])
    <3>1. \A m \in Node : Queued(m)' \subseteq Queued(m)
      BY <1>1
    <3>2. Queued(node)' \subseteq Queued(node)
      BY <2>3, <3>1 DEF InRange, Activating
    <3> QED BY <2>3, <3>2 DEF BacklogInv, Ordered
  <2>4. \A q : Deep(q[2])' <=> Deep(q[2])
    BY DEF Deep
  <2> QED BY <2>1, <2>2, <2>3, <2>4 DEF Ordered, Own
<1> QED BY <1>3, <1>4, <1>5 DEF BacklogInv

\* An answer reaches nobody.
LEMMA BacklogUnheard ==
  ASSUME TypeOK, InRange, BacklogInv, NEW n \in Node, Heard(n),
         UNCHANGED <<phase, node, step, slot, epoch, backlog, inbox>>
  PROVE  BacklogInv'
<1>1. /\ outbox[n] # <<>> /\ outbox'[n] = Tail(outbox[n])
      /\ \A m \in Node \ {n} : outbox'[m] = outbox[m]
  BY DEF Heard, TypeOK
<1>2. DeepFirst(n) /\ \A i \in 1..Len(outbox[n]) : outbox[n][i].from = n
  BY DEF BacklogInv, Ordered, FromItsDrive
<1> QED BY <1>1, <1>2, AnswerTaken, DriveStep

\* The receive thread stores an answer.
LEMMA BacklogReceive ==
  ASSUME TypeOK, InRange, BacklogInv, NEW n \in Node, Receive(n)
  PROVE  BacklogInv'
<1>1. /\ outbox[n] # <<>> /\ outbox'[n] = Tail(outbox[n])
      /\ \A m \in Node \ {n} : outbox'[m] = outbox[m]
      /\ UNCHANGED <<phase, node, step, epoch, backlog, inbox>>
      /\ slot' = Head(outbox[n])
  BY DEF Receive, Heard, TypeOK, history
<1>2. DeepFirst(n) /\ \A i \in 1..Len(outbox[n]) : outbox[n][i].from = n
  BY DEF BacklogInv, Ordered, FromItsDrive
<1>3. /\ Queued(n)' \subseteq Queued(n) /\ Request(Head(outbox[n])) \in Queued(n)
      /\ DeepFirst(n)' /\ \A q \in Queued(n)' : ~Deep(q[2])
      /\ OwnLast(n) => /\ OwnLast(n)'
                       /\ Head(outbox[n]).tag = Own => Queued(n)' = {}
      /\ slot'.from = n /\ \A i \in 1..Len(outbox'[n]) : outbox'[n][i].from = n
  BY <1>1, <1>2, AnswerTaken
<1>4. \A m \in Node \ {n} : /\ Queued(m)' = Queued(m)
                            /\ DeepFirst(m) => DeepFirst(m)'
                            /\ OwnLast(m) => OwnLast(m)'
  BY <1>1, SameQueues
<1>5. \A m \in Node : UnderWay(m)' \subseteq UnderWay(m)
  <2> SUFFICES ASSUME NEW m \in Node PROVE UnderWay(m)' \subseteq UnderWay(m)
    OBVIOUS
  <2>1. CASE m = n
    <3>1. InSlot(n)' \subseteq Queued(n)
      BY <1>1, <1>3 DEF InSlot, Request
    <3> QED BY <1>3, <2>1, <3>1 DEF UnderWay
  <2>2. CASE m # n
    <3>1. InSlot(m)' = {}
      BY <1>3, <2>2 DEF InSlot
    <3> QED BY <1>4, <2>2, <3>1 DEF UnderWay
  <2> QED BY <2>1, <2>2
<1>6. AllKnown' /\ InPlace'
  BY <1>1, <1>5, FewerUnderWay
<1>7. FromItsDrive'
  <2> SUFFICES ASSUME NEW m \in Node
               PROVE  \A i \in 1..Len(outbox'[m]) : outbox'[m][i].from = m
    BY DEF FromItsDrive
  <2> QED BY <1>1, <1>3 DEF BacklogInv, FromItsDrive
<1>8. Ordered'
  <2>1. \A m \in Node : DeepFirst(m)'
    BY <1>3, <1>4 DEF BacklogInv, Ordered
  <2>2. ASSUME phase = "waiting" PROVE OwnLast(node)'
    <3> SUFFICES ASSUME NEW m \in Node, m = node PROVE OwnLast(m)'
      BY <1>1, <2>2 DEF InRange, Activating
    <3> QED BY <1>3, <1>4, <2>2 DEF BacklogInv, Ordered
  <2>3. ASSUME phase = "waiting", n = node
        PROVE  /\ slot'.tag = Own => Queued(n)' = {}
               /\ \A q \in Queued(n)' : ~Deep(q[2])
    <3>1. OwnLast(n)
      BY <2>3 DEF BacklogInv, Ordered
    <3> QED BY <1>1, <1>3, <3>1
  <2>4. \A q : Deep(q[2])' <=> Deep(q[2])
    BY <1>1 DEF Deep
  <2>5. node' = node /\ phase' = phase /\ Own' = Own
    BY <1>1 DEF Own
  <2> QED BY <1>3, <2>1, <2>2, <2>3, <2>4, <2>5 DEF Ordered
<1> QED BY <1>6, <1>7, <1>8 DEF BacklogInv

\* A frame is lost, or is an NMT command.
LEMMA BacklogTaken ==
  ASSUME TypeOK, InRange, BacklogInv, NEW n \in Node, Taken(n), outbox' = outbox,
         UNCHANGED <<phase, node, step, slot, epoch, backlog>>
  PROVE  BacklogInv'
<1>1. /\ inbox[n] # <<>> /\ inbox'[n] = Tail(inbox[n])
      /\ \A m \in Node \ {n} : inbox'[m] = inbox[m]
  BY TakenFrom
<1>2. DeepFirst(n) /\ \A i \in 1..Len(outbox[n]) : outbox[n][i].from = n
  BY DEF BacklogInv, Ordered, FromItsDrive
<1>3. Queued(n)' \subseteq Queued(n) /\ DeepFirst(n)' /\ (OwnLast(n) => OwnLast(n)')
  BY <1>1, <1>2, FrameTaken
<1> QED BY <1>1, <1>2, <1>3, DriveStep

\* A request is answered.
LEMMA BacklogAnswered ==
  ASSUME TypeOK, InRange, BacklogInv, NEW n \in Node, Taken(n), IsSdo(Head(inbox[n])),
         NEW ok \in BOOLEAN, NEW v \in State \union {"refused", "illegal"},
         Answers(n, Reply(n, Head(inbox[n]), ok, v)),
         UNCHANGED <<phase, node, step, slot, epoch, backlog>>
  PROVE  BacklogInv'
<1> DEFINE a == Reply(n, Head(inbox[n]), ok, v)
<1>1. /\ inbox[n] # <<>> /\ inbox'[n] = Tail(inbox[n]) /\ Head(inbox[n]) \in Frame
      /\ \A m \in Node \ {n} : inbox'[m] = inbox[m]
  BY TakenFrom
<1>2. DeepFirst(n) /\ \A i \in 1..Len(outbox[n]) : outbox[n][i].from = n
  BY DEF BacklogInv, Ordered, FromItsDrive
<1>3. a \in Answer
  BY <1>1, ReplyType
<1>4. outbox'[n] = Append(outbox[n], a) /\ \A m \in Node \ {n} : outbox'[m] = outbox[m]
  BY DEF Answers, TypeOK
<1>5. a.key = Head(inbox[n]).key /\ a.tag = Head(inbox[n]).tag /\ a.from = n
  BY DEF Reply
<1> HIDE DEF a
<1>6. /\ Queued(n)' \subseteq Queued(n) /\ DeepFirst(n)' /\ (OwnLast(n) => OwnLast(n)')
      /\ \A i \in 1..Len(outbox'[n]) : outbox'[n][i].from = n
  BY <1>1, <1>2, <1>3, <1>4, <1>5, RequestAnswered
<1> QED BY <1>1, <1>4, <1>6, DriveStep

LEMMA BacklogHandle ==
  ASSUME TypeOK, InRange, BacklogInv, NEW n \in Node, Handle(n) \/ Refuse(n) \/ LoseFrame(n)
  PROVE  BacklogInv'
<1> DEFINE f == Head(inbox[n])
<1>1. Taken(n) /\ UNCHANGED <<phase, node, step, slot, epoch, backlog>>
  BY DEF Handle, Refuse, LoseFrame, host, history
<1>2. drive[n].cia \in State
  BY DEF TypeOK, Drive
<1>3. \/ outbox' = outbox
      \/ IsSdo(f) /\ \/ Answers(n, Reply(n, f, TRUE, drive[n].cia))
                     \/ Answers(n, Reply(n, f, FALSE, "illegal"))
                     \/ Answers(n, Reply(n, f, FALSE, "refused"))
  BY DEF Handle, Refuse, LoseFrame
<1> QED BY <1>1, <1>2, <1>3, BacklogTaken, BacklogAnswered

LEMMA BacklogReboot ==
  ASSUME TypeOK, InRange, BacklogInv, NEW n \in Node, Reboot(n)
  PROVE  BacklogInv'
<1>1. /\ inbox'[n] = <<>> /\ outbox'[n] = <<>>
      /\ \A m \in Node \ {n} : inbox'[m] = inbox[m] /\ outbox'[m] = outbox[m]
      /\ UNCHANGED <<phase, node, step, slot, epoch, backlog>>
  BY DEF Reboot, TypeOK, host
<1>2. Pending(n)' = {} /\ 1..Len(outbox'[n]) = {}
  BY <1>1 DEF Pending
<1>3. Queued(n)' = {} /\ DeepFirst(n)' /\ OwnLast(n)'
  BY <1>2 DEF Queued, DeepFirst, OwnLast
<1> QED BY <1>1, <1>2, <1>3, DriveStep

LEMMA BacklogSameBus ==
  ASSUME InRange, BacklogInv, UNCHANGED <<phase, node, step, slot, epoch, backlog, inbox, outbox>>
  PROVE  BacklogInv'
<1> DEFINE n == 1
<1>1. n \in Node
  BY PxxAssumption DEF Node
<1>2. /\ Queued(n)' = Queued(n) /\ DeepFirst(n)' /\ (OwnLast(n) => OwnLast(n)')
      /\ \A i \in 1..Len(outbox'[n]) : outbox'[n][i].from = n
  BY <1>1, SameQueues DEF BacklogInv, Ordered, FromItsDrive
<1> HIDE DEF n
<1> QED BY <1>1, <1>2, DriveStep

\* The main thread configures no drive, or no longer.
LEMMA BacklogOff ==
  ASSUME BacklogInv, UNCHANGED <<epoch, backlog, inbox, outbox>>,
         phase' \notin {"configuring", "waiting"}
  PROVE  BacklogInv'
<1>1. \A m \in Node : Queued(m)' = Queued(m) /\ DeepFirst(m)' /\ UnderWay(m)' \subseteq UnderWay(m)
  BY SameQueues DEF BacklogInv, Ordered, UnderWay, InSlot
<1>2. FromItsDrive'
  BY DEF BacklogInv, FromItsDrive
<1>3. AllKnown'
  BY <1>1 DEF BacklogInv, AllKnown, Known
<1> QED BY <1>1, <1>2, <1>3 DEF BacklogInv, Ordered, InPlace, Activating

\* A frame is sent to a drive.
LEMMA Posted ==
  ASSUME TypeOK, NEW n \in Node, NEW f \in Frame, UNCHANGED <<epoch, backlog>>,
         inbox'[n] = Append(inbox[n], f), outbox'[n] = outbox[n]
  PROVE  /\ Queued(n)' = Queued(n) \union (IF IsSdo(f) THEN {Request(f)} ELSE {})
         /\ DeepFirst(n) /\ (IsSdo(f) => ~Deep(f.tag) \/ Queued(n) = {}) => DeepFirst(n)'
         /\ /\ IsSdo(f) /\ step' = step
            /\ \A q \in Queued(n) : q[2] # Own
            => OwnLast(n)'
<1> DEFINE r == Append(inbox[n], f)
           L == Len(inbox[n])
<1>1. inbox[n] \in Seq(Frame)
  BY DEF TypeOK
<1>2. /\ L \in Nat /\ Len(r) = L + 1 /\ r[L + 1] = f
      /\ \A i \in 1..L : r[i] = inbox[n][i]
  BY <1>1, AppendAdds
<1>3. 1..Len(r) = 1..L \union {L + 1}
  BY <1>2
<1>4. inbox'[n] = r
  OBVIOUS
<1> HIDE DEF r
<1>5. Pending(n)' = Pending(n) \union (IF IsSdo(f) THEN {L + 1} ELSE {})
  BY <1>2, <1>3, <1>4 DEF Pending
<1>6. \A i \in Pending(n) : i \in 1..L /\ inbox'[n][i] = inbox[n][i] /\ i < L + 1
  BY <1>2, <1>4 DEF Pending
<1>7. inbox'[n][L + 1] = f
  BY <1>2, <1>4
<1>8. Queued(n)' = Queued(n) \union (IF IsSdo(f) THEN {Request(f)} ELSE {})
  <2>1. { Request(inbox'[n][i]) : i \in Pending(n) } = { Request(inbox[n][i]) : i \in Pending(n) }
    BY <1>6
  <2>2. { Request(inbox'[n][i]) : i \in Pending(n)' }
          = { Request(inbox'[n][i]) : i \in Pending(n) }
              \union (IF IsSdo(f) THEN {Request(f)} ELSE {})
    BY <1>5, <1>7
  <2>3. Queued(n)' = { Request(outbox[n][i]) : i \in 1..Len(outbox[n]) }
                       \union { Request(inbox'[n][i]) : i \in Pending(n)' }
    BY DEF Queued, Request
  <2> QED BY <2>1, <2>2, <2>3 DEF Queued
<1>9. ASSUME DeepFirst(n), IsSdo(f) => ~Deep(f.tag) \/ Queued(n) = {}
      PROVE  DeepFirst(n)'
  <2>1. \A t : Deep(t)' <=> Deep(t)
    BY DEF Deep
  <2>2. ASSUME NEW i \in Pending(n)', Deep(inbox'[n][i].tag)
        PROVE  outbox[n] = <<>> /\ \A j \in Pending(n)' : i <= j
    <3>1. CASE i \in Pending(n)
      BY <1>2, <1>5, <1>6, <1>9, <2>2, <3>1 DEF DeepFirst
    <3>2. CASE i \notin Pending(n)
      <4>1. IsSdo(f) /\ i = L + 1 /\ Queued(n) = {}
        BY <1>5, <1>7, <1>9, <2>2, <3>2
      <4>2. outbox[n] = <<>> /\ Pending(n)' = {L + 1}
        BY <1>5, <4>1, QueuedIs
      <4> QED BY <1>2, <4>1, <4>2
    <3> QED BY <3>1, <3>2
  <2> QED BY <1>9, <2>1, <2>2 DEF DeepFirst
<1>10. ASSUME IsSdo(f), step' = step, \A q \in Queued(n) : q[2] # Own
       PROVE  OwnLast(n)'
  <2>1. \A x : Request(x)[2] = x.tag
    BY DEF Request
  <2>2. \A i \in 1..Len(outbox[n]) : outbox[n][i].tag # Own
    <3>1. \A i \in 1..Len(outbox[n]) : Request(outbox[n][i]) \in Queued(n)
      BY DEF Queued
    <3> QED BY <1>10, <2>1, <3>1
  <2>3. \A i \in Pending(n) : inbox[n][i].tag # Own
    <3>1. \A i \in Pending(n) : Request(inbox[n][i]) \in Queued(n)
      BY DEF Queued
    <3> QED BY <1>10, <2>1, <3>1
  <2>4. ASSUME NEW i \in Pending(n)', inbox'[n][i].tag = Own
        PROVE  \A j \in Pending(n)' : j <= i
    <3>1. i = L + 1
      BY <1>5, <1>6, <2>3, <2>4
    <3> QED BY <1>2, <1>5, <1>6, <3>1
  <2> QED BY <1>10, <2>2, <2>4 DEF OwnLast, Own
<1> QED BY <1>8, <1>9, <1>10

\* A frame sent to drive k leaves the others alone.
LEMMA PostedTo ==
  ASSUME TypeOK, NEW k \in Node, NEW line, NEW tag, Post(k, line, tag)
  PROVE  /\ inbox'[k] = Append(inbox[k], Message(line, tag))
         /\ \A m \in Node \ {k} : inbox'[m] = inbox[m]
BY DEF Post, TypeOK

\* deactivate() has sent a frame.
LEMMA BacklogDisarm ==
  ASSUME TypeOK, InRange, NoneBegun, BacklogInv, DisarmSend
  PROVE  BacklogInv'
<1>1. /\ phase = "deactivating" /\ phase' = "deactivating" /\ node \in Node /\ step \in 1..2
      /\ outbox' = outbox /\ UNCHANGED <<epoch, backlog>>
  BY DEF DisarmSend, InRange, history
<1>2. PICK k \in Node : k = node
  BY <1>1
<1>3. PICK f \in Frame : f = Message(Disarm[step], <<epoch, 0>>)
  BY <1>1, DisarmMessageType
<1>4. /\ inbox'[k] = Append(inbox[k], f)
      /\ \A m \in Node \ {k} : inbox'[m] = inbox[m]
  BY <1>3, <1>2, PostedTo DEF DisarmSend
<1>5. f \in Frame /\ f.tag = <<epoch, 0>>
  BY <1>3 DEF Message
<1>6. IsSdo(f) => f.key = <<"6040", 0>>
  BY <1>3, <1>1 DEF Message, Disarm, IsSdo, Nmt, Write
<1>7. ~Deep(f.tag)
  BY <1>5 DEF Deep
<1>8. backlog > 0 /\ epoch \in Nat /\ backlog \in Nat
  BY <1>1 DEF NoneBegun, TypeOK
<1>9. /\ Queued(k)' = Queued(k) \union (IF IsSdo(f) THEN {Request(f)} ELSE {})
      /\ DeepFirst(k)'
  BY <1>1, <1>4, <1>5, <1>7, Posted DEF BacklogInv, Ordered
<1>10. \A m \in Node \ {k} : Queued(m)' = Queued(m) /\ DeepFirst(m)'
  BY <1>1, <1>4, SameQueues DEF BacklogInv, Ordered
<1>11. \A m \in Node : UnderWay(m)' = Queued(m)'
  BY <1>1 DEF UnderWay, InSlot
<1>12. \A m \in Node : \A q \in Queued(m) : Known(q)'
  BY <1>1 DEF BacklogInv, AllKnown, UnderWay, Known
<1>13. IsSdo(f) => Known(Request(f))'
  <2>1. epoch' <= epoch' /\ epoch' - epoch' < backlog'
    BY <1>1, <1>8
  <2>2. ASSUME IsSdo(f), NEW q, q = Request(f) PROVE Known(q)'
    <3>1. q[1] = <<"6040", 0>> /\ q[2][1] = epoch' /\ q[2][2] = 0
      BY <1>1, <1>5, <1>6, <2>2 DEF Request
    <3> QED BY <2>1, <3>1 DEF Known
  <2> QED BY <2>2
<1>14. AllKnown'
  <2> SUFFICES ASSUME NEW m \in Node, NEW q \in Queued(m)' PROVE Known(q)'
    BY <1>11 DEF AllKnown
  <2> QED BY <1>9, <1>10, <1>12, <1>13
<1>15. FromItsDrive'
  BY <1>1 DEF BacklogInv, FromItsDrive
<1>16. Ordered' /\ InPlace'
  BY <1>1, <1>9, <1>10 DEF Ordered, InPlace, Activating
<1> QED BY <1>14, <1>15, <1>16 DEF BacklogInv

\* A request is sent.
LEMMA BacklogSdo ==
  ASSUME TypeOK, InRange, NoneBegun, BacklogInv, SendSdo
  PROVE  BacklogInv'
<1>1. /\ phase = "configuring" /\ phase' = "waiting" /\ node \in Node /\ IsSdo(Line(step))
      /\ slot' = None /\ outbox' = outbox /\ UNCHANGED <<node, step, epoch, backlog>>
  BY DEF SendSdo, InRange, Activating, history
<1>2. PICK k \in Node : k = node
  BY <1>1
<1>3. PICK s \in (2..30) \ {25} : s = step
  <2>1. step \in 1..30
    BY LineIs DEF TypeOK
  <2> QED BY <1>1, <2>1, SdoLines
<1>4. PICK f \in Frame : f = Message(Line(step), <<epoch, step>>)
  BY MessageType DEF TypeOK
<1>5. /\ inbox'[k] = Append(inbox[k], f)
      /\ \A m \in Node \ {k} : inbox'[m] = inbox[m]
  BY <1>4, <1>2, PostedTo DEF SendSdo
<1>6. f.tag = <<epoch, step>> /\ f.key = Line(step).key /\ f.kind = Line(step).kind
  BY <1>4 DEF Message
<1>7. /\ f \in Frame /\ f.tag = Own /\ IsSdo(f)
      /\ Request(f) = <<Line(s).key, <<epoch, s>>>>
  BY <1>1, <1>3, <1>6 DEF Own, IsSdo, Request
<1>8. backlog > 0 /\ epoch \in Nat /\ backlog \in Nat
  BY <1>1 DEF NoneBegun, TypeOK
<1>9. \A m \in Node : UnderWay(m) = Queued(m)
  BY <1>1 DEF UnderWay, InSlot
<1>10. \A q \in Queued(k) : q[2] # Own
  <2> SUFFICES ASSUME NEW q \in Queued(k), q[2] = Own PROVE FALSE
    OBVIOUS
  <2>1. OfEarlierLine(k, q)
    BY <1>1, <1>9 DEF BacklogInv, InPlace, Activating
  <2>2. q[2][1] = epoch /\ q[2][2] = step
    BY DEF Own
  <2>3. ~(k < node) /\ ~(step < step)
    BY <1>2, <1>3 DEF Node
  <2> QED BY <1>1, <2>1, <2>2, <2>3 DEF OfEarlierLine
<1>11. ~Deep(f.tag) \/ Queued(k) = {}
  <2> SUFFICES ASSUME NEW q \in Queued(k) PROVE ~Deep(f.tag)
    OBVIOUS
  <2>1. Behind(q)
    BY <1>1, <1>2, <1>3, <1>9, <1>10 DEF BacklogInv, InPlace, Activating
  <2>2. Depth(s - 1) < backlog /\ Depth(s) <= Depth(s - 1) + 1
    BY <1>3, <2>1, DepthStep DEF Behind
  <2>3. Depth(s) \in Nat /\ Depth(s - 1) \in Nat
    BY AskedFinite
  <2>4. Depth(s) <= backlog - (epoch - epoch)
    BY <1>8, <2>2, <2>3
  <2> QED BY <1>3, <1>7, <1>8, <2>3, <2>4 DEF Deep, Own
<1>12. /\ Queued(k)' = Queued(k) \union {Request(f)}
       /\ DeepFirst(k)' /\ OwnLast(k)'
  BY <1>1, <1>5, <1>7, <1>10, <1>11, Posted DEF BacklogInv, Ordered
<1>13. \A m \in Node \ {k} : Queued(m)' = Queued(m) /\ DeepFirst(m)'
  BY <1>1, <1>5, SameQueues DEF BacklogInv, Ordered
<1>14. \A m \in Node : UnderWay(m)' = Queued(m)'
  <2>1. \A m \in Node : slot'.from # m
    BY <1>1 DEF None, Node
  <2> QED BY <2>1 DEF UnderWay, InSlot
<1>15. AllKnown'
  <2> SUFFICES ASSUME NEW m \in Node, NEW q \in Queued(m)' PROVE Known(q)'
    BY <1>14 DEF AllKnown
  <2>1. CASE q \in Queued(m)
    BY <1>1, <1>9, <2>1 DEF BacklogInv, AllKnown, Known
  <2>2. CASE q = Request(f)
    <3>1. epoch' <= epoch' /\ epoch' - epoch' < backlog'
      BY <1>1, <1>8
    <3> QED BY <1>1, <1>7, <2>2, <3>1 DEF Known
  <2> QED BY <1>12, <1>13, <2>1, <2>2
<1>16. FromItsDrive'
  BY <1>1 DEF BacklogInv, FromItsDrive
<1>17. Ordered'
  <2>1. slot'.from # node'
    BY <1>1 DEF None, Node
  <2> QED BY <1>1, <1>2, <1>12, <1>13, <2>1 DEF Ordered
<1>18. InPlace'
  <2>1. ASSUME NEW m \in Node, NEW q \in Queued(m)' PROVE OfEarlierLine(m, q)'
    <3>1. CASE q \in Queued(m)
      BY <1>1, <1>9, <3>1 DEF BacklogInv, InPlace, Activating, OfEarlierLine
    <3>2. CASE m = k /\ q = Request(f)
      BY <1>1, <1>2, <1>3, <1>7, <3>2 DEF OfEarlierLine
    <3> QED BY <1>12, <1>13, <3>1, <3>2
  <2>2. ASSUME NEW q \in Queued(k)' PROVE (q[2] = Own \/ Behind(q))'
    <3>1. CASE q \in Queued(k)
      BY <1>1, <1>2, <1>3, <1>9, <3>1 DEF BacklogInv, InPlace, Activating, Own, Behind, Deep
    <3>2. CASE q = Request(f)
      BY <1>1, <1>7, <3>2 DEF Own, Request
    <3> QED BY <1>12, <3>1, <3>2
  <2> QED BY <1>1, <1>2, <1>14, <2>1, <2>2 DEF InPlace, Activating
<1> QED BY <1>15, <1>16, <1>17, <1>18 DEF BacklogInv

\* An NMT command is sent and the next line is up.
LEMMA BacklogNmt ==
  ASSUME TypeOK, InRange, BacklogInv, SendNmt
  PROVE  BacklogInv'
<1>1. /\ phase = "configuring" /\ node \in Node /\ ~IsSdo(Line(step))
      /\ UNCHANGED <<slot, outbox, epoch, backlog>> /\ Advance
  BY DEF SendNmt, InRange, Activating, history
<1>2. PICK k \in Node : k = node
  BY <1>1
<1>3. PICK s \in {1, 25} : s = step
  <2>1. step \in 1..30
    BY LineIs DEF TypeOK
  <2> QED BY <1>1, <2>1, SdoLines
<1>4. phase' = "configuring" /\ node' = node /\ step' = step + 1
  BY <1>1, <1>3, ProgramLength DEF Advance
<1>5. PICK f \in Frame : f = Message(Line(step), <<epoch, step>>)
  BY MessageType DEF TypeOK
<1>6. /\ inbox'[k] = Append(inbox[k], f)
      /\ \A m \in Node \ {k} : inbox'[m] = inbox[m]
  BY <1>2, <1>5, PostedTo DEF SendNmt
<1>7. ~IsSdo(f)
  BY <1>1, <1>5 DEF Message, IsSdo
<1>8. Queued(k)' = Queued(k) /\ DeepFirst(k)'
  BY <1>1, <1>6, <1>7, Posted DEF BacklogInv, Ordered
<1>9. \A m \in Node : Queued(m)' = Queued(m) /\ DeepFirst(m)'
  BY <1>1, <1>6, <1>8, SameQueues DEF BacklogInv, Ordered
<1>10. \A m \in Node : UnderWay(m)' = UnderWay(m)
  BY <1>1, <1>4, <1>9 DEF UnderWay, InSlot
<1>11. AllKnown'
  BY <1>1, <1>10 DEF BacklogInv, AllKnown, Known
<1>12. FromItsDrive'
  BY <1>1 DEF BacklogInv, FromItsDrive
<1>13. Ordered'
  BY <1>4, <1>9 DEF Ordered
<1>14. \A m \in Node : \A q \in UnderWay(m) : OfEarlierLine(m, q)
  BY <1>1 DEF BacklogInv, InPlace, Activating
<1>15. ASSUME NEW m \in Node, NEW q \in UnderWay(m) PROVE OfEarlierLine(m, q)'
  <2>1. OfEarlierLine(m, q)
    BY <1>14
  <2>2. q[2][2] \in 2..step /\ q[2][2] < step => q[2][2] \in 2..step' /\ q[2][2] < step'
    BY <1>3, <1>4
  <2> QED BY <1>1, <1>4, <2>1, <2>2 DEF OfEarlierLine
<1>16. ASSUME NEW q \in UnderWay(k) PROVE Behind(q)'
  <2>1. Known(q) /\ q[2][1] \in Nat /\ epoch \in Nat /\ backlog \in Nat
    BY UnderWayType DEF BacklogInv, AllKnown, TypeOK
  <2>2. backlog > 0
    BY <2>1 DEF Known
  <2>3. step' - 1 = s
    BY <1>3, <1>4
  <2>4. CASE s = 1
    BY <1>1, <2>1, <2>2, <2>3, <2>4, DepthBegins DEF Behind
  <2>5. CASE s = 25
    <3>1. OfEarlierLine(k, q)
      BY <1>14
    <3>2. q[2] # Own
      BY <1>1, <1>2, <1>3, <3>1 DEF OfEarlierLine, Own, Node
    <3>3. Behind(q)
      BY <1>1, <1>2, <1>3, <2>5, <3>2 DEF BacklogInv, InPlace, Activating
    <3>4. Depth(25) = Depth(24)
      BY DepthStep
    <3>5. step - 1 = 24 /\ step > 2
      BY <1>3, <2>5
    <3>6. Depth(s) < backlog /\ ~Deep(q[2])
      BY <2>5, <3>3, <3>4, <3>5 DEF Behind
    <3> QED BY <1>1, <2>3, <3>6 DEF Behind, Deep
  <2> QED BY <2>4, <2>5
<1>17. InPlace'
  BY <1>2, <1>4, <1>10, <1>15, <1>16 DEF InPlace
<1> QED BY <1>11, <1>12, <1>13, <1>17 DEF BacklogInv

\* A stale answer is accepted above the depth of the backlog only.
LEMMA StaleDepth ==
  ASSUME TypeOK, InRange, BacklogInv, Answered, slot.tag # Own
  PROVE  Depth(step) < backlog
<1>1. phase = "waiting" /\ slot.from = node /\ slot.key = Line(step).key /\ node \in Node
  BY DEF Answered, Matches, InRange, Activating
<1>2. PICK k \in Node : k = node
  BY <1>1
<1>3. PICK q : q = Request(slot)
  OBVIOUS
<1>4. q \in UnderWay(k) /\ q[1] = slot.key /\ q[2] = slot.tag
  BY <1>1, <1>2, <1>3 DEF UnderWay, InSlot, Request
<1>5. /\ q[2] \in Tag /\ q[2][1] \in Nat /\ q[2][2] \in 0..30
      /\ epoch \in Nat /\ backlog \in Nat
  <2>1. q[2] \in Tag /\ q[2][1] \in 0..MaxEpoch /\ q[2][2] \in 0..30
    BY <1>4, UnderWayType
  <2>2. epoch \in Nat /\ backlog \in Nat
    BY DEF TypeOK
  <2> QED BY <2>1, <2>2
<1>6. Known(q) /\ OfEarlierLine(k, q)
  BY <1>1, <1>4 DEF BacklogInv, AllKnown, InPlace, Activating
<1>7. PICK s \in 1..30 : s = step
  BY LineIs DEF TypeOK
<1>8. PICK e \in Nat : e = q[2][1]
  BY <1>5
<1>9. PICK t \in 0..30 : t = q[2][2]
  BY <1>5
<1>10. q[2] = <<e, t>>
  BY <1>5, <1>8, <1>9 DEF Tag
<1>11. <<e, t>> # <<epoch, s>>
  BY <1>4, <1>7, <1>10 DEF Own
<1>12. e <= epoch /\ epoch - e < backlog
  BY <1>6, <1>8 DEF Known
<1>13. e = epoch => t \in 2..s /\ t # s
  BY <1>1, <1>2, <1>6, <1>7, <1>8, <1>9, <1>11 DEF OfEarlierLine, Node
<1>14. /\ t = 0 \/ t \in (2..30) \ {25}
       /\ Line(s).key = IF t = 0 THEN Line(2).key ELSE Line(t).key
  <2>1. Line(2).key = <<"6040", 0>>
    BY LineIs, ProgramIs DEF Write
  <2> QED BY <1>1, <1>4, <1>6, <1>7, <1>9, <2>1 DEF Known
<1>15. s >= 2
  <2>1. Line(s).key \in Objects
    BY <1>14, AskedObject
  <2>2. s # 1
    BY <2>1, AskedObject
  <2> QED BY <2>2
<1>16. Depth(s - 1) < backlog /\ (s > 2 => ~Deep(q[2]))
  BY <1>1, <1>2, <1>4, <1>7, <1>15 DEF BacklogInv, InPlace, Activating, Behind
<1>17. Depth(s) \in Nat /\ (t # 0 => Depth(t) \in Nat)
  BY <1>14, AskedFinite
<1>18. CASE s = 2
  <2>1. e < epoch
    BY <1>5, <1>8, <1>12, <1>13, <1>18
  <2>2. backlog >= 2
    BY <1>5, <1>12, <2>1
  <2> QED BY <1>5, <1>7, <1>17, <1>18, <2>2, DepthBegins
<1>19. CASE s > 2 /\ (t = 0 \/ t < s)
  <2>1. PICK r \in 2..(s - 1) : Line(s).key = Line(r).key
    BY <1>14, <1>19
  <2>2. Depth(s) = Depth(s - 1)
    BY <1>15, <2>1, RepeatedLine
  <2> QED BY <1>7, <1>16, <2>2
<1>20. CASE s > 2 /\ t # 0 /\ t >= s
  <2>1. e < epoch
    BY <1>5, <1>8, <1>9, <1>12, <1>13, <1>20
  <2>2. Depth(t) <= backlog - (epoch - e)
    BY <1>5, <1>14, <1>16, <1>17, <1>8, <1>9, <1>20 DEF Deep
  <2>3. Depth(s) <= Depth(t)
    BY <1>14, <1>20, DepthGrows
  <2> QED BY <1>5, <1>7, <1>17, <1>20, <2>1, <2>2, <2>3
<1> QED BY <1>15, <1>18, <1>19, <1>20

\* An answer is accepted.
LEMMA BacklogAccept ==
  ASSUME TypeOK, InRange, BacklogInv, Proceed \/ AskWhy
  PROVE  BacklogInv'
<1>1. /\ Answered /\ phase = "waiting" /\ slot.from = node /\ node \in Node
      /\ UNCHANGED <<slot, inbox, outbox, epoch, backlog>>
  BY DEF Proceed, AskWhy, Answered, Matches, InRange, Activating, bus, history
<1>2. PICK k \in Node : k = node
  BY <1>1
<1>3. PICK s \in 1..30 : s = step
  BY LineIs DEF TypeOK
<1>4. \/ phase' = "configuring" /\ node' = node /\ step' = s + 1
      \/ phase' = "configuring" /\ node' = node + 1 /\ step' = 1
      \/ phase' = "active"
  <2>1. CASE Proceed
    BY <1>3, <2>1, ProgramLength DEF Proceed, Advance
  <2>2. CASE AskWhy
    <3>1. s = 29
      BY <1>3, <2>2, StatusLine DEF AskWhy, BadStatus
    <3> QED BY <2>2, <3>1, LineIs DEF AskWhy
  <2> QED BY <2>1, <2>2
<1>5. CASE phase' = "active"
  BY <1>1, <1>5, BacklogOff
<1>6. CASE phase' = "configuring"
  <2>1. \A m \in Node : Queued(m)' = Queued(m) /\ DeepFirst(m)'
    BY <1>1, SameQueues DEF BacklogInv, Ordered
  <2>2. \A m \in Node : UnderWay(m)' = Queued(m) /\ Queued(m) \subseteq UnderWay(m)
    BY <1>6, <2>1 DEF UnderWay, InSlot
  <2>3. AllKnown'
    BY <1>1, <2>2 DEF BacklogInv, AllKnown, Known
  <2>4. FromItsDrive'
    BY <1>1 DEF BacklogInv, FromItsDrive
  <2>5. Ordered'
    BY <1>6, <2>1 DEF Ordered
  <2>6. ASSUME NEW m \in Node, NEW q \in Queued(m) PROVE OfEarlierLine(m, q)'
    <3>1. OfEarlierLine(m, q)
      BY <1>1, <2>2 DEF BacklogInv, InPlace, Activating
    <3>2. CASE node' = node /\ step' = s + 1
      <4>1. q[2][2] \in 2..step => q[2][2] \in 2..step' /\ q[2][2] < step'
        BY <1>3, <3>2
      <4> QED BY <1>1, <3>1, <3>2, <4>1 DEF OfEarlierLine
    <3>3. CASE node' = node + 1
      <4>1. m < node \/ m = node => m < node'
        BY <1>1, <3>3 DEF Node
      <4> QED BY <1>1, <3>1, <4>1 DEF OfEarlierLine
    <3> QED BY <1>4, <1>6, <3>2, <3>3
  <2>7. ASSUME node' = node, step' = s + 1, NEW q \in Queued(k) PROVE Behind(q)'
    <3>1. ~Deep(q[2]) /\ slot.tag # Own
      BY <1>1, <1>2 DEF BacklogInv, Ordered
    <3>2. Depth(s) < backlog
      BY <1>1, <1>3, <3>1, StaleDepth
    <3>3. step' - 1 = s
      BY <2>7
    <3> QED BY <1>1, <3>1, <3>2, <3>3 DEF Behind, Deep
  <2>8. InPlace'
    <3>1. step' >= 2 => node' = node /\ step' = s + 1
      BY <1>4, <1>6
    <3> QED BY <1>2, <2>2, <2>6, <2>7, <3>1 DEF InPlace
  <2> QED BY <2>3, <2>4, <2>5, <2>8 DEF BacklogInv
<1> QED BY <1>4, <1>5, <1>6

\* An activation begins.
LEMMA BacklogActivate ==
  ASSUME TypeOK, BacklogInv, Activate
  PROVE  BacklogInv'
<1>1. /\ phase' = "configuring" /\ step' = 1 /\ epoch' = epoch + 1
      /\ UNCHANGED <<inbox, outbox>> /\ epoch \in Nat /\ backlog \in Nat
  BY DEF Activate, bus, TypeOK
<1>2. \A m \in Node : Queued(m)' = Queued(m) /\ UnderWay(m)' = Queued(m)
  BY <1>1, SameQueues DEF UnderWay, InSlot
<1>3. FromItsDrive'
  BY <1>1 DEF BacklogInv, FromItsDrive
<1>4. CASE \A m \in Node : Idle(m)
  <2>1. \A m \in Node : Queued(m) = {}
    <3> SUFFICES ASSUME NEW m \in Node PROVE Queued(m) = {}
      OBVIOUS
    <3>1. outbox[m] = <<>> /\ Pending(m) = {}
      BY <1>4 DEF Idle, Pending
    <3> QED BY <3>1, QueuedIs
  <2>2. \A m \in Node : DeepFirst(m)'
    <3> SUFFICES ASSUME NEW m \in Node PROVE DeepFirst(m)'
      OBVIOUS
    <3>1. outbox[m] = <<>> /\ Pending(m)' = {}
      BY <1>1, <1>4 DEF Idle, Pending
    <3>2. 1..Len(outbox'[m]) = {}
      BY <1>1, <3>1
    <3> QED BY <3>1, <3>2 DEF DeepFirst
  <2> QED BY <1>1, <1>2, <1>3, <2>1, <2>2 DEF BacklogInv, AllKnown, Ordered, InPlace
<1>5. CASE \E m \in Node : ~Idle(m)
  <2>1. backlog' = backlog + 1
    BY <1>5 DEF Activate, OneMore
  <2>2. ASSUME NEW m \in Node, NEW q \in Queued(m)
        PROVE  /\ Known(q) /\ q[2][1] \in Nat
               /\ q[2][2] \in Nat
    BY <2>2, UnderWayType DEF BacklogInv, AllKnown, UnderWay
  <2>3. AllKnown'
    <3> SUFFICES ASSUME NEW m \in Node, NEW q \in Queued(m) PROVE Known(q)'
      BY <1>2 DEF AllKnown
    <3>1. q[2][1] <= epoch /\ epoch - q[2][1] < backlog
      BY <2>2 DEF Known
    <3>2. q[2][1] <= epoch' /\ epoch' - q[2][1] < backlog'
      BY <1>1, <2>1, <2>2, <3>1
    <3> QED BY <2>2, <3>2 DEF Known
  <2>4. ASSUME NEW e \in Nat PROVE backlog' - (epoch' - e) = backlog - (epoch - e)
    BY <1>1, <2>1
  <2>5. ASSUME NEW t \in Tag PROVE Deep(t)' <=> Deep(t)
    <3>1. t[1] \in Nat
      BY PxxAssumption DEF Tag
    <3> QED BY <2>4, <3>1 DEF Deep
  <2>6. \A m \in Node : DeepFirst(m)'
    <3> SUFFICES ASSUME NEW m \in Node PROVE DeepFirst(m)'
      OBVIOUS
    <3>1. Pending(m)' = Pending(m)
      BY <1>1 DEF Pending
    <3>2. \A i \in 1..Len(outbox[m]) : outbox[m][i].tag \in Tag
      <4>1. outbox[m] \in Seq(Answer)
        BY DEF TypeOK
      <4>2. \A i \in 1..Len(outbox[m]) : outbox[m][i] \in Answer
        BY <4>1
      <4> QED BY <4>2 DEF Answer
    <3>3. \A i \in Pending(m) : inbox[m][i].tag \in Tag
      <4>1. inbox[m] \in Seq(Frame)
        BY DEF TypeOK
      <4>2. \A i \in 1..Len(inbox[m]) : inbox[m][i] \in Frame
        BY <4>1
      <4> QED BY <4>2 DEF Frame, Pending
    <3> QED BY <1>1, <2>5, <3>1, <3>2, <3>3 DEF BacklogInv, Ordered, DeepFirst
  <2>7. ASSUME NEW m \in Node, NEW q \in Queued(m) PROVE OfEarlierLine(m, q)'
    <3>1. q[2][1] <= epoch
      BY <2>2 DEF Known
    <3> QED BY <1>1, <2>2, <3>1 DEF OfEarlierLine
  <2> QED BY <1>1, <1>2, <1>3, <2>3, <2>6, <2>7 DEF BacklogInv, Ordered, InPlace
<1> QED BY <1>4, <1>5

LEMMA BacklogStep ==
  ASSUME TypeOK, InRange, NoneBegun, BacklogInv, [Next]_vars
  PROVE  BacklogInv'
<1>1. CASE SendFails \/ GiveUp \/ Deactivate \/ DisarmSendFails \/ Close \/ Crash
  <2>1. /\ UNCHANGED <<epoch, backlog, inbox, outbox>>
        /\ phase' \notin {"configuring", "waiting"}
    BY <1>1 DEF SendFails, GiveUp, Deactivate, DisarmSendFails, Close, Crash,
                StartDisarm, bus, history
  <2> QED BY <2>1, BacklogOff
<1>2. ASSUME NEW n \in Node, Fault(n)
      PROVE  BacklogInv'
  BY <1>2, BacklogSameBus DEF Fault, host, bus
<1>3. ASSUME NEW n \in Node, Unheard(n) \/ LoseAnswer(n)
      PROVE  BacklogInv'
  BY <1>3, BacklogUnheard DEF Unheard, LoseAnswer, host, history
<1>4. CASE UNCHANGED vars
  BY <1>4, BacklogSameBus DEF vars, host, bus, history
<1> QED
  BY <1>1, <1>2, <1>3, <1>4, BacklogActivate, BacklogNmt, BacklogSdo, BacklogAccept,
     BacklogDisarm, BacklogReceive, BacklogHandle, BacklogReboot
     DEF Next, Transaction, Disarming

LEMMA BacklogAlways == Spec => []BacklogInv
<1>1. Init => BacklogInv
  <2> SUFFICES ASSUME Init PROVE BacklogInv
    OBVIOUS
  <2>1. \A m \in Node : outbox[m] = <<>> /\ Pending(m) = {} /\ 1..Len(outbox[m]) = {}
    BY DEF Init, Pending
  <2>2. \A m \in Node : UnderWay(m) = {} /\ DeepFirst(m)
    BY <2>1 DEF Init, UnderWay, Queued, InSlot, DeepFirst
  <2> QED BY <2>1, <2>2
       DEF Init, BacklogInv, FromItsDrive, AllKnown, Ordered, InPlace, Activating
<1>2. QED BY <1>1, BacklogStep, TypeCorrect, NoneBegunAlways, PTL DEF Spec

\* However many activations begin over undrained answers, a transaction accepts a
\* stale answer no deeper into configure_node than the backlog.
THEOREM StaleOnlyEarlyAlways == Spec => []StaleOnlyEarly
<1>1. TypeOK /\ InRange /\ BacklogInv => StaleOnlyEarly
  BY StaleDepth DEF StaleOnlyEarly, Depth, Own
<1>2. QED BY <1>1, BacklogAlways, TypeCorrect, PTL

LEMMA ObjectOfLine ==
  /\ Line(1).key[1] = "nmt" /\ Line(1).key[2] = 0
  /\ Line(2).key[1] = "6040" /\ Line(2).key[2] = 0
  /\ Line(3).key[1] = "6060" /\ Line(3).key[2] = 0
  /\ Line(4).key[1] = "1400" /\ Line(4).key[2] = 1
  /\ Line(5).key[1] = "1600" /\ Line(5).key[2] = 0
  /\ Line(6).key[1] = "1600" /\ Line(6).key[2] = 1
  /\ Line(7).key[1] = "1600" /\ Line(7).key[2] = 0
  /\ Line(8).key[1] = "1400" /\ Line(8).key[2] = 2
  /\ Line(9).key[1] = "1400" /\ Line(9).key[2] = 1
  /\ Line(10).key[1] = "1800" /\ Line(10).key[2] = 1
  /\ Line(11).key[1] = "1A00" /\ Line(11).key[2] = 0
  /\ Line(12).key[1] = "1A00" /\ Line(12).key[2] = 1
  /\ Line(13).key[1] = "1A00" /\ Line(13).key[2] = 2
  /\ Line(14).key[1] = "1A00" /\ Line(14).key[2] = 0
  /\ Line(15).key[1] = "1800" /\ Line(15).key[2] = 2
  /\ Line(16).key[1] = "1800" /\ Line(16).key[2] = 1
  /\ Line(17).key[1] = "1801" /\ Line(17).key[2] = 1
  /\ Line(18).key[1] = "1A01" /\ Line(18).key[2] = 0
  /\ Line(19).key[1] = "1A01" /\ Line(19).key[2] = 1
  /\ Line(20).key[1] = "1A01" /\ Line(20).key[2] = 0
  /\ Line(21).key[1] = "1801" /\ Line(21).key[2] = 2
  /\ Line(22).key[1] = "1801" /\ Line(22).key[2] = 1
  /\ Line(23).key[1] = "6064" /\ Line(23).key[2] = 0
BY LineIs, ProgramIs DEF Nmt, Write, Read

LEMMA NewObject ==
  ASSUME NEW s \in {3, 4, 5, 6, 8, 10, 11, 12, 13, 15, 17, 18, 19, 21, 23}, NEW l \in 1..(s - 1)
  PROVE  Line(s).key # Line(l).key
<1> SUFFICES Line(s).key[1] # Line(l).key[1] \/ Line(s).key[2] # Line(l).key[2]
  OBVIOUS
<1>1. CASE s = 3
  BY <1>1, ObjectOfLine
<1>2. CASE s = 4
  BY <1>2, ObjectOfLine
<1>3. CASE s = 5
  BY <1>3, ObjectOfLine
<1>4. CASE s = 6
  BY <1>4, ObjectOfLine
<1>5. CASE s = 8
  BY <1>5, ObjectOfLine
<1>6. CASE s = 10
  BY <1>6, ObjectOfLine
<1>7. CASE s = 11
  BY <1>7, ObjectOfLine
<1>8. CASE s = 12
  BY <1>8, ObjectOfLine
<1>9. CASE s = 13
  BY <1>9, ObjectOfLine
<1>10. CASE s = 15
  BY <1>10, ObjectOfLine
<1>11. CASE s = 17
  BY <1>11, ObjectOfLine
<1>12. CASE s = 18
  BY <1>12, ObjectOfLine
<1>13. CASE s = 19
  BY <1>13, ObjectOfLine
<1>14. CASE s = 21
  BY <1>14, ObjectOfLine
<1>15. CASE s = 23
  BY <1>15, ObjectOfLine
<1> QED BY <1>1, <1>2, <1>3, <1>4, <1>5, <1>6, <1>7, <1>8, <1>9, <1>10, <1>11, <1>12, <1>13, <1>14, <1>15

\* The position is the sixteenth object asked about.
LEMMA PositionDepth == ASSUME NEW s \in 23..30 PROVE Depth(s) >= 16
<1>1. \A r \in 2..30 : Depth(r) \in Nat /\ Depth(r - 1) \in Nat /\ Depth(r - 1) <= Depth(r)
  BY AskedFinite, DepthGrows
<1>2. ASSUME NEW r \in {2, 3, 4, 5, 6, 8, 10, 11, 12, 13, 15, 17, 18, 19, 21, 23}
      PROVE  Depth(r) = Depth(r - 1) + 1
  <2>1. CASE r = 2
    <3>1. Asked(1) = {}
      BY AskedObject DEF Asked
    <3> QED BY <2>1, <3>1, DepthStep
  <2>2. CASE r # 2
    <3>1. Line(r).key \notin Asked(r - 1)
      BY <2>2, NewObject DEF Asked
    <3> QED BY <2>2, <3>1, DepthStep
  <2> QED BY <2>1, <2>2
<1>3. Depth(6) >= 5
  BY <1>1, <1>2, DepthBegins
<1>4. Depth(11) >= 8
  BY <1>1, <1>2, <1>3
<1>5. Depth(15) >= 11
  BY <1>1, <1>2, <1>4
<1>6. Depth(19) >= 14
  BY <1>1, <1>2, <1>5
<1>7. Depth(23) >= 16
  BY <1>1, <1>2, <1>6
<1> QED BY <1>1, <1>7, DepthGrows

-----------------------------------------------------------------------------
(* A drive is enabled at rest.                                              *)

\* The frame seeds the target.
Seeds(f) == f.key = <<"607A", 0>>

\* The target of drive n is no position of before activation e.
Rest(n, e) ==
  drive[n].target = e \/ (drive[n].target = 0 /\ (n \in upset \/ e < epoch))

\* Drive n has its target from this activation, and no frame under way changes it.
Seeded(n) ==
  /\ Rest(n, epoch)
  /\ \A i \in 1..Len(inbox[n]) : ~Seeds(inbox[n][i])

\* The main thread is about to accept the answer to the seeding of drive n.
Seeding(n) ==
  \/ \E i \in 1..Len(outbox[n]) : outbox[n][i].tag = Own /\ outbox[n][i].ok
  \/ slot.from = n /\ slot.tag = Own /\ slot.ok

\* A position is measured after it was asked for.
Timely(a) == a.tag[1] <= a.at /\ a.at <= epoch

\* A target is seeded with a position of its own activation.
SeedsTimely(f) == Seeds(f) => f.kind = "write" /\ f.at = f.tag[1]

\* Once the frame is handled, the drive is enabled at rest.
EnablesAtRest(n, i) ==
  Enables(inbox[n][i]) =>
    /\ Rest(n, inbox[n][i].tag[1])
    /\ \A j \in 1..(i - 1) : ~Seeds(inbox[n][j])

AnswersTimely ==
  /\ \A n \in Node : \A i \in 1..Len(outbox[n]) : Timely(outbox[n][i])
  /\ Timely(slot)

FramesAtRest ==
  \A n \in Node : \A i \in 1..Len(inbox[n]) :
    SeedsTimely(inbox[n][i]) /\ EnablesAtRest(n, i)

SeedingInv ==
  /\ phase = "configuring" /\ step = 24 => position = epoch
  /\ phase = "waiting" /\ step = 24 /\ Seeding(node) => Seeded(node)
  /\ Activating /\ step >= 25 => Seeded(node)

AtRestInv == AnswersTimely /\ FramesAtRest /\ SeedingInv

LEMMA ObeyedTarget ==
  ASSUME NEW d \in Drive, NEW f
  PROVE  Obeyed(d, f).target = IF f.kind = "write" /\ Seeds(f) THEN f.at ELSE d.target
BY DEF Obeyed, Drive, Seeds

\* A frame that seeds is the one of line 24.
LEMMA SeedsOnce ==
  ASSUME NEW s \in 1..30, NEW t
  PROVE  /\ Seeds(Message(Line(s), t)) <=> s = 24
         /\ Enables(Message(Line(s), t)) => s = 28
BY TargetLine, EnableLine, SeedLine DEF Seeds, Enables, Message

\* Frames of deactivate() neither seed nor enable.
LEMMA DisarmHarmless ==
  ASSUME NEW s \in 1..2, NEW t
  PROVE  ~Seeds(Message(Disarm[s], t)) /\ ~Enables(Message(Disarm[s], t))
BY DEF Seeds, Enables, Message, Disarm, Nmt, Write

\* What is under way was asked for in an activation that has begun.
LEMMA BegunAlready ==
  ASSUME BacklogInv, NEW n \in Node, NEW i \in 1..Len(inbox[n]), IsSdo(inbox[n][i])
  PROVE  Known(Request(inbox[n][i])) /\ inbox[n][i].tag[1] <= epoch
<1>1. Request(inbox[n][i]) \in UnderWay(n)
  BY DEF UnderWay, Queued, Pending
<1>2. Known(Request(inbox[n][i]))
  BY <1>1 DEF BacklogInv, AllKnown
<1> QED BY <1>2 DEF Known, Request

\* The main thread configures no drive, or no longer.
LEMMA RestOff ==
  ASSUME AtRestInv, UNCHANGED <<epoch, inbox, outbox, drive, upset>>,
         slot' \in {slot, None}, phase' \notin {"configuring", "waiting"}, epoch \in Nat
  PROVE  AtRestInv'
<1>1. Timely(None)
  BY DEF Timely, None
<1>2. AnswersTimely'
  BY <1>1 DEF AtRestInv, AnswersTimely, Timely, None
<1>3. FramesAtRest'
  BY DEF AtRestInv, FramesAtRest, SeedsTimely, EnablesAtRest, Rest
<1>4. SeedingInv'
  BY DEF SeedingInv, Activating
<1> QED BY <1>2, <1>3, <1>4 DEF AtRestInv

LEMMA RestActivate ==
  ASSUME TypeOK, BacklogInv, AtRestInv, Activate
  PROVE  AtRestInv'
<1>1. /\ UNCHANGED <<inbox, outbox, drive, slot>> /\ phase' = "configuring" /\ step' = 1
      /\ epoch' = epoch + 1 /\ epoch \in Nat
  BY DEF Activate, bus, TypeOK
<1>2. ASSUME NEW a \in Answer \union {None}, Timely(a) PROVE Timely(a)'
  <2>1. a.at \in Nat
    BY PxxAssumption DEF Answer, None
  <2> QED BY <1>1, <1>2, <2>1 DEF Timely
<1>3. AnswersTimely'
  <2>1. slot \in Answer \union {None}
    BY DEF TypeOK
  <2>2. ASSUME NEW n \in Node, NEW i \in 1..Len(outbox[n]) PROVE outbox[n][i] \in Answer
    <3>1. outbox[n] \in Seq(Answer)
      BY DEF TypeOK
    <3> QED BY <3>1
  <2> QED BY <1>1, <1>2, <2>1, <2>2 DEF AtRestInv, AnswersTimely
<1>4. FramesAtRest'
  <2> SUFFICES ASSUME NEW n \in Node, NEW i \in 1..Len(inbox[n])
               PROVE  SeedsTimely(inbox[n][i]) /\ EnablesAtRest(n, i)'
    BY <1>1 DEF FramesAtRest, SeedsTimely
  <2>1. SeedsTimely(inbox[n][i]) /\ EnablesAtRest(n, i)
    BY DEF AtRestInv, FramesAtRest
  <2>2. ASSUME Enables(inbox[n][i]) PROVE inbox[n][i].tag[1] < epoch'
    <3>1. IsSdo(inbox[n][i])
      BY <2>2 DEF Enables, IsSdo
    <3>2. inbox[n][i].tag[1] <= epoch
      BY <3>1, BegunAlready
    <3>3. inbox[n] \in Seq(Frame)
      BY DEF TypeOK
    <3>4. inbox[n][i] \in Frame
      BY <3>3
    <3>5. inbox[n][i].tag[1] \in Nat
      BY <3>4, PxxAssumption DEF Frame, Tag
    <3> QED BY <1>1, <3>2, <3>5
  <2> QED BY <1>1, <2>1, <2>2 DEF EnablesAtRest, Rest
<1>5. SeedingInv'
  BY <1>1 DEF SeedingInv
<1> QED BY <1>3, <1>4, <1>5 DEF AtRestInv

\* A frame is sent to a drive.
LEMMA RestPosted ==
  ASSUME TypeOK, FramesAtRest, NEW k \in Node, NEW f \in Frame,
         inbox'[k] = Append(inbox[k], f), \A m \in Node \ {k} : inbox'[m] = inbox[m],
         UNCHANGED <<epoch, drive, upset>>, SeedsTimely(f),
         Enables(f) => f.tag[1] = epoch /\ Seeded(k)
  PROVE  /\ FramesAtRest'
         /\ \A m \in Node : Seeded(m) /\ ~Seeds(f) => Seeded(m)'
<1> DEFINE r == Append(inbox[k], f)
           L == Len(inbox[k])
<1>1. inbox[k] \in Seq(Frame)
  BY DEF TypeOK
<1>2. /\ L \in Nat /\ Len(r) = L + 1 /\ r[L + 1] = f
      /\ \A i \in 1..L : r[i] = inbox[k][i]
  BY <1>1, AppendAdds
<1>3. 1..Len(r) = 1..L \union {L + 1}
  BY <1>2
<1>4. inbox'[k] = r
  OBVIOUS
<1> HIDE DEF r
<1>5. \A m \in Node : \A e : Rest(m, e) => Rest(m, e)'
  BY DEF Rest
<1>6. ASSUME NEW m \in Node, NEW i \in 1..Len(inbox'[m])
      PROVE  SeedsTimely(inbox'[m][i]) /\ EnablesAtRest(m, i)'
  <2>1. CASE m # k
    BY <1>5, <1>6, <2>1 DEF FramesAtRest, EnablesAtRest
  <2>2. CASE m = k /\ i \in 1..L
    <3>1. inbox'[k][i] = inbox[k][i] /\ \A j \in 1..(i - 1) : inbox'[k][j] = inbox[k][j]
      BY <1>2, <1>4, <2>2
    <3> QED BY <1>5, <2>2, <3>1 DEF FramesAtRest, EnablesAtRest
  <2>3. CASE m = k /\ i = L + 1
    <3>1. inbox'[k][i] = f /\ \A j \in 1..(i - 1) : j \in 1..L /\ inbox'[k][j] = inbox[k][j]
      BY <1>2, <1>4, <2>3
    <3> QED BY <1>5, <2>3, <3>1 DEF EnablesAtRest, Seeded
  <2> QED BY <1>3, <1>4, <1>6, <2>1, <2>2, <2>3
<1>7. ASSUME NEW m \in Node, Seeded(m), ~Seeds(f) PROVE Seeded(m)'
  <2>1. CASE m # k
    BY <1>5, <1>7, <2>1 DEF Seeded
  <2>2. CASE m = k
    BY <1>2, <1>3, <1>4, <1>5, <1>7, <2>2 DEF Seeded
  <2> QED BY <2>1, <2>2
<1> QED BY <1>6, <1>7 DEF FramesAtRest, SeedsTimely

LEMMA RestDisarm ==
  ASSUME TypeOK, InRange, AtRestInv, DisarmSend
  PROVE  AtRestInv'
<1>1. /\ phase' = "deactivating" /\ node \in Node /\ step \in 1..2
      /\ UNCHANGED <<outbox, slot, drive, epoch, upset>>
  BY DEF DisarmSend, InRange, history
<1>2. PICK k \in Node : k = node
  BY <1>1
<1>3. PICK f \in Frame : f = Message(Disarm[step], <<epoch, 0>>)
  BY <1>1, DisarmMessageType
<1>4. inbox'[k] = Append(inbox[k], f) /\ \A m \in Node \ {k} : inbox'[m] = inbox[m]
  BY <1>2, <1>3, PostedTo DEF DisarmSend
<1>5. ~Seeds(f) /\ ~Enables(f)
  BY <1>1, <1>3, DisarmHarmless
<1>6. FramesAtRest'
  BY <1>1, <1>4, <1>5, RestPosted DEF AtRestInv, SeedsTimely
<1>7. AnswersTimely' /\ SeedingInv'
  BY <1>1 DEF AtRestInv, AnswersTimely, Timely, SeedingInv, Activating
<1> QED BY <1>6, <1>7 DEF AtRestInv

LEMMA RestNmt ==
  ASSUME TypeOK, InRange, AtRestInv, SendNmt
  PROVE  AtRestInv'
<1>1. /\ phase = "configuring" /\ node \in Node /\ ~IsSdo(Line(step))
      /\ UNCHANGED <<slot, position, outbox, drive, epoch, upset>> /\ Advance
  BY DEF SendNmt, InRange, Activating, history
<1>2. PICK k \in Node : k = node
  BY <1>1
<1>3. PICK s \in {1, 25} : s = step
  <2>1. step \in 1..30
    BY LineIs DEF TypeOK
  <2> QED BY <1>1, <2>1, SdoLines
<1>4. phase' = "configuring" /\ node' = node /\ step' = s + 1
  BY <1>1, <1>3, ProgramLength DEF Advance
<1>5. PICK f \in Frame : f = Message(Line(step), <<epoch, step>>)
  BY MessageType DEF TypeOK
<1>6. inbox'[k] = Append(inbox[k], f) /\ \A m \in Node \ {k} : inbox'[m] = inbox[m]
  BY <1>2, <1>5, PostedTo DEF SendNmt
<1>7. ~Seeds(f) /\ ~Enables(f)
  BY <1>3, <1>5, SeedsOnce
<1>8. FramesAtRest' /\ \A m \in Node : Seeded(m) => Seeded(m)'
  BY <1>1, <1>6, <1>7, RestPosted DEF AtRestInv, SeedsTimely
<1>9. AnswersTimely'
  BY <1>1 DEF AtRestInv, AnswersTimely, Timely
<1>10. step >= 25 => Seeded(k)
  BY <1>1, <1>2 DEF AtRestInv, SeedingInv, Activating
<1>11. SeedingInv'
  BY <1>2, <1>3, <1>4, <1>8, <1>10 DEF SeedingInv
<1> QED BY <1>8, <1>9, <1>11 DEF AtRestInv

\* No request that is under way has the tag of the next one.
LEMMA OwnIsNew ==
  ASSUME BacklogInv, phase = "configuring", node \in Node, step \in 1..30
  PROVE  \A q \in Queued(node) : q[2] # Own
<1> SUFFICES ASSUME NEW q \in Queued(node), q[2] = Own PROVE FALSE
  OBVIOUS
<1>1. OfEarlierLine(node, q)
  BY DEF BacklogInv, InPlace, Activating, UnderWay
<1>2. q[2][1] = epoch /\ q[2][2] = step
  BY DEF Own
<1>3. ~(node < node) /\ ~(step < step)
  BY DEF Node
<1> QED BY <1>1, <1>2, <1>3 DEF OfEarlierLine

LEMMA RestSdo ==
  ASSUME TypeOK, InRange, BacklogInv, AtRestInv, SendSdo
  PROVE  AtRestInv'
<1>1. /\ phase = "configuring" /\ phase' = "waiting" /\ node \in Node /\ slot' = None
      /\ UNCHANGED <<node, step, outbox, drive, epoch, upset>>
  BY DEF SendSdo, InRange, Activating, history
<1>2. PICK k \in Node : k = node
  BY <1>1
<1>3. PICK s \in 1..30 : s = step
  BY LineIs DEF TypeOK
<1>4. PICK f \in Frame : f = Message(Line(step), <<epoch, step>>)
  BY MessageType DEF TypeOK
<1>5. inbox'[k] = Append(inbox[k], f) /\ \A m \in Node \ {k} : inbox'[m] = inbox[m]
  BY <1>2, <1>4, PostedTo DEF SendSdo
<1>6. f.kind = Line(step).kind /\ f.at = position /\ f.tag = <<epoch, step>>
  BY <1>4 DEF Message
<1>7. Seeds(f) <=> s = 24
  BY <1>3, <1>4, SeedsOnce
<1>8. SeedsTimely(f)
  BY <1>1, <1>3, <1>6, <1>7, SeedLine DEF SeedsTimely, AtRestInv, SeedingInv
<1>9. step >= 25 => Seeded(k)
  BY <1>1, <1>2 DEF AtRestInv, SeedingInv, Activating
<1>10. Enables(f) => f.tag[1] = epoch /\ Seeded(k)
  BY <1>3, <1>4, <1>6, <1>9, SeedsOnce
<1>11. FramesAtRest' /\ \A m \in Node : Seeded(m) /\ ~Seeds(f) => Seeded(m)'
  BY <1>1, <1>5, <1>8, <1>10, RestPosted DEF AtRestInv
<1>12. AnswersTimely'
  <2>1. epoch \in Nat
    BY DEF TypeOK
  <2> QED BY <1>1, <2>1 DEF AtRestInv, AnswersTimely, Timely, None
<1>13. ~Seeding(k)'
  <2>1. \A i \in 1..Len(outbox[k]) : outbox[k][i].tag # Own
    <3>1. \A i \in 1..Len(outbox[k]) : Request(outbox[k][i]) \in Queued(k)
      BY DEF Queued
    <3>2. \A x : Request(x)[2] = x.tag
      BY DEF Request
    <3> QED BY <1>1, <1>2, <1>3, <3>1, <3>2, OwnIsNew
  <2>2. slot'.from # k
    BY <1>1 DEF None, Node
  <2>3. Own' = Own
    BY <1>1 DEF Own
  <2> QED BY <1>1, <2>1, <2>2, <2>3 DEF Seeding
<1>14. SeedingInv'
  <2>1. step >= 25 => ~Seeds(f)
    BY <1>3, <1>7
  <2>2. step >= 25 => Seeded(k)'
    BY <1>9, <1>11, <2>1
  <2> QED BY <1>1, <1>2, <1>13, <2>2 DEF SeedingInv
<1> QED BY <1>11, <1>12, <1>14 DEF AtRestInv

\* With a backlog of at most sixteen activations the answer to the request for the
\* position, and every answer after it, is its own.
LEMMA OwnFromPosition ==
  ASSUME MaxBacklog <= 16, TypeOK, InRange, BacklogInv, Answered, step >= 23
  PROVE  slot.tag = Own
<1> SUFFICES ASSUME slot.tag # Own PROVE FALSE
  OBVIOUS
<1>1. PICK s \in 23..30 : s = step
  <2>1. step \in 1..30
    BY LineIs DEF TypeOK
  <2> QED BY <2>1
<1>2. Depth(s) < backlog
  BY <1>1, StaleDepth
<1>3. Depth(s) >= 16 /\ Depth(s) \in Nat
  BY PositionDepth, AskedFinite
<1>4. backlog \in Nat /\ backlog <= 16
  BY PxxAssumption DEF TypeOK
<1> QED BY <1>2, <1>3, <1>4

LEMMA RestAccept ==
  ASSUME MaxBacklog <= 16, TypeOK, InRange, BacklogInv, AtRestInv, Proceed \/ AskWhy
  PROVE  AtRestInv'
<1>1. /\ Answered /\ phase = "waiting" /\ slot.from = node /\ node \in Node /\ slot.ok
      /\ UNCHANGED <<slot, inbox, outbox, drive, epoch, upset>>
  BY DEF Proceed, AskWhy, Answered, Matches, InRange, Activating, bus, history
<1>2. PICK k \in Node : k = node
  BY <1>1
<1>3. PICK s \in 1..30 : s = step
  BY LineIs DEF TypeOK
<1>4. \/ phase' = "configuring" /\ node' = node /\ step' = s + 1
      \/ phase' = "configuring" /\ step' = 1
      \/ phase' = "active"
  <2>1. CASE Proceed
    BY <1>3, <2>1, ProgramLength DEF Proceed, Advance
  <2>2. CASE AskWhy
    <3>1. s = 29
      BY <1>3, <2>2, StatusLine DEF AskWhy, BadStatus
    <3> QED BY <2>2, <3>1, LineIs DEF AskWhy
  <2> QED BY <2>1, <2>2
<1>5. AnswersTimely' /\ FramesAtRest'
  BY <1>1 DEF AtRestInv, AnswersTimely, Timely, FramesAtRest, SeedsTimely, EnablesAtRest, Rest
<1>6. \A m \in Node : Seeded(m) => Seeded(m)'
  BY <1>1 DEF Seeded, Rest
<1>7. ASSUME s = 23 PROVE step' = 24 => position' = epoch'
  <2>1. slot.tag = <<epoch, 23>>
    BY <1>1, <1>3, <1>7, OwnFromPosition DEF Own
  <2>2. slot \in Answer
    BY <1>1 DEF TypeOK, None, Node
  <2>3. slot.at \in Nat /\ epoch \in Nat
    BY <2>2 DEF Answer, TypeOK
  <2>4. slot.at = epoch
    BY <2>1, <2>3 DEF AtRestInv, AnswersTimely, Timely
  <2>5. Proceed
    BY <1>3, <1>7, LinesByNumber, StatusLine DEF AskWhy, BadStatus
  <2> QED BY <1>1, <1>3, <1>7, <2>4, <2>5, LinesByNumber DEF Proceed
<1>8. ASSUME s >= 24 PROVE Seeded(k)
  <2>1. CASE s = 24
    <3>1. Seeding(k)
      BY <1>1, <1>2, <1>3, <2>1, OwnFromPosition DEF Seeding
    <3> QED BY <1>1, <1>2, <1>3, <2>1, <3>1 DEF AtRestInv, SeedingInv
  <2>2. CASE s # 24
    BY <1>1, <1>2, <1>3, <1>8, <2>2 DEF AtRestInv, SeedingInv, Activating
  <2> QED BY <2>1, <2>2
<1>9. SeedingInv'
  <2>1. CASE phase' = "configuring" /\ node' = node /\ step' = s + 1
    BY <1>2, <1>6, <1>7, <1>8, <2>1 DEF SeedingInv
  <2>2. CASE phase' = "configuring" /\ step' = 1
    BY <2>2 DEF SeedingInv
  <2>3. CASE phase' = "active"
    BY <2>3 DEF SeedingInv, Activating
  <2> QED BY <1>4, <2>1, <2>2, <2>3
<1> QED BY <1>5, <1>9 DEF AtRestInv

\* An answer is heard, or lost.
LEMMA RestHeard ==
  ASSUME TypeOK, InRange, BacklogInv, AtRestInv, NEW n \in Node, Heard(n),
         slot' \in {slot, Head(outbox[n])},
         UNCHANGED <<phase, node, step, position, inbox, drive, epoch, upset>>
  PROVE  AtRestInv'
<1>1. /\ outbox[n] # <<>> /\ outbox'[n] = Tail(outbox[n]) /\ outbox[n] \in Seq(Answer)
      /\ \A m \in Node \ {n} : outbox'[m] = outbox[m]
  BY DEF Heard, TypeOK
<1>2. /\ Head(outbox[n]) = outbox[n][1] /\ 1 \in 1..Len(outbox[n])
      /\ \A i \in 1..Len(outbox'[n]) : i + 1 \in 1..Len(outbox[n]) /\ outbox'[n][i] = outbox[n][i + 1]
  BY <1>1, HeadTail
<1>3. \A m \in Node : \A i \in 1..Len(outbox'[m]) :
        \E j \in 1..Len(outbox[m]) : outbox'[m][i] = outbox[m][j]
  BY <1>1, <1>2
<1>4. AnswersTimely'
  <2>1. \A a : Timely(a) => (a.tag[1] <= a.at /\ a.at <= epoch')
    BY DEF Timely
  <2>2. \A m \in Node : \A i \in 1..Len(outbox'[m]) : Timely(outbox'[m][i])
    BY <1>3 DEF AtRestInv, AnswersTimely
  <2>3. Timely(slot')
    BY <1>2 DEF AtRestInv, AnswersTimely
  <2> QED BY <2>1, <2>2, <2>3 DEF AnswersTimely, Timely
<1>5. FramesAtRest'
  BY DEF AtRestInv, FramesAtRest, SeedsTimely, EnablesAtRest, Rest
<1>6. \A m \in Node : Seeded(m) => Seeded(m)'
  BY DEF Seeded, Rest
<1>7. ASSUME phase = "waiting", NEW k \in Node, k = node, Seeding(k)' PROVE Seeding(k)
  <2>1. Own' = Own
    BY DEF Own
  <2>2. (\E i \in 1..Len(outbox'[k]) : outbox'[k][i].tag = Own /\ outbox'[k][i].ok) => Seeding(k)
    BY <1>3 DEF Seeding
  <2>3. slot'.from = k /\ slot'.tag = Own /\ slot'.ok => Seeding(k)
    <3>1. CASE slot' = slot
      BY <3>1 DEF Seeding
    <3>2. CASE slot' = Head(outbox[n])
      <4>1. slot'.from = n
        BY <1>2, <3>2 DEF BacklogInv, FromItsDrive
      <4> QED BY <1>2, <3>2, <4>1 DEF Seeding
    <3> QED BY <3>1, <3>2
  <2> QED BY <1>7, <2>1, <2>2, <2>3 DEF Seeding
<1>8. SeedingInv'
  <2>1. Activating => node \in Node
    BY DEF InRange
  <2> QED BY <1>6, <1>7, <2>1 DEF AtRestInv, SeedingInv, Activating
<1> QED BY <1>4, <1>5, <1>8 DEF AtRestInv

\* A drive faults, or nothing happens.
LEMMA RestSame ==
  ASSUME InRange, AtRestInv,
         UNCHANGED <<phase, node, step, slot, position, inbox, outbox, epoch>>,
         upset \subseteq upset', \A n \in Node : drive'[n].target = drive[n].target
  PROVE  AtRestInv'
<1>1. \A m \in Node : \A e : Rest(m, e) => Rest(m, e)'
  BY DEF Rest
<1>2. AnswersTimely'
  BY DEF AtRestInv, AnswersTimely, Timely
<1>3. FramesAtRest'
  BY <1>1 DEF AtRestInv, FramesAtRest, SeedsTimely, EnablesAtRest
<1>4. \A m \in Node : Seeded(m) => Seeded(m)'
  BY <1>1 DEF Seeded
<1>5. Seeding(node)' = Seeding(node)
  BY DEF Seeding, Own
<1>6. SeedingInv'
  BY <1>4, <1>5 DEF InRange, AtRestInv, SeedingInv, Activating
<1> QED BY <1>2, <1>3, <1>6 DEF AtRestInv

LEMMA RestReboot ==
  ASSUME TypeOK, InRange, AtRestInv, NEW n \in Node, Reboot(n)
  PROVE  AtRestInv'
<1>1. /\ inbox'[n] = <<>> /\ outbox'[n] = <<>> /\ drive'[n].target = 0 /\ n \in upset'
      /\ upset \subseteq upset'
      /\ \A m \in Node \ {n} : inbox'[m] = inbox[m] /\ outbox'[m] = outbox[m] /\ drive'[m] = drive[m]
      /\ UNCHANGED <<phase, node, step, slot, position, epoch>>
  BY DEF Reboot, TypeOK, host, Booted
<1>2. 1..Len(outbox'[n]) = {} /\ 1..Len(inbox'[n]) = {}
  BY <1>1
<1>3. \A m \in Node : \A e : m # n /\ Rest(m, e) => Rest(m, e)'
  BY <1>1 DEF Rest
<1>4. AnswersTimely'
  BY <1>1, <1>2 DEF AtRestInv, AnswersTimely, Timely
<1>5. FramesAtRest'
  BY <1>1, <1>2, <1>3 DEF AtRestInv, FramesAtRest, SeedsTimely, EnablesAtRest
<1>6. Seeded(n)'
  BY <1>1, <1>2 DEF Seeded, Rest
<1>7. \A m \in Node : m # n /\ Seeded(m) => Seeded(m)'
  BY <1>1, <1>3 DEF Seeded
<1>8. \A m \in Node : m # n /\ Seeding(m)' => Seeding(m)
  BY <1>1 DEF Seeding, Own
<1>9. SeedingInv'
  <2>1. Activating => node \in Node
    BY DEF InRange
  <2> QED BY <1>1, <1>6, <1>7, <1>8, <2>1 DEF AtRestInv, SeedingInv, Activating
<1> QED BY <1>4, <1>5, <1>9 DEF AtRestInv

\* A drive takes a frame: it answers nothing, or answers a request; if it says
\* that it did what it was asked to, it did.
LEMMA RestTaken ==
  ASSUME TypeOK, InRange, BacklogInv, AtRestInv, NEW n \in Node, Taken(n),
         UNCHANGED <<phase, node, step, slot, position, epoch>>, upset \subseteq upset',
         \A m \in Node \ {n} : outbox'[m] = outbox[m] /\ drive'[m] = drive[m],
         NEW f, f = Head(inbox[n]),
         drive'[n].target \in {drive[n].target, Obeyed(drive[n], f).target},
         \/ outbox'[n] = outbox[n]
         \/ \E a \in Answer :
              /\ outbox'[n] = Append(outbox[n], a) /\ IsSdo(f)
              /\ a.tag = f.tag /\ a.key = f.key /\ a.at = epoch
              /\ a.ok => drive'[n].target = Obeyed(drive[n], f).target
  PROVE  AtRestInv'
<1>1. /\ inbox[n] # <<>> /\ inbox'[n] = Tail(inbox[n]) /\ inbox[n] \in Seq(Frame) /\ f \in Frame
      /\ \A m \in Node \ {n} : inbox'[m] = inbox[m]
  BY TakenFrom DEF TypeOK
<1>2. /\ f = inbox[n][1] /\ 1 \in 1..Len(inbox[n])
      /\ \A i \in 1..Len(inbox'[n]) :
           i \in Nat \ {0} /\ i + 1 \in 1..Len(inbox[n]) /\ inbox'[n][i] = inbox[n][i + 1]
  BY <1>1, HeadTail
<1>3. SeedsTimely(f) /\ EnablesAtRest(n, 1)
  BY <1>2 DEF AtRestInv, FramesAtRest
<1>4. drive[n] \in Drive /\ outbox[n] \in Seq(Answer)
  BY DEF TypeOK
<1>5. /\ Seeds(f) => Obeyed(drive[n], f).target = f.tag[1]
      /\ ~Seeds(f) => drive'[n].target = drive[n].target
  BY <1>3, <1>4, ObeyedTarget DEF SeedsTimely
<1>6. \A m \in Node : \A e : Rest(m, e) /\ (m = n => ~Seeds(f)) => Rest(m, e)'
  BY <1>5 DEF Rest
<1>7. ASSUME NEW i \in 1..Len(inbox'[n]) PROVE SeedsTimely(inbox'[n][i]) /\ EnablesAtRest(n, i)'
  <2>1. SeedsTimely(inbox[n][i + 1]) /\ EnablesAtRest(n, i + 1)
    BY <1>2 DEF AtRestInv, FramesAtRest
  <2>2. CASE ~Enables(inbox[n][i + 1])
    BY <1>2, <2>1, <2>2 DEF EnablesAtRest
  <2>3. CASE Enables(inbox[n][i + 1])
    <3>1. \A j \in 1..i : ~Seeds(inbox[n][j])
      BY <1>2, <2>1, <2>3 DEF EnablesAtRest
    <3>2. PICK e : e = inbox[n][i + 1].tag[1]
      OBVIOUS
    <3>3. ~Seeds(f)
      BY <1>2, <3>1
    <3>4. Rest(n, e)'
      BY <1>6, <2>1, <2>3, <3>2, <3>3 DEF EnablesAtRest
    <3>5. \A j \in 1..(i - 1) : j \in 1..Len(inbox'[n]) /\ j + 1 \in 1..i
      BY <1>2
    <3>6. \A j \in 1..(i - 1) : ~Seeds(inbox'[n][j])
      BY <1>2, <3>1, <3>5
    <3>7. inbox'[n][i].tag[1] = e
      BY <1>2, <3>2
    <3> QED BY <1>2, <2>1, <3>4, <3>6, <3>7 DEF EnablesAtRest
  <2> QED BY <2>2, <2>3
<1>8. FramesAtRest'
  <2>1. ASSUME NEW m \in Node \ {n}, NEW i \in 1..Len(inbox'[m])
        PROVE  SeedsTimely(inbox'[m][i]) /\ EnablesAtRest(m, i)'
    BY <1>1, <1>6 DEF AtRestInv, FramesAtRest, EnablesAtRest
  <2> QED BY <1>7, <2>1 DEF FramesAtRest, SeedsTimely
<1>9. AnswersTimely'
  <2>1. CASE outbox'[n] = outbox[n]
    BY <2>1 DEF AtRestInv, AnswersTimely, Timely
  <2>2. ASSUME NEW a \in Answer, outbox'[n] = Append(outbox[n], a), IsSdo(f),
               a.tag = f.tag, a.at = epoch
        PROVE  AnswersTimely'
    <3>1. f.tag[1] <= epoch
      BY <1>2, <2>2, BegunAlready
    <3>2. Timely(a)
      BY <2>2, <3>1 DEF Timely, TypeOK
    <3>3. \A i \in 1..Len(outbox'[n]) :
            outbox'[n][i] = a \/ \E j \in 1..Len(outbox[n]) : outbox'[n][i] = outbox[n][j]
      BY <1>4, <2>2, AppendAdds
    <3>4. \A m \in Node : \A i \in 1..Len(outbox'[m]) : Timely(outbox'[m][i])
      BY <3>2, <3>3 DEF AtRestInv, AnswersTimely
    <3> QED BY <3>4 DEF AtRestInv, AnswersTimely, Timely
  <2> QED BY <2>1, <2>2
<1>10. ASSUME NEW m \in Node, Seeded(m) PROVE Seeded(m)'
  <2>1. CASE m # n
    BY <1>1, <1>6, <1>10, <2>1 DEF Seeded
  <2>2. CASE m = n
    <3>1. ~Seeds(f) /\ \A i \in 1..Len(inbox'[n]) : ~Seeds(inbox'[n][i])
      BY <1>2, <1>10, <2>2 DEF Seeded
    <3> QED BY <1>6, <1>10, <2>2, <3>1 DEF Seeded
  <2> QED BY <2>1, <2>2
<1>11. ASSUME phase = "waiting", step = 24, node = n, NEW a \in Answer,
              outbox'[n] = Append(outbox[n], a), IsSdo(f), a.tag = f.tag, a.key = f.key,
              a.ok, a.tag = Own, drive'[n].target = Obeyed(drive[n], f).target
       PROVE  Seeded(n)'
  <2>1. Seeds(f)
    <3>1. Known(Request(f))
      BY <1>2, <1>11, BegunAlready
    <3>2. f.key = Line(24).key
      BY <1>11, <3>1 DEF Known, Request, Own
    <3> QED BY <3>2, SeedLine DEF Seeds
  <2>2. drive'[n].target = epoch
    BY <1>5, <1>11, <2>1 DEF Own
  <2>3. ASSUME NEW i \in 1..Len(inbox'[n]), Seeds(inbox'[n][i]) PROVE FALSE
    <3>1. IsSdo(inbox[n][i + 1])
      BY <1>2, <1>7, <2>3 DEF SeedsTimely, IsSdo
    <3>2. i + 1 \in Pending(n) /\ 1 \in Pending(n)
      BY <1>2, <1>11, <3>1 DEF Pending
    <3>3. i + 1 <= 1
      BY <1>2, <1>11, <3>2 DEF BacklogInv, Ordered, OwnLast
    <3> QED BY <1>2, <3>3
  <2> QED BY <2>2, <2>3 DEF Seeded, Rest
<1>12. ASSUME phase = "waiting", step = 24, Seeding(node)' PROVE Seeded(node)'
  <2>1. node \in Node
    BY <1>12 DEF InRange, Activating
  <2>2. PICK k \in Node : k = node
    BY <2>1
  <2>3. Own' = Own
    BY DEF Own
  <2>4. CASE Seeding(k)
    BY <1>10, <1>12, <2>2, <2>4 DEF AtRestInv, SeedingInv
  <2>5. CASE ~Seeding(k)
    <3>1. PICK i \in 1..Len(outbox'[k]) : outbox'[k][i].tag = Own /\ outbox'[k][i].ok
      BY <1>12, <2>2, <2>3, <2>5 DEF Seeding
    <3>2. k = n /\ outbox'[n] # outbox[n]
      BY <2>5, <3>1 DEF Seeding
    <3>3. PICK a \in Answer :
            /\ outbox'[n] = Append(outbox[n], a) /\ IsSdo(f)
            /\ a.tag = f.tag /\ a.key = f.key
            /\ a.ok => drive'[n].target = Obeyed(drive[n], f).target
      BY <3>2
    <3>4. outbox'[n][i] = a \/ \E j \in 1..Len(outbox[n]) : outbox'[n][i] = outbox[n][j]
      BY <1>4, <3>1, <3>2, <3>3, AppendAdds
    <3>5. outbox'[n][i] = a
      BY <2>5, <3>1, <3>2, <3>4 DEF Seeding
    <3> QED BY <1>11, <1>12, <2>2, <3>1, <3>2, <3>3, <3>5
  <2> QED BY <2>4, <2>5
<1>13. SeedingInv'
  <2>1. Activating => node \in Node
    BY DEF InRange
  <2> QED BY <1>10, <1>12, <2>1 DEF AtRestInv, SeedingInv, Activating
<1> QED BY <1>8, <1>9, <1>13 DEF AtRestInv

LEMMA RestHandle ==
  ASSUME TypeOK, InRange, BacklogInv, AtRestInv, NEW n \in Node,
         Handle(n) \/ Refuse(n) \/ LoseFrame(n)
  PROVE  AtRestInv'
<1>1. PICK f : f = Head(inbox[n])
  OBVIOUS
<1>2. /\ Taken(n) /\ UNCHANGED <<phase, node, step, slot, position, epoch>>
      /\ upset \subseteq upset'
  BY DEF Handle, Refuse, LoseFrame, host, history
<1>3. f \in Frame
  BY <1>1, <1>2, TakenFrom
<1>4. drive \in [Node -> Drive] /\ outbox \in [Node -> Seq(Answer)] /\ drive[n].cia \in State
  BY DEF TypeOK, Drive
<1>5. CASE drive' = [drive EXCEPT ![n] = Obeyed(@, f)] /\ outbox' = outbox
  BY <1>1, <1>2, <1>4, <1>5, RestTaken
<1>6. CASE drive' = drive /\ outbox' = outbox
  BY <1>1, <1>2, <1>4, <1>6, RestTaken
<1>7. ASSUME NEW ok \in BOOLEAN, NEW v \in State \union {"refused", "illegal"}, IsSdo(f),
             Answers(n, Reply(n, f, ok, v)),
             \/ ok = TRUE /\ drive' = [drive EXCEPT ![n] = Obeyed(@, f)]
             \/ ok = FALSE /\ drive' = drive
      PROVE  AtRestInv'
  <2>1. PICK a \in Answer : a = Reply(n, f, ok, v)
    BY <1>3, ReplyType
  <2>2. a.tag = f.tag /\ a.key = f.key /\ a.at = epoch /\ a.ok = ok
    BY <2>1 DEF Reply
  <2>3. outbox'[n] = Append(outbox[n], a) /\ \A m \in Node \ {n} : outbox'[m] = outbox[m]
    BY <1>4, <1>7, <2>1 DEF Answers
  <2>4. /\ \A m \in Node \ {n} : drive'[m] = drive[m]
        /\ drive'[n].target \in {drive[n].target, Obeyed(drive[n], f).target}
        /\ a.ok => drive'[n].target = Obeyed(drive[n], f).target
    BY <1>4, <1>7, <2>2
  <2> QED BY <1>1, <1>2, <1>7, <2>2, <2>3, <2>4, RestTaken
<1>8. CASE Handle(n)
  <2>1. CASE ~IsSdo(f)
    BY <1>1, <1>5, <1>8, <2>1 DEF Handle
  <2>2. CASE IsSdo(f) /\ Legal(drive[n], f)
    BY <1>1, <1>4, <1>7, <1>8, <2>2 DEF Handle
  <2>3. CASE IsSdo(f) /\ ~Legal(drive[n], f)
    BY <1>1, <1>7, <1>8, <2>3 DEF Handle
  <2> QED BY <2>1, <2>2, <2>3
<1>9. CASE Refuse(n)
  BY <1>1, <1>7, <1>9 DEF Refuse
<1>10. CASE LoseFrame(n)
  BY <1>6, <1>10 DEF LoseFrame
<1> QED BY <1>8, <1>9, <1>10

LEMMA RestStep ==
  ASSUME MaxBacklog <= 16, TypeOK, InRange, BacklogInv, AtRestInv, [Next]_vars
  PROVE  AtRestInv'
<1>1. CASE SendFails \/ GiveUp \/ Deactivate \/ DisarmSendFails \/ Close \/ Crash
  <2>1. /\ UNCHANGED <<epoch, inbox, outbox, drive, upset>> /\ slot' \in {slot, None}
        /\ phase' \notin {"configuring", "waiting"} /\ epoch \in Nat
    BY <1>1 DEF SendFails, GiveUp, Deactivate, DisarmSendFails, Close, Crash,
                StartDisarm, bus, history, TypeOK
  <2> QED BY <2>1, RestOff
<1>2. ASSUME NEW n \in Node, Fault(n)
      PROVE  AtRestInv'
  <2>1. \A m \in Node : drive'[m].target = drive[m].target
    BY <1>2 DEF Fault, TypeOK, Drive
  <2> QED BY <1>2, <2>1, RestSame DEF Fault, host, bus
<1>3. ASSUME NEW n \in Node, Receive(n) \/ Unheard(n) \/ LoseAnswer(n)
      PROVE  AtRestInv'
  BY <1>3, RestHeard DEF Receive, Unheard, LoseAnswer, host, history
<1>4. CASE UNCHANGED vars
  BY <1>4, RestSame DEF vars, host, bus, history
<1> QED
  BY <1>1, <1>2, <1>3, <1>4, RestActivate, RestNmt, RestSdo, RestAccept,
     RestDisarm, RestHandle, RestReboot DEF Next, Transaction, Disarming

LEMMA AtRestAlways ==
  ASSUME MaxBacklog <= 16
  PROVE  Spec => []AtRestInv
<1>1. Init => AtRestInv
  <2> SUFFICES ASSUME Init PROVE AtRestInv
    OBVIOUS
  <2>1. \A m \in Node : 1..Len(outbox[m]) = {} /\ 1..Len(inbox[m]) = {}
    BY DEF Init
  <2> QED BY <2>1
       DEF Init, AtRestInv, AnswersTimely, Timely, None, FramesAtRest, SeedingInv, Activating
<1>2. QED BY <1>1, RestStep, TypeCorrect, BacklogAlways, PTL DEF Spec

\* A drive never moves when it is enabled, whatever was lost, late or cut short
\* before: the request that enables it comes after the one that seeds its target
\* with a position asked for in the same activation, or the drive has rebooted
\* since and its target is the one it boots with.  A backlog of up to sixteen
\* activations is allowed for: the position is the sixteenth object asked about,
\* so that its answer is no stale one.
THEOREM EnabledAtRestAlways ==
  ASSUME MaxBacklog <= 16
  PROVE  Spec => EnabledAtRest
<1> DEFINE AtRest(n) ==
      \/ drive[n].target = Head(inbox[n]).tag[1]
      \/ /\ drive[n].target = 0
         /\ n \in upset \/ Head(inbox[n]).tag[1] < epoch
<1>1. ASSUME TypeOK, AtRestInv, [Next]_vars, NEW n \in Node,
             drive[n].cia # "enabled", drive'[n].cia = "enabled"
      PROVE  AtRest(n)
  <2>1. drive \in [Node -> Drive] /\ drive[n] \in Drive
    BY <1>1 DEF TypeOK
  <2>2. drive'[n] # drive[n]
    BY <1>1
  <2>3. ASSUME NEW m \in Node, m # n
        PROVE  ~Handle(m) /\ ~Fault(m) /\ ~Reboot(m)
    <3>1. Handle(m) \/ Fault(m) \/ Reboot(m) => drive'[n] = drive[n]
      BY <2>1, <2>3 DEF Handle, Fault, Reboot
    <3> QED BY <2>2, <3>1
  <2>4. ~Fault(n) /\ ~Reboot(n)
    <3>1. Fault(n) => drive'[n].cia = "fault"
      BY <2>1 DEF Fault, Drive
    <3>2. Reboot(n) => drive'[n].cia = "disabled"
      BY <2>1 DEF Reboot, Booted
    <3> QED BY <1>1, <3>1, <3>2
  <2>5. Handle(n)
    <3>1. drive' # drive
      BY <2>2
    <3> QED BY <1>1, <2>3, <2>4, <3>1
         DEF Next, Transaction, Disarming, Activate, SendNmt, SendSdo, Proceed, AskWhy,
             GiveUp, SendFails, Deactivate, DisarmSend, Close, DisarmSendFails, Crash,
             Receive, Unheard, Refuse, LoseFrame, LoseAnswer, vars
  <2> DEFINE f == Head(inbox[n])
  <2>6. inbox[n] \in Seq(Frame) /\ inbox[n] # <<>> /\ f \in Frame
    <3>1. inbox[n] \in Seq(Frame)
      BY <1>1 DEF TypeOK
    <3> QED BY <1>1, <2>5, <3>1, TakenFrom DEF Handle
  <2>7. f = inbox[n][1] /\ 1 \in 1..Len(inbox[n])
    BY <2>6
  <2>8. Obeyed(drive[n], f).cia = "enabled" /\ drive[n] \in Drive
    BY <1>1, <2>1, <2>2, <2>5 DEF Handle
  <2> HIDE DEF f
  <2>9. Enables(f)
    BY <1>1, <2>6, <2>8, ObeyedEnabled
  <2>10. EnablesAtRest(n, 1)
    BY <1>1, <2>7 DEF AtRestInv, FramesAtRest
  <2>11. Rest(n, f.tag[1])
    BY <2>7, <2>9, <2>10 DEF EnablesAtRest
  <2> QED BY <2>11 DEF f, Rest
<1>2. TypeOK /\ AtRestInv /\ [Next]_vars =>
        [\A n \in Node :
           drive[n].cia # "enabled" /\ drive'[n].cia = "enabled" => AtRest(n)]_vars
  BY <1>1
<1> HIDE DEF AtRest
<1>3. [][\A n \in Node :
           drive[n].cia # "enabled" /\ drive'[n].cia = "enabled" => AtRest(n)]_vars
        => EnabledAtRest
  BY PTL DEF AtRest, EnabledAtRest
<1>4. QED BY <1>2, <1>3, AtRestAlways, TypeCorrect, PTL DEF Spec
=============================================================================
