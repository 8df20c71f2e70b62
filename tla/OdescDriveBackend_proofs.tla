------------------------ MODULE OdescDriveBackend_proofs ------------------------
(***************************************************************************)
(* The drivetrain of OdescDrive tells its wheels one command at a time and *)
(* implements DriveBackend, for every number of axes and every bound.      *)
(***************************************************************************)
EXTENDS OdescDriveBackend, OdescDrive_proofs

-----------------------------------------------------------------------------
(* The latest velocity on its way to an axis.                               *)

\* The velocity an axis that has v ends up with when it has handled queue q.
Places(q) == { i \in 1..Len(q) : q[i].kind = "velocity" }
LastPlace(q, i) == i \in Places(q) /\ \A j \in Places(q) : j <= i
LatestIn(q, v) ==
  IF Places(q) = {} THEN v
  ELSE q[CHOOSE i \in Places(q) : \A j \in Places(q) : j <= i].value

LEMMA LatestIsLatestIn ==
  ASSUME NEW n \in Node
  PROVE  /\ Latest(n) = LatestIn(tx[n], axis[n].velocity)
         /\ Latest(n)' = LatestIn(tx'[n], axis'[n].velocity)
BY DEF Latest, Velocities, LatestIn, Places

LEMMA LatestInIs ==
  ASSUME NEW q \in Seq(Frame), NEW v
  PROVE  /\ Places(q) = {} => LatestIn(q, v) = v
         /\ Places(q) # {} => \E i : LastPlace(q, i)
         /\ \A i : LastPlace(q, i) => LatestIn(q, v) = q[i].value
<1>1. Len(q) \in Nat /\ Places(q) \in SUBSET (1..Len(q))
  BY DEF Places
<1>2. Places(q) # {} => \E i : LastPlace(q, i)
  BY <1>1, GreatestExists DEF LastPlace
<1>3. ASSUME NEW i, LastPlace(q, i)
      PROVE  LatestIn(q, v) = q[i].value
  <2> DEFINE k == CHOOSE k \in Places(q) : \A j \in Places(q) : j <= k
  <2>1. k \in Places(q) /\ \A j \in Places(q) : j <= k
    BY <1>3 DEF LastPlace
  <2>2. k = i
    BY <1>1, <1>3, <2>1 DEF LastPlace
  <2>3. LatestIn(q, v) = q[k].value
    BY <2>1 DEF LatestIn
  <2> QED BY <2>2, <2>3
<1>4. Places(q) = {} => LatestIn(q, v) = v
  BY DEF LatestIn
<1> QED BY <1>2, <1>3, <1>4

LEMMA LatestInType ==
  ASSUME NEW q \in Seq(Frame), NEW v \in 0..MaxCommands
  PROVE  LatestIn(q, v) \in 0..MaxCommands
<1>1. CASE Places(q) = {}
  BY <1>1, LatestInIs
<1>2. CASE Places(q) # {}
  <2>1. PICK i : LastPlace(q, i)
    BY <1>2, LatestInIs
  <2>2. i \in 1..Len(q) /\ q[i].kind = "velocity"
    BY <2>1 DEF LastPlace, Places
  <2>3. q[i].value \in 0..MaxCommands
    <3>1. q[i] \in Frame
      BY <2>2
    <3> QED BY <2>2, <3>1 DEF Frame
  <2> QED BY <2>1, <2>3, LatestInIs
<1> QED BY <1>1, <1>2

\* A velocity added to the queue is the latest one.
LEMMA LatestAfterVelocity ==
  ASSUME NEW q \in Seq(Frame), NEW v, NEW c \in 0..MaxCommands
  PROVE  LatestIn(Append(q, InputVelocityFrame(c)), v) = c
<1> DEFINE f == InputVelocityFrame(c)
           r == Append(q, f)
<1> SUFFICES LatestIn(r, v) = c
  OBVIOUS
<1>1. f \in Frame /\ f.kind = "velocity" /\ f.value = c
  BY FrameType DEF InputVelocityFrame
<1> HIDE DEF f
<1>2. /\ r \in Seq(Frame) /\ Len(r) = Len(q) + 1 /\ Len(q) \in Nat
      /\ r[Len(q) + 1] = f
  BY <1>1
<1> HIDE DEF r
<1>3. LastPlace(r, Len(q) + 1)
  BY <1>1, <1>2 DEF LastPlace, Places
<1> QED BY <1>1, <1>2, <1>3, LatestInIs

\* Any other frame added to it leaves the latest one what it was.
LEMMA LatestAfterState ==
  ASSUME NEW q \in Seq(Frame), NEW v, NEW f \in Frame, f.kind = "state"
  PROVE  LatestIn(Append(q, f), v) = LatestIn(q, v)
<1> DEFINE r == Append(q, f)
<1> SUFFICES LatestIn(r, v) = LatestIn(q, v)
  OBVIOUS
<1>1. /\ r \in Seq(Frame) /\ Len(r) = Len(q) + 1 /\ Len(q) \in Nat
      /\ r[Len(q) + 1] = f
      /\ \A i \in 1..Len(q) : r[i] = q[i]
  OBVIOUS
<1> HIDE DEF r
<1>2. Places(r) = Places(q)
  <2>1. \A i \in 1..Len(r) : i \in 1..Len(q) \/ i = Len(q) + 1
    BY <1>1
  <2>2. \A i \in 1..Len(q) : i \in 1..Len(r)
    BY <1>1
  <2> QED BY <1>1, <2>1, <2>2 DEF Places
<1>3. CASE Places(q) = {}
  BY <1>1, <1>2, <1>3, LatestInIs
<1>4. CASE Places(q) # {}
  <2>1. PICK i : LastPlace(q, i)
    BY <1>4, LatestInIs
  <2>2. LastPlace(r, i) /\ i \in 1..Len(q)
    BY <1>2, <2>1 DEF LastPlace, Places
  <2>3. LatestIn(r, v) = r[i].value /\ LatestIn(q, v) = q[i].value
    BY <1>1, <2>1, <2>2, LatestInIs
  <2> QED BY <1>1, <2>2, <2>3
<1> QED BY <1>3, <1>4

\* An axis that handles its oldest frame ends up with the same velocity.
LEMMA LatestAfterHandle ==
  ASSUME NEW q \in Seq(Frame), NEW a \in Axis, q # <<>>
  PROVE  LatestIn(Tail(q), Obeyed(a, Head(q)).velocity) = LatestIn(q, a.velocity)
<1> DEFINE r == Tail(q)
           w == Obeyed(a, Head(q)).velocity
<1> SUFFICES LatestIn(r, w) = LatestIn(q, a.velocity)
  OBVIOUS
<1>1. /\ r \in Seq(Frame) /\ Len(r) = Len(q) - 1 /\ Len(q) \in Nat \ {0}
      /\ \A i \in 1..Len(r) : r[i] = q[i + 1]
      /\ Head(q) = q[1] /\ q[1] \in Frame
  OBVIOUS
<1>2. w = IF q[1].kind = "state" THEN a.velocity ELSE q[1].value
  BY <1>1 DEF Obeyed, Axis
<1> HIDE DEF r, w
<1>3. \A i \in 1..Len(r) : i \in Places(r) <=> i + 1 \in Places(q)
  BY <1>1 DEF Places
<1>4. CASE Places(r) = {}
  <2>1. LatestIn(r, w) = w
    BY <1>1, <1>4, LatestInIs
  <2>2. CASE q[1].kind = "state"
    <3>1. Places(q) = {}
      <4> SUFFICES ASSUME NEW i \in Places(q) PROVE FALSE
        OBVIOUS
      <4>1. i \in 1..Len(q) /\ i # 1
        BY <2>2 DEF Places
      <4>2. i - 1 \in 1..Len(r) /\ (i - 1) + 1 = i
        BY <1>1, <4>1
      <4> QED BY <1>3, <1>4, <4>1, <4>2
    <3> QED BY <1>2, <2>1, <2>2, <3>1, LatestInIs
  <2>3. CASE q[1].kind # "state"
    <3>1. q[1].kind = "velocity"
      BY <1>1, <2>3 DEF Frame
    <3>2. LastPlace(q, 1)
      <4>1. 1 \in Places(q)
        BY <1>1, <3>1 DEF Places
      <4>2. ASSUME NEW j \in Places(q) PROVE j <= 1
        <5>1. j \in 1..Len(q)
          BY DEF Places
        <5>2. CASE j > 1
          <6>1. j - 1 \in 1..Len(r) /\ (j - 1) + 1 = j
            BY <1>1, <5>1, <5>2
          <6> QED BY <1>3, <1>4, <6>1
        <5> QED BY <5>1, <5>2
      <4> QED BY <4>1, <4>2 DEF LastPlace
    <3> QED BY <1>2, <2>1, <2>3, <3>2, LatestInIs
  <2> QED BY <2>2, <2>3
<1>5. CASE Places(r) # {}
  <2>1. PICK i : LastPlace(r, i)
    BY <1>1, <1>5, LatestInIs
  <2>2. i \in 1..Len(r)
    BY <2>1 DEF LastPlace, Places
  <2>3. LastPlace(q, i + 1)
    <3>1. i + 1 \in Places(q)
      BY <1>3, <2>1, <2>2 DEF LastPlace
    <3>2. ASSUME NEW j \in Places(q) PROVE j <= i + 1
      <4>1. j \in 1..Len(q)
        BY DEF Places
      <4>2. CASE j = 1
        BY <2>2, <4>2
      <4>3. CASE j > 1
        <5>1. j - 1 \in 1..Len(r) /\ (j - 1) + 1 = j
          BY <1>1, <4>1, <4>3
        <5>2. j - 1 \in Places(r)
          BY <1>3, <5>1
        <5> QED BY <2>1, <2>2, <4>1, <5>2 DEF LastPlace
      <4> QED BY <4>1, <4>2, <4>3
    <3> QED BY <3>1, <3>2 DEF LastPlace
  <2>4. LatestIn(r, w) = r[i].value /\ LatestIn(q, a.velocity) = q[i + 1].value
    BY <1>1, <2>1, <2>3, LatestInIs
  <2> QED BY <1>1, <2>2, <2>4
<1> QED BY <1>4, <1>5

-----------------------------------------------------------------------------
(* What the steps do to the latest velocity of every axis.                  *)

LatestKept == \A n \in Node : Latest(n)' = Latest(n)

LEMMA KeptSame ==
  ASSUME UNCHANGED <<tx, axis>>
  PROVE  LatestKept
BY DEF LatestKept, Latest, Velocities

LEMMA KeptByState ==
  ASSUME TypeOK, NEW n \in Node, NEW f \in Frame, f.kind = "state",
         Send(n, f), axis' = axis
  PROVE  LatestKept
<1> SUFFICES ASSUME NEW m \in Node
             PROVE  LatestIn(tx'[m], axis'[m].velocity) = LatestIn(tx[m], axis[m].velocity)
  BY LatestIsLatestIn DEF LatestKept
<1>1. tx \in [Node -> Seq(Frame)]
  BY DEF TypeOK
<1>2. CASE m = n
  <2>1. tx'[m] = Append(tx[m], f) /\ tx[m] \in Seq(Frame)
    BY <1>1, <1>2 DEF Send
  <2> QED BY <2>1, LatestAfterState
<1>3. CASE m # n
  BY <1>1, <1>3 DEF Send
<1> QED BY <1>2, <1>3

LEMMA KeptByHandle ==
  ASSUME TypeOK, NEW n \in Node, Handle(n)
  PROVE  LatestKept
<1> SUFFICES ASSUME NEW m \in Node
             PROVE  LatestIn(tx'[m], axis'[m].velocity) = LatestIn(tx[m], axis[m].velocity)
  BY LatestIsLatestIn DEF LatestKept
<1>1. tx \in [Node -> Seq(Frame)] /\ axis \in [Node -> Axis]
  BY DEF TypeOK
<1>2. CASE m = n
  <2>1. /\ tx[m] \in Seq(Frame) /\ tx[m] # <<>> /\ axis[m] \in Axis
        /\ tx'[m] = Tail(tx[m]) /\ axis'[m] = Obeyed(axis[m], Head(tx[m]))
    BY <1>1, <1>2 DEF Handle, Taken
  <2> QED BY <2>1, LatestAfterHandle
<1>3. CASE m # n
  BY <1>1, <1>3 DEF Handle, Taken
<1> QED BY <1>2, <1>3

LEMMA KeptByAxis ==
  ASSUME TypeOK, NEW n \in Node, Feedback(n) \/ Trip(n)
  PROVE  LatestKept
<1>1. axis \in [Node -> Axis] /\ tx' = tx
  BY DEF TypeOK, Feedback, Trip, bus
<1>2. \A m \in Node : axis'[m].velocity = axis[m].velocity
  <2>1. CASE Feedback(n)
    BY <1>1, <2>1 DEF Feedback, Axis
  <2>2. CASE Trip(n)
    BY <1>1, <2>2 DEF Trip, Axis
  <2> QED BY <2>1, <2>2
<1> QED BY <1>1, <1>2, LatestIsLatestIn DEF LatestKept

LEMMA Commanded ==
  ASSUME TypeOK, SendVelocity
  PROVE  /\ node \in Node
         /\ \A m \in Node : Latest(m)' = IF m = node THEN commands ELSE Latest(m)
<1>1. node \in Node /\ tx \in [Node -> Seq(Frame)] /\ commands \in 0..MaxCommands
  BY SendingType DEF TypeOK, SendVelocity
<1>2. tx'[node] = Append(tx[node], InputVelocityFrame(commands)) /\ axis' = axis
  BY <1>1 DEF SendVelocity, Send
<1>3. ASSUME NEW m \in Node, m = node
      PROVE  Latest(m)' = commands
  <2>1. tx[m] \in Seq(Frame) /\ tx'[m] = Append(tx[m], InputVelocityFrame(commands))
    BY <1>1, <1>2, <1>3
  <2>2. LatestIn(tx'[m], axis'[m].velocity) = commands
    BY <1>1, <2>1, LatestAfterVelocity
  <2> QED BY <2>2, LatestIsLatestIn
<1>4. ASSUME NEW m \in Node, m # node
      PROVE  Latest(m)' = Latest(m)
  <2>1. tx'[m] = tx[m]
    BY <1>1, <1>4 DEF SendVelocity, Send
  <2> QED BY <1>2, <2>1, LatestIsLatestIn
<1> QED BY <1>1, <1>3, <1>4

LEMMA Strayed ==
  ASSUME TypeOK, TypeOK', NEW n \in Node, LoseFrame(n) \/ Reboot(n)
  PROVE  /\ Latest(n)' \in 0..MaxCommands
         /\ \A m \in Node \ {n} : Latest(m)' = Latest(m)
<1>1. /\ tx \in [Node -> Seq(Frame)] /\ axis \in [Node -> Axis]
      /\ tx' \in [Node -> Seq(Frame)] /\ axis' \in [Node -> Axis]
  BY DEF TypeOK
<1>2. Latest(n)' \in 0..MaxCommands
  <2>1. tx'[n] \in Seq(Frame) /\ axis'[n].velocity \in 0..MaxCommands
    BY <1>1 DEF Axis
  <2> QED BY <2>1, LatestInType, LatestIsLatestIn
<1>3. ASSUME NEW m \in Node \ {n}
      PROVE  Latest(m)' = Latest(m)
  <2>1. tx'[m] = tx[m] /\ axis'[m] = axis[m]
    BY <1>1 DEF LoseFrame, Reboot, Taken
  <2> QED BY <2>1, LatestIsLatestIn
<1> QED BY <1>2, <1>3

-----------------------------------------------------------------------------
(* The wheels agree.                                                        *)

\* While write() succeeds, the wheels it has come past have the command.
TellInv ==
  /\ call = "write" /\ result = "ok" =>
       \A n \in Node \ upset : n < node => Latest(n) = commands
  /\ WheelsAgree
  /\ call = "activate" => written = "no"

\* Nothing that TellInv speaks of changes.
LEMMA TellSame ==
  ASSUME TellInv, LatestKept, upset \subseteq upset',
         UNCHANGED <<life, call, loop, node, result, commands, written>>
  PROVE  TellInv'
BY DEF TellInv, LatestKept, WheelsAgree

\* After a successful write() every wheel that lost no frame is told the
\* command that stands, and this is so until the next read().
LEMMA TellStep ==
  TypeOK /\ Orderly /\ TellInv /\ [Next]_vars /\ TypeOK' => TellInv'
<1> SUFFICES ASSUME TypeOK, Orderly, TellInv, [Next]_vars, TypeOK'
             PROVE  TellInv'
  OBVIOUS
<1> USE OdescAssumption
<1>1. CASE Open \/ Activated \/ Joined \/ Crash
  BY <1>1 DEF Open, Activated, Joined, Crash, history, TellInv, WheelsAgree, TypeOK
<1>2. CASE OpenFails \/ NotOpen
  BY <1>2 DEF OpenFails, NotOpen, InLoop, TellInv, WheelsAgree
<1>3. CASE RequestClosedLoop \/ RequestFails
  BY <1>3 DEF RequestClosedLoop, RequestFails, Sending, history, TellInv, WheelsAgree
<1>4. CASE Stop \/ RequestIdle \/ IdleFails \/ IdleSent
  BY <1>4 DEF Stop, RequestIdle, IdleFails, IdleSent, Sending, TellInv, WheelsAgree
<1>5. CASE Read \/ Update
  BY <1>5 DEF Read, Update, InLoop, TellInv, WheelsAgree
<1>6. CASE Write
  BY <1>6 DEF Write, InLoop, Node, TellInv, WheelsAgree
<1>7. CASE SendVelocity
  <2>1. /\ UNCHANGED <<life, call, loop, result, commands, written, upset>>
        /\ call = "write" /\ node' = node + 1
    BY <1>7 DEF SendVelocity, Sending, history
  <2>2. /\ node \in Node
        /\ \A m \in Node : Latest(m)' = IF m = node THEN commands ELSE Latest(m)
    BY <1>7, Commanded
  <2>3. \A m \in Node : m < node + 1 => m < node \/ m = node
    BY <2>2 DEF Node
  <2> QED BY <2>1, <2>2, <2>3 DEF TellInv, WheelsAgree
<1>8. CASE VelocityFails
  BY <1>8 DEF VelocityFails, Sending, TellInv, WheelsAgree
<1>9. CASE Written
  <2>1. UNCHANGED <<tx, axis, upset, commands>> /\ call = "write" /\ call' = "none"
    BY <1>9 DEF Written, bus
  <2>2. LatestKept
    BY <2>1, KeptSame
  <2>3. CASE result = "error"
    BY <1>9, <2>1, <2>3 DEF Written, TellInv, WheelsAgree
  <2>4. CASE result = "ok"
    <3>1. \A n \in Node : n < node
      BY <1>9 DEF Written, TypeOK, Node
    <3>2. \A n \in Node \ upset : Latest(n) = commands
      BY <2>1, <2>4, <3>1 DEF TellInv
    <3> QED BY <2>1, <2>2, <3>2 DEF TellInv, WheelsAgree, LatestKept
  <2> QED BY <2>3, <2>4 DEF TypeOK
<1>10. CASE Reception \/ LinkDown \/ LinkUp
  <2>1. /\ UNCHANGED <<life, call, loop, node, result, commands, written, upset>>
        /\ UNCHANGED <<tx, axis>>
    BY <1>10 DEF Reception, Check, Receive, StorePosition, StoreVelocity,
                 LinkDown, LinkUp, program, bus, history
  <2> QED BY <2>1, KeptSame, TellSame
<1>11. ASSUME NEW n \in Node, Handle(n) \/ Feedback(n) \/ Trip(n)
       PROVE  TellInv'
  <2>1. UNCHANGED <<life, call, loop, node, result, commands, written, upset>>
    BY <1>11 DEF Handle, Feedback, Trip, program, history
  <2> QED BY <1>11, <2>1, KeptByHandle, KeptByAxis, TellSame
<1>12. ASSUME NEW n \in Node, LoseFrame(n) \/ Reboot(n)
       PROVE  TellInv'
  <2>1. /\ UNCHANGED <<life, call, loop, node, result, commands, written>>
        /\ upset' = upset \union {n}
    BY <1>12 DEF LoseFrame, Reboot, program
  <2>2. \A m \in Node \ {n} : Latest(m)' = Latest(m)
    BY <1>12, Strayed
  <2> QED BY <2>1, <2>2 DEF TellInv, WheelsAgree
<1>13. CASE UNCHANGED vars
  <2>1. /\ UNCHANGED <<life, call, loop, node, result, commands, written, upset>>
        /\ UNCHANGED <<tx, axis>>
    BY <1>13 DEF vars, program, bus, history
  <2> QED BY <2>1, KeptSame, TellSame
<1> QED
  BY <1>1, <1>2, <1>3, <1>4, <1>5, <1>6, <1>7, <1>8, <1>9, <1>10, <1>11, <1>12, <1>13
     DEF Next, Activating, Stopping, Cycle

LEMMA TellInit == Init => TellInv
BY DEF Init, TellInv, WheelsAgree

\* Between two cycles of an active component every wheel that lost no frame
\* has last been sent the command the controllers last gave.
THEOREM WheelsAgreeAlways == Spec => []WheelsAgree
<1>1. TellInv => WheelsAgree
  BY DEF TellInv
<1> QED BY <1>1, TellInit, TellStep, TypeCorrect, PTL DEF Spec

-----------------------------------------------------------------------------
(* The refinement.                                                          *)

\* What the steps of the drivetrain are to DriveBackend.

LEMMA BackendStutter ==
  ASSUME LatestKept, UNCHANGED <<life, commands, upset>>, ToldAll' = ToldAll
  PROVE  UNCHANGED Backend!vars
BY DEF LatestKept, Backend!vars

LEMMA BackendUpdate ==
  ASSUME LatestKept, UNCHANGED <<life, upset>>, life = "active",
         commands' \in 0..MaxCommands, ~ToldAll'
  PROVE  Backend!Update
BY DEF LatestKept, Backend!Update

LEMMA BackendStep ==
  ASSUME TypeOK, Orderly, TellInv, TypeOK', TellInv', [Next]_vars
  PROVE  [Backend!Next]_(Backend!vars)
<1> USE OdescAssumption
<1>1. CASE Open
  <2>1. LatestKept
    BY <1>1, KeptSame DEF Open
  <2>2. Backend!Prepare
    BY <1>1, <2>1 DEF Open, LatestKept, ToldAll, Backend!Prepare
  <2> QED BY <2>2 DEF Backend!Next
<1>2. CASE OpenFails \/ NotOpen
  <2>1. LatestKept
    BY <1>2, KeptSame DEF OpenFails, NotOpen, bus
  <2>2. Backend!Fail
    BY <1>2, <2>1 DEF OpenFails, NotOpen, InLoop, history, LatestKept, ToldAll, Backend!Fail
  <2> QED BY <2>2 DEF Backend!Next
<1>3. CASE RequestClosedLoop \/ RequestFails
  <2>1. LatestKept
    BY <1>3 , KeptSame, KeptByState, FrameType, SendingType
       DEF RequestClosedLoop, RequestFails, bus, AxisStateFrame
  <2>2. UNCHANGED <<life, commands, upset>> /\ call = "activate" /\ call' = "activate"
    BY <1>3 DEF RequestClosedLoop, RequestFails, Sending, history
  <2> QED BY <2>1, <2>2, BackendStutter DEF ToldAll
<1>4. CASE Activated
  <2>1. LatestKept
    BY <1>4, KeptSame DEF Activated, bus
  <2>2. /\ life = "inactive" /\ life' = "active" /\ commands' = 0 /\ upset' = upset
        /\ written' = "no"
    BY <1>4 DEF Activated, Orderly, TellInv, history
  <2>3. Backend!Activate
    BY <2>1, <2>2 DEF LatestKept, ToldAll, Backend!Activate, Backend!Stopped, Backend!Slowed
  <2> QED BY <2>3 DEF Backend!Next
<1>5. CASE Stop
  <2>1. LatestKept
    BY <1>5, KeptSame DEF Stop, bus
  <2>2. UNCHANGED <<life, commands, upset>> /\ call' # "none"
    BY <1>5 DEF Stop, history
  <2>3. CASE ToldAll
    <3>1. Backend!Update
      BY <2>1, <2>2, <2>3, BackendUpdate DEF ToldAll, TypeOK
    <3> QED BY <3>1 DEF Backend!Next
  <2>4. CASE ~ToldAll
    BY <2>1, <2>2, <2>4, BackendStutter DEF ToldAll
  <2> QED BY <2>3, <2>4
<1>6. CASE RequestIdle \/ IdleFails \/ IdleSent
  <2>1. LatestKept
    BY <1>6, KeptSame, KeptByState, FrameType, SendingType
       DEF RequestIdle, IdleFails, IdleSent, bus, AxisStateFrame
  <2>2. UNCHANGED <<life, commands, upset>> /\ call = "idle" /\ call' \in {"idle", "join"}
    BY <1>6 DEF RequestIdle, IdleFails, IdleSent, Sending, history
  <2> QED BY <2>1, <2>2, BackendStutter DEF ToldAll
<1>7. CASE Joined \/ Crash
  <2>1. LatestKept
    BY <1>7, KeptSame DEF Joined, Crash
  <2>2. life' \in {"inactive", "shutdown"} /\ commands' = 0 /\ upset' = upset
    BY <1>7 DEF Joined, Crash, history, TypeOK
  <2>3. Backend!Stop
    BY <2>1, <2>2 DEF LatestKept, ToldAll, Backend!Stop, Backend!Stopped, Backend!Slowed
  <2> QED BY <2>3 DEF Backend!Next
<1>8. CASE Read \/ Update
  <2>1. LatestKept
    BY <1>8, KeptSame DEF Read, Update, bus
  <2>2. UNCHANGED <<life, upset>> /\ ~ToldAll'
    BY <1>8 DEF Read, Update, InLoop, history, ToldAll
  <2>3. CASE life = "active"
    <3>1. Backend!Update
      BY <2>1, <2>2, <2>3, BackendUpdate DEF TypeOK
    <3> QED BY <3>1 DEF Backend!Next
  <2>4. CASE life # "active"
    <3>1. commands' = commands /\ ~ToldAll
      BY <1>8, <2>4 DEF Read, Update, ToldAll
    <3> QED BY <2>1, <2>2, <3>1, BackendStutter DEF ToldAll
  <2> QED BY <2>3, <2>4
<1>9. CASE Write \/ VelocityFails
  <2>1. LatestKept
    BY <1>9, KeptSame DEF Write, VelocityFails, bus
  <2>2. UNCHANGED <<life, commands, upset>> /\ ToldAll' = ToldAll
    BY <1>9 DEF Write, VelocityFails, Sending, InLoop, history, ToldAll
  <2> QED BY <2>1, <2>2, BackendStutter
<1>10. CASE SendVelocity
  <2>1. \A m \in Node : Latest(m)' \in {Latest(m), commands}
    BY <1>10, Commanded
  <2>2. UNCHANGED <<life, commands, upset>> /\ ToldAll' = ToldAll /\ life = "active"
    BY <1>10 DEF SendVelocity, Sending, history, ToldAll, Orderly
  <2>3. Backend!Tell
    BY <2>1, <2>2 DEF Backend!Tell
  <2> QED BY <2>3 DEF Backend!Next
<1>11. CASE Written
  <2>1. LatestKept
    BY <1>11, KeptSame DEF Written, bus
  <2>2. /\ UNCHANGED <<commands, upset>> /\ life = "active"
        /\ call' = "none" /\ loop' = "read"
    BY <1>11 DEF Written, Orderly
  <2>3. CASE result = "ok"
    <3>1. life' = "active" /\ written' = "yes"
      BY <1>11, <2>2, <2>3 DEF Written
    <3>2. \A n \in Node \ upset : Latest(n)' = commands
      BY <2>2, <3>1 DEF TellInv, WheelsAgree
    <3>3. Backend!Told
      BY <2>1, <2>2, <3>1, <3>2 DEF LatestKept, ToldAll, Backend!Told
    <3> QED BY <3>3 DEF Backend!Next
  <2>4. CASE result = "error"
    <3>1. life' = "failed"
      BY <1>11, <2>4 DEF Written
    <3>2. Backend!Fail
      BY <2>1, <2>2, <3>1 DEF LatestKept, ToldAll, Backend!Fail
    <3> QED BY <3>2 DEF Backend!Next
  <2> QED BY <2>3, <2>4 DEF TypeOK
<1>12. CASE Reception \/ LinkDown \/ LinkUp \/ UNCHANGED vars
  <2>1. /\ UNCHANGED <<life, call, loop, commands, written, upset>>
        /\ UNCHANGED <<tx, axis>>
    BY <1>12 DEF Reception, Check, Receive, StorePosition, StoreVelocity,
                 LinkDown, LinkUp, vars, program, bus, history
  <2> QED BY <2>1, KeptSame, BackendStutter DEF ToldAll
<1>13. ASSUME NEW n \in Node, Handle(n) \/ Feedback(n) \/ Trip(n)
       PROVE  UNCHANGED Backend!vars
  <2>1. UNCHANGED <<life, call, loop, commands, written, upset>>
    BY <1>13 DEF Handle, Feedback, Trip, program, history
  <2> QED BY <1>13, <2>1, KeptByHandle, KeptByAxis, BackendStutter DEF ToldAll
<1>14. ASSUME NEW n \in Node, LoseFrame(n) \/ Reboot(n)
       PROVE  Backend!Next
  <2>1. /\ UNCHANGED <<life, call, loop, commands, written>>
        /\ upset' = upset \union {n}
    BY <1>14 DEF LoseFrame, Reboot, program
  <2>2. /\ Latest(n)' \in 0..MaxCommands
        /\ \A m \in Node \ {n} : Latest(m)' = Latest(m)
    BY <1>14, Strayed
  <2>3. [m \in Node |-> Latest(m)]'
          = [[m \in Node |-> Latest(m)] EXCEPT ![n] = Latest(n)']
    BY <2>2
  <2>4. Backend!Stray(n)
    BY <2>1, <2>2, <2>3 DEF ToldAll, Backend!Stray
  <2> QED BY <2>4 DEF Backend!Next
<1> QED
  BY <1>1, <1>2, <1>3, <1>4, <1>5, <1>6, <1>7, <1>8, <1>9, <1>10, <1>11, <1>12,
     <1>13, <1>14 DEF Next, Activating, Stopping, Cycle

LEMMA BackendInit == Init => Backend!Init
BY OdescAssumption
   DEF Init, ToldAll, Latest, Velocities, Booted, Node, Backend!Init, Backend!Stopped

\* The drivetrain implements DriveBackend: every step is a step of the
\* interface's promise or changes nothing of it.
THEOREM DriveImplementsBackend == Spec => ImplementsBackend
<1>1. /\ TypeOK /\ Orderly /\ TellInv /\ TypeOK' /\ TellInv' /\ [Next]_vars
      => [Backend!Next]_(Backend!vars)
  BY BackendStep
<1> QED
  BY <1>1, BackendInit, TellInit, TellStep, TypeCorrect, PTL
     DEF Spec, ImplementsBackend, Backend!Spec

=============================================================================
