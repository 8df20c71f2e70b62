-------------------------- MODULE TeleopDrive_proofs --------------------------
(***************************************************************************)
(* Theorems about joystick driving of TeleopDrive, for every deflection,   *)
(* speed and geometry, and every bound.                                    *)
(***************************************************************************)
EXTENDS TeleopDrive, TLAPS

-----------------------------------------------------------------------------
(* Speeds.                                                                  *)

\* A side driven at full deflection, and one that turns at full deflection.
Straight == 2 * Deflection * MaxVel * TrackWidth
Turn == 2 * Deflection * MaxVel * WheelSeparation

LEMMA Magnitudes ==
  /\ Straight \in Nat /\ Turn \in Nat
  /\ MaxSpeed = Straight + Turn
<1> DEFINE A == 2 * Deflection * MaxVel
<1>1. A \in Nat
  BY TeleopAssumption
<1> HIDE DEF A
<1>2. A * TrackWidth \in Nat /\ A * WheelSeparation \in Nat
  BY <1>1, TeleopAssumption
<1>3. A * (TrackWidth + WheelSeparation) = A * TrackWidth + A * WheelSeparation
  BY <1>1, TeleopAssumption
<1> QED BY <1>2, <1>3 DEF A, Straight, Turn, MaxSpeed

\* The wheels' speeds for each way to hold the two axes.
LEMMA HeldSpeeds ==
  ASSUME NEW s \in Held
  PROVE  LET v == WheelSpeeds(Twist(s))
         IN /\ v.of = s
            /\ s.left = Deflection /\ s.right = Deflection
                 => v.left = Straight /\ v.right = Straight
            /\ s.left = -Deflection /\ s.right = -Deflection
                 => v.left = -Straight /\ v.right = -Straight
            /\ s.left = -Deflection /\ s.right = Deflection
                 => v.left = -Turn /\ v.right = Turn
            /\ s.left = Deflection /\ s.right = -Deflection
                 => v.left = Turn /\ v.right = -Turn
<1> DEFINE v == WheelSpeeds(Twist(s))
           linear == (s.left + s.right) * MaxVel
           angular == (s.right - s.left) * MaxVel
           A == 2 * Deflection * MaxVel
<1>1. /\ v.of = s
      /\ v.left = linear * TrackWidth - angular * WheelSeparation
      /\ v.right = linear * TrackWidth + angular * WheelSeparation
  BY DEF Held, Twist, WheelSpeeds
<1>2. A \in Nat
  BY TeleopAssumption
<1>3. CASE s.left = Deflection /\ s.right = Deflection
  <2>1. linear = A /\ angular = 0
    BY <1>3, TeleopAssumption
  <2> HIDE DEF A, v, linear, angular
  <2>2. v.left = A * TrackWidth /\ v.right = A * TrackWidth
    BY <1>1, <1>2, <2>1, TeleopAssumption
  <2> QED BY <1>1, <1>3, <2>2, TeleopAssumption DEF A, v, Straight
<1>4. CASE s.left = -Deflection /\ s.right = -Deflection
  <2>1. linear = -A /\ angular = 0
    BY <1>4, TeleopAssumption
  <2> HIDE DEF A, v, linear, angular
  <2>2. v.left = -(A * TrackWidth) /\ v.right = -(A * TrackWidth)
    BY <1>1, <1>2, <2>1, TeleopAssumption
  <2> QED BY <1>1, <1>4, <2>2, TeleopAssumption DEF A, v, Straight
<1>5. CASE s.left = -Deflection /\ s.right = Deflection
  <2>1. linear = 0 /\ angular = A
    BY <1>5, TeleopAssumption
  <2> HIDE DEF A, v, linear, angular
  <2>2. v.left = -(A * WheelSeparation) /\ v.right = A * WheelSeparation
    BY <1>1, <1>2, <2>1, TeleopAssumption
  <2> QED BY <1>1, <1>5, <2>2, TeleopAssumption DEF A, v, Turn
<1>6. CASE s.left = Deflection /\ s.right = -Deflection
  <2>1. linear = 0 /\ angular = -A
    BY <1>6, TeleopAssumption
  <2> HIDE DEF A, v, linear, angular
  <2>2. v.left = A * WheelSeparation /\ v.right = -(A * WheelSeparation)
    BY <1>1, <1>2, <2>1, TeleopAssumption
  <2> QED BY <1>1, <1>6, <2>2, TeleopAssumption DEF A, v, Turn
<1> QED BY <1>1, <1>3, <1>4, <1>5, <1>6 DEF Held, Axis

\* Without the deadman the wheels stand.
LEMMA FreeSpeeds ==
  ASSUME NEW s \in Sample, ~s.held
  PROVE  WheelSpeeds(Twist(s)) = Still
BY DEF Twist, Still, Halt

LEMMA StillIs == Still = [left |-> 0, right |-> 0, of |-> Centred]
BY TeleopAssumption DEF Still, Halt, WheelSpeeds

LEMMA SampleIs ==
  ASSUME NEW s \in Sample
  PROVE  s.held => s \in Held
<1>1. CASE s \in Swung
  <2>1. s.held = FALSE
    BY <1>1 DEF Swung
  <2> QED BY <2>1
<1>2. CASE s = Centred
  <2>1. s.held = FALSE
    BY <1>2 DEF Centred
  <2> QED BY <2>1
<1> QED BY <1>1, <1>2 DEF Sample

LEMMA SpeedsType ==
  /\ Still \in Speeds
  /\ \A s \in Sample : WheelSpeeds(Twist(s)) \in Speeds
<1>1. Centred \in Sample
  BY DEF Sample
<1>2. Still \in Speeds
  <2>1. 0 \in Speed
    BY Magnitudes DEF Speed
  <2> QED BY <1>1, <2>1, StillIs DEF Speeds
<1>3. ASSUME NEW s \in Sample
      PROVE  WheelSpeeds(Twist(s)) \in Speeds
  <2>1. CASE ~s.held
    BY <1>2, <2>1, FreeSpeeds
  <2>2. CASE s.held
    <3> DEFINE v == WheelSpeeds(Twist(s))
    <3>1. s \in Held /\ s.left \in Axis /\ s.right \in Axis
      BY <2>2, SampleIs DEF Held
    <3>2. /\ v.of = s
          /\ v.left \in {Straight, -Straight, Turn, -Turn}
          /\ v.right \in {Straight, -Straight, Turn, -Turn}
      BY <3>1, HeldSpeeds DEF Axis
    <3>3. v = [left |-> v.left, right |-> v.right, of |-> v.of]
      BY DEF WheelSpeeds
    <3> HIDE DEF v
    <3>4. v.left \in Speed /\ v.right \in Speed
      BY <3>2, Magnitudes DEF Speed
    <3> QED BY <3>2, <3>3, <3>4 DEF Speeds, v
  <2> QED BY <2>1, <2>2
<1> QED BY <1>2, <1>3

-----------------------------------------------------------------------------
(* Types.                                                                   *)

Twists == { Twist(s) : s \in Sample }

LEMMA HaltType == Halt \in Twists
<1>1. Centred \in Sample /\ Twist(Centred) = Halt
  BY DEF Sample, Centred, Twist, Halt
<1> QED BY <1>1 DEF Twists

\* What the controller's update makes of its last command.
LEMMA UpdateType ==
  ASSUME TypeOK, Update
  PROVE  /\ last' \in Twists
         /\ \/ commands' = Still
            \/ \E s \in Sample : commands' = WheelSpeeds(Twist(s))
<1>1. last' \in Twists
  BY DEF TypeOK, Update, AtMostOne, Twists
<1>2. commands' = Still \/ commands' = WheelSpeeds(last')
  BY DEF Update
<1> QED BY <1>1, <1>2 DEF Twists

\* Every message is about a sample of the joystick, and no speed exceeds the
\* one at full deflection.
THEOREM TypeCorrect == Spec => []TypeOK
<1>1. Init => TypeOK
  <2>1. Centred \in Sample
    BY DEF Sample
  <2>2. \A S : {} \in AtMostOne(S)
    BY DEF AtMostOne
  <2>3. 0 \in 0..Timeout + 1 /\ 0 \in 0..MaxMishaps
    BY TeleopAssumption
  <2> QED BY <2>1, <2>2, <2>3, SpeedsType, HaltType DEF Init, TypeOK, Twists
<1>2. TypeOK /\ [Next]_vars => TypeOK'
  <2> SUFFICES ASSUME TypeOK, [Next]_vars
               PROVE  TypeOK'
    OBVIOUS
  <2> USE TeleopAssumption
  <2>1. CASE Move
    BY <2>1 DEF Move, controller, component, TypeOK
  <2>2. CASE Repeat
    BY <2>2 DEF Repeat, operator, controller, component, TypeOK, AtMostOne
  <2>3. CASE Unplug
    BY <2>3 DEF Unplug, Mishap, controller, component, TypeOK
  <2>4. CASE TeleopDies
    BY <2>4 DEF TeleopDies, Mishap, operator, controller, component, TypeOK, AtMostOne
  <2>5. CASE LoseCommand
    BY <2>5 DEF LoseCommand, Mishap, operator, component, TypeOK, AtMostOne
  <2>6. CASE TopicCallback
    <3>1. PICK s \in Sample : joy = {s}
      BY <2>6 DEF TopicCallback, TypeOK, AtMostOne
    <3>2. cmd' = {Twist(s)}
      BY <2>6, <3>1 DEF TopicCallback
    <3> QED
      BY <2>6, <3>2 DEF TopicCallback, operator, component, TypeOK, AtMostOne
  <2>7. CASE Activate \/ Deactivate
    BY <2>7, SpeedsType DEF Activate, Deactivate, operator, controller, TypeOK
  <2>8. CASE Read
    BY <2>8 DEF Read, operator, controller, TypeOK
  <2>9. CASE Update
    <3>1. last' \in Twists /\ commands' \in Speeds
      BY <2>9, UpdateType, SpeedsType
    <3>2. age' \in 0..Timeout + 1 /\ cmd' = {}
      BY <2>9 DEF Update, TypeOK
    <3> QED
      BY <2>9, <3>1, <3>2 DEF Update, operator, TypeOK, AtMostOne, Twists
  <2>10. CASE Write
    BY <2>10 DEF Write, operator, controller, TypeOK
  <2>11. CASE UNCHANGED vars
    BY <2>11 DEF vars, operator, controller, component, TypeOK
  <2> QED
    BY <2>1, <2>2, <2>3, <2>4, <2>5, <2>6, <2>7, <2>8, <2>9, <2>10, <2>11
       DEF Next, Cycle
<1> QED BY <1>1, <1>2, PTL DEF Spec

-----------------------------------------------------------------------------
(* Tank drive.                                                              *)

\* joystick.yaml's track_width and controllers.yaml's wheel_separation are the
\* same 0.67 m.
SameWidth == TrackWidth = WheelSeparation

Tracks(v) ==
  /\ v.left = 2 * TrackWidth * MaxVel * v.of.left
  /\ v.right = 2 * TrackWidth * MaxVel * v.of.right
  /\ Standing(v) \/ v.of.held

LEMMA SpeedsTrack ==
  ASSUME SameWidth
  PROVE  /\ Tracks(Still)
         /\ \A s \in Sample : Tracks(WheelSpeeds(Twist(s)))
<1>1. Tracks(Still)
  BY StillIs, TeleopAssumption DEF Tracks, Centred, Standing
<1>2. ASSUME NEW s \in Sample
      PROVE  Tracks(WheelSpeeds(Twist(s)))
  <2>1. CASE ~s.held
    BY <1>1, <2>1, FreeSpeeds
  <2>2. CASE s.held
    <3> DEFINE v == WheelSpeeds(Twist(s))
               B == 2 * TrackWidth * MaxVel
    <3>1. s \in Held /\ s.left \in Axis /\ s.right \in Axis
      BY <2>2, SampleIs DEF Held
    <3>2. /\ Turn = Straight /\ Straight = B * Deflection
          /\ -Straight = B * (-Deflection)
      BY TeleopAssumption DEF Turn, Straight, SameWidth
    <3>3. v.of = s /\ v.left = B * s.left /\ v.right = B * s.right
      <4> HIDE DEF B
      <4> QED BY <3>1, <3>2, HeldSpeeds DEF Axis
    <3> QED BY <2>2, <3>3 DEF Tracks
  <2> QED BY <2>1, <2>2
<1> QED BY <1>1, <1>2

\* Each side of the rover is only ever told to move, and reported to move, as
\* the joystick axis of its own side asked while the deadman was held.
THEOREM TankTracksAlways ==
  ASSUME SameWidth
  PROVE  Spec => []TankTracks
<1>1. Init => TankTracks
  BY SpeedsTrack DEF Init, TankTracks, Tracks
<1>2. TypeOK /\ TankTracks /\ [Next]_vars => TankTracks'
  <2> SUFFICES ASSUME TypeOK, [Next]_vars,
                      Tracks(commands), Tracks(velocities), Tracks(wheels)
               PROVE  /\ Tracks(commands') /\ Tracks(velocities')
                      /\ Tracks(wheels')
    BY DEF TankTracks, Tracks
  <2>1. CASE Move \/ Repeat \/ Unplug \/ TeleopDies \/ LoseCommand \/ TopicCallback
    BY <2>1 DEF Move, Repeat, Unplug, TeleopDies, LoseCommand, TopicCallback, component
  <2>2. CASE Activate \/ Deactivate
    BY <2>2, SpeedsTrack DEF Activate, Deactivate
  <2>3. CASE Read \/ Write
    BY <2>3 DEF Read, Write
  <2>4. CASE Update
    <3>1. Tracks(commands')
      BY <2>4, UpdateType, SpeedsTrack
    <3> QED BY <2>4, <3>1 DEF Update
  <2>5. CASE UNCHANGED vars
    BY <2>5 DEF vars, component
  <2> QED BY <2>1, <2>2, <2>3, <2>4, <2>5 DEF Next, Cycle
<1> QED BY <1>1, <1>2, TypeCorrect, PTL DEF Spec

-----------------------------------------------------------------------------
(* The refinement.                                                          *)

LEMMA CommandType ==
  ASSUME TypeOK
  PROVE  [n \in Wheel |-> commands[n]] \in [Wheel -> Speed]
BY DEF TypeOK, Speeds, Wheel

LEMMA BackendStep ==
  ASSUME TypeOK, TypeOK', [Next]_vars
  PROVE  [Backend!Next]_(Backend!vars)
<1>1. CASE Move \/ Repeat \/ Unplug \/ TeleopDies \/ LoseCommand \/ TopicCallback
           \/ UNCHANGED vars
  <2>1. UNCHANGED component
    BY <1>1 DEF Move, Repeat, Unplug, TeleopDies, LoseCommand, TopicCallback, vars
  <2> QED BY <2>1 DEF component, Backend!vars
<1>2. CASE Activate
  <2>1. Backend!Activate
    BY <1>2, StillIs DEF Activate, Wheel, Backend!Activate, Backend!Stopped, Backend!Slowed
  <2> QED BY <2>1 DEF Backend!Next
<1>3. CASE Deactivate
  <2>1. Backend!Stop
    BY <1>3, StillIs DEF Deactivate, Wheel, Backend!Stop, Backend!Stopped, Backend!Slowed
  <2> QED BY <2>1 DEF Backend!Next
<1>4. CASE Read \/ Update
  <2>1. [n \in Wheel |-> commands[n]]' \in [Wheel -> Speed]
    BY DEF TypeOK, Speeds, Wheel
  <2>2. Backend!Update
    BY <1>4, <2>1 DEF Read, Update, TypeOK, Backend!Update
  <2> QED BY <2>2 DEF Backend!Next
<1>5. CASE Write
  <2>1. Backend!Told
    BY <1>5 DEF Write, TypeOK, Backend!Told
  <2> QED BY <2>1 DEF Backend!Next
<1> QED BY <1>1, <1>2, <1>3, <1>4, <1>5 DEF Next, Cycle

LEMMA BackendInit == Init => Backend!Init
BY StillIs DEF Init, Wheel, Backend!Init, Backend!Stopped

\* The mock backend, behind the same hardware component, implements
\* DriveBackend.
THEOREM MockImplementsBackend == Spec => ImplementsBackend
<1>1. TypeOK /\ TypeOK' /\ [Next]_vars => [Backend!Next]_(Backend!vars)
  BY BackendStep
<1> QED
  BY <1>1, BackendInit, TypeCorrect, PTL DEF Spec, ImplementsBackend, Backend!Spec
=============================================================================
