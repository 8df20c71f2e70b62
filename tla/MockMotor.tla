------------------------------- MODULE MockMotor -------------------------------
(***************************************************************************)
(* pxx::MockMotorBackend, an ideal position servo: what each of its calls  *)
(* makes of its commands and states.  Positions are counted in some angle, *)
(* the period of a read() is zero or one, so a velocity is a distance.     *)
(* The errors of a period that is not finite, and of a command vector of   *)
(* another size, which the component never passes, are left out.           *)
(***************************************************************************)
EXTENDS Integers

CONSTANTS
  Joints,   \* the joints
  Angles    \* positions that are commanded

ASSUME MockAssumption == Angles \subseteq Nat

NotCommanded == -1
Servo == [command : Angles \union {NotCommanded}, position : Angles \union {0}, velocity : Int]

Constructed ==
  [j \in Joints |-> [command |-> NotCommanded, position |-> 0, velocity |-> 0]]

\* Mutant: activate() leaves the commands as they are.
ActivatedWithCommands(servos) ==
  [j \in Joints |-> [servos[j] EXCEPT !.position = 0, !.velocity = 0]]

Activated(servos) == Constructed

Deactivated(servos) ==
  [j \in Joints |-> [servos[j] EXCEPT !.command = NotCommanded, !.velocity = 0]]

\* A joint without a command holds; any other is where it should be at once.
Read(servos, period) ==
  [j \in Joints |->
     LET s == servos[j] IN
       IF s.command = NotCommanded THEN [s EXCEPT !.velocity = 0]
       ELSE [s EXCEPT !.position = s.command,
                      !.velocity = IF period > 0 THEN s.command - s.position ELSE 0]]

Wrote(servos, commands) == [j \in Joints |-> [servos[j] EXCEPT !.command = commands[j]]]

=============================================================================
