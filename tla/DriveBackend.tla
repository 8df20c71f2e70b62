----------------------------- MODULE DriveBackend -----------------------------
(***************************************************************************)
(* What odesc::DriveBackend promises the hardware component that uses it,  *)
(* whichever backend is behind it: a wheel is only ever told the command   *)
(* that stands, a completed write() has told it to every wheel, and an     *)
(* activation starts from a command of zero.  OdescDrive (the SocketCAN    *)
(* backend) and TeleopDrive (the mock) are shown to implement it.          *)
(***************************************************************************)
EXTENDS Integers

CONSTANTS
  Node,    \* the wheels
  Speed,   \* the commands a controller may give, 0 for a stop
  Live     \* the states in which the backend takes commands: "active", or
           \* "inactive" as well

VARIABLES
  life,      \* state of the hardware component
  command,   \* the velocity commands that stand
  wheels,    \* wheels[n]: the velocity wheel n was last told
  told,      \* TRUE from the end of a successful write() to the next update
  strayed    \* wheels that missed a command or restarted, this activation

vars == <<life, command, wheels, told, strayed>>

Stopped == [n \in Node |-> 0]

\* Whatever stops or restarts a component may also tell wheels to stop.
Slowed == \A n \in Node : wheels'[n] \in {wheels[n], 0}

Init ==
  /\ life = "inactive"
  /\ command = Stopped /\ wheels = Stopped
  /\ told = FALSE /\ strayed \subseteq Node

Prepare ==
  /\ life = "inactive"
  /\ strayed' = {}
  /\ UNCHANGED <<life, command, wheels, told>>

Activate ==
  /\ life = "inactive"
  /\ life' = "active"
  /\ command' = Stopped /\ Slowed /\ told' = FALSE
  /\ UNCHANGED strayed

\* The controllers are updated.
Update ==
  /\ life \in Live
  /\ command' \in [Node -> Speed]
  /\ told' = FALSE
  /\ UNCHANGED <<life, wheels, strayed>>

\* Some wheels are told the command that stands.
Tell ==
  /\ life \in Live
  /\ \A n \in Node : wheels'[n] \in {wheels[n], command[n]}
  /\ UNCHANGED <<life, command, told, strayed>>

\* The end of a successful write(), and what it told the last of the wheels.
Told ==
  /\ life \in Live
  /\ \A n \in Node : wheels'[n] \in {wheels[n], command[n]}
  /\ \A n \in Node \ strayed : wheels'[n] = command[n]
  /\ told' = TRUE
  /\ UNCHANGED <<life, command, strayed>>

Fail ==
  /\ life \in {"inactive", "active"}
  /\ life' = "failed" /\ told' = FALSE
  /\ UNCHANGED <<command, wheels, strayed>>

\* on_deactivate, on_shutdown, or a new process.
Stop ==
  /\ life' \in {"inactive", "shutdown"}
  /\ command' = Stopped /\ Slowed /\ told' = FALSE
  /\ UNCHANGED strayed

\* A wheel misses a command or restarts.
Stray(n) ==
  /\ strayed' = strayed \union {n}
  /\ \E v \in Speed : wheels' = [wheels EXCEPT ![n] = v]
  /\ UNCHANGED <<life, command, told>>

Next ==
  \/ Prepare \/ Activate \/ Update \/ Tell \/ Told \/ Fail \/ Stop
  \/ \E n \in Node : Stray(n)

Spec == Init /\ [][Next]_vars
=============================================================================
