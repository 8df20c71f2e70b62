--------------------------- MODULE OdescDriveBackend ---------------------------
(***************************************************************************)
(* The SocketCAN backend of OdescDrive implements DriveBackend: the        *)
(* velocity a wheel was told is the latest one on its way to the axis.     *)
(***************************************************************************)
EXTENDS OdescDrive

\* From the end of a successful write() to the next read().
ToldAll == life = "active" /\ call = "none" /\ loop = "read" /\ written = "yes"

Backend == INSTANCE DriveBackend WITH
  Node <- Node,
  Speed <- 0..MaxCommands,
  Live <- {"active"},
  command <- [n \in Node |-> commands],
  wheels <- [n \in Node |-> Latest(n)],
  told <- ToldAll,
  strayed <- upset

\* The drivetrain keeps the backend's promise, whatever frames the interface
\* does not take or the bus loses: a write() that told only some of the wheels
\* is never followed by another, and no wheel is told a command that no longer
\* stands.
ImplementsBackend == Backend!Spec
=============================================================================
