-------------------------------- MODULE CanIds --------------------------------
(***************************************************************************)
(* The identifiers of CAN frames: CANopen COB-IDs on the arm's bus, CAN    *)
(* Simple arbitration identifiers on the drivetrain's, and what the two    *)
(* rx_loops make of a frame.  Shifts and masks are quotients and           *)
(* remainders.                                                             *)
(***************************************************************************)
EXTENDS Integers

-----------------------------------------------------------------------------
(* The arm: a function code in the high bits, the node in the low seven.    *)

NMT == 0
SYNC == 128
EMCY == 128
TPDO1 == 384
RPDO1 == 512
TPDO2 == 640
TSDO == 1408
RSDO == 1536
HEARTBEAT == 1792

FunctionOf(id) == 128 * ((id \div 128) % 16)
NodeOf(id) == id % 128

\* What rx_loop takes a frame for.
Taken(frame) ==
  LET is(function, length) ==
        ~frame.extended /\ frame.length >= length /\ FunctionOf(frame.id) = function
  IN CASE is(TPDO1, 8) -> "motion"
       [] is(TPDO2, 2) -> "status"
       [] is(EMCY, 2) /\ NodeOf(frame.id) # 0 -> "emergency"
       [] is(TSDO, 8) -> "response"
       [] OTHER -> "nothing"

Bare(id, length) == [id |-> id, extended |-> FALSE, length |-> length]

\* What the host sends to a drive, and to all of them.
ToDrive(node) == { Bare(RPDO1 + node, 4), Bare(RSDO + node, 8) }
ToDrives == { Bare(NMT, 2), Bare(SYNC, 0) }

\* What drive node sends (external), and what rx_loop should take it for.
FromDrive(node) ==
  { <<Bare(TPDO1 + node, 8), "motion">>, <<Bare(TPDO2 + node, 2), "status">>,
    <<Bare(EMCY + node, 8), "emergency">>, <<Bare(TSDO + node, 8), "response">>,
    <<Bare(HEARTBEAT + node, 1), "nothing">> }

\* Whether drive node takes a frame for itself (external).
DriveHears(node, frame) == frame.id \in {NMT, SYNC, RPDO1 + node, RSDO + node}

-----------------------------------------------------------------------------
(* The drivetrain: the node above five bits of command.                     *)

MSG_SET_AXIS_REQUESTED_STATE == 7
MSG_GET_ENCODER_ESTIMATES == 9
MSG_SET_INPUT_VEL == 13

MakeArbitrationId(node, command) == node * 32 + (command % 32)
ParseArbitrationId(id) == [node |-> (id \div 32) % 64, command |-> id % 32]

\* send() keeps the eleven bits of a standard identifier.
OnTheBus(id) == id % 2048

\* The entry of estimates_ that rx_loop writes for a frame, if any.
Estimated(id, length) ==
  LET parsed == ParseArbitrationId(id)
  IN IF parsed.command = MSG_GET_ENCODER_ESTIMATES /\ length >= 8
     THEN {parsed.node} ELSE {}

\* The axes among S that obey a frame (external): 63 addresses all.
Obeying(S, id) ==
  LET node == ParseArbitrationId(id).node
  IN { a \in S : node = a \/ node = 63 }

=============================================================================
