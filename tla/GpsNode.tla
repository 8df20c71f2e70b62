-------------------------------- MODULE GpsNode --------------------------------
(***************************************************************************)
(* The GPS node of package comms: class Gps with its 500 ms timer, and     *)
(* SerialDevice, which reads the receiver.                                 *)
(*                                                                         *)
(* The timer callback is one step up to the read(), which waits while the  *)
(* line delivers, and one step from there on.  Bytes are counted in words  *)
(* of two, which is the grain of a frame: sync, message id, length, time   *)
(* of week in two words, and then the body, here one word.  A receiver     *)
(* (external) sends for every epoch a position and a covariance frame.     *)
(* What the program never writes, the buffer on the stack and tolSec,      *)
(* holds anything, the buffer also what an earlier call left there.        *)
(***************************************************************************)
EXTENDS Integers, Sequences

CONSTANTS
  Tolerance,   \* values found in tolSec, a set of integers
  MaxEpoch,    \* bound on the epochs the receiver reports
  MaxNow,      \* bound on the node's clock, in seconds
  BufLen       \* words in the read buffer, at least the six of a frame

VARIABLES
  fd,           \* the serial device
  tolSec,       \* tolSec
  phase,        \* "idle" between two callbacks, "reading" inside read()
  buf,          \* the memory that is buf in pollMsgs()
  pendingPos, pendingCov,  \* the payload structs
  hasPos, hasCov,          \* hasPos, hasCov
  posTs, covTs,            \* posTs, covTs
  fixes,        \* how many messages were published
  now,          \* the node's clock
  input,        \* words received and not read
  line,         \* words of the frames being sent
  epoch,        \* epochs the receiver has reported
  posOf, covOf  \* history: the epoch of the whole frame in the struct, or 0

halves == <<pendingPos, pendingCov, hasPos, hasCov, posTs, covTs, posOf, covOf>>
receiver == <<line, epoch>>
vars == <<fd, tolSec, phase, buf, halves, fixes, now, input, receiver>>

-----------------------------------------------------------------------------
(* Frames and payloads.                                                     *)

Word(kind, value) == [kind |-> kind, value |-> value]

\* The receiver is given the two ids the program looks for.  In the UBX protocol
\* 0x0136 is NAV-COV and 0x0102 NAV-POSLLH: a real receiver's position would not
\* even be recognised.
POS_ID == Word("id", 310)
COV_ID == Word("id", 10550)
MessageId == {POS_ID, COV_ID}
VALID_HEADER == Word("sync", 0)
Length(id) == Word("length", IF id = POS_ID THEN 28 ELSE 64)

Frame(id, e) == << VALID_HEADER, id, Length(id), Word("low", e), Word("high", e),
                   Word("body", e) >>
Epoch(e) == Frame(POS_ID, e) \o Frame(COV_ID, e)

Junk == [i \in 1..BufLen |-> Word("junk", 0)]

\* The structs are laid over the words after the first two; iTow is the first
\* two words of a struct.
Payload(b) == [iTow |-> <<b[3], b[4]>>, rest |-> <<b[5], b[6]>>]

\* The epoch of the frame at the start of b, if it is whole.
Whole(b) == { e \in 1..MaxEpoch : \E id \in MessageId : SubSeq(b, 1, 6) = Frame(id, e) }
EpochOf(b) == IF Whole(b) = {} THEN 0 ELSE CHOOSE e \in Whole(b) : TRUE

Init ==
  /\ fd = "none" /\ tolSec \in Tolerance
  /\ phase = "idle" /\ buf = Junk
  /\ pendingPos = Payload(Junk) /\ pendingCov = Payload(Junk)
  /\ hasPos = FALSE /\ hasCov = FALSE /\ posTs = 0 /\ covTs = 0
  /\ fixes = 0 /\ now = 0 /\ input = <<>>
  /\ line = <<>> /\ epoch = 0
  /\ posOf = 0 /\ covOf = 0

-----------------------------------------------------------------------------
(* The timer callback.                                                      *)

\* Every callback closes and reopens the device, and flushes its input; that
\* it may fail is ignored.
OpenDevice ==
  /\ phase = "idle"
  /\ phase' = "reading"
  /\ fd' \in {"open", "failed"}
  /\ input' = IF fd' = "open" THEN <<>> ELSE input
  /\ buf' \in {buf, Junk}
  /\ UNCHANGED <<tolSec, halves, fixes, now, receiver>>

\* The header found at the start of the buffer decides what it is.
Found(b) == IF b[1] = VALID_HEADER /\ b[2] \in MessageId THEN b[2] ELSE Word("none", 0)

\* pollMsgs() from the return of readMsg().
Take(b) ==
  LET id == Found(b) IN
    /\ pendingPos' = IF id = POS_ID THEN Payload(b) ELSE pendingPos
    /\ pendingCov' = IF id = COV_ID THEN Payload(b) ELSE pendingCov
    /\ posTs' = IF id = POS_ID THEN now ELSE posTs
    /\ covTs' = IF id = COV_ID THEN now ELSE covTs
    /\ posOf' = IF id = POS_ID THEN EpochOf(b) ELSE posOf
    /\ covOf' = IF id = COV_ID THEN EpochOf(b) ELSE covOf

\* The rest of timer_callback(): publish a pair, and drop halves that are old.
Pair(pos, cov) ==
  LET equal == pos /\ cov /\ pendingPos'.iTow = pendingCov'.iTow
      old == \/ pos /\ now - posTs' > tolSec
             \/ cov /\ now - covTs' > tolSec
  IN /\ fixes' = IF equal THEN fixes + 1 ELSE fixes
     /\ hasPos' = (pos /\ ~equal /\ ~old)
     /\ hasCov' = (cov /\ ~equal /\ ~old)

Handle(b) ==
  /\ Take(b)
  /\ Pair(hasPos \/ Found(b) = POS_ID, hasCov \/ Found(b) = COV_ID)

\* read() returns as soon as there is a byte, with what there is then.
ReadSome ==
  /\ phase = "reading" /\ fd = "open" /\ input # <<>>
  /\ LET n == IF Len(input) < BufLen THEN Len(input) ELSE BufLen IN
       /\ buf' = SubSeq(input, 1, n) \o SubSeq(buf, n + 1, BufLen)
       /\ input' = SubSeq(input, n + 1, Len(input))
  /\ Handle(buf')
  /\ phase' = "idle"
  /\ UNCHANGED <<fd, tolSec, now, receiver>>

\* VTIME has passed: no byte, no message.
ReadNothing ==
  /\ phase = "reading" /\ fd = "open" /\ input = <<>>
  /\ UNCHANGED <<pendingPos, pendingCov, posTs, covTs, posOf, covOf>>
  /\ Pair(hasPos, hasCov)
  /\ phase' = "idle"
  /\ UNCHANGED <<fd, tolSec, buf, now, input, receiver>>

\* An error is -1, as a size_t not zero: the buffer is parsed as it is.
ReadError ==
  /\ phase = "reading"
  /\ Handle(buf)
  /\ phase' = "idle"
  /\ UNCHANGED <<fd, tolSec, buf, now, input, receiver>>

-----------------------------------------------------------------------------
(* The receiver, the line and time (external).                              *)

Report ==
  /\ line = <<>> /\ epoch < MaxEpoch
  /\ epoch' = epoch + 1
  /\ line' = Epoch(epoch')
  /\ UNCHANGED <<fd, tolSec, phase, buf, halves, fixes, now, input>>

\* The next words arrive.
Arrive ==
  /\ line # <<>>
  /\ \E n \in 1..Len(line) :
       /\ input' = input \o SubSeq(line, 1, n)
       /\ line' = SubSeq(line, n + 1, Len(line))
  /\ UNCHANGED <<fd, tolSec, phase, buf, halves, fixes, now, epoch>>

Second ==
  /\ now < MaxNow
  /\ now' = now + 1
  /\ UNCHANGED <<fd, tolSec, phase, buf, halves, fixes, input, receiver>>

-----------------------------------------------------------------------------
Read == ReadSome \/ ReadNothing \/ ReadError

Next == OpenDevice \/ Read \/ Report \/ Arrive \/ Second

Spec == Init /\ [][Next]_vars

-----------------------------------------------------------------------------
(* Property.                                                                *)

\* The structs "match the byte-for-byte layout of the serialized GPS payloads",
\* and halves of equal time are published: once whole position and covariance
\* frames of one epoch have been read, they do not stay pending.
PairIsPublished ==
  ~(phase = "idle" /\ hasPos /\ hasCov /\ posOf = covOf /\ posOf # 0)
=============================================================================
