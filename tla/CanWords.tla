------------------------------- MODULE CanWords -------------------------------
(***************************************************************************)
(* What the data bytes of the arm's frames hold: little-endian words, SDO  *)
(* requests and responses, process data, and the words that                *)
(* configure_node() writes into a drive's object dictionary.               *)
(*                                                                         *)
(* A word is the sequence of its bytes, lowest first, so a frame holds it  *)
(* as it is: PutLe cuts it to a size, GetLe fills it up with zeros.        *)
(***************************************************************************)
EXTENDS CanIds, SequencesExt

Byte == 0..255
Zeros(n) == [i \in 1..n |-> 0]

PutLe(word, bytes) == SubSeq(word, 1, bytes)

\* offset counts from zero.
GetLe(data, offset, bytes) == SubSeq(data, offset + 1, offset + bytes)

\* Data always has eight bytes, the unused ones zero.
Frame(id, data) ==
  [id |-> id, extended |-> FALSE, length |-> Len(data), data |-> data \o Zeros(8 - Len(data))]

-----------------------------------------------------------------------------
(* Objects: the two bytes of an index.                                      *)

RPDO1_COMM == <<0, 20>>
RPDO1_MAP == <<0, 22>>
TPDO1_COMM == <<0, 24>>
TPDO2_COMM == <<1, 24>>
TPDO1_MAP == <<0, 26>>
TPDO2_MAP == <<1, 26>>
CONTROL == <<64, 96>>
STATUS == <<65, 96>>
MODE == <<96, 96>>
POSITION == <<100, 96>>
VELOCITY == <<108, 96>>
TARGET == <<122, 96>>

Indexes == {RPDO1_COMM, RPDO1_MAP, TPDO1_COMM, TPDO2_COMM, TPDO1_MAP, TPDO2_MAP,
            CONTROL, STATUS, MODE, POSITION, VELOCITY, TARGET}
Keys == Indexes \X {0, 1, 2}

\* Mutant: the number of bytes instead of the number of bits.
PdoMapEntryInBytes(index, subindex, bits) == <<bits \div 8, subindex>> \o index

PdoMapEntry(index, subindex, bits) == <<bits, subindex>> \o index

Small(n) == <<n % 256, n \div 256, 0, 0>>
Cob(id) == Small(id)
Disabled(id) == <<id % 256, id \div 256, 0, 128>>

-----------------------------------------------------------------------------
(* SDO frames.                                                              *)

SdoWriteFrame(node, key, word, size) ==
  Frame(RSDO + node, <<35 + 4 * (4 - size)>> \o key[1] \o <<key[2]>>
                       \o PutLe(word, size) \o Zeros(4 - size))

SdoReadFrame(node, key) == Frame(RSDO + node, <<64>> \o key[1] \o <<key[2]>> \o Zeros(4))

ParseSdoResponse(frame) ==
  [node |-> NodeOf(frame.id), key |-> <<GetLe(frame.data, 1, 2), frame.data[4]>>,
   aborted |-> frame.data[1] = 128, value |-> GetLe(frame.data, 4, 4)]

\* The node and object sdo_transaction reads back out of its own request.
RequestOf(frame) ==
  [node |-> NodeOf(frame.id), key |-> <<GetLe(frame.data, 1, 2), frame.data[4]>>]

\* Mutant: the object is compared by its index alone.
SameIndex(request, response) ==
  /\ response.node = RequestOf(request).node
  /\ response.key[1] = RequestOf(request).key[1]

\* Whether a request's wait ends with this response.
Matches(request, response) ==
  /\ response.node = RequestOf(request).node
  /\ response.key = RequestOf(request).key

\* The drive's side (external): the size is in bits 2 and 3 of the
\* specifier, and the object is echoed.
Stored(od, frame) ==
  LET size == 4 - ((frame.data[1] \div 4) % 4)
  IN [od EXCEPT ![<<GetLe(frame.data, 1, 2), frame.data[4]>>] =
        GetLe(frame.data, 4, size) \o Zeros(4 - size)]

Response(frame, specifier, word) ==
  Frame(TSDO + NodeOf(frame.id), <<specifier>> \o SubSeq(frame.data, 2, 4) \o word)

-----------------------------------------------------------------------------
(* configure_node(): the words, with the size each is written in.           *)

\* A PDO is switched off, remapped entry by entry, and switched on again,
\* to be sent or applied on every SYNC.
Remapping(comm, map, id, entries) ==
  << <<comm, 1, Disabled(id), 4>>, <<map, 0, Small(0), 1>> >>
    \o [i \in 1..Len(entries) |-> <<map, i, entries[i], 4>>]
    \o << <<map, 0, Small(Len(entries)), 1>>, <<comm, 2, Small(1), 1>>, <<comm, 1, Cob(id), 4>> >>

Writes(node) ==
  << <<CONTROL, 0, Small(128), 2>>, <<MODE, 0, Small(8), 1>> >>
    \o Remapping(RPDO1_COMM, RPDO1_MAP, RPDO1 + node, << PdoMapEntry(TARGET, 0, 32) >>)
    \o Remapping(TPDO1_COMM, TPDO1_MAP, TPDO1 + node,
                 << PdoMapEntry(POSITION, 0, 32), PdoMapEntry(VELOCITY, 0, 32) >>)
    \o Remapping(TPDO2_COMM, TPDO2_MAP, TPDO2 + node, << PdoMapEntry(STATUS, 0, 16) >>)

\* The dictionary after all of them: what was last written to an object stays.
Configured(od, node) ==
  LET writes == Writes(node)
      To(key) == { i \in DOMAIN writes : <<writes[i][1], writes[i][2]>> = key }
      Write(i) == SdoWriteFrame(node, <<writes[i][1], writes[i][2]>>, writes[i][3], writes[i][4])
  IN [key \in DOMAIN od |->
        IF To(key) = {} THEN od[key] ELSE Stored(od, Write(Max(To(key))))[key]]

-----------------------------------------------------------------------------
(* Process data.                                                            *)

TargetPositionFrame(node, word) == Frame(RPDO1 + node, PutLe(word, 4))

ParseMotionFeedback(frame) ==
  [node |-> NodeOf(frame.id), position |-> GetLe(frame.data, 0, 4),
   velocity |-> GetLe(frame.data, 4, 4)]
ParseStatusFeedback(frame) ==
  [node |-> NodeOf(frame.id), status |-> GetLe(frame.data, 0, 2)]

\* The drive's side (external): the objects its mapping names, and the PDOs.
Entries(od, map) ==
  [i \in 1..od[<<map, 0>>][1] |->
     LET e == od[<<map, i>>] IN [key |-> <<SubSeq(e, 3, 4), e[2]>>, bytes |-> e[1] \div 8]]

IsOn(od, comm) == od[<<comm, 1>>][4] < 128 /\ od[<<comm, 2>>] = Small(1)
CobOf(od, comm) == od[<<comm, 1>>][1] + 256 * od[<<comm, 1>>][2]

\* The objects one after the other; the arm's PDOs have at most two.
Sent(od, comm, map) ==
  LET entries == Entries(od, map)
      Part(i) == IF i \in DOMAIN entries THEN SubSeq(od[entries[i].key], 1, entries[i].bytes)
                 ELSE <<>>
  IN Frame(CobOf(od, comm), Part(1) \o Part(2))

Applied(od, map, frame) ==
  LET e == Entries(od, map)[1] IN [od EXCEPT ![e.key] = SubSeq(frame.data, 1, e.bytes)]

-----------------------------------------------------------------------------
(* Counts: a motor turn is 7929856 = 121 * 2^16 of them, so a multiple of   *)
(* 1/121 turn is a multiple of 2^16 counts, cut to 32 bits.                 *)

\* Mutant: counts of 24 bits.
RadToCountsOf24Bits(parts) == <<0, 0, parts % 256, 0>>

RadToCounts(parts) == <<0, 0, parts % 256, (parts \div 256) % 256>>

\* The upper half of an int32.
CountsToRad(word) ==
  LET half == word[3] + 256 * word[4] IN IF half < 32768 THEN half ELSE half - 65536

=============================================================================
