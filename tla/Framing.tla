------------------------------ MODULE Framing -------------------------------
(***************************************************************************)
(* Packets in a stream of bytes (satrs/src/encoding): the parser for       *)
(* tightly packed space packets and the one for COBS frames.  A byte is a  *)
(* pair: byte i of packet p is <<p, i>>, so that what a parser takes out   *)
(* of a buffer can be compared with what was put into the stream.          *)
(***************************************************************************)
EXTENDS Naturals, Sequences, SequencesExt

CONSTANTS
    Packets,        \* the packets that clients send
    PacketLen,      \* their lengths
    ValidIds,       \* those with a packet ID that the validator knows
    BrokenIds,      \* those with a header that the validator calls invalid
    HeaderLen       \* bytes needed to read a header: 7 in the code

ASSUME FramingAssumption ==
    /\ HeaderLen \in Nat \ {0}
    /\ ValidIds \cup BrokenIds \subseteq Packets /\ ValidIds \cap BrokenIds = {}
    /\ \A p \in Packets : PacketLen[p] \in Nat /\ PacketLen[p] >= HeaderLen

Packet(p) == [i \in 1..PacketLen[p] |-> <<p, i>>]

Zero == <<"sentinel", 0>>

\* COBS puts one byte in front of a packet of less than 254 bytes, and
\* replaces the zeros in it.
Encoded(p) == <<<<p, 0>>>> \o Packet(p)

\* What encode_packet_with_cobs appends to a buffer that has room for it.
Frame(p) == <<Zero>> \o Encoded(p) \o <<Zero>>

\* The packet that a receiver sees in some bytes.
Named(bytes) ==
    IF \E p \in Packets : bytes = Packet(p) THEN bytes[1][1] ELSE "Broken"
-----------------------------------------------------------------------------
(* A parse: the packets handed on, how many were counted, where the packet *)
(* cut off by the end of the buffer starts (0 if there is none), where the *)
(* frames start that were decoded in place, how many packets the sender    *)
(* still takes, and whether it has taken all so far.                       *)

NewParse(room) ==
    [handed |-> << >>, found |-> 0, tail |-> 0, starts |-> {}, room |-> room, ok |-> TRUE]

\* validate: the validator of the example skips all packets with unknown IDs;
\* one of another user may also call a header invalid.
Validate(p) ==
    CASE p \in ValidIds -> "Valid"
      [] p \in BrokenIds -> "Invalid"
      [] OTHER -> "Skip"

\* SpHeader::from_be_bytes and validate.  Bytes that are not the header of a
\* packet are taken for the header `misread'.
HeaderAt(buf, idx, misread) ==
    LET p == buf[idx][1]
    IN  IF SubSeq(buf, idx, idx + HeaderLen - 1) = SubSeq(Packet(p), 1, HeaderLen)
        THEN [validity |-> Validate(p), size |-> PacketLen[p]]
        ELSE misread

\* parse_buffer_for_ccsds_space_packets from an index on.
RECURSIVE ParseFrom(_, _, _, _)
ParseFrom(buf, misread, idx, room) ==
    IF idx + HeaderLen - 1 > Len(buf) THEN NewParse(room)
    ELSE LET header == HeaderAt(buf, idx, misread)
             packet == SubSeq(buf, idx, idx + header.size - 1)
         IN  CASE header.validity = "Invalid" -> ParseFrom(buf, misread, idx + 1, room)
               [] header.validity = "Skip" -> ParseFrom(buf, misread, idx + header.size, room)
               [] header.validity = "Valid" /\ Len(buf) < idx + header.size - 1 ->
                     [NewParse(room) EXCEPT !.tail = idx]
               [] OTHER ->
                     IF room = 0 THEN [NewParse(0) EXCEPT !.ok = FALSE]
                     ELSE [ParseFrom(buf, misread, idx + header.size, room - 1)
                              EXCEPT !.handed = <<Named(packet)>> \o @, !.found = @ + 1]

ParseSpacePackets(buf, misread, room) == ParseFrom(buf, misread, 1, room)

\* decode_in_place: whether damaged bytes decode depends on what they are.
Decoded(bytes, decodes) ==
    IF bytes # << >> /\ bytes[1][1] \in Packets /\ bytes = Encoded(bytes[1][1])
    THEN <<bytes[1][1]>>
    ELSE IF decodes THEN <<"Broken">> ELSE << >>

\* The loop over the bytes from i on: start is the first byte after the
\* sentinel that opened a frame, 0 if none is open.
RECURSIVE CobsFrom(_, _, _, _, _)
CobsFrom(buf, decodes, i, start, room) ==
    LET packet == Decoded(SubSeq(buf, start, i - 1), decodes)
    IN  CASE i > Len(buf) -> [NewParse(room) EXCEPT !.tail = IF start = 0 THEN 0 ELSE start - 1]
          [] i <= Len(buf) /\ buf[i] # Zero -> CobsFrom(buf, decodes, i + 1, start, room)
          [] i <= Len(buf) /\ buf[i] = Zero /\ start = 0 ->
                CobsFrom(buf, decodes, i + 1,
                         IF i < Len(buf) /\ buf[i + 1] = Zero THEN 0 ELSE i + 1, room)
          [] OTHER ->
                IF packet = << >> THEN CobsFrom(buf, decodes, i + 1, 0, room)
                ELSE IF room = 0 THEN [NewParse(0) EXCEPT !.ok = FALSE]
                ELSE [CobsFrom(buf, decodes, i + 1, 0, room - 1)
                         EXCEPT !.handed = packet \o @, !.found = @ + 1, !.starts = @ \cup {start}]

\* parse_buffer_for_cobs_encoded_packets: a frame that is cut off is kept only
\* if the same buffer held a whole one.
ParseCobsFrames(buf, decodes, room) ==
    LET r == CobsFrom(buf, decodes, 1, 0, room)
    IN  [r EXCEPT !.tail = IF r.found > 0 THEN @ ELSE 0]

\* The buffer after decode_in_place: a decoded frame has moved to the front by
\* its code byte, and its last byte is still there.
DecodedInPlace(buf, starts) ==
    [i \in DOMAIN buf |->
        IF i < Len(buf) /\ \E s \in starts : s <= i /\ \A j \in s..(i + 1) : buf[j] # Zero
        THEN buf[i + 1] ELSE buf[i]]
=============================================================================
