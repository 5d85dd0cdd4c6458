----------------------------- MODULE WsReceiver -----------------------------
(***************************************************************************)
(* The byte stream of one cloud connection as the receiver thread of       *)
(* cloud/internal/websocket_client.c reads it, and the media packet        *)
(* (cloud/internal/media_packet.c) that a binary frame carries to the      *)
(* loudspeaker.  The server sends frames, their bytes arrive in order, and *)
(* the connection may be cut at any byte.  What a text or a Ping sets off  *)
(* is in CloudSession and WsClient.                                        *)
(*                                                                         *)
(* A byte has Base values, 256 in the code, and ByteXor its exclusive or;  *)
(* every number of the formats is an expression of Base, so that a small   *)
(* one reaches all borders of the lengths.  RSV bits, which the receiver   *)
(* ignores, are left out.                                                  *)
(***************************************************************************)
EXTENDS Naturals, Sequences

CONSTANTS
    Base,       \* values of a byte
    ByteXor(_, _),  \* C's ^ of two bytes
    Magic,      \* "XNMS"
    Text, Binary, Close, Ping,  \* opcodes
    Intercom,   \* the media type the card plays
    Silence,    \* no packet
    ServerFrames,   \* frames the server may send
    MaxFrames   \* bound on the frames sent

High == Base \div 2         \* 0x80: FIN, or the mask bit
Direct == High - 3          \* 125, the longest length of one byte
Wide == Base * Base         \* 0x10000; also XN_WS_MAX_INCOMING_PAYLOAD

Byte == 0 .. Base - 1
Bytes == Seq(Byte)

VARIABLES
    stream,     \* bytes that arrive on the connection
    taken,      \* number of them read
    lost,       \* the connection is cut: nothing more arrives
    sent,       \* ghost: the frames the server has sent
    border,     \* ghost: the length of the stream with each of them
    stage,      \* what the receiver reads next
    head,       \* first two bytes of the current frame
    length,     \* its payload length
    mask,       \* its mask
    payload,    \* its payload
    handled     \* the frames handled, and what the loudspeaker got of each

frame == <<stage, head, length, mask, payload, handled>>
streamVars == <<stream, taken, lost, sent, border, frame>>

------------------------------------------------------------------------------
(* The formats.                                                             *)

\* Big-endian numbers of two, four and eight bytes, cut to their width.
PutU16(n) == <<(n \div Base) % Base, n % Base>>
PutU32(n) == PutU16(n \div Wide) \o PutU16(n % Wide)
PutU64(n) == PutU32(n \div (Wide * Wide)) \o PutU32(n % (Wide * Wide))

\* The number that begins at byte i.
U16(b, i) == b[i] * Base + b[i + 1]
U32(b, i) == U16(b, i) * Wide + U16(b, i + 2)
U64(b, i) == U32(b, i) * (Wide * Wide) + U32(b, i + 4)

Masked(key, data) == [i \in 1 .. Len(data) |-> ByteXor(data[i], key[((i - 1) % 4) + 1])]

\* The border of the direct length is one too high (seeded fault).
LengthFieldOff(n) ==
    IF n <= Direct + 1 THEN <<n>>
    ELSE IF n < Wide THEN <<Direct + 1>> \o PutU16(n)
    ELSE <<Direct + 2>> \o PutU64(n)

LengthField(n) ==
    IF n <= Direct THEN <<n>>
    ELSE IF n < Wide THEN <<Direct + 1>> \o PutU16(n)
    ELSE <<Direct + 2>> \o PutU64(n)

\* xn_ws_send_frame: one final, masked frame.
SendFrame(opcode, key, data) ==
    LET field == LengthField(Len(data))
    IN  <<High + opcode, High + field[1]>> \o Tail(field) \o key \o Masked(key, data)

\* A frame of the server, perhaps a fragment.  A masked one is as the card writes
\* its own, so that reading it back checks the writing.
Encoded(f) ==
    IF f.final /\ f.key # << >> THEN SendFrame(f.opcode, f.key, f.payload)
    ELSE <<(IF f.final THEN High ELSE 0) + f.opcode>> \o LengthField(Len(f.payload)) \o f.payload

HeaderBytes == 24

\* xn_media_packet_build.
Build(p) == Magic \o <<1, p.type, p.flags, 0>> \o PutU32(p.sequence)
            \o PutU64(p.timestamp) \o PutU32(Len(p.payload)) \o p.payload

HasHeader(b) == Len(b) >= HeaderBytes /\ SubSeq(b, 1, 4) = Magic /\ b[5] = 1

\* A packet may be longer than it says (seeded fault).
LooseMatch(b) == HasHeader(b) /\ U32(b, 21) <= Len(b) - HeaderBytes

\* xn_media_packet_parse: whether it accepts the bytes, and what it makes of them.
WellFormed(b) == HasHeader(b) /\ U32(b, 21) = Len(b) - HeaderBytes

View(b) == [type |-> b[6], flags |-> b[7], sequence |-> U32(b, 9), timestamp |-> U64(b, 13),
            payload |-> SubSeq(b, HeaderBytes + 1, Len(b))]

\* Packets and frames whose numbers fit their fields.  What a frame carries, if it
\* is a packet for the loudspeaker, is noted in packet.
Packet == {p \in [type : Byte, flags : Byte, sequence : Nat, timestamp : Nat, payload : Bytes] :
              /\ p.sequence < Wide * Wide /\ Len(p.payload) < Wide * Wide
              /\ p.timestamp < (Wide * Wide) * (Wide * Wide)}

IsFrame(f) == /\ f.final \in BOOLEAN /\ f.opcode \in 0 .. High - 1
              /\ f.key \in Bytes /\ Len(f.key) \in {0, 4}
              /\ f.payload \in Bytes /\ Len(f.payload) < (Wide * Wide) * (Wide * Wide)
              /\ f.packet # Silence => /\ f.packet \in Packet /\ f.packet.type = Intercom
                                       /\ f.opcode = Binary /\ f.payload = Build(f.packet)

ASSUME WireAssumption == /\ Base \in Nat /\ Base >= 8 /\ Base % 2 = 0
                         /\ \A a, b \in Byte : ByteXor(a, b) \in Byte /\ ByteXor(ByteXor(a, b), b) = a
                         /\ Magic \in Bytes /\ Len(Magic) = 4
                         /\ {Text, Binary, Close, Ping} \subseteq 0 .. High - 1
                         /\ Close \notin {Text, Binary, Ping}
                         /\ Silence \notin Packet
                         /\ \A f \in ServerFrames : IsFrame(f)

StreamTypeOK == /\ stream \in Bytes /\ taken \in 0 .. Len(stream) /\ lost \in BOOLEAN
          /\ sent \in Seq(ServerFrames) /\ border \in Seq(Nat)
          /\ stage \in {"header", "length", "mask", "payload", "handle", "ended"}
          /\ head \in Bytes /\ mask \in Bytes /\ payload \in Bytes /\ length \in Nat
          /\ handled \in Seq([opcode : 0 .. High - 1, payload : Bytes,
                              sound : Packet \union {Silence}])

------------------------------------------------------------------------------
(* The server and the network.                                              *)

StreamInit == /\ stream = << >> /\ taken = 0 /\ lost = FALSE
        /\ sent = << >> /\ border = << >>
        /\ stage = "header" /\ head = << >> /\ payload = << >>
        /\ length = 0 /\ mask = << >> /\ handled = << >>

Sends == /\ ~lost /\ Len(sent) < MaxFrames
         /\ \E f \in ServerFrames : sent' = Append(sent, f) /\ stream' = stream \o Encoded(f)
         /\ border' = Append(border, Len(stream'))
         /\ UNCHANGED <<taken, lost, frame>>

\* The connection ends; of the bytes on their way only the first have arrived.
Cut == /\ ~lost /\ lost' = TRUE
       /\ \E k \in taken .. Len(stream) : stream' = SubSeq(stream, 1, k)
       /\ UNCHANGED <<taken, sent, border, frame>>

------------------------------------------------------------------------------
(* xn_ws_receiver_main.                                                     *)

Opcode == head[1] % High
IsFinal == head[1] >= High
HasMask == head[2] >= High
ExtensionBytes == CASE head[2] % High = Direct + 1 -> 2
                    [] head[2] % High = Direct + 2 -> 8
                    [] OTHER -> 0

\* A mask is read whether there is one or not (seeded fault).
NeededAlwaysMask == CASE stage = "header" -> 2
                      [] stage = "length" -> ExtensionBytes
                      [] stage = "mask" -> 4
                      [] stage = "payload" -> length
                      [] stage = "handle" -> 0

\* What xn_ws_ssl_read_all is asked for.
Needed == CASE stage = "header" -> 2
            [] stage = "length" -> ExtensionBytes
            [] stage = "mask" -> IF HasMask THEN 4 ELSE 0
            [] stage = "payload" -> length
            [] stage = "handle" -> 0

\* It returns when all the bytes are there.
ReadAll(label) == /\ stage = label /\ Len(stream) >= taken + Needed
                  /\ taken' = taken + Needed
                  /\ UNCHANGED <<stream, lost, sent, border, handled>>
Read == SubSeq(stream, taken + 1, taken + Needed)

ReadsHeader == /\ ReadAll("header")
               /\ head' = Read
               /\ stage' = "length"
               /\ UNCHANGED <<length, mask, payload>>

ReadsLength == /\ ReadAll("length")
               /\ length' = CASE Needed = 0 -> head[2] % High
                              [] Needed = 2 -> U16(Read, 1)
                              [] Needed = 8 -> U64(Read, 1)
               /\ stage' = IF IsFinal /\ length' <= Wide THEN "mask" ELSE "ended"
               /\ UNCHANGED <<head, mask, payload>>

ReadsMask == /\ ReadAll("mask")
             /\ mask' = IF HasMask THEN Read ELSE <<0, 0, 0, 0>>
             /\ stage' = "payload"
             /\ UNCHANGED <<head, length, payload>>

ReadsPayload == /\ ReadAll("payload")
                /\ payload' = IF HasMask THEN Masked(mask, Read) ELSE Read
                /\ stage' = IF Opcode = Close THEN "ended" ELSE "handle"
                /\ UNCHANGED <<head, length, mask>>

\* workcard_cloud_handle_binary: a talkback packet is played.
Played(opcode, data) ==
    IF opcode = Binary /\ WellFormed(data) /\ View(data).type = Intercom THEN View(data) ELSE Silence

Handles == /\ stage = "handle"
           /\ handled' = Append(handled, [opcode |-> Opcode, payload |-> payload,
                                       sound |-> Played(Opcode, payload)])
           /\ stage' = "header"
           /\ UNCHANGED <<stream, taken, lost, sent, border, head, length, mask, payload>>

\* The connection is gone before a frame, or before all its bytes are there.
ReadFails == /\ lost /\ stage \notin {"handle", "ended"}
             /\ stage = "header" \/ Len(stream) < taken + Needed
             /\ stage' = "ended"
             /\ UNCHANGED <<stream, taken, lost, sent, border, head, length, mask, payload, handled>>

------------------------------------------------------------------------------
Receiver == ReadsHeader \/ ReadsLength \/ ReadsMask \/ ReadsPayload \/ Handles \/ ReadFails

StreamNext == Sends \/ Cut \/ Receiver

StreamSpec == StreamInit /\ [][StreamNext]_streamVars

\* The receiver thread runs.
FairStream == StreamSpec /\ WF_streamVars(Receiver)

------------------------------------------------------------------------------
(* Properties.                                                              *)

\* A frame the receiver handles, and one that makes it end the connection.
Accepted(f) == f.final /\ Len(f.payload) <= Wide /\ f.opcode # Close

\* The stream up to the end of the first k frames.
End(k) == IF k = 0 THEN 0 ELSE border[k]

\* Whatever lengths and masks the frames have and wherever the connection is cut,
\* the receiver never loses the borders of the frames: it has handled exactly
\* the first ones sent, up to one it must refuse, and between two frames the
\* next byte is the first of the next frame (websocket_client.c:644-753).
InStep ==
    LET n == Len(handled) + (IF stage \in {"header", "ended"} THEN 0 ELSE 1)
    IN  /\ n <= Len(sent)
        /\ \A k \in DOMAIN handled : /\ Accepted(sent[k])
                                     /\ handled[k].opcode = sent[k].opcode
                                     /\ handled[k].payload = sent[k].payload
        /\ stage \in {"header", "handle"} => taken = End(n)
        /\ stage = "ended" /\ ~lost => n < Len(sent) /\ ~Accepted(sent[n + 1])

\* The loudspeaker gets the packets the server built, whole and in order, and
\* nothing of a packet that is cut, continued or of another kind; the reserved
\* byte is not looked at (media_packet.c:57-169, cloud_demo.c:222-254).
OnlyBuiltPackets ==
    \A k \in DOMAIN handled :
        LET f == sent[k]
            sound == handled[k].sound
        IN  /\ f.packet # Silence => sound = f.packet
            /\ sound # Silence => /\ f.opcode = Binary /\ sound.type = Intercom
                                  /\ [f.payload EXCEPT ![8] = 0] = Build(sound)

\* What should come of a frame; the receiver implements a channel of whole frames.
Outcome(f) == [opcode |-> f.opcode, payload |-> f.payload, sound |-> Played(f.opcode, f.payload)]

Channel == INSTANCE FrameChannel WITH Frames <- ServerFrames, Acceptable <- Accepted

\* Through any split of the stream into reads and wherever it is cut, frames come out
\* one by one, in order and as they were sent (websocket_client.c:644-753).
ChannelSpec == Channel!Spec

\* The receiver does not wait for bytes that belong to no frame: on a connection
\* that stays up it reads everything, unless it ends the connection.
ReadsEverything == []<>(stage = "ended" \/ (taken = Len(stream) /\ stage = "header"))
==============================================================================
