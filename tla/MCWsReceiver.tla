---------------------------- MODULE MCWsReceiver ----------------------------
(* Small instance of WsReceiver for TLC: bytes of three bits, where 1 and 64   *)
(* are what 125 and 65536 are in the code.                                     *)
EXTENDS WsReceiver, Bitwise

BitXor(a, b) == a ^^ b

MagicBytes == <<7, 1, 6, 2>>
MaskKeys == {<<1, 2, 4, 7>>}

\* A payload of n bytes whose neighbours differ.
Data(n) == [i \in 1 .. n |-> (3 * i + n) % Base]

Frame(opcode, key, data) ==
    [final |-> TRUE, opcode |-> opcode, key |-> key, payload |-> data, packet |-> Silence]

\* All borders of the length, with and without a mask.
TextFrames == {Frame(Text, key, Data(n)) : key \in MaskKeys \union {<< >>},
                                           n \in {0, 1, 2, 63, 64, 65}}
PingFrames == {Frame(Ping, << >>, Data(n)) : n \in {0, 1, 2}}
Ends == {Frame(Close, << >>, Data(2)), [Frame(Text, << >>, Data(1)) EXCEPT !.final = FALSE]}

\* Packets at the borders of their fields, as they are and damaged.
Packets == [type : {Intercom}, flags : {5}, sequence : {Wide * Wide - 1},
            timestamp : {Base ^ 7 + 5}, payload : {Data(0), Data(3)}]
Built(type, n) == Build([type |-> type, flags |-> 0, sequence |-> 1, timestamp |-> 2,
                         payload |-> Data(n)])
PacketFrames ==
    {[Frame(Binary, << >>, Build(p)) EXCEPT !.packet = p] : p \in Packets}
    \union {Frame(Binary, << >>, Built(Intercom - 1, 1)), Frame(Text, << >>, Built(Intercom, 1))}
    \union LET b == Built(Intercom, 2)
           IN {Frame(Binary, << >>, d) : d \in {b \o <<0>>, SubSeq(b, 1, Len(b) - 1),
                                                [b EXCEPT ![4] = 0], [b EXCEPT ![5] = 2],
                                                [b EXCEPT ![8] = 6]}}

Frames == TextFrames \union PingFrames \union Ends \union PacketFrames
==============================================================================
