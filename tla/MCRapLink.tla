----------------------------- MODULE MCRapLink -----------------------------
(***************************************************************************)
(* Values for the constants of RapLink.                                    *)
(***************************************************************************)
EXTENDS RapLink

CONSTANTS a1, a2, b1, b2

\* Wide data, narrow addresses and the smallest message size a Serdes takes:
\* a ReadComp command has room for more addresses than its ACK has for data,
\* and the count limits are 3 (ReadSeq), 2 (WriteSeq), 3 (ReadComp) and 2
\* (WriteComp).
TightCfg ==
    [AddressBytes |-> 1, DataBytes |-> 8, LengthBytes |-> 2,
     LengthTypeMax |-> 65535, CrcBytes |-> 4, MaxMessageSize |-> 32]

\* Narrow fields and a length field of one byte, which the LengthType of two
\* does not fit: 256 elements and more are cut. The count limits are 266
\* (ReadSeq and ReadComp) and 264 (WriteSeq).
NarrowCfg ==
    [AddressBytes |-> 1, DataBytes |-> 1, LengthBytes |-> 1,
     LengthTypeMax |-> 65535, CrcBytes |-> 1, MaxMessageSize |-> 270]

Operation(type, addrs, data) == [type |-> type, addrs |-> addrs, data |-> data]

ReadA      == Operation("ReadSingle", <<a1>>, <<>>)
WriteA     == Operation("WriteSingle", <<a1>>, <<{b1}>>)
ToggleA    == Operation("ReadModifyWrite", <<a1>>, <<{b2}, {b1, b2}>>)
ReadBoth   == Operation("ReadSeq", <<a1, a2>>, <<>>)
WriteBoth  == Operation("WriteComp", <<a1, a2>>, <<{b2}, {b2}>>)
ReadFour   == Operation("ReadComp", <<a1, a2, a1, a2>>, <<>>)

Times(n, value) == [i \in 1 .. n |-> value]

Drain      == Operation("ReadSeq", Times(257, a1), <<>>)
Fill       == Operation("WriteSeq", Times(256, a1), Times(256, {b1}))
Sweep      == Operation("ReadComp", Times(267, a1), <<>>)

\* One client thread and the narrow length field: a read, a write of two
\* elements that can fail half-way, a read of which one element is left, a
\* write that cannot be decoded and a read that is too large for the transport.
OneThreadOps == {ReadA, WriteBoth, Drain, Fill, Sweep}

\* Operations whose order and number show in the registers.
ServiceOps == {ToggleA, ReadBoth, WriteBoth, ReadFour}

TwoThreadOps == {ReadA, WriteA, ReadFour}
=============================================================================
