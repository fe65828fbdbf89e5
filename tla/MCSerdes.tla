------------------------------ MODULE MCSerdes ------------------------------
(* Constants of Serdes for TLC: configurations of various widths with the    *)
(* smallest permitted transport, and values that need one, two and three     *)
(* bytes.                                                                    *)
EXTENDS Serdes

Config(a, d, l, limit, crc, size) ==
    [AddressBytes |-> a, DataBytes |-> d, LengthBytes |-> l,
     LengthTypeMax |-> limit, CrcBytes |-> crc, MaxMessageSize |-> size]

\* Comp reads are limited by the command in the first (wide addresses) and by
\* the ACK in the second (wide data); the limits are odd and even.
CheckedCfgs ==
    {Config(3, 2, 2, 65535, 2, 32),
     Config(1, 3, 1, 255, 4, 35),
     Config(2, 1, 1, 255, 3, 33)}

\* A one-byte length field with LengthType = uint16_t, which
\* Configuration.h:58 permits, and a transport that can carry 260 elements.
NarrowLengthCfgs == {Config(1, 1, 1, 65535, 1, 270)}

CheckedValues == [A |-> {1, 66051}, D |-> {2, 772}, L |-> {0, 3}]
NarrowValues == [A |-> {1}, D |-> {2}, L |-> {1, 256}]

NoneOneAndTheLimit(limit) == {0, 1, limit, limit + 1}
OneRow(limit) == {1}

CheckedFlips == {0, 2, \h15, \h89, \hFF}
=============================================================================
