---------------------------- MODULE MCRapUdpLink ----------------------------
(* Constants of RapUdpLink for TLC.                                          *)
EXTENDS RapUdpLink

CONSTANTS a1, b1

\* As in MCRapLink.
TightCfg ==
    [AddressBytes |-> 1, DataBytes |-> 8, LengthBytes |-> 2,
     LengthTypeMax |-> 65535, CrcBytes |-> 4, MaxMessageSize |-> 32]

\* A write and a read that it shows in.
WriteA == [type |-> "WriteSingle", addrs |-> <<a1>>, data |-> <<{b1}>>]
ReadA  == [type |-> "ReadSingle", addrs |-> <<a1>>, data |-> <<>>]

UdpOps == {WriteA, ReadA}
=============================================================================
