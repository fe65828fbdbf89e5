-------------------------- MODULE MCRegisterTarget --------------------------
(***************************************************************************)
(* Values for the constants of RegisterTarget.                             *)
(***************************************************************************)
EXTENDS RegisterTarget, TLC

CONSTANTS b1, b2

\* One byte per address, value, length and CRC, a length field that ends at 3
\* and messages of 8 bytes: WriteSeq and WriteComp commands hold 2 elements,
\* ReadSeq and ReadComp 3, and lengths wrap at 4.
SmallCfg ==
    [AddressBytes |-> 1, DataBytes |-> 1, LengthBytes |-> 1,
     LengthTypeMax |-> 3, CrcBytes |-> 1, MaxMessageSize |-> 8]

\* No feature, those of ExampleRapCfg, and those that ExampleRapCfg lacks.
CfgsFeatures ==
    {{}, {"Sequential", "Fifo", "Compressed"}, {"Increment", "ReadModifyWrite"}}

SomeAddrs == {0, 1, 2, 4}

Call(name, addrs, count, increment, data) ==
    [name |-> name, addrs |-> addrs, count |-> count, increment |-> increment,
     data |-> data]

\* Two updates of one register that do not overlap, and one method of each
\* other kind. seqWrite with an increment of 4 and seqRead of 4 elements are
\* beyond LengthType, and seqWrite of 3 elements is too large for one command.
SomeMethods ==
    {Call("readModifyWrite", <<0>>, 1, 0, <<{b1}, {b1}>>),
     Call("readModifyWrite", <<0>>, 1, 0, <<{b2}, {b2}>>),
     Call("read", <<0>>, 1, 0, <<>>),
     Call("write", <<0>>, 1, 0, <<{b1}>>),
     Call("seqWrite", <<0>>, 3, 1, <<{b1}, {b2}, {b1, b2}>>),
     Call("seqWrite", <<0>>, 2, 4, <<{b2}, {b1}>>),
     Call("seqRead", <<0>>, 3, 1, <<>>),
     Call("seqRead", <<0>>, 4, 0, <<>>),
     Call("seqRead", <<0>>, 0, 1, <<>>),
     Call("fifoWrite", <<0>>, 2, 0, <<{b1}, {b2}>>),
     Call("fifoRead", <<0>>, 2, 0, <<>>),
     Call("compWrite", <<1, 0>>, 2, 0, <<{b1}, {b2}>>),
     Call("compRead", <<1, 0>>, 2, 0, <<>>)}

Symmetry == Permutations(Threads)
=============================================================================
