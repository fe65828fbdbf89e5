---------------------------- MODULE SerdesSize ----------------------------
(***************************************************************************)
(* The size arithmetic of Serdes<Cfg> (src/Serdes.h): how long each        *)
(* message is on the wire, how many elements a command may name, and which *)
(* encodings calcSize and the count checks refuse with a                   *)
(* MessageSizeException.                                                   *)
(*                                                                         *)
(* The configuration traits and the constructor argument max_message_size  *)
(* are one record, passed to every operator, so that a model can range     *)
(* over configurations.                                                    *)
(***************************************************************************)
EXTENDS Integers

minimum_max_message_size == 32

\* AddressType and DataType have at most 8 bytes, LengthType is uint8_t or
\* uint16_t and holds the LengthBytes of its field (Configuration.h:58), and
\* calculateCrc has branches for CrcBytes 1 to 4 only. The constructor of Serdes
\* refuses a max_message_size below the minimum.
Configs ==
    {cfg \in [AddressBytes   : 1 .. 8,
              DataBytes      : 1 .. 8,
              LengthBytes    : 1 .. 2,
              LengthTypeMax  : {255, 65535},
              CrcBytes       : 1 .. 4,
              MaxMessageSize : {m \in Nat : m >= minimum_max_message_size}] :
        cfg.LengthBytes = 2 => cfg.LengthTypeMax = 65535}

CmdTypes ==
    {"ReadSingle", "WriteSingle", "ReadSeq", "WriteSeq",
     "ReadComp", "WriteComp", "ReadModifyWrite"}

\* The commands whose number of elements encode() compares with a limit.
CountedTypes == {"ReadSeq", "WriteSeq", "ReadComp", "WriteComp"}

-----------------------------------------------------------------------------

\* A definition that is called a slip is one that a careless edit of the
\* source could turn its successor into; nothing uses it.

\* Slip: the CRC is forgotten.
WireSizeWithoutCrc(cfg, a, d, l) ==
    2 + a * cfg.AddressBytes + d * cfg.DataBytes + l * cfg.LengthBytes

\* What calcSize adds up: a address fields, d data fields and l length
\* fields, between the two header bytes and the CRC.
WireSize(cfg, a, d, l) ==
    2 + a * cfg.AddressBytes + d * cfg.DataBytes + l * cfg.LengthBytes
      + cfg.CrcBytes

\* calcSize throws MessageSizeException.
TooLarge(cfg, size) == size > cfg.MaxMessageSize

SmallerOf(m, n) == IF m <= n THEN m ELSE n

\* Slip: one byte less than there is.
RoomForLess(cfg, width, overhead) ==
    (cfg.MaxMessageSize - overhead - 1) \div width

\* Elements of the given width that fit beside a fixed overhead. In the code
\* the subtraction is unsigned; OverheadFits says that it never wraps.
RoomFor(cfg, width, overhead) == (cfg.MaxMessageSize - overhead) \div width

getMaxSeqReadCount(cfg) ==
    SmallerOf(RoomFor(cfg, cfg.DataBytes, WireSize(cfg, 0, 0, 1)),
              cfg.LengthTypeMax)

getMaxSeqWriteCount(cfg) ==
    SmallerOf(RoomFor(cfg, cfg.DataBytes, WireSize(cfg, 1, 0, 2)),
              cfg.LengthTypeMax)

\* Slip: the limit of the command only.
MaxCompReadCountByCommand(cfg) ==
    SmallerOf(RoomFor(cfg, cfg.AddressBytes, WireSize(cfg, 0, 0, 1)),
              cfg.LengthTypeMax)

getMaxCompReadCount(cfg) ==
    SmallerOf(SmallerOf(RoomFor(cfg, cfg.AddressBytes, WireSize(cfg, 0, 0, 1)),
                        RoomFor(cfg, cfg.DataBytes, WireSize(cfg, 0, 0, 1))),
              cfg.LengthTypeMax)

getMaxCompWriteCount(cfg) ==
    SmallerOf(RoomFor(cfg, cfg.AddressBytes + cfg.DataBytes,
                      WireSize(cfg, 0, 0, 1)),
              cfg.LengthTypeMax)

CountLimit(cfg, type) ==
    CASE type = "ReadSeq"   -> getMaxSeqReadCount(cfg)
      [] type = "WriteSeq"  -> getMaxSeqWriteCount(cfg)
      [] type = "ReadComp"  -> getMaxCompReadCount(cfg)
      [] type = "WriteComp" -> getMaxCompWriteCount(cfg)

-----------------------------------------------------------------------------
(* The three frames of an operation on n elements: its command, its ACK and  *)
(* its NAK.                                                                 *)

CommandSize(cfg, type, n) ==
    CASE type = "ReadSingle"      -> WireSize(cfg, 1, 0, 0)
      [] type = "WriteSingle"     -> WireSize(cfg, 1, 1, 0)
      [] type = "ReadSeq"         -> WireSize(cfg, 1, 0, 2)
      [] type = "WriteSeq"        -> WireSize(cfg, 1, n, 2)
      [] type = "ReadComp"        -> WireSize(cfg, n, 0, 1)
      [] type = "WriteComp"       -> WireSize(cfg, n, n, 1)
      [] type = "ReadModifyWrite" -> WireSize(cfg, 1, 2, 0)

AckSize(cfg, type, n) ==
    CASE type = "ReadSingle"            -> WireSize(cfg, 0, 1, 0)
      [] type \in {"ReadSeq", "ReadComp"} -> WireSize(cfg, 0, n, 1)
      [] OTHER                          -> WireSize(cfg, 0, 0, 0)

NakSize(cfg) == WireSize(cfg, 0, 1, 0)

CommandRefused(cfg, type, n) ==
    \/ type \in CountedTypes /\ n > CountLimit(cfg, type)
    \/ TooLarge(cfg, CommandSize(cfg, type, n))

AckRefused(cfg, type, n) ==
    \/ type \in {"ReadSeq", "ReadComp"} /\ n > CountLimit(cfg, type)
    \/ TooLarge(cfg, AckSize(cfg, type, n))

NakRefused(cfg) == TooLarge(cfg, NakSize(cfg))

\* The number of elements that the length field of the frame says.
CountCarried(cfg, n) == n % (IF cfg.LengthBytes = 1 THEN 256 ELSE 65536)

\* The decoder compares the number of elements in the frame with the one that
\* the length field says and throws, which a ReadSeq has nothing to compare.
DecodeThrows(cfg, type, n) ==
    type \in {"WriteSeq", "ReadComp", "WriteComp"} /\ CountCarried(cfg, n) # n

-----------------------------------------------------------------------------

\* minimum_max_message_size is large enough for every command of a fixed
\* size, and for the part of every counted command that does not depend on
\* the count: calcSize never throws there and no limit is computed from a
\* wrapped subtraction.
OverheadFits(cfg) ==
    /\ \A type \in CmdTypes : ~TooLarge(cfg, CommandSize(cfg, type, 0))
    /\ \A type \in CmdTypes : ~TooLarge(cfg, AckSize(cfg, type, 0))
    /\ ~NakRefused(cfg)

\* A command the client managed to encode is one the server can answer, with
\* an ACK or with a NAK: encodeResponse, which backgroundWork calls outside
\* its try block (src/ServerAdapter.h:104), does not throw.
AcceptedIsAnswerable(cfg, type, n) ==
    ~CommandRefused(cfg, type, n) =>
        ~AckRefused(cfg, type, n) /\ ~NakRefused(cfg)

\* The count check is exact: encode() refuses a counted command only when
\* the command, or the ACK that would answer it, really does not fit the
\* transport or the count does not fit LengthType.
RefusedOnlyWhenTooLarge(cfg, type, n) ==
    CommandRefused(cfg, type, n) =>
        \/ TooLarge(cfg, CommandSize(cfg, type, n))
        \/ TooLarge(cfg, AckSize(cfg, type, n))
        \/ n > cfg.LengthTypeMax
=============================================================================
