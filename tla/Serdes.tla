------------------------------- MODULE Serdes -------------------------------
(***************************************************************************)
(* The message codec Serdes<Cfg> (src/Serdes.h): one message is encoded by *)
(* one side, may be altered on the way, and is decoded by the command or   *)
(* the response decoder.                                                   *)
(*                                                                         *)
(* A frame is its bytes and whether the CRC at its end matches the rest;   *)
(* the CRC polynomials are CRCpp's and only the outcome of the comparison  *)
(* matters here.                                                           *)
(*                                                                         *)
(* The 26 encode/decode pairs of the source differ only in the fields they *)
(* append, so they are one pair of operators over tables of fields: an     *)
(* "A" field is AddressBytes wide, "D" DataBytes and "L" LengthBytes.      *)
(***************************************************************************)
EXTENDS SerdesSize, SequencesExt

CONSTANTS
    Cfgs,             \* the configurations to model, as in SerdesSize
    TxnIds,           \* transaction ids in use
    Values,           \* Values[k]: what a field of kind k may hold
    RowCounts(_),     \* RowCounts(limit): the numbers of rows to model
    Flips             \* the values an altered byte may take

Byte == 0 .. 255

ASSUME CfgsAssumption == Cfgs \subseteq Configs
ASSUME FlipsAssumption == Flips \subseteq Byte /\ TxnIds \subseteq Byte
ASSUME ValuesAssumption == \A k \in {"A", "D", "L"} : Values[k] \subseteq Nat
ASSUME RowCountsAssumption ==
    \A c \in Cfgs, type \in CountedTypes :
        RowCounts(CountLimit(c, type)) \subseteq Nat

\* enum class MessageType: its code, what the struct is that encode() and
\* decode<T>() give it (a command, an ACK, a NAK or an interrupt), and the
\* operation it belongs to. Which decoder takes it is in commandCases and
\* responseCases.
Entry(code, role, op) == [code |-> code, role |-> role, op |-> op]
MessageType ==
    [eCmdSingleRead        |-> Entry(\h01, "cmd", "ReadSingle"),
     eAckSingleRead        |-> Entry(\h80, "ack", "ReadSingle"),
     eNakSingleRead        |-> Entry(\hC1, "nak", "ReadSingle"),
     eCmdSingleWrite       |-> Entry(\h10, "cmd", "WriteSingle"),
     eCmdSingleWritePosted |-> Entry(\h51, "cmd", "WriteSingle"),
     eAckSingleWrite       |-> Entry(\h91, "ack", "WriteSingle"),
     eNakSingleWrite       |-> Entry(\hD0, "nak", "WriteSingle"),
     eCmdSeqRead           |-> Entry(\h04, "cmd", "ReadSeq"),
     eAckSeqRead           |-> Entry(\h85, "ack", "ReadSeq"),
     eNakSeqRead           |-> Entry(\hC4, "nak", "ReadSeq"),
     eCmdSeqWrite          |-> Entry(\h15, "cmd", "WriteSeq"),
     eCmdSeqWritePosted    |-> Entry(\h54, "cmd", "WriteSeq"),
     eAckSeqWrite          |-> Entry(\h94, "ack", "WriteSeq"),
     eNakSeqWrite          |-> Entry(\hD5, "nak", "WriteSeq"),
     eCmdCompRead          |-> Entry(\h08, "cmd", "ReadComp"),
     eAckCompRead          |-> Entry(\h89, "ack", "ReadComp"),
     eNakCompRead          |-> Entry(\hC8, "nak", "ReadComp"),
     eCmdCompWrite         |-> Entry(\h19, "cmd", "WriteComp"),
     eCmdCompWritePosted   |-> Entry(\h58, "cmd", "WriteComp"),
     eAckCompWrite         |-> Entry(\h98, "ack", "WriteComp"),
     eNakCompWrite         |-> Entry(\hD9, "nak", "WriteComp"),
     eCmdSingleRmw         |-> Entry(\h20, "cmd", "ReadModifyWrite"),
     eCmdSingleRmwPosted   |-> Entry(\h61, "cmd", "ReadModifyWrite"),
     eAckSingleRmw         |-> Entry(\hA1, "ack", "ReadModifyWrite"),
     eNakSingleRmw         |-> Entry(\hE0, "nak", "ReadModifyWrite"),
     eAckSingleInterrupt   |-> Entry(\hB0, "interrupt", "none")]

Types == DOMAIN MessageType
Role(type) == MessageType[type].role
Op(type) == MessageType[type].op

-----------------------------------------------------------------------------
(* The fields of the messages: some fixed ones and, in a counted message, a *)
(* length field and that many rows.                                         *)

CommandFields ==
    [ReadSingle |-> <<"A">>,            WriteSingle |-> <<"A", "D">>,
     ReadSeq    |-> <<"A", "L", "L">>,  WriteSeq    |-> <<"A", "L">>,
     ReadComp   |-> <<>>,               WriteComp   |-> <<>>,
     ReadModifyWrite |-> <<"A", "D", "D">>]

CommandRow ==
    [WriteSeq |-> <<"D">>, ReadComp |-> <<"A">>, WriteComp |-> <<"A", "D">>]

AckFields(op) == IF op = "ReadSingle" THEN <<"D">> ELSE <<>>
AckRow == [ReadSeq |-> <<"D">>, ReadComp |-> <<"D">>]

\* A NAK and an interrupt carry a status.
StatusFields == <<"D">>

Fixed(type) ==
    CASE Role(type) = "cmd" -> CommandFields[Op(type)]
      [] Role(type) = "ack" -> AckFields(Op(type))
      [] Role(type) \in {"nak", "interrupt"} -> StatusFields

Counted(type) ==
    \/ Role(type) = "cmd" /\ Op(type) \in DOMAIN CommandRow
    \/ Role(type) = "ack" /\ Op(type) \in DOMAIN AckRow

Row(type) == IF Role(type) = "cmd" THEN CommandRow[Op(type)] ELSE AckRow[Op(type)]

Width(cfg, kind) ==
    CASE kind = "A" -> cfg.AddressBytes
      [] kind = "D" -> cfg.DataBytes
      [] kind = "L" -> cfg.LengthBytes

TotalWidth(cfg, kinds) ==
    LET sum[n \in 0 .. Len(kinds)] ==
            IF n = 0 THEN 0 ELSE sum[n - 1] + Width(cfg, kinds[n])
    IN  sum[Len(kinds)]

-----------------------------------------------------------------------------
(* Encoding.                                                                *)

\* The number of elements that encode() checks against a limit.
CountOf(m) ==
    IF Op(m.type) = "ReadSeq" /\ Role(m.type) = "cmd" THEN m.fixed[3]
                                                      ELSE Len(m.rows)

\* calcSize(...) as each encode() calls it.
calcSize(cfg, m) ==
    CASE Role(m.type) = "cmd" -> CommandSize(cfg, Op(m.type), CountOf(m))
      [] Role(m.type) = "ack" -> AckSize(cfg, Op(m.type), CountOf(m))
      [] Role(m.type) \in {"nak", "interrupt"} -> NakSize(cfg)

\* encode() throws MessageSizeException.
EncodeRefused(cfg, m) ==
    CASE Role(m.type) = "cmd" -> CommandRefused(cfg, Op(m.type), CountOf(m))
      [] Role(m.type) = "ack" -> AckRefused(cfg, Op(m.type), CountOf(m))
      [] Role(m.type) \in {"nak", "interrupt"} -> NakRefused(cfg)

\* A definition that is called a slip is one that a careless edit of the
\* source could turn its successor into; nothing uses it.

\* Slip: v is shifted but not masked.
FieldBytesUnmasked(cfg, kind, v) ==
    [i \in 1 .. Width(cfg, kind) |-> v \div 256 ^ (i - 1)]

\* appendAddress, appendData, appendLength: the low bytes of v, lowest first.
FieldBytes(cfg, kind, v) ==
    LET shifted[i \in 0 .. Width(cfg, kind)] ==
            IF i = 0 THEN v ELSE shifted[i - 1] \div 256
    IN  [i \in 1 .. Width(cfg, kind) |-> shifted[i - 1] % 256]

FieldsBytes(cfg, kinds, values) ==
    FlattenSeq([i \in DOMAIN kinds |-> FieldBytes(cfg, kinds[i], values[i])])

\* Header and body of the message: all its bytes but the CRC.
Payload(cfg, m) ==
    <<m.txn, MessageType[m.type].code>>
    \o FieldsBytes(cfg, Fixed(m.type), m.fixed)
    \o (IF Counted(m.type)
        THEN FieldBytes(cfg, "L", Len(m.rows))
             \o FlattenSeq([i \in DOMAIN m.rows |->
                              FieldsBytes(cfg, Row(m.type), m.rows[i])])
        ELSE <<>>)

\* calculateCrc: the bytes themselves do not matter.
CrcField(cfg) == [i \in 1 .. cfg.CrcBytes |-> 0]

EncodedFrame(cfg, m) ==
    [bytes |-> Payload(cfg, m) \o CrcField(cfg), crc_ok |-> TRUE]

-----------------------------------------------------------------------------
(* Decoding.                                                                *)

\* extractAddress, extractData, extractLength on bytes that are there.
Number(bytes) ==
    LET n == Len(bytes)
        high[i \in 0 .. n] ==    \* what the last i bytes say
            IF i = 0 THEN 0 ELSE bytes[n + 1 - i] + 256 * high[i - 1]
    IN  high[n]

\* The fields of the given kinds, the first of which follows byte at.
FieldsAt(cfg, kinds, bytes, at) ==
    [i \in DOMAIN kinds |->
        LET first == at + TotalWidth(cfg, SubSeq(kinds, 1, i - 1))
        IN  Number(SubSeq(bytes, first + 1, first + Width(cfg, kinds[i])))]

\* Slip: bytes may be left over.
Enough(left, needed) == left >= needed

\* The bytes left are those needed, no fewer and no more.
Exactly(left, needed) == left = needed

Decoded(kind, m) == [kind |-> kind, msg |-> m]
NoMessage == [type |-> "none"]
Throws(kind) == Decoded(kind, NoMessage)

\* decode<T>(): body is what follows the header. Every extract... throws
\* MalformedPacketException when the bytes run out, and so does a leftover;
\* the decoders of the counted commands compare the count with the bytes
\* left first and throw Exception("Buffer size error").
DecodeBody(cfg, type, txn, body) ==
    LET fixedWidth == TotalWidth(cfg, Fixed(type))
        rest       == Len(body) - fixedWidth
        fixed      == FieldsAt(cfg, Fixed(type), body, 0)
        message(rows) ==
            [type |-> type, txn |-> txn, fixed |-> fixed, rows |-> rows]
        uncounted ==
            IF Exactly(rest, 0) THEN Decoded("ok", message(<<>>)) ELSE Throws("malformed")
        counted ==
            LET lengthWidth == Width(cfg, "L")
                count == FieldsAt(cfg, <<"L">>, body, fixedWidth)[1]
                width == TotalWidth(cfg, Row(type))
                at(i) == fixedWidth + lengthWidth + (i - 1) * width
            IN  CASE rest < lengthWidth -> Throws("malformed")
                  [] rest >= lengthWidth ->
                        IF Exactly(rest - lengthWidth, count * width)
                        THEN Decoded("ok", message([i \in 1 .. count |->
                                 FieldsAt(cfg, Row(type), body, at(i))]))
                        ELSE Throws(IF Role(type) = "cmd" THEN "error"
                                                          ELSE "malformed")
    IN  CASE rest < 0                      -> Throws("malformed")
          [] rest >= 0 /\ Counted(type)    -> counted
          [] rest >= 0 /\ ~Counted(type)   -> uncounted

\* Slip: one ACK is in the wrong list.
commandCasesAndOne == {t \in Types : Role(t) = "cmd"} \cup {"eAckSingleWrite"}

\* The labels in front of a decode<T>() in the switch of decodeCommand and in
\* that of decodeResponse. The two lists are written by hand, beside each other
\* and beside the encoders; a type that is not in the list throws.
commandCases ==
    {"eCmdSingleRead", "eCmdSingleWrite", "eCmdSingleWritePosted",
     "eCmdSeqRead", "eCmdSeqWrite", "eCmdSeqWritePosted",
     "eCmdCompRead", "eCmdCompWrite", "eCmdCompWritePosted",
     "eCmdSingleRmw", "eCmdSingleRmwPosted"}

responseCases ==
    {"eAckSingleRead", "eNakSingleRead", "eAckSingleWrite", "eNakSingleWrite",
     "eAckSeqRead", "eNakSeqRead", "eAckSeqWrite", "eNakSeqWrite",
     "eAckCompRead", "eNakCompRead", "eAckCompWrite", "eNakCompWrite",
     "eAckSingleRmw", "eNakSingleRmw", "eAckSingleInterrupt"}

\* What decodeCommand and decodeResponse do, each with its list of cases.
Decode(cfg, f, cases) ==
    LET code  == f.bytes[2]
        known == {t \in cases : MessageType[t].code = code}
    IN  CASE Len(f.bytes) < 2 + cfg.CrcBytes -> Throws("malformed")
          [] Len(f.bytes) >= 2 + cfg.CrcBytes /\ ~f.crc_ok -> Throws("crc_mismatch")
          [] Len(f.bytes) >= 2 + cfg.CrcBytes /\ f.crc_ok ->
                IF known = {} THEN Throws("unexpected")
                ELSE DecodeBody(cfg, CHOOSE t \in known : TRUE, f.bytes[1],
                                SubSeq(f.bytes, 3, Len(f.bytes) - cfg.CrcBytes))

-----------------------------------------------------------------------------
(* The life of one message.                                                 *)

VARIABLES
    cfg,              \* the configuration both sides use
    msg,              \* the message to send
    stage,            \* where the message is: see Stages
    frame,            \* the frame on its way
    outcome           \* what the decoder returned or threw

vars == <<cfg, msg, stage, frame, outcome>>

NoFrame == [bytes |-> <<>>, crc_ok |-> FALSE]

\* Taken by decodeCommand it is "at_server", by decodeResponse "at_client".
Stages == {"new", "refused", "wire", "altered", "at_server", "at_client"}

\* The values of each message struct: one per field, and as many rows as the
\* count says, the first unlike the others.
Tuples(kinds) ==
    {v \in [DOMAIN kinds -> UNION {Values[k] : k \in {"A", "D", "L"}}] :
        \A i \in DOMAIN kinds : v[i] \in Values[kinds[i]]}

FirstUnlike(type, row, n) ==
    LET next == CHOOSE other \in Tuples(Row(type)) :
                    other # row \/ Tuples(Row(type)) = {row}
    IN  [i \in 1 .. n |-> IF i = 1 THEN row ELSE next]

Rows(c, type) ==
    IF ~Counted(type) THEN {<<>>}
    ELSE {FirstUnlike(type, row, n) : n \in RowCounts(CountLimit(c, Op(type))),
                                      row \in Tuples(Row(type))}

MessagesOf(c, t) ==
    [type : {t}, txn : TxnIds, fixed : Tuples(Fixed(t)), rows : Rows(c, t)]

Messages(c) == UNION {MessagesOf(c, t) : t \in Types}

TypeOK ==
    /\ cfg \in Cfgs
    /\ msg.type \in Types /\ msg \in MessagesOf(cfg, msg.type)
    /\ stage \in Stages
    /\ frame \in [bytes : Seq(Byte), crc_ok : BOOLEAN]
    /\ outcome.kind \in {"none", "ok", "malformed", "error", "unexpected",
                         "crc_mismatch"}

Init ==
    /\ cfg \in Cfgs
    /\ msg \in Messages(cfg)
    /\ stage = "new"
    /\ frame = NoFrame
    /\ outcome = Throws("none")

\* encodeCommand, encodeResponse.
Encode ==
    /\ stage = "new"
    /\ IF EncodeRefused(cfg, msg)
       THEN stage' = "refused" /\ UNCHANGED frame
       ELSE stage' = "wire" /\ frame' = EncodedFrame(cfg, msg)
    /\ UNCHANGED <<cfg, msg, outcome>>

\* What may happen to a datagram, or what a peer with other ideas may send:
\* the end is missing, there is more of it, or one byte is another. The CRC
\* may match or not.
Alter ==
    /\ stage = "wire"
    /\ \E ok \in BOOLEAN :
          \/ \E n \in 0 .. Len(frame.bytes) - 1 :
                frame' = [bytes |-> SubSeq(frame.bytes, 1, n), crc_ok |-> ok]
          \/ \E b \in Flips :
                frame' = [bytes |-> Append(frame.bytes, b), crc_ok |-> ok]
          \/ \E i \in DOMAIN frame.bytes, b \in Flips :
                frame' = [bytes |-> [frame.bytes EXCEPT ![i] = b], crc_ok |-> ok]
    /\ stage' = "altered"
    /\ UNCHANGED <<cfg, msg, outcome>>

\* decodeCommand on the server, decodeResponse on the client; a transport may
\* bring a frame to the wrong one.
DecodeBy(cases, side) ==
    /\ stage \in {"wire", "altered"}
    /\ outcome' = Decode(cfg, frame, cases)
    /\ stage' = side
    /\ UNCHANGED <<cfg, msg, frame>>

decodeCommand == DecodeBy(commandCases, "at_server")
decodeResponse == DecodeBy(responseCases, "at_client")

Next == Encode \/ Alter \/ decodeCommand \/ decodeResponse

Spec == Init /\ [][Next]_vars

-----------------------------------------------------------------------------
(* Properties.                                                              *)

\* How many numbers n bytes can hold.
Capacity[n \in 0 .. 8] == IF n = 0 THEN 1 ELSE 256 * Capacity[n - 1]

Truncated(c, kinds, values) ==
    [i \in DOMAIN kinds |-> values[i] % Capacity[Width(c, kinds[i])]]

\* The message as the wire can carry it: each value cut to its field's bytes.
OnWire(c, m) ==
    [type |-> m.type, txn |-> m.txn,
     fixed |-> Truncated(c, Fixed(m.type), m.fixed),
     rows |-> [i \in DOMAIN m.rows |-> Truncated(c, Row(m.type), m.rows[i])]]

Unaltered == frame = EncodedFrame(cfg, msg)

\* What one side encodes the other decodes to the same message, field for
\* field and row for row; the decoder of the wrong side throws
\* UnexpectedMessageTypeException (Serdes.h:283-371, 610-1053).
RoundTrip ==
    [][/\ stage = "wire"
       => /\ decodeCommand => outcome' =
               IF Role(msg.type) = "cmd" THEN Decoded("ok", OnWire(cfg, msg))
                                         ELSE Throws("unexpected")
          /\ decodeResponse => outcome' =
               IF Role(msg.type) = "cmd" THEN Throws("unexpected")
                                         ELSE Decoded("ok", OnWire(cfg, msg))]_vars

\* The assertions of the encoders: what is appended is as long as calcSize
\* said, whatever the message and the widths, and the transport can carry it
\* (Serdes.h:616 and its like).
SizeAsCalculated ==
    stage = "wire" =>
        /\ Len(frame.bytes) = calcSize(cfg, msg)
        /\ Len(frame.bytes) <= cfg.MaxMessageSize

\* A command on the wire can be answered: every ACK with as many elements as
\* it names, and every NAK, is one that encodeResponse does not refuse
\* (ServerAdapter.h:104 calls it outside the try block).
CommandsAreAnswerable ==
    stage = "wire" /\ Role(msg.type) = "cmd" =>
        AcceptedIsAnswerable(cfg, Op(msg.type), CountOf(msg))

\* A count check refuses nothing that would have fitted (Serdes.h:379-427).
RefusalsAreNecessary ==
    stage = "refused" /\ Role(msg.type) = "cmd" =>
        RefusedOnlyWhenTooLarge(cfg, Op(msg.type), CountOf(msg))

\* Decoding is exact: bytes that decode to a message are the encoding of that
\* message and of no other, so that truncated or extended frames and wrong
\* counts are never taken for a message even when their CRC matches. Whatever
\* the type byte has become on the way, decodeCommand only ever returns a
\* command and decodeResponse never does: no case is in the wrong one of the two
\* lists (Serdes.h:295-310, 340-351).
DecodesExactly ==
    outcome.kind = "ok" =>
        LET size == Len(frame.bytes) - cfg.CrcBytes
        IN  /\ SubSeq(frame.bytes, 1, size) = Payload(cfg, outcome.msg)
            /\ stage = "at_server" <=> Role(outcome.msg.type) = "cmd"

\* "Size is determined by Ack Response AND Length field" (Serdes.h:381): the
\* number of elements of a message that is not refused survives the wire.
CountsSurvive ==
    outcome.kind = "ok" /\ Unaltered => CountOf(outcome.msg) = CountOf(msg)
=============================================================================
