------------------------- MODULE SerdesSizeProofs -------------------------
(***************************************************************************)
(* The size arithmetic is right for every configuration the code can be    *)
(* built with, not only for those TLC tries.                               *)
(***************************************************************************)
EXTENDS SerdesSize, WellFoundedInduction, TLAPS

-----------------------------------------------------------------------------
(* Induction.                                                               *)

\* Induction over the numbers, for a property given as a set.
LEMMA NatSetInduction ==
    ASSUME NEW S, 0 \in S, \A n \in Nat : n \in S => n + 1 \in S
    PROVE  Nat \subseteq S
<1> DEFINE T == Nat \ S
           R == {ss \in Nat \X Nat : ss[1] < ss[2]}
<1> SUFFICES ASSUME T # {} PROVE FALSE
  OBVIOUS
<1>1. OpToRel(<, Nat) = R
  BY DEF OpToRel
<1>2. IsWellFoundedOn(R, Nat)
  BY <1>1, NatLessThanWellFounded
<1>3. \A n, m \in T : n < m => <<n, m>> \in R
  OBVIOUS
<1>4. T \subseteq Nat
  OBVIOUS
<1> HIDE DEF R, T
<1>5. PICK m \in T : \A n \in T : ~(<<n, m>> \in R)
  BY <1>2, <1>4, WFMin
<1>6. m \in Nat /\ m # 0 /\ m \notin S
  BY DEF T
<1>7. m - 1 \in Nat /\ m - 1 < m /\ m - 1 + 1 = m
  BY <1>6
<1>8. m - 1 \in T
  BY <1>6, <1>7 DEF T
<1> QED
  BY <1>3, <1>5, <1>7, <1>8

-----------------------------------------------------------------------------
(* The remainder of a division.                                             *)

LEMMA ModType ==
    ASSUME NEW n \in Nat, NEW m \in Nat \ {0}
    PROVE  n \div m \in Int /\ n % m \in 0 .. m - 1
  OBVIOUS

LEMMA DivMod ==
    ASSUME NEW n \in Nat, NEW m \in Nat \ {0},
           NEW q \in Int, NEW r \in 0 .. m - 1, q = n \div m, r = n % m
    PROVE  n = m * q + r
  BY SMTT(30)

LEMMA ModOf ==
    ASSUME NEW q \in Int, NEW m \in Nat \ {0}, NEW r \in 0 .. m - 1,
           NEW n \in Int, n = m * q + r
    PROVE  n % m = r
  BY SMTT(30)

\* Counting up and reducing at each step is counting up and reducing once.
LEMMA ModSucc ==
    ASSUME NEW n \in Nat, NEW m \in Nat \ {0}
    PROVE  ((n % m) + 1) % m = (n + 1) % m
<1> DEFINE r == n % m
           q == n \div m
<1>1. q \in Int /\ r \in 0 .. m - 1
  BY ModType
<1>2. n = m * q + r
  BY <1>1, DivMod
<1> HIDE DEF r, q
<1>3. CASE r + 1 < m
  <2>1. n + 1 = m * q + (r + 1) /\ r + 1 \in 0 .. m - 1
    BY <1>1, <1>2, <1>3
  <2>2. (n + 1) % m = r + 1
    BY <1>1, <2>1, ModOf
  <2>3. (r + 1) % m = r + 1
    BY <1>1, <1>3
  <2> QED
    BY <2>2, <2>3 DEF r
<1>4. CASE r + 1 = m
  <2>1. n + 1 = m * (q + 1) + 0 /\ 0 \in 0 .. m - 1 /\ q + 1 \in Int
    BY <1>1, <1>2, <1>4
  <2>2. (n + 1) % m = 0
    BY <2>1, ModOf
  <2>3. m = m * 1 + 0
    OBVIOUS
  <2>4. m % m = 0
    BY <2>1, <2>3, ModOf
  <2> QED
    BY <1>4, <2>2, <2>4 DEF r
<1> QED
  BY <1>1, <1>3, <1>4

\* Two numbers with the same remainder are equal or a whole divisor apart.
LEMMA ModApart ==
    ASSUME NEW a \in Nat, NEW b \in Nat, NEW m \in Nat \ {0},
           a % m = b % m, b <= a, a - b < m
    PROVE  a = b
<1> DEFINE r == a % m
           p == a \div m
           q == b \div m
<1>1. p \in Int /\ q \in Int /\ r \in 0 .. m - 1
  BY ModType
<1>2. a = m * p + r /\ b = m * q + r
  BY <1>1, DivMod
<1> HIDE DEF p, q, r
<1>3. p > q => m * p >= m * q + m
  BY <1>1, SMT
<1>4. q > p => m * q >= m * p + m
  BY <1>1, SMT
<1> QED
  BY <1>1, <1>2, <1>3, <1>4

-----------------------------------------------------------------------------
(* What fits into a message.                                                *)

\* The arithmetic below multiplies a count by a width and divides by it. The
\* provers do not reason about products of two variables, but a width is one
\* of a few numbers, and each case is linear.
LEMMA QuotientFits ==
    ASSUME NEW w \in 1 .. 16, NEW room \in Nat, NEW n \in Nat,
           n <= room \div w
    PROVE  n * w <= room
<1>1. w \in {1, 2, 3, 4, 5, 6, 7, 8, 9, 10, 11, 12, 13, 14, 15, 16}
  OBVIOUS
<1>2. CASE w \in {1, 2, 3, 4}
  BY <1>2
<1>3. CASE w \in {5, 6, 7, 8}
  BY <1>3
<1>4. CASE w \in {9, 10, 11, 12}
  BY <1>4
<1>5. CASE w \in {13, 14, 15, 16}
  BY <1>5
<1> QED
  BY <1>1, <1>2, <1>3, <1>4, <1>5

LEMMA MoreThanQuotient ==
    ASSUME NEW w \in 1 .. 16, NEW room \in Nat, NEW n \in Nat,
           n > room \div w
    PROVE  n * w > room
<1>1. w \in {1, 2, 3, 4, 5, 6, 7, 8, 9, 10, 11, 12, 13, 14, 15, 16}
  OBVIOUS
<1>2. CASE w \in {1, 2, 3, 4}
  BY <1>2
<1>3. CASE w \in {5, 6, 7, 8}
  BY <1>3
<1>4. CASE w \in {9, 10, 11, 12}
  BY <1>4
<1>5. CASE w \in {13, 14, 15, 16}
  BY <1>5
<1> QED
  BY <1>1, <1>2, <1>3, <1>4, <1>5

LEMMA ConfigTypes ==
    ASSUME NEW cfg \in Configs
    PROVE  /\ cfg.AddressBytes \in 1 .. 8
           /\ cfg.DataBytes \in 1 .. 8
           /\ cfg.LengthBytes \in 1 .. 2
           /\ cfg.LengthTypeMax \in Nat
           /\ cfg.CrcBytes \in 1 .. 4
           /\ cfg.MaxMessageSize \in Nat
           /\ cfg.MaxMessageSize >= 32
<1>1. cfg.AddressBytes \in 1 .. 8 /\ cfg.DataBytes \in 1 .. 8
  BY DEF Configs
<1>2. cfg.LengthBytes \in 1 .. 2 /\ cfg.CrcBytes \in 1 .. 4
  BY DEF Configs
<1>3. cfg.LengthTypeMax \in {255, 65535}
  BY DEF Configs
<1>4. cfg.MaxMessageSize \in Nat /\ cfg.MaxMessageSize >= 32
  BY DEF Configs, minimum_max_message_size
<1> QED
  BY <1>1, <1>2, <1>3, <1>4

\* The least message size of a Serdes holds every message of a fixed size, so
\* no limit is computed from a wrapped subtraction.
THEOREM MinimumIsEnough ==
    ASSUME NEW cfg \in Configs
    PROVE  OverheadFits(cfg)
<1>1. \A type \in CmdTypes : ~TooLarge(cfg, CommandSize(cfg, type, 0))
  BY ConfigTypes DEF CmdTypes, TooLarge, CommandSize, WireSize
<1>2. \A type \in CmdTypes : ~TooLarge(cfg, AckSize(cfg, type, 0))
  BY ConfigTypes DEF CmdTypes, TooLarge, AckSize, WireSize
<1>3. ~NakRefused(cfg)
  BY ConfigTypes DEF NakRefused, NakSize, TooLarge, WireSize
<1> QED
  BY <1>1, <1>2, <1>3 DEF OverheadFits
\* A counted number of data fields that passes the limit of a read also fits
\* in the ACK; the limits are never larger than what LengthType can count.
LEMMA ReadLimitFits ==
    ASSUME NEW cfg \in Configs, NEW n \in Nat,
           NEW type \in {"ReadSeq", "ReadComp"}, n <= CountLimit(cfg, type)
    PROVE  ~TooLarge(cfg, AckSize(cfg, type, n))
<1> DEFINE overhead == WireSize(cfg, 0, 0, 1)
           room == cfg.MaxMessageSize - overhead
<1>1. overhead = 2 + cfg.LengthBytes + cfg.CrcBytes
  BY ConfigTypes DEF WireSize
<1>2. room \in Nat /\ cfg.DataBytes \in 1 .. 16
  BY <1>1, ConfigTypes
<1>3. cfg.AddressBytes \in 1 .. 16
  BY ConfigTypes
<1>4. room \div cfg.DataBytes \in Int /\ room \div cfg.AddressBytes \in Int
  BY <1>2, <1>3
<1>5. n <= room \div cfg.DataBytes
  BY <1>4, ConfigTypes
     DEF CountLimit, getMaxSeqReadCount, getMaxCompReadCount, SmallerOf, RoomFor
<1>6. n * cfg.DataBytes <= room
  <2> HIDE DEF room
  <2> QED
    BY <1>2, <1>5, QuotientFits
<1>7. AckSize(cfg, type, n) = overhead + n * cfg.DataBytes
  <2>1. n * cfg.DataBytes \in Int
    BY ConfigTypes
  <2> QED
    BY <1>1, <2>1, ConfigTypes DEF AckSize, WireSize
<1>8. n * cfg.DataBytes \in Int
  BY ConfigTypes
<1> QED
  BY <1>1, <1>6, <1>7, <1>8, ConfigTypes DEF TooLarge

\* The server can encode an answer to every command the client could encode.
THEOREM AcceptedIsAnswered ==
    ASSUME NEW cfg \in Configs, NEW type \in CmdTypes, NEW n \in Nat
    PROVE  AcceptedIsAnswerable(cfg, type, n)
<1> SUFFICES ASSUME ~CommandRefused(cfg, type, n)
             PROVE  ~AckRefused(cfg, type, n) /\ ~NakRefused(cfg)
  BY DEF AcceptedIsAnswerable
<1>1. ~NakRefused(cfg)
  BY MinimumIsEnough DEF OverheadFits
<1>2. CASE type \in {"ReadSeq", "ReadComp"}
  <2>1. ~(n > CountLimit(cfg, type))
    BY <1>2 DEF CommandRefused, CountedTypes
  <2>2. CountLimit(cfg, type) \in Int
    BY <1>2, ConfigTypes
       DEF CountLimit, getMaxSeqReadCount, getMaxCompReadCount, SmallerOf,
           RoomFor, WireSize
  <2>3. ~TooLarge(cfg, AckSize(cfg, type, n))
    BY <1>2, <2>1, <2>2, ReadLimitFits
  <2> QED
    BY <1>1, <2>1, <2>3 DEF AckRefused
<1>3. CASE type \notin {"ReadSeq", "ReadComp"}
  <2>1. AckSize(cfg, type, n) = AckSize(cfg, type, 0)
    BY <1>3 DEF AckSize
  <2>2. ~TooLarge(cfg, AckSize(cfg, type, 0))
    BY MinimumIsEnough DEF OverheadFits
  <2> QED
    BY <1>1, <1>3, <2>1, <2>2 DEF AckRefused
<1> QED
  BY <1>2, <1>3
\* What is left of an accepted command by a narrow length field can be answered
\* as well.
LEMMA FewerAreAnswerable ==
    ASSUME NEW cfg \in Configs, NEW type \in CmdTypes, NEW n \in Nat,
           ~CommandRefused(cfg, type, n), NEW m \in 0 .. n
    PROVE  ~AckRefused(cfg, type, m)
<1>1. CASE type \in {"ReadSeq", "ReadComp"}
  <2>1. ~(n > CountLimit(cfg, type))
    BY <1>1 DEF CommandRefused, CountedTypes
  <2>2. CountLimit(cfg, type) \in Int
    BY <1>1, ConfigTypes
       DEF CountLimit, getMaxSeqReadCount, getMaxCompReadCount, SmallerOf,
           RoomFor, WireSize
  <2>3. m \in Nat /\ m <= CountLimit(cfg, type)
    BY <2>1, <2>2
  <2>4. ~TooLarge(cfg, AckSize(cfg, type, m))
    BY <1>1, <2>3, ReadLimitFits
  <2> QED
    BY <2>2, <2>3, <2>4 DEF AckRefused
<1>2. CASE type \notin {"ReadSeq", "ReadComp"}
  <2>1. AckSize(cfg, type, m) = AckSize(cfg, type, n)
    BY <1>2 DEF AckSize
  <2>2. ~AckRefused(cfg, type, n)
    BY AcceptedIsAnswered DEF AcceptedIsAnswerable
  <2> QED
    BY <1>2, <2>1, <2>2 DEF AckRefused
<1> QED
  BY <1>1, <1>2

LEMMA CountCarriedType ==
    ASSUME NEW cfg \in Configs, NEW n \in Nat
    PROVE  CountCarried(cfg, n) \in 0 .. n
<1>1. CASE cfg.LengthBytes = 1
  <2>1. n % 256 \in 0 .. n
    BY SMTT(20)
  <2> QED
    BY <1>1, <2>1 DEF CountCarried
<1>2. CASE cfg.LengthBytes # 1
  <2>1. n % 65536 \in 0 .. n
    BY SMTT(20)
  <2> QED
    BY <1>2, <2>1 DEF CountCarried
<1> QED
  BY <1>1, <1>2

LEMMA Distributes ==
    ASSUME NEW n \in Nat, NEW v \in 1 .. 8, NEW w \in 1 .. 8
    PROVE  n * (v + w) = n * v + n * w
<1>1. v \in {1, 2, 3, 4, 5, 6, 7, 8}
  OBVIOUS
<1> QED
  BY <1>1

LEMMA RoomForType ==
    ASSUME NEW cfg \in Configs, NEW w \in 1 .. 16, NEW overhead \in 0 .. 32
    PROVE  RoomFor(cfg, w, overhead) \in Int
<1> DEFINE room == cfg.MaxMessageSize - overhead
<1>1. room \in Int
  BY ConfigTypes
<1>2. room \div w \in Int
  BY <1>1
<1> QED
  BY <1>2 DEF RoomFor

\* A count beyond the room left by an overhead makes the message too large.
LEMMA BeyondRoom ==
    ASSUME NEW cfg \in Configs, NEW n \in Nat, NEW w \in 1 .. 16,
           NEW overhead \in 0 .. 32, n > RoomFor(cfg, w, overhead)
    PROVE  overhead + n * w > cfg.MaxMessageSize
<1> DEFINE room == cfg.MaxMessageSize - overhead
<1>1. room \in Nat
  BY ConfigTypes
<1>2. n > room \div w
  BY DEF RoomFor
<1> HIDE DEF room
<1>3. n * w > room
  BY <1>1, <1>2, MoreThanQuotient
<1>4. n * w \in Int
  OBVIOUS
<1> QED
  BY <1>3, <1>4, ConfigTypes DEF room

\* No command is refused that would have fitted.
THEOREM RefusalIsExact ==
    ASSUME NEW cfg \in Configs, NEW type \in CmdTypes, NEW n \in Nat
    PROVE  RefusedOnlyWhenTooLarge(cfg, type, n)
<1> DEFINE A == cfg.AddressBytes
           D == cfg.DataBytes
           L == cfg.LengthBytes
           C == cfg.CrcBytes
<1> SUFFICES ASSUME type \in CountedTypes, n > CountLimit(cfg, type),
                    n <= cfg.LengthTypeMax
             PROVE  \/ TooLarge(cfg, CommandSize(cfg, type, n))
                    \/ TooLarge(cfg, AckSize(cfg, type, n))
  BY ConfigTypes DEF RefusedOnlyWhenTooLarge, CommandRefused
<1>1. /\ A \in 1 .. 16 /\ D \in 1 .. 16 /\ A + D \in 1 .. 16
      /\ A \in 1 .. 8 /\ D \in 1 .. 8 /\ L \in 1 .. 2 /\ C \in 1 .. 4
      /\ cfg.MaxMessageSize \in Nat
  BY ConfigTypes
<1>2. n * A \in Int /\ n * D \in Int /\ n * (A + D) \in Int
  BY <1>1
<1>3. /\ WireSize(cfg, 0, 0, 1) = 2 + L + C
      /\ WireSize(cfg, 1, 0, 2) = 2 + A + 2 * L + C
      /\ 2 + L + C \in 0 .. 32 /\ 2 + A + 2 * L + C \in 0 .. 32
  BY <1>1 DEF WireSize
<1>room. ASSUME NEW w \in 1 .. 16
      PROVE  /\ RoomFor(cfg, w, 2 + L + C) \in Int
             /\ RoomFor(cfg, w, 2 + A + 2 * L + C) \in Int
  BY <1>3, RoomForType
<1>4. CASE type = "ReadSeq"
  <2>1. n > RoomFor(cfg, D, 2 + L + C)
    BY <1>1, <1>3, <1>room, <1>4, ConfigTypes
       DEF CountLimit, getMaxSeqReadCount, SmallerOf
  <2>2. 2 + L + C + n * D > cfg.MaxMessageSize
    BY <1>1, <1>3, <2>1, BeyondRoom
  <2>3. AckSize(cfg, type, n) = 2 + L + C + n * D
    BY <1>1, <1>2, <1>4 DEF AckSize, WireSize
  <2> QED
    BY <2>2, <2>3 DEF TooLarge
<1>5. CASE type = "WriteSeq"
  <2>1. n > RoomFor(cfg, D, 2 + A + 2 * L + C)
    BY <1>1, <1>3, <1>room, <1>5, ConfigTypes
       DEF CountLimit, getMaxSeqWriteCount, SmallerOf
  <2>2. 2 + A + 2 * L + C + n * D > cfg.MaxMessageSize
    BY <1>1, <1>3, <2>1, BeyondRoom
  <2>3. CommandSize(cfg, type, n) = 2 + A + 2 * L + C + n * D
    BY <1>1, <1>2, <1>5 DEF CommandSize, WireSize
  <2> QED
    BY <2>2, <2>3 DEF TooLarge
<1>6. CASE type = "ReadComp"
  <2>1. \/ n > RoomFor(cfg, A, 2 + L + C)
        \/ n > RoomFor(cfg, D, 2 + L + C)
    BY <1>1, <1>3, <1>room, <1>6, ConfigTypes
       DEF CountLimit, getMaxCompReadCount, SmallerOf
  <2>2. \/ 2 + L + C + n * A > cfg.MaxMessageSize
        \/ 2 + L + C + n * D > cfg.MaxMessageSize
    BY <1>1, <1>3, <2>1, BeyondRoom
  <2>3. /\ CommandSize(cfg, type, n) = 2 + L + C + n * A
        /\ AckSize(cfg, type, n) = 2 + L + C + n * D
    BY <1>1, <1>2, <1>6 DEF CommandSize, AckSize, WireSize
  <2> QED
    BY <2>2, <2>3 DEF TooLarge
<1>7. CASE type = "WriteComp"
  <2>1. n > RoomFor(cfg, A + D, 2 + L + C)
    BY <1>1, <1>3, <1>room, <1>7, ConfigTypes
       DEF CountLimit, getMaxCompWriteCount, SmallerOf
  <2>2. 2 + L + C + n * (A + D) > cfg.MaxMessageSize
    BY <1>1, <1>3, <2>1, BeyondRoom
  <2>3. n * (A + D) = n * A + n * D
    BY <1>1, Distributes
  <2>4. CommandSize(cfg, type, n) = 2 + L + C + n * (A + D)
    BY <1>1, <1>2, <1>7, <2>3 DEF CommandSize, WireSize
  <2> QED
    BY <2>2, <2>4 DEF TooLarge
<1> QED
  BY <1>4, <1>5, <1>6, <1>7 DEF CountedTypes
=============================================================================
