---------------------------- MODULE SerdesProofs ----------------------------
(***************************************************************************)
(* Theorems about Serdes, for any configurations, transaction ids, values  *)
(* and counts: what is encoded is as long as calculated and can be         *)
(* answered, what is decoded is what the bytes say, and what is encoded is *)
(* decoded to the same message.                                            *)
(*                                                                         *)
(* A message is cut into pieces of its bytes. The lemmas say where the     *)
(* pieces begin and end, that reading a piece and writing what was read    *)
(* gives its bytes, and that writing values and reading them gives the     *)
(* values, cut to the width of their fields.                               *)
(***************************************************************************)
EXTENDS Serdes, SerdesSizeProofs, SequenceTheorems

-----------------------------------------------------------------------------
(* Flattened sequences.                                                     *)

\* f[i] is the first i members of s put together.
IsFlattening(f, s, n) ==
    f = [i \in 1 .. n |-> IF i = 1 THEN s[i] ELSE f[i - 1] \o s[i]]

\* The function that FlattenSeq is defined by exists.
LEMMA FlatteningExists ==
    ASSUME NEW T, NEW s \in Seq(Seq(T)), s # <<>>
    PROVE  \E f \in [1 .. Len(s) -> Seq(T)] : IsFlattening(f, s, Len(s))
<1> DEFINE Has(n) == \E f \in [1 .. n -> Seq(T)] : IsFlattening(f, s, n)
           S == {n \in Nat : n + 1 <= Len(s) => Has(n + 1)}
<1>1. Len(s) \in Nat /\ Len(s) # 0 /\ \A i \in 1 .. Len(s) : s[i] \in Seq(T)
  OBVIOUS
<1>2. 0 \in S
  <2> SUFFICES Has(1)
    OBVIOUS
  <2> DEFINE g == [i \in 1 .. 1 |-> s[i]]
  <2>1. g \in [1 .. 1 -> Seq(T)] /\ \A i \in 1 .. 1 : i = 1
    BY <1>1
  <2>2. IsFlattening(g, s, 1)
    BY <2>1 DEF IsFlattening
  <2> HIDE DEF g
  <2> QED
    BY <2>1, <2>2
<1>3. ASSUME NEW n \in Nat, n \in S
      PROVE  n + 1 \in S
  <2> SUFFICES ASSUME n + 2 <= Len(s) PROVE Has(n + 2)
    OBVIOUS
  <2>1. PICK f \in [1 .. n + 1 -> Seq(T)] : IsFlattening(f, s, n + 1)
    BY <1>1, <1>3
  <2> DEFINE g == [i \in 1 .. n + 2 |-> IF i = n + 2 THEN f[n + 1] \o s[i] ELSE f[i]]
  <2>2. f[n + 1] \o s[n + 2] \in Seq(T)
    <3>1. f[n + 1] \in Seq(T) /\ s[n + 2] \in Seq(T)
      BY <1>1
    <3> QED
      BY <3>1
  <2>3. g \in [1 .. n + 2 -> Seq(T)]
    BY <2>2
  <2>4. ASSUME NEW i \in 1 .. n + 2
        PROVE  g[i] = IF i = 1 THEN s[i] ELSE g[i - 1] \o s[i]
    <3>1. CASE i = n + 2
      <4>1. i # 1 /\ i - 1 = n + 1 /\ n + 1 \in 1 .. n + 2 /\ n + 1 # n + 2
        BY <3>1
      <4>2. g[n + 1] = f[n + 1]
        BY <4>1
      <4>3. g[i] = f[n + 1] \o s[i]
        BY <3>1
      <4> QED
        BY <4>1, <4>2, <4>3
    <3>2. CASE i # n + 2
      <4>1. i \in 1 .. n + 1 /\ g[i] = f[i]
        BY <3>2
      <4>2. i # 1 => i - 1 \in 1 .. n + 1 /\ g[i - 1] = f[i - 1]
        BY <4>1
      <4>3. f[i] = IF i = 1 THEN s[i] ELSE f[i - 1] \o s[i]
        BY <2>1, <4>1 DEF IsFlattening
      <4> QED
        BY <4>1, <4>2, <4>3
    <3> QED
      BY <3>1, <3>2
  <2>5. IsFlattening(g, s, n + 2)
    <3> HIDE DEF g
    <3> QED
      BY <2>3, <2>4 DEF IsFlattening
  <2> HIDE DEF g
  <2> QED
    BY <2>3, <2>5
<1> HIDE DEF S
<1>4. Nat \subseteq S
  BY <1>2, <1>3, NatSetInduction
<1>5. Len(s) - 1 \in Nat /\ Len(s) - 1 + 1 = Len(s)
  BY <1>1
<1>6. Len(s) - 1 \in S
  BY <1>4, <1>5
<1> QED
  BY <1>5, <1>6 DEF S

\* What FlattenSeq goes through.
LEMMA Flattening ==
    ASSUME NEW T, NEW s \in Seq(Seq(T)), s # <<>>
    PROVE  \E f \in [1 .. Len(s) -> Seq(T)] :
              /\ f[1] = s[1]
              /\ \A i \in 2 .. Len(s) : f[i] = f[i - 1] \o s[i]
              /\ FlattenSeq(s) = f[Len(s)]
<1>1. Len(s) # 0 /\ Len(s) \in Nat
  OBVIOUS
<1>2. FlattenSeq(s) =
        LET f[i \in 1 .. Len(s)] == IF i = 1 THEN s[i] ELSE f[i - 1] \o s[i]
        IN  f[Len(s)]
  BY <1>1, Zenon DEF FlattenSeq
<1>3. \E f : f = [i \in 1 .. Len(s) |-> IF i = 1 THEN s[i] ELSE f[i - 1] \o s[i]]
  <2>1. PICK f \in [1 .. Len(s) -> Seq(T)] : IsFlattening(f, s, Len(s))
    BY FlatteningExists
  <2> QED
    BY <2>1, Zenon DEF IsFlattening
<1> DEFINE f[i \in 1 .. Len(s)] == IF i = 1 THEN s[i] ELSE f[i - 1] \o s[i]
<1>4. FlattenSeq(s) = f[Len(s)]
  BY <1>2, Zenon
<1>5. f = [i \in 1 .. Len(s) |-> IF i = 1 THEN s[i] ELSE f[i - 1] \o s[i]]
  BY <1>3, Zenon
<1> HIDE DEF f
<1>6. f[1] = s[1] /\ \A i \in 2 .. Len(s) : f[i] = f[i - 1] \o s[i]
  <2>1. f[1] = s[1]
    <3>1. 1 \in 1 .. Len(s)
      BY <1>1
    <3> QED
      BY <1>5, <3>1
  <2>2. ASSUME NEW i \in 2 .. Len(s)
        PROVE  f[i] = f[i - 1] \o s[i]
    <3>1. i \in 1 .. Len(s) /\ i # 1
      BY <1>1
    <3> QED
      BY <1>5, <3>1
  <2> QED
    BY <2>1, <2>2
<1> DEFINE S == {n \in Nat : n + 1 <= Len(s) => f[n + 1] \in Seq(T)}
<1>7. Nat \subseteq S
  <2>1. 0 \in S
    <3>1. s[1] \in Seq(T)
      BY <1>1
    <3> QED
      BY <1>6, <3>1
  <2>2. ASSUME NEW n \in Nat, n \in S
        PROVE  n + 1 \in S
    <3> SUFFICES ASSUME n + 2 <= Len(s) PROVE f[n + 2] \in Seq(T)
      OBVIOUS
    <3>1. PICK i \in 2 .. Len(s) : i = n + 2 /\ i - 1 = n + 1 /\ i \in 1 .. Len(s)
      BY <1>1
    <3>2. f[i - 1] \in Seq(T) /\ s[i] \in Seq(T)
      BY <1>1, <2>2, <3>1
    <3>3. f[i] = f[i - 1] \o s[i]
      BY <1>6
    <3> QED
      BY <3>1, <3>2, <3>3
  <2> HIDE DEF S
  <2> QED
    BY <2>1, <2>2, NatSetInduction
<1>8. f \in [1 .. Len(s) -> Seq(T)]
  <2>1. ASSUME NEW i \in 1 .. Len(s)
        PROVE  f[i] \in Seq(T)
    <3>1. i - 1 \in Nat /\ i - 1 + 1 = i /\ i <= Len(s)
      BY <1>1
    <3> QED
      BY <1>7, <3>1
  <2>2. DOMAIN f = 1 .. Len(s) /\ f = [i \in 1 .. Len(s) |-> f[i]]
    BY <1>5
  <2> QED
    BY <2>1, <2>2
<1> QED
  BY <1>4, <1>6, <1>8

\* Short sequences.
LEMMA FlattenShort ==
    ASSUME NEW T, NEW s \in Seq(Seq(T)), Len(s) \in {0, 1, 2, 3}
    PROVE  /\ FlattenSeq(s) \in Seq(T)
           /\ Len(s) = 0 => Len(FlattenSeq(s)) = 0
           /\ Len(s) = 1 => Len(FlattenSeq(s)) = Len(s[1])
           /\ Len(s) = 2 => Len(FlattenSeq(s)) = Len(s[1]) + Len(s[2])
           /\ Len(s) = 3 => Len(FlattenSeq(s)) = Len(s[1]) + Len(s[2]) + Len(s[3])
<1>1. \A i \in 1 .. Len(s) : s[i] \in Seq(T) /\ Len(s[i]) \in Nat
  <2>1. \A i \in 1 .. Len(s) : s[i] \in Seq(T)
    OBVIOUS
  <2> QED
    BY <2>1
<1>2. CASE Len(s) = 0
  <2>1. FlattenSeq(s) = s /\ s = <<>>
    BY <1>2 DEF FlattenSeq
  <2> QED
    BY <1>2, <2>1
<1>3. CASE Len(s) # 0
  <2>1. s # <<>>
    BY <1>3
  <2>2. PICK f \in [1 .. Len(s) -> Seq(T)] :
           /\ f[1] = s[1]
           /\ \A i \in 2 .. Len(s) : f[i] = f[i - 1] \o s[i]
           /\ FlattenSeq(s) = f[Len(s)]
    BY <2>1, Flattening
  <2>3. CASE Len(s) = 1
    BY <1>1, <2>2, <2>3
  <2>4. Len(s) >= 2 => /\ s[1] \in Seq(T) /\ s[2] \in Seq(T)
                       /\ f[2] = s[1] \o s[2]
    <3> SUFFICES ASSUME Len(s) >= 2
                 PROVE  s[1] \in Seq(T) /\ s[2] \in Seq(T) /\ f[2] = s[1] \o s[2]
      OBVIOUS
    <3>1. 2 \in 2 .. Len(s) /\ 2 - 1 = 1 /\ 1 \in 1 .. Len(s) /\ 2 \in 1 .. Len(s)
      BY <1>1
    <3> QED
      BY <1>1, <2>2, <3>1
  <2>5. CASE Len(s) = 2
    <3>1. FlattenSeq(s) = s[1] \o s[2] /\ s[1] \in Seq(T) /\ s[2] \in Seq(T)
      BY <2>2, <2>4, <2>5
    <3>2. Len(s[1] \o s[2]) = Len(s[1]) + Len(s[2]) /\ s[1] \o s[2] \in Seq(T)
      BY <3>1
    <3> QED
      BY <1>1, <2>5, <3>1, <3>2
  <2>6. CASE Len(s) = 3
    <3>1. /\ s[1] \in Seq(T) /\ s[2] \in Seq(T) /\ s[3] \in Seq(T)
          /\ f[2] = s[1] \o s[2]
      BY <1>1, <2>4, <2>6
    <3>2. FlattenSeq(s) = f[2] \o s[3]
      <4>1. 3 \in 2 .. Len(s) /\ 3 - 1 = 2
        BY <2>6
      <4> QED
        BY <2>2, <2>6, <4>1
    <3>3. f[2] \in Seq(T) /\ Len(f[2]) = Len(s[1]) + Len(s[2])
      BY <3>1
    <3>4. f[2] \o s[3] \in Seq(T) /\ Len(f[2] \o s[3]) = Len(f[2]) + Len(s[3])
      BY <3>1, <3>3
    <3>5. Len(FlattenSeq(s)) = Len(s[1]) + Len(s[2]) + Len(s[3])
      BY <3>2, <3>3, <3>4
    <3>6. FlattenSeq(s) \in Seq(T)
      BY <3>2, <3>4
    <3>7. Len(s) # 0 /\ Len(s) # 1 /\ Len(s) # 2
      BY <2>6
    <3> QED
      BY <3>5, <3>6, <3>7, Zenon
  <2> QED
    BY <1>1, <1>3, <2>3, <2>5, <2>6
<1> QED
  BY <1>2, <1>3

\* Any number of members of the same length.
LEMMA FlattenEqual ==
    ASSUME NEW T, NEW s \in Seq(Seq(T)), NEW w \in Nat,
           \A i \in 1 .. Len(s) : Len(s[i]) = w
    PROVE  FlattenSeq(s) \in Seq(T) /\ Len(FlattenSeq(s)) = Len(s) * w
<1>1. Len(s) \in Nat /\ \A i \in 1 .. Len(s) : s[i] \in Seq(T)
  OBVIOUS
<1>2. CASE Len(s) = 0
  <2>1. FlattenSeq(s) = s /\ s = <<>> /\ 0 * w = 0
    BY <1>2 DEF FlattenSeq
  <2> QED
    BY <1>2, <2>1
<1>3. CASE Len(s) # 0
  <2>1. s # <<>>
    BY <1>3
  <2>2. PICK f \in [1 .. Len(s) -> Seq(T)] :
           /\ f[1] = s[1]
           /\ \A i \in 2 .. Len(s) : f[i] = f[i - 1] \o s[i]
           /\ FlattenSeq(s) = f[Len(s)]
    BY <2>1, Flattening
  <2> DEFINE S == {n \in Nat : n + 1 <= Len(s) => Len(f[n + 1]) = (n + 1) * w}
  <2>3. 0 \in S
    <3>1. 1 \in 1 .. Len(s) /\ (0 + 1) * w = w
      BY <1>1, <1>3
    <3> QED
      BY <2>2, <3>1
  <2>4. ASSUME NEW n \in Nat, n \in S
        PROVE  n + 1 \in S
    <3> SUFFICES ASSUME n + 2 <= Len(s) PROVE Len(f[n + 2]) = (n + 2) * w
      OBVIOUS
    <3>1. PICK i \in 2 .. Len(s) :
             i = n + 2 /\ i - 1 = n + 1 /\ i \in 1 .. Len(s) /\ i - 1 \in 1 .. Len(s)
      BY <1>1
    <3>2. f[i - 1] \in Seq(T) /\ s[i] \in Seq(T) /\ f[i] = f[i - 1] \o s[i]
      BY <1>1, <2>2, <3>1
    <3>3. Len(f[i]) = Len(f[i - 1]) + Len(s[i])
      BY <3>2
    <3>4. Len(f[i - 1]) = (n + 1) * w /\ Len(s[i]) = w
      BY <1>1, <2>4, <3>1
    <3>5. (n + 1) * w + w = (n + 2) * w
      OBVIOUS
    <3> QED
      BY <3>1, <3>3, <3>4, <3>5
  <2> HIDE DEF S
  <2>5. Nat \subseteq S
    BY <2>3, <2>4, NatSetInduction
  <2>6. Len(s) - 1 \in S /\ Len(s) - 1 + 1 = Len(s)
    BY <1>1, <1>3, <2>5
  <2>7. Len(f[Len(s)]) = Len(s) * w
    BY <1>1, <2>6 DEF S
  <2>8. Len(s) \in 1 .. Len(s)
    BY <1>1, <1>3
  <2>9. f[Len(s)] \in Seq(T)
    BY <2>2, <2>8, Zenon
  <2> QED
    BY <2>2, <2>7, <2>9, Zenon
<1> QED
  BY <1>1, <1>2, <1>3

-----------------------------------------------------------------------------
(* Bytes and numbers.                                                       *)

\* f starts with a and goes on by h.
Recursive(f, a, h, n) ==
    f[0] = a /\ \A i \in 1 .. n : f[i] = h[<<f[i - 1], i>>]

\* A function by recursion over the numbers up to n.
LEMMA Recursion ==
    ASSUME NEW T, NEW a \in T, NEW n \in Nat, NEW h \in [T \X (1 .. n) -> T]
    PROVE  \E f \in [0 .. n -> T] : Recursive(f, a, h, n)
<1> DEFINE Up(f, k) == /\ f \in [0 .. k -> T] /\ f[0] = a
                       /\ \A i \in 1 .. k : f[i] = h[<<f[i - 1], i>>]
           S == {k \in Nat : k <= n => \E f : Up(f, k)}
<1>1. 0 \in S
  <2> DEFINE f == [i \in 0 .. 0 |-> a]
  <2>1. Up(f, 0)
    OBVIOUS
  <2> QED
    BY <2>1
<1>2. ASSUME NEW k \in Nat, k \in S
      PROVE  k + 1 \in S
  <2> SUFFICES ASSUME k + 1 <= n PROVE \E f : Up(f, k + 1)
    OBVIOUS
  <2>1. PICK f : Up(f, k)
    BY <1>2
  <2> DEFINE g == [i \in 0 .. k + 1 |-> IF i = k + 1 THEN h[<<f[k], k + 1>>] ELSE f[i]]
  <2>2. h[<<f[k], k + 1>>] \in T
    <3>1. <<f[k], k + 1>> \in T \X (1 .. n)
      BY <2>1
    <3> QED
      BY <3>1
  <2>3. g \in [0 .. k + 1 -> T] /\ g[0] = a
    BY <2>1, <2>2
  <2>6. g[k + 1] = h[<<f[k], k + 1>>]
    OBVIOUS
  <2>7. ASSUME NEW i \in 0 .. k
        PROVE  g[i] = f[i]
    <3>1. i \in 0 .. k + 1 /\ i # k + 1
      OBVIOUS
    <3> QED
      BY <3>1
  <2> HIDE DEF g
  <2>4. ASSUME NEW i \in 1 .. k + 1
        PROVE  g[i] = h[<<g[i - 1], i>>]
    <3>1. g[i - 1] = f[i - 1]
      <4>1. i - 1 \in 0 .. k
        OBVIOUS
      <4> QED
        BY <2>7, <4>1
    <3>2. CASE i = k + 1
      <4>1. i - 1 = k
        BY <3>2
      <4> QED
        BY <2>6, <3>1, <3>2, <4>1
    <3>3. CASE i # k + 1
      <4>1. i \in 1 .. k /\ i \in 0 .. k
        BY <3>3
      <4>2. g[i] = f[i] /\ f[i] = h[<<f[i - 1], i>>]
        BY <2>1, <2>7, <4>1
      <4> QED
        BY <3>1, <4>2
    <3> QED
      BY <3>2, <3>3
  <2>5. Up(g, k + 1)
    BY <2>3, <2>4
  <2> QED
    BY <2>5
<1> HIDE DEF S
<1>3. Nat \subseteq S
  BY <1>1, <1>2, NatSetInduction
<1>4. n \in S /\ n <= n
  BY <1>3
<1>5. \E f : Up(f, n)
  BY <1>4 DEF S
<1> QED
  BY <1>5 DEF Recursive

\* A byte is a number.
LEMMA BytesAreNumbers == Byte \subseteq Nat
BY DEF Byte

\* What is left of a number and the byte that is taken from it.
LEMMA Shifting ==
    ASSUME NEW v \in Nat
    PROVE  /\ v \div 256 \in Nat
           /\ v % 256 \in Byte
           /\ v = 256 * (v \div 256) + (v % 256)
BY SMT DEF Byte

\* f[i] is what is left of v when i bytes are written.
Shifts(f, v, w) ==
    /\ f \in [0 .. w -> Nat]
    /\ f[0] = v /\ \A i \in 1 .. w : f[i] = f[i - 1] \div 256

LowBytes(f, w) == [i \in 1 .. w |-> f[i - 1] % 256]

\* The number v is written as the low bytes of what is left of it, step by step.
IsWritten(c, kind, v, w) ==
    \E f : Shifts(f, v, w) /\ FieldBytes(c, kind, v) = LowBytes(f, w)

\* What the append functions go through.
LEMMA FieldBytesIs ==
    ASSUME NEW c, NEW kind, NEW v \in Nat, NEW w \in Nat, w = Width(c, kind)
    PROVE  IsWritten(c, kind, v, w)
<1> USE DEF IsWritten
<1> DEFINE Is(f) == f = [i \in 0 .. w |-> IF i = 0 THEN v ELSE f[i - 1] \div 256]
<1>1. \E f : Is(f)
  <2> DEFINE h == [p \in Nat \X (1 .. w) |-> p[1] \div 256]
  <2>1. h \in [Nat \X (1 .. w) -> Nat]
    BY Shifting
  <2> HIDE DEF h
  <2>0. PICK f \in [0 .. w -> Nat] : Recursive(f, v, h, w)
    BY <2>1, Recursion
  <2>2. f[0] = v /\ \A i \in 1 .. w : f[i] = h[<<f[i - 1], i>>]
    BY <2>0 DEF Recursive
  <2>3. ASSUME NEW i \in 0 .. w
        PROVE  f[i] = IF i = 0 THEN v ELSE f[i - 1] \div 256
    <3>1. CASE i = 0
      BY <2>2, <3>1
    <3>2. CASE i # 0
      <4>1. i \in 1 .. w /\ <<f[i - 1], i>> \in Nat \X (1 .. w)
        BY <3>2
      <4>2. h[<<f[i - 1], i>>] = f[i - 1] \div 256
        BY <4>1 DEF h
      <4> QED
        BY <2>2, <3>2, <4>1, <4>2
    <3> QED
      BY <3>1, <3>2
  <2>4. f = [i \in 0 .. w |-> f[i]]
    OBVIOUS
  <2>5. Is(f)
    BY <2>3, <2>4
  <2> QED
    BY <2>5
<1> DEFINE f[i \in 0 .. Width(c, kind)] == IF i = 0 THEN v ELSE f[i - 1] \div 256
<1>2. FieldBytes(c, kind, v) = [i \in 1 .. Width(c, kind) |-> f[i - 1] % 256]
  BY Zenon DEF FieldBytes
<1>3. Is(f)
  <2>1. \E g : g = [i \in 0 .. Width(c, kind) |-> IF i = 0 THEN v
                                                ELSE g[i - 1] \div 256]
    BY <1>1
  <2>2. f = [i \in 0 .. Width(c, kind) |-> IF i = 0 THEN v ELSE f[i - 1] \div 256]
    BY <2>1, Zenon
  <2> HIDE DEF f
  <2> QED
    BY <2>2
<1> HIDE DEF f
<1>4. f[0] = v /\ \A i \in 1 .. w : f[i] = f[i - 1] \div 256
  <2>1. 0 \in 0 .. w /\ \A i \in 1 .. w : i \in 0 .. w /\ i # 0
    OBVIOUS
  <2> QED
    BY <1>3, <2>1
<1> DEFINE S == {i \in Nat : i <= w => f[i] \in Nat}
<1>5. Nat \subseteq S
  <2>1. 0 \in S
    BY <1>4
  <2>2. ASSUME NEW i \in Nat, i \in S
        PROVE  i + 1 \in S
    <3> SUFFICES ASSUME i + 1 <= w PROVE f[i + 1] \in Nat
      OBVIOUS
    <3>1. f[i] \in Nat /\ i + 1 \in 1 .. w /\ i + 1 - 1 = i
      BY <2>2
    <3>2. f[i + 1] = f[i] \div 256
      BY <1>4, <3>1
    <3> QED
      BY <3>1, <3>2, Shifting
  <2> HIDE DEF S
  <2> QED
    BY <2>1, <2>2, NatSetInduction
<1>6. f \in [0 .. w -> Nat]
  <2>1. \A i \in 0 .. w : f[i] \in Nat
    BY <1>5
  <2>2. f = [i \in 0 .. w |-> f[i]]
    <3>1. \E g : f = [i \in 0 .. w |-> g[i]]
      <4>1. f = [i \in 0 .. w |-> [j \in 0 .. w |-> IF j = 0 THEN v ELSE f[j - 1] \div 256][i]]
        BY <1>3
      <4> QED
        BY <4>1
    <3> QED
      BY <3>1
  <2> QED
    BY <2>1, <2>2
<1>7. Shifts(f, v, w) /\ FieldBytes(c, kind, v) = LowBytes(f, w)
  BY <1>2, <1>4, <1>6 DEF Shifts, LowBytes
<1> QED
  BY <1>7

\* f[i] is what the last i of n bytes say.
Sums(f, bytes, n) ==
    /\ f \in [0 .. n -> Nat]
    /\ f[0] = 0 /\ \A i \in 1 .. n : f[i] = bytes[n + 1 - i] + 256 * f[i - 1]

\* The number that is read is what the bytes add up to.
IsRead(bytes, n) == \E f : Sums(f, bytes, n) /\ Number(bytes) = f[n]

\* What the extract functions go through.
LEMMA NumberIs ==
    ASSUME NEW bytes \in Seq(Byte), NEW n \in Nat, n = Len(bytes)
    PROVE  IsRead(bytes, n)
<1> USE DEF IsRead
<1>n. n = Len(bytes)
  OBVIOUS
<1> DEFINE Is(f) == f = [i \in 0 .. n |-> IF i = 0 THEN 0
                                          ELSE bytes[n + 1 - i] + 256 * f[i - 1]]
<1>0. ASSUME NEW i \in 1 .. n
      PROVE  n + 1 - i \in 1 .. n /\ bytes[n + 1 - i] \in Nat
  <2>1. n + 1 - i \in 1 .. n
    OBVIOUS
  <2>2. PICK j \in 1 .. n : j = n + 1 - i
    BY <2>1
  <2>3. bytes[j] \in Byte
    BY <1>n, <2>1
  <2>4. bytes[j] \in Nat
    BY <2>3, BytesAreNumbers
  <2> QED
    BY <2>1, <2>2, <2>4
<1>1. \E f : Is(f)
  <2> DEFINE h == [p \in Nat \X (1 .. n) |-> bytes[n + 1 - p[2]] + 256 * p[1]]
  <2>1. h \in [Nat \X (1 .. n) -> Nat]
    <3> SUFFICES ASSUME NEW p \in Nat \X (1 .. n)
                 PROVE  bytes[n + 1 - p[2]] + 256 * p[1] \in Nat
      OBVIOUS
    <3>1. p[1] \in Nat /\ p[2] \in 1 .. n
      OBVIOUS
    <3>2. PICK x \in Nat, b \in Nat : x = p[1] /\ b = bytes[n + 1 - p[2]]
      BY <1>0, <3>1
    <3>3. b + 256 * x \in Nat
      OBVIOUS
    <3> QED
      BY <3>2, <3>3, Zenon
  <2> HIDE DEF h
  <2>0. PICK f \in [0 .. n -> Nat] : Recursive(f, 0, h, n)
    <3>1. 0 \in Nat
      OBVIOUS
    <3> QED
      BY <1>0, <2>1, <3>1, Recursion
  <2>2. f[0] = 0 /\ \A i \in 1 .. n : f[i] = h[<<f[i - 1], i>>]
    BY <2>0 DEF Recursive
  <2>3. ASSUME NEW i \in 0 .. n
        PROVE  f[i] = IF i = 0 THEN 0 ELSE bytes[n + 1 - i] + 256 * f[i - 1]
    <3>1. CASE i = 0
      BY <2>2, <3>1
    <3>2. CASE i # 0
      <4>0. i \in 1 .. n /\ i - 1 \in 0 .. n
        BY <3>2
      <4>1. i \in 1 .. n /\ <<f[i - 1], i>> \in Nat \X (1 .. n)
        <5>1. f[i - 1] \in Nat
          BY <4>0
        <5> QED
          BY <4>0, <5>1
      <4>2. h[<<f[i - 1], i>>] = bytes[n + 1 - i] + 256 * f[i - 1]
        BY <4>1 DEF h
      <4> QED
        BY <2>2, <3>2, <4>1, <4>2
    <3> QED
      BY <3>1, <3>2
  <2>4. f = [i \in 0 .. n |-> f[i]]
    OBVIOUS
  <2>5. Is(f)
    BY <2>3, <2>4
  <2> QED
    BY <2>5
<1> DEFINE f[i \in 0 .. Len(bytes)] ==
             IF i = 0 THEN 0 ELSE bytes[Len(bytes) + 1 - i] + 256 * f[i - 1]
<1>2. Number(bytes) = f[Len(bytes)]
  BY Zenon DEF Number
<1>3. Is(f)
  <2>1. \E g : g = [i \in 0 .. Len(bytes) |-> IF i = 0 THEN 0
                       ELSE bytes[Len(bytes) + 1 - i] + 256 * g[i - 1]]
    BY <1>1, <1>n
  <2>2. f = [i \in 0 .. Len(bytes) |-> IF i = 0 THEN 0
                ELSE bytes[Len(bytes) + 1 - i] + 256 * f[i - 1]]
    BY <2>1, Zenon
  <2> HIDE DEF f
  <2> QED
    BY <1>n, <2>2
<1> HIDE DEF f
<1>4. f[0] = 0 /\ \A i \in 1 .. n : f[i] = bytes[n + 1 - i] + 256 * f[i - 1]
  <2>1. 0 \in 0 .. n /\ \A i \in 1 .. n : i \in 0 .. n /\ i # 0
    BY <1>0
  <2> QED
    BY <1>3, <2>1
<1> DEFINE S == {i \in Nat : i <= n => f[i] \in Nat}
<1>5. Nat \subseteq S
  <2>1. 0 \in S
    BY <1>4
  <2>2. ASSUME NEW i \in Nat, i \in S
        PROVE  i + 1 \in S
    <3> SUFFICES ASSUME i + 1 <= n PROVE f[i + 1] \in Nat
      OBVIOUS
    <3>1. f[i] \in Nat /\ i + 1 \in 1 .. n /\ i + 1 - 1 = i
      BY <1>0, <2>2
    <3>2. f[i + 1] = bytes[n + 1 - (i + 1)] + 256 * f[i]
      BY <1>4, <3>1
    <3>3. bytes[n + 1 - (i + 1)] \in Nat
      BY <1>0, <3>1
    <3> QED
      BY <3>1, <3>2, <3>3
  <2> HIDE DEF S
  <2> QED
    BY <2>1, <2>2, NatSetInduction
<1>6. f \in [0 .. n -> Nat]
  <2>1. \A i \in 0 .. n : f[i] \in Nat
    BY <1>0, <1>5
  <2>2. f = [i \in 0 .. n |-> f[i]]
    <3>1. \E g : f = [i \in 0 .. n |-> g[i]]
      <4> DEFINE g == [j \in 0 .. n |->
                    IF j = 0 THEN 0 ELSE bytes[n + 1 - j] + 256 * f[j - 1]]
      <4>1. f = [i \in 0 .. n |-> g[i]]
        BY <1>3
      <4> HIDE DEF g
      <4> QED
        BY <4>1, Zenon
    <3> QED
      BY <3>1
  <2> QED
    BY <2>1, <2>2
<1> QED
  BY <1>2, <1>4, <1>6, <1>n DEF Sums

-----------------------------------------------------------------------------
(* The fields of a message.                                                 *)

Kinds == {"A", "D", "L"}

\* A field is one to eight bytes wide.
LEMMA WidthType ==
    ASSUME NEW c \in Configs, NEW kind \in Kinds
    PROVE  Width(c, kind) \in 1 .. 8
BY ConfigTypes DEF Width, Kinds

\* A field is written in as many bytes as it is wide.
LEMMA FieldBytesType ==
    ASSUME NEW c \in Configs, NEW kind \in Kinds, NEW v \in Nat
    PROVE  /\ FieldBytes(c, kind, v) \in Seq(Byte)
           /\ Len(FieldBytes(c, kind, v)) = Width(c, kind)
<1>1. PICK w \in Nat : w = Width(c, kind)
  BY WidthType
<1>2. PICK f : Shifts(f, v, w) /\ FieldBytes(c, kind, v) = LowBytes(f, w)
  <2>1. IsWritten(c, kind, v, w)
    BY <1>1, FieldBytesIs
  <2> QED
    BY <2>1 DEF IsWritten
<1>3. ASSUME NEW i \in 1 .. w
      PROVE  f[i - 1] % 256 \in Byte
  <2>1. i - 1 \in 0 .. w
    OBVIOUS
  <2>2. f[i - 1] \in Nat
    BY <1>2, <2>1 DEF Shifts
  <2> QED
    BY <2>2, Shifting
<1>4. FieldBytes(c, kind, v) \in [1 .. w -> Byte]
  BY <1>2, <1>3 DEF LowBytes
<1> QED
  BY <1>1, <1>4

\* The fixed fields of a message and those of a row are three at most.
LEMMA FieldsBytesType ==
    ASSUME NEW c \in Configs, NEW kinds \in Seq(Kinds), Len(kinds) \in {0, 1, 2, 3},
           NEW values, \A i \in DOMAIN kinds : values[i] \in Nat
    PROVE  /\ FieldsBytes(c, kinds, values) \in Seq(Byte)
           /\ Len(kinds) = 0 => Len(FieldsBytes(c, kinds, values)) = 0
           /\ Len(kinds) = 1 =>
                Len(FieldsBytes(c, kinds, values)) = Width(c, kinds[1])
           /\ Len(kinds) = 2 =>
                Len(FieldsBytes(c, kinds, values))
                  = Width(c, kinds[1]) + Width(c, kinds[2])
           /\ Len(kinds) = 3 =>
                Len(FieldsBytes(c, kinds, values))
                  = Width(c, kinds[1]) + Width(c, kinds[2]) + Width(c, kinds[3])
<1> DEFINE s == [i \in DOMAIN kinds |-> FieldBytes(c, kinds[i], values[i])]
<1>1. DOMAIN kinds = 1 .. Len(kinds) /\ Len(kinds) \in Nat
      /\ \A i \in DOMAIN kinds : kinds[i] \in Kinds
  OBVIOUS
<1>2. \A i \in DOMAIN kinds : s[i] \in Seq(Byte) /\ Len(s[i]) = Width(c, kinds[i])
  BY <1>1, FieldBytesType
<1>3. s \in Seq(Seq(Byte)) /\ Len(s) = Len(kinds)
  <2>1. s \in [1 .. Len(kinds) -> Seq(Byte)]
    BY <1>1, <1>2
  <2> HIDE DEF s
  <2> QED
    BY <1>1, <2>1
<1>4. FieldsBytes(c, kinds, values) = FlattenSeq(s)
  BY DEF FieldsBytes
<1> HIDE DEF s
<1>5. Len(s) \in {0, 1, 2, 3}
  BY <1>3
<1>6. FieldsBytes(c, kinds, values) \in Seq(Byte)
  BY <1>3, <1>4, <1>5, FlattenShort
<1>7. /\ Len(s) = 0 => Len(FlattenSeq(s)) = 0
      /\ Len(s) = 1 => Len(FlattenSeq(s)) = Len(s[1])
      /\ Len(s) = 2 => Len(FlattenSeq(s)) = Len(s[1]) + Len(s[2])
      /\ Len(s) = 3 => Len(FlattenSeq(s)) = Len(s[1]) + Len(s[2]) + Len(s[3])
  BY <1>3, <1>5, FlattenShort
<1>8. /\ Len(kinds) = 1 => Len(s[1]) = Width(c, kinds[1])
      /\ Len(kinds) = 2 => /\ Len(s[1]) = Width(c, kinds[1])
                           /\ Len(s[2]) = Width(c, kinds[2])
      /\ Len(kinds) = 3 => /\ Len(s[1]) = Width(c, kinds[1])
                           /\ Len(s[2]) = Width(c, kinds[2])
                           /\ Len(s[3]) = Width(c, kinds[3])
  BY <1>1, <1>2
<1>9. Len(s) = Len(kinds)
  BY <1>3
<1> QED
  BY <1>4, <1>6, <1>7, <1>8, <1>9, Zenon

RowsBytes(c, kinds, rows) ==
    FlattenSeq([i \in DOMAIN rows |-> FieldsBytes(c, kinds, rows[i])])

\* Rows are all of the same width.
LEMMA RowsBytesType ==
    ASSUME NEW c \in Configs, NEW kinds, NEW rows, NEW n \in Nat, NEW w \in Nat,
           DOMAIN rows = 1 .. n,
           \A i \in 1 .. n : /\ FieldsBytes(c, kinds, rows[i]) \in Seq(Byte)
                             /\ Len(FieldsBytes(c, kinds, rows[i])) = w
    PROVE  /\ RowsBytes(c, kinds, rows) \in Seq(Byte)
           /\ Len(RowsBytes(c, kinds, rows)) = n * w
<1> DEFINE s == [i \in DOMAIN rows |-> FieldsBytes(c, kinds, rows[i])]
<1>1. s \in [1 .. n -> Seq(Byte)] /\ \A i \in 1 .. n : Len(s[i]) = w
  OBVIOUS
<1> HIDE DEF s
<1>2. s \in Seq(Seq(Byte)) /\ Len(s) = n
  BY <1>1
<1>3. \A i \in 1 .. Len(s) : Len(s[i]) = w
  BY <1>1, <1>2
<1>4. FlattenSeq(s) \in Seq(Byte) /\ Len(FlattenSeq(s)) = Len(s) * w
  BY <1>2, <1>3, FlattenEqual
<1> QED
  BY <1>2, <1>4 DEF s, RowsBytes

-----------------------------------------------------------------------------
(* The tables of the messages.                                              *)

\* A command and an ACK belong to an operation.
LEMMA RolesAndOps ==
    ASSUME NEW t \in Types
    PROVE  /\ Role(t) \in {"cmd", "ack", "nak", "interrupt"}
           /\ Role(t) \in {"cmd", "ack"} => Op(t) \in CmdTypes
BY DEF Types, Role, Op, MessageType, Entry, CmdTypes

\* The list of decodeCommand is that of the commands, and the list of
\* decodeResponse that of all other types.
LEMMA CasesAreSides ==
    /\ commandCases \subseteq Types /\ responseCases \subseteq Types
    /\ \A t \in Types : /\ t \in commandCases <=> Role(t) = "cmd"
                        /\ t \in responseCases <=> Role(t) # "cmd"
BY DEF commandCases, responseCases, Types, Role, MessageType, Entry

\* The code of a type is a byte.
LEMMA CodeType ==
    ASSUME NEW t \in Types
    PROVE  MessageType[t].code \in Byte
BY DEF Types, MessageType, Entry, Byte

\* Up to three kinds are a sequence of kinds.
LEMMA KindTuples ==
    /\ <<>> \in Seq(Kinds) /\ Len(<<>>) = 0
    /\ \A a \in Kinds :
          /\ <<a>> \in Seq(Kinds) /\ Len(<<a>>) = 1
          /\ \A b \in Kinds :
                /\ <<a, b>> \in Seq(Kinds) /\ Len(<<a, b>>) = 2
                /\ \A d \in Kinds :
                      <<a, b, d>> \in Seq(Kinds) /\ Len(<<a, b, d>>) = 3
OBVIOUS

\* The fixed fields of a type.
LEMMA FixedKinds ==
    ASSUME NEW t \in Types
    PROVE  Fixed(t) \in Seq(Kinds) /\ Len(Fixed(t)) \in {0, 1, 2, 3}
<1>1. /\ "A" \in Kinds /\ "D" \in Kinds /\ "L" \in Kinds
  BY DEF Kinds
<1>2. Fixed(t) \in {<<>>, <<"A">>, <<"A", "D">>, <<"A", "L", "L">>, <<"A", "L">>,
                   <<"A", "D", "D">>, <<"D">>}
  <2>1. CASE Role(t) = "cmd"
    <3>1. Fixed(t) = CommandFields[Op(t)] /\ Op(t) \in CmdTypes
      BY <2>1, RolesAndOps DEF Fixed
    <3> QED
      BY <3>1 DEF CommandFields, CmdTypes
  <2>2. CASE Role(t) = "ack"
    BY <2>2 DEF Fixed, AckFields
  <2>3. CASE Role(t) \in {"nak", "interrupt"}
    BY <2>3 DEF Fixed, StatusFields
  <2> QED
    BY <2>1, <2>2, <2>3, RolesAndOps
<1> QED
  BY <1>1, <1>2, KindTuples

\* The fields of a row of a counted type.
LEMMA RowKinds ==
    ASSUME NEW t \in Types, Counted(t)
    PROVE  Row(t) \in Seq(Kinds) /\ Len(Row(t)) \in {1, 2}
<1>1. /\ "A" \in Kinds /\ "D" \in Kinds
  BY DEF Kinds
<1>2. Row(t) \in {<<"D">>, <<"A">>, <<"A", "D">>}
  BY DEF Counted, Row, CommandRow, AckRow
<1> QED
  BY <1>1, <1>2, KindTuples

-----------------------------------------------------------------------------
(* How long a message is.                                                   *)

\* The width of the fixed fields, by the operations.
FixedWidth(c, t) ==
    CASE Role(t) = "cmd" /\ Op(t) = "ReadSingle" -> c.AddressBytes
      [] Role(t) = "cmd" /\ Op(t) = "WriteSingle" -> c.AddressBytes + c.DataBytes
      [] Role(t) = "cmd" /\ Op(t) = "ReadSeq" ->
            c.AddressBytes + c.LengthBytes + c.LengthBytes
      [] Role(t) = "cmd" /\ Op(t) = "WriteSeq" -> c.AddressBytes + c.LengthBytes
      [] Role(t) = "cmd" /\ Op(t) = "ReadModifyWrite" ->
            c.AddressBytes + c.DataBytes + c.DataBytes
      [] Role(t) = "ack" /\ Op(t) = "ReadSingle" -> c.DataBytes
      [] Role(t) \in {"nak", "interrupt"} -> c.DataBytes
      [] OTHER -> 0

\* The fixed fields are as long as their widths say.
LEMMA FixedLength ==
    ASSUME NEW c \in Configs, NEW t \in Types, NEW values,
           \A i \in DOMAIN Fixed(t) : values[i] \in Nat
    PROVE  /\ FieldsBytes(c, Fixed(t), values) \in Seq(Byte)
           /\ Len(FieldsBytes(c, Fixed(t), values)) = FixedWidth(c, t)
<1> DEFINE kinds == Fixed(t)
           n == Len(FieldsBytes(c, kinds, values))
<1>1. kinds \in Seq(Kinds) /\ Len(kinds) \in {0, 1, 2, 3}
  BY FixedKinds
<1>2. /\ FieldsBytes(c, kinds, values) \in Seq(Byte)
      /\ Len(kinds) = 0 => n = 0
      /\ Len(kinds) = 1 => n = Width(c, kinds[1])
      /\ Len(kinds) = 2 => n = Width(c, kinds[1]) + Width(c, kinds[2])
      /\ Len(kinds) = 3 =>
            n = Width(c, kinds[1]) + Width(c, kinds[2]) + Width(c, kinds[3])
  BY <1>1, FieldsBytesType
<1>3. /\ kinds = <<>> => n = 0
      /\ kinds = <<"A">> => n = c.AddressBytes
      /\ kinds = <<"D">> => n = c.DataBytes
      /\ kinds = <<"A", "D">> => n = c.AddressBytes + c.DataBytes
      /\ kinds = <<"A", "L">> => n = c.AddressBytes + c.LengthBytes
      /\ kinds = <<"A", "L", "L">> => n = c.AddressBytes + c.LengthBytes + c.LengthBytes
      /\ kinds = <<"A", "D", "D">> => n = c.AddressBytes + c.DataBytes + c.DataBytes
  <2> HIDE DEF n, kinds
  <2>1. /\ Width(c, "A") = c.AddressBytes
        /\ Width(c, "D") = c.DataBytes
        /\ Width(c, "L") = c.LengthBytes
    BY DEF Width
  <2> QED
    BY <1>2, <2>1
<1>4. CASE Role(t) = "cmd"
  <2>1. kinds = CommandFields[Op(t)] /\ Op(t) \in CmdTypes
    BY <1>4, RolesAndOps DEF Fixed
  <2> HIDE DEF n, kinds
  <2>2. n = FixedWidth(c, t)
    BY <1>3, <1>4, <2>1 DEF CommandFields, CmdTypes, FixedWidth
  <2> QED
    BY <1>2, <2>2 DEF n, kinds
<1>5. CASE Role(t) = "ack"
  <2>1. kinds = AckFields(Op(t))
    BY <1>5 DEF Fixed
  <2> HIDE DEF n, kinds
  <2>2. n = FixedWidth(c, t)
    BY <1>3, <1>5, <2>1 DEF AckFields, FixedWidth
  <2> QED
    BY <1>2, <2>2 DEF n, kinds
<1>6. CASE Role(t) \in {"nak", "interrupt"}
  <2>1. kinds = <<"D">>
    BY <1>6 DEF Fixed, StatusFields
  <2> HIDE DEF n, kinds
  <2>2. n = FixedWidth(c, t)
    BY <1>3, <1>6, <2>1 DEF FixedWidth
  <2> QED
    BY <1>2, <2>2 DEF n, kinds
<1> QED
  BY <1>4, <1>5, <1>6, RolesAndOps

\* The width of a row.
RowWidth(c, t) ==
    CASE Role(t) = "cmd" /\ Op(t) = "WriteSeq" -> c.DataBytes
      [] Role(t) = "cmd" /\ Op(t) = "ReadComp" -> c.AddressBytes
      [] Role(t) = "cmd" /\ Op(t) = "WriteComp" -> c.AddressBytes + c.DataBytes
      [] OTHER -> c.DataBytes

\* A row is as long as its widths say.
LEMMA RowLength ==
    ASSUME NEW c \in Configs, NEW t \in Types, Counted(t), NEW values,
           \A i \in DOMAIN Row(t) : values[i] \in Nat
    PROVE  /\ FieldsBytes(c, Row(t), values) \in Seq(Byte)
           /\ Len(FieldsBytes(c, Row(t), values)) = RowWidth(c, t)
<1> DEFINE kinds == Row(t)
           n == Len(FieldsBytes(c, kinds, values))
<1>1. kinds \in Seq(Kinds) /\ Len(kinds) \in {0, 1, 2, 3}
  BY RowKinds
<1>2. /\ FieldsBytes(c, kinds, values) \in Seq(Byte)
      /\ Len(kinds) = 1 => n = Width(c, kinds[1])
      /\ Len(kinds) = 2 => n = Width(c, kinds[1]) + Width(c, kinds[2])
  BY <1>1, FieldsBytesType
<1>3. /\ kinds = <<"A">> => n = c.AddressBytes
      /\ kinds = <<"D">> => n = c.DataBytes
      /\ kinds = <<"A", "D">> => n = c.AddressBytes + c.DataBytes
  <2> HIDE DEF n, kinds
  <2>1. Width(c, "A") = c.AddressBytes /\ Width(c, "D") = c.DataBytes
    BY DEF Width
  <2> QED
    BY <1>2, <2>1
<1>4. /\ Role(t) = "cmd" => Op(t) \in DOMAIN CommandRow /\ kinds = CommandRow[Op(t)]
      /\ Role(t) # "cmd" => Role(t) = "ack" /\ Op(t) \in DOMAIN AckRow
                            /\ kinds = AckRow[Op(t)]
  BY DEF Counted, Row
<1> HIDE DEF n, kinds
<1>5. n = RowWidth(c, t)
  BY <1>3, <1>4 DEF CommandRow, AckRow, RowWidth
<1> QED
  BY <1>2, <1>5 DEF n, kinds

-----------------------------------------------------------------------------
(* The messages of the model.                                               *)

\* The values of the fields are numbers.
LEMMA TupleValues ==
    ASSUME NEW kinds \in Seq(Kinds), NEW v \in Tuples(kinds)
    PROVE  \A i \in DOMAIN kinds : v[i] \in Nat
<1> SUFFICES ASSUME NEW i \in DOMAIN kinds PROVE v[i] \in Nat
  OBVIOUS
<1>1. v[i] \in Values[kinds[i]]
  BY DEF Tuples
<1>2. kinds[i] \in {"A", "D", "L"}
  BY DEF Kinds
<1> QED
  BY <1>1, <1>2, ValuesAssumption

\* The rows of a message are a sequence of values of its fields.
LEMMA RowsType ==
    ASSUME NEW c \in Cfgs, NEW t \in Types, Counted(t), NEW rows \in Rows(c, t)
    PROVE  \E n \in Nat : /\ rows \in [1 .. n -> Tuples(Row(t))]
                         /\ Len(rows) = n
<1>1. PICK n \in RowCounts(CountLimit(c, Op(t))), row \in Tuples(Row(t)) :
         rows = FirstUnlike(t, row, n)
  BY DEF Rows
<1>2. n \in Nat
  <2>1. Op(t) \in CountedTypes
    BY DEF Counted, CommandRow, AckRow, CountedTypes
  <2> QED
    BY <1>1, <2>1, RowCountsAssumption
<1> DEFINE next == CHOOSE other \in Tuples(Row(t)) :
                      other # row \/ Tuples(Row(t)) = {row}
<1>3. next \in Tuples(Row(t))
  <2>1. \E other \in Tuples(Row(t)) : other # row \/ Tuples(Row(t)) = {row}
    BY <1>1
  <2> QED
    BY <2>1
<1>4. rows = [i \in 1 .. n |-> IF i = 1 THEN row ELSE next]
  BY <1>1 DEF FirstUnlike
<1> HIDE DEF next
<1>5. rows \in [1 .. n -> Tuples(Row(t))]
  BY <1>1, <1>3, <1>4
<1>6. Len(rows) = n
  BY <1>2, <1>5
<1> QED
  BY <1>2, <1>5, <1>6

\* The parts of a message.
LEMMA MessageParts ==
    ASSUME NEW c \in Cfgs, NEW m \in Messages(c)
    PROVE  /\ c \in Configs
           /\ m.type \in Types /\ m.txn \in Byte
           /\ \A i \in DOMAIN Fixed(m.type) : m.fixed[i] \in Nat
           /\ ~Counted(m.type) => m.rows = <<>>
           /\ Counted(m.type) => m.rows \in Rows(c, m.type)
           /\ Len(m.rows) \in Nat
           /\ CountOf(m) \in Nat
<1>1. PICK t \in Types : m \in MessagesOf(c, t)
  BY DEF Messages
<1>2. /\ m.type = t /\ m.fixed \in Tuples(Fixed(t)) /\ m.rows \in Rows(c, t)
      /\ m.txn \in Byte
  BY <1>1, FlipsAssumption DEF MessagesOf
<1>3. \A i \in DOMAIN Fixed(t) : m.fixed[i] \in Nat
  BY <1>2, FixedKinds, TupleValues
<1>4. ~Counted(t) => m.rows = <<>>
  BY <1>2 DEF Rows
<1>5. Len(m.rows) \in Nat
  <2>1. CASE Counted(t)
    BY <1>2, <2>1, RowsType
  <2>2. CASE ~Counted(t)
    BY <1>4, <2>2
  <2> QED
    BY <2>1, <2>2
<1>6. CountOf(m) \in Nat
  <2>1. CASE Op(t) = "ReadSeq" /\ Role(t) = "cmd"
    <3>1. Fixed(t) = <<"A", "L", "L">>
      BY <2>1 DEF Fixed, CommandFields
    <3>2. m.fixed[3] \in Nat
      BY <1>3, <3>1
    <3> QED
      BY <1>2, <2>1, <3>2 DEF CountOf
  <2>2. CASE ~(Op(t) = "ReadSeq" /\ Role(t) = "cmd")
    BY <1>2, <1>5, <2>2 DEF CountOf
  <2> QED
    BY <2>1, <2>2
<1> QED
  BY <1>2, <1>3, <1>4, <1>5, <1>6, CfgsAssumption

\* Rows and their number, of a counted message.
LEMMA TailLength ==
    ASSUME NEW c \in Cfgs, NEW m \in Messages(c), Counted(m.type)
    PROVE  LET tail == FieldBytes(c, "L", Len(m.rows))
                         \o RowsBytes(c, Row(m.type), m.rows)
           IN  /\ tail \in Seq(Byte)
               /\ Len(tail) = c.LengthBytes + Len(m.rows) * RowWidth(c, m.type)
<1> DEFINE t == m.type
           rows == m.rows
           head == FieldBytes(c, "L", Len(rows))
           rest == RowsBytes(c, Row(t), rows)
<1>1. t \in Types /\ c \in Configs /\ rows \in Rows(c, t)
  BY MessageParts
<1>2. PICK n \in Nat : rows \in [1 .. n -> Tuples(Row(t))] /\ Len(rows) = n
  BY <1>1, RowsType
<1>3. Row(t) \in Seq(Kinds)
  BY <1>1, RowKinds
<1>4. RowWidth(c, t) \in Nat
  BY <1>1, ConfigTypes DEF RowWidth
<1>5. \A i \in 1 .. n : /\ FieldsBytes(c, Row(t), rows[i]) \in Seq(Byte)
                       /\ Len(FieldsBytes(c, Row(t), rows[i])) = RowWidth(c, t)
  <2> SUFFICES ASSUME NEW i \in 1 .. n
               PROVE  /\ FieldsBytes(c, Row(t), rows[i]) \in Seq(Byte)
                      /\ Len(FieldsBytes(c, Row(t), rows[i])) = RowWidth(c, t)
    OBVIOUS
  <2>1. rows[i] \in Tuples(Row(t))
    BY <1>2
  <2>2. \A j \in DOMAIN Row(t) : rows[i][j] \in Nat
    BY <1>3, <2>1, TupleValues
  <2> QED
    BY <1>1, <2>2, RowLength
<1>6. DOMAIN rows = 1 .. n
  BY <1>2
<1>7. rest \in Seq(Byte) /\ Len(rest) = n * RowWidth(c, t)
  <2> DEFINE w == RowWidth(c, t)
             kinds == Row(t)
  <2>1. /\ w \in Nat
        /\ \A i \in 1 .. n : /\ FieldsBytes(c, kinds, rows[i]) \in Seq(Byte)
                             /\ Len(FieldsBytes(c, kinds, rows[i])) = w
    BY <1>4, <1>5
  <2> HIDE DEF w, kinds, rows
  <2>2. n \in Nat /\ c \in Configs /\ DOMAIN rows = 1 .. n
    BY <1>1, <1>2, <1>6
  <2>3. RowsBytes(c, kinds, rows) \in Seq(Byte) /\ Len(RowsBytes(c, kinds, rows)) = n * w
    BY <2>1, <2>2, RowsBytesType
  <2> QED
    BY <2>3 DEF w, kinds, rows
<1>8. head \in Seq(Byte) /\ Len(head) = c.LengthBytes
  <2>1. "L" \in Kinds /\ Width(c, "L") = c.LengthBytes
    BY DEF Kinds, Width
  <2> QED
    BY <1>1, <1>2, <2>1, FieldBytesType
<1> HIDE DEF head, rest
<1>9. head \o rest \in Seq(Byte) /\ Len(head \o rest) = Len(head) + Len(rest)
  BY <1>7, <1>8
<1>10. Len(head \o rest) = c.LengthBytes + Len(rows) * RowWidth(c, t)
  BY <1>2, <1>7, <1>8, <1>9
<1> QED
  BY <1>9, <1>10 DEF head, rest

\* What the encoders append to a message is as long as calcSize says.
LEMMA PayloadLength ==
    ASSUME NEW c \in Cfgs, NEW m \in Messages(c)
    PROVE  /\ Payload(c, m) \in Seq(Byte)
           /\ Len(Payload(c, m)) + c.CrcBytes = calcSize(c, m)
<1> DEFINE t == m.type
           n == Len(m.rows)
           header == <<m.txn, MessageType[t].code>>
           fixed == FieldsBytes(c, Fixed(t), m.fixed)
           tail == IF Counted(t)
                   THEN FieldBytes(c, "L", Len(m.rows)) \o RowsBytes(c, Row(t), m.rows)
                   ELSE <<>>
           counted == IF Counted(t) THEN c.LengthBytes + n * RowWidth(c, t) ELSE 0
<1>1. t \in Types /\ c \in Configs /\ n \in Nat
  BY MessageParts
<1>2. header \in Seq(Byte) /\ Len(header) = 2
  <2>1. m.txn \in Byte /\ MessageType[t].code \in Byte
    BY <1>1, MessageParts, CodeType
  <2> QED
    BY <2>1
<1>3. fixed \in Seq(Byte) /\ Len(fixed) = FixedWidth(c, t)
  BY <1>1, MessageParts, FixedLength
<1>4. tail \in Seq(Byte) /\ Len(tail) = counted
  <2>1. CASE Counted(t)
    BY <2>1, TailLength
  <2>2. CASE ~Counted(t)
    <3>1. tail = <<>> /\ counted = 0
      BY <2>2
    <3> HIDE DEF tail, counted
    <3> QED
      BY <3>1
  <2> QED
    BY <2>1, <2>2
<1>5. Payload(c, m) = header \o fixed \o tail
  BY DEF Payload, RowsBytes
<1> HIDE DEF header, fixed, tail, counted
<1>6. /\ header \o fixed \in Seq(Byte)
      /\ Len(header \o fixed) = 2 + FixedWidth(c, t)
  <2>1. header \in Seq(Byte) /\ fixed \in Seq(Byte)
    BY <1>2, <1>3
  <2>2. header \o fixed \in Seq(Byte) /\ Len(header \o fixed) = Len(header) + Len(fixed)
    BY <2>1, ConcatProperties
  <2> QED
    BY <1>2, <1>3, <2>2
<1>7. /\ Payload(c, m) \in Seq(Byte)
      /\ Len(Payload(c, m)) = 2 + FixedWidth(c, t) + counted
  <2>1. /\ (header \o fixed) \o tail \in Seq(Byte)
        /\ Len((header \o fixed) \o tail) = Len(header \o fixed) + Len(tail)
    <3>1. PICK x \in Seq(Byte), y \in Seq(Byte) : x = header \o fixed /\ y = tail
      BY <1>4, <1>6, Zenon
    <3>2. x \o y \in Seq(Byte) /\ Len(x \o y) = Len(x) + Len(y)
      BY ConcatProperties
    <3> QED
      BY <3>1, <3>2, Zenon
  <2> QED
    BY <1>4, <1>5, <1>6, <2>1
<1>9. 2 + FixedWidth(c, t) + counted + c.CrcBytes = calcSize(c, m)
  <2> USE DEF counted
  <2>0. ASSUME NEW k \in Nat
        PROVE  /\ k * c.AddressBytes \in Nat /\ k * c.DataBytes \in Nat
               /\ k * (c.AddressBytes + c.DataBytes) = k * c.AddressBytes + k * c.DataBytes
    <3>1. c.AddressBytes \in 1 .. 8 /\ c.DataBytes \in 1 .. 8
      BY <1>1, ConfigTypes
    <3> QED
      BY <3>1, Distributes
  <2>1. /\ c.AddressBytes \in Nat /\ c.DataBytes \in Nat /\ c.LengthBytes \in Nat
        /\ c.CrcBytes \in Nat /\ n * c.AddressBytes \in Nat /\ n * c.DataBytes \in Nat
        /\ n * (c.AddressBytes + c.DataBytes) = n * c.AddressBytes + n * c.DataBytes
    <3>1. c.AddressBytes \in 1 .. 8 /\ c.DataBytes \in 1 .. 8 /\ c.LengthBytes \in 1 .. 2
          /\ c.CrcBytes \in 1 .. 4
      BY <1>1, ConfigTypes
    <3>2. /\ n * c.AddressBytes \in Nat /\ n * c.DataBytes \in Nat
          /\ n * (c.AddressBytes + c.DataBytes) = n * c.AddressBytes + n * c.DataBytes
      BY <1>1, <2>0, Zenon
    <3> HIDE DEF n
    <3> QED
      BY <3>1, <3>2
  <2>2. CASE Role(t) = "cmd"
    <3>1. calcSize(c, m) = CommandSize(c, Op(t), CountOf(m)) /\ Op(t) \in CmdTypes
      BY <1>1, <2>2, RolesAndOps DEF calcSize
    <3>2. Op(t) # "ReadSeq" => CountOf(m) = n
      BY DEF CountOf
    <3>3. Counted(t) <=> Op(t) \in {"WriteSeq", "ReadComp", "WriteComp"}
      BY <2>2 DEF Counted, CommandRow
    <3> HIDE DEF n
    <3>4. CASE Op(t) = "WriteSeq"
      <4>1. CommandSize(c, Op(t), CountOf(m)) = WireSize(c, 1, n, 2)
        BY <3>2, <3>4 DEF CommandSize
      <4>2. FixedWidth(c, t) = c.AddressBytes + c.LengthBytes
            /\ counted = c.LengthBytes + n * c.DataBytes
        BY <2>2, <3>3, <3>4 DEF FixedWidth, RowWidth
      <4> QED
        BY <2>1, <3>1, <4>1, <4>2 DEF WireSize
    <3>5. CASE Op(t) = "ReadComp"
      <4>1. CommandSize(c, Op(t), CountOf(m)) = WireSize(c, n, 0, 1)
        BY <3>2, <3>5 DEF CommandSize
      <4>2. FixedWidth(c, t) = 0 /\ counted = c.LengthBytes + n * c.AddressBytes
        BY <2>2, <3>3, <3>5 DEF FixedWidth, RowWidth
      <4> QED
        BY <2>1, <3>1, <4>1, <4>2 DEF WireSize
    <3>6. CASE Op(t) = "WriteComp"
      <4>1. CommandSize(c, Op(t), CountOf(m)) = WireSize(c, n, n, 1)
        BY <3>2, <3>6 DEF CommandSize
      <4>2. FixedWidth(c, t) = 0
            /\ counted = c.LengthBytes + n * (c.AddressBytes + c.DataBytes)
        BY <2>2, <3>3, <3>6 DEF FixedWidth, RowWidth
      <4> QED
        BY <2>1, <3>1, <4>1, <4>2 DEF WireSize
    <3>7. CASE Op(t) \in {"ReadSingle", "WriteSingle", "ReadSeq", "ReadModifyWrite"}
      <4>1. counted = 0
        BY <3>3, <3>7
      <4> HIDE DEF counted
      <4> QED
        BY <2>1, <2>2, <3>1, <3>7, <4>1 DEF CommandSize, WireSize, FixedWidth
    <3> QED
      BY <3>1, <3>4, <3>5, <3>6, <3>7 DEF CmdTypes
  <2>3. CASE Role(t) = "ack"
    <3>1. calcSize(c, m) = AckSize(c, Op(t), n) /\ Op(t) \in CmdTypes
      BY <1>1, <2>3, RolesAndOps DEF calcSize, CountOf
    <3>2. Counted(t) <=> Op(t) \in {"ReadSeq", "ReadComp"}
      BY <2>3 DEF Counted, AckRow
    <3> HIDE DEF n
    <3> QED
      BY <2>1, <2>3, <3>1, <3>2
      DEF CmdTypes, AckSize, WireSize, FixedWidth, RowWidth
  <2>4. CASE Role(t) \in {"nak", "interrupt"}
    <3>1. calcSize(c, m) = NakSize(c) /\ ~Counted(t)
      BY <2>4 DEF calcSize, Counted
    <3> QED
      BY <2>1, <2>4, <3>1 DEF NakSize, WireSize, FixedWidth
  <2> QED
    BY <1>1, <2>2, <2>3, <2>4, RolesAndOps
<1> QED
  BY <1>7, <1>9

-----------------------------------------------------------------------------
(* The life of a message.                                                   *)

\* What is on the wire is the encoding of a message that was not refused.
AsEncoded ==
    /\ cfg \in Cfgs
    /\ msg \in Messages(cfg)
    /\ stage = "wire" => /\ ~EncodeRefused(cfg, msg)
                         /\ frame = EncodedFrame(cfg, msg)
    /\ stage = "refused" => EncodeRefused(cfg, msg)

\* What is on the wire stays what was encoded.
LEMMA StaysAsEncoded == Spec => []AsEncoded
<1>1. Init => AsEncoded
  BY DEF Init, AsEncoded
<1>2. AsEncoded /\ [Next]_vars => AsEncoded'
  <2> SUFFICES ASSUME AsEncoded, [Next]_vars PROVE AsEncoded'
    OBVIOUS
  <2>1. CASE Encode
    BY <2>1 DEF Encode, AsEncoded
  <2>2. CASE Alter
    BY <2>2 DEF Alter, AsEncoded
  <2>3. CASE decodeCommand \/ decodeResponse
    BY <2>3 DEF decodeCommand, decodeResponse, DecodeBy, AsEncoded
  <2>4. CASE UNCHANGED vars
    BY <2>4 DEF vars, AsEncoded
  <2> QED
    BY <2>1, <2>2, <2>3, <2>4 DEF Next
<1> QED
  BY <1>1, <1>2, PTL DEF Spec

\* A frame is as long as calcSize says.
LEMMA FrameLength ==
    ASSUME NEW c \in Cfgs, NEW m \in Messages(c)
    PROVE  /\ EncodedFrame(c, m).bytes \in Seq(Byte)
           /\ Len(EncodedFrame(c, m).bytes) = calcSize(c, m)
           /\ Len(EncodedFrame(c, m).bytes) \in Nat
<1> DEFINE payload == Payload(c, m)
           crc == CrcField(c)
<1>1. payload \in Seq(Byte) /\ Len(payload) + c.CrcBytes = calcSize(c, m)
  BY PayloadLength
<1>2. c.CrcBytes \in Nat
  BY MessageParts, ConfigTypes
<1>3. crc \in Seq(Byte) /\ Len(crc) = c.CrcBytes
  <2>1. 0 \in Byte
    BY DEF Byte
  <2>2. crc \in [1 .. c.CrcBytes -> Byte]
    BY <2>1 DEF CrcField
  <2> HIDE DEF crc
  <2> QED
    BY <1>2, <2>2
<1>4. EncodedFrame(c, m).bytes = payload \o crc
  BY DEF EncodedFrame
<1> HIDE DEF payload, crc
<1>5. payload \o crc \in Seq(Byte) /\ Len(payload \o crc) = Len(payload) + Len(crc)
  BY <1>1, <1>3
<1>6. Len(payload) \in Nat
  BY <1>1
<1> QED
  BY <1>1, <1>2, <1>3, <1>4, <1>5, <1>6

\* Each encoder appends exactly as many bytes as it has calculated, and no more
\* than the transport can carry (the assertions of Serdes.h:616 and its like).
THEOREM SizesAsCalculated == Spec => []SizeAsCalculated
<1>1. AsEncoded => SizeAsCalculated
  <2> SUFFICES ASSUME AsEncoded, stage = "wire"
               PROVE  /\ Len(frame.bytes) = calcSize(cfg, msg)
                      /\ Len(frame.bytes) <= cfg.MaxMessageSize
    BY DEF SizeAsCalculated
  <2>1. cfg \in Cfgs /\ msg \in Messages(cfg)
    BY DEF AsEncoded
  <2>2. cfg \in Configs /\ msg.type \in Types
    BY <2>1, MessageParts
  <2>3. Len(frame.bytes) = calcSize(cfg, msg)
    BY <2>1, FrameLength DEF AsEncoded
  <2>4. ~TooLarge(cfg, calcSize(cfg, msg))
    <3>1. ~EncodeRefused(cfg, msg)
      BY DEF AsEncoded
    <3>2. Role(msg.type) \in {"cmd", "ack", "nak", "interrupt"}
      BY <2>2, RolesAndOps
    <3> QED
      BY <3>1, <3>2
      DEF EncodeRefused, calcSize, CommandRefused, AckRefused, NakRefused
  <2>5. Len(frame.bytes) \in Nat
    BY <2>1, FrameLength DEF AsEncoded
  <2> QED
    BY <2>2, <2>3, <2>4, <2>5, ConfigTypes DEF TooLarge
<1> QED
  BY <1>1, StaysAsEncoded, PTL

\* A command that was encoded is one whose ACK and NAK the server can encode.
THEOREM CommandsAnswerable == Spec => []CommandsAreAnswerable
<1>1. AsEncoded => CommandsAreAnswerable
  <2> SUFFICES ASSUME AsEncoded, Role(msg.type) = "cmd"
               PROVE  AcceptedIsAnswerable(cfg, Op(msg.type), CountOf(msg))
    BY DEF CommandsAreAnswerable
  <2>1. cfg \in Configs /\ msg.type \in Types /\ CountOf(msg) \in Nat
    BY MessageParts DEF AsEncoded
  <2> QED
    BY <2>1, RolesAndOps, AcceptedIsAnswered
<1> QED
  BY <1>1, StaysAsEncoded, PTL

\* A command that was refused would not have fitted, nor would its ACK.
THEOREM RefusalsNecessary == Spec => []RefusalsAreNecessary
<1>1. AsEncoded => RefusalsAreNecessary
  <2> SUFFICES ASSUME AsEncoded, Role(msg.type) = "cmd"
               PROVE  RefusedOnlyWhenTooLarge(cfg, Op(msg.type), CountOf(msg))
    BY DEF RefusalsAreNecessary
  <2>1. cfg \in Configs /\ msg.type \in Types /\ CountOf(msg) \in Nat
    BY MessageParts DEF AsEncoded
  <2> QED
    BY <2>1, RolesAndOps, RefusalIsExact
<1> QED
  BY <1>1, StaysAsEncoded, PTL

\* The number of bytes is written as those bytes.
ReadsAndWrites(c, kind, bytes) ==
    Number(bytes) \in Nat /\ FieldBytes(c, kind, Number(bytes)) = bytes

\* Bytes are what their number is written as.
LEMMA BytesOfNumber ==
    ASSUME NEW c \in Configs, NEW kind \in Kinds, NEW bytes \in Seq(Byte),
           Len(bytes) = Width(c, kind)
    PROVE  ReadsAndWrites(c, kind, bytes)
<1>1. PICK w \in Nat : w = Width(c, kind) /\ w = Len(bytes) /\ w \in 1 .. 8
  BY WidthType
<1>0. \A i \in 1 .. w : bytes[i] \in Byte
  BY <1>1
<1>2. PICK s : Sums(s, bytes, w) /\ Number(bytes) = s[w]
  <2>1. IsRead(bytes, w)
    BY <1>1, NumberIs
  <2> QED
    BY <2>1 DEF IsRead
<1>3. Number(bytes) \in Nat
  BY <1>2 DEF Sums
<1>4. PICK f : /\ Shifts(f, Number(bytes), w)
               /\ FieldBytes(c, kind, Number(bytes)) = LowBytes(f, w)
  <2>1. PICK v \in Nat : v = Number(bytes)
    BY <1>3
  <2>2. IsWritten(c, kind, v, w)
    BY <1>1, FieldBytesIs
  <2> QED
    BY <2>1, <2>2 DEF IsWritten
<1>5. ASSUME NEW i \in 0 .. w - 1, NEW v \in Nat, v = s[w - i]
      PROVE  v % 256 = bytes[i + 1] /\ v \div 256 = s[w - (i + 1)]
  <2>1. PICK j \in 1 .. w : j = w - i /\ w + 1 - j = i + 1 /\ j - 1 = w - (i + 1)
                            /\ j - 1 \in 0 .. w /\ i + 1 \in 1 .. w
    OBVIOUS
  <2>2. s[j] = bytes[i + 1] + 256 * s[j - 1]
    BY <1>2, <2>1 DEF Sums
  <2>3. PICK b \in 0 .. 255 : b = bytes[i + 1]
    BY <1>0, <2>1 DEF Byte
  <2>4. PICK r \in Nat : r = s[j - 1]
    BY <1>2, <2>1 DEF Sums
  <2>5. v = b + 256 * r
    BY <1>5, <2>1, <2>2, <2>3, <2>4
  <2>6. v % 256 = b /\ v \div 256 = r
    BY <2>5
  <2> QED
    BY <2>1, <2>3, <2>4, <2>6
<1> DEFINE S == {i \in Nat : i <= w => f[i] = s[w - i]}
<1>6. Nat \subseteq S
  <2>1. 0 \in S
    BY <1>2, <1>4 DEF Shifts
  <2>2. ASSUME NEW i \in Nat, i \in S
        PROVE  i + 1 \in S
    <3> SUFFICES ASSUME i + 1 <= w PROVE f[i + 1] = s[w - (i + 1)]
      OBVIOUS
    <3>1. f[i] = s[w - i] /\ i \in 0 .. w - 1 /\ i \in 0 .. w
      BY <2>2
    <3>2. f[i] \in Nat
      BY <1>4, <3>1 DEF Shifts
    <3>3. i + 1 \in 1 .. w /\ i + 1 - 1 = i
      BY <3>1
    <3>4. f[i + 1] = f[i] \div 256
      BY <1>4, <3>3 DEF Shifts
    <3> QED
      BY <1>5, <3>1, <3>2, <3>4
  <2> HIDE DEF S
  <2> QED
    BY <2>1, <2>2, NatSetInduction
<1>7. ASSUME NEW i \in 1 .. w
      PROVE  f[i - 1] % 256 = bytes[i]
  <2>1. PICK j \in 0 .. w - 1 : j = i - 1 /\ j \in 0 .. w /\ j \in Nat /\ j + 1 = i
    OBVIOUS
  <2>2. f[j] = s[w - j]
    BY <1>6, <2>1
  <2>3. f[j] \in Nat
    BY <1>4, <2>1 DEF Shifts
  <2>4. f[j] % 256 = bytes[j + 1]
    BY <1>5, <2>2, <2>3
  <2> QED
    BY <2>1, <2>4
<1>8. LowBytes(f, w) = [i \in 1 .. w |-> bytes[i]]
  BY <1>7 DEF LowBytes
<1>9. bytes = [i \in 1 .. w |-> bytes[i]]
  BY <1>1
<1>10. FieldBytes(c, kind, Number(bytes)) = bytes
  BY <1>4, <1>8, <1>9, Zenon
<1> QED
  BY <1>3, <1>10, Zenon DEF ReadsAndWrites

-----------------------------------------------------------------------------
(* Sequences put together from pieces of one, and the pieces of sequences   *)
(* put together.                                                            *)

\* The members of s after the first p, up to the q-th.
Piece(s, p, q) == SubSeq(s, p + 1, q)

\* What a piece is made of.
LEMMA PieceType ==
    ASSUME NEW T, NEW s \in Seq(T), NEW p \in Nat, NEW q \in Nat,
           p <= q, q <= Len(s)
    PROVE  /\ Piece(s, p, q) \in Seq(T) /\ Len(Piece(s, p, q)) = q - p
           /\ \A i \in 1 .. q - p : Piece(s, p, q)[i] = s[p + i]
BY SubSeqProperties DEF Piece

\* x is what the members of s from one place to another make up.
IsPiece(x, s, T, p, q) ==
    /\ x \in Seq(T) /\ Len(x) = q - p
    /\ \A i \in 1 .. q - p : x[i] = s[p + i]

LEMMA PieceIs ==
    ASSUME NEW T, NEW s \in Seq(T), NEW p \in Nat, NEW q \in Nat,
           p <= q, q <= Len(s)
    PROVE  IsPiece(Piece(s, p, q), s, T, p, q)
BY PieceType, Zenon DEF IsPiece

\* Two pieces that touch are one.
Touching(s, p, q, r) == Piece(s, p, q) \o Piece(s, q, r) = Piece(s, p, r)

\* Touching pieces make one piece.
LEMMA AdjacentPieces ==
    ASSUME NEW T, NEW s \in Seq(T), NEW p \in Nat, NEW q \in Nat, NEW r \in Nat,
           p <= q, q <= r, r <= Len(s)
    PROVE  Touching(s, p, q, r)
<1> DEFINE x == Piece(s, p, q)
           y == Piece(s, q, r)
           z == Piece(s, p, r)
<1>2. /\ x \in Seq(T) /\ Len(x) = q - p /\ \A i \in 1 .. q - p : x[i] = s[p + i]
      /\ y \in Seq(T) /\ Len(y) = r - q /\ \A i \in 1 .. r - q : y[i] = s[q + i]
      /\ z \in Seq(T) /\ Len(z) = r - p /\ \A i \in 1 .. r - p : z[i] = s[p + i]
  <2>1. q <= Len(s) /\ p <= r
    BY LenProperties
  <2>2. x \in Seq(T) /\ Len(x) = q - p /\ \A i \in 1 .. q - p : x[i] = s[p + i]
    BY <2>1, PieceType
  <2>3. y \in Seq(T) /\ Len(y) = r - q /\ \A i \in 1 .. r - q : y[i] = s[q + i]
    BY <2>1, PieceType
  <2>4. z \in Seq(T) /\ Len(z) = r - p /\ \A i \in 1 .. r - p : z[i] = s[p + i]
    BY <2>1, PieceType
  <2> QED
    BY <2>2, <2>3, <2>4, Zenon
<1> HIDE DEF x, y, z
<1>3. /\ x \o y \in Seq(T) /\ Len(x \o y) = r - p
      /\ \A i \in 1 .. r - p :
            (x \o y)[i] = IF i <= q - p THEN x[i] ELSE y[i - (q - p)]
  <2>1. /\ x \o y \in Seq(T) /\ Len(x \o y) = Len(x) + Len(y)
        /\ \A i \in 1 .. Len(x) + Len(y) :
              (x \o y)[i] = IF i <= Len(x) THEN x[i] ELSE y[i - Len(x)]
    BY <1>2, ConcatProperties
  <2>2. Len(x) + Len(y) = r - p
    BY <1>2
  <2> QED
    BY <1>2, <2>1, <2>2
<1>4. ASSUME NEW i \in 1 .. r - p
      PROVE  (x \o y)[i] = z[i]
  <2>1. CASE i <= q - p
    <3>1. (x \o y)[i] = x[i]
      BY <1>3, <2>1
    <3>2. i \in 1 .. q - p
      BY <2>1
    <3> QED
      BY <1>2, <3>1, <3>2
  <2>2. CASE i > q - p
    <3>1. (x \o y)[i] = y[i - (q - p)]
      BY <1>3, <2>2
    <3>2. PICK j \in 1 .. r - q : j = i - (q - p) /\ q + j = p + i
      BY <2>2
    <3>3. y[j] = s[q + j] /\ z[i] = s[p + i]
      BY <1>2
    <3> QED
      BY <3>1, <3>2, <3>3, Zenon
  <2>3. i <= q - p \/ i > q - p
    OBVIOUS
  <2> QED
    BY <2>1, <2>2, <2>3, Zenon
<1>5. x \o y = z
  <2>1. Len(x \o y) = Len(z) /\ \A i \in 1 .. Len(x \o y) : (x \o y)[i] = z[i]
    BY <1>2, <1>3, <1>4
  <2>2. x \o y \in Seq(T) /\ z \in Seq(T)
    BY <1>2, <1>3
  <2> QED
    BY <2>1, <2>2, SeqEqual
<1> QED
  BY <1>5, Zenon DEF x, y, z, Touching

\* The whole is a piece of itself.
LEMMA PieceFull ==
    ASSUME NEW T, NEW s \in Seq(T)
    PROVE  Piece(s, 0, Len(s)) = s
<1> DEFINE z == Piece(s, 0, Len(s))
<1>1. /\ z \in Seq(T) /\ Len(z) = Len(s)
      /\ \A i \in 1 .. Len(s) : z[i] = s[i]
  BY SubSeqProperties DEF Piece
<1> HIDE DEF z
<1>2. z = s
  BY <1>1, SeqEqual
<1> QED
  BY <1>2 DEF z

\* A piece of x is one of x and what follows it.
SamePiece(x, u, p, q) == Piece(x \o u, p, q) = Piece(x, p, q)

\* The pieces of a sequence that another was appended to.
LEMMA PieceOfConcat ==
    ASSUME NEW T, NEW s \in Seq(T), NEW u \in Seq(T)
    PROVE  /\ Piece(s \o u, Len(s), Len(s) + Len(u)) = u
           /\ \A p \in Nat, q \in Nat :
                 q <= Len(s) => SamePiece(s, u, p, q)
<1>1. /\ s \o u \in Seq(T)
      /\ Len(s \o u) = Len(s) + Len(u)
      /\ \A i \in 1 .. Len(s) + Len(u) : (s \o u)[i] =
                     IF i <= Len(s) THEN s[i] ELSE u[i - Len(s)]
      /\ Len(s) \in Nat /\ Len(u) \in Nat
  BY ConcatProperties
<1> DEFINE b == s \o u
<1>2. Piece(b, Len(s), Len(s) + Len(u)) = u
  <2> DEFINE z == Piece(b, Len(s), Len(s) + Len(u))
  <2>1. /\ z \in Seq(T) /\ Len(z) = Len(u)
        /\ \A i \in 1 .. Len(u) : z[i] = b[Len(s) + i]
    <3>1. \A i \in Len(s) + 1 .. Len(s) + Len(u) : b[i] \in T
      BY <1>1
    <3> HIDE DEF b
    <3> QED
      BY <1>1, <3>1, SubSeqProperties DEF Piece
  <2>2. ASSUME NEW i \in 1 .. Len(u)
        PROVE  b[Len(s) + i] = u[i]
    <3>1. PICK j \in 1 .. Len(s) + Len(u) : j = Len(s) + i /\ ~(j <= Len(s)) /\ j - Len(s) = i
      BY <1>1
    <3> QED
      BY <1>1, <3>1
  <2> HIDE DEF z, b
  <2>3. \A i \in 1 .. Len(z) : z[i] = u[i]
    BY <2>1, <2>2
  <2>4. z = u
    BY <2>1, <2>3, SeqEqual
  <2> QED
    BY <2>4 DEF z
<1>3. ASSUME NEW p \in Nat, NEW q \in Nat, q <= Len(s)
      PROVE  Piece(b, p, q) = Piece(s, p, q)
  <2> DEFINE y == Piece(b, p, q)
             z == Piece(s, p, q)
  <2>1. ASSUME NEW i \in p + 1 .. q
        PROVE  b[i] = s[i] /\ s[i] \in T
    <3>1. i \in 1 .. Len(s) + Len(u) /\ i <= Len(s) /\ i \in 1 .. Len(s)
      BY <1>1, <1>3
    <3> QED
      BY <1>1, <3>1
  <2> HIDE DEF b
  <2>2. /\ y \in Seq(T) /\ Len(y) = IF p + 1 <= q THEN q - (p + 1) + 1 ELSE 0
        /\ \A i \in 1 .. q - (p + 1) + 1 : y[i] = b[p + 1 + i - 1]
    BY <2>1, SubSeqProperties DEF Piece
  <2>3. /\ z \in Seq(T) /\ Len(z) = IF p + 1 <= q THEN q - (p + 1) + 1 ELSE 0
        /\ \A i \in 1 .. q - (p + 1) + 1 : z[i] = s[p + 1 + i - 1]
    BY <2>1, SubSeqProperties DEF Piece
  <2> HIDE DEF y, z
  <2>4. ASSUME NEW i \in 1 .. Len(y)
        PROVE  y[i] = z[i]
    <3>1. p + 1 <= q /\ i \in 1 .. q - (p + 1) + 1
      BY <2>2
    <3>2. p + 1 + i - 1 \in p + 1 .. q
      BY <3>1
    <3> QED
      BY <2>1, <2>2, <2>3, <3>1, <3>2
  <2>5. Len(y) = Len(z)
    BY <2>2, <2>3
  <2>6. y = z
    BY <2>2, <2>3, <2>4, <2>5, SeqEqual
  <2> QED
    BY <2>6 DEF y, z
<1> QED
  BY <1>2, <1>3 DEF SamePiece

\* cut[i] is where piece i ends.
Cuts(cut, n, last) ==
    /\ cut \in [0 .. n -> 0 .. last]
    /\ \A i \in 1 .. n : cut[i - 1] <= cut[i]

Pieces(b, cut, n) == [i \in 1 .. n |-> Piece(b, cut[i - 1], cut[i])]

\* Pieces that follow each other, flattened, are the piece they were cut from.
LEMMA FlattenPieces ==
    ASSUME NEW T, NEW b \in Seq(T), NEW n \in Nat, NEW cut, Cuts(cut, n, Len(b))
    PROVE  FlattenSeq(Pieces(b, cut, n)) = Piece(b, cut[0], cut[n])
<1> DEFINE s == Pieces(b, cut, n)
<1>1. ASSUME NEW i \in 0 .. n
      PROVE  cut[i] \in Nat /\ cut[i] <= Len(b)
  BY DEF Cuts
<1>2. ASSUME NEW i \in 1 .. n
      PROVE  /\ i - 1 \in 0 .. n /\ i \in 0 .. n /\ cut[i - 1] \in Nat /\ cut[i] \in Nat
             /\ cut[i - 1] <= cut[i]
             /\ s[i] = Piece(b, cut[i - 1], cut[i]) /\ s[i] \in Seq(T)
  <2>1. i - 1 \in 0 .. n /\ i \in 0 .. n
    OBVIOUS
  <2>2. cut[i - 1] \in Nat /\ cut[i] \in Nat /\ cut[i] <= Len(b) /\ cut[i - 1] <= cut[i]
    BY <1>1, <2>1 DEF Cuts
  <2>3. s[i] = Piece(b, cut[i - 1], cut[i])
    BY DEF Pieces
  <2>4. Piece(b, cut[i - 1], cut[i]) \in Seq(T)
    BY <2>2, PieceType
  <2> QED
    BY <2>1, <2>2, <2>3, <2>4
<1>3. s \in Seq(Seq(T)) /\ Len(s) = n
  <2>1. s \in [1 .. n -> Seq(T)]
    <3>1. s = [i \in 1 .. n |-> s[i]]
      BY DEF Pieces
    <3> HIDE DEF s
    <3> QED
      BY <1>2, <3>1
  <2> HIDE DEF s
  <2> QED
    BY <2>1
<1> HIDE DEF s
<1>4. CASE n = 0
  <2>1. s = <<>>
    BY <1>3, <1>4
  <2>2. cut[0] = cut[n] /\ cut[0] \in Nat
    BY <1>1, <1>4
  <2>3. Piece(b, cut[0], cut[n]) = <<>>
    BY <2>2, SubSeqEmpty DEF Piece
  <2>4. FlattenSeq(s) = s
    BY <2>1, <1>3, <1>4 DEF FlattenSeq
  <2> QED
    BY <2>1, <2>3, <2>4 DEF s
<1>5. CASE n # 0
  <2>1. s # <<>>
    BY <1>3, <1>5
  <2>2. PICK f \in [1 .. Len(s) -> Seq(T)] :
           /\ f[1] = s[1]
           /\ \A i \in 2 .. Len(s) : f[i] = f[i - 1] \o s[i]
           /\ FlattenSeq(s) = f[Len(s)]
    BY <1>3, <2>1, Flattening
  <2> DEFINE S == {k \in Nat : k + 1 <= n =>
                     f[k + 1] = Piece(b, cut[0], cut[k + 1]) /\ cut[0] <= cut[k + 1]}
  <2>3. 0 \in S
    <3>1. 1 \in 1 .. n /\ 1 - 1 = 0
      BY <1>5
    <3> QED
      BY <1>2, <2>2, <3>1
  <2>4. ASSUME NEW k \in Nat, k \in S
        PROVE  k + 1 \in S
    <3> SUFFICES ASSUME k + 2 <= n
                 PROVE  /\ f[k + 2] = Piece(b, cut[0], cut[k + 2])
                        /\ cut[0] <= cut[k + 2]
      OBVIOUS
    <3>1. PICK i \in 2 .. n : i = k + 2 /\ i - 1 = k + 1 /\ i \in 1 .. n
      OBVIOUS
    <3>2. f[i] = f[i - 1] \o s[i]
      BY <1>3, <2>2
    <3>3. f[i - 1] = Piece(b, cut[0], cut[i - 1]) /\ cut[0] <= cut[i - 1]
      BY <2>4, <3>1
    <3>a. /\ 0 \in 0 .. n /\ cut[0] \in Nat /\ cut[i - 1] \in Nat
          /\ cut[i] \in Nat /\ cut[i] <= Len(b)
      <4>1. 0 \in 0 .. n /\ i - 1 \in 0 .. n /\ i \in 0 .. n
        BY <3>1
      <4> QED
        BY <1>1, <4>1
    <3>4. PICK p \in Nat, q \in Nat, r \in Nat :
             p = cut[0] /\ q = cut[i - 1] /\ r = cut[i] /\ r <= Len(b)
      BY <3>a, Zenon
    <3>5. cut[i - 1] <= cut[i] /\ s[i] = Piece(b, cut[i - 1], cut[i])
      BY <1>2, <3>1
    <3>6. p <= q /\ q <= r
      BY <3>3, <3>4, <3>5
    <3>7. Touching(b, p, q, r)
      BY <3>4, <3>6, AdjacentPieces
    <3>8. f[i] = Piece(b, cut[0], cut[i])
      BY <3>2, <3>3, <3>4, <3>5, <3>7, Zenon DEF Touching
    <3>9. cut[0] <= cut[i]
      BY <3>4, <3>6
    <3> QED
      BY <3>1, <3>8, <3>9
  <2> HIDE DEF S
  <2>5. Nat \subseteq S
    BY <2>3, <2>4, NatSetInduction
  <2>6. n - 1 \in S /\ n - 1 + 1 = n
    BY <1>5, <2>5
  <2>7. f[n] = Piece(b, cut[0], cut[n])
    BY <2>6 DEF S
  <2> QED
    BY <1>3, <2>2, <2>7 DEF s
<1> QED
  BY <1>4, <1>5 DEF s

\* cut[i] is how long the first i members of s are together.
Ends(cut, s, n) ==
    /\ cut \in [0 .. n -> Nat] /\ cut[0] = 0
    /\ \A i \in 1 .. n : cut[i] = cut[i - 1] + Len(s[i])

CutInto(b, cut, s, n) ==
    \A i \in 1 .. n : cut[i] <= cut[n] /\ Piece(b, cut[i - 1], cut[i]) = s[i]

\* The other way round: a flattened sequence can be cut into its members again.
LEMMA PiecesOfFlattened ==
    ASSUME NEW T, NEW s \in Seq(Seq(T)), NEW n \in Nat, n = Len(s),
           NEW cut, Ends(cut, s, n)
    PROVE  /\ FlattenSeq(s) \in Seq(T) /\ Len(FlattenSeq(s)) = cut[n]
           /\ CutInto(FlattenSeq(s), cut, s, n)
<1>1. ASSUME NEW i \in 1 .. n
      PROVE  s[i] \in Seq(T) /\ Len(s[i]) \in Nat
  <2>1. s[i] \in Seq(T)
    OBVIOUS
  <2> QED
    BY <2>1
<1>0. /\ cut \in [0 .. n -> Nat] /\ cut[0] = 0
      /\ \A i \in 1 .. n : cut[i] = cut[i - 1] + Len(s[i])
  BY DEF Ends
<1>2. CASE n = 0
  <2>1. s = <<>> /\ Len(s) = 0
    BY <1>2, EmptySeq
  <2>2. FlattenSeq(s) = s
    BY <2>1 DEF FlattenSeq
  <2> QED
    BY <1>0, <1>2, <2>1, <2>2 DEF CutInto
<1>3. CASE n # 0
  <2>1. s # <<>>
    BY <1>3
  <2>2. PICK f \in [1 .. n -> Seq(T)] :
           /\ f[1] = s[1]
           /\ \A i \in 2 .. n : f[i] = f[i - 1] \o s[i]
           /\ FlattenSeq(s) = f[n]
    BY <2>1, Flattening
  <2> DEFINE Good(k) == /\ f[k] \in Seq(T) /\ Len(f[k]) = cut[k]
                        /\ \A i \in 1 .. k :
                              /\ cut[i] <= cut[k]
                              /\ Piece(f[k], cut[i - 1], cut[i]) = s[i]
             S == {k \in Nat : k + 1 <= n => Good(k + 1)}
  <2>3. 0 \in S
    <3> SUFFICES Good(1)
      OBVIOUS
    <3>1. 1 \in 1 .. n /\ 1 - 1 = 0
      BY <1>3
    <3>2. f[1] \in Seq(T) /\ Len(f[1]) = cut[1] /\ f[1] = s[1] /\ cut[1] \in Nat
      BY <1>0, <1>1, <2>2, <3>1
    <3>3. Piece(f[1], 0, cut[1]) = s[1]
      BY <3>2, PieceFull
    <3> QED
      BY <1>0, <3>1, <3>2, <3>3
  <2>4. ASSUME NEW k \in Nat, k \in S
        PROVE  k + 1 \in S
    <3> SUFFICES ASSUME k + 2 <= n PROVE Good(k + 2)
      OBVIOUS
    <3>1. PICK j \in 1 .. n : j = k + 1 /\ j + 1 = k + 2 /\ j + 1 \in 2 .. n
                              /\ j + 1 \in 1 .. n /\ j + 1 - 1 = j
      OBVIOUS
    <3>2. Good(j)
      BY <2>4, <3>1
    <3>a. PICK h \in 2 .. n : h = j + 1 /\ h - 1 = j /\ h \in 1 .. n /\ h \in 0 .. n
      BY <3>1
    <3>3. f[h] = f[h - 1] \o s[h] /\ cut[h] = cut[h - 1] + Len(s[h])
      BY <1>0, <2>2, <3>a
    <3>b. PICK x \in Seq(T), y \in Seq(T) : x = f[j] /\ y = s[h] /\ f[h] = x \o y
      BY <1>1, <3>2, <3>3, <3>a
    <3>4. Len(x) = cut[j] /\ Len(x) \in Nat /\ Len(y) \in Nat /\ cut[h] = Len(x) + Len(y)
      <4>1. Len(x) \in Nat /\ Len(y) \in Nat
        BY LenProperties
      <4>2. Len(x) = cut[j]
        BY <3>2, <3>b, Zenon
      <4>3. cut[h] = cut[h - 1] + Len(y)
        BY <3>3, <3>b, Zenon
      <4> QED
        BY <3>a, <4>1, <4>2, <4>3
    <3>5. f[h] \in Seq(T) /\ Len(f[h]) = cut[h]
      BY <3>b, <3>4, ConcatProperties
    <3>6. ASSUME NEW i \in 1 .. h
          PROVE  /\ cut[i] <= cut[h]
                 /\ Piece(f[h], cut[i - 1], cut[i]) = s[i]
      <4>1. CASE i = h
        <5>1. Piece(x \o y, Len(x), Len(x) + Len(y)) = y
          BY PieceOfConcat
        <5>2. i - 1 = j /\ cut[i] <= cut[h]
          BY <3>4, <3>a, <4>1
        <5> QED
          BY <3>b, <3>4, <4>1, <5>1, <5>2
      <4>2. CASE i # h
        <5>1. i \in 1 .. j /\ i \in 1 .. n /\ i - 1 \in 0 .. n /\ i \in 0 .. n
          BY <3>a, <4>2
        <5>2. cut[i] <= cut[j] /\ Piece(x, cut[i - 1], cut[i]) = s[i]
          BY <3>2, <3>b, <5>1
        <5>3. PICK p \in Nat, q \in Nat : p = cut[i - 1] /\ q = cut[i] /\ q <= Len(x)
          BY <1>0, <3>4, <5>1, <5>2
        <5>4. SamePiece(x, y, p, q)
          BY <5>3, PieceOfConcat
        <5>5. cut[i] <= cut[h]
          <6>1. PICK lx \in Nat, ly \in Nat :
                   lx = Len(x) /\ ly = Len(y) /\ cut[h] = lx + ly
            BY <3>4
          <6>2. q <= lx + ly
            BY <5>3, <6>1
          <6> QED
            BY <5>3, <6>1, <6>2, Zenon
        <5> QED
          BY <3>b, <5>2, <5>3, <5>4, <5>5, Zenon DEF SamePiece
      <4> QED
        BY <4>1, <4>2
    <3>7. Good(h)
      BY <3>5, <3>6
    <3> QED
      BY <3>1, <3>7, <3>a
  <2> HIDE DEF S
  <2>5. Nat \subseteq S
    BY <2>3, <2>4, NatSetInduction
  <2>6. n - 1 \in S /\ n - 1 + 1 = n /\ n - 1 + 1 <= n
    BY <1>3, <2>5
  <2>7. Good(n)
    BY <2>6 DEF S
  <2> QED
    BY <2>2, <2>7 DEF CutInto
<1> QED
  BY <1>2, <1>3

-----------------------------------------------------------------------------
(* Where the fields begin and end.                                          *)

\* cut[i] is the width of the first i fields.
FieldEnds(cut, c, kinds, n) ==
    /\ cut \in [0 .. n -> Nat] /\ cut[0] = 0
    /\ \A i \in 1 .. n : cut[i] = cut[i - 1] + Width(c, kinds[i])

\* What TotalWidth goes through.
LEMMA TotalWidthIs ==
    ASSUME NEW c \in Configs, NEW kinds \in Seq(Kinds), NEW n \in Nat, n = Len(kinds)
    PROVE  \E cut : FieldEnds(cut, c, kinds, n) /\ TotalWidth(c, kinds) = cut[n]
<1> DEFINE Is(f) == f = [i \in 0 .. n |-> IF i = 0 THEN 0
                                          ELSE f[i - 1] + Width(c, kinds[i])]
<1>0. ASSUME NEW i \in 1 .. n
      PROVE  Width(c, kinds[i]) \in Nat
  <2>1. kinds[i] \in Kinds
    OBVIOUS
  <2>2. Width(c, kinds[i]) \in 1 .. 8
    BY <2>1, WidthType
  <2> QED
    BY <2>2
<1>1. \E f : Is(f)
  <2> DEFINE h == [p \in Nat \X (1 .. n) |-> p[1] + Width(c, kinds[p[2]])]
  <2>1. h \in [Nat \X (1 .. n) -> Nat]
    BY <1>0
  <2> HIDE DEF h
  <2>2. PICK f \in [0 .. n -> Nat] : Recursive(f, 0, h, n)
    <3>1. 0 \in Nat
      OBVIOUS
    <3> QED
      BY <2>1, <3>1, Recursion
  <2>3. f[0] = 0 /\ \A i \in 1 .. n : f[i] = h[<<f[i - 1], i>>]
    BY <2>2 DEF Recursive
  <2>4. ASSUME NEW i \in 0 .. n
        PROVE  f[i] = IF i = 0 THEN 0 ELSE f[i - 1] + Width(c, kinds[i])
    <3>1. CASE i = 0
      BY <2>3, <3>1
    <3>2. CASE i # 0
      <4>1. i \in 1 .. n /\ <<f[i - 1], i>> \in Nat \X (1 .. n)
        BY <3>2
      <4>2. h[<<f[i - 1], i>>] = f[i - 1] + Width(c, kinds[i])
        BY <4>1 DEF h
      <4> QED
        BY <2>3, <3>2, <4>1, <4>2
    <3> QED
      BY <3>1, <3>2
  <2>5. f = [i \in 0 .. n |-> f[i]]
    OBVIOUS
  <2>6. Is(f)
    BY <2>4, <2>5
  <2> QED
    BY <2>6
<1> DEFINE sum[i \in 0 .. Len(kinds)] ==
              IF i = 0 THEN 0 ELSE sum[i - 1] + Width(c, kinds[i])
<1>2. TotalWidth(c, kinds) = sum[Len(kinds)]
  BY Zenon DEF TotalWidth
<1>3. Is(sum)
  <2>1. \E g : g = [i \in 0 .. Len(kinds) |->
                      IF i = 0 THEN 0 ELSE g[i - 1] + Width(c, kinds[i])]
    BY <1>1
  <2>2. sum = [i \in 0 .. Len(kinds) |->
                 IF i = 0 THEN 0 ELSE sum[i - 1] + Width(c, kinds[i])]
    BY <2>1, Zenon
  <2> HIDE DEF sum
  <2> QED
    BY <2>2
<1> HIDE DEF sum
<1>4. sum[0] = 0 /\ \A i \in 1 .. n : sum[i] = sum[i - 1] + Width(c, kinds[i])
  <2>1. 0 \in 0 .. n /\ \A i \in 1 .. n : i \in 0 .. n /\ i # 0
    OBVIOUS
  <2> QED
    BY <1>3, <2>1
<1> DEFINE S == {i \in Nat : i <= n => sum[i] \in Nat}
<1>5. Nat \subseteq S
  <2>1. 0 \in S
    BY <1>4
  <2>2. ASSUME NEW i \in Nat, i \in S
        PROVE  i + 1 \in S
    <3> SUFFICES ASSUME i + 1 <= n PROVE sum[i + 1] \in Nat
      OBVIOUS
    <3>1. sum[i] \in Nat /\ i + 1 \in 1 .. n /\ i + 1 - 1 = i
      BY <2>2
    <3>2. sum[i + 1] = sum[i] + Width(c, kinds[i + 1])
      BY <1>4, <3>1
    <3>3. Width(c, kinds[i + 1]) \in Nat
      BY <1>0, <3>1
    <3> QED
      BY <3>1, <3>2, <3>3
  <2> HIDE DEF S
  <2> QED
    BY <2>1, <2>2, NatSetInduction
<1>6. sum \in [0 .. n -> Nat]
  <2>1. \A i \in 0 .. n : sum[i] \in Nat
    BY <1>5
  <2>2. sum = [i \in 0 .. n |-> sum[i]]
    <3>1. sum = [i \in 0 .. n |-> [j \in 0 .. n |->
                    IF j = 0 THEN 0 ELSE sum[j - 1] + Width(c, kinds[j])][i]]
      BY <1>3
    <3>2. \E g : sum = [i \in 0 .. n |-> g[i]]
      BY <3>1
    <3> QED
      BY <3>2
  <2> QED
    BY <2>1, <2>2
<1> QED
  BY <1>2, <1>4, <1>6 DEF FieldEnds

\* Where field i begins is what TotalWidth says of the kinds before it.
LEMMA FieldStarts ==
    ASSUME NEW c \in Configs, NEW kinds \in Seq(Kinds), NEW n \in Nat, n = Len(kinds),
           NEW cut, FieldEnds(cut, c, kinds, n)
    PROVE  \A i \in 1 .. n : TotalWidth(c, SubSeq(kinds, 1, i - 1)) = cut[i - 1]
<1> SUFFICES ASSUME NEW i \in 1 .. n
             PROVE  TotalWidth(c, SubSeq(kinds, 1, i - 1)) = cut[i - 1]
  OBVIOUS
<1> DEFINE before == SubSeq(kinds, 1, i - 1)
<1>0. PICK k \in Nat : k = i - 1 /\ k < n
  OBVIOUS
<1>1. before = Piece(kinds, 0, k) /\ k <= Len(kinds) /\ 0 <= k
  BY <1>0 DEF Piece
<1>2. before \in Seq(Kinds) /\ Len(before) = k /\ \A j \in 1 .. k : before[j] = kinds[j]
  <2>1. /\ Piece(kinds, 0, k) \in Seq(Kinds) /\ Len(Piece(kinds, 0, k)) = k - 0
        /\ \A j \in 1 .. k - 0 : Piece(kinds, 0, k)[j] = kinds[0 + j]
    <3>1. 0 \in Nat
      OBVIOUS
    <3> QED
      BY <1>1, <3>1, PieceIs, Zenon DEF IsPiece
  <2>2. k - 0 = k /\ \A j \in 1 .. k : 0 + j = j
    OBVIOUS
  <2> QED
    BY <1>1, <2>1, <2>2
<1> HIDE DEF before
<1>3. PICK sum : FieldEnds(sum, c, before, k) /\ TotalWidth(c, before) = sum[k]
  BY <1>2, TotalWidthIs
<1> DEFINE S == {j \in Nat : j <= k => sum[j] = cut[j]}
<1>4. Nat \subseteq S
  <2>1. 0 \in S
    BY <1>3 DEF FieldEnds
  <2>2. ASSUME NEW j \in Nat, j \in S
        PROVE  j + 1 \in S
    <3> SUFFICES ASSUME j + 1 <= k PROVE sum[j + 1] = cut[j + 1]
      OBVIOUS
    <3>1. sum[j] = cut[j] /\ j + 1 \in 1 .. k /\ j + 1 \in 1 .. n /\ j + 1 - 1 = j
      BY <1>0, <2>2
    <3>2. sum[j + 1] = sum[j] + Width(c, before[j + 1])
      BY <1>3, <3>1 DEF FieldEnds
    <3>3. cut[j + 1] = cut[j] + Width(c, kinds[j + 1])
      BY <3>1 DEF FieldEnds
    <3>4. before[j + 1] = kinds[j + 1]
      BY <1>2, <3>1
    <3> QED
      BY <3>1, <3>2, <3>3, <3>4
  <2> HIDE DEF S
  <2> QED
    BY <2>1, <2>2, NatSetInduction
<1>5. sum[k] = cut[k]
  BY <1>4
<1> QED
  BY <1>0, <1>3, <1>5 DEF before

\* The ends of the fields grow.
LEMMA FieldEndsGrow ==
    ASSUME NEW c \in Configs, NEW kinds \in Seq(Kinds), NEW n \in Nat, n = Len(kinds),
           NEW cut, FieldEnds(cut, c, kinds, n)
    PROVE  /\ \A i \in 1 .. n : cut[i - 1] <= cut[i]
           /\ \A i \in 0 .. n : cut[i] \in Nat /\ cut[i] <= cut[n]
<1>1. ASSUME NEW i \in 1 .. n
      PROVE  cut[i - 1] <= cut[i]
  <2>1. kinds[i] \in Kinds
    OBVIOUS
  <2>2. Width(c, kinds[i]) \in 1 .. 8
    BY <2>1, WidthType
  <2>3. cut[i] = cut[i - 1] + Width(c, kinds[i]) /\ cut[i - 1] \in Nat
    BY DEF FieldEnds
  <2> QED
    BY <2>2, <2>3
<1>2. \A i \in 0 .. n : cut[i] \in Nat
  BY DEF FieldEnds
<1> DEFINE S == {j \in Nat : j <= n => cut[n - j] <= cut[n]}
<1>3. Nat \subseteq S
  <2>1. 0 \in S
    BY <1>2
  <2>2. ASSUME NEW j \in Nat, j \in S
        PROVE  j + 1 \in S
    <3> SUFFICES ASSUME j + 1 <= n PROVE cut[n - (j + 1)] <= cut[n]
      OBVIOUS
    <3>1. PICK i \in 1 .. n : i = n - j /\ i - 1 = n - (j + 1)
      OBVIOUS
    <3>2. cut[i] <= cut[n] /\ cut[i - 1] <= cut[i]
      BY <1>1, <2>2, <3>1
    <3>3. cut[i - 1] \in Nat /\ cut[i] \in Nat /\ cut[n] \in Nat
      BY <1>2
    <3> QED
      BY <3>1, <3>2, <3>3
  <2> HIDE DEF S
  <2> QED
    BY <2>1, <2>2, NatSetInduction
<1>4. ASSUME NEW i \in 0 .. n
      PROVE  cut[i] <= cut[n]
  <2>1. n - i \in Nat /\ n - i <= n /\ n - (n - i) = i
    OBVIOUS
  <2>2. n - i \in S
    BY <1>3, <2>1
  <2> QED
    BY <2>1, <2>2
<1> QED
  BY <1>1, <1>2, <1>4

\* Fields that are read from bytes are written as the same bytes.
LEMMA FieldsOfBytes ==
    ASSUME NEW c \in Configs, NEW kinds \in Seq(Kinds), NEW bytes \in Seq(Byte),
           NEW at \in Nat, NEW w \in Nat, w = TotalWidth(c, kinds), at + w <= Len(bytes)
    PROVE  /\ \A i \in DOMAIN kinds : FieldsAt(c, kinds, bytes, at)[i] \in Nat
           /\ FieldsBytes(c, kinds, FieldsAt(c, kinds, bytes, at)) = Piece(bytes, at, at + w)
<1>1. PICK n \in Nat : n = Len(kinds) /\ DOMAIN kinds = 1 .. n
  BY LenProperties
<1>2. PICK cut : FieldEnds(cut, c, kinds, n) /\ w = cut[n]
  BY <1>1, TotalWidthIs
<1> DEFINE end == [i \in 0 .. n |-> at + cut[i]]
           values == FieldsAt(c, kinds, bytes, at)
<1>3. \A i \in 0 .. n : /\ cut[i] \in Nat /\ cut[i] <= w
                       /\ end[i] = at + cut[i]
  BY <1>1, <1>2, FieldEndsGrow
<1>4. \A i \in 1 .. n : cut[i - 1] <= cut[i]
  BY <1>1, <1>2, FieldEndsGrow
<1>5. Cuts(end, n, Len(bytes))
  <2>1. ASSUME NEW i \in 0 .. n
        PROVE  end[i] \in 0 .. Len(bytes)
    <3>1. Len(bytes) \in Nat
      BY LenProperties
    <3> QED
      BY <1>3, <3>1
  <2>2. ASSUME NEW i \in 1 .. n
        PROVE  end[i - 1] <= end[i]
    <3>1. i - 1 \in 0 .. n /\ i \in 0 .. n
      OBVIOUS
    <3>2. PICK p \in Nat, q \in Nat : p = cut[i - 1] /\ q = cut[i] /\ p <= q
      BY <1>3, <1>4, <3>1
    <3>3. end[i - 1] = at + p /\ end[i] = at + q
      BY <1>3, <3>1, <3>2
    <3> QED
      BY <3>2, <3>3
  <2>3. end \in [0 .. n -> 0 .. Len(bytes)]
    BY <2>1
  <2> HIDE DEF end
  <2> QED
    BY <2>2, <2>3 DEF Cuts
<1>6. ASSUME NEW i \in 1 .. n
      PROVE  /\ values[i] \in Nat
             /\ FieldBytes(c, kinds[i], values[i]) = Piece(bytes, end[i - 1], end[i])
  <2>1. kinds[i] \in Kinds /\ i \in DOMAIN kinds /\ i - 1 \in 0 .. n /\ i \in 0 .. n
    BY <1>1
  <2>2. PICK k \in 1 .. 8 : k = Width(c, kinds[i])
    BY <2>1, WidthType
  <2>3. TotalWidth(c, SubSeq(kinds, 1, i - 1)) = cut[i - 1]
    BY <1>1, <1>2, FieldStarts
  <2>4. PICK p \in Nat, q \in Nat :
           p = end[i - 1] /\ q = end[i] /\ q = p + k /\ q <= Len(bytes) /\ p = at + cut[i - 1]
    <3>1. cut[i] = cut[i - 1] + k
      BY <1>2, <2>2 DEF FieldEnds
    <3>2. cut[i - 1] \in Nat /\ cut[i] <= w
      BY <1>3, <2>1
    <3>3. end[i - 1] = at + cut[i - 1] /\ end[i] = at + cut[i]
      BY <1>3, <2>1
    <3>4. Len(bytes) \in Nat
      BY LenProperties
    <3>5. PICK x \in Nat : x = cut[i - 1]
      BY <3>2
    <3>6. /\ at + x \in Nat /\ at + (x + k) \in Nat /\ at + (x + k) = (at + x) + k
          /\ at + (x + k) <= Len(bytes)
      <4>1. x + k <= w
        BY <3>1, <3>2, <3>5
      <4>2. PICK len \in Nat : len = Len(bytes) /\ at + w <= len
        BY <3>4
      <4>3. at + (x + k) <= len
        BY <4>1, <4>2
      <4> QED
        BY <4>2, <4>3
    <3> HIDE DEF end
    <3> QED
      BY <3>1, <3>3, <3>5, <3>6, Zenon
  <2>5. values[i] = Number(Piece(bytes, p, q))
    BY <2>1, <2>2, <2>3, <2>4 DEF FieldsAt, Piece
  <2>6. Piece(bytes, p, q) \in Seq(Byte) /\ Len(Piece(bytes, p, q)) = k
    <3>1. p <= q /\ q - p = k
      <4>1. q = p + k
        BY <2>4
      <4> QED
        BY ONLY p \in Nat, k \in 1 .. 8, <4>1
    <3>3. q <= Len(bytes)
      BY <2>4
    <3>2. IsPiece(Piece(bytes, p, q), bytes, Byte, p, q)
      BY <3>1, <3>3, PieceIs, Zenon
    <3> QED
      BY <3>1, <3>2, Zenon DEF IsPiece
  <2> QED
    <3> DEFINE b == Piece(bytes, p, q)
    <3> HIDE DEF b
    <3>1. b \in Seq(Byte) /\ Len(b) = Width(c, kinds[i])
      BY <2>2, <2>6 DEF b
    <3>2. ReadsAndWrites(c, kinds[i], b)
      BY <2>1, <3>1, BytesOfNumber
    <3> QED
      BY <2>4, <2>5, <3>2, Zenon DEF b, ReadsAndWrites
<1> HIDE DEF end, values
<1>7. FieldsBytes(c, kinds, values) = FlattenSeq(Pieces(bytes, end, n))
  BY <1>1, <1>6 DEF FieldsBytes, Pieces
<1>8. FieldsBytes(c, kinds, values) = Piece(bytes, end[0], end[n])
  BY <1>5, <1>7, FlattenPieces
<1>9. end[0] = at /\ end[n] = at + w
  BY <1>2, <1>3 DEF FieldEnds
<1> QED
  BY <1>1, <1>6, <1>8, <1>9 DEF values

\* The width of some fields is a number.
LEMMA TotalWidthType ==
    ASSUME NEW c \in Configs, NEW kinds \in Seq(Kinds)
    PROVE  TotalWidth(c, kinds) \in Nat
<1>1. PICK n \in Nat : n = Len(kinds)
  BY LenProperties
<1>2. PICK cut : FieldEnds(cut, c, kinds, n) /\ TotalWidth(c, kinds) = cut[n]
  BY <1>1, TotalWidthIs
<1> QED
  BY <1>2 DEF FieldEnds

\* The number of rows, as the decoders read it.
LEMMA CountRead ==
    ASSUME NEW c \in Configs, NEW bytes \in Seq(Byte), NEW at \in Nat,
           NEW w \in Nat, w = Width(c, "L")
    PROVE  FieldsAt(c, <<"L">>, bytes, at)[1] = Number(Piece(bytes, at, at + w))
<1>1. DOMAIN <<"L">> = 1 .. 1 /\ <<"L">>[1] = "L" /\ 1 - 1 = 0 /\ 1 \in 1 .. 1
  OBVIOUS
<1>2. SubSeq(<<"L">>, 1, 0) = <<>> /\ <<>> \in Seq(Kinds) /\ Len(<<>>) = 0
  BY SubSeqEmpty
<1>3. TotalWidth(c, SubSeq(<<"L">>, 1, 0)) = 0
  <2>1. PICK cut : FieldEnds(cut, c, <<>>, 0) /\ TotalWidth(c, <<>>) = cut[0]
    BY <1>2, TotalWidthIs
  <2> QED
    BY <1>2, <2>1 DEF FieldEnds
<1>4. at + 0 = at
  OBVIOUS
<1> QED
  BY <1>1, <1>3, <1>4 DEF FieldsAt, Piece

\* More rows are at least as wide.
LEMMA ProductGrows ==
    ASSUME NEW w \in Nat, NEW i \in Nat, NEW n \in Nat, i <= n
    PROVE  i * w \in Nat /\ n * w \in Nat /\ i * w <= n * w
<1>1. PICK d \in Nat : n = i + d
  <2>1. n - i \in Nat /\ n = i + (n - i)
    OBVIOUS
  <2> QED
    BY <2>1
<1>2. n * w = i * w + d * w
  BY <1>1
<1>3. i * w \in Nat /\ d * w \in Nat
  OBVIOUS
<1> QED
  BY <1>2, <1>3

RowsAt(c, kinds, bytes, start, w, n) ==
    [i \in 1 .. n |-> FieldsAt(c, kinds, bytes, start + (i - 1) * w)]

\* Rows that are read from bytes are written as the same bytes.
LEMMA RowsOfBytes ==
    ASSUME NEW c \in Configs, NEW kinds \in Seq(Kinds), NEW bytes \in Seq(Byte),
           NEW start \in Nat, NEW w \in Nat, w = TotalWidth(c, kinds),
           NEW n \in Nat, start + n * w <= Len(bytes)
    PROVE  RowsBytes(c, kinds, RowsAt(c, kinds, bytes, start, w, n))
             = Piece(bytes, start, start + n * w)
<1> DEFINE rows == RowsAt(c, kinds, bytes, start, w, n)
<1> DEFINE end == [i \in 0 .. n |-> start + i * w]
<1>0. PICK len \in Nat : len = Len(bytes) /\ start + n * w <= len
  BY LenProperties
<1>1. ASSUME NEW i \in 0 .. n
      PROVE  end[i] = start + i * w /\ i * w \in Nat /\ end[i] \in 0 .. len
  <2>1. i * w \in Nat /\ n * w \in Nat /\ i * w <= n * w
    BY ProductGrows
  <2>2. PICK x \in Nat, y \in Nat : x = i * w /\ y = n * w /\ x <= y
    BY <2>1
  <2>3. start + y <= len
    BY <1>0, <2>2
  <2>4. start + x \in 0 .. len
    <3>1. x <= y
      BY <2>2
    <3> QED
      BY ONLY start \in Nat, len \in Nat, x \in Nat, y \in Nat, <2>3, <3>1
  <2>5. end[i] = start + i * w
    OBVIOUS
  <2> HIDE DEF end
  <2> QED
    BY <2>1, <2>2, <2>4, <2>5, Zenon
<1>2. ASSUME NEW i \in 1 .. n
      PROVE  /\ i - 1 \in 0 .. n /\ i \in 0 .. n
             /\ end[i - 1] = start + (i - 1) * w /\ end[i] = end[i - 1] + w
             /\ end[i - 1] \in Nat /\ end[i] <= len
  <2>1. PICK j \in 0 .. n : j = i - 1 /\ i = j + 1 /\ i \in 0 .. n
    OBVIOUS
  <2>2. i * w = j * w + w
    BY <2>1
  <2>3. /\ end[j] = start + j * w /\ j * w \in Nat /\ end[j] \in 0 .. len
        /\ end[i] = start + i * w /\ i * w \in Nat /\ end[i] \in 0 .. len
    BY <1>1, <2>1
  <2>4. PICK x \in Nat, y \in Nat : x = j * w /\ y = i * w /\ y = x + w
    BY <2>2, <2>3
  <2> HIDE DEF end
  <2>5. end[j] = start + x /\ end[i] = start + y /\ end[i] <= len
    BY <2>3, <2>4
  <2>6. end[i] = end[j] + w /\ end[j] \in Nat
    <3>1. y = x + w /\ start + (x + w) = (start + x) + w
      BY <2>4
    <3>2. start + x \in Nat
      OBVIOUS
    <3> QED
      BY <2>5, <3>1, <3>2, Zenon
  <2> QED
    BY <2>1, <2>3, <2>5, <2>6
<1>3. Cuts(end, n, Len(bytes))
  <2>1. end \in [0 .. n -> 0 .. len]
    BY <1>1
  <2>2. ASSUME NEW i \in 1 .. n
        PROVE  end[i - 1] <= end[i]
    BY <1>2
  <2> HIDE DEF end
  <2> QED
    BY <1>0, <2>1, <2>2 DEF Cuts
<1> HIDE DEF end
<1>4. ASSUME NEW i \in 1 .. n
      PROVE  FieldsBytes(c, kinds, rows[i]) = Piece(bytes, end[i - 1], end[i])
  <2>1. PICK p \in Nat : p = end[i - 1] /\ end[i] = p + w /\ p = start + (i - 1) * w
    BY <1>2
  <2>2. rows[i] = FieldsAt(c, kinds, bytes, p)
    BY <2>1 DEF RowsAt
  <2>3. p + w <= Len(bytes)
    BY <1>0, <1>2, <2>1
  <2>4. FieldsBytes(c, kinds, FieldsAt(c, kinds, bytes, p)) = Piece(bytes, p, p + w)
    BY <2>3, FieldsOfBytes
  <2> QED
    BY <2>1, <2>2, <2>4
<1>5. RowsBytes(c, kinds, rows) = FlattenSeq(Pieces(bytes, end, n))
  <2>1. DOMAIN rows = 1 .. n
    BY DEF RowsAt
  <2> QED
    BY <1>4, <2>1 DEF RowsBytes, Pieces
<1>6. FlattenSeq(Pieces(bytes, end, n)) = Piece(bytes, end[0], end[n])
  BY <1>3, FlattenPieces
<1>7. end[0] = start /\ end[n] = start + n * w
  <2>1. 0 * w = 0
    OBVIOUS
  <2>2. end[0] = start + 0 * w /\ end[n] = start + n * w
    BY <1>1
  <2> QED
    BY <2>1, <2>2
<1> QED
  BY <1>5, <1>6, <1>7

\* n rows of w bytes each, from start on, end at end.
Spans(start, n, w, end) == start + n * w = end

\* The same, of rows that end at a place of that name.
LEMMA RowsSpan ==
    ASSUME NEW c \in Configs, NEW kinds \in Seq(Kinds), NEW bytes \in Seq(Byte),
           NEW start \in Nat, NEW w \in Nat, w = TotalWidth(c, kinds),
           NEW n \in Nat, NEW end, Spans(start, n, w, end), end <= Len(bytes)
    PROVE  RowsBytes(c, kinds, RowsAt(c, kinds, bytes, start, w, n))
             = Piece(bytes, start, end)
<1>1. start + n * w = end
  BY DEF Spans
<1> QED
  BY <1>1, RowsOfBytes

-----------------------------------------------------------------------------
(* Decoding is exact.                                                       *)

\* What follows the header of a message, but for the CRC.
FixedPart(c, m) == FieldsBytes(c, Fixed(m.type), m.fixed)

CountedPart(c, m) ==
    IF Counted(m.type)
    THEN FieldBytes(c, "L", Len(m.rows)) \o RowsBytes(c, Row(m.type), m.rows)
    ELSE <<>>

BodyOf(m, c, body) ==
    /\ FixedPart(c, m) \in Seq(Byte) /\ CountedPart(c, m) \in Seq(Byte)
    /\ FixedPart(c, m) \o CountedPart(c, m) = body

\* What was decoded from a body is what the body says.
LEMMA DecodedBody ==
    ASSUME NEW c \in Configs, NEW t \in Types, NEW txn, NEW body \in Seq(Byte),
           NEW d, d = DecodeBody(c, t, txn, body), d.kind = "ok"
    PROVE  /\ d.msg.type = t /\ d.msg.txn = txn
           /\ BodyOf(d.msg, c, body)
<1> DEFINE fixedWidth == TotalWidth(c, Fixed(t))
           rest       == Len(body) - fixedWidth
           fixed      == FieldsAt(c, Fixed(t), body, 0)
           message(rows) == [type |-> t, txn |-> txn, fixed |-> fixed, rows |-> rows]
           lengthWidth == Width(c, "L")
           count == FieldsAt(c, <<"L">>, body, fixedWidth)[1]
           width == TotalWidth(c, Row(t))
           at(i) == fixedWidth + lengthWidth + (i - 1) * width
           uncounted == IF Exactly(rest, 0) THEN Decoded("ok", message(<<>>))
                                            ELSE Throws("malformed")
           decodedRows == [i \in 1 .. count |-> FieldsAt(c, Row(t), body, at(i))]
           counted ==
              CASE rest < lengthWidth -> Throws("malformed")
                [] rest >= lengthWidth ->
                      IF Exactly(rest - lengthWidth, count * width)
                      THEN Decoded("ok", message(decodedRows))
                      ELSE Throws(IF Role(t) = "cmd" THEN "error" ELSE "malformed")
<1>1. d = CASE rest < 0                    -> Throws("malformed")
            [] rest >= 0 /\ Counted(t)     -> counted
            [] rest >= 0 /\ ~Counted(t)    -> uncounted
  BY Zenon DEF DecodeBody
<1> HIDE DEF counted, uncounted
<1>2. Throws("malformed").kind # "ok" /\ Throws("error").kind # "ok"
  BY DEF Throws, Decoded
<1>3. PICK f \in Nat, len \in Nat : f = fixedWidth /\ len = Len(body)
  BY FixedKinds, TotalWidthType, LenProperties
<1>4. rest = len - f
  BY <1>3
<1>5. ~(rest < 0)
  <2> HIDE DEF rest
  <2> QED
    BY <1>1, <1>2, <1>4
<1>6. rest >= 0 /\ f <= len
  BY <1>3, <1>4, <1>5
<1>7. FieldsBytes(c, Fixed(t), fixed) = Piece(body, 0, f)
  <2>1. Fixed(t) \in Seq(Kinds) /\ 0 \in Nat /\ 0 + f = f
    BY FixedKinds
  <2>2. 0 + f <= Len(body)
    BY <1>3, <1>6
  <2> QED
    BY <1>3, <2>1, <2>2, FieldsOfBytes
<1>8. CASE ~Counted(t)
  <2>1. d = uncounted
    BY <1>1, <1>5, <1>6, <1>8
  <2>2. Exactly(rest, 0) /\ d = Decoded("ok", message(<<>>))
    BY <1>2, <2>1 DEF uncounted
  <2>3. f = len
    BY <1>3, <1>4, <2>2 DEF Exactly
  <2>4. d.msg = message(<<>>)
    BY <2>2 DEF Decoded
  <2>5. FixedPart(c, d.msg) = Piece(body, 0, f) /\ CountedPart(c, d.msg) = <<>>
    BY <1>7, <1>8, <2>4 DEF FixedPart, CountedPart
  <2>6. Piece(body, 0, f) = body
    BY <1>3, <2>3, PieceFull
  <2>7. body \o <<>> = body
    BY ConcatEmptySeq
  <2>8. d.msg.type = t /\ d.msg.txn = txn /\ <<>> \in Seq(Byte)
    BY <2>4
  <2> QED
    BY <2>5, <2>6, <2>7, <2>8 DEF BodyOf
<1>9. CASE Counted(t)
  <2>1. d = counted
    BY <1>1, <1>5, <1>6, <1>9
  <2>2. PICK l \in Nat, w \in Nat : l = lengthWidth /\ w = width
    <3>1. lengthWidth \in 1 .. 8
      BY WidthType DEF Kinds
    <3>2. width \in Nat
      BY <1>9, RowKinds, TotalWidthType
    <3> QED
      BY <3>1, <3>2
  <2>3. ~(rest < lengthWidth)
    <3> SUFFICES ASSUME rest < lengthWidth PROVE FALSE
      OBVIOUS
    <3>1. ~(rest >= lengthWidth)
      BY <1>4, <2>2
    <3>2. counted = Throws("malformed")
      BY <3>1 DEF counted
    <3> QED
      BY <1>2, <2>1, <3>2
  <2>4. rest >= lengthWidth /\ f + l <= len
    BY <1>3, <1>4, <2>2, <2>3
  <2>5. Exactly(rest - lengthWidth, count * width) /\ d = Decoded("ok", message(decodedRows))
    BY <1>2, <2>1, <2>3, <2>4 DEF counted
  <2>6. d.msg = message(decodedRows)
    BY <2>5 DEF Decoded
  <2>7. count = Number(Piece(body, f, f + l))
    BY <1>3, <2>2, CountRead
  <2>8. Piece(body, f, f + l) \in Seq(Byte) /\ Len(Piece(body, f, f + l)) = l
    <3>1. f <= f + l /\ f + l \in Nat /\ (f + l) - f = l
      OBVIOUS
    <3>2. f + l <= Len(body)
      BY <1>3, <2>4
    <3> QED
      BY <3>1, <3>2, PieceType
  <2>9. count \in Nat /\ FieldBytes(c, "L", count) = Piece(body, f, f + l)
    <3>1. "L" \in Kinds
      BY DEF Kinds
    <3> QED
      <4> DEFINE b == Piece(body, f, f + l)
      <4> HIDE DEF b
      <4>1. b \in Seq(Byte) /\ Len(b) = Width(c, "L")
        BY <2>2, <2>8 DEF b
      <4>2. ReadsAndWrites(c, "L", b)
        BY <3>1, <4>1, BytesOfNumber
      <4> QED
        BY <2>7, <4>2, Zenon DEF b, ReadsAndWrites
  <2>10. PICK n \in Nat : n = count
    BY <2>9
  <2>11. (f + l) + n * w = len
    <3>1. PICK z \in Nat : z = n * w
      BY <1>9, <2>2, ProductGrows
    <3>2. rest - l = z
      <4> HIDE DEF rest, count
      <4> QED
        BY <2>2, <2>5, <2>10, <3>1, Zenon DEF Exactly
    <3> HIDE DEF rest
    <3>3. (f + l) + z = len
      BY <1>4, <3>2
    <3> QED
      BY <3>1, <3>3, Zenon
  <2>12. RowsBytes(c, Row(t), decodedRows) = Piece(body, f + l, len)
    <3>1. decodedRows = RowsAt(c, Row(t), body, f + l, w, n)
      BY <1>3, <2>2, <2>10 DEF RowsAt
    <3>2. Row(t) \in Seq(Kinds) /\ f + l \in Nat
      BY <1>9, RowKinds
    <3>3. Spans(f + l, n, w, len) /\ len <= Len(body)
      BY <1>3, <2>11 DEF Spans
    <3>4. PICK start \in Nat : start = f + l
      BY <3>2
    <3>5. w = TotalWidth(c, Row(t))
      BY <2>2
    <3> HIDE DEF decodedRows
    <3> QED
      BY <3>1, <3>2, <3>3, <3>4, <3>5, RowsSpan
  <2>13. Len(decodedRows) = count
    BY <2>9
  <2>18. /\ d.msg.type = t /\ d.msg.txn = txn /\ d.msg.fixed = fixed
          /\ d.msg.rows = decodedRows
    BY <2>6
  <2> HIDE DEF decodedRows, count, fixed
  <2>14. /\ FixedPart(c, d.msg) = Piece(body, 0, f)
         /\ CountedPart(c, d.msg) = Piece(body, f, f + l) \o Piece(body, f + l, len)
    BY <1>7, <1>9, <2>9, <2>12, <2>13, <2>18 DEF FixedPart, CountedPart
  <2>15. Piece(body, f, f + l) \o Piece(body, f + l, len) = Piece(body, f, len)
    <3>1. f <= f + l /\ f + l \in Nat
      OBVIOUS
    <3>2. len <= Len(body)
      BY <1>3
    <3>3. Touching(body, f, f + l, len)
      BY <2>4, <3>1, <3>2, AdjacentPieces
    <3> QED
      BY <3>3, Zenon DEF Touching
  <2>16. Piece(body, 0, f) \o Piece(body, f, len) = Piece(body, 0, len)
    <3>1. 0 \in Nat /\ 0 <= f
      OBVIOUS
    <3>2. len <= Len(body)
      BY <1>3
    <3>3. Touching(body, 0, f, len)
      BY <1>6, <3>1, <3>2, AdjacentPieces
    <3> QED
      BY <3>3, Zenon DEF Touching
  <2>17. Piece(body, 0, len) = body
    BY <1>3, PieceFull
  <2>19. Piece(body, 0, f) \in Seq(Byte)
    <3>1. 0 \in Nat /\ 0 <= f /\ f <= Len(body)
      BY <1>3, <1>6
    <3> QED
      BY <3>1, PieceType
  <2>20. Piece(body, f, len) \in Seq(Byte)
    <3>1. f <= len /\ len <= Len(body)
      BY <1>3, <1>6
    <3> QED
      BY <3>1, PieceType
  <2> QED
    BY <2>14, <2>15, <2>16, <2>17, <2>18, <2>19, <2>20, Zenon DEF BodyOf
<1> QED
  BY <1>8, <1>9

\* A payload is the header and the parts of the body.
LEMMA PayloadParts ==
    ASSUME NEW c, NEW m
    PROVE  Payload(c, m) = (<<m.txn, MessageType[m.type].code>> \o FixedPart(c, m))
                             \o CountedPart(c, m)
BY DEF Payload, FixedPart, CountedPart, RowsBytes

\* The first two bytes of a sequence, as a piece and one by one.
LEMMA FirstTwo ==
    ASSUME NEW s \in Seq(Byte), 2 <= Len(s)
    PROVE  /\ Piece(s, 0, 2) = <<s[1], s[2]>>
           /\ <<s[1], s[2]>> \in Seq(Byte)
<1>1. /\ Piece(s, 0, 2) \in Seq(Byte) /\ Len(Piece(s, 0, 2)) = 2
      /\ Piece(s, 0, 2)[1] = s[1] /\ Piece(s, 0, 2)[2] = s[2]
  <2>1. 0 \in Nat /\ 2 \in Nat /\ 0 <= 2
    OBVIOUS
  <2>2. /\ Piece(s, 0, 2) \in Seq(Byte) /\ Len(Piece(s, 0, 2)) = 2 - 0
        /\ \A i \in 1 .. 2 - 0 : Piece(s, 0, 2)[i] = s[0 + i]
    BY <2>1, PieceType
  <2> QED
    BY <2>2
<1>2. s[1] \in Byte /\ s[2] \in Byte
  OBVIOUS
<1>3. PICK h \in Seq(Byte) : h = <<s[1], s[2]>>
  <2>1. PICK x \in Byte, y \in Byte : x = s[1] /\ y = s[2]
    BY <1>2
  <2>2. <<x, y>> \in Seq(Byte)
    OBVIOUS
  <2> QED
    BY <2>1, <2>2, Zenon
<1>4. Len(h) = 2 /\ h[1] = s[1] /\ h[2] = s[2]
  BY <1>3
<1>5. \A i \in 1 .. Len(h) : Piece(s, 0, 2)[i] = h[i]
  BY <1>1, <1>4
<1>6. Piece(s, 0, 2) = h
  BY <1>1, <1>4, <1>5, SeqEqual
<1> QED
  BY <1>3, <1>6

\* What was decoded from a frame is what the frame says.
LEMMA DecodedExactly ==
    ASSUME NEW c \in Configs, NEW f, f.bytes \in Seq(Byte), NEW cases \in SUBSET Types,
           NEW d, d = Decode(c, f, cases), d.kind = "ok"
    PROVE  /\ SubSeq(f.bytes, 1, Len(f.bytes) - c.CrcBytes) = Payload(c, d.msg)
           /\ d.msg.type \in cases
<1> DEFINE bytes == f.bytes
           code == bytes[2]
           known == {t \in cases : MessageType[t].code = code}
           type == CHOOSE t \in known : TRUE
           body == SubSeq(bytes, 3, Len(bytes) - c.CrcBytes)
           taken == IF known = {} THEN Throws("unexpected")
                    ELSE DecodeBody(c, type, bytes[1], body)
<1>1. d = CASE Len(bytes) < 2 + c.CrcBytes -> Throws("malformed")
            [] Len(bytes) >= 2 + c.CrcBytes /\ ~f.crc_ok -> Throws("crc_mismatch")
            [] Len(bytes) >= 2 + c.CrcBytes /\ f.crc_ok -> taken
  BY Zenon DEF Decode
<1>2. /\ Throws("malformed").kind # "ok" /\ Throws("crc_mismatch").kind # "ok"
      /\ Throws("unexpected").kind # "ok"
  BY DEF Throws, Decoded
<1>3. PICK len \in Nat, crc \in 1 .. 4 : len = Len(bytes) /\ crc = c.CrcBytes
  BY LenProperties, ConfigTypes
<1> HIDE DEF taken
<1>4. len >= 2 + crc /\ d = taken
  BY <1>1, <1>2, <1>3
<1>5. known # {} /\ d = DecodeBody(c, type, bytes[1], body)
  BY <1>2, <1>4 DEF taken
<1>6. type \in cases /\ type \in Types /\ MessageType[type].code = bytes[2]
  BY <1>5
<1>7. PICK size \in Nat : size = len - crc /\ 2 <= size /\ size <= Len(bytes)
  BY <1>3, <1>4
<1>8. body = Piece(bytes, 2, size) /\ body \in Seq(Byte)
  <2>1. body = Piece(bytes, 2, size)
    BY <1>3, <1>7 DEF Piece
  <2>2. 2 \in Nat /\ 2 <= size /\ size <= Len(bytes)
    BY <1>7
  <2>3. Piece(bytes, 2, size) \in Seq(Byte)
    BY <2>2, PieceType
  <2> QED
    BY <2>1, <2>3
<1>9. /\ d.msg.type = type /\ d.msg.txn = bytes[1]
      /\ FixedPart(c, d.msg) \in Seq(Byte) /\ CountedPart(c, d.msg) \in Seq(Byte)
      /\ FixedPart(c, d.msg) \o CountedPart(c, d.msg) = body
  <2>0. bytes[1] \in Byte
    BY <1>7
  <2>1. PICK t \in Types, x \in Byte, b \in Seq(Byte) :
           t = type /\ x = bytes[1] /\ b = body
    <3> HIDE DEF type, body
    <3> QED
      BY <1>6, <1>8, <2>0
  <2> HIDE DEF type, body
  <2>2. d = DecodeBody(c, t, x, b)
    BY <1>5, <2>1
  <2>3. d.msg.type = t /\ d.msg.txn = x /\ BodyOf(d.msg, c, b)
    BY <2>2, DecodedBody
  <2> QED
    BY <2>1, <2>3, Zenon DEF BodyOf
<1> DEFINE header == <<bytes[1], bytes[2]>>
<1>10. Piece(bytes, 0, 2) = header /\ header \in Seq(Byte)
  <2>1. PICK b \in Seq(Byte) : b = bytes /\ 2 <= Len(b)
    BY <1>7
  <2>2. Piece(b, 0, 2) = <<b[1], b[2]>> /\ <<b[1], b[2]>> \in Seq(Byte)
    BY <2>1, FirstTwo
  <2> QED
    BY <2>1, <2>2, Zenon
<1>11. Piece(bytes, 0, 2) \o Piece(bytes, 2, size) = Piece(bytes, 0, size)
  <2>1. 0 \in Nat /\ 2 \in Nat /\ 0 <= 2 /\ 2 <= size /\ size <= Len(bytes)
    BY <1>7
  <2>2. Touching(bytes, 0, 2, size)
    BY <2>1, AdjacentPieces
  <2> QED
    BY <2>2, Zenon DEF Touching
<1>12. Payload(c, d.msg) = (header \o FixedPart(c, d.msg)) \o CountedPart(c, d.msg)
  BY <1>6, <1>9, PayloadParts
<1>13. Payload(c, d.msg) = header \o (FixedPart(c, d.msg) \o CountedPart(c, d.msg))
  <2> HIDE DEF header
  <2>1. PICK h \in Seq(Byte), x \in Seq(Byte), y \in Seq(Byte) :
           h = header /\ x = FixedPart(c, d.msg) /\ y = CountedPart(c, d.msg)
    BY <1>9, <1>10
  <2>2. (h \o x) \o y = h \o (x \o y)
    BY ConcatAssociative, SMTT(20)
  <2> QED
    BY <1>12, <2>1, <2>2, Zenon
<1>14. Payload(c, d.msg) = Piece(bytes, 0, size)
  BY <1>8, <1>9, <1>10, <1>11, <1>13, Zenon
<1>15. d.msg.type \in cases
  <2> HIDE DEF type
  <2> QED
    BY <1>6, <1>9
<1>16. SubSeq(bytes, 1, len - crc) = Payload(c, d.msg)
  BY <1>7, <1>14 DEF Piece
<1> QED
  BY <1>3, <1>15, <1>16

\* A byte more makes a sequence of bytes.
LEMMA AppendType ==
    ASSUME NEW T, NEW s \in Seq(T), NEW e \in T
    PROVE  Append(s, e) \in Seq(T)
OBVIOUS

\* Bytes cut off leave a sequence of bytes.
LEMMA SubSeqType ==
    ASSUME NEW T, NEW s \in Seq(T), NEW n \in Nat, n <= Len(s)
    PROVE  SubSeq(s, 1, n) \in Seq(T)
<1>1. \A i \in 1 .. n : s[i] \in T
  OBVIOUS
<1> QED
  BY <1>1, SubSeqProperties

OutcomeKinds == {"none", "ok", "malformed", "error", "unexpected", "crc_mismatch"}

\* Decoding ends in a message or in an exception of the decoders.
LEMMA DecodedKind ==
    ASSUME NEW c \in Configs, NEW f, f.bytes \in Seq(Byte), f.crc_ok \in BOOLEAN,
           NEW cases \in SUBSET Types
    PROVE  Decode(c, f, cases).kind \in OutcomeKinds
<1> DEFINE bytes == f.bytes
           known == {t \in cases : MessageType[t].code = bytes[2]}
           type == CHOOSE t \in known : TRUE
           body == SubSeq(bytes, 3, Len(bytes) - c.CrcBytes)
           d == DecodeBody(c, type, bytes[1], body)
           taken == IF known = {} THEN Throws("unexpected") ELSE d
<1>1. Decode(c, f, cases) =
        CASE Len(bytes) < 2 + c.CrcBytes -> Throws("malformed")
          [] Len(bytes) >= 2 + c.CrcBytes /\ ~f.crc_ok -> Throws("crc_mismatch")
          [] Len(bytes) >= 2 + c.CrcBytes /\ f.crc_ok -> taken
  BY Zenon DEF Decode
<1>2. \A kind : Throws(kind).kind = kind /\ \A m : Decoded(kind, m).kind = kind
  BY DEF Throws, Decoded
<1>3. PICK len \in Nat, crc \in 1 .. 4 : len = Len(bytes) /\ crc = c.CrcBytes
  BY LenProperties, ConfigTypes
<1>4. ASSUME known # {}, len >= 2 + crc
      PROVE  d.kind \in OutcomeKinds
  <2>1. PICK t \in Types : t = type
    BY <1>4
  <2>2. PICK size \in Nat : size = len - crc /\ 2 <= size /\ size <= Len(bytes)
    BY <1>3, <1>4
  <2>3. body \in Seq(Byte)
    <3>1. body = Piece(bytes, 2, size)
      BY <1>3, <2>2 DEF Piece
    <3>2. 2 \in Nat /\ 2 <= size /\ size <= Len(bytes)
      BY <2>2
    <3>3. Piece(bytes, 2, size) \in Seq(Byte)
      BY <3>2, PieceType
    <3> QED
      BY <3>1, <3>3
  <2>4. PICK b \in Seq(Byte) : b = body
    BY <2>3
  <2> HIDE DEF type, body
  <2>5. DecodeBody(c, t, bytes[1], b).kind \in OutcomeKinds
    <3> DEFINE w == TotalWidth(c, Fixed(t))
               l == Width(c, "L")
               rest == Len(b) - w
               e == DecodeBody(c, t, bytes[1], b)
    <3> SUFFICES e.kind \in OutcomeKinds
      OBVIOUS
    <3>1. PICK x \in Nat, y \in Nat, z \in 1 .. 8 : x = Len(b) /\ y = w /\ z = l
      BY FixedKinds, TotalWidthType, LenProperties, WidthType DEF Kinds
    <3>2. rest = x - y
      BY <3>1
    <3>3. CASE rest < 0
      <4>1. ~(rest >= 0)
        BY <3>2, <3>3
      <4>2. e = Throws("malformed")
        BY <3>3, <4>1, Zenon DEF DecodeBody
      <4> HIDE DEF e
      <4> QED
        BY <1>2, <4>2 DEF OutcomeKinds
    <3>4. CASE rest >= 0 /\ ~Counted(t)
      <4>1. ~(rest < 0)
        BY <3>2, <3>4
      <4>2. e \in {Decoded("ok", e.msg), Throws("malformed")}
        <5>1. \E m : e = IF Exactly(rest, 0) THEN Decoded("ok", m) ELSE Throws("malformed")
          BY <3>4, <4>1, Zenon DEF DecodeBody
        <5> HIDE DEF e
        <5> QED
          BY <5>1 DEF Decoded
      <4> HIDE DEF e
      <4> QED
        BY <1>2, <4>2 DEF OutcomeKinds
    <3>5. CASE rest >= 0 /\ Counted(t)
      <4>1. ~(rest < 0)
        BY <3>2, <3>5
      <4>2. \E m, s : e = CASE rest < l -> Throws("malformed")
                            [] rest >= l ->
                                  IF Exactly(rest - l, s)
                                  THEN Decoded("ok", m)
                                  ELSE Throws(IF Role(t) = "cmd" THEN "error"
                                                                 ELSE "malformed")
        BY <3>5, <4>1, Zenon DEF DecodeBody
      <4>3. rest < l \/ rest >= l
        BY <3>1, <3>2
      <4>4. ~(rest < l /\ rest >= l)
        BY <3>1, <3>2
      <4> HIDE DEF e, rest, l
      <4> QED
        BY <1>2, <4>2, <4>3, <4>4 DEF OutcomeKinds
    <3>6. rest < 0 \/ rest >= 0
      BY <3>2
    <3> QED
      BY <3>3, <3>4, <3>5, <3>6
  <2> QED
    BY <2>1, <2>4, <2>5
<1> HIDE DEF d
<1>5. len >= 2 + crc => taken.kind \in OutcomeKinds
  BY <1>2, <1>4 DEF OutcomeKinds
<1> HIDE DEF taken, bytes
<1>6. len < 2 + crc \/ len >= 2 + crc
  OBVIOUS
<1> QED
  BY <1>1, <1>2, <1>3, <1>5, <1>6 DEF OutcomeKinds

\* What has been decoded is what the frame decodes to.
CodecInv ==
    /\ TypeOK
    /\ stage = "at_server" => outcome = Decode(cfg, frame, commandCases)
    /\ stage = "at_client" => outcome = Decode(cfg, frame, responseCases)
    /\ stage \notin {"at_server", "at_client"} => outcome = Throws("none")

\* The strengthened invariant holds.
LEMMA CodecInvariant == Spec => []CodecInv
<1>1. Init => CodecInv
  <2> SUFFICES ASSUME Init PROVE CodecInv
    OBVIOUS
  <2>1. cfg \in Cfgs /\ msg.type \in Types /\ msg \in MessagesOf(cfg, msg.type)
    <3>1. PICK t \in Types : msg \in MessagesOf(cfg, t)
      BY DEF Init, Messages
    <3>2. msg.type = t
      BY <3>1 DEF MessagesOf
    <3> QED
      BY <3>1, <3>2 DEF Init
  <2>2. frame \in [bytes : Seq(Byte), crc_ok : BOOLEAN]
    <3>1. <<>> \in Seq(Byte)
      OBVIOUS
    <3> QED
      BY <3>1 DEF Init, NoFrame
  <2>3. outcome.kind = "none"
    BY DEF Init, Throws, Decoded
  <2> QED
    BY <2>1, <2>2, <2>3 DEF Init, CodecInv, TypeOK, Stages
<1>2. CodecInv /\ [Next]_vars => CodecInv'
  <2> SUFFICES ASSUME CodecInv, [Next]_vars PROVE CodecInv'
    OBVIOUS
  <2>0. /\ cfg \in Cfgs /\ cfg \in Configs /\ msg \in Messages(cfg)
        /\ frame.bytes \in Seq(Byte) /\ frame.crc_ok \in BOOLEAN
    <3>1. cfg \in Cfgs /\ cfg \in Configs
      BY CfgsAssumption DEF CodecInv, TypeOK
    <3>2. msg.type \in Types /\ msg \in MessagesOf(cfg, msg.type)
      BY DEF CodecInv, TypeOK
    <3>3. msg \in Messages(cfg)
      BY <3>2 DEF Messages
    <3> QED
      BY <3>1, <3>3 DEF CodecInv, TypeOK
  <2>1. CASE Encode
    <3>1. EncodedFrame(cfg, msg) \in [bytes : Seq(Byte), crc_ok : BOOLEAN]
      <4>1. EncodedFrame(cfg, msg).bytes \in Seq(Byte)
        BY <2>0, FrameLength
      <4> QED
        BY <4>1 DEF EncodedFrame
    <3> QED
      BY <2>1, <3>1 DEF Encode, CodecInv, TypeOK, Stages
  <2>2. CASE Alter
    <3>1. frame' \in [bytes : Seq(Byte), crc_ok : BOOLEAN]
      <4>0. PICK ok \in BOOLEAN : \E bytes :
                /\ frame' = [bytes |-> bytes, crc_ok |-> ok]
                /\ \/ \E n \in 0 .. Len(frame.bytes) - 1 : bytes = SubSeq(frame.bytes, 1, n)
                   \/ \E b \in Flips : bytes = Append(frame.bytes, b)
                   \/ \E i \in DOMAIN frame.bytes, b \in Flips :
                         bytes = [frame.bytes EXCEPT ![i] = b]
        BY <2>2, Zenon DEF Alter
      <4>1. PICK bytes :
                /\ frame' = [bytes |-> bytes, crc_ok |-> ok]
                /\ \/ \E n \in 0 .. Len(frame.bytes) - 1 : bytes = SubSeq(frame.bytes, 1, n)
                   \/ \E b \in Flips : bytes = Append(frame.bytes, b)
                   \/ \E i \in DOMAIN frame.bytes, b \in Flips :
                         bytes = [frame.bytes EXCEPT ![i] = b]
        BY <4>0, Zenon
      <4>2. CASE \E n \in 0 .. Len(frame.bytes) - 1 : bytes = SubSeq(frame.bytes, 1, n)
        <5>1. PICK n \in 0 .. Len(frame.bytes) - 1 : bytes = SubSeq(frame.bytes, 1, n)
          BY <4>2
        <5>2. n \in Nat /\ n <= Len(frame.bytes)
          BY <2>0, LenProperties
        <5> QED
          BY <2>0, <4>1, <5>1, <5>2, SubSeqType
      <4>3. CASE \E b \in Flips : bytes = Append(frame.bytes, b)
        BY <2>0, <4>1, <4>3, AppendType, FlipsAssumption
      <4>4. CASE \E i \in DOMAIN frame.bytes, b \in Flips :
                    bytes = [frame.bytes EXCEPT ![i] = b]
        <5>1. PICK i \in DOMAIN frame.bytes, b \in Flips :
                 bytes = [frame.bytes EXCEPT ![i] = b]
          BY <4>4
        <5>2. i \in 1 .. Len(frame.bytes) /\ b \in Byte
          BY <2>0, LenProperties, FlipsAssumption
        <5>3. bytes \in Seq(Byte)
          BY <2>0, <5>1, <5>2, ExceptSeq
        <5> QED
          BY <4>1, <5>3
      <4> QED
        BY <4>1, <4>2, <4>3, <4>4
    <3> QED
      BY <2>2, <3>1 DEF Alter, CodecInv, TypeOK, Stages
  <2>3. CASE decodeCommand
    <3>1. Decode(cfg, frame, commandCases).kind \in OutcomeKinds
      BY <2>0, DecodedKind, CasesAreSides
    <3> QED
      BY <2>3, <3>1 DEF decodeCommand, DecodeBy, CodecInv, TypeOK, OutcomeKinds, Stages
  <2>3b. CASE decodeResponse
    <3>1. Decode(cfg, frame, responseCases).kind \in OutcomeKinds
      BY <2>0, DecodedKind, CasesAreSides
    <3> QED
      BY <2>3b, <3>1 DEF decodeResponse, DecodeBy, CodecInv, TypeOK, OutcomeKinds, Stages
  <2>4. CASE UNCHANGED vars
    BY <2>4 DEF vars, CodecInv, TypeOK
  <2> QED
    BY <2>1, <2>2, <2>3, <2>3b, <2>4 DEF Next
<1> QED
  BY <1>1, <1>2, PTL DEF Spec

\* Every state of the model is one of the types it is said to have: frames are
\* bytes, whatever is cut off, appended or changed, and decoding always ends in a
\* message or in one of the exceptions the decoders throw.
THEOREM CodecTypes == Spec => []TypeOK
<1>1. CodecInv => TypeOK
  BY DEF CodecInv
<1> QED
  BY <1>1, CodecInvariant, PTL

\* Bytes that decode to a message are the encoding of that message: no decoder
\* takes a truncated or extended frame, or one with another count, for a
\* message, even if its CRC matches; and decodeCommand returns commands only,
\* decodeResponse anything but commands (Serdes.h:283-371, 454-550, 610-1053).
THEOREM DecodingIsExact == Spec => []DecodesExactly
<1>1. CodecInv => DecodesExactly
  <2> SUFFICES ASSUME CodecInv, outcome.kind = "ok"
               PROVE  /\ SubSeq(frame.bytes, 1, Len(frame.bytes) - cfg.CrcBytes)
                           = Payload(cfg, outcome.msg)
                      /\ stage = "at_server" <=> Role(outcome.msg.type) = "cmd"
    BY DEF DecodesExactly
  <2>1. \/ stage = "at_server" /\ outcome = Decode(cfg, frame, commandCases)
        \/ stage = "at_client" /\ outcome = Decode(cfg, frame, responseCases)
    BY DEF CodecInv, Throws, Decoded
  <2>2. cfg \in Configs /\ frame.bytes \in Seq(Byte)
    BY CfgsAssumption DEF CodecInv, TypeOK
  <2>3. commandCases \in SUBSET Types /\ responseCases \in SUBSET Types
    BY CasesAreSides
  <2>4. ASSUME NEW cases \in SUBSET Types, outcome = Decode(cfg, frame, cases)
        PROVE  /\ SubSeq(frame.bytes, 1, Len(frame.bytes) - cfg.CrcBytes)
                    = Payload(cfg, outcome.msg)
               /\ outcome.msg.type \in cases
    BY <2>2, <2>4, DecodedExactly
  <2>5. CASE stage = "at_server"
    <3>1. outcome = Decode(cfg, frame, commandCases)
      BY <2>1, <2>5
    <3>2. outcome.msg.type \in commandCases
      BY <2>3, <2>4, <3>1
    <3>3. Role(outcome.msg.type) = "cmd"
      BY <3>2, CasesAreSides
    <3> QED
      BY <2>3, <2>4, <2>5, <3>1, <3>3
  <2>6. CASE stage = "at_client"
    <3>1. outcome = Decode(cfg, frame, responseCases)
      BY <2>1, <2>6
    <3>2. outcome.msg.type \in responseCases
      BY <2>3, <2>4, <3>1
    <3>3. Role(outcome.msg.type) # "cmd"
      BY <3>2, CasesAreSides
    <3> QED
      BY <2>3, <2>4, <2>6, <3>1, <3>3
  <2> QED
    BY <2>1, <2>5, <2>6
<1> QED
  BY <1>1, CodecInvariant, PTL

-----------------------------------------------------------------------------
(* Encoding and decoding again.                                             *)

\* The powers of 256.
LEMMA CapacityIs ==
    /\ \A i \in 0 .. 8 : Capacity[i] \in Nat \ {0}
    /\ Capacity[0] = 1
    /\ \A i \in 1 .. 8 : Capacity[i] = 256 * Capacity[i - 1]
<1> DEFINE Is(f) == f = [i \in 0 .. 8 |-> IF i = 0 THEN 1 ELSE 256 * f[i - 1]]
<1>1. \E f : Is(f)
  <2> DEFINE h == [p \in Nat \X (1 .. 8) |-> 256 * p[1]]
  <2>1. h \in [Nat \X (1 .. 8) -> Nat]
    OBVIOUS
  <2> HIDE DEF h
  <2>2. PICK f \in [0 .. 8 -> Nat] : Recursive(f, 1, h, 8)
    <3>1. 1 \in Nat /\ 8 \in Nat
      OBVIOUS
    <3> QED
      BY <2>1, <3>1, Recursion
  <2>3. f[0] = 1 /\ \A i \in 1 .. 8 : f[i] = h[<<f[i - 1], i>>]
    BY <2>2 DEF Recursive
  <2>4. ASSUME NEW i \in 0 .. 8
        PROVE  f[i] = IF i = 0 THEN 1 ELSE 256 * f[i - 1]
    <3>1. CASE i = 0
      BY <2>3, <3>1
    <3>2. CASE i # 0
      <4>1. i \in 1 .. 8 /\ <<f[i - 1], i>> \in Nat \X (1 .. 8)
        BY <3>2
      <4>2. h[<<f[i - 1], i>>] = 256 * f[i - 1]
        BY <4>1 DEF h
      <4> QED
        BY <2>3, <3>2, <4>1, <4>2
    <3> QED
      BY <3>1, <3>2
  <2>5. f = [i \in 0 .. 8 |-> f[i]]
    OBVIOUS
  <2>6. Is(f)
    BY <2>4, <2>5
  <2> QED
    BY <2>6
<1>2. Is(Capacity)
  BY <1>1, Zenon DEF Capacity
<1>3. Capacity[0] = 1 /\ \A i \in 1 .. 8 : Capacity[i] = 256 * Capacity[i - 1]
  <2>1. 0 \in 0 .. 8 /\ \A i \in 1 .. 8 : i \in 0 .. 8 /\ i # 0
    OBVIOUS
  <2> QED
    BY <1>2, <2>1
<1> DEFINE S == {i \in Nat : i <= 8 => Capacity[i] \in Nat \ {0}}
<1>4. Nat \subseteq S
  <2>1. 0 \in S
    BY <1>3
  <2>2. ASSUME NEW i \in Nat, i \in S
        PROVE  i + 1 \in S
    <3> SUFFICES ASSUME i + 1 <= 8 PROVE Capacity[i + 1] \in Nat \ {0}
      OBVIOUS
    <3>1. Capacity[i] \in Nat \ {0} /\ i + 1 \in 1 .. 8 /\ i + 1 - 1 = i
      BY <2>2
    <3>2. Capacity[i + 1] = 256 * Capacity[i]
      BY <1>3, <3>1
    <3> QED
      BY <3>1, <3>2
  <2> HIDE DEF S
  <2> QED
    BY <2>1, <2>2, NatSetInduction
<1> QED
  BY <1>3, <1>4

\* y and a are what is left of x and its low byte, b is y cut to m, and e is
\* what a and b make up, where n is the next capacity after m.
DigitOf(x, m, a, y, b, n, e) ==
    /\ a = x % 256 /\ y = x \div 256
    /\ n = 256 * m /\ b = y % m /\ e = a + 256 * b

\* The low byte and what the others say are the number, cut to that many bytes.
LEMMA ModStep ==
    ASSUME NEW x \in Nat, NEW m \in Nat \ {0}
    PROVE  (x % 256) + 256 * ((x \div 256) % m) = x % (256 * m)
<1> DEFINE q == x \div 256
           r == x % 256
           p == q \div m
           t == q % m
<1>1. q \in Nat /\ r \in 0 .. 255 /\ x = 256 * q + r
  BY Shifting DEF Byte
<1>2. p \in Int /\ t \in 0 .. m - 1
  <2> HIDE DEF q
  <2> QED
    BY <1>1, ModType
<1>3. q = m * p + t
  <2> HIDE DEF q
  <2> QED
    BY <1>1, <1>2, DivMod
<1>4. x = (256 * m) * p + (256 * t + r)
  <2> HIDE DEF q, r, p, t
  <2> QED
    BY <1>1, <1>2, <1>3
<1>5. 256 * t + r \in 0 .. (256 * m) - 1 /\ 256 * m \in Nat \ {0}
  <2> HIDE DEF q, r, p, t
  <2> QED
    BY <1>1, <1>2
<1>6. x % (256 * m) = 256 * t + r
  <2>1. PICK k \in Nat \ {0} : k = 256 * m
    BY <1>5
  <2>2. PICK u \in 0 .. k - 1 : u = 256 * t + r
    BY <1>5, <2>1
  <2>3. x = k * p + u
    BY <1>4, <2>1, <2>2
  <2> HIDE DEF q, r, p, t
  <2>4. x % k = u
    BY <1>2, <2>3, ModOf
  <2> QED
    BY <2>1, <2>2, <2>4
<1> QED
  <2> HIDE DEF p
  <2> QED
    BY <1>1, <1>2, <1>6

\* The same, of the numbers by their names.
LEMMA DigitIs ==
    ASSUME NEW x \in Nat, NEW m \in Nat \ {0}, NEW a, NEW y, NEW b, NEW n, NEW e,
           DigitOf(x, m, a, y, b, n, e)
    PROVE  e = x % n
<1>1. e = (x % 256) + 256 * ((x \div 256) % m) /\ n = 256 * m
  BY DEF DigitOf
<1>2. (x % 256) + 256 * ((x \div 256) % m) = x % (256 * m)
  BY ModStep
<1> QED
  BY <1>1, <1>2

\* A number that is written and read again is cut to the bytes of the field.
LEMMA NumberOfBytes ==
    ASSUME NEW c \in Configs, NEW kind \in Kinds, NEW v \in Nat
    PROVE  Number(FieldBytes(c, kind, v)) = v % Capacity[Width(c, kind)]
<1>1. PICK w \in Nat : w = Width(c, kind) /\ w \in 1 .. 8
  BY WidthType
<1>2. PICK f : Shifts(f, v, w) /\ FieldBytes(c, kind, v) = LowBytes(f, w)
  <2>1. IsWritten(c, kind, v, w)
    BY <1>1, FieldBytesIs
  <2> QED
    BY <2>1 DEF IsWritten
<1>3. PICK bytes \in Seq(Byte) : bytes = FieldBytes(c, kind, v) /\ Len(bytes) = w
  BY <1>1, FieldBytesType
<1>4. PICK s : Sums(s, bytes, w) /\ Number(bytes) = s[w]
  <2>1. IsRead(bytes, w)
    BY <1>3, NumberIs
  <2> QED
    BY <2>1 DEF IsRead
<1> DEFINE S == {i \in Nat : i <= w => s[i] = f[w - i] % Capacity[i]}
<1>5. Nat \subseteq S
  <2>1. 0 \in S
    <3>1. f[w] \in Nat /\ w - 0 = w
      BY <1>2 DEF Shifts
    <3>2. PICK x \in Nat : x = f[w - 0]
      BY <3>1
    <3>3. s[0] = 0 /\ Capacity[0] = 1
      BY <1>4, CapacityIs DEF Sums
    <3>4. x % 1 = 0
      OBVIOUS
    <3>5. s[0] = f[w - 0] % Capacity[0]
      BY <3>2, <3>3, <3>4, Zenon
    <3> QED
      BY <3>5
  <2>2. ASSUME NEW i \in Nat, i \in S
        PROVE  i + 1 \in S
    <3> SUFFICES ASSUME i + 1 <= w PROVE s[i + 1] = f[w - (i + 1)] % Capacity[i + 1]
      OBVIOUS
    <3>1. PICK j \in 1 .. w : j = w - i /\ j - 1 = w - (i + 1) /\ w + 1 - (i + 1) = j
                              /\ j - 1 \in 0 .. w
      OBVIOUS
    <3>2. s[i + 1] = bytes[j] + 256 * s[i]
      <4>1. i + 1 \in 1 .. w /\ i + 1 - 1 = i
        OBVIOUS
      <4> QED
        BY <1>4, <3>1, <4>1 DEF Sums
    <3>3. PICK x \in Nat : x = f[j - 1] /\ f[j] = x \div 256
      <4>1. f[j - 1] \in Nat /\ f[j] = f[j - 1] \div 256
        BY <1>2, <3>1 DEF Shifts
      <4> QED
        BY <4>1, Zenon
    <3>4. bytes[j] = x % 256
      BY <1>2, <1>3, <3>1, <3>3 DEF LowBytes
    <3>5. PICK m \in Nat \ {0} : m = Capacity[i] /\ Capacity[i + 1] = 256 * m
      <4>1. i + 1 \in 1 .. 8 /\ i \in 0 .. 8 /\ i + 1 - 1 = i
        BY <1>1
      <4>2. Capacity[i] \in Nat \ {0}
        BY <4>1, CapacityIs
      <4>3. PICK h \in 1 .. 8 : h = i + 1 /\ h - 1 = i
        BY <4>1
      <4>5. Capacity[h] = 256 * Capacity[h - 1]
        BY CapacityIs
      <4>4. Capacity[i + 1] = 256 * Capacity[i]
        BY <4>3, <4>5, Zenon
      <4> QED
        BY <4>2, <4>4, Zenon
    <3>6. s[i] = f[j] % m
      <4>1. s[i] = f[w - i] % Capacity[i]
        BY <2>2
      <4> QED
        BY <3>1, <3>5, <4>1
    <3>7. DigitOf(x, m, bytes[j], f[j], s[i], Capacity[i + 1], s[i + 1])
      BY <3>2, <3>3, <3>4, <3>5, <3>6 DEF DigitOf
    <3>8. s[i + 1] = x % Capacity[i + 1]
      BY <3>7, DigitIs
    <3>9. f[w - (i + 1)] = x
      BY <3>1, <3>3, Zenon
    <3> QED
      BY <3>8, <3>9
  <2> HIDE DEF S
  <2> QED
    BY <2>1, <2>2, NatSetInduction
<1>6. s[w] = f[w - w] % Capacity[w] /\ w - w = 0
  BY <1>5
<1>7. f[0] = v
  BY <1>2 DEF Shifts
<1> QED
  BY <1>1, <1>3, <1>4, <1>6, <1>7, Zenon

\* A piece of a piece is a piece.
SameInPiece(s, at, w, p, q) == Piece(Piece(s, at, at + w), p, q) = Piece(s, at + p, at + q)

\* A piece of a piece, counted from the beginning of the whole.
LEMMA PieceOfPiece ==
    ASSUME NEW T, NEW s \in Seq(T), NEW at \in Nat, NEW w \in Nat, at + w <= Len(s),
           NEW p \in Nat, NEW q \in Nat, p <= q, q <= w
    PROVE  SameInPiece(s, at, w, p, q)
<1> DEFINE x == Piece(s, at, at + w)
           y == Piece(x, p, q)
           z == Piece(s, at + p, at + q)
<1>1. /\ x \in Seq(T) /\ Len(x) = w /\ \A i \in 1 .. w : x[i] = s[at + i]
  <2>1. PICK e \in Nat : e = at + w /\ at <= e /\ e <= Len(s) /\ e - at = w
    OBVIOUS
  <2>2. /\ Piece(s, at, e) \in Seq(T) /\ Len(Piece(s, at, e)) = e - at
        /\ \A i \in 1 .. e - at : Piece(s, at, e)[i] = s[at + i]
    <3>1. at <= e /\ e <= Len(s) /\ e \in Nat
      BY <2>1
    <3>2. IsPiece(Piece(s, at, e), s, T, at, e)
      BY <3>1, PieceIs
    <3> QED
      BY <3>2, Zenon DEF IsPiece
  <2> QED
    BY <2>1, <2>2
<1> HIDE DEF x
<1>2. /\ y \in Seq(T) /\ Len(y) = q - p /\ \A i \in 1 .. q - p : y[i] = x[p + i]
  <2>1. x \in Seq(T) /\ p <= q /\ q <= Len(x)
    BY <1>1
  <2>2. IsPiece(y, x, T, p, q)
    BY <2>1, PieceIs
  <2> HIDE DEF y
  <2> QED
    BY <2>2, Zenon DEF IsPiece
<1>3. /\ z \in Seq(T) /\ Len(z) = q - p /\ \A i \in 1 .. q - p : z[i] = s[at + p + i]
  <2>1. PICK a \in Nat, b \in Nat : a = at + p /\ b = at + q /\ a <= b /\ b - a = q - p
    OBVIOUS
  <2>2. b <= Len(s)
    <3>1. PICK len \in Nat : len = Len(s) /\ at + w <= len
      BY LenProperties
    <3> QED
      BY <2>1, <3>1
  <2>3. /\ Piece(s, a, b) \in Seq(T) /\ Len(Piece(s, a, b)) = b - a
        /\ \A i \in 1 .. b - a : Piece(s, a, b)[i] = s[a + i]
    <3>1. a <= b /\ a \in Nat /\ b \in Nat
      BY <2>1
    <3>2. IsPiece(Piece(s, a, b), s, T, a, b)
      BY <3>1, <2>2, PieceIs
    <3> QED
      BY <3>2, Zenon DEF IsPiece
  <2> QED
    BY <2>1, <2>3
<1> HIDE DEF y, z
<1>4. ASSUME NEW i \in 1 .. q - p
      PROVE  y[i] = z[i]
  <2>1. PICK j \in 1 .. w : j = p + i /\ at + j = at + p + i
    OBVIOUS
  <2>2. y[i] = x[j] /\ x[j] = s[at + j] /\ z[i] = s[at + p + i]
    BY <1>1, <1>2, <1>3, <2>1
  <2> QED
    BY <2>1, <2>2, Zenon
<1>5. y = z
  <2>1. Len(y) = Len(z) /\ \A i \in 1 .. Len(y) : y[i] = z[i]
    BY <1>2, <1>3, <1>4
  <2> QED
    BY <1>2, <1>3, <2>1, SeqEqual
<1> QED
  BY <1>5, Zenon DEF x, y, z, SameInPiece

FieldPieces(b, cut, c, kinds, values, n) ==
    /\ b \in Seq(Byte) /\ Len(b) = cut[n]
    /\ \A i \in 1 .. n :
           /\ cut[i] <= cut[n]
           /\ Piece(b, cut[i - 1], cut[i]) = FieldBytes(c, kinds[i], values[i])

\* The bytes of the fields are as many as TotalWidth says.
LEMMA FieldsWidth ==
    ASSUME NEW c \in Configs, NEW kinds \in Seq(Kinds),
           NEW values, \A i \in DOMAIN kinds : values[i] \in Nat,
           NEW n \in Nat, n = Len(kinds), NEW cut, FieldEnds(cut, c, kinds, n)
    PROVE  FieldPieces(FieldsBytes(c, kinds, values), cut, c, kinds, values, n)
<1> DEFINE s == [i \in DOMAIN kinds |-> FieldBytes(c, kinds[i], values[i])]
<1>1. DOMAIN kinds = 1 .. n
  BY LenProperties
<1>2. ASSUME NEW i \in 1 .. n
      PROVE  /\ s[i] = FieldBytes(c, kinds[i], values[i])
             /\ s[i] \in Seq(Byte) /\ Len(s[i]) = Width(c, kinds[i])
  <2>1. kinds[i] \in Kinds /\ values[i] \in Nat
    BY <1>1
  <2>2. s[i] = FieldBytes(c, kinds[i], values[i])
    BY <1>1
  <2> HIDE DEF s
  <2> QED
    BY <2>1, <2>2, FieldBytesType
<1>3. s \in Seq(Seq(Byte)) /\ Len(s) = n
  <2>1. s \in [1 .. n -> Seq(Byte)]
    <3>1. s = [i \in 1 .. n |-> s[i]]
      BY <1>1
    <3> HIDE DEF s
    <3> QED
      BY <1>2, <3>1
  <2> HIDE DEF s
  <2> QED
    BY <2>1
<1>4. FieldsBytes(c, kinds, values) = FlattenSeq(s)
  BY DEF FieldsBytes
<1> HIDE DEF s
<1>5. Ends(cut, s, n)
  BY <1>2 DEF FieldEnds, Ends
<1>6. /\ FlattenSeq(s) \in Seq(Byte) /\ Len(FlattenSeq(s)) = cut[n]
      /\ CutInto(FlattenSeq(s), cut, s, n)
  <2>1. n = Len(s) /\ s \in Seq(Seq(Byte))
    BY <1>3
  <2> QED
    BY <2>1, <1>5, PiecesOfFlattened, Zenon
<1>7. FieldPieces(FlattenSeq(s), cut, c, kinds, values, n)
  BY <1>2, <1>6 DEF CutInto, FieldPieces
<1> QED
  BY <1>4, <1>7, Zenon

FieldsSurvive(c, kinds, bytes, at, values) ==
    FieldsAt(c, kinds, bytes, at) = Truncated(c, kinds, values)

\* Fields that were written are read again, each cut to its bytes.
LEMMA FieldsOfEncoded ==
    ASSUME NEW c \in Configs, NEW kinds \in Seq(Kinds), NEW bytes \in Seq(Byte),
           NEW at \in Nat, NEW w \in Nat, w = TotalWidth(c, kinds), at + w <= Len(bytes),
           NEW values, \A i \in DOMAIN kinds : values[i] \in Nat,
           Piece(bytes, at, at + w) = FieldsBytes(c, kinds, values)
    PROVE  FieldsSurvive(c, kinds, bytes, at, values)
<1>1. PICK n \in Nat : n = Len(kinds) /\ DOMAIN kinds = 1 .. n
  BY LenProperties
<1>2. PICK cut : FieldEnds(cut, c, kinds, n) /\ w = cut[n]
  BY <1>1, TotalWidthIs
<1>3. ASSUME NEW i \in 1 .. n
      PROVE  FieldsAt(c, kinds, bytes, at)[i] = Truncated(c, kinds, values)[i]
  <2>1. kinds[i] \in Kinds /\ i \in DOMAIN kinds /\ values[i] \in Nat
        /\ i - 1 \in 0 .. n /\ i \in 0 .. n
    BY <1>1
  <2>2. PICK k \in 1 .. 8 : k = Width(c, kinds[i])
    BY <2>1, WidthType
  <2>3. TotalWidth(c, SubSeq(kinds, 1, i - 1)) = cut[i - 1]
    BY <1>1, <1>2, FieldStarts
  <2>4. PICK p \in Nat, q \in Nat : p = cut[i - 1] /\ q = cut[i] /\ q = p + k /\ q <= w
    <3>1. cut[i] = cut[i - 1] + k
      BY <1>2, <2>2 DEF FieldEnds
    <3>2. cut[i - 1] \in Nat /\ cut[i] \in Nat /\ cut[i] <= w
      BY <1>1, <1>2, <2>1, FieldEndsGrow
    <3> QED
      BY <3>1, <3>2, Zenon
  <2>5. Piece(FieldsBytes(c, kinds, values), p, q) = FieldBytes(c, kinds[i], values[i])
    <3>1. FieldPieces(FieldsBytes(c, kinds, values), cut, c, kinds, values, n)
      BY <1>1, <1>2, FieldsWidth
    <3> QED
      BY <2>4, <3>1, Zenon DEF FieldPieces
  <2>6. Piece(bytes, at + p, at + q) = FieldBytes(c, kinds[i], values[i])
    <3>1. p <= q
      BY <2>4
    <3>2. SameInPiece(bytes, at, w, p, q)
      BY <2>4, <3>1, PieceOfPiece
    <3> QED
      BY <2>5, <3>2, Zenon DEF SameInPiece
  <2>7. FieldsAt(c, kinds, bytes, at)[i] = Number(Piece(bytes, at + p, at + q))
    <3>1. at + q = (at + p) + k
      BY <2>4
    <3>2. FieldsAt(c, kinds, bytes, at)[i]
            = Number(SubSeq(bytes, (at + p) + 1, (at + p) + k))
      BY <2>1, <2>2, <2>3, <2>4, Zenon DEF FieldsAt
    <3> QED
      BY <3>1, <3>2, Zenon DEF Piece
  <2>8. Number(FieldBytes(c, kinds[i], values[i]))
          = values[i] % Capacity[Width(c, kinds[i])]
    BY <2>1, NumberOfBytes
  <2>9. Truncated(c, kinds, values)[i] = values[i] % Capacity[Width(c, kinds[i])]
    BY <2>1 DEF Truncated
  <2> QED
    BY <2>6, <2>7, <2>8, <2>9, Zenon
<1>4. /\ FieldsAt(c, kinds, bytes, at)
           = [i \in DOMAIN kinds |-> FieldsAt(c, kinds, bytes, at)[i]]
      /\ Truncated(c, kinds, values)
           = [i \in DOMAIN kinds |-> Truncated(c, kinds, values)[i]]
  BY DEF FieldsAt, Truncated
<1> QED
  BY <1>1, <1>3, <1>4 DEF FieldsSurvive

\* The bytes of some fields are as many as TotalWidth says.
LEMMA FieldsLength ==
    ASSUME NEW c \in Configs, NEW kinds \in Seq(Kinds),
           NEW values, \A i \in DOMAIN kinds : values[i] \in Nat
    PROVE  /\ FieldsBytes(c, kinds, values) \in Seq(Byte)
           /\ Len(FieldsBytes(c, kinds, values)) = TotalWidth(c, kinds)
<1>1. PICK n \in Nat : n = Len(kinds)
  BY LenProperties
<1>2. PICK cut : FieldEnds(cut, c, kinds, n) /\ TotalWidth(c, kinds) = cut[n]
  BY <1>1, TotalWidthIs
<1>3. /\ FieldsBytes(c, kinds, values) \in Seq(Byte)
      /\ Len(FieldsBytes(c, kinds, values)) = cut[n]
  <2>1. FieldPieces(FieldsBytes(c, kinds, values), cut, c, kinds, values, n)
    BY <1>1, <1>2, FieldsWidth
  <2> QED
    BY <2>1, Zenon DEF FieldPieces
<1> QED
  BY <1>2, <1>3, Zenon

RowsSurvive(c, kinds, bytes, start, w, rows, n) ==
    RowsAt(c, kinds, bytes, start, w, n) = [i \in 1 .. n |-> Truncated(c, kinds, rows[i])]

\* Rows that were written are read again, each value cut to its bytes.
LEMMA RowsOfEncoded ==
    ASSUME NEW c \in Configs, NEW kinds \in Seq(Kinds), NEW bytes \in Seq(Byte),
           NEW start \in Nat, NEW w \in Nat, w = TotalWidth(c, kinds),
           NEW rows, NEW n \in Nat, DOMAIN rows = 1 .. n,
           \A i \in 1 .. n : \A k \in DOMAIN kinds : rows[i][k] \in Nat,
           start + n * w <= Len(bytes),
           Piece(bytes, start, start + n * w) = RowsBytes(c, kinds, rows)
    PROVE  RowsSurvive(c, kinds, bytes, start, w, rows, n)
<1> DEFINE s == [i \in DOMAIN rows |-> FieldsBytes(c, kinds, rows[i])]
           end == [i \in 0 .. n |-> i * w]
<1>0. PICK len \in Nat : len = Len(bytes) /\ start + n * w <= len
  BY LenProperties
<1>1. ASSUME NEW i \in 1 .. n
      PROVE  /\ s[i] = FieldsBytes(c, kinds, rows[i])
             /\ s[i] \in Seq(Byte) /\ Len(s[i]) = w
  <2>1. s[i] = FieldsBytes(c, kinds, rows[i])
    OBVIOUS
  <2> HIDE DEF s
  <2>2. \A k \in DOMAIN kinds : rows[i][k] \in Nat
    OBVIOUS
  <2> QED
    BY <2>1, <2>2, FieldsLength
<1>2. s \in Seq(Seq(Byte)) /\ n = Len(s)
  <2>1. s = [i \in 1 .. n |-> s[i]]
    OBVIOUS
  <2> HIDE DEF s
  <2>2. s \in [1 .. n -> Seq(Byte)]
    BY <1>1, <2>1
  <2> QED
    BY <2>2
<1>3. RowsBytes(c, kinds, rows) = FlattenSeq(s)
  BY DEF RowsBytes
<1> HIDE DEF s
<1>4. ASSUME NEW i \in 0 .. n
      PROVE  end[i] = i * w /\ end[i] \in Nat /\ end[i] <= n * w
  <2>1. i * w \in Nat /\ n * w \in Nat /\ i * w <= n * w
    BY ProductGrows
  <2>2. end[i] = i * w
    OBVIOUS
  <2> HIDE DEF end
  <2> QED
    BY <2>1, <2>2
<1>5. ASSUME NEW i \in 1 .. n
      PROVE  /\ i - 1 \in 0 .. n /\ i \in 0 .. n
             /\ end[i - 1] = (i - 1) * w /\ end[i] = end[i - 1] + w
  <2>1. PICK j \in 0 .. n : j = i - 1 /\ i = j + 1 /\ i \in 0 .. n
    OBVIOUS
  <2>2. i * w = j * w + w
    BY <2>1
  <2>3. end[j] = j * w /\ end[i] = i * w
    BY <1>4, <2>1
  <2> HIDE DEF end
  <2> QED
    BY <2>1, <2>2, <2>3, Zenon
<1>6. Ends(end, s, n)
  <2>1. end \in [0 .. n -> Nat]
    BY <1>4
  <2>2. end[0] = 0
    BY <1>4
  <2> HIDE DEF end
  <2>3. \A i \in 1 .. n : end[i] = end[i - 1] + Len(s[i])
    BY <1>1, <1>5
  <2> QED
    BY <2>1, <2>2, <2>3 DEF Ends
<1> HIDE DEF end
<1>7. CutInto(FlattenSeq(s), end, s, n)
  BY <1>2, <1>6, PiecesOfFlattened
<1>8. PICK all \in Nat : all = n * w /\ start + all <= Len(bytes)
                         /\ Piece(bytes, start, start + all) = FlattenSeq(s)
  <2>1. n * w \in Nat
    BY ProductGrows
  <2> QED
    BY <1>3, <2>1
<1>9. ASSUME NEW i \in 1 .. n
      PROVE  FieldsAt(c, kinds, bytes, start + (i - 1) * w) = Truncated(c, kinds, rows[i])
  <2>1. PICK p \in Nat, q \in Nat :
           p = end[i - 1] /\ p = (i - 1) * w /\ q = end[i] /\ q = p + w /\ q <= all
    <3>1. end[i - 1] \in Nat /\ end[i] \in Nat /\ end[i] <= all
      BY <1>4, <1>5, <1>8
    <3> QED
      BY <1>5, <3>1, Zenon
  <2>2. Piece(FlattenSeq(s), p, q) = FieldsBytes(c, kinds, rows[i])
    BY <1>1, <1>7, <2>1, Zenon DEF CutInto
  <2>3. SameInPiece(bytes, start, all, p, q)
    <3>1. p <= q
      BY <2>1
    <3> QED
      BY <1>8, <2>1, <3>1, PieceOfPiece
  <2>4. Piece(bytes, start + p, start + q) = FieldsBytes(c, kinds, rows[i])
    BY <1>8, <2>2, <2>3, Zenon DEF SameInPiece
  <2>5. PICK at \in Nat : at = start + p /\ at + w = start + q
    <3>1. start + p \in Nat /\ (start + p) + w = start + (p + w)
      OBVIOUS
    <3> QED
      BY <2>1, <3>1, Zenon
  <2>6. at + w <= Len(bytes)
    <3>1. at + w <= start + all /\ start + all <= len
      BY <1>0, <1>8, <2>1, <2>5
    <3> QED
      BY <1>0, <3>1, <2>5
  <2>7. Piece(bytes, at, at + w) = FieldsBytes(c, kinds, rows[i])
    BY <2>4, <2>5, Zenon
  <2>8. \A k \in DOMAIN kinds : rows[i][k] \in Nat
    OBVIOUS
  <2>9. FieldsSurvive(c, kinds, bytes, at, rows[i])
    BY <2>6, <2>7, <2>8, FieldsOfEncoded
  <2> QED
    BY <2>1, <2>5, <2>9, Zenon DEF FieldsSurvive
<1> QED
  BY <1>9 DEF RowsAt, RowsSurvive

-----------------------------------------------------------------------------
(* Encoded messages are decoded again.                                      *)

\* A message that an encoder can write down, with a count that its length
\* field can hold.
Encodable(c, m) ==
    /\ m.type \in Types /\ m.txn \in Byte
    /\ \A i \in DOMAIN Fixed(m.type) : m.fixed[i] \in Nat
    /\ ~Counted(m.type) => m.rows = <<>>
    /\ Counted(m.type) =>
          /\ Len(m.rows) \in Nat /\ DOMAIN m.rows = 1 .. Len(m.rows)
          /\ Len(m.rows) % Capacity[Width(c, "L")] = Len(m.rows)
          /\ \A i \in DOMAIN m.rows, k \in DOMAIN Row(m.type) : m.rows[i][k] \in Nat

\* The rows of a counted message, where they are in its body.
LEMMA CountedLength ==
    ASSUME NEW c \in Configs, NEW m, Encodable(c, m), Counted(m.type),
           NEW w \in Nat, w = TotalWidth(c, Row(m.type)),
           NEW n \in Nat, n = Len(m.rows)
    PROVE  /\ RowsBytes(c, Row(m.type), m.rows) \in Seq(Byte)
           /\ Len(RowsBytes(c, Row(m.type), m.rows)) = n * w
<1>1. /\ m.type \in Types /\ DOMAIN m.rows = 1 .. n
      /\ \A i \in 1 .. n : \A k \in DOMAIN Row(m.type) : m.rows[i][k] \in Nat
  BY Zenon DEF Encodable
<1>2. PICK kinds \in Seq(Kinds) : kinds = Row(m.type)
  BY <1>1, RowKinds
<1>3. PICK rows : rows = m.rows
  OBVIOUS
<1>4. ASSUME NEW i \in 1 .. n
      PROVE  /\ FieldsBytes(c, kinds, rows[i]) \in Seq(Byte)
             /\ Len(FieldsBytes(c, kinds, rows[i])) = w
  <2>1. \A k \in DOMAIN kinds : rows[i][k] \in Nat
    BY <1>1, <1>2, <1>3
  <2> QED
    BY <1>2, <2>1, FieldsLength
<1>5. /\ n \in Nat /\ w \in Nat /\ c \in Configs /\ DOMAIN rows = 1 .. n
      /\ \A i \in 1 .. n : /\ FieldsBytes(c, kinds, rows[i]) \in Seq(Byte)
                           /\ Len(FieldsBytes(c, kinds, rows[i])) = w
  BY <1>1, <1>3, <1>4
<1>6. /\ RowsBytes(c, kinds, rows) \in Seq(Byte)
      /\ Len(RowsBytes(c, kinds, rows)) = n * w
  BY ONLY <1>5, RowsBytesType
<1> QED
  BY <1>2, <1>3, <1>6, Zenon

IsMadeOf(b, x, y, z, p, q, r) ==
    /\ Len(b) = r
    /\ Piece(b, 0, p) = x /\ Piece(b, p, q) = y /\ Piece(b, q, r) = z

\* The parts that a sequence was put together from are its pieces.
LEMMA PartsArePieces ==
    ASSUME NEW T, NEW x \in Seq(T), NEW y \in Seq(T), NEW z \in Seq(T),
           NEW p \in Nat, NEW q \in Nat, NEW r \in Nat,
           p = Len(x), q = p + Len(y), r = q + Len(z),
           NEW b, b = x \o (y \o z)
    PROVE  IsMadeOf(b, x, y, z, p, q, r)
<1>1. PICK u \in Seq(T), l \in Nat, n \in Nat, e \in Nat :
         u = y \o z /\ l = Len(y) /\ n = Len(z) /\ Len(u) = l + n /\ e = l + n
  <2>1. y \o z \in Seq(T) /\ Len(y \o z) = Len(y) + Len(z)
    BY ConcatProperties
  <2>2. Len(y) \in Nat /\ Len(z) \in Nat /\ Len(y) + Len(z) \in Nat
    BY LenProperties
  <2> QED
    BY <2>1, <2>2, Zenon
<1>2. q = p + l /\ r = q + n /\ r = p + e
  BY <1>1
<1>3. b = x \o u /\ b \in Seq(T) /\ Len(b) = r
  <2>1. x \o u \in Seq(T) /\ Len(x \o u) = Len(x) + Len(u)
    BY ConcatProperties
  <2> QED
    BY <1>1, <1>2, <2>1
<1>4. Piece(b, p, r) = u
  <2>1. Piece(x \o u, Len(x), Len(x) + Len(u)) = u
    BY PieceOfConcat
  <2> QED
    BY <1>1, <1>2, <1>3, <2>1, Zenon
<1>5. Piece(b, 0, p) = x
  <2>1. SamePiece(x, u, 0, p)
    <3>1. 0 \in Nat /\ p <= Len(x)
      OBVIOUS
    <3> QED
      BY <3>1, PieceOfConcat
  <2>2. Piece(x, 0, p) = x
    BY PieceFull
  <2> QED
    BY <1>3, <2>1, <2>2, Zenon DEF SamePiece
<1>6. Piece(b, p, q) = y
  <2>1. Piece(u, 0, l) = y
    <3>1. SamePiece(y, z, 0, l)
      <4>1. 0 \in Nat /\ l <= Len(y)
        BY <1>1
      <4> QED
        BY <4>1, PieceOfConcat
    <3>2. Piece(y, 0, l) = y
      BY <1>1, PieceFull
    <3> QED
      BY <1>1, <3>1, <3>2, Zenon DEF SamePiece
  <2>2. PICK o \in Nat : o = 0 /\ p + o = p /\ o <= l /\ l <= e
    BY <1>1
  <2>3. SameInPiece(b, p, e, o, l)
    <3>1. p + e <= Len(b)
      BY <1>2, <1>3
    <3> QED
      BY <1>3, <2>2, <3>1, PieceOfPiece
  <2> QED
    BY <1>2, <1>4, <2>1, <2>2, <2>3, Zenon DEF SameInPiece
<1>7. Piece(b, q, r) = z
  <2>1. Piece(u, l, e) = z
    <3>1. Piece(y \o z, Len(y), Len(y) + Len(z)) = z
      BY PieceOfConcat
    <3> QED
      BY <1>1, <3>1, Zenon
  <2>2. SameInPiece(b, p, e, l, e)
    <3>1. p + e <= Len(b) /\ l <= e /\ e <= e
      BY <1>1, <1>2, <1>3
    <3> QED
      BY <1>3, <3>1, PieceOfPiece
  <2> QED
    BY <1>2, <1>4, <2>1, <2>2, Zenon DEF SameInPiece
<1> QED
  BY <1>3, <1>5, <1>6, <1>7, Zenon DEF IsMadeOf

\* The body that was encoded is decoded to the fields it was encoded from.
LEMMA EncodedBody ==
    ASSUME NEW c \in Configs, NEW m, Encodable(c, m), NEW body \in Seq(Byte),
           body = FixedPart(c, m) \o CountedPart(c, m)
    PROVE  DecodeBody(c, m.type, m.txn, body) = Decoded("ok", OnWire(c, m))
<1> DEFINE t == m.type
           txn == m.txn
           fixedWidth == TotalWidth(c, Fixed(t))
           rest       == Len(body) - fixedWidth
           fixed      == FieldsAt(c, Fixed(t), body, 0)
           message(rows) == [type |-> t, txn |-> txn, fixed |-> fixed, rows |-> rows]
           lengthWidth == Width(c, "L")
           count == FieldsAt(c, <<"L">>, body, fixedWidth)[1]
           width == TotalWidth(c, Row(t))
           at(i) == fixedWidth + lengthWidth + (i - 1) * width
           uncounted == IF Exactly(rest, 0) THEN Decoded("ok", message(<<>>))
                                            ELSE Throws("malformed")
           decodedRows == [i \in 1 .. count |-> FieldsAt(c, Row(t), body, at(i))]
           counted ==
              CASE rest < lengthWidth -> Throws("malformed")
                [] rest >= lengthWidth ->
                      IF Exactly(rest - lengthWidth, count * width)
                      THEN Decoded("ok", message(decodedRows))
                      ELSE Throws(IF Role(t) = "cmd" THEN "error" ELSE "malformed")
           d == DecodeBody(c, t, txn, body)
<1>1. d = CASE rest < 0                    -> Throws("malformed")
            [] rest >= 0 /\ Counted(t)     -> counted
            [] rest >= 0 /\ ~Counted(t)    -> uncounted
  BY Zenon DEF DecodeBody
<1> HIDE DEF counted, uncounted, d
<1>2. /\ t \in Types /\ \A i \in DOMAIN Fixed(t) : m.fixed[i] \in Nat
      /\ Fixed(t) \in Seq(Kinds)
  BY FixedKinds DEF Encodable
<1>3. PICK f \in Nat : f = fixedWidth
  BY <1>2, TotalWidthType
<1>4. PICK first \in Seq(Byte) : first = FixedPart(c, m) /\ Len(first) = f
  <2>1. PICK kinds \in Seq(Kinds), values \in {m.fixed} : kinds = Fixed(t)
    BY <1>2
  <2>2. \A i \in DOMAIN kinds : values[i] \in Nat
    BY <1>2, <2>1
  <2>3. /\ FieldsBytes(c, kinds, values) \in Seq(Byte)
        /\ Len(FieldsBytes(c, kinds, values)) = TotalWidth(c, kinds)
    BY <2>2, FieldsLength
  <2> QED
    BY <1>3, <2>1, <2>3, Zenon DEF FixedPart
<1>5. CASE ~Counted(t)
  <2>1. m.rows = <<>> /\ CountedPart(c, m) = <<>>
    BY <1>5 DEF Encodable, CountedPart
  <2>2. body = first
    BY <1>4, <2>1, ConcatEmptySeq
  <2>3. rest = 0
    BY <1>3, <1>4, <2>2
  <2>4. d = Decoded("ok", message(<<>>))
    <3>1. Exactly(rest, 0)
      BY <2>3 DEF Exactly
    <3>2. rest >= 0 /\ ~(rest < 0)
      BY <2>3
    <3> HIDE DEF rest
    <3>3. d = uncounted
      BY <1>1, <1>5, <3>2
    <3> QED
      BY <3>1, <3>3 DEF uncounted
  <2>5. fixed = Truncated(c, Fixed(t), m.fixed)
    <3>1. Piece(body, 0, f) = FieldsBytes(c, Fixed(t), m.fixed)
      BY <1>4, <2>2, PieceFull DEF FixedPart
    <3>2. PICK kinds \in Seq(Kinds), values \in {m.fixed} : kinds = Fixed(t)
      BY <1>2
    <3>3. \A i \in DOMAIN kinds : values[i] \in Nat
      BY <1>2, <3>2
    <3>4. PICK o \in Nat : o = 0 /\ o + f <= Len(body) /\ o + f = f
      BY <1>4, <2>2
    <3>5. f = TotalWidth(c, kinds)
      BY <1>3, <3>2
    <3>6. Piece(body, o, o + f) = FieldsBytes(c, kinds, values)
      BY <3>1, <3>2, <3>4
    <3>7. FieldsSurvive(c, kinds, body, o, values)
      BY <3>3, <3>4, <3>5, <3>6, FieldsOfEncoded
    <3> QED
      BY <3>2, <3>4, <3>7, Zenon DEF FieldsSurvive
  <2>6. [i \in DOMAIN m.rows |-> Truncated(c, Row(t), m.rows[i])] = <<>>
    BY <2>1
  <2> QED
    BY <2>4, <2>5, <2>6 DEF OnWire, d
<1>6. CASE Counted(t)
  <2>1. PICK l \in Nat, w \in Nat : l = lengthWidth /\ w = width
    <3>1. lengthWidth \in 1 .. 8
      BY WidthType DEF Kinds
    <3>2. width \in Nat
      BY <1>2, <1>6, RowKinds, TotalWidthType
    <3> QED
      BY <3>1, <3>2
  <2>2. PICK n \in Nat, rows \in {m.rows} :
             /\ n = Len(m.rows) /\ DOMAIN rows = 1 .. n
             /\ n % Capacity[l] = n
             /\ \A i \in 1 .. n : \A k \in DOMAIN Row(t) : rows[i][k] \in Nat
    BY <1>6, <2>1, Zenon DEF Encodable
  <2>3. PICK num \in Seq(Byte) : num = FieldBytes(c, "L", n) /\ Len(num) = l
                                 /\ Number(num) = n
    <3>1. "L" \in Kinds
      BY DEF Kinds
    <3>2. FieldBytes(c, "L", n) \in Seq(Byte) /\ Len(FieldBytes(c, "L", n)) = l
      BY <2>1, <3>1, FieldBytesType
    <3>3. Number(FieldBytes(c, "L", n)) = n
      BY <2>1, <2>2, <3>1, NumberOfBytes
    <3> QED
      BY <3>2, <3>3
  <2>4. PICK last \in Seq(Byte) : last = RowsBytes(c, Row(t), rows) /\ Len(last) = n * w
    BY <1>6, <2>1, <2>2, CountedLength
  <2>5. CountedPart(c, m) = num \o last
    BY <1>6, <2>2, <2>3, <2>4 DEF CountedPart
  <2>6. PICK after \in Nat, len \in Nat, rw \in Nat :
           rw = n * w /\ after = f + l /\ len = after + rw
    <3>1. PICK x \in Nat, y \in Nat : x = n * w /\ y = f + l /\ y + x \in Nat
      <4>1. n * w \in Nat /\ f + l \in Nat
        BY ProductGrows
      <4>2. (f + l) + n * w \in Nat
        <5>1. \A x \in Nat, y \in Nat : x + y \in Nat
          OBVIOUS
        <5> QED
          BY <4>1, <5>1, Zenon
      <4> QED
        BY <4>1, <4>2, Zenon
    <3> QED
      BY <3>1, Zenon
  <2>7. /\ Len(body) = len /\ Piece(body, 0, f) = first /\ Piece(body, f, after) = num
        /\ Piece(body, after, len) = last
    <3>1. body = first \o (num \o last)
      BY <1>4, <2>5
    <3>2. f = Len(first) /\ after = f + Len(num) /\ len = after + Len(last)
      BY <1>4, <2>3, <2>4, <2>6
    <3>3. IsMadeOf(body, first, num, last, f, after, len)
      BY <3>1, <3>2, PartsArePieces
    <3> QED
      BY <3>3, Zenon DEF IsMadeOf
  <2>8. count = n
    <3>1. count = Number(Piece(body, f, f + l))
      <4>1. l = Width(c, "L") /\ f \in Nat /\ l \in Nat
        BY <2>1
      <4>2. FieldsAt(c, <<"L">>, body, f)[1] = Number(Piece(body, f, f + l))
        BY ONLY c \in Configs, body \in Seq(Byte), <4>1, CountRead
      <4> QED
        BY <1>3, <4>2
    <3> HIDE DEF count
    <3> QED
      BY <2>3, <2>6, <2>7, <3>1, Zenon
  <2>9. d = Decoded("ok", message(decodedRows))
    <3>1. rest = l + rw
      <4>1. rest = len - f
        BY <1>3, <2>7
      <4> HIDE DEF rest
      <4>2. len = (f + l) + rw
        BY <2>6, Zenon
      <4> QED
        BY ONLY f \in Nat, l \in Nat, rw \in Nat, <4>1, <4>2
    <3> HIDE DEF rest, count, decodedRows, fixed
    <3>2. rest >= 0 /\ ~(rest < 0) /\ rest >= lengthWidth /\ ~(rest < lengthWidth)
      BY <2>1, <3>1
    <3>3. Exactly(rest - lengthWidth, count * width)
      BY <2>1, <2>6, <2>8, <3>1 DEF Exactly
    <3>4. d = counted
      BY <1>1, <1>6, <3>2
    <3> QED
      BY <3>2, <3>3, <3>4 DEF counted
  <2>10. fixed = Truncated(c, Fixed(t), m.fixed)
    <3>1. PICK kinds \in Seq(Kinds), values \in {m.fixed} : kinds = Fixed(t)
      BY <1>2
    <3>2. \A i \in DOMAIN kinds : values[i] \in Nat
      BY <1>2, <3>1
    <3>3. PICK o \in Nat : o = 0 /\ o + f <= Len(body) /\ o + f = f
      BY <2>6, <2>7
    <3>4. f = TotalWidth(c, kinds)
      BY <1>3, <3>1
    <3>5. Piece(body, o, o + f) = FieldsBytes(c, kinds, values)
      BY <1>4, <2>7, <3>1, <3>3 DEF FixedPart
    <3>6. FieldsSurvive(c, kinds, body, o, values)
      BY <3>2, <3>3, <3>4, <3>5, FieldsOfEncoded
    <3> QED
      BY <3>1, <3>3, <3>6, Zenon DEF FieldsSurvive
  <2>11. decodedRows = [i \in 1 .. n |-> Truncated(c, Row(t), rows[i])]
    <3>1. PICK kinds \in Seq(Kinds) : kinds = Row(t)
      BY <1>2, <1>6, RowKinds
    <3>2. decodedRows = RowsAt(c, kinds, body, after, w, n)
      BY <1>3, <2>1, <2>6, <2>8, <3>1 DEF RowsAt
    <3>3. w = TotalWidth(c, kinds) /\ after + n * w <= Len(body)
      BY <2>1, <2>6, <2>7, <3>1
    <3>4. Piece(body, after, after + n * w) = RowsBytes(c, kinds, rows)
      BY <2>4, <2>6, <2>7, <3>1
    <3>5. \A i \in 1 .. n : \A k \in DOMAIN kinds : rows[i][k] \in Nat
      BY <2>2, <3>1
    <3>6. RowsSurvive(c, kinds, body, after, w, rows, n)
      BY <2>2, <3>3, <3>4, <3>5, RowsOfEncoded
    <3> QED
      BY <3>1, <3>2, <3>6, Zenon DEF RowsSurvive
  <2>12. OnWire(c, m) = message(decodedRows)
    <3> HIDE DEF decodedRows, fixed
    <3> QED
      BY <2>2, <2>10, <2>11 DEF OnWire
  <2> QED
    BY <2>9, <2>12 DEF d
<1> QED
  BY <1>5, <1>6 DEF d

\* No two types have the same code.
LEMMA CodesDiffer ==
    ASSUME NEW t \in Types, NEW u \in Types,
           MessageType[t].code = MessageType[u].code
    PROVE  t = u
BY DEF Types, MessageType, Entry

\* A frame that holds the header, the body and the CRC is long enough.
LEMMA SizesAddUp ==
    ASSUME NEW l \in Nat, NEW crc \in 1 .. 4
    PROVE  \E size \in Nat, len \in Nat :
              /\ size = 2 + l /\ len = size + crc /\ 2 <= size
              /\ len - crc = size /\ len >= 2 + crc /\ ~(len < 2 + crc)
<1>1. PICK size \in Nat : size = 2 + l /\ 2 <= size
  OBVIOUS
<1>2. PICK len \in Nat : len = size + crc
  OBVIOUS
<1> QED
  BY <1>1, <1>2

\* The bytes of the parts of a message that an encoder can write down.
LEMMA BodyParts ==
    ASSUME NEW c \in Configs, NEW m, Encodable(c, m)
    PROVE  FixedPart(c, m) \in Seq(Byte) /\ CountedPart(c, m) \in Seq(Byte)
<1>1. /\ m.type \in Types /\ \A i \in DOMAIN Fixed(m.type) : m.fixed[i] \in Nat
      /\ Fixed(m.type) \in Seq(Kinds)
  BY FixedKinds DEF Encodable
<1>2. FixedPart(c, m) \in Seq(Byte)
  <2>1. PICK kinds \in Seq(Kinds), values \in {m.fixed} : kinds = Fixed(m.type)
    BY <1>1
  <2>2. \A i \in DOMAIN kinds : values[i] \in Nat
    BY <1>1, <2>1
  <2>3. FieldsBytes(c, kinds, values) \in Seq(Byte)
    BY <2>2, FieldsLength
  <2> QED
    BY <2>1, <2>3 DEF FixedPart
<1>3. CASE Counted(m.type)
  <2>1. PICK n \in Nat : n = Len(m.rows)
    BY <1>3 DEF Encodable
  <2>2. FieldBytes(c, "L", n) \in Seq(Byte)
    <3>1. "L" \in Kinds
      BY DEF Kinds
    <3> QED
      BY <3>1, FieldBytesType
  <2>3. PICK w \in Nat : w = TotalWidth(c, Row(m.type))
    BY <1>1, <1>3, RowKinds, TotalWidthType
  <2>4. RowsBytes(c, Row(m.type), m.rows) \in Seq(Byte)
    BY <1>3, <2>1, <2>3, CountedLength
  <2>5. CountedPart(c, m) = FieldBytes(c, "L", n) \o RowsBytes(c, Row(m.type), m.rows)
    BY <1>3, <2>1 DEF CountedPart
  <2> QED
    BY <1>2, <2>2, <2>4, <2>5, ConcatProperties
<1>4. CASE ~Counted(m.type)
  BY <1>2, <1>4 DEF CountedPart
<1> QED
  BY <1>3, <1>4

\* The decoder of the right side takes what was encoded for the message it was
\* encoded from, and the decoder of the other side for none.
LEMMA EncodedIsDecoded ==
    ASSUME NEW c \in Configs, NEW m, Encodable(c, m), NEW cases \in SUBSET Types
    PROVE  Decode(c, EncodedFrame(c, m), cases)
             = IF m.type \in cases THEN Decoded("ok", OnWire(c, m))
                                   ELSE Throws("unexpected")
<1> DEFINE f == EncodedFrame(c, m)
           bytes == f.bytes
           code == bytes[2]
           known == {t \in cases : MessageType[t].code = code}
           type == CHOOSE t \in known : TRUE
           body == SubSeq(bytes, 3, Len(bytes) - c.CrcBytes)
           taken == IF known = {} THEN Throws("unexpected")
                    ELSE DecodeBody(c, type, bytes[1], body)
           d == Decode(c, f, cases)
<1>1. d = CASE Len(bytes) < 2 + c.CrcBytes -> Throws("malformed")
            [] Len(bytes) >= 2 + c.CrcBytes /\ ~f.crc_ok -> Throws("crc_mismatch")
            [] Len(bytes) >= 2 + c.CrcBytes /\ f.crc_ok -> taken
  BY Zenon DEF Decode
<1>2. f.crc_ok /\ bytes = Payload(c, m) \o CrcField(c)
  BY DEF EncodedFrame
<1> HIDE DEF f, taken
<1>3. m.type \in Types /\ m.txn \in Byte /\ MessageType[m.type].code \in Byte
  BY CodeType DEF Encodable
<1>4. PICK header \in Seq(Byte) :
         /\ header = <<m.txn, MessageType[m.type].code>> /\ Len(header) = 2
         /\ header[1] = m.txn /\ header[2] = MessageType[m.type].code
  <2>1. PICK a \in Byte, b \in Byte : a = m.txn /\ b = MessageType[m.type].code
    BY <1>3
  <2>2. /\ <<a, b>> \in Seq(Byte) /\ Len(<<a, b>>) = 2
        /\ <<a, b>>[1] = a /\ <<a, b>>[2] = b
    OBVIOUS
  <2> QED
    BY <2>1, <2>2, Zenon
<1>5. PICK first \in Seq(Byte), last \in Seq(Byte) :
         first = FixedPart(c, m) /\ last = CountedPart(c, m)
  BY BodyParts
<1>6. PICK rest \in Seq(Byte), l \in Nat : rest = first \o last /\ l = Len(rest)
  <2>1. first \o last \in Seq(Byte)
    BY ConcatProperties
  <2>2. Len(first \o last) \in Nat
    BY <2>1, LenProperties
  <2> QED
    BY <2>1, <2>2, Zenon
<1>7. PICK tail \in Seq(Byte), crc \in 1 .. 4 :
         tail = CrcField(c) /\ crc = c.CrcBytes /\ Len(tail) = crc
  <2>1. 0 \in Byte /\ c.CrcBytes \in 1 .. 4
    BY ConfigTypes DEF Byte
  <2>2. CrcField(c) \in [1 .. c.CrcBytes -> Byte]
    BY <2>1 DEF CrcField
  <2>3. PICK n \in 1 .. 4 : n = c.CrcBytes
    BY <2>1
  <2>4. \A x \in [1 .. n -> Byte] : x \in Seq(Byte) /\ Len(x) = n
    OBVIOUS
  <2>5. CrcField(c) \in Seq(Byte) /\ Len(CrcField(c)) = n
    BY <2>2, <2>3, <2>4, Zenon
  <2> QED
    BY <2>3, <2>5
<1>8. bytes = header \o (rest \o tail)
  <2>1. Payload(c, m) = (header \o first) \o last
    BY <1>4, <1>5, PayloadParts, Zenon
  <2>2. (header \o first) \o last = header \o (first \o last)
    BY ConcatAssociative, SMTT(20)
  <2>3. (header \o rest) \o tail = header \o (rest \o tail)
    BY ConcatAssociative, SMTT(20)
  <2> QED
    BY <1>2, <1>6, <1>7, <2>1, <2>2, <2>3, Zenon
<1>9. PICK size \in Nat, len \in Nat :
         /\ size = 2 + l /\ len = size + crc /\ 2 <= size
         /\ len - crc = size /\ len >= 2 + crc /\ ~(len < 2 + crc)
  BY Zenon, SizesAddUp
<1>10. PICK s \in Seq(Byte) :
          /\ s = bytes /\ Len(s) = len /\ Piece(s, 0, 2) = header /\ Piece(s, 2, size) = rest
  <2>1. PICK p \in Nat : p = 2
    OBVIOUS
  <2>2. bytes \in Seq(Byte)
    <3>1. header \o (rest \o tail) \in Seq(Byte)
      BY ConcatProperties
    <3> QED
      BY <1>8, <3>1
  <2>3. IsMadeOf(bytes, header, rest, tail, p, size, len)
    <3>1. p = Len(header) /\ size = p + Len(rest) /\ len = size + Len(tail)
      BY <1>4, <1>6, <1>7, <1>9, <2>1
    <3> QED
      BY <1>8, <3>1, PartsArePieces
  <2> QED
    BY <2>1, <2>2, <2>3, Zenon DEF IsMadeOf
<1>11. bytes[1] = m.txn /\ bytes[2] = MessageType[m.type].code
  <2>1. \A i \in 1 .. 2 - 0 : Piece(s, 0, 2)[i] = s[0 + i]
    <3>1. 0 \in Nat /\ 2 \in Nat /\ 0 <= 2 /\ 2 <= Len(s)
      BY <1>9, <1>10
    <3>2. IsPiece(Piece(s, 0, 2), s, Byte, 0, 2)
      BY <3>1, PieceIs
    <3> QED
      BY <3>2, Zenon DEF IsPiece
  <2>2. header[1] = s[1] /\ header[2] = s[2]
    BY <1>10, <2>1
  <2> QED
    BY <1>4, <1>10, <2>2, Zenon
<1>12. body = rest
  <2>1. Len(bytes) - c.CrcBytes = size
    BY <1>7, <1>9, <1>10
  <2>2. 2 + 1 = 3
    OBVIOUS
  <2> QED
    BY <1>10, <2>1, <2>2, Zenon DEF Piece
<1>13. d = taken
  BY <1>1, <1>2, <1>7, <1>9, <1>10
<1>14. known = IF m.type \in cases THEN {m.type} ELSE {}
  BY <1>3, <1>11, CodesDiffer
<1>15. CASE m.type \notin cases
  BY <1>13, <1>14, <1>15 DEF taken, d, f
<1>16. CASE m.type \in cases
  <2>1. known = {m.type} /\ type = m.type
    <3>1. known = {m.type}
      BY <1>14, <1>16
    <3> HIDE DEF known
    <3> QED
      BY <3>1
  <2>2. taken = DecodeBody(c, m.type, m.txn, rest)
    <3> HIDE DEF known, body, type
    <3> QED
      BY <1>11, <1>12, <2>1 DEF taken
  <2>3. DecodeBody(c, m.type, m.txn, rest) = Decoded("ok", OnWire(c, m))
    BY <1>5, <1>6, EncodedBody
  <2> QED
    BY <1>13, <1>16, <2>2, <2>3 DEF d, f
<1> QED
  BY <1>15, <1>16

\* A limit is never larger than what LengthType can count.
LEMMA LimitIsCountable ==
    ASSUME NEW c \in Configs, NEW op \in CountedTypes, NEW n \in Nat,
           ~(n > CountLimit(c, op))
    PROVE  n <= c.LengthTypeMax
<1>1. /\ c.AddressBytes \in 1 .. 8 /\ c.DataBytes \in 1 .. 8
      /\ c.LengthBytes \in 1 .. 2 /\ c.CrcBytes \in 1 .. 4 /\ c.LengthTypeMax \in Nat
  BY ConfigTypes
<1>2. /\ WireSize(c, 0, 0, 1) \in 0 .. 32 /\ WireSize(c, 1, 0, 2) \in 0 .. 32
      /\ c.AddressBytes \in 1 .. 16 /\ c.DataBytes \in 1 .. 16
      /\ c.AddressBytes + c.DataBytes \in 1 .. 16
  BY <1>1 DEF WireSize
<1>3. /\ RoomFor(c, c.DataBytes, WireSize(c, 0, 0, 1)) \in Int
      /\ RoomFor(c, c.DataBytes, WireSize(c, 1, 0, 2)) \in Int
      /\ RoomFor(c, c.AddressBytes, WireSize(c, 0, 0, 1)) \in Int
      /\ RoomFor(c, c.AddressBytes + c.DataBytes, WireSize(c, 0, 0, 1)) \in Int
  BY <1>2, RoomForType
<1>4. ASSUME NEW x \in Int
      PROVE  SmallerOf(x, c.LengthTypeMax) \in Int
             /\ SmallerOf(x, c.LengthTypeMax) <= c.LengthTypeMax
  BY <1>1 DEF SmallerOf
<1>5. ASSUME NEW x \in Int, NEW y \in Int
      PROVE  SmallerOf(x, y) \in Int
  BY DEF SmallerOf
<1>6. CountLimit(c, op) \in Int /\ CountLimit(c, op) <= c.LengthTypeMax
  <2>1. CASE op = "ReadSeq"
    BY <1>3, <1>4, <2>1 DEF CountLimit, getMaxSeqReadCount
  <2>2. CASE op = "WriteSeq"
    BY <1>3, <1>4, <2>2 DEF CountLimit, getMaxSeqWriteCount
  <2>3. CASE op = "ReadComp"
    BY <1>3, <1>4, <1>5, <2>3 DEF CountLimit, getMaxCompReadCount
  <2>4. CASE op = "WriteComp"
    BY <1>3, <1>4, <2>4 DEF CountLimit, getMaxCompWriteCount
  <2> QED
    BY <2>1, <2>2, <2>3, <2>4 DEF CountedTypes
<1> QED
  BY <1>1, <1>6

\* The length field of every configuration can hold any value of LengthType.
\* Configuration.h:58 lets LengthBytes be less than that, and then a count is
\* lost on the wire, as the run narrow_length shows, so a round trip needs this.
LengthsFit == \A c \in Cfgs : c.LengthTypeMax < Capacity[c.LengthBytes]

\* A message the encoder accepts has a count that survives the wire.
LEMMA AcceptedIsEncodable ==
    ASSUME LengthsFit, NEW c \in Cfgs, NEW m \in Messages(c), ~EncodeRefused(c, m)
    PROVE  Encodable(c, m)
<1>1. /\ c \in Configs /\ m.type \in Types /\ m.txn \in Byte
      /\ \A i \in DOMAIN Fixed(m.type) : m.fixed[i] \in Nat
      /\ ~Counted(m.type) => m.rows = <<>>
      /\ Counted(m.type) => m.rows \in Rows(c, m.type)
  BY MessageParts
<1>2. ASSUME Counted(m.type)
      PROVE  /\ Len(m.rows) \in Nat /\ DOMAIN m.rows = 1 .. Len(m.rows)
             /\ Len(m.rows) % Capacity[Width(c, "L")] = Len(m.rows)
             /\ \A i \in DOMAIN m.rows, k \in DOMAIN Row(m.type) : m.rows[i][k] \in Nat
  <2>1. PICK n \in Nat : m.rows \in [1 .. n -> Tuples(Row(m.type))] /\ Len(m.rows) = n
    BY <1>1, <1>2, RowsType
  <2>2. \A i \in 1 .. n, k \in DOMAIN Row(m.type) : m.rows[i][k] \in Nat
    <3>1. PICK kinds \in Seq(Kinds) : kinds = Row(m.type)
      BY <1>1, <1>2, RowKinds
    <3>2. ASSUME NEW i \in 1 .. n, NEW k \in DOMAIN kinds
          PROVE  m.rows[i][k] \in Nat
      <4>1. m.rows[i] \in Tuples(kinds)
        BY <2>1, <3>1
      <4> QED
        BY <4>1, TupleValues
    <3> QED
      BY <3>1, <3>2
  <2>3. CountOf(m) = n
    BY <1>2, <2>1 DEF CountOf, Counted, CommandRow
  <2>4. Op(m.type) \in CountedTypes /\ ~(n > CountLimit(c, Op(m.type)))
    <3>1. CASE Role(m.type) = "cmd"
      <4>1. Op(m.type) \in CountedTypes
        BY <1>2, <3>1 DEF Counted, CommandRow, CountedTypes
      <4> QED
        BY <2>3, <3>1, <4>1 DEF EncodeRefused, CommandRefused
    <3>2. CASE Role(m.type) = "ack"
      <4>1. Op(m.type) \in {"ReadSeq", "ReadComp"}
        BY <1>2, <3>2 DEF Counted, AckRow
      <4> QED
        BY <2>3, <3>2, <4>1 DEF EncodeRefused, AckRefused, CountedTypes
    <3> QED
      BY <1>2, <3>1, <3>2 DEF Counted
  <2>5. n <= c.LengthTypeMax
    BY <1>1, <2>4, LimitIsCountable
  <2>6. Width(c, "L") = c.LengthBytes /\ c.LengthBytes \in 0 .. 8 /\ c.LengthTypeMax \in Nat
    BY <1>1, ConfigTypes DEF Width
  <2>7. PICK k \in Nat \ {0} : k = Capacity[Width(c, "L")] /\ c.LengthTypeMax < k
    BY <2>6, CapacityIs DEF LengthsFit
  <2>8. n % k = n
    <3>1. n < k
      BY <2>5, <2>6, <2>7
    <3> QED
      BY <3>1
  <2> QED
    BY <2>1, <2>2, <2>7, <2>8
<1> QED
  BY <1>1, <1>2, Zenon DEF Encodable

\* What is encoded is decoded to the same message by the decoder of its side,
\* and rejected by the other one, for every configuration whose length field
\* holds what LengthType can (Serdes.h:283-371, 610-1053).
THEOREM MessagesSurvive ==
    ASSUME LengthsFit PROVE Spec => RoundTrip
<1>1. AsEncoded /\ [Next]_vars =>
        [/\ stage = "wire"
         => /\ decodeCommand => outcome' =
                 IF Role(msg.type) = "cmd" THEN Decoded("ok", OnWire(cfg, msg))
                                           ELSE Throws("unexpected")
            /\ decodeResponse => outcome' =
                 IF Role(msg.type) = "cmd" THEN Throws("unexpected")
                                           ELSE Decoded("ok", OnWire(cfg, msg))]_vars
  <2> SUFFICES ASSUME AsEncoded, stage = "wire"
               PROVE  /\ decodeCommand => outcome' =
                           IF Role(msg.type) = "cmd" THEN Decoded("ok", OnWire(cfg, msg))
                                                     ELSE Throws("unexpected")
                      /\ decodeResponse => outcome' =
                           IF Role(msg.type) = "cmd" THEN Throws("unexpected")
                                                     ELSE Decoded("ok", OnWire(cfg, msg))
    OBVIOUS
  <2>1. /\ cfg \in Cfgs /\ cfg \in Configs /\ msg \in Messages(cfg)
        /\ ~EncodeRefused(cfg, msg) /\ frame = EncodedFrame(cfg, msg)
    BY CfgsAssumption DEF AsEncoded
  <2>2. /\ Encodable(cfg, msg)
        /\ msg.type \in commandCases <=> Role(msg.type) = "cmd"
        /\ msg.type \in responseCases <=> Role(msg.type) # "cmd"
    BY <2>1, AcceptedIsEncodable, CasesAreSides DEF Encodable
  <2>3. ASSUME NEW cases \in SUBSET Types
        PROVE  Decode(cfg, frame, cases)
                 = IF msg.type \in cases THEN Decoded("ok", OnWire(cfg, msg))
                                         ELSE Throws("unexpected")
    BY <2>1, <2>2, EncodedIsDecoded
  <2>4. ASSUME decodeCommand
        PROVE  outcome' = IF Role(msg.type) = "cmd" THEN Decoded("ok", OnWire(cfg, msg))
                                                    ELSE Throws("unexpected")
    BY <2>2, <2>3, <2>4, CasesAreSides DEF decodeCommand, DecodeBy
  <2>5. ASSUME decodeResponse
        PROVE  outcome' = IF Role(msg.type) = "cmd" THEN Throws("unexpected")
                                                    ELSE Decoded("ok", OnWire(cfg, msg))
    BY <2>2, <2>3, <2>5, CasesAreSides DEF decodeResponse, DecodeBy
  <2> QED
    BY <2>4, <2>5
<1> QED
  BY <1>1, StaysAsEncoded, PTL DEF Spec, RoundTrip

\* Only what was encoded gets on its way.
NotRefused ==
    stage \in {"wire", "altered", "at_server", "at_client"} => ~EncodeRefused(cfg, msg)

LEMMA OnlyEncodedTravels == Spec => []NotRefused
<1>1. Init => NotRefused
  BY DEF Init, NotRefused
<1>2. NotRefused /\ [Next]_vars => NotRefused'
  <2> SUFFICES ASSUME NotRefused, [Next]_vars PROVE NotRefused'
    OBVIOUS
  <2>1. CASE Encode
    BY <2>1 DEF Encode, NotRefused
  <2>2. CASE Alter
    BY <2>2 DEF Alter, NotRefused
  <2>3. CASE decodeCommand \/ decodeResponse
    BY <2>3 DEF decodeCommand, decodeResponse, DecodeBy, NotRefused
  <2>4. CASE UNCHANGED vars
    BY <2>4 DEF vars, NotRefused
  <2> QED
    BY <2>1, <2>2, <2>3, <2>4 DEF Next
<1> QED
  BY <1>1, <1>2, PTL DEF Spec

\* A count that was accepted is the same on the wire.
LEMMA CountOnWire ==
    ASSUME LengthsFit, NEW c \in Cfgs, NEW m \in Messages(c), ~EncodeRefused(c, m)
    PROVE  CountOf(OnWire(c, m)) = CountOf(m)
<1>1. OnWire(c, m).type = m.type
  BY DEF OnWire
<1>2. CASE Op(m.type) = "ReadSeq" /\ Role(m.type) = "cmd"
  <2>1. /\ c \in Configs /\ CountOf(m) = m.fixed[3] /\ m.fixed[3] \in Nat
        /\ Fixed(m.type) = <<"A", "L", "L">>
    BY <1>2, MessageParts DEF CountOf, Fixed, CommandFields
  <2>2. PICK n \in Nat : n = m.fixed[3]
    BY <2>1
  <2>3. ~(n > CountLimit(c, "ReadSeq")) /\ "ReadSeq" \in CountedTypes
    BY <1>2, <2>1, <2>2 DEF EncodeRefused, CommandRefused, CountedTypes
  <2>4. n <= c.LengthTypeMax
    BY <2>1, <2>3, LimitIsCountable
  <2>5. Width(c, "L") = c.LengthBytes /\ c.LengthBytes \in 0 .. 8 /\ c.LengthTypeMax \in Nat
    BY <2>1, ConfigTypes DEF Width
  <2>6. PICK k \in Nat \ {0} : k = Capacity[Width(c, "L")] /\ c.LengthTypeMax < k
    BY <2>5, CapacityIs DEF LengthsFit
  <2>7. n % k = n
    <3>1. n < k
      BY <2>4, <2>5, <2>6
    <3> QED
      BY <3>1
  <2>8. Truncated(c, <<"A", "L", "L">>, m.fixed)[3] = m.fixed[3] % Capacity[Width(c, "L")]
    BY DEF Truncated
  <2>9. OnWire(c, m).fixed = Truncated(c, <<"A", "L", "L">>, m.fixed)
    BY <2>1 DEF OnWire
  <2> QED
    BY <1>1, <1>2, <2>1, <2>2, <2>6, <2>7, <2>8, <2>9, Zenon DEF CountOf
<1>3. CASE ~(Op(m.type) = "ReadSeq" /\ Role(m.type) = "cmd")
  <2>1. PICK rows \in {m.rows}, n \in Nat : n = Len(rows) /\ DOMAIN rows = 1 .. n
    <3>1. CASE Counted(m.type)
      BY <3>1, AcceptedIsEncodable DEF Encodable
    <3>2. CASE ~Counted(m.type)
      BY <3>2, AcceptedIsEncodable DEF Encodable
    <3> QED
      BY <3>1, <3>2
  <2>2. OnWire(c, m).rows = [i \in 1 .. n |-> Truncated(c, Row(m.type), rows[i])]
    BY <2>1 DEF OnWire
  <2>3. Len(OnWire(c, m).rows) = n
    BY <2>2
  <2> QED
    BY <1>1, <1>3, <2>1, <2>3 DEF CountOf
<1> QED
  BY <1>2, <1>3

\* The number of elements survives the wire in every configuration whose length
\* field holds what LengthType can: what Serdes.h:381 says is true there, and the
\* run narrow_length shows that it is not elsewhere.
THEOREM CountsSurviveIfTheyFit ==
    ASSUME LengthsFit PROVE Spec => []CountsSurvive
<1>1. AsEncoded /\ CodecInv /\ NotRefused => CountsSurvive
  <2> SUFFICES ASSUME AsEncoded, CodecInv, NotRefused, outcome.kind = "ok", Unaltered
               PROVE  CountOf(outcome.msg) = CountOf(msg)
    BY DEF CountsSurvive
  <2>1. stage \in {"at_server", "at_client"}
    BY DEF CodecInv, Throws, Decoded
  <2>2. PICK cases \in SUBSET Types : outcome = Decode(cfg, EncodedFrame(cfg, msg), cases)
    BY <2>1, CasesAreSides DEF CodecInv, Unaltered
  <2>3. cfg \in Cfgs /\ cfg \in Configs /\ msg \in Messages(cfg) /\ ~EncodeRefused(cfg, msg)
    BY <2>1, CfgsAssumption DEF AsEncoded, NotRefused
  <2>4. Encodable(cfg, msg)
    BY <2>3, AcceptedIsEncodable
  <2>5. outcome = IF msg.type \in cases THEN Decoded("ok", OnWire(cfg, msg))
                                        ELSE Throws("unexpected")
    BY <2>2, <2>3, <2>4, EncodedIsDecoded
  <2>6. outcome.msg = OnWire(cfg, msg)
    BY <2>5 DEF Throws, Decoded
  <2> QED
    BY <2>3, <2>6, CountOnWire
<1> QED
  BY <1>1, StaysAsEncoded, CodecInvariant, OnlyEncodedTravels, PTL
=============================================================================
