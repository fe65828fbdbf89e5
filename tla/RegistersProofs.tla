-------------------------- MODULE RegistersProofs --------------------------
(***************************************************************************)
(* What the operators of Registers return, for any set of registers and    *)
(* any width.                                                              *)
(***************************************************************************)
EXTENDS Registers, WellFoundedInduction, TLAPS

\* A set of element numbers up to k has a largest member, so the last write
\* to a register named several times is well defined.
LEMMA LastHit ==
    ASSUME NEW k \in Nat, NEW S \in SUBSET (1 .. k), S # {}
    PROVE  \E i \in S : \A j \in S : j <= i
<1> DEFINE T == {k - i : i \in S}
<1>1. T \subseteq Nat
  OBVIOUS
<1>2. T # {}
  <2>1. PICK i \in S : TRUE
    OBVIOUS
  <2> QED
    BY <2>1
<1>3. PICK m \in T : \A n \in T : ~(n < m)
  <2>1. OpToRel(<, Nat) = {ss \in Nat \X Nat : ss[1] < ss[2]}
    BY DEF OpToRel
  <2> DEFINE R == {ss \in Nat \X Nat : ss[1] < ss[2]}
  <2>2. IsWellFoundedOn(R, Nat)
    BY <2>1, NatLessThanWellFounded
  <2>3. \A n, m \in T : n < m => <<n, m>> \in R
    BY <1>1
  <2> HIDE DEF R, T
  <2>4. PICK m \in T : \A n \in T : ~(<<n, m>> \in R)
    BY <1>1, <1>2, <2>2, WFMin
  <2> QED
    BY <2>3, <2>4
<1>4. PICK i \in S : m = k - i
  OBVIOUS
<1>5. ASSUME NEW j \in S
      PROVE  j <= i
  BY <1>1, <1>3, <1>4
<1> QED
  BY <1>5

\* Whatever part of an operation is carried out, the registers hold data.
LEMMA AfterElementsType ==
    ASSUME NEW regs \in [Addrs -> Data], NEW op, WellFormed(op),
           NEW k \in 0 .. Elements(op)
    PROVE  AfterElements(regs, op, k) \in [Addrs -> Data]
<1>1. CASE op.type \in Reads
  BY <1>1 DEF AfterElements
<1>2. CASE op.type \notin Reads
  <2> SUFFICES ASSUME NEW a \in Addrs
               PROVE  AfterElements(regs, op, k)[a] \in Data
    BY <1>2 DEF AfterElements
  <2> DEFINE hits == {i \in 1 .. k : op.addrs[i] = a}
             last == CHOOSE i \in hits : \A j \in hits : j <= i
  <2>1. k \in Nat /\ Elements(op) \in Nat /\ op \in Operations
    BY DEF WellFormed, Elements, Operations
  <2>2. CASE hits = {}
    BY <1>2, <2>2 DEF AfterElements
  <2>3. CASE hits # {}
    <3>1. last \in 1 .. k
      BY <2>1, <2>3, LastHit
    <3>2. last \in 1 .. Elements(op)
      BY <2>1, <3>1
    <3>3. NewValue(op, last, regs[a]) \in Data
      <4> HIDE DEF last
      <4>1. CASE op.type = "ReadModifyWrite"
        <5>1. regs[a] \in Data /\ op.data[1] \in Data
          BY <2>1, <4>1 DEF WellFormed, Operations
        <5> QED
          BY <4>1, <5>1 DEF NewValue, Data
      <4>2. CASE op.type # "ReadModifyWrite"
        <5>1. Len(op.data) = Elements(op)
          BY <1>2, <2>1, <4>2 DEF WellFormed, Operations, Reads, Writes
        <5>2. op.data[last] \in Data
          BY <2>1, <3>2, <5>1 DEF Operations
        <5> QED
          BY <4>2, <5>2 DEF NewValue
      <4> QED
        BY <4>1, <4>2
    <3>4. AfterElements(regs, op, k)[a] = NewValue(op, last, regs[a])
      BY <1>2, <2>3 DEF AfterElements
    <3> QED
      BY <3>3, <3>4
  <2> QED
    BY <2>2, <2>3
<1> QED
  BY <1>1, <1>2

\* Only the data of an operation's elements reach a register: a register it
\* does not name keeps its value.
LEMMA AfterElementsFrame ==
    ASSUME NEW regs \in [Addrs -> Data], NEW op, WellFormed(op),
           NEW k \in 0 .. Elements(op), NEW a \in Addrs,
           \A i \in 1 .. Elements(op) : op.addrs[i] # a
    PROVE  AfterElements(regs, op, k)[a] = regs[a]
<1>1. \A i \in 1 .. k : op.addrs[i] # a
  BY DEF WellFormed, Elements, Operations
<1> QED
  BY <1>1 DEF AfterElements

\* A read returns one value per element.
LEMMA ReadBackType ==
    ASSUME NEW regs \in [Addrs -> Data], NEW op, WellFormed(op)
    PROVE  /\ ReadBack(regs, op) \in Seq(Data)
           /\ Len(ReadBack(regs, op)) =
                IF op.type \in Reads THEN Elements(op) ELSE 0
<1>1. Elements(op) \in Nat /\ op.addrs \in Seq(Addrs)
  BY DEF WellFormed, Operations, Elements
<1>2. \A i \in 1 .. Elements(op) : regs[op.addrs[i]] \in Data
  BY <1>1 DEF Elements
<1> QED
  BY <1>1, <1>2 DEF ReadBack
=============================================================================
