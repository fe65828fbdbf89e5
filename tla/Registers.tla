----------------------------- MODULE Registers -----------------------------
(***************************************************************************)
(* The operations of an RTF::IRegisterTarget and what they do to the       *)
(* registers. The interface is not in this repository: it is modelled from *)
(* how RapServerAdapter calls it (src/ServerAdapter.h:24-77) and how       *)
(* RapRegisterTarget implements it (src/RegisterTarget.h:24-135).          *)
(***************************************************************************)
EXTENDS Integers, Sequences

CONSTANTS
    Addrs,            \* the registers
    Bits              \* the bit positions of a register

\* A register value is the set of its bits that are 1.
Data == SUBSET Bits

Reads  == {"ReadSingle", "ReadSeq", "ReadComp"}
Writes == {"WriteSingle", "WriteSeq", "WriteComp", "ReadModifyWrite"}

\* One entry of addrs per element: a sequential operation lists the addresses
\* its start and increment name. data holds the values to write; for a
\* read-modify-write it is <<new_data, mask>>.
Operations ==
    [type : Reads \cup Writes, addrs : Seq(Addrs), data : Seq(Data)]

Elements(op) == Len(op.addrs)

WellFormed(op) ==
    /\ op \in Operations
    /\ op.type \in {"ReadSingle", "WriteSingle", "ReadModifyWrite"} =>
          Elements(op) = 1
    /\ op.type \in {"WriteSingle", "WriteSeq", "WriteComp"} =>
          Len(op.data) = Elements(op)
    /\ op.type = "ReadModifyWrite" => Len(op.data) = 2

-----------------------------------------------------------------------------

NewValue(op, i, old) ==
    IF op.type = "ReadModifyWrite"
    THEN (old \ op.data[2]) \cup (op.data[1] \cap op.data[2])
    ELSE op.data[i]

\* The registers after the first k elements of op: a register named more than
\* once keeps the last value written to it.
AfterElements(regs, op, k) ==
    IF op.type \in Reads THEN regs ELSE
    [a \in Addrs |->
        LET hits == {i \in 1 .. k : op.addrs[i] = a}
            last == CHOOSE i \in hits : \A j \in hits : j <= i
        IN  IF hits = {} THEN regs[a] ELSE NewValue(op, last, regs[a])]

ReadBack(regs, op) ==
    IF op.type \in Reads
    THEN [i \in 1 .. Elements(op) |-> regs[op.addrs[i]]]
    ELSE <<>>
=============================================================================
