--------------------------- MODULE RegisterTarget ---------------------------
(***************************************************************************)
(* The methods of RapRegisterTarget (src/RegisterTarget.h:24-135), on top  *)
(* of the RegisterService that its doCmdResp offers them: which commands a *)
(* method issues under which feature flags, in which order, and what is    *)
(* left when one of them fails. Where the Cfg lacks the feature, a method  *)
(* calls the one of IRegisterTarget that it overrides, which is not in     *)
(* this repository: it goes through the elements one by one with read()    *)
(* and write().                                                            *)
(***************************************************************************)
EXTENDS SerdesSize, Registers, FiniteSets

CONSTANTS
    Threads,          \* the threads that call the RapRegisterTarget
    Methods,          \* the methods they may call, with their arguments
    Cfg,              \* the configuration, as in SerdesSize
    FeatureSets,      \* the sets of feature flags it may have
    MaxCalls          \* bound: calls begun in a behaviour

\* Addresses are numbers here, so that an increment means something.
ASSUME AddrsAssumption == Addrs \subseteq Nat
ASSUME MaxCallsAssumption == MaxCalls \in Nat
ASSUME FeatureSetsAssumption ==
    FeatureSets \subseteq SUBSET {"Sequential", "Fifo", "Increment",
                                  "Compressed", "ReadModifyWrite"}
ASSUME LengthTypeAssumption == Cfg.LengthTypeMax \in Nat \ {0}

VARIABLES
    features,         \* the feature flags of the Cfg that are true
    calls,            \* the calls begun, with the commands issued for them
    outcome,          \* outcome[c]: how call c has ended
    asked, answer, done, store    \* those of RegisterService

wireVars == <<asked, answer, done, store>>
targetVars == <<features, calls, outcome, wireVars>>

\* What may be asked for is up to the methods.
Wire == INSTANCE RegisterService WITH Ops <- {}

S == INSTANCE SequencesExt

ReadMethods  == {"read", "seqRead", "fifoRead", "compRead"}
WriteMethods == {"write", "seqWrite", "fifoWrite", "compWrite"}
MethodNames  == ReadMethods \cup WriteMethods \cup {"readModifyWrite"}

\* addrs is the list of a compressed method and the one address of any other;
\* count is the number of elements, the size of out_data or data; data is as
\* in Operations.
Method == [name : MethodNames, addrs : Seq(Addrs), count : Nat,
           increment : Nat, data : Seq(Data)]

\* The arguments that the signatures, and the assertion in compRead, allow; and
\* there is a register wherever the command of a method may go, also when its
\* increment is cast.
ASSUME MethodsAssumption ==
    \A m \in Methods :
        /\ m \in Method
        /\ m.name \in {"compRead", "compWrite"} => Len(m.addrs) = m.count
        /\ m.name \notin {"compRead", "compWrite"} =>
              /\ Len(m.addrs) = 1
              /\ \A i \in 1 .. m.count,
                    step \in {m.increment, m.increment % (Cfg.LengthTypeMax + 1)} :
                    Head(m.addrs) + (i - 1) * step \in Addrs
        /\ m.name \in {"read", "write", "readModifyWrite"} => m.count = 1
        /\ m.name \in {"fifoRead", "fifoWrite"} => m.increment = 0
        /\ m.name \in WriteMethods => Len(m.data) = m.count
        /\ m.name \in ReadMethods => m.data = <<>>
        /\ m.name = "readModifyWrite" => Len(m.data) = 2

\* A call knows which calls had returned before it began, and the numbers its
\* commands have in the service.
TargetCall ==
    [thread : Threads, method : Method, after : SUBSET (1 .. MaxCalls),
     commands : Seq(Nat)]

TargetTypeOK ==
    /\ features \in FeatureSets
    /\ calls \in Seq(TargetCall)
    /\ outcome \in [DOMAIN calls -> {"pending", "returned", "nak", "failed"}]
    /\ asked \in Seq([thread : Threads, op : {op \in Operations : WellFormed(op)}])
    /\ answer \in Seq([kind : {"pending", "failed", "ack", "nak"}, data : Seq(Data)])
    /\ done \in Seq([call : DOMAIN asked, ok : BOOLEAN, data : Seq(Data)])
    /\ store \in [Addrs -> Data]

\* No flag excludes another (Configuration.h:65-71).
TargetInit ==
    /\ features \in FeatureSets
    /\ calls = <<>>
    /\ outcome = <<>>
    /\ Wire!ServiceInit

-----------------------------------------------------------------------------
(* The commands of a method. A definition that is called a slip is one that  *)
(* a careless edit of the source could turn its successor into.             *)

\* sizeof(DataType) in units of the addresses.
Word == 1

checkIFS(increment) ==
    \/ "Increment" \in features
    \/ increment = 0 /\ "Fifo" \in features
    \/ increment = Word /\ "Sequential" \in features

\* The method sends one command of its own: fifoRead always does.
Direct(m) ==
    CASE m.name \in {"read", "write", "fifoRead"}  -> TRUE
      [] m.name \in {"seqRead", "seqWrite"}        -> checkIFS(m.increment)
      [] m.name = "fifoWrite"                      -> "Fifo" \in features
      [] m.name \in {"compRead", "compWrite"}      -> "Compressed" \in features
      [] m.name = "readModifyWrite"                -> "ReadModifyWrite" \in features

WireType(name) ==
    CASE name = "read"                     -> "ReadSingle"
      [] name = "write"                    -> "WriteSingle"
      [] name \in {"seqRead", "fifoRead"}  -> "ReadSeq"
      [] name \in {"seqWrite", "fifoWrite"} -> "WriteSeq"
      [] name = "compRead"                 -> "ReadComp"
      [] name = "compWrite"                -> "WriteComp"
      [] name = "readModifyWrite"          -> "ReadModifyWrite"

\* Slip: the increment is added before the first element.
StridedTooFar(start, count, increment) ==
    [i \in 1 .. count |-> start + i * increment]

Strided(start, count, increment) ==
    [i \in 1 .. count |-> start + (i - 1) * increment]

\* Slip: one too small a modulus.
NarrowByMax(n) == n % Cfg.LengthTypeMax

\* static_cast<LengthType>.
Narrow(n) == n % (Cfg.LengthTypeMax + 1)

\* Increment and count are cast; the length of data and the list of addresses
\* are not.
DirectCommand(m) ==
    [type  |-> WireType(m.name),
     addrs |-> IF m.name \in {"compRead", "compWrite"} THEN m.addrs
               ELSE Strided(Head(m.addrs),
                            IF m.name \in ReadMethods THEN Narrow(m.count)
                                                      ELSE m.count,
                            Narrow(m.increment)),
     data  |-> m.data]

\* The addresses the caller names, in order.
Named(m) ==
    IF m.name \in {"compRead", "compWrite"} THEN m.addrs
    ELSE Strided(Head(m.addrs), m.count, m.increment)

\* Slip: the mask is forgotten.
UpdatedUnmasked(m, old) == m.data[1]

\* What the fall-back of readModifyWrite(addr, new_data, mask) writes.
Updated(m, old) == (old \ m.data[2]) \cup (m.data[1] \cap m.data[2])

\* Slip: the last element comes first.
ElementFromTheEnd(m, i) ==
    LET j == m.count + 1 - i
    IN  [type  |-> IF m.name \in ReadMethods THEN "ReadSingle" ELSE "WriteSingle",
         addrs |-> <<Named(m)[j]>>,
         data  |-> IF m.name \in ReadMethods THEN <<>> ELSE <<m.data[j]>>]

\* The i-th read() or write() of a fall-back.
Element(m, i) ==
    [type  |-> IF m.name \in ReadMethods THEN "ReadSingle" ELSE "WriteSingle",
     addrs |-> <<Named(m)[i]>>,
     data  |-> IF m.name \in ReadMethods THEN <<>> ELSE <<m.data[i]>>]

CommandCount(m) ==
    CASE Direct(m)                                       -> 1
      [] ~Direct(m) /\ m.name = "readModifyWrite"        -> 2
      [] ~Direct(m) /\ m.name # "readModifyWrite"        -> m.count

\* Command i of call c.
Command(c, i) ==
    LET m == calls[c].method IN
    CASE Direct(m) -> DirectCommand(m)
      [] ~Direct(m) /\ m.name = "readModifyWrite" ->
            IF i = 1
            THEN [type |-> "ReadSingle", addrs |-> m.addrs, data |-> <<>>]
            ELSE [type |-> "WriteSingle", addrs |-> m.addrs,
                  data |-> <<Updated(m, Head(answer[calls[c].commands[1]].data))>>]
      [] ~Direct(m) /\ m.name # "readModifyWrite" -> Element(m, i)

-----------------------------------------------------------------------------

\* The calls a thread is in: one at most.
Under(t) == {c \in DOMAIN calls : calls[c].thread = t /\ outcome[c] = "pending"}

\* The command call c is waiting for.
Awaited(c) ==
    {k \in S!ToSet(calls[c].commands) : answer[k].kind = "pending"}

\* A thread calls a method. The fall-back for no elements returns at once.
Begin(t, m) ==
    /\ Under(t) = {}
    /\ Len(calls) < MaxCalls
    /\ calls' = Append(calls,
                  [thread |-> t, method |-> m, commands |-> <<>>,
                   after |-> {c \in DOMAIN calls : outcome[c] = "returned"}])
    /\ outcome' = Append(outcome,
                    IF CommandCount(m) = 0 THEN "returned" ELSE "pending")
    /\ UNCHANGED <<features, wireVars>>

NextCommand(c) == Command(c, Len(calls[c].commands) + 1)

Refused(op) == CommandRefused(Cfg, op.type, Elements(op))

\* The next command of call c is sent.
Issue(t, c) ==
    /\ c \in Under(t)
    /\ Awaited(c) = {}
    /\ ~Refused(NextCommand(c))
    /\ Wire!Ask(t, NextCommand(c))
    /\ calls' = [calls EXCEPT ![c].commands = Append(@, Len(asked) + 1)]
    /\ UNCHANGED <<features, outcome>>

\* encodeCommand throws MessageSizeException, and so does the method.
Refuse(t, c) ==
    /\ c \in Under(t)
    /\ Awaited(c) = {}
    /\ Refused(NextCommand(c))
    /\ outcome' = [outcome EXCEPT ![c] = "failed"]
    /\ UNCHANGED <<features, calls, wireVars>>

\* Slip: a NAK is taken for an answer like any other.
ReceiveAnything(t, c) ==
    /\ c \in Under(t)
    /\ \E k \in Awaited(c) : Wire!Answer(k)
    /\ outcome' = [outcome EXCEPT ![c] =
          IF Len(calls[c].commands) = CommandCount(calls[c].method)
          THEN "returned" ELSE "pending"]
    /\ UNCHANGED <<features, calls>>

\* doCmdResp returns or throws OperationNakException; the method returns after
\* its last command and passes every exception on.
Receive(t, c) ==
    /\ c \in Under(t)
    /\ \E k \in Awaited(c) :
          /\ Wire!Answer(k)
          /\ outcome' = [outcome EXCEPT ![c] =
                CASE answer'[k].kind = "nak" -> "nak"
                  [] answer'[k].kind = "ack" ->
                        IF Len(calls[c].commands) = CommandCount(calls[c].method)
                        THEN "returned" ELSE "pending"]
    /\ UNCHANGED <<features, calls>>

\* Slip: the exception is swallowed.
LoseQuietly(t, c) ==
    /\ c \in Under(t)
    /\ \E k \in Awaited(c) : Wire!Fail(k)
    /\ outcome' = [outcome EXCEPT ![c] = "returned"]
    /\ UNCHANGED <<features, calls>>

\* doCmdResp throws anything else, and so does the method.
Lose(t, c) ==
    /\ c \in Under(t)
    /\ \E k \in Awaited(c) : Wire!Fail(k)
    /\ outcome' = [outcome EXCEPT ![c] = "failed"]
    /\ UNCHANGED <<features, calls>>

\* A command reaches the registers, whether its method still waits for it or
\* not.
CarryOut(k) ==
    /\ Wire!Do(k)
    /\ UNCHANGED <<features, calls, outcome>>

TargetNext ==
    \/ \E t \in Threads :
          \/ \E m \in Methods : Begin(t, m)
          \/ \E c \in DOMAIN calls :
                Issue(t, c) \/ Refuse(t, c) \/ Receive(t, c) \/ Lose(t, c)
    \/ \E k \in DOMAIN asked : CarryOut(k)

TargetSpec == TargetInit /\ [][TargetNext]_targetVars

-----------------------------------------------------------------------------
(* Properties.                                                              *)

\* The increment survives its cast; and the count does, too.
IncrementFits(m) == Direct(m) => m.increment <= Cfg.LengthTypeMax

Lossless(m) ==
    /\ IncrementFits(m)
    /\ Direct(m) /\ m.name \in ReadMethods => m.count <= Cfg.LengthTypeMax

\* readModifyWrite as a read and a write.
InTwoSteps(m) == m.name = "readModifyWrite" /\ ~Direct(m)

Ops(c) == [i \in DOMAIN calls[c].commands |-> asked[calls[c].commands[i]].op]

\* What the commands of call c have gone for, together.
AddrsOf(c) == S!FlattenSeq([i \in DOMAIN Ops(c) |-> Ops(c)[i].addrs])
DataOf(c)  == S!FlattenSeq([i \in DOMAIN Ops(c) |-> Ops(c)[i].data])

\* A method that is one command, or one for each element.
GoesThrough(c) ==
    LET m == calls[c].method IN
    /\ S!IsPrefix(DataOf(c), m.data)
    /\ IncrementFits(m) => S!IsPrefix(AddrsOf(c), Named(m))
    /\ outcome[c] = "returned" =>
          /\ DataOf(c) = m.data
          /\ Lossless(m) => AddrsOf(c) = Named(m)

\* readModifyWrite in two commands.
Updates(c) ==
    LET m == calls[c].method
        commands == calls[c].commands
    IN  /\ \A i \in DOMAIN commands : Ops(c)[i].addrs = m.addrs
        /\ Len(commands) = 2 =>
              Head(Ops(c)[2].data) \ m.data[2]
                = Head(answer[commands[1]].data) \ m.data[2]
        /\ outcome[c] = "returned" => Len(commands) = 2

\* Whatever fails, and whoever else is calling, a call goes for nothing after
\* what has failed. The elements it has gone for are the first ones of those
\* its caller named, in that order, and with the caller's data, and it returns
\* only when it has gone through all. The casts limit this: a read of more
\* elements than LengthType counts returns when it has read some of the first
\* ones, and under an increment beyond LengthType only the data is what the
\* caller gave. A read-modify-write in two commands goes for its one register,
\* and puts back the bits outside its mask as it has read them
\* (RegisterTarget.h:24-135).
TouchesInOrder ==
    \A c \in DOMAIN calls :
        LET commands == calls[c].commands IN
        /\ \A i \in DOMAIN commands :
              answer[commands[i]].kind # "ack" => i = Len(commands)
        /\ IF InTwoSteps(calls[c].method) THEN Updates(c) ELSE GoesThrough(c)

\* A call that has returned or thrown OperationNakException does not touch a
\* register any more. One that has failed otherwise may, but with a single
\* command (RegisterTarget.h:138-156).
LeavesAtMostOneBehind ==
    \A c \in DOMAIN calls :
        LET left == {k \in S!ToSet(calls[c].commands) :
                        \A i \in DOMAIN done : done[i].call # k}
        IN  /\ outcome[c] \in {"returned", "nak"} => left = {}
            /\ Cardinality(left) <= 1

\* Why: the commands of a call are those of its method, one after the other, and
\* the next one is not sent before the last one has been acknowledged.
InSequence ==
    \A c \in DOMAIN calls :
        LET m == calls[c].method
            commands == calls[c].commands
        IN  /\ m \in Methods
            /\ Len(commands) <= CommandCount(m)
            /\ \A i \in DOMAIN commands :
                  /\ commands[i] \in DOMAIN asked
                  /\ asked[commands[i]]
                       = [thread |-> calls[c].thread, op |-> Command(c, i)]
                  /\ i < Len(commands) => answer[commands[i]].kind = "ack"
                  /\ \A j \in 1 .. i - 1 : commands[j] < commands[i]

\* How a call stands with the service shows in how it has ended.
EndsAsAnswered ==
    \A c \in DOMAIN calls :
        LET commands == calls[c].commands
            kinds == {answer[commands[i]].kind : i \in DOMAIN commands}
        IN  /\ outcome[c] = "pending" =>
                  /\ kinds \subseteq {"ack", "pending"}
                  /\ "pending" \notin kinds =>
                        Len(commands) < CommandCount(calls[c].method)
            /\ outcome[c] = "returned" =>
                  /\ kinds \subseteq {"ack"}
                  /\ Len(commands) = CommandCount(calls[c].method)
            /\ outcome[c] = "nak" => kinds \subseteq {"ack", "nak"}
            /\ outcome[c] = "failed" => kinds \subseteq {"ack", "failed"}

\* A thread is in one call at a time.
OneAfterTheOther ==
    \A c, d \in DOMAIN calls :
        c < d /\ calls[c].thread = calls[d].thread =>
            /\ outcome[c] # "pending"
            /\ \A i \in DOMAIN calls[c].commands, j \in DOMAIN calls[d].commands :
                  calls[c].commands[i] < calls[d].commands[j]

\* What is carried out, and what the caller is told of it.
DoneInOrder ==
    /\ \A i, j \in DOMAIN done :
          i < j /\ asked[done[i].call].thread = asked[done[j].call].thread =>
              done[i].call < done[j].call
    /\ \A i \in DOMAIN done :
          done[i].ok =>
             Len(done[i].data) = IF asked[done[i].call].op.type \in Reads
                                 THEN Elements(asked[done[i].call].op) ELSE 0
    /\ \A k \in DOMAIN answer :
          answer[k].kind \in {"ack", "nak"} =>
             \E i \in DOMAIN done :
                /\ done[i].call = k /\ done[i].data = answer[k].data
                /\ answer[k].kind = "ack" => done[i].ok

\* How the calls, the service and what it has done fit together: the commands
\* of a call are those of its method in sequence, how it has ended agrees with
\* how they were answered, and a thread's calls do not overlap
\* (RegisterTarget.h:24-156). It is inductive, and LeavesAtMostOneBehind follows.
TargetInv ==
    /\ TargetTypeOK
    /\ DOMAIN answer = DOMAIN asked
    /\ InSequence /\ EndsAsAnswered /\ OneAfterTheOther /\ DoneInOrder

\* A method as one operation on the elements its caller named.
Whole(m) == [type |-> WireType(m.name), addrs |-> Named(m), data |-> m.data]

\* The registers after the first n calls, one after the other.
StoreAfter[n \in 0 .. MaxCalls] ==
    IF n = 0 THEN [a \in Addrs |-> {}]
    ELSE LET m == calls[n].method
         IN  AfterElements(StoreAfter[n - 1], Whole(m), Len(Named(m)))

\* What call c has put into out_data.
out_data(c) ==
    S!FlattenSeq([i \in DOMAIN calls[c].commands |->
                    answer[calls[c].commands[i]].data])

\* The feature flags do not show in what a method does, as long as no cast cuts
\* a count or an increment: when a single thread has been calling and all its
\* calls have returned, each read has filled out_data with what the calls
\* before it left in the registers, and so they stand, whatever commands the
\* methods have been broken into. A call that a cast cuts is excluded, since
\* its fall-back would not be cut (RegisterTarget.h:24-135).
FeaturesDoNotShow ==
    /\ \A c, d \in DOMAIN calls : calls[c].thread = calls[d].thread
    /\ \A c \in DOMAIN calls :
          outcome[c] = "returned" /\ Lossless(calls[c].method)
    => /\ store = StoreAfter[Len(calls)]
       /\ \A c \in DOMAIN calls :
             calls[c].method.name \in ReadMethods =>
                out_data(c) = ReadBack(StoreAfter[c - 1], Whole(calls[c].method))

\* Call d may do something after call c does.
MayFollow(d, c) ==
    d > c \/ (calls[d].thread # calls[c].thread /\ d \notin calls[c].after)

Concurrent(c, d) ==
    /\ calls[c].thread # calls[d].thread
    /\ c \notin calls[d].after /\ d \notin calls[c].after

\* Call d is asked to change one of the bits in register a.
MayChange(d, a, bits) ==
    LET m == calls[d].method IN
    \/ m.name \in WriteMethods /\ (Lossless(m) => a \in S!ToSet(Named(m)))
    \/ m.name = "readModifyWrite" /\ m.addrs = <<a>> /\ m.data[2] \cap bits # {}

\* A call that may follow call c is asked to change bits that c has set, or
\* another thread's read-modify-write in two commands overlaps c.
Excused(c) ==
    LET a == Head(calls[c].method.addrs)
        mask == calls[c].method.data[2]
    IN  \/ \E d \in DOMAIN calls \ {c} : MayFollow(d, c) /\ MayChange(d, a, mask)
        \/ /\ "ReadModifyWrite" \notin features
           /\ \E d \in DOMAIN calls :
                 /\ calls[d].method.name = "readModifyWrite"
                 /\ calls[d].method.addrs = <<a>>
                 /\ Concurrent(c, d)

\* A value of its register holds what the readModifyWrite of call c has set.
Holds(c, value) ==
    LET m == calls[c].method IN value \cap m.data[2] = m.data[1] \cap m.data[2]

\* A readModifyWrite that has returned has set its bits for good, unless a
\* call that may follow it is asked to change them. Without
\* FeatureReadModifyWrite there is one more way to lose them: another thread's
\* readModifyWrite of other bits of the register that was under way at the same
\* time, or that had failed with its write still to come
\* (RegisterTarget.h:46-48).
UpdatesKept ==
    \A c \in DOMAIN calls :
        LET m == calls[c].method IN
        m.name = "readModifyWrite" /\ outcome[c] = "returned" =>
            Holds(c, store[Head(m.addrs)]) \/ Excused(c)

\* All that call c had to do has been carried out, whether it knows or not.
Settled(c) ==
    \E i \in DOMAIN done, j \in DOMAIN calls[c].commands :
        /\ j = CommandCount(calls[c].method)
        /\ done[i].call = calls[c].commands[j] /\ done[i].ok

\* Call d cannot have begun before call c had ended.
Precedes(c, d) ==
    c \in calls[d].after \/ (calls[c].thread = calls[d].thread /\ c < d)

\* Why: the bits are kept as soon as they are set, which is before the call
\* returns; and a later read-modify-write in two commands has read them, so that
\* it writes them back.
UpdatesInv ==
    /\ TargetInv
    /\ \A k \in DOMAIN asked :
          \E c \in DOMAIN calls : k \in S!ToSet(calls[c].commands)
    /\ \A d \in DOMAIN calls : \A c \in calls[d].after :
          c \in DOMAIN calls /\ outcome[c] = "returned"
    /\ \A c \in DOMAIN calls :
          LET m == calls[c].method IN
          m.name = "readModifyWrite" /\ Settled(c) =>
             /\ Holds(c, store[Head(m.addrs)]) \/ Excused(c)
             /\ \A d \in DOMAIN calls, i \in DOMAIN done :
                   /\ calls[d].method.name = "readModifyWrite"
                   /\ calls[d].method.addrs = m.addrs
                   /\ ~Direct(calls[d].method) /\ Precedes(c, d)
                   /\ calls[d].commands # <<>>
                   /\ done[i].call = calls[d].commands[1] /\ done[i].ok
                   => Holds(c, Head(done[i].data)) \/ Excused(c)

\* One thread has been calling, and nothing has gone wrong so far.
Smooth ==
    /\ \A c, d \in DOMAIN calls : calls[c].thread = calls[d].thread
    /\ \A c \in DOMAIN calls :
          outcome[c] \in {"pending", "returned"} /\ Lossless(calls[c].method)
    /\ \A i \in DOMAIN done : done[i].ok

\* The commands of call c that have been carried out.
Carried(c) ==
    {j \in DOMAIN calls[c].commands :
        \E i \in DOMAIN done : done[i].call = calls[c].commands[j]}

\* How many elements a method has seen to with its first n commands.
Reached(m, n) ==
    CASE n = 0                                           -> 0
      [] n # 0 /\ Direct(m)                              -> Len(Named(m))
      [] n # 0 /\ ~Direct(m) /\ m.name = "readModifyWrite" -> n - 1
      [] n # 0 /\ ~Direct(m) /\ m.name # "readModifyWrite" -> n

\* Why: between two commands the registers are those after the calls that have
\* returned and the first elements of the one that has not, and what has been
\* read is what they held before that call.
MethodsInv ==
    /\ UpdatesInv
    /\ Len(calls) <= MaxCalls
    /\ Smooth =>
          /\ calls = <<>> => store = StoreAfter[0]
          /\ calls # <<>> =>
                LET c == Len(calls)
                    m == calls[c].method
                IN  \E n \in 0 .. Len(calls[c].commands) :
                       /\ Carried(c) = 1 .. n
                       /\ store = AfterElements(StoreAfter[c - 1], Whole(m),
                                                Reached(m, n))
          /\ \A c \in DOMAIN calls, i \in DOMAIN done :
                LET op == asked[done[i].call].op IN
                /\ done[i].call \in S!ToSet(calls[c].commands)
                /\ op.type \in Reads
                => done[i].data = ReadBack(StoreAfter[c - 1], op)

\* "The class will automatically adjust itself based on the feature flags"
\* (README.md:123): no method sends a command that the Cfg has no feature for.
CommandsUseFeatures ==
    \A c \in DOMAIN calls :
        LET m == calls[c].method IN
        calls[c].commands # <<>> /\ Direct(m) =>
            CASE m.name \in {"read", "write"} -> TRUE
              [] m.name \in {"seqRead", "seqWrite"} -> checkIFS(m.increment)
              [] m.name \in {"fifoRead", "fifoWrite"} -> checkIFS(0)
              [] m.name \in {"compRead", "compWrite"} -> "Compressed" \in features
              [] m.name = "readModifyWrite" -> "ReadModifyWrite" \in features
=============================================================================
