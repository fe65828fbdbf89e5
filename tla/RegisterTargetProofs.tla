------------------------ MODULE RegisterTargetProofs ------------------------
(***************************************************************************)
(* Theorems about RegisterTarget, for any threads, methods, registers,     *)
(* sets of feature flags and number of calls: what a call has gone for, in *)
(* which order, and what a failed one leaves behind follow from TargetInv, *)
(* which is inductive; that updates are kept follows from UpdatesInv, and  *)
(* that the feature flags do not show from MethodsInv, which extend it.    *)
(***************************************************************************)
EXTENDS RegisterTarget, RegistersProofs, SerdesSizeProofs, SequenceTheorems,
        FiniteSetTheorems

-----------------------------------------------------------------------------
(* The commands of a method.                                                *)

LEMMA MethodTyped ==
    ASSUME NEW m \in Methods
    PROVE  /\ m \in Method
           /\ m.name \in MethodNames /\ m.addrs \in Seq(Addrs)
           /\ m.count \in Nat /\ m.increment \in Nat /\ m.data \in Seq(Data)
  BY MethodsAssumption DEF Method

LEMMA NarrowFits ==
    ASSUME NEW n \in Nat
    PROVE  Narrow(n) \in Nat /\ Narrow(n) <= n /\ (n = 1 => Narrow(n) = 1)
<1> DEFINE k == Cfg.LengthTypeMax + 1
           q == n \div k
           r == n % k
<1>1. k \in Nat \ {0} /\ k > 1
  BY LengthTypeAssumption
<1>2. q \in Int /\ r \in 0 .. k - 1
  BY <1>1, ModType
<1>3. n = k * q + r
  BY <1>1, <1>2, DivMod
<1>4. r = Narrow(n)
  BY DEF Narrow
<1> HIDE DEF k, q, r
<1>5. q < 0 => k * q <= -k
  BY <1>1, <1>2, SMT
<1>6. q >= 0 => k * q >= 0
  BY <1>1, <1>2, SMT
<1>7. q >= 1 => k * q >= k
  BY <1>1, <1>2, SMT
<1>8. k * q \in Int
  BY <1>1, <1>2
<1>9. r <= n
  BY <1>1, <1>2, <1>3, <1>5, <1>6, <1>8
<1>10. n = 1 => r = 1
  <2>1. n = 1 => q = 0
    BY <1>1, <1>2, <1>3, <1>5, <1>7, <1>8
  <2>2. q = 0 => k * q = 0
    BY <1>1
  <2> QED
    BY <1>2, <1>3, <2>1, <2>2
<1> QED
  BY <1>2, <1>4, <1>9, <1>10, <1>1

\* A list of addresses of equal distance.
LEMMA StridedTyped ==
    ASSUME NEW m \in Methods, m.name \notin {"compRead", "compWrite"},
           NEW n \in Nat, n <= m.count,
           NEW step \in {m.increment, Narrow(m.increment)}
    PROVE  /\ Strided(Head(m.addrs), n, step) \in Seq(Addrs)
           /\ Len(Strided(Head(m.addrs), n, step)) = n
<1>1. \A i \in 1 .. n : i \in 1 .. m.count
  BY MethodTyped
<1>2. \A i \in 1 .. m.count : Head(m.addrs) + (i - 1) * step \in Addrs
  BY MethodsAssumption DEF Narrow
<1> QED
  BY <1>1, <1>2 DEF Strided

LEMMA DirectWellFormed ==
    ASSUME NEW m \in Methods, Direct(m)
    PROVE  WellFormed(DirectCommand(m))
<1> DEFINE op == DirectCommand(m)
<1>1. /\ m.name \in MethodNames /\ m.data \in Seq(Data) /\ m.count \in Nat
      /\ m.increment \in Nat
  BY MethodTyped
<1>2. op.data = m.data /\ op.type = WireType(m.name)
  BY DEF DirectCommand
<1>3. CASE m.name \in {"compRead", "compWrite"}
  <2>1. op.addrs = m.addrs /\ m.addrs \in Seq(Addrs) /\ Len(m.addrs) = m.count
    BY <1>3, MethodTyped, MethodsAssumption DEF DirectCommand
  <2>2. op.type \in {"ReadComp", "WriteComp"}
        /\ (op.type = "WriteComp" => Len(m.data) = m.count)
    BY <1>2, <1>3, MethodsAssumption DEF WireType, WriteMethods
  <2> QED
    BY <1>1, <2>1, <2>2
    DEF WellFormed, Operations, Elements, Reads, Writes, DirectCommand
<1>4. CASE m.name \notin {"compRead", "compWrite"}
  <2> DEFINE n == IF m.name \in ReadMethods THEN Narrow(m.count) ELSE m.count
  <2>1. n \in Nat /\ n <= m.count /\ (m.count = 1 => n = 1)
    BY <1>1, NarrowFits
  <2>2. op.addrs = Strided(Head(m.addrs), n, Narrow(m.increment))
    BY <1>4 DEF DirectCommand
  <2> HIDE DEF n
  <2>3. op.addrs \in Seq(Addrs) /\ Len(op.addrs) = n
    BY <1>4, <2>1, <2>2, StridedTyped
  <2>4. op.type \in {"ReadSingle", "WriteSingle", "ReadModifyWrite"} => n = 1
    BY <1>2, <1>4, <1>1, <2>1, MethodsAssumption
    DEF WireType, MethodNames, ReadMethods, WriteMethods
  <2>5. op.type \in {"WriteSingle", "WriteSeq", "WriteComp"} => Len(op.data) = n
    BY <1>1, <1>2, <1>4, MethodsAssumption
    DEF WireType, MethodNames, ReadMethods, WriteMethods, n
  <2>6. op.type = "ReadModifyWrite" => Len(op.data) = 2
    BY <1>1, <1>2, <1>4, MethodsAssumption
    DEF WireType, MethodNames, ReadMethods, WriteMethods
  <2>7. op.type \in Reads \cup Writes
    BY <1>1, <1>2, <1>4
    DEF WireType, MethodNames, ReadMethods, WriteMethods, Reads, Writes
  <2> QED
    BY <1>1, <1>2, <2>3, <2>4, <2>5, <2>6, <2>7
    DEF WellFormed, Operations, Elements, DirectCommand
<1> QED
  BY <1>3, <1>4

LEMMA ElementWellFormed ==
    ASSUME NEW m \in Methods, m.name # "readModifyWrite", NEW i \in 1 .. m.count
    PROVE  WellFormed(Element(m, i))
<1>1. Named(m)[i] \in Addrs
  <2>1. CASE m.name \in {"compRead", "compWrite"}
    BY <2>1, MethodTyped, MethodsAssumption DEF Named
  <2>2. CASE m.name \notin {"compRead", "compWrite"}
    <3>1. /\ Named(m) = Strided(Head(m.addrs), m.count, m.increment)
          /\ m.count \in Nat
      BY <2>2, MethodTyped DEF Named
    <3>2. Named(m) \in Seq(Addrs) /\ Len(Named(m)) = m.count
      BY <2>2, <3>1, StridedTyped
    <3> QED
      BY <3>2
  <2> QED
    BY <2>1, <2>2
<1>2. m.name \notin ReadMethods => m.data[i] \in Data
  BY MethodTyped, MethodsAssumption DEF MethodNames, WriteMethods
<1> QED
  BY <1>1, <1>2 DEF Element, WellFormed, Operations, Elements, Reads, Writes

LEMMA CountTyped ==
    ASSUME NEW m \in Methods
    PROVE  /\ CommandCount(m) \in Nat
           /\ Direct(m) => CommandCount(m) = 1
           /\ ~Direct(m) /\ m.name = "readModifyWrite" => CommandCount(m) = 2
           /\ ~Direct(m) /\ m.name # "readModifyWrite" =>
                 CommandCount(m) = m.count
  BY MethodTyped DEF CommandCount

-----------------------------------------------------------------------------
(* What a state looks like, and what a step does to it, element by element.  *)

LEMMA SeqShape ==
    ASSUME NEW T, NEW s \in Seq(T)
    PROVE  /\ Len(s) \in Nat /\ DOMAIN s = 1 .. Len(s)
           /\ \A i \in DOMAIN s : s[i] \in T
  BY LenProperties, ElementOfSeq

LEMMA FunctionIsSeq ==
    ASSUME NEW T, NEW n \in Nat, NEW f \in [1 .. n -> T]
    PROVE  f \in Seq(T) /\ Len(f) = n
<1>1. f = [i \in 1 .. n |-> f[i]]
  OBVIOUS
<1>2. [i \in 1 .. n |-> f[i]] \in Seq(T) /\ Len([i \in 1 .. n |-> f[i]]) = n
  OBVIOUS
<1> QED
  BY <1>1, <1>2

LEMMA Shapes ==
    ASSUME TargetTypeOK
    PROVE  /\ Len(calls) \in Nat /\ DOMAIN calls = 1 .. Len(calls)
           /\ DOMAIN outcome = DOMAIN calls
           /\ Len(asked) \in Nat /\ DOMAIN asked = 1 .. Len(asked)
           /\ Len(answer) \in Nat /\ DOMAIN answer = 1 .. Len(answer)
           /\ Len(done) \in Nat /\ DOMAIN done = 1 .. Len(done)
           /\ \A c \in DOMAIN calls :
                 /\ calls[c] \in TargetCall
                 /\ calls[c].commands \in Seq(Nat)
                 /\ Len(calls[c].commands) \in Nat
                 /\ DOMAIN calls[c].commands = 1 .. Len(calls[c].commands)
           /\ \A k \in DOMAIN asked : WellFormed(asked[k].op)
           /\ \A i \in DOMAIN done : done[i].call \in DOMAIN asked
           /\ \A k \in DOMAIN answer :
                 answer[k].kind \in {"pending", "failed", "ack", "nak"}
<1>1. calls \in Seq(TargetCall) /\ DOMAIN outcome = DOMAIN calls
  BY DEF TargetTypeOK
<1>2. \A call \in TargetCall :
         /\ call.commands \in Seq(Nat) /\ Len(call.commands) \in Nat
         /\ DOMAIN call.commands = 1 .. Len(call.commands)
  BY DEF TargetCall
<1>3. /\ Len(asked) \in Nat /\ DOMAIN asked = 1 .. Len(asked)
      /\ \A k \in DOMAIN asked : WellFormed(asked[k].op)
  <2> DEFINE T == [thread : Threads, op : {op \in Operations : WellFormed(op)}]
  <2>1. asked \in Seq(T) /\ \A call \in T : WellFormed(call.op)
    BY DEF TargetTypeOK
  <2> HIDE DEF T
  <2> QED
    BY <2>1, SeqShape
<1>4. /\ Len(answer) \in Nat /\ DOMAIN answer = 1 .. Len(answer)
      /\ \A k \in DOMAIN answer :
            answer[k].kind \in {"pending", "failed", "ack", "nak"}
  <2> DEFINE T == [kind : {"pending", "failed", "ack", "nak"}, data : Seq(Data)]
  <2>1. answer \in Seq(T)
        /\ \A a \in T : a.kind \in {"pending", "failed", "ack", "nak"}
    BY DEF TargetTypeOK
  <2> HIDE DEF T
  <2> QED
    BY <2>1, SeqShape
<1>5. /\ Len(done) \in Nat /\ DOMAIN done = 1 .. Len(done)
      /\ \A i \in DOMAIN done : done[i].call \in DOMAIN asked
  <2> DEFINE T == [call : DOMAIN asked, ok : BOOLEAN, data : Seq(Data)]
  <2>1. done \in Seq(T) /\ \A d \in T : d.call \in DOMAIN asked
    BY DEF TargetTypeOK
  <2> HIDE DEF T
  <2> QED
    BY <2>1, SeqShape
<1>6. /\ Len(calls) \in Nat /\ DOMAIN calls = 1 .. Len(calls)
      /\ \A c \in DOMAIN calls : calls[c] \in TargetCall
  BY <1>1
<1> QED
  BY <1>1, <1>2, <1>3, <1>4, <1>5, <1>6

\* What a call's own entries say about its next or its former commands.
LEMMA CommandFrame ==
    ASSUME NEW c, NEW i \in Nat, UNCHANGED features,
           calls'[c].method = calls[c].method,
           i = 2 => /\ calls'[c].commands[1] = calls[c].commands[1]
                    /\ answer'[calls[c].commands[1]].data
                         = answer[calls[c].commands[1]].data
    PROVE  /\ Command(c, i)' = Command(c, i)
           /\ CommandCount(calls[c].method)' = CommandCount(calls[c].method)
<1>1. /\ Direct(calls[c].method)' = Direct(calls[c].method)
      /\ DirectCommand(calls[c].method)' = DirectCommand(calls[c].method)
      /\ Element(calls[c].method, i)' = Element(calls[c].method, i)
  BY DEF Direct, checkIFS, DirectCommand, Element, Named, Strided, Narrow
<1>2. CommandCount(calls[c].method)' = CommandCount(calls[c].method)
  BY <1>1 DEF CommandCount
<1>3. CASE i = 2
  <2>1. calls'[c].commands[1] = calls[c].commands[1]
        /\ answer'[calls[c].commands[1]].data
             = answer[calls[c].commands[1]].data
    BY <1>3
  <2>2. Updated(calls[c].method, Head(answer[calls[c].commands[1]].data))'
          = Updated(calls[c].method, Head(answer[calls[c].commands[1]].data))
    BY <2>1 DEF Updated
  <2> QED
    BY <1>1, <1>2, <1>3, <2>2 DEF Command
<1> QED
  BY <1>1, <1>2, <1>3 DEF Command

\* The number of the next call, command or entry of done.
NewCall == Len(calls) + 1
NewCommand == Len(asked) + 1
NewDone == Len(done) + 1

LEMMA BeginEffect ==
    ASSUME TargetInv, NEW t \in Threads, NEW m \in Methods, Begin(t, m)
    PROVE  /\ NewCall \in Nat /\ NewCall \notin DOMAIN calls
           /\ DOMAIN calls' = DOMAIN calls \cup {NewCall}
           /\ DOMAIN outcome' = DOMAIN outcome \cup {NewCall}
           /\ \A c \in DOMAIN calls :
                 c < NewCall /\ calls'[c] = calls[c] /\ outcome'[c] = outcome[c]
           /\ calls'[NewCall].thread = t /\ calls'[NewCall].method = m
           /\ calls'[NewCall].commands = <<>>
           /\ calls'[NewCall].after = {c \in DOMAIN calls : outcome[c] = "returned"}
           /\ outcome'[NewCall] = IF CommandCount(m) = 0 THEN "returned"
                                                   ELSE "pending"
           /\ UNCHANGED <<features, asked, answer, done, store>>
<1>1. /\ Len(calls) \in Nat /\ DOMAIN calls = 1 .. Len(calls)
      /\ DOMAIN outcome = 1 .. Len(calls) /\ calls \in Seq(TargetCall)
  BY Shapes DEF TargetInv, TargetTypeOK
<1>2. /\ outcome \in Seq({"pending", "returned", "nak", "failed"})
      /\ Len(outcome) = Len(calls)
  <2>1. outcome \in [1 .. Len(calls) -> {"pending", "returned", "nak", "failed"}]
    BY <1>1 DEF TargetInv, TargetTypeOK
  <2> QED
    BY <1>1, <2>1, FunctionIsSeq
<1> DEFINE call == [thread |-> t, method |-> m, commands |-> <<>>,
                    after |-> {c \in DOMAIN calls : outcome[c] = "returned"}]
           end == IF CommandCount(m) = 0 THEN "returned" ELSE "pending"
<1>3. calls' = Append(calls, call) /\ outcome' = Append(outcome, end)
  BY DEF Begin
<1> HIDE DEF call, end
<1>4. /\ DOMAIN calls' = 1 .. NewCall /\ calls'[NewCall] = call
      /\ \A c \in 1 .. Len(calls) : calls'[c] = calls[c]
  BY <1>1, <1>3 DEF NewCall
<1>5. /\ DOMAIN outcome' = 1 .. NewCall /\ outcome'[NewCall] = end
      /\ \A c \in 1 .. Len(calls) : outcome'[c] = outcome[c]
  BY <1>1, <1>2, <1>3 DEF NewCall
<1> QED
  BY <1>1, <1>4, <1>5 DEF Begin, wireVars, call, end, NewCall

LEMMA IssueEffect ==
    ASSUME TargetInv, NEW t \in Threads, NEW c \in DOMAIN calls, Issue(t, c)
    PROVE  /\ calls[c].thread = t /\ outcome[c] = "pending" /\ Awaited(c) = {}
           /\ NewCommand \in Nat /\ NewCommand \notin DOMAIN asked /\ \A j \in DOMAIN asked : j < NewCommand
           /\ DOMAIN asked' = DOMAIN asked \cup {NewCommand}
           /\ DOMAIN answer' = DOMAIN asked \cup {NewCommand}
           /\ \A j \in DOMAIN asked :
                 asked'[j] = asked[j] /\ answer'[j] = answer[j]
           /\ asked'[NewCommand] = [thread |-> t, op |-> Command(c, Len(calls[c].commands) + 1)]
           /\ answer'[NewCommand] = [kind |-> "pending", data |-> <<>>]
           /\ DOMAIN calls' = DOMAIN calls
           /\ \A d \in DOMAIN calls : d # c => calls'[d] = calls[d]
           /\ calls'[c].method = calls[c].method
           /\ calls'[c].thread = calls[c].thread
           /\ calls'[c].after = calls[c].after
           /\ calls'[c].commands \in Seq(Nat)
           /\ Len(calls'[c].commands) = Len(calls[c].commands) + 1
           /\ calls'[c].commands[Len(calls[c].commands) + 1] = NewCommand
           /\ \A i \in DOMAIN calls[c].commands :
                 calls'[c].commands[i] = calls[c].commands[i]
           /\ UNCHANGED <<features, outcome, done, store>>
<1>1. /\ Len(asked) \in Nat /\ DOMAIN asked = 1 .. Len(asked)
      /\ DOMAIN answer = 1 .. Len(asked) /\ Len(answer) = Len(asked)
      /\ calls[c].commands \in Seq(Nat) /\ Len(calls[c].commands) \in Nat
      /\ DOMAIN calls[c].commands = 1 .. Len(calls[c].commands)
  BY Shapes DEF TargetInv
<1> DEFINE n == Len(calls[c].commands) + 1
           k == NewCommand
           call == [thread |-> t, op |-> NextCommand(c)]
           none == [kind |-> "pending", data |-> <<>>]
<1>2. /\ asked' = Append(asked, call) /\ answer' = Append(answer, none)
      /\ UNCHANGED <<features, outcome, done, store>>
  BY DEF Issue, Wire!Ask, Wire!Pending
<1>3. calls' = [calls EXCEPT ![c].commands = Append(calls[c].commands, k)]
  BY DEF Issue, NewCommand
<1>4. call = [thread |-> t, op |-> Command(c, n)]
  BY DEF NextCommand
<1> HIDE DEF call, none
<1>5. /\ asked \in Seq([thread : Threads,
                        op : {op \in Operations : WellFormed(op)}])
      /\ answer \in Seq([kind : {"pending", "failed", "ack", "nak"},
                         data : Seq(Data)])
  BY DEF TargetInv, TargetTypeOK
<1>6. /\ DOMAIN asked' = 1 .. k /\ asked'[k] = call
      /\ \A j \in 1 .. Len(asked) : asked'[j] = asked[j]
  BY <1>1, <1>2, <1>5 DEF NewCommand
<1>7. /\ DOMAIN answer' = 1 .. k /\ answer'[k] = none
      /\ \A j \in 1 .. Len(asked) : answer'[j] = answer[j]
  BY <1>1, <1>2, <1>5 DEF NewCommand
<1>8. /\ Append(calls[c].commands, k) \in Seq(Nat)
      /\ Len(Append(calls[c].commands, k)) = n
      /\ Append(calls[c].commands, k)[n] = k
      /\ \A i \in DOMAIN calls[c].commands :
            Append(calls[c].commands, k)[i] = calls[c].commands[i]
  BY <1>1, AppendProperties DEF NewCommand
<1>9. /\ DOMAIN calls' = DOMAIN calls
      /\ \A d \in DOMAIN calls : d # c => calls'[d] = calls[d]
      /\ calls'[c].method = calls[c].method
      /\ calls'[c].thread = calls[c].thread
      /\ calls'[c].after = calls[c].after
      /\ calls'[c].commands = Append(calls[c].commands, k)
  <2>1. calls[c] \in TargetCall
    BY Shapes DEF TargetInv
  <2> QED
    BY <1>3, <2>1 DEF TargetCall
<1>10. calls[c].thread = t /\ outcome[c] = "pending" /\ Awaited(c) = {}
  BY DEF Issue, Under
<1> QED
  BY <1>1, <1>2, <1>4, <1>6, <1>7, <1>8, <1>9, <1>10 DEF none, NewCommand

\* Receive and Lose: one pending command of the call gets its answer.
LEMMA AwaitedIsLast ==
    ASSUME TargetInv, NEW c \in DOMAIN calls, NEW k \in Awaited(c)
    PROVE  /\ k \in DOMAIN asked /\ answer[k].kind = "pending"
           /\ calls[c].commands # <<>>
           /\ k = calls[c].commands[Len(calls[c].commands)]
<1>1. PICK i \in DOMAIN calls[c].commands : k = calls[c].commands[i]
  BY DEF Awaited, S!ToSet
<1>2. answer[k].kind = "pending"
  BY DEF Awaited
<1>3. i \in 1 .. Len(calls[c].commands) /\ Len(calls[c].commands) \in Nat
  BY Shapes DEF TargetInv
<1>4. k \in DOMAIN asked /\ ~(i < Len(calls[c].commands))
  BY <1>1, <1>2 DEF TargetInv, InSequence
<1> QED
  BY <1>1, <1>2, <1>3, <1>4

LEMMA AnswerEffect ==
    ASSUME TargetInv, NEW t \in Threads, NEW c \in DOMAIN calls,
           Receive(t, c) \/ Lose(t, c)
    PROVE  /\ calls[c].thread = t /\ outcome[c] = "pending"
           /\ \E k \in Awaited(c) :
                 /\ DOMAIN answer' = DOMAIN answer
                 /\ answer'[k].kind \in {"ack", "nak", "failed"}
                 /\ \A j \in DOMAIN answer : j # k => answer'[j] = answer[j]
                 /\ DOMAIN outcome' = DOMAIN outcome
                 /\ \A d \in DOMAIN outcome : d # c => outcome'[d] = outcome[d]
                 /\ outcome'[c] =
                      CASE answer'[k].kind = "failed" -> "failed"
                        [] answer'[k].kind = "nak"    -> "nak"
                        [] answer'[k].kind = "ack"    ->
                             IF Len(calls[c].commands)
                                  = CommandCount(calls[c].method)
                             THEN "returned" ELSE "pending"
                 /\ answer'[k].kind \in {"ack", "nak"} =>
                       \E i \in DOMAIN done :
                          /\ done[i].call = k /\ done[i].data = answer'[k].data
                          /\ answer'[k].kind = "ack" => done[i].ok
                 /\ answer'[k].kind = "failed" => answer'[k].data = <<>>
           /\ UNCHANGED <<features, calls, asked, done, store>>
<1>1. calls[c].thread = t /\ outcome[c] = "pending" /\ c \in DOMAIN outcome
  BY Shapes DEF Receive, Lose, Under, TargetInv
<1>2. CASE Receive(t, c)
  <2>1. PICK k \in Awaited(c) : Wire!Answer(k) /\ outcome' = [outcome EXCEPT ![c] =
                CASE answer'[k].kind = "nak" -> "nak"
                  [] answer'[k].kind = "ack" ->
                        IF Len(calls[c].commands) = CommandCount(calls[c].method)
                        THEN "returned" ELSE "pending"]
    BY <1>2 DEF Receive
  <2>2. PICK i \in DOMAIN done :
          /\ done[i].call = k
          /\ answer' = [answer EXCEPT ![k] =
                          [kind |-> IF done[i].ok THEN "ack" ELSE "nak",
                           data |-> done[i].data]]
    BY <2>1 DEF Wire!Answer
  <2>3. k \in DOMAIN answer
    BY AwaitedIsLast DEF TargetInv
  <2>4. /\ answer'[k] = [kind |-> IF done[i].ok THEN "ack" ELSE "nak",
                         data |-> done[i].data]
        /\ DOMAIN answer' = DOMAIN answer
        /\ \A j \in DOMAIN answer : j # k => answer'[j] = answer[j]
    BY <2>2, <2>3
  <2>5. /\ UNCHANGED <<features, calls, asked, done, store>>
    BY <1>2, <2>1 DEF Receive, Wire!Answer
  <2> QED
    BY <1>1, <2>1, <2>2, <2>4, <2>5
<1>3. CASE Lose(t, c)
  <2>1. PICK k \in Awaited(c) : Wire!Fail(k)
    BY <1>3 DEF Lose
  <2>2. k \in DOMAIN answer
    BY AwaitedIsLast DEF TargetInv
  <2>3. /\ answer'[k] = [kind |-> "failed", data |-> <<>>]
        /\ DOMAIN answer' = DOMAIN answer
        /\ \A j \in DOMAIN answer : j # k => answer'[j] = answer[j]
    BY <2>1, <2>2 DEF Wire!Fail, Wire!Failed
  <2>4. /\ UNCHANGED <<features, calls, asked, done, store>>
        /\ outcome' = [outcome EXCEPT ![c] = "failed"]
    BY <1>3, <2>1 DEF Lose, Wire!Fail
  <2> QED
    BY <1>1, <2>3, <2>4
<1> QED
  BY <1>2, <1>3

\* The data that the service gives for command k.
Given(ok, k) == IF ok THEN ReadBack(store, asked[k].op) ELSE <<>>

LEMMA CarryOutIs ==
    ASSUME NEW k \in DOMAIN asked, CarryOut(k)
    PROVE  \E ok \in BOOLEAN, n \in 0 .. Elements(asked[k].op) :
              /\ ok => n = Elements(asked[k].op)
              /\ store' = AfterElements(store, asked[k].op, n)
              /\ done' = Append(done, [call |-> k, ok |-> ok, data |-> Given(ok, k)])
              /\ UNCHANGED <<features, calls, outcome, asked, answer>>
<1>1. PICK ok \in BOOLEAN, n \in 0 .. Elements(asked[k].op) :
        /\ ok => n = Elements(asked[k].op)
        /\ store' = Wire!AfterElements(store, asked[k].op, n)
        /\ done' = Append(done,
                     [call |-> k, ok |-> ok,
                      data |-> IF ok THEN Wire!ReadBack(store, asked[k].op)
                                     ELSE <<>>])
  BY DEF CarryOut, Wire!Do, Wire!Elements, Elements
<1>2. /\ Wire!AfterElements(store, asked[k].op, n)
           = AfterElements(store, asked[k].op, n)
      /\ Wire!ReadBack(store, asked[k].op) = ReadBack(store, asked[k].op)
  BY DEF Wire!AfterElements, AfterElements, Wire!ReadBack, ReadBack,
         Wire!NewValue, NewValue, Wire!Reads, Reads, Wire!Elements, Elements
<1>3. done' = Append(done, [call |-> k, ok |-> ok, data |-> Given(ok, k)])
  BY <1>1, <1>2 DEF Given
<1>4. UNCHANGED <<features, calls, outcome, asked, answer>>
  BY DEF CarryOut, Wire!Do
<1>5. /\ ok => n = Elements(asked[k].op)
      /\ store' = AfterElements(store, asked[k].op, n)
  BY <1>1, <1>2
<1> WITNESS ok \in BOOLEAN, n \in 0 .. Elements(asked[k].op)
<1> QED
  BY <1>3, <1>4, <1>5

LEMMA CarryOutEffect ==
    ASSUME TargetInv, NEW k \in DOMAIN asked, CarryOut(k)
    PROVE  /\ DOMAIN done' = DOMAIN done \cup {NewDone} /\ NewDone \in Nat
           /\ \A i \in DOMAIN done :
                 /\ i < NewDone /\ done'[i] = done[i]
                 /\ asked[done[i].call].thread = asked[k].thread =>
                       done[i].call < k
           /\ done'[NewDone].call = k
           /\ done'[NewDone].ok =>
                 Len(done'[NewDone].data) = IF asked[k].op.type \in Reads
                                      THEN Elements(asked[k].op) ELSE 0
           /\ UNCHANGED <<features, calls, outcome, asked, answer>>
<1>1. PICK ok \in BOOLEAN, e \in 0 .. Elements(asked[k].op) :
        /\ ok => e = Elements(asked[k].op)
        /\ store' = AfterElements(store, asked[k].op, e)
        /\ done' = Append(done, [call |-> k, ok |-> ok, data |-> Given(ok, k)])
        /\ UNCHANGED <<features, calls, outcome, asked, answer>>
  BY CarryOutIs
<1> DEFINE d == [call |-> k, ok |-> ok, data |-> Given(ok, k)]
           D == [call : DOMAIN asked, ok : BOOLEAN, data : Seq(Data)]
<1>2. Len(done) \in Nat /\ DOMAIN done = 1 .. Len(done)
  BY Shapes DEF TargetInv
<1>3. done \in Seq(D) /\ done' = Append(done, d)
  BY <1>1 DEF TargetInv, TargetTypeOK
<1>4. /\ d.call = k /\ d.ok = ok
      /\ d.ok => Len(d.data) = IF asked[k].op.type \in Reads
                               THEN Elements(asked[k].op) ELSE 0
  <2>1. WellFormed(asked[k].op) /\ store \in [Addrs -> Data]
    BY Shapes DEF TargetInv, TargetTypeOK
  <2> QED
    BY <1>1, <2>1, ReadBackType DEF Given
<1>5. \A i \in DOMAIN done :
         asked[done[i].call].thread = asked[k].thread => done[i].call < k
  BY DEF CarryOut, Wire!Do
<1> HIDE DEF d, D
<1>6. /\ DOMAIN done' = 1 .. NewDone /\ done'[NewDone] = d
      /\ \A i \in 1 .. Len(done) : done'[i] = done[i]
  BY <1>2, <1>3 DEF NewDone
<1> QED
  BY <1>1, <1>2, <1>4, <1>5, <1>6 DEF NewDone

-----------------------------------------------------------------------------
(* The parts of TargetInv, each preserved by each step.                      *)

LEMMA CommandAt ==
    ASSUME TargetInv, NEW c \in DOMAIN calls, NEW i \in DOMAIN calls[c].commands,
           NEW k, k = calls[c].commands[i]
    PROVE  /\ calls[c].method \in Methods
           /\ k \in DOMAIN asked /\ k \in DOMAIN answer
           /\ asked[k].thread = calls[c].thread /\ asked[k].op = Command(c, i)
           /\ i < Len(calls[c].commands) => answer[k].kind = "ack"
           /\ \A j \in 1 .. i - 1 : calls[c].commands[j] < k
           /\ answer[k].kind = "pending" => k \in Awaited(c)
<1>1. k \in S!ToSet(calls[c].commands)
  BY DEF S!ToSet
<1>2. DOMAIN answer = DOMAIN asked /\ InSequence
  BY DEF TargetInv
<1>3. /\ k \in DOMAIN asked /\ calls[c].method \in Methods
      /\ asked[k] = [thread |-> calls[c].thread, op |-> Command(c, i)]
      /\ i < Len(calls[c].commands) => answer[k].kind = "ack"
      /\ \A j \in 1 .. i - 1 : calls[c].commands[j] < k
  BY <1>2 DEF InSequence
<1> QED
  BY <1>1, <1>2, <1>3 DEF Awaited

LEMMA KindAt ==
    ASSUME TargetInv, NEW c \in DOMAIN calls, NEW i \in DOMAIN calls[c].commands,
           NEW kind, kind = answer[calls[c].commands[i]].kind
    PROVE  /\ outcome[c] = "pending" => kind \in {"ack", "pending"}
           /\ outcome[c] = "returned" => kind = "ack"
           /\ outcome[c] = "nak" => kind \in {"ack", "nak"}
           /\ outcome[c] = "failed" => kind \in {"ack", "failed"}
<1>1. kind \in {answer[calls[c].commands[j]].kind : j \in DOMAIN calls[c].commands}
  OBVIOUS
<1>2. EndsAsAnswered
  BY DEF TargetInv
<1> QED
  BY <1>1, <1>2 DEF EndsAsAnswered

\* A method only ever sends well-formed commands.
LEMMA CommandWellFormed ==
    ASSUME TargetInv, NEW c \in DOMAIN calls,
           Len(calls[c].commands) < CommandCount(calls[c].method),
           Awaited(c) = {}, outcome[c] = "pending"
    PROVE  WellFormed(NextCommand(c))
<1> DEFINE m == calls[c].method
           n == Len(calls[c].commands) + 1
<1>1. /\ m \in Methods /\ n \in Nat /\ n \in 1 .. CommandCount(m)
      /\ DOMAIN calls[c].commands = 1 .. Len(calls[c].commands)
  BY Shapes, CountTyped DEF TargetInv, InSequence
<1>2. CASE Direct(m)
  BY <1>1, <1>2, DirectWellFormed DEF NextCommand, Command
<1>3. CASE ~Direct(m) /\ m.name # "readModifyWrite"
  BY <1>1, <1>3, CountTyped, ElementWellFormed DEF NextCommand, Command
<1>4. CASE ~Direct(m) /\ m.name = "readModifyWrite" /\ n = 1
  <2>1. NextCommand(c) = [type |-> "ReadSingle", addrs |-> m.addrs, data |-> <<>>]
    BY <1>4 DEF NextCommand, Command
  <2>2. m.addrs \in Seq(Addrs) /\ Len(m.addrs) = 1
    BY <1>1, <1>4, MethodTyped, MethodsAssumption
  <2> QED
    BY <2>1, <2>2 DEF WellFormed, Operations, Elements, Reads, Writes
<1>5. CASE ~Direct(m) /\ m.name = "readModifyWrite" /\ n # 1
  <2> DEFINE k == calls[c].commands[1]
  <2>1. n = 2 /\ 1 \in DOMAIN calls[c].commands
    BY <1>1, <1>5, CountTyped
  <2>2. /\ k \in DOMAIN asked /\ k \in DOMAIN answer
        /\ asked[k].op = Command(c, 1)
    BY <2>1, CommandAt
  <2>3. answer[k].kind = "ack"
    BY <2>1, KindAt, CommandAt
  <2>4. asked[k].op = [type |-> "ReadSingle", addrs |-> m.addrs, data |-> <<>>]
    BY <1>5, <2>2 DEF Command
  <2>5. Len(answer[k].data) = 1
    <3>1. PICK i \in DOMAIN done :
            done[i].call = k /\ done[i].data = answer[k].data /\ done[i].ok
      BY <2>2, <2>3 DEF TargetInv, DoneInOrder
    <3>2. Len(done[i].data) = Elements(asked[k].op)
      BY <2>4, <3>1 DEF TargetInv, DoneInOrder, Reads
    <3>3. Elements(asked[k].op) = 1
      BY <1>1, <1>5, <2>4, MethodsAssumption DEF Elements
    <3> QED
      BY <3>1, <3>2, <3>3
  <2>6. answer[k].data \in Seq(Data)
    <3> DEFINE T == [kind : {"pending", "failed", "ack", "nak"}, data : Seq(Data)]
    <3>1. answer \in Seq(T) /\ \A a \in T : a.data \in Seq(Data)
      BY DEF TargetInv, TargetTypeOK
    <3> HIDE DEF T
    <3> QED
      BY <2>2, <3>1, SeqShape
  <2>7. Head(answer[k].data) \in Data
    <3> HIDE DEF k
    <3>1. Len(<<>>) = 0 /\ 0 # 1
      OBVIOUS
    <3>2. answer[k].data # <<>>
      BY <2>5, <3>1, Zenon
    <3> QED
      BY <2>6, <3>2, HeadTailProperties
  <2>8. m.data \in Seq(Data) /\ Len(m.data) = 2
        /\ m.addrs \in Seq(Addrs) /\ Len(m.addrs) = 1
    BY <1>1, <1>5, MethodTyped, MethodsAssumption
  <2>9. Updated(m, Head(answer[k].data)) \in Data
    <3>1. m.data[1] \in Data /\ m.data[2] \in Data
      BY <2>8
    <3> QED
      BY <2>7, <3>1 DEF Updated, Data
  <2>10. NextCommand(c) = [type |-> "WriteSingle", addrs |-> m.addrs,
                           data |-> <<Updated(m, Head(answer[k].data))>>]
    BY <1>5, <2>1 DEF NextCommand, Command
  <2> QED
    BY <2>8, <2>9, <2>10 DEF WellFormed, Operations, Elements, Reads, Writes
<1> QED
  BY <1>2, <1>3, <1>4, <1>5

\* A thread that sends its next command has one left.
LEMMA OneLeft ==
    ASSUME TargetInv, NEW t \in Threads, NEW c \in DOMAIN calls, Issue(t, c)
    PROVE  /\ Len(calls[c].commands) < CommandCount(calls[c].method)
           /\ \A i \in DOMAIN calls[c].commands :
                 answer[calls[c].commands[i]].kind = "ack"
           /\ WellFormed(NextCommand(c))
<1>1. outcome[c] = "pending" /\ Awaited(c) = {}
  BY DEF Issue, Under
<1>2. \A i \in DOMAIN calls[c].commands :
         answer[calls[c].commands[i]].kind = "ack"
  BY <1>1, CommandAt, KindAt
<1>3. Len(calls[c].commands) < CommandCount(calls[c].method)
  BY <1>1, <1>2 DEF TargetInv, EndsAsAnswered
<1> QED
  BY <1>1, <1>2, <1>3, CommandWellFormed

LEMMA BeginTyped ==
    ASSUME TargetInv, NEW t \in Threads, NEW m \in Methods, Begin(t, m)
    PROVE  TargetTypeOK' /\ DOMAIN answer' = DOMAIN asked'
<1> DEFINE n == NewCall
           call == [thread |-> t, method |-> m, commands |-> <<>>,
                    after |-> {c \in DOMAIN calls : outcome[c] = "returned"}]
<1>1. /\ DOMAIN calls' = DOMAIN calls \cup {n}
      /\ DOMAIN outcome' = DOMAIN outcome \cup {n}
      /\ \A c \in DOMAIN calls : outcome'[c] = outcome[c]
      /\ outcome'[n] \in {"pending", "returned"}
      /\ UNCHANGED <<features, asked, answer, done, store>>
  BY BeginEffect
<1>2. call \in TargetCall
  <2>1. DOMAIN calls \subseteq 1 .. MaxCalls
    BY Shapes, MaxCallsAssumption DEF Begin, TargetInv
  <2> QED
    BY <2>1, MethodTyped DEF TargetCall
<1>3. calls' \in Seq(TargetCall)
  <2>1. calls \in Seq(TargetCall) /\ calls' = Append(calls, call)
    BY DEF TargetInv, TargetTypeOK, Begin
  <2> HIDE DEF call
  <2> QED
    BY <1>2, <2>1, AppendProperties
<1>4. outcome' \in [DOMAIN calls' -> {"pending", "returned", "nak", "failed"}]
  <2>1. outcome \in [DOMAIN calls -> {"pending", "returned", "nak", "failed"}]
    BY DEF TargetInv, TargetTypeOK
  <2>2. outcome' = [c \in DOMAIN outcome' |-> outcome'[c]]
    <3>1. outcome' = Append(outcome, IF CommandCount(m) = 0 THEN "returned"
                                                            ELSE "pending")
      BY DEF Begin
    <3> QED
      BY <3>1
  <2> QED
    BY <1>1, <2>1, <2>2
<1> QED
  BY <1>1, <1>3, <1>4 DEF TargetInv, TargetTypeOK

LEMMA IssueTyped ==
    ASSUME TargetInv, NEW t \in Threads, NEW c \in DOMAIN calls, Issue(t, c)
    PROVE  TargetTypeOK' /\ DOMAIN answer' = DOMAIN asked'
<1> DEFINE k == NewCommand
           A == [thread : Threads, op : {op \in Operations : WellFormed(op)}]
           R == [kind : {"pending", "failed", "ack", "nak"}, data : Seq(Data)]
<1>1. /\ DOMAIN asked' = DOMAIN asked \cup {k} /\ DOMAIN answer' = DOMAIN asked'
      /\ DOMAIN calls' = DOMAIN calls /\ k \in Nat
      /\ UNCHANGED <<features, outcome, done, store>>
  BY IssueEffect
<1>2. asked' \in Seq(A)
  <2> DEFINE a == [thread |-> t, op |-> NextCommand(c)]
  <2>1. asked \in Seq(A) /\ asked' = Append(asked, a)
    BY DEF TargetInv, TargetTypeOK, Issue, Wire!Ask
  <2>2. a \in A
    BY OneLeft DEF WellFormed
  <2> HIDE DEF a, A
  <2> QED
    BY <2>1, <2>2, AppendProperties
<1>3. answer' \in Seq(R)
  <2> DEFINE r == [kind |-> "pending", data |-> <<>>]
  <2>1. answer \in Seq(R) /\ answer' = Append(answer, r)
    BY DEF TargetInv, TargetTypeOK, Issue, Wire!Ask, Wire!Pending
  <2>2. r \in R
    OBVIOUS
  <2> HIDE DEF r, R
  <2> QED
    BY <2>1, <2>2, AppendProperties
<1>4. calls' \in Seq(TargetCall)
  <2> DEFINE x == [calls[c] EXCEPT !.commands = Append(calls[c].commands, k)]
  <2>1. calls \in Seq(TargetCall) /\ calls' = [calls EXCEPT ![c] = x]
    BY DEF TargetInv, TargetTypeOK, Issue, NewCommand
  <2>2. c \in 1 .. Len(calls) /\ calls[c] \in TargetCall
    BY Shapes DEF TargetInv
  <2>3. Append(calls[c].commands, k) \in Seq(Nat)
    BY <1>1, <2>2, AppendProperties DEF TargetCall
  <2>4. x \in TargetCall
    BY <2>2, <2>3 DEF TargetCall
  <2> HIDE DEF x
  <2> QED
    BY <2>1, <2>2, <2>4, ExceptSeq
<1>5. done' \in Seq([call : DOMAIN asked', ok : BOOLEAN, data : Seq(Data)])
  <2> DEFINE D == [call : DOMAIN asked, ok : BOOLEAN, data : Seq(Data)]
             E == [call : DOMAIN asked', ok : BOOLEAN, data : Seq(Data)]
  <2>1. D \subseteq E
    BY <1>1
  <2>2. done \in Seq(D) /\ done' = done
    BY <1>1 DEF TargetInv, TargetTypeOK
  <2> HIDE DEF D, E
  <2>3. done' \in Seq(E)
    BY <2>1, <2>2, SeqMonotonic
  <2> QED
    BY <2>3 DEF E
<1> QED
  BY <1>1, <1>2, <1>3, <1>4, <1>5 DEF TargetInv, TargetTypeOK

LEMMA AnswerTyped ==
    ASSUME TargetInv, NEW t \in Threads, NEW c \in DOMAIN calls,
           Receive(t, c) \/ Lose(t, c)
    PROVE  TargetTypeOK' /\ DOMAIN answer' = DOMAIN asked'
<1> DEFINE R == [kind : {"pending", "failed", "ack", "nak"}, data : Seq(Data)]
<1>1. UNCHANGED <<features, calls, asked, done, store>>
  BY AnswerEffect
<1>2. answer' \in Seq(R) /\ DOMAIN answer' = DOMAIN answer
  <2>1. PICK k \in Awaited(c), r \in R : answer' = [answer EXCEPT ![k] = r]
    <3>1. CASE Receive(t, c)
      <4>1. PICK k \in Awaited(c) : Wire!Answer(k)
        BY <3>1 DEF Receive
      <4>2. PICK i \in DOMAIN done :
              answer' = [answer EXCEPT ![k] =
                          [kind |-> IF done[i].ok THEN "ack" ELSE "nak",
                           data |-> done[i].data]]
        BY <4>1 DEF Wire!Answer
      <4>3. done[i].data \in Seq(Data)
        <5> DEFINE D == [call : DOMAIN asked, ok : BOOLEAN, data : Seq(Data)]
        <5>1. done \in Seq(D) /\ \A d \in D : d.data \in Seq(Data)
          BY DEF TargetInv, TargetTypeOK
        <5> HIDE DEF D
        <5> QED
          BY <5>1, SeqShape
      <4> DEFINE r == [kind |-> IF done[i].ok THEN "ack" ELSE "nak",
                       data |-> done[i].data]
      <4>4. r \in R /\ answer' = [answer EXCEPT ![k] = r]
        BY <4>2, <4>3
      <4> HIDE DEF r, R
      <4> QED
        BY <4>4
    <3>2. CASE Lose(t, c)
      <4>1. PICK k \in Awaited(c) : Wire!Fail(k)
        BY <3>2 DEF Lose
      <4> DEFINE r == [kind |-> "failed", data |-> <<>>]
      <4>2. r \in R /\ answer' = [answer EXCEPT ![k] = r]
        BY <4>1 DEF Wire!Fail, Wire!Failed
      <4> HIDE DEF r, R
      <4> QED
        BY <4>2
    <3> QED
      BY <3>1, <3>2
  <2>2. answer \in Seq(R)
    BY DEF TargetInv, TargetTypeOK
  <2>3. k \in 1 .. Len(answer) /\ DOMAIN answer = 1 .. Len(answer)
    BY AwaitedIsLast, Shapes DEF TargetInv
  <2> HIDE DEF R
  <2> QED
    BY <2>1, <2>2, <2>3, ExceptSeq
<1>3. outcome' \in [DOMAIN calls' -> {"pending", "returned", "nak", "failed"}]
  <2>1. outcome \in [DOMAIN calls -> {"pending", "returned", "nak", "failed"}]
    BY DEF TargetInv, TargetTypeOK
  <2>2. PICK o : outcome' = [outcome EXCEPT ![c] = o]
    BY DEF Receive, Lose
  <2>3. outcome'[c] \in {"pending", "returned", "nak", "failed"}
    BY AnswerEffect
  <2> QED
    BY <1>1, <2>1, <2>2, <2>3
<1> QED
  BY <1>1, <1>2, <1>3 DEF TargetInv, TargetTypeOK

LEMMA CarryOutTyped ==
    ASSUME TargetInv, NEW k \in DOMAIN asked, CarryOut(k)
    PROVE  TargetTypeOK' /\ DOMAIN answer' = DOMAIN asked'
<1>1. PICK ok \in BOOLEAN, e \in 0 .. Elements(asked[k].op) :
        /\ ok => e = Elements(asked[k].op)
        /\ store' = AfterElements(store, asked[k].op, e)
        /\ done' = Append(done, [call |-> k, ok |-> ok, data |-> Given(ok, k)])
        /\ UNCHANGED <<features, calls, outcome, asked, answer>>
  BY CarryOutIs
<1>2. WellFormed(asked[k].op) /\ store \in [Addrs -> Data]
  BY Shapes DEF TargetInv, TargetTypeOK
<1>3. store' \in [Addrs -> Data]
  BY <1>1, <1>2, AfterElementsType
<1>4. Given(ok, k) \in Seq(Data)
  BY <1>1, <1>2, ReadBackType DEF Given
<1>5. done' \in Seq([call : DOMAIN asked, ok : BOOLEAN, data : Seq(Data)])
  <2> DEFINE D == [call : DOMAIN asked, ok : BOOLEAN, data : Seq(Data)]
             d == [call |-> k, ok |-> ok, data |-> Given(ok, k)]
  <2>1. done \in Seq(D) /\ d \in D /\ done' = Append(done, d)
    BY <1>1, <1>4 DEF TargetInv, TargetTypeOK
  <2> HIDE DEF D, d
  <2>2. done' \in Seq(D)
    BY <2>1, AppendProperties
  <2> QED
    BY <2>2 DEF D
<1> QED
  BY <1>1, <1>3, <1>5 DEF TargetInv, TargetTypeOK

LEMMA StepTyped ==
    ASSUME TargetInv, [TargetNext]_targetVars
    PROVE  TargetTypeOK' /\ DOMAIN answer' = DOMAIN asked'
<1>1. ASSUME NEW t \in Threads, NEW c \in DOMAIN calls, Refuse(t, c)
      PROVE  TargetTypeOK' /\ DOMAIN answer' = DOMAIN asked'
  <2>1. /\ UNCHANGED <<features, calls, asked, answer, done, store>>
        /\ outcome' = [outcome EXCEPT ![c] = "failed"]
    BY <1>1 DEF Refuse, wireVars
  <2>2. outcome' \in [DOMAIN calls -> {"pending", "returned", "nak", "failed"}]
    BY <2>1 DEF TargetInv, TargetTypeOK
  <2> QED
    BY <2>1, <2>2 DEF TargetInv, TargetTypeOK
<1>2. CASE UNCHANGED targetVars
  BY <1>2 DEF targetVars, wireVars, TargetInv, TargetTypeOK
<1> QED
  BY <1>1, <1>2, BeginTyped, IssueTyped, AnswerTyped, CarryOutTyped
  DEF TargetNext

-----------------------------------------------------------------------------
(* InSequence.                                                              *)

\* What InSequence says of one call, in the next state.
Sequenced(c) ==
    LET m == calls[c].method
        commands == calls[c].commands
    IN  /\ m \in Methods
        /\ Len(commands) <= CommandCount(m)
        /\ \A i \in DOMAIN commands :
              /\ commands[i] \in DOMAIN asked
              /\ asked[commands[i]]
                   = [thread |-> calls[c].thread, op |-> Command(c, i)]
              /\ i < Len(commands) => answer[commands[i]].kind = "ack"
              /\ \A j \in 1 .. i - 1 : commands[j] < commands[i]

\* A call whose entries stay as they are, but for a pending answer.
LEMMA SequencedFrame ==
    ASSUME TargetInv, NEW c \in DOMAIN calls, UNCHANGED features,
           calls'[c] = calls[c],
           \A k \in DOMAIN asked : k \in DOMAIN asked' /\ asked'[k] = asked[k],
           \A k \in DOMAIN answer :
              answer[k].kind # "pending" => answer'[k] = answer[k]
    PROVE  Sequenced(c)'
<1>1. /\ DOMAIN calls[c].commands = 1 .. Len(calls[c].commands)
      /\ Len(calls[c].commands) \in Nat
      /\ calls[c].method \in Methods
      /\ Len(calls[c].commands) <= CommandCount(calls[c].method)
  BY Shapes DEF TargetInv, InSequence
<1>2. CommandCount(calls[c].method)' = CommandCount(calls[c].method)
  BY CommandFrame
<1>3. ASSUME NEW i \in DOMAIN calls[c].commands
      PROVE  /\ calls[c].commands[i] \in DOMAIN asked'
             /\ asked'[calls[c].commands[i]]
                  = [thread |-> calls[c].thread, op |-> Command(c, i)']
             /\ i < Len(calls[c].commands) =>
                   answer'[calls[c].commands[i]].kind = "ack"
             /\ \A j \in 1 .. i - 1 : calls[c].commands[j] < calls[c].commands[i]
  <2> DEFINE k == calls[c].commands[i]
  <2>1. /\ k \in DOMAIN asked /\ k \in DOMAIN answer
        /\ asked[k] = [thread |-> calls[c].thread, op |-> Command(c, i)]
        /\ i < Len(calls[c].commands) => answer[k].kind = "ack"
        /\ \A j \in 1 .. i - 1 : calls[c].commands[j] < k
    BY DEF TargetInv, InSequence
  <2>2. i = 2 => answer'[calls[c].commands[1]].data
                   = answer[calls[c].commands[1]].data
    <3>1. i = 2 => /\ 1 \in DOMAIN calls[c].commands
                   /\ 1 < Len(calls[c].commands)
      BY <1>1
    <3>2. i = 2 => /\ calls[c].commands[1] \in DOMAIN answer
                   /\ answer[calls[c].commands[1]].kind = "ack"
      BY <3>1, CommandAt
    <3> QED
      BY <3>2
  <2>3. i \in Nat
    BY <1>1
  <2>4. Command(c, i)' = Command(c, i)
    BY <2>2, <2>3, CommandFrame
  <2> QED
    BY <2>1, <2>4
<1> QED
  BY <1>1, <1>2, <1>3 DEF Sequenced

LEMMA BeginSequenced ==
    ASSUME TargetInv, NEW t \in Threads, NEW m \in Methods, Begin(t, m),
           NEW c \in DOMAIN calls'
    PROVE  Sequenced(c)'
<1> DEFINE n == NewCall
<1>1. /\ n \in Nat /\ DOMAIN calls' = DOMAIN calls \cup {n}
      /\ \A d \in DOMAIN calls : calls'[d] = calls[d]
      /\ calls'[n].method = m /\ calls'[n].commands = <<>>
      /\ UNCHANGED <<features, asked, answer, done, store>>
  BY BeginEffect
<1> HIDE DEF n
<1>2. CASE c \in DOMAIN calls
  BY <1>1, <1>2, SequencedFrame
<1>3. CASE c = n
  <2>1. CommandCount(m)' = CommandCount(m)
    BY <1>1 DEF CommandCount, Direct, checkIFS
  <2>2. CommandCount(calls[c].method)' = CommandCount(m)'
    BY <1>1, <1>3 DEF CommandCount, Direct, checkIFS
  <2>3. 0 <= CommandCount(m)
    BY CountTyped
  <2> QED
    BY <1>1, <1>3, <2>1, <2>2, <2>3 DEF Sequenced
<1> QED
  BY <1>1, <1>2, <1>3

LEMMA IssueSequenced ==
    ASSUME TargetInv, NEW t \in Threads, NEW c \in DOMAIN calls, Issue(t, c),
           NEW d \in DOMAIN calls'
    PROVE  Sequenced(d)'
<1> DEFINE k == NewCommand
           n == Len(calls[c].commands) + 1
<1>1. /\ calls[c].thread = t
      /\ k \in Nat /\ k \notin DOMAIN asked /\ \A j \in DOMAIN asked : j < k
      /\ DOMAIN asked' = DOMAIN asked \cup {k}
      /\ \A j \in DOMAIN asked : asked'[j] = asked[j] /\ answer'[j] = answer[j]
      /\ asked'[k] = [thread |-> t, op |-> Command(c, n)]
      /\ DOMAIN calls' = DOMAIN calls
      /\ \A e \in DOMAIN calls : e # c => calls'[e] = calls[e]
      /\ calls'[c].method = calls[c].method
      /\ calls'[c].thread = calls[c].thread
      /\ calls'[c].commands \in Seq(Nat)
      /\ Len(calls'[c].commands) = n
      /\ calls'[c].commands[n] = k
      /\ \A i \in DOMAIN calls[c].commands :
            calls'[c].commands[i] = calls[c].commands[i]
      /\ UNCHANGED features
  BY IssueEffect
<1>2. /\ DOMAIN calls[c].commands = 1 .. n - 1 /\ n \in Nat /\ n >= 1
      /\ DOMAIN answer = DOMAIN asked /\ calls[c].method \in Methods
  BY Shapes DEF TargetInv, InSequence
<1>3. /\ n <= CommandCount(calls[c].method)
      /\ \A i \in DOMAIN calls[c].commands :
            answer[calls[c].commands[i]].kind = "ack"
  BY <1>2, OneLeft, CountTyped
<1> HIDE DEF k, n
<1>4. CASE d # c
  BY <1>1, <1>2, <1>4, SequencedFrame
<1>5. CASE d = c
  <2>1. DOMAIN calls'[c].commands = 1 .. n
    BY <1>1, LenProperties
  <2>2. CommandCount(calls[c].method)' = CommandCount(calls[c].method)
    BY <1>1 DEF CommandCount, Direct, checkIFS
  <2>3. ASSUME NEW i \in 1 .. n
        PROVE  Command(c, i)' = Command(c, i)
    <3>1. i = 2 => /\ 1 \in DOMAIN calls[c].commands
      BY <1>2
    <3>2. i = 2 => /\ calls'[c].commands[1] = calls[c].commands[1]
                   /\ calls[c].commands[1] \in DOMAIN asked
      BY <1>1, <3>1, CommandAt
    <3> QED
      BY <1>1, <1>2, <3>2, CommandFrame
  <2>4. ASSUME NEW i \in 1 .. n
        PROVE  /\ calls'[c].commands[i] \in DOMAIN asked'
               /\ asked'[calls'[c].commands[i]]
                    = [thread |-> calls'[c].thread, op |-> Command(c, i)']
               /\ i < n => answer'[calls'[c].commands[i]].kind = "ack"
               /\ \A j \in 1 .. i - 1 :
                     calls'[c].commands[j] < calls'[c].commands[i]
    <3>1. CASE i = n
      <4>1. \A j \in 1 .. n - 1 : calls'[c].commands[j] < k
        BY <1>1, <1>2, CommandAt
      <4> QED
        BY <1>1, <1>2, <2>3, <3>1, <4>1
    <3>2. CASE i # n
      <4>1. /\ i \in DOMAIN calls[c].commands
            /\ \A j \in 1 .. i - 1 : j \in DOMAIN calls[c].commands
        BY <1>2, <3>2
      <4>2. /\ calls[c].commands[i] \in DOMAIN asked
            /\ asked[calls[c].commands[i]]
                 = [thread |-> calls[c].thread, op |-> Command(c, i)]
            /\ \A j \in 1 .. i - 1 :
                  calls[c].commands[j] < calls[c].commands[i]
        BY <4>1 DEF TargetInv, InSequence
      <4>3. /\ calls'[c].commands[i] = calls[c].commands[i]
            /\ \A j \in 1 .. i - 1 :
                  calls'[c].commands[j] = calls[c].commands[j]
        BY <1>1, <4>1
      <4>4. answer'[calls'[c].commands[i]].kind = "ack"
        BY <1>1, <1>3, <4>1, <4>2, <4>3
      <4>5. asked'[calls'[c].commands[i]]
              = [thread |-> calls'[c].thread, op |-> Command(c, i)']
        BY <1>1, <2>3, <4>2, <4>3
      <4> QED
        BY <1>1, <4>2, <4>3, <4>4, <4>5
    <3> QED
      BY <3>1, <3>2
  <2> QED
    BY <1>1, <1>2, <1>3, <1>5, <2>1, <2>2, <2>4 DEF Sequenced
<1> QED
  BY <1>4, <1>5

LEMMA StepInSequence ==
    ASSUME TargetInv, [TargetNext]_targetVars
    PROVE  InSequence'
<1> SUFFICES ASSUME NEW c \in DOMAIN calls'
             PROVE  Sequenced(c)'
  BY DEF InSequence, Sequenced
<1>1. ASSUME UNCHANGED <<features, calls, asked, answer>>
      PROVE  Sequenced(c)'
  BY <1>1, SequencedFrame
<1>2. ASSUME NEW t \in Threads, NEW d \in DOMAIN calls,
             Receive(t, d) \/ Lose(t, d)
      PROVE  Sequenced(c)'
  <2>1. /\ UNCHANGED <<features, calls, asked>>
        /\ \A k \in DOMAIN answer :
              answer[k].kind # "pending" => answer'[k] = answer[k]
    <3>1. PICK k \in Awaited(d) :
             \A j \in DOMAIN answer : j # k => answer'[j] = answer[j]
      BY <1>2, AnswerEffect
    <3> QED
      BY <1>2, <3>1, AwaitedIsLast, AnswerEffect
  <2> QED
    BY <2>1, SequencedFrame
<1>3. ASSUME NEW t \in Threads, NEW d \in DOMAIN calls, Refuse(t, d)
      PROVE  Sequenced(c)'
  BY <1>1, <1>3 DEF Refuse, wireVars
<1>4. ASSUME NEW k \in DOMAIN asked, CarryOut(k)
      PROVE  Sequenced(c)'
  BY <1>1, <1>4, CarryOutEffect
<1>5. CASE UNCHANGED targetVars
  BY <1>1, <1>5 DEF targetVars, wireVars
<1> QED
  BY <1>2, <1>3, <1>4, <1>5, BeginSequenced, IssueSequenced DEF TargetNext

-----------------------------------------------------------------------------
(* EndsAsAnswered.                                                          *)

\* Commands are numbers.
LEMMA CommandNumber ==
    ASSUME TargetInv, NEW c \in DOMAIN calls, NEW i \in DOMAIN calls[c].commands
    PROVE  calls[c].commands[i] \in Nat
<1>1. calls[c].commands \in Seq(Nat)
  BY Shapes DEF TargetInv
<1> QED
  BY <1>1

\* No two calls share a command.
LEMMA CommandsApart ==
    ASSUME TargetInv, NEW c \in DOMAIN calls, NEW d \in DOMAIN calls, c # d,
           NEW i \in DOMAIN calls[c].commands, NEW j \in DOMAIN calls[d].commands
    PROVE  calls[c].commands[i] # calls[d].commands[j]
<1>1. CASE calls[c].thread # calls[d].thread
  BY <1>1, CommandAt
<1>2. CASE calls[c].thread = calls[d].thread
  <2>1. c \in Nat /\ d \in Nat /\ (c < d \/ d < c)
    BY Shapes DEF TargetInv
  <2>2. calls[c].commands[i] \in Nat /\ calls[d].commands[j] \in Nat
    BY CommandNumber
  <2>3. OneAfterTheOther
    BY DEF TargetInv
  <2>4. CASE c < d
    BY <1>2, <2>2, <2>3, <2>4 DEF OneAfterTheOther
  <2>5. CASE d < c
    BY <1>2, <2>2, <2>3, <2>5 DEF OneAfterTheOther
  <2> QED
    BY <2>1, <2>4, <2>5
<1> QED
  BY <1>1, <1>2

\* What EndsAsAnswered says of one call.
Ended(c) ==
    LET commands == calls[c].commands
        kinds == {answer[commands[i]].kind : i \in DOMAIN commands}
    IN  /\ outcome[c] = "pending" =>
              /\ kinds \subseteq {"ack", "pending"}
              /\ "pending" \notin kinds =>
                    Len(commands) < CommandCount(calls[c].method)
        /\ outcome[c] = "returned" =>
              /\ kinds \subseteq {"ack"}
              /\ Len(commands) = CommandCount(calls[c].method)
        /\ outcome[c] = "nak" => kinds \subseteq {"ack", "nak"}
        /\ outcome[c] = "failed" => kinds \subseteq {"ack", "failed"}

LEMMA EndedFrame ==
    ASSUME TargetInv, NEW c \in DOMAIN calls, UNCHANGED features,
           calls'[c] = calls[c], outcome'[c] = outcome[c],
           \A i \in DOMAIN calls[c].commands :
              answer'[calls[c].commands[i]] = answer[calls[c].commands[i]]
    PROVE  Ended(c)'
<1>1. CommandCount(calls[c].method)' = CommandCount(calls[c].method)
  BY DEF CommandCount, Direct, checkIFS
<1>2. {answer'[calls[c].commands[i]].kind : i \in DOMAIN calls[c].commands}
        = {answer[calls[c].commands[i]].kind : i \in DOMAIN calls[c].commands}
  OBVIOUS
<1>3. {answer'[calls'[c].commands[i]].kind : i \in DOMAIN calls'[c].commands}
        = {answer[calls[c].commands[i]].kind : i \in DOMAIN calls[c].commands}
  BY <1>2
<1>4. Ended(c)
  BY DEF TargetInv, EndsAsAnswered, Ended
<1> QED
  BY ONLY <1>1, <1>3, <1>4, calls'[c] = calls[c], outcome'[c] = outcome[c],
          Zenon DEF Ended

LEMMA BeginEnded ==
    ASSUME TargetInv, NEW t \in Threads, NEW m \in Methods, Begin(t, m),
           NEW c \in DOMAIN calls'
    PROVE  Ended(c)'
<1> DEFINE n == NewCall
<1>1. /\ DOMAIN calls' = DOMAIN calls \cup {n}
      /\ \A d \in DOMAIN calls :
            calls'[d] = calls[d] /\ outcome'[d] = outcome[d]
      /\ calls'[n].method = m /\ calls'[n].commands = <<>>
      /\ outcome'[n] = IF CommandCount(m) = 0 THEN "returned" ELSE "pending"
      /\ UNCHANGED <<features, asked, answer, done, store>>
  BY BeginEffect
<1> HIDE DEF n
<1>2. CASE c \in DOMAIN calls
  BY <1>1, <1>2, EndedFrame
<1>3. CASE c = n
  <2>1. CommandCount(calls[c].method)' = CommandCount(m)
    BY <1>1, <1>3 DEF CommandCount, Direct, checkIFS
  <2>2. CommandCount(m) \in Nat
    BY CountTyped
  <2>3. /\ Len(calls'[c].commands) = 0
        /\ {answer'[calls'[c].commands[i]].kind :
              i \in DOMAIN calls'[c].commands} = {}
    BY <1>1, <1>3
  <2> QED
    BY <1>1, <1>3, <2>1, <2>2, <2>3 DEF Ended
<1> QED
  BY <1>1, <1>2, <1>3

LEMMA IssueEnded ==
    ASSUME TargetInv, NEW t \in Threads, NEW c \in DOMAIN calls, Issue(t, c),
           NEW d \in DOMAIN calls'
    PROVE  Ended(d)'
<1> DEFINE k == NewCommand
           n == Len(calls[c].commands) + 1
<1>1. /\ outcome[c] = "pending"
      /\ \A j \in DOMAIN asked : answer'[j] = answer[j]
      /\ answer'[k] = [kind |-> "pending", data |-> <<>>]
      /\ DOMAIN calls' = DOMAIN calls
      /\ \A e \in DOMAIN calls : e # c => calls'[e] = calls[e]
      /\ calls'[c].commands \in Seq(Nat)
      /\ Len(calls'[c].commands) = n
      /\ calls'[c].commands[n] = k
      /\ \A i \in DOMAIN calls[c].commands :
            calls'[c].commands[i] = calls[c].commands[i]
      /\ UNCHANGED <<features, outcome>>
  BY IssueEffect
<1>2. n \in Nat /\ n >= 1 /\ DOMAIN calls[c].commands = 1 .. n - 1
  BY Shapes DEF TargetInv
<1> HIDE DEF k, n
<1>3. CASE d # c
  <2>1. \A i \in DOMAIN calls[d].commands : calls[d].commands[i] \in DOMAIN asked
    BY <1>1, CommandAt
  <2> QED
    BY <1>1, <1>3, <2>1, EndedFrame
<1>4. CASE d = c
  <2>1. DOMAIN calls'[c].commands = 1 .. n
    BY <1>1, LenProperties
  <2>2. ASSUME NEW i \in 1 .. n - 1
        PROVE  answer'[calls'[c].commands[i]].kind = "ack"
    <3>1. i \in DOMAIN calls[c].commands
      BY <1>2
    <3>2. /\ answer[calls[c].commands[i]].kind = "ack"
          /\ calls[c].commands[i] \in DOMAIN asked
      BY <3>1, CommandAt, OneLeft
    <3> QED
      BY <1>1, <3>1, <3>2
  <2>3. answer'[calls'[c].commands[n]].kind = "pending"
    BY <1>1
  <2>4. /\ {answer'[calls'[c].commands[i]].kind : i \in DOMAIN calls'[c].commands}
             \subseteq {"ack", "pending"}
        /\ "pending" \in {answer'[calls'[c].commands[i]].kind :
                            i \in DOMAIN calls'[c].commands}
    BY <1>2, <2>1, <2>2, <2>3
  <2> QED
    BY <1>1, <1>4, <2>4 DEF Ended
<1> QED
  BY <1>3, <1>4

LEMMA AnswerEnded ==
    ASSUME TargetInv, NEW t \in Threads, NEW c \in DOMAIN calls,
           Receive(t, c) \/ Lose(t, c), NEW d \in DOMAIN calls'
    PROVE  Ended(d)'
<1>1. UNCHANGED <<features, calls, asked>> /\ outcome[c] = "pending"
  BY AnswerEffect
<1>2. PICK k \in Awaited(c) :
        /\ answer'[k].kind \in {"ack", "nak", "failed"}
        /\ \A j \in DOMAIN answer : j # k => answer'[j] = answer[j]
        /\ \A e \in DOMAIN outcome : e # c => outcome'[e] = outcome[e]
        /\ outcome'[c] =
             CASE answer'[k].kind = "failed" -> "failed"
               [] answer'[k].kind = "nak"    -> "nak"
               [] answer'[k].kind = "ack"    ->
                    IF Len(calls[c].commands) = CommandCount(calls[c].method)
                    THEN "returned" ELSE "pending"
  BY AnswerEffect
<1> DEFINE n == Len(calls[c].commands)
<1>3. /\ n \in Nat /\ n >= 1 /\ DOMAIN calls[c].commands = 1 .. n
      /\ DOMAIN outcome = DOMAIN calls
      /\ k = calls[c].commands[n] /\ DOMAIN answer = DOMAIN asked
  BY Shapes, AwaitedIsLast DEF TargetInv
<1>4. CASE d # c
  <2>1. \A i \in DOMAIN calls[d].commands :
           /\ calls[d].commands[i] # k
           /\ calls[d].commands[i] \in DOMAIN answer
    BY <1>1, <1>3, <1>4, CommandsApart, CommandAt
  <2> QED
    BY <1>1, <1>2, <1>3, <1>4, <2>1, EndedFrame
<1>5. CASE d = c
  <2>1. CommandCount(calls[c].method)' = CommandCount(calls[c].method)
    BY <1>1 DEF CommandCount, Direct, checkIFS
  <2>2. \A i \in 1 .. n - 1 : answer'[calls[c].commands[i]].kind = "ack"
    <3> SUFFICES ASSUME NEW i \in 1 .. n - 1
                 PROVE  answer'[calls[c].commands[i]].kind = "ack"
      OBVIOUS
    <3>1. i \in DOMAIN calls[c].commands /\ i < Len(calls[c].commands)
      BY <1>3
    <3>2. answer[calls[c].commands[i]].kind = "ack"
          /\ calls[c].commands[i] \in DOMAIN answer
      BY <3>1, CommandAt
    <3>3. answer[k].kind = "pending"
      BY AwaitedIsLast
    <3> QED
      BY <1>2, <3>2, <3>3
  <2>3. {answer'[calls[c].commands[i]].kind : i \in DOMAIN calls[c].commands}
          \subseteq {"ack", answer'[k].kind}
    BY <1>3, <2>2
  <2>4. n <= CommandCount(calls[c].method)
        /\ CommandCount(calls[c].method) \in Nat
    BY CountTyped DEF TargetInv, InSequence
  <2>5. CASE answer'[k].kind = "ack"
    <3>1. {answer'[calls'[c].commands[i]].kind : i \in DOMAIN calls'[c].commands}
            \subseteq {"ack"}
      BY <1>1, <2>3, <2>5
    <3>2. Len(calls'[c].commands) = n
      BY <1>1
    <3> HIDE DEF n
    <3>3. CASE n = CommandCount(calls[c].method)
      <4>1. outcome'[c] = "returned"
        BY <1>2, <2>5, <3>3 DEF n
      <4> QED
        BY <1>5, <2>1, <3>1, <3>2, <3>3, <4>1 DEF Ended
    <3>4. CASE n # CommandCount(calls[c].method)
      <4>1. outcome'[c] = "pending"
        BY <1>2, <2>5, <3>4 DEF n
      <4>2. Len(calls'[c].commands) < CommandCount(calls[c].method)'
        BY <1>3, <2>1, <2>4, <3>2, <3>4
      <4> QED
        BY <1>5, <3>1, <4>1, <4>2 DEF Ended
    <3> QED
      BY <3>3, <3>4
  <2>6. CASE answer'[k].kind # "ack"
    BY <1>1, <1>2, <1>5, <2>3, <2>6 DEF Ended
  <2> QED
    BY <2>5, <2>6
<1> QED
  BY <1>4, <1>5

LEMMA RefuseEnded ==
    ASSUME TargetInv, NEW t \in Threads, NEW c \in DOMAIN calls, Refuse(t, c),
           NEW d \in DOMAIN calls'
    PROVE  Ended(d)'
<1>1. /\ UNCHANGED <<features, calls, asked, answer>>
      /\ outcome' = [outcome EXCEPT ![c] = "failed"]
      /\ outcome[c] = "pending" /\ Awaited(c) = {}
      /\ DOMAIN outcome = DOMAIN calls
  BY Shapes DEF Refuse, Under, wireVars, TargetInv
<1>2. CASE d # c
  BY <1>1, <1>2, EndedFrame
<1>3. CASE d = c
  <2>1. \A i \in DOMAIN calls[c].commands :
           answer[calls[c].commands[i]].kind = "ack"
    BY <1>1, CommandAt, KindAt
  <2> QED
    BY <1>1, <1>3, <2>1 DEF Ended
<1> QED
  BY <1>2, <1>3

LEMMA StepEndsAsAnswered ==
    ASSUME TargetInv, [TargetNext]_targetVars
    PROVE  EndsAsAnswered'
<1> SUFFICES ASSUME NEW c \in DOMAIN calls'
             PROVE  Ended(c)'
  BY DEF EndsAsAnswered, Ended
<1>1. ASSUME UNCHANGED <<features, calls, outcome, answer>>
      PROVE  Ended(c)'
  BY <1>1, EndedFrame
<1>2. ASSUME NEW k \in DOMAIN asked, CarryOut(k)
      PROVE  Ended(c)'
  BY <1>1, <1>2, CarryOutEffect
<1>3. CASE UNCHANGED targetVars
  BY <1>1, <1>3 DEF targetVars, wireVars
<1> QED
  BY <1>2, <1>3, BeginEnded, IssueEnded, AnswerEnded, RefuseEnded DEF TargetNext

-----------------------------------------------------------------------------
(* OneAfterTheOther.                                                        *)

LEMMA StepOneAfterTheOther ==
    ASSUME TargetInv, [TargetNext]_targetVars
    PROVE  OneAfterTheOther'
<1> SUFFICES ASSUME NEW c \in DOMAIN calls', NEW d \in DOMAIN calls', c < d,
                    calls'[c].thread = calls'[d].thread
             PROVE  /\ outcome'[c] # "pending"
                    /\ \A i \in DOMAIN calls'[c].commands,
                          j \in DOMAIN calls'[d].commands :
                          calls'[c].commands[i] < calls'[d].commands[j]
  BY DEF OneAfterTheOther
<1> DEFINE Goal == /\ outcome'[c] # "pending"
                   /\ \A i \in DOMAIN calls'[c].commands,
                         j \in DOMAIN calls'[d].commands :
                         calls'[c].commands[i] < calls'[d].commands[j]
<1>1. ASSUME c \in DOMAIN calls, d \in DOMAIN calls,
             calls[c].thread = calls[d].thread
      PROVE  /\ outcome[c] # "pending"
             /\ \A i \in DOMAIN calls[c].commands, j \in DOMAIN calls[d].commands :
                   calls[c].commands[i] < calls[d].commands[j]
  BY <1>1 DEF TargetInv, OneAfterTheOther
<1>2. ASSUME NEW t \in Threads, NEW m \in Methods, Begin(t, m)
      PROVE  Goal
  <2>1. /\ NewCall \in Nat
        /\ DOMAIN calls' = DOMAIN calls \cup {NewCall}
        /\ \A e \in DOMAIN calls :
              e < NewCall /\ calls'[e] = calls[e] /\ outcome'[e] = outcome[e]
        /\ calls'[NewCall].thread = t /\ calls'[NewCall].commands = <<>>
    BY <1>2, BeginEffect
  <2>2. DOMAIN calls \subseteq Nat
    BY Shapes DEF TargetInv
  <2>3. c \in DOMAIN calls
    BY <2>1, <2>2
  <2>4. CASE d \in DOMAIN calls
    BY <1>1, <2>1, <2>3, <2>4
  <2>5. CASE d = NewCall
    <3>1. c \notin Under(t)
      BY <1>2 DEF Begin
    <3>2. outcome[c] # "pending"
      BY <2>1, <2>3, <2>5, <3>1 DEF Under
    <3> QED
      BY <2>1, <2>3, <2>5, <3>2
  <2> QED
    BY <2>1, <2>4, <2>5
<1>3. ASSUME NEW t \in Threads, NEW e \in DOMAIN calls, Issue(t, e)
      PROVE  Goal
  <2>1. /\ outcome[e] = "pending" /\ UNCHANGED outcome
        /\ \A j \in DOMAIN asked : j < NewCommand
        /\ DOMAIN calls' = DOMAIN calls
        /\ \A f \in DOMAIN calls : f # e => calls'[f] = calls[f]
        /\ calls'[e].thread = calls[e].thread
        /\ calls'[e].commands \in Seq(Nat)
        /\ Len(calls'[e].commands) = Len(calls[e].commands) + 1
        /\ calls'[e].commands[Len(calls[e].commands) + 1] = NewCommand
        /\ \A i \in DOMAIN calls[e].commands :
              calls'[e].commands[i] = calls[e].commands[i]
    BY <1>3, IssueEffect
  <2>2. calls[c].thread = calls[d].thread
    BY <2>1
  <2>3. outcome[c] # "pending" /\ c # e
    BY <1>1, <2>1, <2>2
  <2>4. CASE d # e
    BY <1>1, <2>1, <2>2, <2>3, <2>4
  <2>5. CASE d = e
    <3>1. /\ DOMAIN calls'[e].commands = 1 .. Len(calls[e].commands) + 1
          /\ DOMAIN calls[e].commands = 1 .. Len(calls[e].commands)
          /\ Len(calls[e].commands) \in Nat
      BY <2>1, LenProperties, Shapes DEF TargetInv
    <3>2. \A i \in DOMAIN calls[c].commands : calls[c].commands[i] < NewCommand
      BY <2>1, CommandAt
    <3> SUFFICES ASSUME NEW i \in DOMAIN calls'[c].commands,
                        NEW j \in DOMAIN calls'[d].commands
                 PROVE  calls'[c].commands[i] < calls'[d].commands[j]
      BY <2>1, <2>3
    <3>3. CASE j = Len(calls[e].commands) + 1
      BY <2>1, <2>3, <2>5, <3>2, <3>3
    <3>4. CASE j # Len(calls[e].commands) + 1
      <4>1. j \in DOMAIN calls[e].commands
        BY <2>5, <3>1, <3>4
      <4> QED
        BY <1>1, <2>1, <2>2, <2>3, <2>5, <4>1
    <3> QED
      BY <3>3, <3>4
  <2> QED
    BY <2>4, <2>5
<1>4. ASSUME UNCHANGED calls,
             \A e \in DOMAIN calls : outcome'[e] = "pending" => outcome[e] = "pending"
      PROVE  Goal
  BY <1>1, <1>4
<1>5. ASSUME NEW t \in Threads, NEW e \in DOMAIN calls, Receive(t, e) \/ Lose(t, e)
      PROVE  Goal
  <2>1. /\ UNCHANGED calls /\ outcome[e] = "pending"
        /\ \A f \in DOMAIN outcome : f # e => outcome'[f] = outcome[f]
        /\ DOMAIN outcome = DOMAIN calls
    BY <1>5, AnswerEffect, Shapes DEF TargetInv
  <2> QED
    BY <1>4, <2>1
<1>6. ASSUME NEW t \in Threads, NEW e \in DOMAIN calls, Refuse(t, e)
      PROVE  Goal
  <2>1. /\ UNCHANGED calls /\ outcome' = [outcome EXCEPT ![e] = "failed"]
        /\ DOMAIN outcome = DOMAIN calls
    BY <1>6, Shapes DEF Refuse, TargetInv
  <2>2. \A f \in DOMAIN calls : outcome'[f] = "pending" => outcome[f] = "pending"
    BY <2>1
  <2> QED
    BY <1>4, <2>1, <2>2
<1>7. ASSUME NEW k \in DOMAIN asked, CarryOut(k)
      PROVE  Goal
  BY <1>4, <1>7, CarryOutEffect
<1>8. CASE UNCHANGED targetVars
  BY <1>4, <1>8 DEF targetVars
<1>9. CASE TargetNext
  <2>1. CASE \E t \in Threads, m \in Methods : Begin(t, m)
    BY <1>2, <2>1
  <2>2. CASE \E t \in Threads, e \in DOMAIN calls : Issue(t, e)
    BY <1>3, <2>2
  <2>3. CASE \E t \in Threads, e \in DOMAIN calls : Receive(t, e) \/ Lose(t, e)
    BY <1>5, <2>3
  <2>4. CASE \E t \in Threads, e \in DOMAIN calls : Refuse(t, e)
    BY <1>6, <2>4
  <2>5. CASE \E k \in DOMAIN asked : CarryOut(k)
    BY <1>7, <2>5
  <2> QED
    BY <1>9, <2>1, <2>2, <2>3, <2>4, <2>5 DEF TargetNext
<1> QED
  BY <1>8, <1>9

-----------------------------------------------------------------------------
(* DoneInOrder.                                                             *)

\* An answer that is not pending any more tells what was done.
Told(k) ==
    answer[k].kind \in {"ack", "nak"} =>
        \E i \in DOMAIN done :
           /\ done[i].call = k /\ done[i].data = answer[k].data
           /\ answer[k].kind = "ack" => done[i].ok

LEMMA DoneFrame ==
    ASSUME TargetInv, UNCHANGED done,
           \A k \in DOMAIN asked : asked'[k] = asked[k],
           \A k \in DOMAIN answer' : Told(k)'
    PROVE  DoneInOrder'
<1>1. /\ DoneInOrder /\ \A i \in DOMAIN done : done[i].call \in DOMAIN asked
  BY Shapes DEF TargetInv
<1> QED
  BY <1>1 DEF DoneInOrder, Told

LEMMA CarryOutDone ==
    ASSUME TargetInv, NEW k \in DOMAIN asked, CarryOut(k)
    PROVE  DoneInOrder'
<1> DEFINE n == NewDone
<1>1. /\ DOMAIN done' = DOMAIN done \cup {n} /\ n \in Nat
      /\ \A i \in DOMAIN done :
            /\ i < n /\ done'[i] = done[i]
            /\ asked[done[i].call].thread = asked[k].thread => done[i].call < k
      /\ done'[n].call = k
      /\ done'[n].ok =>
            Len(done'[n].data) = IF asked[k].op.type \in Reads
                                 THEN Elements(asked[k].op) ELSE 0
      /\ UNCHANGED <<features, calls, outcome, asked, answer>>
  BY CarryOutEffect
<1> HIDE DEF n
<1>2. /\ DoneInOrder /\ \A i \in DOMAIN done : done[i].call \in DOMAIN asked
      /\ DOMAIN done \subseteq Nat
  BY Shapes DEF TargetInv
<1>3. ASSUME NEW i \in DOMAIN done', NEW j \in DOMAIN done', i < j,
             asked'[done'[i].call].thread = asked'[done'[j].call].thread
      PROVE  done'[i].call < done'[j].call
  <2>1. i \in DOMAIN done
    BY <1>1, <1>2, <1>3
  <2>2. CASE j \in DOMAIN done
    BY <1>1, <1>2, <1>3, <2>1, <2>2 DEF DoneInOrder
  <2>3. CASE j = n
    BY <1>1, <1>3, <2>1, <2>3
  <2> QED
    BY <1>1, <2>2, <2>3
<1>4. ASSUME NEW i \in DOMAIN done', done'[i].ok
      PROVE  Len(done'[i].data) = IF asked'[done'[i].call].op.type \in Reads
                                  THEN Elements(asked'[done'[i].call].op) ELSE 0
  <2>1. CASE i \in DOMAIN done
    BY <1>1, <1>2, <1>4, <2>1 DEF DoneInOrder
  <2>2. CASE i = n
    BY <1>1, <1>4, <2>2
  <2> QED
    BY <1>1, <2>1, <2>2
<1>5. ASSUME NEW l \in DOMAIN answer', answer'[l].kind \in {"ack", "nak"}
      PROVE  \E i \in DOMAIN done' :
                /\ done'[i].call = l /\ done'[i].data = answer'[l].data
                /\ answer'[l].kind = "ack" => done'[i].ok
  <2>1. PICK i \in DOMAIN done :
           /\ done[i].call = l /\ done[i].data = answer[l].data
           /\ answer[l].kind = "ack" => done[i].ok
    BY <1>1, <1>2, <1>5 DEF DoneInOrder
  <2> QED
    BY <1>1, <2>1
<1> QED
  BY <1>3, <1>4, <1>5 DEF DoneInOrder

LEMMA StepDoneInOrder ==
    ASSUME TargetInv, [TargetNext]_targetVars
    PROVE  DoneInOrder'
<1>1. \A k \in DOMAIN answer : Told(k)
  BY DEF TargetInv, DoneInOrder, Told
<1>2. ASSUME UNCHANGED <<asked, answer, done>>
      PROVE  DoneInOrder'
  BY <1>1, <1>2, DoneFrame DEF Told
<1>3. ASSUME NEW t \in Threads, NEW c \in DOMAIN calls, Issue(t, c)
      PROVE  DoneInOrder'
  <2>1. /\ DOMAIN answer' = DOMAIN asked \cup {NewCommand}
        /\ \A j \in DOMAIN asked : asked'[j] = asked[j] /\ answer'[j] = answer[j]
        /\ answer'[NewCommand] = [kind |-> "pending", data |-> <<>>]
        /\ UNCHANGED done /\ DOMAIN answer = DOMAIN asked
    BY <1>3, IssueEffect DEF TargetInv
  <2>2. ASSUME NEW k \in DOMAIN answer'
        PROVE  Told(k)'
    BY <1>1, <2>1 DEF Told
  <2> QED
    BY <2>1, <2>2, DoneFrame
<1>4. ASSUME NEW t \in Threads, NEW c \in DOMAIN calls, Receive(t, c) \/ Lose(t, c)
      PROVE  DoneInOrder'
  <2>1. UNCHANGED <<asked, done>>
    BY <1>4, AnswerEffect
  <2>2. PICK k \in Awaited(c) :
          /\ DOMAIN answer' = DOMAIN answer
          /\ \A j \in DOMAIN answer : j # k => answer'[j] = answer[j]
          /\ answer'[k].kind \in {"ack", "nak"} =>
                \E i \in DOMAIN done :
                   /\ done[i].call = k /\ done[i].data = answer'[k].data
                   /\ answer'[k].kind = "ack" => done[i].ok
    BY <1>4, AnswerEffect
  <2>3. ASSUME NEW j \in DOMAIN answer'
        PROVE  Told(j)'
    <3>1. CASE j = k
      BY <2>1, <2>2, <3>1 DEF Told
    <3>2. CASE j # k
      BY <1>1, <2>1, <2>2, <3>2 DEF Told
    <3> QED
      BY <3>1, <3>2
  <2> QED
    BY <2>1, <2>3, DoneFrame
<1>5. ASSUME NEW t \in Threads, NEW m \in Methods, Begin(t, m)
      PROVE  DoneInOrder'
  BY <1>2, <1>5, BeginEffect
<1>6. ASSUME NEW t \in Threads, NEW c \in DOMAIN calls, Refuse(t, c)
      PROVE  DoneInOrder'
  BY <1>2, <1>6 DEF Refuse, wireVars
<1>7. CASE UNCHANGED targetVars
  BY <1>2, <1>7 DEF targetVars, wireVars
<1> QED
  BY <1>3, <1>4, <1>5, <1>6, <1>7, CarryOutDone DEF TargetNext

-----------------------------------------------------------------------------
(* What the commands of a method add up to.                                 *)

\* g joins the members of s one by one, up to the n-th.
Joins(g, s, n) == g[1] = s[1] /\ \A i \in 2 .. n : g[i] = g[i - 1] \o s[i]

\* p is the first n elements of e, and s holds each of them as a member.
Firsts(p, e, n) == p = [i \in 1 .. n |-> e[i]]
Singles(s, e, n) == s = [i \in 1 .. n |-> <<e[i]>>]

\* What FlattenSeq goes through: all that unfolds like it, member by member, ends
\* where it ends.
LEMMA FlattenIs ==
    ASSUME NEW s, NEW n \in Nat \ {0}, Len(s) = n, NEW g, Joins(g, s, n)
    PROVE  S!FlattenSeq(s) = g[n]
<1> USE DEF Joins
<1>1. S!FlattenSeq(s) =
        LET f[i \in 1 .. Len(s)] == IF i = 1 THEN s[i] ELSE f[i - 1] \o s[i]
        IN  f[Len(s)]
  BY Zenon DEF S!FlattenSeq
<1>2. \E f : f = [i \in 1 .. Len(s) |-> IF i = 1 THEN s[i] ELSE f[i - 1] \o s[i]]
  <2> DEFINE h == [i \in 1 .. n |-> g[i]]
  <2>1. h = [i \in 1 .. n |-> IF i = 1 THEN s[i] ELSE h[i - 1] \o s[i]]
    <3> SUFFICES ASSUME NEW i \in 1 .. n
                 PROVE  g[i] = IF i = 1 THEN s[i] ELSE h[i - 1] \o s[i]
      OBVIOUS
    <3>1. i # 1 => i \in 2 .. n /\ h[i - 1] = g[i - 1]
      OBVIOUS
    <3> QED
      BY <3>1
  <2> HIDE DEF h
  <2> QED
    BY <2>1, Zenon
<1> DEFINE f[i \in 1 .. Len(s)] == IF i = 1 THEN s[i] ELSE f[i - 1] \o s[i]
<1>3. S!FlattenSeq(s) = f[n]
  BY <1>1, Zenon
<1>4. f = [i \in 1 .. n |-> IF i = 1 THEN s[i] ELSE f[i - 1] \o s[i]]
  BY <1>2, Zenon
<1> HIDE DEF f
<1> DEFINE T == {k \in Nat : k + 1 <= n => f[k + 1] = g[k + 1]}
<1>5. 0 \in T
  <2>1. 1 \in 1 .. n
    OBVIOUS
  <2>2. f[1] = s[1]
    BY <1>4, <2>1
  <2> QED
    BY <2>2
<1>6. ASSUME NEW k \in Nat, k \in T
      PROVE  k + 1 \in T
  <2> SUFFICES ASSUME k + 2 <= n PROVE f[k + 2] = g[k + 2]
    OBVIOUS
  <2>1. PICK i \in 1 .. n : i = k + 2 /\ i # 1 /\ i - 1 = k + 1
    OBVIOUS
  <2>2. f[i] = f[i - 1] \o s[i]
    BY <1>4, <2>1
  <2>3. g[i] = g[i - 1] \o s[i]
    <3>1. i \in 2 .. n
      BY <2>1
    <3> QED
      BY <3>1
  <2>4. f[i - 1] = g[i - 1]
    BY <1>6, <2>1
  <2> QED
    BY <2>1, <2>2, <2>3, <2>4
<1> HIDE DEF T
<1>7. Nat \subseteq T
  BY <1>5, <1>6, NatSetInduction
<1>8. n - 1 \in T /\ n - 1 + 1 = n
  BY <1>7
<1> QED
  BY <1>3, <1>8 DEF T

\* One member.
LEMMA FlattenOne ==
    ASSUME NEW s, Len(s) = 1
    PROVE  S!FlattenSeq(s) = s[1]
<1> DEFINE g == [i \in 1 .. 1 |-> s[1]]
<1>1. \A i \in 2 .. 1 : FALSE
  OBVIOUS
<1>2. g[1] = s[1]
  OBVIOUS
<1> HIDE DEF g
<1>3. Joins(g, s, 1)
  BY <1>1, <1>2 DEF Joins
<1>4. S!FlattenSeq(s) = g[1]
  <2>1. 1 \in Nat \ {0}
    OBVIOUS
  <2> QED
    BY <1>3, <2>1, FlattenIs
<1> QED
  BY <1>2, <1>4

\* No members.
LEMMA FlattenNone ==
    ASSUME NEW s, s = <<>>
    PROVE  S!FlattenSeq(s) = <<>>
  BY DEF S!FlattenSeq

\* Members that are empty.
LEMMA FlattenEmpty ==
    ASSUME NEW n \in Nat, NEW s, s \in [1 .. n -> {<<>>}]
    PROVE  S!FlattenSeq(s) = <<>>
<1>1. Len(s) = n /\ (n = 0 => s = <<>>)
  OBVIOUS
<1>2. CASE n = 0
  BY <1>1, <1>2, FlattenNone
<1>3. CASE n # 0
  <2> DEFINE g == [i \in 1 .. n |-> <<>>]
  <2>1. Joins(g, s, n)
    <3>1. ASSUME NEW i \in 1 .. n
          PROVE  s[i] = <<>> /\ g[i] = <<>>
      OBVIOUS
    <3>2. \A i \in 2 .. n : i \in 1 .. n /\ i - 1 \in 1 .. n
      OBVIOUS
    <3>3. 1 \in 1 .. n
      BY <1>3
    <3> HIDE DEF g
    <3>4. g[1] = s[1]
      BY <3>1, <3>3
    <3>5. ASSUME NEW i \in 2 .. n
          PROVE  g[i] = g[i - 1] \o s[i]
      <4>1. g[i] = <<>> /\ g[i - 1] = <<>> /\ s[i] = <<>>
        BY <3>1, <3>2
      <4>2. <<>> \o <<>> = <<>>
        OBVIOUS
      <4> QED
        BY <4>1, <4>2
    <3> QED
      BY <3>4, <3>5 DEF Joins
  <2>2. g[n] = <<>>
    BY <1>3
  <2> HIDE DEF g
  <2>3. n \in Nat \ {0}
    BY <1>3
  <2>4. S!FlattenSeq(s) = g[n]
    BY <1>1, <2>1, <2>3, FlattenIs
  <2> QED
    BY <2>2, <2>4
<1> QED
  BY <1>2, <1>3

\* Members of one element each.
LEMMA FlattenSingles ==
    ASSUME NEW T, NEW e \in Seq(T), NEW n \in Nat, n <= Len(e),
           NEW s, Singles(s, e, n)
    PROVE  Firsts(S!FlattenSeq(s), e, n)
<1> USE DEF Singles
<1>0. \A i \in 1 .. n : e[i] \in T
  OBVIOUS
<1>1. Len(s) = n /\ (n = 0 => s = <<>>)
  <2>1. s \in [1 .. n -> Seq(T)]
    BY <1>0
  <2> QED
    BY <2>1
<1>2. CASE n = 0
  <2>1. [i \in 1 .. n |-> e[i]] = <<>>
    BY <1>2
  <2> QED
    BY <1>1, <1>2, <2>1, FlattenNone DEF Firsts
<1>3. CASE n # 0
  <2> DEFINE g == [i \in 1 .. n |-> [j \in 1 .. i |-> e[j]]]
  <2>0. \A i \in 1 .. n : s[i] = <<e[i]>> /\ g[i] = [j \in 1 .. i |-> e[j]]
    OBVIOUS
  <2>1. Joins(g, s, n)
    <3> HIDE DEF g
    <3>1. g[1] = s[1]
      <4>1. 1 \in 1 .. n
        BY <1>3
      <4>2. [j \in 1 .. 1 |-> e[j]] = <<e[1]>>
        OBVIOUS
      <4> QED
        BY <2>0, <4>1, <4>2
    <3>2. ASSUME NEW i \in 2 .. n
          PROVE  g[i] = g[i - 1] \o s[i]
      <4>1. i \in 1 .. n /\ i - 1 \in 1 .. n /\ i - 1 + 1 = i /\ i - 1 \in Nat
        OBVIOUS
      <4> DEFINE p == [j \in 1 .. i - 1 |-> e[j]]
      <4>2. g[i - 1] = p
        BY <2>0, <4>1
      <4>3. p \in Seq(T) /\ Len(p) = i - 1 /\ \A j \in 1 .. i - 1 : p[j] = e[j]
        <5>1. p \in [1 .. i - 1 -> T]
          BY <1>0, <4>1
        <5> QED
          BY <4>1, <5>1
      <4>4. e[i] \in T
        BY <1>0, <4>1
      <4> HIDE DEF p
      <4>5. p \o <<e[i]>> = [j \in 1 .. i |-> e[j]]
        BY <4>1, <4>3, <4>4
      <4> QED
        BY <2>0, <4>1, <4>2, <4>5
    <3> QED
      BY <3>1, <3>2 DEF Joins
  <2>2. g[n] = [i \in 1 .. n |-> e[i]]
    BY <1>3, <2>0
  <2> HIDE DEF g
  <2>3. n \in Nat \ {0}
    BY <1>3
  <2>4. S!FlattenSeq(s) = g[n]
    BY <1>1, <2>1, <2>3, FlattenIs
  <2> QED
    BY <2>2, <2>4 DEF Firsts
<1> QED
  BY <1>2, <1>3

\* The first elements of a sequence are a prefix of it.
LEMMA FirstOnes ==
    ASSUME NEW T, NEW e \in Seq(T), NEW n \in Nat, n <= Len(e),
           NEW p, Firsts(p, e, n)
    PROVE  S!IsPrefix(p, e) /\ (n = Len(e) => p = e)
<1> USE DEF Firsts
<1>1. p \in Seq(T) /\ Len(p) = n /\ \A i \in 1 .. n : p[i] = e[i]
  <2>1. \A i \in 1 .. n : e[i] \in T
    OBVIOUS
  <2>2. p \in [1 .. n -> T]
    BY <2>1
  <2> QED
    BY <2>2
<1>2. SubSeq(p, 1, Len(p)) = SubSeq(e, 1, Len(p))
  BY <1>1
<1>3. n = Len(e) => p = e
  BY <1>1
<1> QED
  BY <1>1, <1>2, <1>3 DEF S!IsPrefix

LEMMA NarrowKeeps ==
    ASSUME NEW n \in Nat, n <= Cfg.LengthTypeMax
    PROVE  Narrow(n) = n
  BY LengthTypeAssumption, SMTT(30) DEF Narrow

\* The elements of a method, as its caller names them.
LEMMA NamedTyped ==
    ASSUME NEW m \in Methods
    PROVE  Named(m) \in Seq(Addrs) /\ Len(Named(m)) = m.count
<1>1. CASE m.name \in {"compRead", "compWrite"}
  BY <1>1, MethodTyped, MethodsAssumption DEF Named
<1>2. CASE m.name \notin {"compRead", "compWrite"}
  <2>1. Named(m) = Strided(Head(m.addrs), m.count, m.increment) /\ m.count \in Nat
    BY <1>2, MethodTyped DEF Named
  <2> QED
    BY <1>2, <2>1, StridedTyped
<1> QED
  BY <1>1, <1>2

\* One command of its own is for the elements the caller names.
LEMMA DirectNamed ==
    ASSUME NEW m \in Methods, Direct(m), Lossless(m)
    PROVE  DirectCommand(m).addrs = Named(m) /\ DirectCommand(m).data = m.data
<1>1. m.count \in Nat /\ m.increment \in Nat
  BY MethodTyped
<1>2. Narrow(m.increment) = m.increment
  BY <1>1, NarrowKeeps DEF Lossless, IncrementFits
<1>3. m.name \in ReadMethods => Narrow(m.count) = m.count
  BY <1>1, NarrowKeeps DEF Lossless
<1> QED
  BY <1>2, <1>3 DEF DirectCommand, Named

\* And a count that is cast makes it a command for the first of them.
LEMMA DirectFirst ==
    ASSUME NEW m \in Methods, Direct(m), IncrementFits(m)
    PROVE  S!IsPrefix(DirectCommand(m).addrs, Named(m))
<1>1. Named(m) \in Seq(Addrs) /\ Len(Named(m)) = m.count /\ m.count \in Nat
  BY NamedTyped, MethodTyped
<1>2. m.increment \in Nat /\ Narrow(m.increment) = m.increment
  BY MethodTyped, NarrowKeeps DEF IncrementFits
<1>3. CASE m.name \in {"compRead", "compWrite"}
  <2>1. DirectCommand(m).addrs = Named(m)
    BY <1>3 DEF DirectCommand, Named
  <2>2. PICK e \in Seq(Addrs) : e = Named(m)
    BY <1>1
  <2>3. S!IsPrefix(e, e)
    BY DEF S!IsPrefix
  <2> QED
    BY <2>1, <2>2, <2>3
<1>4. CASE m.name \notin {"compRead", "compWrite"}
  <2> DEFINE n == IF m.name \in ReadMethods THEN Narrow(m.count) ELSE m.count
  <2>1. n \in Nat /\ n <= m.count
    BY <1>1, NarrowFits
  <2>2. /\ DirectCommand(m).addrs = Strided(Head(m.addrs), n, m.increment)
        /\ Named(m) = Strided(Head(m.addrs), m.count, m.increment)
    BY <1>2, <1>4 DEF DirectCommand, Named
  <2> HIDE DEF n
  <2>3. Firsts(DirectCommand(m).addrs, Named(m), n)
    <3>1. \A i \in 1 .. n : i \in 1 .. m.count
      BY <1>1, <2>1
    <3>2. \A i \in 1 .. n :
             Named(m)[i] = Head(m.addrs) + (i - 1) * m.increment
      BY <2>2, <3>1 DEF Strided
    <3> QED
      BY <2>2, <3>2 DEF Firsts, Strided
  <2> QED
    BY <1>1, <2>1, <2>3, FirstOnes
<1> QED
  BY <1>3, <1>4

\* What a call has gone for, together.
LEMMA TouchedInOrder ==
    ASSUME TargetInv, NEW c \in DOMAIN calls, ~InTwoSteps(calls[c].method)
    PROVE  LET m == calls[c].method
               addrs == AddrsOf(c)
               data == DataOf(c)
           IN  /\ IncrementFits(m) => S!IsPrefix(addrs, Named(m))
               /\ S!IsPrefix(data, m.data)
               /\ Len(calls[c].commands) = CommandCount(m) =>
                     (Lossless(m) => addrs = Named(m)) /\ data = m.data
<1> DEFINE m == calls[c].method
           n == Len(calls[c].commands)
           A == [i \in DOMAIN Ops(c) |-> Ops(c)[i].addrs]
           D == [i \in DOMAIN Ops(c) |-> Ops(c)[i].data]
           addrs == S!FlattenSeq(A)
           data == S!FlattenSeq(D)
<1>0. AddrsOf(c) = addrs /\ DataOf(c) = data
  BY Zenon DEF AddrsOf, DataOf
<1> SUFFICES /\ IncrementFits(m) => S!IsPrefix(addrs, Named(m))
             /\ S!IsPrefix(data, m.data)
             /\ n = CommandCount(m) =>
                   (Lossless(m) => addrs = Named(m)) /\ data = m.data
  BY <1>0, Zenon
<1>1. /\ n \in Nat /\ DOMAIN calls[c].commands = 1 .. n
      /\ m \in Methods /\ n <= CommandCount(m)
  BY Shapes DEF TargetInv, InSequence
<1>2. DOMAIN Ops(c) = 1 .. n
  BY <1>1 DEF Ops
<1>3. \A i \in 1 .. n : Ops(c)[i] = Command(c, i)
  BY <1>1, CommandAt DEF Ops
<1>4. /\ A = [i \in 1 .. n |-> Command(c, i).addrs]
      /\ D = [i \in 1 .. n |-> Command(c, i).data]
  BY <1>2, <1>3
<1>5. /\ Named(m) \in Seq(Addrs) /\ Len(Named(m)) = m.count
      /\ m.data \in Seq(Data) /\ m.count \in Nat
  BY <1>1, NamedTyped, MethodTyped
<1>6. ~Direct(m) =>
         /\ m.name # "readModifyWrite"
         /\ m.name \in ReadMethods => m.data = <<>>
         /\ m.name \notin ReadMethods => Len(m.data) = m.count
  <2>1. m.name \in MethodNames
    BY <1>1, MethodTyped
  <2> QED
    BY <1>1, <2>1, MethodsAssumption DEF MethodNames, InTwoSteps
<1>7. /\ S!IsPrefix(<<>>, Named(m)) /\ S!IsPrefix(<<>>, m.data)
      /\ S!IsPrefix(Named(m), Named(m)) /\ S!IsPrefix(m.data, m.data)
  <2>1. ASSUME NEW T, NEW e \in Seq(T)
        PROVE  S!IsPrefix(<<>>, e) /\ S!IsPrefix(e, e)
    BY <2>1 DEF S!IsPrefix
  <2> QED
    BY <1>5, <2>1
<1>8. CASE Direct(m)
  <2>1. CommandCount(m) = 1 /\ n \in {0, 1}
    <3>1. CommandCount(m) = 1
      BY <1>1, <1>8, CountTyped
    <3>2. n <= 1
      BY <1>1, <3>1, Zenon
    <3>3. n \in {0, 1}
      <4> HIDE DEF n
      <4> QED
        BY <1>1, <3>2
    <3> QED
      BY <3>1, <3>3, Zenon
  <2>2. CASE n = 0
    <3>1. A = <<>> /\ D = <<>>
      BY <1>4, <2>2
    <3>2. addrs = <<>> /\ data = <<>>
      BY <3>1, FlattenNone
    <3> QED
      BY <1>7, <2>1, <2>2, <3>2
  <2>3. CASE n = 1
    <3>1. Command(c, 1) = DirectCommand(m)
      BY <1>8 DEF Command
    <3>2. /\ Len(A) = 1 /\ A[1] = DirectCommand(m).addrs
          /\ Len(D) = 1 /\ D[1] = DirectCommand(m).data
      BY <1>4, <2>3, <3>1
    <3>3. addrs = DirectCommand(m).addrs /\ data = m.data
      <4> HIDE DEF A, D
      <4>1. addrs = A[1] /\ data = D[1]
        BY <3>2, FlattenOne
      <4>2. DirectCommand(m).data = m.data
        BY DEF DirectCommand
      <4> QED
        BY <3>2, <4>1, <4>2
    <3> QED
      <4>1. IncrementFits(m) => S!IsPrefix(DirectCommand(m).addrs, Named(m))
        BY <1>1, <1>8, DirectFirst
      <4>2. Lossless(m) => DirectCommand(m).addrs = Named(m)
        BY <1>1, <1>8, DirectNamed
      <4> HIDE DEF m, addrs, data
      <4> QED
        BY <1>7, <3>3, <4>1, <4>2
  <2> HIDE DEF m, n, addrs, data
  <2> QED
    BY <2>1, <2>2, <2>3
<1>9. CASE ~Direct(m)
  <2>1. CommandCount(m) = m.count
    BY <1>1, <1>6, <1>9, CountTyped
  <2>2. \A i \in 1 .. n : Command(c, i) = Element(m, i)
    BY <1>6, <1>9 DEF Command
  <2>3. A = [i \in 1 .. n |-> <<Named(m)[i]>>]
    BY <1>4, <2>2 DEF Element
  <2>4. n <= Len(Named(m))
    BY <1>1, <1>5, <2>1
  <2> HIDE DEF A, D, n, m
  <2>5. Singles(A, Named(m), n)
    BY <2>3 DEF Singles
  <2>6. S!IsPrefix(addrs, Named(m)) /\ (n = m.count => addrs = Named(m))
    <3>1. PICK e \in Seq(Addrs) : e = Named(m) /\ Len(e) = m.count
      BY <1>5
    <3>2. Firsts(addrs, e, n)
      BY <1>1, <2>4, <2>5, <3>1, FlattenSingles
    <3> HIDE DEF addrs
    <3> QED
      BY <1>1, <2>4, <3>1, <3>2, FirstOnes
  <2>7. S!IsPrefix(data, m.data) /\ (n = m.count => data = m.data)
    <3>1. CASE m.name \in ReadMethods
      <4>1. D = [i \in 1 .. n |-> <<>>]
        BY <1>4, <2>2, <3>1 DEF Element
      <4>2. D \in [1 .. n -> {<<>>}]
        BY <4>1
      <4>3. data = <<>>
        BY <1>1, <4>2, FlattenEmpty
      <4> QED
        BY <1>6, <1>7, <1>9, <3>1, <4>3
    <3>2. CASE m.name \notin ReadMethods
      <4>1. D = [i \in 1 .. n |-> <<m.data[i]>>]
        BY <1>4, <2>2, <3>2 DEF Element
      <4>2. n <= Len(m.data) /\ Len(m.data) = m.count
        BY <1>1, <1>6, <1>9, <2>1, <3>2
      <4>3. m.data \in Seq(Data) /\ n \in Nat
        BY <1>1, <1>5
      <4>4. Firsts(data, m.data, n)
        <5> DEFINE e == m.data
        <5> HIDE DEF e
        <5>1. e \in Seq(Data) /\ n <= Len(e) /\ Singles(D, e, n)
          BY <4>1, <4>2, <4>3 DEF e, Singles
        <5>2. Firsts(data, e, n)
          BY <4>3, <5>1, FlattenSingles
        <5> QED
          BY <5>2 DEF e
      <4> HIDE DEF data
      <4> QED
        BY <4>2, <4>3, <4>4, FirstOnes
    <3> QED
      BY <3>1, <3>2
  <2> HIDE DEF addrs, data
  <2> QED
    BY <2>1, <2>6, <2>7
<1> HIDE DEF m, n, addrs, data
<1> QED
  BY <1>8, <1>9

\* What an update in two commands goes for: its register, and what it has read
\* there outside its mask.
LEMMA UpdateTouches ==
    ASSUME TargetInv, NEW c \in DOMAIN calls, InTwoSteps(calls[c].method)
    PROVE  LET m == calls[c].method
               commands == calls[c].commands
           IN  /\ \A i \in DOMAIN commands : Ops(c)[i].addrs = m.addrs
               /\ Len(commands) = 2 =>
                     Head(Ops(c)[2].data) \ m.data[2]
                       = Head(answer[commands[1]].data) \ m.data[2]
               /\ CommandCount(m) = 2
<1> DEFINE m == calls[c].method
           n == Len(calls[c].commands)
<1>1. /\ n \in Nat /\ DOMAIN calls[c].commands = 1 .. n
      /\ m \in Methods /\ n <= CommandCount(m)
  BY Shapes DEF TargetInv, InSequence
<1>2. ~Direct(m) /\ m.name = "readModifyWrite" /\ CommandCount(m) = 2
  BY <1>1, CountTyped DEF InTwoSteps
<1>3. \A i \in 1 .. n : Ops(c)[i] = Command(c, i)
  BY <1>1, CommandAt DEF Ops
<1>4. \A i \in 1 .. n : Command(c, i).addrs = m.addrs
  BY <1>2 DEF Command
<1>5. CASE n = 2
  <2> DEFINE old == Head(answer[calls[c].commands[1]].data)
  <2>1. Ops(c)[2] = Command(c, 2)
    BY <1>3, <1>5
  <2>2. Command(c, 2).data = <<Updated(m, old)>>
    BY <1>2 DEF Command
  <2>3. Head(Ops(c)[2].data) = Updated(m, old)
    BY <2>1, <2>2
  <2> HIDE DEF old
  <2>4. Updated(m, old) \ m.data[2] = old \ m.data[2]
    BY DEF Updated
  <2> QED
    BY <1>1, <1>2, <1>3, <1>4, <2>3, <2>4 DEF old
<1> QED
  BY <1>1, <1>2, <1>3, <1>4, <1>5

-----------------------------------------------------------------------------
(* The theorems.                                                            *)

LEMMA InitTargetInv == TargetInit => TargetInv
<1> SUFFICES ASSUME TargetInit PROVE TargetInv
  OBVIOUS
<1>1. /\ features \in FeatureSets /\ calls = <<>> /\ outcome = <<>>
      /\ asked = <<>> /\ answer = <<>> /\ done = <<>>
      /\ store = [a \in Addrs |-> {}]
  BY DEF TargetInit, Wire!ServiceInit
<1>2. TargetTypeOK
  BY <1>1 DEF TargetTypeOK, Data
<1> QED
  BY <1>1, <1>2
  DEF TargetInv, InSequence, EndsAsAnswered, OneAfterTheOther, DoneInOrder

LEMMA StepTargetInv == TargetInv /\ [TargetNext]_targetVars => TargetInv'
  BY StepTyped, StepInSequence, StepEndsAsAnswered, StepOneAfterTheOther,
     StepDoneInOrder
  DEF TargetInv

\* However the calls of all threads and the service interleave, a call issues the
\* commands of its method one by one, the next only when the last one has been
\* acknowledged, and it ends as the answers say (RegisterTarget.h:24-156).
THEOREM TargetInvariant == TargetSpec => []TargetInv
<1>1. TargetInit => TargetInv
  BY InitTargetInv
<1>2. TargetInv /\ [TargetNext]_targetVars => TargetInv'
  BY StepTargetInv
<1> QED
  BY <1>1, <1>2, PTL DEF TargetSpec

\* Every state of RegisterTarget is well typed; in particular every command that
\* a method sends is well formed, whichever features the Cfg has
\* (RegisterTarget.h:24-135).
THEOREM TargetTypeCorrect == TargetSpec => []TargetTypeOK
<1>1. TargetInv => TargetTypeOK
  BY DEF TargetInv
<1> QED
  BY <1>1, TargetInvariant, PTL

\* Whatever fails, a call leaves at most one command behind that is yet to be
\* carried out, and one that has returned, or has thrown OperationNakException,
\* leaves none (RegisterTarget.h:138-156).
THEOREM AtMostOneBehind == TargetSpec => []LeavesAtMostOneBehind
<1>1. ASSUME TargetInv, NEW c \in DOMAIN calls
      PROVE  LET left == {k \in S!ToSet(calls[c].commands) :
                             \A i \in DOMAIN done : done[i].call # k}
             IN  /\ outcome[c] \in {"returned", "nak"} => left = {}
                 /\ Cardinality(left) <= 1
  <2> DEFINE left == {k \in S!ToSet(calls[c].commands) :
                         \A i \in DOMAIN done : done[i].call # k}
             n == Len(calls[c].commands)
             last == calls[c].commands[n]
  <2>1. n \in Nat /\ DOMAIN calls[c].commands = 1 .. n
    BY <1>1, Shapes DEF TargetInv
  <2>2. ASSUME NEW i \in DOMAIN calls[c].commands,
               answer[calls[c].commands[i]].kind \in {"ack", "nak"}
        PROVE  calls[c].commands[i] \notin left
    BY <1>1, <2>2, CommandAt DEF TargetInv, DoneInOrder
  <2>3. ASSUME NEW k \in left
        PROVE  \E i \in DOMAIN calls[c].commands : k = calls[c].commands[i]
    BY <2>3 DEF S!ToSet
  <2>4. outcome[c] \in {"returned", "nak"} => left = {}
    BY <1>1, <2>2, <2>3, KindAt
  <2>5. left \subseteq {last}
    <3> SUFFICES ASSUME NEW k \in left
                 PROVE  k = last
      OBVIOUS
    <3>1. PICK i \in DOMAIN calls[c].commands : k = calls[c].commands[i]
      BY <2>3
    <3>2. ~(i < n)
      BY <1>1, <2>2, <3>1, CommandAt
    <3> QED
      BY <2>1, <3>1, <3>2
  <2> HIDE DEF left, last
  <2>6. Cardinality(left) <= 1
    <3>1. IsFiniteSet({last}) /\ Cardinality({last}) = 1
      BY FS_Singleton
    <3> QED
      BY <2>5, <3>1, FS_Subset
  <2> QED
    BY <2>4, <2>6 DEF left
<1>2. TargetInv => LeavesAtMostOneBehind
  BY <1>1 DEF LeavesAtMostOneBehind
<1> QED
  BY <1>2, TargetInvariant, PTL

\* Whatever fails, and whoever else is calling, a call that has failed issues no
\* further command. A method whose increment is not cut by its cast has gone for
\* the first elements its caller named and for no others, and where the count is
\* not cut either it returns only when it has gone for all. The data is the
\* caller's in any case. An update in two commands goes for its register, and
\* writes the bits outside its mask as it has read them. What a cut increment
\* makes a method go for is not said (RegisterTarget.h:24-135).
THEOREM InTouchOrder == TargetSpec => []TouchesInOrder
<1>1. ASSUME TargetInv, NEW c \in DOMAIN calls
      PROVE  /\ outcome[c] = "returned" =>
                   Len(calls[c].commands) = CommandCount(calls[c].method)
             /\ \A i \in DOMAIN calls[c].commands :
                   answer[calls[c].commands[i]].kind # "ack" =>
                      i = Len(calls[c].commands)
  <2>1. /\ Len(calls[c].commands) \in Nat
        /\ DOMAIN calls[c].commands = 1 .. Len(calls[c].commands)
    BY <1>1, Shapes DEF TargetInv
  <2>2. outcome[c] = "returned" =>
           Len(calls[c].commands) = CommandCount(calls[c].method)
    BY <1>1 DEF TargetInv, EndsAsAnswered
  <2>3. ASSUME NEW i \in DOMAIN calls[c].commands,
               answer[calls[c].commands[i]].kind # "ack"
        PROVE  i = Len(calls[c].commands)
    <3>1. ~(i < Len(calls[c].commands))
      BY <1>1, <2>3, CommandAt
    <3> QED
      BY <2>1, <2>3, <3>1
  <2> QED
    BY <2>2, <2>3
<1>2. TargetInv => TouchesInOrder
  <2> SUFFICES ASSUME TargetInv, NEW c \in DOMAIN calls
               PROVE  IF InTwoSteps(calls[c].method) THEN Updates(c)
                                                     ELSE GoesThrough(c)
    BY <1>1, Zenon DEF TouchesInOrder
  <2>1. CASE InTwoSteps(calls[c].method)
    <3>1. Updates(c)
      BY <1>1, <2>1, UpdateTouches DEF Updates
    <3> QED
      BY <2>1, <3>1
  <2>2. CASE ~InTwoSteps(calls[c].method)
    <3>1. GoesThrough(c)
      BY <1>1, <2>2, TouchedInOrder, Zenon DEF GoesThrough
    <3> QED
      BY <2>2, <3>1
  <2> QED
    BY <2>1, <2>2
<1> QED
  BY <1>2, TargetInvariant, PTL

-----------------------------------------------------------------------------
(* Updates.                                                                 *)

\* The parts of UpdatesInv.
Owned ==
    \A k \in DOMAIN asked :
        \E c \in DOMAIN calls : k \in S!ToSet(calls[c].commands)

AfterReturned ==
    \A d \in DOMAIN calls : \A c \in calls[d].after :
        c \in DOMAIN calls /\ outcome[c] = "returned"

\* d is an update in two commands of the register of c, and may rely on c.
Relies(d, c) ==
    /\ calls[d].method.name = "readModifyWrite"
    /\ calls[d].method.addrs = calls[c].method.addrs
    /\ ~Direct(calls[d].method) /\ Precedes(c, d)
    /\ calls[d].commands # <<>>

StoreHolds(c) == Holds(c, store[Head(calls[c].method.addrs)]) \/ Excused(c)

ReadHolds(c) ==
    \A d \in DOMAIN calls, i \in DOMAIN done :
        Relies(d, c) /\ done[i].call = calls[d].commands[1] /\ done[i].ok =>
            Holds(c, Head(done[i].data)) \/ Excused(c)

SettledHolds(c) ==
    calls[c].method.name = "readModifyWrite" /\ Settled(c) =>
        StoreHolds(c) /\ ReadHolds(c)

LEMMA UpdatesInvIs ==
    UpdatesInv <=> /\ TargetInv /\ Owned /\ AfterReturned
                   /\ \A c \in DOMAIN calls : SettledHolds(c)
  BY Zenon DEF UpdatesInv, Owned, AfterReturned, Relies, StoreHolds, ReadHolds,
               SettledHolds

\* What a call is, that never changes.
Same(c) ==
    /\ c \in DOMAIN calls'
    /\ calls'[c].method = calls[c].method /\ calls'[c].thread = calls[c].thread
    /\ calls'[c].after = calls[c].after

\* An excuse remains one.
LEMMA ExcusedStays ==
    ASSUME NEW c \in DOMAIN calls, \A d \in DOMAIN calls : Same(d),
           UNCHANGED features, Excused(c)
    PROVE  Excused(c)'
<1> DEFINE a == Head(calls[c].method.addrs)
           mask == calls[c].method.data[2]
<1>1. ASSUME NEW d \in DOMAIN calls
      PROVE  /\ d \in DOMAIN calls'
             /\ MayFollow(d, c)' = MayFollow(d, c)
             /\ MayChange(d, a, mask)' = MayChange(d, a, mask)
             /\ Concurrent(c, d)' = Concurrent(c, d)
             /\ calls'[d].method = calls[d].method
  <2>1. Same(d) /\ Same(c)
    OBVIOUS
  <2>2. a' = a /\ mask' = mask
    BY <2>1 DEF Same
  <2>3. Lossless(calls[d].method)' = Lossless(calls[d].method)
    BY <2>1 DEF Same, Lossless, IncrementFits, Direct, checkIFS
  <2>4. Named(calls[d].method)' = Named(calls[d].method)
    BY <2>1 DEF Same, Named, Strided
  <2> QED
    BY <2>1, <2>2, <2>3, <2>4
    DEF Same, MayFollow, MayChange, Concurrent
<1>2. a' = a /\ mask' = mask
  <2>1. Same(c)
    OBVIOUS
  <2> QED
    BY <2>1 DEF Same
<1>3. CASE \E d \in DOMAIN calls \ {c} : MayFollow(d, c) /\ MayChange(d, a, mask)
  <2>1. PICK d \in DOMAIN calls \ {c} : MayFollow(d, c) /\ MayChange(d, a, mask)
    BY <1>3
  <2>2. d \in DOMAIN calls' \ {c} /\ MayFollow(d, c)' /\ MayChange(d, a, mask)'
    BY <1>1, <2>1
  <2> QED
    BY <2>2, Zenon DEF Excused
<1>4. CASE /\ "ReadModifyWrite" \notin features
           /\ \E d \in DOMAIN calls :
                 /\ calls[d].method.name = "readModifyWrite"
                 /\ calls[d].method.addrs = <<a>> /\ Concurrent(c, d)
  <2>1. PICK d \in DOMAIN calls :
          /\ calls[d].method.name = "readModifyWrite"
          /\ calls[d].method.addrs = <<a>> /\ Concurrent(c, d)
    BY <1>4
  <2>2. /\ d \in DOMAIN calls' /\ calls'[d].method.name = "readModifyWrite"
        /\ calls'[d].method.addrs = <<a'>> /\ Concurrent(c, d)'
    BY <1>1, <1>2, <2>1
  <2>3. "ReadModifyWrite" \notin features'
    BY <1>4
  <2> QED
    BY <2>2, <2>3, Zenon DEF Excused
<1> QED
  BY <1>3, <1>4, Zenon DEF Excused

\* A step that carries nothing out, and issues only what is yet to be carried
\* out, leaves everything as it was for the updates.
LEMMA UpdatesFrame ==
    ASSUME \A c \in DOMAIN calls : SettledHolds(c),
           UNCHANGED <<features, done, store>>,
           \A c \in DOMAIN calls : Same(c),
           \A c \in DOMAIN calls' :
              \A j \in DOMAIN calls'[c].commands, i \in DOMAIN done :
                 done[i].call = calls'[c].commands[j] =>
                    /\ c \in DOMAIN calls /\ j \in DOMAIN calls[c].commands
                    /\ calls[c].commands[j] = calls'[c].commands[j],
           \A c \in DOMAIN calls' :
              calls'[c].commands # <<>> => 1 \in DOMAIN calls'[c].commands,
           NEW c \in DOMAIN calls'
    PROVE  SettledHolds(c)'
<1> SUFFICES ASSUME calls'[c].method.name = "readModifyWrite", Settled(c)'
             PROVE  StoreHolds(c)' /\ ReadHolds(c)'
  BY Zenon DEF SettledHolds
<1>1. PICK i \in DOMAIN done, j \in DOMAIN calls'[c].commands :
        /\ j = CommandCount(calls[c].method)'
        /\ done[i].call = calls'[c].commands[j] /\ done[i].ok
  BY Zenon DEF Settled
<1>2. c \in DOMAIN calls /\ j \in DOMAIN calls[c].commands
      /\ calls[c].commands[j] = calls'[c].commands[j]
  BY <1>1
<1>3. Same(c)
  BY <1>2
<1>4. CommandCount(calls[c].method)' = CommandCount(calls[c].method)
  BY <1>3 DEF Same, CommandCount, Direct, checkIFS
<1>5. Settled(c)
  <2>1. /\ j = CommandCount(calls[c].method)
        /\ done[i].call = calls[c].commands[j] /\ done[i].ok
    BY <1>1, <1>2, <1>4
  <2> QED
    BY <1>2, <2>1, Zenon DEF Settled
<1>6. calls[c].method.name = "readModifyWrite" /\ calls'[c].method = calls[c].method
  BY <1>3 DEF Same
<1>7. StoreHolds(c) /\ ReadHolds(c)
  BY <1>2, <1>5, <1>6, Zenon DEF SettledHolds
<1>8. Excused(c) => Excused(c)'
  BY <1>2, ExcusedStays
<1>9. ASSUME NEW v PROVE Holds(c, v) => Holds(c, v)'
  BY <1>6 DEF Holds
<1>10. StoreHolds(c)'
  BY <1>6, <1>7, <1>8 DEF StoreHolds, Holds
<1>11. ReadHolds(c)'
  <2> SUFFICES ASSUME NEW d \in DOMAIN calls', NEW l \in DOMAIN done,
                      Relies(d, c)', done[l].call = calls'[d].commands[1],
                      done[l].ok
               PROVE  Holds(c, Head(done[l].data))' \/ Excused(c)'
    BY Zenon DEF ReadHolds
  <2>1. 1 \in DOMAIN calls'[d].commands
    BY Zenon DEF Relies
  <2>2. d \in DOMAIN calls /\ 1 \in DOMAIN calls[d].commands
        /\ calls[d].commands[1] = calls'[d].commands[1]
    BY <2>1
  <2>3. Same(d)
    BY <2>2
  <2>4. Relies(d, c)
    <3>1. Direct(calls[d].method)' = Direct(calls[d].method)
      BY <2>3 DEF Same, Direct, checkIFS
    <3>2. Precedes(c, d)
      BY <1>3, <2>3 DEF Relies, Precedes, Same
    <3>3. calls[d].commands # <<>>
      BY <2>2
    <3> QED
      BY <1>3, <2>3, <3>1, <3>2, <3>3 DEF Relies, Same
  <2>5. Holds(c, Head(done[l].data)) \/ Excused(c)
    BY <1>7, <2>2, <2>4, Zenon DEF ReadHolds
  <2> QED
    BY <1>8, <1>9, <2>5
<1> QED
  BY <1>10, <1>11

UpdatesPart ==
    Owned /\ AfterReturned /\ \A c \in DOMAIN calls : SettledHolds(c)

\* A step that leaves the calls, what is asked and what is done alone.
LEMMA UpdatesOutcome ==
    ASSUME UpdatesInv, UNCHANGED <<features, calls, asked, done, store>>,
           \A c \in DOMAIN calls : outcome[c] = "returned" => outcome'[c] = "returned"
    PROVE  UpdatesPart'
<1>1. TargetInv /\ Owned /\ AfterReturned /\ \A c \in DOMAIN calls : SettledHolds(c)
  BY UpdatesInvIs
<1>2. Owned'
  BY <1>1 DEF Owned, S!ToSet
<1>3. AfterReturned'
  BY <1>1 DEF AfterReturned
<1>4. \A c \in DOMAIN calls : Same(c)
  BY DEF Same
<1>5. \A c \in DOMAIN calls : calls[c].commands # <<>> => 1 \in DOMAIN calls[c].commands
  BY <1>1, Shapes DEF TargetInv
<1>6. ASSUME NEW c \in DOMAIN calls'
      PROVE  SettledHolds(c)'
  BY <1>1, <1>4, <1>5, <1>6, UpdatesFrame
<1> QED
  BY <1>2, <1>3, <1>6 DEF UpdatesPart

LEMMA BeginUpdates ==
    ASSUME UpdatesInv, NEW t \in Threads, NEW m \in Methods, Begin(t, m)
    PROVE  UpdatesPart'
<1> DEFINE n == NewCall
<1>1. TargetInv /\ Owned /\ AfterReturned /\ \A c \in DOMAIN calls : SettledHolds(c)
  BY UpdatesInvIs
<1>2. /\ n \notin DOMAIN calls /\ DOMAIN calls' = DOMAIN calls \cup {n}
      /\ \A c \in DOMAIN calls : calls'[c] = calls[c] /\ outcome'[c] = outcome[c]
      /\ calls'[n].commands = <<>>
      /\ calls'[n].after = {c \in DOMAIN calls : outcome[c] = "returned"}
      /\ UNCHANGED <<features, asked, answer, done, store>>
  BY <1>1, BeginEffect
<1> HIDE DEF n
<1>3. Owned'
  <2> SUFFICES ASSUME NEW k \in DOMAIN asked'
               PROVE  \E c \in DOMAIN calls' : k \in S!ToSet(calls'[c].commands)
    BY DEF Owned, S!ToSet
  <2>1. PICK c \in DOMAIN calls : k \in S!ToSet(calls[c].commands)
    BY <1>1, <1>2 DEF Owned
  <2> QED
    BY <1>2, <2>1
<1>4. AfterReturned'
  BY <1>1, <1>2 DEF AfterReturned
<1>5. \A c \in DOMAIN calls : Same(c)
  BY <1>2 DEF Same
<1>6. \A c \in DOMAIN calls' :
         calls'[c].commands # <<>> => 1 \in DOMAIN calls'[c].commands
  BY <1>1, <1>2, Shapes DEF TargetInv
<1>7. \A c \in DOMAIN calls' :
         \A j \in DOMAIN calls'[c].commands, i \in DOMAIN done :
            done[i].call = calls'[c].commands[j] =>
               /\ c \in DOMAIN calls /\ j \in DOMAIN calls[c].commands
               /\ calls[c].commands[j] = calls'[c].commands[j]
  BY <1>2
<1>8. ASSUME NEW c \in DOMAIN calls'
      PROVE  SettledHolds(c)'
  BY <1>1, <1>2, <1>5, <1>6, <1>7, <1>8, UpdatesFrame
<1> QED
  BY <1>3, <1>4, <1>8 DEF UpdatesPart

LEMMA IssueUpdates ==
    ASSUME UpdatesInv, NEW t \in Threads, NEW c \in DOMAIN calls, Issue(t, c)
    PROVE  UpdatesPart'
<1> DEFINE k == NewCommand
           n == Len(calls[c].commands) + 1
<1>1. TargetInv /\ Owned /\ AfterReturned /\ \A d \in DOMAIN calls : SettledHolds(d)
  BY UpdatesInvIs
<1>2. /\ k \notin DOMAIN asked /\ DOMAIN asked' = DOMAIN asked \cup {k}
      /\ DOMAIN calls' = DOMAIN calls
      /\ \A d \in DOMAIN calls : d # c => calls'[d] = calls[d]
      /\ calls'[c].method = calls[c].method
      /\ calls'[c].thread = calls[c].thread
      /\ calls'[c].after = calls[c].after
      /\ calls'[c].commands \in Seq(Nat)
      /\ Len(calls'[c].commands) = n
      /\ calls'[c].commands[n] = k
      /\ \A i \in DOMAIN calls[c].commands :
            calls'[c].commands[i] = calls[c].commands[i]
      /\ UNCHANGED <<features, outcome, done, store>>
  BY <1>1, IssueEffect
<1>3. \A d \in DOMAIN calls : /\ Len(calls[d].commands) \in Nat
                              /\ DOMAIN calls[d].commands = 1 .. Len(calls[d].commands)
  BY <1>1, Shapes DEF TargetInv
<1>4. n \in Nat /\ n \in DOMAIN calls'[c].commands
      /\ DOMAIN calls'[c].commands = DOMAIN calls[c].commands \cup {n}
  BY <1>2, <1>3
<1>5. \A i \in DOMAIN done : done[i].call \in DOMAIN asked
  BY <1>1, Shapes DEF TargetInv
<1> HIDE DEF k, n
<1>6. Owned'
  <2> SUFFICES ASSUME NEW l \in DOMAIN asked'
               PROVE  \E d \in DOMAIN calls' : l \in S!ToSet(calls'[d].commands)
    BY DEF Owned, S!ToSet
  <2>1. CASE l = k
    BY <1>2, <1>4, <2>1 DEF S!ToSet
  <2>2. CASE l \in DOMAIN asked
    <3>1. PICK d \in DOMAIN calls : l \in S!ToSet(calls[d].commands)
      BY <1>1, <2>2 DEF Owned
    <3>2. PICK j \in DOMAIN calls[d].commands : l = calls[d].commands[j]
      BY <3>1 DEF S!ToSet
    <3>3. j \in DOMAIN calls'[d].commands /\ l = calls'[d].commands[j]
      BY <1>2, <1>4, <3>2
    <3> QED
      BY <1>2, <3>3 DEF S!ToSet
  <2> QED
    BY <1>2, <2>1, <2>2
<1>7. AfterReturned'
  BY <1>1, <1>2 DEF AfterReturned
<1>8. \A d \in DOMAIN calls : Same(d)
  BY <1>2 DEF Same
<1>9. \A d \in DOMAIN calls' :
         calls'[d].commands # <<>> => 1 \in DOMAIN calls'[d].commands
  <2> SUFFICES ASSUME NEW d \in DOMAIN calls'
               PROVE  calls'[d].commands # <<>> => 1 \in DOMAIN calls'[d].commands
    OBVIOUS
  <2>1. calls'[d].commands \in Seq(Nat)
    BY <1>1, <1>2, Shapes DEF TargetInv
  <2> QED
    BY <2>1
<1>10. \A d \in DOMAIN calls' :
          \A j \in DOMAIN calls'[d].commands, i \in DOMAIN done :
             done[i].call = calls'[d].commands[j] =>
                /\ d \in DOMAIN calls /\ j \in DOMAIN calls[d].commands
                /\ calls[d].commands[j] = calls'[d].commands[j]
  BY <1>2, <1>4, <1>5
<1>11. ASSUME NEW d \in DOMAIN calls'
       PROVE  SettledHolds(d)'
  BY <1>1, <1>2, <1>8, <1>9, <1>10, <1>11, UpdatesFrame
<1> QED
  BY <1>6, <1>7, <1>11 DEF UpdatesPart

\* A command is carried out once, and no call that has returned waits for it.
LEMMA CarriedOnce ==
    ASSUME TargetInv, NEW k \in DOMAIN asked, CarryOut(k)
    PROVE  /\ \A i \in DOMAIN done :
                 /\ done[i].call # k
                 /\ asked[done[i].call].thread = asked[k].thread => done[i].call < k
           /\ answer[k].kind # "ack"
           /\ \A d \in DOMAIN calls : \A j \in DOMAIN calls[d].commands :
                 k = calls[d].commands[j] =>
                    outcome[d] # "returned" /\ ~(j < Len(calls[d].commands))
<1>1. \A i \in DOMAIN done :
         asked[done[i].call].thread = asked[k].thread => done[i].call < k
  BY CarryOutEffect
<1>2. k \in Nat /\ DOMAIN answer = DOMAIN asked
  BY Shapes DEF TargetInv
<1>3. \A i \in DOMAIN done : done[i].call # k
  BY <1>1, <1>2
<1>4. answer[k].kind # "ack"
  BY <1>2, <1>3 DEF TargetInv, DoneInOrder
<1>5. ASSUME NEW d \in DOMAIN calls, NEW j \in DOMAIN calls[d].commands,
             k = calls[d].commands[j]
      PROVE  outcome[d] # "returned" /\ ~(j < Len(calls[d].commands))
  BY <1>4, <1>5, CommandAt, KindAt
<1> QED
  BY <1>1, <1>3, <1>4, <1>5

\* A command belongs to one call.
LEMMA OneOwner ==
    ASSUME TargetInv, NEW c \in DOMAIN calls, NEW d \in DOMAIN calls,
           NEW i \in DOMAIN calls[c].commands, NEW j \in DOMAIN calls[d].commands,
           calls[c].commands[i] = calls[d].commands[j]
    PROVE  c = d
<1> DEFINE k == calls[c].commands[i]
<1>1. c \in Nat /\ d \in Nat /\ k \in DOMAIN asked /\ k \in Nat
  BY Shapes, CommandAt DEF TargetInv
<1>2. asked[k].thread = calls[c].thread /\ asked[k].thread = calls[d].thread
  BY CommandAt
<1>3. ASSUME NEW x \in DOMAIN calls, NEW y \in DOMAIN calls,
             x < y, calls[x].thread = calls[y].thread,
             NEW l \in DOMAIN calls[x].commands, NEW n \in DOMAIN calls[y].commands
      PROVE  calls[x].commands[l] < calls[y].commands[n]
  BY <1>3 DEF TargetInv, OneAfterTheOther
<1>4. ~(k < k)
  BY <1>1
<1>5. ~(c < d)
  BY <1>2, <1>3, <1>4
<1>6. ~(d < c)
  BY <1>2, <1>3, <1>4
<1> QED
  BY <1>1, <1>5, <1>6

\* What is carried out for a call comes after what has been done for another
\* only if it may.
LEMMA MustFollow ==
    ASSUME TargetInv, AfterReturned, NEW k \in DOMAIN asked, CarryOut(k),
           NEW d \in DOMAIN calls, NEW j \in DOMAIN calls[d].commands,
           k = calls[d].commands[j],
           NEW c \in DOMAIN calls, c # d, NEW l \in DOMAIN calls[c].commands,
           NEW i \in DOMAIN done, done[i].call = calls[c].commands[l]
    PROVE  MayFollow(d, c)
<1>1. c \in Nat /\ d \in Nat /\ k \in Nat /\ done[i].call \in Nat
  <2>1. DOMAIN calls \subseteq Nat /\ DOMAIN asked \subseteq Nat
    <3>1. DOMAIN calls = 1 .. Len(calls) /\ DOMAIN asked = 1 .. Len(asked)
      BY Shapes DEF TargetInv
    <3> QED
      BY <3>1
  <2>2. done[i].call \in DOMAIN asked
    BY Shapes DEF TargetInv
  <2> QED
    BY <2>1, <2>2
<1>2. SUFFICES ASSUME d < c
               PROVE  calls[d].thread # calls[c].thread /\ d \notin calls[c].after
  BY <1>1 DEF MayFollow
<1>3. d \notin calls[c].after
  BY CarriedOnce DEF AfterReturned
<1>4. ASSUME calls[d].thread = calls[c].thread
      PROVE  FALSE
  <2>1. calls[d].commands[j] < calls[c].commands[l]
    BY <1>2, <1>4 DEF TargetInv, OneAfterTheOther
  <2>2. /\ asked[k].thread = calls[d].thread
        /\ asked[done[i].call].thread = calls[c].thread
    BY CommandAt
  <2>3. done[i].call < k
    BY <1>4, <2>2, CarriedOnce
  <2> QED
    BY <1>1, <2>1, <2>3
<1> QED
  BY <1>3, <1>4

LEMMA StridedOne ==
    ASSUME NEW a \in Nat, NEW s \in Nat
    PROVE  Strided(a, 1, s) = <<a>>
<1>1. \A i \in 1 .. 1 : a + (i - 1) * s = a
  <2> SUFFICES ASSUME NEW i \in 1 .. 1 PROVE a + (i - 1) * s = a
    OBVIOUS
  <2>1. i - 1 = 0 /\ 0 * s = 0
    OBVIOUS
  <2> QED
    BY <2>1
<1>2. [i \in 1 .. 1 |-> a + (i - 1) * s] = [i \in 1 .. 1 |-> a]
  BY <1>1
<1>3. [i \in 1 .. 1 |-> a] = <<a>>
  OBVIOUS
<1> QED
  BY <1>2, <1>3 DEF Strided

\* The commands of an update.
LEMMA UpdateCommands ==
    ASSUME NEW d \in DOMAIN calls, calls[d].method \in Methods,
           calls[d].method.name = "readModifyWrite"
    PROVE  LET m == calls[d].method
               a == Head(m.addrs)
           IN  /\ a \in Addrs /\ m.addrs = <<a>>
               /\ Direct(m) =>
                     /\ CommandCount(m) = 1
                     /\ Command(d, 1).type = "ReadModifyWrite"
                     /\ Command(d, 1).addrs = <<a>>
                     /\ Command(d, 1).data = m.data
               /\ ~Direct(m) =>
                     /\ CommandCount(m) = 2
                     /\ Command(d, 1) = [type |-> "ReadSingle", addrs |-> <<a>>,
                                         data |-> <<>>]
                     /\ Command(d, 2)
                          = [type |-> "WriteSingle", addrs |-> <<a>>,
                             data |-> <<Updated(m,
                                Head(answer[calls[d].commands[1]].data))>>]
<1> DEFINE m == calls[d].method
           a == Head(m.addrs)
<1>1. m.addrs \in Seq(Addrs) /\ Len(m.addrs) = 1 /\ m.count = 1 /\ m.increment \in Nat
  <2>1. m.name \notin {"compRead", "compWrite"}
    OBVIOUS
  <2> QED
    BY <2>1, MethodsAssumption, MethodTyped
<1>2. a \in Addrs /\ m.addrs = <<a>>
  BY <1>1
<1>3. ASSUME Direct(m)
      PROVE  /\ CommandCount(m) = 1
             /\ Command(d, 1).type = "ReadModifyWrite"
             /\ Command(d, 1).addrs = <<a>>
             /\ Command(d, 1).data = m.data
  <2>1. Command(d, 1) = DirectCommand(m)
    BY <1>3, Zenon DEF Command
  <2>2. DirectCommand(m).type = "ReadModifyWrite" /\ DirectCommand(m).data = m.data
    BY DEF DirectCommand, WireType
  <2>3. DirectCommand(m).addrs = Strided(a, 1, Narrow(m.increment))
    BY <1>1 DEF DirectCommand, ReadMethods
  <2>4. Narrow(m.increment) \in Nat /\ a \in Nat
    BY <1>1, <1>2, NarrowFits, AddrsAssumption
  <2>5. Strided(a, 1, Narrow(m.increment)) = <<a>>
    BY <2>4, StridedOne
  <2> QED
    BY <1>1, <1>3, <2>1, <2>2, <2>3, <2>5, CountTyped
<1>4. ASSUME ~Direct(m)
      PROVE  /\ CommandCount(m) = 2
             /\ Command(d, 1) = [type |-> "ReadSingle", addrs |-> <<a>>,
                                 data |-> <<>>]
             /\ Command(d, 2)
                  = [type |-> "WriteSingle", addrs |-> <<a>>,
                     data |-> <<Updated(m,
                        Head(answer[calls[d].commands[1]].data))>>]
  BY <1>2, <1>4, CountTyped DEF Command
<1> QED
  BY <1>2, <1>3, <1>4

\* A write to one register.
LEMMA OneElement ==
    ASSUME NEW regs \in [Addrs -> Data], NEW op, op.type \notin Reads,
           NEW a \in Addrs, op.addrs = <<a>>, NEW e \in 0 .. 1
    PROVE  /\ e = 0 => AfterElements(regs, op, e)[a] = regs[a]
           /\ e = 1 => AfterElements(regs, op, e)[a] = NewValue(op, 1, regs[a])
<1> DEFINE hits == {i \in 1 .. e : op.addrs[i] = a}
           last == CHOOSE i \in hits : \A j \in hits : j <= i
<1>1. AfterElements(regs, op, e)[a]
        = IF hits = {} THEN regs[a] ELSE NewValue(op, last, regs[a])
  BY Zenon DEF AfterElements
<1>2. e = 0 => hits = {}
  OBVIOUS
<1>3. e = 1 => hits = {1}
  BY SMT
<1>4. hits = {1} => last = 1
  BY SMT
<1> QED
  BY <1>1, <1>2, <1>3, <1>4

\* A write method writes only where its caller has it write.
LEMMA WriteElsewhere ==
    ASSUME TargetInv, NEW d \in DOMAIN calls, NEW j \in DOMAIN calls[d].commands,
           calls[d].method.name \in WriteMethods, Lossless(calls[d].method),
           NEW a, a \notin S!ToSet(Named(calls[d].method))
    PROVE  \A i \in 1 .. Elements(Command(d, j)) : Command(d, j).addrs[i] # a
<1> DEFINE m == calls[d].method
<1>1. /\ m \in Methods /\ j \in Nat /\ j >= 1 /\ j <= CommandCount(m)
      /\ m.name # "readModifyWrite"
  <2>1. /\ m \in Methods /\ Len(calls[d].commands) <= CommandCount(m)
        /\ Len(calls[d].commands) \in Nat
        /\ DOMAIN calls[d].commands = 1 .. Len(calls[d].commands)
    BY Shapes DEF TargetInv, InSequence
  <2>2. CommandCount(m) \in Nat
    BY <2>1, CountTyped
  <2>3. m.name # "readModifyWrite"
    BY DEF WriteMethods
  <2> QED
    BY <2>1, <2>2, <2>3
<1>2. Named(m) \in Seq(Addrs) /\ Len(Named(m)) = m.count /\ m.count \in Nat
  BY <1>1, NamedTyped, MethodTyped
<1>3. \A i \in 1 .. m.count : Named(m)[i] # a
  BY <1>2 DEF S!ToSet
<1>4. CASE Direct(m)
  <2>1. Command(d, j).addrs = Named(m)
    BY <1>1, <1>4, DirectNamed DEF Command
  <2> QED
    BY <1>2, <1>3, <2>1 DEF Elements
<1>5. CASE ~Direct(m)
  <2>1. Command(d, j).addrs = <<Named(m)[j]>>
    BY <1>1, <1>5 DEF Command, Element
  <2>2. j \in 1 .. m.count
    <3>1. CommandCount(m) = m.count
      BY <1>1, <1>5, CountTyped
    <3> QED
      BY <1>1, <1>2, <3>1
  <2>3. Elements(Command(d, j)) = 1 /\ Command(d, j).addrs[1] = Named(m)[j]
    BY <2>1 DEF Elements
  <2> QED
    BY <1>3, <2>2, <2>3
<1> QED
  BY <1>4, <1>5

\* The write of an update of its two commands gives the bits under mask the values
\* its read found.
WritesWhatItRead(d, a, mask) ==
    /\ calls[d].method.name = "readModifyWrite"
    /\ calls[d].method.addrs = <<a>> /\ ~Direct(calls[d].method)
    /\ 1 \in DOMAIN calls[d].commands
    /\ answer[calls[d].commands[1]].kind = "ack"
    /\ store'[a] \cap mask = Head(answer[calls[d].commands[1]].data) \cap mask

\* What a command of another call does to the bits that call c has set.
LEMMA OthersEffect ==
    ASSUME TargetInv, NEW d \in DOMAIN calls, NEW j \in DOMAIN calls[d].commands,
           NEW k, k = calls[d].commands[j],
           NEW e \in 0 .. Elements(asked[k].op),
           store' = AfterElements(store, asked[k].op, e),
           NEW a \in Addrs, NEW mask,
           ~MayChange(d, a, mask)
    PROVE  \/ store'[a] \cap mask = store[a] \cap mask
           \/ WritesWhatItRead(d, a, mask)
<1> DEFINE m == calls[d].method
           op == asked[k].op
<1>1. /\ m \in Methods /\ k \in DOMAIN asked /\ op = Command(d, j)
      /\ WellFormed(op) /\ store \in [Addrs -> Data]
  <2>1. m \in Methods /\ k \in DOMAIN asked /\ op = Command(d, j)
    BY CommandAt
  <2>2. WellFormed(op)
    BY <2>1, Shapes DEF TargetInv
  <2>3. store \in [Addrs -> Data]
    BY DEF TargetInv, TargetTypeOK
  <2> QED
    BY <2>1, <2>2, <2>3
<1>2. /\ Len(calls[d].commands) \in Nat /\ Len(calls[d].commands) <= CommandCount(m)
      /\ j \in 1 .. Len(calls[d].commands)
      /\ DOMAIN calls[d].commands = 1 .. Len(calls[d].commands)
  BY Shapes DEF TargetInv, InSequence
<1>3. ASSUME \A i \in 1 .. Elements(op) : op.addrs[i] # a
      PROVE  store'[a] = store[a]
  BY <1>1, <1>3, AfterElementsFrame
<1>4. CASE op.type \in Reads
  BY <1>4 DEF AfterElements
<1>5. CASE m.name \in WriteMethods
  <2>1. Lossless(m) /\ a \notin S!ToSet(Named(m))
    BY <1>5 DEF MayChange
  <2> QED
    BY <1>1, <1>3, <1>5, <2>1, WriteElsewhere
<1>6. CASE m.name \in ReadMethods
  <2>1. op.type \in Reads
    <3>1. CASE Direct(m)
      <4>1. op = DirectCommand(m)
        BY <1>1, <3>1 DEF Command
      <4>2. op.type = WireType(m.name)
        BY <4>1 DEF DirectCommand
      <4> HIDE DEF op, m
      <4> QED
        BY <1>6, <4>2 DEF WireType, ReadMethods, Reads
    <3>2. CASE ~Direct(m)
      <4>1. op = Element(m, j)
        BY <1>1, <1>6, <3>2 DEF Command, ReadMethods
      <4> QED
        BY <1>6, <4>1 DEF Element, Reads
    <3> QED
      BY <3>1, <3>2
  <2> QED
    BY <1>4, <2>1
<1>7. CASE m.name = "readModifyWrite" /\ op.type \notin Reads
  <2> DEFINE b == Head(m.addrs)
  <2>1. /\ b \in Addrs /\ m.addrs = <<b>>
        /\ Direct(m) => /\ CommandCount(m) = 1
                        /\ Command(d, 1).type = "ReadModifyWrite"
                        /\ Command(d, 1).addrs = <<b>>
                        /\ Command(d, 1).data = m.data
        /\ ~Direct(m) =>
              /\ CommandCount(m) = 2
              /\ Command(d, 1) = [type |-> "ReadSingle", addrs |-> <<b>>,
                                  data |-> <<>>]
              /\ Command(d, 2)
                   = [type |-> "WriteSingle", addrs |-> <<b>>,
                      data |-> <<Updated(m,
                         Head(answer[calls[d].commands[1]].data))>>]
    BY <1>1, <1>7, UpdateCommands
  <2>2. op.addrs = <<b>>
    <3>1. CASE Direct(m)
      <4>1. j = 1
        <5>1. Len(calls[d].commands) <= 1
          BY <1>2, <2>1, <3>1
        <5> QED
          BY <1>2, <5>1
      <4> QED
        BY <1>1, <2>1, <3>1, <4>1
    <3>2. CASE ~Direct(m)
      <4>1. j \in {1, 2}
        <5>1. Len(calls[d].commands) <= 2
          BY <1>2, <2>1, <3>2
        <5> QED
          BY <1>2, <5>1
      <4> QED
        BY <1>1, <2>1, <3>2, <4>1
    <3> QED
      BY <3>1, <3>2
  <2>3. Elements(op) = 1
    BY <2>2 DEF Elements
  <2>4. CASE a # b
    <3>1. \A i \in 1 .. Elements(op) : op.addrs[i] # a
      BY <2>2, <2>3, <2>4
    <3> QED
      BY <1>3, <3>1
  <2>5. CASE a = b
    <3>1. m.data[2] \cap mask = {}
      BY <1>7, <2>1, <2>5 DEF MayChange
    <3>2. \/ store'[a] = store[a]
          \/ store'[a] = NewValue(op, 1, store[a])
      <4>1. e = 0 \/ e = 1
        BY <2>3
      <4>2. e \in 0 .. 1
        BY <2>3
      <4>3. op.addrs = <<a>> /\ op.type \notin Reads
        BY <1>7, <2>2, <2>5
      <4> HIDE DEF op, b
      <4>4. /\ e = 0 => AfterElements(store, op, e)[a] = store[a]
            /\ e = 1 => AfterElements(store, op, e)[a] = NewValue(op, 1, store[a])
        BY <1>1, <4>2, <4>3, OneElement
      <4> QED
        BY <4>1, <4>4 DEF op
    <3>3. CASE Direct(m)
      <4>1. j = 1
        <5>1. Len(calls[d].commands) <= 1
          BY <1>2, <2>1, <3>3
        <5> QED
          BY <1>2, <5>1
      <4>2. op.type = "ReadModifyWrite" /\ op.data = m.data
        BY <1>1, <2>1, <3>3, <4>1
      <4>3. NewValue(op, 1, store[a])
              = (store[a] \ m.data[2]) \cup (m.data[1] \cap m.data[2])
        BY <4>2 DEF NewValue
      <4>4. NewValue(op, 1, store[a]) \cap mask = store[a] \cap mask
        BY <3>1, <4>3
      <4> QED
        BY <3>2, <4>4
    <3>4. CASE ~Direct(m)
      <4> DEFINE v == Head(answer[calls[d].commands[1]].data)
      <4>1. j \in {1, 2}
        <5>1. Len(calls[d].commands) <= 2
          BY <1>2, <2>1, <3>4
        <5> QED
          BY <1>2, <5>1
      <4>2. j = 2
        <5>1. j # 1
          BY <1>1, <1>7, <2>1, <3>4 DEF Reads
        <5> QED
          BY <4>1, <5>1
      <4>3. op.type = "WriteSingle" /\ op.data = <<Updated(m, v)>>
        BY <1>1, <2>1, <3>4, <4>2
      <4>4. NewValue(op, 1, store[a])
              = (v \ m.data[2]) \cup (m.data[1] \cap m.data[2])
        BY <4>3 DEF NewValue, Updated
      <4>5. NewValue(op, 1, store[a]) \cap mask = v \cap mask
        BY <3>1, <4>4
      <4>6. 1 \in DOMAIN calls[d].commands /\ 1 < Len(calls[d].commands)
        BY <1>2, <4>2
      <4>7. answer[calls[d].commands[1]].kind = "ack"
        BY <4>6, CommandAt
      <4>8. CASE store'[a] = NewValue(op, 1, store[a])
        <5>1. store'[a] \cap mask
                = Head(answer[calls[d].commands[1]].data) \cap mask
          BY <4>5, <4>8
        <5>2. /\ calls[d].method.name = "readModifyWrite"
              /\ calls[d].method.addrs = <<a>> /\ ~Direct(calls[d].method)
          BY <1>7, <2>1, <2>5, <3>4
        <5> QED
          BY ONLY <4>6, <4>7, <5>1, <5>2, Zenon DEF WritesWhatItRead
      <4> QED
        BY <3>2, <4>8
    <3> QED
      BY <3>3, <3>4
  <2> QED
    BY <2>4, <2>5
<1> QED
  BY <1>1, <1>4, <1>5, <1>6, <1>7, MethodTyped DEF MethodNames

\* The last command of an update sets its bits.
LEMMA OwnEffect ==
    ASSUME TargetInv, NEW c \in DOMAIN calls, NEW j \in DOMAIN calls[c].commands,
           calls[c].method.name = "readModifyWrite",
           j = CommandCount(calls[c].method),
           NEW k, k = calls[c].commands[j],
           store' = AfterElements(store, asked[k].op, Elements(asked[k].op)),
           UNCHANGED calls
    PROVE  Holds(c, store[Head(calls[c].method.addrs)])'
<1> DEFINE m == calls[c].method
           a == Head(m.addrs)
           op == asked[k].op
           v == Head(answer[calls[c].commands[1]].data)
<1>1. /\ m \in Methods /\ k \in DOMAIN asked
      /\ op = Command(c, j) /\ j = CommandCount(m)
      /\ store \in [Addrs -> Data]
  <2>1. m \in Methods /\ k \in DOMAIN asked /\ op = Command(c, j)
    BY CommandAt
  <2>2. store \in [Addrs -> Data]
    BY DEF TargetInv, TargetTypeOK
  <2> QED
    BY <2>1, <2>2
<1>2. /\ a \in Addrs /\ m.addrs = <<a>>
      /\ Direct(m) => /\ CommandCount(m) = 1
                      /\ Command(c, 1).type = "ReadModifyWrite"
                      /\ Command(c, 1).addrs = <<a>>
                      /\ Command(c, 1).data = m.data
      /\ ~Direct(m) =>
            /\ CommandCount(m) = 2
            /\ Command(c, 2) = [type |-> "WriteSingle", addrs |-> <<a>>,
                                data |-> <<Updated(m, v)>>]
  BY <1>1, UpdateCommands
<1>0. store' = AfterElements(store, op, Elements(op))
  OBVIOUS
<1>7. m.data[2] = calls'[c].method.data[2] /\ m.data[1] = calls'[c].method.data[1]
      /\ a = Head(calls[c].method.addrs)' /\ a = Head(calls[c].method.addrs)
  OBVIOUS
<1> HIDE DEF m, a, op, v
<1>3. op.addrs = <<a>> /\ op.type \notin Reads
  <2>1. CASE Direct(m)
    BY <1>1, <1>2, <2>1 DEF Reads
  <2>2. CASE ~Direct(m)
    BY <1>1, <1>2, <2>2 DEF Reads
  <2> QED
    BY <2>1, <2>2
<1>4. \E x : NewValue(op, 1, store[a])
               = (x \ m.data[2]) \cup (m.data[1] \cap m.data[2])
  <2>1. CASE Direct(m)
    <3>1. op.type = "ReadModifyWrite" /\ op.data = m.data
      BY <1>1, <1>2, <2>1
    <3> QED
      BY <3>1 DEF NewValue
  <2>2. CASE ~Direct(m)
    <3>1. op.type = "WriteSingle" /\ op.data = <<Updated(m, v)>>
      BY <1>1, <1>2, <2>2
    <3>2. NewValue(op, 1, store[a]) = Updated(m, v)
      BY <3>1 DEF NewValue
    <3> QED
      BY <3>2 DEF Updated
  <2> QED
    BY <2>1, <2>2
<1>5. store'[a] = NewValue(op, 1, store[a])
  <2>1. Elements(op) = 1
    BY <1>3 DEF Elements
  <2>2. 1 \in 0 .. 1
    OBVIOUS
  <2>3. AfterElements(store, op, 1)[a] = NewValue(op, 1, store[a])
    BY <1>1, <1>2, <1>3, <2>2, OneElement
  <2> QED
    BY ONLY <1>0, <2>1, <2>3
<1>6. store'[a] \cap m.data[2] = m.data[1] \cap m.data[2]
  BY ONLY <1>4, <1>5
<1> QED
  BY ONLY <1>6, <1>7, Zenon DEF Holds

LEMMA CarryOutSettled ==
    ASSUME UpdatesInv, NEW k \in DOMAIN asked, CarryOut(k),
           NEW c \in DOMAIN calls
    PROVE  SettledHolds(c)'
<1> DEFINE m == calls[c].method
           a == Head(m.addrs)
           n == NewDone
<1>1. TargetInv /\ Owned /\ AfterReturned /\ SettledHolds(c)
  BY UpdatesInvIs
<1>2. PICK ok \in BOOLEAN, e \in 0 .. Elements(asked[k].op) :
        /\ ok => e = Elements(asked[k].op)
        /\ store' = AfterElements(store, asked[k].op, e)
        /\ done' = Append(done, [call |-> k, ok |-> ok, data |-> Given(ok, k)])
        /\ UNCHANGED <<features, calls, outcome, asked, answer>>
  BY CarryOutIs
<1>3. /\ DOMAIN done' = DOMAIN done \cup {n}
      /\ \A i \in DOMAIN done : i # n /\ done'[i] = done[i]
      /\ done'[n] = [call |-> k, ok |-> ok, data |-> Given(ok, k)]
  <2>1. done \in Seq([call : DOMAIN asked, ok : BOOLEAN, data : Seq(Data)])
    BY <1>1 DEF TargetInv, TargetTypeOK
  <2>2. Len(done) \in Nat /\ DOMAIN done = 1 .. Len(done)
    BY <1>1, Shapes DEF TargetInv
  <2> QED
    BY <1>2, <2>1, <2>2 DEF NewDone
<1> HIDE DEF n
<1>0. PICK d \in DOMAIN calls : k \in S!ToSet(calls[d].commands)
  BY <1>1 DEF Owned
<1>4. PICK j \in DOMAIN calls[d].commands : k = calls[d].commands[j]
  BY <1>0 DEF S!ToSet
<1>5. outcome[d] # "returned" /\ \A i \in DOMAIN done : done[i].call # k
  BY <1>1, <1>4, CarriedOnce
<1>6. /\ Excused(c) => Excused(c)'
      /\ \A x \in DOMAIN calls : /\ Direct(calls[x].method)' = Direct(calls[x].method)
                                 /\ Relies(x, c)' = Relies(x, c)
      /\ CommandCount(m)' = CommandCount(m)
      /\ \A v : Holds(c, v)' = Holds(c, v)
  <2>1. \A x \in DOMAIN calls : Same(x)
    BY <1>2 DEF Same
  <2>2. \A x \in DOMAIN calls : Direct(calls[x].method)' = Direct(calls[x].method)
    BY <1>2 DEF Direct, checkIFS
  <2>3. Excused(c) => Excused(c)'
    BY <1>2, <2>1, ExcusedStays
  <2>4. CommandCount(m)' = CommandCount(m)
    BY <1>2, <2>2 DEF CommandCount
  <2> QED
    BY <1>2, <2>2, <2>3, <2>4 DEF Relies, Precedes, Holds
<1> SUFFICES ASSUME m.name = "readModifyWrite", Settled(c)'
             PROVE  StoreHolds(c)' /\ ReadHolds(c)'
  BY <1>2, Zenon DEF SettledHolds
<1>7. PICK i \in DOMAIN done', l \in DOMAIN calls[c].commands :
        /\ l = CommandCount(m)
        /\ done'[i].call = calls[c].commands[l] /\ done'[i].ok
  BY <1>2, <1>6, Zenon DEF Settled
<1>8. CASE c = d
  <2>1. i = n
    <3> SUFFICES ASSUME i \in DOMAIN done PROVE FALSE
      BY <1>3
    <3>1. done[i].call = calls[c].commands[l]
      BY <1>3, <1>7
    <3>2. l # j
      BY <1>4, <1>5, <1>8, <3>1
    <3>3. /\ j \in 1 .. Len(calls[c].commands) /\ l \in 1 .. Len(calls[c].commands)
          /\ Len(calls[c].commands) \in Nat
          /\ Len(calls[c].commands) <= CommandCount(m)
      BY <1>1, <1>4, <1>7, <1>8, Shapes DEF TargetInv, InSequence
    <3>4. l = Len(calls[c].commands)
      BY <1>7, <3>3
    <3>5. ~(j < Len(calls[c].commands))
      BY <1>1, <1>4, <1>8, CarriedOnce
    <3> QED
      BY <3>2, <3>3, <3>4, <3>5
  <2>2. k = calls[c].commands[l] /\ ok
    BY <1>3, <1>7, <2>1
  <2>3. store' = AfterElements(store, asked[k].op, Elements(asked[k].op))
    BY <1>2, <2>2
  <2>4. StoreHolds(c)'
    <3>1. Holds(c, store[Head(calls[c].method.addrs)])'
      BY <1>1, <1>2, <1>7, <2>2, <2>3, OwnEffect, Zenon
    <3> QED
      BY <3>1, Zenon DEF StoreHolds
  <2>5. ReadHolds(c)'
    <3> SUFFICES ASSUME NEW x \in DOMAIN calls, NEW y \in DOMAIN done',
                        Relies(x, c), done'[y].call = calls[x].commands[1]
                 PROVE  FALSE
      BY <1>2, <1>6, Zenon DEF ReadHolds
    <3>1. 1 \in DOMAIN calls[x].commands
      BY <1>1, Shapes DEF Relies, TargetInv
    <3>2. c \notin calls[x].after
      BY <1>1, <1>5, <1>8 DEF AfterReturned
    <3>3. calls[c].thread = calls[x].thread /\ c < x
      BY <3>2 DEF Relies, Precedes
    <3>4. c \in Nat /\ x \in Nat /\ c # x
      <4>1. DOMAIN calls \subseteq Nat
        BY <1>1, Shapes DEF TargetInv
      <4> QED
        BY <3>3, <4>1
    <3>5. y \in DOMAIN done
      <4> SUFFICES ASSUME y = n PROVE FALSE
        BY <1>3
      <4>1. k = calls[x].commands[1]
        BY <1>3
      <4>2. x = c
        BY <1>1, <2>2, <3>1, <4>1, OneOwner
      <4> QED
        BY <3>4, <4>2
    <3>6. done[y].call = calls[x].commands[1]
      BY <1>3, <3>5
    <3>7. MayFollow(c, x)
      BY <1>1, <1>4, <1>8, <3>1, <3>4, <3>5, <3>6, MustFollow
    <3> QED
      BY <3>3, <3>4, <3>7 DEF MayFollow
  <2> QED
    BY <2>4, <2>5
<1>9. CASE c # d
  <2>1. i \in DOMAIN done
    <3> SUFFICES ASSUME i = n PROVE FALSE
      BY <1>3
    <3>1. k = calls[c].commands[l]
      BY <1>3, <1>7
    <3> QED
      BY <1>1, <1>4, <1>7, <1>9, <3>1, OneOwner
  <2>2. done[i].call = calls[c].commands[l] /\ done[i].ok
    BY <1>3, <1>7, <2>1
  <2>3. Settled(c)
    BY <1>7, <2>1, <2>2, Zenon DEF Settled
  <2>4. StoreHolds(c) /\ ReadHolds(c)
    BY <1>1, <2>3, Zenon DEF SettledHolds
  <2>5. MayFollow(d, c)
    BY <1>1, <1>4, <1>7, <1>9, <2>1, <2>2, MustFollow
  <2>6. a \in Addrs /\ m.addrs = <<a>> /\ m \in Methods
    <3>1. m \in Methods
      BY <1>1 DEF TargetInv, InSequence
    <3> QED
      BY <3>1, UpdateCommands
  <2>7. StoreHolds(c)'
    <3> SUFFICES ASSUME ~Excused(c)
                 PROVE  Holds(c, store[a])'
      BY <1>2, <1>6, Zenon DEF StoreHolds
    <3>1. ~MayChange(d, a, m.data[2])
      BY <1>9, <2>5, Zenon DEF Excused
    <3>2. CASE store'[a] \cap m.data[2] = store[a] \cap m.data[2]
      BY <1>2, <2>4, <3>2 DEF StoreHolds, Holds
    <3>3. CASE WritesWhatItRead(d, a, m.data[2])
      <4>0. /\ calls[d].method.name = "readModifyWrite"
            /\ calls[d].method.addrs = <<a>> /\ ~Direct(calls[d].method)
            /\ 1 \in DOMAIN calls[d].commands
            /\ answer[calls[d].commands[1]].kind = "ack"
            /\ store'[a] \cap m.data[2]
                 = Head(answer[calls[d].commands[1]].data) \cap m.data[2]
        BY <3>3 DEF WritesWhatItRead
      <4>1. "ReadModifyWrite" \notin features
        BY <4>0 DEF Direct
      <4>2. ~Concurrent(c, d)
        BY <4>0, <4>1, Zenon DEF Excused
      <4>3. d \notin calls[c].after
        BY <1>1, <1>5 DEF AfterReturned
      <4>4. Precedes(c, d)
        <5>1. calls[c].thread = calls[d].thread \/ c \in calls[d].after
          BY <4>2, <4>3 DEF Concurrent
        <5>2. calls[c].thread = calls[d].thread => c < d
          BY <2>5 DEF MayFollow
        <5> QED
          BY <5>1, <5>2 DEF Precedes
      <4>5. Relies(d, c)
        BY <2>6, <4>0, <4>4 DEF Relies
      <4>6. calls[d].commands[1] \in DOMAIN answer
        BY <1>1, <4>0, CommandAt
      <4>7. PICK x \in DOMAIN done :
              /\ done[x].call = calls[d].commands[1] /\ done[x].ok
              /\ done[x].data = answer[calls[d].commands[1]].data
        BY <1>1, <4>0, <4>6 DEF TargetInv, DoneInOrder
      <4>8. Holds(c, Head(done[x].data))
        BY <2>4, <4>5, <4>7, Zenon DEF ReadHolds
      <4> QED
        BY <1>2, <4>0, <4>7, <4>8 DEF Holds
    <3>4. \/ store'[a] \cap m.data[2] = store[a] \cap m.data[2]
          \/ WritesWhatItRead(d, a, m.data[2])
      <4> DEFINE mask == m.data[2]
      <4>1. ~MayChange(d, a, mask)
        BY <3>1
      <4> HIDE DEF mask
      <4>2. \/ store'[a] \cap mask = store[a] \cap mask
            \/ WritesWhatItRead(d, a, mask)
        BY <1>1, <1>2, <1>4, <2>6, <4>1, OthersEffect
      <4> QED
        BY <4>2 DEF mask
    <3> QED
      BY <3>2, <3>3, <3>4
  <2>8. ReadHolds(c)'
    <3> SUFFICES ASSUME NEW x \in DOMAIN calls, NEW y \in DOMAIN done',
                        Relies(x, c), done'[y].call = calls[x].commands[1],
                        done'[y].ok, ~Excused(c)
                 PROVE  Holds(c, Head(done'[y].data))
      BY <1>2, <1>6, Zenon DEF ReadHolds
    <3>1. CASE y \in DOMAIN done
      <4>1. done'[y] = done[y]
        BY <1>3, <3>1
      <4> QED
        BY <2>4, <3>1, <4>1, Zenon DEF ReadHolds
    <3>2. CASE y = n
      <4>1. 1 \in DOMAIN calls[x].commands
        BY <1>1, Shapes DEF Relies, TargetInv
      <4>2. k = calls[x].commands[1] /\ ok /\ done'[y].data = Given(ok, k)
        BY <1>3, <3>2
      <4>3. asked[k].op = Command(x, 1) /\ calls[x].method \in Methods
        BY <1>1, <4>1, <4>2, CommandAt
      <4>4. asked[k].op.type = "ReadSingle" /\ asked[k].op.addrs = <<a>>
        <5>1. Head(calls[x].method.addrs) = a
          BY DEF Relies
        <5> QED
          BY <4>3, <5>1, UpdateCommands DEF Relies
      <4>5. done'[y].data = <<store[a]>>
        <5>1. done'[y].data = ReadBack(store, asked[k].op)
          BY <4>2 DEF Given
        <5>2. ReadBack(store, asked[k].op) = [z \in 1 .. 1 |-> store[<<a>>[z]]]
          BY <4>4 DEF ReadBack, Reads, Elements
        <5>3. [z \in 1 .. 1 |-> store[<<a>>[z]]] = <<store[a]>>
          OBVIOUS
        <5> QED
          BY <5>1, <5>2, <5>3
      <4>6. Head(done'[y].data) = store[a]
        BY <4>5
      <4> QED
        BY <2>4, <4>6 DEF StoreHolds
    <3> QED
      BY <1>3, <3>1, <3>2
  <2> QED
    BY <2>7, <2>8
<1> QED
  BY <1>8, <1>9

LEMMA CarryOutUpdates ==
    ASSUME UpdatesInv, NEW k \in DOMAIN asked, CarryOut(k)
    PROVE  UpdatesPart'
<1>1. TargetInv /\ Owned /\ AfterReturned
  BY UpdatesInvIs
<1>2. UNCHANGED <<calls, outcome, asked>>
  BY <1>1, CarryOutEffect
<1>3. Owned' /\ AfterReturned'
  BY <1>1, <1>2 DEF Owned, AfterReturned, S!ToSet
<1>4. \A c \in DOMAIN calls : SettledHolds(c)'
  BY CarryOutSettled
<1> QED
  BY <1>2, <1>3, <1>4 DEF UpdatesPart

LEMMA StepUpdatesInv == UpdatesInv /\ [TargetNext]_targetVars => UpdatesInv'
<1> SUFFICES ASSUME UpdatesInv, [TargetNext]_targetVars
             PROVE  UpdatesInv'
  OBVIOUS
<1>1. TargetInv
  BY UpdatesInvIs
<1>2. TargetInv'
  BY <1>1, StepTargetInv
<1>3. ASSUME NEW t \in Threads, NEW c \in DOMAIN calls, Receive(t, c) \/ Lose(t, c)
      PROVE  UpdatesPart'
  <2>1. /\ UNCHANGED <<features, calls, asked, done, store>>
        /\ outcome[c] = "pending"
        /\ \A d \in DOMAIN outcome : d # c => outcome'[d] = outcome[d]
    BY <1>1, <1>3, AnswerEffect
  <2>2. DOMAIN outcome = DOMAIN calls
    BY <1>1, Shapes DEF TargetInv
  <2> QED
    BY <2>1, <2>2, UpdatesOutcome
<1>4. ASSUME NEW t \in Threads, NEW c \in DOMAIN calls, Refuse(t, c)
      PROVE  UpdatesPart'
  <2>1. /\ UNCHANGED <<features, calls, asked, done, store>>
        /\ outcome[c] = "pending"
        /\ outcome' = [outcome EXCEPT ![c] = "failed"]
    BY <1>4 DEF Refuse, Under, wireVars
  <2>2. DOMAIN outcome = DOMAIN calls
    BY <1>1, Shapes DEF TargetInv
  <2>3. \A d \in DOMAIN calls : outcome[d] = "returned" => outcome'[d] = "returned"
    BY <2>1, <2>2
  <2> QED
    BY <2>1, <2>3, UpdatesOutcome
<1>5. ASSUME UNCHANGED targetVars
      PROVE  UpdatesPart'
  <2>1. UNCHANGED <<features, calls, outcome, asked, done, store>>
    BY <1>5 DEF targetVars, wireVars
  <2> QED
    BY <2>1, UpdatesOutcome
<1>6. UpdatesPart'
  BY <1>3, <1>4, <1>5, BeginUpdates, IssueUpdates, CarryOutUpdates DEF TargetNext
<1>7. TargetInv' /\ UpdatesPart' => UpdatesInv'
  BY UpdatesInvIs, PTL DEF UpdatesPart
<1> QED
  BY <1>2, <1>6, <1>7

LEMMA InitUpdatesInv == TargetInit => UpdatesInv
<1> SUFFICES ASSUME TargetInit PROVE UpdatesInv
  OBVIOUS
<1>1. TargetInv
  BY InitTargetInv
<1>2. calls = <<>> /\ asked = <<>>
  BY DEF TargetInit, Wire!ServiceInit
<1> QED
  BY <1>1, <1>2 DEF UpdatesInv

\* The bits of a read-modify-write are kept from the moment its last command is
\* carried out, and a later read-modify-write in two commands has read them
\* (RegisterTarget.h:46-48).
THEOREM UpdatesInvariant == TargetSpec => []UpdatesInv
<1>1. TargetInit => UpdatesInv
  BY InitUpdatesInv
<1>2. UpdatesInv /\ [TargetNext]_targetVars => UpdatesInv'
  BY StepUpdatesInv
<1> QED
  BY <1>1, <1>2, PTL DEF TargetSpec

\* Whatever the threads do and whatever fails, a read-modify-write that has
\* returned has set its bits for good, unless a call that may follow it is asked
\* to change them or, without FeatureReadModifyWrite, another thread's update
\* overlaps it (RegisterTarget.h:46-48).
THEOREM KeepsUpdates == TargetSpec => []UpdatesKept
<1>1. ASSUME UpdatesInv, NEW c \in DOMAIN calls,
             calls[c].method.name = "readModifyWrite", outcome[c] = "returned"
      PROVE  StoreHolds(c)
  <2> DEFINE n == Len(calls[c].commands)
             k == calls[c].commands[n]
  <2>1. TargetInv /\ SettledHolds(c)
    BY <1>1, UpdatesInvIs
  <2>2. /\ n = CommandCount(calls[c].method) /\ calls[c].method \in Methods
        /\ n \in Nat /\ DOMAIN calls[c].commands = 1 .. n
    BY <1>1, <2>1, Shapes DEF TargetInv, EndsAsAnswered, InSequence
  <2>3. n \in {1, 2}
    BY <1>1, <2>2, CountTyped
  <2>4. n \in DOMAIN calls[c].commands
    BY <2>2, <2>3
  <2>5. answer[k].kind = "ack" /\ k \in DOMAIN answer
    BY <1>1, <2>1, <2>4, KindAt, CommandAt
  <2>6. PICK i \in DOMAIN done : done[i].call = k /\ done[i].ok
    BY <2>1, <2>5 DEF TargetInv, DoneInOrder
  <2>7. Settled(c)
    BY <2>2, <2>4, <2>6, Zenon DEF Settled
  <2> QED
    BY <1>1, <2>1, <2>7, Zenon DEF SettledHolds
<1>2. UpdatesInv => UpdatesKept
  BY <1>1, Zenon DEF UpdatesKept, StoreHolds
<1> QED
  BY <1>2, UpdatesInvariant, PTL

-----------------------------------------------------------------------------
(* What all calls so far come to.                                           *)

\* One more call on top of the registers.
OnTop(regs, n) ==
    AfterElements(regs, Whole(calls[n].method), Len(Named(calls[n].method)))

Unfolded ==
    /\ StoreAfter[0] = [a \in Addrs |-> {}]
    /\ \A n \in 1 .. MaxCalls : StoreAfter[n] = OnTop(StoreAfter[n - 1], n)

LEMMA StoreAfterIs == Unfolded
<1> DEFINE Up(f, n) ==
             f = [i \in 0 .. n |-> IF i = 0 THEN [a \in Addrs |-> {}]
                                   ELSE OnTop(f[i - 1], i)]
           T == {n \in Nat : \E f : Up(f, n)}
<1>1. 0 \in T
  <2> DEFINE f == [i \in 0 .. 0 |-> [a \in Addrs |-> {}]]
  <2>1. Up(f, 0)
    <3>1. \A i \in 0 .. 0 : i = 0
      OBVIOUS
    <3> QED
      BY <3>1
  <2> HIDE DEF f
  <2> QED
    BY <2>1
<1>2. ASSUME NEW n \in Nat, n \in T
      PROVE  n + 1 \in T
  <2>1. PICK f : Up(f, n)
    BY <1>2
  <2> DEFINE g == [i \in 0 .. n + 1 |-> IF i = n + 1 THEN OnTop(f[n], n + 1)
                                                     ELSE f[i]]
  <2>2. ASSUME NEW i \in 0 .. n + 1
        PROVE  g[i] = IF i = 0 THEN [a \in Addrs |-> {}] ELSE OnTop(g[i - 1], i)
    <3>1. CASE i = n + 1
      <4>1. i # 0 /\ i - 1 = n /\ n \in 0 .. n + 1 /\ n # n + 1
        BY <3>1
      <4>2. g[i - 1] = f[n]
        BY <4>1
      <4> QED
        BY <3>1, <4>1, <4>2
    <3>2. CASE i # n + 1
      <4>1. i \in 0 .. n
        BY <3>2
      <4>2. f[i] = IF i = 0 THEN [a \in Addrs |-> {}] ELSE OnTop(f[i - 1], i)
        BY <2>1, <4>1
      <4>3. i # 0 => i - 1 \in 0 .. n + 1 /\ i - 1 # n + 1
        BY <4>1
      <4>4. i # 0 => g[i - 1] = f[i - 1]
        BY <4>3
      <4> QED
        BY <3>2, <4>2, <4>4
    <3> QED
      BY <3>1, <3>2
  <2>3. g = [i \in 0 .. n + 1 |-> g[i]]
    OBVIOUS
  <2> HIDE DEF g
  <2>4. Up(g, n + 1)
    BY <2>2, <2>3
  <2> QED
    BY <2>4
<1> HIDE DEF T
<1>3. Nat \subseteq T
  BY <1>1, <1>2, NatSetInduction
<1>4. \E f : Up(f, MaxCalls)
  BY <1>3, MaxCallsAssumption DEF T
<1>5. Up(StoreAfter, MaxCalls)
  BY <1>4, Zenon DEF StoreAfter, OnTop
<1>6. 0 \in 0 .. MaxCalls
  BY MaxCallsAssumption
<1>7. \A n \in 1 .. MaxCalls : n \in 0 .. MaxCalls /\ n # 0
  BY MaxCallsAssumption
<1>8. \A n \in 0 .. MaxCalls :
         StoreAfter[n] = IF n = 0 THEN [a \in Addrs |-> {}]
                         ELSE OnTop(StoreAfter[n - 1], n)
  <2>1. ASSUME NEW s, s = StoreAfter
        PROVE  \A n \in 0 .. MaxCalls :
                  s[n] = IF n = 0 THEN [a \in Addrs |-> {}]
                         ELSE OnTop(s[n - 1], n)
    BY <1>5, <2>1
  <2> QED
    BY <2>1
<1> QED
  BY <1>6, <1>7, <1>8 DEF Unfolded

\* A method as one operation is well formed.
LEMMA WholeWellFormed ==
    ASSUME NEW m \in Methods
    PROVE  WellFormed(Whole(m)) /\ Elements(Whole(m)) = Len(Named(m))
<1>1. /\ Named(m) \in Seq(Addrs) /\ Len(Named(m)) = m.count
      /\ m.name \in MethodNames /\ m.data \in Seq(Data) /\ m.count \in Nat
  BY NamedTyped, MethodTyped
<1>2. /\ Whole(m).type = WireType(m.name) /\ Whole(m).addrs = Named(m)
      /\ Whole(m).data = m.data
  BY DEF Whole
<1>3. /\ m.name \in {"read", "write", "readModifyWrite"} => m.count = 1
      /\ m.name \in WriteMethods => Len(m.data) = m.count
      /\ m.name = "readModifyWrite" => Len(m.data) = 2
  BY MethodsAssumption
<1>4. WireType(m.name) \in Reads \cup Writes
  BY <1>1 DEF WireType, MethodNames, ReadMethods, WriteMethods, Reads, Writes
<1>5. Whole(m) \in Operations
  BY <1>1, <1>4 DEF Whole, Operations
<1>6. /\ WireType(m.name) \in {"ReadSingle", "WriteSingle", "ReadModifyWrite"} =>
            m.name \in {"read", "write", "readModifyWrite"}
      /\ WireType(m.name) \in {"WriteSingle", "WriteSeq", "WriteComp"} =>
            m.name \in WriteMethods
      /\ WireType(m.name) = "ReadModifyWrite" => m.name = "readModifyWrite"
  BY <1>1 DEF WireType, MethodNames, ReadMethods, WriteMethods
<1> QED
  BY <1>1, <1>2, <1>3, <1>5, <1>6 DEF WellFormed, Elements

LEMMA StoreAfterTyped ==
    ASSUME TargetInv, Len(calls) <= MaxCalls, NEW n \in 0 .. Len(calls)
    PROVE  StoreAfter[n] \in [Addrs -> Data]
<1>1. /\ Len(calls) \in Nat /\ DOMAIN calls = 1 .. Len(calls)
      /\ \A c \in DOMAIN calls : calls[c].method \in Methods
  BY Shapes DEF TargetInv, InSequence
<1>2. Len(calls) <= MaxCalls /\ MaxCalls \in Nat
  BY MaxCallsAssumption
<1> DEFINE T == {i \in Nat : i <= Len(calls) => StoreAfter[i] \in [Addrs -> Data]}
<1>3. 0 \in T
  BY StoreAfterIs DEF Unfolded, Data
<1>4. ASSUME NEW i \in Nat, i \in T
      PROVE  i + 1 \in T
  <2> SUFFICES ASSUME i + 1 <= Len(calls)
               PROVE  StoreAfter[i + 1] \in [Addrs -> Data]
    OBVIOUS
  <2>1. StoreAfter[i] \in [Addrs -> Data]
    BY <1>1, <1>4
  <2>2. i + 1 \in 1 .. MaxCalls /\ i + 1 - 1 = i /\ i + 1 \in DOMAIN calls
    BY <1>1, <1>2
  <2>3. StoreAfter[i + 1] = OnTop(StoreAfter[i], i + 1)
    BY <2>2, StoreAfterIs DEF Unfolded
  <2> DEFINE m == calls[i + 1].method
  <2>4. m \in Methods
    BY <1>1, <2>2
  <2>5. /\ WellFormed(Whole(m)) /\ Elements(Whole(m)) = Len(Named(m))
        /\ Elements(Whole(m)) \in 0 .. Elements(Whole(m))
    <3>1. Named(m) \in Seq(Addrs)
      BY <2>4, NamedTyped
    <3>2. Len(Named(m)) \in Nat
      BY <3>1
    <3> HIDE DEF m
    <3> QED
      BY <2>4, <3>2, WholeWellFormed
  <2> QED
    BY <2>1, <2>3, <2>5, AfterElementsType DEF OnTop
<1> HIDE DEF T
<1>5. Nat \subseteq T
  BY <1>3, <1>4, NatSetInduction
<1> QED
  BY <1>1, <1>5 DEF T

\* What the calls so far come to does not depend on calls to come.
LEMMA StoreAfterStays ==
    ASSUME TargetInv, Len(calls) <= MaxCalls,
           \A c \in DOMAIN calls : calls'[c].method = calls[c].method,
           NEW n \in 0 .. Len(calls)
    PROVE  StoreAfter'[n] = StoreAfter[n]
<1>1. /\ Len(calls) \in Nat /\ DOMAIN calls = 1 .. Len(calls) /\ MaxCalls \in Nat
  BY Shapes, MaxCallsAssumption DEF TargetInv
<1> DEFINE T == {i \in Nat : i <= Len(calls) => StoreAfter'[i] = StoreAfter[i]}
<1>2. /\ StoreAfter'[0] = [a \in Addrs |-> {}]
      /\ \A i \in 1 .. MaxCalls : StoreAfter'[i] = OnTop(StoreAfter[i - 1], i)'
  <2>1. Unfolded'
    BY StoreAfterIs, PTL
  <2> QED
    BY <2>1 DEF Unfolded
<1>3. 0 \in T
  BY <1>2, StoreAfterIs DEF Unfolded
<1>4. ASSUME NEW i \in Nat, i \in T
      PROVE  i + 1 \in T
  <2> SUFFICES ASSUME i + 1 <= Len(calls)
               PROVE  StoreAfter'[i + 1] = StoreAfter[i + 1]
    OBVIOUS
  <2>1. StoreAfter'[i] = StoreAfter[i]
    BY <1>1, <1>4
  <2>2. i + 1 \in 1 .. MaxCalls /\ i + 1 - 1 = i /\ i + 1 \in DOMAIN calls
    BY <1>1
  <2>3. calls'[i + 1].method = calls[i + 1].method
    BY <2>2
  <2>4. OnTop(StoreAfter[i], i + 1)' = OnTop(StoreAfter[i], i + 1)
    BY <2>1, <2>3
    DEF OnTop, AfterElements, NewValue, Whole, Named, Strided
  <2> QED
    BY <1>2, <2>2, <2>4, StoreAfterIs DEF Unfolded
<1> HIDE DEF T
<1>5. Nat \subseteq T
  BY <1>3, <1>4, NatSetInduction
<1> QED
  BY <1>1, <1>5 DEF T

\* None of an operation's elements, or any of a read's.
LEMMA ElementsNone ==
    ASSUME NEW regs \in [Addrs -> Data], NEW op
    PROVE  /\ AfterElements(regs, op, 0) = regs
           /\ op.type \in Reads => \A k : AfterElements(regs, op, k) = regs
<1>1. \A a \in Addrs : {i \in 1 .. 0 : op.addrs[i] = a} = {}
  OBVIOUS
<1> QED
  BY <1>1 DEF AfterElements

\* A register after one more element of a write.
LEMMA ElementsLast ==
    ASSUME NEW regs \in [Addrs -> Data], NEW op, op.type \notin Reads,
           NEW k \in Nat \ {0}, NEW a \in Addrs
    PROVE  AfterElements(regs, op, k)[a] =
              IF op.addrs[k] = a THEN NewValue(op, k, regs[a])
              ELSE AfterElements(regs, op, k - 1)[a]
<1> DEFINE hits(n) == {i \in 1 .. n : op.addrs[i] = a}
           last(n) == CHOOSE i \in hits(n) : \A j \in hits(n) : j <= i
<1>1. \A n : AfterElements(regs, op, n)[a]
               = IF hits(n) = {} THEN regs[a] ELSE NewValue(op, last(n), regs[a])
  BY Zenon DEF AfterElements
<1>2. CASE op.addrs[k] = a
  <2>1. k \in hits(k) /\ \A i \in hits(k) : i \in Nat /\ i <= k
    BY <1>2
  <2>2. \A i \in hits(k) : (\A j \in hits(k) : j <= i) => i = k
    BY <2>1
  <2> HIDE DEF hits
  <2>3. last(k) = k
    BY <2>1, <2>2
  <2> QED
    BY <1>1, <1>2, <2>1, <2>3
<1>3. CASE op.addrs[k] # a
  <2>1. hits(k) = hits(k - 1)
    <3>1. \A i \in 1 .. k : i # k => i \in 1 .. k - 1
      OBVIOUS
    <3>2. \A i \in 1 .. k - 1 : i \in 1 .. k
      OBVIOUS
    <3> QED
      BY <1>3, <3>1, <3>2
  <2> HIDE DEF hits
  <2> QED
    BY <1>1, <1>3, <2>1
<1> QED
  BY <1>2, <1>3

\* A function on the registers is what it is on each.
LEMMA SameStore ==
    ASSUME NEW op1, NEW op2, op1.type \notin Reads, op2.type \notin Reads,
           NEW regs1, NEW regs2, NEW k1, NEW k2,
           \A a \in Addrs : AfterElements(regs1, op1, k1)[a]
                              = AfterElements(regs2, op2, k2)[a]
    PROVE  AfterElements(regs1, op1, k1) = AfterElements(regs2, op2, k2)
<1>1. ASSUME NEW op, op.type \notin Reads, NEW regs, NEW k
      PROVE  AfterElements(regs, op, k)
               = [a \in Addrs |-> AfterElements(regs, op, k)[a]]
  <2> DEFINE F == AfterElements(regs, op, k)
  <2>1. \E f : F = [a \in Addrs |-> f[a]]
    <3> DEFINE hits(a) == {i \in 1 .. k : op.addrs[i] = a}
               last(a) == CHOOSE i \in hits(a) : \A j \in hits(a) : j <= i
               f == [a \in Addrs |-> IF hits(a) = {} THEN regs[a]
                                     ELSE NewValue(op, last(a), regs[a])]
    <3>1. F = f
      BY <1>1, Zenon DEF AfterElements
    <3>2. f = [a \in Addrs |-> f[a]]
      <4> HIDE DEF hits, last
      <4> QED
        OBVIOUS
    <3> HIDE DEF f, F
    <3> QED
      BY <3>1, <3>2
  <2> HIDE DEF F
  <2>2. PICK f : F = [a \in Addrs |-> f[a]]
    BY <2>1
  <2>3. \A a \in Addrs : F[a] = f[a]
    BY <2>2
  <2>4. F = [a \in Addrs |-> F[a]]
    BY <2>2, <2>3
  <2> QED
    BY <2>4 DEF F
<1> DEFINE F1 == AfterElements(regs1, op1, k1)
           F2 == AfterElements(regs2, op2, k2)
<1>2. F1 = [a \in Addrs |-> F1[a]] /\ F2 = [a \in Addrs |-> F2[a]]
  BY <1>1
<1>3. \A a \in Addrs : F1[a] = F2[a]
  OBVIOUS
<1> HIDE DEF F1, F2
<1>4. F1 = F2
  BY <1>2, <1>3
<1> QED
  BY <1>4 DEF F1, F2

\* The next command of a method carries it on by one step: it sees to the elements
\* that are next in turn, and a read sees the registers as they were before.
LEMMA NextElements ==
    ASSUME TargetInv, NEW c \in DOMAIN calls, Lossless(calls[c].method),
           NEW j \in DOMAIN calls[c].commands,
           NEW regs \in [Addrs -> Data],
           ~Direct(calls[c].method) /\ j = 2
              /\ calls[c].method.name = "readModifyWrite"
              => answer[calls[c].commands[1]].data
                   = <<regs[Head(calls[c].method.addrs)]>>
    PROVE  LET m == calls[c].method
               op == asked[calls[c].commands[j]].op
               R(n) == AfterElements(regs, Whole(m), Reached(m, n))
           IN  /\ AfterElements(R(j - 1), op, Elements(op)) = R(j)
               /\ op.type \in Reads => R(j - 1) = regs
<1> DEFINE m == calls[c].method
           W == Whole(m)
           op == asked[calls[c].commands[j]].op
           R(n) == AfterElements(regs, W, Reached(m, n))
<1>1. /\ m \in Methods /\ op = Command(c, j)
      /\ Len(calls[c].commands) <= CommandCount(m)
      /\ Len(calls[c].commands) \in Nat /\ j \in 1 .. Len(calls[c].commands)
  <2>1. m \in Methods /\ op = Command(c, j)
    BY CommandAt
  <2>2. /\ Len(calls[c].commands) <= CommandCount(m)
        /\ Len(calls[c].commands) \in Nat /\ j \in 1 .. Len(calls[c].commands)
    BY Shapes DEF TargetInv, InSequence
  <2> QED
    BY <2>1, <2>2
<1>2. CommandCount(m) \in Nat /\ j \in 1 .. CommandCount(m) /\ j \in Nat
  <2>1. CommandCount(m) \in Nat
    BY <1>1, CountTyped
  <2> QED
    BY <1>1, <2>1
<1>3. /\ Named(m) \in Seq(Addrs) /\ Len(Named(m)) = m.count
      /\ m.name \in MethodNames /\ m.count \in Nat /\ m.data \in Seq(Data)
  BY <1>1, NamedTyped, MethodTyped
<1>4. W.type = WireType(m.name) /\ W.addrs = Named(m) /\ W.data = m.data
  BY DEF Whole
<1>5. Reached(m, 0) = 0 /\ R(0) = regs
  BY ElementsNone DEF Reached
<1>6. ASSUME m.name = "readModifyWrite"
      PROVE  LET a == Head(m.addrs) IN
             /\ a \in Addrs /\ m.addrs = <<a>> /\ Named(m) = <<a>>
  <2>1. Head(m.addrs) \in Addrs /\ m.addrs = <<Head(m.addrs)>>
    BY <1>1, <1>6, UpdateCommands
  <2>2. /\ Named(m) = Strided(Head(m.addrs), m.count, m.increment)
        /\ m.count = 1 /\ m.increment \in Nat
    BY <1>1, <1>6, MethodTyped, MethodsAssumption DEF Named
  <2>3. Named(m) = <<Head(m.addrs)>>
    BY <2>1, <2>2, StridedOne, AddrsAssumption
  <2> QED
    BY <2>1, <2>3
<1> HIDE DEF W, op
<1>7. CASE Direct(m)
  <2>1. j = 1
    <3>1. CommandCount(m) = 1
      BY <1>1, <1>7, CountTyped
    <3> QED
      BY <1>2, <3>1
  <2>2. op = W
    <3>1. op = DirectCommand(m)
      BY <1>1, <1>7, <2>1 DEF Command
    <3>2. DirectCommand(m).addrs = Named(m)
      <4>1. CASE m.name # "readModifyWrite"
        BY <1>1, <1>7, <4>1, DirectNamed
      <4>2. CASE m.name = "readModifyWrite"
        <5>1. Command(c, 1).addrs = <<Head(m.addrs)>>
          BY <1>1, <1>7, <4>2, UpdateCommands
        <5> QED
          BY <1>1, <1>6, <2>1, <3>1, <4>2, <5>1
      <4> QED
        BY <4>1, <4>2
    <3>3. DirectCommand(m)
            = [type |-> WireType(m.name), addrs |-> DirectCommand(m).addrs,
               data |-> m.data]
      BY DEF DirectCommand
    <3> QED
      BY <3>1, <3>2, <3>3 DEF Whole, W
  <2>3. Elements(op) = Len(Named(m))
    BY <1>4, <2>2 DEF Elements
  <2>4. Reached(m, 1) = Len(Named(m))
    BY <1>7 DEF Reached
  <2>5. j - 1 = 0
    BY <2>1
  <2> QED
    BY <1>5, <2>1, <2>2, <2>3, <2>4, <2>5 DEF op, W
<1>8. CASE ~Direct(m) /\ m.name = "readModifyWrite"
  <2> DEFINE a == Head(m.addrs)
  <2>1. /\ a \in Addrs /\ m.addrs = <<a>> /\ Named(m) = <<a>>
        /\ CommandCount(m) = 2
        /\ Command(c, 1) = [type |-> "ReadSingle", addrs |-> <<a>>, data |-> <<>>]
        /\ Command(c, 2)
             = [type |-> "WriteSingle", addrs |-> <<a>>,
                data |-> <<Updated(m, Head(answer[calls[c].commands[1]].data))>>]
    BY <1>1, <1>6, <1>8, UpdateCommands
  <2>2. Reached(m, 1) = 0 /\ Reached(m, 2) = 1
    BY <1>8 DEF Reached
  <2>3. j \in {1, 2}
    BY <1>2, <2>1
  <2>4. CASE j = 1
    <3>1. op.type \in Reads
      BY <1>1, <2>1, <2>4 DEF Reads
    <3>2. AfterElements(regs, op, Elements(op)) = regs
      BY <3>1, ElementsNone
    <3>3. R(j - 1) = regs /\ R(j) = regs
      BY <1>5, <2>2, <2>4
    <3> QED
      BY <3>2, <3>3 DEF op, W
  <2>5. CASE j = 2
    <3>1. op = [type |-> "WriteSingle", addrs |-> <<a>>,
                data |-> <<Updated(m, regs[a])>>]
      <4>1. Head(answer[calls[c].commands[1]].data) = regs[a]
        BY <1>8, <2>5
      <4> QED
        BY <1>1, <2>1, <2>5, <4>1
    <3>2. W.type = "ReadModifyWrite" /\ W.addrs = <<a>> /\ W.data = m.data
      BY <1>4, <1>8, <2>1 DEF WireType
    <3>3. /\ R(j - 1) = regs /\ R(j) = AfterElements(regs, W, 1)
          /\ Elements(op) = 1 /\ op.type \notin Reads /\ W.type \notin Reads
      BY <1>5, <2>2, <2>5, <3>1, <3>2 DEF Elements, Reads
    <3>4. ASSUME NEW b \in Addrs
          PROVE  AfterElements(regs, op, 1)[b] = AfterElements(regs, W, 1)[b]
      <4>1. 1 \in Nat \ {0} /\ 1 - 1 = 0
        OBVIOUS
      <4>2. /\ op.addrs[1] = a /\ W.addrs[1] = a
            /\ NewValue(op, 1, regs[b]) = Updated(m, regs[a])
        BY <3>1, <3>2 DEF NewValue
      <4>3. NewValue(W, 1, regs[a]) = Updated(m, regs[a])
        BY <3>2 DEF NewValue, Updated
      <4>4. AfterElements(regs, op, 1)[b] =
              IF op.addrs[1] = b THEN NewValue(op, 1, regs[b])
              ELSE AfterElements(regs, op, 0)[b]
        BY <3>3, <4>1, ElementsLast
      <4>5. AfterElements(regs, W, 1)[b] =
              IF W.addrs[1] = b THEN NewValue(W, 1, regs[b])
              ELSE AfterElements(regs, W, 0)[b]
        BY <3>3, <4>1, ElementsLast
      <4>6. AfterElements(regs, op, 0) = regs /\ AfterElements(regs, W, 0) = regs
        BY ElementsNone
      <4> QED
        BY <4>2, <4>3, <4>4, <4>5, <4>6
    <3>5. AfterElements(regs, op, 1) = AfterElements(regs, W, 1)
      BY <3>3, <3>4, SameStore
    <3> QED
      BY <3>3, <3>5 DEF op, W
  <2> QED
    BY <2>3, <2>4, <2>5
<1>9. CASE ~Direct(m) /\ m.name # "readModifyWrite"
  <2>1. op = Element(m, j) /\ CommandCount(m) = m.count
    BY <1>1, <1>9, CountTyped DEF Command
  <2>2. Reached(m, j) = j /\ Reached(m, j - 1) = j - 1
    BY <1>2, <1>9 DEF Reached
  <2>3. CASE m.name \in ReadMethods
    <3>1. op.type \in Reads /\ W.type \in Reads
      BY <1>4, <2>1, <2>3 DEF Element, Reads, WireType, ReadMethods
    <3>2. R(j - 1) = regs /\ R(j) = regs
      BY <3>1, ElementsNone
    <3>3. AfterElements(regs, op, Elements(op)) = regs
      BY <3>1, ElementsNone
    <3> QED
      BY <3>2, <3>3 DEF op, W
  <2>4. CASE m.name \notin ReadMethods
    <3>1. /\ op.type = "WriteSingle" /\ op.addrs = <<Named(m)[j]>>
          /\ op.data = <<m.data[j]>> /\ Elements(op) = 1
      BY <2>1, <2>4 DEF Element, Elements
    <3>2. W.type \in {"WriteSingle", "WriteSeq", "WriteComp"}
      BY <1>3, <1>4, <1>9, <2>4
      DEF WireType, MethodNames, ReadMethods, WriteMethods
    <3>3. op.type \notin Reads /\ W.type \notin Reads
      BY <3>1, <3>2 DEF Reads
    <3> DEFINE Q == AfterElements(regs, W, j - 1)
    <3>4. Q \in [Addrs -> Data]
      <4>1. WellFormed(W) /\ Elements(W) = m.count
        BY <1>1, <1>3, WholeWellFormed DEF W
      <4>2. j - 1 \in 0 .. Elements(W)
        BY <1>2, <2>1, <4>1
      <4> QED
        BY <4>1, <4>2, AfterElementsType
    <3> HIDE DEF Q
    <3>5. ASSUME NEW b \in Addrs
          PROVE  AfterElements(Q, op, 1)[b] = AfterElements(regs, W, j)[b]
      <4>1. 1 \in Nat \ {0} /\ 1 - 1 = 0 /\ j \in Nat \ {0}
        BY <1>2
      <4>2. /\ op.addrs[1] = Named(m)[j] /\ W.addrs[j] = Named(m)[j]
            /\ NewValue(op, 1, Q[b]) = m.data[j]
        BY <1>4, <3>1 DEF NewValue
      <4>3. NewValue(W, j, regs[b]) = m.data[j]
        BY <1>4, <3>2 DEF NewValue
      <4>4. AfterElements(Q, op, 1)[b] =
              IF op.addrs[1] = b THEN NewValue(op, 1, Q[b])
              ELSE AfterElements(Q, op, 0)[b]
        BY <3>3, <3>4, <4>1, ElementsLast
      <4>5. AfterElements(regs, W, j)[b] =
              IF W.addrs[j] = b THEN NewValue(W, j, regs[b])
              ELSE Q[b]
        BY <3>3, <4>1, ElementsLast DEF Q
      <4>6. AfterElements(Q, op, 0) = Q
        BY <3>4, ElementsNone
      <4> QED
        BY <4>2, <4>3, <4>4, <4>5, <4>6
    <3>6. AfterElements(Q, op, 1) = AfterElements(regs, W, j)
      BY <3>3, <3>5, SameStore
    <3> QED
      BY <2>2, <3>1, <3>3, <3>6 DEF op, W, Q
  <2> QED
    BY <2>3, <2>4
<1> QED
  BY <1>7, <1>8, <1>9

\* The parts of MethodsInv.
StoreIs ==
    /\ calls = <<>> => store = StoreAfter[0]
    /\ calls # <<>> =>
          LET c == Len(calls)
              m == calls[c].method
          IN  \E n \in 0 .. Len(calls[c].commands) :
                 /\ Carried(c) = 1 .. n
                 /\ store = AfterElements(StoreAfter[c - 1], Whole(m),
                                          Reached(m, n))

ReadsAre ==
    \A c \in DOMAIN calls, i \in DOMAIN done :
        LET op == asked[done[i].call].op IN
        done[i].call \in S!ToSet(calls[c].commands) /\ op.type \in Reads =>
            done[i].data = ReadBack(StoreAfter[c - 1], op)

LEMMA MethodsInvIs ==
    MethodsInv <=> /\ UpdatesInv /\ Len(calls) <= MaxCalls
                   /\ Smooth => StoreIs /\ ReadsAre
  BY Zenon DEF MethodsInv, StoreIs, ReadsAre

\* With its last command a method has seen to all its elements.
LEMMA ReachedAll ==
    ASSUME NEW m \in Methods
    PROVE  Reached(m, CommandCount(m)) = Len(Named(m))
<1>1. Len(Named(m)) = m.count /\ m.count \in Nat
  BY NamedTyped, MethodTyped
<1>2. m.name = "readModifyWrite" => m.count = 1
  BY MethodsAssumption
<1>3. CASE Direct(m)
  <2>1. CommandCount(m) = 1
    BY <1>3, CountTyped
  <2> QED
    BY <1>3, <2>1 DEF Reached
<1>4. CASE ~Direct(m) /\ m.name = "readModifyWrite"
  <2>1. CommandCount(m) = 2
    BY <1>4, CountTyped
  <2>2. Reached(m, 2) = 1
    BY <1>4 DEF Reached
  <2> QED
    BY <1>1, <1>2, <1>4, <2>1, <2>2
<1>5. CASE ~Direct(m) /\ m.name # "readModifyWrite"
  <2>1. CommandCount(m) = m.count
    BY <1>5, CountTyped
  <2>2. Reached(m, m.count) = m.count
    BY <1>5 DEF Reached
  <2> QED
    BY <1>1, <2>1, <2>2
<1> QED
  BY <1>3, <1>4, <1>5

\* What is acknowledged has been carried out.
LEMMA AckedCarried ==
    ASSUME TargetInv, NEW c \in DOMAIN calls, NEW j \in DOMAIN calls[c].commands,
           answer[calls[c].commands[j]].kind = "ack"
    PROVE  /\ j \in Carried(c)
           /\ \E i \in DOMAIN done :
                 /\ done[i].call = calls[c].commands[j] /\ done[i].ok
                 /\ done[i].data = answer[calls[c].commands[j]].data
<1>1. calls[c].commands[j] \in DOMAIN answer
  BY CommandAt
<1>2. PICK i \in DOMAIN done :
        /\ done[i].call = calls[c].commands[j] /\ done[i].ok
        /\ done[i].data = answer[calls[c].commands[j]].data
  BY <1>1 DEF TargetInv, DoneInOrder
<1> QED
  BY <1>2 DEF Carried

LEMMA ReturnedCarried ==
    ASSUME TargetInv, NEW c \in DOMAIN calls, outcome[c] = "returned"
    PROVE  /\ Carried(c) = 1 .. CommandCount(calls[c].method)
           /\ Len(calls[c].commands) = CommandCount(calls[c].method)
<1>1. /\ Len(calls[c].commands) = CommandCount(calls[c].method)
      /\ DOMAIN calls[c].commands = 1 .. Len(calls[c].commands)
  BY Shapes DEF TargetInv, EndsAsAnswered
<1>2. \A j \in DOMAIN calls[c].commands : j \in Carried(c)
  BY KindAt, AckedCarried
<1>3. Carried(c) \subseteq DOMAIN calls[c].commands
  BY DEF Carried
<1> QED
  BY <1>1, <1>2, <1>3

\* When all calls have returned, the registers are what they come to.
LEMMA StoreWhenQuiet ==
    ASSUME TargetInv, StoreIs, Len(calls) <= MaxCalls,
           \A c \in DOMAIN calls : outcome[c] = "returned"
    PROVE  store = StoreAfter[Len(calls)]
<1>1. Len(calls) \in Nat /\ DOMAIN calls = 1 .. Len(calls)
  BY Shapes DEF TargetInv
<1>2. CASE calls = <<>>
  <2>1. Len(calls) = 0
    BY <1>2
  <2> QED
    BY <1>2, <2>1 DEF StoreIs
<1>3. CASE calls # <<>>
  <2> DEFINE c == Len(calls)
             m == calls[c].method
  <2>1. PICK n \in 0 .. Len(calls[c].commands) :
          /\ Carried(c) = 1 .. n
          /\ store = AfterElements(StoreAfter[c - 1], Whole(m), Reached(m, n))
    BY <1>3 DEF StoreIs
  <2>2. c \in DOMAIN calls /\ c \in 1 .. MaxCalls
    <3>1. c # 0
      BY <1>3, EmptySeq DEF TargetInv, TargetTypeOK
    <3> QED
      BY <1>1, <3>1, MaxCallsAssumption
  <2>3. m \in Methods /\ Len(calls[c].commands) \in Nat
    BY <2>2, Shapes DEF TargetInv, InSequence
  <2> HIDE DEF c
  <2>4. CommandCount(m) \in Nat
    BY <2>3, CountTyped
  <2>5. 1 .. n = 1 .. CommandCount(m)
    BY <2>1, <2>2, ReturnedCarried
  <2>6. n = CommandCount(m)
    <3> DEFINE k == CommandCount(m)
    <3>1. k \in Nat /\ 1 .. n = 1 .. k /\ n \in Nat
      BY <2>1, <2>3, <2>4, <2>5
    <3> HIDE DEF k
    <3>2. (n >= 1 => n \in 1 .. k) /\ (k >= 1 => k \in 1 .. n)
      BY <3>1
    <3>3. n = k
      BY <3>1, <3>2
    <3> QED
      BY <3>3 DEF k
  <2>7. Reached(m, n) = Len(Named(m))
    BY <2>3, <2>6, ReachedAll
  <2>8. StoreAfter[c] = OnTop(StoreAfter[c - 1], c)
    BY <2>2, StoreAfterIs DEF Unfolded
  <2> QED
    BY <2>1, <2>7, <2>8 DEF OnTop, c
<1> QED
  BY <1>2, <1>3

\* With one thread only the last call can be under way.
LEMMA OnlyLastOpen ==
    ASSUME TargetInv, Smooth, NEW c \in DOMAIN calls, outcome[c] # "returned"
    PROVE  c = Len(calls)
<1>1. Len(calls) \in Nat /\ DOMAIN calls = 1 .. Len(calls)
  BY Shapes DEF TargetInv
<1>2. outcome[c] = "pending" /\ calls[c].thread = calls[Len(calls)].thread
  BY <1>1 DEF Smooth
<1>3. ~(c < Len(calls))
  BY <1>1, <1>2 DEF TargetInv, OneAfterTheOther
<1> QED
  BY <1>1, <1>3

\* Nothing can become smooth that was not.
LEMMA SmoothBefore ==
    ASSUME TargetInv, Smooth', UNCHANGED features,
           \A c \in DOMAIN calls :
              /\ Same(c)
              /\ outcome'[c] \in {"pending", "returned"} =>
                    outcome[c] \in {"pending", "returned"},
           \A i \in DOMAIN done : i \in DOMAIN done' /\ done'[i] = done[i]
    PROVE  Smooth
<1>1. ASSUME NEW c \in DOMAIN calls, NEW d \in DOMAIN calls
      PROVE  calls[c].thread = calls[d].thread
  <2>1. Same(c) /\ Same(d)
    OBVIOUS
  <2> QED
    BY <2>1 DEF Same, Smooth
<1>2. ASSUME NEW c \in DOMAIN calls
      PROVE  outcome[c] \in {"pending", "returned"} /\ Lossless(calls[c].method)
  <2>1. Same(c)
    OBVIOUS
  <2>2. outcome'[c] \in {"pending", "returned"} /\ Lossless(calls[c].method)'
    BY <2>1 DEF Same, Smooth
  <2>3. calls'[c].method = calls[c].method
    BY <2>1 DEF Same
  <2> DEFINE m == calls[c].method
  <2>4. Lossless(m)' = Lossless(m)
    BY <2>3 DEF Lossless, IncrementFits, Direct, checkIFS
  <2> QED
    BY <2>2, <2>4
<1>3. \A i \in DOMAIN done : done[i].ok
  BY DEF Smooth
<1> QED
  BY <1>1, <1>2, <1>3 DEF Smooth

\* A step that carries nothing out and begins no call.
LEMMA MethodsFrame ==
    ASSUME MethodsInv, Smooth', UNCHANGED <<features, done, store>>,
           calls' \in Seq(TargetCall), Len(calls') = Len(calls),
           \A c \in DOMAIN calls :
              /\ Same(c)
              /\ outcome'[c] \in {"pending", "returned"} =>
                    outcome[c] \in {"pending", "returned"}
              /\ Len(calls'[c].commands) \in Nat
              /\ Len(calls[c].commands) <= Len(calls'[c].commands)
              /\ \A j \in DOMAIN calls[c].commands :
                    /\ j \in DOMAIN calls'[c].commands
                    /\ calls'[c].commands[j] = calls[c].commands[j]
              /\ \A j \in DOMAIN calls'[c].commands, i \in DOMAIN done :
                    done[i].call = calls'[c].commands[j] =>
                       j \in DOMAIN calls[c].commands,
           \A k \in DOMAIN asked : asked'[k] = asked[k]
    PROVE  StoreIs' /\ ReadsAre'
<1>1. UpdatesInv /\ TargetInv /\ Len(calls) <= MaxCalls
  BY MethodsInvIs, UpdatesInvIs
<1>2. Smooth
  BY <1>1, SmoothBefore
<1>3. StoreIs /\ ReadsAre
  BY <1>2, MethodsInvIs
<1>4. /\ Len(calls) \in Nat /\ DOMAIN calls = 1 .. Len(calls)
      /\ \A c \in DOMAIN calls : Len(calls[c].commands) \in Nat
      /\ \A i \in DOMAIN done : done[i].call \in DOMAIN asked
  BY <1>1, Shapes DEF TargetInv
<1>0. DOMAIN calls' = DOMAIN calls
  BY <1>4
<1>5. \A c \in DOMAIN calls : calls'[c].method = calls[c].method
  BY DEF Same
<1>6. \A n \in 0 .. Len(calls) : StoreAfter'[n] = StoreAfter[n]
  BY <1>1, <1>5, StoreAfterStays
<1>7. ASSUME NEW c \in DOMAIN calls
      PROVE  Carried(c)' = Carried(c)
  BY DEF Carried
<1>8. calls = <<>> <=> calls' = <<>>
  <2>1. calls \in Seq(TargetCall)
    BY <1>1 DEF TargetInv, TargetTypeOK
  <2> QED
    BY <2>1, EmptySeq
<1>9. StoreIs'
  <2>1. CASE calls = <<>>
    <3>1. Len(calls) = 0
      BY <2>1
    <3>2. StoreAfter'[0] = StoreAfter[0]
      BY <1>6, <3>1
    <3> QED
      BY <1>3, <1>8, <2>1, <3>2 DEF StoreIs
  <2>2. CASE calls # <<>>
    <3> DEFINE c == Len(calls)
               m == calls[c].method
    <3>1. PICK n \in 0 .. Len(calls[c].commands) :
            /\ Carried(c) = 1 .. n
            /\ store = AfterElements(StoreAfter[c - 1], Whole(m), Reached(m, n))
      BY <1>3, <2>2 DEF StoreIs
    <3>2. c \in DOMAIN calls /\ c - 1 \in 0 .. Len(calls)
      <4>1. c # 0
        BY <1>1, <2>2, EmptySeq DEF TargetInv, TargetTypeOK
      <4> QED
        BY <1>4, <4>1
    <3>3. n \in 0 .. Len(calls'[c].commands)
      BY <1>4, <3>1, <3>2
    <3>4. Carried(c)' = 1 .. n
      BY <1>7, <3>1, <3>2
    <3>5. StoreAfter'[c - 1] = StoreAfter[c - 1] /\ calls'[c].method = m
      BY <1>5, <1>6, <3>2
    <3>6. Reached(m, n)' = Reached(m, n)
      BY <3>5 DEF Reached, Direct, checkIFS, Named, Strided
    <3>7. AfterElements(StoreAfter[c - 1], Whole(m), Reached(m, n))'
            = AfterElements(StoreAfter[c - 1], Whole(m), Reached(m, n))
      <4> DEFINE r == Reached(m, n)
                 w == Whole(m)
                 s == StoreAfter[c - 1]
      <4>1. r' = r /\ w' = w /\ s' = s
        BY <3>5, <3>6 DEF Whole, Named, Strided
      <4> HIDE DEF r, w, s
      <4>2. AfterElements(s, w, r)' = AfterElements(s', w', r')
        BY DEF AfterElements, NewValue
      <4>3. AfterElements(s, w, r)' = AfterElements(s, w, r)
        BY <4>1, <4>2, Zenon
      <4> QED
        BY <4>3 DEF r, w, s
    <3>8. store' = AfterElements(StoreAfter[c - 1], Whole(m), Reached(m, n))'
      BY <3>1, <3>7
    <3> QED
      BY <1>8, <2>2, <3>3, <3>4, <3>8 DEF StoreIs
  <2> QED
    BY <2>1, <2>2
<1>10. ReadsAre'
  <2> SUFFICES ASSUME NEW c \in DOMAIN calls, NEW i \in DOMAIN done,
                      done[i].call \in S!ToSet(calls'[c].commands),
                      asked'[done[i].call].op.type \in Reads
               PROVE  done[i].data
                        = ReadBack(StoreAfter'[c - 1], asked'[done[i].call].op)
    <3>1. ReadsAre' <=>
            \A c \in DOMAIN calls', i \in DOMAIN done' :
               done'[i].call \in S!ToSet(calls'[c].commands)
               /\ asked'[done'[i].call].op.type \in Reads =>
                  done'[i].data = ReadBack(StoreAfter'[c - 1], asked'[done'[i].call].op)
      BY DEF ReadsAre, S!ToSet, ReadBack, Elements
    <3> QED
      BY <1>0, <3>1
  <2>1. asked'[done[i].call] = asked[done[i].call]
    BY <1>4
  <2>2. done[i].call \in S!ToSet(calls[c].commands)
    BY DEF S!ToSet
  <2>3. StoreAfter'[c - 1] = StoreAfter[c - 1]
    <3>1. c - 1 \in 0 .. Len(calls)
      BY <1>4
    <3> QED
      BY <1>6, <3>1
  <2>4. done[i].data = ReadBack(StoreAfter[c - 1], asked[done[i].call].op)
    BY <1>3, <2>1, <2>2 DEF ReadsAre
  <2> QED
    BY <2>1, <2>3, <2>4
<1> QED
  BY <1>9, <1>10

\* A step that leaves the calls, what is asked and what is done alone.
LEMMA MethodsOutcome ==
    ASSUME MethodsInv, Smooth', UNCHANGED <<features, calls, asked, done, store>>,
           \A c \in DOMAIN calls : outcome'[c] \in {"pending", "returned"} =>
                                      outcome[c] \in {"pending", "returned"}
    PROVE  StoreIs' /\ ReadsAre'
<1>1. TargetInv
  BY MethodsInvIs, UpdatesInvIs
<1>2. /\ calls \in Seq(TargetCall)
      /\ \A c \in DOMAIN calls : Len(calls[c].commands) \in Nat
  BY <1>1, Shapes DEF TargetInv, TargetTypeOK
<1>3. \A c \in DOMAIN calls :
         /\ Same(c)
         /\ Len(calls[c].commands) <= Len(calls[c].commands)
  BY <1>2 DEF Same
<1> QED
  BY <1>2, <1>3, MethodsFrame

LEMMA IssueMethods ==
    ASSUME MethodsInv, TargetInv', NEW t \in Threads, NEW c \in DOMAIN calls,
           Issue(t, c), Smooth'
    PROVE  StoreIs' /\ ReadsAre'
<1> DEFINE k == NewCommand
           n == Len(calls[c].commands) + 1
<1>1. TargetInv
  BY MethodsInvIs, UpdatesInvIs
<1>2. /\ k \notin DOMAIN asked
      /\ DOMAIN calls' = DOMAIN calls
      /\ \A d \in DOMAIN calls : d # c => calls'[d] = calls[d]
      /\ calls'[c].method = calls[c].method
      /\ calls'[c].thread = calls[c].thread
      /\ calls'[c].after = calls[c].after
      /\ calls'[c].commands \in Seq(Nat)
      /\ Len(calls'[c].commands) = n
      /\ calls'[c].commands[n] = k
      /\ \A i \in DOMAIN calls[c].commands :
            calls'[c].commands[i] = calls[c].commands[i]
      /\ \A j \in DOMAIN asked : asked'[j] = asked[j]
      /\ UNCHANGED <<features, outcome, done, store>>
  BY <1>1, IssueEffect
<1>3. \A d \in DOMAIN calls : /\ Len(calls[d].commands) \in Nat
                              /\ DOMAIN calls[d].commands = 1 .. Len(calls[d].commands)
  BY <1>1, Shapes DEF TargetInv
<1>4. n \in Nat /\ Len(calls[c].commands) <= n
      /\ DOMAIN calls'[c].commands = DOMAIN calls[c].commands \cup {n}
  BY <1>2, <1>3
<1>5. \A i \in DOMAIN done : done[i].call \in DOMAIN asked
  BY <1>1, Shapes DEF TargetInv
<1>6. calls' \in Seq(TargetCall) /\ Len(calls') = Len(calls)
  <2>0. ASSUME NEW T, T = TargetCall
        PROVE  calls \in Seq(T) /\ calls' \in Seq(T)
    <3>1. calls \in Seq(T)
      BY <1>1, <2>0 DEF TargetInv, TargetTypeOK
    <3>2. calls' \in Seq(T)
      BY <2>0 DEF TargetInv, TargetTypeOK, TargetCall, Method
    <3> QED
      BY <3>1, <3>2
  <2>1. calls \in Seq(TargetCall) /\ calls' \in Seq(TargetCall)
    BY <2>0
  <2>2. /\ Len(calls) \in Nat /\ DOMAIN calls = 1 .. Len(calls)
        /\ Len(calls') \in Nat /\ DOMAIN calls' = 1 .. Len(calls')
    BY <2>1
  <2>3. /\ Len(calls) >= 1 => Len(calls) \in 1 .. Len(calls')
        /\ Len(calls') >= 1 => Len(calls') \in 1 .. Len(calls)
    BY <1>2, <2>2
  <2>4. Len(calls') = Len(calls)
    <3> DEFINE x == Len(calls)
               y == Len(calls')
    <3> HIDE DEF x, y
    <3>1. x \in Nat /\ y \in Nat
      BY <2>2 DEF x, y
    <3>2. (x >= 1 => x <= y) /\ (y >= 1 => y <= x)
      BY <2>2, <2>3 DEF x, y
    <3>3. x = y
      BY <3>1, <3>2
    <3> QED
      BY <3>3 DEF x, y
  <2> QED
    BY <2>1, <2>4
<1> HIDE DEF k, n
<1>7. ASSUME NEW d \in DOMAIN calls
      PROVE  /\ Same(d)
             /\ Len(calls'[d].commands) \in Nat
             /\ Len(calls[d].commands) <= Len(calls'[d].commands)
             /\ \A j \in DOMAIN calls[d].commands :
                   /\ j \in DOMAIN calls'[d].commands
                   /\ calls'[d].commands[j] = calls[d].commands[j]
             /\ \A j \in DOMAIN calls'[d].commands, i \in DOMAIN done :
                   done[i].call = calls'[d].commands[j] =>
                      j \in DOMAIN calls[d].commands
  <2>1. CASE d = c
    <3>1. Same(d)
      BY <1>2, <2>1 DEF Same
    <3>2. \A j \in DOMAIN calls'[d].commands, i \in DOMAIN done :
             done[i].call = calls'[d].commands[j] => j \in DOMAIN calls[d].commands
      BY <1>2, <1>4, <1>5, <2>1
    <3> QED
      BY <1>2, <1>4, <2>1, <3>1, <3>2
  <2>2. CASE d # c
    <3>1. calls'[d] = calls[d] /\ d \in DOMAIN calls'
      BY <1>2, <2>2
    <3>2. Len(calls[d].commands) \in Nat
      BY <1>3
    <3> QED
      BY <3>1, <3>2 DEF Same
  <2> QED
    BY <2>1, <2>2
<1> QED
  BY <1>2, <1>6, <1>7, MethodsFrame

LEMMA BeginMethods ==
    ASSUME MethodsInv, NEW t \in Threads, NEW m \in Methods, Begin(t, m), Smooth'
    PROVE  StoreIs' /\ ReadsAre'
<1>0. PICK n : n = NewCall
  OBVIOUS
<1>1. UpdatesInv /\ TargetInv /\ Len(calls) <= MaxCalls
  BY MethodsInvIs, UpdatesInvIs
<1>2. /\ n \in Nat /\ n \notin DOMAIN calls /\ DOMAIN calls' = DOMAIN calls \cup {n}
      /\ \A c \in DOMAIN calls : calls'[c] = calls[c] /\ outcome'[c] = outcome[c]
      /\ calls'[n].thread = t /\ calls'[n].method = m
      /\ calls'[n].commands = <<>>
      /\ UNCHANGED <<features, asked, answer, done, store>>
  BY <1>0, <1>1, BeginEffect
<1>3. \A c \in DOMAIN calls : Same(c)
  BY <1>2 DEF Same
<1>4. Smooth
  BY <1>1, <1>2, <1>3, SmoothBefore
<1>5. StoreIs /\ ReadsAre
  BY <1>4, MethodsInvIs
<1>6. /\ Len(calls) \in Nat /\ DOMAIN calls = 1 .. Len(calls)
      /\ Len(calls') = n /\ n - 1 = Len(calls)
      /\ calls' # <<>>
  <2>1. calls \in Seq(TargetCall)
    BY <1>1 DEF TargetInv, TargetTypeOK
  <2> QED
    BY <1>0, <2>1 DEF Begin, NewCall
<1>7. ASSUME NEW c \in DOMAIN calls
      PROVE  outcome[c] = "returned"
  <2>1. calls[c].thread = t
    BY <1>2 DEF Smooth
  <2>2. outcome[c] # "pending"
    BY <2>1 DEF Begin, Under
  <2> QED
    BY <1>4, <2>2 DEF Smooth
<1>8. store = StoreAfter[Len(calls)]
  BY <1>1, <1>5, <1>7, StoreWhenQuiet
<1>9. \A i \in 0 .. Len(calls) : StoreAfter'[i] = StoreAfter[i]
  BY <1>1, <1>2, StoreAfterStays
<1>10. StoreIs'
  <2>1. Carried(n)' = 1 .. 0
    BY <1>2 DEF Carried
  <2>2. 0 \in 0 .. Len(calls'[n].commands)
    BY <1>2
  <2>3. StoreAfter'[n - 1] = store
    BY <1>6, <1>8, <1>9
  <2>4. Reached(calls[n].method, 0)' = 0
    BY DEF Reached
  <2> DEFINE w == Whole(calls[n].method)
             r == Reached(calls[n].method, 0)
             s == StoreAfter[n - 1]
  <2>5. AfterElements(s, w, r)' = store'
    <3>1. r' = 0 /\ s' = store
      BY <2>3, <2>4
    <3> HIDE DEF w, r, s
    <3>2. AfterElements(s, w, r)' = AfterElements(s', w', r')
      BY DEF AfterElements, NewValue
    <3>3. store \in [Addrs -> Data]
      BY <1>1 DEF TargetInv, TargetTypeOK
    <3>4. AfterElements(store, w', 0) = store
      BY <3>3, ElementsNone
    <3> QED
      BY <1>2, <3>1, <3>2, <3>4
  <2>6. \E i \in 0 .. Len(calls'[n].commands) :
           /\ Carried(n)' = 1 .. i
           /\ store' = AfterElements(StoreAfter[n - 1], Whole(calls[n].method),
                                     Reached(calls[n].method, i))'
    BY <2>1, <2>2, <2>5 DEF w, r, s
  <2> QED
    BY <1>6, <2>6 DEF StoreIs
<1>11. ReadsAre'
  <2> SUFFICES ASSUME NEW c \in DOMAIN calls', NEW i \in DOMAIN done,
                      done[i].call \in S!ToSet(calls'[c].commands),
                      asked[done[i].call].op.type \in Reads
               PROVE  done[i].data
                        = ReadBack(StoreAfter'[c - 1], asked[done[i].call].op)
    <3>1. ReadsAre' <=>
            \A c \in DOMAIN calls', i \in DOMAIN done' :
               done'[i].call \in S!ToSet(calls'[c].commands)
               /\ asked'[done'[i].call].op.type \in Reads =>
                  done'[i].data = ReadBack(StoreAfter'[c - 1], asked'[done'[i].call].op)
      BY DEF ReadsAre, S!ToSet, ReadBack, Elements
    <3> QED
      BY <1>2, <3>1
  <2>1. c \in DOMAIN calls /\ calls'[c] = calls[c]
    BY <1>2 DEF S!ToSet
  <2>2. StoreAfter'[c - 1] = StoreAfter[c - 1]
    <3>1. c - 1 \in 0 .. Len(calls)
      BY <1>6, <2>1
    <3> QED
      BY <1>9, <3>1
  <2> QED
    BY <1>5, <2>1, <2>2, Zenon DEF ReadsAre
<1> QED
  BY <1>10, <1>11

LEMMA CarryOutMethods ==
    ASSUME MethodsInv, NEW k \in DOMAIN asked, CarryOut(k), Smooth'
    PROVE  StoreIs' /\ ReadsAre'
<1>0. PICK n : n = NewDone
  OBVIOUS
<1>1. UpdatesInv /\ TargetInv /\ Owned /\ Len(calls) <= MaxCalls
  BY MethodsInvIs, UpdatesInvIs
<1>2. PICK ok \in BOOLEAN, e \in 0 .. Elements(asked[k].op) :
        /\ ok => e = Elements(asked[k].op)
        /\ store' = AfterElements(store, asked[k].op, e)
        /\ done' = Append(done, [call |-> k, ok |-> ok, data |-> Given(ok, k)])
        /\ UNCHANGED <<features, calls, outcome, asked, answer>>
  BY CarryOutIs
<1>3. /\ DOMAIN done' = DOMAIN done \cup {n}
      /\ \A i \in DOMAIN done : i # n /\ done'[i] = done[i]
      /\ done'[n] = [call |-> k, ok |-> ok, data |-> Given(ok, k)]
  <2>1. done \in Seq([call : DOMAIN asked, ok : BOOLEAN, data : Seq(Data)])
    BY <1>1 DEF TargetInv, TargetTypeOK
  <2>2. Len(done) \in Nat /\ DOMAIN done = 1 .. Len(done)
    BY <1>1, Shapes DEF TargetInv
  <2> QED
    BY <1>0, <1>2, <2>1, <2>2 DEF NewDone
<1>4. Smooth
  <2>1. \A c \in DOMAIN calls : Same(c)
    BY <1>2 DEF Same
  <2> QED
    BY <1>1, <1>2, <1>3, <2>1, SmoothBefore
<1>5. StoreIs /\ ReadsAre
  BY <1>4, MethodsInvIs
<1>6. ok
  BY <1>3 DEF Smooth
<1>7. PICK d \in DOMAIN calls : k \in S!ToSet(calls[d].commands)
  BY <1>1 DEF Owned
<1>8. PICK j \in DOMAIN calls[d].commands : k = calls[d].commands[j]
  BY <1>7 DEF S!ToSet
<1> DEFINE m == calls[d].method
           op == asked[k].op
           regs == StoreAfter[d - 1]
           R(x) == AfterElements(regs, Whole(m), Reached(m, x))
<1>9. /\ outcome[d] # "returned" /\ ~(j < Len(calls[d].commands))
      /\ \A i \in DOMAIN done : done[i].call # k
  BY <1>1, <1>8, CarriedOnce
<1>10. /\ Len(calls) \in Nat /\ DOMAIN calls = 1 .. Len(calls)
       /\ Len(calls[d].commands) \in Nat
       /\ DOMAIN calls[d].commands = 1 .. Len(calls[d].commands)
       /\ m \in Methods
  BY <1>1, Shapes DEF TargetInv, InSequence
<1>11. d = Len(calls) /\ calls # <<>> /\ j = Len(calls[d].commands) /\ j \in Nat \ {0}
  <2>1. d = Len(calls)
    BY <1>1, <1>4, <1>9, OnlyLastOpen
  <2>2. calls # <<>>
    BY EmptySeq
  <2> QED
    BY <1>9, <1>10, <2>1, <2>2
<1>12. PICK q \in 0 .. Len(calls[d].commands) :
         Carried(d) = 1 .. q /\ store = R(q)
  BY <1>5, <1>11, Zenon DEF StoreIs
<1>13. q = j - 1
  <2>1. j \notin Carried(d)
    BY <1>8, <1>9 DEF Carried
  <2>2. ASSUME NEW i \in 1 .. j - 1
        PROVE  i \in Carried(d)
    <3>1. i \in DOMAIN calls[d].commands /\ i < Len(calls[d].commands)
      BY <1>10, <1>11
    <3>2. answer[calls[d].commands[i]].kind = "ack"
      BY <1>1, <3>1, CommandAt
    <3> QED
      BY <1>1, <3>1, <3>2, AckedCarried
  <2>3. j \notin 1 .. q /\ (j # 1 => j - 1 \in 1 .. q)
    <3>1. j \notin 1 .. q
      BY <1>12, <2>1
    <3>2. j # 1 => j - 1 \in 1 .. j - 1
      <4>1. j \in Nat \ {0}
        BY <1>11
      <4> QED
        BY ONLY <4>1, SMT
    <3>3. j # 1 => j - 1 \in Carried(d)
      BY <2>2, <3>2
    <3> QED
      BY <1>12, <3>1, <3>3
  <2>4. q \in Nat
    BY <1>10, <1>12
  <2> QED
    BY <1>11, <2>3, <2>4
<1>14. regs \in [Addrs -> Data] /\ d - 1 \in 0 .. Len(calls)
  <2>1. d - 1 \in 0 .. Len(calls)
    BY <1>10
  <2> QED
    BY <1>1, <2>1, StoreAfterTyped
<1>15. ASSUME ~Direct(m), j = 2, m.name = "readModifyWrite"
       PROVE  answer[calls[d].commands[1]].data = <<regs[Head(m.addrs)]>>
  <2> DEFINE a == Head(m.addrs)
             l == calls[d].commands[1]
  <2>1. 1 \in DOMAIN calls[d].commands /\ 1 < Len(calls[d].commands)
    BY <1>10, <1>11, <1>15
  <2>2. answer[l].kind = "ack" /\ asked[l].op = Command(d, 1)
    BY <1>1, <2>1, CommandAt
  <2>3. PICK i \in DOMAIN done : done[i].call = l /\ done[i].data = answer[l].data
    BY <1>1, <2>1, <2>2, AckedCarried
  <2>4. asked[l].op = [type |-> "ReadSingle", addrs |-> <<a>>, data |-> <<>>]
    BY <1>10, <1>15, <2>2, UpdateCommands
  <2>5. l \in S!ToSet(calls[d].commands)
    BY <2>1 DEF S!ToSet
  <2>6. asked[l].op.type \in Reads
    BY <2>4 DEF Reads
  <2>7. done[i].data = ReadBack(regs, asked[l].op)
    BY <1>5, <2>3, <2>5, <2>6, Zenon DEF ReadsAre
  <2>8. ReadBack(regs, asked[l].op) = <<regs[a]>>
    <3>1. ReadBack(regs, asked[l].op) = [z \in 1 .. 1 |-> regs[<<a>>[z]]]
      BY <2>4 DEF ReadBack, Reads, Elements
    <3>2. [z \in 1 .. 1 |-> regs[<<a>>[z]]] = <<regs[a]>>
      OBVIOUS
    <3> QED
      BY <3>1, <3>2
  <2> QED
    BY <2>3, <2>7, <2>8
<1>16. /\ AfterElements(R(j - 1), op, Elements(op)) = R(j)
       /\ op.type \in Reads => R(j - 1) = regs
  <2>1. Lossless(m)
    BY <1>4 DEF Smooth
  <2> HIDE DEF regs
  <2> QED
    BY <1>1, <1>8, <1>14, <1>15, <2>1, NextElements
<1>17. store' = R(j)
  BY <1>2, <1>6, <1>12, <1>13, <1>16
<1>18. \A x \in 0 .. Len(calls) : StoreAfter'[x] = StoreAfter[x]
  BY <1>1, <1>2, StoreAfterStays
<1>19. Carried(d)' = 1 .. j
  <2>1. Carried(d)' = Carried(d) \cup {j}
    <3>1. calls'[d] = calls[d]
      BY <1>2
    <3>2. ASSUME NEW i \in DOMAIN calls[d].commands
          PROVE  (\E x \in DOMAIN done' : done'[x].call = calls[d].commands[i])
                 <=> \/ \E x \in DOMAIN done : done[x].call = calls[d].commands[i]
                     \/ i = j
      <4>1. i # j => calls[d].commands[i] # k
        <5>1. i # j => i \in 1 .. j - 1
          BY <1>10, <1>11
        <5>2. i # j => calls[d].commands[i] < k /\ k \in Nat
          <6>1. k \in Nat
            BY <1>1, Shapes DEF TargetInv
          <6> QED
            BY <1>1, <1>8, <5>1, <6>1, CommandAt
        <5>3. \A x \in Nat : ~(x < x)
          OBVIOUS
        <5> QED
          BY <5>2, <5>3
      <4> QED
        BY <1>3, <1>8, <4>1
    <3> QED
      BY <3>1, <3>2 DEF Carried
  <2>2. 1 .. j = 1 .. j - 1 \cup {j}
    BY <1>11
  <2> QED
    BY <1>12, <1>13, <2>1, <2>2
<1>20. StoreIs'
  <2>1. j \in 0 .. Len(calls'[d].commands)
    BY <1>2, <1>11
  <2>2. StoreAfter'[d - 1] = regs
    BY <1>14, <1>18
  <2>3. Reached(m, j)' = Reached(m, j)
    BY <1>2 DEF Reached, Direct, checkIFS, Named, Strided
  <2> DEFINE r == Reached(m, j)
             w == Whole(m)
             s == StoreAfter[d - 1]
  <2>4. r' = r /\ w' = w /\ s' = s
    BY <1>2, <2>2, <2>3 DEF Whole, Named, Strided
  <2>5. store' = AfterElements(s, w, r)'
    <3>1. store' = AfterElements(s, w, r)
      BY <1>17
    <3> HIDE DEF r, w, s
    <3>2. AfterElements(s, w, r)' = AfterElements(s', w', r')
      BY DEF AfterElements, NewValue
    <3> QED
      BY <2>4, <3>1, <3>2, Zenon
  <2>6. d = Len(calls') /\ calls' # <<>>
    BY <1>2, <1>11
  <2> QED
    BY <1>19, <2>1, <2>5, <2>6 DEF StoreIs
<1>21. ReadsAre'
  <2> SUFFICES ASSUME NEW c \in DOMAIN calls, NEW i \in DOMAIN done',
                      done'[i].call \in S!ToSet(calls[c].commands),
                      asked[done'[i].call].op.type \in Reads
               PROVE  done'[i].data
                        = ReadBack(StoreAfter'[c - 1], asked[done'[i].call].op)
    <3>1. ReadsAre' <=>
            \A c \in DOMAIN calls', i \in DOMAIN done' :
               done'[i].call \in S!ToSet(calls'[c].commands)
               /\ asked'[done'[i].call].op.type \in Reads =>
                  done'[i].data = ReadBack(StoreAfter'[c - 1], asked'[done'[i].call].op)
      BY DEF ReadsAre, S!ToSet, ReadBack, Elements
    <3> QED
      BY <1>2, <3>1
  <2>1. StoreAfter'[c - 1] = StoreAfter[c - 1]
    <3>1. c - 1 \in 0 .. Len(calls)
      BY <1>10
    <3> QED
      BY <1>18, <3>1
  <2>2. CASE i \in DOMAIN done
    <3>1. done'[i] = done[i]
      BY <1>3, <2>2
    <3> QED
      BY <1>5, <2>1, <2>2, <3>1, Zenon DEF ReadsAre
  <2>3. CASE i = n
    <3>1. done'[i].call = k /\ done'[i].data = ReadBack(store, op)
      BY <1>3, <1>6, <2>3 DEF Given
    <3>2. PICK x \in DOMAIN calls[c].commands : k = calls[c].commands[x]
      BY <3>1 DEF S!ToSet
    <3>3. c = d
      BY <1>1, <1>8, <3>2, OneOwner
    <3>4. store = regs
      BY <1>12, <1>13, <1>16, <3>1
    <3> QED
      BY <2>1, <3>1, <3>3, <3>4
  <2> QED
    BY <1>3, <2>2, <2>3
<1> QED
  BY <1>20, <1>21

MethodsPart == Len(calls) <= MaxCalls /\ (Smooth => StoreIs /\ ReadsAre)

LEMMA StepMethodsInv == MethodsInv /\ [TargetNext]_targetVars => MethodsInv'
<1> SUFFICES ASSUME MethodsInv, [TargetNext]_targetVars
             PROVE  MethodsInv'
  OBVIOUS
<1>1. UpdatesInv /\ TargetInv /\ Len(calls) <= MaxCalls
  BY MethodsInvIs, UpdatesInvIs
<1>2. UpdatesInv' /\ TargetInv'
  <2>1. UpdatesInv'
    BY <1>1, StepUpdatesInv
  <2>2. TargetInv'
    BY <1>1, StepTargetInv
  <2> QED
    BY <2>1, <2>2
<1>3. Len(calls') <= MaxCalls
  <2>1. Len(calls) \in Nat /\ MaxCalls \in Nat /\ calls \in Seq(TargetCall)
    BY <1>1, Shapes, MaxCallsAssumption DEF TargetInv, TargetTypeOK
  <2>2. ASSUME NEW t \in Threads, NEW m \in Methods, Begin(t, m)
        PROVE  Len(calls') <= MaxCalls
    BY <2>1, <2>2 DEF Begin
  <2>3. ASSUME DOMAIN calls' = DOMAIN calls
        PROVE  Len(calls') <= MaxCalls
    <3>1. Len(calls') \in Nat /\ DOMAIN calls' = 1 .. Len(calls')
      <4>1. \A x : x \in Seq(TargetCall) => Len(x) \in Nat /\ DOMAIN x = 1 .. Len(x)
        OBVIOUS
      <4>2. PICK T : T = TargetCall
        OBVIOUS
      <4>3. calls' \in Seq(T)
        BY <1>2, <4>2 DEF TargetInv, TargetTypeOK, TargetCall, Method
      <4> QED
        BY <4>1, <4>2, <4>3
    <3> DEFINE x == Len(calls)
               y == Len(calls')
    <3>2. DOMAIN calls = 1 .. x
      BY <1>1, Shapes DEF TargetInv
    <3> HIDE DEF x, y
    <3>3. x \in Nat /\ y \in Nat /\ x <= MaxCalls
      BY <1>1, <2>1, <3>1 DEF x, y
    <3>4. y >= 1 => y \in 1 .. x
      <4>1. 1 .. y = 1 .. x
        BY <2>3, <3>1, <3>2 DEF y
      <4> QED
        BY <3>3, <4>1
    <3>5. y <= MaxCalls
      BY <2>1, <3>3, <3>4
    <3> QED
      BY <3>5 DEF y
  <2>4. ASSUME NEW t \in Threads, NEW c \in DOMAIN calls, Issue(t, c)
        PROVE  DOMAIN calls' = DOMAIN calls
    BY <1>1, <2>4, IssueEffect
  <2>5. ASSUME UNCHANGED calls
        PROVE  Len(calls') <= MaxCalls
    BY <1>1, <2>5
  <2>6. ASSUME NEW t \in Threads, NEW c \in DOMAIN calls,
               Refuse(t, c) \/ Receive(t, c) \/ Lose(t, c)
        PROVE  UNCHANGED calls
    BY <2>6 DEF Refuse, Receive, Lose
  <2>7. ASSUME NEW k \in DOMAIN asked, CarryOut(k)
        PROVE  UNCHANGED calls
    BY <2>7 DEF CarryOut
  <2> QED
    BY <2>2, <2>3, <2>4, <2>5, <2>6, <2>7 DEF TargetNext, targetVars
<1>4. ASSUME Smooth'
      PROVE  StoreIs' /\ ReadsAre'
  <2>1. ASSUME NEW t \in Threads, NEW c \in DOMAIN calls, Receive(t, c) \/ Lose(t, c)
        PROVE  StoreIs' /\ ReadsAre'
    <3>1. /\ UNCHANGED <<features, calls, asked, done, store>>
          /\ outcome[c] = "pending"
          /\ \A d \in DOMAIN outcome : d # c => outcome'[d] = outcome[d]
      BY <1>1, <2>1, AnswerEffect
    <3>2. DOMAIN outcome = DOMAIN calls
      BY <1>1, Shapes DEF TargetInv
    <3>3. \A d \in DOMAIN calls : outcome'[d] \in {"pending", "returned"} =>
                                     outcome[d] \in {"pending", "returned"}
      BY <3>1, <3>2
    <3> QED
      BY <1>4, <3>1, <3>3, MethodsOutcome
  <2>2. ASSUME NEW t \in Threads, NEW c \in DOMAIN calls, Refuse(t, c)
        PROVE  StoreIs' /\ ReadsAre'
    <3>1. /\ UNCHANGED <<features, calls, asked, done, store>>
          /\ outcome[c] = "pending"
          /\ outcome' = [outcome EXCEPT ![c] = "failed"]
      BY <2>2 DEF Refuse, Under, wireVars
    <3>2. \A d \in DOMAIN calls : outcome'[d] \in {"pending", "returned"} =>
                                     outcome[d] \in {"pending", "returned"}
      <4>1. DOMAIN outcome = DOMAIN calls
        BY <1>1, Shapes DEF TargetInv
      <4> QED
        BY <3>1, <4>1
    <3> QED
      BY <1>4, <3>1, <3>2, MethodsOutcome
  <2>3. ASSUME UNCHANGED targetVars
        PROVE  StoreIs' /\ ReadsAre'
    <3>1. UNCHANGED <<features, calls, outcome, asked, done, store>>
      BY <2>3 DEF targetVars, wireVars
    <3> QED
      BY <1>4, <3>1, MethodsOutcome
  <2> QED
    BY <1>2, <1>4, <2>1, <2>2, <2>3, BeginMethods, IssueMethods, CarryOutMethods
    DEF TargetNext
<1>5. MethodsPart'
  BY <1>3, <1>4 DEF MethodsPart
<1>6. UpdatesInv' /\ MethodsPart' => MethodsInv'
  BY MethodsInvIs, PTL DEF MethodsPart
<1> QED
  BY <1>2, <1>5, <1>6

\* As long as nothing has gone wrong with a single thread, the registers are
\* those after the calls that have returned and the first elements of the one
\* that has not (RegisterTarget.h:24-135).
THEOREM MethodsInvariant == TargetSpec => []MethodsInv
<1>1. TargetInit => MethodsInv
  <2> SUFFICES ASSUME TargetInit PROVE MethodsInv
    OBVIOUS
  <2>1. UpdatesInv
    BY InitUpdatesInv
  <2>2. calls = <<>> /\ store = [a \in Addrs |-> {}] /\ MaxCalls \in Nat
    BY MaxCallsAssumption DEF TargetInit, Wire!ServiceInit
  <2>3. StoreIs /\ ReadsAre
    BY <2>2, StoreAfterIs DEF Unfolded, StoreIs, ReadsAre
  <2>4. Len(calls) <= MaxCalls
    BY <2>2
  <2> QED
    BY <2>1, <2>3, <2>4, MethodsInvIs
<1>2. MethodsInv /\ [TargetNext]_targetVars => MethodsInv'
  BY StepMethodsInv
<1> QED
  BY <1>1, <1>2, PTL DEF TargetSpec

\* What a read has put into out_data.
LEMMA OutData ==
    ASSUME TargetInv, ReadsAre, NEW c \in DOMAIN calls, outcome[c] = "returned",
           Lossless(calls[c].method), calls[c].method.name \in ReadMethods,
           StoreAfter[c - 1] \in [Addrs -> Data]
    PROVE  out_data(c) = ReadBack(StoreAfter[c - 1], Whole(calls[c].method))
<1> DEFINE m == calls[c].method
           commands == calls[c].commands
           s == [j \in DOMAIN commands |-> answer[commands[j]].data]
<1>0. PICK regs \in [Addrs -> Data] : regs = StoreAfter[c - 1]
  OBVIOUS
<1>1. /\ m \in Methods /\ Len(commands) \in Nat
      /\ DOMAIN commands = 1 .. Len(commands)
  BY Shapes DEF TargetInv, InSequence
<1>2. Len(commands) = CommandCount(m)
  BY ReturnedCarried
<1>3. /\ Named(m) \in Seq(Addrs) /\ Len(Named(m)) = m.count /\ m.count \in Nat
      /\ m.name # "readModifyWrite"
  BY <1>1, NamedTyped, MethodTyped DEF ReadMethods
<1>4. ReadBack(regs, Whole(m)) = [i \in 1 .. m.count |-> regs[Named(m)[i]]]
  <2>1. Whole(m).type \in Reads /\ Whole(m).addrs = Named(m)
    BY DEF Whole, WireType, ReadMethods, Reads
  <2> QED
    BY <1>3, <2>1 DEF ReadBack, Elements
<1>5. ASSUME NEW j \in DOMAIN commands, Command(c, j).type \in Reads
      PROVE  answer[commands[j]].data = ReadBack(regs, Command(c, j))
  <2> DEFINE k == commands[j]
  <2>1. answer[k].kind = "ack" /\ asked[k].op = Command(c, j)
    BY KindAt, CommandAt
  <2>2. PICK i \in DOMAIN done : done[i].call = k /\ done[i].data = answer[k].data
    BY <2>1, AckedCarried
  <2>3. k \in S!ToSet(commands)
    BY DEF S!ToSet
  <2>4. done[i].data = ReadBack(StoreAfter[c - 1], asked[k].op)
    BY <1>5, <2>1, <2>2, <2>3, Zenon DEF ReadsAre
  <2> QED
    BY <1>0, <2>1, <2>2, <2>4
<1>6. CASE Direct(m)
  <2>1. Len(commands) = 1 /\ 1 \in DOMAIN commands
    BY <1>1, <1>2, <1>6, CountTyped
  <2>2. Command(c, 1) = DirectCommand(m)
    BY <1>6, Zenon DEF Command
  <2>3. DirectCommand(m).addrs = Named(m)
    BY <1>1, <1>3, <1>6, DirectNamed
  <2>4. DirectCommand(m).type \in Reads
    BY DEF DirectCommand, WireType, ReadMethods, Reads
  <2>5. answer[commands[1]].data = [i \in 1 .. m.count |-> regs[Named(m)[i]]]
    <3>1. answer[commands[1]].data = ReadBack(regs, DirectCommand(m))
      BY <1>5, <2>1, <2>2, <2>4
    <3>2. ReadBack(regs, DirectCommand(m))
            = [i \in 1 .. m.count |-> regs[Named(m)[i]]]
      BY <1>3, <2>3, <2>4 DEF ReadBack, Elements
    <3> QED
      BY <3>1, <3>2
  <2>6. Len(s) = 1 /\ s[1] = answer[commands[1]].data
    BY <1>1, <2>1
  <2> HIDE DEF s
  <2>7. S!FlattenSeq(s) = s[1]
    BY <2>6, FlattenOne
  <2> QED
    BY <1>0, <1>4, <2>5, <2>6, <2>7 DEF out_data, s
<1>7. CASE ~Direct(m)
  <2> DEFINE n == m.count
             e == [i \in 1 .. n |-> regs[Named(m)[i]]]
  <2>1. Len(commands) = n /\ DOMAIN commands = 1 .. n
    BY <1>1, <1>2, <1>3, <1>7, CountTyped
  <2>2. ASSUME NEW j \in 1 .. n
        PROVE  s[j] = <<e[j]>>
    <3>1. Command(c, j) = Element(m, j)
      BY <1>3, <1>7, Zenon DEF Command
    <3>2. Element(m, j).type = "ReadSingle" /\ Element(m, j).addrs = <<Named(m)[j]>>
      BY DEF Element
    <3>3. s[j] = ReadBack(regs, Element(m, j))
      BY <1>5, <2>1, <3>1, <3>2 DEF Reads
    <3>4. ReadBack(regs, Element(m, j)) = [z \in 1 .. 1 |-> regs[<<Named(m)[j]>>[z]]]
      BY <3>2 DEF ReadBack, Reads, Elements
    <3>5. [z \in 1 .. 1 |-> regs[<<Named(m)[j]>>[z]]] = <<regs[Named(m)[j]]>>
      OBVIOUS
    <3> QED
      BY <3>3, <3>4, <3>5
  <2>3. s = [i \in 1 .. n |-> <<e[i]>>]
    <3>1. DOMAIN s = 1 .. n
      BY <2>1
    <3> HIDE DEF e
    <3> QED
      BY <2>1, <2>2, <3>1
  <2>4. e \in Seq(Data) /\ Len(e) = n /\ n \in Nat
    <3>1. \A i \in 1 .. n : Named(m)[i] \in Addrs
      BY <1>3
    <3>2. e \in [1 .. n -> Data]
      BY <3>1
    <3> QED
      BY <1>3, <3>2
  <2> HIDE DEF s, e, n
  <2>5. Firsts(S!FlattenSeq(s), e, n)
    <3>1. n <= Len(e)
      BY <2>4
    <3>2. Singles(s, e, n)
      BY <2>3 DEF Singles
    <3> QED
      BY <2>4, <3>1, <3>2, FlattenSingles
  <2>6. [i \in 1 .. n |-> e[i]] = e
    BY DEF e
  <2>7. S!FlattenSeq(s) = e
    BY <2>5, <2>6 DEF Firsts
  <2> QED
    BY <1>0, <1>4, <2>7 DEF out_data, s, e, n
<1> QED
  BY <1>6, <1>7

\* The feature flags do not show: with a single thread whose calls have all
\* returned and were not cut by a cast, the registers and what was read are those
\* of whole methods carried out one after the other, whichever of their commands
\* the Cfg has a feature for (RegisterTarget.h:24-135).
THEOREM FeaturesHidden == TargetSpec => []FeaturesDoNotShow
<1>1. ASSUME MethodsInv,
             \A c, d \in DOMAIN calls : calls[c].thread = calls[d].thread,
             \A c \in DOMAIN calls :
                outcome[c] = "returned" /\ Lossless(calls[c].method)
      PROVE  /\ store = StoreAfter[Len(calls)]
             /\ \A c \in DOMAIN calls :
                   calls[c].method.name \in ReadMethods =>
                      out_data(c) = ReadBack(StoreAfter[c - 1],
                                             Whole(calls[c].method))
  <2>1. TargetInv /\ Owned /\ Len(calls) <= MaxCalls
    BY <1>1, MethodsInvIs, UpdatesInvIs
  <2>2. ASSUME NEW i \in DOMAIN done
        PROVE  done[i].ok
    <3> DEFINE k == done[i].call
    <3>1. k \in DOMAIN asked /\ k \in Nat /\ DOMAIN done \subseteq Nat
      BY <2>1, Shapes DEF TargetInv
    <3>2. PICK c \in DOMAIN calls : k \in S!ToSet(calls[c].commands)
      BY <2>1, <3>1 DEF Owned
    <3>3. PICK j \in DOMAIN calls[c].commands : k = calls[c].commands[j]
      BY <3>2 DEF S!ToSet
    <3>4. answer[k].kind = "ack"
      BY <1>1, <2>1, <3>3, KindAt
    <3>5. PICK l \in DOMAIN done : done[l].call = k /\ done[l].ok
      BY <2>1, <3>3, <3>4, AckedCarried
    <3>6. \A x, y \in DOMAIN done :
             x < y /\ asked[done[x].call].thread = asked[done[y].call].thread =>
                 done[x].call < done[y].call
      BY <2>1 DEF TargetInv, DoneInOrder
    <3>7. ~(k < k) /\ i \in Nat /\ l \in Nat
      BY <3>1
    <3>8. ~(i < l) /\ ~(l < i)
      BY <3>5, <3>6, <3>7
    <3>9. i = l
      BY <3>7, <3>8
    <3> QED
      BY <3>5, <3>9
  <2>3. Smooth
    BY <1>1, <2>2 DEF Smooth
  <2>4. StoreIs /\ ReadsAre
    BY <1>1, <2>3, MethodsInvIs
  <2>5. store = StoreAfter[Len(calls)]
    BY <1>1, <2>1, <2>4, StoreWhenQuiet
  <2>6. ASSUME NEW c \in DOMAIN calls, calls[c].method.name \in ReadMethods
        PROVE  out_data(c) = ReadBack(StoreAfter[c - 1], Whole(calls[c].method))
    <3>1. c - 1 \in 0 .. Len(calls)
      BY <2>1, Shapes DEF TargetInv
    <3>2. StoreAfter[c - 1] \in [Addrs -> Data]
      BY <2>1, <3>1, StoreAfterTyped
    <3> QED
      BY <1>1, <2>1, <2>4, <2>6, <3>2, OutData
  <2> QED
    BY <2>5, <2>6
<1>2. MethodsInv => FeaturesDoNotShow
  BY <1>1, Zenon DEF FeaturesDoNotShow
<1> QED
  BY <1>2, MethodsInvariant, PTL
=============================================================================
