---------------------- MODULE IpcTransportQueueProofs ----------------------
(***************************************************************************)
(* Theorems about IpcTransportQueue, for any number of producers and of    *)
(* consumers: no wakeup is lost, and the queue keeps the contract of       *)
(* ISyncWireTransport step by step.                                        *)
(***************************************************************************)
EXTENDS IpcTransportQueue, SequenceTheorems, FiniteSetTheorems, TLAPS

-----------------------------------------------------------------------------
(* Type correctness.                                                        *)

LEMMA InitTyped == Init => TypeOK
<1> SUFFICES ASSUME Init PROVE TypeOK
  OBVIOUS
<1>1. queue \in Seq(1 .. MaxPushes) /\ pushes \in 0 .. MaxPushes
  BY MaxPushesAssumption DEF Init
<1>2. /\ popping \in [Consumers -> {"no", "entering", "waiting", "woken"}]
      /\ expired = {} /\ notifying = {} /\ stop = "no"
  BY DEF Init
<1>3. last \in [Consumers -> [kind : {"nothing", "buffer", "timeout", "empty"},
                              buffer : 0 .. MaxPushes]]
  BY MaxPushesAssumption DEF Init, Returned
<1> QED
  BY <1>1, <1>2, <1>3 DEF TypeOK

\* Taking the front leaves a queue, and the front was pushed.
LEMMA PopTyped ==
    ASSUME TypeOK, queue # <<>>
    PROVE  /\ Head(queue) \in 1 .. MaxPushes
           /\ Popped(queue) \in Seq(1 .. MaxPushes)
           /\ Len(Popped(queue)) = Len(queue) - 1
           /\ Len(queue) \in Nat
<1>1. queue \in Seq(1 .. MaxPushes)
  BY DEF TypeOK
<1>2. /\ Head(queue) \in 1 .. MaxPushes
      /\ Tail(queue) \in Seq(1 .. MaxPushes)
      /\ Len(Tail(queue)) = Len(queue) - 1
  BY <1>1, HeadTailProperties
<1> QED
  BY <1>1, <1>2, LenProperties DEF Popped

LEMMA PushTyped ==
    ASSUME TypeOK, NEW p \in Producers, Push(p)
    PROVE  TypeOK' /\ Len(queue') = Len(queue) + 1
<1>1. pushes + 1 \in 1 .. MaxPushes
  BY MaxPushesAssumption DEF TypeOK, Push
<1>2. queue' \in Seq(1 .. MaxPushes) /\ Len(queue') = Len(queue) + 1
  BY <1>1, AppendProperties DEF TypeOK, Push
<1> QED
  BY <1>1, <1>2 DEF TypeOK, Push

LEMMA ReturnTyped ==
    ASSUME TypeOK, NEW c \in Consumers, ReturnFromPop(c)
    PROVE  TypeOK'
<1>1. queue' \in Seq(1 .. MaxPushes)
  BY PopTyped DEF ReturnFromPop, TypeOK
<1>2. PICK k \in {"empty", "timeout", "buffer"}, n \in 0 .. MaxPushes :
        last' = [last EXCEPT ![c] = Returned(k, n)]
  <2>1. 0 \in 0 .. MaxPushes /\ (queue # <<>> => Head(queue) \in 0 .. MaxPushes)
    BY PopTyped, MaxPushesAssumption
  <2> QED
    BY <2>1 DEF ReturnFromPop
<1>3. last' \in [Consumers -> [kind : {"nothing", "buffer", "timeout", "empty"},
                               buffer : 0 .. MaxPushes]]
  BY <1>2 DEF TypeOK, Returned
<1> QED
  BY <1>1, <1>3 DEF ReturnFromPop, TypeOK

LEMMA StepTyped ==
    ASSUME TypeOK, [Next]_vars
    PROVE  TypeOK'
<1>1. ASSUME NEW p \in Producers, Push(p)
      PROVE  TypeOK'
  BY <1>1, PushTyped
<1>2. ASSUME NEW p \in Producers, NotifyOne(p)
      PROVE  TypeOK'
  BY <1>2 DEF NotifyOne, Waiting, TypeOK
<1>3. ASSUME NEW c \in Consumers, ReturnFromPop(c)
      PROVE  TypeOK'
  BY <1>3, ReturnTyped
<1>4. ASSUME NEW c \in Consumers,
             CallPop(c) \/ Wait(c) \/ Expire(c) \/ WakeSpuriously(c)
      PROVE  TypeOK'
  BY <1>4 DEF CallPop, Wait, Expire, WakeSpuriously, TypeOK
<1>5. CASE RequestStop
  BY <1>5 DEF RequestStop, TypeOK
<1>6. CASE RunStopCallback
  BY <1>6 DEF RunStopCallback, Waiting, TypeOK
<1>7. CASE UNCHANGED vars
  BY <1>7 DEF vars, TypeOK
<1> QED
  BY <1>1, <1>2, <1>3, <1>4, <1>5, <1>6, <1>7 DEF Next

\* Every state of the queue is well typed, and a wait_for that has timed out is
\* one that has left the wait set (lines 13-48).
THEOREM QueueTypeCorrect == Spec => []TypeOK
<1>1. Init => TypeOK
  BY InitTyped
<1>2. TypeOK /\ [Next]_vars => TypeOK'
  BY StepTyped
<1> QED
  BY <1>1, <1>2, PTL DEF Spec

-----------------------------------------------------------------------------
(* The contract of ISyncWireTransport. Push is Arrive, CallPop is CallRecv,  *)
(* ReturnFromPop is one of the three ways in which a recv() ends, and to     *)
(* sleep and to wake up, for whatever reason, is no step of the contract.    *)

InPop == {c \in Consumers : popping[c] # "no"}

LEMMA Stutters ==
    ASSUME UNCHANGED <<queue, pushes, last>>, InPop' = InPop,
           (stop' # "no") = (stop # "no")
    PROVE  UNCHANGED Contract!transportVars
  BY DEF InPop, Contract!transportVars

LEMMA ReturnContract ==
    ASSUME TypeOK, NEW c \in Consumers, ReturnFromPop(c)
    PROVE  \/ Contract!RecvReturns(c)
           \/ Contract!RecvReturnsEmpty(c)
           \/ Contract!RecvThrows(c)
<1> DEFINE Told(r) == IF r.kind = "timeout" THEN Returned("thrown", 0) ELSE r
<1>1. UNCHANGED <<pushes, stop>> /\ popping[c] # "no"
      /\ {d \in Consumers : popping'[d] # "no"}
           = {d \in Consumers : popping[d] # "no"} \ {c}
  BY DEF ReturnFromPop, Awake, TypeOK
<1>2. ASSUME NEW r, last' = [last EXCEPT ![c] = r]
      PROVE  [d \in Consumers |-> Told(last'[d])]
               = [[d \in Consumers |-> Told(last[d])] EXCEPT ![c] = Told(r)]
  BY <1>2 DEF TypeOK
<1>3. CASE /\ StopRequested(c) /\ UNCHANGED queue
           /\ last' = [last EXCEPT ![c] = Returned("empty", 0)]
  <2>1. Told(Returned("empty", 0)) = [kind |-> "empty", buffer |-> 0]
    BY DEF Returned
  <2> QED
    BY <1>1, <1>2, <1>3, <2>1
    DEF Contract!RecvReturnsEmpty, Contract!EndRecv, Contract!Told, StopRequested
<1>4. CASE /\ UNCHANGED queue
           /\ last' = [last EXCEPT ![c] = Returned("timeout", 0)]
  <2>1. Told(Returned("timeout", 0)) = [kind |-> "thrown", buffer |-> 0]
    BY DEF Returned
  <2> QED
    BY <1>1, <1>2, <1>4, <2>1
    DEF Contract!RecvThrows, Contract!EndRecv, Contract!Told
<1>5. CASE /\ queue # <<>> /\ queue' = Tail(queue)
           /\ last' = [last EXCEPT ![c] = Returned("buffer", Head(queue))]
  <2>1. Told(Returned("buffer", Head(queue)))
          = [kind |-> "buffer", buffer |-> Head(queue)]
    BY DEF Returned
  <2> QED
    BY <1>1, <1>2, <1>5, <2>1
    DEF Contract!RecvReturns, Contract!EndRecv, Contract!Told
<1> QED
  BY <1>3, <1>4, <1>5 DEF ReturnFromPop, Popped

LEMMA StepContract ==
    ASSUME TypeOK, [Next]_vars
    PROVE  Contract!TransportNext \/ UNCHANGED Contract!transportVars
<1>1. ASSUME NEW p \in Producers, Push(p)
      PROVE  Contract!Arrive
  BY <1>1 DEF Push, Contract!Arrive
<1>2. ASSUME NEW c \in Consumers, CallPop(c)
      PROVE  Contract!CallRecv(c)
  <2>1. /\ UNCHANGED <<queue, pushes, last, stop>> /\ popping[c] = "no"
        /\ {d \in Consumers : popping'[d] # "no"}
             = {d \in Consumers : popping[d] # "no"} \cup {c}
    BY <1>2 DEF CallPop, TypeOK
  <2> QED
    BY <2>1 DEF Contract!CallRecv
<1>3. ASSUME RequestStop
      PROVE  Contract!SignalStop
  <2>1. (stop # "no")' = TRUE
    BY <1>3 DEF RequestStop
  <2>2. UNCHANGED <<queue, pushes, last, popping>>
    BY <1>3 DEF RequestStop
  <2> QED
    BY <2>1, <2>2 DEF Contract!SignalStop
<1>4. ASSUME NEW p \in Producers, NotifyOne(p)
      PROVE  UNCHANGED Contract!transportVars
  <2>1. InPop' = InPop
    BY <1>4 DEF NotifyOne, Waiting, InPop, TypeOK
  <2> QED
    BY <1>4, <2>1, Stutters DEF NotifyOne
<1>5. ASSUME NEW c \in Consumers, Wait(c) \/ Expire(c) \/ WakeSpuriously(c)
      PROVE  UNCHANGED Contract!transportVars
  <2>1. InPop' = InPop
    BY <1>5 DEF Wait, Expire, WakeSpuriously, Awake, InPop, TypeOK
  <2> QED
    BY <1>5, <2>1, Stutters DEF Wait, Expire, WakeSpuriously
<1>6. CASE RunStopCallback
  <2>1. InPop' = InPop
    BY <1>6 DEF RunStopCallback, Waiting, InPop, TypeOK
  <2> QED
    BY <1>6, <2>1, Stutters DEF RunStopCallback
<1>7. CASE UNCHANGED vars
  BY <1>7, Stutters DEF vars, InPop
<1>8. ASSUME NEW c \in Consumers, ReturnFromPop(c)
      PROVE  Contract!TransportNext
  BY <1>8, ReturnContract DEF Contract!TransportNext
<1>9. ASSUME NEW c \in Consumers, CallPop(c)
      PROVE  Contract!TransportNext
  BY <1>9, <1>2 DEF Contract!TransportNext
<1>10. (Contract!Arrive \/ Contract!SignalStop) => Contract!TransportNext
  BY DEF Contract!TransportNext
<1>11. CASE \E p \in Producers : Push(p) \/ NotifyOne(p)
  BY <1>1, <1>4, <1>10, <1>11
<1>12. CASE \E c \in Consumers : \/ CallPop(c) \/ Wait(c) \/ ReturnFromPop(c)
                                \/ Expire(c) \/ WakeSpuriously(c)
  BY <1>5, <1>8, <1>9, <1>12
<1> QED
  BY <1>3, <1>6, <1>7, <1>10, <1>11, <1>12 DEF Next

\* Whichever consumers compete for it, with whatever timeouts, spurious wakeups
\* and stop requests, the queue hands each buffer out once and in order, and a
\* pop() that times out or is stopped has taken nothing (lines 13-48).
THEOREM QueueKeepsContract == Spec => KeepsContract
<1>1. Init => Contract!TransportInit
  BY DEF Init, Returned, Contract!TransportInit, Contract!Told
<1>2. TypeOK /\ [Next]_vars
        => [Contract!TransportNext]_(Contract!transportVars)
  BY StepContract
<1> QED
  BY <1>1, <1>2, QueueTypeCorrect, PTL
  DEF Spec, KeepsContract, Contract!TransportSpec

-----------------------------------------------------------------------------
(* No wakeup is lost. The argument counts what stands behind the buffers     *)
(* while somebody sleeps: a push adds a buffer and a notifier, a             *)
(* notification turns the notifier into a woken consumer, and a woken        *)
(* consumer either takes a buffer away or finds the queue empty.             *)

InCall == {c \in Consumers : popping[c] # "no"}

\* What Covered says, in the names that the proofs use.
Counted ==
    Waiting # {} /\ stop # "requested" =>
        Len(queue) <= Cardinality(notifying) + Cardinality(Woken)

LEMMA Counts ==
    ASSUME TypeOK, IsFiniteSet(notifying), IsFiniteSet(InCall)
    PROVE  /\ Cardinality(notifying) \in Nat
           /\ IsFiniteSet(Woken) /\ Cardinality(Woken) \in Nat
           /\ IsFiniteSet(Looking) /\ Cardinality(Looking) \in Nat
           /\ Cardinality(Woken) <= Cardinality(Looking)
           /\ Len(queue) \in Nat
<1>1. Woken \subseteq Looking /\ Looking \subseteq InCall
  BY DEF Woken, Looking, Awake, InCall
<1>2. IsFiniteSet(Looking)
  BY <1>1, FS_Subset
<1>3. IsFiniteSet(Woken) /\ Cardinality(Woken) <= Cardinality(Looking)
  BY <1>1, <1>2, FS_Subset
<1>4. Len(queue) \in Nat
  BY LenProperties DEF TypeOK
<1> QED
  BY <1>2, <1>3, <1>4, FS_CardinalityType

\* The count is enough: who has been woken up is one of those that look.
LEMMA CoveredParts ==
    /\ TypeOK /\ IsFiniteSet(notifying) /\ IsFiniteSet(InCall)
    /\ stop = "done" => TokenConsumers \cap Waiting = {}
    /\ Counted
    => Covered
<1> SUFFICES ASSUME TypeOK, IsFiniteSet(notifying), IsFiniteSet(InCall),
                    stop = "done" => TokenConsumers \cap Waiting = {}, Counted
             PROVE  Covered
  OBVIOUS
<1>1. WakeupsCover
  BY Counts DEF WakeupsCover, Counted
<1> QED
  BY <1>1 DEF Covered, Counted, InCall

LEMMA CoveredNext ==
    ASSUME TypeOK', IsFiniteSet(notifying'), IsFiniteSet(InCall'),
           stop' = "done" => TokenConsumers \cap Waiting' = {}, Counted'
    PROVE  Covered'
<1>1. Woken' \subseteq Looking' /\ Looking' \subseteq InCall'
  BY DEF Woken, Looking, Awake, InCall
<1>2. IsFiniteSet(Looking')
  BY <1>1, FS_Subset
<1>3. IsFiniteSet(Woken') /\ Cardinality(Woken') <= Cardinality(Looking')
  BY <1>1, <1>2, FS_Subset
<1>4. Len(queue') \in Nat /\ Cardinality(notifying') \in Nat
      /\ Cardinality(Woken') \in Nat /\ Cardinality(Looking') \in Nat
  BY <1>2, <1>3, FS_CardinalityType, LenProperties DEF TypeOK
<1>5. WakeupsCover'
  BY <1>3, <1>4 DEF WakeupsCover, Counted
<1> QED
  BY <1>5 DEF Covered, Counted, InCall

\* Fewer buffers, more notifiers or more woken consumers keep the count.
LEMMA CountKept ==
    ASSUME TypeOK, TypeOK', Counted, IsFiniteSet(notifying), IsFiniteSet(InCall),
           IsFiniteSet(notifying'), IsFiniteSet(InCall'),
           Waiting' # {} /\ stop' # "requested" =>
               /\ Waiting # {} /\ stop # "requested"
               /\ Len(queue') <= Len(queue)
               /\ notifying \subseteq notifying' /\ Woken \subseteq Woken'
    PROVE  Counted'
<1> SUFFICES ASSUME Waiting' # {}, stop' # "requested"
             PROVE  Len(queue') <= Cardinality(notifying') + Cardinality(Woken')
  BY DEF Counted
<1>1. IsFiniteSet(Woken') /\ Cardinality(Woken') \in Nat
      /\ Cardinality(notifying') \in Nat /\ Len(queue') \in Nat
  <2>1. /\ IsFiniteSet(Woken)' /\ (Cardinality(Woken) \in Nat)'
        /\ (Cardinality(notifying) \in Nat)' /\ (Len(queue) \in Nat)'
    <3>1. Woken' \subseteq InCall'
      BY DEF Woken, InCall
    <3>2. IsFiniteSet(Woken')
      BY <3>1, FS_Subset
    <3> QED
      BY <3>2, FS_CardinalityType, LenProperties DEF TypeOK
  <2> QED
    BY <2>1
<1>2. Cardinality(notifying) <= Cardinality(notifying')
      /\ Cardinality(Woken) <= Cardinality(Woken')
  BY <1>1, FS_Subset
<1> QED
  BY <1>1, <1>2, Counts DEF Counted

LEMMA PushCovers ==
    ASSUME TypeOK, Covered, NEW p \in Producers, Push(p)
    PROVE  Covered'
<1>1. TypeOK' /\ Len(queue') = Len(queue) + 1
  BY PushTyped
<1>2. /\ p \notin notifying /\ notifying' = notifying \cup {p}
      /\ UNCHANGED <<popping, stop>>
  BY DEF Push
<1>3. /\ IsFiniteSet(notifying) /\ IsFiniteSet(InCall) /\ Counted
      /\ stop = "done" => TokenConsumers \cap Waiting = {}
  BY DEF Covered, InCall, Counted
<1>4. /\ IsFiniteSet(notifying')
      /\ Cardinality(notifying') = Cardinality(notifying) + 1
  BY <1>2, <1>3, FS_AddElement
<1>5. Woken' = Woken /\ Waiting' = Waiting /\ InCall' = InCall
  BY <1>2 DEF Woken, Waiting, InCall, StopRequested
<1>6. Counted'
  BY <1>1, <1>2, <1>3, <1>4, <1>5, Counts DEF Counted
<1>7. IsFiniteSet(InCall)'
      /\ (stop = "done" => TokenConsumers \cap Waiting = {})'
  BY <1>2, <1>3, <1>5
<1> QED
  BY <1>1, <1>4, <1>6, <1>7, CoveredNext

LEMMA NotifyCovers ==
    ASSUME TypeOK, TypeOK', Covered, NEW p \in Producers, NotifyOne(p)
    PROVE  Covered'
<1>1. /\ IsFiniteSet(notifying) /\ IsFiniteSet(InCall) /\ Counted
      /\ stop = "done" => TokenConsumers \cap Waiting = {}
  BY DEF Covered, InCall, Counted
<1>2. /\ p \in notifying /\ notifying' = notifying \ {p}
      /\ UNCHANGED <<queue, stop>>
  BY DEF NotifyOne
<1>3. /\ IsFiniteSet(notifying')
      /\ Cardinality(notifying') = Cardinality(notifying) - 1
  BY <1>1, <1>2, FS_RemoveElement
<1>4. InCall' = InCall /\ Waiting' \subseteq Waiting
  BY DEF NotifyOne, Waiting, InCall, TypeOK
<1>5. Counted'
  <2>1. CASE Waiting = {}
    BY <2>1, <1>4 DEF Counted
  <2>2. CASE Waiting # {} /\ stop # "requested"
    <3>1. PICK c \in Waiting : popping' = [popping EXCEPT ![c] = "woken"]
      BY <2>2 DEF NotifyOne
    <3>2. c \notin Woken /\ ~StopRequested(c)
      BY <1>1, <2>2, <3>1 DEF Woken, Waiting, StopRequested, TypeOK
    <3>3. Woken' = Woken \cup {c}
      BY <1>2, <3>1, <3>2 DEF Woken, Waiting, StopRequested, TypeOK
    <3>4. Cardinality(Woken') = Cardinality(Woken) + 1
      BY <1>1, <3>2, <3>3, Counts, FS_AddElement
    <3> QED
      BY <1>1, <1>2, <1>3, <1>4, <2>2, <3>4, Counts DEF Counted
  <2>3. CASE stop = "requested"
    BY <1>2, <2>3 DEF Counted
  <2> QED
    BY <2>1, <2>2, <2>3
<1>6. IsFiniteSet(InCall)'
      /\ (stop = "done" => TokenConsumers \cap Waiting = {})'
  BY <1>1, <1>2, <1>4
<1> QED
  BY <1>3, <1>5, <1>6, CoveredNext

\* The steps of the consumers, which need no arithmetic but for a pop.
LEMMA ConsumerCovers ==
    ASSUME TypeOK, TypeOK', Covered, NEW c \in Consumers,
           \/ CallPop(c) \/ Wait(c) \/ ReturnFromPop(c)
           \/ Expire(c) \/ WakeSpuriously(c)
    PROVE  Covered'
<1>1. /\ IsFiniteSet(notifying) /\ IsFiniteSet(InCall) /\ Counted
      /\ stop = "done" => TokenConsumers \cap Waiting = {}
  BY DEF Covered, InCall, Counted
<1>2. UNCHANGED <<notifying, stop>>
  BY DEF CallPop, Wait, ReturnFromPop, Expire, WakeSpuriously
<1>3. InCall' \subseteq InCall \cup {c}
  BY DEF CallPop, Wait, ReturnFromPop, Expire, WakeSpuriously, Awake, InCall, TypeOK
<1>4. IsFiniteSet(notifying') /\ IsFiniteSet(InCall')
  <2>1. IsFiniteSet(InCall \cup {c})
    BY <1>1, FS_AddElement
  <2> QED
    BY <1>1, <1>2, <1>3, <2>1, FS_Subset
<1>5. (stop = "done" => TokenConsumers \cap Waiting = {})'
  BY <1>1, <1>2
  DEF CallPop, Wait, ReturnFromPop, Expire, WakeSpuriously, StopRequested,
      Waiting, TypeOK
<1>6. Counted'
  <2>1. CASE CallPop(c) \/ Expire(c) \/ WakeSpuriously(c)
    <3>1. Waiting' \subseteq Waiting /\ Woken \subseteq Woken' /\ queue' = queue
      BY <1>2, <2>1
      DEF CallPop, Expire, WakeSpuriously, Waiting, Woken, StopRequested, TypeOK
    <3> QED
      BY <1>1, <1>2, <1>4, <3>1, Counts, CountKept
  <2>2. CASE Wait(c)
    <3>1. Len(queue') = 0
      BY <2>2 DEF Wait
    <3>2. Woken' \subseteq InCall'
      BY DEF Woken, InCall
    <3>3. Cardinality(Woken') \in Nat /\ Cardinality(notifying') \in Nat
      BY <1>4, <3>2, FS_Subset, FS_CardinalityType
    <3> QED
      BY <3>1, <3>3 DEF Counted
  <2>3. CASE ReturnFromPop(c)
    <3>1. /\ Waiting' = Waiting /\ Woken' = Woken \ {c}
      BY <1>2, <2>3 DEF ReturnFromPop, Awake, Waiting, Woken, StopRequested, TypeOK
    <3>2. /\ IsFiniteSet(Woken')
          /\ Cardinality(Woken') \in Nat
          /\ Cardinality(Woken') \in {Cardinality(Woken), Cardinality(Woken) - 1}
          /\ c \notin Woken => Cardinality(Woken') = Cardinality(Woken)
      BY <1>1, <3>1, Counts, FS_RemoveElement, FS_CardinalityType
    <3>3. CASE StopRequested(c)
      <4>1. c \notin Woken /\ queue' = queue
        BY <2>3, <3>3 DEF ReturnFromPop, Woken
      <4> QED
        BY <1>1, <1>2, <3>1, <3>2, <4>1 DEF Counted
    <3>4. CASE ~StopRequested(c) /\ queue = <<>>
      <4>1. Len(queue') = 0
        BY <2>3, <3>4 DEF ReturnFromPop
      <4> QED
        BY <1>1, <1>2, <3>2, <4>1, Counts DEF Counted
    <3>5. CASE ~StopRequested(c) /\ queue # <<>>
      <4>1. Len(queue') = Len(queue) - 1
        BY <2>3, <3>5, PopTyped DEF ReturnFromPop
      <4> QED
        BY <1>1, <1>2, <3>1, <3>2, <4>1, Counts DEF Counted
    <3> QED
      BY <3>3, <3>4, <3>5
  <2> QED
    BY <2>1, <2>2, <2>3
<1> QED
  BY <1>4, <1>5, <1>6, CoveredNext

LEMMA StopCovers ==
    ASSUME TypeOK, TypeOK', Covered, RequestStop \/ RunStopCallback
    PROVE  Covered'
<1>1. /\ IsFiniteSet(notifying) /\ IsFiniteSet(InCall) /\ Counted
  BY DEF Covered, InCall, Counted
<1>2. IsFiniteSet(notifying') /\ IsFiniteSet(InCall')
  <2>1. notifying' = notifying /\ InCall' = InCall
    BY DEF RequestStop, RunStopCallback, Waiting, InCall, TypeOK
  <2> QED
    BY <1>1, <2>1
<1>3. CASE RequestStop /\ Registered = {}
  <2>1. Woken' = Woken /\ Waiting' = Waiting /\ UNCHANGED <<queue, notifying>>
    BY <1>3 DEF RequestStop, Woken, Waiting, Registered, StopRequested
  <2>2. stop # "requested" /\ TokenConsumers \cap Waiting = {}
    BY <1>3 DEF RequestStop, Registered, Waiting
  <2>3. Counted'
    BY <1>1, <2>1, <2>2 DEF Counted
  <2> QED
    BY <1>2, <2>1, <2>2, <2>3, CoveredNext
<1>4. CASE RequestStop /\ Registered # {}
  <2>1. stop' = "requested"
    BY <1>4 DEF RequestStop
  <2>2. Counted' /\ (stop = "done" => TokenConsumers \cap Waiting = {})'
    BY <2>1 DEF Counted
  <2> QED
    BY <1>2, <2>2, CoveredNext
<1>5. CASE RunStopCallback
  <2>1. Waiting' = {}
    BY <1>5 DEF RunStopCallback, Waiting
  <2>2. Counted' /\ (stop = "done" => TokenConsumers \cap Waiting = {})'
    BY <2>1 DEF Counted
  <2> QED
    BY <1>2, <2>2, CoveredNext
<1> QED
  BY <1>3, <1>4, <1>5

LEMMA CoveredInit == Init => Covered
<1> SUFFICES ASSUME Init PROVE Covered
  OBVIOUS
<1>1. InCall = {} /\ Waiting = {} /\ notifying = {} /\ TypeOK
  BY InitTyped DEF Init, InCall, Waiting
<1>2. IsFiniteSet(InCall) /\ IsFiniteSet(notifying)
  BY <1>1, FS_EmptySet
<1> QED
  BY <1>1, <1>2, CoveredParts DEF Counted

LEMMA CoveredStep == TypeOK /\ Covered /\ [Next]_vars => Covered'
<1> SUFFICES ASSUME TypeOK, Covered, [Next]_vars PROVE Covered'
  OBVIOUS
<1>1. TypeOK'
  BY StepTyped
<1>2. CASE UNCHANGED vars
  <2>1. /\ Waiting' = Waiting /\ Woken' = Woken /\ Looking' = Looking
        /\ UNCHANGED <<queue, notifying, popping, stop>>
    BY <1>2 DEF vars, Waiting, Woken, Looking, Awake, StopRequested
  <2> QED
    BY <2>1 DEF Covered, WakeupsCover
<1> QED
  BY <1>1, <1>2, PushCovers, NotifyCovers, ConsumerCovers, StopCovers DEF Next

\* While somebody sleeps in pop(), there are at least as many notifications under
\* way and woken consumers as buffers in the queue, and no consumer with the token
\* sleeps on once the stop callback is through (lines 13-48).
THEOREM WakeupsAreCounted == Spec => []Covered
<1>1. Init => Covered
  BY CoveredInit
<1>2. TypeOK /\ Covered /\ [Next]_vars => Covered'
  BY CoveredStep
<1> QED
  BY <1>1, <1>2, QueueTypeCorrect, PTL DEF Spec

\* No consumer sleeps on while there is a buffer that nobody is on the way to:
\* notify_one after the unlock, competing consumers, timeouts and stop requests
\* lose no wakeup, whatever their number (lines 13-48).
THEOREM NoLostWakeup == Spec => []WakeupsCover
<1>1. Covered => WakeupsCover
  BY DEF Covered
<1> QED
  BY <1>1, WakeupsAreCounted, PTL
=============================================================================
