--------------------------- MODULE RapLinkProofs ---------------------------
(***************************************************************************)
(* Theorems about RapLink, for any threads, operations, configuration,     *)
(* number of transaction ids and number of calls.                          *)
(***************************************************************************)
EXTENDS RapLink, RegistersProofs, SerdesSizeProofs, SequenceTheorems,
        FiniteSetTheorems

-----------------------------------------------------------------------------
(* Type correctness. TypeOK needs Numbered: a worker that handled a command *)
(* of no call would answer with no data at all.                             *)

\* The call numbers found in a state are numbers.
LEMMA CallNumbersAreNat ==
    ASSUME TypeOK
    PROVE  /\ Len(calls) \in Nat
           /\ \A i \in DOMAIN c2s : c2s[i] \in Nat
           /\ \A i \in DOMAIN s2c : s2c[i].call \in Nat
           /\ \A i \in DOMAIN performed : performed[i].call \in Nat
           /\ cmd \in Nat
           /\ resp.call \in Nat
<1> USE BoundsAssumption
<1>1. Len(calls) \in Nat /\ cmd \in Nat
  BY DEF TypeOK
<1>2. \A i \in DOMAIN c2s : c2s[i] \in Nat
  BY DEF TypeOK, CallNumbers
<1>3. \A r \in Response : r.call \in Nat
  BY DEF Response, CallNumbers
<1>4. \A i \in DOMAIN s2c : s2c[i].call \in Nat
  BY <1>3 DEF TypeOK
<1>5. \A i \in DOMAIN performed : performed[i].call \in Nat
  BY <1>3 DEF TypeOK
<1>6. resp.call \in Nat
  <2>1. CASE resp \in Response
    BY <1>3, <2>1
  <2>2. CASE resp = NoResponse
    BY <2>2 DEF NoResponse
  <2> QED
    BY <2>1, <2>2 DEF TypeOK
<1> QED
  BY <1>1, <1>2, <1>4, <1>5, <1>6

\* What is received of an operation is one, of no more elements.
LEMMA AsReceivedType ==
    ASSUME NEW op, WellFormed(op)
    PROVE  /\ WellFormed(AsReceived(op))
           /\ AsReceived(op).type = op.type
           /\ Elements(AsReceived(op)) \in 0 .. Elements(op)
<1> DEFINE n == Elements(op)
           m == CountCarried(Cfg, n)
<1>1. /\ op \in Operations /\ op.addrs \in Seq(Addrs)
      /\ n = Len(op.addrs) /\ n \in Nat
  BY DEF WellFormed, Operations, Elements
<1>2. m \in 0 .. n
  BY <1>1, CfgAssumption, CountCarriedType
<1> HIDE DEF m
<1>3. CASE op.type = "ReadSeq"
  <2> DEFINE cut == SubSeq(op.addrs, 1, m)
  <2>1. cut \in Seq(Addrs) /\ Len(cut) = m
    BY <1>1, <1>2, SubSeqProperties
  <2>2. AsReceived(op) = [op EXCEPT !.addrs = cut]
    BY <1>3 DEF AsReceived, m
  <2> HIDE DEF cut
  <2>3. /\ AsReceived(op) \in Operations
        /\ AsReceived(op).type = op.type /\ AsReceived(op).addrs = cut
    BY <1>1, <2>1, <2>2 DEF Operations
  <2> QED
    BY <1>1, <1>2, <1>3, <2>1, <2>3 DEF WellFormed, Elements
<1>4. CASE op.type # "ReadSeq"
  BY <1>1, <1>4 DEF AsReceived
<1> QED
  BY <1>3, <1>4

LEMMA InitTyped == Init => TypeOK /\ Numbered
<1> SUFFICES ASSUME Init PROVE TypeOK /\ Numbered
  OBVIOUS
<1>1. TypeOK
  <2>1. /\ calls \in Seq(Call) /\ result \in Seq(Result)
        /\ c2s \in Seq(CallNumbers) /\ s2c \in Seq(Response)
        /\ performed \in Seq(Response)
    BY DEF Init
  <2>2. /\ cur \in [Threads -> 0 .. MaxCalls]
        /\ next_txn_id \in 0 .. TxnMod - 1
        /\ cmd \in 0 .. MaxCalls
    BY BoundsAssumption DEF Init
  <2>3. regs \in [Addrs -> Data]
    BY DEF Init, Data
  <2> QED
    BY <2>1, <2>2, <2>3 DEF Init, TypeOK
<1>2. Numbered
  BY BoundsAssumption DEF Init, Numbered, NoResponse
<1> QED
  BY <1>1, <1>2

LEMMA BeginTyped ==
    ASSUME TypeOK, Numbered, NEW t \in Threads, NEW op \in Ops, Begin(t, op)
    PROVE  TypeOK' /\ Numbered'
<1> USE BoundsAssumption DEF Begin, TxnIdAfter, serverVars
<1> DEFINE c == [thread |-> t, op |-> op, txn |-> next_txn_id]
<1>1. c \in Call
  BY DEF Call, TypeOK
<1>2. calls' \in Seq(Call) /\ Len(calls') = Len(calls) + 1
  BY <1>1 DEF TypeOK
<1>3. Ended("pending") \in Result
  BY DEF Ended, Result, Outcomes
<1>4. result' \in Seq(Result) /\ Len(result') = Len(result) + 1
  BY <1>3 DEF TypeOK
<1>5. next_txn_id' \in 0 .. TxnMod - 1
  BY DEF TypeOK
<1>6. /\ cur' \in [Threads -> 0 .. MaxCalls]
      /\ pc' \in [Threads -> {"idle", "send", "recv"}]
  BY DEF TypeOK
<1>7. TypeOK'
  BY <1>2, <1>4, <1>5, <1>6 DEF TypeOK
<1>8. \A u \in Threads : cur'[u] <= Len(calls') /\ (pc'[u] # "idle" => cur'[u] # 0)
  BY <1>2 DEF TypeOK, Numbered
<1>9. /\ \A i \in DOMAIN c2s' : c2s'[i] <= Len(calls')
      /\ \A i \in DOMAIN s2c' : s2c'[i].call <= Len(calls')
      /\ \A i \in DOMAIN performed' : performed'[i].call <= Len(calls')
      /\ cmd' <= Len(calls') /\ resp'.call <= Len(calls')
  BY <1>2, CallNumbersAreNat DEF Numbered
<1>10. Numbered'
  BY <1>2, <1>4, <1>8, <1>9 DEF Numbered
<1> QED
  BY <1>7, <1>10
\* Every step of a waiting or sending thread ends with one call's result set,
\* or leaves the results alone.
LEMMA EndCallTyped ==
    ASSUME TypeOK, Numbered, NEW t \in Threads, NEW r \in Result,
           pc[t] # "idle",
           result' = [result EXCEPT ![cur[t]] = r],
           pc' = [pc EXCEPT ![t] = "idle"]
    PROVE  /\ result' \in Seq(Result) /\ Len(result') = Len(result)
           /\ pc' \in [Threads -> {"idle", "send", "recv"}]
           /\ \A u \in Threads : pc'[u] # "idle" => cur[u] # 0
<1>1. result' \in Seq(Result) /\ Len(result') = Len(result)
  <2>1. cur[t] \in 1 .. Len(result)
    BY BoundsAssumption DEF TypeOK, Numbered
  <2> QED
    BY <2>1, ExceptSeq DEF TypeOK
<1>2. pc' \in [Threads -> {"idle", "send", "recv"}]
  BY DEF TypeOK
<1>3. \A u \in Threads : pc'[u] # "idle" => pc[u] # "idle"
  BY DEF TypeOK
<1> QED
  BY <1>1, <1>2, <1>3 DEF Numbered

LEMMA EndedType ==
    ASSUME NEW kind \in Outcomes
    PROVE  Ended(kind) \in Result
  BY BoundsAssumption DEF Ended, Result

LEMMA RefuseTyped ==
    ASSUME TypeOK, Numbered, NEW t \in Threads, Refuse(t)
    PROVE  TypeOK' /\ Numbered'
<1> USE DEF Refuse, serverVars
<1>1. Ended("refused") \in Result
  BY EndedType DEF Outcomes
<1>2. /\ result' \in Seq(Result) /\ Len(result') = Len(result)
      /\ pc' \in [Threads -> {"idle", "send", "recv"}]
      /\ \A u \in Threads : pc'[u] # "idle" => cur[u] # 0
  BY <1>1, EndCallTyped
<1>3. TypeOK'
  BY <1>2 DEF TypeOK
<1>4. Numbered'
  BY <1>2 DEF Numbered
<1> QED
  BY <1>3, <1>4

LEMMA TimeoutTyped ==
    ASSUME TypeOK, Numbered, NEW t \in Threads, Timeout(t)
    PROVE  TypeOK' /\ Numbered'
<1> USE DEF Timeout, serverVars
<1>1. Ended("timeout") \in Result
  BY EndedType DEF Outcomes
<1>2. /\ result' \in Seq(Result) /\ Len(result') = Len(result)
      /\ pc' \in [Threads -> {"idle", "send", "recv"}]
      /\ \A u \in Threads : pc'[u] # "idle" => cur[u] # 0
  BY <1>1, EndCallTyped
<1>3. TypeOK'
  BY <1>2 DEF TypeOK
<1>4. Numbered'
  BY <1>2 DEF Numbered
<1> QED
  BY <1>3, <1>4

LEMMA SendTyped ==
    ASSUME TypeOK, Numbered, NEW t \in Threads, Send(t)
    PROVE  TypeOK' /\ Numbered'
<1> USE DEF Send, Pushed, serverVars
<1>1. cur[t] \in CallNumbers /\ cur[t] <= Len(calls)
  BY BoundsAssumption DEF TypeOK, Numbered, CallNumbers
<1>2. c2s' \in Seq(CallNumbers)
  BY <1>1 DEF TypeOK
<1>3. \A i \in DOMAIN c2s' : c2s'[i] <= Len(calls)
  BY <1>1 DEF TypeOK, Numbered
<1>4. /\ pc' \in [Threads -> {"idle", "send", "recv"}]
      /\ \A u \in Threads : pc'[u] # "idle" => pc[u] # "idle"
  BY DEF TypeOK
<1>5. TypeOK'
  BY <1>2, <1>4 DEF TypeOK
<1>6. Numbered'
  BY <1>3, <1>4 DEF Numbered
<1> QED
  BY <1>5, <1>6

LEMMA RecvTyped ==
    ASSUME TypeOK, Numbered, NEW t \in Threads, Recv(t)
    PROVE  TypeOK' /\ Numbered'
<1> USE DEF Recv, Popped, serverVars
<1> DEFINE f == Head(s2c)
           r == [kind |-> Judge(cur[t], f), from |-> f.call, data |-> f.data]
<1>1. f \in Response /\ s2c' \in Seq(Response)
  BY DEF TypeOK
<1>2. \A i \in DOMAIN s2c' : s2c'[i].call <= Len(calls)
  <2>1. \A i \in DOMAIN s2c' : i + 1 \in DOMAIN s2c /\ s2c'[i] = s2c[i + 1]
    BY DEF TypeOK
  <2> QED
    BY <2>1 DEF Numbered
<1>3. Judge(cur[t], f) \in Outcomes
  BY DEF Judge, Outcomes
<1>4. r \in Result
  BY <1>1, <1>3, BoundsAssumption DEF Result, Response, CallNumbers
<1>5. result' = [result EXCEPT ![cur[t]] = r]
  OBVIOUS
<1> HIDE DEF r
<1>6. /\ result' \in Seq(Result) /\ Len(result') = Len(result)
      /\ pc' \in [Threads -> {"idle", "send", "recv"}]
      /\ \A u \in Threads : pc'[u] # "idle" => cur[u] # 0
  BY <1>4, <1>5, EndCallTyped
<1>7. TypeOK'
  BY <1>1, <1>6 DEF TypeOK
<1>8. Numbered'
  BY <1>2, <1>6 DEF Numbered
<1> QED
  BY <1>7, <1>8

LEMMA WorkerRecvTyped ==
    ASSUME TypeOK, Numbered, WorkerRecv
    PROVE  TypeOK' /\ Numbered'
<1> USE DEF WorkerRecv, Popped, clientVars
<1>1. cmd' \in CallNumbers /\ c2s' \in Seq(CallNumbers)
  BY DEF TypeOK
<1>2. \A i \in DOMAIN c2s' : i + 1 \in DOMAIN c2s /\ c2s'[i] = c2s[i + 1]
  BY DEF TypeOK
<1>3. cmd' <= Len(calls)
  BY DEF TypeOK, Numbered
<1>4. \A i \in DOMAIN c2s' : c2s'[i] <= Len(calls)
  BY <1>2 DEF Numbered
<1>5. cmd' \in 0 .. MaxCalls /\ cmd' # 0
  BY <1>1, BoundsAssumption DEF CallNumbers
<1>6. TypeOK'
  BY <1>1, <1>5 DEF TypeOK
<1>7. Numbered'
  BY <1>3, <1>4, <1>5 DEF Numbered
<1> QED
  BY <1>6, <1>7

LEMMA WorkerStopTyped ==
    ASSUME TypeOK, Numbered, WorkerStop
    PROVE  TypeOK' /\ Numbered'
<1> USE DEF WorkerStop, clientVars
<1>1. TypeOK'
  BY BoundsAssumption DEF TypeOK
<1>2. Len(calls) \in Nat
  BY DEF TypeOK
<1>3. Numbered'
  BY <1>2 DEF Numbered
<1> QED
  BY <1>1, <1>3

LEMMA WorkerTimeoutTyped ==
    ASSUME TypeOK, Numbered, WorkerTimeout
    PROVE  TypeOK' /\ Numbered'
<1> USE DEF WorkerTimeout, clientVars
<1>1. TypeOK'
  BY DEF TypeOK
<1>2. Numbered'
  BY DEF Numbered
<1> QED
  BY <1>1, <1>2

LEMMA RequestStopTyped ==
    ASSUME TypeOK, Numbered, RequestStop
    PROVE  TypeOK' /\ Numbered'
<1> USE DEF RequestStop, clientVars
<1>1. TypeOK'
  BY DEF TypeOK
<1>2. Numbered'
  BY DEF Numbered
<1> QED
  BY <1>1, <1>2

LEMMA WorkerDecodeThrowsTyped ==
    ASSUME TypeOK, Numbered, WorkerDecodeThrows
    PROVE  TypeOK' /\ Numbered'
<1> USE DEF WorkerDecodeThrows, clientVars
<1>1. TypeOK'
  BY DEF TypeOK
<1>2. Numbered'
  BY DEF Numbered
<1> QED
  BY <1>1, <1>2

LEMMA WorkerHandleTyped ==
    ASSUME TypeOK, Numbered, WorkerHandle
    PROVE  TypeOK' /\ Numbered'
<1> USE DEF clientVars
<1> DEFINE op == AsReceived(calls[cmd].op)
<1>1. cmd \in CallNumbers /\ cmd \in 1 .. Len(calls)
  BY BoundsAssumption DEF WorkerHandle, TypeOK, Numbered, CallNumbers
<1>2. WellFormed(op)
  <2>1. calls[cmd] \in Call
    BY <1>1 DEF TypeOK
  <2> QED
    BY <2>1, OpsAssumption, AsReceivedType DEF Call
<1>3. PICK ok \in BOOLEAN, k \in 0 .. Elements(op) :
         /\ regs' = AfterElements(regs, op, k)
         /\ resp' = [call |-> cmd, ok |-> ok,
                     data |-> IF ok THEN ReadBack(regs, op) ELSE <<>>]
  BY DEF WorkerHandle
<1> HIDE DEF op
<1>4. regs' \in [Addrs -> Data]
  BY <1>2, <1>3, AfterElementsType DEF TypeOK
<1>5. ReadBack(regs, op) \in Seq(Data)
  BY <1>2, ReadBackType DEF TypeOK
<1>6. resp' \in Response /\ resp'.call = cmd
  BY <1>1, <1>3, <1>5 DEF Response
<1>7. resp' # NoResponse
  BY <1>1, <1>6 DEF NoResponse
<1>8. /\ performed' \in Seq(Response)
      /\ \A i \in DOMAIN performed' : performed'[i].call <= Len(calls)
  BY <1>1, <1>6 DEF WorkerHandle, TypeOK, Numbered
<1>9. TypeOK'
  BY <1>4, <1>6, <1>8, BoundsAssumption DEF WorkerHandle, TypeOK
<1>10. Numbered'
  BY <1>1, <1>6, <1>7, <1>8 DEF WorkerHandle, Numbered
<1> QED
  BY <1>9, <1>10

LEMMA WorkerSendTyped ==
    ASSUME TypeOK, Numbered, WorkerSend
    PROVE  TypeOK' /\ Numbered'
<1> USE DEF clientVars
<1>1. resp \in Response /\ resp.call <= Len(calls)
  BY DEF WorkerSend, Pushed, TypeOK, Numbered
<1>2. /\ s2c' \in Seq(Response)
      /\ \A i \in DOMAIN s2c' : s2c'[i].call <= Len(calls)
  <2>1. CASE ResponseRefused
    <3>1. s2c' = s2c
      BY <2>1 DEF WorkerSend, Pushed
    <3> QED
      BY <3>1 DEF TypeOK, Numbered
  <2>2. CASE ~ResponseRefused
    <3>1. s2c' = Append(s2c, resp)
      BY <2>2 DEF WorkerSend, Pushed
    <3> QED
      BY <1>1, <3>1 DEF TypeOK, Numbered
  <2> QED
    BY <2>1, <2>2
<1>3. worker' \in {"recv", "terminated"}
  BY DEF WorkerSend, Pushed
<1>4. TypeOK'
  BY <1>2, <1>3 DEF WorkerSend, Pushed, TypeOK
<1>5. resp'.call <= Len(calls)
  BY <1>1, CallNumbersAreNat DEF WorkerSend, NoResponse
<1>6. cmd = 0 /\ resp # NoResponse
  BY DEF WorkerSend, Numbered
<1>7. Numbered'
  BY <1>2, <1>5, <1>6 DEF WorkerSend, Numbered
<1> QED
  BY <1>4, <1>7

LEMMA StepTyped ==
    ASSUME TypeOK, Numbered, [Next]_vars
    PROVE  TypeOK' /\ Numbered'
<1>1. CASE UNCHANGED vars
  <2>1. TypeOK'
    BY <1>1 DEF TypeOK, vars, clientVars, serverVars
  <2>2. Numbered'
    BY <1>1 DEF Numbered, vars, clientVars, serverVars
  <2> QED
    BY <2>1, <2>2
<1>2. CASE Next
  <2>1. ASSUME NEW t \in Threads, NEW op \in Ops, Begin(t, op)
        PROVE  TypeOK' /\ Numbered'
    BY <2>1, BeginTyped
  <2>2. ASSUME NEW t \in Threads, ThreadStep(t)
        PROVE  TypeOK' /\ Numbered'
    BY <2>2, RefuseTyped, SendTyped, RecvTyped DEF ThreadStep
  <2>3. ASSUME NEW t \in Threads, Timeout(t)
        PROVE  TypeOK' /\ Numbered'
    BY <2>3, TimeoutTyped
  <2>4. ASSUME WorkerStep
        PROVE  TypeOK' /\ Numbered'
    BY <2>4, WorkerRecvTyped, WorkerStopTyped, WorkerDecodeThrowsTyped,
       WorkerHandleTyped, WorkerSendTyped DEF WorkerStep
  <2> QED
    BY <1>2, <2>1, <2>2, <2>3, <2>4, WorkerTimeoutTyped, RequestStopTyped
       DEF Next
<1> QED
  BY <1>1, <1>2

\* Every variable keeps its type and every call number in the system is that
\* of a call begun.
THEOREM TypeCorrect == Spec => [](TypeOK /\ Numbered)
  BY InitTyped, StepTyped, PTL DEF Spec
-----------------------------------------------------------------------------
(* The calls of a thread are carried out in order, at most once each.       *)

\* Before, for the calls of another state.
OrderedIn(cs, c, d) == cs[c].thread = cs[d].thread => c < d

LEMMA InitLanes == Init => Lanes
<1> SUFFICES ASSUME Init PROVE Lanes
  OBVIOUS
<1>1. DOMAIN performed = {} /\ DOMAIN c2s = {} /\ cmd = 0
  BY DEF Init
<1>2. \A t \in Threads : pc[t] = "idle"
  BY DEF Init
<1> QED
  BY <1>1, <1>2 DEF Lanes, PerformedInOrder

\* Steps that touch nothing but responses and results.
LEMMA LanesFrame ==
    ASSUME Lanes, UNCHANGED <<calls, performed, c2s, cmd, cur>>,
           \A t \in Threads : pc'[t] \in {pc[t], "idle"}
    PROVE  Lanes'
  BY DEF Lanes, PerformedInOrder, Before

LEMMA BeginLanes ==
    ASSUME TypeOK, Numbered, Lanes, NEW t \in Threads, NEW op \in Ops,
           Begin(t, op)
    PROVE  Lanes'
<1> USE DEF Begin, serverVars
<1> DEFINE n == Len(calls) + 1
<1>1. \A c \in 1 .. Len(calls) : calls'[c] = calls[c]
  BY DEF TypeOK
<1>2. /\ \A i \in DOMAIN c2s : c2s[i] \in 1 .. Len(calls)
      /\ \A i \in DOMAIN performed : performed[i].call \in 1 .. Len(calls)
      /\ cmd # 0 => cmd \in 1 .. Len(calls)
      /\ \A u \in Threads : pc[u] # "idle" => cur[u] \in 1 .. Len(calls)
  <2>1. \A i \in DOMAIN c2s : c2s[i] \in CallNumbers
    BY DEF TypeOK
  <2>2. \A r \in Response : r.call \in CallNumbers
    BY DEF Response
  <2>3. \A i \in DOMAIN performed : performed[i].call \in CallNumbers
    BY <2>2 DEF TypeOK
  <2> QED
    BY <2>1, <2>3, BoundsAssumption DEF TypeOK, Numbered, CallNumbers
<1>3. \A c, d \in 1 .. Len(calls) : OrderedIn(calls', c, d) <=> Before(c, d)
  BY <1>1 DEF Before, OrderedIn
<1>4. \A c \in 1 .. Len(calls) : OrderedIn(calls', c, n)
  BY DEF TypeOK, OrderedIn
<1>5. \A u \in Threads : pc'[u] = "send" =>
         \/ cur'[u] = n
         \/ pc[u] = "send" /\ cur'[u] = cur[u]
  BY DEF TypeOK
<1>6. PerformedInOrder'
  <2>1. \A i, j \in DOMAIN performed :
           i < j => Before(performed[i].call, performed[j].call)
    BY DEF Lanes, PerformedInOrder
  <2>2. \A i, j \in DOMAIN performed :
           i < j => OrderedIn(calls', performed[i].call, performed[j].call)
    BY <1>2, <1>3, <2>1
  <2>3. performed' = performed
    OBVIOUS
  <2> HIDE DEF Begin
  <2> QED
    BY <2>2, <2>3 DEF PerformedInOrder, Before, OrderedIn
<1>7. \A i, j \in DOMAIN c2s : i < j => OrderedIn(calls', c2s[i], c2s[j])
  BY <1>2, <1>3 DEF Lanes
<1>8. \A i \in DOMAIN performed, j \in DOMAIN c2s :
         OrderedIn(calls', performed[i].call, c2s[j])
  BY <1>2, <1>3 DEF Lanes
<1>9. cmd # 0 =>
        /\ \A i \in DOMAIN performed : OrderedIn(calls', performed[i].call, cmd)
        /\ \A j \in DOMAIN c2s : OrderedIn(calls', cmd, c2s[j])
  BY <1>2, <1>3 DEF Lanes
<1>10. ASSUME NEW u \in Threads, pc'[u] = "send"
       PROVE  /\ \A i \in DOMAIN performed : OrderedIn(calls', performed[i].call, cur'[u])
              /\ \A j \in DOMAIN c2s : OrderedIn(calls', c2s[j], cur'[u])
              /\ cmd # 0 => OrderedIn(calls', cmd, cur'[u])
  <2>1. CASE cur'[u] = n
    BY <1>2, <1>4, <2>1
  <2>2. CASE pc[u] = "send" /\ cur'[u] = cur[u]
    BY <1>2, <1>3, <2>2 DEF Lanes
  <2> QED
    BY <1>5, <1>10, <2>1, <2>2
<1>11. ASSUME NEW u \in Threads, pc'[u] # "idle"
       PROVE  calls'[cur'[u]].thread = u
  <2>1. CASE u = t
    BY <2>1 DEF TypeOK
  <2>2. CASE u # t
    <3>1. pc[u] # "idle" /\ cur'[u] = cur[u]
      BY <1>11, <2>2 DEF TypeOK
    <3> QED
      BY <1>1, <1>2, <3>1 DEF Lanes
  <2> QED
    BY <2>1, <2>2
<1> QED
  BY <1>6, <1>7, <1>8, <1>9, <1>10, <1>11
     DEF Lanes, Before, OrderedIn

LEMMA SendLanes ==
    ASSUME TypeOK, Numbered, Lanes, NEW t \in Threads, Send(t)
    PROVE  Lanes'
<1> USE DEF Send, Pushed, serverVars
<1> DEFINE n == Len(c2s) + 1
<1>1. /\ DOMAIN c2s' = 1 .. n /\ DOMAIN c2s = 1 .. n - 1 /\ n \in Nat
      /\ \A i \in 1 .. n - 1 : c2s'[i] = c2s[i]
      /\ c2s'[n] = cur[t]
  BY DEF TypeOK
<1>2. UNCHANGED <<calls, performed, cmd, cur>>
  OBVIOUS
<1>3. /\ \A u \in Threads : pc'[u] = "send" => u # t /\ pc[u] = "send"
      /\ \A u \in Threads : pc'[u] # "idle" => pc[u] # "idle"
      /\ pc[t] = "send"
  BY DEF TypeOK
<1> HIDE DEF n, Send, Pushed
<1>4. PerformedInOrder'
  BY <1>2 DEF Lanes, PerformedInOrder, Before
<1>5. ASSUME NEW i \in DOMAIN c2s', NEW j \in DOMAIN c2s', i < j
      PROVE  Before(c2s'[i], c2s'[j])
  <2>1. i \in 1 .. n - 1
    BY <1>1, <1>5
  <2>2. CASE j = n
    BY <1>1, <1>2, <1>3, <2>1, <2>2 DEF Lanes, Before
  <2>3. CASE j # n
    <3>1. j \in 1 .. n - 1
      BY <1>1, <2>3
    <3> QED
      BY <1>1, <1>2, <1>5, <2>1, <3>1 DEF Lanes, Before
  <2> QED
    BY <2>2, <2>3
<1>6. ASSUME NEW i \in DOMAIN performed, NEW j \in DOMAIN c2s'
      PROVE  Before(performed[i].call, c2s'[j])
  <2>1. CASE j = n
    BY <1>1, <1>2, <1>3, <2>1 DEF Lanes, Before
  <2>2. CASE j # n
    <3>1. j \in 1 .. n - 1
      BY <1>1, <2>2
    <3> QED
      BY <1>1, <1>2, <3>1 DEF Lanes, Before
  <2> QED
    BY <2>1, <2>2
<1>7. ASSUME cmd # 0, NEW j \in DOMAIN c2s'
      PROVE  Before(cmd, c2s'[j])
  <2>1. CASE j = n
    BY <1>1, <1>2, <1>3, <1>7, <2>1 DEF Lanes, Before
  <2>2. CASE j # n
    <3>1. j \in 1 .. n - 1
      BY <1>1, <2>2
    <3> QED
      BY <1>1, <1>2, <1>7, <3>1 DEF Lanes, Before
  <2> QED
    BY <2>1, <2>2
<1>8. ASSUME NEW u \in Threads, pc'[u] = "send", NEW j \in DOMAIN c2s'
      PROVE  Before(c2s'[j], cur[u])
  <2>1. CASE j = n
    <3>1. calls[cur[t]].thread = t /\ calls[cur[u]].thread = u /\ u # t
      BY <1>3, <1>8 DEF Lanes
    <3> QED
      BY <1>1, <1>2, <2>1, <3>1 DEF Before
  <2>2. CASE j # n
    <3>1. j \in 1 .. n - 1
      BY <1>1, <2>2
    <3> QED
      BY <1>1, <1>2, <1>3, <1>8, <3>1 DEF Lanes, Before
  <2> QED
    BY <2>1, <2>2
<1> QED
  BY <1>2, <1>3, <1>4, <1>5, <1>6, <1>7, <1>8 DEF Lanes, Before

LEMMA WorkerRecvLanes ==
    ASSUME TypeOK, Numbered, Lanes, WorkerRecv
    PROVE  Lanes'
<1>1. /\ DOMAIN c2s' = 1 .. Len(c2s) - 1 /\ DOMAIN c2s = 1 .. Len(c2s)
      /\ Len(c2s) \in Nat /\ Len(c2s) > 0
      /\ \A i \in DOMAIN c2s' : c2s'[i] = c2s[i + 1]
      /\ cmd' = c2s[1]
  BY DEF WorkerRecv, Popped, TypeOK
<1>2. UNCHANGED <<calls, performed, pc, cur>>
  BY DEF WorkerRecv, Popped, clientVars
<1>3. \A i \in DOMAIN c2s' : i + 1 \in DOMAIN c2s
  BY <1>1
<1>4. \A i, j \in DOMAIN c2s' : i < j => Before(c2s'[i], c2s'[j])
  BY <1>1, <1>2, <1>3 DEF Lanes, Before
<1>5. \A j \in DOMAIN c2s' : Before(cmd', c2s'[j])
  <2>1. \A j \in DOMAIN c2s' : 1 < j + 1 /\ 1 \in DOMAIN c2s
    BY <1>1
  <2> QED
    BY <1>1, <1>2, <1>3, <2>1 DEF Lanes, Before
<1>6. \A i \in DOMAIN performed : Before(performed[i].call, cmd')
  BY <1>1, <1>2 DEF Lanes, Before
<1>7. \A i \in DOMAIN performed, j \in DOMAIN c2s' :
         Before(performed[i].call, c2s'[j])
  BY <1>1, <1>2, <1>3 DEF Lanes, Before
<1>8. \A t \in Threads : pc[t] = "send" =>
         /\ \A i \in DOMAIN performed : Before(performed[i].call, cur[t])
         /\ \A j \in DOMAIN c2s' : Before(c2s'[j], cur[t])
         /\ Before(cmd', cur[t])
  BY <1>1, <1>2, <1>3 DEF Lanes, Before
<1> QED
  BY <1>2, <1>4, <1>5, <1>6, <1>7, <1>8 DEF Lanes, PerformedInOrder, Before

LEMMA WorkerStopLanes ==
    ASSUME TypeOK, Lanes, WorkerStop
    PROVE  Lanes'
  BY DEF WorkerStop, clientVars, Lanes, PerformedInOrder, Before

LEMMA WorkerHandleLanes ==
    ASSUME TypeOK, Numbered, Lanes, WorkerHandle
    PROVE  Lanes'
<1> DEFINE n == Len(performed) + 1
<1>1. UNCHANGED <<calls, c2s, pc, cur>> /\ cmd # 0 /\ cmd' = 0
  BY DEF WorkerHandle, clientVars, Numbered
<1>2. resp'.call = cmd
  BY DEF WorkerHandle
<1>3. /\ DOMAIN performed' = 1 .. n /\ DOMAIN performed = 1 .. n - 1
      /\ n \in Nat
      /\ \A i \in 1 .. n - 1 : performed'[i] = performed[i]
      /\ performed'[n].call = cmd
  BY <1>2 DEF WorkerHandle, TypeOK
<1> HIDE DEF n
<1>4. ASSUME NEW i \in DOMAIN performed'
      PROVE  \/ i \in DOMAIN performed /\ performed'[i] = performed[i]
             \/ i = n /\ performed'[i].call = cmd
  BY <1>3
<1>5. ASSUME NEW i \in DOMAIN performed', NEW j \in DOMAIN performed', i < j
      PROVE  Before(performed'[i].call, performed'[j].call)
  <2>1. i \in DOMAIN performed /\ performed'[i] = performed[i]
    BY <1>3, <1>5
  <2> QED
    BY <1>1, <1>4, <1>5, <2>1 DEF Lanes, PerformedInOrder, Before
<1>6. \A i \in DOMAIN performed', j \in DOMAIN c2s :
         Before(performed'[i].call, c2s[j])
  BY <1>1, <1>4 DEF Lanes, Before
<1>7. \A t \in Threads : pc[t] = "send" =>
         \A i \in DOMAIN performed' : Before(performed'[i].call, cur[t])
  BY <1>1, <1>4 DEF Lanes, Before
<1> QED
  BY <1>1, <1>5, <1>6, <1>7 DEF Lanes, PerformedInOrder, Before

LEMMA StepLanes ==
    ASSUME TypeOK, Numbered, Lanes, [Next]_vars
    PROVE  Lanes'
<1>1. ASSUME UNCHANGED <<calls, performed, c2s, cmd, cur>>,
             \A t \in Threads : pc'[t] \in {pc[t], "idle"}
      PROVE  Lanes'
  BY <1>1, LanesFrame
<1>2. CASE UNCHANGED vars
  BY <1>1, <1>2 DEF vars, clientVars, serverVars
<1>3. CASE Next
  <2>1. ASSUME NEW t \in Threads, Refuse(t) \/ Recv(t) \/ Timeout(t)
        PROVE  Lanes'
    BY <1>1, <2>1 DEF Refuse, Recv, Timeout, serverVars, TypeOK
  <2>2. ASSUME WorkerDecodeThrows \/ WorkerSend \/ WorkerTimeout \/ RequestStop
        PROVE  Lanes'
    BY <1>1, <2>2
       DEF WorkerDecodeThrows, WorkerSend, WorkerTimeout, RequestStop, clientVars
  <2> QED
    BY <1>3, <2>1, <2>2, BeginLanes, SendLanes, WorkerRecvLanes,
       WorkerStopLanes, WorkerHandleLanes
       DEF Next, ThreadStep, WorkerStep
<1> QED
  BY <1>2, <1>3

\* The calls of a thread stand in order in the whole pipeline, from what has been
\* carried out through the worker's hands and the queue to the one being sent:
\* a queue is first in first out, and a thread is in one doCmdResp at a time
\* (RegisterTarget.h:138-156, ServerAdapter.h:78-106).
THEOREM OrderInvariant == Spec => []OrderInv
<1>1. Init => OrderInv
  BY InitTyped, InitLanes DEF OrderInv
<1>2. OrderInv /\ [Next]_vars => OrderInv'
  BY StepTyped, StepLanes DEF OrderInv
<1> QED
  BY <1>1, <1>2, PTL DEF Spec

\* The target carries out the calls of every thread at most once each, in the
\* order in which the thread made them, whatever times out in between.
THEOREM InOrder == Spec => []PerformedInOrder
<1>1. OrderInv => PerformedInOrder
  BY DEF OrderInv, Lanes
<1> QED
  BY <1>1, OrderInvariant, PTL
-----------------------------------------------------------------------------
(* No response that the worker has to send is refused.                      *)

LEMMA InitAnswerable == Init => Answerable
  BY DEF Init, Answerable, WorkerSurvives

\* A step that begins no call and moves no command keeps Answerable.
LEMMA AnswerableFrame ==
    ASSUME Answerable, UNCHANGED <<calls, c2s, cmd, resp, worker>>
    PROVE  Answerable'
  BY DEF Answerable, WorkerSurvives, Accepted, Undecodable, ResponseRefused

LEMMA BeginAnswerable ==
    ASSUME TypeOK, Numbered, Answerable, NEW t \in Threads, NEW op \in Ops,
           Begin(t, op)
    PROVE  Answerable'
<1>1. \A c \in 1 .. Len(calls) : calls'[c] = calls[c]
  BY DEF Begin, TypeOK
<1>2. UNCHANGED <<c2s, cmd, resp, worker>>
  BY DEF Begin, serverVars
<1>3. /\ \A i \in DOMAIN c2s : c2s[i] \in 1 .. Len(calls)
      /\ cmd # 0 => cmd \in 1 .. Len(calls)
  <2>1. \A i \in DOMAIN c2s : c2s[i] \in CallNumbers
    BY DEF TypeOK
  <2> QED
    BY <2>1, BoundsAssumption DEF TypeOK, Numbered, CallNumbers
<1>4. resp # NoResponse => resp.call \in 1 .. Len(calls)
  <2> SUFFICES ASSUME resp # NoResponse PROVE resp.call \in 1 .. Len(calls)
    OBVIOUS
  <2>1. resp.call \in CallNumbers
    BY DEF TypeOK, Response
  <2> QED
    BY <2>1, BoundsAssumption DEF TypeOK, Numbered, CallNumbers
<1> QED
  BY <1>1, <1>2, <1>3, <1>4
     DEF Answerable, WorkerSurvives, Accepted, Undecodable, ResponseRefused

LEMMA SendAnswerable ==
    ASSUME TypeOK, Answerable, Alive, NEW t \in Threads, Send(t)
    PROVE  Answerable'
<1>1. UNCHANGED <<calls, cmd, resp, worker>>
  BY DEF Send, serverVars
<1>2. Accepted(cur[t])
  BY DEF Send, Accepted
<1>3. \A i \in DOMAIN c2s' : Accepted(c2s'[i])
  <2>1. /\ DOMAIN c2s' = 1 .. Len(c2s) + 1
        /\ DOMAIN c2s = 1 .. Len(c2s)
        /\ \A i \in 1 .. Len(c2s) : c2s'[i] = c2s[i]
        /\ c2s'[Len(c2s) + 1] = cur[t]
        /\ Len(c2s) \in Nat
    BY DEF Send, Pushed, TypeOK
  <2>2. \A i \in DOMAIN c2s' : i \in DOMAIN c2s \/ i = Len(c2s) + 1
    BY <2>1
  <2> QED
    BY <1>2, <2>1, <2>2 DEF Answerable
<1> QED
  BY <1>1, <1>3 DEF Alive, Answerable, WorkerSurvives, Accepted, ResponseRefused

LEMMA WorkerRecvAnswerable ==
    ASSUME TypeOK, Answerable, WorkerRecv
    PROVE  Answerable'
<1>1. UNCHANGED <<calls, resp>> /\ worker' # "terminated"
  BY DEF WorkerRecv, clientVars
<1>2. /\ DOMAIN c2s' = 1 .. Len(c2s) - 1 /\ DOMAIN c2s = 1 .. Len(c2s)
      /\ Len(c2s) \in Nat /\ Len(c2s) > 0
      /\ \A i \in DOMAIN c2s' : c2s'[i] = c2s[i + 1]
      /\ cmd' = c2s[1]
  BY DEF WorkerRecv, Popped, TypeOK
<1>3. 1 \in DOMAIN c2s /\ \A i \in DOMAIN c2s' : i + 1 \in DOMAIN c2s
  BY <1>2
<1>4. (\A i \in DOMAIN c2s' : Accepted(c2s'[i])) /\ Accepted(cmd')
  BY <1>2, <1>3 DEF Answerable
<1> QED
  BY <1>1, <1>4 DEF Answerable, WorkerSurvives, Accepted, ResponseRefused

\* What the worker answers to an accepted command fits the transport.
LEMMA WorkerHandleAnswerable ==
    ASSUME TypeOK, Numbered, Answerable, WorkerHandle
    PROVE  Answerable'
<1> DEFINE asked == calls[cmd].op
           op == AsReceived(asked)
           n  == Elements(asked)
<1>1. UNCHANGED <<calls, c2s>> /\ cmd # 0 /\ cmd' = 0 /\ worker' = "respond"
  BY DEF WorkerHandle, clientVars, Numbered
<1>2. WellFormed(asked)
  <2>1. calls[cmd] \in Call
    BY <1>1, BoundsAssumption DEF TypeOK, Numbered
  <2> QED
    BY <2>1, OpsAssumption DEF Call
<1>3. PICK ok \in BOOLEAN :
         resp' = [call |-> cmd, ok |-> ok,
                  data |-> IF ok THEN ReadBack(regs, op) ELSE <<>>]
  BY DEF WorkerHandle
<1>4. ~CommandRefused(Cfg, asked.type, n)
  BY <1>1 DEF Answerable, Accepted
<1>a. resp'.call = cmd /\ calls'[cmd].op.type = asked.type
  BY <1>1, <1>3
<1> HIDE DEF asked
<1>5. asked.type \in CmdTypes /\ n \in Nat
  BY <1>2 DEF WellFormed, Operations, Reads, Writes, CmdTypes, Elements
<1>b. /\ WellFormed(op) /\ op.type = asked.type
      /\ Elements(op) \in 0 .. n
  BY <1>2, AsReceivedType
<1> HIDE DEF n, op
<1>6. ~AckRefused(Cfg, asked.type, Elements(op)) /\ ~NakRefused(Cfg)
      /\ ~AckRefused(Cfg, asked.type, n)
  BY <1>4, <1>5, <1>b, CfgAssumption, AcceptedIsAnswered, FewerAreAnswerable
     DEF AcceptedIsAnswerable
<1>7. Len(ReadBack(regs, op)) = IF op.type \in Reads THEN Elements(op) ELSE 0
  BY <1>b, ReadBackType DEF TypeOK
<1>8. ~AckRefused(Cfg, asked.type, Len(ReadBack(regs, op)))
  <2>1. CASE op.type \in Reads
    BY <1>6, <1>7, <2>1
  <2>2. CASE op.type \notin Reads
    BY <1>b, <1>6, <1>7, <2>2 DEF AckRefused, AckSize, Reads
  <2> QED
    BY <2>1, <2>2
<1>9. ~ResponseRefused'
  BY <1>3, <1>a, <1>6, <1>8 DEF ResponseRefused
<1> QED
  BY <1>1, <1>9 DEF Answerable, WorkerSurvives, Accepted

LEMMA WorkerSendAnswerable ==
    ASSUME Numbered, Answerable, WorkerSend
    PROVE  Answerable'
<1>1. ~ResponseRefused
  BY DEF WorkerSend, Numbered, Answerable
<1>2. worker' = "recv" /\ resp' = NoResponse /\ UNCHANGED <<calls, c2s, cmd>>
  BY <1>1 DEF WorkerSend, clientVars
<1> QED
  BY <1>2 DEF Answerable, WorkerSurvives, Accepted

LEMMA StepAnswerable ==
    ASSUME TypeOK, Numbered, Answerable, [Next]_vars
    PROVE  Answerable'
<1>1. ASSUME NEW t \in Threads, Refuse(t) \/ Recv(t) \/ Timeout(t)
      PROVE  Answerable'
  BY <1>1, AnswerableFrame DEF Refuse, Recv, Timeout, serverVars
<1>2. CASE RequestStop \/ UNCHANGED vars
  BY <1>2, AnswerableFrame DEF RequestStop, clientVars, serverVars, vars
<1>3. CASE WorkerStop
  BY <1>3 DEF WorkerStop, clientVars, Answerable, WorkerSurvives, Accepted,
              ResponseRefused
<1>4. CASE WorkerTimeout
  <2>1. cmd = 0 /\ resp = NoResponse /\ c2s = <<>> /\ ServerTimesOut
    BY <1>4 DEF WorkerTimeout, Numbered
  <2> QED
    BY <1>4, <2>1 DEF WorkerTimeout, clientVars, Answerable, WorkerSurvives
<1>5. CASE WorkerDecodeThrows
  <2>1. cmd # 0 /\ Undecodable(cmd)
    BY <1>5 DEF WorkerDecodeThrows, Numbered
  <2>2. UNCHANGED <<calls, c2s, cmd, resp>>
    BY <1>5 DEF WorkerDecodeThrows, clientVars
  <2> QED
    BY <2>1, <2>2
       DEF Answerable, WorkerSurvives, Accepted, Undecodable, ResponseRefused
<1> QED
  BY <1>1, <1>2, <1>3, <1>4, <1>5, BeginAnswerable, SendAnswerable, WorkerRecvAnswerable,
     WorkerHandleAnswerable, WorkerSendAnswerable
     DEF Next, ThreadStep, WorkerStep

\* In any configuration and with any operations, the worker ends the process in
\* two ways only: by a timeout of its own transport while no command waits and
\* none is in its hands, or by a command with more elements than the length
\* field holds. In particular no response is refused when it is encoded.
THEOREM Survival == Spec => []WorkerSurvives
<1>1. Init => Answerable
  BY InitAnswerable
<1>2. TypeOK /\ Numbered /\ Answerable /\ [Next]_vars => Answerable'
  BY StepAnswerable
<1>3. Answerable => WorkerSurvives
  BY DEF Answerable
<1> QED
  BY <1>1, <1>2, <1>3, TypeCorrect, PTL DEF Spec

-----------------------------------------------------------------------------
(* What a call reports is what the target did.                              *)

\* r is a true result for call c, as far as it is an answer at all.
TrueFor(c, r) ==
    r.kind \in {"ack", "nak"} =>
        /\ calls[r.from].txn = calls[c].txn
        /\ calls[r.from].op.type = calls[c].op.type
        /\ [call |-> r.from, ok |-> r.kind = "ack", data |-> r.data]
               \in Range(performed)

LEMMA AnswersAreTrue ==
    AnswerIsTheTargets <=> \A c \in DOMAIN result : TrueFor(c, result[c])
  BY DEF AnswerIsTheTargets, TrueFor

LEMMA InitTruthful == Init => Truthful
<1> SUFFICES ASSUME Init PROVE Truthful
  OBVIOUS
<1>1. DOMAIN result = {} /\ DOMAIN s2c = {} /\ resp = NoResponse
  BY DEF Init
<1> QED
  BY <1>1 DEF Truthful, AnswerIsTheTargets

\* A step that begins and ends no call, and puts no response on its way.
LEMMA TruthfulFrame ==
    ASSUME Truthful, UNCHANGED <<calls, result, s2c, performed>>,
           resp' \in {resp, NoResponse}
    PROVE  Truthful'
<1>1. AnswerIsTheTargets'
  BY DEF Truthful, AnswerIsTheTargets
<1> QED
  BY <1>1 DEF Truthful

LEMMA PerformedAreCalls ==
    ASSUME TypeOK, Numbered, NEW f \in Range(performed)
    PROVE  f \in Response /\ f.call \in 1 .. Len(calls)
<1>1. PICK i \in DOMAIN performed : f = performed[i]
  BY DEF Range
<1>2. f \in Response /\ f.call <= Len(calls)
  BY <1>1 DEF TypeOK, Numbered
<1> QED
  BY <1>2, BoundsAssumption DEF TypeOK, Response, CallNumbers

LEMMA BeginTruthful ==
    ASSUME TypeOK, Numbered, Truthful, NEW t \in Threads, NEW op \in Ops,
           Begin(t, op)
    PROVE  Truthful'
<1>1. UNCHANGED <<s2c, performed, resp>>
  BY DEF Begin, serverVars
<1>2. \A c \in 1 .. Len(calls) : calls'[c] = calls[c]
  BY DEF Begin, TypeOK
<1>3. result \in Seq(Result) /\ Ended("pending") \in Result
  BY BoundsAssumption DEF TypeOK, Ended, Result, Outcomes
<1>4. DOMAIN result = 1 .. Len(calls) /\ Len(calls) \in Nat
  BY <1>3 DEF Numbered, TypeOK
<1>5. result' = Append(result, Ended("pending"))
  BY DEF Begin
<1>6. ASSUME NEW c \in DOMAIN result', result'[c].kind \in {"ack", "nak"}
      PROVE  c \in 1 .. Len(calls) /\ result'[c] = result[c]
  <2>1. c \in 1 .. Len(calls) + 1
    BY <1>3, <1>5 DEF Numbered
  <2>2. c # Len(calls) + 1
    BY <1>3, <1>5, <1>6 DEF Numbered, Ended
  <2> QED
    BY <1>3, <1>4, <1>5, <2>1, <2>2
<1>7. ASSUME NEW c \in 1 .. Len(calls), result[c].kind \in {"ack", "nak"}
      PROVE  /\ calls'[result[c].from].txn = calls'[c].txn
             /\ calls'[result[c].from].op.type = calls'[c].op.type
             /\ [call |-> result[c].from, ok |-> result[c].kind = "ack",
                 data |-> result[c].data] \in Range(performed)
  <2> DEFINE r == result[c]
             f == [call |-> r.from, ok |-> r.kind = "ack", data |-> r.data]
  <2>1. /\ calls[r.from].txn = calls[c].txn
        /\ calls[r.from].op.type = calls[c].op.type
        /\ f \in Range(performed)
    BY <1>4, <1>7 DEF Truthful, AnswerIsTheTargets
  <2>2. f.call \in 1 .. Len(calls)
    BY <2>1, PerformedAreCalls
  <2>3. calls'[r.from] = calls[r.from] /\ calls'[c] = calls[c]
    BY <1>2, <2>2
  <2> QED
    BY <2>1, <2>3
<1>8. AnswerIsTheTargets'
  BY <1>1, <1>6, <1>7 DEF AnswerIsTheTargets
<1> QED
  BY <1>1, <1>8 DEF Truthful

\* A call ends with result r.
LEMMA EndCallTruthful ==
    ASSUME TypeOK, Numbered, Truthful, NEW t \in Threads, NEW r \in Result,
           pc[t] # "idle", TrueFor(cur[t], r),
           result' = [result EXCEPT ![cur[t]] = r],
           UNCHANGED <<calls, performed>>
    PROVE  AnswerIsTheTargets'
<1>1. DOMAIN result' = DOMAIN result
  BY DEF TypeOK
<1>2. ASSUME NEW c \in DOMAIN result
      PROVE  result'[c] = result[c] \/ (c = cur[t] /\ result'[c] = r)
  BY DEF TypeOK
<1> QED
  BY <1>1, <1>2 DEF Truthful, AnswerIsTheTargets, TrueFor

LEMMA RecvTruthful ==
    ASSUME TypeOK, Numbered, Truthful, NEW t \in Threads, Recv(t)
    PROVE  Truthful'
<1> DEFINE f == Head(s2c)
           r == [kind |-> Judge(cur[t], f), from |-> f.call, data |-> f.data]
<1>1. /\ UNCHANGED <<calls, performed, resp>> /\ pc[t] # "idle"
      /\ result' = [result EXCEPT ![cur[t]] = r]
  BY DEF Recv, serverVars
<1>2. /\ f \in Response /\ f \in Range(performed)
      /\ \A i \in DOMAIN s2c' : s2c'[i] \in Range(performed)
  <2>1. f = s2c[1] /\ 1 \in DOMAIN s2c /\ f \in Response
    BY DEF Recv, TypeOK
  <2>2. \A i \in DOMAIN s2c' : i + 1 \in DOMAIN s2c /\ s2c'[i] = s2c[i + 1]
    BY DEF Recv, Popped, TypeOK
  <2> QED
    BY <2>1, <2>2 DEF Truthful
<1>3. f = [call |-> f.call, ok |-> f.ok, data |-> f.data] /\ f.ok \in BOOLEAN
  BY <1>2 DEF Response
<1> HIDE DEF f
<1>4. r.kind \in {"ack", "nak"} =>
         /\ calls[f.call].txn = calls[cur[t]].txn
         /\ calls[f.call].op.type = calls[cur[t]].op.type
         /\ f.ok = (r.kind = "ack")
  BY <1>3 DEF Judge
<1>5. TrueFor(cur[t], r)
  <2>1. [call |-> f.call, ok |-> f.ok, data |-> f.data] \in Range(performed)
    BY <1>2, <1>3
  <2> QED
    BY <1>4, <2>1 DEF TrueFor
<1>6. r \in Result
  <2>1. Judge(cur[t], f) \in Outcomes
    BY DEF Judge, Outcomes
  <2> QED
    BY <1>2, <2>1, BoundsAssumption DEF Result, Response, CallNumbers
<1> HIDE DEF r
<1>7. AnswerIsTheTargets'
  BY <1>1, <1>5, <1>6, EndCallTruthful
<1> QED
  BY <1>1, <1>2, <1>7 DEF Truthful

LEMMA FailTruthful ==
    ASSUME TypeOK, Numbered, Truthful, NEW t \in Threads,
           Refuse(t) \/ Timeout(t)
    PROVE  Truthful'
<1>1. PICK kind \in {"refused", "timeout"} :
         result' = [result EXCEPT ![cur[t]] = Ended(kind)]
  BY DEF Refuse, Timeout
<1>2. UNCHANGED <<calls, s2c, performed, resp>> /\ pc[t] # "idle"
  BY DEF Refuse, Timeout, serverVars
<1>3. Ended(kind) \in Result
  BY EndedType DEF Outcomes
<1>4. TrueFor(cur[t], Ended(kind))
  BY DEF TrueFor, Ended
<1>5. AnswerIsTheTargets'
  BY <1>1, <1>2, <1>3, <1>4, EndCallTruthful
<1> QED
  BY <1>2, <1>5 DEF Truthful

LEMMA WorkerHandleTruthful ==
    ASSUME TypeOK, Truthful, WorkerHandle
    PROVE  Truthful'
<1>1. UNCHANGED <<calls, result, s2c>>
  BY DEF WorkerHandle, clientVars
<1>2. performed' = Append(performed, resp')
  BY DEF WorkerHandle
<1>3. performed \in Seq(Response)
  BY DEF TypeOK
<1>4. /\ DOMAIN performed \subseteq DOMAIN performed'
      /\ \A i \in DOMAIN performed : performed'[i] = performed[i]
      /\ Len(performed) + 1 \in DOMAIN performed'
      /\ performed'[Len(performed) + 1] = resp'
  BY <1>2, <1>3
<1>5. Range(performed) \subseteq Range(performed') /\ resp' \in Range(performed')
  BY <1>4 DEF Range
<1>6. AnswerIsTheTargets'
  BY <1>1, <1>5 DEF Truthful, AnswerIsTheTargets
<1> QED
  BY <1>1, <1>5, <1>6 DEF Truthful

LEMMA WorkerSendTruthful ==
    ASSUME TypeOK, Numbered, Truthful, WorkerSend
    PROVE  Truthful'
<1>1. UNCHANGED <<calls, result, performed>> /\ resp' \in {resp, NoResponse}
  BY DEF WorkerSend, clientVars
<1>2. resp \in Range(performed) /\ resp \in Response
  BY DEF WorkerSend, Numbered, Truthful, TypeOK
<1>3. \A i \in DOMAIN s2c' : s2c'[i] \in Range(performed)
  <2>1. CASE s2c' = s2c
    BY <2>1 DEF Truthful
  <2>2. CASE s2c' = Append(s2c, resp)
    <3>1. \A i \in DOMAIN s2c' :
             \/ i \in DOMAIN s2c /\ s2c'[i] = s2c[i]
             \/ s2c'[i] = resp
      BY <1>2, <2>2 DEF TypeOK
    <3> QED
      BY <1>2, <3>1 DEF Truthful
  <2> QED
    BY <2>1, <2>2 DEF WorkerSend, Pushed
<1>4. AnswerIsTheTargets'
  BY <1>1 DEF Truthful, AnswerIsTheTargets
<1> QED
  BY <1>1, <1>2, <1>3, <1>4 DEF Truthful

LEMMA StepTruthful ==
    ASSUME TypeOK, Numbered, Truthful, [Next]_vars
    PROVE  Truthful'
<1>1. ASSUME NEW t \in Threads, Send(t)
      PROVE  Truthful'
  BY <1>1, TruthfulFrame DEF Send, serverVars
<1>2. CASE WorkerRecv \/ WorkerStop \/ WorkerDecodeThrows \/ WorkerTimeout
           \/ RequestStop
  BY <1>2, TruthfulFrame
     DEF WorkerRecv, WorkerStop, WorkerDecodeThrows, WorkerTimeout,
         RequestStop, clientVars
<1>3. CASE UNCHANGED vars
  BY <1>3, TruthfulFrame DEF vars, clientVars, serverVars
<1> QED
  BY <1>1, <1>2, <1>3, BeginTruthful, FailTruthful, RecvTruthful,
     WorkerHandleTruthful, WorkerSendTruthful
     DEF Next, ThreadStep, WorkerStep

\* An ACK or a NAK that a call reports was given by the target, for a command
\* with the call's transaction id and type, with the data that is reported.
THEOREM TrueAnswers == Spec => []AnswerIsTheTargets
<1>1. Init => Truthful
  BY InitTruthful
<1>2. TypeOK /\ Numbered /\ Truthful /\ [Next]_vars => Truthful'
  BY StepTruthful
<1>3. Truthful => AnswerIsTheTargets
  BY DEF Truthful
<1> QED
  BY <1>1, <1>2, <1>3, TypeCorrect, PTL DEF Spec

-----------------------------------------------------------------------------
(* The numbers of the calls.                                                *)

\* A thread that is in a call has a number for it, and a result is pending.
LEMMA CurrentCall ==
    ASSUME TypeOK, Numbered, NEW t \in Threads, pc[t] # "idle"
    PROVE  cur[t] \in 1 .. Len(calls) /\ cur[t] \in DOMAIN result
  BY BoundsAssumption DEF TypeOK, Numbered

\* Two threads are never in the same call.
LEMMA CurrentCallsDiffer ==
    ASSUME Lanes, NEW t \in Threads, NEW u \in Threads,
           pc[t] # "idle", pc[u] # "idle", cur[t] = cur[u]
    PROVE  t = u
  BY DEF Lanes

\* What Begin adds, and that it leaves the earlier calls alone.
LEMMA BeginAppends ==
    ASSUME TypeOK, Numbered, NEW t \in Threads, NEW op \in Ops, Begin(t, op)
    PROVE  /\ Len(calls) \in Nat
           /\ DOMAIN calls = 1 .. Len(calls) /\ DOMAIN result = 1 .. Len(calls)
           /\ DOMAIN calls' = 1 .. Len(calls) + 1
           /\ DOMAIN result' = 1 .. Len(calls) + 1
           /\ Len(calls') = Len(calls) + 1 /\ Len(result') = Len(calls) + 1
           /\ \A c \in 1 .. Len(calls) :
                 calls'[c] = calls[c] /\ result'[c] = result[c]
           /\ calls'[Len(calls) + 1] =
                 [thread |-> t, op |-> op, txn |-> next_txn_id]
           /\ result'[Len(calls) + 1] = Ended("pending")
           /\ pc[t] = "idle" /\ pc'[t] = "send" /\ cur'[t] = Len(calls) + 1
           /\ \A u \in Threads \ {t} : pc'[u] = pc[u] /\ cur'[u] = cur[u]
<1>1. calls \in Seq(Call) /\ result \in Seq(Result) /\ Len(result) = Len(calls)
  BY DEF TypeOK, Numbered
<1>2. pc \in [Threads -> {"idle", "send", "recv"}]
      /\ cur \in [Threads -> 0 .. MaxCalls]
  BY DEF TypeOK
<1> QED
  BY <1>1, <1>2 DEF Begin

\* Every call was begun by one of the threads.
LEMMA CallTyped ==
    ASSUME TypeOK, Numbered
    PROVE  /\ DOMAIN result = DOMAIN calls /\ DOMAIN calls = 1 .. Len(calls)
           /\ \A c \in DOMAIN calls : calls[c] \in Call
           /\ \A c \in DOMAIN calls : calls[c].thread \in Threads
<1>1. \A c \in DOMAIN calls : calls[c] \in Call
  BY DEF TypeOK
<1>2. \A c \in Call : c.thread \in Threads
  BY DEF Call
<1>3. DOMAIN result = DOMAIN calls /\ DOMAIN calls = 1 .. Len(calls)
  BY DEF TypeOK, Numbered
<1> QED
  BY <1>1, <1>2, <1>3

\* The frames in the pipeline belong to calls begun.
LEMMA FrameNumbers ==
    ASSUME TypeOK, Numbered
    PROVE  /\ \A i \in DOMAIN c2s : c2s[i] \in 1 .. Len(calls)
           /\ \A i \in DOMAIN s2c : s2c[i].call \in 1 .. Len(calls)
           /\ \A i \in DOMAIN performed : performed[i].call \in 1 .. Len(calls)
           /\ cmd # 0 => cmd \in 1 .. Len(calls)
           /\ resp # NoResponse => resp.call \in 1 .. Len(calls)
<1>1. \A i \in DOMAIN c2s : c2s[i] \in CallNumbers
  BY DEF TypeOK
<1>2. \A r \in Response : r.call \in CallNumbers
  BY DEF Response
<1>3. \A i \in DOMAIN s2c : s2c[i].call \in CallNumbers
  BY <1>2 DEF TypeOK
<1>4. \A i \in DOMAIN performed : performed[i].call \in CallNumbers
  BY <1>2 DEF TypeOK
<1>5. resp # NoResponse => resp.call \in CallNumbers
  BY <1>2 DEF TypeOK
<1> QED
  BY <1>1, <1>3, <1>4, <1>5, BoundsAssumption DEF TypeOK, Numbered, CallNumbers

-----------------------------------------------------------------------------
(* The transaction ids count the calls.                                     *)

LEMMA InitStamped == Init => Stamped
<1> SUFFICES ASSUME Init PROVE Stamped
  OBVIOUS
<1>1. DOMAIN calls = {} /\ Len(calls) = 0 /\ next_txn_id = 0
  BY DEF Init
<1>2. 0 % TxnMod = 0
  BY BoundsAssumption
<1> QED
  BY <1>1, <1>2 DEF Stamped

LEMMA BeginStamped ==
    ASSUME TypeOK, Numbered, Stamped, NEW t \in Threads, NEW op \in Ops,
           Begin(t, op)
    PROVE  Stamped'
<1> DEFINE n == Len(calls)
<1>1. next_txn_id = n % TxnMod /\ n \in Nat
  BY BeginAppends DEF Stamped
<1>2. next_txn_id' = (n + 1) % TxnMod
  BY <1>1, ModSucc, BoundsAssumption DEF Begin, TxnIdAfter
<1>3. ASSUME NEW c \in 1 .. n + 1
      PROVE  calls'[c].txn = (c - 1) % TxnMod
  <2>1. CASE c = n + 1
    <3>1. calls'[n + 1] = [thread |-> t, op |-> op, txn |-> next_txn_id]
      BY BeginAppends
    <3>2. c - 1 = n
      BY <1>1, <2>1
    <3> QED
      BY <1>1, <2>1, <3>1, <3>2
  <2>2. CASE c # n + 1
    <3>1. c \in 1 .. n
      BY <1>1, <2>2
    <3>2. calls'[c] = calls[c] /\ c \in DOMAIN calls
      BY <3>1, BeginAppends
    <3> QED
      BY <3>2 DEF Stamped
  <2> QED
    BY <2>1, <2>2
<1>4. Len(calls') = n + 1 /\ DOMAIN calls' = 1 .. n + 1
  BY BeginAppends
<1> HIDE DEF n
<1> QED
  BY <1>2, <1>3, <1>4 DEF Stamped

LEMMA StepStamped ==
    ASSUME TypeOK, Numbered, Stamped, [Next]_vars
    PROVE  Stamped'
<1>1. ASSUME NEW t \in Threads, NEW op \in Ops, Begin(t, op)
      PROVE  Stamped'
  BY <1>1, BeginStamped
<1>2. CASE UNCHANGED <<calls, next_txn_id>>
  BY <1>2 DEF Stamped
<1>3. ASSUME NEW t \in Threads, ThreadStep(t) \/ Timeout(t)
      PROVE  UNCHANGED <<calls, next_txn_id>>
  BY <1>3 DEF ThreadStep, Refuse, Send, Recv, Timeout
<1>4. WorkerStep \/ WorkerTimeout \/ RequestStop \/ UNCHANGED vars
        => UNCHANGED <<calls, next_txn_id>>
  BY DEF WorkerStep, WorkerRecv, WorkerStop, WorkerDecodeThrows, WorkerHandle,
     WorkerSend, WorkerTimeout, RequestStop, vars, clientVars
<1> QED
  BY <1>1, <1>2, <1>3, <1>4 DEF Next

\* Until the ids wrap, a call is known by its id.
LEMMA SameIdSameCall ==
    ASSUME TypeOK, Numbered, Stamped, Len(calls) <= TxnMod,
           NEW c \in 1 .. Len(calls), NEW d \in 1 .. Len(calls),
           calls[c].txn = calls[d].txn
    PROVE  c = d
<1>1. Len(calls) \in Nat /\ TxnMod \in Nat \ {0} /\ DOMAIN calls = 1 .. Len(calls)
  BY CallTyped, BoundsAssumption DEF TypeOK
<1>2. c - 1 \in Nat /\ d - 1 \in Nat
  BY <1>1
<1>3. (c - 1) % TxnMod = (d - 1) % TxnMod
  BY <1>1 DEF Stamped
<1>4. (c - 1) - (d - 1) < TxnMod /\ (d - 1) - (c - 1) < TxnMod
  BY <1>1
<1>5. CASE d - 1 <= c - 1
  <2>1. c - 1 = d - 1
    BY <1>1, <1>2, <1>3, <1>4, <1>5, ModApart
  <2> QED
    BY <1>1, <2>1
<1>6. CASE c - 1 <= d - 1
  <2>1. d - 1 = c - 1
    BY <1>1, <1>2, <1>3, <1>4, <1>6, ModApart
  <2> QED
    BY <1>1, <2>1
<1> QED
  BY <1>1, <1>5, <1>6

-----------------------------------------------------------------------------
(* A thread waits for its latest call, and for no other.                    *)

LEMMA InitAwaited == Init => Awaited
<1> SUFFICES ASSUME Init PROVE Awaited
  OBVIOUS
<1>1. DOMAIN result = {} /\ \A t \in Threads : pc[t] = "idle"
  BY DEF Init
<1> QED
  BY <1>1 DEF Awaited

LEMMA BeginAwaited ==
    ASSUME TypeOK, Numbered, Lanes, Awaited, NEW t \in Threads, NEW op \in Ops,
           Begin(t, op)
    PROVE  Awaited'
<1> DEFINE n == Len(calls)
<1>a. /\ n \in Nat /\ DOMAIN result = 1 .. n /\ DOMAIN result' = 1 .. n + 1
      /\ \A c \in 1 .. n : calls'[c] = calls[c] /\ result'[c] = result[c]
      /\ calls'[n + 1] = [thread |-> t, op |-> op, txn |-> next_txn_id]
      /\ result'[n + 1] = Ended("pending")
      /\ pc[t] = "idle" /\ pc'[t] = "send" /\ cur'[t] = n + 1
      /\ \A u \in Threads \ {t} : pc'[u] = pc[u] /\ cur'[u] = cur[u]
  BY BeginAppends
<1>b. \A u \in Threads : pc[u] # "idle" => cur[u] \in 1 .. n
  BY CurrentCall
<1> HIDE DEF n
<1>1. ASSUME NEW u \in Threads, pc'[u] # "idle"
      PROVE  result'[cur'[u]] = Ended("pending")
  <2>1. CASE u = t
    BY <1>a, <2>1
  <2>2. CASE u # t
    <3>1. pc[u] # "idle" /\ cur'[u] = cur[u]
      BY <1>1, <2>2, <1>a
    <3>2. cur[u] \in 1 .. n
      BY <1>b, <3>1
    <3> QED
      BY <3>1, <3>2, <1>a DEF Awaited
  <2> QED
    BY <2>1, <2>2
<1>2. ASSUME NEW c \in DOMAIN result', result'[c].kind = "pending"
      PROVE  LET u == calls'[c].thread IN pc'[u] # "idle" /\ cur'[u] = c
  <2>1. CASE c = n + 1
    BY <1>a, <2>1
  <2>2. CASE c # n + 1
    <3>1. c \in 1 .. n
      BY <2>2, <1>a
    <3>2. c \in DOMAIN result /\ result'[c] = result[c] /\ calls'[c] = calls[c]
      BY <3>1, <1>a
    <3>3. pc[calls[c].thread] # "idle" /\ cur[calls[c].thread] = c
      BY <1>2, <3>2 DEF Awaited
    <3>4. calls[c].thread \in Threads
      BY <3>1, CallTyped DEF n
    <3>5. calls[c].thread # t
      BY <3>3, <1>a
    <3> QED
      BY <3>2, <3>3, <3>4, <3>5, <1>a
  <2> QED
    BY <2>1, <2>2
<1> QED
  BY <1>1, <1>2 DEF Awaited

\* What the end of a call does to the results and to the threads.
LEMMA EndCallSets ==
    ASSUME TypeOK, Numbered, Lanes, NEW t \in Threads, NEW r,
           pc[t] # "idle",
           result' = [result EXCEPT ![cur[t]] = r],
           pc' = [pc EXCEPT ![t] = "idle"]
    PROVE  /\ DOMAIN result' = DOMAIN result
           /\ cur[t] \in DOMAIN result /\ result'[cur[t]] = r
           /\ \A c \in DOMAIN result \ {cur[t]} : result'[c] = result[c]
           /\ pc'[t] = "idle"
           /\ \A u \in Threads \ {t} :
                 /\ pc'[u] = pc[u]
                 /\ pc[u] # "idle" => cur[u] # cur[t]
<1>1. cur[t] \in DOMAIN result
  BY CurrentCall
<1>2. \A u \in Threads \ {t} : pc[u] # "idle" => cur[u] # cur[t]
  BY CurrentCallsDiffer
<1> QED
  BY <1>1, <1>2 DEF TypeOK

LEMMA EndCallAwaited ==
    ASSUME TypeOK, Numbered, Lanes, Awaited, NEW t \in Threads, NEW r,
           pc[t] # "idle", r.kind # "pending",
           result' = [result EXCEPT ![cur[t]] = r],
           pc' = [pc EXCEPT ![t] = "idle"],
           UNCHANGED <<cur, calls>>
    PROVE  Awaited'
<1>1. ASSUME NEW u \in Threads, pc'[u] # "idle"
      PROVE  result'[cur'[u]] = Ended("pending")
  <2>1. u # t /\ pc[u] # "idle" /\ cur[u] # cur[t]
    BY <1>1, EndCallSets
  <2>2. cur[u] \in DOMAIN result
    BY <2>1, CurrentCall
  <2> QED
    BY <2>1, <2>2, EndCallSets DEF Awaited
<1>2. ASSUME NEW c \in DOMAIN result', result'[c].kind = "pending"
      PROVE  LET u == calls'[c].thread IN pc'[u] # "idle" /\ cur'[u] = c
  <2>1. c \in DOMAIN result /\ c # cur[t] /\ result[c].kind = "pending"
    BY <1>2, EndCallSets
  <2>2. pc[calls[c].thread] # "idle" /\ cur[calls[c].thread] = c
    BY <2>1 DEF Awaited
  <2>3. calls[c].thread \in Threads /\ calls[c].thread # t
    BY <2>1, <2>2, CallTyped
  <2> QED
    BY <2>2, <2>3, EndCallSets
<1> QED
  BY <1>1, <1>2 DEF Awaited

LEMMA StepAwaited ==
    ASSUME TypeOK, Numbered, Lanes, Awaited, [Next]_vars
    PROVE  Awaited'
<1>1. ASSUME NEW t \in Threads, Refuse(t) \/ Timeout(t)
      PROVE  Awaited'
  <2>1. PICK kind \in {"refused", "timeout"} :
           result' = [result EXCEPT ![cur[t]] = Ended(kind)]
    BY <1>1 DEF Refuse, Timeout
  <2>2. Ended(kind).kind # "pending"
    BY DEF Ended
  <2> QED
    BY <1>1, <2>1, <2>2, EndCallAwaited DEF Refuse, Timeout
<1>2. ASSUME NEW t \in Threads, Recv(t)
      PROVE  Awaited'
  <2> DEFINE f == Head(s2c)
             r == [kind |-> Judge(cur[t], f), from |-> f.call, data |-> f.data]
  <2>1. r.kind # "pending"
    BY DEF Judge
  <2>2. /\ result' = [result EXCEPT ![cur[t]] = r] /\ pc[t] # "idle"
        /\ pc' = [pc EXCEPT ![t] = "idle"] /\ UNCHANGED <<cur, calls>>
    BY <1>2 DEF Recv
  <2> HIDE DEF r
  <2> QED
    BY <2>1, <2>2, EndCallAwaited
<1>3. ASSUME NEW t \in Threads, Send(t)
      PROVE  Awaited'
  <2>1. UNCHANGED <<cur, calls, result>>
        /\ \A u \in Threads : (pc'[u] # "idle") = (pc[u] # "idle")
    BY <1>3 DEF Send, TypeOK
  <2>2. \A c \in DOMAIN result : calls[c].thread \in Threads
    BY CallTyped
  <2> QED
    BY <2>1, <2>2 DEF Awaited
<1>4. CASE UNCHANGED <<pc, cur, calls, result>>
  BY <1>4 DEF Awaited
<1>5. WorkerStep \/ WorkerTimeout \/ RequestStop \/ UNCHANGED vars
        => UNCHANGED <<pc, cur, calls, result>>
  BY DEF WorkerStep, WorkerRecv, WorkerStop, WorkerDecodeThrows, WorkerHandle,
     WorkerSend, WorkerTimeout, RequestStop, vars, clientVars
<1> QED
  BY <1>1, <1>2, <1>3, <1>4, <1>5, BeginAwaited DEF Next, ThreadStep

-----------------------------------------------------------------------------
(* No accepted call is missing from the pipeline.                           *)

LEMMA InitNoneMissing == Init => NoneMissing
<1> SUFFICES ASSUME Init PROVE NoneMissing
  OBVIOUS
<1>1. DOMAIN calls = {} /\ DOMAIN result = {} /\ DOMAIN performed = {}
  BY DEF Init
<1>2. PerformedCalls = {}
  BY <1>1 DEF PerformedCalls, Range
<1> QED
  BY <1>1, <1>2 DEF NoneMissing

LEMMA PerformedNumbers ==
    ASSUME TypeOK, Numbered
    PROVE  PerformedCalls \subseteq 1 .. Len(calls)
  BY FrameNumbers DEF PerformedCalls, Range

LEMMA BeginNoneMissing ==
    ASSUME TypeOK, Numbered, NoneMissing, NEW t \in Threads, NEW op \in Ops,
           Begin(t, op)
    PROVE  NoneMissing'
<1> DEFINE n == Len(calls)
<1>1. /\ n \in Nat /\ DOMAIN calls = 1 .. n /\ DOMAIN result = 1 .. n
      /\ DOMAIN calls' = 1 .. n + 1 /\ DOMAIN result' = 1 .. n + 1
      /\ \A c \in 1 .. n : calls'[c] = calls[c] /\ result'[c] = result[c]
      /\ result'[n + 1] = Ended("pending")
      /\ pc[t] = "idle" /\ pc'[t] = "send" /\ cur'[t] = n + 1
      /\ \A u \in Threads \ {t} : pc'[u] = pc[u] /\ cur'[u] = cur[u]
  BY BeginAppends
<1>2. UNCHANGED <<c2s, cmd, performed, worker>>
  BY DEF Begin, serverVars
<1>3. UNCHANGED PerformedCalls /\ PerformedCalls \subseteq 1 .. n
  BY <1>2, PerformedNumbers DEF PerformedCalls
<1> HIDE DEF n
<1>4. ASSUME worker' # "stopped", NEW c \in DOMAIN calls'
      PROVE  \/ result'[c].kind = "refused"
             \/ \E u \in Threads : pc'[u] = "send" /\ cur'[u] = c
             \/ c \in Range(c2s') \cup {cmd'} \cup PerformedCalls'
  <2>1. CASE c = n + 1
    BY <1>1, <2>1
  <2>2. CASE c # n + 1
    <3>1. c \in 1 .. n
      BY <1>1, <2>2
    <3>2. \/ result[c].kind = "refused"
          \/ \E u \in Threads : pc[u] = "send" /\ cur[u] = c
          \/ c \in Range(c2s) \cup {cmd} \cup PerformedCalls
      BY <1>1, <1>2, <1>4, <3>1 DEF NoneMissing
    <3> QED
      BY <1>1, <1>2, <1>3, <3>1, <3>2
  <2> QED
    BY <2>1, <2>2
<1>5. ASSUME NEW c \in PerformedCalls'
      PROVE  Settled(c)'
  <2>1. c \in 1 .. n /\ Settled(c)
    BY <1>3 DEF NoneMissing
  <2>2. \A d \in 1 .. c - 1 : d \in 1 .. n
    BY <1>1, <2>1
  <2> QED
    BY <1>1, <1>3, <2>1, <2>2 DEF Settled
<1>6. ASSUME NEW c \in DOMAIN result'
      PROVE  result'[c].from \in PerformedCalls' \cup {0}
  <2>1. CASE c = n + 1
    BY <1>1, <2>1 DEF Ended
  <2>2. CASE c # n + 1
    <3>1. c \in 1 .. n
      BY <1>1, <2>2
    <3> QED
      BY <1>1, <1>3, <3>1 DEF NoneMissing
  <2> QED
    BY <2>1, <2>2
<1> QED
  BY <1>4, <1>5, <1>6 DEF NoneMissing

\* A call that is not about to be sent ends, or it is refused.
LEMMA EndCallNoneMissing ==
    ASSUME TypeOK, Numbered, Lanes, Awaited, NoneMissing,
           NEW t \in Threads, NEW r,
           pc[t] = "recv" \/ (pc[t] = "send" /\ r.kind = "refused"),
           r.from \in PerformedCalls \cup {0},
           result' = [result EXCEPT ![cur[t]] = r],
           pc' = [pc EXCEPT ![t] = "idle"],
           UNCHANGED <<cur, calls, c2s, cmd, performed, worker>>
    PROVE  NoneMissing'
<1>1. /\ DOMAIN result' = DOMAIN result
      /\ cur[t] \in DOMAIN result /\ result'[cur[t]] = r
      /\ \A c \in DOMAIN result \ {cur[t]} : result'[c] = result[c]
      /\ \A u \in Threads \ {t} : pc'[u] = pc[u]
  BY EndCallSets
<1>2. result[cur[t]].kind = "pending"
  BY DEF Awaited, Ended
<1>3. \A c \in DOMAIN result :
         result[c].kind = "refused" => result'[c].kind = "refused"
  BY <1>1, <1>2
<1>4. UNCHANGED PerformedCalls
  BY DEF PerformedCalls
<1>5. DOMAIN result = DOMAIN calls /\ DOMAIN calls = 1 .. Len(calls)
      /\ Len(calls) \in Nat /\ PerformedCalls \subseteq 1 .. Len(calls)
  BY CallTyped, PerformedNumbers DEF TypeOK
<1>6. ASSUME worker' # "stopped", NEW c \in DOMAIN calls'
      PROVE  \/ result'[c].kind = "refused"
             \/ \E u \in Threads : pc'[u] = "send" /\ cur'[u] = c
             \/ c \in Range(c2s') \cup {cmd'} \cup PerformedCalls'
  <2>1. \/ result[c].kind = "refused"
        \/ \E u \in Threads : pc[u] = "send" /\ cur[u] = c
        \/ c \in Range(c2s) \cup {cmd} \cup PerformedCalls
    BY <1>6 DEF NoneMissing
  <2>2. ASSUME NEW u \in Threads, pc[u] = "send", cur[u] = c
        PROVE  \/ result'[c].kind = "refused"
               \/ pc'[u] = "send" /\ cur'[u] = c
    BY <1>1, <2>2
  <2> QED
    BY <1>3, <1>4, <1>5, <2>1, <2>2
<1>7. ASSUME NEW c \in PerformedCalls'
      PROVE  Settled(c)'
  <2>1. Settled(c) /\ c \in 1 .. Len(calls)
    BY <1>4, <1>5 DEF NoneMissing
  <2>2. \A d \in 1 .. c - 1 : d \in DOMAIN result
    BY <1>5, <2>1
  <2> QED
    BY <1>3, <1>4, <2>1, <2>2 DEF Settled
<1>8. ASSUME NEW c \in DOMAIN result'
      PROVE  result'[c].from \in PerformedCalls' \cup {0}
  BY <1>1, <1>4 DEF NoneMissing
<1> QED
  BY <1>6, <1>7, <1>8 DEF NoneMissing

LEMMA SendNoneMissing ==
    ASSUME TypeOK, NoneMissing, NEW t \in Threads, Send(t)
    PROVE  NoneMissing'
<1>1. UNCHANGED <<cur, calls, result, cmd, performed, worker>>
  BY DEF Send, serverVars
<1>2. Range(c2s') = Range(c2s) \cup {cur[t]}
  <2>1. c2s \in Seq(CallNumbers)
    BY DEF TypeOK
  <2>2. /\ DOMAIN c2s' = DOMAIN c2s \cup {Len(c2s) + 1}
        /\ \A i \in DOMAIN c2s : c2s'[i] = c2s[i]
        /\ c2s'[Len(c2s) + 1] = cur[t]
    BY <2>1 DEF Send, Pushed
  <2> QED
    BY <2>2 DEF Range
<1>3. \A u \in Threads : pc[u] = "send" => u = t \/ pc'[u] = "send"
  BY DEF Send, TypeOK
<1>4. UNCHANGED PerformedCalls
  BY <1>1 DEF PerformedCalls
<1> QED
  BY <1>1, <1>2, <1>3, <1>4 DEF NoneMissing, Settled

LEMMA WorkerRecvNoneMissing ==
    ASSUME TypeOK, Numbered, NoneMissing, WorkerRecv
    PROVE  NoneMissing'
<1>1. UNCHANGED <<pc, cur, calls, result, performed>>
      /\ worker # "stopped" /\ cmd = 0
  BY DEF WorkerRecv, clientVars, Numbered
<1>2. Range(c2s) \subseteq Range(c2s') \cup {cmd'}
  <2>1. c2s \in Seq(CallNumbers) /\ c2s # <<>>
        /\ c2s' = Tail(c2s) /\ cmd' = Head(c2s)
    BY DEF TypeOK, WorkerRecv, Popped
  <2>2. ASSUME NEW i \in DOMAIN c2s
        PROVE  c2s[i] \in Range(c2s') \cup {cmd'}
    <3>1. CASE i = 1
      BY <2>1, <3>1
    <3>2. CASE i # 1
      <4>1. i - 1 \in DOMAIN c2s' /\ c2s'[i - 1] = c2s[i]
        BY <2>1, <3>2
      <4> QED
        BY <4>1 DEF Range
    <3> QED
      BY <3>1, <3>2
  <2> QED
    BY <2>2 DEF Range
<1>3. 0 \notin DOMAIN calls
  BY DEF TypeOK
<1>4. UNCHANGED PerformedCalls
  BY <1>1 DEF PerformedCalls
<1>5. \A c \in DOMAIN calls : c # cmd
  BY <1>1, <1>3
<1> QED
  BY <1>1, <1>2, <1>4, <1>5 DEF NoneMissing, Settled

\* What the worker is about to carry out comes right after all that has been
\* carried out for its thread.
LEMMA NextIsSettled ==
    ASSUME TypeOK, Numbered, Lanes, NoneMissing, worker = "handle"
    PROVE  Settled(cmd)
<1>1. cmd \in 1 .. Len(calls) /\ Len(calls) \in Nat /\ DOMAIN calls = 1 .. Len(calls)
  BY FrameNumbers, CallTyped DEF Numbered, TypeOK
<1>2. SUFFICES ASSUME NEW d \in 1 .. cmd - 1,
                      calls[d].thread = calls[cmd].thread,
                      result[d].kind # "refused"
               PROVE  d \in PerformedCalls
  BY DEF Settled
<1>3. d \in DOMAIN calls /\ d < cmd
  BY <1>1
<1>4. \A u \in Threads : pc[u] = "send" => cur[u] # d
  <2>1. SUFFICES ASSUME NEW u \in Threads, pc[u] = "send", cur[u] = d
                 PROVE  FALSE
    OBVIOUS
  <2>2. Before(cmd, d)
    BY <1>1, <2>1 DEF Lanes
  <2> QED
    BY <1>1, <1>2, <1>3, <2>2 DEF Before
<1>5. d \notin Range(c2s)
  <2>1. SUFFICES ASSUME NEW j \in DOMAIN c2s, c2s[j] = d
                 PROVE  FALSE
    BY DEF Range
  <2>2. Before(cmd, d)
    BY <1>1, <2>1 DEF Lanes
  <2> QED
    BY <1>1, <1>2, <1>3, <2>2 DEF Before
<1> QED
  BY <1>1, <1>2, <1>3, <1>4, <1>5 DEF NoneMissing

LEMMA WorkerHandleNoneMissing ==
    ASSUME TypeOK, Numbered, Lanes, NoneMissing, WorkerHandle
    PROVE  NoneMissing'
<1>1. UNCHANGED <<pc, cur, calls, result, c2s>> /\ worker = "handle"
  BY DEF WorkerHandle, clientVars
<1>2. PerformedCalls' = PerformedCalls \cup {cmd}
  <2>1. performed \in Seq(Response) /\ performed' = Append(performed, resp')
        /\ resp'.call = cmd
    BY DEF TypeOK, WorkerHandle
  <2>2. Range(performed') = Range(performed) \cup {resp'}
    <3>1. /\ DOMAIN performed' = DOMAIN performed \cup {Len(performed) + 1}
          /\ \A i \in DOMAIN performed : performed'[i] = performed[i]
          /\ performed'[Len(performed) + 1] = resp'
      BY <2>1
    <3> QED
      BY <3>1 DEF Range
  <2> QED
    BY <2>1, <2>2 DEF PerformedCalls
<1>3. \A c \in PerformedCalls' : Settled(c)
  BY <1>1, <1>2, NextIsSettled DEF NoneMissing
<1>4. \A c \in PerformedCalls' : Settled(c)'
  BY <1>1, <1>2, <1>3 DEF Settled
<1> QED
  BY <1>1, <1>2, <1>4 DEF NoneMissing

LEMMA StepNoneMissing ==
    ASSUME TypeOK, Numbered, Lanes, Truthful, Awaited, NoneMissing, [Next]_vars
    PROVE  NoneMissing'
<1>1. ASSUME NEW t \in Threads, Refuse(t)
      PROVE  NoneMissing'
  <2>1. Ended("refused").from = 0 /\ Ended("refused").kind = "refused"
    BY DEF Ended
  <2> QED
    BY <1>1, <2>1, EndCallNoneMissing DEF Refuse, serverVars
<1>2. ASSUME NEW t \in Threads, Timeout(t)
      PROVE  NoneMissing'
  <2>1. Ended("timeout").from = 0
    BY DEF Ended
  <2> QED
    BY <1>2, <2>1, EndCallNoneMissing DEF Timeout, serverVars
<1>3. ASSUME NEW t \in Threads, Recv(t)
      PROVE  NoneMissing'
  <2> DEFINE f == Head(s2c)
             r == [kind |-> Judge(cur[t], f), from |-> f.call, data |-> f.data]
  <2>1. f = s2c[1] /\ 1 \in DOMAIN s2c
    BY <1>3 DEF Recv, TypeOK
  <2>2. f.call \in PerformedCalls
    BY <2>1 DEF Truthful, PerformedCalls
  <2>3. r.from \in PerformedCalls
    BY <2>2
  <2>4. /\ pc[t] = "recv" /\ result' = [result EXCEPT ![cur[t]] = r]
        /\ pc' = [pc EXCEPT ![t] = "idle"]
        /\ UNCHANGED <<cur, calls, c2s, cmd, performed, worker>>
    BY <1>3 DEF Recv, serverVars
  <2> HIDE DEF r
  <2> QED
    BY <2>3, <2>4, EndCallNoneMissing
<1>4. ASSUME UNCHANGED <<pc, cur, calls, result, performed, c2s>>,
             worker' = "stopped" \/ (worker # "stopped" /\ UNCHANGED cmd)
                \/ UNCHANGED <<worker, cmd>>
      PROVE  NoneMissing'
  <2>1. UNCHANGED PerformedCalls
    BY <1>4 DEF PerformedCalls
  <2> QED
    BY <1>4, <2>1 DEF NoneMissing, Settled
<1>5. CASE WorkerStop \/ WorkerDecodeThrows \/ WorkerTimeout \/ WorkerSend
           \/ RequestStop \/ UNCHANGED vars
  BY <1>4, <1>5 DEF WorkerStop, WorkerDecodeThrows, WorkerTimeout, WorkerSend,
     RequestStop, vars, clientVars, serverVars
<1> QED
  BY <1>1, <1>2, <1>3, <1>5, BeginNoneMissing, SendNoneMissing,
     WorkerRecvNoneMissing, WorkerHandleNoneMissing
  DEF Next, ThreadStep, WorkerStep

-----------------------------------------------------------------------------
(* The responses stand in order.                                            *)

LEMMA InitResponsesInLine == Init => ResponsesInLine
  BY DEF Init, ResponsesInLine

\* Calls keep their order when another is begun.
LEMMA BeginKeepsBefore ==
    ASSUME TypeOK, Numbered, NEW t \in Threads, NEW op \in Ops, Begin(t, op),
           NEW c \in 1 .. Len(calls), NEW d \in 1 .. Len(calls), Before(c, d)
    PROVE  Before(c, d)'
  BY BeginAppends DEF Before

\* Popping the oldest response.
LEMMA TailResponses ==
    ASSUME TypeOK, s2c # <<>>, s2c' = Tail(s2c)
    PROVE  /\ 1 \in DOMAIN s2c /\ Head(s2c) = s2c[1]
           /\ \A i \in DOMAIN s2c' :
                 i \in Nat /\ i >= 1 /\ i + 1 \in DOMAIN s2c /\ s2c'[i] = s2c[i + 1]
<1>1. s2c \in Seq(Response)
  BY DEF TypeOK
<1> QED
  BY <1>1

LEMMA StepResponsesInLine ==
    ASSUME TypeOK, Numbered, Lanes, Truthful, ResponsesInLine, [Next]_vars
    PROVE  ResponsesInLine'
<1>1. ASSUME NEW t \in Threads, NEW op \in Ops, Begin(t, op)
      PROVE  ResponsesInLine'
  <2>1. UNCHANGED <<s2c, resp>>
    BY <1>1 DEF Begin, serverVars
  <2> QED
    BY <1>1, <2>1, FrameNumbers, BeginKeepsBefore DEF ResponsesInLine
<1>2. ASSUME NEW t \in Threads, Recv(t)
      PROVE  ResponsesInLine'
  <2>1. UNCHANGED <<calls, resp>>
    BY <1>2 DEF Recv, serverVars
  <2>2. \A i \in DOMAIN s2c' :
           i \in Nat /\ i + 1 \in DOMAIN s2c /\ s2c'[i] = s2c[i + 1]
    BY <1>2, TailResponses DEF Recv, Popped
  <2> QED
    BY <2>1, <2>2 DEF ResponsesInLine, Before
<1>3. CASE WorkerHandle
  <2>1. UNCHANGED <<calls, s2c>> /\ resp'.call = cmd /\ cmd # 0
    BY <1>3 DEF WorkerHandle, clientVars, Numbered
  <2>2. \A i \in DOMAIN s2c : Before(s2c[i].call, cmd)
    BY <2>1 DEF Lanes, Truthful, Range
  <2> QED
    BY <2>1, <2>2 DEF ResponsesInLine, Before
<1>4. CASE WorkerSend
  <2>1. UNCHANGED calls /\ resp # NoResponse
    BY <1>4 DEF WorkerSend, clientVars, Numbered
  <2>2. CASE s2c' = s2c /\ resp' = resp
    BY <2>1, <2>2 DEF ResponsesInLine, Before
  <2>3. CASE s2c' = Append(s2c, resp) /\ resp' = NoResponse
    <3>1. s2c \in Seq(Response)
      BY DEF TypeOK
    <3>2. \A j \in DOMAIN s2c' :
             \/ j \in DOMAIN s2c /\ s2c'[j] = s2c[j]
             \/ j = Len(s2c) + 1 /\ s2c'[j] = resp
      BY <2>3, <3>1
    <3>3. \A i, j \in DOMAIN s2c' : i < j => i \in DOMAIN s2c
      BY <2>3, <3>1
    <3>4. \A i, j \in DOMAIN s2c' :
             i < j => Before(s2c'[i].call, s2c'[j].call)
      BY <2>1, <3>2, <3>3 DEF ResponsesInLine
    <3> QED
      BY <2>1, <2>3, <3>4 DEF ResponsesInLine, Before
  <2> QED
    BY <1>4, <2>2, <2>3 DEF WorkerSend, Pushed
<1>5. CASE UNCHANGED <<calls, s2c, resp>>
  BY <1>5 DEF ResponsesInLine, Before
<1>6. ASSUME NEW t \in Threads, Refuse(t) \/ Send(t) \/ Timeout(t)
      PROVE  UNCHANGED <<calls, s2c, resp>>
  BY <1>6 DEF Refuse, Send, Timeout, serverVars
<1>7. WorkerRecv \/ WorkerStop \/ WorkerDecodeThrows \/ WorkerTimeout
         \/ RequestStop \/ UNCHANGED vars
        => UNCHANGED <<calls, s2c, resp>>
  BY DEF WorkerRecv, WorkerStop, WorkerDecodeThrows, WorkerTimeout, RequestStop,
     vars, clientVars, serverVars
<1> QED
  BY <1>1, <1>2, <1>3, <1>4, <1>5, <1>6, <1>7
  DEF Next, ThreadStep, WorkerStep

-----------------------------------------------------------------------------
(* How stale a response can be when one thread makes the calls.             *)

\* The calls that have slipped, and those before a call, can be counted.
LEMMA SlipsCount ==
    ASSUME TypeOK
    PROVE  /\ IsFiniteSet(Slips) /\ Cardinality(Slips) \in Nat
           /\ \A c : SlipsBefore(c) \in Nat
<1>1. Slips \subseteq 1 .. Len(result) /\ Len(result) \in Nat
  BY DEF TypeOK, Slips
<1>2. IsFiniteSet(1 .. Len(result))
  BY <1>1, FS_Interval
<1>3. \A S \in SUBSET Slips : IsFiniteSet(S)
  BY <1>1, <1>2, FS_Subset
<1>4. \A S \in SUBSET Slips : Cardinality(S) \in Nat
  BY <1>3, FS_CardinalityType
<1>5. \A c : {d \in Slips : d < c} \in SUBSET Slips
  OBVIOUS
<1> QED
  BY <1>3, <1>4, <1>5 DEF SlipsBefore

\* A step that ends no call leaves the slips alone.
LEMMA SameSlips ==
    ASSUME UNCHANGED result
    PROVE  UNCHANGED Slips /\ \A c : UNCHANGED SlipsBefore(c)
  BY DEF Slips, SlipsBefore

\* With one thread, no call is later than that of a thread.
LEMMA OneThreadOrder ==
    ASSUME TypeOK, Numbered, OneThread,
           NEW c \in 1 .. Len(calls), NEW d \in 1 .. Len(calls), Before(c, d)
    PROVE  c < d
  BY CallTyped DEF Before, OneThread

\* Beginning a call is no slip.
LEMMA BeginSlips ==
    ASSUME TypeOK, Numbered, NEW t \in Threads, NEW op \in Ops, Begin(t, op)
    PROVE  UNCHANGED Slips /\ \A c : UNCHANGED SlipsBefore(c)
<1> DEFINE n == Len(calls)
<1>1. /\ n \in Nat /\ DOMAIN result = 1 .. n /\ DOMAIN result' = 1 .. n + 1
      /\ \A c \in 1 .. n : result'[c] = result[c]
      /\ result'[n + 1] = Ended("pending")
  BY BeginAppends
<1> HIDE DEF n
<1>2. result'[n + 1].kind = "pending"
  BY <1>1 DEF Ended
<1>3. UNCHANGED Slips
  BY <1>1, <1>2 DEF Slips
<1> QED
  BY <1>3 DEF SlipsBefore

\* The end of a call is a slip or not, and no slip before any earlier call.
LEMMA EndCallSlips ==
    ASSUME TypeOK, Numbered, Lanes, Awaited, NEW t \in Threads, NEW r,
           pc[t] # "idle",
           result' = [result EXCEPT ![cur[t]] = r],
           pc' = [pc EXCEPT ![t] = "idle"]
    PROVE  /\ r.kind \in {"timeout", "refused"}
                => Cardinality(Slips') = Cardinality(Slips) + 1
           /\ r.kind \notin {"timeout", "refused"} => Slips' = Slips
           /\ \A c \in 1 .. cur[t] : UNCHANGED SlipsBefore(c)
<1>1. /\ DOMAIN result' = DOMAIN result
      /\ cur[t] \in DOMAIN result /\ result'[cur[t]] = r
      /\ \A c \in DOMAIN result \ {cur[t]} : result'[c] = result[c]
  BY EndCallSets
<1>2. cur[t] \notin Slips /\ cur[t] \in Nat
  BY <1>1 DEF Awaited, Ended, Slips, TypeOK
<1>3. CASE r.kind \in {"timeout", "refused"}
  <2>1. Slips' = Slips \cup {cur[t]}
    BY <1>1, <1>3 DEF Slips
  <2>2. Cardinality(Slips') = Cardinality(Slips) + 1
    BY <1>2, <2>1, SlipsCount, FS_AddElement
  <2>3. \A c \in 1 .. cur[t] : {d \in Slips' : d < c} = {d \in Slips : d < c}
    BY <1>2, <2>1
  <2> QED
    BY <1>3, <2>2, <2>3 DEF SlipsBefore
<1>4. CASE r.kind \notin {"timeout", "refused"}
  <2>1. Slips' = Slips
    BY <1>1, <1>2, <1>4 DEF Slips
  <2> QED
    BY <1>4, <2>1 DEF SlipsBefore
<1> QED
  BY <1>3, <1>4

LEMMA InitFresh == Init => Fresh
<1> SUFFICES ASSUME Init PROVE Fresh
  OBVIOUS
<1>1. /\ DOMAIN result = {} /\ DOMAIN s2c = {} /\ DOMAIN c2s = {}
      /\ cmd = 0 /\ resp = NoResponse
      /\ Len(calls) = 0 /\ \A t \in Threads : cur[t] = 0
  BY DEF Init
<1> QED
  BY <1>1 DEF Fresh, StaleOnlyAfterSlips

\* With one thread, a call that ends has all others before it.
LEMMA EndCallStale ==
    ASSUME TypeOK, Numbered, Lanes, Awaited, Fresh, NEW t \in Threads, NEW r,
           pc[t] # "idle",
           result' = [result EXCEPT ![cur[t]] = r],
           pc' = [pc EXCEPT ![t] = "idle"],
           OneThread => r.from = 0 \/ r.from \in Taken(t) + 1 .. cur[t]
    PROVE  StaleOnlyAfterSlips'
<1> SUFFICES ASSUME OneThread, NEW c \in DOMAIN result', result'[c].from # 0
             PROVE  result'[c].from \in (c - SlipsBefore(c)') .. c
  BY DEF StaleOnlyAfterSlips
<1>1. /\ DOMAIN result' = DOMAIN result
      /\ cur[t] \in DOMAIN result /\ result'[cur[t]] = r
      /\ \A d \in DOMAIN result \ {cur[t]} : result'[d] = result[d]
  BY EndCallSets
<1>2. cur[t] = Len(calls) /\ DOMAIN result = 1 .. Len(calls) /\ Len(calls) \in Nat
  BY CallTyped DEF Fresh, TypeOK
<1>3. SlipsBefore(c)' = SlipsBefore(c)
  BY <1>1, <1>2, EndCallSlips
<1>4. CASE c # cur[t]
  BY <1>1, <1>3, <1>4 DEF Fresh, StaleOnlyAfterSlips
<1>5. CASE c = cur[t]
  <2>1. result[cur[t]].kind = "pending"
    BY DEF Awaited, Ended
  <2>2. cur[t] \notin Slips /\ Slips \subseteq 1 .. cur[t]
    BY <1>2, <2>1 DEF Slips
  <2>3. {d \in Slips : d < c} = Slips
    <3>1. \A d \in Slips : d < c
      BY <1>2, <1>5, <2>2
    <3> QED
      BY <3>1
  <2>4. SlipsBefore(c) = Cardinality(Slips)
    BY <2>3 DEF SlipsBefore
  <2>5. Taken(t) + 1 = c - SlipsBefore(c)
    BY <1>2, <1>5, <2>4, SlipsCount DEF Taken
  <2> QED
    BY <1>1, <1>3, <1>5, <2>5
<1> QED
  BY <1>4, <1>5

\* A step after which the frames are the same and no call has taken another.
LEMMA FreshFrame ==
    ASSUME Fresh, StaleOnlyAfterSlips', UNCHANGED <<s2c, c2s, cmd, resp>>,
           OneThread => \A t \in Threads :
               cur'[t] = Len(calls') /\ Taken(t)' = Taken(t)
    PROVE  Fresh'
  BY DEF Fresh

LEMMA BeginFresh ==
    ASSUME TypeOK, Numbered, Fresh, NEW t \in Threads, NEW op \in Ops,
           Begin(t, op)
    PROVE  Fresh'
<1> DEFINE n == Len(calls)
<1>1. /\ n \in Nat /\ DOMAIN result = 1 .. n /\ DOMAIN result' = 1 .. n + 1
      /\ \A c \in 1 .. n : result'[c] = result[c]
      /\ result'[n + 1] = Ended("pending") /\ Len(calls') = n + 1
      /\ pc[t] = "idle" /\ pc'[t] = "send" /\ cur'[t] = n + 1
  BY BeginAppends
<1>2. UNCHANGED Slips /\ \A c : UNCHANGED SlipsBefore(c)
  BY BeginSlips
<1>3. UNCHANGED <<s2c, c2s, cmd, resp>>
  BY DEF Begin, serverVars
<1> HIDE DEF n
<1>4. StaleOnlyAfterSlips'
  <2> SUFFICES ASSUME OneThread, NEW c \in DOMAIN result', result'[c].from # 0
               PROVE  result'[c].from \in (c - SlipsBefore(c)') .. c
    BY DEF StaleOnlyAfterSlips
  <2>1. c # n + 1
    BY <1>1 DEF Ended
  <2>2. c \in 1 .. n
    BY <1>1, <2>1
  <2>3. result'[c] = result[c] /\ c \in DOMAIN result
    BY <1>1, <2>2
  <2> QED
    BY <1>2, <2>3 DEF Fresh, StaleOnlyAfterSlips
<1>5. ASSUME OneThread, NEW u \in Threads
      PROVE  cur'[u] = Len(calls') /\ Taken(u)' = Taken(u)
  <2>1. u = t
    BY <1>5 DEF OneThread
  <2>2. cur[t] = n
    BY <1>5 DEF Fresh, n
  <2>3. Cardinality(Slips) \in Nat
    BY SlipsCount
  <2> QED
    BY <1>1, <1>2, <2>1, <2>2, <2>3 DEF Taken
<1> QED
  BY <1>3, <1>4, <1>5, FreshFrame

LEMMA SlipFresh ==
    ASSUME TypeOK, Numbered, Lanes, Awaited, Fresh, NEW t \in Threads,
           Refuse(t) \/ Timeout(t)
    PROVE  Fresh'
<1>1. PICK kind \in {"refused", "timeout"} :
         result' = [result EXCEPT ![cur[t]] = Ended(kind)]
  BY DEF Refuse, Timeout
<1>2. /\ pc[t] # "idle" /\ pc' = [pc EXCEPT ![t] = "idle"]
      /\ UNCHANGED <<cur, calls, s2c, c2s, cmd, resp>>
  BY DEF Refuse, Timeout, serverVars
<1>3. Ended(kind).from = 0 /\ Ended(kind).kind = kind
  BY DEF Ended
<1>4. StaleOnlyAfterSlips'
  BY <1>1, <1>2, <1>3, EndCallStale
<1>5. ASSUME OneThread, NEW u \in Threads
      PROVE  cur'[u] = Len(calls') /\ Taken(u)' = Taken(u)
  <2>1. u = t /\ cur[u] = Len(calls)
    BY <1>5 DEF OneThread, Fresh
  <2>2. Cardinality(Slips') = Cardinality(Slips) + 1
    BY <1>1, <1>2, <1>3, EndCallSlips
  <2>3. pc'[t] = "idle" /\ Cardinality(Slips) \in Nat /\ cur[t] \in Nat
    BY <1>2, SlipsCount DEF TypeOK
  <2> QED
    BY <1>2, <2>1, <2>2, <2>3 DEF Taken
<1> QED
  BY <1>2, <1>4, <1>5, FreshFrame

\* With one thread the pipeline is in order from the oldest response to the
\* latest command: what is behind a response is of a later call.
LEMMA HeadIsOldest ==
    ASSUME TypeOK, Numbered, Lanes, Truthful, ResponsesInLine, OneThread,
           NEW i \in DOMAIN s2c
    PROVE  /\ \A j \in DOMAIN s2c : i < j => s2c[i].call < s2c[j].call
           /\ resp # NoResponse => s2c[i].call < resp.call
           /\ cmd # 0 => s2c[i].call < cmd
           /\ \A j \in DOMAIN c2s : s2c[i].call < c2s[j]
<1>1. s2c[i].call \in 1 .. Len(calls)
  BY FrameNumbers
<1>2. PICK k \in DOMAIN performed : s2c[i] = performed[k]
  BY DEF Truthful, Range
<1>3. \A j \in DOMAIN s2c : i < j => s2c[i].call < s2c[j].call
  BY <1>1, FrameNumbers, OneThreadOrder DEF ResponsesInLine
<1>4. resp # NoResponse => s2c[i].call < resp.call
  BY <1>1, FrameNumbers, OneThreadOrder DEF ResponsesInLine
<1>5. cmd # 0 => s2c[i].call < cmd
  BY <1>1, <1>2, FrameNumbers, OneThreadOrder DEF Lanes
<1>6. \A j \in DOMAIN c2s : s2c[i].call < c2s[j]
  BY <1>1, <1>2, FrameNumbers, OneThreadOrder DEF Lanes
<1> QED
  BY <1>3, <1>4, <1>5, <1>6

LEMMA RecvFresh ==
    ASSUME TypeOK, Numbered, Lanes, Truthful, Awaited, ResponsesInLine, Fresh,
           NEW t \in Threads, Recv(t)
    PROVE  Fresh'
<1> DEFINE f == Head(s2c)
           r == [kind |-> Judge(cur[t], f), from |-> f.call, data |-> f.data]
<1>1. /\ pc[t] # "idle" /\ pc' = [pc EXCEPT ![t] = "idle"]
      /\ result' = [result EXCEPT ![cur[t]] = r]
      /\ s2c # <<>> /\ s2c' = Tail(s2c)
      /\ UNCHANGED <<cur, calls, c2s, cmd, resp>>
  BY DEF Recv, Popped, serverVars
<1>2. /\ 1 \in DOMAIN s2c /\ f = s2c[1]
      /\ \A i \in DOMAIN s2c' :
            i \in Nat /\ i >= 1 /\ i + 1 \in DOMAIN s2c /\ s2c'[i] = s2c[i + 1]
  BY <1>1, TailResponses
<1>3. r.from = f.call /\ r.kind \notin {"timeout", "refused"}
  BY DEF Judge
<1> HIDE DEF f, r
<1>4. f.call \in 1 .. Len(calls)
  BY <1>2, FrameNumbers
<1>5. Cardinality(Slips) \in Nat /\ Len(calls) \in Nat
  BY SlipsCount DEF TypeOK
<1>6. StaleOnlyAfterSlips'
  <2>1. OneThread => r.from \in Taken(t) + 1 .. cur[t]
    <3> SUFFICES ASSUME OneThread PROVE r.from \in Taken(t) + 1 .. cur[t]
      OBVIOUS
    <3>1. cur[t] = Len(calls) /\ Taken(t) < f.call
      BY <1>2 DEF Fresh
    <3>2. Taken(t) \in Int
      BY <1>5, <3>1 DEF Taken
    <3> QED
      BY <1>3, <1>4, <1>5, <3>1, <3>2
  <2> QED
    BY <1>1, <2>1, EndCallStale
<1>7. ASSUME OneThread, NEW u \in Threads
      PROVE  /\ cur'[u] = Len(calls')
             /\ \A i \in DOMAIN s2c' : Taken(u)' < s2c'[i].call
             /\ \A i \in DOMAIN c2s' : Taken(u)' < c2s'[i]
             /\ cmd' # 0 => Taken(u)' < cmd'
             /\ resp' # NoResponse => Taken(u)' < resp'.call
  <2>1. u = t /\ cur[u] = Len(calls)
    BY <1>7 DEF OneThread, Fresh
  <2>2. Cardinality(Slips') = Cardinality(Slips)
    BY <1>1, <1>3, EndCallSlips
  <2>3. pc'[t] = "idle"
    BY <1>1 DEF TypeOK
  <2>4. Taken(u)' = Taken(u) + 1 /\ Taken(u) \in Int
    BY <1>1, <1>5, <2>1, <2>2, <2>3 DEF Taken
  <2>5. Taken(u)' <= f.call
    BY <1>2, <1>4, <1>7, <2>4 DEF Fresh
  <2>6. \A i \in DOMAIN s2c' : f.call < s2c'[i].call
    BY <1>2, <1>7, HeadIsOldest
  <2>7. /\ \A i \in DOMAIN c2s : f.call < c2s[i]
        /\ cmd # 0 => f.call < cmd
        /\ resp # NoResponse => f.call < resp.call
    BY <1>2, <1>7, HeadIsOldest
  <2>8. /\ \A i \in DOMAIN s2c' : s2c'[i].call \in Int
        /\ \A i \in DOMAIN c2s : c2s[i] \in Int
        /\ cmd \in Int /\ resp.call \in Int
    BY <1>2, CallNumbersAreNat
  <2> QED
    BY <1>1, <1>4, <2>1, <2>4, <2>5, <2>6, <2>7, <2>8
<1> QED
  BY <1>6, <1>7 DEF Fresh

LEMMA SendFresh ==
    ASSUME TypeOK, Fresh, NEW t \in Threads, Send(t)
    PROVE  Fresh'
<1>1. UNCHANGED <<cur, calls, result, s2c, cmd, resp>>
  BY DEF Send, serverVars
<1>2. UNCHANGED Slips /\ StaleOnlyAfterSlips'
  <2>1. UNCHANGED Slips /\ \A c : UNCHANGED SlipsBefore(c)
    BY <1>1, SameSlips
  <2> QED
    BY <1>1, <2>1 DEF Fresh, StaleOnlyAfterSlips
<1>3. \A u \in Threads : (pc'[u] = "idle") = (pc[u] = "idle")
  BY DEF Send, TypeOK
<1>4. \A u \in Threads : Taken(u)' = Taken(u)
  BY <1>1, <1>2, <1>3 DEF Taken
<1>5. ASSUME OneThread, NEW u \in Threads, NEW i \in DOMAIN c2s'
      PROVE  Taken(u) < c2s'[i]
  <2>1. u = t /\ cur[u] = Len(calls) /\ Len(calls) \in Nat
    BY <1>5 DEF OneThread, Fresh, TypeOK
  <2>2. (i \in DOMAIN c2s /\ c2s'[i] = c2s[i]) \/ c2s'[i] = cur[t]
    BY DEF Send, Pushed, TypeOK
  <2>3. Taken(u) < cur[t]
    BY <2>1, SlipsCount DEF Send, Taken
  <2> QED
    BY <1>5, <2>2, <2>3 DEF Fresh
<1> QED
  BY <1>1, <1>2, <1>4, <1>5 DEF Fresh

\* The steps of the worker pass frames on.
LEMMA WorkerFresh ==
    ASSUME TypeOK, Numbered, Fresh,
           WorkerStep \/ WorkerTimeout \/ RequestStop \/ UNCHANGED vars
    PROVE  Fresh'
<1>1. UNCHANGED <<pc, cur, calls, result>>
  BY DEF WorkerStep, WorkerRecv, WorkerStop, WorkerDecodeThrows, WorkerHandle,
     WorkerSend, WorkerTimeout, RequestStop, vars, clientVars
<1>2. UNCHANGED Slips /\ StaleOnlyAfterSlips'
  <2>1. UNCHANGED Slips /\ \A c : UNCHANGED SlipsBefore(c)
    BY <1>1, SameSlips
  <2> QED
    BY <1>1, <2>1 DEF Fresh, StaleOnlyAfterSlips
<1>3. \A u \in Threads : Taken(u)' = Taken(u)
  BY <1>1, <1>2 DEF Taken
<1>4. ASSUME OneThread, NEW u \in Threads
      PROVE  /\ \A i \in DOMAIN s2c' : Taken(u) < s2c'[i].call
             /\ \A i \in DOMAIN c2s' : Taken(u) < c2s'[i]
             /\ cmd' # 0 => Taken(u) < cmd'
             /\ resp' # NoResponse => Taken(u) < resp'.call
  <2>1. /\ \A i \in DOMAIN s2c : Taken(u) < s2c[i].call
        /\ \A i \in DOMAIN c2s : Taken(u) < c2s[i]
        /\ cmd # 0 => Taken(u) < cmd
        /\ resp # NoResponse => Taken(u) < resp.call
    BY <1>4 DEF Fresh
  <2>2. CASE WorkerRecv
    <3>1. /\ 1 \in DOMAIN c2s /\ cmd' = c2s[1] /\ UNCHANGED <<s2c, resp>>
          /\ \A i \in DOMAIN c2s' : i + 1 \in DOMAIN c2s /\ c2s'[i] = c2s[i + 1]
      BY <2>2 DEF WorkerRecv, Popped, TypeOK
    <3> QED
      BY <2>1, <3>1
  <2>3. CASE WorkerHandle
    <3>1. /\ cmd # 0 /\ cmd' = 0 /\ resp'.call = cmd /\ UNCHANGED <<s2c, c2s>>
      BY <2>3 DEF WorkerHandle, Numbered
    <3> QED
      BY <2>1, <3>1
  <2>4. CASE WorkerSend
    <3>1. /\ resp # NoResponse /\ resp' \in {resp, NoResponse}
          /\ UNCHANGED <<cmd, c2s>>
      BY <2>4 DEF WorkerSend, Numbered
    <3>2. \A i \in DOMAIN s2c' :
             \/ i \in DOMAIN s2c /\ s2c'[i] = s2c[i]
             \/ s2c'[i] = resp
      <4>1. s2c' = s2c \/ s2c' = Append(s2c, resp)
        BY <2>4 DEF WorkerSend, Pushed
      <4>2. s2c \in Seq(Response)
        BY DEF TypeOK
      <4> QED
        BY <4>1, <4>2
    <3> QED
      BY <2>1, <3>1, <3>2
  <2>5. CASE WorkerStop \/ WorkerDecodeThrows \/ WorkerTimeout \/ RequestStop
             \/ UNCHANGED vars
    <3>1. UNCHANGED <<s2c, c2s, resp>> /\ cmd' \in {0, cmd}
      BY <2>5 DEF WorkerStop, WorkerDecodeThrows, WorkerTimeout, RequestStop,
         vars, serverVars
    <3> QED
      BY <2>1, <3>1
  <2> QED
    BY <2>2, <2>3, <2>4, <2>5 DEF WorkerStep
<1> QED
  BY <1>1, <1>2, <1>3, <1>4 DEF Fresh

LEMMA StepFresh ==
    ASSUME TypeOK, Numbered, Lanes, Truthful, Awaited, ResponsesInLine, Fresh,
           [Next]_vars
    PROVE  Fresh'
  BY BeginFresh, SlipFresh, RecvFresh, SendFresh, WorkerFresh
  DEF Next, ThreadStep

-----------------------------------------------------------------------------
(* The invariant of the link and what follows from it.                      *)

\* In every state the queues, the hands of the worker, the threads and what
\* has been carried out fit together.
THEOREM LinkInvariant == Spec => []LinkInv
<1>1. Init => LinkInv
  BY InitTyped, InitLanes, InitAnswerable, InitTruthful, InitStamped,
     InitAwaited, InitNoneMissing, InitResponsesInLine, InitFresh
  DEF LinkInv, OrderInv
<1>2. LinkInv /\ [Next]_vars => LinkInv'
  BY StepTyped, StepLanes, StepAnswerable, StepTruthful, StepStamped,
     StepAwaited, StepNoneMissing, StepResponsesInLine, StepFresh
  DEF LinkInv, OrderInv
<1> QED
  BY <1>1, <1>2, PTL DEF Spec

\* Once a call has been answered with its own response, every earlier call of
\* the thread that was sent has reached the target, also one that timed out.
THEOREM SettlesEarlier == Spec => []AnsweredSettlesEarlier
<1>1. LinkInv => AnsweredSettlesEarlier
  <2> SUFFICES ASSUME LinkInv, NEW c \in DOMAIN result, NEW d \in 1 .. c - 1,
                      result[c].from = c, calls[d].thread = calls[c].thread,
                      result[d].kind # "refused"
               PROVE  \E p \in Range(performed) : p.call = d
    BY DEF AnsweredSettlesEarlier
  <2>1. c # 0
    BY DEF LinkInv, OrderInv, TypeOK
  <2>2. c \in PerformedCalls
    BY <2>1 DEF LinkInv, NoneMissing
  <2>3. d \in PerformedCalls
    BY <2>2 DEF LinkInv, NoneMissing, Settled
  <2> QED
    BY <2>3 DEF PerformedCalls
<1> QED
  BY <1>1, LinkInvariant, PTL

\* With one client thread a response is at most as many calls old as earlier
\* calls have timed out or been refused.
THEOREM Staleness == Spec => []StaleOnlyAfterSlips
<1>1. LinkInv => StaleOnlyAfterSlips
  BY DEF LinkInv, Fresh
<1> QED
  BY <1>1, LinkInvariant, PTL

\* A transaction id that fits is that of the call itself, unless the ids have
\* gone all the way round: after TxnMod slips of a single thread, or after
\* TxnMod calls of any number of threads.
THEOREM OwnAcks == Spec => []AckIsOwn
<1>1. LinkInv => AckIsOwn
  <2> SUFFICES ASSUME LinkInv, NEW c \in DOMAIN result,
                      result[c].kind \in {"ack", "nak"},
                      (OneThread /\ SlipsBefore(c) < TxnMod)
                         \/ Len(calls) <= TxnMod
               PROVE  result[c].from = c
    BY DEF AckIsOwn
  <2> DEFINE f == result[c].from
             n == Len(calls)
  <2>1. c \in 1 .. n /\ n \in Nat /\ DOMAIN calls = 1 .. n
    BY CallTyped DEF LinkInv, OrderInv, TypeOK
  <2>2. [call |-> f, ok |-> result[c].kind = "ack", data |-> result[c].data]
          \in Range(performed)
    BY DEF LinkInv, Truthful, AnswerIsTheTargets
  <2>3. f \in 1 .. n
    BY <2>2, PerformedAreCalls DEF LinkInv, OrderInv
  <2>4. calls[f].txn = calls[c].txn
    BY DEF LinkInv, Truthful, AnswerIsTheTargets
  <2>5. (f - 1) % TxnMod = (c - 1) % TxnMod
    BY <2>1, <2>3, <2>4 DEF LinkInv, Stamped
  <2>6. f - 1 \in Nat /\ c - 1 \in Nat /\ TxnMod \in Nat \ {0}
    BY <2>1, <2>3, BoundsAssumption
  <2>7. CASE OneThread /\ SlipsBefore(c) < TxnMod
    <3>1. f \in c - SlipsBefore(c) .. c
      BY <2>3, <2>7 DEF LinkInv, Fresh, StaleOnlyAfterSlips
    <3>2. SlipsBefore(c) \in Nat
      BY SlipsCount DEF LinkInv, OrderInv
    <3>3. f - 1 <= c - 1 /\ (c - 1) - (f - 1) < TxnMod
      BY <2>1, <2>3, <2>6, <2>7, <3>1, <3>2
    <3>4. c - 1 = f - 1
      BY <2>5, <2>6, <3>3, ModApart
    <3> QED
      BY <2>1, <2>3, <3>4
  <2>8. CASE n <= TxnMod
    BY <2>1, <2>3, <2>4, <2>8, SameIdSameCall DEF LinkInv, OrderInv
  <2> QED
    BY <2>7, <2>8
<1> QED
  BY <1>1, LinkInvariant, PTL

-----------------------------------------------------------------------------
(* The register service. Begin is Ask, WorkerHandle is Do, Recv is Answer or *)
(* Fail, Refuse and Timeout are Fail, and every other step is one a user of  *)
(* the service does not see.                                                *)

\* The service and the link mean the same registers.
LEMMA SameRegisters ==
    ASSUME NEW r, NEW op, NEW k
    PROVE  /\ Service!Elements(op) = Elements(op)
           /\ Service!AfterElements(r, op, k) = AfterElements(r, op, k)
           /\ Service!ReadBack(r, op) = ReadBack(r, op)
  BY DEF Service!Elements, Elements, Service!AfterElements, AfterElements,
         Service!ReadBack, ReadBack, Service!NewValue, NewValue,
         Service!Reads, Reads

LEMMA AskedIs ==
    ASSUME TypeOK
    PROVE  /\ DOMAIN Asked = DOMAIN calls
           /\ \A c \in DOMAIN calls : /\ Asked[c].thread = calls[c].thread
                                      /\ Asked[c].op = calls[c].op
  BY DEF Asked

\* A list that has grown by one entry.
LEMMA Grown ==
    ASSUME NEW n \in Nat, NEW f, NEW g, NEW x,
           f = [c \in 1 .. n |-> f[c]], g = [c \in 1 .. n + 1 |-> g[c]],
           \A c \in 1 .. n : g[c] = f[c], g[n + 1] = x
    PROVE  g = Append(f, x)
<1> DEFINE S == {f[c] : c \in 1 .. n} \cup {x}
<1>1. \A c \in 1 .. n : f[c] \in S
  OBVIOUS
<1>3. x \in S
  OBVIOUS
<1> HIDE DEF S
<1>9. \A c \in 1 .. n + 1 : c \in 1 .. n \/ c = n + 1
  BY ONLY n \in Nat
<1>2. \A c \in 1 .. n + 1 : g[c] \in S
  BY <1>1, <1>3, <1>9, Zenon
<1>4. f \in [1 .. n -> S] /\ g \in [1 .. n + 1 -> S]
  BY <1>1, <1>2
<1>5. f \in Seq(S) /\ Len(f) = n /\ g \in Seq(S) /\ Len(g) = n + 1
  BY <1>4
<1>6. /\ Append(f, x) \in Seq(S) /\ Len(Append(f, x)) = n + 1
      /\ \A i \in 1 .. n + 1 : Append(f, x)[i] = g[i]
  <2>1. /\ Append(f, x) \in Seq(S) /\ Len(Append(f, x)) = n + 1
        /\ \A i \in 1 .. n : Append(f, x)[i] = f[i]
        /\ Append(f, x)[n + 1] = x
    BY <1>3, <1>5
  <2> QED
    BY <1>9, <2>1, Zenon
<1> QED
  BY <1>5, <1>6, SeqEqual

LEMMA InitService == Init => Service!ServiceInit
<1> SUFFICES ASSUME Init PROVE Service!ServiceInit
  OBVIOUS
<1>1. DOMAIN calls = {} /\ DOMAIN result = {}
  BY DEF Init
<1>2. Asked = <<>> /\ Reports = <<>>
  BY <1>1 DEF Asked, Reports
<1> QED
  BY <1>2 DEF Init, Service!ServiceInit

LEMMA BeginIsAsk ==
    ASSUME TypeOK, Numbered, Awaited, NEW t \in Threads, NEW op \in Ops,
           Begin(t, op)
    PROVE  Service!Ask(t, op)
<1> DEFINE n == Len(calls)
           a == [thread |-> t, op |-> op]
<1>1. /\ n \in Nat /\ DOMAIN calls = 1 .. n /\ DOMAIN result = 1 .. n
      /\ DOMAIN calls' = 1 .. n + 1 /\ DOMAIN result' = 1 .. n + 1
      /\ \A c \in 1 .. n : calls'[c] = calls[c] /\ result'[c] = result[c]
      /\ calls'[n + 1] = [thread |-> t, op |-> op, txn |-> next_txn_id]
      /\ result'[n + 1] = Ended("pending")
      /\ pc[t] = "idle"
  BY BeginAppends
<1>2. UNCHANGED <<performed, regs>>
  BY DEF Begin, serverVars
<1> HIDE DEF n
<1>3. ASSUME NEW c \in Service!CallsOf(t)
      PROVE  Reports[c] # Service!Pending
  <2>1. c \in DOMAIN calls /\ calls[c].thread = t
    BY AskedIs DEF Service!CallsOf
  <2>2. result[c].kind # "pending"
    BY <1>1, <2>1 DEF Awaited
  <2>3. Reports[c].kind # "pending"
    BY <1>1, <2>1, <2>2 DEF Reports, Reported
  <2> QED
    BY <2>3 DEF Service!Pending
<1>4. Asked' = Append(Asked, a)
  <2>1. /\ Asked = [c \in 1 .. n |-> [thread |-> calls[c].thread, op |-> calls[c].op]]
        /\ Asked' = [c \in 1 .. n + 1 |->
                       [thread |-> calls'[c].thread, op |-> calls'[c].op]]
    BY <1>1 DEF Asked
  <2>2. \A c \in 1 .. n : Asked'[c] = Asked[c]
    BY <1>1, <2>1
  <2>3. Asked'[n + 1] = a
    BY <1>1, <2>1
  <2> HIDE DEF a
  <2> QED
    BY <1>1, <2>1, <2>2, <2>3, Grown
<1>5. Reports' = Append(Reports, Service!Pending)
  <2>1. /\ Reports = [c \in 1 .. n |-> Reported(result[c])]
        /\ Reports' = [c \in 1 .. n + 1 |-> Reported(result'[c])]
    BY <1>1 DEF Reports, Reported
  <2>2. \A c \in 1 .. n : Reports'[c] = Reports[c]
    BY <1>1, <2>1
  <2>3. Reports'[n + 1] = Service!Pending
    BY <1>1, <2>1 DEF Reported, Ended, Service!Pending
  <2> QED
    BY <1>1, <2>1, <2>2, <2>3, Grown
<1> QED
  BY <1>2, <1>3, <1>4, <1>5 DEF Service!Ask

\* The end of a call changes what its caller has been told, from nothing.
LEMMA EndCallReports ==
    ASSUME TypeOK, Numbered, Lanes, Awaited, NEW t \in Threads, NEW r,
           pc[t] # "idle",
           result' = [result EXCEPT ![cur[t]] = r],
           pc' = [pc EXCEPT ![t] = "idle"]
    PROVE  /\ cur[t] \in DOMAIN Asked
           /\ Reports[cur[t]] = Service!Pending
           /\ Reports' = [Reports EXCEPT ![cur[t]] = Reported(r)]
<1>1. /\ DOMAIN result' = DOMAIN result
      /\ cur[t] \in DOMAIN result /\ result'[cur[t]] = r
      /\ \A c \in DOMAIN result \ {cur[t]} : result'[c] = result[c]
  BY EndCallSets
<1>2. cur[t] \in DOMAIN Asked
  BY <1>1, AskedIs, CallTyped
<1>3. Reports[cur[t]] = Service!Pending
  <2>1. result[cur[t]] = Ended("pending")
    BY DEF Awaited
  <2> QED
    BY <1>1, <2>1 DEF Reports, Reported, Ended, Service!Pending
<1>4. Reports' = [Reports EXCEPT ![cur[t]] = Reported(r)]
  BY <1>1 DEF Reports
<1> QED
  BY <1>2, <1>3, <1>4

LEMMA SlipIsFail ==
    ASSUME TypeOK, Numbered, Lanes, Awaited, NEW t \in Threads,
           Refuse(t) \/ Timeout(t)
    PROVE  cur[t] \in DOMAIN Asked /\ Service!Fail(cur[t])
<1>1. PICK kind \in {"refused", "timeout"} :
         result' = [result EXCEPT ![cur[t]] = Ended(kind)]
  BY DEF Refuse, Timeout
<1>2. /\ pc[t] # "idle" /\ pc' = [pc EXCEPT ![t] = "idle"]
      /\ UNCHANGED <<calls, performed, regs>>
  BY DEF Refuse, Timeout, serverVars
<1>3. Reported(Ended(kind)) = Service!Failed
  BY DEF Reported, Ended, Service!Failed
<1>4. UNCHANGED Asked
  BY <1>2 DEF Asked
<1> QED
  BY <1>1, <1>2, <1>3, <1>4, EndCallReports DEF Service!Fail

LEMMA RecvIsAnswerOrFail ==
    ASSUME TypeOK, Numbered, Lanes, Truthful, Stamped, Awaited,
           MaxCalls <= TxnMod, NEW t \in Threads, Recv(t)
    PROVE  /\ cur[t] \in DOMAIN Asked
           /\ Service!Answer(cur[t]) \/ Service!Fail(cur[t])
<1> DEFINE f == Head(s2c)
           r == [kind |-> Judge(cur[t], f), from |-> f.call, data |-> f.data]
<1>1. /\ pc[t] # "idle" /\ pc' = [pc EXCEPT ![t] = "idle"]
      /\ result' = [result EXCEPT ![cur[t]] = r]
      /\ UNCHANGED <<calls, performed, regs>>
  BY DEF Recv, serverVars
<1>2. 1 \in DOMAIN s2c /\ f = s2c[1] /\ f \in Response
  BY DEF Recv, TypeOK
<1>3. PICK i \in DOMAIN performed : performed[i] = f
  BY <1>2 DEF Truthful, Range
<1> HIDE DEF f
<1>4. UNCHANGED Asked
  BY <1>1 DEF Asked
<1>5. CASE Judge(cur[t], f) \in {"ack", "nak"}
  <2>1. calls[f.call].txn = calls[cur[t]].txn
        /\ Judge(cur[t], f) = IF f.ok THEN "ack" ELSE "nak"
    BY <1>5 DEF Judge
  <2>2. f.call \in 1 .. Len(calls) /\ cur[t] \in 1 .. Len(calls)
    BY <1>1, <1>2, FrameNumbers, CurrentCall
  <2>3. Len(calls) <= TxnMod
    BY BoundsAssumption DEF Numbered, TypeOK
  <2>4. f.call = cur[t]
    BY <2>1, <2>2, <2>3, SameIdSameCall
  <2>5. Reported(r) = [kind |-> IF performed[i].ok THEN "ack" ELSE "nak",
                       data |-> performed[i].data]
    BY <1>3, <1>5, <2>1 DEF Reported
  <2> HIDE DEF r
  <2>6. /\ cur[t] \in DOMAIN Asked /\ Reports[cur[t]] = Service!Pending
        /\ Reports' = [Reports EXCEPT ![cur[t]] = Reported(r)]
    BY <1>1, EndCallReports
  <2>7. /\ performed[i].call = cur[t]
        /\ Reports' = [Reports EXCEPT ![cur[t]] =
                         [kind |-> IF performed[i].ok THEN "ack" ELSE "nak",
                          data |-> performed[i].data]]
    BY <1>3, <2>4, <2>5, <2>6
  <2> QED
    BY <1>1, <1>3, <1>4, <2>6, <2>7 DEF Service!Answer
<1>6. CASE Judge(cur[t], f) \notin {"ack", "nak"}
  <2>1. Judge(cur[t], f) \in {"mismatch", "unexpected"}
    BY <1>6 DEF Judge
  <2>2. Reported(r) = Service!Failed
    BY <2>1 DEF Reported, Service!Failed
  <2> HIDE DEF r
  <2> QED
    BY <1>1, <1>4, <2>2, EndCallReports DEF Service!Fail
<1> QED
  BY <1>5, <1>6

\* The length field holds the number of elements of every operation.
CountsFit == \A op \in Ops : CountCarried(Cfg, Elements(op)) = Elements(op)

LEMMA ReceivedInFull ==
    ASSUME CountsFit, NEW op \in Ops
    PROVE  AsReceived(op) = op
<1>1. op \in Operations /\ op.addrs \in Seq(Addrs)
  BY OpsAssumption DEF WellFormed, Operations
<1>2. SubSeq(op.addrs, 1, Len(op.addrs)) = op.addrs
  BY <1>1
<1>3. CountCarried(Cfg, Elements(op)) = Len(op.addrs)
  BY DEF CountsFit, Elements
<1> QED
  BY <1>1, <1>2, <1>3 DEF AsReceived, Operations

LEMMA HandleIsDo ==
    ASSUME TypeOK, Numbered, Lanes, CountsFit, WorkerHandle
    PROVE  cmd \in DOMAIN Asked /\ Service!Do(cmd)
<1>1. cmd # 0 /\ UNCHANGED <<calls, result>>
  BY DEF WorkerHandle, Numbered, clientVars
<1>2. cmd \in DOMAIN calls /\ cmd \in DOMAIN Asked
  BY <1>1, FrameNumbers, CallTyped, AskedIs
<1>3. UNCHANGED <<Asked, Reports>>
  BY <1>1 DEF Asked, Reports
<1>4. Asked[cmd].op = calls[cmd].op /\ Asked[cmd].thread = calls[cmd].thread
  BY <1>2, AskedIs
<1>5. \A i \in DOMAIN performed :
         Asked[performed[i].call].thread = Asked[cmd].thread
            => performed[i].call < cmd
  <2> SUFFICES ASSUME NEW i \in DOMAIN performed,
                      Asked[performed[i].call].thread = Asked[cmd].thread
               PROVE  performed[i].call < cmd
    OBVIOUS
  <2>1. performed[i].call \in DOMAIN calls
    BY FrameNumbers, CallTyped
  <2>2. calls[performed[i].call].thread = calls[cmd].thread
    BY <1>4, <2>1, AskedIs
  <2> QED
    BY <1>1, <2>2 DEF Lanes, Before
<1>6. PICK ok \in BOOLEAN, k \in 0 .. Elements(calls[cmd].op) :
         /\ ok => k = Elements(calls[cmd].op)
         /\ regs' = AfterElements(regs, calls[cmd].op, k)
         /\ resp' = [call |-> cmd, ok |-> ok,
                     data |-> IF ok THEN ReadBack(regs, calls[cmd].op) ELSE <<>>]
  <2>1. calls[cmd] \in Call
    BY <1>2, CallTyped
  <2>2. calls[cmd].op \in Ops
    BY <2>1 DEF Call
  <2>3. AsReceived(calls[cmd].op) = calls[cmd].op
    BY <2>2, ReceivedInFull
  <2> QED
    BY <2>3 DEF WorkerHandle
<1>7. performed' = Append(performed, resp')
  BY DEF WorkerHandle
<1>8. /\ k \in 0 .. Service!Elements(Asked[cmd].op)
      /\ ok => k = Service!Elements(Asked[cmd].op)
      /\ regs' = Service!AfterElements(regs, Asked[cmd].op, k)
      /\ performed' = Append(performed,
           [call |-> cmd, ok |-> ok,
            data |-> IF ok THEN Service!ReadBack(regs, Asked[cmd].op) ELSE <<>>])
  BY <1>4, <1>6, <1>7, SameRegisters
<1> QED
  BY <1>2, <1>3, <1>5, <1>8 DEF Service!Do

LEMMA StepService ==
    ASSUME LinkInv, MaxCalls <= TxnMod, CountsFit, [Next]_vars
    PROVE  Service!ServiceNext \/ UNCHANGED Service!serviceVars
<1> USE DEF LinkInv, OrderInv
<1>1. ASSUME NEW t \in Threads, NEW op \in Ops, Begin(t, op)
      PROVE  Service!ServiceNext
  BY <1>1, BeginIsAsk DEF Service!ServiceNext
<1>2. ASSUME NEW t \in Threads, Refuse(t) \/ Timeout(t)
      PROVE  Service!ServiceNext
  BY <1>2, SlipIsFail DEF Service!ServiceNext
<1>3. ASSUME NEW t \in Threads, Recv(t)
      PROVE  Service!ServiceNext
  BY <1>3, RecvIsAnswerOrFail DEF Service!ServiceNext
<1>4. CASE WorkerHandle
  BY <1>4, HandleIsDo DEF Service!ServiceNext
<1>5. CASE UNCHANGED <<calls, result, performed, regs>>
  BY <1>5 DEF Service!serviceVars, Asked, Reports
<1>6. ASSUME NEW t \in Threads, Send(t)
      PROVE  UNCHANGED <<calls, result, performed, regs>>
  BY <1>6 DEF Send, serverVars
<1>7. WorkerRecv \/ WorkerStop \/ WorkerDecodeThrows \/ WorkerSend
         \/ WorkerTimeout \/ RequestStop \/ UNCHANGED vars
        => UNCHANGED <<calls, result, performed, regs>>
  BY DEF WorkerRecv, WorkerStop, WorkerDecodeThrows, WorkerSend, WorkerTimeout,
     RequestStop, vars, clientVars, serverVars
<1> QED
  BY <1>1, <1>2, <1>3, <1>4, <1>5, <1>6, <1>7 DEF Next, ThreadStep, WorkerStep

\* With no transaction id used twice and no more elements in an operation than
\* the length field holds, RapRegisterTarget, the transport and RapServerAdapter
\* together implement the register service for any number of threads: each call
\* is carried out at most once, in the order of its thread, and a call that
\* returns reports what was done for it, whatever times out.
THEOREM LinkImplementsService ==
    MaxCalls <= TxnMod /\ CountsFit => (Spec => ImplementsService)
<1> SUFFICES ASSUME MaxCalls <= TxnMod, CountsFit PROVE Spec => ImplementsService
  OBVIOUS
<1>1. Init => Service!ServiceInit
  BY InitService
<1>2. LinkInv /\ [Next]_vars => [Service!ServiceNext]_(Service!serviceVars)
  BY StepService
<1> QED
  BY <1>1, <1>2, LinkInvariant, PTL
  DEF Spec, ImplementsService, Service!ServiceSpec
=============================================================================
