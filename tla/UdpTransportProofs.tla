------------------------ MODULE UdpTransportProofs ------------------------
(***************************************************************************)
(* Theorems about UdpTransport, for a receive buffer of any size and any   *)
(* number of datagrams: recv() leaves nothing behind, and it keeps the     *)
(* contract of ISyncWireTransport step by step.                            *)
(***************************************************************************)
EXTENDS UdpTransport, SequenceTheorems, TLAPS

-----------------------------------------------------------------------------
(* Type correctness.                                                        *)

\* Asking the socket leaves it well typed, and whatever it yields is a
\* completed receive; a datagram it yields has a number.
LEMMA ReceiveTyped ==
    ASSUME TypeOK, ReceiveFromSocket
    PROVE  /\ socket' \in Seq(1 .. MaxDatagrams) /\ Len(socket') <= SocketBuffer
           /\ socket_error' \in BOOLEAN
           /\ op' \in [state : Completed, datagram : 0 .. MaxDatagrams]
           /\ op'.state = "ready" => op'.datagram # 0
<1> USE SizesAssumption DEF TypeOK, Op, Completed
<1>1. CASE socket_error
  <2>1. /\ UNCHANGED socket /\ socket_error' = FALSE
        /\ op' = [state |-> "failed", datagram |-> 0]
    BY <1>1 DEF ReceiveFromSocket
  <2>2. op' \in [state : Completed, datagram : 0 .. MaxDatagrams]
    BY <2>1
  <2>3. socket' \in Seq(1 .. MaxDatagrams) /\ Len(socket') <= SocketBuffer
    BY <2>1
  <2>4. op'.state = "failed"
    BY <2>1
  <2> QED
    BY <2>1, <2>2, <2>3, <2>4
<1>2. CASE ~socket_error
  <2>1. /\ socket # <<>> /\ op' = Op("ready", Head(socket))
        /\ socket' = Tail(socket) /\ UNCHANGED socket_error
    BY <1>2 DEF ReceiveFromSocket
  <2>2. /\ Head(socket) \in 1 .. MaxDatagrams
        /\ Tail(socket) \in Seq(1 .. MaxDatagrams)
        /\ Len(Tail(socket)) = Len(socket) - 1
    BY <2>1, HeadTailProperties
  <2>3. Len(socket) \in Nat
    BY LenProperties
  <2> QED
    BY <1>2, <2>1, <2>2, <2>3
<1> QED
  BY <1>1, <1>2

\* Cancelling leaves a receive a receive, and no receive pending; it neither
\* makes nor takes a datagram.
LEMMA CancelledOp ==
    ASSUME TypeOK
    PROVE  LET c == Cancelled(op) IN
             /\ c \in [state : {"none"} \cup Completed,
                       datagram : 0 .. MaxDatagrams]
             /\ (c.state = "none") = (op.state = "none")
             /\ (c.state = "ready") = (op.state = "ready")
             /\ op.state = "ready" => c = op
  BY SizesAssumption DEF TypeOK, Cancelled, Op, Completed

\* A recv() that ends tells how, in one of three ways.
LEMMA EndTyped ==
    ASSUME TypeOK, pc \in {"leave", "unwind"}
    PROVE  HowItEnds \in [kind : {"buffer", "empty", "error_code"},
                          buffer : 0 .. MaxDatagrams, timed_out : BOOLEAN]
  BY SizesAssumption DEF TypeOK, HowItEnds, Ended

LEMMA InitTyped == Init => TypeOK
<1> SUFFICES ASSUME Init PROVE TypeOK
  OBVIOUS
<1>1. socket \in Seq(1 .. MaxDatagrams) /\ Len(socket) <= SocketBuffer
  <2>1. socket = <<>>
    BY DEF Init
  <2>2. <<>> \in Seq(1 .. MaxDatagrams) /\ Len(<<>>) = 0
    OBVIOUS
  <2> QED
    BY <2>1, <2>2, SizesAssumption
<1>2. op \in [state : {"none", "pending"} \cup Completed,
             datagram : 0 .. MaxDatagrams]
  BY SizesAssumption DEF Init, NoOp, Op
<1>3. last \in [kind : {"nothing", "buffer", "empty", "error_code"},
               buffer : 0 .. MaxDatagrams, timed_out : BOOLEAN]
  BY SizesAssumption DEF Init, Ended
<1>4. /\ pc \in Outside \cup Inside
      /\ arrived \in 0 .. MaxDatagrams /\ received \in 0 .. MaxDatagrams
      /\ socket_error \in BOOLEAN /\ io_stopped \in BOOLEAN
      /\ registered = FALSE /\ stop = "no"
  <2>1. /\ pc = "loop" /\ arrived = 0 /\ received = 0 /\ socket_error = FALSE
        /\ io_stopped = FALSE /\ registered = FALSE /\ stop = "no"
    BY DEF Init
  <2>2. 0 \in 0 .. MaxDatagrams
    BY SizesAssumption
  <2> QED
    BY <2>1, <2>2, Zenon DEF Outside, Inside
<1> QED
  BY <1>1, <1>2, <1>3, <1>4 DEF TypeOK

LEMMA ArrivesTyped ==
    ASSUME TypeOK, DatagramArrives
    PROVE  TypeOK'
<1> USE SizesAssumption
<1>1. arrived + 1 \in 1 .. MaxDatagrams
  BY DEF TypeOK, DatagramArrives
<1>2. /\ socket' \in Seq(1 .. MaxDatagrams)
      /\ Len(socket') = Len(socket) + 1 /\ Len(socket) \in Nat
  BY <1>1, AppendProperties, LenProperties DEF TypeOK, DatagramArrives
<1> QED
  BY <1>1, <1>2 DEF TypeOK, DatagramArrives

LEMMA WorkerTyped ==
    ASSUME TypeOK, WorkerStep
    PROVE  TypeOK'
<1> USE SizesAssumption DEF Outside, Inside
<1>1. CASE CheckStopToken
  BY <1>1 DEF CheckStopToken, TypeOK
<1>2. CASE AsyncReceive
  <2>1. /\ socket' \in Seq(1 .. MaxDatagrams) /\ Len(socket') <= SocketBuffer
        /\ socket_error' \in BOOLEAN
        /\ op' \in [state : {"none", "pending"} \cup Completed,
                    datagram : 0 .. MaxDatagrams]
    <3>1. CASE ReceiveFromSocket
      BY <3>1, ReceiveTyped
    <3>2. CASE UNCHANGED <<socket, socket_error>> /\ op' = Op("pending", 0)
      BY <3>2 DEF TypeOK, Op
    <3> QED
      BY <1>2, <3>1, <3>2 DEF AsyncReceive
  <2>2. last' \in [kind : {"nothing", "buffer", "empty", "error_code"},
                   buffer : 0 .. MaxDatagrams, timed_out : BOOLEAN]
    BY <1>2 DEF AsyncReceive, TypeOK
  <2> QED
    BY <1>2, <2>1, <2>2 DEF AsyncReceive, TypeOK
<1>3. CASE Restart
  BY <1>3 DEF Restart, TypeOK
<1>4. CASE RegisterCallback
  BY <1>4, CancelledOp DEF RegisterCallback, TypeOK
<1>5. CASE Poll
  BY <1>5, ReceiveTyped DEF Poll, TypeOK
<1>6. CASE RunHandler
  BY <1>6 DEF RunHandler, Running, TypeOK, NoOp, Op
<1>7. CASE RunReturns
  BY <1>7 DEF RunReturns, TypeOK
<1>8. CASE CheckStopped
  BY <1>8 DEF CheckStopped, TypeOK
<1>9. CASE Cancel
  BY <1>9, CancelledOp DEF Cancel, TypeOK
<1>10. CASE LeaveRecv
  BY <1>10, EndTyped DEF LeaveRecv, TypeOK
<1>11. CASE DecodeEmpty
  BY <1>11 DEF DecodeEmpty, TypeOK
<1> QED
  BY <1>1, <1>2, <1>3, <1>4, <1>5, <1>6, <1>7, <1>8, <1>9, <1>10, <1>11
  DEF WorkerStep

LEMMA StepTyped ==
    ASSUME TypeOK, [Next]_vars
    PROVE  TypeOK'
<1> USE SizesAssumption DEF Outside, Inside
<1>1. CASE WorkerStep
  BY <1>1, WorkerTyped
<1>2. CASE TimeIsUp
  BY <1>2 DEF TimeIsUp, TypeOK
<1>3. CASE CallbackCancels
  BY <1>3, CancelledOp DEF CallbackCancels, TypeOK
<1>4. CASE CallbackStops
  BY <1>4 DEF CallbackStops, TypeOK
<1>5. CASE RequestStop
  BY <1>5 DEF RequestStop, TypeOK
<1>6. CASE DatagramArrives
  BY <1>6, ArrivesTyped
<1>7. CASE IcmpErrorArrives
  BY <1>7 DEF IcmpErrorArrives, TypeOK
<1>8. CASE UNCHANGED vars
  BY <1>8 DEF vars, TypeOK
<1> QED
  BY <1>1, <1>2, <1>3, <1>4, <1>5, <1>6, <1>7, <1>8 DEF Next, Callback

\* Every state of the receiving worker, its socket and the stop is well typed;
\* in particular a callback is registered only inside recv(), and it is about
\* to run only while it is registered (SyncUdpTransport.cpp:83-95).
THEOREM UdpTypeCorrect == Spec => []TypeOK
<1>1. Init => TypeOK
  BY InitTyped
<1>2. TypeOK /\ [Next]_vars => TypeOK'
  BY StepTyped
<1> QED
  BY <1>1, <1>2, PTL DEF Spec

-----------------------------------------------------------------------------
(* Nothing outlives recv(): the phases of a call.                           *)

LEMMA InitPhases == Init => Phases
  BY DEF Init, Phases, NothingOutlivesRecv, NoOp, Op, Inside, Outside, Later

\* A step that does not touch what Phases is about.
LEMMA PhasesFrame ==
    ASSUME Phases,
           UNCHANGED <<pc, op, io_stopped, received, stop, registered>>
    PROVE  Phases'
  BY DEF Phases, NothingOutlivesRecv

LEMMA WorkerPhases ==
    ASSUME TypeOK, Phases, WorkerStep
    PROVE  Phases'
<1> USE DEF Inside, Outside, Later, Phases, NothingOutlivesRecv
<1>1. CASE CheckStopToken
  BY <1>1 DEF CheckStopToken, TypeOK
<1>2. CASE AsyncReceive
  <2>1. op'.state # "none" /\ (op'.state = "ready" => op'.datagram # 0)
    BY <1>2, ReceiveTyped DEF AsyncReceive, Op, Completed
  <2>2. ~registered
    BY <1>2 DEF AsyncReceive, TypeOK
  <2> QED
    BY <1>2, <2>1, <2>2 DEF AsyncReceive
<1>3. CASE Restart
  BY <1>3 DEF Restart
<1>4. CASE RegisterCallback
  BY <1>4, CancelledOp DEF RegisterCallback, TypeOK, Completed
<1>5. CASE Poll
  BY <1>5, ReceiveTyped DEF Poll, Running, Completed
<1>6. CASE RunHandler
  BY <1>6 DEF RunHandler, Running, Completed, NoOp, Op, TypeOK
<1>7. CASE RunReturns
  BY <1>7 DEF RunReturns, TypeOK
<1>8. CASE CheckStopped
  BY <1>8 DEF CheckStopped, TypeOK
<1>9. CASE Cancel
  BY <1>9, CancelledOp DEF Cancel, TypeOK, Completed
<1>10. CASE LeaveRecv
  <2>1. ~registered' /\ UNCHANGED <<op, stop>> /\ pc' \in {"loop", "terminated"}
    BY <1>10 DEF LeaveRecv
  <2>2. stop \in {"no", "done"}
    BY <1>10 DEF LeaveRecv, TypeOK
  <2>3. op.state # "pending" /\ (op.state # "none" => stop = "done")
    BY <1>10 DEF LeaveRecv
  <2>4. op.state = "ready" => op.datagram # 0
    BY DEF Phases
  <2> QED
    BY <2>1, <2>2, <2>3, <2>4
<1>11. CASE DecodeEmpty
  BY <1>11 DEF DecodeEmpty, TypeOK
<1> QED
  BY <1>1, <1>2, <1>3, <1>4, <1>5, <1>6, <1>7, <1>8, <1>9, <1>10, <1>11
  DEF WorkerStep

LEMMA StepPhases ==
    ASSUME TypeOK, Phases, [Next]_vars
    PROVE  Phases'
<1>1. CASE WorkerStep
  BY <1>1, WorkerPhases
<1>2. CASE TimeIsUp
  BY <1>2 DEF TimeIsUp, Phases, NothingOutlivesRecv, Inside, Outside, Later
<1>3. CASE CallbackCancels
  <2> USE DEF Inside, Outside, Later, Phases, NothingOutlivesRecv
  <2>1. registered /\ pc \in Inside
    BY <1>3 DEF CallbackCancels, TypeOK
  <2> QED
    BY <1>3, <2>1, CancelledOp DEF CallbackCancels, TypeOK, Completed
<1>4. CASE CallbackStops
  <2> USE DEF Inside, Outside, Later, Phases, NothingOutlivesRecv
  <2>1. registered /\ pc \in Inside
    BY <1>4 DEF CallbackStops, TypeOK
  <2> QED
    BY <1>4, <2>1 DEF CallbackStops, TypeOK
<1>5. CASE RequestStop
  BY <1>5 DEF RequestStop, TypeOK, Phases, NothingOutlivesRecv, Inside, Outside,
              Later
<1>6. CASE DatagramArrives
  BY <1>6, PhasesFrame DEF DatagramArrives
<1>7. CASE IcmpErrorArrives
  BY <1>7, PhasesFrame DEF IcmpErrorArrives
<1>8. CASE UNCHANGED vars
  BY <1>8, PhasesFrame DEF vars
<1> QED
  BY <1>1, <1>2, <1>3, <1>4, <1>5, <1>6, <1>7, <1>8 DEF Next, Callback

\* In every phase of recv() the receive, the io_context, the stop callback and
\* what the handler has received agree (SyncUdpTransport.cpp:48-66, 83-95).
THEOREM PhasesAgree == Spec => []Phases
<1>1. Init => TypeOK /\ Phases
  BY InitTyped, InitPhases
<1>2. TypeOK /\ Phases /\ [Next]_vars => (TypeOK /\ Phases)'
  BY StepTyped, StepPhases
<1> QED
  BY <1>1, <1>2, PTL DEF Spec

\* However a datagram, an error, the end of the time and the two steps of the
\* stop callback interleave: when recv() has been left, no receive is under way
\* and the stop callback is neither registered nor running; and while nobody
\* has requested the stop no handler is left in the io_context either. The stop
\* may leave one there, whose receive is complete; then the worker never calls
\* recv() again, so that nothing runs it (SyncUdpTransport.cpp:51-57, 85-94).
THEOREM NothingOutlives == Spec => []NothingOutlivesRecv
<1>1. Phases => NothingOutlivesRecv
  BY DEF Phases
<1> QED
  BY <1>1, PhasesAgree, PTL

-----------------------------------------------------------------------------
(* The contract of ISyncWireTransport. CallRecv is the start of the receive, *)
(* the three ways in which a recv() ends are LeaveRecv, and every other step *)
(* of the worker, of the time and of the callback is one the caller cannot   *)
(* tell from no step.                                                       *)

\* What the contract speaks of.
LEMMA Stutters ==
    ASSUME UNCHANGED <<Undelivered, arrived, Inner>>,
           last'.kind = last.kind, last'.buffer = last.buffer,
           (stop' # "no") = (stop # "no")
    PROVE  UNCHANGED Contract!transportVars
  BY DEF Contract!transportVars

\* At most one datagram is between the socket and the caller.
LEMMA UndeliveredIs ==
    ASSUME TypeOK, Phases
    PROVE  /\ Inner /\ received # 0
                 => op.state = "none" /\ Undelivered = <<received>> \o socket
           /\ ~(Inner /\ received # 0) /\ op.state = "ready"
                 => Undelivered = <<op.datagram>> \o socket
           /\ ~(Inner /\ received # 0) /\ op.state # "ready"
                 => Undelivered = socket
<1>1. Inner /\ received # 0 => pc \in Later
  BY DEF TypeOK, Phases, Inner, Inside, Later
<1>2. Inner /\ received # 0 => op.state = "none"
  BY <1>1 DEF Phases
<1>3. socket \in Seq(Nat) /\ <<received>> \in Seq(Nat)
      /\ <<op.datagram>> \in Seq(Nat) /\ <<>> \in Seq(Nat)
  BY SizesAssumption DEF TypeOK
<1>4. /\ <<>> \o <<>> = <<>> /\ <<>> \o socket = socket
      /\ <<received>> \o <<>> = <<received>>
      /\ <<>> \o <<op.datagram>> = <<op.datagram>>
  BY <1>3, ConcatEmptySeq
<1> QED
  BY <1>2, <1>4 DEF Undelivered

\* Taking a datagram from the socket into the operation loses none.
LEMMA ReceiveKeeps ==
    ASSUME TypeOK, ReceiveFromSocket, received' = 0
    PROVE  Undelivered' = socket
<1>1. CASE socket_error
  <2>1. op'.state = "failed" /\ UNCHANGED socket
    BY <1>1 DEF ReceiveFromSocket, Op
  <2>2. <<>> \o <<>> \o socket = socket
    BY DEF TypeOK
  <2> QED
    BY <2>1, <2>2 DEF Undelivered
<1>2. CASE ~socket_error
  <2>1. /\ socket # <<>> /\ op'.state = "ready" /\ op'.datagram = Head(socket)
        /\ socket' = Tail(socket)
    BY <1>2 DEF ReceiveFromSocket, Op
  <2>2. Undelivered' = <<>> \o <<Head(socket)>> \o Tail(socket)
    BY <2>1 DEF Undelivered
  <2>3. <<>> \o <<Head(socket)>> \o Tail(socket) = socket
    BY <2>1 DEF TypeOK
  <2> QED
    BY <2>2, <2>3
<1> QED
  BY <1>1, <1>2

LEMMA CallContract ==
    ASSUME TypeOK, Phases, AsyncReceive
    PROVE  Contract!CallRecv("worker")
<1>1. ~Inner /\ Inner' /\ op.state = "none" /\ received' = 0
  BY DEF AsyncReceive, Phases, NothingOutlivesRecv, Outside, Inner, Inside
<1>2. Undelivered = socket
  BY <1>1, UndeliveredIs
<1>3. Undelivered' = socket
  <2>1. CASE ReceiveFromSocket
    BY <1>1, <2>1, ReceiveKeeps
  <2>2. CASE UNCHANGED socket /\ op'.state = "pending"
    <3>1. <<>> \o <<>> \o socket = socket
      BY DEF TypeOK
    <3> QED
      BY <1>1, <2>2, <3>1 DEF Undelivered
  <2> QED
    BY <2>1, <2>2 DEF AsyncReceive, Op
<1>4. UNCHANGED <<arrived, stop>> /\ last'.kind = last.kind
      /\ last'.buffer = last.buffer
  BY DEF AsyncReceive, TypeOK
<1> QED
  BY <1>1, <1>2, <1>3, <1>4 DEF Contract!CallRecv

\* Running the handler hands the datagram over from the operation to recv().
LEMMA HandlerContract ==
    ASSUME TypeOK, Phases, RunHandler
    PROVE  UNCHANGED Contract!transportVars
<1>1. pc \in Later /\ op.state # "none" /\ received = 0 /\ Inner
  BY DEF RunHandler, Running, Completed, Phases, Inner, Inside, Later
<1>2. op'.state = "none" /\ Inner' /\ UNCHANGED <<arrived, socket, stop, last>>
  BY <1>1 DEF RunHandler, NoOp, Op, Inner, Inside
<1>3. CASE op.state = "ready"
  <2>1. received' = op.datagram /\ received' # 0
    BY <1>3 DEF RunHandler, Phases
  <2>2. Undelivered = <<op.datagram>> \o socket
    BY <1>1, <1>3, UndeliveredIs
  <2>3. Undelivered' = <<op.datagram>> \o <<>> \o socket
    BY <1>2, <2>1 DEF Undelivered
  <2>4. <<op.datagram>> \o <<>> = <<op.datagram>>
    BY DEF TypeOK
  <2> QED
    BY <1>1, <1>2, <2>2, <2>3, <2>4, Stutters
<1>4. CASE op.state # "ready"
  <2>1. received' = 0
    BY <1>1, <1>4 DEF RunHandler
  <2>2. Undelivered = socket
    BY <1>1, <1>4, UndeliveredIs
  <2>3. Undelivered' = <<>> \o <<>> \o socket
    BY <1>2, <2>1 DEF Undelivered
  <2>4. <<>> \o <<>> \o socket = socket
    BY DEF TypeOK
  <2> QED
    BY <1>1, <1>2, <2>2, <2>3, <2>4, Stutters
<1> QED
  BY <1>3, <1>4

\* A recv() ends as the contract allows: with the oldest datagram, with no
\* datagram only when the stop has been requested, or with a throw.
LEMMA LeaveContract ==
    ASSUME TypeOK, Phases, LeaveRecv
    PROVE  \/ Contract!RecvReturns("worker")
           \/ Contract!RecvReturnsEmpty("worker")
           \/ Contract!RecvThrows("worker")
<1>1. Inner /\ ~Inner' /\ UNCHANGED <<arrived, stop, socket, op, received>>
  BY DEF LeaveRecv, Inner, Inside
<1>2. op.state # "ready" => Undelivered' = socket
  <2>1. <<>> \o <<>> \o socket = socket
    BY DEF TypeOK
  <2> QED
    BY <1>1, <2>1 DEF Undelivered
<1>3. CASE pc = "leave" /\ received # 0
  <2>1. op.state = "none" /\ Undelivered = <<received>> \o socket
    BY <1>1, <1>3, UndeliveredIs
  <2>2. /\ <<received>> \o socket # <<>>
        /\ Head(<<received>> \o socket) = received
        /\ Tail(<<received>> \o socket) = socket
    BY DEF TypeOK
  <2>3. last'.kind # "error_code" /\ last'.buffer = received
    BY <1>3 DEF LeaveRecv, HowItEnds, Ended
  <2>4. (CASE last'.kind = "error_code" -> "thrown"
           [] last'.buffer # 0 -> "buffer"
           [] OTHER -> last'.kind) = "buffer"
    BY <1>3, <2>3, Zenon
  <2> QED
    BY <1>1, <1>2, <2>1, <2>2, <2>3, <2>4
    DEF Contract!RecvReturns, Contract!EndRecv, Contract!Told
<1>4. CASE pc = "leave" /\ received = 0
  <2>1. stop = "done"
    BY <1>4 DEF Phases, Later
  <2>2. last' = Ended("empty", 0, last.timed_out)
    BY <1>4 DEF LeaveRecv, HowItEnds
  <2>3. last'.kind = "empty" /\ last'.buffer = 0
    BY <2>2 DEF Ended
  <2>4. Undelivered' = Undelivered
    BY <1>1, <1>4 DEF Undelivered
  <2> QED
    BY <1>1, <2>1, <2>3, <2>4
    DEF Contract!RecvReturnsEmpty, Contract!EndRecv, Contract!Told
<1>5. CASE pc = "unwind"
  <2>1. last' = Ended("error_code", 0, last.timed_out)
    BY <1>5 DEF LeaveRecv, HowItEnds
  <2>2. last'.kind = "error_code" /\ last'.buffer = 0
    BY <2>1 DEF Ended
  <2>3. Undelivered' = Undelivered
    BY <1>1, <1>5 DEF Undelivered, Phases
  <2> QED
    BY <1>1, <2>2, <2>3 DEF Contract!RecvThrows, Contract!EndRecv, Contract!Told
<1> QED
  BY <1>3, <1>4, <1>5 DEF LeaveRecv

\* What is appended to the second of two sequences ends up at the end.
LEMMA AppendAfter ==
    ASSUME NEW T, NEW s \in Seq(T), NEW r \in Seq(T), NEW x \in T
    PROVE  s \o Append(r, x) = Append(s \o r, x)
<1>1. PICK e \in Seq(T) : e = <<x>>
  <2>1. <<x>> \in Seq(T)
    OBVIOUS
  <2> QED
    BY <2>1, Zenon
<1>2. PICK u \in Seq(T) : u = s \o r
  BY ConcatProperties
<1>3. Append(r, x) = r \o e
  BY <1>1, AppendIsConcat
<1>4. Append(u, x) = u \o e
  BY <1>1, AppendIsConcat
<1>5. (s \o r) \o e = s \o (r \o e)
  BY ConcatAssociative, SMTT(20)
<1> QED
  BY <1>2, <1>3, <1>4, <1>5

LEMMA ArrivesContract ==
    ASSUME TypeOK, Phases, DatagramArrives
    PROVE  Contract!Arrive
<1> DEFINE ahead == (IF Inner /\ received # 0 THEN <<received>> ELSE <<>>)
                    \o (IF op.state = "ready" THEN <<op.datagram>> ELSE <<>>)
<1>1. ahead \in Seq(Nat) /\ socket \in Seq(Nat) /\ arrived + 1 \in Nat
  BY SizesAssumption DEF TypeOK
<1>2. Undelivered = ahead \o socket
  BY DEF Undelivered
<1>3. Undelivered' = ahead \o Append(socket, arrived + 1)
  BY DEF DatagramArrives, Undelivered, Inner
<1>4. ahead \o Append(socket, arrived + 1)
        = Append(ahead \o socket, arrived + 1)
  <2> HIDE DEF ahead
  <2>1. PICK x \in Nat : x = arrived + 1
    BY <1>1
  <2>2. ahead \o Append(socket, x) = Append(ahead \o socket, x)
    BY <1>1, AppendAfter
  <2> QED
    BY <2>1, <2>2
<1> QED
  BY <1>2, <1>3, <1>4 DEF DatagramArrives, Contract!Arrive, Inner

LEMMA StepContract ==
    ASSUME TypeOK, Phases, [Next]_vars
    PROVE  Contract!TransportNext \/ UNCHANGED Contract!transportVars
<1>1. CASE AsyncReceive
  BY <1>1, CallContract DEF Contract!TransportNext
<1>2. CASE RunHandler
  BY <1>2, HandlerContract
<1>3. CASE LeaveRecv
  BY <1>3, LeaveContract DEF Contract!TransportNext
<1>4. CASE DatagramArrives
  BY <1>4, ArrivesContract DEF Contract!TransportNext
<1>5. CASE RequestStop
  <2>1. UNCHANGED <<Undelivered, arrived, Inner, last>> /\ stop' # "no"
    BY <1>5 DEF RequestStop, Undelivered, Inner
  <2> QED
    BY <2>1 DEF Contract!TransportNext, Contract!SignalStop
<1>6. CASE Poll
  <2>1. Inner /\ Inner' /\ received = 0 /\ received' = 0
    BY <1>6 DEF Poll, Running, Phases, Inner, Inside, Later
  <2>2. Undelivered = socket
    BY <1>6, <2>1, UndeliveredIs DEF Poll
  <2>3. Undelivered' = socket
    BY <1>6, <2>1, ReceiveKeeps DEF Poll
  <2> QED
    BY <1>6, <2>1, <2>2, <2>3, Stutters DEF Poll
<1>7. CASE RegisterCallback \/ Cancel \/ CallbackCancels
  <2>1. /\ UNCHANGED <<arrived, socket, received, last>>
        /\ op' = op \/ op' = Cancelled(op)
        /\ (stop' # "no") = (stop # "no")
    BY <1>7 DEF RegisterCallback, Cancel, CallbackCancels
  <2>2. UNCHANGED Inner
    BY <1>7 DEF RegisterCallback, Cancel, CallbackCancels, Inner, Inside
  <2>3. UNCHANGED Undelivered
    BY <2>1, <2>2, CancelledOp DEF Undelivered
  <2> QED
    BY <2>1, <2>2, <2>3, Stutters
<1>8. CASE CheckStopToken \/ DecodeEmpty \/ Restart \/ RunReturns \/ CheckStopped
  <2>1. UNCHANGED <<arrived, socket, received, last, op, stop>>
    BY <1>8 DEF CheckStopToken, DecodeEmpty, Restart, RunReturns, CheckStopped
  <2>2. UNCHANGED Inner
    BY <1>8
    DEF CheckStopToken, DecodeEmpty, Restart, RunReturns, CheckStopped, Inner,
        Inside
  <2> QED
    BY <2>1, <2>2, Stutters DEF Undelivered
<1>9. CASE TimeIsUp
  BY <1>9, Stutters DEF TimeIsUp, Undelivered, Inner, Inside, TypeOK
<1>10. CASE CallbackStops \/ IcmpErrorArrives
  BY <1>10, Stutters DEF CallbackStops, IcmpErrorArrives, Undelivered, Inner
<1>11. CASE UNCHANGED vars
  BY <1>11, Stutters DEF vars, Undelivered, Inner
<1> QED
  BY <1>1, <1>2, <1>3, <1>4, <1>5, <1>6, <1>7, <1>8, <1>9, <1>10, <1>11
  DEF Next, WorkerStep, Callback

\* recv(stop_token) implements the contract of ISyncWireTransport, for a socket
\* of any size: a datagram that has arrived, an empty one like any other, is
\* returned once and in order whatever timeout or stop races with it, and a
\* recv() that returns no datagram is one whose stop has been requested
\* (SyncUdpTransport.cpp:48-66, 83-95).
THEOREM UdpKeepsContract == Spec => KeepsContract
<1>1. Init => Contract!TransportInit
  <2> SUFFICES ASSUME Init PROVE Contract!TransportInit
    OBVIOUS
  <2>1. Undelivered = <<>>
    BY DEF Init, Undelivered, Inner, Inside, NoOp, Op
  <2>2. ~Inner /\ arrived = 0 /\ stop = "no" /\ last.kind = "nothing"
        /\ last.buffer = 0
    BY DEF Init, Inner, Inside, Ended
  <2> QED
    BY <2>1, <2>2 DEF Contract!TransportInit, Contract!Told
<1>2. TypeOK /\ Phases /\ [Next]_vars
        => [Contract!TransportNext]_(Contract!transportVars)
  BY StepContract
<1> QED
  BY <1>1, <1>2, UdpTypeCorrect, PhasesAgree, PTL
  DEF Spec, KeepsContract, Contract!TransportSpec
=============================================================================
