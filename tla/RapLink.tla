------------------------------ MODULE RapLink ------------------------------
(***************************************************************************)
(* Client threads that share one RapRegisterTarget, the pair of FIFO       *)
(* queues of a PairedIpcTransport, and the worker thread of a              *)
(* RapServerAdapter that forwards the commands to an IRegisterTarget.      *)
(*                                                                         *)
(* A call of RapRegisterTarget is: take a transaction id, encode and push  *)
(* the command, wait for the next frame of the receive queue, compare its  *)
(* transaction id and its type with the command's (doCmdResp). No lock is  *)
(* held around these steps, nothing is resent, and nothing ever drains the *)
(* receive queue, so a response that comes after its call has given up     *)
(* stays there for the next one.                                           *)
(*                                                                         *)
(* Calls are numbered from 1 in the order in which they take their         *)
(* transaction id. The number is a history variable: neither side reads it *)
(* and only the transaction id is on the wire. A frame is represented by   *)
(* the number of its call, which stands for the fields the call's command  *)
(* fixes (transaction id, message type, addresses, data).                  *)
(***************************************************************************)
EXTENDS SerdesSize, Registers, FiniteSets, Functions

CONSTANTS
    Threads,          \* the threads that call the RapRegisterTarget
    Ops,              \* the operations the threads may ask for
    Cfg,              \* the configuration, as in SerdesSize
    TxnMod,           \* number of transaction ids (uint8_t: 256)
    ServerTimesOut,   \* whether the server's transport has a finite timeout
    MaxCalls          \* bound: calls begun in a behaviour

ASSUME CfgAssumption == Cfg \in Configs
ASSUME BoundsAssumption == TxnMod \in Nat \ {0} /\ MaxCalls \in Nat
ASSUME ServerTimesOutAssumption == ServerTimesOut \in BOOLEAN
ASSUME OpsAssumption == \A op \in Ops : WellFormed(op)

VARIABLES
    pc,               \* pc[t]: where thread t is in its call
    cur,              \* cur[t]: the latest call of thread t, 0 before the first
    next_txn_id,      \* RapRegisterTarget::next_txn_id
    calls,            \* history: the calls begun, with their thread and id
    result,           \* history: how each call ended
    c2s,              \* queue of commands, client to server
    s2c,              \* queue of responses, server to client
    worker,           \* where the server's worker thread is
    cmd,              \* the command the worker holds, 0 if none
    resp,             \* the response the worker holds
    stop_requested,   \* the stop state of the worker's jthread
    regs,             \* the registers of the server's target
    performed         \* history: what the target was asked to do, in order

clientVars == <<pc, cur, next_txn_id, calls, result>>
serverVars == <<worker, cmd, resp, stop_requested, regs, performed>>
vars == <<clientVars, c2s, s2c, serverVars>>

CallNumbers == 1 .. MaxCalls
Call     == [thread : Threads, op : Ops, txn : 0 .. TxnMod - 1]
Response == [call : CallNumbers, ok : BOOLEAN, data : Seq(Data)]
\* The last two happen over UDP only (RapUdpLink).
Outcomes == {"pending", "refused", "timeout", "mismatch", "unexpected",
             "ack", "nak", "undecodable", "error"}
\* from is the call whose response ended this one, 0 if none did.
Result   == [kind : Outcomes, from : 0 .. MaxCalls, data : Seq(Data)]

NoResponse == [call |-> 0, ok |-> FALSE, data |-> <<>>]
Ended(kind) == [kind |-> kind, from |-> 0, data |-> <<>>]

TypeOK ==
    /\ pc \in [Threads -> {"idle", "send", "recv"}]
    /\ cur \in [Threads -> 0 .. MaxCalls]
    /\ next_txn_id \in 0 .. TxnMod - 1
    /\ calls \in Seq(Call)
    /\ result \in Seq(Result)
    /\ c2s \in Seq(CallNumbers)
    /\ s2c \in Seq(Response)
    /\ worker \in {"recv", "handle", "respond", "stopped", "terminated"}
    /\ cmd \in 0 .. MaxCalls
    /\ resp \in Response \cup {NoResponse}
    /\ stop_requested \in BOOLEAN
    /\ regs \in [Addrs -> Data]
    /\ performed \in Seq(Response)

\* The registers' initial contents are the target's; those of a
\* SimpleDummyRegisterTarget are zero.
Init ==
    /\ pc = [t \in Threads |-> "idle"]
    /\ cur = [t \in Threads |-> 0]
    /\ next_txn_id = 0
    /\ calls = <<>>
    /\ result = <<>>
    /\ c2s = <<>>
    /\ s2c = <<>>
    /\ worker = "recv"
    /\ cmd = 0
    /\ resp = NoResponse
    /\ stop_requested = FALSE
    /\ regs = [a \in Addrs |-> {}]
    /\ performed = <<>>

-----------------------------------------------------------------------------
(* The queues of a PairedIpcTransport, whose push and pop are refined in     *)
(* IpcTransportQueue. A definition that is called a slip is one that a       *)
(* careless edit of the source could turn its successor into; the model does *)
(* not use it.                                                               *)

\* Slip: the newest frame overtakes the others.
PushedInFront(queue, frame) == <<frame>> \o queue

Pushed(queue, frame) == Append(queue, frame)

\* Slip: pop() copies the front and leaves it there.
NotPopped(queue) == queue

Popped(queue) == Tail(queue)

-----------------------------------------------------------------------------
(* The client: a method of RapRegisterTarget called by thread t.            *)

\* Slip: the id is not a uint8_t.
TxnIdWithoutWrap(id) == id + 1

\* Slip: the id is read and not advanced.
SameTxnId(id) == id

\* fetch_add on a std::atomic<uint8_t>.
TxnIdAfter(id) == (id + 1) % TxnMod

\* read, write, seqRead, ...: build the command with getNextTxnId().
Begin(t, op) ==
    /\ pc[t] = "idle"
    /\ Len(calls) < MaxCalls
    /\ calls' = Append(calls, [thread |-> t, op |-> op, txn |-> next_txn_id])
    /\ result' = Append(result, Ended("pending"))
    /\ cur' = [cur EXCEPT ![t] = Len(calls) + 1]
    /\ next_txn_id' = TxnIdAfter(next_txn_id)
    /\ pc' = [pc EXCEPT ![t] = "send"]
    /\ UNCHANGED <<c2s, s2c, serverVars>>

\* encodeCommand throws MessageSizeException: the call ends with nothing sent,
\* and its transaction id is spent.
Refuse(t) ==
    /\ pc[t] = "send"
    /\ LET op == calls[cur[t]].op IN CommandRefused(Cfg, op.type, Elements(op))
    /\ result' = [result EXCEPT ![cur[t]] = Ended("refused")]
    /\ pc' = [pc EXCEPT ![t] = "idle"]
    /\ UNCHANGED <<cur, next_txn_id, calls, c2s, s2c, serverVars>>

\* transport->send(serdes.encodeCommand(cmd)).
Send(t) ==
    /\ pc[t] = "send"
    /\ LET op == calls[cur[t]].op IN ~CommandRefused(Cfg, op.type, Elements(op))
    /\ c2s' = Pushed(c2s, cur[t])
    /\ pc' = [pc EXCEPT ![t] = "recv"]
    /\ UNCHANGED <<cur, next_txn_id, calls, result, s2c, serverVars>>

\* Slip: the type of the response is not looked at.
JudgeById(c, f) ==
    CASE calls[f.call].txn # calls[c].txn -> "mismatch"
      [] OTHER -> IF f.ok THEN "ack" ELSE "nak"

\* Slip: the transaction id is not looked at.
JudgeByType(c, f) ==
    CASE calls[f.call].op.type # calls[c].op.type -> "unexpected"
      [] OTHER -> IF f.ok THEN "ack" ELSE "nak"

\* What doCmdResp makes of response f for call c.
Judge(c, f) ==
    CASE calls[f.call].txn # calls[c].txn         -> "mismatch"
      [] calls[f.call].txn = calls[c].txn
         /\ calls[f.call].op.type # calls[c].op.type -> "unexpected"
      [] OTHER                                     -> IF f.ok THEN "ack" ELSE "nak"

\* transport->recv() pops the oldest response, whoever it is for.
Recv(t) ==
    /\ pc[t] = "recv"
    /\ s2c # <<>>
    /\ s2c' = Popped(s2c)
    /\ LET f == Head(s2c) IN
         result' = [result EXCEPT ![cur[t]] =
                      [kind |-> Judge(cur[t], f), from |-> f.call,
                       data |-> f.data]]
    /\ pc' = [pc EXCEPT ![t] = "idle"]
    /\ UNCHANGED <<cur, next_txn_id, calls, c2s, serverVars>>

\* IpcTransportQueue::pop looks at the queue once more when its wait times
\* out, and throws TransportTimeoutException only if it is empty.
Timeout(t) ==
    /\ pc[t] = "recv"
    /\ s2c = <<>>
    /\ result' = [result EXCEPT ![cur[t]] = Ended("timeout")]
    /\ pc' = [pc EXCEPT ![t] = "idle"]
    /\ UNCHANGED <<cur, next_txn_id, calls, c2s, s2c, serverVars>>

-----------------------------------------------------------------------------
(* The server: RapServerAdapter::backgroundWork.                            *)

\* transport->recv(stop_token) pops a command; pop() looks at the stop token
\* first.
WorkerRecv ==
    /\ worker = "recv"
    /\ ~stop_requested
    /\ c2s # <<>>
    /\ cmd' = Head(c2s)
    /\ c2s' = Popped(c2s)
    /\ worker' = "handle"
    /\ UNCHANGED <<clientVars, s2c, resp, stop_requested, regs, performed>>

\* Slip: recv() without the stop token.
WorkerStopsAfterRecv ==
    /\ worker = "handle"
    /\ stop_requested
    /\ worker' = "stopped"
    /\ cmd' = 0
    /\ UNCHANGED <<clientVars, c2s, s2c, resp, stop_requested, regs, performed>>

\* The loop condition, pop() and the check after recv() all end the worker
\* once stop is requested; a command already popped is dropped.
WorkerStop ==
    /\ worker \in {"recv", "handle"}
    /\ stop_requested
    /\ worker' = "stopped"
    /\ cmd' = 0
    /\ UNCHANGED <<clientVars, c2s, s2c, resp, stop_requested, regs, performed>>

\* decodeCommand throws: the length field does not hold the number of elements,
\* which encodeCommand compares with LengthType only.
Undecodable(c) ==
    LET op == calls[c].op IN DecodeThrows(Cfg, op.type, Elements(op))

\* The exception leaves the thread function and std::terminate ends the process.
WorkerDecodeThrows ==
    /\ worker = "handle"
    /\ ~stop_requested
    /\ Undecodable(cmd)
    /\ worker' = "terminated"
    /\ UNCHANGED <<clientVars, c2s, s2c, cmd, resp, stop_requested, regs,
                   performed>>

\* The operation that decodeCommand makes of op: a ReadSeq reads as many
\* elements as its length field says. An increment is taken to fit its field.
AsReceived(op) ==
    IF op.type = "ReadSeq"
    THEN [op EXCEPT !.addrs = SubSeq(@, 1, CountCarried(Cfg, Elements(op)))]
    ELSE op

\* Slip: pop() does not look at the queue again when its wait has timed out.
WorkerTimeoutUnseen ==
    /\ ServerTimesOut
    /\ worker = "recv"
    /\ ~stop_requested
    /\ worker' = "terminated"
    /\ UNCHANGED <<clientVars, c2s, s2c, cmd, resp, stop_requested, regs,
                   performed>>

\* pop() throws TransportTimeoutException, outside the try block as well.
WorkerTimeout ==
    /\ ServerTimesOut
    /\ worker = "recv"
    /\ ~stop_requested
    /\ c2s = <<>>
    /\ worker' = "terminated"
    /\ UNCHANGED <<clientVars, c2s, s2c, cmd, resp, stop_requested, regs,
                   performed>>

\* handleCmd(cmd): the target returns after all elements (an ACK), or throws
\* after having carried out any number of them (a NAK).
WorkerHandle ==
    /\ worker = "handle"
    /\ ~stop_requested
    /\ ~Undecodable(cmd)
    /\ LET op == AsReceived(calls[cmd].op) IN
         \E ok \in BOOLEAN, k \in 0 .. Elements(op) :
            /\ ok => k = Elements(op)
            /\ regs' = AfterElements(regs, op, k)
            /\ resp' = [call |-> cmd, ok |-> ok,
                        data |-> IF ok THEN ReadBack(regs, op) ELSE <<>>]
    /\ performed' = Append(performed, resp')
    /\ cmd' = 0
    /\ worker' = "respond"
    /\ UNCHANGED <<clientVars, c2s, s2c, stop_requested>>

\* serdes.encodeResponse(resp) throws MessageSizeException.
ResponseRefused ==
    IF resp.ok
    THEN AckRefused(Cfg, calls[resp.call].op.type, Len(resp.data))
    ELSE NakRefused(Cfg)

\* Slip: a failed command is not answered.
WorkerSendsAckOnly ==
    /\ worker = "respond"
    /\ s2c' = IF resp.ok THEN Append(s2c, resp) ELSE s2c
    /\ worker' = "recv"
    /\ resp' = NoResponse
    /\ UNCHANGED <<clientVars, c2s, cmd, stop_requested, regs, performed>>

\* transport->send(serdes.encodeResponse(resp)). Nothing catches the
\* exception of encodeResponse: it ends the process as well.
WorkerSend ==
    /\ worker = "respond"
    /\ IF ResponseRefused
       THEN /\ worker' = "terminated"
            /\ UNCHANGED <<s2c, resp>>
       ELSE /\ worker' = "recv"
            /\ s2c' = Pushed(s2c, resp)
            /\ resp' = NoResponse
    /\ UNCHANGED <<clientVars, c2s, cmd, stop_requested, regs, performed>>

\* The RapServerAdapter is destroyed: ~jthread requests the stop.
RequestStop ==
    /\ ~stop_requested
    /\ stop_requested' = TRUE
    /\ UNCHANGED <<clientVars, c2s, s2c, worker, cmd, resp, regs, performed>>

-----------------------------------------------------------------------------

WorkerStep ==
    WorkerRecv \/ WorkerStop \/ WorkerDecodeThrows \/ WorkerHandle \/ WorkerSend
ThreadStep(t) == Refuse(t) \/ Send(t) \/ Recv(t)

\* Client and server are one process: std::terminate ends both.
Alive == worker # "terminated"

Next ==
    /\ Alive
    /\ \/ \E t \in Threads : \/ \E op \in Ops : Begin(t, op)
                             \/ ThreadStep(t)
                             \/ Timeout(t)
       \/ WorkerStep
       \/ WorkerTimeout
       \/ RequestStop

Spec == Init /\ [][Next]_vars

\* A thread that can run does run, and so does the worker. Nobody has to make
\* a call or request the stop, and no property relies on a timeout.
FairSpec ==
    /\ Spec
    /\ \A t \in Threads : WF_vars(Alive /\ ThreadStep(t))
    /\ WF_vars(Alive /\ WorkerStep)

-----------------------------------------------------------------------------
(* Properties.                                                              *)

\* The calls that have ended without taking a response from the queue.
Slips == {c \in DOMAIN result : result[c].kind \in {"timeout", "refused"}}
SlipsBefore(c) == Cardinality({d \in Slips : d < c})

OneThread == \A t, u \in Threads : t = u

\* With one client thread, a response is never staler than the mishaps so far
\* explain: it belongs to a call at most as many calls old as earlier calls
\* have timed out or been refused. In particular, as long as none has, every
\* call gets the response to its own command and no RapProtocolException or
\* UnexpectedMessageTypeException occurs (RegisterTarget.h:140-153).
StaleOnlyAfterSlips ==
    OneThread => \A c \in DOMAIN result :
        result[c].from # 0 =>
            result[c].from \in (c - SlipsBefore(c)) .. c

\* The transaction id does its job until it wraps: a call returns, or throws
\* OperationNakException, on the response to its own command, as long as fewer
\* than TxnMod earlier calls of a single thread have slipped or, with any
\* number of threads, no id has been used twice (RegisterTarget.h:143,
\* 157-160).
AckIsOwn ==
    \A c \in DOMAIN result :
        /\ result[c].kind \in {"ack", "nak"}
        /\ (OneThread /\ SlipsBefore(c) < TxnMod) \/ Len(calls) <= TxnMod
        => result[c].from = c

\* What a call reports is what the target did: an ACK carries the data of a
\* command that was carried out in full and had the call's transaction id and
\* type, a NAK stands for one that failed (ServerAdapter.h:85-105).
AnswerIsTheTargets ==
    \A c \in DOMAIN result :
        result[c].kind \in {"ack", "nak"} =>
            /\ calls[result[c].from].txn = calls[c].txn
            /\ calls[result[c].from].op.type = calls[c].op.type
            /\ [call |-> result[c].from, ok |-> result[c].kind = "ack",
                data |-> result[c].data] \in Range(performed)

\* Of two calls of one thread, c was begun before d.
Before(c, d) == calls[c].thread = calls[d].thread => c < d

\* The target carries out the commands of one thread at most once each and in
\* the order of the calls, also those whose call has timed out meanwhile.
PerformedInOrder ==
    \A i, j \in DOMAIN performed :
        i < j => Before(performed[i].call, performed[j].call)

\* Once a call has been answered, none of the thread's earlier calls is still
\* under way: a write whose call timed out has reached the target before the
\* next answered call of the thread returns, and can no longer surprise it.
AnsweredSettlesEarlier ==
    \A c \in DOMAIN result : \A d \in 1 .. c - 1 :
        /\ result[c].from = c
        /\ calls[d].thread = calls[c].thread
        /\ result[d].kind # "refused"
        => \E p \in Range(performed) : p.call = d

\* Nothing but two events makes the worker call std::terminate. One is a finite
\* timeout of its own transport, and then no command was waiting and it had none
\* in its hands: whatever has been pushed before the wait ends is handled. The
\* other is a command whose number of elements the length field cut. It never
\* dies of a response that it cannot encode (ServerAdapter.h:81, 84, 104).
WorkerSurvives ==
    worker = "terminated" =>
        \/ ServerTimesOut /\ c2s = <<>> /\ cmd = 0 /\ resp = NoResponse
        \/ cmd # 0 /\ Undecodable(cmd)

\* A client waiting for a response gets one without any timeout, unless the
\* server is being shut down, however often earlier calls have timed out.
Answered ==
    \A t \in Threads :
        pc[t] = "recv" ~> (pc[t] # "recv" \/ stop_requested \/ ~Alive)

\* The destructor of RapServerAdapter returns: once the stop is requested, the
\* worker leaves its loop even if it was waiting for a command.
StopEndsWorker == stop_requested ~> worker \in {"stopped", "terminated"}

\* Why PerformedInOrder holds: the calls of a thread stand in order in the
\* whole pipeline, from the call being encoded through the command queue and
\* the worker's hands to what has been carried out, and every number found
\* there is that of a call begun.
Numbered ==
    /\ Len(calls) <= MaxCalls
    /\ Len(result) = Len(calls)
    /\ \A t \in Threads : cur[t] <= Len(calls)
    /\ \A t \in Threads : pc[t] # "idle" => cur[t] # 0
    /\ \A i \in DOMAIN c2s : c2s[i] <= Len(calls)
    /\ \A i \in DOMAIN s2c : s2c[i].call <= Len(calls)
    /\ \A i \in DOMAIN performed : performed[i].call <= Len(calls)
    /\ cmd <= Len(calls)
    /\ resp.call <= Len(calls)
    /\ worker = "handle" => cmd # 0
    /\ cmd # 0 => worker \in {"handle", "terminated"}
    /\ worker = "respond" => resp # NoResponse
    /\ resp # NoResponse => worker \in {"respond", "terminated"}

Lanes ==
    /\ PerformedInOrder
    /\ \A t \in Threads : pc[t] # "idle" => calls[cur[t]].thread = t
    /\ \A i, j \in DOMAIN c2s : i < j => Before(c2s[i], c2s[j])
    /\ \A i \in DOMAIN performed, j \in DOMAIN c2s :
          Before(performed[i].call, c2s[j])
    /\ cmd # 0 =>
          /\ \A i \in DOMAIN performed : Before(performed[i].call, cmd)
          /\ \A j \in DOMAIN c2s : Before(cmd, c2s[j])
    /\ \A t \in Threads : pc[t] = "send" =>
          /\ \A i \in DOMAIN performed : Before(performed[i].call, cur[t])
          /\ \A j \in DOMAIN c2s : Before(c2s[j], cur[t])
          /\ cmd # 0 => Before(cmd, cur[t])

OrderInv == TypeOK /\ Numbered /\ Lanes

\* Why WorkerSurvives holds: every command on its way is one that encodeCommand
\* accepted, and so its response, once there is one, is not refused.
Accepted(c) ==
    LET op == calls[c].op IN ~CommandRefused(Cfg, op.type, Elements(op))

Answerable ==
    /\ WorkerSurvives
    /\ \A i \in DOMAIN c2s : Accepted(c2s[i])
    /\ cmd # 0 => Accepted(cmd)
    /\ resp # NoResponse => ~ResponseRefused

\* Why AnswerIsTheTargets holds: a response on its way is one the target gave.
Truthful ==
    /\ AnswerIsTheTargets
    /\ \A i \in DOMAIN s2c : s2c[i] \in Range(performed)
    /\ resp # NoResponse => resp \in Range(performed)

\* Why AckIsOwn and ImplementsService hold: the transaction ids count the calls.
Stamped ==
    /\ next_txn_id = Len(calls) % TxnMod
    /\ \A c \in DOMAIN calls : calls[c].txn = (c - 1) % TxnMod

\* A thread waits for its latest call, and for no other.
Awaited ==
    /\ \A t \in Threads : pc[t] # "idle" => result[cur[t]] = Ended("pending")
    /\ \A c \in DOMAIN result : result[c].kind = "pending" =>
          LET t == calls[c].thread IN pc[t] # "idle" /\ cur[t] = c

\* Why AnsweredSettlesEarlier holds: while the worker lives, no call that was
\* accepted is missing from the pipeline, and what has been carried out of a
\* thread's calls is all of them up to the latest.
PerformedCalls == {p.call : p \in Range(performed)}

Settled(c) ==
    \A d \in 1 .. c - 1 :
        calls[d].thread = calls[c].thread /\ result[d].kind # "refused"
            => d \in PerformedCalls

NoneMissing ==
    /\ worker # "stopped" =>
          \A c \in DOMAIN calls :
             \/ result[c].kind = "refused"
             \/ \E t \in Threads : pc[t] = "send" /\ cur[t] = c
             \/ c \in Range(c2s) \cup {cmd} \cup PerformedCalls
    /\ \A c \in PerformedCalls : Settled(c)
    /\ \A c \in DOMAIN result : result[c].from \in PerformedCalls \cup {0}

\* Why StaleOnlyAfterSlips holds: the responses stand in order, too, and each
\* frame in the pipeline belongs to a later call than there are calls that
\* have taken a response.
ResponsesInLine ==
    /\ \A i, j \in DOMAIN s2c : i < j => Before(s2c[i].call, s2c[j].call)
    /\ resp # NoResponse => \A i \in DOMAIN s2c : Before(s2c[i].call, resp.call)

\* With one thread t: its calls that have ended, except those that slipped.
Taken(t) ==
    cur[t] - (IF pc[t] = "idle" THEN 0 ELSE 1) - Cardinality(Slips)

Fresh ==
    /\ StaleOnlyAfterSlips
    /\ OneThread => \A t \in Threads :
        /\ cur[t] = Len(calls)
        /\ \A i \in DOMAIN s2c : Taken(t) < s2c[i].call
        /\ \A i \in DOMAIN c2s : Taken(t) < c2s[i]
        /\ cmd # 0 => Taken(t) < cmd
        /\ resp # NoResponse => Taken(t) < resp.call

\* How the client's calls, the two queues, the worker's hands and the target
\* fit together: every command on its way is answerable and in the order of its
\* thread, every response is one the target gave, none is missing, and they
\* reach the client in order (RegisterTarget.h:138-156, ServerAdapter.h:78-106).
\* It is inductive, and the other invariants of the link follow from it.
LinkInv ==
    /\ OrderInv /\ Answerable /\ Truthful
    /\ Stamped /\ Awaited /\ NoneMissing /\ ResponsesInLine /\ Fresh

\* The calls, and what their callers have been told, as a user sees them who
\* does not know of transaction ids.
Asked ==
    [c \in DOMAIN calls |-> [thread |-> calls[c].thread, op |-> calls[c].op]]

Reported(r) ==
    [kind |-> IF r.kind \in {"pending", "ack", "nak"} THEN r.kind ELSE "failed",
     data |-> IF r.kind \in {"ack", "nak"} THEN r.data ELSE <<>>]

Reports == [c \in DOMAIN result |-> Reported(result[c])]

\* As long as no transaction id is used twice (MaxCalls <= TxnMod), the link
\* offers its threads the register service: a call that returns has been
\* carried out, once, for that caller and with that data, and every way in
\* which RapRegisterTarget can fail is one the service allows.
Service ==
    INSTANCE RegisterService WITH
        asked  <- Asked,
        answer <- Reports,
        done   <- performed,
        store  <- regs

ImplementsService == Service!ServiceSpec
=============================================================================
