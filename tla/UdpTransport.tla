---------------------------- MODULE UdpTransport ----------------------------
(***************************************************************************)
(* UdpTransport::recv(stop_token) and run() (src/SyncUdpTransport.cpp:48-  *)
(* 66, 83-95) as the worker thread of a RapServerAdapter calls them, with  *)
(* the socket, the io_context and the stop token they use.                 *)
(*                                                                         *)
(* asio and std::stop_callback are external and modelled as far as these   *)
(* lines use them: a receive is started, completes when the reactor finds  *)
(* a datagram or an error or when it is cancelled, and its handler runs    *)
(* later, on the thread that is in run_for() or run() and only as long as  *)
(* the io_context is not stopped; the io_context stops itself when no work *)
(* is left. The stop callback runs on the thread that requests the stop,   *)
(* and its two calls are two steps between which the worker may run.       *)
(*                                                                         *)
(* recv() without a token, the one that waits in the kernel, is in         *)
(* RapUdpLink.                                                             *)
(***************************************************************************)
EXTENDS Integers, Sequences

CONSTANTS
    SocketBuffer,     \* datagrams that the socket's receive buffer holds
    MaxDatagrams,     \* bound: datagrams that arrive in a behaviour
    EmptyDatagrams    \* which of them, by number of arrival, carry no bytes

ASSUME SizesAssumption ==
    /\ SocketBuffer \in Nat \ {0} /\ MaxDatagrams \in Nat
    /\ EmptyDatagrams \subseteq 1 .. MaxDatagrams

VARIABLES
    pc,               \* where the worker is
    socket,           \* datagrams in the receive buffer, by number of arrival
    arrived,          \* history: how many datagrams have arrived
    socket_error,     \* an ICMP error waits to be reported on the socket
    op,               \* the receive started by async_receive
    io_stopped,       \* io_ctx.stopped()
    received,         \* the datagram the handler has received, 0 if none
    last,             \* how the latest recv() ended
    stop,             \* "no", "requested" once the callback is to run,
                      \* "cancelled" between its two calls, then "done"
    registered        \* whether run() has registered its stop callback

vars == <<pc, socket, arrived, socket_error, op, io_stopped, received, last,
          stop, registered>>

\* A receive is started ("pending"), then completed with a datagram or with an
\* error while its handler waits to be run.
Op(state, n) == [state |-> state, datagram |-> n]
NoOp == Op("none", 0)
Completed == {"ready", "failed", "aborted"}

Ended(kind, n, timed_out) ==
    [kind |-> kind, buffer |-> n, timed_out |-> timed_out]

\* Outside recv(), in the order of the calls inside it, and when the thread
\* function has returned or has been left by an exception.
Outside == {"loop", "call", "over", "terminated"}
Inside  == {"started", "restarted", "run_for", "check", "cancel", "run",
            "leave", "unwind"}

TypeOK ==
    /\ pc \in Outside \cup Inside
    /\ socket \in Seq(1 .. MaxDatagrams) /\ Len(socket) <= SocketBuffer
    /\ arrived \in 0 .. MaxDatagrams
    /\ socket_error \in BOOLEAN
    /\ op \in [state : {"none", "pending"} \cup Completed,
               datagram : 0 .. MaxDatagrams]
    /\ io_stopped \in BOOLEAN
    /\ received \in 0 .. MaxDatagrams
    /\ last \in [kind : {"nothing", "buffer", "empty", "error_code"},
                 buffer : 0 .. MaxDatagrams, timed_out : BOOLEAN]
    /\ stop \in {"no", "requested", "cancelled", "done"}
    /\ registered \in BOOLEAN /\ (registered => pc \in Inside)
    /\ stop \in {"requested", "cancelled"} => registered

Init ==
    /\ pc = "loop"
    /\ socket = <<>>
    /\ arrived = 0
    /\ socket_error = FALSE
    /\ op = NoOp
    /\ io_stopped = FALSE
    /\ received = 0
    /\ last = Ended("nothing", 0, FALSE)
    /\ stop = "no"
    /\ registered = FALSE

Inner == pc \in Inside

-----------------------------------------------------------------------------
(* The socket.                                                              *)

\* A datagram reaches the socket; where the buffer is full it is dropped and
\* never counts as arrived.
DatagramArrives ==
    /\ arrived < MaxDatagrams
    /\ Len(socket) < SocketBuffer
    /\ arrived' = arrived + 1
    /\ socket' = Append(socket, arrived + 1)
    /\ UNCHANGED <<pc, socket_error, op, io_stopped, received, last, stop,
                   registered>>

\* The socket is connected, so that an ICMP error caused by an earlier send
\* is reported to its next receive.
IcmpErrorArrives ==
    /\ ~socket_error
    /\ socket_error' = TRUE
    /\ UNCHANGED <<pc, socket, arrived, op, io_stopped, received, last, stop,
                   registered>>

\* The kernel is asked for a datagram: an error comes first.
ReceiveFromSocket ==
    \/ /\ socket_error
       /\ socket_error' = FALSE
       /\ op' = Op("failed", 0)
       /\ UNCHANGED socket
    \/ /\ ~socket_error
       /\ socket # <<>>
       /\ op' = Op("ready", Head(socket))
       /\ socket' = Tail(socket)
       /\ UNCHANGED socket_error

WouldBlock == ~socket_error /\ socket = <<>>

\* io_socket.cancel() completes a receive that is still pending.
Cancelled(o) == IF o.state = "pending" THEN Op("aborted", 0) ELSE o

-----------------------------------------------------------------------------
(* The worker. A definition that is called a slip is one that a careless     *)
(* edit of the source could turn its successor into.                        *)

\* The check after recv(), and the condition of backgroundWork's loop.
CheckStopToken ==
    /\ pc = "loop"
    /\ stop # "no" \/ last.kind # "empty"
    /\ pc' = IF stop = "no" THEN "call" ELSE "over"
    /\ UNCHANGED <<socket, arrived, socket_error, op, io_stopped, received,
                   last, stop, registered>>

\* decodeCommand is given an empty buffer and throws MalformedPacketException:
\* it leaves the thread function, and std::terminate ends the process.
DecodeEmpty ==
    /\ pc = "loop"
    /\ stop = "no" /\ last.kind = "empty"
    /\ pc' = "terminated"
    /\ UNCHANGED <<socket, arrived, socket_error, op, io_stopped, received,
                   last, stop, registered>>

\* io_socket.async_receive: it first tries without waiting, and whatever
\* comes of it is given to the handler later.
AsyncReceive ==
    /\ pc = "call"
    /\ pc' = "started"
    /\ received' = 0
    /\ last' = [last EXCEPT !.timed_out = FALSE]
    /\ \/ ReceiveFromSocket
       \/ WouldBlock /\ op' = Op("pending", 0) /\ UNCHANGED <<socket, socket_error>>
    /\ UNCHANGED <<arrived, io_stopped, stop, registered>>

\* Slip: the io_context stays as the previous recv() left it.
NoRestart ==
    /\ pc = "started"
    /\ pc' = "restarted"
    /\ UNCHANGED <<socket, arrived, socket_error, op, io_stopped, received,
                   last, stop, registered>>

\* io_ctx.restart().
Restart ==
    /\ pc = "started"
    /\ pc' = "restarted"
    /\ io_stopped' = FALSE
    /\ UNCHANGED <<socket, arrived, socket_error, op, received, last, stop,
                   registered>>

\* Slip: nobody is told of the stop.
NoCallback ==
    /\ pc = "restarted"
    /\ pc' = "run_for"
    /\ UNCHANGED <<socket, arrived, socket_error, op, io_stopped, received,
                   last, stop, registered>>

\* The constructor of stop_callback: if the stop has been requested already,
\* it runs the callback at once, on this thread.
RegisterCallback ==
    /\ pc = "restarted"
    /\ pc' = "run_for"
    /\ IF stop = "no"
       THEN registered' = TRUE /\ UNCHANGED <<op, io_stopped>>
       ELSE op' = Cancelled(op) /\ io_stopped' = TRUE /\ UNCHANGED registered
    /\ UNCHANGED <<socket, arrived, socket_error, received, last, stop>>

Running == pc \in {"run_for", "run"} /\ ~io_stopped

\* The reactor, polled by run_for() and run().
Poll ==
    /\ Running
    /\ op.state = "pending"
    /\ ReceiveFromSocket
    /\ UNCHANGED <<pc, arrived, io_stopped, received, last, stop, registered>>

\* The handler of async_receive: it throws where the receive has failed, and
\* counts the bytes of the datagram otherwise, which may be none. No work is
\* left after it.
RunHandler ==
    /\ Running
    /\ op.state \in Completed
    /\ op' = NoOp
    /\ io_stopped' = TRUE
    /\ IF op.state = "ready"
       THEN received' = op.datagram /\ UNCHANGED pc
       ELSE pc' = "unwind" /\ UNCHANGED received
    /\ UNCHANGED <<socket, arrived, socket_error, last, stop, registered>>

\* run_for() and run() return when the io_context is stopped.
RunReturns ==
    /\ pc \in {"run_for", "run"}
    /\ io_stopped
    /\ pc' = IF pc = "run_for" THEN "check" ELSE "leave"
    /\ UNCHANGED <<socket, arrived, socket_error, op, io_stopped, received,
                   last, stop, registered>>

\* run_for() returns because its time is over, whether or not a handler waits
\* to be run.
TimeIsUp ==
    /\ pc = "run_for"
    /\ ~io_stopped
    /\ pc' = "check"
    /\ last' = [last EXCEPT !.timed_out = TRUE]
    /\ UNCHANGED <<socket, arrived, socket_error, op, io_stopped, received,
                   stop, registered>>

\* if (!io_ctx.stopped())
CheckStopped ==
    /\ pc = "check"
    /\ pc' = IF io_stopped THEN "leave" ELSE "cancel"
    /\ UNCHANGED <<socket, arrived, socket_error, op, io_stopped, received,
                   last, stop, registered>>

\* Slip: run() is left to wait for the datagram.
NoCancel ==
    /\ pc = "cancel"
    /\ pc' = "run"
    /\ UNCHANGED <<socket, arrived, socket_error, op, io_stopped, received,
                   last, stop, registered>>

\* Slip: the handler of the cancelled receive is not run.
CancelWithoutRun ==
    /\ pc = "cancel"
    /\ pc' = "leave"
    /\ op' = Cancelled(op)
    /\ UNCHANGED <<socket, arrived, socket_error, io_stopped, received, last,
                   stop, registered>>

\* io_socket.cancel() after the timeout.
Cancel ==
    /\ pc = "cancel"
    /\ pc' = "run"
    /\ op' = Cancelled(op)
    /\ UNCHANGED <<socket, arrived, socket_error, io_stopped, received, last,
                   stop, registered>>

\* How recv() ends: with the exception that the handler has thrown, or with a
\* buffer of received_bytes bytes. These are none where the handler has not run,
\* and also where the datagram that it has been given had none.
HowItEnds ==
    IF pc = "unwind"
    THEN Ended("error_code", 0, last.timed_out)
    ELSE Ended(IF received \in EmptyDatagrams \cup {0} THEN "empty" ELSE "buffer",
               received, last.timed_out)

\* Slip: the stop callback outlives the call.
LeaveRegistered ==
    /\ pc \in {"leave", "unwind"}
    /\ pc' = IF pc = "leave" THEN "loop" ELSE "terminated"
    /\ last' = HowItEnds
    /\ UNCHANGED <<socket, arrived, socket_error, op, io_stopped, received,
                   stop, registered>>

\* run() and recv() are left, by return or by the exception of the handler.
\* The destructor of stop_callback waits for a callback that is running. The
\* exception is a std::error_code and nothing catches it: it leaves the thread
\* function, and std::terminate ends the process.
LeaveRecv ==
    /\ pc \in {"leave", "unwind"}
    /\ ~(registered /\ stop \in {"requested", "cancelled"})
    /\ registered' = FALSE
    /\ pc' = IF pc = "leave" THEN "loop" ELSE "terminated"
    /\ last' = HowItEnds
    /\ UNCHANGED <<socket, arrived, socket_error, op, io_stopped, received,
                   stop>>

-----------------------------------------------------------------------------
(* The destructor of RapServerAdapter, on another thread.                   *)

\* ~jthread requests the stop. A callback registered by now will be run.
RequestStop ==
    /\ stop = "no"
    /\ stop' = IF registered THEN "requested" ELSE "done"
    /\ UNCHANGED <<pc, socket, arrived, socket_error, op, io_stopped, received,
                   last, registered>>

\* Slip: the callback only stops the io_context.
CallbackCancelsNothing ==
    /\ stop = "requested"
    /\ stop' = "cancelled"
    /\ UNCHANGED <<pc, socket, arrived, socket_error, op, io_stopped, received,
                   last, registered>>

\* The stop callback's io_socket.cancel().
CallbackCancels ==
    /\ stop = "requested"
    /\ stop' = "cancelled"
    /\ op' = Cancelled(op)
    /\ UNCHANGED <<pc, socket, arrived, socket_error, io_stopped, received,
                   last, registered>>

\* The stop callback's io_ctx.stop().
CallbackStops ==
    /\ stop = "cancelled"
    /\ stop' = "done"
    /\ io_stopped' = TRUE
    /\ UNCHANGED <<pc, socket, arrived, socket_error, op, received, last,
                   registered>>

-----------------------------------------------------------------------------

WorkerStep ==
    \/ CheckStopToken \/ DecodeEmpty \/ AsyncReceive \/ Restart \/ RegisterCallback
    \/ Poll \/ RunHandler \/ RunReturns
    \/ CheckStopped \/ Cancel \/ LeaveRecv

Callback == CallbackCancels \/ CallbackStops

Next ==
    \/ WorkerStep
    \/ TimeIsUp
    \/ Callback
    \/ RequestStop
    \/ DatagramArrives
    \/ IcmpErrorArrives

Spec == Init /\ [][Next]_vars

\* The threads that can run do. No datagram, timeout or stop has to come.
FairSpec == Spec /\ WF_vars(WorkerStep) /\ WF_vars(Callback)

-----------------------------------------------------------------------------
(* Properties.                                                              *)

\* The datagrams that have arrived and no recv() has returned yet.
Undelivered ==
    (IF Inner /\ received # 0 THEN <<received>> ELSE <<>>)
    \o (IF op.state = "ready" THEN <<op.datagram>> ELSE <<>>)
    \o socket

\* recv(stop_token) keeps the contract of ISyncWireTransport except for the
\* type of what it throws: no datagram is lost or returned twice by a timeout
\* or a stop that races with it, and recv() returns without a datagram only to
\* a worker that is going to see the stop request. The buffer is empty then,
\* and it is also when the datagram was (lines 48-66, 83-95).
Contract ==
    INSTANCE SyncWireTransport WITH
        Receivers <- {"worker"},
        Stoppable <- {"worker"},
        inbox     <- Undelivered,
        receiving <- IF Inner THEN {"worker"} ELSE {},
        told      <- [r \in {"worker"} |->
                        [kind   |-> CASE last.kind = "error_code" -> "thrown"
                                      [] last.buffer # 0 -> "buffer"
                                      [] OTHER -> last.kind,
                         buffer |-> last.buffer]],
        stopped   <- stop # "no"

KeepsContract == Contract!TransportSpec

\* The receive, its handler and the stop callback refer to the locals of recv()
\* and of run(). Outside recv() no receive is under way and the callback is
\* neither registered nor running. The handler of a completed receive may be
\* left in the io_context, but only once the worker has been stopped, and no
\* later recv() is begun that would run it (lines 51-57, 85-94).
NothingOutlivesRecv ==
    pc \in Outside =>
        /\ ~registered /\ stop \in {"no", "done"}
        /\ op.state # "pending"
        /\ op.state # "none" => stop = "done" /\ pc # "call"

\* Why both hold: where recv() is, what has become of its receive and whether
\* the stop has come agree. The later phases, in which run_for() or run() may
\* be running, have the callback registered or know that the stop came first.
Later == {"run_for", "check", "cancel", "run", "leave"}

Phases ==
    /\ NothingOutlivesRecv
    /\ op.state = "ready" => op.datagram # 0
    /\ pc \in {"started", "restarted"} => /\ op.state # "none"
                                          /\ received = 0
                                          /\ ~registered
    /\ pc = "restarted" => ~io_stopped
    /\ pc \in Later =>
          /\ registered \/ stop = "done"
          /\ (op.state = "none") = (received # 0)
          /\ received # 0 => io_stopped
          /\ io_stopped /\ received = 0 => stop = "done"
          /\ stop = "done" => io_stopped
          /\ stop \in {"cancelled", "done"} => op.state # "pending"
    /\ pc = "run" => op.state # "pending"
    /\ pc = "leave" => io_stopped
    /\ pc = "unwind" => op.state = "none" /\ received = 0

\* Once the time is up, or the stop is requested, recv() ends whatever the
\* network does (lines 86-94).
TimeoutEndsRecv == (pc \in {"check", "cancel"}) ~> ~Inner
StopEndsWorker == (stop # "no") ~> (pc \in {"over", "terminated"})

\* "Timeouts are signalled by throwing an exception (TransportTimeoutException)"
\* (README.md:94): a recv() whose time was up and that throws, throws this.
TimeoutsAreTransportTimeouts ==
    last.timed_out /\ stop = "no" => last.kind # "error_code"
=============================================================================
