----------------------------- MODULE RapUdpLink -----------------------------
(***************************************************************************)
(* RapLink over a pair of UdpTransports (src/SyncUdpTransport.cpp) instead *)
(* of a PairedIpcTransport: the same client and the same server, but c2s   *)
(* and s2c are the network and the sockets at its ends. Datagrams may be   *)
(* lost, copied, overtaken and corrupted, recv() of the client waits in    *)
(* the kernel and knows no timeout, and anything that goes wrong in the    *)
(* server's transport ends the server.                                     *)
(*                                                                         *)
(* Client and server may be two processes: the client goes on when the     *)
(* server has ended. What the server's recv(stop_token) does inside is in  *)
(* UdpTransport.                                                           *)
(***************************************************************************)
EXTENDS RapLink

CONSTANT
    MaxMishaps        \* bound: how often something happens to a datagram

ASSUME MishapsAssumption == MaxMishaps \in Nat

Mishaps == {"lose", "copy_command", "copy_response", "overtake", "corrupt"}

VARIABLES
    socket_error,     \* an ICMP error waits to be reported on the client's socket
    mishaps           \* history: how often the network has done what

udpVars == <<vars, socket_error, mishaps>>

S == INSTANCE SequencesExt

UdpTypeOK ==
    /\ TypeOK
    /\ socket_error \in BOOLEAN
    /\ mishaps \in [Mishaps -> 0 .. MaxMishaps]

UdpInit ==
    /\ Init
    /\ socket_error = FALSE
    /\ mishaps = [m \in Mishaps |-> 0]

-----------------------------------------------------------------------------
(* The network.                                                             *)

SoFar ==
    mishaps["lose"] + mishaps["copy_command"] + mishaps["copy_response"]
      + mishaps["overtake"] + mishaps["corrupt"]

Happens(m) ==
    /\ SoFar < MaxMishaps
    /\ mishaps' = [mishaps EXCEPT ![m] = @ + 1]

\* Some datagram in a queue is no more.
WithoutOne(queue) == {S!RemoveAt(queue, i) : i \in DOMAIN queue}

\* There is a second copy of some datagram, anywhere.
WithCopy(queue) ==
    {S!InsertAt(queue, j, queue[i]) :
        i \in DOMAIN queue, j \in 1 .. Len(queue) + 1}

\* Some datagram has overtaken all before it.
WithOvertaking(queue) ==
    {<<queue[i]>> \o S!RemoveAt(queue, i) : i \in 2 .. Len(queue)}

NetworkMishap ==
    /\ UNCHANGED <<clientVars, serverVars, socket_error>>
    /\ \/ Happens("lose") /\ c2s' \in WithoutOne(c2s) /\ UNCHANGED s2c
       \/ Happens("lose") /\ s2c' \in WithoutOne(s2c) /\ UNCHANGED c2s
       \/ Happens("copy_command") /\ c2s' \in WithCopy(c2s) /\ UNCHANGED s2c
       \/ Happens("copy_response") /\ s2c' \in WithCopy(s2c) /\ UNCHANGED c2s
       \/ Happens("overtake") /\ c2s' \in WithOvertaking(c2s) /\ UNCHANGED s2c
       \/ Happens("overtake") /\ s2c' \in WithOvertaking(s2c) /\ UNCHANGED c2s

\* The server's socket is closed.
SocketClosed == worker \in {"stopped", "terminated"}

\* A command that finds the server's socket closed is answered with an ICMP
\* error, which the client's connected socket keeps for its next call.
PortUnreachable ==
    /\ SocketClosed
    /\ c2s # <<>>
    /\ c2s' = Popped(c2s)
    /\ socket_error' = TRUE
    /\ UNCHANGED <<clientVars, s2c, serverVars, mishaps>>

-----------------------------------------------------------------------------
(* The client.                                                              *)

\* decodeResponse throws CrcMismatchException or MalformedPacketException: the
\* datagram has been taken, and the call ends.
RecvCorrupted(t) ==
    /\ Happens("corrupt")
    /\ pc[t] = "recv"
    /\ s2c # <<>>
    /\ s2c' = Popped(s2c)
    /\ result' = [result EXCEPT ![cur[t]] = Ended("undecodable")]
    /\ pc' = [pc EXCEPT ![t] = "idle"]
    /\ UNCHANGED <<cur, next_txn_id, calls, c2s, serverVars, socket_error>>

\* The next send() or receive() reports the error by a throw.
TransportFails(t) ==
    /\ pc[t] \in {"send", "recv"}
    /\ socket_error
    /\ socket_error' = FALSE
    /\ result' = [result EXCEPT ![cur[t]] = Ended("error")]
    /\ pc' = [pc EXCEPT ![t] = "idle"]
    /\ UNCHANGED <<cur, next_txn_id, calls, c2s, s2c, serverVars, mishaps>>

-----------------------------------------------------------------------------
(* The server.                                                              *)

\* An exception leaves backgroundWork: recv() has timed out, has lost the race
\* with the stop request or has met an error of the socket, decodeCommand has
\* been given a corrupted datagram, or send() has met an error of the socket.
\* None of these calls is in the try block.
WorkerThrows ==
    /\ worker \in {"recv", "respond"}
    /\ worker' = "terminated"
    /\ resp' = NoResponse
    /\ UNCHANGED <<clientVars, c2s, s2c, cmd, stop_requested, regs, performed,
                   socket_error, mishaps>>

-----------------------------------------------------------------------------

UdpNext ==
    \/ NetworkMishap
    \/ PortUnreachable
    \/ \E t \in Threads : RecvCorrupted(t) \/ TransportFails(t)
    \/ WorkerThrows
    \/ /\ UNCHANGED <<socket_error, mishaps>>
       /\ \/ \E t \in Threads : (\E op \in Ops : Begin(t, op)) \/ ThreadStep(t)
          \/ WorkerStep
          \/ RequestStop

UdpSpec == UdpInit /\ [][UdpNext]_udpVars

\* As FairSpec of RapLink. The network and the clock owe nobody anything.
UdpFairSpec ==
    /\ UdpSpec
    /\ \A t \in Threads : WF_udpVars(ThreadStep(t) /\ UNCHANGED <<socket_error, mishaps>>)
    /\ WF_udpVars(WorkerStep /\ UNCHANGED <<socket_error, mishaps>>)

-----------------------------------------------------------------------------
(* Properties.                                                              *)

ServerDown == stop_requested \/ SocketClosed

\* Whatever the network does, a call is not answered by another call's response
\* unless that call was begun a full round of transaction ids before or after
\* it (RegisterTarget.h:143, 157-160).
OwnOrARoundAway ==
    \A c \in DOMAIN result :
        LET f == result[c].from
        IN  result[c].kind \in {"ack", "nak"} =>
                f = c \/ f - c >= TxnMod \/ c - f >= TxnMod

\* The server does not repeat anything by itself: it carries out a command a
\* second time only because the network has copied it (ServerAdapter.h:80-106).
RepeatsAreCopies ==
    Len(performed) - Cardinality({p.call : p \in Range(performed)})
        <= mishaps["copy_command"]

\* As long as no datagram has been copied, a single client thread stays in step
\* with the server: every response it takes is that of its current call, and
\* its commands are carried out in order and at most once. Losing, delaying and
\* corrupting datagrams cannot put them out of step, since a call whose
\* response is lost never ends.
InStepUnlessCopied ==
    OneThread /\ mishaps["copy_command"] + mishaps["copy_response"] = 0 =>
        /\ PerformedInOrder
        /\ \A c \in DOMAIN result : result[c].from \in {0, c}

\* Why OwnOrARoundAway holds: responses are the target's, and ids count calls.
\* Why RepeatsAreCopies holds: no call is in the pipeline twice, from the one
\* being sent through the commands on their way to what has been carried out,
\* except for the copies.
InPipeline == Range(c2s) \cup ({cmd} \ {0}) \cup {p.call : p \in Range(performed)}

Unrepeated ==
    /\ \A t \in Threads : pc[t] # "idle" => calls[cur[t]].thread = t
    /\ \A t \in Threads : pc[t] = "send" => cur[t] \notin InPipeline
    /\ Len(performed) + (IF cmd = 0 THEN 0 ELSE 1) + Len(c2s)
         <= Cardinality(InPipeline) + mishaps["copy_command"]

\* Why InStepUnlessCopied holds: there is one datagram on its way at most, that of
\* the call that waits for its response. An error that waits to be reported has
\* taken the place of that datagram.
OnTheWay ==
    Len(c2s) + (IF cmd = 0 THEN 0 ELSE 1)
      + (IF resp = NoResponse THEN 0 ELSE 1) + Len(s2c)

InStep ==
    OneThread /\ mishaps["copy_command"] + mishaps["copy_response"] = 0 =>
        /\ InStepUnlessCopied
        /\ OnTheWay <= 1
        /\ OnTheWay = 1 \/ socket_error => \A t \in Threads : pc[t] = "recv"
        /\ socket_error => OnTheWay = 0
        /\ \A t \in Threads :
              /\ \A i \in DOMAIN c2s : c2s[i] = cur[t]
              /\ cmd # 0 => cmd = cur[t]
              /\ resp # NoResponse => resp.call = cur[t]
              /\ \A i \in DOMAIN s2c : s2c[i].call = cur[t]
              /\ pc[t] = "send" \/ c2s # <<>> \/ cmd # 0 =>
                    \A i \in DOMAIN performed : performed[i].call < cur[t]

\* How the client's calls, the datagrams on their way, the worker's hands and the
\* target fit together over a network that loses, copies, delays and corrupts
\* datagrams (RegisterTarget.h:138-156, ServerAdapter.h:78-106). It is inductive,
\* and the other invariants follow from it.
UdpInv ==
    /\ UdpTypeOK /\ Numbered
    /\ Truthful /\ Stamped
    /\ Unrepeated /\ InStep

\* Only a lost datagram or the end of the server can leave a call waiting.
AnsweredUnlessLost ==
    \A t \in Threads :
        pc[t] = "recv" ~> (pc[t] # "recv" \/ mishaps["lose"] > 0 \/ ServerDown)

\* "Blocks until a serialized message is received by the transport or a timeout
\* occurrs" (README.md:97): recv() ends in one way or the other while the server
\* is there.
RecvEnds ==
    \A t \in Threads : pc[t] = "recv" ~> (pc[t] # "recv" \/ ServerDown)
=============================================================================
