------------------------- MODULE SyncWireTransport -------------------------
(***************************************************************************)
(* What the callers of ISyncWireTransport (src/Transports.h:15-23) rely on,*)
(* for the messages that go one way: recv() ends with a message, with      *)
(* nothing because its stop token is signalled, or by a throw.             *)
(*                                                                         *)
(* RapRegisterTarget::doCmdResp and RapServerAdapter::backgroundWork are   *)
(* written against this contract: a message that has arrived is received   *)
(* once and in order, a recv() that throws has received none, and one that *)
(* returns no message does so only to a caller that will see its stop      *)
(* token signalled. The buffer is empty then. Whether that of a message    *)
(* can be empty as well is up to the transport.                            *)
(***************************************************************************)
EXTENDS Integers, Sequences

CONSTANTS
    Receivers,        \* the threads that call recv()
    Stoppable         \* those that call recv(stop_token)

VARIABLES
    inbox,            \* messages that have arrived, by the number of arrival
    arrived,          \* how many messages have arrived
    receiving,        \* the threads that are in recv()
    told,             \* told[r]: how the latest recv() of r ended
    stopped           \* whether the stop token is signalled

transportVars == <<inbox, arrived, receiving, told, stopped>>

Told(kind, n) == [kind |-> kind, buffer |-> n]

TransportInit ==
    /\ inbox = <<>>
    /\ arrived = 0
    /\ receiving = {}
    /\ told = [r \in Receivers |-> Told("nothing", 0)]
    /\ stopped = FALSE

\* The other side has called send(), and the transport has not lost it.
Arrive ==
    /\ arrived' = arrived + 1
    /\ inbox' = Append(inbox, arrived + 1)
    /\ UNCHANGED <<receiving, told, stopped>>

CallRecv(r) ==
    /\ r \notin receiving
    /\ receiving' = receiving \cup {r}
    /\ UNCHANGED <<inbox, arrived, told, stopped>>

EndRecv(r, how) ==
    /\ r \in receiving
    /\ receiving' = receiving \ {r}
    /\ told' = [told EXCEPT ![r] = how]
    /\ UNCHANGED <<arrived, stopped>>

RecvReturns(r) ==
    /\ inbox # <<>>
    /\ inbox' = Tail(inbox)
    /\ EndRecv(r, Told("buffer", Head(inbox)))

RecvReturnsEmpty(r) ==
    /\ r \in Stoppable /\ stopped
    /\ EndRecv(r, Told("empty", 0))
    /\ UNCHANGED inbox

RecvThrows(r) ==
    /\ EndRecv(r, Told("thrown", 0))
    /\ UNCHANGED inbox

SignalStop ==
    /\ stopped' = TRUE
    /\ UNCHANGED <<inbox, arrived, receiving, told>>

TransportNext ==
    \/ Arrive
    \/ SignalStop
    \/ \E r \in Receivers : \/ CallRecv(r)
                            \/ RecvReturns(r)
                            \/ RecvReturnsEmpty(r)
                            \/ RecvThrows(r)

TransportSpec == TransportInit /\ [][TransportNext]_transportVars
=============================================================================
