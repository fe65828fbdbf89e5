------------------------- MODULE IpcTransportQueue -------------------------
(***************************************************************************)
(* The queue under each direction of a PairedIpcTransport: push() and the  *)
(* two pop()s of IpcTransportQueue (src/SyncPairedIpcTransports.cpp), with *)
(* the wait set of its condition variable.                                 *)
(*                                                                         *)
(* What happens while mtx is held is one step. push() notifies after it    *)
(* has released mtx, a waiting pop() may wake up for no reason or because  *)
(* its time is over. A stop request sets its flag and, if a stop callback  *)
(* is registered, then runs it, which wakes all waiters up; wait_for keeps *)
(* its callback registered until it returns, and to unregister it waits    *)
(* for a callback that is running.                                         *)
(***************************************************************************)
EXTENDS Integers, Sequences, FiniteSets

CONSTANTS
    Producers,        \* threads that push
    Consumers,        \* threads that pop
    TokenConsumers,   \* those that call pop() with a stop token
    MaxPushes         \* bound: buffers pushed in a behaviour

\* The stop token is that of a jthread, which is the only one to use it.
ASSUME ConsumersAssumption ==
    TokenConsumers \subseteq Consumers /\ \A c, d \in TokenConsumers : c = d
ASSUME MaxPushesAssumption == MaxPushes \in Nat

VARIABLES
    queue,            \* the buffers, by the number of their push
    pushes,           \* history: how many buffers have been pushed
    notifying,        \* the producers between the end of their lock and notify_one
    popping,          \* popping[c]: where c is in pop(): not in it, before
                      \* wait_for, in the wait set, or awake again in wait_for
    expired,          \* the consumers whose wait_for has timed out
    last,             \* last[c]: what the latest pop of c returned or threw
    stop              \* "no", "requested" and then "done" when the callback,
                      \* if there is one, has run

vars == <<queue, pushes, notifying, popping, expired, last, stop>>

Returned(kind, n) == [kind |-> kind, buffer |-> n]

TypeOK ==
    /\ queue \in Seq(1 .. MaxPushes)
    /\ pushes \in 0 .. MaxPushes
    /\ notifying \subseteq Producers
    /\ popping \in [Consumers -> {"no", "entering", "waiting", "woken"}]
    /\ expired \subseteq {c \in Consumers : popping[c] = "woken"}
    /\ last \in [Consumers -> [kind : {"nothing", "buffer", "timeout", "empty"},
                               buffer : 0 .. MaxPushes]]
    /\ stop \in {"no", "requested", "done"}

Init ==
    /\ queue = <<>>
    /\ pushes = 0
    /\ notifying = {}
    /\ popping = [c \in Consumers |-> "no"]
    /\ expired = {}
    /\ last = [c \in Consumers |-> Returned("nothing", 0)]
    /\ stop = "no"

Waiting == {c \in Consumers : popping[c] = "waiting"}

\* stoken.stop_requested(), for a consumer that has a token.
StopRequested(c) == c \in TokenConsumers /\ stop # "no"

\* The consumers that hold or contend for mtx.
Awake == {c \in Consumers : popping[c] \in {"entering", "woken"}}

\* The consumers whose wait_for has registered a stop callback.
Registered == {c \in TokenConsumers : popping[c] \in {"waiting", "woken"}}

-----------------------------------------------------------------------------
(* A definition that is called a slip is one that a careless edit of the     *)
(* source could turn its successor into; the model does not use it.          *)

\* Slip: only a push to the empty queue notifies.
PushNotifyingOnce(p) ==
    /\ p \notin notifying
    /\ pushes < MaxPushes
    /\ pushes' = pushes + 1
    /\ queue' = Append(queue, pushes + 1)
    /\ notifying' = IF queue = <<>> THEN notifying \cup {p} ELSE notifying
    /\ UNCHANGED <<popping, expired, last, stop>>

Push(p) ==
    /\ p \notin notifying
    /\ pushes < MaxPushes
    /\ pushes' = pushes + 1
    /\ queue' = Append(queue, pushes + 1)
    /\ notifying' = notifying \cup {p}
    /\ UNCHANGED <<popping, expired, last, stop>>

\* cv.notify_one() wakes one of the waiters, if there is one.
NotifyOne(p) ==
    /\ p \in notifying
    /\ notifying' = notifying \ {p}
    /\ IF Waiting = {}
       THEN UNCHANGED popping
       ELSE \E c \in Waiting : popping' = [popping EXCEPT ![c] = "woken"]
    /\ UNCHANGED <<queue, pushes, expired, last, stop>>

CallPop(c) ==
    /\ popping[c] = "no"
    /\ popping' = [popping EXCEPT ![c] = "entering"]
    /\ UNCHANGED <<queue, pushes, notifying, expired, last, stop>>

\* The predicate of wait_for is false: release mtx and join the wait set.
Wait(c) ==
    /\ c \in Awake
    /\ queue = <<>> /\ c \notin expired /\ ~StopRequested(c)
    /\ popping' = [popping EXCEPT ![c] = "waiting"]
    /\ UNCHANGED <<queue, pushes, notifying, expired, last, stop>>

\* Slip: the front is copied and left there.
NotPopped(q) == q

Popped(q) == Tail(q)

\* wait_for returns, and what follows it up to the return or the throw.
ReturnFromPop(c) ==
    /\ c \in Awake
    /\ ~(c \in Registered /\ stop = "requested")
    /\ \/ /\ StopRequested(c)
          /\ last' = [last EXCEPT ![c] = Returned("empty", 0)]
          /\ UNCHANGED queue
       \/ /\ ~StopRequested(c)
          /\ queue = <<>> /\ c \in expired
          /\ last' = [last EXCEPT ![c] = Returned("timeout", 0)]
          /\ UNCHANGED queue
       \/ /\ ~StopRequested(c)
          /\ queue # <<>>
          /\ last' = [last EXCEPT ![c] = Returned("buffer", Head(queue))]
          /\ queue' = Popped(queue)
    /\ popping' = [popping EXCEPT ![c] = "no"]
    /\ expired' = expired \ {c}
    /\ UNCHANGED <<pushes, notifying, stop>>

\* Slip: the deadline does not take the thread out of the wait set.
ExpireInWaitSet(c) ==
    /\ popping[c] = "waiting"
    /\ expired' = expired \cup {c}
    /\ UNCHANGED <<queue, pushes, notifying, popping, last, stop>>

\* The time of wait_for is over.
Expire(c) ==
    /\ popping[c] = "waiting"
    /\ expired' = expired \cup {c}
    /\ popping' = [popping EXCEPT ![c] = "woken"]
    /\ UNCHANGED <<queue, pushes, notifying, last, stop>>

WakeSpuriously(c) ==
    /\ popping[c] = "waiting"
    /\ popping' = [popping EXCEPT ![c] = "woken"]
    /\ UNCHANGED <<queue, pushes, notifying, expired, last, stop>>

RequestStop ==
    /\ stop = "no"
    /\ stop' = IF Registered = {} THEN "done" ELSE "requested"
    /\ UNCHANGED <<queue, pushes, notifying, popping, expired, last>>

\* Slip: pop() looks at the token but does not wait on it.
NoStopCallback ==
    /\ stop = "requested"
    /\ stop' = "done"
    /\ UNCHANGED <<queue, pushes, notifying, popping, expired, last>>

\* The stop callback that wait_for registered with the token: notify_all.
RunStopCallback ==
    /\ stop = "requested"
    /\ stop' = "done"
    /\ popping' = [c \in Consumers |-> IF c \in Waiting THEN "woken"
                                                      ELSE popping[c]]
    /\ UNCHANGED <<queue, pushes, notifying, expired, last>>

Next ==
    \/ \E p \in Producers : Push(p) \/ NotifyOne(p)
    \/ \E c \in Consumers : \/ CallPop(c) \/ Wait(c) \/ ReturnFromPop(c)
                            \/ Expire(c) \/ WakeSpuriously(c)
    \/ RequestStop
    \/ RunStopCallback

Spec == Init /\ [][Next]_vars

\* Every thread that can run does, and gets mtx in the end; nobody has to
\* call push, pop or request_stop, and no timeout has to happen.
FairSpec ==
    /\ Spec
    /\ \A p \in Producers : WF_vars(NotifyOne(p))
    /\ \A c \in Consumers : WF_vars(Wait(c) \/ ReturnFromPop(c))
    /\ WF_vars(RunStopCallback)

-----------------------------------------------------------------------------
(* Properties.                                                              *)

\* The consumers that are going to look into the queue.
Looking == {c \in Awake : ~StopRequested(c)}

\* No wakeup is lost: while somebody sleeps, every buffer in the queue has a
\* producer that still has to notify or a consumer that is awake and will take
\* it, except while a stop request is about to wake everybody (lines 13-48).
WakeupsCover ==
    Waiting # {} /\ stop # "requested" =>
        Len(queue) <= Cardinality(notifying) + Cardinality(Looking)

\* Why: a consumer that has been woken up cannot sleep again before the queue
\* is empty. One that has only just called pop() does not count, for a stop
\* request may turn it away; and the stop leaves no consumer asleep that has
\* the token. Only threads that are in a call are ever counted.
Woken == {c \in Consumers : popping[c] = "woken" /\ ~StopRequested(c)}

Covered ==
    /\ WakeupsCover
    /\ IsFiniteSet(notifying)
    /\ IsFiniteSet({c \in Consumers : popping[c] # "no"})
    /\ stop = "done" => TokenConsumers \cap Waiting = {}
    /\ Waiting # {} /\ stop # "requested" =>
          Len(queue) <= Cardinality(notifying) + Cardinality(Woken)

\* The queue keeps the contract of ISyncWireTransport, whichever consumers
\* compete for it: what is pushed is popped once and in order, a pop() that
\* times out has taken nothing, and only a stop request makes it return empty
\* (lines 22-48).
Contract ==
    INSTANCE SyncWireTransport WITH
        Receivers <- Consumers,
        Stoppable <- TokenConsumers,
        inbox     <- queue,
        arrived   <- pushes,
        receiving <- {c \in Consumers : popping[c] # "no"},
        told      <- [c \in Consumers |->
                        IF last[c].kind = "timeout" THEN Returned("thrown", 0)
                                                    ELSE last[c]],
        stopped   <- stop # "no"

KeepsContract == Contract!TransportSpec

\* A pop() that finds or gets a buffer in the queue returns, or somebody else
\* has taken all there is; it needs no timeout for that.
BuffersArrive ==
    \A c \in Consumers :
        (popping[c] # "no" /\ queue # <<>>) ~> (popping[c] = "no" \/ queue = <<>>)

\* A stop request ends every pop() that has the token, also one that sleeps
\* (lines 24-28).
StopEndsPop ==
    \A c \in TokenConsumers :
        (stop # "no" /\ popping[c] # "no") ~> popping[c] = "no"
=============================================================================
