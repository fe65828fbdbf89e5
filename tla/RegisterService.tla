-------------------------- MODULE RegisterService --------------------------
(***************************************************************************)
(* What a user of RapRegisterTarget may rely on, without transaction ids,  *)
(* queues or a server thread: each call is carried out at most once, the   *)
(* calls of a thread in the order in which it made them, and a call that   *)
(* returns, or throws OperationNakException, reports what was done for it. *)
(* A call that ends with any other exception has failed: it may have been  *)
(* carried out, may still be, or may never be.                             *)
(***************************************************************************)
EXTENDS Registers

CONSTANTS
    Threads,          \* the threads that use the service
    Ops               \* the operations they may ask for

VARIABLES
    asked,            \* the calls made, in order
    answer,           \* answer[c]: what the caller of call c was told
    done,             \* what was carried out, in order
    store             \* the registers

serviceVars == <<asked, answer, done, store>>

Pending == [kind |-> "pending", data |-> <<>>]
Failed  == [kind |-> "failed",  data |-> <<>>]

ServiceInit ==
    /\ asked = <<>>
    /\ answer = <<>>
    /\ done = <<>>
    /\ store = [a \in Addrs |-> {}]

CallsOf(t) == {c \in DOMAIN asked : asked[c].thread = t}

\* A thread makes one call at a time.
Ask(t, op) ==
    /\ \A c \in CallsOf(t) : answer[c] # Pending
    /\ asked' = Append(asked, [thread |-> t, op |-> op])
    /\ answer' = Append(answer, Pending)
    /\ UNCHANGED <<done, store>>

\* Call c is carried out, after everything done for earlier calls of its
\* thread: in full, or up to the element at which the registers fail.
Do(c) ==
    /\ \A i \in DOMAIN done :
          asked[done[i].call].thread = asked[c].thread => done[i].call < c
    /\ \E ok \in BOOLEAN, k \in 0 .. Elements(asked[c].op) :
          /\ ok => k = Elements(asked[c].op)
          /\ store' = AfterElements(store, asked[c].op, k)
          /\ done' = Append(done,
                       [call |-> c, ok |-> ok,
                        data |-> IF ok THEN ReadBack(store, asked[c].op)
                                       ELSE <<>>])
    /\ UNCHANGED <<asked, answer>>

\* The caller learns what was done for its call.
Answer(c) ==
    /\ answer[c] = Pending
    /\ \E i \in DOMAIN done :
          /\ done[i].call = c
          /\ answer' = [answer EXCEPT ![c] =
                          [kind |-> IF done[i].ok THEN "ack" ELSE "nak",
                           data |-> done[i].data]]
    /\ UNCHANGED <<asked, done, store>>

\* The caller is told that its call failed.
Fail(c) ==
    /\ answer[c] = Pending
    /\ answer' = [answer EXCEPT ![c] = Failed]
    /\ UNCHANGED <<asked, done, store>>

ServiceNext ==
    \/ \E t \in Threads, op \in Ops : Ask(t, op)
    \/ \E c \in DOMAIN asked : Do(c) \/ Answer(c) \/ Fail(c)

ServiceSpec == ServiceInit /\ [][ServiceNext]_serviceVars
=============================================================================
