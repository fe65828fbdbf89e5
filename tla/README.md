# A TLA+ model of RAP-cpp

RAP-cpp is a C++ implementation of a Register Access Protocol: a client object
(`RapRegisterTarget`) turns register reads and writes into messages, a transport
carries them, and a server object (`RapServerAdapter`) forwards them to another
register target and sends the answers back. The modules here model that code,
TLC checks them on small instances, and TLAPS proves some of the results for
every value of the constants. Paths and lines below are those of the source tree
(`src/` of this repository).

## Inventory

| Component | State | Operations | Interacts with |
|---|---|---|---|
| `Serdes<Cfg>` (`Serdes.h`) | `max_message_size` | encode and decode of 26 message types, four count limits | called by client and server; CRCpp computes the CRC |
| `RapRegisterTarget` (`RegisterTarget.h`) | `next_txn_id` (atomic), transport, serdes | `write`, `read`, `readModifyWrite`, `seq*`, `fifo*`, `comp*`, all through `doCmdResp` | calls `Serdes` and `ISyncWireTransport`; called by any number of threads without a lock |
| `RapServerAdapter` (`ServerAdapter.h`) | transport, target, a `jthread` | `backgroundWork`: receive, decode, forward, answer; the destructor stops it | calls `Serdes`, transport and `IRegisterTarget` |
| `PairedIpcTransport` (`SyncPairedIpcTransports.cpp`) | two shared queues with mutex and condition variable, `timeout` | `send`, `recv`, `recv(stop_token)`, `setTimeout` | joins client and server in one process |
| `UdpTransport` (`SyncUdpTransport.cpp`) | socket, `io_context`, `timeout` | the same interface | asio, the network |
| Configuration (`Configuration.h`) | none (compile time) | the concept `IsConfigurationType` | parameter of all the templates |
| Exceptions (`Types.h`) | none | nine exception types | thrown by all of the above |
| Wireshark dissector (`WiresharkDissector.lua`) | none | displays messages | repeats the message layouts |
| RTF, YALF, asio, CRCpp | not in the repository | | modelled, where at all, from their use |

What is hard in this code, and what makes each component correct:

* **Client.** No response is matched with its call other than by an eight-bit id
  and its type, and nothing drains the receive queue. Correct means: a call
  returns the answer to its own command, or fails; how stale a response may be
  is bounded by the mishaps so far; late writes do not overtake later calls.
* **Server.** One thread, one command at a time; only the exceptions of the target
  are caught. Correct means: each command is carried out once and answered, with
  an ACK or a NAK; no command that a client encodes ends the process, with the
  one exception below (`narrow_length`); a stop request always ends the worker.
* **Queue.** Notification outside the lock, timeouts, spurious wakeups and a stop
  token on one condition variable. Correct means: first in first out, each
  buffer once, and no lost wakeup.
* **Codec.** Sizes, limits and decoders are written by hand for 26 types. Correct
  means: a round trip is the identity up to the width of the fields, a frame is
  as long as calculated, decoders are exact, and limits are neither too lax nor
  too strict.
* **Methods.** A method is one command or, without its feature flag, a series of
  reads and writes; counts and increments are cast to `LengthType`. Correct
  means: what a method does and returns is the same with and without the
  feature, a failure leaves a prefix of its elements, and no update is lost that
  an atomic read-modify-write would keep.
* **UDP.** Datagrams get lost, copied, delayed and corrupted; in
  `recv(stop_token)` the handler, the timeout, the cancellation and the stop
  callback race. Correct means that the contract of `ISyncWireTransport` is kept,
  that nothing of a `recv` outlives it, and that the network cannot make a call
  return another call's answer before the ids wrap.

`PROJECT.json` lists the hazards one by one with the properties that cover them.

## Modules

| Module | What it is |
|---|---|
| `SerdesSize` | size arithmetic and count limits, as pure operators of a configuration record |
| `Serdes` | the codec at the level of bytes, and the life of one message |
| `Registers` | the operations of an `IRegisterTarget` and their effect (external to the repository) |
| `RapLink` | client threads, the two queues, the server's worker; uses `SerdesSize` and `Registers` |
| `RegisterService` | what a user may rely on: the abstract specification `RapLink` implements |
| `IpcTransportQueue` | one queue with its mutex and condition variable; justifies the atomic pushes and pops of `RapLink` |
| `SyncWireTransport` | what the callers of an `ISyncWireTransport` rely on: the abstract specification of both transports |
| `UdpTransport` | `recv(stop_token)` and `run` of the UDP transport, with asio and the stop callback as external parts |
| `RapUdpLink` | extends `RapLink`: the same client and server over the network instead of two queues |
| `RegisterTarget` | the methods of `RapRegisterTarget` with their feature flags and fall-backs, composed with `RegisterService` |
| `MC*` | constants for TLC |
| `SerdesSizeProofs`, `RegistersProofs` | theorems and lemmas about the size arithmetic and about the register operations |
| `SerdesProofs` | the codec keeps to the sizes and limits that the theorems above are about; decoding is exact, and what is encoded is decoded to the same message |
| `RapLinkProofs` | types, order of the commands, survival of the worker, truth of the answers; the inductive invariant of `RapLink`: staleness, own answers, settled calls, refinement of `RegisterService` |
| `UdpTransportProofs`, `IpcTransportQueueProofs` | the invariants of the two transports and their refinements of `SyncWireTransport` |
| `RapUdpLinkProofs` | the invariant of the link over a faulty network and what follows from it |
| `RegisterTargetProofs` | the invariants of the methods, `LeavesAtMostOneBehind`, `TouchesInOrder`, `UpdatesKept` and `FeaturesDoNotShow` |

A definition whose comment begins with "Slip" is a version of the next definition
as a careless edit of the source could make it. The model does not use these
versions; putting one in the place of its neighbour makes TLC refute the
property that `PROJECT.json` pairs with it, which shows that the property does
depend on that piece of code.

### Correspondence with the code

`RapLink`. `Begin` is a method of `RapRegisterTarget` up to `getNextTxnId()`
(an atomic `fetch_add`, so a step of its own); `Refuse` and `Send` are
`transport->send(serdes.encodeCommand(cmd))` of `doCmdResp`, without and with
success; `Recv` is `decodeResponse(transport->recv())` and the visitor that
judges the response (`Judge`: first the id, then the type, then ACK or NAK);
`Timeout` is the `TransportTimeoutException` of `recv()`. Of the server,
`WorkerRecv`, `WorkerHandle` and `WorkerSend` are one turn of `backgroundWork`:
receive, decode and the `try` block around `handleCmd`, and encode and send.
`WorkerStop` is each of its ways out on a stop request. `WorkerTimeout`,
`WorkerDecodeThrows` and the refusing branch of `WorkerSend` are exceptions that
leave the thread function and end the process. `RequestStop` is the destructor.
Calls are numbered in a history variable; a command in a queue is the number of
its call, and its id, type and operands are looked up there, which stands for the
codec's round trip (checked in `Serdes`). Where the length field is narrower than
`LengthType` that is not the identity: `AsReceived` is what the decoder makes of a
sequential read, and the other counted commands whose number of elements was cut
do not pass its size check (`Undecodable`, `DecodeThrows` of `SerdesSize`). Increments
are taken to fit; `RegisterTarget` has their cast. The server checks the stop token after `recv` and then
handles the command; a request in between has the same effect as one just after
the handling, so both are one step.

`IpcTransportQueue`. Each critical section of `mtx` is one action; `push` is
`Push` and then `NotifyOne`. `wait_for` is `Wait` (join the wait set), one of
`NotifyOne`, `Expire`, `WakeSpuriously`, `RunStopCallback` (leave it), and then
`Wait` again or `ReturnFromPop`, which includes what follows `wait_for` in
`pop`. The stop callback stays registered from the first wait until `wait_for`
returns, and unregistering it waits for a running callback, as the C++ standard
says; the first version of this module registered it only while its thread
slept, and TLC then found a lost wakeup: the callback is what passes a
notification on when a stopped `pop` has swallowed it.

`SyncWireTransport` is the interface at the level of messages of one direction:
`recv` returns the oldest message that has arrived, returns without one once its
stop token is signalled, or throws and has received nothing. `IpcTransportQueue` implements it with `inbox <- queue`; `UdpTransport` with the
datagram the handler has received, the one its completion holds and those in
the socket, in this order.

`UdpTransport`. One thread, the worker, is in `recv(stop_token)` and `run`; each
call they make is an action: `AsyncReceive`, `Restart`, `RegisterCallback`,
`CheckStopped`, `Cancel`, `LeaveRecv`. `run_for` and `run` are `Poll` (the reactor
finds a datagram or an error), `RunHandler`, `RunReturns` and, for `run_for` only,
`TimeIsUp`, which may come at any time. The two calls of the stop callback are
actions of the thread that requests the stop, and `LeaveRecv` waits for a
callback that is running, as the destructor of `std::stop_callback` does. The
exception of the handler leaves `run`, `recv` and `backgroundWork`, in which
nothing catches it. Some of the datagrams carry no bytes (`EmptyDatagrams`): `recv`
returns an empty buffer for them as it does on a stop, and `DecodeEmpty` is
`decodeCommand` throwing on it. To the contract they are messages like any other.

`RapUdpLink`. `c2s` and `s2c` are now the network and the sockets at its ends;
`NetworkMishap` loses, copies or delays a datagram in them, and `RecvCorrupted` is
the client's decoder throwing on one. `Timeout` and `WorkerTimeout` of `RapLink`
are not part of `UdpNext`: the client's `recv()` has no timeout, and every
exception of the server's transport or decoder, its timeout included, is
`WorkerThrows`. Client and server may be two processes, so the client goes on;
its commands then come back as `PortUnreachable`, which its socket reports by a
throw (`TransportFails`).

`RegisterTarget`. A call is a method with its arguments and the list of commands
issued for it; `Command` says which one is next, as one command of its own
(`DirectCommand`) or as the next `read()` or `write()` of the method of
`IRegisterTarget` that it overrides (`Element`, and the two halves of a
read-modify-write). The fall-backs are external: their code is in RTF.
Commands go to the service that `RapLink` implements: `Issue`
is its `Ask`, `Receive` its `Answer`, `Lose` its `Fail`, and `CarryOut` its `Do`, which
may come after `Lose`. `Refuse` is the `MessageSizeException` of `encodeCommand`.
Addresses are numbers here and one address is one word, so that an increment
of 1 is `sizeof(DataType)`.

`Serdes`. A message is its type, its id, its fixed fields and its rows. The
tables `CommandFields`, `CommandRow`, `AckFields`, `AckRow` and `StatusFields`
list, per type, what the 26 encoders append. `SerdesSize` models independently
what the same encoders pass to `calcSize`, so that `SizeAsCalculated` compares
two things the source writes separately. Bytes are numbers from 0 to 255 and a
field is little-endian. `DecodeBody` keeps the order of the checks and which
exception each throws. `commandCases` and `responseCases` are the two hand-written
lists of cases in `decodeCommand` and `decodeResponse`; they are independent of
`Role`, which says what is encoded, so that a type in the wrong list would show.

## Runs

| Run | Module | Shows | Bounds |
|---|---|---|---|
| `one_thread` | `MCRapLink` | responses of one thread: staleness, ids, data, survival of the worker | 4 calls, 2 ids, 5 operations, counts cut at 256, server may time out |
| `two_threads` | `MCRapLink` | order and number of commands carried out, truth of answers, answerability, with their inductive strengthenings; every waiting call is answered, a stop ends the worker | 2 threads, 3 calls, 2 ids, server may time out, fairness |
| `link_implements_service` | `MCRapLink` | refinement of `RegisterService` | 2 threads, 3 calls, 3 ids |
| `codec` | `MCSerdes` | round trip, sizes, exact decoding, limits | 3 configurations, 477 messages, one alteration |
| `narrow_length` | `MCSerdes` | a finding, below | 1 configuration |
| `ipc_queue` | `MCIpcTransportQueue` | no lost wakeup, refinement of `SyncWireTransport`, buffers arrive, a stop ends `pop` | 2 producers, 3 consumers, 3 buffers, fairness |
| `udp_receive` | `UdpTransport` | refinement of `SyncWireTransport`, nothing outlives its `recv` that could still run, timeouts and stops end it | 4 datagrams, 2 of which fit the socket and 1 of which is empty, fairness |
| `udp_timeout` | `UdpTransport` | a finding, below | as `udp_receive` |
| `udp_link` | `MCRapUdpLink` | which responses a call can be given, and how often a command is carried out, over a faulty network | 1 thread, 3 calls, 2 ids, 2 mishaps of any kind, fairness |
| `udp_lost_answer` | `MCRapUdpLink` | a finding, below | 1 call, 1 mishap |
| `register_target` | `MCRegisterTarget` | methods with and without their features, partial failure, updates that are kept | 2 threads, 2 calls of 13 methods, 3 sets of flags |
| `fifo_read` | `MCRegisterTarget` | a finding, below | 1 call |

The invariants `LinkInv`, `Covered`, `Phases`, `UdpInv` and `MethodsInv` of these runs
are the inductive ones on which the proofs rest: TLC says here that they hold,
TLAPS below that each step preserves them.

Why the bounds are enough. An id wraps after 256 calls in the code and after
`TxnMod` = 2 in `one_thread` and `two_threads`; four calls are twice that, so a
stale response can, and does, meet a call with its own id there. The refinement
holds only while no id is used twice, so its run has as many ids as calls.
`one_thread` has the configuration `NarrowCfg`, one byte of length field for a
two-byte `LengthType`, and operations below the cut, beyond it in a type that the
decoder can and in one that it cannot check, and beyond the limit. The
configuration `TightCfg` of the others has the smallest transport the code admits, wide data
and narrow addresses, so that the limits are 2 or 3 elements and a `ReadComp`
of four elements fits as a command and not as an ACK. The values of registers
are sets of bits, two registers of two bits at most. In `codec` the
configurations have widths of one to three bytes, limits decided by the command
in one and by the ACK in another, and the counts are 0, 1, the limit and one
more. In `ipc_queue` a lost wakeup needs two sleepers, two buffers and one
thread that swallows a notification; there are three consumers and three
buffers. `UdpTransport` has one thread and one receive at a time, and what one
`recv` leaves behind shows in the next: the datagrams suffice for a third, with one
in the socket meanwhile. In `udp_link` two mishaps and two ids let a copied
response reach a call with its id: the shift of one that a copy causes and the
one of a second copy add up to a round of ids. In `register_target` lengths wrap at
4 and a command holds 2 or 3 elements, so that there are counts and increments
beyond the type, counts beyond a command, and both below; two calls are what it
takes for one update to overwrite another, also when the first has failed
before the second begins. Its sets of flags are none, those of
`ExampleRapCfg`, and those that `ExampleRapCfg` lacks: each flag is on and off.
`CHECK_DEADLOCK FALSE` stands only where the calls or the codec's one message
are used up and the system rests.

Fairness. `RapLink` assumes weak fairness of each thread's own next step once it
is in a call and of the worker's, as an operating system that schedules every
runnable thread provides, and none of `Begin`, `Timeout` or `RequestStop`: no
property relies on a timeout happening. The calls of a behaviour are finitely many
(`MaxCalls`), so `Answered` does not exclude that a thread which calls for ever
keeps taking the responses of another. `IpcTransportQueue` assumes the same of
a producer that has to notify, of a consumer that is awake (it gets `mtx` in the
end: the sections under it are short and pushes are finite) and of the stop
callback. `UdpTransport` assumes it of the worker and of the thread that runs the
stop callback, and assumes of the clock only that it is no part of what a
property waits for: `TimeoutEndsRecv` begins when the time is up. `RapUdpLink`
assumes it of each thread and of the worker as `RapLink` does; neither the network
nor an error has to do anything.

### What the runs say about the code

* With one thread a response can be older than its call by at most the number of
  earlier calls that timed out or were refused (`StaleOnlyAfterSlips`). So one
  timeout whose response comes after all makes every later call of the object
  fail with `RapProtocolException`: each takes the response to the call before.
  Nothing in the code drains the queue or realigns the calls, and further
  mishaps only make the responses staler. Once they are as stale as there are
  ids, the comparison of the ids notices nothing; this is what `AckIsOwn` and its
  hypotheses are about.
* `AckIsOwn` is as strong as the code allows: with several threads it needs that
  no id has been used twice. With 256 ids a thread that is held up between
  `send` and `recv` while others make 256 calls may accept a foreign answer.
* `AnsweredSettlesEarlier` is the comfort that remains: a write that timed out
  has been carried out by the time the thread's next answered call returns, and
  cannot surprise it later.
* **Finding** (`narrow_length`): the four limits use the range of `LengthType`
  and not that of `LengthBytes` bytes. The concept in `Configuration.h:58` permits
  `LengthBytes < sizeof(LengthType)`, and then a count of 256 is encoded as 0,
  although `Serdes.h:381` says that the length field limits it. A sequential read
  is then answered with too few elements; any other counted command fails the
  size check of `decodeCommand`, whose exception nothing catches, and ends the
  server's process.
* `WorkerSurvives` (`one_thread`) says that apart from such a command only a finite
  timeout of the server's own transport ends the process, and never while a
  command is waiting or in the worker's hands. `decodeCommand` and
  `encodeResponse` are outside the `try` block, so this rests on the client's
  limits being tight enough.
* **Finding** (`udp_timeout`): a `recv(stop_token)` of the UDP transport that times
  out throws the `std::error_code` of the cancelled receive
  (`SyncUdpTransport.cpp:54`), not the `TransportTimeoutException` that `README.md:94`
  promises. The timeout is one second unless it is set, so a UDP server to
  which nobody talks for a second ends its process. A stop request may end the
  same way: when the callback has cancelled the receive and not yet stopped the
  `io_context`, the handler runs and throws. `StopEndsWorker` therefore allows
  either end.
* What holds of the UDP transport in spite of these races is the rest of the
  contract (`KeepsContract`): a datagram that completes the receive while the time
  runs out or the stop is requested is delivered by this `recv` or the next one, or
  is still in the socket; and a `recv` that returns without a datagram does so only
  to a worker that will see the stop request. This depends on the `restart` at the
  head of `run`. An empty buffer alone does not mean a stop: an empty datagram
  gives one as well, and `decodeCommand` throws on it.
* When `recv(stop_token)` has been left, no receive is pending and the stop callback
  is gone (`NothingOutlivesRecv`). A stop may leave a completed receive whose
  handler has not run in the `io_context`; that handler refers to dead locals, and
  what saves the code is that the worker never calls `recv` again.
* **Finding** (`udp_lost_answer`): `recv()` of the UDP transport knows no timeout
  (`SyncUdpTransport.cpp:38`), against `README.md:97`. A lost datagram leaves its caller
  waiting for ever. `AnsweredUnlessLost` says that nothing else does.
* Over UDP a copied datagram does what a timeout does over queues: a copied
  command is carried out twice (`RepeatsAreCopies`; harmful for FIFO registers)
  and every later call takes the response to the one before. Without copies a
  single thread stays in step (`InStepUnlessCopied`), whatever is lost, delayed or
  corrupted, because a call whose response is lost does not end.
* **Finding** (`fifo_read`): `fifoRead` (`RegisterTarget.h:101`) looks at no feature flag,
  although `README.md:123` says that the class adjusts itself, as `fifoWrite` does.
* With the flags off, methods do what they do with the flags on
  (`FeaturesDoNotShow`), as long as counts and increments fit `LengthType`. Beyond
  that a direct `seqRead` of 65536 elements reads none and returns (the count is
  cast before the codec can refuse it), and an increment of 65536 is one of 0.
  No document of the repository speaks of this, so that there is no property to
  refute; `TouchesInOrder` says what remains: a read whose count was cut reads some
  of the first elements and no others, and a call whose increment was cut at
  least has the caller's data. The addresses it goes for are then not the
  caller's, and no property claims it.
  The one method that differs for concurrent callers is `readModifyWrite`:
  `UpdatesKept` says exactly when an update can be lost, which includes another
  thread's update that has failed long ago and whose write is still to come.

## Proofs

Everything below holds for all values of the constants that satisfy the named
assumptions of the modules: any number of threads, calls, datagrams, buffers and
mishaps, any registers and any list of operations. The bounds (`MaxCalls`,
`MaxDatagrams`, `MaxPushes`, `MaxMishaps`) are arbitrary natural numbers, so nothing
depends on them. A safety proof has one lemma for what an action does to each part
of an invariant; a theorem about a property follows from the invariant's theorem.

**Codec** (`SerdesSizeProofs`, from `Configs`): `MinimumIsEnough`,
`AcceptedIsAnswered`, `RefusalIsExact`: the size arithmetic in every configuration and
for every count, from the laws of integer division. `SerdesProofs` (from
`CfgsAssumption`, `ValuesAssumption` and `RowCountsAssumption`) carries them over to
the encoders: `SizesAsCalculated`, `CommandsAnswerable` and `RefusalsNecessary` prove
`SizeAsCalculated`, `CommandsAreAnswerable` and `RefusalsAreNecessary` for every
configuration and message. Their invariant `AsEncoded` says that a wire is the
frame of its message until it is altered. How long a frame is follows by
induction over its fields, each as long as its width says: `NatSetInduction` is an
induction over a set of numbers that contains 0 and the successor of each of its
members, which needs no operator parameter.

`CodecTypes` and `DecodingIsExact` prove `TypeOK` and `DecodesExactly`, `MessagesSurvive`
proves `RoundTrip`. They speak of bytes, and their lemmas have three layers. A number and
its bytes: `BytesOfNumber` (reading bytes and writing the number gives the bytes) and
`NumberOfBytes` (writing a number and reading it gives the number modulo the capacity of
the field), by induction over the bytes; `TotalWidth`, `FieldBytes` and `Number` are
recursive functions, of which `TotalWidthIs`, `FieldBytesIs` and `NumberIs` first show
that they satisfy their own equations. Pieces of a sequence: `FlattenPieces` and
`PiecesOfFlattened` say that pieces that touch, flattened, are the whole, and that a
flattened sequence can be cut into its members again. Then the same for a row of fields
(`FieldsOfBytes`, `FieldsOfEncoded`), for any number of rows (`RowsOfBytes`,
`RowsOfEncoded`), a body (`DecodedBody`, `EncodedBody`) and a frame (`DecodedExactly`,
`EncodedIsDecoded`, with `CodesDiffer`: no two of the 26 types have the same code).
`DecodesExactly` is not inductive, as it says nothing of a frame that is still to be
decoded; `CodecInv` adds that what has been decoded is what the frame decodes to, and
that the frame consists of bytes. `MessagesSurvive` assumes `LengthsFit`, that the length field of
each configuration can hold what `LengthType` can: without it the theorem is false, which
is the finding of `narrow_length`. `CountsSurviveIfTheyFit` proves, under the same
condition, the very property `CountsSurvive` that `narrow_length` refutes: so the condition
is all that the source lacks.

**Client and server over queues** (`RapLinkProofs`, from `CfgAssumption`,
`BoundsAssumption`, `OpsAssumption` and `ServerTimesOutAssumption`).

* `TypeCorrect`: `Spec => [](TypeOK /\ Numbered)`. Every variable has its type, and
  every call number found in a queue, in the worker's hands or in the history is
  that of a call begun.
* `OrderInvariant` and `InOrder`: `Spec => []PerformedInOrder`, the target carries
  out the commands of a thread at most once, in the order of its calls.
  `PerformedInOrder` speaks of the past only and is not inductive; `Lanes`
  strengthens it to the whole pipeline: for each thread, the numbers of its calls
  increase from what has been carried out through the command in the worker's
  hands and the queue up to the call being encoded. Each action moves a number
  one place along.
* `Survival`: `Spec => []WorkerSurvives`, for every configuration in `Configs`, the
  narrow length field included: only the two events it names make the worker
  throw. The invariant `Answerable` follows a command from `Send`, which only
  `encodeCommand`'s approval allows, through the queue and the worker's hands to
  its response; `AcceptedIsAnswered` then says that the response is not refused,
  and `ReadBackType` that the ACK of a read has as many elements as the
  command names.
* `TrueAnswers`: `Spec => []AnswerIsTheTargets`, an answered call reports what the
  target did for a command of the same id and type, whatever the timeouts and
  wraps. `Truthful` adds that each response in the queue or in the worker's hands
  is one the target gave.
* `LinkInvariant`: `Spec => []LinkInv`. To the above `LinkInv` adds that ids are the
  call numbers modulo `TxnMod` (`Stamped`), that exactly the calls whose threads are
  in them are pending (`Awaited`), that no accepted call is missing from the
  pipeline while the worker lives (`NoneMissing`), that responses keep the order of
  the calls of a thread (`ResponsesInLine`), and that with one thread whatever is in
  the pipeline belongs to a later call than there are calls that have taken a
  response (`Fresh`).
* `SettlesEarlier`: `Spec => []AnsweredSettlesEarlier`, from `NoneMissing`. The
  property is not inductive: that an earlier write has reached the target when an
  answer is taken depends on where the write could still be.
* `Staleness`: `Spec => []StaleOnlyAfterSlips`, from `Fresh`. How old the response
  at the head of the queue may be is a matter of how many calls have taken one,
  so the count must be carried through the whole pipeline.
* `OwnAcks`: `Spec => []AckIsOwn`, from `StaleOnlyAfterSlips` and `Stamped` by
  arithmetic: two call numbers less than `TxnMod` apart have different ids.
* `LinkImplementsService`: `MaxCalls <= TxnMod /\ CountsFit => (Spec =>
  ImplementsService)`. Every step is a step or a stutter of `RegisterService`. The
  first hypothesis says that no id is used twice, the second that the length field
  holds the number of elements of every operation, as it always does when it is as
  wide as `LengthType`; without either the refinement is false (`AckIsOwn`,
  `narrow_length`). `RegisterTarget` stands on this service and so on both.

**The queue** (`IpcTransportQueueProofs`, from `ConsumersAssumption` and
`MaxPushesAssumption`): `QueueTypeCorrect`; `QueueKeepsContract`, the
refinement of `SyncWireTransport`; `WakeupsAreCounted` and `NoLostWakeup`:
`Spec => []WakeupsCover`. That somebody is about to wake a sleeper is not inductive:
one who was about to may serve another buffer. `Covered` counts: unless a stop is
being carried out, there are as many notifications to come and woken consumers as
there are buffers. With an even smaller claim a woken consumer that times out
would break it, as it would in the code.

**UDP transport** (`UdpTransportProofs`, from `SizesAssumption`):
`UdpTypeCorrect`; `PhasesAgree`: `Spec => []Phases`, which says for each place the
worker can be in how the receive operation, the `io_context`, the stop callback and
the datagram in hand stand; `NothingOutlives`; and `UdpKeepsContract`, the
refinement of `SyncWireTransport`. The refinement needs `Phases` in one place above
all: `LeaveRecv` may return without a datagram only after a stop request, and what
shows this is that a stopped `io_context` without a datagram means that the
callback has run.

**The link over UDP** (`RapUdpLinkProofs`, from the assumptions of `RapLink` and
`MishapsAssumption`): `UdpInvariant`: `UdpSpec => []UdpInv`. Order is lost here, so
`Lanes` and what builds on it are not part of `UdpInv`; `Truthful` and `Stamped` are, and
from them follow `AnswersOverUdp` (`AnswerIsTheTargets`) and `OwnOrRound`
(`OwnOrARoundAway`). `OnlyCopiesRepeat` (`RepeatsAreCopies`) rests on `Unrepeated`,
which counts the whole pipeline and not only what has been carried out: the
commands in it are no more than the calls they belong to and the copies together.
`StaysInStep` (`InStepUnlessCopied`) rests on `InStep`: one datagram at most is on
its way, it is that of the call that waits, and a pending ICMP error has taken its
place.

**The methods** (`RegisterTargetProofs`, from `AddrsAssumption`,
`FeatureSetsAssumption`, `LengthTypeAssumption`, `MaxCallsAssumption` and
`MethodsAssumption`): `TargetInvariant`: `TargetSpec => []TargetInv`,
`TargetTypeCorrect`, and `AtMostOneBehind`: `TargetSpec => []LeavesAtMostOneBehind`. That
a call leaves one command behind at most is not inductive: it holds since all but
the last of its commands have been acknowledged (`InSequence`), since a call ends
as its last command was answered (`EndsAsAnswered`), and since what the service has
acknowledged it has done (`DoneInOrder`); `OneAfterTheOther` is what makes
`DoneInOrder` survive the next call. `InTouchOrder`: `TargetSpec => []TouchesInOrder`,
from the same invariant, for every method and in two halves, one for an update in
two commands (`UpdateTouches`) and one for the rest (`TouchedInOrder`). A direct
command whose count is cut is for the first elements (`DirectFirst`); where a method goes through its elements one by one,
from what a flattened sequence of singletons is (`FlattenSingles`, again by
`NatSetInduction`). It shows that `MethodsAssumption` has to say that a read comes
with no data: the property is false of one that does.

`KeepsUpdates`: `TargetSpec => []UpdatesKept`, from `UpdatesInvariant`
(`UpdatesInv`). That a call which has returned keeps its bits is not inductive for
two reasons. The bits are set when the last command is carried out (`Settled`), and
the call may return long after; and the second command of a fall-back
`readModifyWrite` writes a value that was read earlier. `UpdatesInv` therefore
speaks of the settled calls, and of what a later call in two commands has read:
the bits were in it. A command that can disturb them belongs to a call that may
follow (`MustFollow`), and such a call writes other bits, or is an excuse.

`FeaturesHidden`: `TargetSpec => []FeaturesDoNotShow`, from `MethodsInvariant`
(`MethodsInv`). It exempts calls that a cast cuts (`Lossless`), and must. The property speaks of states in which all calls have returned, and
the calls get there one command at a time. `MethodsInv` says what is true on the way
while a single thread calls and nothing has gone wrong (`Smooth`): the commands
carried out for the last call are its first ones, the registers are those after
the elements that these have seen to (`Reached`), on top of the calls before
(`StoreAfter`), and everything read is what those calls left. The step is
`NextElements`: the next command, direct or not, sees to the elements that are next
in turn. `StoreAfter` is a recursive function, of which `StoreAfterIs` shows by
induction that it satisfies its own equation.

`RegistersProofs` holds lemmas about the register operations that these proofs
need.

Only model-checked:

* the liveness properties (`Answered`, `StopEndsWorker`, `BuffersArrive`, `StopEndsPop`,
  `TimeoutEndsRecv`, `AnsweredUnlessLost`): fairness and `ENABLED` are out of the
  prover's reach.

## Not modelled, and the plan

Done: all modules above, and the proofs above: every safety property that a run
checks and expects to hold is proved, and so are both refinements of the transports'
contract and that of `RegisterService`.

The concept `IsConfigurationType` is not modelled: it is evaluated by the compiler
and has no state. Its requirements such as
`CfgType::AddressBytes <= sizeof(CfgType::AddressType)` are simple requirements, which
ask that the expression be valid and not that it be true; `Configs` is the set of
configurations that meet the requirements as they are meant. `CfgAssumption` and
`CfgsAssumption` ask for no more than a member of it.

Left out for good: the CRC polynomials (CRCpp), logging (YALF), formatting of
exception messages, name resolution, and the dissector, whose code displays
messages and takes no part in the protocol.
